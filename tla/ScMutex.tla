------------------------------- MODULE ScMutex -------------------------------
(***************************************************************************)
(* sc_mutex and the processes that use it.  A process runs until it waits: *)
(* in lock(), on m_free, or elsewhere (Leave).  m_free.notify() is         *)
(* immediate and makes every sleeper runnable; which of them, or of the    *)
(* processes that come anew, runs first is left open.                      *)
(***************************************************************************)
EXTENDS Naturals

CONSTANTS Process, NoOne

ASSUME NoOneAssumption == NoOne \notin Process

VARIABLES
  owner,   \* m_owner
  pc,      \* pc[p]: "ready", or inside lock(): "asleep" on m_free, "woken" from it
  cur,     \* the process in execution, or NoOne
  holds    \* the processes a lock() or trylock() has returned 0 to since their last unlock()

vars == <<owner, pc, cur, holds>>

Init ==
  /\ owner = NoOne /\ cur = NoOne /\ holds = {}
  /\ pc = [p \in Process |-> "ready"]

Dispatch(p) ==
  /\ cur = NoOne /\ pc[p] # "asleep"
  /\ cur' = p
  /\ UNCHANGED <<owner, pc, holds>>

\* The process waits for something else, and is resumed some time later.
Leave(p) ==
  /\ cur = p /\ pc[p] = "ready"
  /\ cur' = NoOne
  /\ UNCHANGED <<owner, pc, holds>>

\* Faulty: the waiting of lock() is an `if', not a `while'.
MayTakeMutant(p) == owner = NoOne \/ pc[p] = "woken" \/ owner = p
\* The loop of lock() ends, and trylock() succeeds, when the mutex is free; its
\* owner is let through at the call.
MayTake(p) == owner = NoOne \/ (pc[p] = "ready" /\ owner = p)

Take(p) ==
  /\ cur = p /\ MayTake(p)
  /\ owner' = p
  /\ holds' = holds \union {p}
  /\ pc' = [pc EXCEPT ![p] = "ready"]
  /\ UNCHANGED cur

\* Faulty: the process that waits is not suspended.
SuspendedMutant == cur
Suspended == NoOne

\* lock() waits, at the call or again after a wakeup.
Sleep(p) ==
  /\ cur = p /\ ~MayTake(p)
  /\ pc' = [pc EXCEPT ![p] = "asleep"]
  /\ cur' = Suspended
  /\ UNCHANGED <<owner, holds>>

\* Faulty: the sleepers are not notified.
NotifyFreeMutant == pc
\* m_free.notify()
NotifyFree == [p \in Process |-> IF pc[p] = "asleep" THEN "woken" ELSE pc[p]]

\* unlock() by the owner; by any other process it changes nothing, as a
\* trylock() that returns -1.
Unlock(p) ==
  /\ cur = p /\ pc[p] = "ready" /\ owner = p
  /\ owner' = NoOne
  /\ holds' = holds \ {p}
  /\ pc' = NotifyFree
  /\ UNCHANGED cur

Next == \E p \in Process : Dispatch(p) \/ Leave(p) \/ Take(p) \/ Sleep(p) \/ Unlock(p)

\* The run queue is first in, first out: a process that can be dispatched again
\* and again is, and the running process comes to a wait.  Clients give the mutex back.
Fairness ==
  \A p \in Process :
    /\ SF_vars(Dispatch(p)) /\ SF_vars(Unlock(p))
    /\ WF_vars(Leave(p) \/ Sleep(p)) /\ WF_vars(pc[p] = "woken" /\ Take(p))

Spec == Init /\ [][Next]_vars /\ Fairness

-----------------------------------------------------------------------------
\* The values the variables take; only processes inside lock() are not ready.
TypeOK ==
  /\ owner \in Process \union {NoOne} /\ cur \in Process \union {NoOne}
  /\ pc \in [Process -> {"ready", "asleep", "woken"}]
  /\ holds \subseteq Process
  /\ cur # NoOne => pc[cur] # "asleep"

\* "blocks until mutex could be locked" (sc_mutex_if.h): the one process that
\* believes it holds the mutex is m_owner, and nobody does while it is free.
MutualExclusion == holds = IF owner = NoOne THEN {} ELSE {owner}

\* No sleeper is left behind: nobody sleeps on m_free while the mutex is free.
NoSleeperLeftBehind == owner = NoOne => \A p \in Process : pc[p] # "asleep"

\* Every sleeper is woken again and again until it gets the mutex (which of them
\* does is left open: lock() promises no order).
EverySleeperWoken == \A p \in Process : pc[p] = "asleep" ~> pc[p] = "woken"
=============================================================================
