----------------------------- MODULE PolicyMutex -----------------------------
(***************************************************************************)
(* scx_mutex_w_policy: an sc_mutex whose unlock() wakes one sleeper of its *)
(* event_list, the oldest (FIFO) or any (RANDOM).  Its lock() waits at     *)
(* most once, and takes the mutex when it is woken whatever has happened   *)
(* since.  The processes, their wakeups and the owner are those of ScMutex *)
(* (its Init, Dispatch and Leave); lock() and unlock() are its own.        *)
(***************************************************************************)
EXTENDS ScMutex, SequencesExt

VARIABLES
  event_list,    \* the sleepers, by the order of their lock()
  policy         \* chosen at construction

policyVars == <<owner, pc, cur, holds, event_list, policy>>

PolicyInit == Init /\ event_list = << >> /\ policy \in {"FIFO", "RANDOM"}

PolicyDispatch(p) == Dispatch(p) /\ UNCHANGED <<event_list, policy>>

PolicyLeave(p) == Leave(p) /\ UNCHANGED <<event_list, policy>>

\* lock() of a free mutex, and the end of lock() after its wait.
PolicyTake(p) ==
  /\ cur = p
  /\ \/ pc[p] = "ready" /\ p \notin holds /\ owner = NoOne
     \/ pc[p] = "woken"
  /\ owner' = p
  /\ holds' = holds \union {p}
  /\ pc' = [pc EXCEPT ![p] = "ready"]
  /\ UNCHANGED <<cur, event_list, policy>>

\* lock() of a mutex in use.  (A caller that holds it would wait for itself.)
PolicySleep(p) ==
  /\ cur = p /\ pc[p] = "ready" /\ p \notin holds /\ owner # NoOne
  /\ pc' = [pc EXCEPT ![p] = "asleep"]
  /\ event_list' = Append(event_list, p)
  /\ cur' = NoOne
  /\ UNCHANGED <<owner, holds, policy>>

\* Faulty: the list is used as a stack.
NextEventMutant == IF event_list = << >> THEN {} ELSE {Len(event_list)}
\* Faulty: unlock() wakes nobody.
NextEventNoneMutant == {}
\* next_event: the places of event_list it may take.
NextEvent ==
  IF event_list = << >> THEN {} ELSE IF policy = "FIFO" THEN {1} ELSE DOMAIN event_list

\* Faulty: a sleeper is taken off the list only once it runs.
RemainingMutant(i) == event_list
Remaining(i) == RemoveAt(event_list, i)

\* unlock() by the owner wakes one sleeper.
PolicyUnlock(p) ==
  /\ cur = p /\ pc[p] = "ready" /\ p \in holds /\ owner = p
  /\ owner' = NoOne
  /\ holds' = holds \ {p}
  /\ \/ NextEvent = {} /\ UNCHANGED <<pc, event_list>>
     \/ \E i \in NextEvent :
          /\ pc' = [pc EXCEPT ![event_list[i]] = "woken"]
          /\ event_list' = Remaining(i)
  /\ UNCHANGED <<cur, policy>>

\* unlock() by a holder that is no longer the owner returns -1.
UnlockRefused(p) ==
  /\ cur = p /\ pc[p] = "ready" /\ p \in holds /\ owner # p
  /\ holds' = holds \ {p}
  /\ UNCHANGED <<owner, pc, cur, event_list, policy>>

PolicyNext ==
  \E p \in Process :
    \/ PolicyDispatch(p) \/ PolicyLeave(p)
    \/ PolicyTake(p) \/ PolicySleep(p) \/ PolicyUnlock(p) \/ UnlockRefused(p)

\* As in ScMutex.
PolicyFairness ==
  \A p \in Process :
    /\ SF_policyVars(PolicyDispatch(p)) /\ SF_policyVars(PolicyUnlock(p))
    /\ WF_policyVars(PolicyLeave(p) \/ PolicySleep(p))
    /\ WF_policyVars(pc[p] = "woken" /\ PolicyTake(p))

PolicySpec == PolicyInit /\ [][PolicyNext]_policyVars /\ PolicyFairness

-----------------------------------------------------------------------------
\* event_list holds every sleeper exactly once and nobody else, so that each
\* event on it is that of a lock() still waiting; the owner is a holder.
ListIsTheSleepers ==
  /\ IsInjective(event_list)
  /\ Range(event_list) = {p \in Process : pc[p] = "asleep"}
  /\ owner # NoOne => owner \in holds

\* While processes sleep, the mutex is owned or one that was woken is on its way:
\* the wakeup chain from unlock() to unlock() never breaks.
ChainUnbroken ==
  event_list # << >> => owner # NoOne \/ \E p \in Process : pc[p] = "woken"

\* What sc_mutex_if.h promises of lock(), "blocks until mutex could be locked".
OneHolder == \A p, q \in holds : p = q

\* Under the FIFO policy every sleeper gets the mutex in the end.
NoStarvation == \A p \in Process : policy = "FIFO" /\ pc[p] = "asleep" ~> p \in holds
=============================================================================
