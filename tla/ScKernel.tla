------------------------------- MODULE ScKernel -------------------------------
(***************************************************************************)
(* The part of the SystemC kernel a model stands on: event notification    *)
(* (sc_event.cpp), dynamic and static sensitivity, the run queues          *)
(* (sc_runnable_int.h) and the delta and timed notification phases         *)
(* (sc_simcontext.cpp), as operators on one record `k':                    *)
(*                                                                         *)
(*   k.pend[e]    what is pending on event e: NotPending, 0 for a delta    *)
(*                notification, or the time left of a timed one            *)
(*   k.methods_dynamic[e], k.threads_dynamic[e]                            *)
(*                the methods and the threads waiting for e, in order of   *)
(*                arrival                                                  *)
(*   k.runnable   the processes that may run                               *)
(*   k.cur        the process in execution, or Nobody                      *)
(*   k.update     the primitive channels to update, latest request first   *)
(*   k.delta, k.methods, k.threads, k.pop, k.turn                          *)
(*                the order of the delta events and of the run queues;     *)
(*                kept only when ExactOrder                                *)
(*                                                                         *)
(* Times are relative, so that a state does not contain the age of the     *)
(* simulation.  IEEE 1666 leaves the order of processes open; ExactOrder   *)
(* is the order this kernel uses.                                          *)
(***************************************************************************)
EXTENDS Integers, SequencesExt

CONSTANTS
  Process, Thread,     \* all processes; those that are SC_THREADs
  Event,               \* all events
  Timeout,             \* Timeout[p]: the event of process p's own timed waits
  StaticMethods,       \* StaticMethods[e]: the methods statically sensitive to e
  ExactOrder           \* TRUE: this kernel's order; FALSE: any order

NotPending == -1
Nobody == <<"nobody", 0>>

-----------------------------------------------------------------------------
(* Run queues *)

\* A process becomes runnable: push_back_method or push_back_thread.
Push(k, p) ==
  LET ready == [k EXCEPT !.runnable = @ \union {p}] IN
  IF ~ExactOrder THEN ready
  ELSE IF p \in Thread THEN [ready EXCEPT !.threads = Append(@, p)]
  ELSE [ready EXCEPT !.methods = Append(@, p)]

\* The batch being popped: what is left of the one taken last, or else the
\* other push queue (toggle_methods, toggle_threads), or else the same again.
Batch(k) ==
  CASE k.pop # << >> -> [turn |-> k.turn, list |-> k.pop]
    [] k.pop = << >> /\ k.threads # << >> /\ (k.turn = "methods" \/ k.methods = << >>)
                     -> [turn |-> "threads", list |-> k.threads]
    [] OTHER         -> [turn |-> "methods", list |-> k.methods]

\* The processes the kernel may run next.
MayRun(k) ==
  IF k.cur # Nobody \/ k.runnable = {} THEN {}
  ELSE IF ExactOrder THEN {Head(Batch(k).list)} ELSE k.runnable

\* Process p leaves the queue and gets the processor.
Run(k, p) ==
  LET b == Batch(k) IN
  IF ExactOrder
    THEN [k EXCEPT !.cur = p, !.runnable = @ \ {p}, !.turn = b.turn, !.pop = Tail(b.list),
                   !.methods = IF k.pop = << >> /\ b.turn = "methods" THEN << >> ELSE @,
                   !.threads = IF k.pop = << >> /\ b.turn = "threads" THEN << >> ELSE @]
    ELSE [k EXCEPT !.cur = p, !.runnable = @ \ {p}]

-----------------------------------------------------------------------------
(* Events *)

AddDelta(k, e) ==
  IF ExactOrder THEN [k EXCEPT !.pend[e] = 0, !.delta = Append(@, e)]
  ELSE [k EXCEPT !.pend[e] = 0]

\* sc_event::notify(t): of two pending notifications only the earlier is kept.
Notify(k, e, t) ==
  CASE k.pend[e] = 0 -> k
    [] k.pend[e] # 0 /\ t = 0 -> AddDelta(k, e)
    [] k.pend[e] # 0 /\ t > 0 /\ k.pend[e] # NotPending /\ k.pend[e] <= t -> k
    [] OTHER -> [k EXCEPT !.pend[e] = t]

Waiters(k, e) == Range(k.methods_dynamic[e]) \union Range(k.threads_dynamic[e])

\* No dynamic wait: the process is subject to its static sensitivity.
Unwaiting(k, p) == \A e \in DOMAIN k.pend : p \notin Waiters(k, e)

\* trigger_static: of the methods that may run and are not already about to.
TriggerStatic(k, p) ==
  IF Unwaiting(k, p) /\ p \notin k.runnable /\ p # k.cur THEN Push(k, p) ELSE k

\* trigger_dynamic: the processes here wait for one event, or one time, at once,
\* so there is no other event and no timeout to withdraw.
TriggerDynamic(k, p) == IF p \in k.runnable THEN k ELSE Push(k, p)

\* The loop over dynamic waiters moves the last one into the place of one it
\* removes: those after the first are served from the last one back.
Served(w) == IF w = << >> THEN w ELSE <<Head(w)>> \o Reverse(Tail(w))

\* sc_event::trigger: static methods from last to first, then the waiting
\* methods, then the waiting threads.
Trigger(k, e) ==
  LET k1 == FoldLeft(TriggerStatic, [k EXCEPT !.pend[e] = NotPending], Reverse(StaticMethods[e]))
      k2 == [k1 EXCEPT !.methods_dynamic[e] = << >>, !.threads_dynamic[e] = << >>]
  IN  FoldLeft(TriggerDynamic, k2, Served(k.methods_dynamic[e]) \o Served(k.threads_dynamic[e]))

-----------------------------------------------------------------------------
(* What a process does when it stops running *)

Yield(k) == [k EXCEPT !.cur = Nobody]

\* next_trigger(e), or the sensitivity half of wait(e).
NextTrigger(k, p, e) ==
  IF p \in Thread THEN [k EXCEPT !.threads_dynamic[e] = Append(@, p)]
                  ELSE [k EXCEPT !.methods_dynamic[e] = Append(@, p)]

\* next_trigger(t): the process's own timeout event is notified.
NextTriggerTime(k, p, t) == NextTrigger(Notify(k, Timeout[p], t), p, Timeout[p])

Wait(k, p, e)     == Yield(NextTrigger(k, p, e))
WaitTime(k, p, t) == Yield(NextTriggerTime(k, p, t))

-----------------------------------------------------------------------------
(* The phases between evaluations *)

RequestUpdate(k, ch) ==
  IF ch \in Range(k.update) THEN k ELSE [k EXCEPT !.update = <<ch>> \o @]

Evaluated(k) == k.cur = Nobody /\ k.runnable = {}

DeltaPending(k) == {e \in DOMAIN k.pend : k.pend[e] = 0}
TimedPending(k) == {e \in DOMAIN k.pend : k.pend[e] > 0}

\* The next evaluation phase begins with the methods, whatever was popped last.
NextPhase(k) == [k EXCEPT !.turn = "threads"]

\* Faulty: the events are triggered from the first one added.
TriggerDeltaMutant(k) ==
  FoldLeft(Trigger, [NextPhase(k) EXCEPT !.delta = << >>],
           IF ExactOrder THEN k.delta ELSE SetToSeq(DeltaPending(k)))
\* The delta notification phase triggers the events from the last one added.
TriggerDelta(k) ==
  FoldLeft(Trigger, [NextPhase(k) EXCEPT !.delta = << >>],
           IF ExactOrder THEN Reverse(k.delta) ELSE SetToSeq(DeltaPending(k)))

NextTime(k) == CHOOSE d \in {k.pend[e] : e \in TimedPending(k)} :
                 \A e \in TimedPending(k) : d <= k.pend[e]

\* Time advances by d and the events due then are triggered in the order `due',
\* which the timed event heap leaves open.
TriggerTimed(k, d, due) ==
  FoldLeft(Trigger,
           [NextPhase(k) EXCEPT !.pend =
              [e \in DOMAIN k.pend |-> IF k.pend[e] > 0 THEN k.pend[e] - d ELSE k.pend[e]]],
           due)

DueAt(k, d) == {e \in DOMAIN k.pend : k.pend[e] = d}

InitKernel(ready) ==
  FoldLeft(Push,
           [pend |-> [e \in Event |-> NotPending],
            methods_dynamic |-> [e \in Event |-> << >>], threads_dynamic |-> [e \in Event |-> << >>],
            runnable |-> {}, cur |-> Nobody, update |-> << >>,
            delta |-> << >>, methods |-> << >>, threads |-> << >>, pop |-> << >>,
            turn |-> "threads"],
           ready)
=============================================================================
