---------------------------- MODULE Mutex_proofs ----------------------------
(***************************************************************************)
(* Safety of sc_mutex, for any set of processes, and of                    *)
(* scx_mutex_w_policy, for any set of processes and both policies.         *)
(***************************************************************************)
EXTENDS PolicyMutex, SequenceTheorems, TLAPS

-----------------------------------------------------------------------------
(* sc_mutex *)

\* The conjuncts of the invariant need one another: a sleeper can only be woken
\* into lock() again because it is not the owner, which MutualExclusion and the
\* last conjunct give.
IInv ==
  /\ TypeOK
  /\ MutualExclusion
  /\ NoSleeperLeftBehind
  /\ \A p \in Process : pc[p] # "ready" => p # owner

\* The invariant holds in the constructor's state.
LEMMA InitInv == Init => IInv
BY NoOneAssumption DEF Init, IInv, TypeOK, MutualExclusion, NoSleeperLeftBehind

\* The invariant is inductive.
LEMMA NextInv == IInv /\ [Next]_vars => IInv'
<1> SUFFICES ASSUME IInv, [Next]_vars PROVE IInv'
  OBVIOUS
<1> USE NoOneAssumption DEF IInv, TypeOK, MutualExclusion, NoSleeperLeftBehind
<1>1. ASSUME NEW p \in Process, Dispatch(p) PROVE IInv'
  BY <1>1 DEF Dispatch
<1>2. ASSUME NEW p \in Process, Leave(p) PROVE IInv'
  BY <1>2 DEF Leave
<1>3. ASSUME NEW p \in Process, Take(p) PROVE IInv'
  <2>1. owner = NoOne \/ owner = p
    BY <1>3 DEF Take, MayTake
  <2>2. holds' = {p} /\ owner' = p /\ pc' = [pc EXCEPT ![p] = "ready"] /\ cur' = p
    BY <1>3, <2>1 DEF Take
  <2>3. TypeOK'
    BY <2>2
  <2>4. MutualExclusion' /\ NoSleeperLeftBehind'
    BY <2>2
  <2>5. \A q \in Process : pc'[q] # "ready" => q # owner'
    BY <2>2
  <2> QED BY <2>3, <2>4, <2>5
<1>4. ASSUME NEW p \in Process, Sleep(p) PROVE IInv'
  <2>1. owner # NoOne /\ p # owner
    BY <1>4 DEF Sleep, MayTake
  <2>2. pc' = [pc EXCEPT ![p] = "asleep"] /\ cur' = NoOne /\ owner' = owner /\ holds' = holds
    BY <1>4 DEF Sleep, Suspended
  <2> QED BY <2>1, <2>2
<1>5. ASSUME NEW p \in Process, Unlock(p) PROVE IInv'
  <2>1. owner' = NoOne /\ cur' = p /\ holds' = {} /\ pc' = NotifyFree
    BY <1>5 DEF Unlock
  <2>2. \A q \in Process : pc'[q] \in {"ready", "woken"}
    BY <2>1 DEF NotifyFree
  <2>3. pc' \in [Process -> {"ready", "asleep", "woken"}]
    BY <2>1 DEF NotifyFree
  <2> QED BY <2>1, <2>2, <2>3
<1>6. CASE UNCHANGED vars
  BY <1>6 DEF vars
<1> QED BY <1>1, <1>2, <1>3, <1>4, <1>5, <1>6 DEF Next

\* The invariant holds throughout.
LEMMA InvHolds == Spec => []IInv
BY InitInv, NextInv, PTL DEF Spec

\* The type invariant, for any set of processes.
THEOREM TypeCorrect == Spec => []TypeOK
<1>1. IInv => TypeOK
  BY DEF IInv
<1> QED BY InvHolds, <1>1, PTL

\* sc_mutex.cpp, lock(), trylock() and unlock(): at most one process holds the
\* mutex, and m_owner is that process, whoever runs first after a notification.
THEOREM Exclusion == Spec => []MutualExclusion
<1>1. IInv => MutualExclusion
  BY DEF IInv
<1> QED BY InvHolds, <1>1, PTL

\* unlock() of sc_mutex.cpp notifies every sleeper, so no process sleeps on a
\* free mutex.
THEOREM NoLostUnlock == Spec => []NoSleeperLeftBehind
<1>1. IInv => NoSleeperLeftBehind
  BY DEF IInv
<1> QED BY InvHolds, <1>1, PTL

-----------------------------------------------------------------------------
(* scx_mutex_w_policy: lists of sleepers *)

\* RemoveAt takes exactly one element off a sequence without repetitions.
LEMMA RemoveOne ==
  ASSUME NEW S, NEW s \in Seq(S), NEW i \in 1..Len(s), IsInjective(s)
  PROVE  /\ RemoveAt(s, i) \in Seq(S)
         /\ IsInjective(RemoveAt(s, i))
         /\ Range(RemoveAt(s, i)) = Range(s) \ {s[i]}
<1> DEFINE r == RemoveAt(s, i)
      front == SubSeq(s, 1, i - 1)
      back  == SubSeq(s, i + 1, Len(s))
<1>f. /\ front \in Seq(S) /\ Len(front) = i - 1
      /\ \A j \in 1..i-1 : front[j] = s[j]
  <2>1. \A j \in 1..i-1 : s[j] \in S
    OBVIOUS
  <2>2. /\ front \in Seq(S) /\ Len(front) = IF 1 <= i - 1 THEN i - 1 - 1 + 1 ELSE 0
        /\ \A j \in 1..i-1-1+1 : front[j] = s[1+j-1]
    BY <2>1, SubSeqProperties
  <2> QED BY <2>2
<1>b. /\ back \in Seq(S) /\ Len(back) = Len(s) - i
      /\ \A j \in 1..Len(s)-i : back[j] = s[i + j]
  <2>1. \A j \in i+1..Len(s) : s[j] \in S
    OBVIOUS
  <2>2. /\ back \in Seq(S) /\ Len(back) = IF i + 1 <= Len(s) THEN Len(s) - (i + 1) + 1 ELSE 0
        /\ \A j \in 1..Len(s)-(i+1)+1 : back[j] = s[i+1+j-1]
    BY <2>1, SubSeqProperties
  <2> QED BY <2>2
<1>c. /\ r \in Seq(S) /\ Len(r) = Len(front) + Len(back)
      /\ \A j \in 1..Len(front) + Len(back) :
           r[j] = IF j <= Len(front) THEN front[j] ELSE back[j - Len(front)]
  <2>1. r = front \o back
    BY DEF RemoveAt
  <2> HIDE DEF r, front, back
  <2> QED BY <2>1, <1>f, <1>b, ConcatProperties
<1> HIDE DEF r, front, back
<1>1. r \in Seq(S) /\ Len(r) = Len(s) - 1
  BY <1>f, <1>b, <1>c
<1>2. ASSUME NEW j \in 1..Len(s)-1 PROVE r[j] = IF j < i THEN s[j] ELSE s[j + 1]
  <2>1. Len(s) \in Nat /\ j \in 1..Len(front) + Len(back) /\ (j <= Len(front) <=> j < i)
    BY <1>f, <1>b
  <2>2. r[j] = IF j <= Len(front) THEN front[j] ELSE back[j - Len(front)]
    BY <2>1, <1>c
  <2>3. CASE j < i
    BY <2>1, <2>2, <2>3, <1>f
  <2>4. CASE ~(j < i)
    <3>1. j - Len(front) \in 1..Len(s)-i /\ i + (j - Len(front)) = j + 1
      BY <2>1, <2>4, <1>f
    <3> QED BY <3>1, <2>1, <2>2, <2>4, <1>b
  <2> QED BY <2>3, <2>4
<1>3. DOMAIN r = 1..Len(s)-1 /\ DOMAIN s = 1..Len(s)
  BY <1>1
<1>4. IsInjective(r)
  <2> SUFFICES ASSUME NEW a \in 1..Len(s)-1, NEW b \in 1..Len(s)-1, r[a] = r[b] PROVE a = b
    BY <1>3 DEF IsInjective
  <2>1. \A c, d \in 1..Len(s) : s[c] = s[d] => c = d
    BY <1>3 DEF IsInjective
  <2> QED BY <1>2, <2>1
<1>5. Range(r) = Range(s) \ {s[i]}
  <2>1. ASSUME NEW j \in 1..Len(s)-1 PROVE r[j] \in Range(s) \ {s[i]}
    <3>1. \A c \in 1..Len(s) : s[c] = s[i] => c = i
      BY <1>3 DEF IsInjective
    <3>2. PICK c \in 1..Len(s) : c # i /\ r[j] = s[c]
      BY <1>2
    <3> QED BY <3>1, <3>2, <1>3 DEF Range
  <2>2. ASSUME NEW c \in 1..Len(s), s[c] # s[i] PROVE s[c] \in Range(r)
    <3>1. CASE c < i
      <4>1. c \in 1..Len(s)-1 /\ r[c] = s[c]
        BY <3>1, <1>2
      <4> QED BY <4>1, <1>3 DEF Range
    <3>2. CASE c > i
      <4>1. c - 1 \in 1..Len(s)-1 /\ r[c - 1] = s[c]
        BY <3>2, <1>2
      <4> QED BY <4>1, <1>3 DEF Range
    <3> QED BY <2>2, <3>1, <3>2
  <2> QED BY <2>1, <2>2, <1>3 DEF Range
<1> QED BY <1>1, <1>4, <1>5 DEF r

\* Append adds a new element to a sequence without repetitions.
LEMMA AppendNew ==
  ASSUME NEW S, NEW s \in Seq(S), NEW e \in S, IsInjective(s), e \notin Range(s)
  PROVE  /\ Append(s, e) \in Seq(S)
         /\ IsInjective(Append(s, e))
         /\ Range(Append(s, e)) = Range(s) \union {e}
<1> DEFINE r == Append(s, e)
<1>1. /\ r \in Seq(S) /\ DOMAIN r = 1..Len(s)+1 /\ DOMAIN s = 1..Len(s)
      /\ \A j \in 1..Len(s) : r[j] = s[j]
      /\ r[Len(s)+1] = e
  OBVIOUS
<1>2. IsInjective(r)
  BY <1>1 DEF IsInjective, Range
<1>3. Range(r) = Range(s) \union {e}
  <2>1. ASSUME NEW j \in 1..Len(s)+1 PROVE r[j] \in Range(s) \union {e}
    <3>1. CASE j = Len(s) + 1
      BY <3>1, <1>1
    <3>2. CASE j \in 1..Len(s)
      BY <3>2, <1>1 DEF Range
    <3> QED BY <3>1, <3>2
  <2>2. ASSUME NEW j \in 1..Len(s) PROVE s[j] \in Range(r)
    BY <1>1 DEF Range
  <2>3. e \in Range(r)
    BY <1>1 DEF Range
  <2> QED BY <2>1, <2>2, <2>3, <1>1 DEF Range
<1> QED BY <1>1, <1>2, <1>3

-----------------------------------------------------------------------------
(* scx_mutex_w_policy: the invariant *)

PolicyTypeOK ==
  /\ owner \in Process \union {NoOne} /\ cur \in Process \union {NoOne}
  /\ holds \subseteq Process
  /\ pc \in [Process -> {"ready", "asleep", "woken"}]
  /\ event_list \in Seq(Process)

\* ListIsTheSleepers makes unlock() wake a process that sleeps; ChainUnbroken
\* needs no more than that and the type.
PolicyInv == PolicyTypeOK /\ ListIsTheSleepers /\ ChainUnbroken

Asleep == {p \in Process : pc[p] = "asleep"}

\* The invariant holds in the constructor's state.
LEMMA PolicyInitInv == PolicyInit => PolicyInv
<1> SUFFICES ASSUME PolicyInit PROVE PolicyInv
  OBVIOUS
<1>1. Range(event_list) = {} /\ IsInjective(event_list)
  BY DEF PolicyInit, Init, Range, IsInjective
<1> QED BY <1>1, NoOneAssumption
        DEF PolicyInit, Init, PolicyInv, PolicyTypeOK, ListIsTheSleepers, ChainUnbroken

\* The invariant is inductive.
LEMMA PolicyNextInv == PolicyInv /\ [PolicyNext]_policyVars => PolicyInv'
<1> SUFFICES ASSUME PolicyInv, [PolicyNext]_policyVars PROVE PolicyInv'
  OBVIOUS
<1> USE NoOneAssumption DEF PolicyInv, PolicyTypeOK, ListIsTheSleepers, ChainUnbroken
<1>1. ASSUME NEW p \in Process, PolicyDispatch(p) PROVE PolicyInv'
  BY <1>1 DEF PolicyDispatch, Dispatch
<1>2. ASSUME NEW p \in Process, PolicyLeave(p) PROVE PolicyInv'
  BY <1>2 DEF PolicyLeave, Leave
<1>3. ASSUME NEW p \in Process, PolicyTake(p) PROVE PolicyInv'
  <2>1. /\ pc[p] # "asleep" /\ owner' = p /\ holds' = holds \union {p} /\ cur' = cur
        /\ pc' = [pc EXCEPT ![p] = "ready"] /\ event_list' = event_list
    BY <1>3 DEF PolicyTake
  <2>2. Asleep' = Asleep
    BY <2>1 DEF Asleep
  <2> QED BY <2>1, <2>2 DEF Asleep
<1>4. ASSUME NEW p \in Process, PolicySleep(p) PROVE PolicyInv'
  <2>1. /\ pc[p] = "ready" /\ owner # NoOne /\ owner' = owner /\ holds' = holds /\ cur' = NoOne
        /\ pc' = [pc EXCEPT ![p] = "asleep"] /\ event_list' = Append(event_list, p)
    BY <1>4 DEF PolicySleep
  <2>2. p \notin Range(event_list)
    BY <2>1
  <2>3. /\ event_list' \in Seq(Process) /\ IsInjective(event_list')
        /\ Range(event_list') = Range(event_list) \union {p}
    BY <2>1, <2>2, AppendNew
  <2>4. Asleep' = Asleep \union {p}
    BY <2>1 DEF Asleep
  <2>5. PolicyTypeOK' /\ ChainUnbroken'
    BY <2>1, <2>3
  <2>6. ListIsTheSleepers'
    BY <2>1, <2>3, <2>4 DEF Asleep
  <2> QED BY <2>5, <2>6
<1>5. ASSUME NEW p \in Process, PolicyUnlock(p) PROVE PolicyInv'
  <2>1. pc[p] = "ready" /\ owner' = NoOne /\ holds' = holds \ {p} /\ cur' = cur
    BY <1>5 DEF PolicyUnlock
  <2>2. CASE NextEvent = {} /\ UNCHANGED <<pc, event_list>>
    <3>1. event_list = << >>
      <4> SUFFICES ASSUME event_list # << >> PROVE FALSE
        OBVIOUS
      <4>1. Len(event_list) \in Nat \ {0} /\ DOMAIN event_list = 1..Len(event_list)
        BY EmptySeq
      <4>2. NextEvent # {}
        BY <4>1 DEF NextEvent
      <4> QED BY <4>2, <2>2
    <3> QED BY <3>1, <2>1, <2>2
  <2>3. ASSUME NEW i \in NextEvent, event_list' = Remaining(i),
               pc' = [pc EXCEPT ![event_list[i]] = "woken"]
        PROVE  PolicyInv'
    <3>1. i \in 1..Len(event_list)
      BY EmptySeq DEF NextEvent
    <3> DEFINE q == event_list[i]
    <3>2. q \in Process
      BY <3>1
    <3>3. /\ event_list' \in Seq(Process) /\ IsInjective(event_list')
          /\ Range(event_list') = Range(event_list) \ {q}
      BY <3>1, <2>3, RemoveOne DEF Remaining
    <3>4. Asleep' = Asleep \ {q}
      BY <3>2, <2>3 DEF Asleep
    <3>5. pc'[q] = "woken"
      BY <3>2, <2>3
    <3>6. PolicyTypeOK' /\ ChainUnbroken'
      BY <2>1, <2>3, <3>2, <3>3, <3>5
    <3>7. ListIsTheSleepers'
      BY <2>1, <3>3, <3>4 DEF Asleep
    <3> QED BY <3>6, <3>7
  <2> QED BY <1>5, <2>2, <2>3 DEF PolicyUnlock
<1>6. ASSUME NEW p \in Process, UnlockRefused(p) PROVE PolicyInv'
  BY <1>6 DEF UnlockRefused
<1>7. CASE UNCHANGED policyVars
  BY <1>7 DEF policyVars
<1> QED BY <1>1, <1>2, <1>3, <1>4, <1>5, <1>6, <1>7 DEF PolicyNext

\* The invariant holds throughout.
LEMMA PolicyInvHolds == PolicySpec => []PolicyInv
BY PolicyInitInv, PolicyNextInv, PTL DEF PolicySpec

\* lock() and unlock() of mutex_policy_main.cpp: the list names the events of
\* exactly the waiting lock() calls, each once, under both policies, so that no
\* event on it is dangling.
THEOREM ListExact == PolicySpec => []ListIsTheSleepers
<1>1. PolicyInv => ListIsTheSleepers
  BY DEF PolicyInv
<1> QED BY PolicyInvHolds, <1>1, PTL

\* unlock() of mutex_policy_main.cpp wakes one sleeper only, yet sleepers never
\* remain with the mutex free and nobody woken.
THEOREM ChainHolds == PolicySpec => []ChainUnbroken
<1>1. PolicyInv => ChainUnbroken
  BY DEF PolicyInv
<1> QED BY PolicyInvHolds, <1>1, PTL
=============================================================================
