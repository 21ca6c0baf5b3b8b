----------------------- MODULE TrafficGenerator_proofs -----------------------
(***************************************************************************)
(* What the proofs about the two platforms share: sequences without        *)
(* repetitions, the kernel that runs the processes, and the traffic        *)
(* generator with its pool and its two fifos.                              *)
(***************************************************************************)
EXTENDS TrafficGenerator, SequenceTheorems, FiniteSetTheorems, FunctionTheorems, TLAPS

\* Sequences over S in which nothing occurs twice.
Line(S) == {s \in Seq(S) : IsInjective(s)}

\* A set of numbers has a least one.
LEMMA Least ==
  ASSUME NEW T \in SUBSET Nat, T # {}
  PROVE  \E x \in T : \A y \in T : x <= y
<1>1. IsWellFoundedOn(OpToRel(<, Nat), Nat)
  BY NatLessThanWellFounded, Zenon
<1>2. PICK x \in T : \A y \in T : ~(<<y, x>> \in OpToRel(<, Nat))
  <2> HIDE DEF OpToRel
  <2> QED BY <1>1, WFMin, Zenon
<1>3. \A y \in T : ~(y < x)
  BY <1>2, Zenon DEF OpToRel
<1> QED BY <1>3

\* Taking the head off a line.
LEMMA TailOfLine ==
  ASSUME NEW S, NEW s \in Line(S), s # << >>
  PROVE  /\ Head(s) \in S /\ Head(s) \in Range(s)
         /\ Tail(s) \in Line(S) /\ Len(Tail(s)) = Len(s) - 1
         /\ Range(Tail(s)) = Range(s) \ {Head(s)}
<1>1. /\ Head(s) \in S /\ Tail(s) \in Seq(S) /\ Len(s) \in Nat \ {0}
      /\ Len(Tail(s)) = Len(s) - 1 /\ \A i \in 1..Len(s)-1 : Tail(s)[i] = s[i+1]
  BY HeadTailProperties, EmptySeq DEF Line
<1>2. DOMAIN s = 1..Len(s) /\ DOMAIN Tail(s) = 1..Len(s)-1 /\ Head(s) = s[1]
  BY <1>1 DEF Line
<1>3. \A a, b \in 1..Len(s) : s[a] = s[b] => a = b
  BY <1>2 DEF Line, IsInjective
<1>4. IsInjective(Tail(s))
  <2> SUFFICES ASSUME NEW a \in 1..Len(s)-1, NEW b \in 1..Len(s)-1, Tail(s)[a] = Tail(s)[b]
               PROVE  a = b
    BY <1>2 DEF IsInjective
  <2>1. a + 1 \in 1..Len(s) /\ b + 1 \in 1..Len(s)
    BY <1>1
  <2>2. a + 1 = b + 1
    BY <2>1, <1>1, <1>3
  <2> QED BY <2>2
<1>5. Range(Tail(s)) = Range(s) \ {Head(s)}
  <2>1. ASSUME NEW x \in Range(Tail(s)) PROVE x \in Range(s) \ {Head(s)}
    <3>1. PICK i \in 1..Len(s)-1 : Tail(s)[i] = x
      BY <1>2 DEF Range
    <3>2. i + 1 \in 1..Len(s) /\ 1 \in 1..Len(s) /\ s[i+1] = x /\ i + 1 # 1
      BY <3>1, <1>1
    <3> QED BY <3>2, <1>2, <1>3 DEF Range
  <2>2. ASSUME NEW x \in Range(s), x # Head(s) PROVE x \in Range(Tail(s))
    <3>1. PICK i \in 1..Len(s) : s[i] = x
      BY <1>2 DEF Range
    <3>2. i # 1
      BY <3>1, <2>2, <1>2
    <3>3. i - 1 \in 1..Len(s)-1 /\ (i - 1) + 1 = i
      BY <3>1, <3>2, <1>1
    <3>4. Tail(s)[i-1] = x
      BY <3>1, <3>3, <1>1
    <3> QED BY <3>3, <3>4, <1>2, Zenon DEF Range
  <2> QED BY <2>1, <2>2
<1>6. Head(s) \in Range(s)
  BY <1>1, <1>2 DEF Range
<1> QED BY <1>1, <1>4, <1>5, <1>6 DEF Line

\* Appending a new element to a line.
LEMMA AppendToLine ==
  ASSUME NEW S, NEW s \in Line(S), NEW e \in S, e \notin Range(s)
  PROVE  /\ Append(s, e) \in Line(S) /\ Len(Append(s, e)) = Len(s) + 1
         /\ Range(Append(s, e)) = Range(s) \union {e}
<1> DEFINE r == Append(s, e)
<1>1. /\ r \in Seq(S) /\ Len(r) = Len(s) + 1 /\ Len(s) \in Nat
      /\ \A i \in 1..Len(s) : r[i] = s[i] 
      /\ r[Len(s)+1] = e
  BY AppendProperties DEF Line
<1>2. DOMAIN r = 1..Len(s)+1 /\ DOMAIN s = 1..Len(s)
  BY <1>1 DEF Line
<1> HIDE DEF r
<1>3. \A a, b \in 1..Len(s) : s[a] = s[b] => a = b
  BY <1>2 DEF Line, IsInjective
<1>4. \A a \in 1..Len(s) : s[a] # e
  BY <1>2 DEF Range
<1>5. IsInjective(r)
  <2> SUFFICES ASSUME NEW a \in 1..Len(s)+1, NEW b \in 1..Len(s)+1, r[a] = r[b] PROVE a = b
    BY <1>2 DEF IsInjective
  <2> QED BY <1>1, <1>3, <1>4
<1>6. Range(r) = Range(s) \union {e}
  <2>1. ASSUME NEW x \in Range(r) PROVE x \in Range(s) \union {e}
    <3>1. PICK i \in 1..Len(s)+1 : r[i] = x
      BY <1>2 DEF Range
    <3>2. i \in 1..Len(s) \/ i = Len(s) + 1
      BY <1>1
    <3> QED BY <3>1, <3>2, <1>1, <1>2 DEF Range
  <2>2. ASSUME NEW x \in Range(s) PROVE x \in Range(r)
    <3>1. PICK i \in 1..Len(s) : s[i] = x
      BY <1>2 DEF Range
    <3>2. i \in 1..Len(s)+1 /\ r[i] = x
      BY <3>1, <1>1
    <3> QED BY <3>2, <1>2 DEF Range
  <2>3. e \in Range(r)
    <3>1. Len(s) + 1 \in 1..Len(s)+1
      BY <1>1
    <3> QED BY <3>1, <1>1, <1>2 DEF Range
  <2> QED BY <2>1, <2>2, <2>3
<1> QED BY <1>1, <1>5, <1>6 DEF Line, r

\* A line over S has only members of S.
LEMMA RangeOfLine ==
  ASSUME NEW S, NEW s \in Line(S)
  PROVE  Range(s) \subseteq S /\ Len(s) \in Nat /\ (s = << >> <=> Len(s) = 0)
BY RangeOfSeq, EmptySeq, LenProperties DEF Line

\* Two lines with nothing in common, one after the other.
LEMMA LineAfterLine ==
  ASSUME NEW s, NEW t, NEW U, NEW S, NEW T, s \in Line(S), t \in Line(T), S \subseteq U, T \subseteq U,
         \A e \in S : e \notin T
  PROVE  s \o t \in Line(U) /\ Range(s \o t) = Range(s) \union Range(t)
<1>1. s \in Seq(U) /\ t \in Seq(U)
  BY DEF Line
<1>2. PICK l \in Nat, r \in Nat : l = Len(s) /\ r = Len(t) /\ DOMAIN s = 1..l /\ DOMAIN t = 1..r
  BY <1>1, LenProperties
<1>3. PICK w : w = s \o t
  BY Zenon
<1>4. /\ w \in Seq(U) /\ DOMAIN w = 1..l+r
      /\ \A i \in 1..l+r : w[i] = IF i <= l THEN s[i] ELSE t[i-l]
  <2>1. /\ s \o t \in Seq(U) /\ Len(s \o t) = Len(s) + Len(t)
        /\ \A i \in 1..Len(s)+Len(t) : (s \o t)[i] = IF i <= Len(s) THEN s[i] ELSE t[i-Len(s)]
    BY ONLY <1>1, ConcatProperties
  <2> QED BY <1>2, <1>3, <2>1, LenProperties
<1>5. /\ \A i, j \in 1..l : s[i] = s[j] => i = j
      /\ \A i, j \in 1..r : t[i] = t[j] => i = j
  BY <1>2, Zenon DEF Line, IsInjective
<1>6. \A i \in 1..l, j \in 1..r : s[i] # t[j]
  BY <1>2 DEF Line
<1>7. ASSUME NEW i \in 1..l+r, NEW j \in 1..l+r, w[i] = w[j] PROVE i = j
  <2>1. i > l => i - l \in 1..r
    BY <1>2
  <2>2. j > l => j - l \in 1..r
    BY <1>2
  <2> QED BY <1>2, <1>4, <1>5, <1>6, <1>7, <2>1, <2>2
<1>8. Range(w) = Range(s) \union Range(t)
  <2>1. ASSUME NEW i \in 1..l+r PROVE w[i] \in Range(s) \union Range(t)
    <3>1. i <= l => i \in 1..l
      BY <1>2
    <3>2. i > l => i - l \in 1..r
      BY <1>2
    <3>3. CASE i <= l
      <4>1. w[i] = s[i] /\ i \in DOMAIN s
        BY <1>2, <1>4, <3>1, <3>3
      <4> QED BY <4>1, Zenon DEF Range
    <3>4. CASE i > l
      <4>1. w[i] = t[i - l] /\ i - l \in DOMAIN t
        BY <1>2, <1>4, <3>2, <3>4
      <4> QED BY <4>1, Zenon DEF Range
    <3> QED BY <1>2, <3>3, <3>4
  <2>2. ASSUME NEW i \in 1..l PROVE s[i] \in Range(w)
    BY <1>2, <1>4 DEF Range
  <2>3. ASSUME NEW i \in 1..r PROVE t[i] \in Range(w)
    <3>1. l + i \in 1..l+r /\ (l + i) - l = i /\ ~(l + i <= l)
      BY <1>2
    <3>2. w[l+i] = t[i]
      BY <1>4, <3>1
    <3> QED BY <1>4, <3>1, <3>2, Zenon DEF Range
  <2> QED BY <1>2, <1>4, <2>1, <2>2, <2>3 DEF Range
<1> QED BY <1>3, <1>4, <1>7, <1>8, Zenon DEF Line, IsInjective

-----------------------------------------------------------------------------
(* The kernel *)

\* The kernel's record, with pending times up to b.
KernelShape(b) ==
  [pend : [Event -> -1..b], methods_dynamic : [Event -> Seq(Process)],
   threads_dynamic : [Event -> Seq(Process)], runnable : SUBSET Process,
   cur : Process \union {Nobody}, update : Seq(Channel), delta : Seq(Event),
   methods : Seq(Process), threads : Seq(Process), pop : Seq(Process),
   turn : {"methods", "threads"}]

\* In the kernel's own order, who may run is in one queue, once.
Enqueued(k) ==
  ExactOrder => /\ IsInjective(k.methods) /\ IsInjective(k.threads) /\ IsInjective(k.pop)
                /\ Range(k.methods) \intersect (Range(k.threads) \union Range(k.pop)) = {}
                /\ Range(k.threads) \intersect Range(k.pop) = {}
                /\ k.runnable = Range(k.methods) \union Range(k.threads) \union Range(k.pop)

KernelOK(b, k) == k \in KernelShape(b) /\ Enqueued(k)

\* A line is its head and its tail.
LEMMA HeadAndTail ==
  ASSUME NEW S, NEW s \in Seq(S), s # << >>
  PROVE  Head(s) \in S /\ Tail(s) \in Seq(S) /\ Range(s) = {Head(s)} \union Range(Tail(s))
<1>1. /\ Head(s) \in S /\ Tail(s) \in Seq(S) /\ Head(s) = s[1] /\ Len(s) \in Nat \ {0}
      /\ Len(Tail(s)) = Len(s) - 1 /\ \A i \in 1..Len(s)-1 : Tail(s)[i] = s[i+1]
  BY HeadTailProperties, EmptySeq
<1>2. DOMAIN s = 1..Len(s) /\ DOMAIN Tail(s) = 1..Len(s)-1
  BY <1>1
<1>3. ASSUME NEW x \in Range(s) PROVE x \in {Head(s)} \union Range(Tail(s))
  <2>1. PICK i \in 1..Len(s) : s[i] = x
    BY <1>2 DEF Range
  <2>2. CASE i = 1
    BY <1>1, <2>1, <2>2
  <2>3. CASE i # 1
    <3>1. i - 1 \in 1..Len(s)-1 /\ (i - 1) + 1 = i
      BY <1>1, <2>1, <2>3
    <3>2. Tail(s)[i-1] = x
      BY <1>1, <2>1, <3>1
    <3> QED BY <1>2, <3>1, <3>2, Zenon DEF Range
  <2> QED BY <2>2, <2>3
<1>4. ASSUME NEW x \in Range(Tail(s)) PROVE x \in Range(s)
  <2>1. PICK i \in 1..Len(s)-1 : Tail(s)[i] = x
    BY <1>2 DEF Range
  <2>2. i + 1 \in 1..Len(s) /\ s[i+1] = x
    BY <1>1, <2>1
  <2> QED BY <1>2, <2>2 DEF Range
<1>5. Head(s) \in Range(s)
  BY <1>1, <1>2 DEF Range
<1> QED BY <1>1, <1>3, <1>4, <1>5

\* k2 differs from k in who may run, and in nothing else but the order of the queues.
SameButReady(k, k2) ==
  /\ k2.pend = k.pend /\ k2.cur = k.cur /\ k2.update = k.update /\ k2.delta = k.delta
  /\ k2.methods_dynamic = k.methods_dynamic /\ k2.threads_dynamic = k.threads_dynamic

\* A process that is not about to run is pushed.
LEMMA PushOK ==
  ASSUME NEW b \in Nat, NEW k, KernelOK(b, k), NEW p \in Process, p \notin k.runnable
  PROVE  /\ KernelOK(b, Push(k, p)) /\ SameButReady(k, Push(k, p))
         /\ Push(k, p).runnable = k.runnable \union {p}
<1> HIDE DEF Process, Thread, Method, Event, Channel
<1>0. k \in KernelShape(b)
  BY DEF KernelOK
<1>1. /\ Append(k.threads, p) \in Seq(Process) /\ Append(k.methods, p) \in Seq(Process)
      /\ k.runnable \union {p} \in SUBSET Process
  BY <1>0 DEF KernelShape
<1>2. CASE ~ExactOrder
  <2>1. Push(k, p) = [k EXCEPT !.runnable = k.runnable \union {p}]
    BY <1>2 DEF Push
  <2> QED BY <1>0, <1>1, <1>2, <2>1, Zenon DEF KernelShape, KernelOK, Enqueued, SameButReady
<1>3. CASE ExactOrder
  <2>0. /\ k.methods \in Line(Process) /\ k.threads \in Line(Process)
        /\ Range(k.methods) \intersect (Range(k.threads) \union Range(k.pop)) = {}
        /\ Range(k.threads) \intersect Range(k.pop) = {} /\ IsInjective(k.pop)
        /\ k.runnable = Range(k.methods) \union Range(k.threads) \union Range(k.pop)
    BY <1>0, <1>3 DEF KernelOK, Enqueued, KernelShape, Line
  <2>1. CASE p \in Thread
    <3>1. Push(k, p) = [k EXCEPT !.runnable = k.runnable \union {p}, !.threads = Append(k.threads, p)]
      BY <1>0, <1>3, <2>1 DEF Push, KernelShape
    <3>2. /\ Push(k, p) \in KernelShape(b) /\ Push(k, p).threads = Append(k.threads, p)
          /\ Push(k, p).methods = k.methods /\ Push(k, p).pop = k.pop
          /\ Push(k, p).runnable = k.runnable \union {p}
      BY <1>0, <1>1, <3>1, Zenon DEF KernelShape
    <3>3. SameButReady(k, Push(k, p))
      BY <1>0, <3>1 DEF KernelShape, SameButReady
    <3>4. IsInjective(Append(k.threads, p)) /\ Range(Append(k.threads, p)) = Range(k.threads) \union {p}
      BY <2>0, AppendToLine DEF Line
    <3>5. Enqueued(Push(k, p))
      BY <2>0, <3>2, <3>4 DEF Enqueued, Line
    <3> QED BY <3>2, <3>3, <3>5 DEF KernelOK
  <2>2. CASE p \notin Thread
    <3>1. Push(k, p) = [k EXCEPT !.runnable = k.runnable \union {p}, !.methods = Append(k.methods, p)]
      BY <1>0, <1>3, <2>2 DEF Push, KernelShape
    <3>2. /\ Push(k, p) \in KernelShape(b) /\ Push(k, p).methods = Append(k.methods, p)
          /\ Push(k, p).threads = k.threads /\ Push(k, p).pop = k.pop
          /\ Push(k, p).runnable = k.runnable \union {p}
      BY <1>0, <1>1, <3>1, Zenon DEF KernelShape
    <3>3. SameButReady(k, Push(k, p))
      BY <1>0, <3>1 DEF KernelShape, SameButReady
    <3>4. IsInjective(Append(k.methods, p)) /\ Range(Append(k.methods, p)) = Range(k.methods) \union {p}
      BY <2>0, AppendToLine DEF Line
    <3>5. Enqueued(Push(k, p))
      BY <2>0, <3>2, <3>4 DEF Enqueued, Line
    <3> QED BY <3>2, <3>3, <3>5 DEF KernelOK
  <2> QED BY <2>1, <2>2
<1> QED BY <1>2, <1>3

-----------------------------------------------------------------------------
(* Folding from the left *)

\* What the kernel folds along a list of processes, of events or of channels.
FoldStep(kind, k, e) ==
  IF kind = "static" THEN TriggerStatic(k, e)
  ELSE IF kind = "dynamic" THEN TriggerDynamic(k, e)
  ELSE IF kind = "event" THEN Trigger(k, e)
  ELSE IF kind = "update" THEN NotifyUpdate(k, e) ELSE Push(k, e)

\* FoldLeft of SequencesExt, written out: a recursion over the subsets of the
\* sequence's domain that takes the greatest element last.
FoldRecursion(kind, g, S, base, seq) ==
  g = [s \in SUBSET S |->
         IF s = {} THEN base ELSE FoldStep(kind, g[s \ {Max(s)}], seq[Max(s)])]

\* What holds of 0, and of every number after one it holds of, holds up to n.
LEMMA UpTo ==
  ASSUME NEW n \in Nat, NEW T, 0 \in T, \A k \in 0..n-1 : k \in T => k + 1 \in T
  PROVE  n \in T
<1> DEFINE U == {k \in 0..n : k \notin T}
<1> SUFFICES ASSUME U # {} PROVE FALSE
  OBVIOUS
<1>1. PICK x \in U : \A y \in U : x <= y
  <2>1. U \in SUBSET Nat
    OBVIOUS
  <2> HIDE DEF U
  <2> QED BY <2>1, Least
<1>2. x - 1 \in 0..n-1 /\ x - 1 \in T
  BY <1>1
<1> QED BY <1>1, <1>2

\* The greatest of numbers up to m, m among them.
LEMMA TopIs ==
  ASSUME NEW m \in Nat, NEW s \in SUBSET (1..m), m \in s
  PROVE  Max(s) = m
<1>1. \A x \in s : (\A y \in s : x >= y) => x = m
  OBVIOUS
<1>2. \E x \in s : \A y \in s : x >= y
  OBVIOUS
<1> QED BY <1>1, <1>2 DEF Max

\* The recursion has a solution.
LEMMA RecursionExists ==
  ASSUME NEW kind, NEW n \in Nat, NEW base, NEW seq
  PROVE  \E g : FoldRecursion(kind, g, 1..n, base, seq)
<1> DEFINE T == {m \in 0..n : \E g : FoldRecursion(kind, g, 1..m, base, seq)}
<1>1. 0 \in T
  <2> DEFINE g == [s \in SUBSET (1..0) |-> base]
  <2>1. SUBSET (1..0) = {{}}
    OBVIOUS
  <2>2. FoldRecursion(kind, g, 1..0, base, seq)
    BY <2>1 DEF FoldRecursion
  <2> QED BY <2>2
<1>2. ASSUME NEW m \in 0..n-1, m \in T PROVE m + 1 \in T
  <2>1. PICK g : FoldRecursion(kind, g, 1..m, base, seq)
    BY <1>2
  <2> DEFINE h == [s \in SUBSET (1..m+1) |->
                     IF m + 1 \in s THEN FoldStep(kind, g[s \ {m + 1}], seq[m+1]) ELSE g[s]]
  <2>2. ASSUME NEW s \in SUBSET (1..m+1)
        PROVE  h[s] = IF s = {} THEN base ELSE FoldStep(kind, h[s \ {Max(s)}], seq[Max(s)])
    <3>1. CASE m + 1 \in s
      <4>1. Max(s) = m + 1
        BY <3>1, TopIs
      <4>2. s \ {m+1} \in SUBSET (1..m) /\ s \ {m+1} \in SUBSET (1..m+1)
        OBVIOUS
      <4>3. h[s \ {m+1}] = g[s \ {m+1}]
        BY <4>2
      <4> HIDE DEF h
      <4>4. h[s] = FoldStep(kind, g[s \ {m + 1}], seq[m+1])
        BY <3>1 DEF h
      <4> QED BY <3>1, <4>1, <4>3, <4>4
    <3>2. CASE m + 1 \notin s
      <4>1. s \in SUBSET (1..m)
        BY ONLY <3>2, m \in 0..n-1, n \in Nat, s \in SUBSET (1..m+1)
      <4>2. s \ {Max(s)} \in SUBSET (1..m) /\ s \ {Max(s)} \in SUBSET (1..m+1)
        <5> DEFINE x == Max(s)
        <5> HIDE DEF x
        <5>1. s \ {x} \in SUBSET (1..m) /\ s \ {x} \in SUBSET (1..m+1)
          BY <4>1
        <5> QED BY <5>1 DEF x
      <4>3. h[s] = g[s] /\ h[s \ {Max(s)}] = g[s \ {Max(s)}]
        BY <4>1, <4>2, <3>2
      <4>4. g[s] = IF s = {} THEN base ELSE FoldStep(kind, g[s \ {Max(s)}], seq[Max(s)])
        BY <2>1, <4>1 DEF FoldRecursion
      <4> QED BY <4>3, <4>4
    <3> QED BY <3>1, <3>2
  <2>3. FoldRecursion(kind, h, 1..m+1, base, seq)
    <3> HIDE DEF h
    <3>1. h = [s \in SUBSET (1..m+1) |-> h[s]]
      BY DEF h
    <3> QED BY <3>1, <2>2 DEF FoldRecursion
  <2>4. m + 1 \in 0..n
    OBVIOUS
  <2> QED BY <2>3, <2>4
<1>3. n \in T
  <2> HIDE DEF T
  <2> QED BY <1>1, <1>2, UpTo
<1> QED BY <1>3

\* What each step leads from I[k] to I[k + 1] leads the fold to the last I.
LEMMA FoldInv ==
  ASSUME NEW kind, NEW E, NEW seq \in Seq(E), NEW base, NEW I, base \in I[0],
         \A k \in 0..Len(seq)-1 : \A s \in I[k] : FoldStep(kind, s, seq[k+1]) \in I[k+1],
         NEW g, FoldRecursion(kind, g, 1..Len(seq), base, seq)
  PROVE  g[1..Len(seq)] \in I[Len(seq)]
<1> DEFINE T == {k \in 0..Len(seq) : g[1..k] \in I[k]}
<1>1. ASSUME NEW s \in SUBSET (1..Len(seq))
      PROVE  g[s] = IF s = {} THEN base ELSE FoldStep(kind, g[s \ {Max(s)}], seq[Max(s)])
  BY DEF FoldRecursion
<1>2. 0 \in T
  <2>1. 1..0 = {} /\ {} \in SUBSET (1..Len(seq)) /\ 0 \in 0..Len(seq)
    OBVIOUS
  <2> QED BY <2>1, <1>1
<1>3. ASSUME NEW k \in 0..Len(seq)-1, k \in T PROVE k + 1 \in T
  <2> DEFINE n == Len(seq)
  <2>n. n \in Nat /\ k \in 0..n-1
    OBVIOUS
  <2> HIDE DEF n
  <2>1. /\ 1..k+1 \in SUBSET (1..Len(seq)) /\ 1..k+1 # {}
        /\ (1..k+1) \ {k+1} = 1..k /\ k+1 \in 0..Len(seq)
    <3>1. 1..k+1 \in SUBSET (1..n) /\ k + 1 \in 1..k+1 /\ k+1 \in 0..n
      BY <2>n
    <3>2. (1..k+1) \ {k+1} = 1..k
      BY <2>n
    <3> QED BY <3>1, <3>2 DEF n
  <2>2. Max(1..k+1) = k + 1
    BY TopIs
  <2>3. g[1..k+1] = FoldStep(kind, g[1..k], seq[k+1])
    BY <2>1, <2>2, <1>1
  <2> QED BY <1>3, <2>1, <2>3
<1>4. Len(seq) \in T
  <2> HIDE DEF T
  <2>1. Len(seq) \in Nat
    OBVIOUS
  <2> QED BY ONLY <2>1, <1>2, <1>3, UpTo
<1> QED BY <1>4

\* Trigger_static over the methods sensitive to an event is such a fold.
LEMMA StaticIsFold ==
  ASSUME NEW k, NEW E, NEW s \in Seq(E)
  PROVE  \E g : FoldRecursion("static", g, 1..Len(s), k, s) /\ FoldLeft(TriggerStatic, k, s) = g[1..Len(s)]
<1>2. DOMAIN s = 1..Len(s) /\ Len(s) \in Nat
  OBVIOUS
<1>1. PICK h : FoldRecursion("static", h, 1..Len(s), k, s)
  BY ONLY <1>2, RecursionExists
<1> DEFINE F(g) == [u \in SUBSET DOMAIN s |->
                      IF u = {} THEN k ELSE LET x == Max(u) IN TriggerStatic(g[u \ {x}], s[x])]
           g0 == CHOOSE g : g = F(g)
<1>3. ASSUME NEW g PROVE FoldRecursion("static", g, 1..Len(s), k, s) <=> g = F(g)
  BY <1>2, Zenon DEF FoldRecursion, FoldStep
<1>4. FoldLeft(TriggerStatic, k, s) = g0[DOMAIN s]
  BY Zenon DEF FoldLeft, MapThenFoldSet
<1>5. FoldRecursion("static", g0, 1..Len(s), k, s)
  <2> HIDE DEF F
  <2> QED BY <1>1, <1>3, Zenon
<1> QED BY <1>2, <1>4, <1>5

\* Trigger over the processes waiting for an event is such a fold.
LEMMA DynamicIsFold ==
  ASSUME NEW k, NEW E, NEW s \in Seq(E)
  PROVE  \E g : FoldRecursion("dynamic", g, 1..Len(s), k, s) /\ FoldLeft(TriggerDynamic, k, s) = g[1..Len(s)]
<1>2. DOMAIN s = 1..Len(s) /\ Len(s) \in Nat
  OBVIOUS
<1>1. PICK h : FoldRecursion("dynamic", h, 1..Len(s), k, s)
  BY ONLY <1>2, RecursionExists
<1> DEFINE F(g) == [u \in SUBSET DOMAIN s |->
                      IF u = {} THEN k ELSE LET x == Max(u) IN TriggerDynamic(g[u \ {x}], s[x])]
           g0 == CHOOSE g : g = F(g)
<1>3. ASSUME NEW g PROVE FoldRecursion("dynamic", g, 1..Len(s), k, s) <=> g = F(g)
  BY <1>2, Zenon DEF FoldRecursion, FoldStep
<1>4. FoldLeft(TriggerDynamic, k, s) = g0[DOMAIN s]
  BY Zenon DEF FoldLeft, MapThenFoldSet
<1>5. FoldRecursion("dynamic", g0, 1..Len(s), k, s)
  <2> HIDE DEF F
  <2> QED BY <1>1, <1>3, Zenon
<1> QED BY <1>2, <1>4, <1>5

\* A notification phase over its events is such a fold.
LEMMA TriggersAreFold ==
  ASSUME NEW k, NEW E, NEW s \in Seq(E)
  PROVE  \E g : FoldRecursion("event", g, 1..Len(s), k, s) /\ FoldLeft(Trigger, k, s) = g[1..Len(s)]
<1>2. DOMAIN s = 1..Len(s) /\ Len(s) \in Nat
  OBVIOUS
<1>1. PICK h : FoldRecursion("event", h, 1..Len(s), k, s)
  BY ONLY <1>2, RecursionExists
<1> DEFINE F(g) == [u \in SUBSET DOMAIN s |->
                      IF u = {} THEN k ELSE LET x == Max(u) IN Trigger(g[u \ {x}], s[x])]
           g0 == CHOOSE g : g = F(g)
<1>3. ASSUME NEW g PROVE FoldRecursion("event", g, 1..Len(s), k, s) <=> g = F(g)
  BY <1>2, Zenon DEF FoldRecursion, FoldStep
<1>4. FoldLeft(Trigger, k, s) = g0[DOMAIN s]
  BY Zenon DEF FoldLeft, MapThenFoldSet
<1>5. FoldRecursion("event", g0, 1..Len(s), k, s)
  <2> HIDE DEF F
  <2> QED BY <1>1, <1>3, Zenon
<1> QED BY <1>2, <1>4, <1>5

\* The update phase over its channels is such a fold.
LEMMA NotifyIsFold ==
  ASSUME NEW k, NEW E, NEW s \in Seq(E)
  PROVE  \E g : FoldRecursion("update", g, 1..Len(s), k, s) /\ FoldLeft(NotifyUpdate, k, s) = g[1..Len(s)]
<1>2. DOMAIN s = 1..Len(s) /\ Len(s) \in Nat
  OBVIOUS
<1>1. PICK h : FoldRecursion("update", h, 1..Len(s), k, s)
  BY ONLY <1>2, RecursionExists
<1> DEFINE F(g) == [u \in SUBSET DOMAIN s |->
                      IF u = {} THEN k ELSE LET x == Max(u) IN NotifyUpdate(g[u \ {x}], s[x])]
           g0 == CHOOSE g : g = F(g)
<1>3. ASSUME NEW g PROVE FoldRecursion("update", g, 1..Len(s), k, s) <=> g = F(g)
  BY <1>2, Zenon DEF FoldRecursion, FoldStep
<1>4. FoldLeft(NotifyUpdate, k, s) = g0[DOMAIN s]
  BY Zenon DEF FoldLeft, MapThenFoldSet
<1>5. FoldRecursion("update", g0, 1..Len(s), k, s)
  <2> HIDE DEF F
  <2> QED BY <1>1, <1>3, Zenon
<1> QED BY <1>2, <1>4, <1>5

\* The start of the simulation, which pushes everybody, is such a fold.
LEMMA PushIsFold ==
  ASSUME NEW k, NEW E, NEW s \in Seq(E)
  PROVE  \E g : FoldRecursion("push", g, 1..Len(s), k, s) /\ FoldLeft(Push, k, s) = g[1..Len(s)]
<1>2. DOMAIN s = 1..Len(s) /\ Len(s) \in Nat
  OBVIOUS
<1>1. PICK h : FoldRecursion("push", h, 1..Len(s), k, s)
  BY ONLY <1>2, RecursionExists
<1> DEFINE F(g) == [u \in SUBSET DOMAIN s |->
                      IF u = {} THEN k ELSE LET x == Max(u) IN Push(g[u \ {x}], s[x])]
           g0 == CHOOSE g : g = F(g)
<1>3. ASSUME NEW g PROVE FoldRecursion("push", g, 1..Len(s), k, s) <=> g = F(g)
  BY <1>2, Zenon DEF FoldRecursion, FoldStep
<1>4. FoldLeft(Push, k, s) = g0[DOMAIN s]
  BY Zenon DEF FoldLeft, MapThenFoldSet
<1>5. FoldRecursion("push", g0, 1..Len(s), k, s)
  <2> HIDE DEF F
  <2> QED BY <1>1, <1>3, Zenon
<1> QED BY <1>2, <1>4, <1>5

-----------------------------------------------------------------------------
(* Triggering *)

Before(s, j) == {s[i] : i \in 1..j}

StaticInv(c, j, k2) ==
  LET b == c[1] k == c[2] s == c[3] IN
  /\ KernelOK(b, k2) /\ SameButReady(k, k2)
  /\ k2.runnable = k.runnable \union {p \in Before(s, j) : Unwaiting(k, p) /\ p # k.cur}

DynamicInv(c, j, k2) ==
  LET b == c[1] k == c[2] s == c[3] IN
  /\ KernelOK(b, k2) /\ SameButReady(k, k2)
  /\ k2.runnable = k.runnable \union Before(s, j)

\* One more element of a line has been gone through.
LEMMA BeforeNext ==
  ASSUME NEW S, NEW s \in Seq(S), NEW j \in 0..Len(s)-1
  PROVE  /\ Before(s, j + 1) = Before(s, j) \union {s[j+1]} /\ s[j+1] \in S
         /\ Before(s, 0) = {} /\ Before(s, Len(s)) = Range(s)
<1>1. DOMAIN s = 1..Len(s) /\ Len(s) \in Nat /\ j + 1 \in 1..Len(s) /\ s[j+1] \in S
  OBVIOUS
<1>2. 1..j+1 = (1..j) \union {j+1} /\ 1..0 = {}
  OBVIOUS
<1>3. Before(s, j + 1) = Before(s, j) \union {s[j+1]}
  BY <1>2 DEF Before
<1>4. Before(s, 0) = {} /\ Before(s, Len(s)) = Range(s)
  BY <1>1, <1>2 DEF Before, Range
<1> QED BY <1>1, <1>3, <1>4

\* sc_event::trigger_static over the methods sensitive to an event.
LEMMA StaticFold ==
  ASSUME NEW b \in Nat, NEW k, KernelOK(b, k), NEW s \in Seq(Process)
  PROVE  LET k2 == FoldLeft(TriggerStatic, k, s) IN
         /\ KernelOK(b, k2) /\ SameButReady(k, k2)
         /\ k2.runnable = k.runnable \union {p \in Range(s) : Unwaiting(k, p) /\ p # k.cur}
<1> HIDE DEF Process, Thread, Method, Event, Channel
<1> DEFINE c == <<b, k, s>>
<1>1. StaticInv(c, 0, k)
  BY DEF StaticInv, Before, SameButReady
<1>2. ASSUME NEW j \in 0..Len(s)-1, NEW x, StaticInv(c, j, x)
      PROVE  StaticInv(c, j + 1, TriggerStatic(x, s[j+1]))
  <2> DEFINE p == s[j+1]
             y == TriggerStatic(x, p)
  <2>1. /\ KernelOK(b, x) /\ SameButReady(k, x)
        /\ x.runnable = k.runnable \union {q \in Before(s, j) : Unwaiting(k, q) /\ q # k.cur}
    BY <1>2 DEF StaticInv
  <2>2. Before(s, j + 1) = Before(s, j) \union {p} /\ p \in Process
    BY BeforeNext
  <2>3. Unwaiting(x, p) <=> Unwaiting(k, p)
    BY <2>1 DEF Unwaiting, Waiters, SameButReady
  <2>4. p \notin x.runnable =>
          /\ KernelOK(b, Push(x, p)) /\ SameButReady(x, Push(x, p))
          /\ Push(x, p).runnable = x.runnable \union {p}
    BY <2>1, <2>2, PushOK
  <2>5. KernelOK(b, y) /\ SameButReady(k, y)
    BY <2>1, <2>4 DEF TriggerStatic, SameButReady
  <2>6. y.runnable = k.runnable \union {q \in Before(s, j+1) : Unwaiting(k, q) /\ q # k.cur}
    <3>1. x.cur = k.cur
      BY <2>1 DEF SameButReady
    <3>2. CASE Unwaiting(k, p) /\ p # k.cur /\ p \notin x.runnable
      <4>1. y = Push(x, p)
        BY <2>3, <3>1, <3>2 DEF TriggerStatic
      <4> HIDE DEF y, p
      <4> QED BY <2>1, <2>2, <2>4, <3>2, <4>1
    <3>3. CASE ~(Unwaiting(k, p) /\ p # k.cur /\ p \notin x.runnable)
      <4>1. y = x
        BY <2>3, <3>1, <3>3 DEF TriggerStatic
      <4> HIDE DEF y, p
      <4> QED BY <2>1, <2>2, <3>3, <4>1
    <3> QED BY <3>2, <3>3
  <2> QED BY <2>5, <2>6 DEF StaticInv
<1>3. PICK g : FoldRecursion("static", g, 1..Len(s), k, s) /\ FoldLeft(TriggerStatic, k, s) = g[1..Len(s)]
  BY StaticIsFold
<1>4. StaticInv(c, Len(s), g[1..Len(s)])
  <2> HIDE DEF c
  <2> DEFINE I == [j \in 0..Len(s) |-> {x \in KernelShape(b) : StaticInv(c, j, x)}]
  <2>1. k \in I[0]
    BY <1>1 DEF KernelOK
  <2>2. ASSUME NEW j \in 0..Len(s)-1, NEW x \in I[j] PROVE FoldStep("static", x, s[j+1]) \in I[j+1]
    <3>1. StaticInv(c, j + 1, TriggerStatic(x, s[j+1])) /\ j + 1 \in 0..Len(s)
      BY <1>2
    <3>2. TriggerStatic(x, s[j+1]) \in KernelShape(b)
      BY <3>1 DEF StaticInv, KernelOK, c
    <3> QED BY <3>1, <3>2 DEF FoldStep
  <2>3. g[1..Len(s)] \in I[Len(s)]
    <3> HIDE DEF I
    <3> QED BY <1>3, <2>1, <2>2, FoldInv
  <2> QED BY <2>3
<1>5. Before(s, Len(s)) = Range(s)
  BY DEF Before, Range
<1> QED BY <1>3, <1>4, <1>5 DEF StaticInv

\* sc_event::trigger over the processes waiting for it.
LEMMA DynamicFold ==
  ASSUME NEW b \in Nat, NEW k, KernelOK(b, k), NEW s \in Seq(Process)
  PROVE  LET k2 == FoldLeft(TriggerDynamic, k, s) IN
         /\ KernelOK(b, k2) /\ SameButReady(k, k2)
         /\ k2.runnable = k.runnable \union Range(s)
<1> HIDE DEF Process, Thread, Method, Event, Channel
<1> DEFINE c == <<b, k, s>>
<1>1. DynamicInv(c, 0, k)
  BY DEF DynamicInv, Before, SameButReady
<1>2. ASSUME NEW j \in 0..Len(s)-1, NEW x, DynamicInv(c, j, x)
      PROVE  DynamicInv(c, j + 1, TriggerDynamic(x, s[j+1]))
  <2> DEFINE p == s[j+1]
             y == TriggerDynamic(x, p)
  <2>1. /\ KernelOK(b, x) /\ SameButReady(k, x)
        /\ x.runnable = k.runnable \union Before(s, j)
    BY <1>2 DEF DynamicInv
  <2>2. Before(s, j + 1) = Before(s, j) \union {p} /\ p \in Process
    BY BeforeNext
  <2>4. p \notin x.runnable =>
          /\ KernelOK(b, Push(x, p)) /\ SameButReady(x, Push(x, p))
          /\ Push(x, p).runnable = x.runnable \union {p}
    BY <2>1, <2>2, PushOK
  <2>5. KernelOK(b, y) /\ SameButReady(k, y)
    BY <2>1, <2>4 DEF TriggerDynamic, SameButReady
  <2>6. y.runnable = k.runnable \union Before(s, j+1)
    <3>2. CASE p \notin x.runnable
      <4>1. y = Push(x, p)
        BY <3>2 DEF TriggerDynamic
      <4> HIDE DEF y, p
      <4> QED BY <2>1, <2>2, <2>4, <3>2, <4>1
    <3>3. CASE p \in x.runnable
      <4>1. y = x
        BY <3>3 DEF TriggerDynamic
      <4> HIDE DEF y, p
      <4> QED BY <2>1, <2>2, <3>3, <4>1
    <3> QED BY <3>2, <3>3
  <2> QED BY <2>5, <2>6 DEF DynamicInv
<1>3. PICK g : FoldRecursion("dynamic", g, 1..Len(s), k, s) /\ FoldLeft(TriggerDynamic, k, s) = g[1..Len(s)]
  BY DynamicIsFold
<1>4. DynamicInv(c, Len(s), g[1..Len(s)])
  <2> HIDE DEF c
  <2> DEFINE I == [j \in 0..Len(s) |-> {x \in KernelShape(b) : DynamicInv(c, j, x)}]
  <2>1. k \in I[0]
    BY <1>1 DEF KernelOK
  <2>2. ASSUME NEW j \in 0..Len(s)-1, NEW x \in I[j] PROVE FoldStep("dynamic", x, s[j+1]) \in I[j+1]
    <3>1. DynamicInv(c, j + 1, TriggerDynamic(x, s[j+1])) /\ j + 1 \in 0..Len(s)
      BY <1>2
    <3>2. TriggerDynamic(x, s[j+1]) \in KernelShape(b)
      BY <3>1 DEF DynamicInv, KernelOK, c
    <3> QED BY <3>1, <3>2 DEF FoldStep
  <2>3. g[1..Len(s)] \in I[Len(s)]
    <3> HIDE DEF I
    <3> QED BY <1>3, <2>1, <2>2, FoldInv
  <2> QED BY <2>3
<1>5. Before(s, Len(s)) = Range(s)
  BY DEF Before, Range
<1> QED BY <1>3, <1>4, <1>5 DEF DynamicInv

\* Turning a line round keeps who stands in it.
LEMMA ReverseRange ==
  ASSUME NEW S, NEW s \in Seq(S)
  PROVE  Reverse(s) \in Seq(S) /\ Range(Reverse(s)) = Range(s)
<1> DEFINE n == Len(s)
           r == Reverse(s)
<1>1. n \in Nat /\ DOMAIN s = 1..n /\ \A i \in 1..n : s[i] \in S
  OBVIOUS
<1>2. r = [i \in 1..n |-> s[(n - i) + 1]]
  BY DEF Reverse
<1>3. \A i \in 1..n : (n - i) + 1 \in 1..n /\ (n - ((n - i) + 1)) + 1 = i
  BY <1>1
<1> HIDE DEF n, r
<1>4. DOMAIN r = 1..n /\ \A i \in 1..n : r[i] = s[(n - i) + 1] /\ r[i] \in S
  BY <1>1, <1>2, <1>3
<1>5. r \in Seq(S)
  BY <1>1, <1>2, <1>3
<1>6. Range(r) = Range(s)
  <2>1. ASSUME NEW x \in Range(r) PROVE x \in Range(s)
    <3>1. PICK i \in 1..n : r[i] = x
      BY <1>4 DEF Range
    <3> QED BY <1>1, <1>3, <1>4, <3>1 DEF Range
  <2>2. ASSUME NEW x \in Range(s) PROVE x \in Range(r)
    <3>1. PICK i \in 1..n : s[i] = x
      BY <1>1 DEF Range
    <3>2. (n - i) + 1 \in 1..n /\ r[(n - i) + 1] = x
      BY <1>3, <1>4, <3>1
    <3> QED BY <1>4, <3>2 DEF Range
  <2> QED BY <2>1, <2>2, Zenon
<1> QED BY <1>5, <1>6 DEF r

\* So does the order in which sc_event::trigger serves it.
LEMMA ServedRange ==
  ASSUME NEW S, NEW w \in Seq(S)
  PROVE  Served(w) \in Seq(S) /\ Range(Served(w)) = Range(w)
<1>1. CASE w = << >>
  BY <1>1 DEF Served
<1>2. CASE w # << >>
  <2>1. Head(w) \in S /\ Tail(w) \in Seq(S) /\ Range(w) = {Head(w)} \union Range(Tail(w))
    BY <1>2, HeadAndTail
  <2>2. <<Head(w)>> \in Seq(S) /\ Range(<<Head(w)>>) = {Head(w)}
    BY <2>1 DEF Range
  <2>3. Reverse(Tail(w)) \in Seq(S) /\ Range(Reverse(Tail(w))) = Range(Tail(w))
    BY <2>1, ReverseRange, Zenon
  <2>4. Range(<<Head(w)>> \o Reverse(Tail(w))) = Range(<<Head(w)>>) \union Range(Reverse(Tail(w)))
    <3>1. PICK h, r \in Seq(S) : h = <<Head(w)>> /\ r = Reverse(Tail(w))
      BY <2>2, <2>3, Zenon
    <3>2. Range(h \o r) = Range(h) \union Range(r)
      BY RangeConcatenation
    <3> QED BY <3>1, <3>2
  <2> QED BY <1>2, <2>1, <2>2, <2>3, <2>4 DEF Served
<1> QED BY <1>1, <1>2

\* A peq_with_get's event has a method on its static list in a target or an initiator.
LEMMA StaticMethodsType ==
  ASSUME NEW e \in Event
  PROVE  StaticMethods[e] \in Seq(Process) /\ Range(StaticMethods[e]) \subseteq Method
<1>1. CASE e[1] \notin DOMAIN MethodOf
  <2>1. StaticMethods[e] = << >>
    BY <1>1 DEF StaticMethods
  <2> QED BY <2>1 DEF Range
<1>2. CASE e[1] \in DOMAIN MethodOf
  <2>0. e[1] \in {"send_end_rsp_PEQ", "response_PEQ", "end_request_PEQ"}
    BY <1>2 DEF MethodOf
  <2>1. ~Blocking /\ e \in ({"send_end_rsp_PEQ"} \X Initiator)
                              \union ({"response_PEQ", "end_request_PEQ"} \X Target)
    BY <2>0 DEF Event, Peq, Plain, Timeout, DataWritten, DataRead
  <2>2. <<MethodOf[e[1]], e[2]>> \in Method
    BY <2>1 DEF Method, MethodOf
  <2>3. StaticMethods[e] = << <<MethodOf[e[1]], e[2]>> >>
    BY <1>2 DEF StaticMethods
  <2> QED BY <2>2, <2>3 DEF Range, Process
<1> QED BY <1>1, <1>2

\* k2 is k with those that the events of D wake: every waiting process, and the
\* methods sensitive to them that neither wait nor run.
Woke(k, D, k2) ==
  /\ k2.methods_dynamic = [e \in Event |-> IF e \in D THEN << >> ELSE k.methods_dynamic[e]]
  /\ k2.threads_dynamic = [e \in Event |-> IF e \in D THEN << >> ELSE k.threads_dynamic[e]]
  /\ k2.cur = k.cur
  /\ k2.runnable = k.runnable \union (UNION {Waiters(k, e) : e \in D})
                      \union {p \in UNION {Range(StaticMethods[e]) : e \in D} :
                                Unwaiting(k, p) /\ p # k.cur}

\* What triggering the events of D does, in whatever order it is done.
Triggered(k, D, k2) ==
  /\ k2.pend = [e \in Event |-> IF e \in D THEN NotPending ELSE k.pend[e]]
  /\ Woke(k, D, k2)

\* sc_event::trigger keeps the record in shape: it makes runnable the processes that
\* wait for the event, and empties the event's lines.
LEMMA TriggerOne ==
  ASSUME NEW b \in Nat, NEW k, KernelOK(b, k), NEW e \in Event
  PROVE  /\ KernelOK(b, Trigger(k, e)) /\ Triggered(k, {e}, Trigger(k, e))
         /\ Trigger(k, e).delta = k.delta /\ Trigger(k, e).update = k.update
<1>0. StaticMethods[e] \in Seq(Process)
  BY StaticMethodsType
<1> HIDE DEF Process, Thread, Method, Event, Channel, StaticMethods, Timeout
<1> DEFINE k0 == [k EXCEPT !.pend[e] = NotPending]
           k1 == FoldLeft(TriggerStatic, k0, Reverse(StaticMethods[e]))
           k2 == [k1 EXCEPT !.methods_dynamic[e] = << >>, !.threads_dynamic[e] = << >>]
           s == Served(k.methods_dynamic[e]) \o Served(k.threads_dynamic[e])
           k3 == FoldLeft(TriggerDynamic, k2, s)
<1>1. k \in KernelShape(b)
  BY DEF KernelOK
<1>2. /\ KernelOK(b, k0) /\ k0.pend = [k.pend EXCEPT ![e] = NotPending] /\ k0.runnable = k.runnable
      /\ k0.cur = k.cur /\ k0.update = k.update /\ k0.delta = k.delta
      /\ k0.methods_dynamic = k.methods_dynamic /\ k0.threads_dynamic = k.threads_dynamic
  <2>1. [k.pend EXCEPT ![e] = NotPending] \in [Event -> -1..b]
    BY <1>1 DEF KernelShape, NotPending
  <2>2. k0 = [k EXCEPT !.pend = [k.pend EXCEPT ![e] = NotPending]]
    BY <1>1 DEF KernelShape
  <2>3. /\ k0 \in KernelShape(b) /\ k0.pend = [k.pend EXCEPT ![e] = NotPending] /\ k0.runnable = k.runnable
        /\ k0.cur = k.cur /\ k0.update = k.update /\ k0.delta = k.delta
        /\ k0.methods_dynamic = k.methods_dynamic /\ k0.threads_dynamic = k.threads_dynamic
        /\ k0.methods = k.methods /\ k0.threads = k.threads /\ k0.pop = k.pop
    BY <1>1, <2>1, <2>2, Zenon DEF KernelShape
  <2> HIDE DEF k0
  <2> QED BY <2>3 DEF KernelOK, Enqueued
<1> HIDE DEF k0
<1>3. \A p : Unwaiting(k0, p) <=> Unwaiting(k, p)
  <2>1. DOMAIN k0.pend = Event /\ DOMAIN k.pend = Event
    BY <1>1, <1>2 DEF KernelShape
  <2> QED BY <1>2, <2>1 DEF Unwaiting, Waiters
<1>4. /\ KernelOK(b, k1) /\ SameButReady(k0, k1)
      /\ k1.runnable = k.runnable \union {p \in Range(StaticMethods[e]) : Unwaiting(k, p) /\ p # k.cur}
  <2>1. Reverse(StaticMethods[e]) \in Seq(Process) /\ Range(Reverse(StaticMethods[e])) = Range(StaticMethods[e])
    BY <1>0, ReverseRange
  <2>2. /\ KernelOK(b, k1) /\ SameButReady(k0, k1)
        /\ k1.runnable = k0.runnable \union {p \in Range(Reverse(StaticMethods[e])) : Unwaiting(k0, p) /\ p # k0.cur}
    BY <1>2, <2>1, StaticFold
  <2> HIDE DEF k1
  <2> QED BY <1>2, <1>3, <2>1, <2>2
<1> HIDE DEF k1
<1>5. /\ KernelOK(b, k2) /\ k2.runnable = k1.runnable /\ k2.pend = k1.pend /\ k2.cur = k1.cur
      /\ k2.update = k1.update /\ k2.delta = k1.delta
      /\ k2.methods_dynamic = [k1.methods_dynamic EXCEPT ![e] = << >>]
      /\ k2.threads_dynamic = [k1.threads_dynamic EXCEPT ![e] = << >>]
  <2>0. k1 \in KernelShape(b)
    BY <1>4 DEF KernelOK
  <2>1. /\ [k1.methods_dynamic EXCEPT ![e] = << >>] \in [Event -> Seq(Process)]
        /\ [k1.threads_dynamic EXCEPT ![e] = << >>] \in [Event -> Seq(Process)]
    BY <2>0 DEF KernelShape
  <2>2. k2 = [k1 EXCEPT !.methods_dynamic = [k1.methods_dynamic EXCEPT ![e] = << >>],
                        !.threads_dynamic = [k1.threads_dynamic EXCEPT ![e] = << >>]]
    BY <2>0 DEF KernelShape
  <2>3. /\ k2 \in KernelShape(b) /\ k2.runnable = k1.runnable /\ k2.pend = k1.pend /\ k2.cur = k1.cur
        /\ k2.update = k1.update /\ k2.delta = k1.delta
        /\ k2.methods_dynamic = [k1.methods_dynamic EXCEPT ![e] = << >>]
        /\ k2.threads_dynamic = [k1.threads_dynamic EXCEPT ![e] = << >>]
        /\ k2.methods = k1.methods /\ k2.threads = k1.threads /\ k2.pop = k1.pop
    BY <2>0, <2>1, <2>2, Zenon DEF KernelShape
  <2> HIDE DEF k2
  <2> QED BY <1>4, <2>3 DEF KernelOK, Enqueued
<1> HIDE DEF k2
<1>6. s \in Seq(Process) /\ Range(s) = Waiters(k, e)
  <2>1. k.methods_dynamic[e] \in Seq(Process) /\ k.threads_dynamic[e] \in Seq(Process)
    BY <1>1 DEF KernelShape
  <2>2. /\ Served(k.methods_dynamic[e]) \in Seq(Process)
        /\ Range(Served(k.methods_dynamic[e])) = Range(k.methods_dynamic[e])
    BY <2>1, ServedRange
  <2>3. /\ Served(k.threads_dynamic[e]) \in Seq(Process)
        /\ Range(Served(k.threads_dynamic[e])) = Range(k.threads_dynamic[e])
    BY <2>1, ServedRange
  <2> QED BY <2>2, <2>3, RangeConcatenation DEF Waiters
<1> HIDE DEF s
<1>7. /\ KernelOK(b, k3) /\ SameButReady(k2, k3)
      /\ k3.runnable = k2.runnable \union Waiters(k, e)
  BY <1>5, <1>6, DynamicFold
<1>8. Trigger(k, e) = k3
  BY DEF Trigger, k0, k1, k2, k3, s
<1> HIDE DEF k3
<1>9. /\ k3.pend = [x \in Event |-> IF x \in {e} THEN NotPending ELSE k.pend[x]]
      /\ k3.methods_dynamic = [x \in Event |-> IF x \in {e} THEN << >> ELSE k.methods_dynamic[x]]
      /\ k3.threads_dynamic = [x \in Event |-> IF x \in {e} THEN << >> ELSE k.threads_dynamic[x]]
      /\ k3.cur = k.cur /\ k3.update = k.update /\ k3.delta = k.delta
  <2>1. /\ k.pend \in [Event -> -1..b] /\ k.methods_dynamic \in [Event -> Seq(Process)]
        /\ k.threads_dynamic \in [Event -> Seq(Process)]
    BY <1>1, Zenon DEF KernelShape
  <2>2. /\ k3.pend = [k.pend EXCEPT ![e] = NotPending]
        /\ k3.methods_dynamic = [k.methods_dynamic EXCEPT ![e] = << >>]
        /\ k3.threads_dynamic = [k.threads_dynamic EXCEPT ![e] = << >>]
        /\ k3.cur = k.cur /\ k3.update = k.update /\ k3.delta = k.delta
    BY <1>2, <1>4, <1>5, <1>7 DEF SameButReady
  <2> QED BY <2>1, <2>2, Zenon
<1>10. k3.runnable = k.runnable \union (UNION {Waiters(k, x) : x \in {e}})
                      \union {p \in UNION {Range(StaticMethods[x]) : x \in {e}} :
                                Unwaiting(k, p) /\ p # k.cur}
  <2>1. UNION {Waiters(k, x) : x \in {e}} = Waiters(k, e)
    OBVIOUS
  <2>2. UNION {Range(StaticMethods[x]) : x \in {e}} = Range(StaticMethods[e])
    OBVIOUS
  <2> QED BY <1>4, <1>5, <1>7, <2>1, <2>2
<1> QED BY <1>7, <1>8, <1>9, <1>10 DEF Triggered, Woke

\* Triggering one event after others is triggering them all.
LEMMA TriggeredMore ==
  ASSUME NEW k, NEW x, NEW y, NEW D \in SUBSET Event, NEW e \in Event, DOMAIN k.pend = Event,
         Triggered(k, D, x), Triggered(x, {e}, y)
  PROVE  Triggered(k, D \union {e}, y)
<1> HIDE DEF Process, Thread, Method, Event, Channel, StaticMethods, Timeout
<1>1. Range(<< >>) = {}
  BY DEF Range
<1>2. DOMAIN x.pend = Event
  BY DEF Triggered, Woke
<1>3. \A f \in Event : Waiters(x, f) = IF f \in D THEN {} ELSE Waiters(k, f)
  BY <1>1 DEF Triggered, Woke, Waiters
<1>4. /\ y.pend = [f \in Event |-> IF f \in D \union {e} THEN NotPending ELSE k.pend[f]]
      /\ y.methods_dynamic = [f \in Event |-> IF f \in D \union {e} THEN << >> ELSE k.methods_dynamic[f]]
      /\ y.threads_dynamic = [f \in Event |-> IF f \in D \union {e} THEN << >> ELSE k.threads_dynamic[f]]
      /\ y.cur = k.cur
  <2>1. /\ x.pend = [f \in Event |-> IF f \in D THEN NotPending ELSE k.pend[f]]
        /\ x.methods_dynamic = [f \in Event |-> IF f \in D THEN << >> ELSE k.methods_dynamic[f]]
        /\ x.threads_dynamic = [f \in Event |-> IF f \in D THEN << >> ELSE k.threads_dynamic[f]]
        /\ x.cur = k.cur
    BY DEF Triggered, Woke
  <2>2. /\ y.pend = [f \in Event |-> IF f \in {e} THEN NotPending ELSE x.pend[f]]
        /\ y.methods_dynamic = [f \in Event |-> IF f \in {e} THEN << >> ELSE x.methods_dynamic[f]]
        /\ y.threads_dynamic = [f \in Event |-> IF f \in {e} THEN << >> ELSE x.threads_dynamic[f]]
        /\ y.cur = x.cur
    BY DEF Triggered, Woke
  <2> QED BY <2>1, <2>2
<1>5. x.runnable = k.runnable \union (UNION {Waiters(k, f) : f \in D})
                      \union {p \in UNION {Range(StaticMethods[f]) : f \in D} :
                                Unwaiting(k, p) /\ p # k.cur}
  BY DEF Triggered, Woke
<1>6. y.runnable = x.runnable \union Waiters(x, e)
                      \union {p \in Range(StaticMethods[e]) : Unwaiting(x, p) /\ p # x.cur}
  <2>1. (UNION {Waiters(x, f) : f \in {e}}) = Waiters(x, e)
    OBVIOUS
  <2>2. (UNION {Range(StaticMethods[f]) : f \in {e}}) = Range(StaticMethods[e])
    OBVIOUS
  <2> QED BY <2>1, <2>2 DEF Triggered, Woke
<1>7. \A p : (Unwaiting(x, p) <=> Unwaiting(k, p))
               \/ (Unwaiting(x, p) /\ \E f \in D : p \in Waiters(k, f))
  BY <1>2, <1>3 DEF Unwaiting
<1>8. x.cur = k.cur
  BY DEF Triggered, Woke
<1>9. \A p : p \in y.runnable <=>
               \/ p \in k.runnable
               \/ \E f \in D \union {e} : p \in Waiters(k, f)
               \/ /\ \E f \in D \union {e} : p \in Range(StaticMethods[f])
                  /\ Unwaiting(k, p) /\ p # k.cur
  <2> TAKE p
  <2> HIDE DEF Unwaiting, Waiters
  <2>1. p \in x.runnable <=>
               \/ p \in k.runnable
               \/ \E f \in D : p \in Waiters(k, f)
               \/ /\ \E f \in D : p \in Range(StaticMethods[f])
                  /\ Unwaiting(k, p) /\ p # k.cur
    BY <1>5
  <2>2. p \in y.runnable <=>
               \/ p \in x.runnable
               \/ p \in Waiters(x, e)
               \/ p \in Range(StaticMethods[e]) /\ Unwaiting(x, p) /\ p # k.cur
    BY <1>6, <1>8
  <2>3. p \in Waiters(x, e) <=> e \notin D /\ p \in Waiters(k, e)
    BY <1>3
  <2> QED BY <1>7, <2>1, <2>2, <2>3
<1>10. y.runnable = k.runnable \union (UNION {Waiters(k, f) : f \in D \union {e}})
                      \union {p \in UNION {Range(StaticMethods[f]) : f \in D \union {e}} :
                                Unwaiting(k, p) /\ p # k.cur}
  <2> DEFINE r == k.runnable \union (UNION {Waiters(k, f) : f \in D \union {e}})
                      \union {p \in UNION {Range(StaticMethods[f]) : f \in D \union {e}} :
                                Unwaiting(k, p) /\ p # k.cur}
  <2>1. \A p : p \in r <=>
               \/ p \in k.runnable
               \/ \E f \in D \union {e} : p \in Waiters(k, f)
               \/ /\ \E f \in D \union {e} : p \in Range(StaticMethods[f])
                  /\ Unwaiting(k, p) /\ p # k.cur
    OBVIOUS
  <2> HIDE DEF r
  <2>2. y.runnable = r
    BY <1>9, <2>1, Zenon
  <2> QED BY <2>2 DEF r
<1> QED BY <1>4, <1>10 DEF Triggered, Woke

TriggerInv(c, j, k2) ==
  LET b == c[1] k == c[2] s == c[3] IN
  KernelOK(b, k2) /\ Triggered(k, Before(s, j), k2) /\ k2.delta = k.delta /\ k2.update = k.update

\* The order in which the events of a notification phase are triggered does not
\* matter to which processes become runnable.
LEMMA TriggerFold ==
  ASSUME NEW b \in Nat, NEW k, KernelOK(b, k), NEW s \in Seq(Event)
  PROVE  LET k2 == FoldLeft(Trigger, k, s) IN
         /\ KernelOK(b, k2) /\ Triggered(k, Range(s), k2)
         /\ k2.delta = k.delta /\ k2.update = k.update
<1> HIDE DEF Process, Thread, Method, Event, Channel, StaticMethods, Timeout
<1> DEFINE c == <<b, k, s>>
<1>0. /\ k \in KernelShape(b) /\ DOMAIN k.pend = Event /\ Len(s) \in Nat
      /\ Before(s, 0) = {} /\ Before(s, Len(s)) = Range(s)
      /\ \A j \in 0..Len(s) : Before(s, j) \in SUBSET Event
  <2>1. k \in KernelShape(b) /\ DOMAIN k.pend = Event
    BY Zenon DEF KernelOK, KernelShape
  <2>2. Len(s) \in Nat /\ DOMAIN s = 1..Len(s) /\ 1..0 = {} /\ \A i \in 1..Len(s) : s[i] \in Event
    OBVIOUS
  <2>3. Before(s, 0) = {} /\ Before(s, Len(s)) = Range(s)
    BY <2>2 DEF Before, Range
  <2>4. \A j \in 0..Len(s) : Before(s, j) \in SUBSET Event
    BY <2>2 DEF Before
  <2> QED BY <2>1, <2>2, <2>3, <2>4
<1>1. TriggerInv(c, 0, k)
  <2>1. /\ k.pend = [f \in Event |-> k.pend[f]] /\ k.methods_dynamic = [f \in Event |-> k.methods_dynamic[f]]
        /\ k.threads_dynamic = [f \in Event |-> k.threads_dynamic[f]]
    BY <1>0 DEF KernelShape
  <2>2. Triggered(k, {}, k)
    BY <2>1 DEF Triggered, Woke
  <2> QED BY <1>0, <2>2, Zenon DEF TriggerInv
<1>2. ASSUME NEW j \in 0..Len(s)-1, NEW x, TriggerInv(c, j, x)
      PROVE  TriggerInv(c, j + 1, Trigger(x, s[j+1]))
  <2>1. KernelOK(b, x) /\ Triggered(k, Before(s, j), x) /\ x.delta = k.delta /\ x.update = k.update
    BY <1>2 DEF TriggerInv
  <2>2. Before(s, j + 1) = Before(s, j) \union {s[j+1]} /\ s[j+1] \in Event
    BY BeforeNext
  <2>3. /\ KernelOK(b, Trigger(x, s[j+1])) /\ Triggered(x, {s[j+1]}, Trigger(x, s[j+1]))
        /\ Trigger(x, s[j+1]).delta = x.delta /\ Trigger(x, s[j+1]).update = x.update
    BY <2>1, <2>2, TriggerOne, Zenon
  <2>4. Before(s, j) \in SUBSET Event
    BY <1>0
  <2>5. Triggered(k, Before(s, j) \union {s[j+1]}, Trigger(x, s[j+1]))
    BY <1>0, <2>1, <2>2, <2>3, <2>4, TriggeredMore
  <2> QED BY <2>1, <2>2, <2>3, <2>5, Zenon DEF TriggerInv
<1>3. PICK g : FoldRecursion("event", g, 1..Len(s), k, s) /\ FoldLeft(Trigger, k, s) = g[1..Len(s)]
  BY TriggersAreFold
<1>4. TriggerInv(c, Len(s), g[1..Len(s)])
  <2> HIDE DEF c
  <2> DEFINE I == [j \in 0..Len(s) |-> {x \in KernelShape(b) : TriggerInv(c, j, x)}]
  <2>1. k \in I[0]
    BY <1>1 DEF KernelOK
  <2>2. ASSUME NEW j \in 0..Len(s)-1, NEW x \in I[j] PROVE FoldStep("event", x, s[j+1]) \in I[j+1]
    <3>1. TriggerInv(c, j + 1, Trigger(x, s[j+1])) /\ j + 1 \in 0..Len(s)
      BY <1>2
    <3>2. Trigger(x, s[j+1]) \in KernelShape(b)
      BY <3>1 DEF TriggerInv, KernelOK, c
    <3> QED BY <3>1, <3>2 DEF FoldStep
  <2>3. g[1..Len(s)] \in I[Len(s)]
    <3> HIDE DEF I
    <3> QED BY <1>3, <2>1, <2>2, FoldInv
  <2> QED BY <2>3
<1> QED BY <1>0, <1>3, <1>4 DEF TriggerInv

\* Any enumeration of a finite set that repeats nothing has all of it.
LEMMA Enumeration ==
  ASSUME NEW S, IsFiniteSet(S), NEW f \in [1..Cardinality(S) -> S],
         \A i, j \in 1..Cardinality(S) : f[i] = f[j] => i = j
  PROVE  f \in Seq(S) /\ Range(f) = S
<1> DEFINE n == Cardinality(S)
<1>1. n \in Nat
  BY FS_CardinalityType
<1>2. IsFiniteSet(1..n) /\ Cardinality(1..n) = n
  BY <1>1, FS_Interval
<1>3. f \in Injection(1..n, S)
  BY Fun_IsInj, Zenon
<1>4. f \in Surjection(1..n, S)
  <2> HIDE DEF n
  <2>1. Cardinality(1..n) = Cardinality(S)
    BY <1>2 DEF n
  <2> QED BY ONLY <1>3, <2>1, IsFiniteSet(S), FS_Injection
<1> QED BY <1>1, <1>4 DEF Surjection, Range

\* The orders in which a finite set can be enumerated.
LEMMA Enumerations ==
  ASSUME NEW S, IsFiniteSet(S)
  PROVE  /\ SetToSeq(S) \in Seq(S) /\ Range(SetToSeq(S)) = S
         /\ \A f \in SetToSeqs(S) : f \in Line(S) /\ f \in Seq(S) /\ Range(f) = S
<1> DEFINE n == Cardinality(S)
<1>1. \E f \in [1..n -> S] : IsInjective(f)
  <2>1. PICK f : f \in Bijection(1..n, S)
    BY FS_CardinalityType DEF ExistsBijection
  <2>2. f \in [1..n -> S] /\ IsInjective(f)
    BY <2>1 DEF Bijection, Injection, IsInjective
  <2> QED BY <2>2
<1>2. SetToSeq(S) \in [1..n -> S] /\ IsInjective(SetToSeq(S))
  BY <1>1, Zenon DEF SetToSeq
<1>3. \A i, j \in 1..n : SetToSeq(S)[i] = SetToSeq(S)[j] => i = j
  BY <1>2 DEF IsInjective
<1>4. SetToSeq(S) \in Seq(S) /\ Range(SetToSeq(S)) = S
  BY <1>2, <1>3, Enumeration, Zenon
<1>5. ASSUME NEW f \in SetToSeqs(S) PROVE f \in Line(S) /\ f \in Seq(S) /\ Range(f) = S
  <2>1. f \in [1..n -> S] /\ \A i, j \in 1..n : f[i] = f[j] => i = j
    BY DEF SetToSeqs
  <2>2. f \in Seq(S) /\ Range(f) = S
    BY <2>1, Enumeration, Zenon
  <2>3. IsInjective(f)
    BY <2>1 DEF IsInjective
  <2> QED BY <2>2, <2>3 DEF Line
<1> QED BY <1>4, <1>5

\* Appending adds one element.
LEMMA AppendRange ==
  ASSUME NEW S, NEW s \in Seq(S), NEW e \in S
  PROVE  Range(Append(s, e)) = Range(s) \union {e}
<1>0. <<e>> \in Seq(S)
  OBVIOUS
<1>1. PICK h \in Seq(S) : h = <<e>>
  BY <1>0, Zenon
<1>2. Range(h) = {e} /\ Append(s, e) = s \o h
  BY <1>1 DEF Range
<1>3. Range(s \o h) = Range(s) \union Range(h)
  BY RangeConcatenation
<1> QED BY <1>2, <1>3

\* A line has finitely many elements.
LEMMA FiniteRange ==
  ASSUME NEW S, NEW s \in Seq(S)
  PROVE  IsFiniteSet(Range(s))
<1>1. Len(s) \in Nat /\ s \in [1..Len(s) -> S]
  OBVIOUS
<1>2. IsFiniteSet(1..Len(s))
  BY <1>1, FS_Interval
<1>3. s \in Surjection(1..Len(s), Range(s))
  BY <1>1, Fun_RangeProperties, Zenon
<1> QED BY <1>2, <1>3, FS_Surjection

\* The threads of the platform; each is constructed once.
LEMMA ThreadFacts ==
  /\ ThreadOrder \in Line(Thread) /\ Range(ThreadOrder) = Thread
  /\ \A n \in Initiator : <<"initiator", n>> \in Thread /\ <<"generator", n>> \in Thread
  /\ \A p \in Thread : \/ p \in {"initiator", "generator"} \X Initiator
                       \/ /\ ~Blocking /\ Wiring = "bus"
                          /\ p \in {"request", "response"} \X {0}
<1> DEFINE first == IF Wiring = "bus" THEN <<BusThread("request"), BusThread("response")>> ELSE << >>
           rest == [j \in 1..(2*NI) |-> <<IF j % 2 = 1 THEN "initiator" ELSE "generator", (j + 1) \div 2>>]
           Own == {"initiator", "generator"} \X Initiator
           Bs == {"request", "response"} \X {0}
           U == Own \union Bs
<1>1. NI \in Nat \ {0} /\ 2*NI \in Nat
  BY SizesAssumption
<1>2. /\ first \in Seq(U) /\ (Wiring # "bus" => first = << >>)
      /\ \A i \in 1..Len(first) : first[i] \in Bs /\ \A j \in 1..Len(first) : first[i] = first[j] => i = j
  <2> HIDE DEF Own
  <2>1. CASE Wiring = "bus"
    <3>1. first = <<<<"request", 0>>, <<"response", 0>>>>
      BY <2>1 DEF BusThread
    <3>2. <<"request", 0>> \in Bs /\ <<"response", 0>> \in Bs /\ <<"request", 0>> # <<"response", 0>>
      OBVIOUS
    <3> HIDE DEF Bs, first
    <3>3. first \in Seq(U) /\ Len(first) = 2 /\ first[1] = <<"request", 0>> /\ first[2] = <<"response", 0>>
      BY <3>1, <3>2
    <3>4. ~Blocking
      BY <2>1 DEF Blocking
    <3>5. \A i \in 1..Len(first) : i = 1 \/ i = 2
      BY <3>3
    <3> QED BY <2>1, <3>2, <3>3, <3>4, <3>5, Zenon
  <2>2. CASE Wiring # "bus"
    BY <2>2
  <2> QED BY <2>1, <2>2, Zenon
<1>3. /\ rest \in Seq(U) /\ Len(rest) = 2*NI /\ \A j \in 1..(2*NI) : rest[j] \in Own
      /\ \A i, j \in 1..(2*NI) : rest[i] = rest[j] => i = j
      /\ \A n \in Initiator : <<"initiator", n>> = rest[2*n-1] /\ <<"generator", n>> = rest[2*n]
  <2> HIDE DEF U
  <2>1. \A j \in 1..(2*NI) : (j + 1) \div 2 \in 1..NI
    BY <1>1
  <2>2. \A j \in 1..(2*NI) : rest[j] \in Own
    BY <2>1 DEF Initiator
  <2>3. rest \in Seq(U) /\ Len(rest) = 2*NI
    BY <1>1, <2>2 DEF U
  <2>4. ASSUME NEW i \in 1..(2*NI), NEW j \in 1..(2*NI), rest[i] = rest[j] PROVE i = j
    <3>1. (i + 1) \div 2 = (j + 1) \div 2
      BY <2>4
    <3>2. i % 2 = 1 <=> j % 2 = 1
      BY <2>4
    <3> QED BY <1>1, <3>1, <3>2
  <2>5. ASSUME NEW n \in Initiator PROVE <<"initiator", n>> = rest[2*n-1] /\ <<"generator", n>> = rest[2*n]
    <3>1. 2*n-1 \in 1..(2*NI) /\ 2*n \in 1..(2*NI) /\ (2*n-1) % 2 = 1 /\ (2*n) % 2 # 1
          /\ (2*n-1 + 1) \div 2 = n /\ (2*n + 1) \div 2 = n
      BY <1>1 DEF Initiator
    <3> QED BY <3>1
  <2> QED BY <2>2, <2>3, <2>4, <2>5, Zenon
<1>4. Own \intersect Bs = {}
  OBVIOUS
<1> HIDE DEF first, rest, Own, Bs, U
<1>5. PICK l \in Nat : l = Len(first)
  BY <1>2
<1>6. /\ ThreadOrder \in Seq(U) /\ Len(ThreadOrder) = l + 2*NI
      /\ \A i \in 1..l+2*NI : \/ i \in 1..l /\ ThreadOrder[i] = first[i]
                              \/ i - l \in 1..(2*NI) /\ ThreadOrder[i] = rest[i-l]
  <2>1. ThreadOrder = first \o rest
    BY DEF ThreadOrder, first, rest
  <2>2. /\ first \o rest \in Seq(U) /\ Len(first \o rest) = l + 2*NI
        /\ \A i \in 1..l+2*NI : (first \o rest)[i] = IF i <= l THEN first[i] ELSE rest[i-l]
    <3>1. /\ first \o rest \in Seq(U) /\ Len(first \o rest) = Len(first) + Len(rest)
          /\ \A i \in 1..Len(first)+Len(rest) :
               (first \o rest)[i] = IF i <= Len(first) THEN first[i] ELSE rest[i-Len(first)]
      <4>1. first \in Seq(U) /\ rest \in Seq(U)
        BY <1>2, <1>3
      <4> QED BY ONLY <4>1, ConcatProperties
    <3> QED BY <1>3, <1>5, <3>1
  <2> QED BY <1>1, <1>5, <2>1, <2>2
<1>7. ASSUME NEW i \in 1..l+2*NI, NEW j \in 1..l+2*NI, ThreadOrder[i] = ThreadOrder[j] PROVE i = j
  <2>1. CASE i \in 1..l /\ ThreadOrder[i] = first[i]
    <3>1. j \in 1..l /\ ThreadOrder[j] = first[j]
      <4>1. first[i] \in Bs
        BY <1>2, <1>5, <2>1
      <4>2. ~(j - l \in 1..(2*NI) /\ ThreadOrder[j] = rest[j-l])
        BY <1>3, <1>4, <1>7, <2>1, <4>1
      <4> QED BY <1>6, <1>7, <4>2
    <3> QED BY <1>2, <1>5, <1>7, <2>1, <3>1, Zenon
  <2>2. CASE i - l \in 1..(2*NI) /\ ThreadOrder[i] = rest[i-l]
    <3>1. j - l \in 1..(2*NI) /\ ThreadOrder[j] = rest[j-l]
      BY <1>2, <1>3, <1>4, <1>5, <1>6, <1>7, <2>2, Zenon
    <3>2. i - l = j - l
      BY <1>3, <1>7, <2>2, <3>1, Zenon
    <3> QED BY <3>2
  <2> QED BY <1>6, <2>1, <2>2
<1>8. DOMAIN ThreadOrder = 1..l+2*NI /\ Range(ThreadOrder) = Thread
  <2>1. DOMAIN ThreadOrder = 1..l+2*NI
    BY <1>6, LenProperties
  <2> QED BY <1>6, <2>1 DEF Thread, Range
<1>9. ThreadOrder \in Seq(Thread)
  BY <1>6, <1>8 DEF Thread
<1>10. \A n \in Initiator : <<"initiator", n>> \in Thread /\ <<"generator", n>> \in Thread
  <2> SUFFICES ASSUME NEW n \in Initiator PROVE <<"initiator", n>> \in Thread /\ <<"generator", n>> \in Thread
    BY Zenon
  <2>1. PICK i, j : i = l + (2*n-1) /\ j = l + 2*n
    OBVIOUS
  <2>2. /\ i \in 1..l+2*NI /\ i - l = 2*n-1 /\ i \notin 1..l
        /\ j \in 1..l+2*NI /\ j - l = 2*n /\ j \notin 1..l
    BY <1>1, <1>5, <2>1 DEF Initiator
  <2>3. ThreadOrder[i] = <<"initiator", n>> /\ ThreadOrder[j] = <<"generator", n>>
    BY <1>3, <1>6, <2>2, Zenon
  <2> QED BY <1>6, <2>2, <2>3, Zenon DEF Thread
<1>11. \A p \in Thread : p \in Own \/ (~Blocking /\ Wiring = "bus" /\ p \in Bs)
  <2> SUFFICES ASSUME NEW p \in Thread PROVE p \in Own \/ (~Blocking /\ Wiring = "bus" /\ p \in Bs)
    OBVIOUS
  <2>1. PICK i \in 1..l+2*NI : p = ThreadOrder[i]
    BY <1>6 DEF Thread
  <2>2. (Wiring # "bus" => l = 0) /\ (Wiring = "bus" => ~Blocking)
    BY <1>2, <1>5 DEF Blocking
  <2>3. CASE i \in 1..l /\ ThreadOrder[i] = first[i]
    <3>1. p \in Bs
      BY <1>2, <1>5, <2>1, <2>3
    <3>2. l # 0
      BY <1>5, <2>3
    <3> QED BY <2>2, <3>1, <3>2
  <2>4. CASE i - l \in 1..(2*NI) /\ ThreadOrder[i] = rest[i-l]
    BY <1>3, <2>1, <2>4
  <2> QED BY <1>6, <2>3, <2>4
<1> QED BY <1>7, <1>8, <1>9, <1>10, <1>11 DEF Line, IsInjective, Own, Bs

\* No process has the name the kernel's record gives to nobody.
LEMMA NobodyRuns == Nobody \notin Process
<1>1. Nobody \notin Thread
  BY ThreadFacts DEF Nobody
<1>2. Nobody \notin Method
  <2>1. CASE Blocking
    BY <2>1 DEF Method, ToggleDmi, Nobody
  <2>2. CASE ~Blocking
    BY <2>2 DEF Method, Nobody
  <2> QED BY <2>1, <2>2
<1> QED BY <1>1, <1>2 DEF Process

\* The platform is finite.
LEMMA EventsFinite == IsFiniteSet(Event) /\ IsFiniteSet(Process)
<1> DEFINE Ix == 0..NI+NT
           Tname == {"request", "response", "initiator", "generator"}
           Pname == {"request", "response", "initiator", "generator", "toggle_dmi", "send_end_rsp",
                     "begin_response", "end_request"}
           Ename == {"send_end_rsp_PEQ", "response_PEQ", "end_request_PEQ", "requestPEQ", "responsePEQ",
                     "enable_next_request", "end_resp_rcvd", "mEndRequest", "mEndResponse"}
<1>1. /\ Initiator \subseteq Ix /\ Target \subseteq Ix /\ Bus \subseteq Ix /\ NI + NT \in Nat
      /\ IsFiniteSet(Ix)
  <2>1. /\ Initiator \subseteq Ix /\ Target \subseteq Ix /\ Bus \subseteq Ix /\ NI + NT \in Nat
    BY SizesAssumption DEF Initiator, Target, Bus
  <2>2. IsFiniteSet(Ix)
    BY <2>1, 0 \in Int, NI + NT \in Int, FS_Interval
  <2> QED BY <2>1, <2>2
<1>2. IsFiniteSet(Pname) /\ IsFiniteSet(Ename) /\ IsFiniteSet({"req", "rsp"})
  <2>1. IsFiniteSet(Pname)
    <3> DEFINE s == <<"request", "response", "initiator", "generator", "toggle_dmi", "send_end_rsp",
                      "begin_response", "end_request">>
    <3>1. s \in Seq(Pname)
      OBVIOUS
    <3>2. Pname \subseteq {s[1], s[2], s[3], s[4], s[5], s[6], s[7], s[8]}
      OBVIOUS
    <3>3. DOMAIN s = 1..8
      OBVIOUS
    <3> HIDE DEF s
    <3>4. Pname \subseteq Range(s)
      BY <3>2, <3>3 DEF Range
    <3> QED BY <3>1, <3>4, FiniteRange, FS_Subset
  <2>2. IsFiniteSet(Ename)
    <3> DEFINE s == <<"send_end_rsp_PEQ", "response_PEQ", "end_request_PEQ", "requestPEQ", "responsePEQ",
                     "enable_next_request", "end_resp_rcvd", "mEndRequest", "mEndResponse">>
    <3>1. s \in Seq(Ename)
      OBVIOUS
    <3>2. Ename \subseteq {s[1], s[2], s[3], s[4], s[5], s[6], s[7], s[8], s[9]}
      OBVIOUS
    <3>3. DOMAIN s = 1..9
      OBVIOUS
    <3> HIDE DEF s
    <3>4. Ename \subseteq Range(s)
      BY <3>2, <3>3 DEF Range
    <3> QED BY <3>1, <3>4, FiniteRange, FS_Subset
  <2>3. IsFiniteSet({"req", "rsp"})
    <3> DEFINE s == <<"req", "rsp">>
    <3>1. s \in Seq({"req", "rsp"})
      OBVIOUS
    <3>2. {"req", "rsp"} \subseteq {s[1], s[2]}
      OBVIOUS
    <3>3. DOMAIN s = 1..2
      OBVIOUS
    <3> HIDE DEF s
    <3>4. {"req", "rsp"} \subseteq Range(s)
      BY <3>2, <3>3 DEF Range
    <3> QED BY <3>1, <3>4, FiniteRange, FS_Subset
  <2> QED BY <2>1, <2>2, <2>3
<1>3. Thread \subseteq Tname \X Ix
  <2> HIDE DEF Ix
  <2>1. 0 \in Ix
    BY <1>1 DEF Ix
  <2>2. ASSUME NEW p \in {"initiator", "generator"} \X Initiator PROVE p \in Tname \X Ix
    BY <1>1
  <2>3. ASSUME NEW p \in {"request", "response"} \X {0} PROVE p \in Tname \X Ix
    BY <2>1
  <2> HIDE DEF Tname, Thread
  <2> QED BY <2>2, <2>3, ThreadFacts, Zenon
<1>4. Method \subseteq Pname \X Ix
  <2>1. CASE Blocking
    BY <1>1, <2>1 DEF Method, ToggleDmi
  <2>2. CASE ~Blocking
    <3>1. Method = ({"send_end_rsp"} \X Initiator) \union ({"begin_response", "end_request"} \X Target)
      BY <2>2 DEF Method
    <3> QED BY <1>1, <3>1, Zenon
  <2> QED BY <2>1, <2>2
<1>5. IsFiniteSet(Process)
  <2>1. IsFiniteSet(Pname \X Ix)
    BY <1>1, <1>2, FS_Product
  <2>2. Process \subseteq Pname \X Ix
    BY <1>3, <1>4 DEF Process
  <2> QED BY <2>1, <2>2, FS_Subset
<1>6. IsFiniteSet(Peq \union Plain)
  <2>1. IsFiniteSet(Ename \X Ix)
    BY <1>1, <1>2, FS_Product, Zenon
  <2>2. Peq \union Plain \subseteq Ename \X Ix
    BY <1>1, Zenon DEF Peq, Plain
  <2> QED BY <2>1, <2>2, FS_Subset
<1>7. IsFiniteSet({Timeout[p] : p \in Process})
  <2> DEFINE T == {Timeout[p] : p \in Process}
  <2>1. Timeout \in Surjection(Process, T)
    <3>1. Timeout \in [Process -> T]
      BY DEF Timeout
    <3> QED BY <3>1 DEF Surjection
  <2> HIDE DEF T
  <2>2. IsFiniteSet(T)
    BY <1>5, <2>1, FS_Surjection
  <2> QED BY <2>2 DEF T
<1>8. IsFiniteSet(Channel)
  <2>1. IsFiniteSet({"req", "rsp"} \X Ix)
    BY <1>1, <1>2, FS_Product, Zenon
  <2>2. Channel \subseteq {"req", "rsp"} \X Ix
    BY <1>1, Zenon DEF Channel
  <2> QED BY <2>1, <2>2, FS_Subset
<1>9. IsFiniteSet({DataWritten(ch) : ch \in Channel}) /\ IsFiniteSet({DataRead(ch) : ch \in Channel})
  <2> DEFINE T == {DataWritten(ch) : ch \in Channel}
             R == {DataRead(ch) : ch \in Channel}
             f == [ch \in Channel |-> DataWritten(ch)]
             g == [ch \in Channel |-> DataRead(ch)]
  <2> HIDE DEF Channel
  <2>1. f \in Surjection(Channel, T) /\ g \in Surjection(Channel, R)
    BY DEF Surjection
  <2> HIDE DEF T, R, f, g
  <2>2. IsFiniteSet(T)
    BY <1>8, <2>1, FS_Surjection
  <2>3. IsFiniteSet(R)
    BY <1>8, <2>1, FS_Surjection
  <2> QED BY <2>2, <2>3 DEF T, R
<1>10. Event = (((Peq \union Plain) \union {Timeout[p] : p \in Process})
                \union {DataWritten(ch) : ch \in Channel}) \union {DataRead(ch) : ch \in Channel}
  <2> HIDE DEF Peq, Plain, Timeout, Process, Channel, DataWritten, DataRead
  <2> QED BY DEF Event
<1>11. IsFiniteSet((Peq \union Plain) \union {Timeout[p] : p \in Process})
  BY <1>6, <1>7, FS_Union, Zenon
<1>12. IsFiniteSet(((Peq \union Plain) \union {Timeout[p] : p \in Process})
                \union {DataWritten(ch) : ch \in Channel})
  BY <1>9, <1>11, FS_Union, Zenon
<1>13. IsFiniteSet(Event)
  BY <1>9, <1>10, <1>12, FS_Union, Zenon
<1> QED BY <1>5, <1>13

\* The events of the platform are distinct.
LEMMA EventFacts ==
  /\ \A p \in Process : Timeout[p] \in Event
  /\ \A c \in Channel : DataWritten(c) \in Event /\ DataRead(c) \in Event
  /\ \A p \in Process, c \in Channel : Timeout[p] # DataWritten(c) /\ Timeout[p] # DataRead(c)
  /\ \A p, q \in Process : Timeout[p] = Timeout[q] => p = q
  /\ \A c, d \in Channel :  /\ DataWritten(c) # DataRead(d)
                            /\ (DataWritten(c) = DataWritten(d) => c = d)
                            /\ (DataRead(c) = DataRead(d) => c = d)
<1>1. \A p \in Process : p = <<p[1], p[2]>>
  <2>1. \A p \in Thread : p = <<p[1], p[2]>>
    BY ThreadFacts
  <2>2. \A p \in Method : p = <<p[1], p[2]>>
    <3>1. CASE Blocking
      BY <3>1 DEF Method, ToggleDmi
    <3>2. CASE ~Blocking
      <4>1. Method = ({"send_end_rsp"} \X Initiator) \union ({"begin_response", "end_request"} \X Target)
        BY <3>2 DEF Method
      <4> QED BY <4>1
    <3> QED BY <3>1, <3>2
  <2> QED BY <2>1, <2>2 DEF Process
<1>2. \A c \in Channel : c = <<c[1], c[2]>>
  BY DEF Channel
<1> HIDE DEF Process, Channel
<1>3. \A p \in Process : Timeout[p] = <<"timeout", p[1], p[2]>>
  BY DEF Timeout
<1>4. /\ \A p \in Process, c \in Channel : Timeout[p] # DataWritten(c) /\ Timeout[p] # DataRead(c)
      /\ \A c, d \in Channel : DataWritten(c) # DataRead(d)
  BY <1>3 DEF DataWritten, DataRead
<1>5. /\ \A p, q \in Process : Timeout[p] = Timeout[q] => p = q
      /\ \A c, d \in Channel :  /\ DataWritten(c) = DataWritten(d) => c = d
                                /\ DataRead(c) = DataRead(d) => c = d
  BY <1>1, <1>2, <1>3 DEF DataWritten, DataRead
<1> HIDE DEF Timeout, DataWritten, DataRead
<1>6. /\ \A p \in Process : Timeout[p] \in Event
      /\ \A c \in Channel : DataWritten(c) \in Event /\ DataRead(c) \in Event
  BY DEF Event
<1> QED BY <1>4, <1>5, <1>6

-----------------------------------------------------------------------------
(* Notifications, waits and the phases between evaluations *)

\* In the kernel's own order, the delta queue has the events pending for the
\* next delta notification phase.
Listed(k) == ExactOrder => Range(k.delta) = DeltaPending(k)

KernelInv(b, k) == KernelOK(b, k) /\ Listed(k)

\* Of two notifications of an event only the earlier is kept.
Earlier(old, t) == IF old = NotPending \/ t < old THEN t ELSE old

\* sc_event::notify(t) keeps the record in shape: the earlier notification wins, and
\* no process is moved.
LEMMA NotifyOK ==
  ASSUME NEW b \in Nat, NEW k, KernelInv(b, k), NEW e \in Event, NEW t \in 0..b
  PROVE  LET k2 == Notify(k, e, t) IN
         /\ KernelInv(b, k2)
         /\ k2.pend = [k.pend EXCEPT ![e] = Earlier(k.pend[e], t)]
         /\ k2.cur = k.cur /\ k2.update = k.update /\ k2.runnable = k.runnable
         /\ k2.methods_dynamic = k.methods_dynamic /\ k2.threads_dynamic = k.threads_dynamic
<1> HIDE DEF Process, Thread, Method, Event, Channel, StaticMethods, Timeout
<1>0. k \in KernelShape(b) /\ k.pend \in [Event -> -1..b] /\ k.pend[e] \in -1..b /\ k.delta \in Seq(Event)
  BY Zenon DEF KernelInv, KernelOK, KernelShape
<1>1. ASSUME NEW t2 \in 0..b
      PROVE  LET k2 == [k EXCEPT !.pend[e] = t2] IN
             /\ k2 \in KernelShape(b) /\ KernelOK(b, k2) /\ k2.pend = [k.pend EXCEPT ![e] = t2]
             /\ k2.cur = k.cur /\ k2.update = k.update /\ k2.runnable = k.runnable
             /\ k2.methods_dynamic = k.methods_dynamic /\ k2.threads_dynamic = k.threads_dynamic
             /\ k2.delta = k.delta
  <2> DEFINE k2 == [k EXCEPT !.pend[e] = t2]
  <2>1. [k.pend EXCEPT ![e] = t2] \in [Event -> -1..b]
    BY <1>0
  <2>2. k2 = [k EXCEPT !.pend = [k.pend EXCEPT ![e] = t2]]
    BY <1>0 DEF KernelShape
  <2>3. /\ k2 \in KernelShape(b) /\ k2.pend = [k.pend EXCEPT ![e] = t2]
        /\ k2.cur = k.cur /\ k2.update = k.update /\ k2.runnable = k.runnable
        /\ k2.methods_dynamic = k.methods_dynamic /\ k2.threads_dynamic = k.threads_dynamic
        /\ k2.delta = k.delta /\ k2.methods = k.methods /\ k2.threads = k.threads /\ k2.pop = k.pop
    BY <1>0, <2>1, <2>2, Zenon DEF KernelShape
  <2> HIDE DEF k2
  <2>4. KernelOK(b, k2)
    BY <2>3 DEF KernelInv, KernelOK, Enqueued
  <2> QED BY <2>3, <2>4 DEF k2
<1>2. CASE k.pend[e] = 0
  <2>1. Notify(k, e, t) = k /\ Earlier(k.pend[e], t) = 0
    BY <1>2 DEF Notify, Earlier, NotPending
  <2>2. k.pend = [k.pend EXCEPT ![e] = 0]
    BY <1>0, <1>2, Zenon
  <2> QED BY <2>1, <2>2
<1>3. CASE k.pend[e] # 0 /\ t = 0
  <2>1. Notify(k, e, t) = AddDelta(k, e) /\ Earlier(k.pend[e], t) = 0
    BY <1>0, <1>3 DEF Notify, Earlier, NotPending
  <2> DEFINE k1 == [k EXCEPT !.pend[e] = 0]
             k2 == AddDelta(k, e)
  <2>2. 0 \in 0..b
    OBVIOUS
  <2>3. /\ k1 \in KernelShape(b) /\ KernelOK(b, k1) /\ k1.pend = [k.pend EXCEPT ![e] = 0]
        /\ k1.cur = k.cur /\ k1.update = k.update /\ k1.runnable = k.runnable
        /\ k1.methods_dynamic = k.methods_dynamic /\ k1.threads_dynamic = k.threads_dynamic
        /\ k1.delta = k.delta
    BY <1>1, <2>2
  <2>4. CASE ~ExactOrder
    <3>1. k2 = k1
      BY <2>4 DEF AddDelta
    <3> HIDE DEF k1, k2
    <3> QED BY <2>1, <2>3, <2>4, <3>1 DEF k2, KernelInv, Listed
  <2>5. CASE ExactOrder
    <3>0. k2 = [k1 EXCEPT !.delta = Append(k1.delta, e)]
      BY <1>0, <2>5 DEF AddDelta, KernelShape
    <3> HIDE DEF k1, k2
    <3>1. Append(k1.delta, e) \in Seq(Event)
      BY <1>0, <2>3
    <3>2. /\ k2 \in KernelShape(b) /\ k2.pend = k1.pend /\ k2.delta = Append(k1.delta, e)
          /\ k2.cur = k1.cur /\ k2.update = k1.update /\ k2.runnable = k1.runnable
          /\ k2.methods_dynamic = k1.methods_dynamic /\ k2.threads_dynamic = k1.threads_dynamic
          /\ k2.methods = k1.methods /\ k2.threads = k1.threads /\ k2.pop = k1.pop
      BY <2>3, <3>0, <3>1, Zenon DEF KernelShape
    <3>3. KernelOK(b, k2)
      BY <2>3, <3>2 DEF KernelOK, Enqueued
    <3>4. Range(k2.delta) = Range(k.delta) \union {e}
      BY <1>0, <2>3, <3>2, AppendRange
    <3>5. DeltaPending(k2) = DeltaPending(k) \union {e}
      BY <1>0, <2>3, <3>2 DEF DeltaPending
    <3> QED BY <2>1, <2>3, <3>2, <3>3, <3>4, <3>5 DEF k2, KernelInv, Listed
  <2> QED BY <2>4, <2>5
<1>4. CASE k.pend[e] # 0 /\ t > 0 /\ k.pend[e] # NotPending /\ k.pend[e] <= t
  <2>1. Notify(k, e, t) = k /\ Earlier(k.pend[e], t) = k.pend[e]
    BY <1>0, <1>4 DEF Notify, Earlier, NotPending
  <2>2. k.pend = [k.pend EXCEPT ![e] = k.pend[e]]
    BY <1>0, Zenon
  <2> QED BY <2>1, <2>2
<1>5. CASE k.pend[e] # 0 /\ t > 0 /\ (k.pend[e] = NotPending \/ k.pend[e] > t)
  <2>1. Notify(k, e, t) = [k EXCEPT !.pend[e] = t] /\ Earlier(k.pend[e], t) = t
    BY <1>0, <1>5 DEF Notify, Earlier, NotPending
  <2> DEFINE k2 == [k EXCEPT !.pend[e] = t]
  <2>3. /\ KernelOK(b, k2) /\ k2.pend = [k.pend EXCEPT ![e] = t]
        /\ k2.cur = k.cur /\ k2.update = k.update /\ k2.runnable = k.runnable
        /\ k2.methods_dynamic = k.methods_dynamic /\ k2.threads_dynamic = k.threads_dynamic
        /\ k2.delta = k.delta
    BY <1>1
  <2> HIDE DEF k2
  <2>4. DeltaPending(k2) = DeltaPending(k)
    BY <1>0, <1>5, <2>3 DEF DeltaPending
  <2>5. Listed(k2)
    BY <2>3, <2>4 DEF Listed, KernelInv
  <2> QED BY <2>1, <2>3, <2>5 DEF KernelInv, k2
<1> QED BY <1>0, <1>2, <1>3, <1>4, <1>5

\* The waiting processes when p also waits for e.
Joined(waiting, e, p) == [waiting EXCEPT ![e] = Append(@, p)]

\* Yield, and the two kinds of wait of a process.
LEMMA YieldOK ==
  ASSUME NEW b \in Nat, NEW k, KernelInv(b, k)
  PROVE  LET k2 == Yield(k) IN
         /\ KernelInv(b, k2) /\ k2.cur = Nobody
         /\ k2.pend = k.pend /\ k2.update = k.update /\ k2.runnable = k.runnable
         /\ k2.methods_dynamic = k.methods_dynamic /\ k2.threads_dynamic = k.threads_dynamic
<1> HIDE DEF Process, Thread, Method, Event, Channel, Nobody
<1>0. k \in KernelShape(b)
  BY DEF KernelInv, KernelOK
<1> DEFINE k2 == Yield(k)
<1>1. /\ k2 \in KernelShape(b) /\ k2.cur = Nobody
      /\ k2.pend = k.pend /\ k2.update = k.update /\ k2.runnable = k.runnable
      /\ k2.methods_dynamic = k.methods_dynamic /\ k2.threads_dynamic = k.threads_dynamic
      /\ k2.delta = k.delta /\ k2.methods = k.methods /\ k2.threads = k.threads /\ k2.pop = k.pop
  BY <1>0, Zenon DEF Yield, KernelShape
<1> HIDE DEF k2
<1>2. KernelOK(b, k2) /\ Listed(k2)
  BY <1>1 DEF KernelInv, KernelOK, Enqueued, Listed, DeltaPending
<1> QED BY <1>1, <1>2 DEF k2, KernelInv

\* next_trigger keeps the record in shape: the process joins the event's line.
LEMMA NextTriggerOK ==
  ASSUME NEW b \in Nat, NEW k, KernelInv(b, k), NEW p \in Process, NEW e \in Event
  PROVE  LET k2 == NextTrigger(k, p, e) IN
         /\ KernelInv(b, k2) /\ k2.cur = k.cur
         /\ k2.pend = k.pend /\ k2.update = k.update /\ k2.runnable = k.runnable
         /\ p \in Thread => /\ k2.threads_dynamic = Joined(k.threads_dynamic, e, p)
                           /\ k2.methods_dynamic = k.methods_dynamic
         /\ p \notin Thread => /\ k2.methods_dynamic = Joined(k.methods_dynamic, e, p)
                              /\ k2.threads_dynamic = k.threads_dynamic
<1> HIDE DEF Process, Thread, Method, Event, Channel, Nobody
<1>0. /\ k \in KernelShape(b) /\ k.threads_dynamic \in [Event -> Seq(Process)]
      /\ k.methods_dynamic \in [Event -> Seq(Process)]
  BY Zenon DEF KernelInv, KernelOK, KernelShape
<1>1. CASE p \in Thread
  <2> DEFINE d == Joined(k.threads_dynamic, e, p)
             k2 == [k EXCEPT !.threads_dynamic = d]
  <2>1. d \in [Event -> Seq(Process)]
    BY <1>0 DEF Joined
  <2>2. NextTrigger(k, p, e) = k2
    BY <1>0, <1>1 DEF NextTrigger, Joined, KernelShape
  <2> HIDE DEF d
  <2>3. /\ k2 \in KernelShape(b) /\ k2.cur = k.cur /\ k2.threads_dynamic = d
        /\ k2.pend = k.pend /\ k2.update = k.update /\ k2.runnable = k.runnable
        /\ k2.methods_dynamic = k.methods_dynamic
        /\ k2.delta = k.delta /\ k2.methods = k.methods /\ k2.threads = k.threads /\ k2.pop = k.pop
    BY <1>0, <2>1, Zenon DEF KernelShape
  <2> HIDE DEF k2
  <2>4. KernelOK(b, k2) /\ Listed(k2)
    BY <2>3 DEF KernelInv, KernelOK, Enqueued, Listed, DeltaPending
  <2> QED BY <1>1, <2>2, <2>3, <2>4 DEF d, KernelInv
<1>2. CASE p \notin Thread
  <2> DEFINE d == Joined(k.methods_dynamic, e, p)
             k2 == [k EXCEPT !.methods_dynamic = d]
  <2>1. d \in [Event -> Seq(Process)]
    BY <1>0 DEF Joined
  <2>2. NextTrigger(k, p, e) = k2
    BY <1>0, <1>2 DEF NextTrigger, Joined, KernelShape
  <2> HIDE DEF d
  <2>3. /\ k2 \in KernelShape(b) /\ k2.cur = k.cur /\ k2.methods_dynamic = d
        /\ k2.pend = k.pend /\ k2.update = k.update /\ k2.runnable = k.runnable
        /\ k2.threads_dynamic = k.threads_dynamic
        /\ k2.delta = k.delta /\ k2.methods = k.methods /\ k2.threads = k.threads /\ k2.pop = k.pop
    BY <1>0, <2>1, Zenon DEF KernelShape
  <2> HIDE DEF k2
  <2>4. KernelOK(b, k2) /\ Listed(k2)
    BY <2>3 DEF KernelInv, KernelOK, Enqueued, Listed, DeltaPending
  <2> QED BY <1>2, <2>2, <2>3, <2>4 DEF d, KernelInv
<1> QED BY <1>1, <1>2

\* wait(event) keeps the record in shape: the thread joins the event's line and yields.
LEMMA WaitOK ==
  ASSUME NEW b \in Nat, NEW k, KernelInv(b, k), NEW p \in Thread, NEW e \in Event
  PROVE  LET k2 == Wait(k, p, e) IN
         /\ KernelInv(b, k2) /\ k2.cur = Nobody
         /\ k2.pend = k.pend /\ k2.update = k.update /\ k2.runnable = k.runnable
         /\ k2.threads_dynamic = Joined(k.threads_dynamic, e, p)
         /\ k2.methods_dynamic = k.methods_dynamic
<1>1. p \in Process
  BY DEF Process
<1> HIDE DEF Process, Thread, Event
<1> DEFINE k1 == NextTrigger(k, p, e)
<1>2. /\ KernelInv(b, k1)
      /\ k1.pend = k.pend /\ k1.update = k.update /\ k1.runnable = k.runnable
      /\ k1.threads_dynamic = Joined(k.threads_dynamic, e, p)
      /\ k1.methods_dynamic = k.methods_dynamic
  BY <1>1, NextTriggerOK
<1> HIDE DEF k1
<1>3. Wait(k, p, e) = Yield(k1)
  BY DEF Wait, k1
<1> QED BY <1>2, <1>3, YieldOK

\* wait(time) keeps the record in shape: the thread's own event is notified, the thread
\* joins its line and yields.
LEMMA WaitTimeOK ==
  ASSUME NEW b \in Nat, NEW k, KernelInv(b, k), NEW p \in Thread, NEW t \in 0..b
  PROVE  LET k2 == WaitTime(k, p, t) IN
         /\ KernelInv(b, k2) /\ k2.cur = Nobody
         /\ k2.pend = [k.pend EXCEPT ![Timeout[p]] = Earlier(k.pend[Timeout[p]], t)]
         /\ k2.update = k.update /\ k2.runnable = k.runnable
         /\ k2.threads_dynamic = Joined(k.threads_dynamic, Timeout[p], p)
         /\ k2.methods_dynamic = k.methods_dynamic
<1>1. p \in Process
  BY DEF Process
<1>2. Timeout[p] \in Event
  BY <1>1 DEF Event
<1> HIDE DEF Process, Thread, Event, Timeout
<1> DEFINE k0 == Notify(k, Timeout[p], t)
           k1 == NextTrigger(k0, p, Timeout[p])
<1>3. /\ KernelInv(b, k0)
      /\ k0.pend = [k.pend EXCEPT ![Timeout[p]] = Earlier(k.pend[Timeout[p]], t)]
      /\ k0.update = k.update /\ k0.runnable = k.runnable
      /\ k0.methods_dynamic = k.methods_dynamic /\ k0.threads_dynamic = k.threads_dynamic
  BY <1>2, NotifyOK
<1> HIDE DEF k0
<1>4. /\ KernelInv(b, k1)
      /\ k1.pend = k0.pend /\ k1.update = k0.update /\ k1.runnable = k0.runnable
      /\ k1.threads_dynamic = Joined(k0.threads_dynamic, Timeout[p], p)
      /\ k1.methods_dynamic = k0.methods_dynamic
  BY <1>1, <1>2, <1>3, NextTriggerOK
<1> HIDE DEF k1
<1>5. WaitTime(k, p, t) = Yield(k1)
  BY DEF WaitTime, NextTriggerTime, k1, k0
<1> QED BY <1>3, <1>4, <1>5, YieldOK

\* request_update keeps the record in shape: the channel is in the update list.
LEMMA RequestUpdateOK ==
  ASSUME NEW b \in Nat, NEW k, KernelInv(b, k), NEW ch \in Channel
  PROVE  LET k2 == RequestUpdate(k, ch) IN
         /\ KernelInv(b, k2) /\ k2.cur = k.cur
         /\ k2.pend = k.pend /\ k2.runnable = k.runnable
         /\ k2.methods_dynamic = k.methods_dynamic /\ k2.threads_dynamic = k.threads_dynamic
         /\ Range(k2.update) = Range(k.update) \union {ch}
<1> HIDE DEF Process, Thread, Method, Event, Channel, Nobody
<1>0. k \in KernelShape(b) /\ k.update \in Seq(Channel)
  BY DEF KernelInv, KernelOK, KernelShape
<1>1. CASE ch \in Range(k.update)
  BY <1>1 DEF RequestUpdate
<1>2. CASE ch \notin Range(k.update)
  <2> DEFINE u == <<ch>> \o k.update
             k2 == [k EXCEPT !.update = u]
  <2>1. u \in Seq(Channel) /\ Range(u) = Range(k.update) \union {ch}
    <3>0. <<ch>> \in Seq(Channel)
      OBVIOUS
    <3>1. PICK h \in Seq(Channel) : h = <<ch>>
      BY <3>0, Zenon
    <3>2. Range(h) = {ch} /\ u = h \o k.update
      BY <3>1 DEF Range
    <3> HIDE DEF u
    <3>3. Range(u) = Range(h) \union Range(k.update) /\ u \in Seq(Channel)
      BY <1>0, <3>2, RangeConcatenation, ConcatProperties
    <3> QED BY <3>2, <3>3
  <2>2. RequestUpdate(k, ch) = k2
    BY <1>0, <1>2 DEF RequestUpdate
  <2> HIDE DEF u
  <2>3. /\ k2 \in KernelShape(b) /\ k2.cur = k.cur /\ k2.update = u
        /\ k2.pend = k.pend /\ k2.runnable = k.runnable
        /\ k2.methods_dynamic = k.methods_dynamic /\ k2.threads_dynamic = k.threads_dynamic
        /\ k2.delta = k.delta /\ k2.methods = k.methods /\ k2.threads = k.threads /\ k2.pop = k.pop
    BY <1>0, <2>1, Zenon DEF KernelShape
  <2> HIDE DEF k2
  <2>4. KernelOK(b, k2) /\ Listed(k2)
    BY <2>3 DEF KernelInv, KernelOK, Enqueued, Listed, DeltaPending
  <2> QED BY <2>1, <2>2, <2>3, <2>4 DEF KernelInv
<1> QED BY <1>1, <1>2

\* The process the kernel runs next was runnable, and is in no queue any more.
LEMMA RunOK ==
  ASSUME NEW b \in Nat, NEW k, KernelInv(b, k), NEW p \in MayRun(k)
  PROVE  LET k2 == Run(k, p) IN
         /\ p \in k.runnable /\ p \in Process /\ k.cur = Nobody
         /\ KernelInv(b, k2) /\ k2.cur = p /\ k2.runnable = k.runnable \ {p}
         /\ k2.pend = k.pend /\ k2.update = k.update
         /\ k2.methods_dynamic = k.methods_dynamic /\ k2.threads_dynamic = k.threads_dynamic
<1> HIDE DEF Process, Thread, Method, Event, Channel, Nobody
<1>0. k \in KernelShape(b) /\ k.cur = Nobody /\ k.runnable # {}
  BY DEF KernelInv, KernelOK, MayRun
<1>1. CASE ~ExactOrder
  <2> DEFINE k2 == [k EXCEPT !.cur = p, !.runnable = @ \ {p}]
  <2>1. p \in k.runnable /\ p \in Process /\ Run(k, p) = k2
    BY <1>0, <1>1 DEF MayRun, Run, KernelShape
  <2>2. /\ k2 \in KernelShape(b) /\ k2.cur = p /\ k2.runnable = k.runnable \ {p}
        /\ k2.pend = k.pend /\ k2.update = k.update
        /\ k2.methods_dynamic = k.methods_dynamic /\ k2.threads_dynamic = k.threads_dynamic
    BY <1>0, <2>1, Zenon DEF KernelShape
  <2> HIDE DEF k2
  <2> QED BY <1>0, <1>1, <2>1, <2>2 DEF KernelInv, KernelOK, Enqueued, Listed
<1>2. CASE ExactOrder
  <2>1. /\ k.methods \in Line(Process) /\ k.threads \in Line(Process) /\ k.pop \in Line(Process)
        /\ Range(k.methods) \intersect (Range(k.threads) \union Range(k.pop)) = {}
        /\ Range(k.threads) \intersect Range(k.pop) = {}
        /\ k.runnable = Range(k.methods) \union Range(k.threads) \union Range(k.pop)
    BY <1>0, <1>2 DEF KernelInv, KernelOK, Enqueued, KernelShape, Line
  <2>2. << >> \in Line(Process) /\ Range(<< >>) = {} /\ << >> \in Seq(Process)
    BY DEF Line, IsInjective, Range
  <2>3. p = Head(Batch(k).list)
    BY <1>0, <1>2 DEF MayRun
  <2>4. PICK list, m, th, turn :
          /\ turn \in {"methods", "threads"} /\ list = Batch(k).list /\ turn = Batch(k).turn
          /\ m = IF k.pop = << >> /\ turn = "methods" THEN << >> ELSE k.methods
          /\ th = IF k.pop = << >> /\ turn = "threads" THEN << >> ELSE k.threads
    BY <1>0 DEF Batch, KernelShape
  <2>5. /\ list \in Line(Process) /\ list # << >> /\ m \in Line(Process) /\ th \in Line(Process)
        /\ Range(m) \intersect (Range(th) \union Range(list)) = {}
        /\ Range(th) \intersect Range(list) = {}
        /\ k.runnable = Range(m) \union Range(th) \union Range(list)
    <3>1. CASE k.pop # << >>
      <4>1. list = k.pop /\ m = k.methods /\ th = k.threads
        BY <3>1, <2>4 DEF Batch
      <4> QED BY <2>1, <3>1, <4>1
    <3>2. CASE k.pop = << >> /\ k.threads # << >> /\ (k.turn = "methods" \/ k.methods = << >>)
      <4>1. list = k.threads /\ m = k.methods /\ th = << >>
        BY <3>2, <2>4 DEF Batch
      <4> QED BY <2>1, <2>2, <3>2, <4>1
    <3>3. CASE k.pop = << >> /\ ~(k.threads # << >> /\ (k.turn = "methods" \/ k.methods = << >>))
      <4>1. list = k.methods /\ m = << >> /\ th = k.threads
        BY <3>3, <2>4 DEF Batch
      <4>2. list # << >>
        <5>1. SUFFICES ASSUME k.methods = << >> PROVE FALSE
          BY <4>1
        <5>2. k.threads = << >>
          BY <3>3, <5>1
        <5> QED BY <1>0, <2>1, <2>2, <3>3, <5>1, <5>2
      <4> QED BY <2>1, <2>2, <3>3, <4>1, <4>2
    <3> QED BY <3>1, <3>2, <3>3
  <2>6. /\ p \in Process /\ p \in Range(list) /\ Tail(list) \in Line(Process)
        /\ Range(Tail(list)) = Range(list) \ {p}
    BY <2>3, <2>4, <2>5, TailOfLine
  <2> DEFINE k2 == [k EXCEPT !.cur = p, !.runnable = k.runnable \ {p}, !.turn = turn, !.pop = Tail(list),
                             !.methods = m, !.threads = th]
  <2>7. Run(k, p) = k2
    BY <1>0, <1>2, <2>4 DEF Run
  <2>8. /\ k2 \in KernelShape(b) /\ k2.cur = p /\ k2.runnable = k.runnable \ {p}
        /\ k2.pend = k.pend /\ k2.update = k.update /\ k2.delta = k.delta
        /\ k2.methods_dynamic = k.methods_dynamic /\ k2.threads_dynamic = k.threads_dynamic
        /\ k2.methods = m /\ k2.threads = th /\ k2.pop = Tail(list)
    <3>1. m \in Seq(Process) /\ th \in Seq(Process) /\ Tail(list) \in Seq(Process)
      BY <2>5, <2>6 DEF Line
    <3> QED BY <1>0, <2>4, <2>6, <3>1, Zenon DEF KernelShape
  <2> HIDE DEF k2
  <2>9. Enqueued(k2)
    <3>1. IsInjective(m) /\ IsInjective(th) /\ IsInjective(Tail(list))
      BY <2>5, <2>6 DEF Line
    <3>2. /\ Range(m) \intersect (Range(th) \union Range(Tail(list))) = {}
          /\ Range(th) \intersect Range(Tail(list)) = {}
          /\ k.runnable \ {p} = Range(m) \union Range(th) \union Range(Tail(list))
      BY <2>5, <2>6
    <3> QED BY <2>8, <3>1, <3>2 DEF Enqueued
  <2>10. Listed(k2)
    BY <2>8 DEF KernelInv, Listed, DeltaPending
  <2> QED BY <1>0, <2>5, <2>6, <2>7, <2>8, <2>9, <2>10 DEF KernelInv, KernelOK
<1> QED BY <1>1, <1>2

\* The events an update of the fifos of C notifies.
WokenBy(ch) ==
  {e \in {DataRead(ch), DataWritten(ch)} :
     (e = DataRead(ch) /\ fifo[ch].read > 0) \/ (e = DataWritten(ch) /\ fifo[ch].written > 0)}
Woken(C) == UNION {WokenBy(ch) : ch \in C}

\* k2 is k with the events of D in the next delta notification phase.
Notified(k, D, k2) ==
  /\ k2.pend = [e \in Event |-> IF e \in D THEN 0 ELSE k.pend[e]]
  /\ k2.cur = k.cur /\ k2.update = k.update /\ k2.runnable = k.runnable
  /\ k2.methods_dynamic = k.methods_dynamic /\ k2.threads_dynamic = k.threads_dynamic

\* Notifying one event after others is notifying them all.
LEMMA NotifiedMore ==
  ASSUME NEW b \in Nat, NEW k, NEW x, NEW D, Notified(k, D, x), KernelInv(b, x), NEW e \in Event
  PROVE  LET y == Notify(x, e, 0) IN KernelInv(b, y) /\ Notified(k, D \union {e}, y)
<1> HIDE DEF Process, Thread, Method, Event, Channel, Nobody
<1> DEFINE y == Notify(x, e, 0)
<1>1. 0 \in 0..b /\ x.pend \in [Event -> -1..b]
  BY DEF KernelInv, KernelOK, KernelShape
<1>2. /\ KernelInv(b, y)
      /\ y.pend = [x.pend EXCEPT ![e] = Earlier(x.pend[e], 0)]
      /\ y.cur = x.cur /\ y.update = x.update /\ y.runnable = x.runnable
      /\ y.methods_dynamic = x.methods_dynamic /\ y.threads_dynamic = x.threads_dynamic
  BY <1>1, NotifyOK
<1> HIDE DEF y
<1>3. Earlier(x.pend[e], 0) = 0
  BY <1>1 DEF Earlier, NotPending
<1>4. y.pend = [f \in Event |-> IF f \in D \union {e} THEN 0 ELSE k.pend[f]]
  BY <1>1, <1>2, <1>3 DEF Notified
<1> QED BY <1>2, <1>4 DEF Notified, y

NotifyInv(c, j, k2) ==
  LET b == c[1] k == c[2] s == c[3] IN
  KernelInv(b, k2) /\ Notified(k, Woken(Before(s, j)), k2)

\* The update phase notifies who may wait for room or for data.
LEMMA UpdateFold ==
  ASSUME NEW b \in Nat, NEW k, KernelInv(b, k), NEW s \in Seq(Channel)
  PROVE  LET k2 == FoldLeft(NotifyUpdate, k, s) IN
         KernelInv(b, k2) /\ Notified(k, Woken(Range(s)), k2)
<1> HIDE DEF Process, Thread, Method, Nobody
<1> DEFINE c == <<b, k, s>>
<1>0. Before(s, 0) = {} /\ Before(s, Len(s)) = Range(s)
  <2>1. DOMAIN s = 1..Len(s) /\ 1..0 = {}
    OBVIOUS
  <2> QED BY <2>1 DEF Before, Range
<1>1. NotifyInv(c, 0, k)
  <2>1. k.pend = [f \in Event |-> k.pend[f]]
    BY DEF KernelInv, KernelOK, KernelShape
  <2>2. Woken({}) = {}
    BY DEF Woken
  <2>3. Notified(k, {}, k)
    BY <2>1 DEF Notified
  <2> QED BY <1>0, <2>2, <2>3, Zenon DEF NotifyInv
<1>2. ASSUME NEW j \in 0..Len(s)-1, NEW x, NotifyInv(c, j, x)
      PROVE  NotifyInv(c, j + 1, NotifyUpdate(x, s[j+1]))
  <2> DEFINE ch == s[j+1]
             D == Woken(Before(s, j))
             x1 == IF fifo[ch].read > 0 THEN Notify(x, DataRead(ch), 0) ELSE x
             x2 == IF fifo[ch].written > 0 THEN Notify(x1, DataWritten(ch), 0) ELSE x1
             D1 == D \union {e \in {DataRead(ch)} : fifo[ch].read > 0}
             D2 == D1 \union {e \in {DataWritten(ch)} : fifo[ch].written > 0}
  <2>1. KernelInv(b, x) /\ Notified(k, D, x)
    BY <1>2 DEF NotifyInv
  <2>2. Before(s, j + 1) = Before(s, j) \union {ch} /\ ch \in Channel
    BY BeforeNext
  <2>3. DataRead(ch) \in Event /\ DataWritten(ch) \in Event
    <3>1. DataRead(ch) \in UNION {{DataWritten(c1), DataRead(c1)} : c1 \in Channel}
      BY <2>2
    <3>2. DataWritten(ch) \in UNION {{DataWritten(c1), DataRead(c1)} : c1 \in Channel}
      BY <2>2
    <3> QED BY <3>1, <3>2 DEF Event
  <2>4. NotifyUpdate(x, ch) = x2
    BY DEF NotifyUpdate
  <2>5. Woken(Before(s, j + 1)) = D2
    <3>1. Woken(Before(s, j) \union {ch}) = Woken(Before(s, j)) \union WokenBy(ch)
      BY DEF Woken
    <3>2. WokenBy(ch) = {e \in {DataRead(ch)} : fifo[ch].read > 0} \union {e \in {DataWritten(ch)} : fifo[ch].written > 0}
      BY DEF WokenBy, DataRead, DataWritten
    <3> HIDE DEF ch
    <3> QED BY <2>2, <3>1, <3>2, Zenon
  <2> HIDE DEF ch, D, Event
  <2>6. KernelInv(b, x1) /\ Notified(k, D1, x1)
    <3>1. CASE fifo[ch].read > 0
      <4>1. D1 = D \union {DataRead(ch)} /\ x1 = Notify(x, DataRead(ch), 0)
        BY <3>1
      <4> HIDE DEF D1, x1
      <4> QED BY <2>1, <2>3, <4>1, NotifiedMore
    <3>2. CASE ~(fifo[ch].read > 0)
      <4>1. D1 = D /\ x1 = x
        BY <3>2
      <4> QED BY <2>1, <4>1, Zenon
    <3> QED BY <3>1, <3>2
  <2> HIDE DEF x1, D1
  <2>7. KernelInv(b, x2) /\ Notified(k, D2, x2)
    <3>1. CASE fifo[ch].written > 0
      <4>1. D2 = D1 \union {DataWritten(ch)} /\ x2 = Notify(x1, DataWritten(ch), 0)
        BY <3>1
      <4> HIDE DEF D2, x2
      <4> QED BY <2>3, <2>6, <4>1, NotifiedMore
    <3>2. CASE ~(fifo[ch].written > 0)
      <4>1. D2 = D1 /\ x2 = x1
        BY <3>2
      <4> QED BY <2>6, <4>1, Zenon
    <3> QED BY <3>1, <3>2
  <2> HIDE DEF x2, D2
  <2> QED BY <2>4, <2>5, <2>7 DEF NotifyInv, ch
<1>3. PICK g : FoldRecursion("update", g, 1..Len(s), k, s) /\ FoldLeft(NotifyUpdate, k, s) = g[1..Len(s)]
  BY NotifyIsFold
<1>4. NotifyInv(c, Len(s), g[1..Len(s)])
  <2> HIDE DEF c
  <2> DEFINE I == [j \in 0..Len(s) |-> {x \in KernelShape(b) : NotifyInv(c, j, x)}]
  <2>1. k \in I[0]
    BY <1>1 DEF KernelInv, KernelOK
  <2>2. ASSUME NEW j \in 0..Len(s)-1, NEW x \in I[j] PROVE FoldStep("update", x, s[j+1]) \in I[j+1]
    <3>1. NotifyInv(c, j + 1, NotifyUpdate(x, s[j+1])) /\ j + 1 \in 0..Len(s)
      BY <1>2
    <3>2. NotifyUpdate(x, s[j+1]) \in KernelShape(b)
      BY <3>1 DEF NotifyInv, KernelInv, KernelOK, c
    <3> QED BY <3>1, <3>2 DEF FoldStep
  <2>3. g[1..Len(s)] \in I[Len(s)]
    <3> HIDE DEF I
    <3> QED BY <1>3, <2>1, <2>2, FoldInv
  <2> QED BY <2>3
<1> QED BY <1>0, <1>3, <1>4 DEF NotifyInv

\* The delta notifications are triggered together, and none is left.
LEMMA TriggerDeltaOK ==
  ASSUME NEW b \in Nat, NEW k, KernelInv(b, k)
  PROVE  LET k2 == TriggerDelta(k) IN
         /\ KernelInv(b, k2) /\ Triggered(k, DeltaPending(k), k2)
         /\ k2.update = k.update /\ DeltaPending(k2) = {}
<1> DEFINE k0 == [NextPhase(k) EXCEPT !.delta = << >>]
           D == DeltaPending(k)
           s == IF ExactOrder THEN Reverse(k.delta) ELSE SetToSeq(D)
           k2 == FoldLeft(Trigger, k0, s)
<1>0. IsFiniteSet(Event)
  BY EventsFinite
<1> HIDE DEF Process, Thread, Method, Event, Channel, Nobody
<1>1. k \in KernelShape(b) /\ k.pend \in [Event -> -1..b] /\ k.delta \in Seq(Event) /\ D \in SUBSET Event
  BY DEF KernelInv, KernelOK, KernelShape, DeltaPending
<1>2. s \in Seq(Event) /\ Range(s) = D
  <2>1. CASE ExactOrder
    <3>1. Reverse(k.delta) \in Seq(Event) /\ Range(Reverse(k.delta)) = Range(k.delta)
      BY <1>1, ReverseRange
    <3> QED BY <2>1, <3>1 DEF KernelInv, Listed
  <2>2. CASE ~ExactOrder
    <3>1. IsFiniteSet(D)
      BY <1>0, <1>1, FS_Subset
    <3> HIDE DEF D
    <3>2. SetToSeq(D) \in Seq(D) /\ Range(SetToSeq(D)) = D
      BY <3>1, Enumerations
    <3>3. Seq(D) \subseteq Seq(Event)
      BY <1>1
    <3> QED BY <2>2, <3>2, <3>3
  <2> QED BY <2>1, <2>2
<1>3. /\ KernelOK(b, k0) /\ k0.pend = k.pend /\ k0.cur = k.cur /\ k0.update = k.update
      /\ k0.runnable = k.runnable /\ k0.methods_dynamic = k.methods_dynamic
      /\ k0.threads_dynamic = k.threads_dynamic /\ k0.delta = << >>
  <2>1. /\ k0 \in KernelShape(b) /\ k0.pend = k.pend /\ k0.cur = k.cur /\ k0.update = k.update
        /\ k0.runnable = k.runnable /\ k0.methods_dynamic = k.methods_dynamic
        /\ k0.threads_dynamic = k.threads_dynamic /\ k0.delta = << >>
        /\ k0.methods = k.methods /\ k0.threads = k.threads /\ k0.pop = k.pop
    <3>1. PICK empty \in Seq(Event) : empty = << >>
      BY << >> \in Seq(Event)
    <3>2. k0 = [k EXCEPT !.turn = "threads", !.delta = empty]
      BY <1>1, <3>1 DEF NextPhase, KernelShape
    <3> HIDE DEF k0
    <3> QED BY <1>1, <3>1, <3>2, Zenon DEF KernelShape
  <2> HIDE DEF k0
  <2> QED BY <2>1 DEF KernelInv, KernelOK, Enqueued
<1>4. TriggerDelta(k) = k2
  BY DEF TriggerDelta
<1> HIDE DEF k0, D, s
<1>5. KernelOK(b, k2) /\ Triggered(k0, D, k2) /\ k2.delta = << >> /\ k2.update = k.update
  BY <1>2, <1>3, TriggerFold
<1> HIDE DEF k2
<1>6. Triggered(k, D, k2)
  <2>1. \A p : Unwaiting(k0, p) <=> Unwaiting(k, p)
    BY <1>3 DEF Unwaiting, Waiters
  <2>2. \A e : Waiters(k0, e) = Waiters(k, e)
    BY <1>3 DEF Waiters
  <2> HIDE DEF Unwaiting, Waiters
  <2>3. k2.pend = [e \in Event |-> IF e \in D THEN NotPending ELSE k.pend[e]]
    BY <1>3, <1>5 DEF Triggered
  <2>4. /\ k2.methods_dynamic = [e \in Event |-> IF e \in D THEN << >> ELSE k.methods_dynamic[e]]
        /\ k2.threads_dynamic = [e \in Event |-> IF e \in D THEN << >> ELSE k.threads_dynamic[e]]
        /\ k2.cur = k.cur
    BY <1>3, <1>5 DEF Triggered, Woke
  <2>5. k2.runnable = k.runnable \union (UNION {Waiters(k, e) : e \in D})
                      \union {p \in UNION {Range(StaticMethods[e]) : e \in D} :
                                Unwaiting(k, p) /\ p # k.cur}
    BY <1>3, <1>5, <2>1, <2>2 DEF Triggered, Woke
  <2> QED BY <2>3, <2>4, <2>5 DEF Triggered, Woke
<1>7. DeltaPending(k2) = {}
  <2>1. k2.pend = [e \in Event |-> IF e \in D THEN NotPending ELSE k.pend[e]]
    BY <1>6 DEF Triggered
  <2> QED BY <1>1, <2>1 DEF DeltaPending, D, NotPending
<1>8. Listed(k2)
  BY <1>5, <1>7 DEF Listed, Range
<1> QED BY <1>4, <1>5, <1>6, <1>7, <1>8 DEF KernelInv, D

\* A delta cycle: the events pending for it and those of the fifos that were
\* used are triggered, and no others.
LEMMA DeltaCycleOK ==
  ASSUME NEW b \in Nat, KernelInv(b, simc), DeltaCycle
  PROVE  /\ KernelInv(b, simc')
         /\ Triggered(simc, DeltaPending(simc) \union Woken(Range(simc.update)), simc')
         /\ simc'.update = << >> /\ DeltaPending(simc') = {}
<1> DEFINE W == Woken(Range(simc.update))
           k1 == FoldLeft(NotifyUpdate, simc, simc.update)
           k2 == [k1 EXCEPT !.update = << >>]
           D == DeltaPending(simc) \union W
<1> HIDE DEF Process, Thread, Method, Event, Channel, Nobody
<1>1. simc \in KernelShape(b) /\ simc.update \in Seq(Channel) /\ simc.pend \in [Event -> -1..b]
  BY DEF KernelInv, KernelOK, KernelShape
<1>2. KernelInv(b, k1) /\ Notified(simc, W, k1)
  BY <1>1, UpdateFold
<1>3. simc' = TriggerDelta(k2)
  BY DEF DeltaCycle
<1> HIDE DEF k1, W
<1>4. /\ KernelInv(b, k2) /\ k2.update = << >> /\ k2.pend = k1.pend /\ k2.cur = k1.cur
      /\ k2.runnable = k1.runnable /\ k2.methods_dynamic = k1.methods_dynamic
      /\ k2.threads_dynamic = k1.threads_dynamic
  <2>0. k1 \in KernelShape(b)
    BY <1>2 DEF KernelInv, KernelOK
  <2>1. /\ k2 \in KernelShape(b) /\ k2.update = << >> /\ k2.pend = k1.pend /\ k2.cur = k1.cur
        /\ k2.runnable = k1.runnable /\ k2.methods_dynamic = k1.methods_dynamic
        /\ k2.threads_dynamic = k1.threads_dynamic /\ k2.delta = k1.delta
        /\ k2.methods = k1.methods /\ k2.threads = k1.threads /\ k2.pop = k1.pop
    <3>1. PICK empty \in Seq(Channel) : empty = << >>
      BY << >> \in Seq(Channel)
    <3>2. k2 = [k1 EXCEPT !.update = empty]
      BY <3>1
    <3> HIDE DEF k2
    <3> QED BY <2>0, <3>1, <3>2, Zenon DEF KernelShape
  <2> HIDE DEF k2
  <2> QED BY <1>2, <2>1 DEF KernelInv, KernelOK, Enqueued, Listed, DeltaPending
<1> HIDE DEF k2
<1>5. /\ KernelInv(b, simc') /\ Triggered(k2, DeltaPending(k2), simc')
      /\ simc'.update = << >> /\ DeltaPending(simc') = {}
  BY <1>3, <1>4, TriggerDeltaOK
<1>6. DeltaPending(k2) = D
  <2>1. DOMAIN k2.pend = Event /\ DOMAIN simc.pend = Event
    BY <1>1, <1>2, <1>4 DEF Notified
  <2>2. W \subseteq Event
    <3>1. \A ch \in Channel : DataRead(ch) \in Event /\ DataWritten(ch) \in Event
      BY DEF Event
    <3>2. Range(simc.update) \subseteq Channel
      BY <1>1, RangeOfSeq
    <3> QED BY <3>1, <3>2 DEF W, Woken, WokenBy
  <2> QED BY <1>2, <1>4, <2>1, <2>2 DEF DeltaPending, Notified
<1> HIDE DEF D
<1>7. Triggered(simc, D, simc')
  <2>1. DOMAIN k2.pend = Event /\ DOMAIN simc.pend = Event
    BY <1>1, <1>2, <1>4 DEF Notified
  <2>2. \A e : Waiters(k2, e) = Waiters(simc, e)
    BY <1>2, <1>4 DEF Waiters, Notified
  <2>3. \A p : Unwaiting(k2, p) <=> Unwaiting(simc, p)
    BY <2>1, <2>2 DEF Unwaiting
  <2> HIDE DEF Unwaiting, Waiters
  <2>4. simc'.pend = [e \in Event |-> IF e \in D THEN NotPending ELSE simc.pend[e]]
    <3>1. simc'.pend = [e \in Event |-> IF e \in D THEN NotPending ELSE k2.pend[e]]
      BY <1>5, <1>6 DEF Triggered
    <3>2. \A e \in Event : e \notin D => k2.pend[e] = simc.pend[e]
      BY <1>2, <1>4 DEF Notified, D
    <3> QED BY <3>1, <3>2
  <2>5. /\ simc'.methods_dynamic = [e \in Event |-> IF e \in D THEN << >> ELSE simc.methods_dynamic[e]]
        /\ simc'.threads_dynamic = [e \in Event |-> IF e \in D THEN << >> ELSE simc.threads_dynamic[e]]
        /\ simc'.cur = simc.cur
    BY <1>2, <1>4, <1>5, <1>6 DEF Triggered, Woke, Notified
  <2>6. simc'.runnable = simc.runnable \union (UNION {Waiters(simc, e) : e \in D})
                      \union {p \in UNION {Range(StaticMethods[e]) : e \in D} :
                                Unwaiting(simc, p) /\ p # simc.cur}
    BY <1>2, <1>4, <1>5, <1>6, <2>2, <2>3 DEF Triggered, Woke, Notified
  <2> QED BY <2>4, <2>5, <2>6 DEF Triggered, Woke
<1> QED BY <1>5, <1>7 DEF D, W

\* The earliest time among the timed notifications.
LEMMA NextTimeOK ==
  ASSUME NEW b \in Nat, NEW k, KernelInv(b, k), TimedPending(k) # {}
  PROVE  /\ NextTime(k) \in 1..b /\ DueAt(k, NextTime(k)) # {}
         /\ \A e \in Event : k.pend[e] > 0 => NextTime(k) <= k.pend[e]
<1> HIDE DEF Process, Thread, Method, Event, Channel, Nobody
<1> DEFINE T == {k.pend[e] : e \in TimedPending(k)}
<1>1. k.pend \in [Event -> -1..b]
  BY DEF KernelInv, KernelOK, KernelShape
<1>2. T \in SUBSET Nat /\ T # {} /\ T \subseteq 1..b
  BY <1>1 DEF TimedPending
<1>3. \E d \in T : \A x \in T : d <= x
  <2> HIDE DEF T
  <2> QED BY <1>2, Least
<1>4. \E d \in T : \A e \in TimedPending(k) : d <= k.pend[e]
  BY <1>3, Zenon
<1>5. NextTime(k) \in T /\ \A e \in TimedPending(k) : NextTime(k) <= k.pend[e]
  BY <1>4, Zenon DEF NextTime
<1> QED BY <1>1, <1>2, <1>5 DEF TimedPending, DueAt

\* The advance of time: what is due is triggered, and nothing is missed.
LEMMA AdvanceTimeOK ==
  ASSUME NEW b \in Nat, KernelInv(b, simc), AdvanceTime, NEW d, d = NextTime(simc)
  PROVE  /\ KernelInv(b, simc') /\ d \in 1..b
         /\ \A e \in Event : simc.pend[e] > 0 => d <= simc.pend[e]
         /\ simc'.pend = [e \in Event |-> IF simc.pend[e] > d THEN simc.pend[e] - d ELSE NotPending]
         /\ Woke(simc, DueAt(simc, d), simc')
         /\ simc'.update = << >> /\ DeltaPending(simc') = {} /\ DueAt(simc, d) # {}
<1> DEFINE D == DueAt(simc, d)
           pend == [e \in DOMAIN simc.pend |-> IF simc.pend[e] > 0 THEN simc.pend[e] - d ELSE simc.pend[e]]
           k0 == [NextPhase(simc) EXCEPT !.pend = pend]
<1>0. IsFiniteSet(Event)
  BY EventsFinite
<1> HIDE DEF Process, Thread, Method, Event, Channel, Nobody
<1>1. simc \in KernelShape(b) /\ simc.pend \in [Event -> -1..b] /\ D \in SUBSET Event
  BY DEF KernelInv, KernelOK, KernelShape, DueAt
<1>2. /\ d \in 1..b /\ D # {} /\ \A e \in Event : simc.pend[e] > 0 => d <= simc.pend[e]
      /\ \A e \in Event : simc.pend[e] # 0
      /\ simc.update = << >>
  <2>1. TimedPending(simc) # {} /\ DeltaPending(simc) = {} /\ simc.update = << >>
    BY DEF AdvanceTime
  <2> QED BY <1>1, <2>1, NextTimeOK DEF DeltaPending
<1>3. PICK due \in SetToSeqs(D) : simc' = FoldLeft(Trigger, k0, due)
  BY DEF AdvanceTime, TriggerTimed
<1>4. due \in Seq(Event) /\ Range(due) = D
  <2>1. IsFiniteSet(D)
    BY <1>0, <1>1, FS_Subset
  <2> HIDE DEF D
  <2>2. due \in Seq(D) /\ Range(due) = D
    BY <2>1, Enumerations
  <2>3. Seq(D) \subseteq Seq(Event)
    BY <1>1
  <2> QED BY <2>2, <2>3
<1>5. /\ KernelOK(b, k0) /\ k0.pend = pend /\ k0.cur = simc.cur /\ k0.update = simc.update
      /\ k0.runnable = simc.runnable /\ k0.methods_dynamic = simc.methods_dynamic
      /\ k0.threads_dynamic = simc.threads_dynamic /\ k0.delta = simc.delta
  <2>1. pend \in [Event -> -1..b]
    BY <1>1, <1>2
  <2> HIDE DEF pend
  <2>2. /\ k0 \in KernelShape(b) /\ k0.pend = pend /\ k0.cur = simc.cur /\ k0.update = simc.update
        /\ k0.runnable = simc.runnable /\ k0.methods_dynamic = simc.methods_dynamic
        /\ k0.threads_dynamic = simc.threads_dynamic /\ k0.delta = simc.delta
        /\ k0.methods = simc.methods /\ k0.threads = simc.threads /\ k0.pop = simc.pop
    <3>1. PICK due0 \in [Event -> -1..b] : due0 = pend
      BY <2>1
    <3>2. k0 = [simc EXCEPT !.turn = "threads", !.pend = due0]
      BY <1>1, <3>1 DEF NextPhase, KernelShape
    <3> HIDE DEF k0
    <3> QED BY <1>1, <3>1, <3>2, Zenon DEF KernelShape
  <2> HIDE DEF k0
  <2> QED BY <2>2 DEF KernelInv, KernelOK, Enqueued
<1> HIDE DEF k0, D
<1>6. KernelOK(b, simc') /\ Triggered(k0, D, simc') /\ simc'.delta = simc.delta /\ simc'.update = << >>
  BY <1>2, <1>3, <1>4, <1>5, TriggerFold
<1>7. simc'.pend = [e \in Event |-> IF simc.pend[e] > d THEN simc.pend[e] - d ELSE NotPending]
  <2>1. simc'.pend = [e \in Event |-> IF e \in D THEN NotPending ELSE pend[e]]
    BY <1>5, <1>6 DEF Triggered
  <2>2. ASSUME NEW e \in Event
        PROVE  (IF e \in D THEN NotPending ELSE pend[e])
                  = (IF simc.pend[e] > d THEN simc.pend[e] - d ELSE NotPending)
    BY <1>1, <1>2 DEF D, DueAt, NotPending
  <2> QED BY <2>1, <2>2
<1>8. Woke(simc, D, simc')
  <2>1. DOMAIN k0.pend = Event /\ DOMAIN simc.pend = Event
    BY <1>1, <1>5
  <2>2. \A e : Waiters(k0, e) = Waiters(simc, e)
    BY <1>5 DEF Waiters
  <2>3. \A p : Unwaiting(k0, p) <=> Unwaiting(simc, p)
    BY <2>1, <2>2 DEF Unwaiting
  <2> HIDE DEF Unwaiting, Waiters
  <2>4. /\ simc'.methods_dynamic = [e \in Event |-> IF e \in D THEN << >> ELSE simc.methods_dynamic[e]]
        /\ simc'.threads_dynamic = [e \in Event |-> IF e \in D THEN << >> ELSE simc.threads_dynamic[e]]
        /\ simc'.cur = simc.cur
    BY <1>5, <1>6 DEF Triggered, Woke
  <2>5. simc'.runnable = simc.runnable \union (UNION {Waiters(simc, e) : e \in D})
                      \union {p \in UNION {Range(StaticMethods[e]) : e \in D} :
                                Unwaiting(simc, p) /\ p # simc.cur}
    BY <1>5, <1>6, <2>2, <2>3 DEF Triggered, Woke
  <2> QED BY <2>4, <2>5 DEF Woke
<1>9. DeltaPending(simc') = {}
  BY <1>1, <1>2, <1>7 DEF DeltaPending, NotPending
<1>10. Listed(simc')
  <2>1. DeltaPending(simc) = {}
    BY <1>1, <1>2 DEF DeltaPending
  <2> QED BY <1>6, <1>9, <2>1 DEF KernelInv, Listed
<1> QED BY <1>2, <1>6, <1>7, <1>8, <1>9, <1>10 DEF KernelInv, D

PushInv(c, j, k2) ==
  LET b == c[1] k == c[2] s == c[3] IN
  KernelOK(b, k2) /\ SameButReady(k, k2) /\ k2.runnable = Before(s, j)

\* The start of the simulation: everybody in `ready' may run, and nothing is
\* pending or waits.
LEMMA InitKernelOK ==
  ASSUME NEW b \in Nat, NEW ready \in Line(Process)
  PROVE  LET k == InitKernel(ready) IN
         /\ KernelInv(b, k) /\ k.cur = Nobody /\ k.update = << >> /\ k.runnable = Range(ready)
         /\ k.pend = [e \in Event |-> NotPending]
         /\ k.methods_dynamic = [e \in Event |-> << >>] /\ k.threads_dynamic = [e \in Event |-> << >>]
<1> HIDE DEF Process, Thread, Method, Event, Channel
<1> DEFINE k0 == [pend |-> [e \in Event |-> NotPending],
                  methods_dynamic |-> [e \in Event |-> << >>],
                  threads_dynamic |-> [e \in Event |-> << >>],
                  runnable |-> {}, cur |-> Nobody, update |-> << >>,
                  delta |-> << >>, methods |-> << >>, threads |-> << >>, pop |-> << >>,
                  turn |-> "threads"]
           c == <<b, k0, ready>>
<1>0. ready \in Seq(Process) /\ Len(ready) \in Nat /\ DOMAIN ready = 1..Len(ready)
  BY DEF Line
<1>1. KernelOK(b, k0)
  <2>1. NotPending \in -1..b /\ {} \in SUBSET Process /\ Nobody \in Process \union {Nobody}
    BY DEF NotPending
  <2>2. \A S : << >> \in Seq(S) /\ IsInjective(<< >>) /\ Range(<< >>) = {}
    BY DEF IsInjective, Range
  <2>3. k0 \in KernelShape(b)
    BY <2>1, <2>2 DEF KernelShape
  <2>4. Enqueued(k0)
    BY <2>2 DEF Enqueued
  <2> QED BY <2>3, <2>4 DEF KernelOK
<1>1a. k0.pend = [e \in Event |-> NotPending] /\ k0.delta = << >> /\ k0.cur = Nobody
       /\ k0.update = << >> /\ k0.runnable = {}
       /\ k0.methods_dynamic = [e \in Event |-> << >>] /\ k0.threads_dynamic = [e \in Event |-> << >>]
  OBVIOUS
<1>2. InitKernel(ready) = FoldLeft(Push, k0, ready)
  BY DEF InitKernel
<1> HIDE DEF k0
<1>3. PushInv(c, 0, k0)
  BY <1>1, <1>1a DEF PushInv, Before, SameButReady
<1>4. ASSUME NEW j \in 0..Len(ready)-1, NEW x, PushInv(c, j, x)
      PROVE  PushInv(c, j + 1, Push(x, ready[j+1]))
  <2> DEFINE p == ready[j+1]
  <2>1. KernelOK(b, x) /\ SameButReady(k0, x) /\ x.runnable = Before(ready, j)
    BY <1>4 DEF PushInv
  <2>2. Before(ready, j + 1) = Before(ready, j) \union {p} /\ p \in Process
    BY <1>0, BeforeNext, Zenon
  <2>3. p \notin Before(ready, j)
    <3> SUFFICES ASSUME NEW i \in 1..j, ready[i] = p PROVE FALSE
      BY DEF Before
    <3>1. i \in DOMAIN ready /\ j + 1 \in DOMAIN ready /\ i # j + 1
      BY <1>0
    <3> QED BY <3>1 DEF Line, IsInjective
  <2>4. /\ KernelOK(b, Push(x, p)) /\ SameButReady(x, Push(x, p))
        /\ Push(x, p).runnable = x.runnable \union {p}
    BY <2>1, <2>2, <2>3, PushOK
  <2> HIDE DEF p
  <2>5. SameButReady(k0, Push(x, p))
    BY <2>1, <2>4 DEF SameButReady
  <2>6. PushInv(c, j + 1, Push(x, p))
    BY <2>1, <2>2, <2>4, <2>5 DEF PushInv
  <2> QED BY <2>6 DEF p
<1>5. PICK g : FoldRecursion("push", g, 1..Len(ready), k0, ready) /\ FoldLeft(Push, k0, ready) = g[1..Len(ready)]
  BY <1>0, PushIsFold
<1>6. PushInv(c, Len(ready), g[1..Len(ready)])
  <2> HIDE DEF c
  <2> DEFINE I == [j \in 0..Len(ready) |-> {x \in KernelShape(b) : PushInv(c, j, x)}]
  <2>1. k0 \in I[0]
    <3>1. k0 \in KernelShape(b) /\ 0 \in 0..Len(ready)
      BY <1>0, <1>1 DEF KernelOK
    <3> QED BY <1>3, <3>1
  <2>2. ASSUME NEW j \in 0..Len(ready)-1, NEW x \in I[j] PROVE FoldStep("push", x, ready[j+1]) \in I[j+1]
    <3>1. PushInv(c, j + 1, Push(x, ready[j+1])) /\ j + 1 \in 0..Len(ready)
      BY <1>0, <1>4
    <3>2. Push(x, ready[j+1]) \in KernelShape(b)
      BY <3>1 DEF PushInv, KernelOK, c
    <3> QED BY <3>1, <3>2 DEF FoldStep
  <2>3. g[1..Len(ready)] \in I[Len(ready)]
    <3> HIDE DEF I
    <3> QED BY <1>0, <1>5, <2>1, <2>2, FoldInv
  <2> QED BY <2>3
<1>7. Before(ready, Len(ready)) = Range(ready)
  BY <1>0 DEF Before, Range
<1> DEFINE k == InitKernel(ready)
<1>8. KernelOK(b, k) /\ SameButReady(k0, k) /\ k.runnable = Range(ready)
  BY <1>2, <1>5, <1>6, <1>7 DEF PushInv
<1> HIDE DEF k
<1>9. /\ k.cur = Nobody /\ k.update = << >> /\ k.pend = [e \in Event |-> NotPending] /\ k.delta = << >>
      /\ k.methods_dynamic = [e \in Event |-> << >>] /\ k.threads_dynamic = [e \in Event |-> << >>]
  BY <1>1a, <1>8 DEF SameButReady
<1>10. Listed(k)
  <2>1. Range(k.delta) = {}
    BY <1>9 DEF Range
  <2>2. DeltaPending(k) = {}
    BY <1>9 DEF DeltaPending, NotPending
  <2> QED BY <2>1, <2>2 DEF Listed
<1> QED BY <1>8, <1>9, <1>10 DEF KernelInv, k

-----------------------------------------------------------------------------
(* Where the processes are *)

WaitsFor(k, p) == {e \in Event : p \in Waiters(k, e)}

\* A process that runs or may run waits for nothing; one that waits, waits for one event.
OnePlace(k) ==
  \A p \in Process :
    /\ p \in k.runnable \/ p = k.cur => WaitsFor(k, p) = {}
    /\ p = k.cur => p \notin k.runnable
    /\ \A e, f \in WaitsFor(k, p) : e = f

Asleep(k, p) == p # k.cur /\ p \notin k.runnable

\* The process in execution goes on.
GoesOn(k, k2) ==
  /\ k2.cur = k.cur /\ k2.runnable = k.runnable /\ k2.pend = k.pend
  /\ \A q \in Process : WaitsFor(k2, q) = WaitsFor(k, q)

\* The process in execution, p, stops and waits for the events of E.
Sleeps(k, k2, p, E) ==
  /\ k2.cur = Nobody /\ k2.runnable = k.runnable /\ k2.update = k.update
  /\ \A q \in Process : WaitsFor(k2, q) = IF q = p THEN E ELSE WaitsFor(k, q)

\* A step that changes neither the queues of waiting processes nor who runs.
LEMMA SamePlaces ==
  ASSUME NEW k, NEW k2, OnePlace(k), k2.cur = k.cur, k2.runnable = k.runnable,
         k2.methods_dynamic = k.methods_dynamic, k2.threads_dynamic = k.threads_dynamic
  PROVE  OnePlace(k2) /\ \A q \in Process : WaitsFor(k2, q) = WaitsFor(k, q)
<1> HIDE DEF Process, Event
<1>1. \A q \in Process : WaitsFor(k2, q) = WaitsFor(k, q)
  BY DEF WaitsFor, Waiters
<1> QED BY <1>1 DEF OnePlace

\* The process in execution joins those waiting for e, or stops without a wait.
LEMMA SleepPlaces ==
  ASSUME NEW k, NEW k2, OnePlace(k), NEW p \in Process, k.cur = p,
         NEW E \in SUBSET Event, \A e, f \in E : e = f,
         k2.cur = Nobody, k2.runnable = k.runnable, k2.update = k.update,
         \A f \in Event : Waiters(k2, f) = IF f \in E THEN Waiters(k, f) \union {p} ELSE Waiters(k, f)
  PROVE  OnePlace(k2) /\ Sleeps(k, k2, p, E)
<1>0. Nobody \notin Process
  BY NobodyRuns
<1> HIDE DEF Process, Event
<1>1. WaitsFor(k, p) = {} /\ p \notin k.runnable
  BY DEF OnePlace
<1>2. WaitsFor(k2, p) = E
  BY <1>1 DEF WaitsFor
<1>3. \A q \in Process : q # p => WaitsFor(k2, q) = WaitsFor(k, q)
  BY DEF WaitsFor
<1>4. Sleeps(k, k2, p, E)
  BY <1>2, <1>3 DEF Sleeps
<1>5. OnePlace(k2)
  <2> SUFFICES ASSUME NEW q \in Process
               PROVE  /\ q \in k2.runnable \/ q = k2.cur => WaitsFor(k2, q) = {}
                      /\ q = k2.cur => q \notin k2.runnable
                      /\ \A f, g \in WaitsFor(k2, q) : f = g
    BY DEF OnePlace
  <2>1. CASE q = p
    BY <1>0, <1>1, <1>2, <2>1
  <2>2. CASE q # p
    BY <1>0, <1>3, <2>2 DEF OnePlace
  <2> QED BY <2>1, <2>2
<1> QED BY <1>4, <1>5

\* Who waits for an event after process p has joined those waiting for e.
LEMMA JoinedWaiters ==
  ASSUME NEW b \in Nat, NEW k, KernelInv(b, k), NEW k2, NEW p \in Process, NEW e \in Event,
         \/ k2.threads_dynamic = Joined(k.threads_dynamic, e, p) /\ k2.methods_dynamic = k.methods_dynamic
         \/ k2.methods_dynamic = Joined(k.methods_dynamic, e, p) /\ k2.threads_dynamic = k.threads_dynamic
  PROVE  \A f \in Event :
           Waiters(k2, f) = IF f \in {e} THEN Waiters(k, f) \union {p} ELSE Waiters(k, f)
<1> HIDE DEF Process, Event
<1>1. k.methods_dynamic \in [Event -> Seq(Process)] /\ k.threads_dynamic \in [Event -> Seq(Process)]
  BY Zenon DEF KernelInv, KernelOK, KernelShape
<1>2. ASSUME NEW w \in [Event -> Seq(Process)], NEW f \in Event
      PROVE  Range(Joined(w, e, p)[f]) = IF f = e THEN Range(w[f]) \union {p} ELSE Range(w[f])
  <2>1. CASE f = e
    <3>1. Joined(w, e, p)[f] = Append(w[f], p) /\ w[f] \in Seq(Process)
      BY <2>1 DEF Joined
    <3> QED BY <2>1, <3>1, AppendRange
  <2>2. CASE f # e
    BY <2>2 DEF Joined
  <2> QED BY <2>1, <2>2
<1> QED BY <1>1, <1>2, Zenon DEF Waiters

\* wait(e).
LEMMA WaitPlaces ==
  ASSUME NEW b \in Nat, NEW k, KernelInv(b, k), OnePlace(k), NEW p \in Thread, k.cur = p, NEW e \in Event
  PROVE  LET k2 == Wait(k, p, e) IN OnePlace(k2) /\ Sleeps(k, k2, p, {e}) /\ k2.pend = k.pend
<1>1. p \in Process
  BY DEF Process
<1> HIDE DEF Process, Thread, Event
<1>2. PICK k2 : k2 = Wait(k, p, e)
  OBVIOUS
<1>3. /\ k2.cur = Nobody /\ k2.pend = k.pend /\ k2.update = k.update /\ k2.runnable = k.runnable
      /\ k2.threads_dynamic = Joined(k.threads_dynamic, e, p)
      /\ k2.methods_dynamic = k.methods_dynamic
  BY <1>2, WaitOK
<1>4. \A f \in Event : Waiters(k2, f) = IF f \in {e} THEN Waiters(k, f) \union {p} ELSE Waiters(k, f)
  BY <1>1, <1>3, JoinedWaiters
<1> QED BY <1>1, <1>2, <1>3, <1>4, SleepPlaces

\* wait(t) of a process whose timeout is not pending.
LEMMA WaitTimePlaces ==
  ASSUME NEW b \in Nat, NEW k, NEW p \in Thread, NEW t \in 0..b, NEW e, e = Timeout[p],
         KernelInv(b, k), OnePlace(k), k.cur = p, k.pend[e] = NotPending,
         NEW k2, k2 = WaitTime(k, p, t)
  PROVE  OnePlace(k2) /\ Sleeps(k, k2, p, {e}) /\ k2.pend = [k.pend EXCEPT ![e] = t]
<1>1. p \in Process
  BY DEF Process
<1>2. e \in Event
  BY <1>1 DEF Event
<1> HIDE DEF Process, Thread, Event, Timeout
<1>3. /\ k2.cur = Nobody /\ k2.update = k.update /\ k2.runnable = k.runnable
      /\ k2.pend = [k.pend EXCEPT ![e] = Earlier(k.pend[e], t)]
      /\ k2.threads_dynamic = Joined(k.threads_dynamic, e, p)
      /\ k2.methods_dynamic = k.methods_dynamic
  BY WaitTimeOK
<1>4. \A f \in Event : Waiters(k2, f) = IF f \in {e} THEN Waiters(k, f) \union {p} ELSE Waiters(k, f)
  BY <1>1, <1>2, <1>3, JoinedWaiters
<1>5. k2.pend = [k.pend EXCEPT ![e] = t]
  BY <1>3 DEF Earlier
<1>6. OnePlace(k2) /\ Sleeps(k, k2, p, {e})
  BY <1>1, <1>2, <1>3, <1>4, SleepPlaces
<1> QED BY <1>5, <1>6

\* A process ends, or a method returns without a next_trigger.
LEMMA YieldPlaces ==
  ASSUME NEW b \in Nat, NEW k, KernelInv(b, k), OnePlace(k), NEW p \in Process, k.cur = p
  PROVE  LET k2 == Yield(k) IN OnePlace(k2) /\ Sleeps(k, k2, p, {}) /\ k2.pend = k.pend
<1> HIDE DEF Process, Event
<1>1. PICK k2 : k2 = Yield(k)
  OBVIOUS
<1>2. /\ k2.cur = Nobody /\ k2.pend = k.pend /\ k2.update = k.update /\ k2.runnable = k.runnable
      /\ k2.threads_dynamic = k.threads_dynamic /\ k2.methods_dynamic = k.methods_dynamic
  BY <1>1, YieldOK
<1>3. \A f \in Event : Waiters(k2, f) = Waiters(k, f)
  BY <1>2 DEF Waiters
<1> QED BY <1>1, <1>2, <1>3, SleepPlaces

\* A method returns after next_trigger(t), with its timeout not pending.
LEMMA TriggerTimePlaces ==
  ASSUME NEW b \in Nat, NEW k, KernelInv(b, k), OnePlace(k), NEW p \in Method, k.cur = p, NEW t \in 0..b,
         k.pend[Timeout[p]] = NotPending, p \notin Thread
  PROVE  LET k2 == Yield(NextTriggerTime(k, p, t)) IN
         /\ KernelInv(b, k2) /\ OnePlace(k2) /\ Sleeps(k, k2, p, {Timeout[p]})
         /\ k2.pend = [k.pend EXCEPT ![Timeout[p]] = t]
<1>1. p \in Process
  BY DEF Process
<1>2. Timeout[p] \in Event
  BY <1>1 DEF Event
<1> HIDE DEF Process, Thread, Method, Event, Timeout
<1>3. PICK k0 : k0 = Notify(k, Timeout[p], t)
  OBVIOUS
<1>4. /\ KernelInv(b, k0) /\ k0.pend = [k.pend EXCEPT ![Timeout[p]] = Earlier(k.pend[Timeout[p]], t)]
      /\ k0.cur = k.cur /\ k0.update = k.update /\ k0.runnable = k.runnable
      /\ k0.methods_dynamic = k.methods_dynamic /\ k0.threads_dynamic = k.threads_dynamic
  BY <1>2, <1>3, NotifyOK
<1>5. PICK k1 : k1 = NextTrigger(k0, p, Timeout[p])
  OBVIOUS
<1>6. /\ KernelInv(b, k1) /\ k1.pend = k0.pend /\ k1.update = k0.update /\ k1.runnable = k0.runnable
      /\ k1.methods_dynamic = Joined(k0.methods_dynamic, Timeout[p], p)
      /\ k1.threads_dynamic = k0.threads_dynamic
  BY <1>1, <1>2, <1>4, <1>5, NextTriggerOK
<1>7. PICK k2 : k2 = Yield(k1)
  OBVIOUS
<1>8. /\ KernelInv(b, k2) /\ k2.cur = Nobody
      /\ k2.pend = k1.pend /\ k2.update = k1.update /\ k2.runnable = k1.runnable
      /\ k2.methods_dynamic = k1.methods_dynamic /\ k2.threads_dynamic = k1.threads_dynamic
  BY <1>6, <1>7, YieldOK
<1>9. \A f \in Event :
         Waiters(k2, f) = IF f \in {Timeout[p]} THEN Waiters(k, f) \union {p} ELSE Waiters(k, f)
  <2>1. k2.methods_dynamic = Joined(k.methods_dynamic, Timeout[p], p) /\ k2.threads_dynamic = k.threads_dynamic
    BY <1>4, <1>6, <1>8
  <2> QED BY <1>1, <1>2, <2>1, JoinedWaiters
<1>10. k2.pend = [k.pend EXCEPT ![Timeout[p]] = t]
  BY <1>4, <1>6, <1>8 DEF Earlier
<1>11. OnePlace(k2) /\ Sleeps(k, k2, p, {Timeout[p]})
  <2>1. k2.cur = Nobody /\ k2.runnable = k.runnable /\ k2.update = k.update
    BY <1>4, <1>6, <1>8
  <2>2. {Timeout[p]} \in SUBSET Event
    BY <1>2
  <2> QED BY <1>1, <1>9, <2>1, <2>2, SleepPlaces
<1>12. k2 = Yield(NextTriggerTime(k, p, t))
  BY <1>3, <1>5, <1>7 DEF NextTriggerTime
<1> QED BY <1>8, <1>10, <1>11, <1>12

\* A request to update a channel.
LEMMA UpdatePlaces ==
  ASSUME NEW b \in Nat, NEW k, KernelInv(b, k), OnePlace(k), NEW ch \in Channel
  PROVE  LET k2 == RequestUpdate(k, ch) IN OnePlace(k2) /\ GoesOn(k, k2)
<1> HIDE DEF Process, Event, Channel
<1>1. PICK k2 : k2 = RequestUpdate(k, ch)
  OBVIOUS
<1>2. /\ k2.cur = k.cur /\ k2.pend = k.pend /\ k2.runnable = k.runnable
      /\ k2.methods_dynamic = k.methods_dynamic /\ k2.threads_dynamic = k.threads_dynamic
  BY <1>1, RequestUpdateOK
<1> QED BY <1>1, <1>2, SamePlaces DEF GoesOn

\* The kernel gives the processor to a process that may run.
LEMMA RunPlaces ==
  ASSUME NEW b \in Nat, NEW k, KernelInv(b, k), OnePlace(k), NEW p \in MayRun(k)
  PROVE  LET k2 == Run(k, p) IN
         /\ OnePlace(k2) /\ k2.pend = k.pend /\ k2.update = k.update
         /\ \A q \in Process : /\ WaitsFor(k2, q) = WaitsFor(k, q)
                               /\ Asleep(k2, q) <=> Asleep(k, q)
<1>0. Nobody \notin Process
  BY NobodyRuns
<1> HIDE DEF Process, Event
<1>1. PICK k2 : k2 = Run(k, p)
  OBVIOUS
<1>2. /\ p \in k.runnable /\ p \in Process /\ k.cur = Nobody
      /\ k2.cur = p /\ k2.runnable = k.runnable \ {p} /\ k2.pend = k.pend /\ k2.update = k.update
      /\ k2.methods_dynamic = k.methods_dynamic /\ k2.threads_dynamic = k.threads_dynamic
  BY <1>1, RunOK
<1>3. \A q \in Process : WaitsFor(k2, q) = WaitsFor(k, q)
  BY <1>2 DEF WaitsFor, Waiters
<1>4. OnePlace(k2)
  BY <1>0, <1>2, <1>3 DEF OnePlace
<1>5. \A q \in Process : Asleep(k2, q) <=> Asleep(k, q)
  BY <1>0, <1>2 DEF Asleep
<1> QED BY <1>1, <1>2, <1>3, <1>4, <1>5

\* The events of D wake who waits for them; on a platform without methods that
\* are statically sensitive, nobody else.
LEMMA WokePlaces ==
  ASSUME NEW k, NEW k2, OnePlace(k), NEW D \in SUBSET Event, Woke(k, D, k2), k.cur = Nobody,
         k.runnable = {}, DOMAIN k.pend = Event
  PROVE  /\ OnePlace(k2)
         /\ \A p \in Process : /\ WaitsFor(k2, p) = WaitsFor(k, p) \ D
                               /\ WaitsFor(k, p) \intersect D # {} => ~Asleep(k2, p) /\ WaitsFor(k2, p) = {}
                               /\ Blocking /\ WaitsFor(k, p) \intersect D = {} => Asleep(k2, p)
<1>0. Nobody \notin Process /\ (Blocking => \A e \in Event : Range(StaticMethods[e]) = {})
  <2>1. ASSUME Blocking, NEW e \in Event PROVE Range(StaticMethods[e]) = {}
    <3>1. e[1] \notin DOMAIN MethodOf
      <4>1. DOMAIN MethodOf = {"send_end_rsp_PEQ", "response_PEQ", "end_request_PEQ"}
        BY DEF MethodOf
      <4>2. e[1] \in {"timeout", "data_written", "data_read"}
        BY <2>1 DEF Event, Peq, Plain, Timeout, DataWritten, DataRead
      <4> QED BY <4>1, <4>2
    <3>2. StaticMethods[e] = << >>
      BY <3>1 DEF StaticMethods
    <3> QED BY <3>2 DEF Range
  <2> QED BY <2>1, NobodyRuns
<1> HIDE DEF Process, Event, StaticMethods
<1>1. \A e \in Event : Waiters(k2, e) = IF e \in D THEN {} ELSE Waiters(k, e)
  <2>1. Range(<< >>) = {}
    BY DEF Range
  <2> QED BY <2>1 DEF Woke, Waiters
<1>2. \A p \in Process : WaitsFor(k2, p) = WaitsFor(k, p) \ D
  BY <1>1 DEF WaitsFor
<1>3. \A p \in Process :
        /\ WaitsFor(k, p) \intersect D # {} => p \in k2.runnable
        /\ p \in k2.runnable => \/ WaitsFor(k, p) \intersect D # {}
                                \/ ~Blocking /\ WaitsFor(k, p) = {}
  <2> SUFFICES ASSUME NEW p \in Process
               PROVE  /\ WaitsFor(k, p) \intersect D # {} => p \in k2.runnable
                      /\ p \in k2.runnable => \/ WaitsFor(k, p) \intersect D # {}
                                              \/ ~Blocking /\ WaitsFor(k, p) = {}
    OBVIOUS
  <2>1. k2.runnable = (UNION {Waiters(k, e) : e \in D})
                         \union {q \in UNION {Range(StaticMethods[e]) : e \in D} :
                                   Unwaiting(k, q) /\ q # k.cur}
    BY DEF Woke
  <2>2. p \in UNION {Waiters(k, e) : e \in D} <=> WaitsFor(k, p) \intersect D # {}
    BY DEF WaitsFor
  <2>3. Unwaiting(k, p) => WaitsFor(k, p) = {}
    BY DEF Unwaiting, WaitsFor
  <2>4. Blocking => p \notin UNION {Range(StaticMethods[e]) : e \in D}
    BY <1>0
  <2> QED BY <2>1, <2>2, <2>3, <2>4
<1>4. k2.cur = Nobody
  BY DEF Woke
<1>5. \A p \in Process : \A e, f \in WaitsFor(k, p) : e = f
  BY DEF OnePlace
<1>6. \A p \in Process : p \in k2.runnable => WaitsFor(k2, p) = {}
  BY <1>2, <1>3, <1>5
<1>7. OnePlace(k2)
  BY <1>0, <1>2, <1>4, <1>5, <1>6 DEF OnePlace
<1> QED BY <1>0, <1>2, <1>3, <1>4, <1>6, <1>7 DEF Asleep

\* At the start nobody waits.
LEMMA InitPlaces ==
  ASSUME NEW ready \in Line(Process)
  PROVE  LET k == InitKernel(ready) IN
         /\ OnePlace(k) /\ \A p \in Process : WaitsFor(k, p) = {} /\ (Asleep(k, p) <=> p \notin Range(ready))
<1>0. Nobody \notin Process
  BY NobodyRuns
<1> HIDE DEF Process, Event
<1>1. PICK k : k = InitKernel(ready)
  OBVIOUS
<1>2. /\ k.cur = Nobody /\ k.runnable = Range(ready)
      /\ k.methods_dynamic = [e \in Event |-> << >>] /\ k.threads_dynamic = [e \in Event |-> << >>]
  BY <1>1, InitKernelOK
<1>3. \A p \in Process : WaitsFor(k, p) = {}
  BY <1>2 DEF WaitsFor, Waiters, Range
<1> QED BY <1>0, <1>1, <1>2, <1>3 DEF OnePlace, Asleep

-----------------------------------------------------------------------------
(* The generator, its pool and its two fifos *)

Payloads(n) == {n} \X (1..MaxTxns)

TgShape ==
  [pc : {"issue", "put", "check", "get", "drain", "done"}, pass : 0..1, cmd : {"write", "read"},
   j : 0..TxnsPerPass, addr : Int, txn : Txn \union {NoTxn}, active : Nat,
   check_all : BOOLEAN, draining : BOOLEAN, sent : Nat]

FifoFields(n) == [items : Line(Payloads(n)), readable : Nat, read : Nat, written : Nat]
FifoShape(n) ==
  {f \in FifoFields(n) :
     f.read <= f.readable /\ Len(f.items) = f.readable - f.read + f.written}

\* The generator only reads responses while it drains; an address never leaves
\* those that belong to the generator.
TgPlace(n) ==
  LET s == tg[n] IN
  /\ s.draining => s.pc \in {"get", "drain"}
  /\ s.pc = "drain" => s.draining
  /\ s.pc = "issue" => s.addr \in Base(n)..Base(n)+s.j
  /\ s.pc \in {"put", "check", "get"} /\ ~s.draining =>
       s.j < TxnsPerPass /\ s.addr \in Base(n)..Base(n)+s.j+1

Putting(n)   == IF tg[n].pc = "put" THEN {tg[n].txn} ELSE {}
Requested(n) == Range(fifo[ReqCh(n)].items)
Responded(n) == Range(fifo[RspCh(n)].items)

\* Where the payloads of generator n are, when it holds a reference of those in
\* `held', of which those in `away' are between the two fifos.
Accounted(n, away, held) ==
  /\ pool[n] \in Line(Payloads(n))
  /\ fifo[ReqCh(n)] \in FifoShape(n) /\ fifo[RspCh(n)] \in FifoShape(n)
  /\ tg[n] \in TgShape /\ TgPlace(n)
  /\ Putting(n) \subseteq Payloads(n) /\ away \subseteq Payloads(n)
  /\ held = Putting(n) \union Requested(n) \union Responded(n) \union away
  /\ Putting(n) \intersect (Requested(n) \union Responded(n) \union away) = {}
  /\ Requested(n) \intersect (Responded(n) \union away) = {}
  /\ Responded(n) \intersect away = {}
  /\ held \intersect Range(pool[n]) = {}
  /\ tg[n].active = Cardinality(held)

\* The functions these are parts of.
Shapes ==
  /\ tg \in [Initiator -> TgShape]
  /\ pool \in [Initiator -> Seq(Txn)]
  /\ DOMAIN fifo = Channel

\* The payloads of a generator that are held can be counted.
LEMMA PayloadsFinite ==
  ASSUME NEW n, NEW held \in SUBSET Payloads(n)
  PROVE  IsFiniteSet(held) /\ Cardinality(held) \in Nat
<1>1. IsFiniteSet({n})
  BY FS_Singleton
<1>0. IsFiniteSet(1..MaxTxns)
  BY FS_Interval, SizesAssumption
<1>2. IsFiniteSet(Payloads(n))
  BY <1>0, <1>1, FS_Product, Zenon DEF Payloads
<1>3. IsFiniteSet(held)
  BY <1>2, FS_Subset
<1> QED BY <1>3, FS_CardinalityType

\* The fifos of two generators, and the two of one generator, are different channels.
LEMMA ChannelFacts ==
  ASSUME NEW n \in Initiator
  PROVE  /\ ReqCh(n) \in Channel /\ RspCh(n) \in Channel /\ ReqCh(n) # RspCh(n)
         /\ \A m \in Initiator : m # n => /\ ReqCh(m) # ReqCh(n) /\ RspCh(m) # RspCh(n)
                                          /\ ReqCh(m) # RspCh(n) /\ RspCh(m) # ReqCh(n)
BY DEF ReqCh, RspCh, Channel

\* The payloads held and those pooled are the generator's, and it counts those held.
LEMMA AccountedSubset ==
  ASSUME NEW n, NEW away, NEW held, Accounted(n, away, held)
  PROVE  /\ held \in SUBSET Payloads(n) /\ IsFiniteSet(held)
         /\ Range(pool[n]) \subseteq Payloads(n) /\ tg[n].active = Cardinality(held)
<1>1. held \in SUBSET Payloads(n)
  <2>1. fifo[ReqCh(n)].items \in Line(Payloads(n)) /\ fifo[RspCh(n)].items \in Line(Payloads(n))
    BY DEF Accounted, FifoShape, FifoFields
  <2>2. Requested(n) \subseteq Payloads(n) /\ Responded(n) \subseteq Payloads(n)
    BY <2>1, RangeOfLine DEF Requested, Responded
  <2> QED BY <2>2 DEF Accounted
<1> QED BY <1>1, PayloadsFinite, RangeOfLine DEF Accounted

\* A step that leaves a generator, its pool and its fifos alone.
LEMMA AccountedFrame ==
  ASSUME NEW n, NEW away, NEW held, Accounted(n, away, held),
         tg'[n] = tg[n], pool'[n] = pool[n],
         fifo'[ReqCh(n)] = fifo[ReqCh(n)], fifo'[RspCh(n)] = fifo[RspCh(n)]
  PROVE  Accounted(n, away, held)'
<1>1. /\ TgPlace(n)' <=> TgPlace(n)
      /\ Putting(n)' = Putting(n) /\ Requested(n)' = Requested(n) /\ Responded(n)' = Responded(n)
  BY DEF TgPlace, Putting, Requested, Responded
<1> QED BY <1>1 DEF Accounted

\* Reading or writing a fifo keeps its fields in their ranges.
LEMMA FifoFieldsSet ==
  ASSUME NEW n, NEW f \in FifoFields(n), NEW i \in Line(Payloads(n))
  PROVE  /\ [f EXCEPT !.items = i, !.read = @ + 1] \in FifoFields(n)
         /\ [f EXCEPT !.items = i, !.written = @ + 1] \in FifoFields(n)
<1>1. f.read + 1 \in Nat /\ f.written + 1 \in Nat
  BY DEF FifoFields
<1>2. \A r \in Nat : /\ [f EXCEPT !.items = i, !.read = r] \in FifoFields(n)
                     /\ [f EXCEPT !.items = i, !.written = r] \in FifoFields(n)
  BY Zenon DEF FifoFields
<1> QED BY <1>1, <1>2, Zenon

\* Reading and writing a fifo with the shape.
LEMMA ReadShape ==
  ASSUME NEW n, NEW f \in FifoShape(n), f.readable - f.read # 0
  PROVE  /\ f.items # << >> /\ Head(f.items) \in Payloads(n) /\ Head(f.items) \in Range(f.items)
         /\ [f EXCEPT !.items = Tail(@), !.read = @ + 1] \in FifoShape(n)
         /\ Range(Tail(f.items)) = Range(f.items) \ {Head(f.items)}
<1>1. f.items \in Line(Payloads(n)) /\ Len(f.items) \in Nat /\ f.items # << >> /\ f.read + 1 <= f.readable
  <2>1. f.items \in Line(Payloads(n)) /\ f.read + 1 <= f.readable /\ Len(f.items) # 0
    BY DEF FifoShape, FifoFields
  <2> QED BY <2>1, RangeOfLine
<1>2. /\ Head(f.items) \in Payloads(n) /\ Head(f.items) \in Range(f.items)
      /\ Tail(f.items) \in Line(Payloads(n)) /\ Len(Tail(f.items)) = Len(f.items) - 1
      /\ Range(Tail(f.items)) = Range(f.items) \ {Head(f.items)}
  BY <1>1, TailOfLine, Zenon
<1> DEFINE g == [f EXCEPT !.items = Tail(@), !.read = @ + 1]
<1>3. /\ g \in FifoFields(n) /\ g.items = Tail(f.items)
      /\ g.read = f.read + 1 /\ g.readable = f.readable /\ g.written = f.written
  <2>1. f \in FifoFields(n) /\ Tail(f.items) \in Line(Payloads(n))
    BY <1>2 DEF FifoShape
  <2>2. g \in FifoFields(n)
    BY <2>1, FifoFieldsSet, Zenon
  <2> QED BY <2>1, <2>2 DEF FifoFields
<1>4. g \in FifoShape(n)
  <2> HIDE DEF g
  <2>1. f \in FifoFields(n) /\ Len(f.items) = f.readable - f.read + f.written
    BY DEF FifoShape
  <2>2. Len(g.items) = g.readable - g.read + g.written /\ g.read <= g.readable
    BY <2>1, <1>1, <1>2, <1>3 DEF FifoFields
  <2> QED BY <1>3, <2>2, Zenon DEF FifoShape
<1> QED BY <1>1, <1>2, <1>4

\* A payload that is not in a fifo can be written to it.
LEMMA WriteShape ==
  ASSUME NEW n, NEW f \in FifoShape(n), NEW tx \in Payloads(n), tx \notin Range(f.items)
  PROVE  /\ [f EXCEPT !.items = Append(@, tx), !.written = @ + 1] \in FifoShape(n)
         /\ Range(Append(f.items, tx)) = Range(f.items) \union {tx}
<1>0. f.items \in Line(Payloads(n))
  BY DEF FifoShape, FifoFields
<1>1. /\ Append(f.items, tx) \in Line(Payloads(n)) /\ Len(Append(f.items, tx)) = Len(f.items) + 1
      /\ Range(Append(f.items, tx)) = Range(f.items) \union {tx} /\ Len(f.items) \in Nat
  BY <1>0, AppendToLine, RangeOfLine
<1> DEFINE g == [f EXCEPT !.items = Append(@, tx), !.written = @ + 1]
<1>2. /\ g \in FifoFields(n) /\ g.items = Append(f.items, tx)
      /\ g.read = f.read /\ g.readable = f.readable /\ g.written = f.written + 1
  <2>1. f \in FifoFields(n) /\ Append(f.items, tx) \in Line(Payloads(n))
    BY <1>1 DEF FifoShape
  <2>2. g \in FifoFields(n)
    BY <2>1, FifoFieldsSet, Zenon
  <2> QED BY <2>1, <2>2 DEF FifoFields
<1>3. g \in FifoShape(n)
  <2> HIDE DEF g
  <2>1. f \in FifoFields(n) /\ Len(f.items) = f.readable - f.read + f.written /\ f.read <= f.readable
    BY DEF FifoShape
  <2>2. Len(g.items) = g.readable - g.read + g.written /\ g.read <= g.readable
    BY <2>1, <1>1, <1>2 DEF FifoFields
  <2> QED BY <1>2, <2>2 DEF FifoShape
<1> QED BY <1>1, <1>3

\* The update of a fifo keeps its shape and what is in it.
LEMMA UpdatedShape ==
  ASSUME NEW n, NEW f \in FifoShape(n)
  PROVE  Updated(f) \in FifoShape(n) /\ Updated(f).items = f.items
<1>1. f \in FifoFields(n) /\ f.items \in Line(Payloads(n)) /\ Len(f.items) \in Nat
  BY RangeOfLine DEF FifoShape, FifoFields
<1> DEFINE g == Updated(f)
<1>2. g \in FifoFields(n) /\ g.items = f.items /\ g.read = 0 /\ g.readable = Len(f.items) /\ g.written = 0
  BY <1>1, Zenon DEF Updated, FifoFields
<1> HIDE DEF g
<1>3. g \in FifoShape(n)
  BY <1>1, <1>2 DEF FifoShape
<1> QED BY <1>2, <1>3 DEF g

-----------------------------------------------------------------------------
(* The steps of the generator *)

\* Issue takes a free payload: the generator holds it, between pool and fifo.
LEMMA IssueStep ==
  ASSUME NEW n \in Initiator, NEW away, NEW held, Shapes, Accounted(n, away, held), Issue(n),
         NEW tx, tx = Head(pool[n])
  PROVE  /\ tx \in Payloads(n) \ held /\ tx \in Range(pool[n])
         /\ tg[n].addr \in Base(n)..Base(n)+TxnsPerPass-1
         /\ Accounted(n, away, held \union {tx})' /\ Shapes'
<1>0. PICK s : s = tg[n]
  OBVIOUS
<1> DEFINE s2 == [s EXCEPT !.pc = "put", !.addr = @ + 1, !.active = @ + 1, !.txn = tx, !.sent = @ + 1]
<1>1. /\ tx \in Payloads(n) /\ tx \in Range(pool[n]) /\ Tail(pool[n]) \in Line(Payloads(n))
      /\ Range(Tail(pool[n])) = Range(pool[n]) \ {tx}
  BY TailOfLine, Zenon DEF Issue, Accounted
<1>2. tx \notin held
  BY <1>1 DEF Accounted
<1>3. s \in TgShape /\ tx \in Txn /\ Base(n) \in Int
  BY <1>0, <1>1, PassAssumption DEF Accounted, Payloads, Txn, Initiator, Base
<1>4. s.addr \in Base(n)..Base(n)+s.j /\ s.j < TxnsPerPass /\ s.j \in 0..TxnsPerPass
  BY <1>0, <1>3 DEF Issue, Accounted, TgPlace, TgShape
<1>5. s2 \in TgShape /\ s2.pc = "put" /\ s2.txn = tx /\ s2.addr = s.addr + 1 /\ s2.j = s.j
        /\ s2.draining = s.draining /\ s2.active = s.active + 1
  <2>1. s.addr + 1 \in Int /\ s.active + 1 \in Nat /\ s.sent + 1 \in Nat
    BY <1>3 DEF TgShape
  <2>2. PICK addr \in Int, a \in Nat, c \in Nat : addr = s.addr + 1 /\ a = s.active + 1 /\ c = s.sent + 1
    BY <2>1
  <2>3. s2 = [s EXCEPT !.pc = "put", !.addr = addr, !.active = a, !.txn = tx, !.sent = c]
    BY <2>2
  <2> HIDE DEF s2
  <2>4. s2 \in TgShape
    BY ONLY <1>3, <2>2, <2>3, Zenon DEF TgShape
  <2>5. s2.pc = "put" /\ s2.txn = tx /\ s2.addr = addr /\ s2.j = s.j
          /\ s2.draining = s.draining /\ s2.active = a
    BY ONLY <1>3, <2>2, <2>3 DEF TgShape
  <2> QED BY <2>2, <2>4, <2>5
<1>6. tg' = [tg EXCEPT ![n] = s2] /\ pool' = [pool EXCEPT ![n] = Tail(pool[n])] /\ fifo' = fifo
  BY <1>0 DEF Issue, Set
<1> HIDE DEF s2
<1>7. /\ tg'[n] = s2 /\ pool'[n] = Tail(pool[n]) /\ tg' \in [Initiator -> TgShape]
      /\ DOMAIN fifo' = Channel
  BY <1>5, <1>6 DEF Shapes
<1>7a. pool' \in [Initiator -> Seq(Txn)]
  <2>1. Tail(pool[n]) \in Seq(Txn)
    <3>1. pool[n] \in Seq(Txn) /\ pool[n] # << >>
      BY DEF Shapes, Issue
    <3> QED BY <3>1, HeadTailProperties
  <2> QED BY <2>1, <1>6 DEF Shapes
<1>8. Cardinality(held \union {tx}) = s2.active
  <2>1. IsFiniteSet(held) /\ s.active = Cardinality(held)
    BY <1>0, AccountedSubset
  <2>2. Cardinality(held \union {tx}) = Cardinality(held) + 1
    BY <2>1, <1>2, FS_AddElement, Zenon
  <2> QED BY <2>1, <2>2, <1>5
<1>9. TgPlace(n)' 
  <2>1. ~s.draining
    BY <1>0 DEF Issue, Accounted, TgPlace
  <2> QED BY <1>3, <1>4, <1>5, <1>7, <2>1, PassAssumption DEF TgPlace
<1>10. Putting(n) = {} /\ Putting(n)' = {tx} /\ Requested(n)' = Requested(n) /\ Responded(n)' = Responded(n)
  BY <1>5, <1>6, <1>7 DEF Putting, Requested, Responded, Issue
<1>11. Accounted(n, away, held \union {tx})'
  <2>1. /\ pool'[n] \in Line(Payloads(n)) /\ tg'[n] \in TgShape /\ tg'[n].active = Cardinality(held \union {tx})
        /\ (held \union {tx}) \intersect Range(pool'[n]) = {}
    BY <1>1, <1>2, <1>5, <1>7, <1>8 DEF Accounted
  <2>2. /\ fifo'[ReqCh(n)] \in FifoShape(n) /\ fifo'[RspCh(n)] \in FifoShape(n)
        /\ TgPlace(n)' /\ Putting(n)' \subseteq Payloads(n) /\ away \subseteq Payloads(n)
    BY <1>1, <1>6, <1>9, <1>10 DEF Accounted
  <2>3. /\ held = Requested(n) \union Responded(n) \union away
        /\ Requested(n) \intersect (Responded(n) \union away) = {}
        /\ Responded(n) \intersect away = {}
    BY <1>10 DEF Accounted
  <2>4. /\ held \union {tx} = Putting(n)' \union Requested(n)' \union Responded(n)' \union away
        /\ Putting(n)' \intersect (Requested(n)' \union Responded(n)' \union away) = {}
        /\ Requested(n)' \intersect (Responded(n)' \union away) = {}
        /\ Responded(n)' \intersect away = {}
    BY <1>2, <1>10, <2>3
  <2> QED BY <2>1, <2>2, <2>4 DEF Accounted
<1>12. s.addr \in Base(n)..Base(n)+TxnsPerPass-1
  BY <1>0, <1>3, <1>4, PassAssumption
<1> QED BY <1>0, <1>1, <1>2, <1>7, <1>7a, <1>11, <1>12 DEF Shapes

\* A step of the generator that only changes its locals.
LEMMA LocalStep ==
  ASSUME NEW n \in Initiator, NEW away, NEW held, Shapes, Accounted(n, away, held),
         NEW s2 \in TgShape, tg' = [tg EXCEPT ![n] = s2], pool' = pool, fifo' = fifo,
         s2.active = tg[n].active, tg[n].pc # "put", s2.pc # "put", TgPlace(n)'
  PROVE  Accounted(n, away, held)' /\ Shapes'
<1>1. tg'[n] = s2 /\ tg' \in [Initiator -> TgShape]
  BY DEF Shapes
<1>2. /\ Putting(n)' = Putting(n) /\ Requested(n)' = Requested(n) /\ Responded(n)' = Responded(n)
  BY <1>1 DEF Putting, Requested, Responded
<1> QED BY <1>1, <1>2 DEF Accounted, Shapes

\* Nothing of the generator's payloads changes in a step that is neither Issue,
\* Put, Get nor Drained.
LEMMA QuietStep ==
  ASSUME NEW n \in Initiator, NEW away, NEW held, Shapes, Accounted(n, away, held),
         Skip(n) \/ PutBlocks(n) \/ Check(n) \/ GetBlocks(n) \/ Drain(n)
  PROVE  /\ Accounted(n, away, held)' /\ Shapes'
         /\ gp' = gp /\ pool' = pool /\ fifo' = fifo /\ link' = link /\ peq' = peq /\ fatal' = fatal
         /\ tg' = [tg EXCEPT ![n] = tg'[n]] /\ tg'[n].pass = tg[n].pass
         /\ Putting(n)' = Putting(n)
<1>0. PICK s \in TgShape : s = tg[n]
  BY DEF Accounted
<1>1. gp' = gp /\ pool' = pool /\ fifo' = fifo /\ link' = link /\ peq' = peq /\ fatal' = fatal
  BY DEF Skip, PutBlocks, Check, GetBlocks, Drain, shared
<1>2. Base(n) \in Int
  BY PassAssumption DEF Base, Initiator
<1>3. CASE tg' = tg
  <2>1. TgPlace(n)' <=> TgPlace(n)
    BY <1>3 DEF TgPlace
  <2>2. /\ Putting(n)' = Putting(n) /\ Requested(n)' = Requested(n) /\ Responded(n)' = Responded(n)
    BY <1>1, <1>3 DEF Putting, Requested, Responded
  <2> QED BY <1>1, <1>3, <2>1, <2>2 DEF Accounted, Shapes
<1>4. ASSUME NEW s2 \in TgShape, tg' = [tg EXCEPT ![n] = s2], s2.active = s.active,
             s.pc # "put", s2.pc # "put", s2.pass = s.pass,
             /\ s2.draining => s2.pc \in {"get", "drain"}
             /\ s2.pc = "drain" => s2.draining
             /\ s2.pc = "issue" => s2.addr \in Base(n)..Base(n)+s2.j
             /\ s2.pc \in {"put", "check", "get"} /\ ~s2.draining =>
                  s2.j < TxnsPerPass /\ s2.addr \in Base(n)..Base(n)+s2.j+1
      PROVE  /\ Accounted(n, away, held)' /\ Shapes' /\ Putting(n)' = Putting(n)
             /\ tg' = [tg EXCEPT ![n] = tg'[n]] /\ tg'[n].pass = tg[n].pass
  <2>1. tg'[n] = s2
    BY <1>4 DEF Shapes
  <2>2. TgPlace(n)'
    BY <1>4, <2>1 DEF TgPlace
  <2>3. Accounted(n, away, held)' /\ Shapes'
    BY <1>0, <1>1, <1>4, <2>2, LocalStep, Zenon
  <2> QED BY <1>0, <1>4, <2>1, <2>3, Zenon DEF Putting
<1>5. /\ s.draining => s.pc \in {"get", "drain"}
      /\ s.pc = "drain" => s.draining
      /\ s.pc = "issue" => s.addr \in Base(n)..Base(n)+s.j
      /\ s.pc \in {"put", "check", "get"} /\ ~s.draining =>
           s.j < TxnsPerPass /\ s.addr \in Base(n)..Base(n)+s.j+1
  BY <1>0 DEF Accounted, TgPlace
<1>6. CASE Skip(n)
  <2> DEFINE s2 == [s EXCEPT !.pc = "check"]
  <2>1. tg' = [tg EXCEPT ![n] = s2] /\ s.pc = "issue" /\ s.j < TxnsPerPass
    BY <1>0, <1>6 DEF Skip, Set
  <2>2. /\ s2 \in TgShape /\ s2.active = s.active /\ s2.pc = "check" /\ s2.pass = s.pass
        /\ s2.draining = s.draining /\ s2.addr = s.addr /\ s2.j = s.j
    BY <1>0 DEF TgShape
  <2> HIDE DEF s2
  <2>3. s2.addr \in Base(n)..Base(n)+s2.j+1
    BY <1>0, <1>2, <1>5, <2>1, <2>2 DEF TgShape
  <2> QED BY <1>1, <1>4, <1>5, <2>1, <2>2, <2>3, Zenon
<1>7. CASE Check(n)
  <2>1. s.pc = "check" /\ ~s.draining /\ s.j < TxnsPerPass /\ s.addr \in Base(n)..Base(n)+s.j+1
    BY <1>0, <1>5, <1>7 DEF Check
  <2>2. CASE Wanted(n)
    <3> DEFINE s2 == [s EXCEPT !.pc = "get"]
    <3>1. tg' = [tg EXCEPT ![n] = s2]
      BY <1>0, <1>7, <2>2 DEF Check, Set
    <3>2. /\ s2 \in TgShape /\ s2.active = s.active /\ s2.pc = "get" /\ s2.pass = s.pass
          /\ s2.draining = s.draining /\ s2.addr = s.addr /\ s2.j = s.j
      BY <1>0 DEF TgShape
    <3> HIDE DEF s2
    <3> QED BY <1>1, <1>4, <2>1, <3>1, <3>2, Zenon
  <2>3. CASE ~Wanted(n)
    <3>0. s.j + 1 \in 0..TxnsPerPass
      BY <1>0, <2>1, PassAssumption DEF TgShape
    <3> DEFINE s2 == [s EXCEPT !.pc = "issue", !.j = @ + 1]
    <3>1. tg' = [tg EXCEPT ![n] = s2]
      BY <1>0, <1>7, <2>3 DEF Check, Set
    <3>2. /\ s2 \in TgShape /\ s2.active = s.active /\ s2.pc = "issue" /\ s2.pass = s.pass
          /\ s2.draining = s.draining /\ s2.addr = s.addr /\ s2.j = s.j + 1
      BY <1>0, <3>0, Zenon DEF TgShape
    <3> HIDE DEF s2
    <3>3. s2.addr \in Base(n)..Base(n)+s2.j
      BY <1>0, <1>2, <2>1, <3>2 DEF TgShape
    <3> QED BY <1>1, <1>4, <2>1, <3>1, <3>2, <3>3, Zenon
  <2> QED BY <2>2, <2>3
<1>8. CASE Drain(n)
  <2> DEFINE s2 == [s EXCEPT !.check_all = TRUE, !.draining = TRUE, !.pc = "get"]
  <2>1. tg' = [tg EXCEPT ![n] = s2] /\ s.pc # "put"
    BY <1>0, <1>8 DEF Drain, Set
  <2>2. /\ s2 \in TgShape /\ s2.active = s.active /\ s2.pc = "get" /\ s2.pass = s.pass /\ s2.draining
    BY <1>0, Zenon DEF TgShape
  <2> HIDE DEF s2
  <2> QED BY <1>1, <1>4, <2>1, <2>2, Zenon
<1>9. CASE PutBlocks(n) \/ GetBlocks(n)
  <2>1. tg' = tg
    BY <1>9 DEF PutBlocks, GetBlocks
  <2> QED BY <1>1, <1>3, <2>1 DEF Shapes, Putting
<1> QED BY <1>1, <1>6, <1>7, <1>8, <1>9

\* Put hands the payload of the iteration to request_out_port.
LEMMA PutStep ==
  ASSUME NEW n \in Initiator, NEW away, NEW held, Shapes, Accounted(n, away, held), Put(n)
  PROVE  /\ Accounted(n, away, held)' /\ Shapes'
         /\ gp' = gp /\ pool' = pool /\ link' = link /\ peq' = peq /\ fatal' = fatal
         /\ tg' = [tg EXCEPT ![n] = tg'[n]] /\ tg'[n].pass = tg[n].pass
         /\ tg[n].txn \in held /\ Putting(n)' = {} /\ Putting(n) = {tg[n].txn}
         /\ Requested(n)' = Requested(n) \union {tg[n].txn}
<1>0. PICK s \in TgShape : s = tg[n]
  BY DEF Accounted
<1>1. PICK f \in FifoShape(n) : f = fifo[ReqCh(n)]
  BY DEF Accounted
<1> DEFINE tx == s.txn
           s2 == [s EXCEPT !.pc = "check", !.txn = NoTxn]
           f2 == [f EXCEPT !.items = Append(@, tx), !.written = @ + 1]
<1>2. /\ s.pc = "put" /\ ~s.draining /\ s.j < TxnsPerPass /\ s.addr \in Base(n)..Base(n)+s.j+1
      /\ Putting(n) = {tx} /\ tx \in Payloads(n) /\ tx \in held
      /\ tx \notin Requested(n) /\ tx \notin Responded(n) /\ tx \notin away
  BY <1>0 DEF Put, Accounted, TgPlace, Putting
<1>3. /\ s2 \in TgShape /\ s2.active = s.active /\ s2.pc = "check" /\ s2.pass = s.pass
      /\ ~s2.draining /\ s2.addr = s.addr /\ s2.j = s.j
  BY <1>0, <1>2, Zenon DEF TgShape
<1>4. f2 \in FifoShape(n) /\ Range(f2.items) = Range(f.items) \union {tx}
  <2>1. tx \notin Range(f.items) /\ f \in FifoFields(n)
    BY <1>1, <1>2 DEF Requested, FifoShape
  <2>2. f2.items = Append(f.items, tx)
    BY <2>1 DEF FifoFields
  <2>3. f2 \in FifoShape(n)
    BY <1>1, <1>2, <2>1, WriteShape, Zenon
  <2>4. Range(Append(f.items, tx)) = Range(f.items) \union {tx}
    <3>1. f.items \in Line(Payloads(n))
      BY <2>1 DEF FifoFields
    <3> QED BY <1>2, <2>1, <3>1, AppendToLine
  <2> QED BY <2>2, <2>3, <2>4
<1>5. /\ tg' = [tg EXCEPT ![n] = s2] /\ fifo' = [fifo EXCEPT ![ReqCh(n)] = f2]
      /\ gp' = gp /\ pool' = pool /\ link' = link /\ peq' = peq /\ fatal' = fatal
  BY <1>0, <1>1, Zenon DEF Put, Set, FifoWrite
<1> HIDE DEF s2, f2
<1>6. /\ tg'[n] = s2 /\ fifo'[ReqCh(n)] = f2 /\ fifo'[RspCh(n)] = fifo[RspCh(n)]
      /\ Shapes'
  BY <1>3, <1>5, ChannelFacts DEF Shapes
<1>7. /\ Putting(n)' = {} /\ Requested(n)' = Requested(n) \union {tx} /\ Responded(n)' = Responded(n)
  BY <1>1, <1>3, <1>4, <1>6 DEF Putting, Requested, Responded
<1>8. TgPlace(n)'
  BY <1>2, <1>3, <1>6 DEF TgPlace
<1>9. /\ Putting(n)' \subseteq Payloads(n)
      /\ held = Putting(n)' \union Requested(n)' \union Responded(n)' \union away
      /\ Putting(n)' \intersect (Requested(n)' \union Responded(n)' \union away) = {}
      /\ Requested(n)' \intersect (Responded(n)' \union away) = {}
  BY <1>2, <1>7 DEF Accounted
<1>10. /\ pool'[n] \in Line(Payloads(n)) /\ fifo'[ReqCh(n)] \in FifoShape(n)
       /\ fifo'[RspCh(n)] \in FifoShape(n) /\ tg'[n] \in TgShape /\ away \subseteq Payloads(n)
       /\ Responded(n)' \intersect away = {} /\ held \intersect Range(pool'[n]) = {}
       /\ tg'[n].active = Cardinality(held)
  BY <1>0, <1>3, <1>4, <1>5, <1>6, <1>7 DEF Accounted
<1>11. Accounted(n, away, held)'
  BY <1>8, <1>9, <1>10, Zenon DEF Accounted
<1> QED BY <1>0, <1>2, <1>3, <1>5, <1>6, <1>7, <1>11, Zenon

\* Get takes a response and gives up the generator's reference; the payload is
\* back in the pool if that was the last one.
LEMMA GetStep ==
  ASSUME NEW n \in Initiator, NEW away, NEW held, Shapes, Accounted(n, away, held), Get(n),
         NEW tx, tx = Head(fifo[RspCh(n)].items)
  PROVE  /\ tx \in held /\ tx \in Responded(n) /\ tx \in Payloads(n)
         /\ Accounted(n, away, held \ {tx})' /\ Shapes'
         /\ link' = link /\ peq' = peq
         /\ tg' = [tg EXCEPT ![n] = tg'[n]] /\ tg'[n].pass = tg[n].pass /\ Putting(n)' = {}
         /\ pool' = IF gp[tx].rc = 1 THEN [pool EXCEPT ![n] = Append(@, tx)] ELSE pool
<1>0. PICK s \in TgShape : s = tg[n]
  BY DEF Accounted
<1>1. PICK f \in FifoShape(n) : f = fifo[RspCh(n)]
  BY DEF Accounted
<1> DEFINE f2 == [f EXCEPT !.items = Tail(@), !.read = @ + 1]
           p2 == IF gp[tx].rc = 1 THEN Append(pool[n], tx) ELSE pool[n]
<1>2. /\ tx \in Payloads(n) /\ tx \in Range(f.items) /\ f2 \in FifoShape(n)
      /\ Range(f2.items) = Range(f.items) \ {tx}
  <2>1. f.readable - f.read # 0 /\ f \in FifoFields(n) /\ tx = Head(f.items)
    BY <1>1 DEF Get, NumAvailable, FifoShape
  <2>2. f2.items = Tail(f.items)
    BY <2>1 DEF FifoFields
  <2>3. f2 \in FifoShape(n)
    BY <1>1, <2>1, ReadShape, Zenon
  <2>4. tx \in Payloads(n) /\ tx \in Range(f.items) /\ Range(Tail(f.items)) = Range(f.items) \ {tx}
    BY <1>1, <2>1, ReadShape, Zenon
  <2> QED BY <2>2, <2>3, <2>4
<1>3. tx \in held /\ tx \in Responded(n) /\ tx \notin away /\ tx \notin Requested(n)
        /\ tx \notin Putting(n)
  BY <1>1, <1>2 DEF Responded, Accounted
<1>4. Owner(tx) = n /\ tx \in Txn
  BY <1>2 DEF Payloads, Owner, Txn
<1>5. p2 \in Line(Payloads(n)) /\ (held \ {tx}) \intersect Range(p2) = {} /\ p2 \in Seq(Txn)
  <2>1. pool[n] \in Line(Payloads(n)) /\ held \intersect Range(pool[n]) = {} /\ pool[n] \in Seq(Txn)
    BY DEF Accounted, Shapes
  <2>2. /\ Append(pool[n], tx) \in Line(Payloads(n))
        /\ Range(Append(pool[n], tx)) = Range(pool[n]) \union {tx}
    BY <2>1, <1>2, <1>3, AppendToLine
  <2>3. Append(pool[n], tx) \in Seq(Txn)
    BY <2>1, <1>4
  <2> QED BY <2>1, <2>2, <2>3
<1>6. s.active - 1 \in Nat /\ s.active - 1 = Cardinality(held \ {tx})
  <2>1. IsFiniteSet(held) /\ s.active = Cardinality(held) /\ held \ {tx} \in SUBSET Payloads(n)
    BY <1>0, AccountedSubset
  <2>2. Cardinality(held \ {tx}) = Cardinality(held) - 1
    BY ONLY <2>1, <1>3, FS_RemoveElement, Zenon
  <2>3. Cardinality(held \ {tx}) \in Nat
    BY <2>1, PayloadsFinite
  <2> QED BY <1>0, <2>1, <2>2, <2>3 DEF TgShape
<1>7. s.pc = "get" /\ (~s.draining => s.j < TxnsPerPass /\ s.addr \in Base(n)..Base(n)+s.j+1)
  BY <1>0 DEF Get, Accounted, TgPlace
<1>8. PICK s2 \in TgShape :
        /\ tg' = [tg EXCEPT ![n] = s2] /\ s2.active = s.active - 1 /\ s2.pass = s.pass
        /\ s2.draining = s.draining /\ s2.addr = s.addr
        /\ \/ s.draining /\ s2.pc = "drain"
           \/ ~s.draining /\ s2.pc = "issue" /\ s2.j = s.j + 1
  <2>1. CASE s.draining
    <3> DEFINE s2 == [s EXCEPT !.active = @ - 1, !.pc = "drain"]
    <3>1. tg' = [tg EXCEPT ![n] = s2]
      BY <1>0, <2>1 DEF Get, Set
    <3>2. /\ s2 \in TgShape /\ s2.active = s.active - 1 /\ s2.pc = "drain" /\ s2.pass = s.pass
          /\ s2.draining = s.draining /\ s2.addr = s.addr
      BY <1>0, <1>6, Zenon DEF TgShape
    <3> HIDE DEF s2
    <3> QED BY <2>1, <3>1, <3>2, Zenon
  <2>2. CASE ~s.draining
    <3>0. s.j + 1 \in 0..TxnsPerPass
      BY <1>0, <1>7, <2>2, PassAssumption DEF TgShape
    <3> DEFINE s2 == [s EXCEPT !.active = @ - 1, !.pc = "issue", !.j = @ + 1]
    <3>1. tg' = [tg EXCEPT ![n] = s2]
      BY <1>0, <2>2 DEF Get, Set
    <3>2. /\ s2 \in TgShape /\ s2.active = s.active - 1 /\ s2.pc = "issue" /\ s2.pass = s.pass
          /\ s2.draining = s.draining /\ s2.addr = s.addr /\ s2.j = s.j + 1
      BY <1>0, <1>6, <3>0, Zenon DEF TgShape
    <3> HIDE DEF s2
    <3> QED BY <2>2, <3>1, <3>2, Zenon
  <2> QED BY <2>1, <2>2
<1>9. /\ fifo' = [fifo EXCEPT ![RspCh(n)] = f2] /\ pool' = [pool EXCEPT ![n] = p2]
      /\ link' = link /\ peq' = peq
      /\ pool' = IF gp[tx].rc = 1 THEN [pool EXCEPT ![n] = Append(@, tx)] ELSE pool
  <2>1. fifo' = [fifo EXCEPT ![RspCh(n)] = f2] /\ link' = link /\ peq' = peq
    BY <1>1, Zenon DEF Get, FifoRead
  <2>2. pool' = IF gp[tx].rc = 1 THEN [pool EXCEPT ![n] = Append(@, tx)] ELSE pool
    BY <1>4, Zenon DEF Get, PoolAfterRelease
  <2> QED BY <2>1, <2>2, Zenon DEF Shapes
<1> HIDE DEF f2, p2
<1>10. /\ tg'[n] = s2 /\ pool'[n] = p2 /\ fifo'[RspCh(n)] = f2 /\ fifo'[ReqCh(n)] = fifo[ReqCh(n)]
       /\ Shapes'
  BY <1>5, <1>8, <1>9, ChannelFacts DEF Shapes
<1>11. /\ Putting(n)' = {} /\ Putting(n) = {} /\ Requested(n)' = Requested(n)
       /\ Responded(n)' = Responded(n) \ {tx}
  BY <1>0, <1>1, <1>2, <1>7, <1>8, <1>10 DEF Putting, Requested, Responded
<1>12. TgPlace(n)'
  <2>1. Base(n) \in Int
    BY PassAssumption DEF Base, Initiator
  <2> QED BY <1>7, <1>8, <1>10, <2>1 DEF TgPlace, TgShape
<1>13. /\ Putting(n)' \subseteq Payloads(n)
       /\ held \ {tx} = Putting(n)' \union Requested(n)' \union Responded(n)' \union away
       /\ Putting(n)' \intersect (Requested(n)' \union Responded(n)' \union away) = {}
       /\ Requested(n)' \intersect (Responded(n)' \union away) = {}
       /\ Responded(n)' \intersect away = {}
  BY <1>3, <1>11 DEF Accounted
<1>14. /\ pool'[n] \in Line(Payloads(n)) /\ fifo'[ReqCh(n)] \in FifoShape(n)
       /\ fifo'[RspCh(n)] \in FifoShape(n) /\ tg'[n] \in TgShape /\ away \subseteq Payloads(n)
       /\ (held \ {tx}) \intersect Range(pool'[n]) = {}
       /\ tg'[n].active = Cardinality(held \ {tx})
  BY <1>2, <1>5, <1>6, <1>8, <1>10 DEF Accounted
<1>15. Accounted(n, away, held \ {tx})'
  BY <1>12, <1>13, <1>14 DEF Accounted
<1> QED BY <1>0, <1>2, <1>3, <1>8, <1>9, <1>10, <1>11, <1>15, Zenon

\* The generator changes passes only with every payload back.
LEMMA DrainedStep ==
  ASSUME NEW n \in Initiator, NEW away, NEW held, Shapes, Accounted(n, away, held), Drained(n)
  PROVE  /\ held = {} /\ Accounted(n, away, held)' /\ Shapes'
         /\ gp' = gp /\ pool' = pool /\ fifo' = fifo /\ link' = link /\ peq' = peq /\ fatal' = fatal
         /\ tg' = [tg EXCEPT ![n] = tg'[n]] /\ Putting(n)' = {}
<1>0. PICK s \in TgShape : s = tg[n]
  BY DEF Accounted
<1>1. gp' = gp /\ pool' = pool /\ fifo' = fifo /\ link' = link /\ peq' = peq /\ fatal' = fatal
  BY DEF Drained
<1>2. Base(n) \in Int /\ 0 \in 0..TxnsPerPass
  BY PassAssumption DEF Base, Initiator
<1>3. held = {}
  <2>1. IsFiniteSet(held) /\ Cardinality(held) = 0
    BY AccountedSubset DEF Drained
  <2> QED BY <2>1, FS_EmptySet
<1> DEFINE s1 == [s EXCEPT !.check_all = FALSE, !.draining = FALSE, !.j = 0, !.addr = Base(n),
                           !.pc = "issue", !.sent = 0]
<1>4. /\ s1 \in TgShape /\ s1.pc = "issue" /\ ~s1.draining /\ s1.j = 0 /\ s1.addr = Base(n)
      /\ s1.active = s.active
  BY <1>0, <1>2, Zenon DEF TgShape
<1>5. /\ s.pc # "put" 
      /\ \/ tg' = [tg EXCEPT ![n] = [s1 EXCEPT !.cmd = "read"]]
         \/ tg' = [tg EXCEPT ![n] = [s1 EXCEPT !.cmd = "write", !.pass = 1]]
         \/ tg' = [tg EXCEPT ![n] = [s1 EXCEPT !.pc = "done"]]
  BY <1>0 DEF Drained, Set
<1> HIDE DEF s1
<1>6. PICK s2 \in TgShape : /\ tg' = [tg EXCEPT ![n] = s2] /\ s2.active = s.active
                            /\ s2.pc \in {"issue", "done"} /\ ~s2.draining /\ s2.j = 0 /\ s2.addr = Base(n)
  <2>1. \A r : r = [s1 EXCEPT !.cmd = "read"] \/ r = [s1 EXCEPT !.cmd = "write", !.pass = 1]
                   \/ r = [s1 EXCEPT !.pc = "done"] =>
                 /\ r \in TgShape /\ r.active = s.active /\ r.pc \in {"issue", "done"}
                 /\ ~r.draining /\ r.j = 0 /\ r.addr = Base(n)
    <3>1. \A r : r = [s1 EXCEPT !.cmd = "read"] => 
                 /\ r \in TgShape /\ r.active = s.active /\ r.pc \in {"issue", "done"}
                 /\ ~r.draining /\ r.j = 0 /\ r.addr = Base(n)
      BY <1>4 DEF TgShape
    <3>2. \A r : r = [s1 EXCEPT !.cmd = "write", !.pass = 1] => 
                 /\ r \in TgShape /\ r.active = s.active /\ r.pc \in {"issue", "done"}
                 /\ ~r.draining /\ r.j = 0 /\ r.addr = Base(n)
      <4>1. 1 \in 0..1
        OBVIOUS
      <4>2. \A one \in 0..1 : \A r : r = [s1 EXCEPT !.cmd = "write", !.pass = one] =>
                 /\ r \in TgShape /\ r.active = s.active /\ r.pc \in {"issue", "done"}
                 /\ ~r.draining /\ r.j = 0 /\ r.addr = Base(n)
        BY <1>4, Zenon DEF TgShape
      <4> QED BY <4>1, <4>2, Zenon
    <3>3. \A r : r = [s1 EXCEPT !.pc = "done"] => 
                 /\ r \in TgShape /\ r.active = s.active /\ r.pc \in {"issue", "done"}
                 /\ ~r.draining /\ r.j = 0 /\ r.addr = Base(n)
      BY <1>4 DEF TgShape
    <3> QED BY <3>1, <3>2, <3>3
  <2> QED BY <1>5, <2>1, Zenon
<1>7. tg'[n] = s2
  BY <1>6 DEF Shapes
<1>8. TgPlace(n)'
  BY <1>2, <1>6, <1>7 DEF TgPlace
<1>9. Accounted(n, away, held)' /\ Shapes'
  BY <1>0, <1>1, <1>5, <1>6, <1>8, LocalStep, Zenon
<1> QED BY <1>1, <1>3, <1>6, <1>7, <1>9, Zenon DEF Putting

\* Every step of a generator leaves the other generators alone.
LEMMA OtherGenerators ==
  ASSUME NEW n \in Initiator, NEW m \in Initiator, m # n, Shapes, TgStep(n),
         NEW away, NEW held, Accounted(m, away, held),
         Get(n) => Head(fifo[RspCh(n)].items) \in Payloads(n)
  PROVE  /\ Accounted(m, away, held)' /\ tg'[m] = tg[m] /\ pool'[m] = pool[m]
         /\ fifo'[ReqCh(m)] = fifo[ReqCh(m)] /\ fifo'[RspCh(m)] = fifo[RspCh(m)]
<1>1. tg'[m] = tg[m]
  <2>1. \A r : tg' = [tg EXCEPT ![n] = r] => tg'[m] = tg[m]
    BY DEF Shapes
  <2> QED BY <2>1 DEF TgStep, Issue, Skip, PutBlocks, Put, Check, GetBlocks, Get, Drain, Drained, Set
<1>2. pool'[m] = pool[m]
  <2>1. \A r : pool' = [pool EXCEPT ![n] = r] => pool'[m] = pool[m]
    BY DEF Shapes
  <2>2. CASE Get(n)
    <3>1. \A tx \in Payloads(n) : Owner(tx) = n
      BY DEF Payloads, Owner
    <3> QED BY <2>1, <2>2, <3>1 DEF Get, PoolAfterRelease, Shapes
  <2> QED BY <2>1, <2>2 DEF TgStep, Issue, Skip, PutBlocks, Put, Check, GetBlocks, Drain, Drained, shared
<1>3. fifo'[ReqCh(m)] = fifo[ReqCh(m)] /\ fifo'[RspCh(m)] = fifo[RspCh(m)]
  <2>1. \A ch \in {ReqCh(n), RspCh(n)} : \A tx :
           fifo' \in {FifoRead(ch), FifoWrite(ch, tx)} =>
             fifo'[ReqCh(m)] = fifo[ReqCh(m)] /\ fifo'[RspCh(m)] = fifo[RspCh(m)]
    BY ChannelFacts DEF Shapes, FifoRead, FifoWrite
  <2> QED BY <2>1 DEF TgStep, Issue, Skip, PutBlocks, Put, Check, GetBlocks, Get, Drain, Drained, shared
<1> QED BY <1>1, <1>2, <1>3, AccountedFrame

\* The update phase: what was written is readable, and nothing moves.
LEMMA DeltaStep ==
  ASSUME DeltaCycle, tg' = tg
  PROVE  /\ Shapes => Shapes'
         /\ \A n \in Initiator : \A away, held : Accounted(n, away, held) => Accounted(n, away, held)'
<1>1. fifo' = [ch \in Channel |-> Updated(fifo[ch])] /\ pool' = pool
  BY DEF DeltaCycle
<1>2. ASSUME NEW n \in Initiator, NEW away, NEW held, Accounted(n, away, held)
      PROVE  Accounted(n, away, held)'
  <2>1. /\ fifo'[ReqCh(n)] = Updated(fifo[ReqCh(n)]) /\ fifo'[RspCh(n)] = Updated(fifo[RspCh(n)])
    BY <1>1, ChannelFacts
  <2>2. /\ fifo'[ReqCh(n)] \in FifoShape(n) /\ fifo'[RspCh(n)] \in FifoShape(n)
        /\ fifo'[ReqCh(n)].items = fifo[ReqCh(n)].items /\ fifo'[RspCh(n)].items = fifo[RspCh(n)].items
    BY <1>2, <2>1, UpdatedShape DEF Accounted
  <2>3. /\ Putting(n)' = Putting(n) /\ Requested(n)' = Requested(n) /\ Responded(n)' = Responded(n)
        /\ TgPlace(n)' <=> TgPlace(n)
    BY <2>2 DEF Putting, Requested, Responded, TgPlace
  <2> QED BY <1>1, <1>2, <2>2, <2>3 DEF Accounted
<1> QED BY <1>1, <1>2 DEF Shapes

\* An initiator's thread takes the next request.
LEMMA RequestTaken ==
  ASSUME NEW n \in Initiator, NEW away, NEW held, Shapes, Accounted(n, away, held),
         NumAvailable(ReqCh(n)) # 0, fifo' = FifoRead(ReqCh(n)), tg' = tg, pool' = pool,
         NEW tx, tx = Head(fifo[ReqCh(n)].items)
  PROVE  /\ tx \in Requested(n) /\ tx \in Payloads(n) /\ tx \in held \ away /\ tx \notin Responded(n)
         /\ Accounted(n, away \union {tx}, held)' /\ Shapes'
<1>1. PICK f \in FifoShape(n) : f = fifo[ReqCh(n)]
  BY DEF Accounted
<1> DEFINE f2 == [f EXCEPT !.items = Tail(@), !.read = @ + 1]
<1>2. /\ tx \in Payloads(n) /\ tx \in Range(f.items) /\ f2 \in FifoShape(n)
      /\ Range(f2.items) = Range(f.items) \ {tx}
  <2>1. f.readable - f.read # 0 /\ f \in FifoFields(n) /\ tx = Head(f.items)
    BY <1>1 DEF NumAvailable, FifoShape
  <2>2. f2.items = Tail(f.items)
    BY <2>1 DEF FifoFields
  <2>3. f2 \in FifoShape(n)
    BY <1>1, <2>1, ReadShape, Zenon
  <2>4. tx \in Payloads(n) /\ tx \in Range(f.items) /\ Range(Tail(f.items)) = Range(f.items) \ {tx}
    BY <1>1, <2>1, ReadShape, Zenon
  <2> QED BY <2>2, <2>3, <2>4
<1>3. fifo' = [fifo EXCEPT ![ReqCh(n)] = f2]
  BY <1>1, Zenon DEF FifoRead
<1> HIDE DEF f2
<1>4. fifo'[ReqCh(n)] = f2 /\ fifo'[RspCh(n)] = fifo[RspCh(n)] /\ Shapes'
  BY <1>3, ChannelFacts DEF Shapes
<1>5. /\ Putting(n)' = Putting(n) /\ Requested(n)' = Requested(n) \ {tx} /\ Responded(n)' = Responded(n)
      /\ tx \in Requested(n)
      /\ TgPlace(n)' <=> TgPlace(n)
  BY <1>1, <1>2, <1>4 DEF Putting, Requested, Responded, TgPlace
<1>6. tx \in held \ away /\ tx \notin Responded(n)
  BY <1>5 DEF Accounted
<1>7. Accounted(n, away \union {tx}, held)'
  BY <1>2, <1>4, <1>5 DEF Accounted
<1> QED BY <1>2, <1>4, <1>5, <1>6, <1>7

\* An initiator's thread hands a payload back to the generator.
LEMMA ResponseGiven ==
  ASSUME NEW n \in Initiator, NEW away, NEW held, Shapes, Accounted(n, away, held), NEW tx \in away,
         fifo' = FifoWrite(RspCh(n), tx), tg' = tg, pool' = pool
  PROVE  Accounted(n, away \ {tx}, held)' /\ Shapes'
<1>1. PICK f \in FifoShape(n) : f = fifo[RspCh(n)]
  BY DEF Accounted
<1> DEFINE f2 == [f EXCEPT !.items = Append(@, tx), !.written = @ + 1]
<1>2. f2 \in FifoShape(n) /\ Range(f2.items) = Range(f.items) \union {tx}
  <2>1. tx \notin Range(f.items) /\ f \in FifoFields(n) /\ tx \in Payloads(n)
    BY <1>1 DEF Responded, FifoShape, Accounted
  <2>2. f2.items = Append(f.items, tx) /\ f.items \in Line(Payloads(n))
    BY <2>1 DEF FifoFields
  <2>3. f2 \in FifoShape(n)
    BY <1>1, <2>1, WriteShape, Zenon
  <2> QED BY <2>1, <2>2, <2>3, AppendToLine
<1>3. fifo' = [fifo EXCEPT ![RspCh(n)] = f2]
  BY <1>1, Zenon DEF FifoWrite
<1> HIDE DEF f2
<1>4. fifo'[RspCh(n)] = f2 /\ fifo'[ReqCh(n)] = fifo[ReqCh(n)] /\ Shapes'
  BY <1>3, ChannelFacts DEF Shapes
<1>5. /\ Putting(n)' = Putting(n) /\ Requested(n)' = Requested(n)
      /\ Responded(n)' = Responded(n) \union {tx} /\ TgPlace(n)' <=> TgPlace(n)
  BY <1>1, <1>2, <1>4 DEF Putting, Requested, Responded, TgPlace
<1>6. Accounted(n, away \ {tx}, held)'
  BY <1>2, <1>4, <1>5 DEF Accounted
<1> QED BY <1>4, <1>6

\* At the start every payload is in its pool.
LEMMA AccountedInit ==
  ASSUME NEW ready, SharedInit(ready), TgInit
  PROVE  Shapes /\ \A n \in Initiator : Accounted(n, {}, {}) /\ Range(pool[n]) = Payloads(n)
<1>1. /\ tg = [n \in Initiator |->
               [pc |-> "issue", pass |-> 0, cmd |-> "write", j |-> 0, addr |-> Base(n), txn |-> NoTxn,
                active |-> 0, check_all |-> TRUE, draining |-> FALSE, sent |-> 0]]
      /\ fifo = [ch \in Channel |-> EmptyFifo]
      /\ pool = [n \in Initiator |-> [j \in 1..MaxTxns |-> <<n, j>>]]
  BY DEF SharedInit, TgInit
<1>2. ASSUME NEW n \in Initiator
      PROVE  tg[n] \in TgShape /\ TgPlace(n) /\ Putting(n) = {} /\ tg[n].active = 0
  <2>1. Base(n) \in Int /\ 0 \in 0..TxnsPerPass /\ 0 \in 0..1
    BY PassAssumption DEF Base, Initiator
  <2>2. tg[n] \in TgShape
    BY <1>1, <2>1, Zenon DEF TgShape
  <2>3. TgPlace(n)
    BY <1>1, <2>1 DEF TgPlace
  <2> QED BY <1>1, <2>2, <2>3 DEF Putting
<1>3. ASSUME NEW n \in Initiator
      PROVE  /\ fifo[ReqCh(n)] \in FifoShape(n) /\ fifo[RspCh(n)] \in FifoShape(n)
             /\ Requested(n) = {} /\ Responded(n) = {}
  <2>1. << >> \in Line(Payloads(n)) /\ Range(<< >>) = {} /\ Len(<< >>) = 0
    BY DEF Line, IsInjective, Range
  <2>2. EmptyFifo \in FifoShape(n) /\ EmptyFifo.items = << >>
    <3>1. PICK f : f = EmptyFifo
      OBVIOUS
    <3>2. f \in FifoFields(n) /\ f.read = 0 /\ f.readable = 0 /\ f.written = 0 /\ f.items = << >>
      BY <2>1, <3>1 DEF EmptyFifo, FifoFields
    <3>3. f.read <= f.readable /\ Len(f.items) = f.readable - f.read + f.written
      BY <2>1, <3>2
    <3> QED BY <3>1, <3>2, <3>3 DEF FifoShape
  <2> QED BY <1>1, <2>1, <2>2, ChannelFacts DEF Requested, Responded
<1>4. ASSUME NEW n \in Initiator
      PROVE  /\ pool[n] \in Line(Payloads(n)) /\ pool[n] \in Seq(Txn) /\ Range(pool[n]) = Payloads(n)
  <2> DEFINE p == [j \in 1..MaxTxns |-> <<n, j>>]
  <2>1. MaxTxns \in Nat /\ \A j \in 1..MaxTxns : <<n, j>> \in Payloads(n) /\ <<n, j>> \in Txn
    BY SizesAssumption DEF Payloads, Txn
  <2>2. p \in Seq(Payloads(n)) /\ p \in Seq(Txn)
    BY <2>1
  <2>3. IsInjective(p)
    BY DEF IsInjective
  <2>4. Range(p) = Payloads(n)
    BY DEF Range, Payloads
  <2> QED BY <1>1, <2>2, <2>3, <2>4 DEF Line
<1>5. Shapes
  BY <1>1, <1>2, <1>4, Zenon DEF Shapes
<1> QED BY <1>2, <1>3, <1>4, <1>5, FS_EmptySet DEF Accounted

\* A step of a generator leaves the kernel's record in shape.
LEMMA GeneratorKernel ==
  ASSUME NEW b \in Nat, KernelInv(b, simc), NEW n \in Initiator, TgStep(n)
  PROVE  KernelInv(b, simc')
<1>1. Tg(n) \in Thread /\ ReqCh(n) \in Channel /\ RspCh(n) \in Channel
  BY ThreadFacts, ChannelFacts, Zenon DEF Tg
<1>2. DataWritten(RspCh(n)) \in Event /\ DataRead(ReqCh(n)) \in Event
  BY <1>1, EventFacts
<1> HIDE DEF Thread, Process, Channel, Event
<1>3. CASE PutBlocks(n)
  BY <1>1, <1>2, <1>3, WaitOK DEF PutBlocks
<1>4. CASE GetBlocks(n)
  BY <1>1, <1>2, <1>4, WaitOK DEF GetBlocks
<1>5. CASE Put(n)
  BY <1>1, <1>5, RequestUpdateOK DEF Put
<1>6. CASE Get(n)
  BY <1>1, <1>6, RequestUpdateOK DEF Get
<1>7. CASE Drained(n)
  <2>1. simc' = simc \/ simc' = Yield(simc)
    BY <1>7 DEF Drained
  <2> QED BY <2>1, YieldOK
<1>8. CASE Issue(n) \/ Skip(n) \/ Check(n) \/ Drain(n)
  BY <1>8 DEF Issue, Skip, Check, Drain, shared
<1> QED BY <1>3, <1>4, <1>5, <1>6, <1>7, <1>8 DEF TgStep

-----------------------------------------------------------------------------
(* Where the generator is, and what it waits for *)

\* Process q is where it was, and waits for what it waited for.
Stays(q) ==
  /\ WaitsFor(simc', q) = WaitsFor(simc, q) /\ (Asleep(simc', q) <=> Asleep(simc, q))
  /\ simc'.pend[Timeout[q]] = simc.pend[Timeout[q]]

\* The fifos' events are notified and triggered in one delta cycle.
DataQuiet ==
  \A ch \in Channel : /\ simc.pend[DataWritten(ch)] = NotPending
                      /\ simc.pend[DataRead(ch)] = NotPending

\* A fifo that was used in this evaluation phase is about to be updated.
UpdatesRequested ==
  \A ch \in Channel : fifo[ch].read > 0 \/ fifo[ch].written > 0 => ch \in Range(simc.update)

\* A generator that waits finds its fifo empty, or full, and one that waits for
\* nothing has done; with a payload to put or to take it has one active.
GenPlace(n) ==
  LET w == WaitsFor(simc, Tg(n)) IN
  /\ w \subseteq {DataWritten(RspCh(n)), DataRead(ReqCh(n))}
  /\ DataWritten(RspCh(n)) \in w => tg[n].pc = "get" /\ NumAvailable(RspCh(n)) = 0
  /\ DataRead(ReqCh(n)) \in w => tg[n].pc = "put" /\ NumFree(ReqCh(n)) = 0
  /\ w = {} /\ Asleep(simc, Tg(n)) => TgDone(n)
  /\ TgDone(n) => tg[n].active = 0
  /\ tg[n].pc \in {"put", "check", "get"} => tg[n].active > 0

\* While the process in execution goes on, or when it stops, the others stay.
LEMMA OthersStay ==
  ASSUME NEW p \in Process, simc.cur = p,
         GoesOn(simc, simc') \/ \E E : Sleeps(simc, simc', p, E),
         \A q \in Process : q # p => simc'.pend[Timeout[q]] = simc.pend[Timeout[q]]
  PROVE  \A q \in Process : q # p => Stays(q)
<1> SUFFICES ASSUME NEW q \in Process, q # p PROVE Stays(q)
  OBVIOUS
<1>0. q # Nobody
  BY NobodyRuns
<1> HIDE DEF Process
<1>1. CASE GoesOn(simc, simc')
  BY <1>1 DEF GoesOn, Stays, Asleep
<1>2. CASE \E E : Sleeps(simc, simc', p, E)
  <2>1. PICK E : Sleeps(simc, simc', p, E)
    BY <1>2
  <2> QED BY <1>0, <2>1 DEF Sleeps, Stays, Asleep
<1> QED BY <1>1, <1>2

\* A step that leaves a generator and what it looks at alone.
LEMMA GenFrame ==
  ASSUME NEW n \in Initiator, GenPlace(n), Stays(Tg(n)), tg'[n] = tg[n],
         NumAvailable(RspCh(n))' = NumAvailable(RspCh(n)), NumFree(ReqCh(n))' = NumFree(ReqCh(n))
  PROVE  GenPlace(n)'
<1>1. TgDone(n)' = TgDone(n) /\ WaitsFor(simc, Tg(n))' = WaitsFor(simc, Tg(n))
  BY DEF TgDone, Stays, WaitsFor, Waiters, Tg
<1>2. Asleep(simc, Tg(n))' <=> Asleep(simc, Tg(n))
  BY DEF Stays, Asleep, Tg
<1> QED BY <1>1, <1>2 DEF GenPlace

\* What a step of a generator does to the kernel and to its fifos.
GenActs(n) ==
  /\ OnePlace(simc') /\ \A q \in Process : q # Tg(n) => Stays(q)
  /\ simc'.pend = simc.pend
  /\ NumAvailable(ReqCh(n))' = NumAvailable(ReqCh(n)) /\ NumFree(RspCh(n))' = NumFree(RspCh(n))
  /\ \A ch \in Channel : ch \notin {ReqCh(n), RspCh(n)} => fifo'[ch] = fifo[ch]

\* Each step of a generator acts so, and leaves the generator in its place.
LEMMA GenSteps ==
  ASSUME NEW b \in Nat, KernelInv(b, simc), OnePlace(simc), UpdatesRequested, Shapes, NEW n \in Initiator,
         NEW away, NEW held, Accounted(n, away, held),
         TgStep(n), GenPlace(n), pool[n] = << >> => tg[n].active > 0
  PROVE  GenActs(n) /\ GenPlace(n)' /\ UpdatesRequested' /\ simc.cur = Tg(n) /\ ~TgDone(n)
<1>1. Tg(n) \in Thread /\ ReqCh(n) \in Channel /\ RspCh(n) \in Channel /\ ReqCh(n) # RspCh(n)
  BY ThreadFacts, ChannelFacts, Zenon DEF Tg
<1>2. Tg(n) \in Process
  BY <1>1 DEF Process
<1>3. DataWritten(RspCh(n)) \in Event /\ DataRead(ReqCh(n)) \in Event /\ DataWritten(RspCh(n)) # DataRead(ReqCh(n))
  <2>1. DataWritten(RspCh(n)) \in Event /\ DataRead(ReqCh(n)) \in Event
    BY <1>1, EventFacts
  <2>2. DataWritten(RspCh(n)) # DataRead(ReqCh(n))
    BY DEF DataWritten, DataRead
  <2> QED BY <2>1, <2>2
<1>4. PICK s \in TgShape : s = tg[n]
  BY DEF Accounted
<1>5. simc.cur = Tg(n) /\ Executing(Tg(n)) /\ ~TgDone(n)
  BY DEF TgStep, Issue, Skip, PutBlocks, Put, Check, GetBlocks, Get, Drain, Drained, Executing, TgDone
<1>6. WaitsFor(simc, Tg(n)) = {} /\ Tg(n) \notin simc.runnable
  BY <1>2, <1>5, Zenon DEF OnePlace
<1>7. DOMAIN fifo = Channel /\ DOMAIN tg = Initiator
  BY DEF Shapes
<1> HIDE DEF Thread, Process, Channel, Event, Timeout
\* Steps that change nothing but locals.
<1>8. CASE simc' = simc /\ fifo' = fifo /\ tg'[n].pc # "done"
           /\ (tg'[n].pc \in {"put", "check", "get"} => tg'[n].active > 0)
  <2>1. GoesOn(simc, simc')
    BY <1>8 DEF GoesOn
  <2>2. \A q \in Process : q # Tg(n) => Stays(q)
    BY <1>2, <1>5, <1>8, <2>1, OthersStay
  <2>3. GenActs(n) /\ UpdatesRequested'
    BY <1>8, <2>2 DEF GenActs, NumAvailable, NumFree, UpdatesRequested
  <2>4. WaitsFor(simc, Tg(n))' = {} /\ ~Asleep(simc, Tg(n))'
    BY <1>5, <1>6, <1>8 DEF WaitsFor, Waiters, Tg, Asleep
  <2> QED BY <1>5, <1>8, <2>3, <2>4, Zenon DEF GenPlace, TgDone
<1>9. CASE Put(n) \/ Get(n)
  <2>1. PICK ch \in {ReqCh(n), RspCh(n)} :
          /\ simc' = RequestUpdate(simc, ch) /\ (\A c \in Channel : c # ch => fifo'[c] = fifo[c])
          /\ NumAvailable(ReqCh(n))' = NumAvailable(ReqCh(n)) /\ NumFree(RspCh(n))' = NumFree(RspCh(n))
    <3>1. CASE Put(n)
      <4>1. PICK f2 : /\ fifo' = [fifo EXCEPT ![ReqCh(n)] = f2]
                      /\ f2.readable = fifo[ReqCh(n)].readable /\ f2.read = fifo[ReqCh(n)].read
        <5>1. PICK f \in FifoFields(n) : f = fifo[ReqCh(n)]
          BY DEF Accounted, FifoShape
        <5> DEFINE g == [f EXCEPT !.items = Append(@, tg[n].txn), !.written = @ + 1]
        <5>2. fifo' = [fifo EXCEPT ![ReqCh(n)] = g]
          BY <3>1, <5>1, Zenon DEF Put, FifoWrite
        <5>3. g.readable = f.readable /\ g.read = f.read
          BY Zenon DEF FifoFields
        <5> HIDE DEF g
        <5> QED BY <5>1, <5>2, <5>3, Zenon
      <4>2. fifo'[ReqCh(n)] = f2 /\ \A c \in Channel : c # ReqCh(n) => fifo'[c] = fifo[c]
        BY <1>1, <1>7, <4>1
      <4>3. fifo'[RspCh(n)] = fifo[RspCh(n)]
        BY <1>1, <4>2
      <4> QED BY <3>1, <4>1, <4>2, <4>3, Zenon DEF Put, NumAvailable, NumFree
    <3>2. CASE Get(n)
      <4>1. PICK f2 : /\ fifo' = [fifo EXCEPT ![RspCh(n)] = f2]
                      /\ f2.readable = fifo[RspCh(n)].readable /\ f2.written = fifo[RspCh(n)].written
        <5>1. PICK f \in FifoFields(n) : f = fifo[RspCh(n)]
          BY DEF Accounted, FifoShape
        <5> DEFINE g == [f EXCEPT !.items = Tail(@), !.read = @ + 1]
        <5>2. fifo' = [fifo EXCEPT ![RspCh(n)] = g]
          BY <3>2, <5>1, Zenon DEF Get, FifoRead
        <5>3. g.readable = f.readable /\ g.written = f.written
          BY Zenon DEF FifoFields
        <5> HIDE DEF g
        <5> QED BY <5>1, <5>2, <5>3, Zenon
      <4>2. fifo'[RspCh(n)] = f2 /\ \A c \in Channel : c # RspCh(n) => fifo'[c] = fifo[c]
        BY <1>1, <1>7, <4>1
      <4>3. fifo'[ReqCh(n)] = fifo[ReqCh(n)]
        BY <1>1, <4>2
      <4> QED BY <3>2, <4>1, <4>2, <4>3, Zenon DEF Get, NumAvailable, NumFree
    <3> QED BY <1>9, <3>1, <3>2
  <2>2. ch \in Channel
    BY <1>1
  <2>3. OnePlace(simc') /\ GoesOn(simc, simc') /\ Range(simc'.update) = Range(simc.update) \union {ch}
    <3>1. PICK k2 : k2 = RequestUpdate(simc, ch)
      OBVIOUS
    <3>2. OnePlace(k2) /\ GoesOn(simc, k2)
      BY <2>2, <3>1, UpdatePlaces
    <3>3. Range(k2.update) = Range(simc.update) \union {ch}
      BY <2>2, <3>1, RequestUpdateOK
    <3> QED BY <2>1, <3>1, <3>2, <3>3
  <2>4. \A q \in Process : q # Tg(n) => Stays(q)
    BY <1>2, <1>5, <2>3, OthersStay DEF GoesOn
  <2>5. GenActs(n) /\ UpdatesRequested'
    BY <2>1, <2>3, <2>4, Zenon DEF GenActs, UpdatesRequested, GoesOn
  <2>6. WaitsFor(simc, Tg(n))' = {} /\ ~Asleep(simc, Tg(n))'
    <3>1. WaitsFor(simc', Tg(n)) = {} /\ simc'.cur = Tg(n)
      BY <1>2, <1>5, <1>6, <2>3 DEF GoesOn
    <3> QED BY <3>1 DEF WaitsFor, Waiters, Tg, Asleep
  <2>7. tg'[n].pc \in {"check", "drain", "issue"} /\ (tg'[n].pc = "check" => tg'[n].active > 0)
    <3>1. CASE Put(n)
      <4>1. tg' = [tg EXCEPT ![n] = [s EXCEPT !.pc = "check", !.txn = NoTxn]] /\ s.pc = "put"
        BY <1>4, <3>1 DEF Put, Set
      <4>2. tg'[n].pc = "check" /\ tg'[n].active = s.active
        BY <1>7, <4>1 DEF TgShape
      <4> QED BY <1>4, <4>1, <4>2 DEF GenPlace
    <3>2. CASE Get(n)
      <4>1. PICK a, j : tg'[n] = [s EXCEPT !.active = a, !.pc = "drain"]
                        \/ tg'[n] = [s EXCEPT !.active = a, !.pc = "issue", !.j = j]
        BY <1>4, <1>7, <3>2 DEF Get, Set
      <4> QED BY <4>1 DEF TgShape
    <3> QED BY <1>9, <3>1, <3>2
  <2> QED BY <1>5, <2>5, <2>6, <2>7, Zenon DEF GenPlace, TgDone
<1>10. CASE PutBlocks(n) \/ GetBlocks(n)
  <2>1. /\ tg' = tg /\ fifo' = fifo
        /\ \/ simc' = Wait(simc, Tg(n), DataRead(ReqCh(n))) /\ s.pc = "put" /\ NumFree(ReqCh(n)) = 0
           \/ simc' = Wait(simc, Tg(n), DataWritten(RspCh(n))) /\ s.pc = "get" /\ NumAvailable(RspCh(n)) = 0
    BY <1>4, <1>10 DEF PutBlocks, GetBlocks
  <2>2. PICK e \in Event : /\ simc' = Wait(simc, Tg(n), e)
                           /\ \/ e = DataRead(ReqCh(n)) /\ s.pc = "put" /\ NumFree(ReqCh(n)) = 0
                              \/ e = DataWritten(RspCh(n)) /\ s.pc = "get" /\ NumAvailable(RspCh(n)) = 0
    BY <1>3, <2>1
  <2>3. OnePlace(simc') /\ Sleeps(simc, simc', Tg(n), {e}) /\ simc'.pend = simc.pend
    BY <1>1, <1>5, <2>2, WaitPlaces
  <2>4. \A q \in Process : q # Tg(n) => Stays(q)
    BY <1>2, <1>5, <2>3, OthersStay
  <2>5. GenActs(n) /\ UpdatesRequested'
    BY <2>1, <2>3, <2>4 DEF GenActs, NumAvailable, NumFree, UpdatesRequested, Sleeps
  <2>6. WaitsFor(simc, Tg(n))' = {e}
    <3>1. WaitsFor(simc', Tg(n)) = {e}
      BY <1>2, <2>3 DEF Sleeps
    <3> QED BY <3>1 DEF WaitsFor, Waiters, Tg
  <2>7. NumAvailable(RspCh(n))' = NumAvailable(RspCh(n)) /\ NumFree(ReqCh(n))' = NumFree(ReqCh(n))
    BY <2>1 DEF NumAvailable, NumFree
  <2>8. (tg[n].pc \in {"put", "check", "get"} => tg[n].active > 0) /\ tg'[n] = tg[n]
    BY <2>1 DEF GenPlace
  <2>9. /\ {e} \subseteq {DataWritten(RspCh(n)), DataRead(ReqCh(n))}
        /\ DataWritten(RspCh(n)) \in {e} => s.pc = "get" /\ NumAvailable(RspCh(n)) = 0
        /\ DataRead(ReqCh(n)) \in {e} => s.pc = "put" /\ NumFree(ReqCh(n)) = 0
    BY <1>3, <2>2
  <2> QED BY <1>4, <1>5, <2>5, <2>6, <2>7, <2>8, <2>9 DEF GenPlace, TgDone
<1>11. CASE Drained(n) /\ simc' # simc
  <2>1. simc' = Yield(simc) /\ fifo' = fifo /\ tg'[n].pc = "done" /\ tg'[n].active = 0
    <3>1. PICK c : c = Base(n)
      OBVIOUS
    <3>2. PICK r : r = [s EXCEPT !.check_all = FALSE, !.draining = FALSE, !.j = 0, !.addr = c,
                                 !.pc = "issue", !.sent = 0]
      OBVIOUS
    <3>3. simc' = Yield(simc) /\ fifo' = fifo /\ s.active = 0 /\ tg' = [tg EXCEPT ![n] = [r EXCEPT !.pc = "done"]]
      BY <1>4, <1>11, <3>1, <3>2 DEF Drained, Set
    <3>4. tg'[n] = [r EXCEPT !.pc = "done"]
      BY <1>7, <3>3
    <3>5. [r EXCEPT !.pc = "done"].pc = "done" /\ [r EXCEPT !.pc = "done"].active = s.active
      BY <3>2 DEF TgShape
    <3> QED BY <3>3, <3>4, <3>5
  <2>2. OnePlace(simc') /\ Sleeps(simc, simc', Tg(n), {}) /\ simc'.pend = simc.pend
    BY <1>2, <1>5, <2>1, YieldPlaces
  <2>3. \A q \in Process : q # Tg(n) => Stays(q)
    BY <1>2, <1>5, <2>2, OthersStay
  <2>4. GenActs(n) /\ UpdatesRequested'
    BY <2>1, <2>2, <2>3 DEF GenActs, NumAvailable, NumFree, UpdatesRequested, Sleeps
  <2>5. WaitsFor(simc, Tg(n))' = {}
    <3>1. WaitsFor(simc', Tg(n)) = {}
      BY <1>2, <2>2 DEF Sleeps
    <3> QED BY <3>1 DEF WaitsFor, Waiters, Tg
  <2> QED BY <1>5, <2>1, <2>4, <2>5 DEF GenPlace, TgDone
<1>12. CASE Issue(n) \/ Skip(n) \/ Check(n) \/ Drain(n) \/ (Drained(n) /\ simc' = simc)
  <2>1. simc' = simc /\ fifo' = fifo
    BY <1>12 DEF Issue, Skip, Check, Drain, Drained, shared
  <2>2. tg'[n].pc # "done" /\ (tg'[n].pc \in {"put", "check", "get"} => tg'[n].active > 0)
    <3>1. CASE Issue(n)
      <4>1. PICK a, c, tx, e : /\ tg' = [tg EXCEPT ![n] = [s EXCEPT !.pc = "put", !.addr = a, !.active = c, !.txn = tx, !.sent = e]]
                               /\ c = s.active + 1
        BY <1>4, <3>1, Zenon DEF Issue, Set
      <4>2. tg'[n].pc = "put" /\ tg'[n].active = s.active + 1
        BY <1>7, <4>1 DEF TgShape
      <4> QED BY <4>2 DEF TgShape
    <3>2. CASE Skip(n)
      <4>1. tg' = [tg EXCEPT ![n] = [s EXCEPT !.pc = "check"]] /\ pool[n] = << >>
        BY <1>4, <3>2 DEF Skip, Set
      <4>2. tg'[n].pc = "check" /\ tg'[n].active = s.active
        BY <1>7, <4>1 DEF TgShape
      <4> QED BY <1>4, <4>1, <4>2
    <3>3. CASE Check(n)
      <4>1. s.pc = "check" /\ \/ tg' = [tg EXCEPT ![n] = [s EXCEPT !.pc = "get"]]
                              \/ tg' = [tg EXCEPT ![n] = [s EXCEPT !.pc = "issue", !.j = @ + 1]]
        BY <1>4, <3>3 DEF Check, Set
      <4>2. tg'[n].pc \in {"get", "issue"} /\ tg'[n].active = s.active
        BY <1>7, <4>1 DEF TgShape
      <4> QED BY <1>4, <4>1, <4>2 DEF GenPlace
    <3>4. CASE Drain(n)
      <4>1. tg' = [tg EXCEPT ![n] = [s EXCEPT !.check_all = TRUE, !.draining = TRUE, !.pc = "get"]] /\ s.active > 0
        BY <1>4, <3>4 DEF Drain, Set
      <4>2. tg'[n].pc = "get" /\ tg'[n].active = s.active
        BY <1>7, <4>1 DEF TgShape
      <4> QED BY <4>1, <4>2
    <3>5. CASE Drained(n) /\ simc' = simc
      <4>1. simc # Yield(simc)
        <5>1. Yield(simc).cur = Nobody /\ Nobody \notin Process
          BY YieldOK, NobodyRuns
        <5> QED BY <1>2, <1>5, <5>1
      <4>2. PICK r : r = [s EXCEPT !.check_all = FALSE, !.draining = FALSE, !.j = 0, !.addr = Base(n),
                         !.pc = "issue", !.sent = 0]
        OBVIOUS
      <4>3. r.pc = "issue" /\ r \in TgShape
        <5>1. Base(n) \in Int /\ 0 \in 0..TxnsPerPass
          BY PassAssumption DEF Base, Initiator
        <5>2. [s EXCEPT !.check_all = FALSE, !.draining = FALSE, !.j = 0, !.addr = Base(n),
                         !.pc = "issue", !.sent = 0] \in TgShape
          BY <5>1, Zenon DEF TgShape
        <5> QED BY <4>2, <5>2 DEF TgShape
      <4>4. tg' = [tg EXCEPT ![n] = [r EXCEPT !.cmd = "read"]]
            \/ tg' = [tg EXCEPT ![n] = [r EXCEPT !.cmd = "write", !.pass = 1]]
        BY <1>4, <3>5, <4>1, <4>2 DEF Drained, Set
      <4>5. tg'[n].pc = "issue"
        BY <1>7, <4>3, <4>4 DEF TgShape
      <4> QED BY <4>5
    <3> QED BY <1>12, <3>1, <3>2, <3>3, <3>4, <3>5
  <2> QED BY <1>8, <2>1, <2>2
<1> QED BY <1>5, <1>9, <1>10, <1>11, <1>12 DEF TgStep

-----------------------------------------------------------------------------
(* The kernel's steps *)

\* With everybody asleep, the events of D wake who waits for one of them, and
\* nobody else.
Wakes(D) ==
  \A q \in Process :
    /\ Asleep(simc, q)
    /\ WaitsFor(simc', q) = IF WaitsFor(simc, q) \intersect D = {} THEN WaitsFor(simc, q) ELSE {}
    /\ Asleep(simc', q) <=> WaitsFor(simc, q) \intersect D = {}

\* The kernel wakes the processes of the events it triggers at a delta cycle or at
\* an advance of time so.
LEMMA WakesWho ==
  ASSUME Blocking, NEW b \in Nat, KernelInv(b, simc), OnePlace(simc), NEW D \in SUBSET Event,
         Woke(simc, D, simc'), Evaluated(simc)
  PROVE  OnePlace(simc') /\ Wakes(D)
<1>0. Nobody \notin Process
  BY NobodyRuns
<1> HIDE DEF Process, Event
<1>1. DOMAIN simc.pend = Event /\ simc.cur = Nobody /\ simc.runnable = {}
  BY DEF KernelInv, KernelOK, KernelShape, Evaluated
<1>2. PICK k, k2 : k = simc /\ k2 = simc'
  OBVIOUS
<1>3. /\ OnePlace(k2)
      /\ \A p \in Process : /\ WaitsFor(k2, p) = WaitsFor(k, p) \ D
                            /\ WaitsFor(k, p) \intersect D # {} => ~Asleep(k2, p) /\ WaitsFor(k2, p) = {}
                            /\ Blocking /\ WaitsFor(k, p) \intersect D = {} => Asleep(k2, p)
  BY <1>1, <1>2, WokePlaces
<1>4. \A p \in Process : Asleep(k, p)
  BY <1>0, <1>1, <1>2 DEF Asleep
<1> QED BY <1>2, <1>3, <1>4 DEF Wakes

\* The generator's wait ends with the event it waits for.
LEMMA GenWoken ==
  ASSUME NEW n \in Initiator, GenPlace(n), NEW D, Wakes(D), tg' = tg,
         DataWritten(RspCh(n)) \notin D => NumAvailable(RspCh(n))' = NumAvailable(RspCh(n)),
         DataRead(ReqCh(n)) \notin D => NumFree(ReqCh(n))' = NumFree(ReqCh(n))
  PROVE  GenPlace(n)'
<1>1. Tg(n) \in Process
  BY ThreadFacts, Zenon DEF Process, Tg
<1> HIDE DEF Process, Event
<1>2. PICK w, a : w = WaitsFor(simc, Tg(n)) /\ a = WaitsFor(simc', Tg(n))
  OBVIOUS
<1>3. /\ Asleep(simc, Tg(n)) /\ a = IF w \intersect D = {} THEN w ELSE {}
      /\ Asleep(simc', Tg(n)) <=> w \intersect D = {}
  BY <1>1, <1>2 DEF Wakes
<1>4. WaitsFor(simc, Tg(n))' = a /\ (Asleep(simc, Tg(n))' <=> Asleep(simc', Tg(n)))
  BY <1>2 DEF WaitsFor, Waiters, Asleep, Tg
<1>5. TgDone(n)' <=> TgDone(n)
  BY DEF TgDone
<1>6. /\ w \subseteq {DataWritten(RspCh(n)), DataRead(ReqCh(n))}
      /\ DataWritten(RspCh(n)) \in w => tg[n].pc = "get" /\ NumAvailable(RspCh(n)) = 0
      /\ DataRead(ReqCh(n)) \in w => tg[n].pc = "put" /\ NumFree(ReqCh(n)) = 0
      /\ w = {} => TgDone(n)
      /\ TgDone(n) => tg[n].active = 0
      /\ tg[n].pc \in {"put", "check", "get"} => tg[n].active > 0
  BY <1>2, <1>3 DEF GenPlace
<1>7. CASE w \intersect D = {}
  <2>1. /\ DataWritten(RspCh(n)) \in w => NumAvailable(RspCh(n))' = NumAvailable(RspCh(n))
        /\ DataRead(ReqCh(n)) \in w => NumFree(ReqCh(n))' = NumFree(ReqCh(n))
    BY <1>7
  <2> QED BY <1>3, <1>4, <1>5, <1>6, <1>7, <2>1 DEF GenPlace
<1>8. CASE w \intersect D # {}
  BY <1>3, <1>4, <1>5, <1>6, <1>8 DEF GenPlace
<1> QED BY <1>7, <1>8

\* Dispatch takes a process out of the queue, which was not asleep.
LEMMA DispatchPlaces ==
  ASSUME NEW b \in Nat, KernelInv(b, simc), OnePlace(simc), UpdatesRequested, DataQuiet, Dispatch
  PROVE  /\ OnePlace(simc') /\ UpdatesRequested' /\ DataQuiet' /\ simc'.pend = simc.pend
         /\ simc.cur = Nobody /\ fifo' = fifo /\ \A q \in Process : Stays(q)
<1> HIDE DEF Process, Event, Channel
<1>1. fifo' = fifo
  BY DEF Dispatch
<1>2. PICK p \in MayRun(simc) : simc' = Run(simc, p)
  BY DEF Dispatch
<1>3. PICK k2 : k2 = simc'
  OBVIOUS
<1>4. /\ OnePlace(k2) /\ k2.pend = simc.pend /\ k2.update = simc.update
      /\ \A q \in Process : /\ WaitsFor(k2, q) = WaitsFor(simc, q)
                            /\ Asleep(k2, q) <=> Asleep(simc, q)
  BY <1>2, <1>3, RunPlaces
<1>5. simc.cur = Nobody
  BY <1>2, RunOK
<1> QED BY <1>1, <1>3, <1>4, <1>5 DEF UpdatesRequested, DataQuiet, Stays

\* After the update a fifo nobody wrote to has no more to read, and one nobody read
\* has no more room.
LEMMA UpdatedCounts ==
  ASSUME NEW n, NEW ch \in Channel, fifo[ch] \in FifoShape(n), fifo' = [c \in Channel |-> Updated(fifo[c])]
  PROVE  /\ ~(fifo[ch].written > 0) => NumAvailable(ch)' = NumAvailable(ch)
         /\ ~(fifo[ch].read > 0) => NumFree(ch)' = NumFree(ch)
         /\ fifo'[ch].read = 0 /\ fifo'[ch].written = 0
<1>1. PICK f \in FifoFields(n) : f = fifo[ch] /\ f.read <= f.readable /\ Len(f.items) = f.readable - f.read + f.written
  BY DEF FifoShape
<1>2. fifo'[ch] = Updated(f)
  BY <1>1
<1>3. Updated(f).readable = Len(f.items) /\ Updated(f).read = 0 /\ Updated(f).written = 0
  BY Zenon DEF Updated, FifoFields
<1>4. f.readable \in Nat /\ f.read \in Nat /\ f.written \in Nat /\ FifoDepth \in Nat
  BY DepthAssumption DEF FifoFields
<1>5. NumAvailable(ch) = f.readable - f.read /\ NumFree(ch) = FifoDepth - f.readable - f.written
  BY <1>1 DEF NumAvailable, NumFree
<1>6. PICK g : g = fifo'[ch]
  OBVIOUS
<1>7. /\ g.readable = f.readable - f.read + f.written /\ g.read = 0 /\ g.written = 0
      /\ NumAvailable(ch)' = g.readable - g.read /\ NumFree(ch)' = FifoDepth - g.readable - g.written
  BY <1>1, <1>2, <1>3, <1>6 DEF NumAvailable, NumFree
<1>8. PICK a \in Nat, r \in Nat, w \in Nat : a = f.readable /\ r = f.read /\ w = f.written
  BY <1>4
<1>9. PICK h : h = FifoDepth
  OBVIOUS
<1>10. NumAvailable(ch) = a - r /\ NumFree(ch) = h - a - w /\ h \in Nat
  BY <1>4, <1>5, <1>8, <1>9
<1>11. NumAvailable(ch)' = (a - r + w) - 0 /\ NumFree(ch)' = h - (a - r + w) - 0
  BY <1>7, <1>8, <1>9
<1>12. ~(w > 0) => NumAvailable(ch)' = NumAvailable(ch)
  BY <1>8, <1>10, <1>11
<1>13. ~(r > 0) => NumFree(ch)' = NumFree(ch)
  BY <1>8, <1>10, <1>11
<1> QED BY <1>1, <1>6, <1>7, <1>8, <1>12, <1>13

\* A delta cycle wakes who waits for a timeout of no time or for a fifo that was
\* used, and what a fifo says to those it does not wake stays true.
DeltaWakes(D) ==
  /\ D \subseteq Event /\ Wakes(D) /\ simc.cur = Nobody
  /\ simc'.pend = [e \in Event |-> IF e \in D THEN NotPending ELSE simc.pend[e]]
  /\ \A p \in Process : Timeout[p] \in D <=> simc.pend[Timeout[p]] = 0
  /\ \A ch \in Channel : /\ DataWritten(ch) \notin D => NumAvailable(ch)' = NumAvailable(ch)
                         /\ DataRead(ch) \notin D => NumFree(ch)' = NumFree(ch)

\* The delta cycle is such a step, and leaves no fifo used and not updated.
LEMMA DeltaPlaces ==
  ASSUME Blocking, NEW b \in Nat, KernelInv(b, simc), OnePlace(simc), UpdatesRequested, DataQuiet,
         \A ch \in Channel : \E n : fifo[ch] \in FifoShape(n), DeltaCycle
  PROVE  OnePlace(simc') /\ UpdatesRequested' /\ DataQuiet' /\ \E D : DeltaWakes(D)
<1> DEFINE W == Woken(Range(simc.update))
           D == DeltaPending(simc) \union W
<1>1. \A ch \in Channel : DataWritten(ch) \in Event /\ DataRead(ch) \in Event
  BY EventFacts
<1>2. /\ simc.update \in Seq(Channel) /\ simc.pend \in [Event -> -1..b] /\ Evaluated(simc)
  BY DEF KernelInv, KernelOK, KernelShape, DeltaCycle
<1>3. Range(simc.update) \subseteq Channel
  BY <1>2, RangeOfSeq
<1>4. \A e \in W : \E ch \in Channel : e \in {DataRead(ch), DataWritten(ch)}
  BY <1>3 DEF Woken, WokenBy
<1>5. \A ch \in Channel : /\ fifo[ch].written > 0 => DataWritten(ch) \in W
                          /\ fifo[ch].read > 0 => DataRead(ch) \in W
  <2> SUFFICES ASSUME NEW ch \in Channel
               PROVE  /\ fifo[ch].written > 0 => DataWritten(ch) \in W
                      /\ fifo[ch].read > 0 => DataRead(ch) \in W
    OBVIOUS
  <2>1. /\ fifo[ch].written > 0 => DataWritten(ch) \in WokenBy(ch)
        /\ fifo[ch].read > 0 => DataRead(ch) \in WokenBy(ch)
    BY DEF WokenBy
  <2>2. fifo[ch].read > 0 \/ fifo[ch].written > 0 => ch \in Range(simc.update)
    BY DEF UpdatesRequested
  <2> QED BY <2>1, <2>2, Zenon DEF Woken
<1>6. D \subseteq Event
  BY <1>1, <1>2, <1>4 DEF DeltaPending
<1>7. \A p \in Process : Timeout[p] \in D <=> simc.pend[Timeout[p]] = 0
  <2> SUFFICES ASSUME NEW p \in Process PROVE Timeout[p] \in D <=> simc.pend[Timeout[p]] = 0
    OBVIOUS
  <2>1. Timeout[p] \in Event /\ \A c \in Channel : Timeout[p] # DataWritten(c) /\ Timeout[p] # DataRead(c)
    BY EventFacts
  <2>2. Timeout[p] \notin W
    BY <1>4, <2>1
  <2> QED BY <1>2, <2>1, <2>2 DEF DeltaPending
<1>8. /\ Triggered(simc, D, simc') /\ simc'.update = << >> /\ fifo' = [c \in Channel |-> Updated(fifo[c])]
  BY DeltaCycleOK DEF DeltaCycle
<1> HIDE DEF W, D, Process, Event, Channel, Timeout
<1>9. OnePlace(simc') /\ Wakes(D)
  BY <1>2, <1>6, <1>8, WakesWho DEF Triggered
<1>10. simc'.pend = [e \in Event |-> IF e \in D THEN NotPending ELSE simc.pend[e]]
  BY <1>8 DEF Triggered
<1>11. \A ch \in Channel : /\ DataWritten(ch) \notin D => NumAvailable(ch)' = NumAvailable(ch)
                           /\ DataRead(ch) \notin D => NumFree(ch)' = NumFree(ch)
                           /\ fifo'[ch].read = 0 /\ fifo'[ch].written = 0
  <2> SUFFICES ASSUME NEW ch \in Channel
               PROVE  /\ DataWritten(ch) \notin D => NumAvailable(ch)' = NumAvailable(ch)
                      /\ DataRead(ch) \notin D => NumFree(ch)' = NumFree(ch)
                      /\ fifo'[ch].read = 0 /\ fifo'[ch].written = 0
    OBVIOUS
  <2>1. PICK n : fifo[ch] \in FifoShape(n)
    OBVIOUS
  <2>2. /\ ~(fifo[ch].written > 0) => NumAvailable(ch)' = NumAvailable(ch)
        /\ ~(fifo[ch].read > 0) => NumFree(ch)' = NumFree(ch)
        /\ fifo'[ch].read = 0 /\ fifo'[ch].written = 0
    BY <1>8, <2>1, UpdatedCounts
  <2>3. W \subseteq D
    BY DEF D
  <2> QED BY <1>5, <2>2, <2>3
<1>12. DataQuiet'
  BY <1>1, <1>10 DEF DataQuiet
<1>13. UpdatesRequested'
  BY <1>11 DEF UpdatesRequested
<1>14. simc.cur = Nobody
  BY <1>2 DEF Evaluated
<1>15. DeltaWakes(D)
  BY <1>6, <1>7, <1>9, <1>10, <1>11, <1>14, Zenon DEF DeltaWakes
<1> QED BY <1>9, <1>12, <1>13, <1>15

\* The advance of time by d wakes who waits for a timeout that is due.
TimeWakes(d) ==
  LET D == DueAt(simc, d) IN
  /\ D \subseteq Event /\ Wakes(D) /\ simc.cur = Nobody /\ d \in Nat /\ d > 0 /\ simc.update = << >>
  /\ \A e \in Event : simc.pend[e] > 0 => d <= simc.pend[e]
  /\ simc'.pend = [e \in Event |-> IF simc.pend[e] > d THEN simc.pend[e] - d ELSE NotPending]
  /\ \A ch \in Channel : DataWritten(ch) \notin D /\ DataRead(ch) \notin D
  /\ \A e \in Event : simc.pend[e] # 0

\* The advance of time is such a step.
LEMMA TimePlaces ==
  ASSUME Blocking, NEW b \in Nat, KernelInv(b, simc), OnePlace(simc), UpdatesRequested, DataQuiet,
         AdvanceTime, NEW d, d = NextTime(simc)
  PROVE  OnePlace(simc') /\ UpdatesRequested' /\ DataQuiet' /\ TimeWakes(d) /\ fifo' = fifo
<1> DEFINE D == DueAt(simc, d)
<1>1. \A ch \in Channel : DataWritten(ch) \in Event /\ DataRead(ch) \in Event
  BY EventFacts
<1> HIDE DEF Process, Event, Channel, Timeout
<1>2. /\ simc.pend \in [Event -> -1..b] /\ Evaluated(simc) /\ simc.update = << >> /\ fifo' = fifo
      /\ DeltaPending(simc) = {}
  BY DEF KernelInv, KernelOK, KernelShape, AdvanceTime
<1>3. /\ d \in 1..b
      /\ \A e \in Event : simc.pend[e] > 0 => d <= simc.pend[e]
      /\ simc'.pend = [e \in Event |-> IF simc.pend[e] > d THEN simc.pend[e] - d ELSE NotPending]
      /\ Woke(simc, D, simc') /\ simc'.update = << >>
  BY AdvanceTimeOK
<1>4. D \subseteq Event /\ \A e \in D : simc.pend[e] = d
  BY <1>2 DEF DueAt
<1>5. \A ch \in Channel : DataWritten(ch) \notin D /\ DataRead(ch) \notin D
  BY <1>3, <1>4 DEF DataQuiet, NotPending
<1>6. OnePlace(simc') /\ Wakes(D)
  BY <1>2, <1>3, <1>4, WakesWho
<1>7. DataQuiet'
  BY <1>1, <1>3 DEF DataQuiet, NotPending
<1>8. UpdatesRequested'
  BY <1>2, <1>3 DEF UpdatesRequested
<1>9. (\A e \in Event : simc.pend[e] # 0) /\ simc.cur = Nobody /\ d \in Nat /\ d > 0
  BY <1>2, <1>3 DEF DeltaPending, Evaluated
<1>10. TimeWakes(d)
  BY <1>2, <1>3, <1>4, <1>5, <1>6, <1>9, Zenon DEF TimeWakes
<1> QED BY <1>2, <1>6, <1>7, <1>8, <1>10
=============================================================================
