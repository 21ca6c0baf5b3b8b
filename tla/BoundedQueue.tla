----------------------------- MODULE BoundedQueue -----------------------------
(* What a fifo channel promises: a queue of at most Size items. *)
EXTENDS Sequences, Integers

CONSTANTS Item, Size
VARIABLE q

Init == q = << >>

Put(x) == Len(q) < Size /\ q' = Append(q, x)
Get    == q # << >> /\ q' = Tail(q)

Next == (\E x \in Item : Put(x)) \/ Get

Spec == Init /\ [][Next]_q
=============================================================================
