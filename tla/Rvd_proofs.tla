----------------------------- MODULE Rvd_proofs -----------------------------
(***************************************************************************)
(* The transfers of an sc_rvd channel, for every width of the data, every  *)
(* pattern of calls on either side and every sequence of resets.  A side   *)
(* that has yet to run at an edge has its signal as it left it at the edge *)
(* before, and a side that has run has written it anew; a transfer is an   *)
(* edge at which both signals are seen set, and each side counts it when   *)
(* it runs.                                                                *)
(***************************************************************************)
EXTENDS Rvd, TLAPS

Values == {0} \cup {n % Width : n \in Nat}
Wires == [data : Values, ready : BOOLEAN, valid : BOOLEAN]

TypeInv ==
  /\ c \in [cur : Wires, new : Wires]
  /\ w \in {"out", "in"} /\ r \in {"out", "in"}
  /\ sent \in Nat /\ got \in Nat
  /\ due \subseteq {"writer", "reader"} /\ inReset \in BOOLEAN

\* The two signals of the writer say whether it is in write(), and with what.
WriterSide ==
  /\ c.new.valid <=> w = "in"
  /\ w = "in" => c.new.data = sent % Width
  /\ "writer" \in due => c.cur.valid = c.new.valid /\ c.cur.data = c.new.data

\* The signal of the reader says whether it is in read().
ReaderSide ==
  /\ c.new.ready <=> r = "in"
  /\ "reader" \in due => c.cur.ready = c.new.ready

Transfer == c.cur.valid /\ c.cur.ready

\* Both sides have counted the same transfers but for the one of this edge, if only
\* one of them has run; a side that has run in reset has begun again.
Counts ==
  /\ ~inReset =>
       /\ (Transfer => ("writer" \in due <=> "reader" \in due)) => sent = got
       /\ Transfer /\ "writer" \in due /\ "reader" \notin due => got = sent + 1
       /\ Transfer /\ "reader" \in due /\ "writer" \notin due => sent = got + 1
  /\ inReset => /\ "writer" \notin due => sent = 0 
                /\ "reader" \notin due => got = 0

\* The value of this edge's transfer, also after the writer has offered another.
ValueHeld == ~inReset /\ Transfer /\ "reader" \in due => c.cur.data = got % Width

IInv == TypeInv /\ WriterSide /\ ReaderSide /\ Counts /\ ValueHeld

-----------------------------------------------------------------------------
(* The channel's operations keep its type. *)

\* Writing the channel's signals, and updating them, keeps their types.
LEMMA ChannelTyped ==
  ASSUME NEW d \in [cur : Wires, new : Wires], NEW x \in Values
  PROVE  /\ Offer(d, x) \in [cur : Wires, new : Wires]
         /\ Withdraw(d) \in [cur : Wires, new : Wires]
         /\ Request(d) \in [cur : Wires, new : Wires]
         /\ Retire(d) \in [cur : Wires, new : Wires]
         /\ Updated(d) \in [cur : Wires, new : Wires]
BY DEF Wires, Offer, Withdraw, Request, Retire, Updated

\* What an operation writes, and that it leaves alone what the threads read and the
\* signals of the other side.
LEMMA WriterWrites ==
  ASSUME NEW d \in [cur : Wires, new : Wires], NEW x \in Values
  PROVE  /\ Offer(d, x).cur = d.cur /\ Withdraw(d).cur = d.cur
         /\ Offer(d, x).new.valid = TRUE /\ Offer(d, x).new.data = x
         /\ Withdraw(d).new.valid = FALSE
         /\ Offer(d, x).new.ready = d.new.ready /\ Withdraw(d).new.ready = d.new.ready
BY DEF Wires, Offer, Withdraw

\* The reader writes ready and nothing else, and what it writes is not yet current.
LEMMA ReaderWrites ==
  ASSUME NEW d \in [cur : Wires, new : Wires]
  PROVE  /\ Request(d).cur = d.cur /\ Retire(d).cur = d.cur
         /\ Request(d).new.ready = TRUE /\ Retire(d).new.ready = FALSE
         /\ Request(d).new.valid = d.new.valid /\ Retire(d).new.valid = d.new.valid
         /\ Request(d).new.data = d.new.data /\ Retire(d).new.data = d.new.data
BY DEF Wires, Request, Retire

-----------------------------------------------------------------------------
\* The invariant holds when the simulation starts.
LEMMA InitInv == Init => IInv
BY DEF Init, Channel, Signals, IInv, TypeInv, Wires, Values, WriterSide, ReaderSide,
       Counts, Transfer, ValueHeld

\* A clock edge keeps the invariant.
LEMMA EdgeInv == IInv /\ Edge => IInv'
<1> SUFFICES ASSUME IInv, Edge PROVE IInv'
  OBVIOUS
<1>1. c' \in [cur : Wires, new : Wires] /\ c'.cur = c.new /\ c'.new = c.new
  BY DEF IInv, TypeInv, Edge, Updated, Wires
<1>2. TypeInv'
  BY <1>1 DEF IInv, TypeInv, Edge
<1>3. WriterSide' /\ ReaderSide'
  BY <1>1 DEF IInv, WriterSide, ReaderSide, Edge
<1>4. sent = got
  BY DEF IInv, TypeInv, Counts, Edge
<1>5. Counts'
  BY <1>4 DEF Counts, Edge
<1>6. ValueHeld'
  BY <1>1, <1>4 DEF IInv, WriterSide, ValueHeld, Transfer, Edge
<1> QED
  BY <1>2, <1>3, <1>5, <1>6 DEF IInv

\* A segment of the writer ends with its signals telling where it is, and counts the
\* transfer of this edge, if there is one; that is all the invariant needs of it.
LEMMA WriterInv ==
  ASSUME IInv, WriterRuns, c' \in [cur : Wires, new : Wires],
         c'.cur = c.cur, c'.new.ready = c.new.ready,
         w' \in {"out", "in"}, sent' \in Nat,
         c'.new.valid <=> w' = "in",
         w' = "in" => c'.new.data = sent' % Width,
         sent' = IF inReset THEN 0 ELSE IF Transfer THEN sent + 1 ELSE sent
  PROVE  IInv'
<1>1. "writer" \in due /\ due' = due \ {"writer"} /\ r' = r /\ got' = got /\ inReset' = inReset
  BY DEF WriterRuns
<1>2. TypeInv'
  BY <1>1 DEF IInv, TypeInv
<1>3. WriterSide' /\ ReaderSide'
  BY <1>1 DEF IInv, WriterSide, ReaderSide
<1>4. Transfer' <=> Transfer
  BY DEF Transfer
<1>5. Counts'
  BY <1>1, <1>4 DEF IInv, TypeInv, Counts
<1>6. ValueHeld'
  BY <1>1, <1>4 DEF IInv, ValueHeld
<1> QED
  BY <1>2, <1>3, <1>5, <1>6 DEF IInv

\* A step of the reader that writes only ready, by its own state, keeps the invariant.
LEMMA ReaderInv ==
  ASSUME IInv, ReaderRuns, c' \in [cur : Wires, new : Wires],
         c'.cur = c.cur, c'.new.valid = c.new.valid, c'.new.data = c.new.data,
         r' \in {"out", "in"}, got' \in Nat,
         c'.new.ready <=> r' = "in",
         got' = IF inReset THEN 0 ELSE IF Transfer THEN got + 1 ELSE got
  PROVE  IInv'
<1>1. "reader" \in due /\ due' = due \ {"reader"} /\ w' = w /\ sent' = sent /\ inReset' = inReset
  BY DEF ReaderRuns
<1>2. TypeInv'
  BY <1>1 DEF IInv, TypeInv
<1>3. WriterSide' /\ ReaderSide'
  BY <1>1 DEF IInv, WriterSide, ReaderSide
<1>4. Transfer' <=> Transfer
  BY DEF Transfer
<1>5. Counts'
  BY <1>1, <1>4 DEF IInv, TypeInv, Counts
<1>6. ValueHeld'
  BY <1>1 DEF ValueHeld
<1> QED
  BY <1>2, <1>3, <1>5, <1>6 DEF IInv

-----------------------------------------------------------------------------
\* A side that has yet to run finds the other's signal as its own call needs it: it
\* returns from its call just when there is a transfer.
LEMMA WrittenIsTransfer == IInv /\ "writer" \in due => (Written <=> Transfer)
BY DEF IInv, TypeInv, Wires, WriterSide, Written, Taken, Transfer

\* A read returns exactly when a transfer takes place at the edge.
LEMMA ReadIsTransfer == IInv /\ "reader" \in due => (Read <=> Transfer)
BY DEF IInv, TypeInv, Wires, ReaderSide, Read, Available, Transfer

\* The writer's steps keep the invariant.
LEMMA WriterNext ==
  IInv /\ (WriterResets \/ WriteWaits \/ WriterPauses \/ WriterOffers) => IInv'
<1> SUFFICES ASSUME IInv, WriterResets \/ WriteWaits \/ WriterPauses \/ WriterOffers
             PROVE  IInv'
  OBVIOUS
<1>1. WriterRuns /\ "writer" \in due
  BY DEF WriterResets, WriteWaits, WriterPauses, WriterOffers, WriterRuns
<1>2. Written <=> Transfer
  BY <1>1, WrittenIsTransfer
<1>3. c \in [cur : Wires, new : Wires] /\ sent \in Nat /\ 0 \in Values
  BY DEF IInv, TypeInv, Values
<1>4. SentNow \in Nat /\ SentNow % Width \in Values
  BY <1>3 DEF SentNow, Values
<1>5. /\ Withdrawn \in [cur : Wires, new : Wires]
      /\ Withdrawn.cur = c.cur /\ Withdrawn.new.ready = c.new.ready
  BY <1>3, ChannelTyped, WriterWrites DEF Withdrawn
<1>6. ~inReset => SentNow = IF inReset THEN 0 ELSE IF Transfer THEN sent + 1 ELSE sent
  BY <1>2 DEF SentNow
<1>7. CASE WriterResets
  <2>1. /\ c' \in [cur : Wires, new : Wires] /\ c'.cur = c.cur
        /\ c'.new.ready = c.new.ready /\ c'.new.valid = FALSE
    BY <1>3, <1>7, ChannelTyped, WriterWrites DEF WriterResets
  <2>2. w' = "out" /\ sent' = 0 /\ inReset
    BY <1>7 DEF WriterResets
  <2> QED
    BY <1>1, <2>1, <2>2, WriterInv
<1>8. CASE WriteWaits
  <2>1. c' = c /\ w' = w /\ sent' = sent /\ ~inReset /\ ~Transfer
    BY <1>2, <1>8 DEF WriteWaits, Written
  <2>2. (c.new.valid <=> w = "in") /\ (w = "in" => c.new.data = sent % Width)
    BY DEF IInv, WriterSide
  <2> QED
    BY <1>1, <1>3, <2>1, <2>2, WriterInv DEF IInv, TypeInv
<1>9. CASE WriterPauses
  <2>1. c' = Withdrawn /\ w' = "out" /\ sent' = SentNow /\ ~inReset
    BY <1>9 DEF WriterPauses
  <2>2. c'.new.valid = FALSE
    <3>1. CASE Written
      BY <1>3, <2>1, <3>1, WriterWrites DEF Withdrawn
    <3>2. CASE ~Written
      <4>1. w = "out"
        BY <1>9, <3>2 DEF WriterPauses, Written, IInv, TypeInv
      <4> QED BY <1>3, <2>1, <3>2, <4>1 DEF Withdrawn, IInv, WriterSide, Wires
    <3> QED BY <3>1, <3>2
  <2> QED
    BY <1>1, <1>4, <1>5, <1>6, <2>1, <2>2, WriterInv
<1>10. CASE WriterOffers
  <2>1. c' = Offer(Withdrawn, SentNow % Width) /\ w' = "in" /\ sent' = SentNow /\ ~inReset
    BY <1>10 DEF WriterOffers
  <2>2. /\ c' \in [cur : Wires, new : Wires] /\ c'.cur = c.cur
        /\ c'.new.ready = c.new.ready /\ c'.new.valid = TRUE
        /\ c'.new.data = SentNow % Width
    BY <1>4, <1>5, <2>1, ChannelTyped, WriterWrites
  <2> QED
    BY <1>1, <1>4, <1>6, <2>1, <2>2, WriterInv
<1> QED
  BY <1>7, <1>8, <1>9, <1>10

\* The reader's steps keep the invariant.
LEMMA ReaderNext ==
  IInv /\ (ReaderResets \/ ReadWaits \/ ReaderPauses \/ ReaderRequests) => IInv'
<1> SUFFICES ASSUME IInv, ReaderResets \/ ReadWaits \/ ReaderPauses \/ ReaderRequests
             PROVE  IInv'
  OBVIOUS
<1>1. ReaderRuns /\ "reader" \in due
  BY DEF ReaderResets, ReadWaits, ReaderPauses, ReaderRequests, ReaderRuns
<1>2. Read <=> Transfer
  BY <1>1, ReadIsTransfer
<1>3. c \in [cur : Wires, new : Wires] /\ got \in Nat /\ 0 \in Values
  BY DEF IInv, TypeInv, Values
<1>4. GotNow \in Nat
  BY <1>3 DEF GotNow
<1>5. /\ Retired \in [cur : Wires, new : Wires]
      /\ Retired.cur = c.cur /\ Retired.new.valid = c.new.valid
      /\ Retired.new.data = c.new.data
  BY <1>3, ChannelTyped, ReaderWrites DEF Retired
<1>6. ~inReset => GotNow = IF inReset THEN 0 ELSE IF Transfer THEN got + 1 ELSE got
  BY <1>2 DEF GotNow
<1>7. CASE ReaderResets
  <2>1. /\ c' \in [cur : Wires, new : Wires] /\ c'.cur = c.cur
        /\ c'.new.valid = c.new.valid /\ c'.new.data = c.new.data /\ c'.new.ready = FALSE
    BY <1>3, <1>7, ChannelTyped, ReaderWrites DEF ReaderResets
  <2>2. r' = "out" /\ got' = 0 /\ inReset
    BY <1>7 DEF ReaderResets
  <2> QED
    BY <1>1, <2>1, <2>2, ReaderInv
<1>8. CASE ReadWaits
  <2>1. c' = c /\ r' = r /\ got' = got /\ ~inReset /\ ~Transfer
    BY <1>2, <1>8 DEF ReadWaits, Read
  <2>2. c.new.ready <=> r = "in"
    BY DEF IInv, ReaderSide
  <2> QED
    BY <1>1, <1>3, <2>1, <2>2, ReaderInv DEF IInv, TypeInv
<1>9. CASE ReaderPauses
  <2>1. c' = Retired /\ r' = "out" /\ got' = GotNow /\ ~inReset
    BY <1>9 DEF ReaderPauses
  <2>2. c'.new.ready = FALSE
    <3>1. CASE Read
      BY <1>3, <2>1, <3>1, ReaderWrites DEF Retired
    <3>2. CASE ~Read
      <4>1. r = "out"
        BY <1>9, <3>2 DEF ReaderPauses, Read, IInv, TypeInv
      <4> QED BY <1>3, <2>1, <3>2, <4>1 DEF Retired, IInv, ReaderSide, Wires
    <3> QED BY <3>1, <3>2
  <2> QED
    BY <1>1, <1>4, <1>5, <1>6, <2>1, <2>2, ReaderInv
<1>10. CASE ReaderRequests
  <2>1. c' = Request(Retired) /\ r' = "in" /\ got' = GotNow /\ ~inReset
    BY <1>10 DEF ReaderRequests
  <2>2. /\ c' \in [cur : Wires, new : Wires] /\ c'.cur = c.cur
        /\ c'.new.valid = c.new.valid /\ c'.new.data = c.new.data /\ c'.new.ready = TRUE
    BY <1>3, <1>5, <2>1, ChannelTyped, ReaderWrites
  <2> QED
    BY <1>1, <1>4, <1>6, <2>1, <2>2, ReaderInv
<1> QED
  BY <1>7, <1>8, <1>9, <1>10

\* The invariant is inductive.
LEMMA NextInv == IInv /\ [Next]_vars => IInv'
<1> SUFFICES ASSUME IInv, [Next]_vars PROVE IInv'
  OBVIOUS
<1>1. CASE Next
  BY <1>1, EdgeInv, WriterNext, ReaderNext DEF Next
<1>2. CASE UNCHANGED vars
  BY <1>2 DEF vars, IInv, TypeInv, WriterSide, ReaderSide, Counts, Transfer, ValueHeld
<1> QED
  BY <1>1, <1>2

\* The invariant holds throughout.
LEMMA InvHolds == Spec => []IInv
BY InitInv, NextInv, PTL DEF Spec

-----------------------------------------------------------------------------
\* The invariant implies that the reader takes the next value.
LEMMA InvTakesNext == IInv => TakesNext
BY ReadIsTransfer DEF IInv, ValueHeld, TakesNext

\* The invariant implies that both ends see a transfer at the same edge.
LEMMA InvSameEdge == IInv => SameEdge
BY DEF IInv, TypeInv, Counts, SameEdge

\* The reader takes each value once and in order, whatever pauses either side makes
\* and whenever a reset comes.
THEOREM NothingLostOrTwice == Spec => []TakesNext
BY InvHolds, InvTakesNext, PTL

\* Between two clock edges both sides have finished the same number of transfers.
THEOREM SidesAgree == Spec => []SameEdge
BY InvHolds, InvSameEdge, PTL
=============================================================================
