--------------------------------- MODULE Rvd ---------------------------------
(***************************************************************************)
(* An sc_rvd channel between any writer and any reader: clocked threads    *)
(* that call write() and read() at any clock edge, once or several times   *)
(* without a wait between, and that a reset of any length may restart at   *)
(* any edge.  It is what the channel promises to whoever uses it so.       *)
(*                                                                         *)
(* A step of a thread is its segment from one wait to the next; what it    *)
(* reads is `cur', so that the order of the threads at an edge is free.    *)
(* Calls are counted from the last reset, and call number n of write()     *)
(* offers the value n, cut to the width of the data.                       *)
(***************************************************************************)
EXTENDS RvdPort, Naturals

CONSTANT Width     \* the values of a data item

VARIABLES
  c,            \* the channel
  w, r,         \* "out", or "in" the loop of write() or read()
  sent, got,    \* calls of write() and read() that have returned
  due,          \* the threads still to run at this clock edge
  inReset       \* the reset signal as the threads see it at this edge

vars == <<c, w, r, sent, got, due, inReset>>

Init ==
  /\ c = Channel /\ w = "out" /\ r = "out" /\ sent = 0 /\ got = 0
  /\ due = {} /\ inReset = TRUE

\* The update, and the next clock edge.
Edge ==
  /\ due = {}
  /\ c' = Updated(c)
  /\ due' = {"writer", "reader"}
  /\ inReset' \in BOOLEAN
  /\ UNCHANGED <<w, r, sent, got>>

-----------------------------------------------------------------------------
(* sc_rvd_out *)

WriterRuns == "writer" \in due /\ due' = due \ {"writer"} /\ UNCHANGED <<r, got, inReset>>

\* write() returns, if it was called.
Written == w = "in" /\ Taken(c)
Withdrawn == IF Written THEN Withdraw(c) ELSE c
SentNow == IF Written THEN sent + 1 ELSE sent

\* The reset restarts the thread, which calls reset().
WriterResets ==
  /\ WriterRuns /\ inReset
  /\ c' = Withdraw(c) /\ w' = "out" /\ sent' = 0

\* The loop of write() waits again.
WriteWaits ==
  /\ WriterRuns /\ ~inReset
  /\ w = "in" /\ ~Taken(c)
  /\ UNCHANGED <<c, w, sent>>

\* The thread waits for another edge outside write().
WriterPauses ==
  /\ WriterRuns /\ ~inReset
  /\ w = "out" \/ Taken(c)
  /\ c' = Withdrawn /\ sent' = SentNow /\ w' = "out"

\* The thread calls write(), at once if the call before has just returned.
WriterOffers ==
  /\ WriterRuns /\ ~inReset
  /\ w = "out" \/ Taken(c)
  /\ c' = Offer(Withdrawn, SentNow % Width) /\ sent' = SentNow /\ w' = "in"

-----------------------------------------------------------------------------
(* sc_rvd_in *)

ReaderRuns == "reader" \in due /\ due' = due \ {"reader"} /\ UNCHANGED <<w, sent, inReset>>

\* read() returns m_data, if it was called.
Read == r = "in" /\ Available(c)
Retired == IF Read THEN Retire(c) ELSE c
GotNow == IF Read THEN got + 1 ELSE got

ReaderResets ==
  /\ ReaderRuns /\ inReset
  /\ c' = Retire(c) /\ r' = "out" /\ got' = 0

ReadWaits ==
  /\ ReaderRuns /\ ~inReset
  /\ r = "in" /\ ~Available(c)
  /\ UNCHANGED <<c, r, got>>

ReaderPauses ==
  /\ ReaderRuns /\ ~inReset
  /\ r = "out" \/ Available(c)
  /\ c' = Retired /\ got' = GotNow /\ r' = "out"

ReaderRequests ==
  /\ ReaderRuns /\ ~inReset
  /\ r = "out" \/ Available(c)
  /\ c' = Request(Retired) /\ got' = GotNow /\ r' = "in"

-----------------------------------------------------------------------------
Next ==
  \/ Edge
  \/ WriterResets \/ WriteWaits \/ WriterPauses \/ WriterOffers
  \/ ReaderResets \/ ReadWaits \/ ReaderPauses \/ ReaderRequests

Spec == Init /\ [][Next]_vars

-----------------------------------------------------------------------------
\* The reader takes a value only if it is the next one: none is taken twice and
\* none is missed ("transfer data via a "ready-valid" protocol", sc_rvd.h).
TakesNext ==
  "reader" \in due /\ ~inReset /\ Read => c.cur.data = got % Width

\* write() and read() return at the same clock edge: between two edges both sides
\* have counted the same transfers, whatever reset came between.
SameEdge == due = {} => sent = got
=============================================================================
