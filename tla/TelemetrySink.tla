---------------------------- MODULE TelemetrySink ----------------------------
(***************************************************************************)
(* What a measurement writer promises its tracker, abstractly: the lines  *)
(* recorded are numbered 1, 2, ...; each is handed to the connection at   *)
(* most once and in record order, and a line is given up only once the    *)
(* connection has failed.  Closing gives up what is still pending only    *)
(* when the connection has failed (at the latest in the closing step).    *)
(*                                                                         *)
(* InfluxWriter implements this specification (ImplementsTelemetrySink).   *)
(***************************************************************************)
EXTENDS Integers, Sequences, SequencesExt

VARIABLES
  next,      \* id of the next line to be recorded
  sent,      \* ids handed to the connection, in the order they were written
  dropped,   \* ids given up without being written
  failed,    \* the connection has failed
  closed     \* the writer is closed

vars == <<next, sent, dropped, failed, closed>>

\* Recorded lines neither written nor given up, oldest first.
Pending == SelectSeq([i \in 1..(next - 1) |-> i],
                     LAMBDA i : i \notin Range(sent) /\ i \notin dropped)

Init ==
  /\ next = 1
  /\ sent = <<>>
  /\ dropped = {}
  /\ failed = FALSE
  /\ closed = FALSE

\* A line is recorded.
Record ==
  /\ ~closed
  /\ next' = next + 1
  /\ UNCHANGED <<sent, dropped, failed, closed>>

\* The oldest k pending lines are written to a working connection.
Send ==
  /\ ~failed
  /\ \E k \in 1..Len(Pending) : sent' = sent \o SubSeq(Pending, 1, k)
  /\ UNCHANGED <<next, dropped, failed, closed>>

\* The connection fails; the pending lines may be given up with it.
Fail ==
  /\ failed' = TRUE
  /\ dropped' \in {dropped, dropped \cup Range(Pending)}
  /\ UNCHANGED <<next, sent, closed>>

\* The writer closes; pending lines are given up only with a failed
\* connection, which may fail in this very step.
Close ==
  /\ ~closed
  /\ closed' = TRUE
  /\ failed' \in {failed, TRUE}
  /\ Pending # <<>> => failed'
  /\ dropped' = dropped \cup Range(Pending)
  /\ UNCHANGED <<next, sent>>

Next == Record \/ Send \/ Fail \/ Close

Spec == Init /\ [][Next]_vars
=============================================================================
