----------------------------- MODULE SocketSend -----------------------------
(***************************************************************************)
(* What a request write promises to its caller, whatever the kernel does   *)
(* with short writes: the peer receives a growing prefix of the request    *)
(* bytes, never a byte twice, never a byte out of order; the write reports *)
(* success only once every byte is out, and failure at most after some     *)
(* prefix.  HttpWrite implements this specification.                       *)
(***************************************************************************)
EXTENDS Sequences, SequencesExt

VARIABLES
  msg,     \* the bytes the caller asked to send (fixed for the behaviour)
  sent,    \* the bytes the peer has received so far
  status   \* "sending", "written" or "failed"

vars == <<msg, sent, status>>

Init ==
  /\ sent = <<>>
  /\ status = "sending"

\* Some further bytes of msg reach the peer, in order.
Deliver ==
  /\ status = "sending"
  /\ \E p \in Prefixes(msg) :
       /\ IsStrictPrefix(sent, p)
       /\ sent' = p
  /\ UNCHANGED <<msg, status>>

\* The write reports success: only once all of msg has been delivered.
Complete ==
  /\ status = "sending"
  /\ sent = msg
  /\ status' = "written"
  /\ UNCHANGED <<msg, sent>>

\* The write reports an I/O error after any prefix.
Fail ==
  /\ status = "sending"
  /\ status' = "failed"
  /\ UNCHANGED <<msg, sent>>

Next == Deliver \/ Complete \/ Fail

Spec == Init /\ [][Next]_vars
=============================================================================
