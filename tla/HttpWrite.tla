------------------------------ MODULE HttpWrite ------------------------------
(***************************************************************************)
(* The request half of influxdb_cpp::detail::inner::http_request          *)
(* (include/rclcpp/influxdb/influxdb.hpp): the header is formatted into a  *)
(* buffer that doubles until snprintf fits, header and body are handed to  *)
(* writev as two iovecs, and a short write advances the iovec cursor       *)
(* across buffer boundaries before writev is called again.  With          *)
(* await_post_response_ false the call returns 0 right after the loop.    *)
(*                                                                         *)
(* Bytes are abstract: <<"hdr", i>> is the i-th header byte, <<"body", i>> *)
(* the i-th body byte, "NUL" the terminator snprintf writes.  iv[k].base   *)
(* is the iovec's base pointer as an offset into its own buffer.          *)
(***************************************************************************)
EXTENDS Integers, Sequences, SequencesExt

CONSTANTS
  HeaderLens,     \* lengths snprintf can report for the formatted header
  BodyLens,       \* lengths of the line-protocol body
  InitHeaderBuf   \* initial header buffer size (0x100 in the code)

ASSUME InitHeaderBuf \in Nat \ {0}

VARIABLES
  pc,            \* control point of http_request
  await,         \* server_info::await_post_response_
  hdrLen,        \* snprintf's result: the header's formatted length
  bodyLen,       \* body.length()
  len,           \* size of the `header` std::string
  iv,            \* the two iovecs, iv[0] header and iv[1] body
  cur,           \* `buffers` / `processed_buffers`: first unfinished iovec
  totalWritten,  \* total_written
  wire,          \* bytes the peer has received, in order
  retCode        \* ret_code

vars == <<pc, await, hdrLen, bodyLen, len, iv, cur, totalWritten, wire, retCode>>

Iovecs == 0..1

\* The bytes the request is meant to carry: the header, then the body.
Request == [i \in 1..hdrLen |-> <<"hdr", i>>] \o [i \in 1..bodyLen |-> <<"body", i>>]

\* Contents of the header buffer after formatting: snprintf writes at most
\* len - 1 characters and a NUL, so the byte at position len is the NUL.
HeaderBytes == [i \in 1..hdrLen |-> IF i < len THEN <<"hdr", i>> ELSE "NUL"]

BodyBytes == [i \in 1..bodyLen |-> <<"body", i>>]

Content(k) == IF k = 0 THEN HeaderBytes ELSE BodyBytes

\* The bytes the iovec array still describes, from iovec c on.
Pending(v, c) ==
  FlattenSeq([j \in 1..(2 - c) |->
      LET k == c + j - 1
      IN  SubSeq(Content(k), v[k].base + 1, v[k].base + v[k].len)])

PendingLen(v, c) == Len(Pending(v, c))

\* The for(;;) around snprintf: double len while the output does not fit.
RECURSIVE GrowHeader(_, _)
GrowHeader(hl, n) == IF hl >= n THEN GrowHeader(hl, 2 * n) ELSE n

\* Mutation: the total counts only the header iovec.
TotalBytesHeaderOnly == hdrLen

\* std::accumulate over both iovecs, before the loop starts.
TotalBytes == hdrLen + bodyLen

\* Mutation: the finished iovecs are not skipped.
AdvanceIovNoSkip(v, c, off) ==
  [iv  |-> [v EXCEPT ![c] = [base |-> @.base + off, len |-> @.len - off]],
   cur |-> c]

\* Mutation: the length is shortened but the base pointer is not moved.
RECURSIVE AdvanceIovKeepBase(_, _, _)
AdvanceIovKeepBase(v, c, off) ==
  IF off >= v[c].len
    THEN AdvanceIovKeepBase(v, c + 1, off - v[c].len)
    ELSE [iv  |-> [v EXCEPT ![c] = [base |-> @.base, len |-> @.len - off]],
          cur |-> c]

\* Step 3 of the loop: skip every iovec the write finished, then move the
\* base of the partly written one forward and shorten it.
RECURSIVE AdvanceIov(_, _, _)
AdvanceIov(v, c, off) ==
  IF off >= v[c].len
    THEN AdvanceIov(v, c + 1, off - v[c].len)
    ELSE [iv  |-> [v EXCEPT ![c] = [base |-> @.base + off, len |-> @.len - off]],
          cur |-> c]

Init ==
  /\ hdrLen \in HeaderLens
  /\ bodyLen \in BodyLens
  /\ await \in BOOLEAN
  /\ pc = "format"
  /\ len = InitHeaderBuf
  /\ iv = [k \in Iovecs |-> [base |-> 0, len |-> 0]]
  /\ cur = 0
  /\ totalWritten = 0
  /\ wire = <<>>
  /\ retCode = 0

\* header.resize(0x100); the snprintf loop; iv[0] and iv[1] are filled in.
FormatHeader ==
  /\ pc = "format"
  /\ len' = GrowHeader(hdrLen, len)
  /\ iv' = [k \in Iovecs |-> [base |-> 0, len |-> IF k = 0 THEN hdrLen ELSE bodyLen]]
  /\ pc' = "write"
  /\ UNCHANGED <<await, hdrLen, bodyLen, cur, totalWritten, wire, retCode>>

\* writev transmits k >= 1 bytes of what the iovecs describe (a blocking
\* stream socket never returns 0 for a non-empty request).
WritevOk(k) ==
  /\ wire' = wire \o SubSeq(Pending(iv, cur), 1, k)
  /\ totalWritten' = totalWritten + k
  /\ IF totalWritten + k >= TotalBytes
       THEN /\ pc' = "written"
            /\ UNCHANGED <<iv, cur>>
       ELSE LET a == AdvanceIov(iv, cur, k)
            IN  /\ iv' = a.iv
                /\ cur' = a.cur
                /\ UNCHANGED pc
  /\ UNCHANGED retCode

\* writev returns -1: ret_code = -6 and goto END, no retry.
WritevError ==
  /\ retCode' = -6
  /\ pc' = "done"
  /\ UNCHANGED <<iv, cur, totalWritten, wire>>

Writev ==
  /\ pc = "write"
  /\ \/ \E k \in 1..PendingLen(iv, cur) : WritevOk(k)
     \/ WritevError
  /\ UNCHANGED <<await, hdrLen, bodyLen, len>>

\* After the loop: fire-and-forget returns 0 at once; otherwise the call
\* goes on to read the response (modelled in HttpResponse).
AfterWrite ==
  /\ pc = "written"
  /\ \/ /\ ~await
        /\ pc' = "done"
        /\ retCode' = 0
     \/ /\ await
        /\ pc' = "await"
        /\ UNCHANGED retCode
  /\ UNCHANGED <<await, hdrLen, bodyLen, len, iv, cur, totalWritten, wire>>

\* The call has returned (or handed over to the response reader).
Returned ==
  /\ pc \in {"done", "await"}
  /\ UNCHANGED vars

Next == FormatHeader \/ Writev \/ AfterWrite \/ Returned

Spec == Init /\ [][Next]_vars

-----------------------------------------------------------------------------
(* Properties *)

TypeOK ==
  /\ pc \in {"format", "write", "written", "await", "done"}
  /\ await \in BOOLEAN
  /\ hdrLen \in HeaderLens /\ bodyLen \in BodyLens
  /\ len \in Nat \ {0}
  /\ iv \in [Iovecs -> [base : Nat, len : Nat]]
  /\ cur \in Iovecs
  /\ totalWritten \in Nat
  /\ retCode \in {0, -6}

\* The writev bookkeeping (http_request's short-write loop): at every
\* point of the loop, the bytes already on the wire followed by the bytes
\* the adjusted iovecs still describe are exactly the request, and
\* total_written counts the bytes on the wire.
WriteBookkeeping ==
  pc = "write" =>
    /\ wire \o Pending(iv, cur) = Request
    /\ totalWritten = Len(wire)

\* http_request implements the abstract stream send: the peer sees a
\* growing prefix of header+body, and 0 / "written" is reported only when
\* every byte has gone out.
Abstract == INSTANCE SocketSend WITH
  msg    <- Request,
  sent   <- wire,
  status <- CASE pc \in {"format", "write", "written"} -> "sending"
              [] retCode = -6                -> "failed"
              [] OTHER                       -> "written"

ImplementsSocketSend == Abstract!Spec
=============================================================================
