---------------------------- MODULE HttpResponse ----------------------------
(***************************************************************************)
(* The response half of influxdb_cpp::detail::inner::http_request         *)
(* (influxdb.hpp, after `iv[0].iov_len = len`): a character-at-a-time      *)
(* parser built from the _NO_MORE / _GET_NEXT_CHAR / _UNTIL / _GET_NUMBER  *)
(* / _GET_CHUNKED_LEN / _ / __ macros, reading the socket through recv     *)
(* into the `header` buffer.                                               *)
(*                                                                         *)
(* Characters are abstract: "x" stands for any character the parser does  *)
(* not look at, "C"+CLRest for "Content-Length: ", "T"+TERest for          *)
(* "Transfer-Encoding: chunked" (the literal letters are abstracted, the   *)
(* letter-by-letter match and its early break are kept), "d" for a body    *)
(* byte, NUL for the 0 the macros return when recv fails.                  *)
(*                                                                         *)
(* The peer has sent the first `avail` bytes of `stream` and then leaves   *)
(* the connection open, closes it (recv returns 0) or resets it (recv      *)
(* returns -1).  recv returns between 1 and BufSize bytes while data is    *)
(* available and blocks, with no timeout, when none is and the connection *)
(* is open.                                                                *)
(***************************************************************************)
EXTENDS Integers, Sequences, SequencesExt

CONSTANTS
  Responses,   \* set of [bytes, status, body]: a response and its meaning
  Cuts,        \* how many bytes of a response the peer sends (at most all)
  Endings,     \* what the peer does after that: "open", "closed", "reset"
  BufSize,     \* header.length(): bytes one recv can return
  InitBuf      \* the header buffer's contents left over from the request

NUL == "NUL"
CLRest == <<"L", ":", " ">>
TERest == <<"E", ":", " ", "k">>
DigitVal == ("0" :> 0) @@ ("1" :> 1) @@ ("2" :> 2) @@ ("4" :> 4)

VARIABLES
  stream, avail, ending,  \* the peer's side (fixed per behaviour)
  rcvd,          \* bytes of stream recv has returned so far
  buf,           \* the header buffer (BufSize characters)
  len,           \* read position in buf
  iovLen,        \* iv[0].iov_len: bytes of buf filled by the last recv (-1: error)
  pc,            \* which macro of the parser is running
  lit,           \* position inside a header literal
  retCode,       \* ret_code: the status, then an error code
  contentLength, \* content_length
  chunked,       \* chunked
  resp           \* *resp: the body read so far

vars == <<stream, avail, ending, rcvd, buf, len, iovLen, pc, lit, retCode,
          contentLength, chunked, resp>>

-----------------------------------------------------------------------------
(* Reading a character: _GET_NEXT_CHAR and _NO_MORE *)

\* Mutation: the buffer is taken to hold only what the last recv returned.
FillShort(k) == SubSeq(stream.bytes, rcvd + 1, rcvd + k)

\* A recv that returns k > 0 bytes overwrites the front of the buffer.
Fill(k) == SubSeq(stream.bytes, rcvd + 1, rcvd + k) \o SubSeq(buf, k + 1, BufSize)

\* The possible outcomes of recv: [n: its result, buf, rcvd].  Empty when
\* recv blocks.
RecvResults ==
  IF rcvd < avail
    THEN {[n |-> k, buf |-> Fill(k), rcvd |-> rcvd + k] :
            k \in 1..Min({BufSize, avail - rcvd})}
    ELSE CASE ending = "closed" -> {[n |-> 0, buf |-> buf, rcvd |-> rcvd]}
           [] ending = "reset"  -> {[n |-> -1, buf |-> buf, rcvd |-> rcvd]}
           [] OTHER             -> {}

\* _GET_NEXT_CHAR: the outcomes [ch, buf, len, iovLen, rcvd].  When the
\* buffer is used up, recv is called with `len = 0` as its flags argument;
\* a result of -1 makes the character NUL, any other result (0 included)
\* makes it header[0].
NextChar ==
  IF len < iovLen
    THEN {[ch |-> buf[len + 1], buf |-> buf, len |-> len + 1, iovLen |-> iovLen,
           rcvd |-> rcvd]}
    ELSE {[ch |-> IF r.n = -1 THEN NUL ELSE r.buf[1],
           buf |-> r.buf, len |-> IF r.n = -1 THEN 0 ELSE 1, iovLen |-> r.n,
           rcvd |-> r.rcvd] : r \in RecvResults}

Take(o) ==
  /\ buf' = o.buf
  /\ len' = o.len
  /\ iovLen' = o.iovLen
  /\ rcvd' = o.rcvd

\* goto END with a code.
Fail(code) ==
  /\ retCode' = code
  /\ pc' = "END"

Goto(p) == pc' = p

Env == <<stream, avail, ending>>

-----------------------------------------------------------------------------
(* The parser *)

\* Mutation: a decimal number read with the chunk-size radix.
DecStepHex(n, c) == n * 16 + DigitVal[c]

\* _GET_NUMBER's step.
DecStep(n, c) == n * 10 + DigitVal[c]

\* _GET_CHUNKED_LEN's step (only decimal digits occur in the model).
HexStep(n, c) == n * 16 + DigitVal[c]

IsDigit(c) == c \in DOMAIN DigitVal

\* _UNTIL(' '): skip the protocol version.
StatusSpace ==
  /\ pc = "status_sp"
  /\ \E o \in NextChar :
       /\ Take(o)
       /\ CASE o.ch = NUL -> Fail(-7)
            [] o.ch = " " -> Goto("status_num") /\ UNCHANGED retCode
            [] OTHER      -> UNCHANGED <<pc, retCode>>
  /\ UNCHANGED <<Env, lit, contentLength, chunked, resp>>

\* _GET_NUMBER(ret_code): the status code; the first non-digit is consumed.
StatusNumber ==
  /\ pc = "status_num"
  /\ \E o \in NextChar :
       /\ Take(o)
       /\ CASE o.ch = NUL     -> Fail(-7)
            [] IsDigit(o.ch)  -> retCode' = DecStep(retCode, o.ch) /\ UNCHANGED pc
            [] OTHER          -> Goto("line_end") /\ UNCHANGED retCode
  /\ UNCHANGED <<Env, lit, contentLength, chunked, resp>>

\* _UNTIL('\n') at the top of the header loop.
LineEnd ==
  /\ pc = "line_end"
  /\ \E o \in NextChar :
       /\ Take(o)
       /\ CASE o.ch = NUL  -> Fail(-7)
            [] o.ch = "\n" -> Goto("hdr_start") /\ UNCHANGED retCode
            [] OTHER       -> UNCHANGED <<pc, retCode>>
  /\ UNCHANGED <<Env, lit, contentLength, chunked, resp>>

\* After the switch: `if(!ch) { ret_code = -10; goto END; }`, else loop.
AfterSwitch(c) ==
  IF c = NUL THEN Fail(-10) ELSE Goto("line_end") /\ UNCHANGED retCode

\* switch(_GET_NEXT_CHAR()) on the first character of a header line.
HeaderStart ==
  /\ pc = "hdr_start"
  /\ \E o \in NextChar :
       /\ Take(o)
       /\ CASE o.ch = "C"  -> Goto("cl_lit") /\ lit' = 1 /\ UNCHANGED retCode
            [] o.ch = "T"  -> Goto("te_lit") /\ lit' = 1 /\ UNCHANGED retCode
            [] o.ch = "\r" -> Goto("hdr_end_lf") /\ UNCHANGED <<lit, retCode>>
            [] OTHER       -> AfterSwitch(o.ch) /\ UNCHANGED lit
  /\ UNCHANGED <<Env, contentLength, chunked, resp>>

\* case 'C': the _('o')_('n')... chain; a mismatch breaks out of the switch.
ContentLengthLiteral ==
  /\ pc = "cl_lit"
  /\ \E o \in NextChar :
       /\ Take(o)
       /\ IF o.ch # CLRest[lit]
            THEN AfterSwitch(o.ch) /\ UNCHANGED lit
            ELSE IF lit = Len(CLRest)
                   THEN Goto("cl_num") /\ UNCHANGED <<lit, retCode>>
                   ELSE lit' = lit + 1 /\ UNCHANGED <<pc, retCode>>
  /\ UNCHANGED <<Env, contentLength, chunked, resp>>

\* _GET_NUMBER(content_length), then `break`.
ContentLengthNumber ==
  /\ pc = "cl_num"
  /\ \E o \in NextChar :
       /\ Take(o)
       /\ CASE o.ch = NUL    -> Fail(-7) /\ UNCHANGED contentLength
            [] IsDigit(o.ch) -> contentLength' = DecStep(contentLength, o.ch)
                                /\ UNCHANGED <<pc, retCode>>
            [] OTHER         -> AfterSwitch(o.ch) /\ UNCHANGED contentLength
  /\ UNCHANGED <<Env, lit, chunked, resp>>

\* case 'T': the _('r')_('a')... chain, then `chunked = 1; break;`.
TransferEncodingLiteral ==
  /\ pc = "te_lit"
  /\ \E o \in NextChar :
       /\ Take(o)
       /\ IF o.ch # TERest[lit]
            THEN AfterSwitch(o.ch) /\ UNCHANGED <<lit, chunked>>
            ELSE IF lit = Len(TERest)
                   THEN chunked' = 1 /\ AfterSwitch(o.ch) /\ UNCHANGED lit
                   ELSE lit' = lit + 1 /\ UNCHANGED <<pc, retCode, chunked>>
  /\ UNCHANGED <<Env, contentLength, resp>>

\* case '\r': __('\n'), then switch(chunked) enters the body loop at
\* `case 1` (chunk size) or `case 0` (content-length body).
HeaderEnd ==
  /\ pc = "hdr_end_lf"
  /\ \E o \in NextChar :
       /\ Take(o)
       /\ IF o.ch # "\n"
            THEN Fail(-9)
            ELSE Goto(IF chunked = 1 THEN "chunk_len" ELSE "body") /\ UNCHANGED retCode
  /\ UNCHANGED <<Env, lit, contentLength, chunked, resp>>

\* _GET_CHUNKED_LEN(content_length, '\r'): hex digits until '\r'.
ChunkLength ==
  /\ pc = "chunk_len"
  /\ \E o \in NextChar :
       /\ Take(o)
       /\ CASE o.ch = NUL    -> Fail(-7) /\ UNCHANGED contentLength
            [] IsDigit(o.ch) -> contentLength' = HexStep(contentLength, o.ch)
                                /\ UNCHANGED <<pc, retCode>>
            [] o.ch # "\r"   -> Fail(-8) /\ UNCHANGED contentLength
            [] OTHER         -> Goto("chunk_len_lf") /\ UNCHANGED <<retCode, contentLength>>
  /\ UNCHANGED <<Env, lit, chunked, resp>>

\* __('\n') after the size; a zero size ends the body.
ChunkLengthEnd ==
  /\ pc = "chunk_len_lf"
  /\ \E o \in NextChar :
       /\ Take(o)
       /\ IF o.ch # "\n"
            THEN Fail(-9)
            ELSE Goto(IF contentLength = 0 THEN "last_cr" ELSE "body") /\ UNCHANGED retCode
  /\ UNCHANGED <<Env, lit, contentLength, chunked, resp>>

\* A literal the framing requires: __(c), then continue at p.
Expect(here, c, p) ==
  /\ pc = here
  /\ \E o \in NextChar :
       /\ Take(o)
       /\ IF o.ch # c THEN Fail(-9) ELSE Goto(p) /\ UNCHANGED retCode
  /\ UNCHANGED <<Env, lit, contentLength, chunked, resp>>

\* Mutation: the zero-size chunk is not followed by goto END.
LastChunkEndNoEnd == Expect("last_cr", "\r", "last_lf") \/ Expect("last_lf", "\n", "chunk_len")

\* The last chunk: __('\r')__('\n') goto END.
LastChunkEnd == Expect("last_cr", "\r", "last_lf") \/ Expect("last_lf", "\n", "END")

\* The top of the do-while: __('\r')__('\n') after a chunk's data.
ChunkDataEnd == Expect("chunk_cr", "\r", "chunk_lf") \/ Expect("chunk_lf", "\n", "chunk_len")

\* Where the body loop goes when it ends: another chunk, or END.
BodyDone ==
  /\ Goto(IF chunked = 1 THEN "chunk_cr" ELSE "END")
  /\ UNCHANGED <<retCode, contentLength, resp>>

\* One turn of while(content_length > 0 && !_NO_MORE()): copy what the
\* buffer holds, up to content_length, into *resp.
Copy(o) ==
  LET n == Min({contentLength, o.iovLen - o.len})
  IN  /\ contentLength' = contentLength - n
      /\ resp' = resp \o SubSeq(o.buf, o.len + 1, o.len + n)
      /\ buf' = o.buf
      /\ len' = o.len + n
      /\ iovLen' = o.iovLen
      /\ rcvd' = o.rcvd
      /\ UNCHANGED <<pc, retCode>>

Body ==
  /\ pc = "body"
  /\ IF contentLength <= 0
       THEN BodyDone /\ UNCHANGED <<buf, len, iovLen, rcvd>>
       ELSE IF len < iovLen
         THEN Copy([buf |-> buf, len |-> len, iovLen |-> iovLen, rcvd |-> rcvd])
         ELSE \E r \in RecvResults :
                IF r.n = -1
                  THEN /\ BodyDone
                       /\ buf' = r.buf /\ len' = 0 /\ iovLen' = -1 /\ rcvd' = r.rcvd
                  ELSE Copy([buf |-> r.buf, len |-> 0, iovLen |-> r.n, rcvd |-> r.rcvd])
  /\ UNCHANGED <<Env, lit, chunked>>

\* END: `return ret_code / 100 == 2 ? 0 : ret_code;`
Result == IF retCode \div 100 = 2 THEN 0 ELSE retCode

Returned ==
  /\ pc = "END"
  /\ UNCHANGED vars

-----------------------------------------------------------------------------

\* The state right after the write loop of an awaiting call: the buffer
\* still holds the request header, iv[0].iov_len = len, so the first
\* character triggers a recv.
Init ==
  /\ stream \in Responses
  /\ avail \in {Min({c, Len(stream.bytes)}) : c \in Cuts}
  /\ ending \in Endings
  /\ rcvd = 0
  /\ buf = InitBuf
  /\ len = BufSize
  /\ iovLen = BufSize
  /\ pc = "status_sp"
  /\ lit = 1
  /\ retCode = 0
  /\ contentLength = 0
  /\ chunked = 0
  /\ resp = <<>>

Next ==
  \/ StatusSpace \/ StatusNumber \/ LineEnd \/ HeaderStart
  \/ ContentLengthLiteral \/ ContentLengthNumber \/ TransferEncodingLiteral
  \/ HeaderEnd \/ ChunkLength \/ ChunkLengthEnd \/ LastChunkEnd
  \/ ChunkDataEnd \/ Body \/ Returned

\* The calling thread keeps running while recv has something to return.
Spec == Init /\ [][Next]_vars /\ WF_vars(Next)

-----------------------------------------------------------------------------
(* Properties *)

Chars == {"x", " ", "\r", "\n", "C", "T", "d", NUL} \cup DOMAIN DigitVal
         \cup ToSet(CLRest) \cup ToSet(TERest)

TypeOK ==
  /\ rcvd \in 0..avail
  /\ buf \in [1..BufSize -> Chars]
  /\ len \in 0..BufSize
  /\ iovLen \in -1..BufSize
  /\ pc \in {"status_sp", "status_num", "line_end", "hdr_start", "cl_lit",
             "cl_num", "te_lit", "hdr_end_lf", "chunk_len", "chunk_len_lf",
             "last_cr", "last_lf", "chunk_cr", "chunk_lf", "body", "END"}
  /\ retCode \in Int /\ contentLength \in Int
  /\ chunked \in {0, 1}
  /\ resp \in Seq(Chars)

\* http_request's contract for a complete response (spec 4.3): once the
\* peer has sent it all, the call returns 0 exactly for a 2xx status,
\* the status code otherwise, and *resp holds the decoded body.
ParsedCorrectly ==
  (pc = "END" /\ avail = Len(stream.bytes)) =>
     /\ Result = IF stream.status \div 100 = 2 THEN 0 ELSE stream.status
     /\ resp = stream.body

\* A truncated response is never reported as a success (spec 4.3: a
\* premature end of the stream is a framing error with a negative code).
NoSuccessOnTruncation ==
  (pc = "END" /\ Result = 0) => resp = stream.body

\* The call returns once the peer has sent everything or has closed or
\* reset the connection (the only wait without end is a silent open peer).
ReturnsOnceServerDone ==
  (avail = Len(stream.bytes) \/ ending # "open") => <>(pc = "END")
=============================================================================
