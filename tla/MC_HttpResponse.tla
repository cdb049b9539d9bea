--------------------------- MODULE MC_HttpResponse ---------------------------
(***************************************************************************)
(* Responses an InfluxDB server sends to a write, in the abstract          *)
(* alphabet of HttpResponse: a 204 with an unrelated header that starts    *)
(* like Content-Length ("Cx"), a 400 with a Content-Length body, a 200     *)
(* with a two-byte Content-Length body, and a chunked 200 with one chunk.  *)
(* A 3-byte buffer makes every response span several recv calls, so a     *)
(* literal, a number and the body are split at every point.                *)
(***************************************************************************)
EXTENDS HttpResponse

CRLF == <<"\r", "\n">>
StatusLine(a, b, c) == <<"x", " ", a, b, c>> \o CRLF
CLHeader(n) == <<"C">> \o CLRest \o <<n>> \o CRLF
TEHeader == <<"T">> \o TERest \o CRLF

R204 == [bytes |-> StatusLine("2", "0", "4") \o <<"C", "x">> \o CRLF \o CRLF,
         status |-> 204, body |-> <<>>]
R400 == [bytes |-> StatusLine("4", "0", "0") \o CLHeader("1") \o CRLF \o <<"d">>,
         status |-> 400, body |-> <<"d">>]
R200 == [bytes |-> StatusLine("2", "0", "0") \o CLHeader("2") \o CRLF \o <<"d", "d">>,
         status |-> 200, body |-> <<"d", "d">>]
R200Chunked ==
  [bytes |-> StatusLine("2", "0", "0") \o TEHeader \o CRLF
             \o <<"1">> \o CRLF \o <<"d">> \o CRLF \o <<"0">> \o CRLF \o CRLF,
   status |-> 200, body |-> <<"d">>]

MCResponses == {R204, R400, R200, R200Chunked}
MCBufSize == 3
MCInitBuf == <<"x", "x", "x">>

\* The whole response arrives; the peer then idles, closes or resets.
MCCutsAll == {Max({Len(r.bytes) : r \in MCResponses})}
MCEndingsAll == {"open", "closed", "reset"}

\* The peer sends 17 bytes, one short of R200, and resets the connection.
MCCutsShort == {17} \cup MCCutsAll
MCEndingsReset == {"reset"}

\* The peer closes the connection after the headers of a response with a
\* body (byte 16 ends the header block of R400, R200 and R200Chunked).
MCCutsHeaders == {16}
MCEndingsClosed == {"closed"}
=============================================================================
