---------------------------- MODULE LineProtocol ----------------------------
(***************************************************************************)
(* influxdb_cpp::builder and its caller types tag_caller, field_caller and *)
(* ts_caller (influxdb.hpp): a single stringstream `lines_` that the       *)
(* method chain appends line-protocol text to.  The static type the caller *)
(* holds is `st`: "builder" (the base type, from which meas is always     *)
(* callable), "tag", "field" or "ts".                                      *)
(*                                                                         *)
(* Strings are sequences of one-character strings over a small alphabet   *)
(* holding the characters the escaping treats specially.  Alongside the   *)
(* text the module keeps `points`, the data the calls asked to encode, so *)
(* that a reference line-protocol reader can be checked against it.      *)
(***************************************************************************)
EXTENDS Integers, Sequences, SequencesExt

CONSTANTS
  Names,       \* strings used as measurement names, tag and field keys
  Values,      \* strings used as tag values and string field values
  MaxLines,    \* bound on meas calls
  MaxTags,     \* bound on tags per line
  MaxFields    \* bound on fields per line

BS == "\\"
IntText == <<"1">>    \* the digits `lines_ << v` prints for an integer field

\* Mutation: the timestamp printed as a negative long long, as _ts does
\* for an unsigned value of 2^63 or more.
TsTextSigned == <<"-", "5">>

\* The digits _ts prints for the timestamp.
TsText == <<"5">>

VARIABLES
  lines,   \* lines_.str(): the text written so far
  st,      \* the static type of the reference the caller holds
  points   \* what was asked for: one record per line

vars == <<lines, st, points>>

-----------------------------------------------------------------------------
(* _escape *)

\* The loop over find_first_of: copy up to the next character of `set`,
\* write a backslash and the character, continue after it.
RECURSIVE EscapeFrom(_, _, _)
EscapeFrom(src, set, start) ==
  LET hits == {p \in start..Len(src) : src[p] \in set}
  IN  IF hits = {}
        THEN SubSeq(src, start, Len(src))
        ELSE LET pos == Min(hits)
             IN  SubSeq(src, start, pos - 1) \o <<BS, src[pos]>>
                 \o EscapeFrom(src, set, pos + 1)

Escape(src, set) == EscapeFrom(src, set, 1)

\* The escape sets passed by _m, by _t / _f_* for keys and tag values, and
\* by _f_s for string values.
MeasEscapes == {",", " "}

\* Mutation: keys and tag values escaped without '='.
KeyEscapesNoEquals == {",", " "}

KeyEscapes == {",", "=", " "}
StrEscapes == {"\""}

-----------------------------------------------------------------------------
(* The builder's appends *)

CurLine == points[Len(points)]

\* Record the data of a call on the line being built.
AddTo(part, x) == [points EXCEPT ![Len(points)][part] = Append(@, x)]

\* Start a line: the separator the caller type writes, then _m.
NewLine(sep, m) ==
  /\ Len(points) < MaxLines
  /\ lines' = lines \o sep \o Escape(m, MeasEscapes)
  /\ points' = Append(points, [meas |-> m, tags |-> <<>>, fields |-> <<>>, ts |-> <<>>])
  /\ st' = "tag"

\* builder::meas: on a fresh stream (tellp() == 0) just _m; otherwise a
\* newline first, whatever the line so far holds (the branch for
\* distributed building).  Reachable from any state through a builder&.
BuilderMeas(m) == NewLine(IF lines = <<>> THEN <<>> ELSE <<"\n">>, m)

\* ts_caller::meas, also inherited by field_caller: always a newline.
TsMeas(m) ==
  /\ st \in {"field", "ts"}
  /\ NewLine(<<"\n">>, m)

\* tag_caller::tag -> _t: ',' key '=' value.
Tag(k, v) ==
  /\ st = "tag"
  /\ Len(CurLine.tags) < MaxTags
  /\ lines' = lines \o <<",">> \o Escape(k, KeyEscapes) \o <<"=">> \o Escape(v, KeyEscapes)
  /\ points' = AddTo("tags", <<k, v>>)
  /\ st' = "tag"

\* The field value as text: _f_s quotes and escapes, _f_i appends 'i'.
FieldText(val) ==
  IF val.kind = "str"
    THEN <<"=", "\"">> \o Escape(val.s, StrEscapes) \o <<"\"">>
    ELSE <<"=">> \o IntText \o <<"i">>

\* tag_caller::field (delimiter ' ') or field_caller::field (',').
Field(k, val) ==
  /\ st \in {"tag", "field"}
  /\ Len(CurLine.fields) < MaxFields
  /\ lines' = lines \o <<IF st = "tag" THEN " " ELSE ",">> \o Escape(k, KeyEscapes)
              \o FieldText(val)
  /\ points' = AddTo("fields", <<k, val>>)
  /\ st' = "field"

\* field_caller::timestamp -> _ts: ' ' and the number.
Timestamp ==
  /\ st = "field"
  /\ lines' = lines \o <<" ">> \o TsText
  /\ points' = [points EXCEPT ![Len(points)].ts = TsText]
  /\ st' = "ts"

\* builder::clear: lines_.str({}) empties the text and lines_.clear()
\* resets the error flags.  Callers clear through the base builder and
\* go on through it (as the writer does with influx_builder_).
Clear ==
  /\ lines' = <<>>
  /\ points' = <<>>
  /\ st' = "builder"

FieldValues == {[kind |-> "str", s |-> v] : v \in Values} \cup {[kind |-> "int", s |-> IntText]}

Init ==
  /\ lines = <<>>
  /\ st = "builder"
  /\ points = <<>>

Next ==
  \/ \E m \in Names : BuilderMeas(m) \/ TsMeas(m)
  \/ \E k \in Names, v \in Values : Tag(k, v)
  \/ \E k \in Names, val \in FieldValues : Field(k, val)
  \/ Timestamp
  \/ Clear

Spec == Init /\ [][Next]_vars

-----------------------------------------------------------------------------
(* A reference reader of line protocol, after the InfluxDB documentation: *)
(* a measurement ends at an unescaped ',' or ' ', a key at '=', a tag     *)
(* value or unquoted field value at ',' or ' '; a backslash before a      *)
(* character the element escapes stands for that character; a string     *)
(* field value is quoted and there '\"' and '\\' stand for '"' and '\'. *)

\* Read from position i up to the first unescaped character of `stops`.
RECURSIVE ReadTok(_, _, _, _)
ReadTok(s, i, stops, esc) ==
  IF i > Len(s) \/ s[i] \in stops
    THEN [tok |-> <<>>, next |-> i]
    ELSE LET escaped == s[i] = BS /\ i < Len(s) /\ s[i + 1] \in esc
             r == ReadTok(s, IF escaped THEN i + 2 ELSE i + 1, stops, esc)
         IN  [r EXCEPT !.tok = <<IF escaped THEN s[i + 1] ELSE s[i]>> \o @]

RECURSIVE ReadTags(_, _)
ReadTags(l, i) ==
  IF i > Len(l) \/ l[i] # ","
    THEN [seq |-> <<>>, next |-> i]
    ELSE LET k == ReadTok(l, i + 1, {"=", ",", " "}, KeyEscapes)
             v == ReadTok(l, k.next + 1, {",", " "}, KeyEscapes)
             r == ReadTags(l, v.next)
         IN  [r EXCEPT !.seq = <<<<k.tok, v.tok>>>> \o @]

\* One field value at position i: quoted string or an integer with 'i'.
ReadValue(l, i) ==
  IF i <= Len(l) /\ l[i] = "\""
    THEN LET r == ReadTok(l, i + 1, {"\""}, {"\"", BS})
         IN  [val |-> [kind |-> "str", s |-> r.tok], next |-> r.next + 1]
    ELSE LET r == ReadTok(l, i, {",", " "}, {})
         IN  [val |-> [kind |-> "int", s |-> SubSeq(r.tok, 1, Len(r.tok) - 1)], next |-> r.next]

RECURSIVE ReadFields(_, _)
ReadFields(l, i) ==
  LET k == ReadTok(l, i, {"=", ",", " "}, KeyEscapes)
      v == ReadValue(l, k.next + 1)
      r == IF v.next <= Len(l) /\ l[v.next] = ","
             THEN ReadFields(l, v.next + 1)
             ELSE [seq |-> <<>>, next |-> v.next]
  IN  [r EXCEPT !.seq = <<<<k.tok, v.val>>>> \o @]

ReadLine(l) ==
  LET m == ReadTok(l, 1, {",", " "}, MeasEscapes)
      t == ReadTags(l, m.next)
      f == IF t.next <= Len(l) /\ l[t.next] = " "
             THEN ReadFields(l, t.next + 1)
             ELSE [seq |-> <<>>, next |-> t.next]
  IN  [meas |-> m.tok, tags |-> t.seq, fields |-> f.seq,
       ts |-> IF f.next <= Len(l) /\ l[f.next] = " " THEN SubSeq(l, f.next + 1, Len(l)) ELSE <<>>]

RECURSIVE ReadLines(_, _)
ReadLines(s, i) ==
  IF i > Len(s)
    THEN <<>>
    ELSE LET r == ReadTok(s, i, {"\n"}, {})
         IN  <<ReadLine(r.tok)>> \o ReadLines(s, r.next + 1)

Decoded == ReadLines(lines, 1)

-----------------------------------------------------------------------------
(* Properties *)

Chars == {"a", ",", "=", " ", "\"", "\n", "i", "1", "5", BS}

TypeOK ==
  /\ lines \in Seq(Chars)
  /\ st \in {"builder", "tag", "field", "ts"}
  /\ Len(points) <= MaxLines

\* The escaping of _m, _t and _f_* round-trips (spec section 8): whatever
\* sequence of meas, tag, field and timestamp calls the caller types
\* allow, a line-protocol reader recovers from lines_ exactly the
\* measurements, tags, fields and timestamps that were passed in.
RoundTrip == Decoded = points
=============================================================================
