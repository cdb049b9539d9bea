--------------------------- MODULE MC_LineProtocol ---------------------------
(***************************************************************************)
(* Strings made of the characters the builder escapes: one name and one   *)
(* value hold every special character, so each element (measurement, tag *)
(* key and value, field key, string field value) meets all of them; "a"  *)
(* is a name with none.  Two lines exercise builder::meas on a non-empty  *)
(* stream, two fields the ',' delimiter of field_caller::field.           *)
(***************************************************************************)
EXTENDS LineProtocol

MCNames == {<<"a">>, <<"=", ",", " ", "\"">>}
MCValues == {<<"\"", " ", ",", "=">>}
MCMaxLines == 2
MCMaxTags == 1
MCMaxFields == 2

=============================================================================
