------------------------------ MODULE HexChars ------------------------------
(***************************************************************************)
(* hex_char_array_t (hash_to_chars.hpp): the 32-bit publisher hash as 8    *)
(* upper-case hex digits, most significant first, which the trackers       *)
(* write in the publisher column or tag.  A pure operator; the trackers   *)
(* in MessageTracing put its output in their rows.                        *)
(*                                                                         *)
(* TLC's integers are 32-bit signed, so the uint32 is held as its two      *)
(* 16-bit halves [hi, lo]; (input >> (i * 4)) & 15 reads a nibble of the   *)
(* half that holds bits 4i..4i+3.                                          *)
(***************************************************************************)
EXTENDS Integers, Sequences

\* static const char to_char[16]
to_char == [d \in 0..15 |-> <<"0", "1", "2", "3", "4", "5", "6", "7",
                               "8", "9", "A", "B", "C", "D", "E", "F">>[d + 1]]

\* int four_bits = ((input >> (i * 4)) & 15);
FourBits(x, i) ==
  IF i >= 4 THEN (x.hi \div 16^(i - 4)) % 16 ELSE (x.lo \div 16^i) % 16

\* The constructor's loop `for (j = 0, i = 7; i >= 0; --i, ++j)` fills
\* string_[j] from nibble i; operator<< writes the 8 chars in order.
HexCharArray(x) == [j \in 1..8 |-> to_char[FourBits(x, 8 - j)]]

=============================================================================
