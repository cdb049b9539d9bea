---------------------------- MODULE MC_HttpWrite ----------------------------
(* HttpWrite instantiated for TLC.  The header buffer starts at 4 bytes     *)
(* (0x100 scaled down): a 3-byte header fits at once, a 4-byte header hits *)
(* snprintf's exact-fit case and doubles once, a 9-byte header doubles     *)
(* twice.  Bodies of 0, 1 and 3 bytes give empty, single-byte and          *)
(* multi-byte second iovecs, so short writes end inside the header, on the *)
(* boundary, and inside the body.                                          *)
EXTENDS HttpWrite

MCHeaderLens == {3, 4, 9}
MCBodyLens == {0, 1, 3}
MCInitHeaderBuf == 4
=============================================================================
