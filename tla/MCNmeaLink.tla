----------------------------- MODULE MCNmeaLink -----------------------------
(***************************************************************************)
(* A scaled-down NMEA 0183 for TLC: characters of two bits, digits of one. *)
(* Every code but that of NUL is taken, so each character of a body may    *)
(* become any other one.  The bodies have the same checksum, and lengths   *)
(* that differ, so that neither tells them apart.                          *)
(***************************************************************************)
EXTENDS NmeaLink

CONSTANTS A, Zero, One

Body3 == {A, Zero, One}
AllChars == Body3 \cup {Dollar, Star}
TwoBitCode == [c \in Body3 |-> CASE c = A -> {0, 1} [] c = Zero -> {0} [] c = One -> {1}]
OneBitDigit == [c \in {Zero, One} |-> IF c = Zero THEN {} ELSE {0}]
TwoBodies == {<<A>>, <<Zero, One>>}
=============================================================================
