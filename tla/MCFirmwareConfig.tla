-------------------------- MODULE MCFirmwareConfig --------------------------
(* Small instances of FirmwareConfig for TLC.                               *)
EXTENDS FirmwareConfig

CONSTANTS s1, s2, p1, p2

Names == {s1, s2}
Words == {p1, p2}
Rates == {300, 9600}
\* Nothing, a word, two rates, a number that is none, and 2^32 + 9600.
Typed == {<<>>, <<9, 10, 0>>, <<3, 0, 0>>, <<9, 6, 0, 0>>, <<1, 2, 3, 4, 5>>,
          <<4, 2, 9, 4, 9, 7, 6, 8, 9, 6>>}
=============================================================================
