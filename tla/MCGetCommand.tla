---------------------------- MODULE MCGetCommand -----------------------------
(* Small instances of GetCommand for TLC.                                   *)
EXTENDS GetCommand

CONSTANTS b1, b2

TwoBlocks == <<b1, b2>>
=============================================================================
