---------------------------- MODULE MCPutCommand -----------------------------
(* Small instances of PutCommand for TLC.                                   *)
EXTENDS PutCommand

CONSTANTS b1, b2

TwoBlocks == <<b1, b2>>
=============================================================================
