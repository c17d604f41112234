---------------------------- MODULE FileTransfer ----------------------------
(***************************************************************************)
(* What one W98SER/2 file transfer promises, without frames, sequence      *)
(* numbers, acknowledgements or timers: the sink grows a prefix of the     *)
(* file one block at a time, accepts only the whole file, and the source   *)
(* reports success only after the sink has found the file to be whole.     *)
(* Either side may abort on its own, and the two need not agree about a    *)
(* failure.  Where SinkMayWithdraw, the sink can give up a file that it    *)
(* has found whole, and has perhaps said so.                               *)
(***************************************************************************)
EXTENDS Naturals, Sequences

CONSTANTS
  Block,      \* the contents one data frame can carry
  File,       \* the file being moved, a sequence of Blocks
  SinkMayWithdraw

VARIABLES
  delivered,  \* the blocks the sink has written so far
  source,     \* "sending", "succeeded" or "aborted"
  sink        \* "receiving", "accepted", "aborted" or "withdrawn"

absVars == <<delivered, source, sink>>

Init ==
  /\ delivered = <<>>
  /\ source = "sending"
  /\ sink = "receiving"

\* The next block of the file, and only that one, reaches the sink.
Deliver ==
  /\ sink = "receiving"
  /\ Len(delivered) < Len(File)
  /\ delivered' = Append(delivered, File[Len(delivered) + 1])
  /\ UNCHANGED <<source, sink>>

\* The sink accepts the whole file and nothing less.
Accept ==
  /\ sink = "receiving"
  /\ delivered = File
  /\ sink' = "accepted"
  /\ UNCHANGED <<delivered, source>>

\* The source learns that the sink has the whole file.
Succeed ==
  /\ source = "sending"
  /\ sink \in {"accepted", "withdrawn"}
  /\ source' = "succeeded"
  /\ UNCHANGED <<delivered, sink>>

AbortSource ==
  /\ source = "sending"
  /\ source' = "aborted"
  /\ UNCHANGED <<delivered, sink>>

\* A sink that accepted does not take it back.  What makes it give up can
\* happen over the block it has just written ...
AbortSink ==
  /\ sink = "receiving"
  /\ sink' = "aborted"
  /\ \/ UNCHANGED delivered
     \/ /\ Len(delivered) < Len(File)
        /\ delivered' = Append(delivered, File[Len(delivered) + 1])
  /\ UNCHANGED source

\* ... except where its own failure may come in between.
Withdraw ==
  /\ SinkMayWithdraw
  /\ sink \in {"receiving", "accepted"}
  /\ delivered = File
  /\ sink' = "withdrawn"
  /\ UNCHANGED <<delivered, source>>

Next ==
  \/ Deliver \/ Accept \/ Succeed \/ AbortSource \/ AbortSink \/ Withdraw

Spec == Init /\ [][Next]_absVars
=============================================================================
