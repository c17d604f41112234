------------------------------- MODULE W98Ser2 -------------------------------
(***************************************************************************)
(* One W98SER/2 file transfer: the stop-and-wait sender, the receiver and   *)
(* the serial path between them.                                            *)
(*                                                                         *)
(* Both ends exist twice in the code: W98AGENT.C (the Windows 98 agent) and *)
(* w98agent-client.py (the controller).  A PUT is sent by the client and    *)
(* received by the agent, a GET or an EXEC output the other way round; the  *)
(* constant Direction says which, and the few places where the two          *)
(* programs differ are the operators that mention it.                       *)
(*                                                                         *)
(* Abstractions.  A frame travels as one element of a FIFO channel.  A      *)
(* damaged frame is one that read_frame rejects: CRC-32 is taken to detect  *)
(* every damage, and the whole-file CRC to tell different files apart, so   *)
(* a FIN frame carries the file itself.  Sizes are counted in half blocks,  *)
(* so that a size can also end in the middle of one.  Time is counted in    *)
(* ticks; delays are arbitrary unless Prompt.  The header line and the      *)
(* result line around the transfer are in PutCommand and GetCommand; of the *)
(* header, which has no checksum, only what the receiver reads is here.     *)
(***************************************************************************)
EXTENDS Naturals, Sequences

CONSTANTS
  Block,          \* what a DATA frame can carry (up to FRAME_SIZE bytes)
  File,           \* the file being moved, cut into blocks
  Direction,      \* "put": the agent receives; "get": the client receives
  FrameRetries,   \* FRAME_RETRIES
  FrameTimeout,   \* FRAME_TIMEOUT_MS, in ticks
  FinishGrace,    \* the two seconds a receiver waits for CONFIRM, in ticks
  Prompt,         \* TRUE: a frame arrives and is handled within a tick
  FaultyLinks,    \* which of the channels "fwd", "bwd" lose or damage frames
  MaxFaults,      \* bound on the frames lost or damaged in one transfer
  FaultKinds,     \* "lost": no frame is recognised; "bad": it is rejected;
                  \* "cancel": its remains show the agent a byte 0x18
  WrongSizes,     \* what damage to the header line may make of the size in it
  CrcMayBeWrong,  \* TRUE: the damage may also be in the CRC
  IoMayFail       \* TRUE: reading or writing a port or a file may fail

ASSUME FileAssumption == File \in Seq(Block)
ASSUME BoundAssumption ==
  /\ FrameRetries \in Nat \ {0}
  /\ FrameTimeout \in Nat \ {0}
  /\ FinishGrace \in Nat \ {0}
  /\ MaxFaults \in Nat
ASSUME ModeAssumption ==
  /\ Direction \in {"put", "get"}
  /\ FaultyLinks \subseteq {"fwd", "bwd"}
  /\ FaultKinds \subseteq {"lost", "bad", "cancel"}
  /\ WrongSizes \subseteq Nat
  /\ {Prompt, IoMayFail, CrcMayBeWrong} \subseteq BOOLEAN

VARIABLES
  sState,     \* the sender: "send", "wait", "done" or "failed"
  sequence,   \* the frame it is trying to get acknowledged; Len(File) is FIN
  attempt,    \* the attempts it has used up on that frame
  sTimer,     \* ticks left before its read_frame gives up
  rState,     \* the receiver: "data", "fin", "grace", "ok", "failed", or
              \* "broken": given up after it had found the file to be whole
  data,       \* the blocks it has written, in order
  expected,   \* expected_sequence
  failures,   \* its count towards FRAME_RETRIES
  rTimer,     \* ticks left before its read_frame (or the grace) ends
  totalSize,  \* total_size: the size it read in the header, in half blocks
  crcRight,   \* TRUE: the CRC it read in the header is the file's
  fwd,        \* frames under way from sender to receiver
  bwd,        \* frames under way from receiver to sender
  faults      \* frames lost or damaged so far

sVars == <<sState, sequence, attempt, sTimer>>
announced == <<totalSize, crcRight>>
rVars == <<rState, data, expected, failures, rTimer, announced>>
vars == <<sVars, rVars, fwd, bwd, faults>>

-----------------------------------------------------------------------------
(* Frames                                                                  *)

FinSequence == Len(File)

DataFrame(n) == [kind |-> "D", seq |-> n, body |-> File[n + 1]]
FinFrame     == [kind |-> "F", seq |-> FinSequence, body |-> File]
Bare(k, n)   == [kind |-> k, seq |-> n, body |-> <<>>]
ConfirmFrame == Bare("C", FinSequence)
Ack(n)       == Bare("A", n)
Nak(n)       == Bare("N", n)
Wreck(k)     == Bare(k, 0)

\* What the sender has put in its current frame.
CurrentFrame == IF sequence < FinSequence THEN DataFrame(sequence) ELSE FinFrame

Sequences == 0 .. FinSequence
FwdFrame ==
  {DataFrame(n) : n \in 0 .. FinSequence - 1} \cup {FinFrame, ConfirmFrame}
    \cup {Wreck("bad"), Wreck("cancel")}
BwdFrame ==
  {Ack(n) : n \in Sequences} \cup {Nak(n) : n \in Sequences}
    \cup {Wreck("bad"), Wreck("cancel")}

SizeOf(blocks) == 2 * Len(blocks)

\* A failing write: nothing of the frame is on the wire, or all of it, when
\* serial_write_all fails over its reflection.  A part of it fails a read of
\* the other end, as a timeout does.
Remains(q, f) == {q, Append(q, f)}

\* A failing read, which may have taken a part of the next frame.
Interrupted(q) == IF q = <<>> THEN {q} ELSE {q, Tail(q)}

-----------------------------------------------------------------------------
Init ==
  /\ sState = "send" /\ sequence = 0 /\ attempt = 0 /\ sTimer = 0
  \* What the receiver is going to read in the header line.  A wrong CRC
  \* beside a wrong size makes no difference.
  /\ totalSize \in {SizeOf(File)} \cup WrongSizes
  /\ crcRight \in BOOLEAN
  /\ ~crcRight => CrcMayBeWrong /\ totalSize = SizeOf(File)
  \* Without any data the receiver skips its data loop altogether.
  /\ rState = IF totalSize = 0 THEN "fin" ELSE "data"
  /\ data = <<>> /\ expected = 0 /\ failures = 0 /\ rTimer = FrameTimeout
  /\ fwd = <<>> /\ bwd = <<>> /\ faults = 0

-----------------------------------------------------------------------------
(* The sender: send_reliable_frame / send_frame_reliable for every block    *)
(* and then for FIN, and one unacknowledged CONFIRM.                        *)

SendFrame ==
  /\ sState = "send"
  /\ fwd' = Append(fwd, CurrentFrame)
  /\ sState' = "wait"
  /\ sTimer' = FrameTimeout
  /\ UNCHANGED <<sequence, attempt, rVars, bwd, faults>>

\* Mutant: the first unacknowledged attempt gives the transfer up.
AttemptFailsAtOnce ==
  /\ attempt' = attempt /\ sState' = "failed"
  /\ sTimer' = 0
  /\ UNCHANGED sequence

\* A reply that is not the awaited ACK, whatever it is, costs one attempt.
AttemptFails ==
  /\ IF attempt + 1 < FrameRetries
       THEN attempt' = attempt + 1 /\ sState' = "send"
       ELSE attempt' = attempt /\ sState' = "failed"
  /\ sTimer' = 0
  /\ UNCHANGED sequence

\* Mutant: an ACK of any frame is taken for the awaited one.
IsAwaitedAckOfAny(f) == f.kind = "A"

\* Mutant: any reply with the right number will do.
IsAwaitedReply(f) == f.seq = sequence

IsAwaitedAck(f) == f.kind = "A" /\ f.seq = sequence

\* The agent takes a failing ReadFile for a timeout.
SenderTimesOut ==
  /\ sState = "wait"
  /\ \/ sTimer = 0 /\ UNCHANGED bwd
     \/ IoMayFail /\ Direction = "get" /\ bwd' \in Interrupted(bwd)
  /\ AttemptFails
  /\ UNCHANGED <<rVars, fwd, faults>>

SenderRetries ==
  /\ sState = "wait" /\ bwd # <<>>
  /\ ~IsAwaitedAck(Head(bwd)) /\ Head(bwd).kind # "cancel"
  /\ bwd' = Tail(bwd)
  /\ AttemptFails
  /\ UNCHANGED <<rVars, fwd, faults>>

\* The agent reads 0x18 between frames as a cancel and gives the transfer up.
SenderCancelled ==
  /\ sState = "wait" /\ bwd # <<>> /\ Head(bwd).kind = "cancel"
  /\ bwd' = Tail(bwd)
  /\ sState' = "failed" /\ sTimer' = 0
  /\ UNCHANGED <<sequence, attempt, rVars, fwd, faults>>

SenderAdvances ==
  /\ sState = "wait" /\ bwd # <<>> /\ IsAwaitedAck(Head(bwd))
  /\ sequence < FinSequence
  /\ bwd' = Tail(bwd)
  /\ sequence' = sequence + 1 /\ attempt' = 0
  /\ sState' = "send" /\ sTimer' = 0
  /\ UNCHANGED <<rVars, fwd, faults>>

\* Mutant: CONFIRM is sent twice to be on the safe side.
SenderFinishesTwice ==
  /\ sState = "wait" /\ bwd # <<>> /\ IsAwaitedAck(Head(bwd))
  /\ sequence = FinSequence
  /\ bwd' = Tail(bwd)
  /\ fwd' = fwd \o <<ConfirmFrame, ConfirmFrame>>
  /\ sState' = "done" /\ sTimer' = 0
  /\ UNCHANGED <<sequence, attempt, rVars, faults>>

\* FIN is acknowledged: CONFIRM goes out once and the sender returns.
SenderFinishes ==
  /\ sState = "wait" /\ bwd # <<>> /\ IsAwaitedAck(Head(bwd))
  /\ sequence = FinSequence
  /\ bwd' = Tail(bwd)
  /\ fwd' = Append(fwd, ConfirmFrame)
  /\ sState' = "done" /\ sTimer' = 0
  /\ UNCHANGED <<sequence, attempt, rVars, faults>>

\* The port fails: a client raises out of any read or write, the agent gives up
\* when it cannot write a frame or the final CONFIRM.
SenderIoFails ==
  /\ IoMayFail
  /\ \/ sState = "send" /\ fwd' \in Remains(fwd, CurrentFrame) /\ UNCHANGED bwd
     \/ sState = "wait" /\ Direction = "put" /\ UNCHANGED <<fwd, bwd>>
     \/ /\ sState = "wait" /\ bwd # <<>> /\ IsAwaitedAck(Head(bwd))
        /\ sequence = FinSequence
        /\ bwd' = Tail(bwd) /\ fwd' \in Remains(fwd, ConfirmFrame)
  /\ sState' = "failed"
  /\ UNCHANGED <<sequence, attempt, sTimer, rVars, faults>>

SenderMoves ==
  \/ SendFrame \/ SenderTimesOut \/ SenderRetries \/ SenderCancelled
  \/ SenderAdvances \/ SenderFinishes

Sender == SenderMoves \/ SenderIoFails

-----------------------------------------------------------------------------
(* The receiver: receive_frames_to_file / receive_frames.                   *)

Receiving == rState \in {"data", "fin", "grace"}
GaveUp == rState \in {"failed", "broken"}
Receives(phase) == rState = phase /\ fwd # <<>>
Consume == fwd' = Tail(fwd)
Reply(f) == bwd' = Append(bwd, f)
Incoming == Head(fwd)

\* The ACK of a block or of FIN must go out: when its write fails the transfer
\* is given up, although the ACK may be on its way.
Acknowledge(n, next, otherwise) ==
  \/ Reply(Ack(n)) /\ rState' = next
  \/ IoMayFail /\ bwd' \in Remains(bwd, Ack(n)) /\ rState' = otherwise

\* A NAK that fails makes the client raise; the agent does not even notice.
Refuse(next) ==
  \/ Reply(Nak(expected)) /\ rState' = next
  \/ /\ IoMayFail /\ bwd' \in Remains(bwd, Nak(expected))
     /\ rState' = IF Direction = "put" THEN next ELSE "failed"

\* A timeout, a frame that read_frame rejects, or (agent only) a failing
\* ReadFile.
ReadFails ==
  \/ rTimer = 0 /\ fwd' = fwd
  \/ fwd # <<>> /\ Incoming.kind = "bad" /\ Consume
  \/ IoMayFail /\ Direction = "put" /\ fwd' \in Interrupted(fwd)

\* The next call of read_frame starts a new deadline.
NextRead == rTimer' = FrameTimeout

\* ++failures, and the transfer is given up when they reach FRAME_RETRIES.
CountFailure == failures' = failures + 1
AfterFailure == IF failures + 1 >= FrameRetries THEN "failed" ELSE rState

\* The block still fits into the announced size.
Fits == SizeOf(data) + 2 <= totalSize

ReceiverWrites ==
  /\ Receives("data")
  /\ Incoming.kind = "D" /\ Incoming.seq = expected /\ Fits
  /\ Consume
  /\ data' = Append(data, Incoming.body)
  /\ expected' = expected + 1 /\ failures' = 0
  /\ Acknowledge(expected,
       IF SizeOf(data) + 2 = totalSize THEN "fin" ELSE "data", "failed")
  /\ NextRead
  /\ UNCHANGED <<sVars, announced, faults>>

\* Mutant: a repeated frame is written again.
ReceiverReWrites ==
  /\ Receives("data")
  /\ Incoming.kind = "D" /\ expected # 0 /\ Incoming.seq = expected - 1
  /\ Consume
  /\ data' = Append(data, Incoming.body)
  /\ Reply(Ack(Incoming.seq))
  /\ NextRead
  /\ UNCHANGED <<sVars, announced, rState, expected, failures, faults>>

IsPreceding(f) == f.kind = "D" /\ expected # 0 /\ f.seq = expected - 1

\* Any other frame: the preceding block is acknowledged again and not written
\* again, the rest, a block beyond the announced size too, is refused.  Neither
\* counts as a failure.
ReceiverReAcks ==
  /\ Receives("data")
  /\ Incoming.kind \in {"D", "F", "C"}
  /\ ~(Incoming.kind = "D" /\ Incoming.seq = expected /\ Fits)
  /\ Consume
  /\ IF IsPreceding(Incoming)
       THEN Acknowledge(Incoming.seq, "data", "failed") ELSE Refuse("data")
  /\ NextRead
  /\ UNCHANGED <<sVars, announced, data, expected, failures, faults>>

ReceiverReadFails ==
  /\ rState = "data"
  /\ ReadFails
  /\ CountFailure /\ Refuse(AfterFailure)
  /\ NextRead
  /\ UNCHANGED <<sVars, announced, data, expected, faults>>

ReceiverCancelled ==
  /\ rState \in {"data", "fin"} /\ fwd # <<>> /\ Incoming.kind = "cancel"
  /\ Consume
  /\ rState' = "failed"
  /\ UNCHANGED <<sVars, announced, data, expected, failures, rTimer, bwd, faults>>

\* The size and the CRC in FIN agree with the size that was announced, and
\* with the CRC of what was written and the one that was announced.
ValidFinish(f) ==
  /\ f.kind = "F" /\ f.seq = expected
  /\ SizeOf(f.body) = totalSize
  /\ f.body = data /\ data = File /\ crcRight

ReceiverAccepts ==
  /\ Receives("fin") /\ ValidFinish(Incoming)
  /\ Consume
  /\ Acknowledge(expected, "grace", "broken")
  /\ rTimer' = FinishGrace
  /\ UNCHANGED <<sVars, announced, data, expected, failures, faults>>

\* Once all data is in, everything that is not FIN is refused and counts.
ReceiverNaksFinish ==
  /\ Receives("fin")
  /\ Incoming.kind \in {"D", "F", "C"} /\ ~ValidFinish(Incoming)
  /\ Consume
  /\ CountFailure /\ Refuse(AfterFailure)
  /\ NextRead
  /\ UNCHANGED <<sVars, announced, data, expected, faults>>

\* The agent only counts a failed read here; the client also sends a NAK.
ReceiverFinishReadFails ==
  /\ rState = "fin"
  /\ ReadFails
  /\ CountFailure
  /\ IF Direction = "get" THEN Refuse(AfterFailure)
                          ELSE UNCHANGED bwd /\ rState' = AfterFailure
  /\ NextRead
  /\ UNCHANGED <<sVars, announced, data, expected, faults>>

\* The grace period: CONFIRM ends it, a repeated FIN is acknowledged, and
\* everything else is read and dropped.
GraceConfirmed ==
  /\ Receives("grace") /\ Incoming = ConfirmFrame
  /\ Consume
  /\ rState' = "ok"
  /\ UNCHANGED <<sVars, announced, data, expected, failures, rTimer, bwd, faults>>

\* The agent ignores whether this ACK went out.
GraceReAcks ==
  /\ Receives("grace") /\ Incoming.kind = "F" /\ Incoming.seq = expected
  /\ Consume
  /\ Acknowledge(expected, "grace",
                 IF Direction = "put" THEN "grace" ELSE "broken")
  /\ UNCHANGED <<sVars, announced, data, expected, failures, rTimer, faults>>

GraceDrops ==
  /\ Receives("grace")
  /\ Incoming.kind \notin {"F", "C"} \/ (IoMayFail /\ Direction = "put")
  /\ Consume
  /\ UNCHANGED <<sVars, rVars, bwd, faults>>

\* Mutants: the grace period lasts until CONFIRM; without CONFIRM the file is
\* given up.
GraceNeverEnds ==
  /\ rState = "grace" /\ rTimer = 0
  /\ UNCHANGED vars
GraceEndsInFailure ==
  /\ rState = "grace" /\ rTimer = 0
  /\ rState' = "failed"
  /\ UNCHANGED <<sVars, announced, data, expected, failures, rTimer, fwd, bwd, faults>>

GraceEnds ==
  /\ rState = "grace" /\ rTimer = 0
  /\ rState' = "ok"
  /\ UNCHANGED <<sVars, announced, data, expected, failures, rTimer, fwd, bwd, faults>>

\* The client raises out of any read that fails, also in its grace period; the
\* agent gives up when it cannot write a block to the disk.
ReceiverIoFails ==
  /\ IoMayFail
  /\ \/ Direction = "get" /\ Receiving
     \/ /\ Direction = "put" /\ Receives("data")
        /\ Incoming.kind = "D" /\ Incoming.seq = expected /\ Fits
  /\ rState' = IF rState = "grace" THEN "broken" ELSE "failed"
  /\ UNCHANGED <<sVars, announced, data, expected, failures, rTimer, fwd, bwd, faults>>

ReceiverMoves ==
  \/ ReceiverWrites \/ ReceiverReAcks \/ ReceiverReadFails
  \/ ReceiverCancelled \/ ReceiverAccepts \/ ReceiverNaksFinish
  \/ ReceiverFinishReadFails \/ GraceConfirmed \/ GraceReAcks \/ GraceDrops
  \/ GraceEnds

Receiver == ReceiverMoves \/ ReceiverIoFails

-----------------------------------------------------------------------------
(* The serial path and the clock.                                           *)

AgentReads(link) == (link = "fwd") = (Direction = "put")

\* The frame about to be read disappears, or becomes a wreck in place of it.
Outcomes(link, q) ==
  {Tail(q) : k \in FaultKinds \cap {"lost"}}
    \cup {[q EXCEPT ![1] = Wreck(k)] :
            k \in {f \in FaultKinds \ {"lost"} : f = "cancel" => AgentReads(link)}}

Fault ==
  /\ faults < MaxFaults
  /\ faults' = faults + 1
  /\ \/ /\ "fwd" \in FaultyLinks /\ fwd # <<>>
        /\ fwd' \in Outcomes("fwd", fwd)
        /\ UNCHANGED bwd
     \/ /\ "bwd" \in FaultyLinks /\ bwd # <<>>
        /\ bwd' \in Outcomes("bwd", bwd)
        /\ UNCHANGED fwd
  /\ UNCHANGED <<sVars, rVars>>

\* Something can be done without waiting for the clock.
Urgent ==
  \/ sState = "send"
  \/ sState = "wait" /\ (bwd # <<>> \/ sTimer = 0)
  \/ Receiving /\ (fwd # <<>> \/ rTimer = 0)

CountDown(t) == IF t = 0 THEN 0 ELSE t - 1

Tick ==
  /\ \/ sState = "wait" /\ sTimer > 0
     \/ Receiving /\ rTimer > 0
  /\ Prompt => ~Urgent
  /\ sTimer' = CountDown(sTimer)
  /\ rTimer' = IF Receiving THEN CountDown(rTimer) ELSE rTimer
  /\ UNCHANGED <<sState, sequence, attempt, rState, data, expected, failures,
                 announced, fwd, bwd, faults>>

\* Both programs have returned; nothing happens any more.
Finished ==
  /\ sState \in {"done", "failed"} /\ ~Receiving
  /\ UNCHANGED vars

Next == Sender \/ Receiver \/ Fault \/ Tick \/ Finished

Spec == Init /\ [][Next]_vars

-----------------------------------------------------------------------------
(* Properties                                                               *)

\* The values every variable ranges over.
TypeOK ==
  /\ sState \in {"send", "wait", "done", "failed"}
  /\ sequence \in Sequences
  /\ attempt \in 0 .. FrameRetries - 1
  /\ sTimer \in 0 .. FrameTimeout
  /\ rState \in {"data", "fin", "grace", "ok", "failed", "broken"}
  /\ data \in Seq(Block)
  /\ expected \in Sequences
  /\ failures \in 0 .. FrameRetries
  /\ rTimer \in Nat
  /\ totalSize \in Nat /\ crcRight \in BOOLEAN
  /\ fwd \in Seq(FwdFrame)
  /\ bwd \in Seq(BwdFrame)
  /\ faults \in 0 .. MaxFaults

Accepted == rState \in {"grace", "ok"}

\* It found the file to be whole, and may have given it up all the same.
Validated == Accepted \/ rState = "broken"

\* A controller that receives can lose its connection after it acknowledged
\* FIN: it raises, and the agent has finished all the same.
ControllerMayBreak == Direction = "get" /\ IoMayFail

\* A receiver that still reads has failures to spare: FRAME_RETRIES of them
\* end it in the same step.
FailureLimit == rState \in {"data", "fin"} => failures < FrameRetries

\* The receiver has written exactly the first expected_sequence blocks of the
\* file, in order: a repeated or late DATA frame is never written again and
\* none is skipped, however frames and timeouts interleave.
DataIsPrefix ==
  /\ Len(data) = expected
  /\ \A i \in 1 .. Len(data) : data[i] = File[i]

\* The two ends are never more than one frame apart, in either direction:
\* the sender advances only past what is written, the receiver writes only
\* what was sent.
StopAndWait == expected \in {sequence, sequence + 1}

\* A sender that reports success (the transfer of PUT, GET's agent) has a
\* receiver that wrote the whole file and found it right, although the size
\* and the CRC it compared it with may have been read wrong: no stale or
\* misattributed ACK ever completes a transfer.  The receiver still has the file,
\* unless a port failed: then the ACK of FIN can be on its way and its sender
\* give up.
SuccessMeansValidated ==
  sState = "done" => data = File /\ Validated /\ (IoMayFail \/ Accepted)

\* The parts the safety properties rest on: what is under way never runs ahead
\* of what its sender knows.  A DATA frame was reached by the sender, FIN is
\* sent after every block, CONFIRM when FIN is acknowledged ...
FramesAreSent ==
  \A i \in 1 .. Len(fwd) :
    /\ fwd[i].kind = "D" => fwd[i].seq <= sequence
    /\ fwd[i].kind = "F" => sequence = FinSequence
    /\ fwd[i].kind = "C" => sState \in {"done", "failed"} /\ sequence = FinSequence

\* ... and an ACK names a block that is written, or FIN of a file found whole.
AcksAreEarned ==
  \A i \in 1 .. Len(bwd) :
    bwd[i].kind = "A" =>
      \/ bwd[i].seq < expected
      \/ bwd[i].seq = FinSequence /\ Validated

\* The receiver leaves its data loop exactly at the announced size.
PhaseMatchesData ==
  /\ rState = "data" => SizeOf(data) < totalSize
  /\ rState = "fin" => SizeOf(data) = totalSize
  /\ Validated => data = File

IInv ==
  /\ TypeOK /\ FailureLimit
  /\ DataIsPrefix /\ StopAndWait
  /\ SuccessMeansValidated /\ (rState = "broken" => IoMayFail)
  /\ FramesAreSent /\ AcksAreEarned /\ PhaseMatchesData

\* Once the receiver has accepted, it never gives the file up again
\* (unless ControllerMayBreak).
AcceptanceIsFinal == [][Accepted => Accepted' /\ data' = data]_vars

\* The abstract transfer, and what its state is here.
Transfer == INSTANCE FileTransfer WITH
  delivered <- data,
  source <- IF sState = "done" THEN "succeeded"
            ELSE IF sState = "failed" THEN "aborted" ELSE "sending",
  sink <- IF Accepted THEN "accepted"
          ELSE IF rState = "broken" THEN "withdrawn"
          ELSE IF rState = "failed" THEN "aborted" ELSE "receiving",
  SinkMayWithdraw <- IoMayFail

\* Every step of the protocol is a step of the abstract transfer or none.
ImplementsTransfer == Transfer!Spec

=============================================================================
