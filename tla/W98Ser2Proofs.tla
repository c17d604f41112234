---------------------------- MODULE W98Ser2Proofs ----------------------------
(***************************************************************************)
(* Proofs about one W98SER/2 transfer, for every file, every retry limit,   *)
(* every timing and any number of lost or damaged frames.                   *)
(***************************************************************************)
EXTENDS W98Ser2, TLAPS

(* The frames the two programs build, and the wrecks of the serial path, are
   frames of their channel.                                                *)
LEMMA FrameFacts ==
  /\ \A n \in 0 .. FinSequence - 1 : DataFrame(n) \in FwdFrame
  /\ FinFrame \in FwdFrame
  /\ ConfirmFrame \in FwdFrame
  /\ Wreck("bad") \in FwdFrame /\ Wreck("cancel") \in FwdFrame
  /\ Wreck("bad") \in BwdFrame /\ Wreck("cancel") \in BwdFrame
  /\ \A n \in Sequences : Ack(n) \in BwdFrame /\ Nak(n) \in BwdFrame
  /\ FinSequence \in Nat
<1>1. FinSequence \in Nat
  BY FileAssumption DEF FinSequence
<1>2. \A n \in 0 .. FinSequence - 1 : DataFrame(n) \in FwdFrame
  BY Zenon DEF FwdFrame
<1>3. FinFrame \in FwdFrame /\ ConfirmFrame \in FwdFrame
  BY Zenon DEF FwdFrame
<1>4. /\ Wreck("bad") \in FwdFrame /\ Wreck("cancel") \in FwdFrame
      /\ Wreck("bad") \in BwdFrame /\ Wreck("cancel") \in BwdFrame
  BY Zenon DEF FwdFrame, BwdFrame
<1>5. \A n \in Sequences : Ack(n) \in BwdFrame /\ Nak(n) \in BwdFrame
  BY Zenon DEF BwdFrame
<1> QED
  BY <1>1, <1>2, <1>3, <1>4, <1>5

(* A DATA frame carries the block its sequence number names.                *)
LEMMA DataFrameBody ==
  ASSUME NEW f \in FwdFrame, f.kind = "D"
  PROVE  /\ f.seq \in 0 .. FinSequence - 1
         /\ f.body = File[f.seq + 1]
         /\ f.body \in Block
BY FileAssumption
   DEF DataFrame, FinFrame, ConfirmFrame, Wreck, Bare, FwdFrame, FinSequence

LEMMA BwdSequence ==
  ASSUME NEW f \in BwdFrame
  PROVE  f.seq \in Sequences
BY FrameFacts DEF BwdFrame, Ack, Nak, Wreck, Bare, Sequences

(* What a channel is after its first frame is consumed, lost or damaged.    *)
LEMMA ConsumeFacts ==
  ASSUME NEW S, NEW q \in Seq(S), q # <<>>
  PROVE  /\ Head(q) \in S /\ Head(q) = q[1]
         /\ Tail(q) \in Seq(S)
         /\ Len(Tail(q)) = Len(q) - 1 /\ Len(q) \in Nat \ {0}
         /\ \A i \in 1 .. Len(Tail(q)) : Tail(q)[i] = q[i + 1]
OBVIOUS

LEMMA AppendFacts ==
  ASSUME NEW S, NEW q \in Seq(S), NEW e \in S
  PROVE  /\ Append(q, e) \in Seq(S)
         /\ Len(Append(q, e)) = Len(q) + 1
         /\ \A i \in 1 .. Len(q) : Append(q, e)[i] = q[i]
         /\ Append(q, e)[Len(q) + 1] = e
OBVIOUS

LEMMA WreckFacts ==
  ASSUME NEW S, NEW q \in Seq(S), q # <<>>, NEW e \in S
  PROVE  /\ [q EXCEPT ![1] = e] \in Seq(S)
         /\ Len([q EXCEPT ![1] = e]) = Len(q)
         /\ [q EXCEPT ![1] = e][1] = e
         /\ \A i \in 2 .. Len(q) : [q EXCEPT ![1] = e][i] = q[i]
OBVIOUS

(* A fault leaves wrecks and frames that were there before, no others.      *)
LEMMA OutcomeFacts ==
  ASSUME NEW S, NEW q \in Seq(S), q # <<>>, NEW link,
         Wreck("bad") \in S, Wreck("cancel") \in S,
         NEW r \in Outcomes(link, q)
  PROVE  /\ r \in Seq(S)
         /\ \A i \in 1 .. Len(r) :
              \/ r[i] \in {Wreck("bad"), Wreck("cancel")}
              \/ \E j \in 1 .. Len(q) : r[i] = q[j]
<1>1. CASE r = Tail(q)
  BY <1>1, ConsumeFacts
<1>2. CASE \E e \in {Wreck("bad"), Wreck("cancel")} : r = [q EXCEPT ![1] = e]
  <2>1. PICK e \in {Wreck("bad"), Wreck("cancel")} : r = [q EXCEPT ![1] = e]
    BY <1>2
  <2>2. /\ r \in Seq(S) /\ Len(r) = Len(q) /\ r[1] = e /\ Len(q) \in Nat \ {0}
        /\ \A i \in 2 .. Len(q) : r[i] = q[i]
    BY <2>1, WreckFacts, ConsumeFacts
  <2> QED
    BY <2>2
<1> QED
  BY <1>1, <1>2, ModeAssumption DEF Outcomes

(* What a failing write leaves of a frame, or a failing read of a channel.   *)
LEMMA RemainsFacts ==
  ASSUME NEW S, NEW q \in Seq(S), NEW e \in S, NEW r \in Remains(q, e)
  PROVE  /\ r \in Seq(S)
         /\ \A i \in 1 .. Len(r) : r[i] = e \/ \E j \in 1 .. Len(q) : r[i] = q[j]
<1>1. CASE r = q
  BY <1>1
<1>2. CASE r = Append(q, e)
  BY <1>2, AppendFacts
<1> QED
  BY <1>1, <1>2 DEF Remains

LEMMA InterruptedFacts ==
  ASSUME NEW S, NEW q \in Seq(S), NEW r \in Interrupted(q)
  PROVE  /\ r \in Seq(S)
         /\ \A i \in 1 .. Len(r) : \E j \in 1 .. Len(q) : r[i] = q[j]
<1>1. CASE r = q
  BY <1>1
<1>2. CASE q # <<>> /\ r = Tail(q)
  BY <1>2, ConsumeFacts
<1> QED
  BY <1>1, <1>2 DEF Interrupted

(* What the two kinds of replies put on the channel, and where they lead.   *)
LEMMA AcknowledgeFacts ==
  ASSUME TypeOK, NEW n \in Sequences, NEW next, NEW otherwise,
         Acknowledge(n, next, otherwise)
  PROVE  /\ bwd' \in Seq(BwdFrame)
         /\ \A i \in 1 .. Len(bwd') :
              bwd'[i] = Ack(n) \/ \E j \in 1 .. Len(bwd) : bwd'[i] = bwd[j]
         /\ rState' = next \/ (IoMayFail /\ rState' = otherwise)
<1>1. Ack(n) \in BwdFrame /\ bwd \in Seq(BwdFrame)
  BY FrameFacts DEF TypeOK
<1>2. bwd' \in Remains(bwd, Ack(n))
  BY DEF Acknowledge, Reply, Remains
<1>3. rState' = next \/ (IoMayFail /\ rState' = otherwise)
  BY DEF Acknowledge
<1> QED
  BY <1>1, <1>2, <1>3, RemainsFacts

LEMMA RefuseFacts ==
  ASSUME TypeOK, NEW next, Refuse(next)
  PROVE  /\ bwd' \in Seq(BwdFrame)
         /\ \A i \in 1 .. Len(bwd') :
              bwd'[i] = Nak(expected) \/ \E j \in 1 .. Len(bwd) : bwd'[i] = bwd[j]
         /\ rState' = next \/ rState' = "failed"
<1>1. Nak(expected) \in BwdFrame /\ bwd \in Seq(BwdFrame)
  BY FrameFacts DEF TypeOK
<1>2. bwd' \in Remains(bwd, Nak(expected))
  BY DEF Refuse, Reply, Remains
<1>3. rState' = next \/ rState' = "failed"
  BY DEF Refuse
<1> QED
  BY <1>1, <1>2, <1>3, RemainsFacts

(* A failing read takes nothing or one frame.                               *)
LEMMA ReadFailsFacts ==
  ASSUME TypeOK, ReadFails
  PROVE  /\ fwd' \in Seq(FwdFrame)
         /\ \A i \in 1 .. Len(fwd') : \E j \in 1 .. Len(fwd) : fwd'[i] = fwd[j]
<1>1. fwd \in Seq(FwdFrame) /\ fwd' \in Interrupted(fwd)
  BY DEF TypeOK, ReadFails, Consume, Interrupted
<1> QED
  BY <1>1, InterruptedFacts

-----------------------------------------------------------------------------
(* Type correctness                                                         *)

(* The values the variables range over, for every instance.                 *)
THEOREM TypeCorrect == Spec => [](TypeOK /\ FailureLimit)
<1>1. Init => TypeOK /\ FailureLimit
  BY FrameFacts, BoundAssumption, ModeAssumption, FileAssumption
     DEF Init, TypeOK, FailureLimit, Sequences, SizeOf
<1>2. TypeOK /\ FailureLimit /\ [Next]_vars => (TypeOK /\ FailureLimit)'
  <2> SUFFICES ASSUME TypeOK, FailureLimit, [Next]_vars
               PROVE  TypeOK' /\ FailureLimit'
    OBVIOUS
  <2> USE DEF TypeOK, FailureLimit, Sequences, sVars, rVars, announced
  <2>0. /\ FinSequence \in Nat
        /\ FrameRetries \in Nat \ {0} /\ FrameTimeout \in Nat \ {0}
        /\ FinishGrace \in Nat \ {0} /\ MaxFaults \in Nat
    BY FrameFacts, BoundAssumption
  <2>1. CASE SendFrame
    BY <2>0, <2>1, FrameFacts, AppendFacts DEF SendFrame, CurrentFrame
  <2>2. CASE SenderTimesOut
    <3>1. bwd' \in Seq(BwdFrame)
      BY <2>2, InterruptedFacts DEF SenderTimesOut
    <3> QED
      BY <2>0, <2>2, <3>1 DEF SenderTimesOut, AttemptFails
  <2>3. CASE SenderRetries
    BY <2>0, <2>3, ConsumeFacts DEF SenderRetries, AttemptFails
  <2>4. CASE SenderCancelled
    BY <2>0, <2>4, ConsumeFacts DEF SenderCancelled
  <2>5. CASE SenderAdvances
    BY <2>0, <2>5, ConsumeFacts DEF SenderAdvances
  <2>6. CASE SenderFinishes
    BY <2>0, <2>6, ConsumeFacts, AppendFacts, FrameFacts DEF SenderFinishes
  <2>7. CASE SenderIoFails
    <3>1. CurrentFrame \in FwdFrame /\ ConfirmFrame \in FwdFrame
      BY <2>0, FrameFacts DEF CurrentFrame
    <3>2. fwd' \in Seq(FwdFrame) /\ bwd' \in Seq(BwdFrame)
      BY <2>7, <3>1, RemainsFacts, ConsumeFacts DEF SenderIoFails
    <3> QED
      BY <2>0, <2>7, <3>2 DEF SenderIoFails
  <2>8. CASE ReceiverWrites
    <3>1. /\ fwd # <<>> /\ fwd' = Tail(fwd)
          /\ Head(fwd).kind = "D" /\ Head(fwd).seq = expected
          /\ data' = Append(data, Head(fwd).body)
          /\ expected' = expected + 1 /\ failures' = 0
          /\ rTimer' = FrameTimeout
          /\ UNCHANGED <<sVars, announced, faults>>
      BY <2>8 DEF ReceiverWrites, Receives, Incoming, Consume, NextRead
    <3>2. Head(fwd) \in FwdFrame /\ fwd' \in Seq(FwdFrame)
      BY <3>1, ConsumeFacts
    <3>3. expected < FinSequence /\ data' \in Seq(Block)
      BY <2>0, <3>1, <3>2, DataFrameBody, AppendFacts
    <3>4. bwd' \in Seq(BwdFrame) /\ rState' \in {"fin", "data", "failed"}
      BY <2>8, AcknowledgeFacts DEF ReceiverWrites
    <3> QED
      BY <2>0, <3>1, <3>2, <3>3, <3>4
  <2> USE DEF Receives, Incoming, Consume, NextRead, CountFailure, AfterFailure
  <2>9. CASE ReceiverReAcks
    <3>1. Head(fwd) \in FwdFrame /\ fwd' \in Seq(FwdFrame)
      BY <2>9, ConsumeFacts DEF ReceiverReAcks
    <3>2. IsPreceding(Head(fwd)) => Head(fwd).seq \in Sequences
      BY <2>0 DEF IsPreceding
    <3>3. bwd' \in Seq(BwdFrame) /\ rState' \in {"data", "failed"}
      BY <2>9, <3>2, AcknowledgeFacts, RefuseFacts DEF ReceiverReAcks
    <3> QED
      BY <2>0, <2>9, <3>1, <3>3 DEF ReceiverReAcks
  <2>10. CASE ReceiverReadFails
    <3>1. fwd' \in Seq(FwdFrame)
      BY <2>10, ReadFailsFacts DEF ReceiverReadFails
    <3>2. /\ bwd' \in Seq(BwdFrame)
          /\ rState' = AfterFailure \/ rState' = "failed"
      BY <2>10, RefuseFacts DEF ReceiverReadFails
    <3> QED
      BY <2>0, <2>10, <3>1, <3>2 DEF ReceiverReadFails
  <2>11. CASE ReceiverCancelled
    BY <2>0, <2>11, ConsumeFacts DEF ReceiverCancelled
  <2>12. CASE ReceiverAccepts
    <3>1. bwd' \in Seq(BwdFrame) /\ rState' \in {"grace", "broken"}
      BY <2>12, AcknowledgeFacts DEF ReceiverAccepts
    <3> QED
      BY <2>0, <2>12, <3>1, ConsumeFacts DEF ReceiverAccepts
  <2>13. CASE ReceiverNaksFinish
    <3>1. /\ bwd' \in Seq(BwdFrame)
          /\ rState' = AfterFailure \/ rState' = "failed"
      BY <2>13, RefuseFacts DEF ReceiverNaksFinish
    <3> QED
      BY <2>0, <2>13, <3>1, ConsumeFacts DEF ReceiverNaksFinish
  <2>14. CASE ReceiverFinishReadFails
    <3>1. fwd' \in Seq(FwdFrame)
      BY <2>14, ReadFailsFacts DEF ReceiverFinishReadFails
    <3>2. /\ bwd' \in Seq(BwdFrame)
          /\ rState' = AfterFailure \/ rState' = "failed"
      BY <2>14, RefuseFacts DEF ReceiverFinishReadFails
    <3> QED
      BY <2>0, <2>14, <3>1, <3>2 DEF ReceiverFinishReadFails
  <2>15. CASE GraceConfirmed
    BY <2>0, <2>15, ConsumeFacts DEF GraceConfirmed
  <2>16. CASE GraceReAcks
    <3>1. bwd' \in Seq(BwdFrame) /\ rState' \in {"grace", "broken"}
      BY <2>16, AcknowledgeFacts DEF GraceReAcks
    <3> QED
      BY <2>0, <2>16, <3>1, ConsumeFacts DEF GraceReAcks
  <2>17. CASE GraceDrops
    BY <2>0, <2>17, ConsumeFacts DEF GraceDrops
  <2>18. CASE GraceEnds
    BY <2>0, <2>18 DEF GraceEnds
  <2>19. CASE ReceiverIoFails
    BY <2>0, <2>19, ConsumeFacts DEF ReceiverIoFails
  <2>20. CASE Fault
    <3>1. CASE fwd # <<>> /\ fwd' \in Outcomes("fwd", fwd) /\ UNCHANGED bwd
      BY <2>0, <2>20, <3>1, FrameFacts, OutcomeFacts DEF Fault
    <3>2. CASE bwd # <<>> /\ bwd' \in Outcomes("bwd", bwd) /\ UNCHANGED fwd
      BY <2>0, <2>20, <3>2, FrameFacts, OutcomeFacts DEF Fault
    <3> QED
      BY <2>20, <3>1, <3>2 DEF Fault
  <2>21. CASE Tick
    BY <2>0, <2>21 DEF Tick, CountDown
  <2>22. CASE Finished
    BY <2>22 DEF Finished, vars
  <2>23. CASE UNCHANGED vars
    BY <2>23 DEF vars
  <2> QED
    BY <2>1, <2>2, <2>3, <2>4, <2>5, <2>6, <2>7, <2>8, <2>9, <2>10,
       <2>11, <2>12, <2>13, <2>14, <2>15, <2>16, <2>17, <2>18, <2>19, <2>20,
       <2>21, <2>22, <2>23
       DEF Next, Sender, SenderMoves, Receiver, ReceiverMoves
<1> QED
  BY <1>1, <1>2, PTL DEF Spec

-----------------------------------------------------------------------------
(* The inductive invariant                                                  *)

LEMMA InvariantInit == Init => IInv
<1> SUFFICES ASSUME Init
             PROVE  IInv
  OBVIOUS
<1>1. TypeOK /\ FailureLimit
  BY FrameFacts, BoundAssumption, ModeAssumption, FileAssumption
     DEF Init, TypeOK, FailureLimit, Sequences, SizeOf
<1>2. DataIsPrefix /\ StopAndWait /\ FramesAreSent /\ AcksAreEarned
  BY DEF Init, DataIsPrefix, StopAndWait, FramesAreSent, AcksAreEarned
<1>3. /\ SuccessMeansValidated /\ PhaseMatchesData
      /\ rState # "broken"
  BY FrameFacts, ModeAssumption
     DEF Init, SuccessMeansValidated, PhaseMatchesData, Accepted, Validated,
         SizeOf, FinSequence
<1> QED
  BY <1>1, <1>2, <1>3 DEF IInv

(* What a step leaves alone in a channel, it leaves sound.  An ACK stays
   earned while the receiver goes forward.                                  *)
WillBeEarned(f) == f.seq < expected' \/ (f.seq = FinSequence /\ Validated')

LEMMA AcksStayEarned ==
  ASSUME AcksAreEarned, TypeOK, TypeOK',
         expected <= expected', Validated => Validated',
         \A i \in 1 .. Len(bwd') :
           \/ bwd'[i].kind = "A" => WillBeEarned(bwd'[i])
           \/ \E j \in 1 .. Len(bwd) : bwd'[i] = bwd[j]
  PROVE  AcksAreEarned'
<1>1. /\ FinSequence \in Nat /\ expected \in Nat /\ expected' \in Nat
      /\ bwd \in Seq(BwdFrame)
  BY FrameFacts DEF TypeOK, Sequences
<1>2. \A j \in 1 .. Len(bwd) : bwd[j].seq \in Nat
  BY <1>1, BwdSequence DEF Sequences
<1> QED
  BY <1>1, <1>2 DEF AcksAreEarned, WillBeEarned

LEMMA IdleAcksStayEarned ==
  ASSUME AcksAreEarned, UNCHANGED <<rState, expected>>,
         \A i \in 1 .. Len(bwd') : \E j \in 1 .. Len(bwd) : bwd'[i] = bwd[j]
  PROVE  AcksAreEarned'
BY DEF AcksAreEarned, Validated, Accepted

LEMMA FramesStaySent ==
  ASSUME FramesAreSent, UNCHANGED <<sState, sequence>>,
         \A i \in 1 .. Len(fwd') : \E j \in 1 .. Len(fwd) : fwd'[i] = fwd[j]
  PROVE  FramesAreSent'
BY DEF FramesAreSent

LEMMA ConsumedFramesStaySent ==
  ASSUME FramesAreSent, UNCHANGED <<sState, sequence>>, TypeOK,
         fwd # <<>>, fwd' = Tail(fwd)
  PROVE  FramesAreSent'
<1>1. \A i \in 1 .. Len(fwd') : \E j \in 1 .. Len(fwd) : fwd'[i] = fwd[j]
  BY ConsumeFacts DEF TypeOK
<1> QED
  BY <1>1, FramesStaySent

(* A frame whose write failed was sent like any other.                      *)
LEMMA FailedWriteIsSent ==
  ASSUME FramesAreSent, sState' = "failed", UNCHANGED sequence,
         fwd \in Seq(FwdFrame), NEW f \in FwdFrame, fwd' \in Remains(fwd, f),
         f.kind = "D" => f.seq <= sequence,
         f.kind \in {"F", "C"} => sequence = FinSequence
  PROVE  FramesAreSent'
<1>1. \A i \in 1 .. Len(fwd') : fwd'[i] = f
         \/ \E j \in 1 .. Len(fwd) : fwd'[i] = fwd[j]
  BY RemainsFacts
<1> QED
  BY <1>1 DEF FramesAreSent

LEMMA InvariantStep ==
  IInv /\ (TypeOK /\ FailureLimit)' /\ [Next]_vars => IInv'
<1> SUFFICES ASSUME IInv, TypeOK', FailureLimit', [Next]_vars
             PROVE  IInv'
  OBVIOUS
<1> USE DEF sVars, rVars, announced, Receives, Incoming, Consume, NextRead,
            CountFailure, AfterFailure
<1>0. /\ FinSequence \in Nat /\ FinSequence = Len(File)
      /\ sequence \in 0 .. FinSequence /\ expected \in 0 .. FinSequence
      /\ data \in Seq(Block) /\ totalSize \in Nat
      /\ fwd \in Seq(FwdFrame) /\ bwd \in Seq(BwdFrame)
      /\ fwd' \in Seq(FwdFrame) /\ bwd' \in Seq(BwdFrame)
      /\ TypeOK /\ TypeOK'
  BY FrameFacts DEF IInv, TypeOK, FinSequence, Sequences
<1> DEFINE Rest == /\ DataIsPrefix /\ StopAndWait
                   /\ SuccessMeansValidated /\ (rState = "broken" => IoMayFail)
                   /\ PhaseMatchesData
<1>a. TypeOK' /\ FailureLimit' /\ Rest' /\ FramesAreSent' /\ AcksAreEarned' => IInv'
  BY DEF IInv
<1>b. Rest /\ FramesAreSent /\ AcksAreEarned
  BY DEF IInv
<1> USE DEF DataIsPrefix, StopAndWait, SuccessMeansValidated, PhaseMatchesData,
            Accepted, Validated, SizeOf
<1>1. CASE SendFrame
  <2>1. FramesAreSent'
    BY <1>0, <1>b, <1>1, AppendFacts
       DEF FramesAreSent, SendFrame, CurrentFrame, DataFrame, FinFrame
  <2>2. AcksAreEarned'
    BY <1>0, <1>b, <1>1
       DEF AcksAreEarned, SendFrame, CurrentFrame, DataFrame, FinFrame
  <2>3. Rest'
    BY <1>0, <1>b, <1>1 DEF SendFrame, CurrentFrame, DataFrame, FinFrame
  <2> QED
    BY <1>a, <2>1, <2>2, <2>3
<1>2. CASE SenderTimesOut
  <2>1. FramesAreSent'
    BY <1>b, <1>2 DEF FramesAreSent, SenderTimesOut, AttemptFails
  <2>2. AcksAreEarned'
    <3>1. UNCHANGED rVars /\ bwd' \in Interrupted(bwd)
      BY <1>2 DEF SenderTimesOut, Interrupted
    <3>2. \A i \in 1 .. Len(bwd') : \E j \in 1 .. Len(bwd) : bwd'[i] = bwd[j]
      BY <1>0, <3>1, InterruptedFacts
    <3>3. UNCHANGED <<rState, expected>>
      BY <3>1
    <3> QED
      BY <1>b, <3>2, <3>3, IdleAcksStayEarned
  <2>3. Rest'
    BY <1>0, <1>b, <1>2 DEF SenderTimesOut, AttemptFails
  <2> QED
    BY <1>a, <2>1, <2>2, <2>3
<1>3. CASE SenderRetries
  <2>1. FramesAreSent'
    BY <1>b, <1>3 DEF FramesAreSent, SenderRetries, AttemptFails
  <2>2. AcksAreEarned'
    <3>1. bwd # <<>> /\ bwd' = Tail(bwd) /\ UNCHANGED rVars
      BY <1>3 DEF SenderRetries
    <3> QED
      BY <1>0, <1>b, <3>1, ConsumeFacts DEF AcksAreEarned
  <2>3. Rest'
    BY <1>0, <1>b, <1>3 DEF SenderRetries, AttemptFails
  <2> QED
    BY <1>a, <2>1, <2>2, <2>3
<1>4. CASE SenderCancelled
  <2>1. FramesAreSent'
    BY <1>b, <1>4 DEF FramesAreSent, SenderCancelled
  <2>2. AcksAreEarned'
    BY <1>0, <1>b, <1>4, ConsumeFacts DEF AcksAreEarned, SenderCancelled
  <2>3. Rest'
    BY <1>0, <1>b, <1>4 DEF SenderCancelled
  <2> QED
    BY <1>a, <2>1, <2>2, <2>3
<1>5. CASE SenderAdvances
  <2>1. FramesAreSent'
    <3>1. /\ sState = "wait" /\ sequence' = sequence + 1 /\ fwd' = fwd
          /\ sequence # FinSequence
      BY <1>0, <1>5 DEF SenderAdvances
    <3>2. \A i \in 1 .. Len(fwd) : fwd[i].kind = "D" => fwd[i].seq \in Nat
      BY <1>0, DataFrameBody
    <3> QED
      BY <1>0, <1>b, <3>1, <3>2 DEF FramesAreSent
  <2>2. AcksAreEarned'
    <3>1. bwd # <<>> /\ bwd' = Tail(bwd) /\ UNCHANGED rVars
      BY <1>5 DEF SenderAdvances
    <3> QED
      BY <1>0, <1>b, <3>1, ConsumeFacts DEF AcksAreEarned
  <2>3. Rest'
    <3>1. /\ bwd # <<>> /\ Head(bwd).kind = "A" /\ Head(bwd).seq = sequence
          /\ sequence < FinSequence /\ sequence' = sequence + 1
          /\ sState' = "send" /\ UNCHANGED rVars
      BY <1>0, <1>5 DEF SenderAdvances, IsAwaitedAck
    <3>2. Head(bwd) = bwd[1] /\ 1 \in 1 .. Len(bwd)
      BY <1>0, <3>1, ConsumeFacts
    <3>3. sequence < expected
      BY <1>0, <1>b, <3>1, <3>2 DEF AcksAreEarned
    <3>4. expected = sequence + 1 /\ StopAndWait'
      BY <1>0, <1>b, <3>1, <3>3
    <3>5. DataIsPrefix' /\ PhaseMatchesData' /\ SuccessMeansValidated'
      BY <1>0, <1>b, <3>1
    <3> QED
      BY <1>b, <3>1, <3>4, <3>5
  <2> QED
    BY <1>a, <2>1, <2>2, <2>3
<1>6. CASE SenderFinishes
  <2>1. FramesAreSent'
    BY <1>0, <1>b, <1>6, AppendFacts
       DEF FramesAreSent, SenderFinishes, IsAwaitedAck, ConfirmFrame, Bare
  <2>2. AcksAreEarned'
    BY <1>0, <1>b, <1>6, ConsumeFacts
       DEF AcksAreEarned, SenderFinishes, IsAwaitedAck, ConfirmFrame, Bare
  <2>3. Rest'
    BY <1>0, <1>b, <1>6, ConsumeFacts, BwdSequence
       DEF AcksAreEarned, Sequences, SenderFinishes, IsAwaitedAck, ConfirmFrame, Bare
  <2> QED
    BY <1>a, <2>1, <2>2, <2>3
<1>7. CASE SenderIoFails
  <2>1. FramesAreSent'
    <3>1. sState' = "failed" /\ sState # "done" /\ UNCHANGED sequence
      BY <1>7 DEF SenderIoFails
    <3>2. CASE fwd' \in Remains(fwd, CurrentFrame)
      <4>1. CurrentFrame \in FwdFrame /\ fwd \in Seq(FwdFrame)
        BY <1>0, FrameFacts DEF CurrentFrame
      <4>2. /\ CurrentFrame.kind = "D" => CurrentFrame.seq <= sequence
            /\ CurrentFrame.kind \in {"F", "C"} => sequence = FinSequence
        BY <1>0 DEF CurrentFrame, DataFrame, FinFrame
      <4> QED
        BY <1>b, <3>1, <3>2, <4>1, <4>2, FailedWriteIsSent
    <3>3. CASE sequence = FinSequence /\ fwd' \in Remains(fwd, ConfirmFrame)
      <4>1. ConfirmFrame \in FwdFrame /\ ConfirmFrame.kind = "C"
        BY FrameFacts DEF ConfirmFrame, Bare
      <4> QED
        BY <1>0, <1>b, <3>1, <3>3, <4>1, FailedWriteIsSent
    <3>4. CASE fwd' = fwd
      BY <1>b, <3>1, <3>4 DEF FramesAreSent
    <3> QED
      BY <1>7, <3>2, <3>3, <3>4 DEF SenderIoFails
  <2>2. AcksAreEarned'
    <3>1. UNCHANGED rVars /\ (bwd' = bwd \/ (bwd # <<>> /\ bwd' = Tail(bwd)))
      BY <1>7 DEF SenderIoFails
    <3>2. \A i \in 1 .. Len(bwd') : \E j \in 1 .. Len(bwd) : bwd'[i] = bwd[j]
      <4>1. CASE bwd' = bwd
        BY <4>1
      <4>2. CASE bwd # <<>> /\ bwd' = Tail(bwd)
        BY <1>0, <4>2, ConsumeFacts
      <4> QED
        BY <3>1, <4>1, <4>2
    <3>3. UNCHANGED <<rState, expected>>
      BY <3>1
    <3> QED
      BY <1>b, <3>2, <3>3, IdleAcksStayEarned
  <2>3. Rest'
    BY <1>0, <1>b, <1>7 DEF SenderIoFails
  <2> QED
    BY <1>a, <2>1, <2>2, <2>3
<1>8. CASE ReceiverWrites
  <2>0. /\ fwd # <<>> /\ fwd' = Tail(fwd) /\ UNCHANGED <<sVars, announced>>
        /\ rState = "data" /\ Head(fwd).kind = "D" /\ Head(fwd).seq = expected
        /\ Len(data') = Len(data) + 1 /\ data' = Append(data, Head(fwd).body)
        /\ expected' = expected + 1
        /\ 2 * Len(data) + 2 <= totalSize
    <3>1. data' = Append(data, Head(fwd).body) /\ Head(fwd).body \in Block
      BY <1>0, <1>8, ConsumeFacts, DataFrameBody DEF ReceiverWrites
    <3> QED
      BY <1>0, <1>8, <3>1, AppendFacts DEF ReceiverWrites, Fits
  <2>a. /\ rState' = (IF 2 * Len(data) + 2 = totalSize THEN "fin" ELSE "data")
             \/ rState' = "failed"
        /\ \A i \in 1 .. Len(bwd') : bwd'[i] = Ack(expected)
                 \/ \E j \in 1 .. Len(bwd) : bwd'[i] = bwd[j]
    <3>1. Acknowledge(expected,
            IF SizeOf(data) + 2 = totalSize THEN "fin" ELSE "data", "failed")
      BY <1>8 DEF ReceiverWrites
    <3>2. expected \in Sequences
      BY <1>0 DEF Sequences
    <3> QED
      BY <1>0, <3>1, <3>2, AcknowledgeFacts
  <2>1. FramesAreSent'
    BY <1>0, <1>b, <2>0, ConsumedFramesStaySent
  <2>2. AcksAreEarned'
    <3>1. WillBeEarned(Ack(expected))
      BY <1>0, <2>0 DEF WillBeEarned, Ack, Bare
    <3>2. \A i \in 1 .. Len(bwd') : WillBeEarned(bwd'[i])
             \/ \E j \in 1 .. Len(bwd) : bwd'[i] = bwd[j]
      BY <1>0, <2>0, <2>a DEF WillBeEarned, Ack, Bare
    <3> QED
      BY <1>0, <1>b, <2>0, <3>2, AcksStayEarned
  <2>3. Rest'
    <3>1. Head(fwd) = fwd[1] /\ Head(fwd) \in FwdFrame /\ 1 \in 1 .. Len(fwd)
      BY <1>0, <2>0, ConsumeFacts
    <3>2. expected < FinSequence /\ expected = sequence
      BY <1>0, <1>b, <2>0, <3>1, DataFrameBody DEF FramesAreSent
    <3>3. Head(fwd).body = File[expected + 1] /\ Head(fwd).body \in Block
      BY <2>0, <3>1, DataFrameBody
    <3>5. DataIsPrefix'
      BY <1>0, <1>b, <2>0, <3>3, AppendFacts
    <3>6. StopAndWait' /\ ~Validated' /\ sState # "done" /\ UNCHANGED sState
      BY <1>0, <1>b, <2>0, <2>a, <3>2
    <3> QED
      BY <1>0, <1>b, <2>0, <2>a, <3>5, <3>6
  <2> QED
    BY <1>a, <2>1, <2>2, <2>3
<1>9. CASE ReceiverReAcks
  <2>0. /\ fwd # <<>> /\ fwd' = Tail(fwd) /\ UNCHANGED <<sVars, announced, data, expected>>
        /\ rState = "data"
    BY <1>9 DEF ReceiverReAcks
  <2>a. /\ rState' \in {"data", "failed"}
        /\ \A i \in 1 .. Len(bwd') :
             \/ bwd'[i].kind = "A" => WillBeEarned(bwd'[i])
             \/ \E j \in 1 .. Len(bwd) : bwd'[i] = bwd[j]
    <3>1. CASE IsPreceding(Head(fwd))
      <4>1. /\ Acknowledge(Head(fwd).seq, "data", "failed")
            /\ Head(fwd).seq = expected - 1 /\ expected # 0
        BY <1>9, <3>1 DEF ReceiverReAcks, IsPreceding
      <4>2. Head(fwd).seq \in Sequences
        BY <1>0, <4>1 DEF Sequences
      <4>3. WillBeEarned(Ack(Head(fwd).seq))
        BY <1>0, <2>0, <4>1 DEF WillBeEarned, Ack, Bare
      <4>4. /\ rState' \in {"data", "failed"}
            /\ \A i \in 1 .. Len(bwd') : bwd'[i] = Ack(Head(fwd).seq)
                 \/ \E j \in 1 .. Len(bwd) : bwd'[i] = bwd[j]
        BY <1>0, <4>1, <4>2, AcknowledgeFacts
      <4> HIDE DEF WillBeEarned
      <4> QED
        BY <4>3, <4>4
    <3>2. CASE ~IsPreceding(Head(fwd))
      <4>1. Refuse("data")
        BY <1>9, <3>2 DEF ReceiverReAcks
      <4>2. /\ rState' \in {"data", "failed"}
            /\ \A i \in 1 .. Len(bwd') : bwd'[i] = Nak(expected)
                 \/ \E j \in 1 .. Len(bwd) : bwd'[i] = bwd[j]
        BY <1>0, <4>1, RefuseFacts
      <4>3. Nak(expected).kind # "A"
        BY DEF Nak, Bare
      <4> QED
        BY <4>2, <4>3
    <3> QED
      BY <3>1, <3>2
  <2>1. FramesAreSent'
    BY <1>0, <1>b, <2>0, ConsumedFramesStaySent
  <2>2. AcksAreEarned'
    BY <1>0, <1>b, <2>0, <2>a, AcksStayEarned
  <2>3. Rest'
    BY <1>0, <1>b, <2>0, <2>a
  <2> QED
    BY <1>a, <2>1, <2>2, <2>3
<1>10. CASE ReceiverReadFails
  <2>0. /\ ReadFails /\ Refuse(AfterFailure) /\ rState = "data"
        /\ UNCHANGED <<sVars, announced, data, expected>>
    BY <1>10 DEF ReceiverReadFails
  <2>a. /\ rState' \in {"data", "failed"}
        /\ \A i \in 1 .. Len(bwd') : bwd'[i].kind # "A"
                 \/ \E j \in 1 .. Len(bwd) : bwd'[i] = bwd[j]
    BY <1>0, <2>0, RefuseFacts DEF Nak, Bare
  <2>1. FramesAreSent'
    BY <1>0, <1>b, <2>0, ReadFailsFacts, FramesStaySent
  <2>2. AcksAreEarned'
    <3>1. expected <= expected' /\ (Validated => Validated')
      BY <1>0, <2>0
    <3> QED
      BY <1>0, <1>b, <2>a, <3>1, AcksStayEarned
  <2>3. Rest'
    BY <1>0, <1>b, <2>0, <2>a
  <2> QED
    BY <1>a, <2>1, <2>2, <2>3
<1>11. CASE ReceiverCancelled
  <2>1. FramesAreSent'
    BY <1>0, <1>b, <1>11, ConsumeFacts DEF FramesAreSent, ReceiverCancelled
  <2>2. AcksAreEarned'
    BY <1>0, <1>b, <1>11 DEF AcksAreEarned, ReceiverCancelled
  <2>3. Rest'
    BY <1>0, <1>b, <1>11 DEF ReceiverCancelled
  <2> QED
    BY <1>a, <2>1, <2>2, <2>3
<1>12. CASE ReceiverAccepts
  <2>0. /\ fwd # <<>> /\ fwd' = Tail(fwd)
        /\ UNCHANGED <<sVars, announced, data, expected>>
        /\ rState = "fin" /\ data = File /\ ValidFinish(Head(fwd))
        /\ Acknowledge(expected, "grace", "broken")
    BY <1>12 DEF ReceiverAccepts, ValidFinish
  <2>a. /\ rState' = "grace" \/ (rState' = "broken" /\ IoMayFail)
        /\ \A i \in 1 .. Len(bwd') : bwd'[i] = Ack(expected)
                 \/ \E j \in 1 .. Len(bwd) : bwd'[i] = bwd[j]
    <3>1. expected \in Sequences
      BY <1>0 DEF Sequences
    <3> QED
      BY <1>0, <2>0, <3>1, AcknowledgeFacts
  <2>1. FramesAreSent'
    BY <1>0, <1>b, <2>0, ConsumedFramesStaySent
  <2>2. AcksAreEarned'
    <3>1. expected = FinSequence /\ expected' = expected /\ Validated'
      BY <1>0, <1>b, <2>0, <2>a
    <3>2. WillBeEarned(Ack(expected))
      BY <3>1 DEF WillBeEarned, Ack, Bare
    <3>3. \A i \in 1 .. Len(bwd') : WillBeEarned(bwd'[i])
             \/ \E j \in 1 .. Len(bwd) : bwd'[i] = bwd[j]
      BY <2>a, <3>2
    <3> QED
      BY <1>0, <1>b, <3>1, <3>3, AcksStayEarned
  <2>3. Rest'
    BY <1>0, <1>b, <2>0, <2>a
  <2> QED
    BY <1>a, <2>1, <2>2, <2>3
<1>13. CASE ReceiverNaksFinish
  <2>0. /\ fwd # <<>> /\ fwd' = Tail(fwd)
        /\ UNCHANGED <<sVars, announced, data, expected>>
        /\ rState = "fin" /\ Refuse(AfterFailure)
    BY <1>13 DEF ReceiverNaksFinish
  <2>a. /\ rState' \in {"fin", "failed"}
        /\ \A i \in 1 .. Len(bwd') : bwd'[i].kind # "A"
                 \/ \E j \in 1 .. Len(bwd) : bwd'[i] = bwd[j]
    BY <1>0, <2>0, RefuseFacts DEF Nak, Bare
  <2>1. FramesAreSent'
    BY <1>0, <1>b, <2>0, ConsumedFramesStaySent
  <2>2. AcksAreEarned'
    BY <1>0, <1>b, <2>0, <2>a, AcksStayEarned
  <2>3. Rest'
    BY <1>0, <1>b, <2>0, <2>a
  <2> QED
    BY <1>a, <2>1, <2>2, <2>3
<1>14. CASE ReceiverFinishReadFails
  <2>0. /\ ReadFails /\ rState = "fin"
        /\ Refuse(AfterFailure) \/ (UNCHANGED bwd /\ rState' = AfterFailure)
        /\ UNCHANGED <<sVars, announced, data, expected>>
    BY <1>14 DEF ReceiverFinishReadFails
  <2>a. /\ rState' \in {"fin", "failed"}
        /\ \A i \in 1 .. Len(bwd') : bwd'[i].kind # "A"
                 \/ \E j \in 1 .. Len(bwd) : bwd'[i] = bwd[j]
    <3>1. CASE Refuse(AfterFailure)
      BY <1>0, <2>0, <3>1, RefuseFacts DEF Nak, Bare
    <3>2. CASE UNCHANGED bwd /\ rState' = AfterFailure
      BY <2>0, <3>2
    <3> QED
      BY <2>0, <3>1, <3>2
  <2>1. FramesAreSent'
    BY <1>0, <1>b, <2>0, ReadFailsFacts, FramesStaySent
  <2>2. AcksAreEarned'
    BY <1>0, <1>b, <2>0, <2>a, AcksStayEarned
  <2>3. Rest'
    BY <1>0, <1>b, <2>0, <2>a
  <2> QED
    BY <1>a, <2>1, <2>2, <2>3
<1>15. CASE GraceConfirmed
  <2>1. FramesAreSent'
    BY <1>0, <1>b, <1>15, ConsumeFacts DEF FramesAreSent, GraceConfirmed
  <2>2. AcksAreEarned'
    BY <1>0, <1>b, <1>15 DEF AcksAreEarned, GraceConfirmed
  <2>3. Rest'
    BY <1>0, <1>b, <1>15 DEF GraceConfirmed
  <2> QED
    BY <1>a, <2>1, <2>2, <2>3
<1>16. CASE GraceReAcks
  <2>0. /\ fwd # <<>> /\ fwd' = Tail(fwd)
        /\ UNCHANGED <<sVars, announced, data, expected>>
        /\ rState = "grace"
        /\ Acknowledge(expected, "grace",
                       IF Direction = "put" THEN "grace" ELSE "broken")
    BY <1>16 DEF GraceReAcks
  <2>a. /\ rState' = "grace" \/ (rState' = "broken" /\ IoMayFail)
        /\ \A i \in 1 .. Len(bwd') : bwd'[i] = Ack(expected)
                 \/ \E j \in 1 .. Len(bwd) : bwd'[i] = bwd[j]
    <3>1. expected \in Sequences
      BY <1>0 DEF Sequences
    <3> QED
      BY <1>0, <2>0, <3>1, AcknowledgeFacts
  <2>1. FramesAreSent'
    BY <1>0, <1>b, <2>0, ConsumedFramesStaySent
  <2>2. AcksAreEarned'
    <3>1. expected = FinSequence /\ expected' = expected /\ Validated'
      BY <1>0, <1>b, <2>0, <2>a
    <3>2. WillBeEarned(Ack(expected))
      BY <3>1 DEF WillBeEarned, Ack, Bare
    <3>3. \A i \in 1 .. Len(bwd') : WillBeEarned(bwd'[i])
             \/ \E j \in 1 .. Len(bwd) : bwd'[i] = bwd[j]
      BY <2>a, <3>2
    <3> QED
      BY <1>0, <1>b, <3>1, <3>3, AcksStayEarned
  <2>3. Rest'
    BY <1>0, <1>b, <2>0, <2>a
  <2> QED
    BY <1>a, <2>1, <2>2, <2>3
<1>17. CASE GraceDrops
  <2>1. FramesAreSent'
    BY <1>0, <1>b, <1>17, ConsumeFacts DEF FramesAreSent, GraceDrops
  <2>2. AcksAreEarned'
    BY <1>0, <1>b, <1>17 DEF AcksAreEarned, GraceDrops
  <2>3. Rest'
    BY <1>0, <1>b, <1>17 DEF GraceDrops
  <2> QED
    BY <1>a, <2>1, <2>2, <2>3
<1>18. CASE GraceEnds
  <2>1. FramesAreSent'
    BY <1>b, <1>18 DEF FramesAreSent, GraceEnds
  <2>2. AcksAreEarned'
    BY <1>0, <1>b, <1>18 DEF AcksAreEarned, GraceEnds
  <2>3. Rest'
    BY <1>0, <1>b, <1>18 DEF GraceEnds
  <2> QED
    BY <1>a, <2>1, <2>2, <2>3
<1>19. CASE ReceiverIoFails
  <2>0. /\ IoMayFail /\ UNCHANGED <<sVars, announced, data, expected, fwd, bwd>>
        /\ rState \in {"data", "fin", "grace"}
        /\ rState' = IF rState = "grace" THEN "broken" ELSE "failed"
    BY <1>19 DEF ReceiverIoFails, Receiving
  <2>1. FramesAreSent'
    BY <1>b, <2>0 DEF FramesAreSent
  <2>2. AcksAreEarned'
    BY <1>0, <1>b, <2>0, AcksStayEarned
  <2>3. Rest'
    BY <1>0, <1>b, <2>0
  <2> QED
    BY <1>a, <2>1, <2>2, <2>3
<1>20. CASE Fault
  <2>1. FramesAreSent'
    <3>1. CASE fwd' = fwd
      BY <1>0, <1>b, <1>20, <3>1 DEF FramesAreSent, Fault
    <3>2. CASE fwd # <<>> /\ fwd' \in Outcomes("fwd", fwd)
      <4>1. \A i \in 1 .. Len(fwd') :
              \/ fwd'[i] \in {Wreck("bad"), Wreck("cancel")}
              \/ \E j \in 1 .. Len(fwd) : fwd'[i] = fwd[j]
        BY <1>0, <3>2, FrameFacts, OutcomeFacts
      <4> QED
        BY <1>b, <1>20, <4>1 DEF FramesAreSent, Fault, Wreck, Bare
    <3> QED
      BY <1>20, <3>1, <3>2 DEF Fault
  <2>2. AcksAreEarned'
    <3>1. CASE bwd' = bwd
      BY <1>0, <1>b, <1>20, <3>1 DEF AcksAreEarned, Fault
    <3>2. CASE bwd # <<>> /\ bwd' \in Outcomes("bwd", bwd)
      <4>1. \A i \in 1 .. Len(bwd') :
              \/ bwd'[i] \in {Wreck("bad"), Wreck("cancel")}
              \/ \E j \in 1 .. Len(bwd) : bwd'[i] = bwd[j]
        BY <1>0, <3>2, FrameFacts, OutcomeFacts
      <4> QED
        BY <1>b, <1>20, <4>1 DEF AcksAreEarned, Fault, Wreck, Bare
    <3> QED
      BY <1>20, <3>1, <3>2 DEF Fault
  <2>3. Rest'
    BY <1>0, <1>b, <1>20 DEF Fault, Wreck, Bare
  <2> QED
    BY <1>a, <2>1, <2>2, <2>3
<1>21. CASE Tick
  <2>1. FramesAreSent'
    BY <1>b, <1>21 DEF FramesAreSent, Tick
  <2>2. AcksAreEarned'
    BY <1>0, <1>b, <1>21 DEF AcksAreEarned, Tick
  <2>3. Rest'
    BY <1>0, <1>b, <1>21 DEF Tick
  <2> QED
    BY <1>a, <2>1, <2>2, <2>3
<1>22. CASE Finished
  <2>1. FramesAreSent'
    BY <1>b, <1>22 DEF FramesAreSent, Finished, vars
  <2>2. AcksAreEarned'
    BY <1>0, <1>b, <1>22 DEF AcksAreEarned, Finished, vars
  <2>3. Rest'
    BY <1>0, <1>b, <1>22 DEF Finished, vars
  <2> QED
    BY <1>a, <2>1, <2>2, <2>3
<1>23. CASE UNCHANGED vars
  <2>1. FramesAreSent'
    BY <1>b, <1>23 DEF FramesAreSent, vars
  <2>2. AcksAreEarned'
    BY <1>0, <1>b, <1>23 DEF AcksAreEarned, vars
  <2>3. Rest'
    BY <1>0, <1>b, <1>23 DEF vars
  <2> QED
    BY <1>a, <2>1, <2>2, <2>3
<1> QED
  BY <1>1, <1>2, <1>3, <1>4, <1>5, <1>6, <1>7, <1>8, <1>9, <1>10,
     <1>11, <1>12, <1>13, <1>14, <1>15, <1>16, <1>17, <1>18, <1>19, <1>20,
     <1>21, <1>22, <1>23
     DEF Next, Sender, SenderMoves, Receiver, ReceiverMoves

(* The inductive invariant holds in every reachable state.                  *)
THEOREM Invariance == Spec => []IInv
<1>1. IInv /\ (TypeOK /\ FailureLimit)' /\ [Next]_vars => IInv'
  BY InvariantStep
<1> QED
  BY <1>1, InvariantInit, TypeCorrect, PTL DEF Spec

-----------------------------------------------------------------------------
(* The properties                                                           *)

(* Whatever is lost, damaged, late or repeated, the receiver has written a
   prefix of the file and the two ends are at most one frame apart.         *)
THEOREM WrittenInOrder == Spec => [](DataIsPrefix /\ StopAndWait)
<1>1. IInv => DataIsPrefix /\ StopAndWait
  BY DEF IInv
<1> QED
  BY <1>1, Invariance, PTL

(* A sender that returns success has a receiver that found the file whole,
   and that keeps it unless a port may fail.                                *)
THEOREM SuccessIsNeverFalse == Spec => []SuccessMeansValidated
<1>1. IInv => SuccessMeansValidated
  BY DEF IInv
<1> QED
  BY <1>1, Invariance, PTL

(* No step takes an acceptance back or touches the file after it.           *)
THEOREM AcceptanceStands ==
  ASSUME ~ControllerMayBreak
  PROVE  Spec => AcceptanceIsFinal
<1>1. IInv /\ [Next]_vars => [Accepted => Accepted' /\ data' = data]_vars
  <2> SUFFICES ASSUME IInv, Next, Accepted
               PROVE  Accepted' /\ data' = data
    BY DEF vars
  <2> USE DEF Accepted, sVars, rVars, Receives
  <2>1. CASE Sender
    BY <2>1 DEF Sender, SenderMoves, SendFrame, SenderTimesOut, SenderRetries,
       SenderCancelled, SenderAdvances, SenderFinishes, SenderIoFails, announced
  <2>2. CASE ReceiverWrites \/ ReceiverReAcks
               \/ ReceiverReadFails \/ ReceiverCancelled \/ ReceiverAccepts
               \/ ReceiverNaksFinish \/ ReceiverFinishReadFails \/ ReceiverIoFails
    BY <2>2, BoundAssumption, ModeAssumption
       DEF ReceiverWrites, ReceiverReAcks, ReceiverReadFails,
       ReceiverCancelled, ReceiverAccepts, ReceiverNaksFinish,
       ReceiverFinishReadFails, ReceiverIoFails, ControllerMayBreak
  <2>3. CASE GraceConfirmed \/ GraceReAcks \/ GraceDrops \/ GraceEnds
    BY <2>3, ModeAssumption
       DEF GraceConfirmed, GraceReAcks, GraceDrops, GraceEnds, Acknowledge,
           ControllerMayBreak
  <2>4. CASE Fault \/ Tick \/ Finished
    BY <2>4 DEF Fault, Tick, Finished, vars
  <2> QED
    BY <2>1, <2>2, <2>3, <2>4 DEF Next, Receiver, ReceiverMoves
<1> QED
  BY <1>1, Invariance, PTL DEF Spec, AcceptanceIsFinal

(* The protocol implements the abstract transfer: every step delivers the
   next block, accepts, reports success once the file was found whole, aborts
   one side, withdraws what was found whole (only where a port may fail), or
   leaves the abstract state alone.                                         *)
THEOREM Refinement == Spec => ImplementsTransfer
<1>1. Init => Transfer!Init
  BY DEF Init, Transfer!Init, Accepted
<1>2. IInv /\ [Next]_vars => [Transfer!Next]_(Transfer!absVars)
  <2> SUFFICES ASSUME IInv, [Next]_vars
               PROVE  Transfer!Next \/ UNCHANGED Transfer!absVars
    BY DEF Transfer!absVars
  <2> USE DEF sVars, rVars, Receives, Incoming, Accepted, Transfer!absVars
  <2>1. CASE Sender
    <3>1. CASE SenderFinishes
      <4>1. bwd # <<>> /\ Head(bwd).kind = "A" /\ Head(bwd).seq = FinSequence
        BY <3>1 DEF SenderFinishes, IsAwaitedAck
      <4>2. Head(bwd) = bwd[1] /\ 1 \in 1 .. Len(bwd)
        BY <4>1, ConsumeFacts DEF IInv, TypeOK
      <4>3. Validated
        BY <4>1, <4>2, FrameFacts DEF IInv, TypeOK, AcksAreEarned, Sequences
      <4>4. Transfer!Succeed
        BY <3>1, <4>3 DEF SenderFinishes, Validated, Transfer!Succeed
      <4> QED
        BY <4>4 DEF Transfer!Next
    <3>2. CASE ~SenderFinishes
      <4>1. /\ sState \in {"send", "wait"} /\ sState' \in {"send", "wait", "failed"}
            /\ UNCHANGED rVars
        BY <2>1, <3>2 DEF Sender, SenderMoves, SendFrame, SenderTimesOut, SenderRetries,
           SenderCancelled, SenderAdvances, SenderIoFails, AttemptFails
      <4>2. CASE sState' = "failed"
        <5>1. Transfer!AbortSource
          BY <4>1, <4>2 DEF Transfer!AbortSource
        <5> QED
          BY <5>1 DEF Transfer!Next
      <4>3. CASE sState' # "failed"
        BY <4>1, <4>3
      <4> QED
        BY <4>2, <4>3
    <3> QED
      BY <3>1, <3>2
  <2>2. CASE ReceiverWrites
    <3>1. /\ Head(fwd) = fwd[1] /\ Head(fwd) \in FwdFrame
          /\ Head(fwd).kind = "D" /\ Head(fwd).seq = expected
          /\ data' = Append(data, Head(fwd).body)
          /\ rState = "data" /\ UNCHANGED sVars
      BY <2>2, ConsumeFacts DEF IInv, TypeOK, ReceiverWrites
    <3>2. rState' \in {"data", "fin", "failed"}
      BY <2>2 DEF ReceiverWrites, Acknowledge
    <3>3. Head(fwd).body = File[Len(data) + 1] /\ Len(data) < Len(File)
      BY <3>1, DataFrameBody, FrameFacts DEF IInv, DataIsPrefix, FinSequence
    <3>4. CASE rState' # "failed"
      <4>1. Transfer!Deliver
        BY <3>1, <3>2, <3>3, <3>4 DEF Transfer!Deliver
      <4> QED
        BY <4>1 DEF Transfer!Next
    <3>5. CASE rState' = "failed"
      <4>1. Transfer!AbortSink
        BY <3>1, <3>3, <3>5 DEF Transfer!AbortSink
      <4> QED
        BY <4>1 DEF Transfer!Next
    <3> QED
      BY <3>4, <3>5
  <2>3. CASE ReceiverAccepts
    <3>1. /\ rState = "fin" /\ data = File /\ UNCHANGED <<sVars, data>>
          /\ rState' = "grace" \/ (rState' = "broken" /\ IoMayFail)
      BY <2>3 DEF ReceiverAccepts, ValidFinish, Acknowledge
    <3>2. CASE rState' = "grace"
      <4>1. Transfer!Accept
        BY <3>1, <3>2 DEF Transfer!Accept
      <4> QED
        BY <4>1 DEF Transfer!Next
    <3>3. CASE rState' = "broken" /\ IoMayFail
      <4>1. Transfer!Withdraw
        BY <3>1, <3>3 DEF Transfer!Withdraw
      <4> QED
        BY <4>1 DEF Transfer!Next
    <3> QED
      BY <3>1, <3>2, <3>3
  <2>4. CASE \/ ReceiverReAcks \/ ReceiverReadFails
             \/ ReceiverCancelled \/ ReceiverNaksFinish
             \/ ReceiverFinishReadFails \/ (ReceiverIoFails /\ rState # "grace")
    <3>1. /\ rState \in {"data", "fin"} /\ rState' \in {"data", "fin", "failed"}
          /\ UNCHANGED <<sVars, data>>
      BY <2>4 DEF ReceiverReAcks, ReceiverReadFails,
         ReceiverCancelled, ReceiverNaksFinish, ReceiverFinishReadFails,
         ReceiverIoFails, AfterFailure, Refuse, Acknowledge, Receiving
    <3>2. CASE rState' = "failed"
      <4>1. Transfer!AbortSink
        BY <3>1, <3>2 DEF Transfer!AbortSink
      <4> QED
        BY <4>1 DEF Transfer!Next
    <3>3. CASE rState' # "failed"
      BY <3>1, <3>3
    <3> QED
      BY <3>2, <3>3
  <2>5. CASE \/ GraceConfirmed \/ GraceReAcks \/ GraceDrops \/ GraceEnds
             \/ (ReceiverIoFails /\ rState = "grace")
    <3>1. /\ rState = "grace" /\ UNCHANGED <<sVars, data>>
          /\ rState' \in {"grace", "ok"} \/ (rState' = "broken" /\ IoMayFail)
      BY <2>5 DEF GraceConfirmed, GraceReAcks, GraceDrops, GraceEnds,
         Acknowledge, ReceiverIoFails
    <3>2. CASE rState' = "broken" /\ IoMayFail
      <4>1. data = File
        BY <3>1 DEF IInv, PhaseMatchesData, Validated
      <4>2. Transfer!Withdraw
        BY <3>1, <3>2, <4>1 DEF Transfer!Withdraw
      <4> QED
        BY <4>2 DEF Transfer!Next
    <3>3. CASE rState' \in {"grace", "ok"}
      BY <3>1, <3>3
    <3> QED
      BY <3>1, <3>2, <3>3
  <2>6. CASE Fault \/ Tick \/ Finished \/ UNCHANGED vars
    BY <2>6 DEF Fault, Tick, Finished, vars
  <2> QED
    BY <2>1, <2>2, <2>3, <2>4, <2>5, <2>6 DEF Next, Receiver, ReceiverMoves
<1> QED
  BY <1>1, <1>2, Invariance, PTL DEF Spec, ImplementsTransfer, Transfer!Spec
=============================================================================
