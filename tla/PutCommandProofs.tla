--------------------------- MODULE PutCommandProofs ---------------------------
(***************************************************************************)
(* A PUT command runs one transfer of W98Ser2 and nothing else happens to   *)
(* it, so that what is proved of the transfer holds inside the command; and *)
(* a put that returns has stored the whole file.                            *)
(***************************************************************************)
EXTENDS PutCommand, W98Ser2Proofs

(* Inside a PUT command (handle_put, Agent.put) the two frame loops behave  *)
(* as the transfer of W98Ser2: control lines, refusals, a killed agent and  *)
(* the result line only restrict when they take their steps.                *)
THEOREM RunsOneTransfer == PutSpec => Spec
<1>1. PutInit => Init
  BY DEF PutInit
<1>2. [PutNext]_putVars => [Next]_vars
  <2> SUFFICES ASSUME [PutNext]_putVars
               PROVE  Next \/ UNCHANGED vars
    OBVIOUS
  <2>1. CASE Agent \/ AgentCannotAnswer \/ AgentIoFails \/ AgentKilled
    BY <2>1 DEF Agent, AgentOpens, AgentRefuses, AgentDeletes, AgentStores,
       AgentReceives, AgentCannotAnswer, AgentIoFails, AgentKilled, Next,
       Receiver
  <2>2. CASE Client \/ ClientIoFails \/ ClientBreaks
    BY <2>2 DEF Client, ClientStarts, ClientRefused, ClientSends, ClientAwaits,
       ClientFails, ClientReads, ClientMisreads, ClientTimesOut, ClientIoFails,
       ClientBreaks, Next, Sender
  <2>3. CASE LineFault \/ FrameFault \/ Clock
    BY <2>3 DEF LineFault, FrameFault, Clock, Next
  <2>4. CASE UNCHANGED putVars
    BY <2>4 DEF putVars
  <2> QED
    BY <2>1, <2>2, <2>3, <2>4 DEF PutNext
<1> QED
  BY <1>1, <1>2, PTL DEF PutSpec, Spec

-----------------------------------------------------------------------------
(* The result line                                                          *)

\* A result line is only sent by an agent that is done with the file, and a
\* client that waits for it or has read it has seen its transfer succeed.
Kept ==
  /\ agent = "closed" /\ rState = "ok"
  /\ path = "requested" => target = "stored"

ResultIsEarned ==
  /\ replies \in Seq({"READY", "STORED", "ERR", "garbled"})
  /\ agent = "listening" => replies = <<>>
  /\ \A i \in 1 .. Len(replies) :
       replies[i] = "STORED" => Kept
  /\ client = "returned" => Kept
  /\ client \in {"awaiting", "returned"} => sState = "done"

(* What a sender that is done can still become.                             *)
LEMMA DoneIsFinal ==
  ASSUME sState = "done", [Next]_vars
  PROVE  sState' = "done"
<1>1. CASE Sender
  BY <1>1 DEF Sender, SenderMoves, SendFrame, SenderTimesOut, SenderRetries,
     SenderCancelled, SenderAdvances, SenderFinishes, SenderIoFails
<1>2. CASE Receiver
  BY <1>2 DEF Receiver, ReceiverMoves, ReceiverWrites, ReceiverReAcks,
     ReceiverReadFails, ReceiverCancelled, ReceiverAccepts,
     ReceiverNaksFinish, ReceiverFinishReadFails, GraceConfirmed, GraceReAcks,
     GraceDrops, GraceEnds, ReceiverIoFails, sVars
<1>3. CASE Fault \/ Tick \/ Finished \/ UNCHANGED vars
  BY <1>3 DEF Fault, Tick, Finished, vars, sVars
<1> QED
  BY <1>1, <1>2, <1>3 DEF Next

(* Nor does a receiver that is done become anything else.                   *)
LEMMA OkIsFinal ==
  ASSUME rState = "ok", [Next]_vars
  PROVE  rState' = "ok"
<1>1. CASE Sender
  BY <1>1 DEF Sender, SenderMoves, SendFrame, SenderTimesOut, SenderRetries,
     SenderCancelled, SenderAdvances, SenderFinishes, SenderIoFails, rVars
<1>2. CASE Receiver
  BY <1>2 DEF Receiver, ReceiverMoves, ReceiverWrites, ReceiverReAcks,
     ReceiverReadFails, ReceiverCancelled, ReceiverAccepts,
     ReceiverNaksFinish, ReceiverFinishReadFails, GraceConfirmed, GraceReAcks,
     GraceDrops, GraceEnds, ReceiverIoFails, Receives, Receiving
<1>3. CASE Fault \/ Tick \/ Finished \/ UNCHANGED vars
  BY <1>3 DEF Fault, Tick, Finished, vars, rVars
<1> QED
  BY <1>1, <1>2, <1>3 DEF Next

LEMMA ResultInit ==
  ASSUME PutInit
  PROVE  ResultIsEarned
BY DEF PutInit, ResultIsEarned

LEMMA ResultStep ==
  ASSUME ResultIsEarned, [PutNext]_putVars
  PROVE  ResultIsEarned'
<1> DEFINE Line == {"READY", "STORED", "ERR", "garbled"}
<1> USE DEF ResultIsEarned, Kept, Becomes, Answer
<1>1. CASE AgentOpens
  BY <1>1 DEF AgentOpens, vars, sVars, rVars
<1>2. CASE AgentRefuses
  <2>1. /\ UNCHANGED <<sState, rState, path, target, client>> /\ replies = <<>>
        /\ agent = "listening" /\ agent' = "closed"
        /\ replies' = Append(replies, "ERR") \/ replies' = replies
    BY <1>2 DEF AgentRefuses, vars, sVars, rVars
  <2>2. CASE replies' = Append(replies, "ERR")
    BY <2>1, <2>2
  <2>3. CASE replies' = replies
    BY <2>1, <2>3
  <2> QED
    BY <2>1, <2>2, <2>3
<1>3. CASE AgentDeletes
  BY <1>3 DEF AgentDeletes, vars, sVars, rVars
<1>4. CASE AgentStores
  BY <1>4 DEF AgentStores, vars, sVars, rVars
<1>5. CASE AgentReceives \/ AgentIoFails \/ FrameFault \/ Clock \/ ClientSends
             \/ ClientIoFails \/ UNCHANGED putVars
  <2>1. [Next]_vars /\ UNCHANGED commandVars
    BY <1>5 DEF AgentReceives, AgentIoFails, FrameFault, Clock, ClientSends,
       ClientIoFails, putVars, Next, Sender, Receiver
  <2> QED
    BY <2>1, DoneIsFinal, OkIsFinal DEF commandVars
<1>6. CASE AgentKilled
  BY <1>6 DEF AgentKilled, vars, sVars, rVars
<1>7. CASE ClientStarts \/ ClientRefused \/ ClientReads
  <2>1. /\ replies # <<>> /\ replies' = Tail(replies)
        /\ UNCHANGED <<sState, rState, path, target>>
        /\ agent' = agent
    BY <1>7 DEF ClientStarts, ClientRefused, ClientReads, vars, sVars, rVars
  <2>2. /\ replies' \in Seq(Line)
        /\ \A i \in 1 .. Len(replies') : replies'[i] = replies[i + 1]
        /\ \A i \in 1 .. Len(replies') : i + 1 \in 1 .. Len(replies)
        /\ Head(replies) = replies[1] /\ 1 \in 1 .. Len(replies)
    BY <2>1
  <2> QED
    BY <1>7, <2>1, <2>2 DEF ClientStarts, ClientRefused, ClientReads
<1>8. CASE ClientAwaits \/ ClientFails \/ ClientMisreads \/ ClientTimesOut
             \/ ClientBreaks
  BY <1>8 DEF ClientAwaits, ClientFails, ClientMisreads, ClientTimesOut,
     ClientBreaks, vars, sVars, rVars
<1>9. CASE LineFault
  <2>1. /\ replies # <<>>
        /\ UNCHANGED <<sState, rState, path, target, agent, client>>
    BY <1>9 DEF LineFault, vars, sVars, rVars
  <2>2. CASE replies' = Tail(replies)
    <3>1. /\ replies' \in Seq(Line)
          /\ \A i \in 1 .. Len(replies') : replies'[i] = replies[i + 1]
          /\ \A i \in 1 .. Len(replies') : i + 1 \in 1 .. Len(replies)
      BY <2>1, <2>2
    <3> QED
      BY <2>1, <3>1
  <2>3. CASE replies' = [replies EXCEPT ![1] = "garbled"]
    BY <2>1, <2>3
  <2> QED
    BY <1>9, <2>2, <2>3 DEF LineFault
<1>10. CASE AgentCannotAnswer
  <2>1. /\ UNCHANGED <<sState, rState, client>>
        /\ agent = "listening" /\ agent' = "closed"
        /\ replies' \in {<<>>, <<"ERR">>, <<"READY">>, <<"READY", "ERR">>}
    BY <1>10 DEF AgentCannotAnswer, vars, sVars, rVars
  <2>2. /\ replies' \in Seq(Line)
        /\ \A i \in 1 .. Len(replies') : replies'[i] # "STORED"
    <3>1. CASE replies' = <<>>
      BY <3>1
    <3>2. CASE replies' = <<"ERR">>
      BY <3>2
    <3>3. CASE replies' = <<"READY">>
      BY <3>3
    <3>4. CASE replies' = <<"READY", "ERR">>
      BY <3>4
    <3> QED
      BY <2>1, <3>1, <3>2, <3>3, <3>4
  <2> QED
    BY <2>1, <2>2
<1> QED
  BY <1>1, <1>2, <1>3, <1>4, <1>5, <1>6, <1>7, <1>8, <1>9, <1>10
     DEF PutNext, Agent, Client, putVars

(* A put of the client that returns has left the whole file, closed, under  *)
(* the requested name, for every file, every number of faults and every     *)
(* timing, unless line noise changed the name in the command line.          *)
THEOREM ReturnMeansStored ==
  ASSUME "path" \notin LineFaults
  PROVE  PutSpec => []OkMeansStored
<1>1. PutSpec => []IInv
  BY RunsOneTransfer, Invariance, PTL
<1>2. PutSpec => []ResultIsEarned
  BY ResultInit, ResultStep, PTL DEF PutSpec
<1>3. PutInit => path = "requested"
  BY DEF PutInit
<1>4. path = "requested" /\ [PutNext]_putVars => (path = "requested")'
  BY DEF PutNext, putVars, Agent, AgentOpens, AgentRefuses, AgentDeletes,
     AgentStores, AgentReceives, AgentCannotAnswer, AgentIoFails, AgentKilled,
     ReadNames, Client, ClientStarts, ClientRefused, ClientSends, ClientAwaits,
     ClientFails, ClientReads, ClientMisreads, ClientTimesOut, ClientIoFails,
     ClientBreaks, LineFault, FrameFault, Clock, commandVars
<1>5. IInv /\ ResultIsEarned /\ path = "requested" => OkMeansStored
  BY DEF IInv, SuccessMeansValidated, ResultIsEarned, Kept, OkMeansStored
<1> QED
  BY <1>1, <1>2, <1>3, <1>4, <1>5, PTL DEF PutSpec

-----------------------------------------------------------------------------
(* Type correctness                                                         *)

\* The agent says READY once and then one line, whatever comes.
FewLines ==
  /\ PutTypeOK
  /\ agent = "listening" => replies = <<>>
  /\ agent \in {"receiving", "killed"} => Len(replies) <= 1

LEMMA FewLinesStep ==
  ASSUME FewLines, [PutNext]_putVars
  PROVE  FewLines'
<1> DEFINE Line == {"READY", "STORED", "ERR", "garbled"}
<1> USE DEF FewLines, PutTypeOK, Becomes, Answer, ReadNames
<1>1. CASE AgentOpens
  BY <1>1 DEF AgentOpens
<1>2. CASE AgentRefuses
  <2>1. replies' = Append(replies, "ERR") \/ replies' = replies
    BY <1>2 DEF AgentRefuses
  <2>2. replies = <<>> /\ agent' = "closed" /\ UNCHANGED <<client, path, target>>
    BY <1>2 DEF AgentRefuses
  <2>3. replies' \in Seq(Line) /\ Len(replies') <= 2
    <3>1. CASE replies' = replies
      BY <2>2, <3>1
    <3>2. CASE replies' = Append(<<>>, "ERR")
      BY <3>2
    <3> QED
      BY <2>1, <2>2, <3>1, <3>2
  <2> QED
    BY <2>2, <2>3
<1>3. CASE AgentDeletes \/ AgentStores
  BY <1>3 DEF AgentDeletes, AgentStores
<1>4. CASE AgentCannotAnswer
  <2>1. replies' \in Seq(Line) /\ Len(replies') <= 2
    <3>1. CASE replies' = <<>>
      BY <3>1
    <3>2. CASE replies' = <<"ERR">>
      BY <3>2
    <3>3. CASE replies' = <<"READY">>
      BY <3>3
    <3>4. CASE replies' = <<"READY", "ERR">>
      BY <3>4
    <3> QED
      BY <1>4, <3>1, <3>2, <3>3, <3>4 DEF AgentCannotAnswer
  <2> QED
    BY <1>4, <2>1 DEF AgentCannotAnswer
<1>5. CASE AgentKilled
  BY <1>5 DEF AgentKilled
<1>6. CASE AgentReceives \/ AgentIoFails \/ FrameFault \/ Clock \/ ClientSends
             \/ ClientIoFails \/ UNCHANGED putVars
  BY <1>6 DEF AgentReceives, AgentIoFails, FrameFault, Clock, ClientSends,
     ClientIoFails, putVars, commandVars
<1>7. CASE ClientStarts \/ ClientRefused \/ ClientReads
  <2>1. /\ replies # <<>> /\ replies' = Tail(replies)
        /\ client' \in {"sending", "returned", "raised"}
        /\ UNCHANGED <<agent, path, target>>
    BY <1>7 DEF ClientStarts, ClientRefused, ClientReads
  <2>2. replies' \in Seq(Line) /\ Len(replies') = Len(replies) - 1 /\ Len(replies) \in Nat
    BY <2>1
  <2> QED
    BY <2>1, <2>2
<1>8. CASE ClientAwaits \/ ClientFails \/ ClientMisreads \/ ClientTimesOut
             \/ ClientBreaks
  BY <1>8 DEF ClientAwaits, ClientFails, ClientMisreads, ClientTimesOut,
     ClientBreaks
<1>9. CASE LineFault
  <2>1. replies # <<>> /\ UNCHANGED <<agent, client, path, target>>
    BY <1>9 DEF LineFault
  <2>2. /\ replies' \in Seq(Line) /\ Len(replies) \in Nat
        /\ Len(replies') \in {Len(replies), Len(replies) - 1}
    <3>1. CASE replies' = Tail(replies)
      BY <2>1, <3>1
    <3>2. CASE replies' = [replies EXCEPT ![1] = "garbled"]
      BY <2>1, <3>2
    <3> QED
      BY <1>9, <3>1, <3>2 DEF LineFault
  <2> QED
    BY <2>1, <2>2
<1> QED
  BY <1>1, <1>2, <1>3, <1>4, <1>5, <1>6, <1>7, <1>8, <1>9
     DEF PutNext, Agent, Client, putVars

(* The variables of the command around the transfer keep their types, and   *)
(* handle_put never has more than READY and one more line under way.        *)
THEOREM PutTypes == PutSpec => []PutTypeOK
<1>1. PutInit => FewLines
  BY DEF PutInit, FewLines, PutTypeOK
<1>2. FewLines => PutTypeOK
  BY DEF FewLines
<1> QED
  BY <1>1, <1>2, FewLinesStep, PTL DEF PutSpec

-----------------------------------------------------------------------------
(* A prompt line                                                            *)

\* docs/W98SER2-PROTOCOL.md: one frame is outstanding at a time.
Quiet == fwd = <<>> /\ bwd = <<>>
OneFrame ==
  \/ Len(fwd) = 1 /\ bwd = <<>>
  \/ fwd = <<>> /\ Len(bwd) = 1

\* With two programs that answer within a tick and frames that are damaged but
\* not swallowed, the sender never repeats a frame that is still to be answered:
\* a reply overtakes its timeout, and where none comes, because FIN or CONFIRM
\* was damaged on the way to the agent, the agent's wait ends before the
\* sender's does.
SendsIntoSilence ==
  sState = "send" /\ Receiving => Quiet

OneIsUnderWay ==
  sState = "wait" /\ Receiving =>
    /\ rState = "data" => OneFrame
    /\ Quiet \/ OneFrame
    /\ ~Quiet => sTimer = FrameTimeout

DataIsPrompt == rState = "data" => rTimer > 0

GraceIsShorter ==
  rState = "grace" =>
    /\ sState = "send" => rTimer = FinishGrace
    /\ sState = "wait" /\ ~Quiet => rTimer = FinishGrace
    /\ sState = "wait" /\ Quiet => rTimer < sTimer

ConfirmIsAwaited ==
  sState = "done" =>
    /\ Accepted => bwd = <<>>
    /\ rState = "grace" =>
         \/ fwd = <<>>
         \/ Len(fwd) = 1 /\ fwd[1].kind # "F" /\ rTimer > 0
    /\ rState = "ok" => fwd = <<>>

NothingIsAnswered == rState = "ok" => bwd = <<>>

InStep ==
  sState # "failed" /\ rState # "failed" =>
    /\ SendsIntoSilence /\ OneIsUnderWay /\ DataIsPrompt
    /\ GraceIsShorter /\ ConfirmIsAwaited /\ NothingIsAnswered

LEMMA InStepInit == Init => InStep
BY BoundAssumption
   DEF Init, InStep, SendsIntoSilence, OneIsUnderWay, DataIsPrompt,
       GraceIsShorter, ConfirmIsAwaited, NothingIsAnswered, Quiet, Accepted

(* What taking a frame off a channel, or putting one on it, makes of the
   number under way.                                                       *)
LEMMA NoFrames ==
  ASSUME NEW S, NEW q \in Seq(S)
  PROVE  (q = <<>>) <=> (Len(q) = 0)
OBVIOUS

LEMMA ChannelFacts ==
  ASSUME NEW S, NEW q \in Seq(S)
  PROVE  /\ Len(q) \in Nat /\ (q = <<>>) <=> (Len(q) = 0)
         /\ Len(q) = 1 => Tail(q) = <<>>
         /\ \A e \in S : q = <<>> => Append(q, e) # <<>> /\ Len(Append(q, e)) = 1
<1>1. Len(q) \in Nat /\ (q = <<>>) <=> (Len(q) = 0)
  OBVIOUS
<1>2. ASSUME Len(q) = 1
      PROVE  Tail(q) = <<>>
  <2>1. Tail(q) \in Seq(S) /\ Len(Tail(q)) = 0
    BY <1>2
  <2> QED
    BY <2>1, NoFrames
<1>3. ASSUME NEW e \in S, q = <<>>
      PROVE  Append(q, e) # <<>> /\ Len(Append(q, e)) = 1
  BY <1>3
<1> QED
  BY <1>1, <1>2, <1>3

(* A step of the sender, in a transfer where neither end has given up.      *)
LEMMA SenderInStep ==
  ASSUME Prompt, FinishGrace < FrameTimeout, ~IoMayFail,
         IInv, IInv', InStep, SenderMoves, UNCHANGED rVars,
         sState' # "failed", rState # "failed"
  PROVE  InStep'
<1>0. /\ fwd \in Seq(FwdFrame) /\ bwd \in Seq(BwdFrame)
      /\ fwd' \in Seq(FwdFrame) /\ bwd' \in Seq(BwdFrame)
      /\ rTimer \in Nat /\ sTimer \in Nat
      /\ FrameTimeout \in Nat \ {0} /\ FinishGrace \in Nat \ {0}
      /\ UNCHANGED <<rState, rTimer>>
  BY BoundAssumption DEF IInv, TypeOK, rVars
<1>1. CASE SendFrame
  <2>1. /\ sState = "send" /\ sState' = "wait" /\ bwd' = bwd
        /\ sTimer' = FrameTimeout /\ fwd' = Append(fwd, CurrentFrame)
    BY <1>1 DEF SendFrame
  <2>2. fwd = <<>> => Len(fwd') = 1 /\ fwd' # <<>>
    BY <1>0, <2>1
  <2> QED
    BY <1>0, <2>1, <2>2
       DEF InStep, SendsIntoSilence, OneIsUnderWay, DataIsPrompt, GraceIsShorter,
           ConfirmIsAwaited, NothingIsAnswered, Quiet, OneFrame, Receiving
<1>2. CASE SenderTimesOut
  <2>1. /\ sState = "wait" /\ sState' = "send" /\ UNCHANGED <<fwd, bwd>>
        /\ sTimer = 0
    BY <1>2 DEF SenderTimesOut, AttemptFails
  <2>2. rState = "data" => ~Quiet
    BY <1>0, <2>1 DEF InStep, OneIsUnderWay, Quiet, OneFrame, Receiving
  <2> QED
    BY <1>0, <2>1, <2>2
       DEF InStep, SendsIntoSilence, OneIsUnderWay, DataIsPrompt, GraceIsShorter,
           ConfirmIsAwaited, NothingIsAnswered, Quiet, OneFrame, Receiving
<1>3. CASE SenderRetries \/ SenderAdvances
  <2>1. /\ sState = "wait" /\ sState' = "send" /\ fwd' = fwd
        /\ bwd # <<>> /\ bwd' = Tail(bwd)
    BY <1>3 DEF SenderRetries, AttemptFails, SenderAdvances
  <2>2. Len(bwd) = 1 => bwd' = <<>>
    BY <1>0, <2>1, ChannelFacts
  <2> QED
    BY <1>0, <2>1, <2>2
       DEF InStep, SendsIntoSilence, OneIsUnderWay, DataIsPrompt, GraceIsShorter,
           ConfirmIsAwaited, NothingIsAnswered, Quiet, OneFrame, Receiving
<1>4. CASE SenderFinishes
  <2>1. /\ sState = "wait" /\ sState' = "done"
        /\ fwd' = Append(fwd, ConfirmFrame)
        /\ bwd # <<>> /\ bwd' = Tail(bwd)
    BY <1>4 DEF SenderFinishes
  <2>2. Accepted'
    BY <2>1 DEF IInv, SuccessMeansValidated
  <2>3. rState = "grace"
    BY <1>0, <2>1, <2>2 DEF Accepted, InStep, NothingIsAnswered
  <2>4. fwd = <<>> /\ Len(bwd) = 1 /\ rTimer = FinishGrace
    BY <1>0, <2>1, <2>3
       DEF InStep, OneIsUnderWay, GraceIsShorter, Quiet, OneFrame, Receiving
  <2>5. bwd' = <<>>
    BY <1>0, <2>1, <2>4, ChannelFacts
  <2>6. Len(fwd') = 1 /\ fwd'[1] = ConfirmFrame
    BY <1>0, <2>1, <2>4
  <2>7. ConfirmFrame.kind # "F"
    BY DEF ConfirmFrame, Bare
  <2> QED
    BY <1>0, <2>1, <2>3, <2>4, <2>5, <2>6, <2>7
       DEF InStep, SendsIntoSilence, OneIsUnderWay, DataIsPrompt, GraceIsShorter,
           ConfirmIsAwaited, NothingIsAnswered, Quiet, OneFrame, Receiving
<1>5. CASE SenderCancelled
  BY <1>5 DEF SenderCancelled
<1> QED
  BY <1>1, <1>2, <1>3, <1>4, <1>5 DEF SenderMoves

(* A step of the receiver.                                                  *)
LEMMA ReceiverInStep ==
  ASSUME Prompt, FinishGrace < FrameTimeout, ~IoMayFail,
         IInv, IInv', InStep, ReceiverMoves, UNCHANGED sVars,
         sState # "failed", rState' # "failed"
  PROVE  InStep'
<1>0. /\ fwd \in Seq(FwdFrame) /\ bwd \in Seq(BwdFrame)
      /\ fwd' \in Seq(FwdFrame) /\ bwd' \in Seq(BwdFrame)
      /\ rTimer \in Nat /\ sTimer \in Nat
      /\ FrameTimeout \in Nat \ {0} /\ FinishGrace \in Nat \ {0}
      /\ UNCHANGED <<sState, sTimer>>
      /\ sState \in {"send", "wait", "done", "failed"}
  BY BoundAssumption DEF IInv, TypeOK, sVars
<1>u. rState \in {"data", "fin"} => sState # "done"
  BY DEF IInv, SuccessMeansValidated, Accepted
<1>s. fwd # <<>> => Len(fwd) # 0
  BY <1>0, NoFrames
<1>t. fwd # <<>> /\ fwd' = Tail(fwd) /\ Len(fwd) = 1 => fwd' = <<>>
  BY <1>0, ChannelFacts
(* A frame is read and answered before the sender's timeout moves.          *)
<1>1. ASSUME rState \in {"data", "fin"}, fwd # <<>>, fwd' = Tail(fwd),
             NEW f, bwd' = Append(bwd, f), rTimer' \in Nat \ {0},
             rState' \in {"data", "fin", "grace"},
             rState' = "grace" => rTimer' = FinishGrace
      PROVE  InStep'
  <2>1. sState = "wait" /\ Len(fwd) = 1 /\ bwd = <<>> /\ sTimer = FrameTimeout
    BY <1>0, <1>u, <1>1
       DEF InStep, SendsIntoSilence, OneIsUnderWay, Quiet, OneFrame, Receiving
  <2>2. fwd' = <<>>
    BY <1>t, <1>1, <2>1
  <2>3. Len(bwd') = 1 /\ bwd' # <<>>
    BY <1>0, <1>1, <2>1
  <2> QED
    BY <1>0, <1>1, <2>1, <2>2, <2>3
       DEF InStep, SendsIntoSilence, OneIsUnderWay, DataIsPrompt, GraceIsShorter,
           ConfirmIsAwaited, NothingIsAnswered, Quiet, OneFrame, Receiving
<1> USE DEF Receives, Incoming, Consume, Reply, NextRead, AfterFailure,
            Acknowledge, Refuse
<1>2. CASE ReceiverWrites \/ ReceiverReAcks \/ ReceiverAccepts \/ ReceiverNaksFinish
  <2>1. /\ rState \in {"data", "fin"} /\ fwd # <<>> /\ fwd' = Tail(fwd)
        /\ \E f : bwd' = Append(bwd, f)
        /\ rTimer' \in {FrameTimeout, FinishGrace}
        /\ rState' \in {"data", "fin", "grace"}
        /\ rState' = "grace" => rTimer' = FinishGrace
    <3>1. CASE ReceiverWrites
      BY <3>1 DEF ReceiverWrites
    <3>2. CASE ReceiverReAcks
      BY <3>2 DEF ReceiverReAcks
    <3>3. CASE ReceiverAccepts
      BY <3>3 DEF ReceiverAccepts
    <3>4. CASE ReceiverNaksFinish
      BY <3>4 DEF ReceiverNaksFinish
    <3> QED
      BY <1>2, <3>1, <3>2, <3>3, <3>4
  <2> QED
    BY <1>0, <1>1, <2>1
<1>3. CASE ReceiverReadFails
  <2>1. rState = "data" /\ rTimer > 0
    BY <1>0, <1>3, <1>u DEF ReceiverReadFails, InStep, DataIsPrompt
  <2>2. /\ fwd # <<>> /\ fwd' = Tail(fwd)
        /\ \E f : bwd' = Append(bwd, f)
        /\ rTimer' = FrameTimeout
        /\ rState' = "data"
    BY <1>0, <1>3, <2>1 DEF ReceiverReadFails, ReadFails
  <2> QED
    BY <1>0, <1>1, <2>1, <2>2
<1>4. CASE ReceiverFinishReadFails
  <2>1. /\ rState = "fin" /\ rState' = "fin" /\ bwd' = bwd
        /\ fwd' = fwd \/ (fwd # <<>> /\ fwd' = Tail(fwd))
    BY <1>4, PutAssumption DEF ReceiverFinishReadFails, ReadFails
  <2>2. fwd' = fwd \/ (sState = "wait" => Quiet')
    BY <1>0, <1>u, <1>s, <1>t, <2>1
       DEF InStep, OneIsUnderWay, Quiet, OneFrame, Receiving
  <2>3. sState = "send" => fwd = <<>> /\ fwd' = fwd
    BY <2>1 DEF InStep, SendsIntoSilence, Quiet, Receiving
  <2> QED
    BY <1>0, <1>u, <2>1, <2>2, <2>3
       DEF InStep, SendsIntoSilence, OneIsUnderWay, DataIsPrompt, GraceIsShorter,
           ConfirmIsAwaited, NothingIsAnswered, Quiet, OneFrame, Receiving, Accepted
<1>5. CASE GraceConfirmed
  <2>1. rState = "grace" /\ rState' = "ok" /\ bwd' = bwd
        /\ fwd # <<>> /\ fwd' = Tail(fwd)
    BY <1>5 DEF GraceConfirmed
  <2>2. bwd = <<>> /\ sState # "send"
    BY <1>0, <1>s, <2>1
       DEF InStep, SendsIntoSilence, OneIsUnderWay, ConfirmIsAwaited, Quiet,
           OneFrame, Receiving, Accepted
  <2>3. sState = "done" => fwd' = <<>>
    BY <1>0, <1>s, <1>t, <2>1 DEF InStep, ConfirmIsAwaited
  <2> QED
    BY <1>0, <2>1, <2>2, <2>3
       DEF InStep, SendsIntoSilence, OneIsUnderWay, DataIsPrompt, GraceIsShorter,
           ConfirmIsAwaited, NothingIsAnswered, Receiving
<1>6. CASE GraceReAcks
  <2>1. /\ rState = "grace" /\ rState' = "grace" /\ rTimer' = rTimer
        /\ fwd # <<>> /\ fwd' = Tail(fwd) /\ fwd[1].kind = "F"
        /\ \E f : bwd' = Append(bwd, f)
    BY <1>0, <1>6 DEF GraceReAcks, rVars
  <2>2. /\ sState = "wait" /\ Len(fwd) = 1 /\ bwd = <<>>
        /\ sTimer = FrameTimeout /\ rTimer = FinishGrace
    BY <1>0, <1>s, <2>1
       DEF InStep, SendsIntoSilence, OneIsUnderWay, ConfirmIsAwaited,
           GraceIsShorter, Quiet, OneFrame, Receiving
  <2>3. fwd' = <<>> /\ Len(bwd') = 1 /\ bwd' # <<>>
    BY <1>0, <1>t, <2>1, <2>2
  <2> QED
    BY <1>0, <2>1, <2>2, <2>3
       DEF InStep, SendsIntoSilence, OneIsUnderWay, DataIsPrompt, GraceIsShorter,
           ConfirmIsAwaited, NothingIsAnswered, Quiet, OneFrame, Receiving
<1>7. CASE GraceDrops
  <2>1. /\ rState = "grace" /\ rState' = "grace" /\ rTimer' = rTimer
        /\ bwd' = bwd /\ fwd # <<>> /\ fwd' = Tail(fwd)
    BY <1>7 DEF GraceDrops, rVars
  <2>2. sState # "send" /\ Len(fwd) = 1 /\ bwd = <<>>
    BY <1>0, <1>s, <2>1
       DEF InStep, SendsIntoSilence, OneIsUnderWay, ConfirmIsAwaited,
           Quiet, OneFrame, Receiving, Accepted
  <2>3. sState = "wait" => sTimer = FrameTimeout /\ rTimer = FinishGrace
    BY <1>0, <2>1
       DEF InStep, OneIsUnderWay, GraceIsShorter, Quiet, Receiving
  <2>4. fwd' = <<>>
    BY <1>t, <2>1, <2>2
  <2> QED
    BY <1>0, <2>1, <2>2, <2>3, <2>4
       DEF InStep, SendsIntoSilence, OneIsUnderWay, DataIsPrompt, GraceIsShorter,
           ConfirmIsAwaited, NothingIsAnswered, Quiet, OneFrame, Receiving
<1>8. CASE GraceEnds
  <2>1. /\ rState = "grace" /\ rState' = "ok" /\ rTimer = 0
        /\ UNCHANGED <<fwd, bwd>>
    BY <1>8 DEF GraceEnds
  <2>2. bwd = <<>>
    BY <1>0, <2>1
       DEF InStep, SendsIntoSilence, ConfirmIsAwaited, GraceIsShorter, Quiet,
           Receiving, Accepted
  <2>3. sState = "done" => fwd = <<>>
    BY <1>0, <2>1 DEF InStep, ConfirmIsAwaited
  <2> QED
    BY <1>0, <2>1, <2>2, <2>3
       DEF InStep, SendsIntoSilence, OneIsUnderWay, DataIsPrompt, GraceIsShorter,
           ConfirmIsAwaited, NothingIsAnswered, Receiving
<1>9. CASE ReceiverCancelled
  BY <1>9 DEF ReceiverCancelled
<1> QED
  BY <1>2, <1>3, <1>4, <1>5, <1>6, <1>7, <1>8, <1>9 DEF ReceiverMoves

(* Damage leaves a frame where it was, and the clock only moves when nobody
   has anything to do.                                                      *)
LEMMA PathInStep ==
  ASSUME Prompt, "lost" \notin FaultKinds, ~IoMayFail,
         IInv, IInv', InStep, Fault \/ Tick
  PROVE  InStep'
<1>0. /\ fwd \in Seq(FwdFrame) /\ bwd \in Seq(BwdFrame)
      /\ rTimer \in Nat /\ sTimer \in Nat
      /\ UNCHANGED <<sState, rState>>
      /\ sState \in {"send", "wait", "done", "failed"}
      /\ rState \in {"data", "fin", "grace", "ok", "failed"}
  BY DEF IInv, TypeOK, Fault, Tick, sVars, rVars
<1>1. CASE Fault
  <2>1. ASSUME NEW S, NEW q \in Seq(S), q # <<>>, NEW link,
               Wreck("bad") \in S, Wreck("cancel") \in S,
               NEW r \in Outcomes(link, q)
        PROVE  Len(r) = Len(q) /\ r # <<>> /\ r[1].kind # "F"
    <3>1. PICK k \in FaultKinds \ {"lost"} : r = [q EXCEPT ![1] = Wreck(k)]
      BY <2>1 DEF Outcomes
    <3>2. Wreck(k) \in S
      BY <2>1, <3>1, ModeAssumption
    <3>3. Len(r) = Len(q) /\ r[1] = Wreck(k) /\ Len(q) \in Nat \ {0}
      BY <2>1, <3>1, <3>2, WreckFacts, ConsumeFacts
    <3>4. r \in Seq(S)
      BY <2>1, <3>1, <3>2, WreckFacts
    <3>5. Wreck(k).kind # "F"
      BY <3>1, ModeAssumption DEF Wreck, Bare
    <3> QED
      BY <3>3, <3>4, <3>5, NoFrames
  <2>2. /\ Len(fwd') = Len(fwd) /\ Len(bwd') = Len(bwd)
        /\ (fwd' = <<>>) <=> (fwd = <<>>)
        /\ (bwd' = <<>>) <=> (bwd = <<>>)
        /\ fwd' = fwd \/ fwd'[1].kind # "F"
        /\ UNCHANGED <<rTimer, sTimer>>
    BY <1>0, <1>1, <2>1, FrameFacts DEF Fault, sVars, rVars
  <2> QED
    BY <1>0, <2>2
       DEF InStep, SendsIntoSilence, OneIsUnderWay, DataIsPrompt, GraceIsShorter,
           ConfirmIsAwaited, NothingIsAnswered, Quiet, OneFrame, Receiving, Accepted
<1>2. CASE Tick
  <2>1. /\ UNCHANGED <<fwd, bwd>>
        /\ sState # "send"
        /\ sState = "wait" => bwd = <<>> /\ sTimer > 0
        /\ Receiving => fwd = <<>> /\ rTimer > 0
        /\ sTimer' = CountDown(sTimer)
        /\ rTimer' = IF Receiving THEN CountDown(rTimer) ELSE rTimer
    BY <1>0, <1>2 DEF Tick, Urgent
  <2>2. sState = "wait" /\ Receiving => Quiet
    BY <2>1 DEF Quiet
  <2>3. rState = "data" => sState = "failed"
    <3>1. sState # "done" \/ rState # "data"
      BY DEF IInv, SuccessMeansValidated, Accepted
    <3>2. rState = "data" /\ sState = "wait" => sState = "failed"
      <4>1. OneFrame => ~Quiet
        BY <1>0, NoFrames DEF OneFrame, Quiet
      <4> QED
        BY <2>2, <4>1 DEF InStep, OneIsUnderWay, Receiving
    <3> QED
      BY <1>0, <2>1, <3>1, <3>2
  <2>4. sState = "wait" /\ rState = "grace" => rTimer' < sTimer' \/ rTimer >= sTimer
    BY <1>0, <2>1 DEF CountDown, Receiving
  <2> QED
    BY <1>0, <2>1, <2>2, <2>3, <2>4
       DEF InStep, SendsIntoSilence, OneIsUnderWay, DataIsPrompt, GraceIsShorter,
           ConfirmIsAwaited, NothingIsAnswered, Quiet, OneFrame, Receiving, Accepted
<1> QED
  BY <1>1, <1>2

LEMMA InStepStep ==
  ASSUME Prompt, "lost" \notin FaultKinds, FinishGrace < FrameTimeout,
         ~IoMayFail, IInv, IInv', InStep, [Next]_vars
  PROVE  InStep'
<1> SUFFICES ASSUME sState' # "failed", rState' # "failed"
             PROVE  InStep'
  BY DEF InStep
<1>1. CASE SenderMoves
  <2>1. UNCHANGED rVars
    BY <1>1 DEF SenderMoves, SendFrame, SenderTimesOut, SenderRetries,
       SenderCancelled, SenderAdvances, SenderFinishes
  <2> QED
    BY <1>1, <2>1, SenderInStep DEF rVars
<1>2. CASE ReceiverMoves
  <2>1. UNCHANGED sVars
    BY <1>2 DEF ReceiverMoves, ReceiverWrites, ReceiverReAcks,
       ReceiverReadFails, ReceiverCancelled, ReceiverAccepts,
       ReceiverNaksFinish, ReceiverFinishReadFails, GraceConfirmed,
       GraceReAcks, GraceDrops, GraceEnds
  <2> QED
    BY <1>2, <2>1, ReceiverInStep DEF sVars
<1>3. CASE SenderIoFails \/ ReceiverIoFails
  BY <1>3 DEF SenderIoFails, ReceiverIoFails
<1>4. CASE Fault \/ Tick
  BY <1>4, PathInStep
<1>5. CASE UNCHANGED vars
  BY <1>5 DEF vars, sVars, rVars, InStep, SendsIntoSilence, OneIsUnderWay,
     DataIsPrompt, GraceIsShorter, ConfirmIsAwaited, NothingIsAnswered, Quiet,
     OneFrame, Receiving, Accepted
<1> QED
  BY <1>1, <1>2, <1>3, <1>4, <1>5 DEF Next, Sender, Receiver, Finished

(* docs/REMOTE-AGENT.md, the command loop: a put that returns leaves nothing
   behind that the agent would take for the beginning of the next command
   line, whatever is damaged or interrupted, as long as both programs answer
   promptly, no frame vanishes whole, no port or disk fails (a NAK that is not
   written is such a frame), and the two seconds of grace
   (receive_frames_to_file) are shorter than FRAME_TIMEOUT_MS.              *)
THEOREM HandsTheLineBack ==
  ASSUME Prompt, "lost" \notin FaultKinds, FinishGrace < FrameTimeout,
         ~IoMayFail
  PROVE  PutSpec => []CleanHandover
<1>1. PutSpec => Spec /\ []IInv /\ []ResultIsEarned
  BY RunsOneTransfer, Invariance, ResultInit, ResultStep, PTL DEF PutSpec
<1>2. Spec /\ []IInv => []InStep
  <2>1. IInv /\ IInv' /\ InStep /\ [Next]_vars => InStep'
    BY InStepStep
  <2> QED
    BY <2>1, InStepInit, PTL DEF Spec
<1>3. ResultIsEarned /\ InStep => CleanHandover
  BY DEF ResultIsEarned, Kept, InStep, ConfirmIsAwaited, CleanHandover
<1> QED
  BY <1>1, <1>2, <1>3, PTL
=============================================================================
