--------------------------- MODULE GetCommandProofs ---------------------------
(***************************************************************************)
(* A GET or EXEC command runs one transfer of W98Ser2 and nothing else      *)
(* happens to it; what the client writes is the whole file; and an agent    *)
(* that came back has removed its temporary file.                           *)
(***************************************************************************)
EXTENDS GetCommand, W98Ser2Proofs

(* Inside a GET or EXEC command (send_file_handle, receive_payload) the two *)
(* frame loops behave as the transfer of W98Ser2: header, READY, refusals,  *)
(* the child process and a killed agent only restrict when they take steps. *)
THEOREM RunsOneTransfer == GetSpec => Spec
<1>1. GetInit => Init
  BY DEF GetInit
<1>2. [GetNext]_getVars => [Next]_vars
  <2> SUFFICES ASSUME [GetNext]_getVars
               PROVE  Next \/ UNCHANGED vars
    OBVIOUS
  <2>1. CASE Agent \/ AgentCannotAnnounce \/ AgentIoFails \/ AgentKilled \/ ChildEnds
    BY <2>1 DEF Agent, AgentGoes, AgentRefuses, AgentOpens, AgentStartsChild,
       AgentCannotStart, AgentAbandonsChild, AgentSeesExit, AgentAnnounces,
       AgentIsReady, AgentHearsNoReady, AgentSends, AgentFinishes,
       AgentCannotAnnounce, AgentIoFails, AgentKilled, ChildEnds, Next, Sender
  <2>2. CASE Client \/ ClientIoFails \/ ClientCannotSave
    BY <2>2 DEF Client, ClientGoes, ClientStarts, ClientRefused, ClientReceives,
       ClientReturns, ClientFails, ClientSaves, ClientIoFails, ClientCannotSave,
       Next, Receiver
  <2>3. CASE LineFault \/ FrameFault \/ Clock
    BY <2>3 DEF LineFault, FrameFault, Clock, Next
  <2>4. CASE UNCHANGED getVars
    BY <2>4 DEF getVars
  <2> QED
    BY <2>1, <2>2, <2>3, <2>4 DEF GetNext
<1> QED
  BY <1>1, <1>2, PTL DEF GetSpec, Spec

-----------------------------------------------------------------------------
(* What stays and what each step of the command does                        *)

(* What a receiver that is done can still become.                           *)
LEMMA ReceivedIsFinal ==
  ASSUME rState = "ok", [Next]_vars
  PROVE  rState' = "ok"
<1>1. CASE Sender
  BY <1>1 DEF Sender, SenderMoves, SendFrame, SenderTimesOut, SenderRetries,
     SenderCancelled, SenderAdvances, SenderFinishes, SenderIoFails, rVars
<1>2. CASE Receiver
  BY <1>2 DEF Receiver, ReceiverMoves, ReceiverWrites, ReceiverReAcks,
     ReceiverReadFails, ReceiverCancelled, ReceiverAccepts,
     ReceiverNaksFinish, ReceiverFinishReadFails, GraceConfirmed, GraceReAcks,
     GraceDrops, GraceEnds, ReceiverIoFails, Receives, Receiving
<1>3. CASE Fault \/ Tick \/ Finished \/ UNCHANGED vars
  BY <1>3 DEF Fault, Tick, Finished, vars, rVars
<1> QED
  BY <1>1, <1>2, <1>3 DEF Next

(* The steps that belong to the transfer.                                   *)
LEMMA TransferSteps ==
  ASSUME \/ AgentSends \/ AgentIoFails \/ ClientReceives \/ ClientIoFails
         \/ FrameFault \/ Clock \/ (Over /\ UNCHANGED getVars) \/ UNCHANGED getVars
  PROVE  [Next]_vars /\ UNCHANGED commandVars
BY DEF AgentSends, AgentIoFails, ClientReceives, ClientIoFails, FrameFault, Clock,
   getVars, Next, Sender, Receiver

-----------------------------------------------------------------------------
(* Type correctness                                                         *)

LEMMA GetTypeStep ==
  ASSUME GetTypeOK, [GetNext]_getVars
  PROVE  GetTypeOK'
<1> USE DEF GetTypeOK
<1>1. CASE \/ AgentSends \/ AgentIoFails \/ ClientReceives \/ ClientIoFails
           \/ FrameFault \/ Clock \/ (Over /\ UNCHANGED getVars) \/ UNCHANGED getVars
  BY <1>1, TransferSteps DEF commandVars, clientSide, agentSide
<1>2. CASE AgentRefuses \/ AgentStartsChild \/ AgentSeesExit \/ AgentAnnounces
             \/ AgentIsReady
  BY <1>2 DEF AgentRefuses, AgentStartsChild, AgentSeesExit, AgentAnnounces,
     AgentIsReady, AgentGoes, clientSide
<1>3. CASE AgentOpens
  BY <1>3 DEF AgentOpens, AgentGoes, NeedsTemp, clientSide
<1>4. CASE AgentCannotStart \/ AgentAbandonsChild \/ AgentCannotAnnounce
             \/ AgentHearsNoReady \/ AgentFinishes
  <2>1. /\ temp' \in {FALSE, temp} /\ agent' = "closed"
        /\ child' \in {child, "abandoned"}
        /\ header' \in {header, "none", "ERR"} /\ ready' \in {ready, "none"}
        /\ UNCHANGED <<kind, client, local>>
    BY <1>4 DEF AgentCannotStart, AgentAbandonsChild, AgentCannotAnnounce,
       AgentHearsNoReady, AgentFinishes, AgentGoes, DeleteTemp, clientSide
  <2> QED
    BY <2>1
<1>5. CASE AgentKilled \/ ChildEnds \/ LineFault
  BY <1>5 DEF AgentKilled, ChildEnds, LineFault, clientSide, agentSide
<1>6. CASE ClientStarts \/ ClientRefused \/ ClientReturns \/ ClientFails
             \/ ClientSaves \/ ClientCannotSave
  BY <1>6 DEF ClientStarts, ClientRefused, ClientReturns, ClientFails,
     ClientSaves, ClientCannotSave, ClientGoes, agentSide
<1> QED
  BY <1>1, <1>2, <1>3, <1>4, <1>5, <1>6 DEF GetNext, Agent, Client

(* The variables of the command around the transfer keep their types, and   *)
(* only EXEC has a temporary file.                                          *)
THEOREM GetTypes == GetSpec => []GetTypeOK
<1>1. GetInit => GetTypeOK
  BY DEF GetInit, GetTypeOK
<1> QED
  BY <1>1, GetTypeStep, PTL DEF GetSpec

-----------------------------------------------------------------------------
(* The local file                                                           *)

\* The client writes nothing before its receiver has accepted, and what it has
\* accepted stays accepted.
WritesLate ==
  /\ local # "before" => kind = "GET" /\ rState = "ok"
  /\ client \in {"asking", "receiving", "returned"} => local = "before"
  /\ client \in {"returned", "done"} => rState = "ok"
  /\ client = "done" /\ kind = "GET" => local = "complete"

LEMMA WritesLateStep ==
  ASSUME WritesLate, [GetNext]_getVars
  PROVE  WritesLate'
<1> USE DEF WritesLate
<1>1. CASE \/ AgentSends \/ AgentIoFails \/ ClientReceives \/ ClientIoFails
           \/ FrameFault \/ Clock \/ (Over /\ UNCHANGED getVars) \/ UNCHANGED getVars
  <2>1. UNCHANGED <<local, client, kind>> /\ (rState = "ok" => rState' = "ok")
    BY <1>1, TransferSteps, ReceivedIsFinal DEF commandVars, clientSide
  <2> QED
    BY <2>1
<1>2. CASE \/ AgentRefuses \/ AgentOpens \/ AgentStartsChild \/ AgentCannotStart
           \/ AgentAbandonsChild \/ AgentSeesExit \/ AgentAnnounces
           \/ AgentCannotAnnounce \/ AgentIsReady \/ AgentHearsNoReady
           \/ AgentFinishes \/ AgentKilled \/ ChildEnds \/ LineFault
  <2>1. UNCHANGED <<local, client, kind, rState>>
    BY <1>2 DEF AgentRefuses, AgentOpens, AgentStartsChild, AgentCannotStart,
       AgentAbandonsChild, AgentSeesExit, AgentAnnounces, AgentCannotAnnounce,
       AgentIsReady, AgentHearsNoReady, AgentFinishes, AgentKilled, ChildEnds,
       LineFault, AgentGoes, clientSide, vars, rVars
  <2> QED
    BY <2>1
<1>3. CASE ClientStarts \/ ClientRefused \/ ClientReturns \/ ClientFails
             \/ ClientSaves \/ ClientCannotSave
  BY <1>3 DEF ClientStarts, ClientRefused, ClientReturns, ClientFails,
     ClientSaves, ClientCannotSave, ClientGoes, vars, rVars
<1> QED
  BY <1>1, <1>2, <1>3 DEF GetNext, Agent, Client

(* What a GET leaves under the local name is the whole announced file, and a *)
(* command that raised before write_bytes has not touched it.               *)
THEOREM LocalFileIsWhole == GetSpec => []LocalIsWhole
<1>1. GetSpec => []IInv
  BY RunsOneTransfer, Invariance, PTL
<1>2. GetInit => WritesLate
  BY DEF GetInit, WritesLate
<1>3. GetSpec => []WritesLate
  BY <1>2, WritesLateStep, PTL DEF GetSpec
<1>4. IInv /\ WritesLate => LocalIsWhole
  BY DEF IInv, PhaseMatchesData, Validated, WritesLate, LocalIsWhole, Accepted
<1> QED
  BY <1>1, <1>3, <1>4, PTL

-----------------------------------------------------------------------------
(* The temporary file                                                       *)

\* No child runs but under an agent that waits for it.
ChildIsWatched ==
  /\ agent = "listening" => ~temp
  /\ agent \in {"listening", "preparing"} => child = "none"
  /\ child = "running" => agent \in {"running", "killed"}
  /\ TempIsRemoved

LEMMA ChildIsWatchedStep ==
  ASSUME GetTypeOK, ChildIsWatched, [GetNext]_getVars
  PROVE  ChildIsWatched'
<1> USE DEF ChildIsWatched, TempIsRemoved
<1>1. CASE \/ AgentSends \/ AgentIoFails \/ ClientReceives \/ ClientIoFails
           \/ FrameFault \/ Clock \/ (Over /\ UNCHANGED getVars) \/ UNCHANGED getVars
  BY <1>1, TransferSteps DEF commandVars, agentSide
<1>2. CASE \/ ClientStarts \/ ClientRefused \/ ClientReturns \/ ClientFails
           \/ ClientSaves \/ ClientCannotSave \/ LineFault
  BY <1>2 DEF ClientStarts, ClientRefused, ClientReturns, ClientFails,
     ClientSaves, ClientCannotSave, LineFault, ClientGoes, agentSide
<1>3. CASE \/ AgentRefuses \/ AgentOpens \/ AgentStartsChild \/ AgentSeesExit
           \/ AgentAnnounces \/ AgentIsReady \/ AgentKilled \/ ChildEnds
  BY <1>3 DEF AgentRefuses, AgentOpens, AgentStartsChild, AgentSeesExit,
     AgentAnnounces, AgentIsReady, AgentKilled, ChildEnds, AgentGoes
<1>4. CASE AgentAbandonsChild
  BY <1>4 DEF AgentAbandonsChild, AgentGoes
<1>5. CASE AgentCannotStart \/ AgentCannotAnnounce \/ AgentHearsNoReady
             \/ AgentFinishes
  <2>1. /\ agent \notin {"running", "killed"} /\ agent' = "closed" /\ child' = child
        /\ DeleteTemp
    BY <1>5 DEF AgentCannotStart, AgentCannotAnnounce, AgentHearsNoReady,
       AgentFinishes, AgentGoes
  <2>2. child' # "running"
    BY <2>1
  <2>3. temp' = FALSE \/ child = "background"
    BY <2>1, <2>2 DEF DeleteTemp
  <2> QED
    BY <2>1, <2>2, <2>3
<1> QED
  BY <1>1, <1>2, <1>3, <1>4, <1>5 DEF GetNext, Agent, Client

(* On every way out of handle_exec the temporary file is deleted, unless a  *)
(* process that is still there holds it.                                    *)
THEOREM TemporaryFileGoes == GetSpec => []TempIsRemoved
<1>1. GetInit => ChildIsWatched
  BY DEF GetInit, ChildIsWatched, TempIsRemoved
<1>2. GetSpec => []ChildIsWatched
  BY <1>1, GetTypes, ChildIsWatchedStep, PTL DEF GetSpec
<1>3. ChildIsWatched => TempIsRemoved
  BY DEF ChildIsWatched
<1> QED
  BY <1>2, <1>3, PTL
=============================================================================
