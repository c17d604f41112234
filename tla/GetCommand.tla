------------------------------ MODULE GetCommand ------------------------------
(***************************************************************************)
(* GET and EXEC: the request, the header line with size and CRC, READY and  *)
(* a transfer of W98Ser2 towards the client, with EXEC's child process and  *)
(* temporary file on the agent and GET's local file on the client.          *)
(* handle_get, handle_exec and send_file_handle of the agent; receive_-     *)
(* payload, get, execute and the end of main of the client.                 *)
(*                                                                         *)
(* Abstractions.  Delays are arbitrary.  A damaged line is one the reader   *)
(* does not recognise (nothing protects the exit code in the header, which  *)
(* is left out); the file does not change while it is read.                 *)
(***************************************************************************)
EXTENDS W98Ser2

CONSTANTS
  LinesMayFail,   \* TRUE: line noise loses or garbles a line
  AgentMayDie     \* TRUE: the agent's window may be closed during the command

ASSUME GetAssumption ==
  /\ Direction = "get" /\ ~Prompt
  /\ {LinesMayFail, AgentMayDie} \subseteq BOOLEAN

VARIABLES
  kind,     \* "GET" or "EXEC"
  client,   \* "asking", "receiving", "returned", "done" or "raised"
  local,    \* GET's local file: "before", "partial" or "complete"
  agent,    \* "listening", "preparing", "running", "announcing", "waiting",
            \* "sending", "closed" or "killed"
  temp,     \* TRUE: EXEC's temporary file exists
  child,    \* the DOS process: "none", "running", "exited", "abandoned", or
            \* "background": over, but something it started holds its output
  header,   \* the line under way to the client: "none", "HEADER", "ERR", "garbled"
  ready     \* the line under way to the agent: "none", "READY", "garbled"

clientSide == <<client, local>>
agentSide == <<agent, temp, child>>
commandVars == <<kind, clientSide, agentSide, header, ready>>
getVars == <<vars, commandVars>>

GetInit ==
  /\ Init
  /\ kind \in {"GET", "EXEC"}
  /\ client = "asking" /\ local = "before"
  /\ agent = "listening" /\ temp = FALSE /\ child = "none"
  /\ header = "none" /\ ready = "none"

-----------------------------------------------------------------------------
(* The agent: handle_get, handle_exec, send_file_handle                     *)

AgentGoes(from, to) == agent = from /\ agent' = to /\ UNCHANGED <<vars, kind, clientSide>>

\* The file of a GET cannot be opened, there is no name for a temporary file,
\* or the line is no command any more.
AgentRefuses ==
  /\ AgentGoes("listening", "closed")
  /\ header' = "ERR"
  /\ UNCHANGED <<temp, child, ready>>

\* GetTempFileName creates the file whose name it returns.
NeedsTemp == kind = "EXEC"

AgentOpens ==
  /\ AgentGoes("listening", IF kind = "GET" THEN "announcing" ELSE "preparing")
  /\ temp' = NeedsTemp
  /\ UNCHANGED <<child, header, ready>>

AgentStartsChild ==
  /\ AgentGoes("preparing", "running")
  /\ child' = "running"
  /\ UNCHANGED <<temp, header, ready>>

\* Mutant: the error path forgets the temporary file.
DeleteNothing == UNCHANGED temp

\* DeleteFile, after CloseHandle: whether it removes a file that another
\* process holds is up to Windows.
DeleteTemp ==
  temp' \in IF child \in {"running", "background"} THEN {FALSE, temp} ELSE {FALSE}

\* The output, NUL or COMMAND.COM cannot be opened or started.
AgentCannotStart ==
  /\ AgentGoes("preparing", "closed")
  /\ DeleteTemp /\ header' = "ERR"
  /\ UNCHANGED <<child, ready>>

\* EXEC_TIMEOUT: the process is left running.
AgentAbandonsChild ==
  /\ child = "running"
  /\ AgentGoes("running", "closed")
  /\ DeleteTemp /\ header' = "ERR"
  /\ child' = "abandoned"
  /\ UNCHANGED ready

AgentSeesExit ==
  /\ child \in {"exited", "background"}
  /\ AgentGoes("running", "announcing")
  /\ UNCHANGED <<temp, child, header, ready>>

AgentAnnounces ==
  /\ AgentGoes("announcing", "waiting")
  /\ header' = "HEADER"
  /\ UNCHANGED <<temp, child, ready>>

\* The file cannot be read, or the header not be sent.
AgentCannotAnnounce ==
  /\ IoMayFail
  /\ AgentGoes("announcing", "closed")
  /\ DeleteTemp /\ header' \in {"none", "ERR"}
  /\ UNCHANGED <<child, ready>>

AgentIsReady ==
  /\ ready = "READY" /\ ready' = "none"
  /\ AgentGoes("waiting", "sending")
  /\ UNCHANGED <<temp, child, header>>

\* Mutant: wait_ready has no time limit.
AgentWaitsOn ==
  /\ ready = "garbled" /\ ready' = "none"
  /\ AgentGoes("waiting", "closed")
  /\ DeleteTemp
  /\ UNCHANGED <<child, header>>

\* Any other line or none in 15 seconds: the agent returns without a word.
AgentHearsNoReady ==
  /\ ready' = "none"
  /\ AgentGoes("waiting", "closed")
  /\ DeleteTemp
  /\ UNCHANGED <<child, header>>

AgentSends == agent = "sending" /\ SenderMoves /\ UNCHANGED commandVars
AgentIoFails == agent = "sending" /\ SenderIoFails /\ UNCHANGED commandVars

AgentFinishes ==
  /\ sState \in {"done", "failed"}
  /\ AgentGoes("sending", "closed")
  /\ DeleteTemp
  /\ UNCHANGED <<child, header, ready>>

AgentKilled ==
  /\ AgentMayDie /\ agent \notin {"closed", "killed"}
  /\ agent' = "killed"
  /\ UNCHANGED <<vars, kind, clientSide, temp, child, header, ready>>

ChildEnds ==
  /\ child = "running" /\ child' \in {"exited", "background"}
  /\ UNCHANGED <<vars, kind, clientSide, agent, temp, header, ready>>

Agent ==
  \/ AgentRefuses \/ AgentOpens \/ AgentStartsChild \/ AgentCannotStart
  \/ AgentAbandonsChild \/ AgentSeesExit \/ AgentAnnounces \/ AgentIsReady
  \/ AgentHearsNoReady \/ AgentSends \/ AgentFinishes

-----------------------------------------------------------------------------
(* The client: receive_payload, get, execute, main                          *)

ClientGoes(from, to) == client = from /\ client' = to /\ UNCHANGED <<vars, kind, agentSide>>

ClientStarts ==
  /\ header = "HEADER" /\ header' = "none"
  /\ ClientGoes("asking", "receiving")
  /\ ready' = "READY"
  /\ UNCHANGED local

\* ERR, a line that is no header, or no line in 20 or 330 seconds.
ClientRefused ==
  /\ header # "HEADER" /\ header' = "none"
  /\ ClientGoes("asking", "raised")
  /\ UNCHANGED <<local, ready>>

ClientReceives == client = "receiving" /\ ReceiverMoves /\ UNCHANGED commandVars
ClientIoFails == client = "receiving" /\ ReceiverIoFails /\ UNCHANGED commandVars

ClientReturns ==
  /\ rState = "ok"
  /\ ClientGoes("receiving", "returned")
  /\ UNCHANGED <<local, header, ready>>

\* Mutant: what has come so far is kept.
ClientKeepsRest ==
  /\ GaveUp
  /\ ClientGoes("receiving", "raised")
  /\ local' = IF kind = "GET" THEN "partial" ELSE local
  /\ UNCHANGED <<header, ready>>

ClientFails ==
  /\ GaveUp
  /\ ClientGoes("receiving", "raised")
  /\ UNCHANGED <<local, header, ready>>

\* write_bytes, or the output of an EXEC.
ClientSaves ==
  /\ ClientGoes("returned", "done")
  /\ local' = IF kind = "GET" THEN "complete" ELSE local
  /\ UNCHANGED <<header, ready>>

ClientCannotSave ==
  /\ IoMayFail /\ kind = "GET"
  /\ ClientGoes("returned", "raised")
  /\ local' \in {"before", "partial"}
  /\ UNCHANGED <<header, ready>>

Client ==
  \/ ClientStarts \/ ClientRefused \/ ClientReceives \/ ClientReturns
  \/ ClientFails \/ ClientSaves

-----------------------------------------------------------------------------
(* The wire and the clock                                                   *)

LineFault ==
  /\ LinesMayFail
  /\ \/ header \in {"HEADER", "ERR"} /\ header' \in {"none", "garbled"}
          /\ UNCHANGED ready
     \/ ready = "READY" /\ ready' \in {"none", "garbled"} /\ UNCHANGED header
  /\ UNCHANGED <<vars, kind, clientSide, agentSide>>

FrameFault == Fault /\ UNCHANGED commandVars

Clock ==
  /\ client = "receiving" \/ agent = "sending"
  /\ Tick
  /\ UNCHANGED commandVars

Over == client \in {"done", "raised"} /\ agent \in {"closed", "killed"}

GetNext ==
  \/ Agent \/ AgentCannotAnnounce \/ AgentIoFails \/ AgentKilled \/ ChildEnds
  \/ Client \/ ClientIoFails \/ ClientCannotSave
  \/ LineFault \/ FrameFault \/ Clock
  \/ Over /\ UNCHANGED getVars

\* Both programs keep running and time passes; the child need not end.
GetSpec ==
  /\ GetInit /\ [][GetNext]_getVars
  /\ WF_getVars(Agent) /\ WF_getVars(Client) /\ WF_getVars(Clock)

-----------------------------------------------------------------------------
(* Properties                                                               *)

GetTypeOK ==
  /\ kind \in {"GET", "EXEC"}
  /\ client \in {"asking", "receiving", "returned", "done", "raised"}
  /\ local \in {"before", "partial", "complete"}
  /\ agent \in {"listening", "preparing", "running", "announcing", "waiting",
                "sending", "closed", "killed"}
  /\ temp \in {FALSE, kind = "EXEC"} /\ child \in {"none", "running", "exited", "background", "abandoned"}
  /\ header \in {"none", "HEADER", "ERR", "garbled"}
  /\ ready \in {"none", "READY", "garbled"}

\* A GET that fails leaves the local file alone, one that succeeds has written
\* all of the announced file; only a local disk that fails comes in between.
LocalIsWhole ==
  /\ local # "before" => kind = "GET" /\ rState = "ok" /\ data = File
  /\ client = "done" /\ kind = "GET" => local = "complete"

\* An agent that is back at its command loop has no temporary file left,
\* whichever of its ways EXEC took, unless a process held it at that moment: then
\* nobody comes back for it.
TempIsRemoved ==
  agent = "closed" => ~temp \/ child \in {"abandoned", "background"}

\* A READY that is lost ends in silence on the agent's side, a child that never
\* ends in EXEC_TIMEOUT, a dead agent in nothing at all: both ends come back.
GetEnds == <>Over
=============================================================================
