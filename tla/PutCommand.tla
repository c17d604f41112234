------------------------------ MODULE PutCommand ------------------------------
(***************************************************************************)
(* A whole PUT command: the command line, READY, the transfer of W98Ser2    *)
(* and the result line, with the file the agent writes.  Agent.put of the   *)
(* client and handle_put of the agent.                                      *)
(*                                                                         *)
(* Abstractions.  The control lines travel on the same wire as the frames   *)
(* and carry no CRC: READY goes before every frame of the agent, its result *)
(* line after them.  The agent's command loop before and after the command, *)
(* and the opening HELLO/SYNC dialogue, are in Session.                     *)
(***************************************************************************)
EXTENDS W98Ser2

CONSTANTS
  LineFaults,     \* what line noise does: "reply" loses or garbles a reply,
                  \* "command" the command word, "path" the destination name
  AgentMayDie     \* TRUE: the agent's window may be closed during the command

ASSUME PutAssumption ==
  /\ Direction = "put"
  /\ LineFaults \subseteq {"reply", "command", "path"}
  /\ AgentMayDie \in BOOLEAN

VARIABLES
  client,   \* "asking", "sending", "awaiting", "returned" or "raised"
  agent,    \* "listening", "receiving", "closed" or "killed"
  path,     \* the name the agent read: "requested" or "other"
  target,   \* the requested file: "before", "partial", "stored" or "deleted"
  replies   \* the agent's lines under way

commandVars == <<client, agent, path, target, replies>>
putVars == <<vars, commandVars>>

PutInit ==
  /\ Init
  /\ client = "asking" /\ agent = "listening" /\ path = "requested"
  /\ target = "before" /\ replies = <<>>

Answer(line) == replies' = Append(replies, line)

\* What happens to the requested file when the opened one becomes content.
Becomes(content) == target' = IF path = "requested" THEN content ELSE target

\* What the agent may read as the destination name.
ReadNames ==
  {"requested"} \cup (IF "path" \in LineFaults THEN {"other"} ELSE {})

-----------------------------------------------------------------------------
(* The agent: handle_put                                                    *)

\* CREATE_ALWAYS: what the file held before is gone from here on.
AgentOpens ==
  /\ agent = "listening"
  /\ path' \in ReadNames
  /\ target' = IF path' = "requested" THEN "partial" ELSE target
  /\ agent' = "receiving" /\ Answer("READY")
  /\ UNCHANGED <<vars, client>>

\* READY cannot be sent, or its reflection not be read: the file that was just
\* opened is deleted, and the ERR line has the same port to go through.
AgentCannotAnswer ==
  /\ IoMayFail /\ agent = "listening"
  /\ path' \in ReadNames
  /\ target' = IF path' = "requested" THEN "deleted" ELSE target
  /\ replies' \in {<<>>, <<"ERR">>, <<"READY">>, <<"READY", "ERR">>}
  /\ agent' = "closed"
  /\ UNCHANGED <<vars, client>>

\* The file cannot be opened, or the line is not a PUT any more.
AgentRefuses ==
  /\ agent = "listening"
  /\ Answer("ERR") \/ ("command" \in LineFaults /\ UNCHANGED replies)
  /\ agent' = "closed"
  /\ UNCHANGED <<vars, client, path, target>>

\* Mutant: the file of a failed transfer is closed and left in place.
AgentLeavesFile ==
  /\ agent = "receiving" /\ GaveUp
  /\ agent' = "closed" /\ Answer("ERR")
  /\ UNCHANGED <<vars, client, path, target>>

AgentDeletes ==
  /\ agent = "receiving" /\ GaveUp
  /\ Becomes("deleted")
  /\ agent' = "closed" /\ Answer("ERR")
  /\ UNCHANGED <<vars, client, path>>

AgentStores ==
  /\ agent = "receiving" /\ rState = "ok"
  /\ Becomes("stored")
  /\ agent' = "closed" /\ Answer("STORED")
  /\ UNCHANGED <<vars, client, path>>

AgentKilled ==
  /\ AgentMayDie /\ agent \in {"listening", "receiving"}
  /\ agent' = "killed"
  /\ UNCHANGED <<vars, client, path, target, replies>>

AgentReceives == agent = "receiving" /\ ReceiverMoves /\ UNCHANGED commandVars
AgentIoFails == agent = "receiving" /\ ReceiverIoFails /\ UNCHANGED commandVars

Agent ==
  AgentOpens \/ AgentRefuses \/ AgentDeletes \/ AgentStores \/ AgentReceives

-----------------------------------------------------------------------------
(* The client: Agent.put                                                    *)

ClientStarts ==
  /\ client = "asking" /\ replies # <<>> /\ Head(replies) = "READY"
  /\ client' = "sending" /\ replies' = Tail(replies)
  /\ UNCHANGED <<vars, agent, path, target>>

ClientRefused ==
  /\ client = "asking" /\ replies # <<>> /\ Head(replies) # "READY"
  /\ client' = "raised" /\ replies' = Tail(replies)
  /\ UNCHANGED <<vars, agent, path, target>>

ClientSends == client = "sending" /\ SenderMoves /\ UNCHANGED commandVars
ClientIoFails == client = "sending" /\ SenderIoFails /\ UNCHANGED commandVars

\* Mutant: put returns after CONFIRM and does not read the result line.
ClientReturnsEarly ==
  /\ client = "sending" /\ sState = "done"
  /\ client' = "returned"
  /\ UNCHANGED <<vars, agent, path, target, replies>>

ClientAwaits ==
  /\ client = "sending" /\ sState = "done"
  /\ client' = "awaiting"
  /\ UNCHANGED <<vars, agent, path, target, replies>>

ClientFails ==
  /\ client = "sending" /\ sState = "failed"
  /\ client' = "raised"
  /\ UNCHANGED <<vars, agent, path, target, replies>>

\* The line must be the expected one to the letter ...
ClientReads ==
  /\ client = "awaiting" /\ bwd = <<>> /\ replies # <<>>
  /\ client' = IF Head(replies) = "STORED" THEN "returned" ELSE "raised"
  /\ replies' = Tail(replies)
  /\ UNCHANGED <<vars, agent, path, target>>

\* ... and a frame that was left in front of it makes it another line.
ClientMisreads ==
  /\ client = "awaiting" /\ bwd # <<>>
  /\ client' = "raised"
  /\ UNCHANGED <<vars, agent, path, target, replies>>

\* read_line gives up, after 20 or 300 seconds: with Prompt only when there is
\* no answer to wait for.
ClientTimesOut ==
  /\ client \in {"asking", "awaiting"} /\ replies = <<>>
  /\ Prompt => agent \in {"closed", "killed"}
  /\ client' = "raised"
  /\ UNCHANGED <<vars, agent, path, target, replies>>

\* The connection breaks, or the program is stopped, while it reads a line.
ClientBreaks ==
  /\ IoMayFail /\ client \in {"asking", "awaiting"}
  /\ client' = "raised"
  /\ UNCHANGED <<vars, agent, path, target, replies>>

Client ==
  \/ ClientStarts \/ ClientRefused \/ ClientSends \/ ClientAwaits \/ ClientFails
  \/ ClientReads \/ ClientMisreads \/ ClientTimesOut

-----------------------------------------------------------------------------
(* The wire and the clock                                                   *)

LineFault ==
  /\ "reply" \in LineFaults /\ replies # <<>> /\ Head(replies) # "garbled"
  /\ replies' \in {Tail(replies), [replies EXCEPT ![1] = "garbled"]}
  /\ UNCHANGED <<vars, client, agent, path, target>>

FrameFault == Fault /\ UNCHANGED commandVars

\* A program has something to do between the transfer and a control line.
LineDue ==
  \/ agent = "receiving" /\ ~Receiving
  \/ client \in {"asking", "awaiting"} /\ replies # <<>>
  \/ client = "sending" /\ sState \in {"done", "failed"}

\* Time matters once both programs are in the transfer.
Clock ==
  /\ agent # "listening" /\ (Prompt => ~LineDue)
  /\ Tick
  /\ UNCHANGED commandVars

Over == client \in {"returned", "raised"} /\ agent \in {"closed", "killed"}

PutNext ==
  \/ Agent \/ AgentCannotAnswer \/ AgentIoFails \/ AgentKilled
  \/ Client \/ ClientIoFails \/ ClientBreaks
  \/ LineFault \/ FrameFault \/ Clock
  \/ Over /\ UNCHANGED putVars

PutSpec == PutInit /\ [][PutNext]_putVars

\* Both programs keep running and time passes; no failure has to happen.
PutFairness ==
  WF_putVars(Agent) /\ WF_putVars(Client) /\ WF_putVars(Clock)

PutFairSpec == PutSpec /\ PutFairness

-----------------------------------------------------------------------------
(* Properties                                                               *)

PutTypeOK ==
  /\ client \in {"asking", "sending", "awaiting", "returned", "raised"}
  /\ agent \in {"listening", "receiving", "closed", "killed"}
  /\ path \in {"requested", "other"}
  /\ target \in {"before", "partial", "stored", "deleted"}
  /\ replies \in Seq({"READY", "STORED", "ERR", "garbled"}) /\ Len(replies) <= 2

\* A put that returns has left the whole file, closed, under the name that was
\* asked for, whatever happened to frames, replies and either program.
OkMeansStored ==
  client = "returned" => target = "stored" /\ data = File

\* docs/REMOTE-AGENT.md: a failed or incomplete upload is deleted.  Whatever
\* became of the client, an agent that is left alone gives up by itself and
\* cleans up.
IncompleteIsDeleted ==
  (client = "raised") ~> (target # "partial" \/ agent = "killed")

\* Nobody waits for ever: put returns or raises, the agent is back at its
\* command loop.
CommandEnds == <>Over

\* A put that returns leaves nothing on the wire that the agent would take for
\* the beginning of the next command line.
CleanHandover == client = "returned" => fwd = <<>>

\* Damaged frames are repaired to the end: a put that got READY returns.
UploadSucceeds == (client = "sending") ~> (client = "returned")

\* docs/REMOTE-AGENT.md: missing frames cause retransmission, and only ten
\* consecutive failures abort the transfer.
RaiseNeedsTenFailures ==
  client = "raised" /\ agent = "closed" /\ target # "before"
    => faults >= FrameRetries
=============================================================================
