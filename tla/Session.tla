------------------------------- MODULE Session --------------------------------
(***************************************************************************)
(* How a client and the agent find each other again: the agent's command    *)
(* loop, the client's HELLO and SYNC dialogue before its first command, and *)
(* clients that are abandoned at any moment and followed by new ones.       *)
(*                                                                         *)
(* Abstractions.  A control line is one element of a FIFO channel; one that *)
(* an abandoned client did not finish has no carriage return and is the     *)
(* beginning of whatever is sent next.  Tokens are unique: a SYNC carries   *)
(* the number of its session.  EXEC, GET and PUT are one command, "CMD",    *)
(* with one answer: the first line the client reads after it.  A handler    *)
(* that is left alone gives up within BusyTicks; meanwhile it reads nothing *)
(* (EXEC) or reads and drops what comes (the frame loops, wait_ready).      *)
(***************************************************************************)
EXTENDS Naturals, Sequences

CONSTANTS
  Sessions,     \* how many clients run, one after the other
  HelloTicks,   \* hello's 90 seconds, in the 5 seconds between two HELLOs
  SyncTicks,    \* the 15 seconds for SYNCED
  BusyTicks,    \* the longest an abandoned command keeps the agent busy
  CoarseTick,   \* how much time passes at once where delays are arbitrary
  LegacySync    \* --legacy-sync

ASSUME SessionAssumption ==
  /\ {Sessions, HelloTicks, SyncTicks, BusyTicks, CoarseTick} \subseteq Nat \ {0}
  /\ LegacySync \in BOOLEAN

VARIABLES
  prompt,     \* TRUE: lines travel and are answered within a tick
  session,    \* the number of the client that runs or ran last
  phase,      \* "off", "hello", "awaitReady", "awaitSync", "synced",
              \* "awaitAnswer", "awaitBye", "answered" or "failed"
  left,       \* ticks until it gives up
  answer,     \* the session whose command the answer it read belongs to
  toAgent,    \* lines under way to the agent
  toClient,   \* lines under way to the client
  partial,    \* what the agent's line buffer holds: "none", "junk", "SYNC", "CMD"
  handler,    \* "none", "deaf", "eating", or "stopped": main has returned
  serving,    \* the session whose command is handled; 0 for a merged one
  busy        \* ticks until the handler gives up

clientVars == <<prompt, session, phase, left, answer>>
agentVars == <<partial, handler, serving, busy>>
vars == <<clientVars, toAgent, toClient, agentVars>>

Line(kind, by) == [kind |-> kind, by |-> by, whole |-> TRUE]
Say(kind) == toAgent' = Append(toAgent, Line(kind, session))
Reply(kind, by) == toClient' = Append(toClient, Line(kind, by))

Init ==
  /\ prompt \in BOOLEAN
  /\ session = 0 /\ phase = "off" /\ left = 0 /\ answer = 0
  \* The agent announces itself when it starts.
  /\ toAgent = <<>> /\ toClient = <<Line("READY", 0)>>
  /\ partial = "none" /\ handler = "none" /\ serving = 0 /\ busy = 0

-----------------------------------------------------------------------------
(* The client: hello, then a command                                        *)

\* reset_input_buffer drops what arrives in the first half second.
Connect ==
  /\ phase = "off" /\ session < Sessions
  /\ session' = session + 1 /\ phase' = "hello" /\ left' = HelloTicks
  /\ \E n \in 0 .. Len(toClient) :
       /\ prompt => n = Len(toClient)
       /\ toClient' = SubSeq(toClient, n + 1, Len(toClient))
  /\ UNCHANGED <<prompt, answer, toAgent, agentVars>>

SendHello ==
  /\ phase = "hello"
  /\ Say("HELLO")
  /\ phase' = "awaitReady"
  /\ UNCHANGED <<prompt, session, left, answer, toClient, agentVars>>

Reads(kind) == toClient # <<>> /\ Head(toClient).kind = kind
NextLine == toClient' = Tail(toClient)

\* Mutant: READY is enough, no SYNC follows.
ReadReadyUnsynced ==
  /\ phase = "awaitReady" /\ Reads("READY")
  /\ NextLine
  /\ phase' = "synced" /\ left' = 0
  /\ UNCHANGED <<prompt, session, answer, toAgent, agentVars>>

ReadReady ==
  /\ phase = "awaitReady" /\ Reads("READY")
  /\ NextLine
  /\ Say("SYNC")
  /\ phase' = "awaitSync" /\ left' = SyncTicks
  /\ UNCHANGED <<prompt, session, answer, agentVars>>

\* Mutant: the token is not compared.
IsBarrierOfAny(line) == line.kind = "SYNCED"

IsBarrier(line) ==
  \/ line.kind = "SYNCED" /\ line.by = session
  \/ LegacySync /\ line.kind = "ERR"

ReadSynced ==
  /\ phase = "awaitSync" /\ toClient # <<>> /\ IsBarrier(Head(toClient))
  /\ NextLine
  /\ phase' = "synced" /\ left' = 0
  /\ UNCHANGED <<prompt, session, answer, toAgent, agentVars>>

\* Everything else that comes before READY or SYNCED is dropped, and so is a
\* line that follows frames without a carriage return between them.
SkipLine ==
  /\ toClient # <<>>
  /\ \/ phase = "awaitReady" /\ ~Reads("READY")
     \/ phase = "awaitSync" /\ ~IsBarrier(Head(toClient))
  /\ \/ NextLine
     \/ /\ Reads("JUNK") /\ Len(toClient) > 1
        /\ toClient' = Tail(Tail(toClient))
  /\ UNCHANGED <<clientVars, toAgent, agentVars>>

SendCommand ==
  /\ phase = "synced"
  /\ \/ Say("CMD") /\ phase' = "awaitAnswer"
     \/ Say("BYE") /\ phase' = "awaitBye"
  /\ UNCHANGED <<prompt, session, left, answer, toClient, agentVars>>

\* The first line after the command is its answer.
ReadAnswer ==
  /\ phase \in {"awaitAnswer", "awaitBye"} /\ toClient # <<>>
  /\ NextLine
  /\ answer' = IF Reads(IF phase = "awaitBye" THEN "BYE" ELSE "ANSWER")
                 THEN Head(toClient).by ELSE 0
  /\ phase' = "answered"
  /\ UNCHANGED <<prompt, session, left, toAgent, agentVars>>

Leave ==
  /\ phase = "answered" /\ phase' = "off"
  /\ UNCHANGED <<prompt, session, left, answer, toAgent, toClient, agentVars>>

Client ==
  \/ Connect \/ SendHello \/ ReadReady \/ ReadSynced \/ SkipLine
  \/ SendCommand \/ ReadAnswer \/ Leave

\* The program or its connection is gone, at any moment but for the last
\* client.  The bridge drops what it has not written yet: the end of the line
\* or the line.
Abandon ==
  /\ phase # "off" /\ session < Sessions
  /\ phase' = "off" /\ left' = 0
  /\ LET n == Len(toAgent) IN
       \/ UNCHANGED toAgent
       \/ /\ n > 0 /\ toAgent[n].by = session
          /\ \/ toAgent' = [toAgent EXCEPT ![n].whole = FALSE]
             \/ toAgent' = SubSeq(toAgent, 1, n - 1)
  /\ UNCHANGED <<prompt, session, answer, toClient, agentVars>>

-----------------------------------------------------------------------------
(* The agent: the loop of main()                                            *)

\* A line without its end stays in the buffer, cut anywhere.
ReadBeginning ==
  /\ handler = "none" /\ toAgent # <<>> /\ ~Head(toAgent).whole
  /\ toAgent' = Tail(toAgent)
  /\ partial' \in IF partial # "none" THEN {partial}
                  ELSE {"junk"} \cup ({"SYNC", "CMD"} \cap {Head(toAgent).kind})
  /\ UNCHANGED <<clientVars, toClient, handler, serving, busy>>

\* The line that the next carriage return completes.
Merged ==
  IF partial = "none" THEN Head(toAgent)
  ELSE Line(IF partial = "junk" THEN "UNKNOWN" ELSE partial, 0)

Completes(kind) ==
  /\ handler = "none" /\ toAgent # <<>> /\ Head(toAgent).whole
  /\ Merged.kind = kind
  /\ toAgent' = Tail(toAgent) /\ partial' = "none"

AnswerHello ==
  /\ Completes("HELLO")
  /\ Reply("READY", 0)
  /\ UNCHANGED <<clientVars, handler, serving, busy>>

AnswerSync ==
  /\ Completes("SYNC")
  /\ Reply("SYNCED", Merged.by)
  /\ UNCHANGED <<clientVars, handler, serving, busy>>

AnswerUnknown ==
  /\ Completes("UNKNOWN")
  /\ Reply("ERR", 0)
  /\ UNCHANGED <<clientVars, handler, serving, busy>>

AnswerBye ==
  /\ Completes("BYE")
  /\ Reply("BYE", Merged.by)
  /\ handler' = "stopped"
  /\ UNCHANGED <<clientVars, serving, busy>>

StartCommand ==
  /\ Completes("CMD")
  /\ handler' \in {"deaf", "eating"}
  /\ serving' = Merged.by /\ busy' = BusyTicks
  /\ UNCHANGED <<clientVars, toClient>>

EatLine ==
  /\ handler = "eating" /\ toAgent # <<>>
  /\ toAgent' = Tail(toAgent)
  /\ UNCHANGED <<clientVars, toClient, agentVars>>

\* Frames nobody waits for: a worthless line, or the spoilt beginning of one.
Babble ==
  /\ handler = "eating" /\ serving # session
  /\ toClient = <<>>
  /\ Reply("JUNK", serving)
  /\ UNCHANGED <<clientVars, toAgent, agentVars>>

\* The handler returns, perhaps with half of a line read, and has answered.
FinishCommand ==
  /\ handler \in {"deaf", "eating"}
  /\ Reply("ANSWER", serving)
  /\ handler' = "none" /\ serving' = 0 /\ busy' = 0
  /\ \/ UNCHANGED toAgent
     \/ /\ handler = "eating" /\ toAgent # <<>>
        /\ toAgent' = [toAgent EXCEPT
                          ![1] = [kind |-> "UNKNOWN", by |-> 0, whole |-> @.whole]]
  /\ UNCHANGED <<clientVars, partial>>

Agent ==
  \/ ReadBeginning \/ AnswerHello \/ AnswerSync \/ AnswerUnknown \/ AnswerBye
  \/ StartCommand \/ EatLine \/ FinishCommand

-----------------------------------------------------------------------------
(* The bridge without a client, and the clock                               *)

Discard ==
  /\ phase = "off" /\ toClient # <<>>
  /\ NextLine
  /\ UNCHANGED <<clientVars, toAgent, agentVars>>

Pace == IF prompt THEN 1 ELSE CoarseTick

CountDown(t) == IF t <= Pace THEN 0 ELSE t - Pace

\* Something happens before the next tick.
Urgent ==
  \/ phase \in {"hello", "synced", "answered"}
  \/ phase \in {"awaitReady", "awaitSync", "awaitAnswer", "awaitBye"}
       /\ toClient # <<>>
  \/ handler \in {"none", "eating"} /\ toAgent # <<>>
  \/ handler \in {"deaf", "eating"} /\ busy = 0

\* Mutant: HELLO is sent once and waited for to the end.
HelloOnce == phase

\* Every five seconds without READY there is another HELLO.
NextAttempt == IF phase = "awaitReady" THEN "hello" ELSE phase

Tick ==
  /\ phase \in {"awaitReady", "awaitSync"} \/ busy > 0
  /\ prompt => ~Urgent
  /\ busy' = CountDown(busy)
  /\ IF phase \in {"awaitReady", "awaitSync"}
       THEN /\ left' = CountDown(left)
            /\ phase' = IF left <= Pace THEN "failed" ELSE NextAttempt
       ELSE UNCHANGED <<left, phase>>
  /\ UNCHANGED <<prompt, session, answer, toAgent, toClient, partial, handler,
                 serving>>

Over ==
  /\ phase = "failed" \/ (phase = "off" /\ session = Sessions)
  /\ UNCHANGED vars

Next == Client \/ Abandon \/ Agent \/ Babble \/ Discard \/ Tick \/ Over

Spec == Init /\ [][Next]_vars

\* Both programs keep running and time passes; nobody has to be abandoned.
Fairness == WF_vars(Client) /\ WF_vars(Agent) /\ WF_vars(Tick)

FairSpec == Spec /\ Fairness

-----------------------------------------------------------------------------
(* Properties                                                               *)

LineOf(kinds) == [kind : kinds, by : 0 .. Sessions, whole : BOOLEAN]

TypeOK ==
  /\ prompt \in BOOLEAN
  /\ session \in 0 .. Sessions
  /\ phase \in {"off", "hello", "awaitReady", "awaitSync", "synced",
                "awaitAnswer", "awaitBye", "answered", "failed"}
  /\ left \in 0 .. HelloTicks + SyncTicks
  /\ answer \in 0 .. Sessions
  /\ toAgent \in Seq(LineOf({"HELLO", "SYNC", "CMD", "BYE", "UNKNOWN"}))
  /\ toClient \in Seq(LineOf({"READY", "SYNCED", "ERR", "ANSWER", "BYE", "JUNK"}))
  /\ partial \in {"none", "junk", "SYNC", "CMD"}
  /\ handler \in {"none", "deaf", "eating", "stopped"}
  /\ serving \in 0 .. Sessions
  /\ busy \in 0 .. BusyTicks

\* docs/W98SER2-PROTOCOL.md: replies queued by an abandoned client are never
\* mistaken for the new command's response, whatever it left half sent, half
\* read or still being worked on.
AnswerIsOwn == phase = "answered" => answer = session

\* Why it is so: lines are of sessions that have begun; a SYNC or SYNCED of the
\* running client does not exist before it has sent its SYNC, and then is the
\* last line under way; behind it comes nothing but the client's own command and
\* the answer to it.
Begun ==
  /\ phase # "off" => session > 0
  /\ \A i \in 1 .. Len(toAgent) : toAgent[i].by <= session
  /\ \A i \in 1 .. Len(toClient) : toClient[i].by <= session
  /\ serving <= session

Token(line, kind) == line.kind = kind /\ line.by = session

NotYetSynced ==
  phase \in {"hello", "awaitReady"} =>
    /\ \A i \in 1 .. Len(toAgent) : ~Token(toAgent[i], "SYNC")
    /\ \A i \in 1 .. Len(toClient) : ~Token(toClient[i], "SYNCED")

Quiet == toAgent = <<>> /\ handler = "none" /\ partial = "none"

BarrierIsLast ==
  phase = "awaitSync" =>
    /\ \A i \in 1 .. Len(toAgent) : Token(toAgent[i], "SYNC") => i = Len(toAgent)
    /\ \A i \in 1 .. Len(toClient) :
         Token(toClient[i], "SYNCED") => i = Len(toClient) /\ Quiet

Exchange ==
  /\ phase = "synced" => Quiet /\ toClient = <<>>
  /\ phase \in {"awaitAnswer", "awaitBye"} =>
       LET kind == IF phase = "awaitBye" THEN "BYE" ELSE "CMD"
           reply == IF phase = "awaitBye" THEN "BYE" ELSE "ANSWER" IN
       \/ /\ toAgent = <<Line(kind, session)>> /\ toClient = <<>>
          /\ handler = "none" /\ partial = "none"
       \/ /\ toAgent = <<>> /\ toClient = <<>> /\ kind = "CMD"
          /\ handler \in {"deaf", "eating"} /\ partial = "none" /\ serving = session
       \/ /\ toAgent = <<>> /\ toClient = <<Line(reply, session)>>
          /\ handler \in {"none", "stopped"}

SessionInv ==
  TypeOK /\ Begun /\ NotYetSynced /\ BarrierIsLast /\ Exchange /\ AnswerIsOwn

\* docs/REMOTE-AGENT.md: a new connection is the way to recover after a client
\* has crashed: where lines are answered promptly it gets through before its 90
\* seconds are over, unless a BYE has stopped the agent.
Resynchronises ==
  (prompt /\ phase = "hello")
    ~> (phase \in {"synced", "off"} \/ handler = "stopped")
=============================================================================
