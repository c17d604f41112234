---------------------------- MODULE SessionProofs ----------------------------
(***************************************************************************)
(* Whose answer a client reads: for every number of clients one after the   *)
(* other, all timeouts, and whatever each abandoned client has left half    *)
(* sent, half read or still being worked on.                                *)
(***************************************************************************)
EXTENDS Session, TLAPS

AgentLine == LineOf({"HELLO", "SYNC", "CMD", "BYE", "UNKNOWN"})
ClientLine == LineOf({"READY", "SYNCED", "ERR", "ANSWER", "BYE", "JUNK"})

\* The assumption on the constants, one by one.
LEMMA Bounds ==
  /\ Sessions \in Nat /\ Sessions > 0
  /\ HelloTicks \in Nat /\ HelloTicks > 0
  /\ SyncTicks \in Nat /\ SyncTicks > 0
  /\ BusyTicks \in Nat /\ BusyTicks > 0
  /\ CoarseTick \in Nat /\ CoarseTick > 0
<1>1. \A n \in {Sessions, HelloTicks, SyncTicks, BusyTicks, CoarseTick} :
        n \in Nat \ {0}
  BY Zenon, SessionAssumption
<1>2. /\ Sessions \in Nat \ {0} /\ HelloTicks \in Nat \ {0}
      /\ SyncTicks \in Nat \ {0} /\ BusyTicks \in Nat \ {0}
      /\ CoarseTick \in Nat \ {0}
  BY Zenon, <1>1
<1> QED
  BY <1>2

-----------------------------------------------------------------------------
(* Lines and queues                                                         *)

LEMMA LineFacts ==
  ASSUME NEW by \in 0 .. Sessions
  PROVE  /\ \A kind \in {"HELLO", "SYNC", "CMD", "BYE", "UNKNOWN"} :
              Line(kind, by) \in AgentLine
         /\ \A kind \in {"READY", "SYNCED", "ERR", "ANSWER", "BYE", "JUNK"} :
              Line(kind, by) \in ClientLine
BY DEF Line, LineOf, AgentLine, ClientLine

LEMMA AppendFacts ==
  ASSUME NEW S, NEW q \in Seq(S), NEW e \in S
  PROVE  /\ Append(q, e) \in Seq(S)
         /\ Len(Append(q, e)) = Len(q) + 1 /\ Len(q) \in Nat
         /\ \A i \in 1 .. Len(q) : Append(q, e)[i] = q[i]
         /\ Append(q, e)[Len(q) + 1] = e
OBVIOUS

LEMMA EmptySeq ==
  ASSUME NEW S, NEW r \in Seq(S), Len(r) = 0
  PROVE  r = <<>>
OBVIOUS

\* What is left of a queue when the first n elements are gone.
LEMMA DropFacts ==
  ASSUME NEW S, NEW q \in Seq(S), NEW n \in 0 .. Len(q)
  PROVE  LET r == SubSeq(q, n + 1, Len(q)) IN
         /\ r \in Seq(S) /\ Len(r) = Len(q) - n /\ Len(q) \in Nat
         /\ \A i \in 1 .. Len(r) : r[i] = q[i + n]
OBVIOUS

LEMMA TailFacts ==
  ASSUME NEW S, NEW q \in Seq(S), q # <<>>
  PROVE  /\ Tail(q) \in Seq(S) /\ Head(q) \in S /\ Head(q) = q[1]
         /\ Len(q) \in Nat \ {0} /\ Len(Tail(q)) = Len(q) - 1
         /\ \A i \in 1 .. Len(Tail(q)) : Tail(q)[i] = q[i + 1]
         /\ Len(q) = 1 => Tail(q) = <<>>
<1>1. /\ Tail(q) \in Seq(S) /\ Head(q) \in S /\ Head(q) = q[1]
      /\ Len(q) \in Nat \ {0} /\ Len(Tail(q)) = Len(q) - 1
      /\ \A i \in 1 .. Len(Tail(q)) : Tail(q)[i] = q[i + 1]
  OBVIOUS
<1>2. \A r \in Seq(S) : Len(r) = 0 => r = <<>>
  BY EmptySeq
<1> QED
  BY <1>1, <1>2

\* The last line of a queue loses its end, or is lost.
LEMMA CutFacts ==
  ASSUME NEW q \in Seq(AgentLine), Len(q) > 0,
         NEW r, \/ r = [q EXCEPT ![Len(q)].whole = FALSE]
                \/ r = SubSeq(q, 1, Len(q) - 1)
  PROVE  /\ r \in Seq(AgentLine) /\ Len(r) \in Nat /\ Len(r) <= Len(q)
         /\ \A i \in 1 .. Len(r) : r[i].by = q[i].by /\ r[i].kind = q[i].kind
<1>1. Len(q) \in 1 .. Len(q) /\ q[Len(q)] \in AgentLine
  OBVIOUS
<1>2. CASE r = [q EXCEPT ![Len(q)].whole = FALSE]
  <2>1. [q[Len(q)] EXCEPT !.whole = FALSE] \in AgentLine
    BY <1>1 DEF AgentLine, LineOf
  <2> QED
    BY <1>1, <1>2, <2>1 DEF AgentLine, LineOf
<1>3. CASE r = SubSeq(q, 1, Len(q) - 1)
  BY <1>3
<1> QED
  BY <1>2, <1>3

\* The first line of a queue loses its beginning.
LEMMA SpoilFacts ==
  ASSUME NEW q \in Seq(AgentLine), q # <<>>, NEW r,
         r = [q EXCEPT ![1] = [kind |-> "UNKNOWN", by |-> 0, whole |-> @.whole]]
  PROVE  /\ r \in Seq(AgentLine) /\ Len(r) = Len(q) /\ Len(q) \in Nat \ {0}
         /\ r[1].kind = "UNKNOWN" /\ r[1].by = 0
         /\ \A i \in 2 .. Len(q) : r[i] = q[i]
<1>1. 1 \in 1 .. Len(q) /\ q[1] \in AgentLine /\ 0 \in 0 .. Sessions
  BY Bounds
<1>2. [kind |-> "UNKNOWN", by |-> 0, whole |-> q[1].whole] \in AgentLine
  BY <1>1 DEF AgentLine, LineOf
<1> QED
  BY <1>1, <1>2

\* The line a carriage return completes is the first one or nobody's.
LEMMA MergedFacts ==
  ASSUME TypeOK, toAgent # <<>>
  PROVE  /\ Merged \in AgentLine
         /\ partial = "none" => Merged = toAgent[1]
         /\ partial # "none" => Merged.by = 0
<1>1. toAgent \in Seq(AgentLine) /\ toAgent[1] \in AgentLine /\ Head(toAgent) = toAgent[1]
  BY TailFacts DEF TypeOK, AgentLine
<1>2. partial \in {"none", "junk", "SYNC", "CMD"} /\ 0 \in 0 .. Sessions
  BY Bounds DEF TypeOK
<1>3. CASE partial = "none"
  BY <1>1, <1>3 DEF Merged
<1>4. ASSUME NEW kind \in {"UNKNOWN", "SYNC", "CMD"}, Merged = Line(kind, 0),
             partial # "none"
      PROVE  Merged \in AgentLine /\ Merged.by = 0
  <2>1. Merged.by = 0
    BY <1>4 DEF Line
  <2> QED
    BY <1>2, <1>4, <2>1, LineFacts
<1> QED
  BY <1>2, <1>3, <1>4 DEF Merged

-----------------------------------------------------------------------------
(* The inductive invariant                                                  *)

\* SessionInv but for AnswerIsOwn, with the kinds of the lines named.
LEMMA InvFacts ==
  ASSUME SessionInv
  PROVE  /\ toAgent \in Seq(AgentLine) /\ toClient \in Seq(ClientLine)
         /\ Len(toAgent) \in Nat /\ Len(toClient) \in Nat
         /\ session \in Nat /\ session <= Sessions /\ serving \in Nat
         /\ left \in Nat /\ busy \in Nat
         /\ \A i \in 1 .. Len(toAgent) : toAgent[i] \in AgentLine
         /\ \A i \in 1 .. Len(toClient) : toClient[i] \in ClientLine
BY Bounds DEF SessionInv, TypeOK, AgentLine, ClientLine

LEMMA InvInit ==
  ASSUME Init
  PROVE  SessionInv
<1>1. TypeOK
  <2>1. Line("READY", 0) \in ClientLine
    <3>1. 0 \in 0 .. Sessions
      BY Bounds
    <3> QED
      BY <3>1, LineFacts
  <2>2. toClient \in Seq(ClientLine) /\ toAgent \in Seq(AgentLine)
    BY <2>1 DEF Init
  <2>3. prompt \in BOOLEAN
    BY Zenon DEF Init
  <2> QED
    BY <2>2, <2>3, Bounds DEF Init, TypeOK, AgentLine, ClientLine
<1>2. Begun
  BY DEF Init, Begun, Line
<1>3. NotYetSynced /\ BarrierIsLast /\ Exchange /\ AnswerIsOwn
  BY DEF Init, NotYetSynced, BarrierIsLast, Exchange, AnswerIsOwn
<1> QED
  BY <1>1, <1>2, <1>3 DEF SessionInv

\* A new client finds lines of earlier ones only.
LEMMA ConnectStep ==
  ASSUME SessionInv, Connect
  PROVE  SessionInv'
<1>1. PICK n \in 0 .. Len(toClient) : toClient' = SubSeq(toClient, n + 1, Len(toClient))
  BY DEF Connect
<1>2. /\ phase = "off" /\ session < Sessions
      /\ session' = session + 1 /\ phase' = "hello" /\ left' = HelloTicks
      /\ UNCHANGED <<prompt, answer, toAgent, partial, handler, serving, busy>>
  BY DEF Connect, agentVars
<1>3. /\ toClient' \in Seq(ClientLine) /\ Len(toClient') = Len(toClient) - n
      /\ \A i \in 1 .. Len(toClient') : toClient'[i] = toClient[i + n]
  BY <1>1, InvFacts, DropFacts
<1>4. TypeOK'
  <2>1. session' \in 0 .. Sessions /\ left' \in 0 .. HelloTicks + SyncTicks
    BY <1>2, InvFacts, Bounds
  <2> QED
    BY <1>2, <1>3, <2>1 DEF SessionInv, TypeOK, ClientLine
<1>5. /\ \A i \in 1 .. Len(toAgent') :
           toAgent'[i].by <= session /\ toAgent'[i].by \in Nat
      /\ \A i \in 1 .. Len(toClient') :
           toClient'[i].by <= session /\ toClient'[i].by \in Nat
  <2>1. /\ \A l \in AgentLine : l.by \in Nat
        /\ \A l \in ClientLine : l.by \in Nat
    BY Bounds DEF AgentLine, ClientLine, LineOf
  <2>2. \A i \in 1 .. Len(toClient') : i + n \in 1 .. Len(toClient)
    BY <1>3, InvFacts
  <2> QED
    BY <1>2, <1>3, <2>1, <2>2, InvFacts DEF SessionInv, Begun
<1>6. Begun'
  BY <1>2, <1>5, InvFacts DEF SessionInv, Begun
<1>7. NotYetSynced'
  BY <1>2, <1>5, InvFacts DEF NotYetSynced, Token
<1>8. BarrierIsLast' /\ Exchange' /\ AnswerIsOwn'
  BY <1>2 DEF BarrierIsLast, Exchange, AnswerIsOwn
<1> QED
  BY <1>4, <1>6, <1>7, <1>8 DEF SessionInv

LEMMA SendHelloStep ==
  ASSUME SessionInv, SendHello
  PROVE  SessionInv'
<1>1. /\ phase = "hello" /\ phase' = "awaitReady"
      /\ toAgent' = Append(toAgent, Line("HELLO", session))
      /\ UNCHANGED <<prompt, session, left, answer, toClient, partial, handler,
                     serving, busy>>
  BY DEF SendHello, Say, agentVars
<1>2. Line("HELLO", session) \in AgentLine
  BY InvFacts, LineFacts
<1>3. /\ toAgent' \in Seq(AgentLine) /\ Len(toAgent') = Len(toAgent) + 1
      /\ \A i \in 1 .. Len(toAgent) : toAgent'[i] = toAgent[i]
      /\ toAgent'[Len(toAgent')] = Line("HELLO", session)
  BY <1>1, <1>2, InvFacts, AppendFacts
<1>4. TypeOK'
  BY <1>1, <1>3 DEF SessionInv, TypeOK, AgentLine
<1>5. Begun'
  BY <1>1, <1>3, InvFacts DEF SessionInv, Begun, Line
<1>6. NotYetSynced'
  BY <1>1, <1>3, InvFacts DEF SessionInv, NotYetSynced, Token, Line
<1>7. BarrierIsLast' /\ Exchange' /\ AnswerIsOwn'
  BY <1>1 DEF BarrierIsLast, Exchange, AnswerIsOwn
<1> QED
  BY <1>4, <1>5, <1>6, <1>7 DEF SessionInv

\* The client's own SYNC is the last line it sends, and the first of its kind.
LEMMA ReadReadyStep ==
  ASSUME SessionInv, ReadReady
  PROVE  SessionInv'
<1>1. /\ phase = "awaitReady" /\ phase' = "awaitSync" /\ left' = SyncTicks
      /\ toClient # <<>> /\ toClient' = Tail(toClient)
      /\ toAgent' = Append(toAgent, Line("SYNC", session))
      /\ UNCHANGED <<prompt, session, answer, partial, handler, serving, busy>>
  BY DEF ReadReady, Reads, NextLine, Say, agentVars
<1>2. Line("SYNC", session) \in AgentLine
  BY InvFacts, LineFacts
<1>3. /\ toAgent' \in Seq(AgentLine) /\ Len(toAgent') = Len(toAgent) + 1
      /\ \A i \in 1 .. Len(toAgent) : toAgent'[i] = toAgent[i]
      /\ toAgent'[Len(toAgent')] = Line("SYNC", session)
  BY <1>1, <1>2, InvFacts, AppendFacts
<1>4. /\ toClient' \in Seq(ClientLine) /\ Len(toClient') = Len(toClient) - 1
      /\ \A i \in 1 .. Len(toClient') : toClient'[i] = toClient[i + 1]
  BY <1>1, InvFacts, TailFacts
<1>5. TypeOK'
  BY <1>1, <1>3, <1>4, Bounds DEF SessionInv, TypeOK, AgentLine, ClientLine
<1>6. Begun'
  BY <1>1, <1>3, <1>4, InvFacts DEF SessionInv, Begun, Line
<1>7. BarrierIsLast'
  <2>1. \A i \in 1 .. Len(toAgent) : ~Token(toAgent[i], "SYNC")
    BY <1>1 DEF SessionInv, NotYetSynced
  <2>2. \A i \in 1 .. Len(toClient) : ~Token(toClient[i], "SYNCED")
    BY <1>1 DEF SessionInv, NotYetSynced
  <2>3. \A i \in 1 .. Len(toAgent') : Token(toAgent'[i], "SYNC") => i = Len(toAgent')
    BY <1>3, <2>1, InvFacts
  <2>4. \A i \in 1 .. Len(toClient') : ~Token(toClient'[i], "SYNCED")
    <3>1. \A i \in 1 .. Len(toClient') : i + 1 \in 1 .. Len(toClient)
      BY <1>4, InvFacts
    <3> QED
      BY <1>4, <2>2, <3>1
  <2> QED
    BY <1>1, <2>3, <2>4 DEF BarrierIsLast, Token
<1>8. NotYetSynced' /\ Exchange' /\ AnswerIsOwn'
  BY <1>1 DEF NotYetSynced, Exchange, AnswerIsOwn
<1> QED
  BY <1>5, <1>6, <1>7, <1>8 DEF SessionInv

\* The own token is the last line under way: nothing is left behind it.
LEMMA ReadSyncedStep ==
  ASSUME SessionInv, ReadSynced, ~LegacySync
  PROVE  SessionInv'
<1>1. /\ phase = "awaitSync" /\ phase' = "synced" /\ left' = 0
      /\ toClient # <<>> /\ toClient' = Tail(toClient)
      /\ Token(Head(toClient), "SYNCED")
      /\ UNCHANGED <<prompt, session, answer, toAgent, partial, handler, serving,
                     busy>>
  BY DEF ReadSynced, IsBarrier, Token, NextLine, agentVars
<1>2. 1 \in 1 .. Len(toClient) /\ Head(toClient) = toClient[1]
  BY <1>1, InvFacts, TailFacts
<1>3. Len(toClient) = 1 /\ Quiet
  BY <1>1, <1>2 DEF SessionInv, BarrierIsLast
<1>4. toClient' = <<>>
  BY <1>1, <1>3, InvFacts, TailFacts
<1>5. TypeOK'
  BY <1>1, <1>4, Bounds DEF SessionInv, TypeOK
<1>6. Begun'
  BY <1>1, <1>4 DEF SessionInv, Begun
<1>7. Exchange'
  BY <1>1, <1>3, <1>4 DEF Exchange, Quiet
<1>8. NotYetSynced' /\ BarrierIsLast' /\ AnswerIsOwn'
  BY <1>1 DEF NotYetSynced, BarrierIsLast, AnswerIsOwn
<1> QED
  BY <1>5, <1>6, <1>7, <1>8 DEF SessionInv

\* A line dropped at the front takes no token with it but the front one.
LEMMA SkipLineStep ==
  ASSUME SessionInv, SkipLine
  PROVE  SessionInv'
<1>1. /\ toClient # <<>> /\ phase \in {"awaitReady", "awaitSync"}
      /\ UNCHANGED <<prompt, session, phase, left, answer, toAgent, partial,
                     handler, serving, busy>>
      /\ toClient' = Tail(toClient)
           \/ (Len(toClient) > 1 /\ toClient' = Tail(Tail(toClient)))
  BY DEF SkipLine, NextLine, clientVars, agentVars
<1>2. PICK n \in Nat :
        /\ n <= Len(toClient) /\ toClient' \in Seq(ClientLine)
        /\ Len(toClient') = Len(toClient) - n
        /\ \A i \in 1 .. Len(toClient') : toClient'[i] = toClient[i + n]
  <2>1. CASE toClient' = Tail(toClient)
    BY <1>1, <2>1, InvFacts, TailFacts
  <2>2. CASE Len(toClient) > 1 /\ toClient' = Tail(Tail(toClient))
    <3> DEFINE q == Tail(toClient)
    <3>1. /\ q \in Seq(ClientLine) /\ Len(q) = Len(toClient) - 1 /\ q # <<>>
          /\ \A i \in 1 .. Len(q) : q[i] = toClient[i + 1]
      <4>1. /\ q \in Seq(ClientLine) /\ Len(q) = Len(toClient) - 1
            /\ \A i \in 1 .. Len(q) : q[i] = toClient[i + 1]
        BY <1>1, InvFacts, TailFacts
      <4>2. Len(q) > 0
        BY <2>2, <4>1, InvFacts
      <4>3. \A r : r = <<>> => Len(r) = 0
        OBVIOUS
      <4> HIDE DEF q
      <4> QED
        BY <4>1, <4>2, <4>3
    <3>2. /\ Tail(q) \in Seq(ClientLine) /\ Len(Tail(q)) = Len(q) - 1
          /\ \A i \in 1 .. Len(Tail(q)) : Tail(q)[i] = q[i + 1]
      BY <3>1, TailFacts
    <3>3. \A i \in 1 .. Len(Tail(q)) : Tail(q)[i] = toClient[i + 2]
      BY <3>1, <3>2, InvFacts
    <3>4. /\ toClient' \in Seq(ClientLine) /\ Len(toClient') = Len(toClient) - 2
          /\ \A i \in 1 .. Len(toClient') : toClient'[i] = toClient[i + 2]
      <4>1. toClient' = Tail(q) /\ Len(toClient) \in Nat
        BY <2>2, InvFacts
      <4> HIDE DEF q
      <4> QED
        BY <3>1, <3>2, <3>3, <4>1
    <3>5. 2 \in Nat /\ 2 <= Len(toClient)
      BY <2>2, InvFacts
    <3> QED
      BY Zenon, <3>4, <3>5
  <2> QED
    BY <1>1, <2>1, <2>2
<1>3. \A i \in 1 .. Len(toClient') : i + n \in 1 .. Len(toClient)
  BY <1>2, InvFacts
<1>4. TypeOK'
  BY <1>1, <1>2 DEF SessionInv, TypeOK, ClientLine
<1>5. Begun'
  BY <1>1, <1>2, <1>3 DEF SessionInv, Begun
<1>6. NotYetSynced'
  BY <1>1, <1>2, <1>3 DEF SessionInv, NotYetSynced, Token
<1>7. BarrierIsLast'
  <2>1. ASSUME phase = "awaitSync", NEW i \in 1 .. Len(toClient'),
               Token(toClient'[i], "SYNCED")
        PROVE  i = Len(toClient') /\ Quiet'
    <3>1. Token(toClient[i + n], "SYNCED")
      BY <1>2, <2>1
    <3>2. i + n = Len(toClient) /\ Quiet
      BY <1>3, <2>1, <3>1 DEF SessionInv, BarrierIsLast
    <3>3. i = Len(toClient')
      BY <1>2, <3>2, InvFacts
    <3>4. Quiet'
      BY <1>1, <3>2 DEF Quiet
    <3> QED
      BY <3>3, <3>4
  <2> QED
    BY <1>1, <2>1 DEF SessionInv, BarrierIsLast, Token
<1>8. Exchange' /\ AnswerIsOwn'
  BY <1>1 DEF Exchange, AnswerIsOwn, SessionInv
<1> QED
  BY <1>4, <1>5, <1>6, <1>7, <1>8 DEF SessionInv

LEMMA SendCommandStep ==
  ASSUME SessionInv, SendCommand
  PROVE  SessionInv'
<1>1. PICK kind \in {"CMD", "BYE"} :
        /\ toAgent' = Append(toAgent, Line(kind, session))
        /\ phase' = IF kind = "BYE" THEN "awaitBye" ELSE "awaitAnswer"
  BY DEF SendCommand, Say
<1>2. /\ phase = "synced" /\ phase' \in {"awaitAnswer", "awaitBye"}
      /\ UNCHANGED <<prompt, session, left, answer, toClient, partial, handler,
                     serving, busy>>
  BY <1>1 DEF SendCommand, agentVars
<1>3. Quiet /\ toClient = <<>>
  BY <1>2 DEF SessionInv, Exchange
<1>4. Line(kind, session) \in AgentLine
  BY InvFacts, LineFacts
<1>5. toAgent' = <<Line(kind, session)>>
  BY <1>1, <1>3 DEF Quiet
<1>6. TypeOK'
  BY <1>2, <1>4, <1>5 DEF SessionInv, TypeOK, AgentLine
<1>7. Begun'
  BY <1>2, <1>5, InvFacts DEF SessionInv, Begun, Line
<1>8. Exchange'
  BY <1>1, <1>2, <1>3, <1>5 DEF Exchange, Quiet
<1>9. NotYetSynced' /\ BarrierIsLast' /\ AnswerIsOwn'
  BY <1>2 DEF NotYetSynced, BarrierIsLast, AnswerIsOwn
<1> QED
  BY <1>6, <1>7, <1>8, <1>9 DEF SessionInv

\* What the first line after the command is.
LEMMA ReadAnswerStep ==
  ASSUME SessionInv, ReadAnswer
  PROVE  SessionInv'
<1> DEFINE reply == IF phase = "awaitBye" THEN "BYE" ELSE "ANSWER"
<1>1. /\ phase \in {"awaitAnswer", "awaitBye"} /\ phase' = "answered"
      /\ toClient # <<>> /\ toClient' = Tail(toClient)
      /\ answer' = IF Head(toClient).kind = reply THEN Head(toClient).by ELSE 0
      /\ UNCHANGED <<prompt, session, left, toAgent, partial, handler, serving,
                     busy>>
  BY DEF ReadAnswer, Reads, NextLine, agentVars
<1>2. toAgent = <<>> /\ toClient = <<Line(reply, session)>>
  BY <1>1 DEF SessionInv, Exchange
<1>3. answer' = session /\ toClient' = <<>>
  BY <1>1, <1>2 DEF Line
<1>4. TypeOK'
  BY <1>1, <1>3 DEF SessionInv, TypeOK
<1>5. Begun'
  BY <1>1, <1>3 DEF SessionInv, Begun
<1>6. NotYetSynced' /\ BarrierIsLast' /\ Exchange' /\ AnswerIsOwn'
  BY <1>1, <1>3 DEF NotYetSynced, BarrierIsLast, Exchange, AnswerIsOwn
<1> QED
  BY <1>4, <1>5, <1>6 DEF SessionInv

LEMMA LeaveStep ==
  ASSUME SessionInv, Leave
  PROVE  SessionInv'
BY DEF Leave, agentVars, SessionInv, TypeOK, Begun, NotYetSynced, BarrierIsLast,
   Exchange, AnswerIsOwn

\* Cutting a line changes neither its kind nor whose it is.
LEMMA AbandonStep ==
  ASSUME SessionInv, Abandon
  PROVE  SessionInv'
<1>1. /\ phase' = "off" /\ left' = 0
      /\ UNCHANGED <<prompt, session, answer, toClient, partial, handler, serving,
                     busy>>
  BY DEF Abandon, agentVars
<1>2. /\ toAgent' \in Seq(AgentLine) /\ Len(toAgent') <= Len(toAgent)
      /\ Len(toAgent') \in Nat
      /\ \A i \in 1 .. Len(toAgent') : toAgent'[i].by = toAgent[i].by
  <2>1. CASE UNCHANGED toAgent
    BY <2>1, InvFacts
  <2>2. CASE /\ Len(toAgent) > 0
             /\ \/ toAgent' = [toAgent EXCEPT ![Len(toAgent)].whole = FALSE]
                \/ toAgent' = SubSeq(toAgent, 1, Len(toAgent) - 1)
    BY <2>2, InvFacts, CutFacts
  <2> QED
    BY <2>1, <2>2 DEF Abandon
<1>3. TypeOK'
  BY <1>1, <1>2, Bounds DEF SessionInv, TypeOK, AgentLine
<1>4. Begun'
  BY <1>1, <1>2, InvFacts DEF SessionInv, Begun
<1>5. NotYetSynced' /\ BarrierIsLast' /\ Exchange' /\ AnswerIsOwn'
  BY <1>1 DEF NotYetSynced, BarrierIsLast, Exchange, AnswerIsOwn
<1> QED
  BY <1>3, <1>4, <1>5 DEF SessionInv

-----------------------------------------------------------------------------
(* The agent, the bridge and the clock                                      *)

\* What the agent reads: the first line goes, nothing else changes place.
LEMMA AgentTakes ==
  ASSUME SessionInv, toAgent # <<>>, toAgent' = Tail(toAgent), UNCHANGED clientVars
  PROVE  /\ toAgent' \in Seq(AgentLine)
         /\ \A i \in 1 .. Len(toAgent') : toAgent'[i].by <= session'
         /\ phase \in {"hello", "awaitReady"} =>
              \A i \in 1 .. Len(toAgent') : ~Token(toAgent'[i], "SYNC")
         /\ phase = "awaitSync" =>
              \A i \in 1 .. Len(toAgent') :
                Token(toAgent'[i], "SYNC") => i = Len(toAgent')
<1>1. /\ toAgent' \in Seq(AgentLine) /\ Len(toAgent') = Len(toAgent) - 1
      /\ \A i \in 1 .. Len(toAgent') : toAgent'[i] = toAgent[i + 1]
  BY InvFacts, TailFacts
<1>2. \A i \in 1 .. Len(toAgent') : i + 1 \in 1 .. Len(toAgent)
  BY <1>1, InvFacts
<1>3. session' = session
  BY DEF clientVars
<1>4. \A i \in 1 .. Len(toAgent') : toAgent'[i].by <= session'
  BY <1>1, <1>2, <1>3 DEF SessionInv, Begun
<1>5. ASSUME phase \in {"hello", "awaitReady"}, NEW i \in 1 .. Len(toAgent')
      PROVE  ~Token(toAgent'[i], "SYNC")
  BY <1>1, <1>2, <1>5 DEF SessionInv, NotYetSynced
<1>6. ASSUME phase = "awaitSync", NEW i \in 1 .. Len(toAgent'),
             Token(toAgent'[i], "SYNC")
      PROVE  i = Len(toAgent')
  <2>1. i + 1 \in 1 .. Len(toAgent) /\ Token(toAgent[i + 1], "SYNC")
    BY <1>1, <1>2, <1>6
  <2>2. i + 1 = Len(toAgent)
    BY <1>6, <2>1 DEF SessionInv, BarrierIsLast
  <2>3. Len(toAgent) \in Nat /\ i \in Nat
    BY InvFacts
  <2>4. Len(toAgent') = Len(toAgent) - 1
    BY <1>1
  <2> HIDE <1>1
  <2> QED
    BY <2>2, <2>3, <2>4
<1> QED
  BY <1>1, <1>4, <1>5, <1>6

\* What the agent says: one line behind those under way.
LEMMA AgentSays ==
  ASSUME SessionInv, NEW kind \in {"READY", "SYNCED", "ERR", "ANSWER", "BYE", "JUNK"},
         NEW by \in 0 .. Sessions, by <= session, Reply(kind, by), UNCHANGED clientVars
  PROVE  /\ toClient' \in Seq(ClientLine) /\ Len(toClient') = Len(toClient) + 1
         /\ \A i \in 1 .. Len(toClient') : toClient'[i].by <= session'
         /\ \A i \in 1 .. Len(toClient) : toClient'[i] = toClient[i]
         /\ toClient'[Len(toClient')] = Line(kind, by)
<1>1. Line(kind, by) \in ClientLine
  BY LineFacts
<1>2. /\ toClient' \in Seq(ClientLine) /\ Len(toClient') = Len(toClient) + 1
      /\ \A i \in 1 .. Len(toClient) : toClient'[i] = toClient[i]
      /\ toClient'[Len(toClient')] = Line(kind, by)
  BY <1>1, InvFacts, AppendFacts DEF Reply
<1>3. \A i \in 1 .. Len(toClient') : i \in 1 .. Len(toClient) \/ i = Len(toClient')
  BY <1>2, InvFacts
<1>4. session' = session
  BY DEF clientVars
<1> QED
  BY <1>2, <1>3, <1>4, InvFacts DEF SessionInv, Begun, Line

\* While the agent has something to do, no SYNCED of the client is under way.
LEMMA NoToken ==
  ASSUME SessionInv, toAgent # <<>> \/ handler # "none"
  PROVE  /\ phase # "synced"
         /\ phase \in {"hello", "awaitReady", "awaitSync"} =>
              \A i \in 1 .. Len(toClient) : ~Token(toClient[i], "SYNCED")
BY DEF SessionInv, NotYetSynced, BarrierIsLast, Exchange, Quiet

\* A step of the agent that no client waits for.
LEMMA NobodyAwaits ==
  ASSUME SessionInv, UNCHANGED clientVars, TypeOK', Begun',
         phase \notin {"synced", "awaitAnswer", "awaitBye"},
         phase \in {"hello", "awaitReady"} =>
           \A i \in 1 .. Len(toAgent') : ~Token(toAgent'[i], "SYNC"),
         phase = "awaitSync" =>
           \A i \in 1 .. Len(toAgent') :
             Token(toAgent'[i], "SYNC") => i = Len(toAgent'),
         phase \in {"hello", "awaitReady", "awaitSync"} =>
           \A i \in 1 .. Len(toClient') : ~Token(toClient'[i], "SYNCED")
  PROVE  SessionInv'
<1>1. phase' = phase /\ session' = session /\ answer' = answer
  BY DEF clientVars
<1> QED
  BY <1>1 DEF SessionInv, NotYetSynced, BarrierIsLast, Exchange, AnswerIsOwn, Token

LEMMA ReadBeginningStep ==
  ASSUME SessionInv, ReadBeginning
  PROVE  SessionInv'
<1>1. /\ toAgent # <<>> /\ toAgent' = Tail(toAgent) /\ ~Head(toAgent).whole
      /\ UNCHANGED clientVars /\ UNCHANGED <<toClient, handler, serving, busy>>
  BY DEF ReadBeginning
<1>2. partial' \in {"none", "junk", "SYNC", "CMD"}
  BY DEF ReadBeginning, SessionInv, TypeOK
<1>3. phase \notin {"awaitAnswer", "awaitBye"}
  BY <1>1 DEF SessionInv, Exchange, Line
<1>4. TypeOK'
  BY <1>1, <1>2, AgentTakes DEF SessionInv, TypeOK, AgentLine, clientVars
<1>5. Begun'
  BY <1>1, AgentTakes DEF SessionInv, Begun, clientVars
<1> QED
  BY <1>1, <1>3, <1>4, <1>5, AgentTakes, NoToken, NobodyAwaits

LEMMA EatLineStep ==
  ASSUME SessionInv, EatLine
  PROVE  SessionInv'
<1>1. /\ toAgent # <<>> /\ toAgent' = Tail(toAgent) /\ handler = "eating"
      /\ UNCHANGED clientVars
      /\ UNCHANGED <<toClient, partial, handler, serving, busy>>
  BY DEF EatLine, agentVars
<1>2. phase \notin {"awaitAnswer", "awaitBye"}
  BY <1>1 DEF SessionInv, Exchange
<1>3. TypeOK'
  BY <1>1, AgentTakes DEF SessionInv, TypeOK, AgentLine, clientVars
<1>4. Begun'
  BY <1>1, AgentTakes DEF SessionInv, Begun, clientVars
<1> QED
  BY <1>1, <1>2, <1>3, <1>4, AgentTakes, NoToken, NobodyAwaits

\* The first line is complete and a line is said in reply to it.
LEMMA Replies ==
  ASSUME SessionInv, NEW asked, Completes(asked), UNCHANGED clientVars,
         NEW kind \in {"READY", "SYNCED", "ERR", "ANSWER", "BYE", "JUNK"},
         NEW by \in {0, Merged.by}, Reply(kind, by),
         UNCHANGED <<serving, busy>>, handler' \in {"none", "stopped"}
  PROVE  /\ TypeOK' /\ Begun' /\ toAgent # <<>> /\ toAgent' = Tail(toAgent)
         /\ by \in 0 .. Sessions /\ by <= session
         /\ Merged.kind = asked /\ handler = "none" /\ partial' = "none"
         /\ phase \in {"awaitAnswer", "awaitBye"} =>
              /\ asked = IF phase = "awaitBye" THEN "BYE" ELSE "CMD"
              /\ Merged.by = session /\ toAgent' = <<>> /\ toClient = <<>>
<1>1. /\ toAgent # <<>> /\ toAgent' = Tail(toAgent) /\ partial' = "none"
      /\ Merged.kind = asked /\ handler = "none"
  BY DEF Completes
<1>2. 1 \in 1 .. Len(toAgent)
  BY <1>1, InvFacts, TailFacts
<1>3. by \in 0 .. Sessions /\ by <= session
  <2>1. Merged \in AgentLine /\ Merged.by <= session
    BY <1>1, <1>2, InvFacts, MergedFacts DEF SessionInv, Begun
  <2>2. Merged.by \in 0 .. Sessions
    BY <2>1 DEF AgentLine, LineOf
  <2>3. 0 \in 0 .. Sessions /\ 0 <= session
    BY Bounds, InvFacts
  <2> QED
    BY <2>1, <2>2, <2>3
<1>4. TypeOK'
  BY <1>1, <1>3, AgentTakes, AgentSays
     DEF SessionInv, TypeOK, AgentLine, ClientLine, clientVars
<1>5. Begun'
  BY <1>1, <1>3, AgentTakes, AgentSays DEF SessionInv, Begun, clientVars
<1>6. ASSUME phase \in {"awaitAnswer", "awaitBye"}
      PROVE  /\ asked = IF phase = "awaitBye" THEN "BYE" ELSE "CMD"
             /\ Merged.by = session /\ toAgent' = <<>> /\ toClient = <<>>
  <2> DEFINE own == IF phase = "awaitBye" THEN "BYE" ELSE "CMD"
  <2>1. /\ toAgent = <<Line(own, session)>> /\ toClient = <<>>
        /\ partial = "none"
    BY <1>1, <1>6 DEF SessionInv, Exchange
  <2>2. Merged = Line(own, session)
    BY <1>1, <2>1, MergedFacts DEF SessionInv
  <2> QED
    BY <1>1, <2>1, <2>2 DEF Line
<1> QED
  BY <1>1, <1>3, <1>4, <1>5, <1>6

\* What else the reply leaves true when no client waits for an answer.
LEMMA RepliesToNobody ==
  ASSUME SessionInv, NEW asked, Completes(asked), UNCHANGED clientVars,
         NEW kind \in {"READY", "SYNCED", "ERR", "ANSWER", "BYE", "JUNK"},
         NEW by \in {0, Merged.by}, Reply(kind, by), kind # "SYNCED",
         UNCHANGED <<serving, busy>>, handler' \in {"none", "stopped"},
         phase \notin {"awaitAnswer", "awaitBye"}
  PROVE  SessionInv'
<1>1. /\ TypeOK' /\ Begun' /\ toAgent # <<>> /\ toAgent' = Tail(toAgent)
      /\ by \in 0 .. Sessions /\ by <= session
  BY Replies
<1>2. /\ Len(toClient') = Len(toClient) + 1
      /\ \A i \in 1 .. Len(toClient) : toClient'[i] = toClient[i]
      /\ toClient'[Len(toClient')] = Line(kind, by)
  BY <1>1, AgentSays
<1>3. \A i \in 1 .. Len(toClient') : i \in 1 .. Len(toClient) \/ i = Len(toClient')
  BY <1>2, InvFacts
<1>4. phase \in {"hello", "awaitReady", "awaitSync"} =>
        \A i \in 1 .. Len(toClient') : ~Token(toClient'[i], "SYNCED")
  BY <1>1, <1>2, <1>3, NoToken DEF Token, Line
<1> QED
  BY <1>1, <1>4, AgentTakes, NoToken, NobodyAwaits

LEMMA AnswerHelloStep ==
  ASSUME SessionInv, AnswerHello
  PROVE  SessionInv'
<1>1. /\ Completes("HELLO") /\ Reply("READY", 0) /\ UNCHANGED clientVars
      /\ UNCHANGED <<handler, serving, busy>> /\ handler' \in {"none", "stopped"}
  BY DEF AnswerHello, Completes
<1>2. phase \notin {"awaitAnswer", "awaitBye"}
  BY <1>1, Replies
<1> QED
  BY <1>1, <1>2, RepliesToNobody

LEMMA AnswerUnknownStep ==
  ASSUME SessionInv, AnswerUnknown
  PROVE  SessionInv'
<1>1. /\ Completes("UNKNOWN") /\ Reply("ERR", 0) /\ UNCHANGED clientVars
      /\ UNCHANGED <<handler, serving, busy>> /\ handler' \in {"none", "stopped"}
  BY DEF AnswerUnknown, Completes
<1>2. phase \notin {"awaitAnswer", "awaitBye"}
  BY <1>1, Replies
<1> QED
  BY <1>1, <1>2, RepliesToNobody

\* The client's own SYNC is the last line the agent reads: with it read, the
\* agent has nothing more to do and SYNCED is the last line under way.
LEMMA AnswerSyncStep ==
  ASSUME SessionInv, AnswerSync
  PROVE  SessionInv'
<1>1. /\ Completes("SYNC") /\ Reply("SYNCED", Merged.by) /\ UNCHANGED clientVars
      /\ UNCHANGED <<handler, serving, busy>> /\ handler' \in {"none", "stopped"}
  BY DEF AnswerSync, Completes
<1>2. /\ TypeOK' /\ Begun' /\ toAgent # <<>> /\ toAgent' = Tail(toAgent)
      /\ Merged.by \in 0 .. Sessions /\ Merged.by <= session
      /\ Merged.kind = "SYNC" /\ handler = "none" /\ partial' = "none"
      /\ phase \notin {"awaitAnswer", "awaitBye"}
  BY <1>1, Replies
<1>3. /\ Len(toClient') = Len(toClient) + 1
      /\ \A i \in 1 .. Len(toClient) : toClient'[i] = toClient[i]
      /\ toClient'[Len(toClient')] = Line("SYNCED", Merged.by)
  BY <1>1, <1>2, AgentSays
<1>4. \A i \in 1 .. Len(toClient') : i \in 1 .. Len(toClient) \/ i = Len(toClient')
  BY <1>3, InvFacts
<1>5. phase' = phase /\ session' = session /\ answer' = answer
      /\ phase # "synced"
  BY <1>1, <1>2, NoToken DEF clientVars
<1>6. CASE Merged.by # session \/ phase \notin {"hello", "awaitReady", "awaitSync"}
  <2>1. phase \in {"hello", "awaitReady", "awaitSync"} =>
          \A i \in 1 .. Len(toClient') : ~Token(toClient'[i], "SYNCED")
    BY <1>2, <1>3, <1>4, <1>6, NoToken DEF Token, Line
  <2> QED
    BY <1>1, <1>2, <1>5, <2>1, AgentTakes, NobodyAwaits
<1>7. CASE Merged.by = session /\ phase \in {"hello", "awaitReady", "awaitSync"}
  <2>1. session > 0 /\ 1 \in 1 .. Len(toAgent)
    BY <1>2, <1>7, InvFacts, TailFacts DEF SessionInv, Begun
  <2>2. Token(toAgent[1], "SYNC")
    BY <1>2, <1>7, <2>1, MergedFacts DEF SessionInv, Token
  <2>3. phase = "awaitSync" /\ Len(toAgent) = 1
    BY <1>7, <2>1, <2>2 DEF SessionInv, NotYetSynced, BarrierIsLast
  <2>4. toAgent' = <<>>
    BY <1>2, <2>3, InvFacts, TailFacts
  <2>5. \A i \in 1 .. Len(toClient) : ~Token(toClient'[i], "SYNCED")
    BY <1>2, <1>3, <2>3, NoToken
  <2>6. ASSUME NEW i \in 1 .. Len(toClient'), Token(toClient'[i], "SYNCED")
        PROVE  i = Len(toClient')
    BY <1>4, <2>5, <2>6
  <2>7. Quiet'
    BY <1>1, <1>2, <2>4 DEF Quiet
  <2>8. Len(toAgent') = 0
    BY <2>4
  <2>9. BarrierIsLast'
    BY <1>5, <2>6, <2>7, <2>8 DEF BarrierIsLast, Token
  <2> QED
    BY <1>2, <1>5, <2>3, <2>9 DEF SessionInv, NotYetSynced, Exchange, AnswerIsOwn
<1> QED
  BY <1>6, <1>7

LEMMA AnswerByeStep ==
  ASSUME SessionInv, AnswerBye
  PROVE  SessionInv'
<1>1. /\ Completes("BYE") /\ Reply("BYE", Merged.by) /\ UNCHANGED clientVars
      /\ UNCHANGED <<serving, busy>> /\ handler' = "stopped"
  BY DEF AnswerBye
<1>2. CASE phase \notin {"awaitAnswer", "awaitBye"}
  BY <1>1, <1>2, RepliesToNobody
<1>3. CASE phase \in {"awaitAnswer", "awaitBye"}
  <2>1. /\ TypeOK' /\ Begun' /\ phase = "awaitBye" /\ Merged.by = session
        /\ toAgent' = <<>> /\ toClient = <<>>
    BY <1>1, <1>3, Replies
  <2>2. toClient' = <<Line("BYE", session)>>
    BY <1>1, <2>1 DEF Reply
  <2> QED
    BY <1>1, <2>1, <2>2
       DEF SessionInv, NotYetSynced, BarrierIsLast, Exchange, AnswerIsOwn, clientVars
<1> QED
  BY <1>2, <1>3

LEMMA StartCommandStep ==
  ASSUME SessionInv, StartCommand
  PROVE  SessionInv'
<1>1. /\ toAgent # <<>> /\ toAgent' = Tail(toAgent) /\ partial' = "none"
      /\ Merged.kind = "CMD" /\ handler = "none" /\ handler' \in {"deaf", "eating"}
      /\ serving' = Merged.by /\ busy' = BusyTicks
      /\ UNCHANGED clientVars /\ UNCHANGED toClient
  BY DEF StartCommand, Completes
<1>2. 1 \in 1 .. Len(toAgent)
  BY <1>1, InvFacts, TailFacts
<1>3. serving' \in 0 .. Sessions /\ serving' <= session
  <2>1. Merged \in AgentLine /\ Merged.by <= session
    BY <1>1, <1>2, InvFacts, MergedFacts DEF SessionInv, Begun
  <2> QED
    BY <1>1, <2>1 DEF AgentLine, LineOf
<1>4. TypeOK'
  BY <1>1, <1>3, AgentTakes, Bounds DEF SessionInv, TypeOK, AgentLine, clientVars
<1>5. Begun'
  BY <1>1, <1>3, AgentTakes DEF SessionInv, Begun, clientVars
<1>6. CASE phase \notin {"awaitAnswer", "awaitBye"}
  BY <1>1, <1>4, <1>5, <1>6, AgentTakes, NoToken, NobodyAwaits
<1>7. CASE phase \in {"awaitAnswer", "awaitBye"}
  <2> DEFINE own == IF phase = "awaitBye" THEN "BYE" ELSE "CMD"
  <2>1. /\ toAgent = <<Line(own, session)>> /\ toClient = <<>>
        /\ partial = "none"
    BY <1>1, <1>7 DEF SessionInv, Exchange
  <2>2. Merged = Line(own, session)
    BY <1>1, <2>1, MergedFacts DEF SessionInv
  <2>3. phase = "awaitAnswer" /\ serving' = session /\ toAgent' = <<>>
    BY <1>1, <1>7, <2>1, <2>2 DEF Line
  <2> QED
    BY <1>1, <1>4, <1>5, <2>1, <2>3
       DEF SessionInv, NotYetSynced, BarrierIsLast, Exchange, AnswerIsOwn, clientVars
<1> QED
  BY <1>6, <1>7

\* The answer of the running client's command is the only line under way.
LEMMA FinishCommandStep ==
  ASSUME SessionInv, FinishCommand
  PROVE  SessionInv'
<1>1. /\ handler \in {"deaf", "eating"} /\ Reply("ANSWER", serving)
      /\ handler' = "none" /\ serving' = 0 /\ busy' = 0
      /\ UNCHANGED clientVars /\ UNCHANGED partial
  BY DEF FinishCommand
<1>2. serving \in 0 .. Sessions /\ serving <= session
  BY DEF SessionInv, TypeOK, Begun
<1>3. /\ toClient' \in Seq(ClientLine) /\ Len(toClient') = Len(toClient) + 1
      /\ \A i \in 1 .. Len(toClient') : toClient'[i].by <= session'
      /\ \A i \in 1 .. Len(toClient) : toClient'[i] = toClient[i]
      /\ toClient'[Len(toClient')] = Line("ANSWER", serving)
  BY <1>1, <1>2, AgentSays
<1>4. /\ toAgent' \in Seq(AgentLine) /\ Len(toAgent') = Len(toAgent)
      /\ toAgent = <<>> => toAgent' = <<>>
      /\ \A i \in 1 .. Len(toAgent') :
           toAgent'[i] = toAgent[i]
             \/ (toAgent'[i].kind = "UNKNOWN" /\ toAgent'[i].by = 0)
  <2>1. CASE UNCHANGED toAgent
    BY <2>1, InvFacts
  <2>2. CASE /\ toAgent # <<>>
             /\ toAgent' = [toAgent EXCEPT
                  ![1] = [kind |-> "UNKNOWN", by |-> 0, whole |-> @.whole]]
    <3>1. /\ toAgent' \in Seq(AgentLine) /\ Len(toAgent') = Len(toAgent)
          /\ toAgent'[1].kind = "UNKNOWN" /\ toAgent'[1].by = 0
          /\ \A i \in 2 .. Len(toAgent) : toAgent'[i] = toAgent[i]
      BY <2>2, InvFacts, SpoilFacts
    <3>2. \A i \in 1 .. Len(toAgent) : i = 1 \/ i \in 2 .. Len(toAgent)
      BY InvFacts
    <3> QED
      BY <2>2, <3>1, <3>2
  <2> QED
    BY <2>1, <2>2 DEF FinishCommand
<1>5. TypeOK'
  BY <1>1, <1>3, <1>4, Bounds
     DEF SessionInv, TypeOK, AgentLine, ClientLine, clientVars
<1>6. Begun'
  BY <1>1, <1>3, <1>4, InvFacts DEF SessionInv, Begun, clientVars
<1>7. CASE phase \notin {"awaitAnswer", "awaitBye"}
  <2>1. \A i \in 1 .. Len(toClient') : i \in 1 .. Len(toClient) \/ i = Len(toClient')
    BY <1>3, InvFacts
  <2>2. phase \in {"hello", "awaitReady", "awaitSync"} =>
          \A i \in 1 .. Len(toClient') : ~Token(toClient'[i], "SYNCED")
    BY <1>1, <1>3, <2>1, NoToken DEF Token, Line
  <2>3. \A i \in 1 .. Len(toAgent') :
          Token(toAgent'[i], "SYNC") => Token(toAgent[i], "SYNC")
    BY <1>4 DEF Token
  <2>4. phase \in {"hello", "awaitReady"} =>
          \A i \in 1 .. Len(toAgent') : ~Token(toAgent'[i], "SYNC")
    BY <1>4, <2>3 DEF SessionInv, NotYetSynced
  <2>5. phase = "awaitSync" =>
          \A i \in 1 .. Len(toAgent') :
            Token(toAgent'[i], "SYNC") => i = Len(toAgent')
    BY <1>4, <2>3 DEF SessionInv, BarrierIsLast
  <2> QED
    BY <1>1, <1>5, <1>6, <1>7, <2>2, <2>4, <2>5, NoToken, NobodyAwaits
<1>8. CASE phase \in {"awaitAnswer", "awaitBye"}
  <2>1. /\ toAgent = <<>> /\ toClient = <<>> /\ serving = session
        /\ phase = "awaitAnswer"
    BY <1>1, <1>8 DEF SessionInv, Exchange
  <2>2. toAgent' = <<>> /\ toClient' = <<Line("ANSWER", session)>>
    BY <1>1, <1>4, <2>1 DEF Reply
  <2> QED
    BY <1>1, <1>5, <1>6, <2>1, <2>2
       DEF SessionInv, NotYetSynced, BarrierIsLast, Exchange, AnswerIsOwn, clientVars
<1> QED
  BY <1>7, <1>8

LEMMA BabbleStep ==
  ASSUME SessionInv, Babble
  PROVE  SessionInv'
<1>1. /\ handler = "eating" /\ serving # session /\ toClient = <<>>
      /\ Reply("JUNK", serving) /\ UNCHANGED clientVars
      /\ UNCHANGED <<toAgent, partial, handler, serving, busy>>
  BY DEF Babble, agentVars
<1>2. serving \in 0 .. Sessions /\ serving <= session
  BY DEF SessionInv, TypeOK, Begun
<1>3. /\ toClient' = <<Line("JUNK", serving)>> /\ toClient' \in Seq(ClientLine)
      /\ \A i \in 1 .. Len(toClient') : toClient'[i].by <= session'
  BY <1>1, <1>2, AgentSays DEF Reply
<1>4. phase \notin {"awaitAnswer", "awaitBye"}
  BY <1>1 DEF SessionInv, Exchange
<1>5. TypeOK'
  BY <1>1, <1>3 DEF SessionInv, TypeOK, ClientLine, clientVars
<1>6. Begun'
  BY <1>1, <1>3 DEF SessionInv, Begun, clientVars
<1>7. \A i \in 1 .. Len(toClient') : ~Token(toClient'[i], "SYNCED")
  BY <1>3 DEF Token, Line
<1>8. /\ phase \in {"hello", "awaitReady"} =>
           \A i \in 1 .. Len(toAgent') : ~Token(toAgent'[i], "SYNC")
      /\ phase = "awaitSync" =>
           \A i \in 1 .. Len(toAgent') :
             Token(toAgent'[i], "SYNC") => i = Len(toAgent')
  BY <1>1 DEF SessionInv, NotYetSynced, BarrierIsLast
<1> QED
  BY <1>1, <1>4, <1>5, <1>6, <1>7, <1>8, NoToken, NobodyAwaits

LEMMA DiscardStep ==
  ASSUME SessionInv, Discard
  PROVE  SessionInv'
<1>1. /\ phase = "off" /\ toClient # <<>> /\ toClient' = Tail(toClient)
      /\ UNCHANGED <<prompt, session, phase, left, answer, toAgent, partial,
                     handler, serving, busy>>
  BY DEF Discard, NextLine, clientVars, agentVars
<1>2. /\ toClient' \in Seq(ClientLine) /\ Len(toClient') = Len(toClient) - 1
      /\ \A i \in 1 .. Len(toClient') : toClient'[i] = toClient[i + 1]
  BY <1>1, InvFacts, TailFacts
<1>3. \A i \in 1 .. Len(toClient') : i + 1 \in 1 .. Len(toClient)
  BY <1>2, InvFacts
<1>4. TypeOK'
  BY <1>1, <1>2 DEF SessionInv, TypeOK, ClientLine
<1>5. Begun'
  BY <1>1, <1>2, <1>3 DEF SessionInv, Begun
<1>6. NotYetSynced' /\ BarrierIsLast' /\ Exchange' /\ AnswerIsOwn'
  BY <1>1 DEF NotYetSynced, BarrierIsLast, Exchange, AnswerIsOwn
<1> QED
  BY <1>4, <1>5, <1>6 DEF SessionInv

\* Time changes what a client that waits for READY or SYNCED does next.
LEMMA TickStep ==
  ASSUME SessionInv, Tick
  PROVE  SessionInv'
<1>1. Pace \in Nat /\ Pace > 0
  BY Bounds DEF Pace
<1>2. \A t \in Nat : CountDown(t) \in Nat /\ CountDown(t) <= t
  BY <1>1 DEF CountDown
<1>3. /\ UNCHANGED <<prompt, session, answer, toAgent, toClient, partial, handler,
                     serving>>
      /\ busy' = CountDown(busy)
      /\ \/ left' = CountDown(left) /\ phase \in {"awaitReady", "awaitSync"}
         \/ left' = left /\ phase' = phase
      /\ \/ phase' = phase
         \/ phase' = "failed" /\ phase # "off"
         \/ phase' = "hello" /\ phase = "awaitReady"
  BY DEF Tick, NextAttempt
<1>4. left' \in 0 .. HelloTicks + SyncTicks /\ busy' \in 0 .. BusyTicks
  <2>1. left \in 0 .. HelloTicks + SyncTicks /\ busy \in 0 .. BusyTicks
    BY DEF SessionInv, TypeOK
  <2>2. left \in Nat /\ busy \in Nat
    BY InvFacts
  <2>3. left' \in Nat /\ left' <= left
    BY <1>2, <1>3, <2>2
  <2>4. busy' \in Nat /\ busy' <= busy
    BY <1>2, <1>3, <2>2
  <2> QED
    BY <2>1, <2>3, <2>4, Bounds
<1>5. TypeOK'
  BY <1>3, <1>4 DEF SessionInv, TypeOK
<1>6. Begun'
  BY <1>3 DEF SessionInv, Begun
<1>7. NotYetSynced'
  BY <1>3 DEF SessionInv, NotYetSynced, Token
<1>8. BarrierIsLast'
  BY <1>3 DEF SessionInv, BarrierIsLast, Token, Quiet
<1>9. Exchange' /\ AnswerIsOwn'
  BY <1>3 DEF SessionInv, Exchange, AnswerIsOwn, Quiet
<1> QED
  BY <1>5, <1>6, <1>7, <1>8, <1>9 DEF SessionInv

LEMMA InvStep ==
  ASSUME SessionInv, [Next]_vars, ~LegacySync
  PROVE  SessionInv'
<1>1. CASE Client
  BY <1>1, ConnectStep, SendHelloStep, ReadReadyStep, ReadSyncedStep, SkipLineStep,
     SendCommandStep, ReadAnswerStep, LeaveStep DEF Client
<1>2. CASE Agent
  BY <1>2, ReadBeginningStep, AnswerHelloStep, AnswerSyncStep, AnswerUnknownStep,
     AnswerByeStep, StartCommandStep, EatLineStep, FinishCommandStep DEF Agent
<1>3. CASE Over \/ UNCHANGED vars
  <2>1. UNCHANGED vars
    BY <1>3 DEF Over
  <2> QED
    BY <2>1 DEF vars, clientVars, agentVars, SessionInv, TypeOK, Begun,
       NotYetSynced, BarrierIsLast, Exchange, AnswerIsOwn, Token, Quiet
<1> QED
  BY <1>1, <1>2, <1>3, AbandonStep, BabbleStep, DiscardStep, TickStep DEF Next

-----------------------------------------------------------------------------
(* The theorems                                                             *)

\* The inductive invariant: between HELLO and the answer, what is under way is
\* what the running client and the agent have said to each other in order.
THEOREM SessionInvariant ==
  ASSUME ~LegacySync
  PROVE  Spec => []SessionInv
<1>1. Init => SessionInv
  BY InvInit
<1>2. SessionInv /\ [Next]_vars => SessionInv'
  BY InvStep
<1> QED
  BY <1>1, <1>2, PTL DEF Spec

\* A client that got through SYNC reads the answer of its own command, whatever
\* abandoned clients have left on the wire, in the agent's line buffer or in a
\* handler (w98agent-client.py, hello; W98AGENT.C, main).
THEOREM AnswersBelong ==
  ASSUME ~LegacySync
  PROVE  Spec => []AnswerIsOwn
<1>1. SessionInv => AnswerIsOwn
  BY DEF SessionInv
<1> QED
  BY <1>1, SessionInvariant, PTL
=============================================================================
