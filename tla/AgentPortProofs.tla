--------------------------- MODULE AgentPortProofs ----------------------------
(***************************************************************************)
(* What the agent takes its carrier for, for every payload, any number of   *)
(* lost and damaged bytes, and a peer that speaks whenever it likes.        *)
(***************************************************************************)
EXTENDS AgentPort, FiniteSetTheorems, FunctionTheorems, SequenceTheorems, TLAPS

LEMMA FirstMessage ==
  /\ Len(Message(0)) = 2
  /\ \A i \in {0, 1} : Message(0)[i + 1] = R
BY DEF Message

\* None of the peer's bytes is one of READY.
LEMMA FrameBytes ==
  ASSUME NEW id \in 1 .. Len(Payloads)
  PROVE  /\ Frame(id) \in Seq(-4 .. Len(Payloads))
         /\ \A i \in 1 .. Len(Frame(id)) : Frame(id)[i] # R
<1>1. Payloads[id] \in Seq(-4 .. Len(Payloads)) /\ Len(Payloads) \in Nat
  BY PayloadAssumption
<1>2. Magic \o <<id>> \in Seq(-4 .. Len(Payloads))
  BY <1>1 DEF Magic, W, F
<1>3. Frame(id) \in Seq(-4 .. Len(Payloads))
  BY <1>1, <1>2 DEF Frame
<1> QED
  BY <1>1, <1>3 DEF R

LEMMA FromFacts ==
  ASSUME NEW own \in BOOLEAN, NEW S, S \subseteq R .. Len(Payloads),
         NEW bytes \in Seq(S)
  PROVE  /\ From(own, bytes) \in Seq(Bytes)
         /\ Len(From(own, bytes)) = Len(bytes) /\ Len(bytes) \in Nat
         /\ \A i \in 1 .. Len(bytes) : From(own, bytes)[i].value = bytes[i]
<1>1. DOMAIN bytes = 1 .. Len(bytes) /\ Len(bytes) \in Nat
  OBVIOUS
<1>2. \A i \in 1 .. Len(bytes) : bytes[i] \in S
  OBVIOUS
<1>3. \A v \in S : [value |-> v, own |-> own] \in Bytes
  BY DEF Bytes
<1>4. From(own, bytes) = [i \in 1 .. Len(bytes) |-> [value |-> bytes[i], own |-> own]]
  BY <1>1 DEF From
<1>5. \A i \in 1 .. Len(bytes) : [value |-> bytes[i], own |-> own] \in Bytes
  BY <1>2, <1>3
<1>6. From(own, bytes) \in [1 .. Len(bytes) -> Bytes]
  BY <1>4, <1>5
<1>7. From(own, bytes) \in Seq(Bytes) /\ Len(From(own, bytes)) = Len(bytes)
  BY <1>1, <1>6
<1> QED
  BY <1>1, <1>4, <1>7

LEMMA ByteFacts ==
  ASSUME NEW byte \in Bytes, NEW b \in R .. Len(Payloads)
  PROVE  [byte EXCEPT !.value = b] \in Bytes /\ [byte EXCEPT !.value = b].value = b
BY DEF Bytes

LEMMA ConcatFacts ==
  ASSUME NEW S, NEW q \in Seq(S), NEW r \in Seq(S)
  PROVE  /\ q \o r \in Seq(S) /\ Len(q \o r) = Len(q) + Len(r)
         /\ Len(q) \in Nat /\ Len(r) \in Nat
         /\ q = <<>> => q \o r = r
         /\ \A i \in 1 .. Len(q \o r) :
              \/ i \in 1 .. Len(q) /\ (q \o r)[i] = q[i]
              \/ i - Len(q) \in 1 .. Len(r) /\ (q \o r)[i] = r[i - Len(q)]
OBVIOUS

LEMMA TailFacts ==
  ASSUME NEW S, NEW q \in Seq(S), q # <<>>
  PROVE  /\ Tail(q) \in Seq(S) /\ Head(q) = q[1] /\ 1 \in 1 .. Len(q)
         /\ Len(Tail(q)) = Len(q) - 1 /\ Len(q) \in Nat
         /\ \A i \in 1 .. Len(Tail(q)) :
              i + 1 \in 1 .. Len(q) /\ Tail(q)[i] = q[i + 1]
OBVIOUS

\* What every step that only reads leaves of the queue.
LEMMA ReadFacts ==
  ASSUME PortInv, ReadByte \/ (Arrived # <<>> /\ rx' = IF pending = <<>> THEN Tail(rx) ELSE rx)
  PROVE  /\ rx' \in Seq(Bytes)
         /\ (reflects' = reflects) => ReadyIsReflected'
         /\ pending = <<>> => /\ rx # <<>> /\ Byte = rx[1] /\ rx' = Tail(rx)
                              /\ 1 \in 1 .. Len(rx)
<1>1. rx \in Seq(Bytes) /\ rx' = IF pending = <<>> THEN Tail(rx) ELSE rx
  BY DEF PortInv, ReadByte
<1>2. CASE pending = <<>>
  <2>1. Arrived = rx
    BY <1>1, <1>2 DEF Arrived
  <2>2. rx # <<>> /\ rx' = Tail(rx)
    BY <1>1, <1>2, <2>1 DEF ReadByte
  <2>3. /\ rx' \in Seq(Bytes) /\ Byte = rx[1] /\ 1 \in 1 .. Len(rx)
        /\ \A i \in 1 .. Len(rx') : i + 1 \in 1 .. Len(rx) /\ rx'[i] = rx[i + 1]
    BY <1>1, <2>1, <2>2, TailFacts DEF Byte
  <2> QED
    BY <2>2, <2>3 DEF PortInv, ReadyIsReflected
<1>3. CASE pending # <<>>
  BY <1>1, <1>3 DEF PortInv, ReadyIsReflected
<1> QED
  BY <1>2, <1>3

LEMMA WriteStep ==
  ASSUME PortInv, Write
  PROVE  PortInv'
<1>1. /\ phase = "write" /\ writes' = writes + 1 /\ matched' = 0
      /\ rx' = IF reflects THEN rx \o From(TRUE, Message(writes)) ELSE rx
      /\ phase' = IF mode = "off" THEN "magic" ELSE "consume"
      /\ UNCHANGED <<reflects, mode, pending, sent, faults, outOfTurn>>
  BY DEF Write, history
<1>2. Message(writes) \in Seq({R, W, F, 0}) /\ {R, W, F, 0} \subseteq R .. Len(Payloads)
  <2>1. Len(Payloads) \in Nat
    BY PayloadAssumption
  <2>2. /\ <<R, R>> \in Seq({R, W, F, 0}) /\ <<>> \in Seq({R, W, F, 0})
        /\ Magic \in Seq({R, W, F, 0}) /\ <<0>> \in Seq({R, W, F, 0})
    BY DEF Magic
  <2>3. Frame(0) \in Seq({R, W, F, 0})
    BY <2>2, ConcatFacts DEF Frame
  <2>4. {R, W, F, 0} \subseteq R .. Len(Payloads)
    BY <2>1 DEF R, W, F
  <2> QED
    BY <2>2, <2>3, <2>4 DEF Message
<1>3. /\ From(TRUE, Message(writes)) \in Seq(Bytes)
      /\ Len(From(TRUE, Message(writes))) = Len(Message(writes))
      /\ \A i \in 1 .. Len(Message(writes)) :
           From(TRUE, Message(writes))[i].value = Message(writes)[i]
  BY <1>2, FromFacts
<1>4. rx' \in Seq(Bytes)
  BY <1>1, <1>3, ConcatFacts DEF PortInv
<1>5. Recognised' /\ ReadyIsReflected'
  BY <1>1 DEF PortInv, Recognised, ReadyIsReflected
<1>6. Undecided'
  <2> SUFFICES ASSUME mode = "unknown"
               PROVE  Undecided'
    BY <1>1 DEF Undecided
  <2>1. writes = 0 /\ pending = <<>> /\ phase' = "consume"
    BY <1>1 DEF PortInv, Undecided
  <2>2. ASSUME reflects, faults = 0, ~outOfTurn
        PROVE  Len(rx') = 2 /\ \A i \in 1 .. Len(rx') : rx'[i].value = R
    <3>1. rx' = From(TRUE, Message(0))
      BY <1>1, <1>3, <2>1, <2>2, ConcatFacts DEF PortInv, Undecided
    <3>2. Message(0) = <<R, R>>
      BY DEF Message
    <3>3. Len(rx') = 2 /\ \A i \in 1 .. 2 : rx'[i].value = <<R, R>>[i]
      BY <1>3, <2>1, <3>1, <3>2
    <3> QED
      BY <3>3
  <2>3. phase' = "consume" /\ writes' = 1 /\ matched' = 0 /\ pending' = <<>>
    BY <1>1, <2>1
  <2>4. reflects' = reflects /\ faults' = faults /\ outOfTurn' = outOfTurn
    BY <1>1
  <2>5. (reflects' /\ faults' = 0 /\ ~outOfTurn') =>
          Len(rx') = 2 - matched' /\ \A i \in 1 .. Len(rx') : rx'[i].value = R
    BY <2>2, <2>3, <2>4
  <2> QED
    BY <2>3, <2>5 DEF Undecided
<1>7. writes' \in Nat
  BY <1>1 DEF PortInv
<1> QED
  BY <1>1, <1>4, <1>5, <1>6, <1>7 DEF PortInv

\* A first byte that differs is not the reflection's, or not as it was written; one
\* that is out of place is there only after a fault.
LEMMA ConsumeOtherStep ==
  ASSUME PortInv, ConsumeOther
  PROVE  PortInv'
<1>1. /\ phase = "consume" /\ Arrived # <<>> /\ mode = "unknown"
      /\ Differs \/ OutOfPlace
      /\ mode' = "off" /\ phase' = "magic"
      /\ rx' = IF pending = <<>> THEN Tail(rx) ELSE rx
      /\ UNCHANGED <<reflects, writes, sent, faults, outOfTurn>>
  BY DEF ConsumeOther, history
<1>2. pending = <<>> /\ writes = 1 /\ matched \in {0, 1}
  BY <1>1 DEF PortInv, Undecided
<1>3. Byte = rx[1] /\ 1 \in 1 .. Len(rx)
  BY <1>1, <1>2, ReadFacts
<1>4. reflects => (faults > 0 \/ outOfTurn)
  <2>1. CASE Differs
    <3>1. Byte.value # R
      BY <1>2, <2>1, FirstMessage DEF Differs
    <3> QED
      BY <1>1, <1>3, <3>1 DEF PortInv, Undecided
  <2>2. CASE OutOfPlace
    BY <2>2 DEF OutOfPlace
  <2> QED
    BY <1>1, <2>1, <2>2
<1> QED
  BY <1>1, <1>4, ReadFacts DEF PortInv, Recognised, Undecided

\* Every byte that was equal was READY's: the carrier reflects.
LEMMA ConsumeStep ==
  ASSUME PortInv, Consume
  PROVE  PortInv'
<1>1. /\ phase = "consume" /\ ReadByte
      /\ ~Differs \/ mode # "unknown"
      /\ \/ mode' = "on" /\ phase' = "magic" /\ CountAny = Len(Message(writes - 1))
         \/ /\ matched' = matched + 1 /\ UNCHANGED <<mode, phase>>
            /\ CountAny # Len(Message(writes - 1))
      /\ UNCHANGED <<reflects, writes, sent, faults, outOfTurn>>
  BY DEF Consume, CountAny
<1>2. CASE mode # "unknown"
  <2>1. mode = "on"
    BY <1>1, <1>2 DEF PortInv
  <2> QED
    BY <1>1, <1>2, <2>1, ReadFacts DEF PortInv, Recognised, Undecided
<1>3. CASE mode = "unknown"
  <2>1. /\ pending = <<>> /\ writes = 1 /\ matched \in {0, 1} /\ ~Differs
        /\ pending' = <<>>
    BY <1>1, <1>3 DEF PortInv, Undecided, ReadByte
  <2>2. Byte.value = R /\ Byte = rx[1] /\ 1 \in 1 .. Len(rx) /\ rx' = Tail(rx)
    BY <1>1, <2>1, ReadFacts, FirstMessage DEF Differs
  <2>3. reflects
    BY <2>2 DEF PortInv, ReadyIsReflected
  <2>4. CASE mode' = "on" /\ phase' = "magic"
    BY <1>1, <2>3, <2>4, ReadFacts DEF PortInv, Recognised, Undecided
  <2>5. CASE /\ matched' = matched + 1 /\ UNCHANGED <<mode, phase>>
             /\ CountAny # Len(Message(writes - 1))
    <3>1. matched = 0 /\ matched' = 1
      <4>0. writes - 1 = 0
        BY <2>1
      <4>1. matched + 1 # 2
        BY <2>5, <4>0, FirstMessage DEF CountAny
      <4> QED
        BY <2>1, <2>5, <4>1
    <3>2. (faults = 0 /\ ~outOfTurn) =>
            Len(rx') = 1 /\ \A i \in 1 .. Len(rx') : rx'[i].value = R
      BY <1>1, <1>3, <2>2, <2>3, <3>1, TailFacts DEF PortInv, Undecided
    <3> QED
      BY <1>1, <1>3, <2>1, <2>3, <2>5, <3>1, <3>2, ReadFacts
         DEF PortInv, Recognised, Undecided
  <2> QED
    BY <1>1, <2>4, <2>5
<1> QED
  BY <1>2, <1>3

LEMMA ConsumeTimesOutStep ==
  ASSUME PortInv, ConsumeTimesOut
  PROVE  PortInv'
<1>1. /\ phase = "consume" /\ Arrived = <<>> /\ phase' = "magic"
      /\ mode' = IF mode = "unknown" THEN "off" ELSE mode
      /\ UNCHANGED <<reflects, rx, writes, sent, faults, outOfTurn>>
  BY DEF ConsumeTimesOut, Allowance, history
<1>2. CASE mode # "unknown"
  BY <1>1, <1>2 DEF PortInv, Recognised, ReadyIsReflected, Undecided
<1>3. CASE mode = "unknown"
  <2>1. pending = <<>> /\ matched \in {0, 1}
    BY <1>1, <1>3 DEF PortInv, Undecided
  <2>2. Len(rx) = 0
    BY <1>1, <2>1 DEF PortInv, Arrived
  <2>3. reflects => (faults > 0 \/ outOfTurn)
    BY <1>1, <1>3, <2>1, <2>2 DEF PortInv, Undecided
  <2> QED
    BY <1>1, <1>3, <2>3 DEF PortInv, Recognised, ReadyIsReflected, Undecided
<1> QED
  BY <1>2, <1>3

\* read_frame comes after the first write: the carrier is known.
LEMMA ReadSteps ==
  ASSUME PortInv,
         ReadCancelled \/ ReadMagic \/ ReadHeader \/ ReadPayload \/ ReadTimesOut
  PROVE  PortInv'
<1>1. /\ phase \in {"magic", "header", "payload"}
      /\ phase' \in {"magic", "header", "payload", "write"}
      /\ UNCHANGED <<reflects, mode, writes, sent, faults, outOfTurn>>
      /\ ReadByte \/ UNCHANGED rx
  BY DEF ReadCancelled, ReadMagic, ReadHeader, ReadPayload, ReadTimesOut, Return,
     Accept
<1>2. mode # "unknown"
  BY <1>1 DEF PortInv, Undecided
<1>3. rx' \in Seq(Bytes) /\ ReadyIsReflected'
  <2>1. CASE ReadByte
    BY <1>1, <2>1, ReadFacts
  <2>2. CASE UNCHANGED rx
    BY <1>1, <2>2 DEF PortInv, ReadyIsReflected
  <2> QED
    BY <1>1, <2>1, <2>2
<1> QED
  BY <1>1, <1>2, <1>3 DEF PortInv, Recognised, Undecided

\* A failing read decides nothing: it counts as a fault.
LEMMA ReadFailsStep ==
  ASSUME PortInv, ReadFails
  PROVE  PortInv'
<1>1. /\ phase' \in {"write", "magic"} /\ faults' = faults + 1
      /\ mode = "unknown" => phase' = "write" /\ writes' = 0
      /\ mode # "unknown" => writes' = writes
      /\ pending = <<>> /\ UNCHANGED <<reflects, mode, pending, rx, sent, outOfTurn>>
  BY DEF ReadFails, Return, history
<1>2. faults' \in Nat /\ faults' > 0 /\ writes' \in Nat
  BY <1>1 DEF PortInv
<1>3. Recognised' /\ ReadyIsReflected' /\ Undecided'
  BY <1>1, <1>2 DEF PortInv, Recognised, ReadyIsReflected, Undecided
<1> QED
  BY <1>1, <1>2, <1>3 DEF PortInv

\* Before the agent listens every word of the peer is out of turn.
LEMMA PeerSendsStep ==
  ASSUME PortInv, PeerSends
  PROVE  PortInv'
<1>1. /\ sent < Len(Payloads) /\ sent' = sent + 1
      /\ outOfTurn' = (outOfTurn \/ ~turn \/ phase # "magic")
      /\ rx' = rx \o From(FALSE, Frame(sent'))
      /\ UNCHANGED <<reflects, mode, pending, phase, matched, writes, faults>>
  BY DEF PeerSends, reading
<1>2. sent' \in 1 .. Len(Payloads) /\ sent' \in Nat
  BY <1>1, PayloadAssumption DEF PortInv
<1>3. /\ Frame(sent') \in Seq(-4 .. Len(Payloads))
      /\ \A i \in 1 .. Len(Frame(sent')) : Frame(sent')[i] # R
  BY <1>2, FrameBytes
<1>4. (-4 .. Len(Payloads)) \subseteq R .. Len(Payloads)
  BY PayloadAssumption DEF R
<1>5. /\ From(FALSE, Frame(sent')) \in Seq(Bytes)
      /\ Len(From(FALSE, Frame(sent'))) = Len(Frame(sent'))
      /\ \A i \in 1 .. Len(Frame(sent')) : From(FALSE, Frame(sent'))[i].value # R
  BY <1>3, <1>4, FromFacts
<1>6. rx' \in Seq(Bytes)
  BY <1>1, <1>5, ConcatFacts DEF PortInv
<1>7. ReadyIsReflected'
  <2> SUFFICES ASSUME ~reflects, NEW i \in 1 .. Len(rx')
               PROVE  rx'[i].value # R
    BY <1>1 DEF ReadyIsReflected
  <2> DEFINE new == From(FALSE, Frame(sent'))
  <2>1. /\ rx' = rx \o new /\ rx \in Seq(Bytes) /\ new \in Seq(Bytes)
        /\ \A j \in 1 .. Len(new) : new[j].value # R
    BY <1>1, <1>5 DEF PortInv
  <2> HIDE DEF new
  <2>2. \/ i \in 1 .. Len(rx) /\ rx'[i] = rx[i]
        \/ i - Len(rx) \in 1 .. Len(new) /\ rx'[i] = new[i - Len(rx)]
    BY <2>1, ConcatFacts
  <2> QED
    BY <2>1, <2>2 DEF PortInv, ReadyIsReflected
<1>8. Recognised'
  BY <1>1 DEF PortInv, Recognised
<1>9. Undecided'
  BY <1>1 DEF PortInv, Undecided
<1>10. outOfTurn' \in BOOLEAN
  BY Zenon, <1>1
<1> QED
  BY <1>1, <1>2, <1>6, <1>7, <1>8, <1>9, <1>10 DEF PortInv

\* Damage makes no byte of READY.
LEMMA FaultStep ==
  ASSUME PortInv, Fault
  PROVE  PortInv'
<1>1. /\ faults' = faults + 1 /\ faults \in Nat
      /\ UNCHANGED <<reflects, mode, pending, phase, matched, writes, sent, outOfTurn>>
  BY DEF Fault, PortInv, reading
<1>2. PICK i \in DOMAIN rx :
        rx' = Lost(i) \/ \E b \in {Damaged, Cancel} : rx' = [rx EXCEPT ![i].value = b]
  BY DEF Fault
<1>3. i \in 1 .. Len(rx) /\ rx \in Seq(Bytes) /\ Len(rx) \in Nat
  BY DEF PortInv
<1>4. rx' \in Seq(Bytes) /\ ReadyIsReflected'
  <2>1. CASE rx' = Lost(i)
    <3> DEFINE q == SubSeq(rx, 1, i - 1)
               r == SubSeq(rx, i + 1, Len(rx))
    <3>1. /\ q \in Seq(Bytes) /\ r \in Seq(Bytes)
          /\ \A j \in 1 .. Len(q) : j \in 1 .. Len(rx) /\ q[j] = rx[j]
          /\ \A j \in 1 .. Len(r) : j + i \in 1 .. Len(rx) /\ r[j] = rx[j + i]
      BY <1>3
    <3>2. rx' = q \o r
      BY <2>1 DEF Lost
    <3> HIDE DEF q, r
    <3>3. rx' \in Seq(Bytes)
          /\ \A j \in 1 .. Len(rx') : \E k \in 1 .. Len(rx) : rx'[j] = rx[k]
      <4>1. rx' \in Seq(Bytes)
        BY <3>1, <3>2, ConcatFacts
      <4>2. ASSUME NEW j \in 1 .. Len(rx')
            PROVE  \E k \in 1 .. Len(rx) : rx'[j] = rx[k]
        <5>1. \/ j \in 1 .. Len(q) /\ rx'[j] = q[j]
              \/ j - Len(q) \in 1 .. Len(r) /\ rx'[j] = r[j - Len(q)]
          BY <3>1, <3>2, ConcatFacts
        <5> QED
          BY <3>1, <5>1
      <4> QED
        BY <4>1, <4>2
    <3> QED
      BY <1>1, <3>3 DEF PortInv, ReadyIsReflected
  <2>2. CASE \E b \in {Damaged, Cancel} : rx' = [rx EXCEPT ![i].value = b]
    <3>1. PICK b \in {Damaged, Cancel} : rx' = [rx EXCEPT ![i].value = b]
      BY <2>2
    <3>2. b \in R .. Len(Payloads) /\ b # R
      BY <3>1, PayloadAssumption DEF Damaged, Cancel, R
    <3> DEFINE e == [rx[i] EXCEPT !.value = b]
    <3>3. e \in Bytes /\ e.value = b
      BY <1>3, <3>2, ByteFacts
    <3>4. rx' = [rx EXCEPT ![i] = e]
      BY <3>1
    <3> HIDE DEF e
    <3>5. /\ rx' \in Seq(Bytes) /\ Len(rx') = Len(rx)
          /\ rx'[i] = e /\ \A j \in 1 .. Len(rx) : j # i => rx'[j] = rx[j]
      BY <1>3, <3>3, <3>4
    <3> QED
      BY <1>1, <3>2, <3>3, <3>5 DEF PortInv, ReadyIsReflected
  <2> QED
    BY <1>2, <2>1, <2>2
<1>5. faults' \in Nat /\ faults' > 0
  BY <1>1
<1>6. Recognised' /\ Undecided'
  BY <1>1, <1>5 DEF PortInv, Recognised, Undecided
<1> QED
  BY <1>1, <1>4, <1>5, <1>6 DEF PortInv

-----------------------------------------------------------------------------
(* Where the agent stands in what it reads                                  *)

Values == R .. Len(Payloads)

\* matched counts within the reflection or the magic, or is the length of the
\* payload being read; a header is kept only while its payload comes.
Placed ==
  /\ TypeOK
  /\ got \in Seq(Headers \X Seq(Values))
  /\ mode # "off" => pending = <<>>
  /\ phase = "write" => matched = 0
  /\ phase = "consume" => writes > 0 /\ matched < Len(Message(writes - 1))
  /\ phase = "magic" => matched < 2
  /\ phase = "payload" =>
       /\ payload \in Seq(Values) /\ Len(payload) < matched /\ matched <= IoChunk
       /\ header # 0 /\ (header # Damaged => matched = Len(Payloads[header]))
  /\ phase # "payload" => header = 0 /\ payload = <<>>

LEMMA Halves ==
  ASSUME NEW S, NEW q \in Seq(S), NEW r \in Seq(S)
  PROVE  /\ q \o r \in Seq(S) /\ Len(q \o r) = Len(q) + Len(r)
         /\ Len(q) \in Nat /\ Len(r) \in Nat
         /\ \A i \in 1 .. Len(q) : (q \o r)[i] = q[i]
         /\ \A i \in 1 .. Len(r) : (q \o r)[Len(q) + i] = r[i]
OBVIOUS

LEMMA MessageLength ==
  ASSUME NEW n \in Nat
  PROVE  Len(Message(n)) = IF n = 0 THEN 2 ELSE 3
<1>1. Magic = <<W, F>>
  BY DEF Magic
<1>2. n # 0 => Message(n) = Magic \o <<0>> \o <<>>
  BY DEF Message, Frame
<1>3. /\ Magic \in Seq({W, F, 0}) /\ <<0>> \in Seq({W, F, 0}) /\ <<>> \in Seq({W, F, 0})
      /\ Len(Magic) = 2 /\ Len(<<0>>) = 1 /\ Len(<<>>) = 0
  BY <1>1
<1>4. Len(Magic \o <<0>> \o <<>>) = 3
  <2> DEFINE k == <<0>>
             e == <<>>
             S == {W, F, 0}
  <2>1. Magic \in Seq(S) /\ k \in Seq(S) /\ e \in Seq(S)
        /\ Len(Magic) = 2 /\ Len(k) = 1 /\ Len(e) = 0
    BY <1>3
  <2> HIDE DEF k, e, S
  <2> DEFINE h == Magic \o k
  <2>2. h \in Seq(S) /\ Len(h) = Len(Magic) + Len(k)
    BY <2>1, Halves
  <2> HIDE DEF h
  <2>a. h \in Seq(S) /\ Len(h) = 3
    BY <2>1, <2>2
  <2>b. Len(h \o e) = Len(h) + Len(e)
    BY <2>1, <2>a, Halves
  <2>3. Len(h \o e) = 3
    BY <2>1, <2>a, <2>b
  <2> QED
    BY <2>3 DEF h, k, e
<1>5. n = 0 => Len(Message(n)) = 2
  BY DEF Message
<1> QED
  BY <1>2, <1>4, <1>5

LEMMA FrameFacts ==
  ASSUME NEW id \in 1 .. Len(Payloads)
  PROVE  /\ Payloads[id] \in Seq(Values) /\ Len(Payloads[id]) \in 0 .. IoChunk
         /\ Frame(id) \in Seq(Values) /\ Len(Frame(id)) = 3 + Len(Payloads[id])
         /\ Frame(id)[1] = W /\ Frame(id)[2] = F /\ Frame(id)[3] = id
         /\ \A i \in 1 .. Len(Payloads[id]) : Frame(id)[3 + i] = Payloads[id][i]
<1>1. Len(Payloads) \in Nat /\ Payloads[id] \in Seq(-4 .. Len(Payloads))
  BY PayloadAssumption
<1>2. Payloads[id] \in Seq(Values) /\ id \in Values /\ id # 0
  <2>1. -4 .. Len(Payloads) \subseteq Values
    BY <1>1 DEF Values, R
  <2> QED
    BY <1>1, <2>1, SeqMonotonic DEF Values, R
<1>3. Len(Payloads[id]) \in 0 .. IoChunk
  <2>1. DOMAIN Payloads = 1 .. Len(Payloads)
    BY PayloadAssumption
  <2> QED
    BY <1>2, <2>1, PortAssumption, LenProperties
<1> DEFINE m == <<W, F>>
           k == <<id>>
           h == m \o k
           q == Payloads[id]
<1>4. /\ m \in Seq(Values) /\ k \in Seq(Values) /\ Len(m) = 2 /\ Len(k) = 1
      /\ m[1] = W /\ m[2] = F /\ k[1] = id
  BY <1>1, <1>2 DEF Values, W, F, R
<1>5. Frame(id) = h \o q
  BY <1>2 DEF Frame, Magic
<1> HIDE DEF m, k, q
<1>6. /\ h \in Seq(Values) /\ Len(h) = 3
      /\ h[1] = W /\ h[2] = F /\ h[3] = id
  <2>1. m \in Seq(Values) /\ k \in Seq(Values)
    BY <1>4
  <2>2. /\ h \in Seq(Values) /\ Len(h) = Len(m) + Len(k)
        /\ \A i \in 1 .. Len(m) : h[i] = m[i]
        /\ \A i \in 1 .. Len(k) : h[Len(m) + i] = k[i]
    BY <2>1, Halves
  <2>3. 1 \in 1 .. Len(m) /\ 2 \in 1 .. Len(m) /\ 1 \in 1 .. Len(k) /\ Len(m) + 1 = 3
    BY <1>4
  <2> QED
    BY <1>4, <2>2, <2>3
<1>7. q \in Seq(Values) /\ Len(q) \in Nat
  BY <1>2, LenProperties DEF q
<1> HIDE DEF h
<1>a. h \in Seq(Values) /\ q \in Seq(Values)
  BY <1>6, <1>7
<1>8. /\ h \o q \in Seq(Values) /\ Len(h \o q) = Len(h) + Len(q)
      /\ \A i \in 1 .. Len(h) : (h \o q)[i] = h[i]
      /\ \A i \in 1 .. Len(q) : (h \o q)[Len(h) + i] = q[i]
  BY <1>a, Halves
<1>9. /\ Len(h \o q) = 3 + Len(q)
      /\ (h \o q)[1] = h[1] /\ (h \o q)[2] = h[2] /\ (h \o q)[3] = h[3]
      /\ \A i \in 1 .. Len(q) : (h \o q)[3 + i] = q[i]
  BY <1>6, <1>8
<1> QED
  BY <1>2, <1>3, <1>5, <1>6, <1>7, <1>8, <1>9 DEF q

\* serial_read_byte takes the first of the bytes that have arrived.
LEMMA ReadArrived ==
  ASSUME TypeOK, ReadByte
  PROVE  /\ Arrived \in Seq(Bytes) /\ Arrived' \in Seq(Bytes) /\ Arrived # <<>>
         /\ Len(Arrived) \in Nat /\ Len(Arrived') = Len(Arrived) - 1
         /\ 1 \in 1 .. Len(Arrived) /\ Byte = Arrived[1] /\ Byte \in Bytes
         /\ \A i \in 1 .. Len(Arrived') : Arrived'[i] = Arrived[i + 1]
         /\ pending' = <<>> /\ rx' \in Seq(Bytes)
         /\ rx' = IF pending = <<>> THEN Tail(rx) ELSE rx
<1>1. /\ pending \in Seq(Bytes) /\ Len(pending) <= 1 /\ rx \in Seq(Bytes)
      /\ Arrived # <<>> /\ pending' = <<>>
      /\ rx' = IF pending = <<>> THEN Tail(rx) ELSE rx
  BY DEF TypeOK, ReadByte
<1>2. Arrived \in Seq(Bytes)
  BY <1>1, Halves DEF Arrived
<1>3. /\ Byte = Arrived[1] /\ Byte \in Bytes /\ 1 \in 1 .. Len(Arrived)
      /\ Len(Arrived) \in Nat /\ Tail(Arrived) \in Seq(Bytes)
      /\ Len(Tail(Arrived)) = Len(Arrived) - 1
      /\ \A i \in 1 .. Len(Tail(Arrived)) : Tail(Arrived)[i] = Arrived[i + 1]
  BY <1>1, <1>2, TailFacts, ElementOfSeq DEF Byte
<1>4. CASE pending = <<>>
  <2>1. Arrived = rx
    BY <1>1, <1>4, ConcatEmptySeq DEF Arrived
  <2>2. rx' = Tail(rx) /\ rx' \in Seq(Bytes)
    BY <1>1, <1>3, <1>4, <2>1
  <2>3. Arrived' = rx'
    BY <1>1, <2>2, ConcatEmptySeq DEF Arrived
  <2>4. Arrived' = Tail(Arrived)
    BY <2>1, <2>2, <2>3
  <2> QED
    BY <1>1, <1>2, <1>3, <2>2, <2>4
<1>5. CASE pending # <<>>
  <2>1. rx' = rx /\ Arrived' = rx
    <3>1. rx' = rx
      BY <1>1, <1>5
    <3> QED
      BY <1>1, <3>1, ConcatEmptySeq DEF Arrived
  <2>2. Len(pending) = 1
    <3> DEFINE n == Len(pending)
    <3>1. n \in Nat /\ n # 0
      BY <1>1, <1>5, EmptySeq, LenProperties
    <3>2. n <= 1
      BY <1>1
    <3> HIDE DEF n
    <3>3. n = 1
      BY <3>1, <3>2
    <3> QED
      BY <3>3 DEF n
  <2>3. /\ Len(Arrived) = 1 + Len(rx) /\ Len(rx) \in Nat
        /\ \A i \in 1 .. Len(rx) : Arrived[1 + i] = rx[i]
    <3>1. pending \in Seq(Bytes) /\ rx \in Seq(Bytes)
      BY <1>1
    <3>2. /\ Len(Arrived) = Len(pending) + Len(rx) /\ Len(rx) \in Nat
          /\ \A i \in 1 .. Len(rx) : Arrived[Len(pending) + i] = rx[i]
      BY <3>1, Halves DEF Arrived
    <3> QED
      BY <2>2, <3>2
  <2>4. Len(Arrived') = Len(Arrived) - 1
        /\ \A i \in 1 .. Len(Arrived') : Arrived'[i] = Arrived[i + 1]
    BY <2>1, <2>3
  <2> QED
    BY <1>1, <1>2, <1>3, <2>1, <2>4
<1> QED
  BY <1>4, <1>5

\* The byte that is put back is the next to be read again.
LEMMA PutBack ==
  ASSUME TypeOK, Arrived # <<>>, pending = <<>>, pending' = <<Byte>>, rx' = Tail(rx)
  PROVE  /\ Arrived' = Arrived /\ rx' \in Seq(Bytes) /\ pending' \in Seq(Bytes)
         /\ Len(pending') = 1 /\ Byte \in Bytes /\ Byte = rx[1] /\ rx # <<>>
<1>1. rx \in Seq(Bytes) /\ Arrived = rx
  BY ConcatEmptySeq DEF TypeOK, Arrived
<1>2. /\ rx # <<>> /\ Byte = rx[1] /\ Byte \in Bytes /\ Tail(rx) \in Seq(Bytes)
      /\ Len(Tail(rx)) = Len(rx) - 1 /\ Len(rx) \in Nat
      /\ \A i \in 1 .. Len(Tail(rx)) : Tail(rx)[i] = rx[i + 1]
  BY <1>1, TailFacts, ElementOfSeq DEF Byte
<1>3. pending' \in Seq(Bytes) /\ Len(pending') = 1 /\ pending'[1] = rx[1]
  BY <1>2
<1>4. Arrived' = rx
  <2> DEFINE t == pending' \o rx'
  <2>1. pending' \in Seq(Bytes) /\ rx' \in Seq(Bytes)
    BY <1>2, <1>3
  <2>2. /\ t \in Seq(Bytes) /\ Len(t) = Len(pending') + Len(rx')
        /\ \A i \in 1 .. Len(pending') : t[i] = pending'[i]
        /\ \A i \in 1 .. Len(rx') : t[Len(pending') + i] = rx'[i]
    BY <2>1, Halves
  <2> HIDE DEF t
  <2>3. Len(t) = Len(rx) /\ t[1] = rx[1]
    BY <1>2, <1>3, <2>2
  <2>4. ASSUME NEW i \in 1 .. Len(rx)
        PROVE  t[i] = rx[i]
    <3>1. CASE i = 1
      BY <2>3, <3>1
    <3>2. CASE i # 1
      <4> DEFINE k == i - 1
      <4>1. k \in 1 .. Len(rx') /\ i = 1 + k
        BY <1>2, <3>2
      <4> HIDE DEF k
      <4>2. t[i] = rx'[k] /\ rx'[k] = rx[k + 1]
        BY <1>2, <1>3, <2>2, <4>1
      <4> QED
        BY <4>1, <4>2
    <3> QED
      BY <3>1, <3>2
  <2> QED
    BY <1>1, <2>2, <2>3, <2>4, SeqEqual DEF t, Arrived
<1> QED
  BY <1>1, <1>2, <1>3, <1>4

LEMMA PlacedWrite ==
  ASSUME PortInv, Placed, Write
  PROVE  Placed'
<1>1. /\ phase = "write" /\ writes' = writes + 1 /\ writes < MaxWrites /\ turn' = TRUE
      /\ rx' = IF reflects THEN rx \o From(TRUE, Message(writes)) ELSE rx
      /\ phase' = IF mode = "off" THEN "magic" ELSE "consume"
      /\ matched' = 0
      /\ UNCHANGED <<reflects, mode, pending, header, payload, sent, faults, got,
                     outOfTurn>>
  BY DEF Write, history
<1>2. writes' \in 0 .. MaxWrites /\ writes \in Nat /\ writes' \in Nat \ {0} /\ writes' - 1 = writes
  BY <1>1, PortAssumption DEF Placed, TypeOK
<1>3. rx' \in Seq(Bytes)
  BY WriteStep DEF PortInv
<1>4. Len(Message(writes' - 1)) \in {2, 3}
  BY <1>2, MessageLength
<1>5. header = 0 /\ payload = <<>>
  BY <1>1 DEF Placed
<1>6. matched' \in 0 .. Len(Magic) + IoChunk
  BY <1>1, PortAssumption DEF Placed, TypeOK, Magic
<1>7. TypeOK'
  BY <1>1, <1>2, <1>3, <1>6 DEF Placed, TypeOK, Headers, Magic, Bytes
<1>8. phase' = "consume" => writes' > 0 /\ matched' < Len(Message(writes - 1))'
  <2>1. Len(Message(writes - 1))' = Len(Message(writes' - 1))
    BY DEF Message, Frame, Magic
  <2>2. Len(Message(writes - 1))' \in {2, 3}
    BY <1>4, <2>1
  <2>3. \A n \in {2, 3} : 0 < n
    OBVIOUS
  <2>4. matched' < Len(Message(writes - 1))'
    BY <1>1, <2>2, <2>3
  <2>5. writes' > 0
    BY <1>2
  <2> QED
    BY <2>4, <2>5
<1> QED
  BY <1>1, <1>5, <1>7, <1>8 DEF Placed, Headers, Values

LEMMA PlacedConsumeOther ==
  ASSUME PortInv, Placed, ConsumeOther
  PROVE  Placed'
<1>1. /\ phase = "consume" /\ Arrived # <<>> /\ mode = "unknown"
      /\ mode' = "off" /\ phase' = "magic" /\ matched' = 0
      /\ UNCHANGED <<reflects, header, payload, writes, sent, turn, faults, got, outOfTurn>>
  BY DEF ConsumeOther, history
<1>2. pending = <<>> /\ header = 0 /\ payload = <<>> /\ TypeOK
  BY <1>1 DEF Placed
<1>3. pending' = <<Byte>> /\ rx' = Tail(rx)
  BY <1>2 DEF ConsumeOther
<1>4. rx' \in Seq(Bytes) /\ pending' \in Seq(Bytes) /\ Len(pending') = 1
  BY <1>1, <1>2, <1>3, PutBack
<1>5. matched' \in 0 .. Len(Magic) + IoChunk
  BY <1>1, PortAssumption DEF Magic
<1>6. Len(pending') <= 1
  BY <1>4
<1>7. TypeOK'
  BY <1>1, <1>4, <1>5, <1>6 DEF Placed, TypeOK, Headers, Magic, Bytes
<1> QED
  BY <1>1, <1>2, <1>7 DEF Placed, Headers, Values

LEMMA PlacedConsume ==
  ASSUME PortInv, Placed, Consume
  PROVE  Placed'
<1>1. /\ phase = "consume" /\ ReadByte
      /\ \/ mode' = "on" /\ phase' = "magic" /\ matched' = 0
         \/ /\ matched' = matched + 1 /\ UNCHANGED <<mode, phase>>
            /\ matched + 1 # Len(Message(writes - 1))
      /\ UNCHANGED <<reflects, header, payload, writes, sent, turn, faults, got, outOfTurn>>
  BY DEF Consume, CountAny
<1>2. /\ TypeOK /\ writes > 0 /\ writes \in Nat /\ matched \in Nat
      /\ matched < Len(Message(writes - 1)) /\ header = 0 /\ payload = <<>>
  BY <1>1 DEF Placed, TypeOK
<1>3. rx' \in Seq(Bytes) /\ pending' = <<>>
  BY <1>1, <1>2, ReadArrived
<1>4. Len(Message(writes - 1)) \in {2, 3}
  BY <1>2, MessageLength
<1>5. phase' = "consume" => matched' < Len(Message(writes - 1))'
  <2>1. Len(Message(writes - 1))' = Len(Message(writes - 1))
    BY <1>1 DEF Message, Frame, Magic
  <2> DEFINE n == Len(Message(writes - 1))
  <2>2. n \in {2, 3} /\ matched < n /\ matched \in Nat
    BY <1>2, <1>4
  <2>3. phase' = "consume" => matched' = matched + 1 /\ matched + 1 # n
    BY <1>1
  <2> HIDE DEF n
  <2>4. phase' = "consume" => matched' < n
    BY <2>2, <2>3
  <2> QED
    BY <2>1, <2>4 DEF n
<1>6. matched' \in 0 .. Len(Magic) + IoChunk
  <2> DEFINE n == Len(Message(writes - 1))
  <2>0. matched' = 0 \/ (matched' = matched + 1 /\ matched + 1 # n)
    BY Zenon, <1>1
  <2>1. n \in {2, 3} /\ matched < n /\ matched \in Nat
    BY <1>2, <1>4
  <2> HIDE DEF n
  <2>2. matched' \in 0 .. 2
    BY <2>0, <2>1
  <2> QED
    BY <2>2, PortAssumption DEF Magic
<1>7. TypeOK'
  BY <1>1, <1>2, <1>3, <1>6 DEF TypeOK, Headers, Magic, Bytes
<1> QED
  BY <1>1, <1>2, <1>3, <1>5, <1>7 DEF Placed, Headers, Values

LEMMA PlacedConsumeTimesOut ==
  ASSUME PortInv, Placed, ConsumeTimesOut
  PROVE  Placed'
<1>1. /\ phase = "consume" /\ phase' = "magic" /\ matched' = 0
      /\ mode' = IF mode = "unknown" THEN "off" ELSE mode
      /\ UNCHANGED <<reflects, pending, rx, header, payload, writes, sent, turn, faults,
                     got, outOfTurn>>
  BY DEF ConsumeTimesOut, history
<1>2. matched' \in 0 .. Len(Magic) + IoChunk
  BY <1>1, PortAssumption DEF Magic
<1>3. TypeOK'
  BY <1>1, <1>2 DEF Placed, TypeOK, Headers, Magic, Bytes
<1> QED
  BY <1>1, <1>3 DEF Placed, Headers, Values

\* Where read_frame returns the reading starts afresh.
LEMMA PlacedReturn ==
  ASSUME Placed, Return, rx' \in Seq(Bytes), pending' \in Seq(Bytes), Len(pending') <= 1,
         pending' = <<>> \/ pending' = pending,
         got' \in Seq(Headers \X Seq(Values)),
         UNCHANGED <<reflects, mode, writes, sent, turn, faults, outOfTurn>>
  PROVE  Placed'
<1>1. phase' \in {"write", "magic"} /\ matched' = 0 /\ header' = 0 /\ payload' = <<>>
  BY DEF Return
<1>2. matched' \in 0 .. Len(Magic) + IoChunk /\ Len(payload') < IoChunk
  BY <1>1, PortAssumption DEF Magic
<1>3. TypeOK'
  BY <1>1, <1>2 DEF Placed, TypeOK, Headers, Magic, Bytes
<1> QED
  BY <1>1, <1>3 DEF Placed, Headers, Values

LEMMA PlacedCancelled ==
  ASSUME PortInv, Placed, ReadCancelled
  PROVE  Placed'
<1>1. /\ ReadByte /\ Return /\ TypeOK /\ got \in Seq(Headers \X Seq(Values))
      /\ UNCHANGED <<reflects, mode, writes, sent, turn, faults, got, outOfTurn>>
  BY DEF ReadCancelled, Placed
<1>2. rx' \in Seq(Bytes) /\ pending' = <<>> /\ pending' \in Seq(Bytes) /\ Len(pending') <= 1
  <2>1. rx' \in Seq(Bytes) /\ pending' = <<>>
    BY <1>1, ReadArrived
  <2> QED
    BY <2>1
<1> QED
  BY <1>1, <1>2, PlacedReturn

LEMMA PlacedTimesOut ==
  ASSUME PortInv, Placed, ReadTimesOut
  PROVE  Placed'
<1>1. /\ Return /\ TypeOK /\ got \in Seq(Headers \X Seq(Values))
      /\ UNCHANGED <<reflects, mode, pending, rx, writes, sent, turn, got, faults, outOfTurn>>
  BY DEF ReadTimesOut, Placed
<1>2. rx' \in Seq(Bytes) /\ pending' \in Seq(Bytes) /\ Len(pending') <= 1
  BY <1>1 DEF TypeOK
<1> QED
  BY <1>1, <1>2, PlacedReturn

LEMMA PlacedReadFails ==
  ASSUME PortInv, Placed, ReadFails
  PROVE  Placed'
<1>1. /\ phase' \in {"write", "magic"} /\ matched' = 0 /\ header' = 0 /\ payload' = <<>>
      /\ faults < MaxFaults /\ faults' = faults + 1 /\ writes' \in {0, writes}
      /\ pending = <<>> /\ UNCHANGED <<reflects, mode, pending, rx, sent, turn, got, outOfTurn>>
  BY DEF ReadFails, Return, history
<1>2. /\ matched' \in 0 .. Len(Magic) + IoChunk /\ Len(payload') < IoChunk
      /\ MaxWrites \in Nat /\ MaxFaults \in Nat
  BY <1>1, PortAssumption DEF Magic
<1>3. faults' \in 0 .. MaxFaults /\ writes' \in 0 .. MaxWrites
  <2>1. faults \in 0 .. MaxFaults /\ writes \in 0 .. MaxWrites
    BY DEF Placed, TypeOK
  <2> QED
    BY <1>1, <1>2, <2>1
<1>4. TypeOK'
  BY <1>1, <1>2, <1>3 DEF Placed, TypeOK, Headers, Magic, Bytes
<1> QED
  BY <1>1, <1>4 DEF Placed, Headers, Values

LEMMA PlacedMagic ==
  ASSUME PortInv, Placed, ReadMagic
  PROVE  Placed'
<1>1. /\ phase = "magic" /\ ReadByte
      /\ UNCHANGED <<reflects, mode, header, payload, writes, sent, turn, faults, got,
                     outOfTurn>>
  BY DEF ReadMagic
<1>2. TypeOK /\ matched \in Nat /\ matched < 2 /\ header = 0 /\ payload = <<>>
  BY <1>1 DEF Placed, TypeOK
<1>3. rx' \in Seq(Bytes) /\ pending' = <<>>
  BY <1>1, <1>2, ReadArrived
<1>4. \/ phase' = "header" /\ matched' = 0
      \/ phase' = "magic" /\ matched' \in Nat /\ matched' < 2
  <2>1. Len(Magic) = 2
    BY DEF Magic
  <2> QED
    BY <1>1, <1>2, <2>1 DEF ReadMagic
<1>5. matched' \in 0 .. Len(Magic) + IoChunk
  <2>1. matched' \in 0 .. 2
    BY <1>4
  <2> QED
    BY <2>1, PortAssumption DEF Magic
<1>6. TypeOK'
  BY <1>1, <1>2, <1>3, <1>4, <1>5 DEF TypeOK, Headers, Magic, Bytes
<1> QED
  BY <1>1, <1>2, <1>3, <1>4, <1>6 DEF Placed, Headers, Values

LEMMA LengthFacts ==
  ASSUME NEW h \in Headers \cup {Damaged}, NEW n \in Lengths(h)
  PROVE  /\ n \in 0 .. IoChunk + 1 /\ (h = 0 => n = 0)
         /\ h # 0 /\ h # Damaged => h \in 1 .. Len(Payloads) /\ n = Len(Payloads[h])
<1>1. IoChunk \in Nat /\ Len(Payloads) \in Nat /\ Damaged \notin Headers
  BY PortAssumption, PayloadAssumption DEF Damaged, Headers
<1>2. h # Damaged => n = Len(Frame(h)) - 3
  <2>1. Len(Magic) = 2
    BY DEF Magic
  <2> QED
    BY <2>1, FrameFacts, MessageLength DEF Lengths
<1>3. CASE h = Damaged
  BY <1>1, <1>3 DEF Lengths, Damaged
<1>4. CASE h = 0
  <2>1. Frame(0) = Message(1)
    BY DEF Message
  <2>2. Len(Frame(0)) = 3
    BY <2>1, MessageLength
  <2>3. Len(Frame(h)) = 3 /\ h # Damaged
    BY <1>4, <2>2 DEF Damaged
  <2>4. n = 0
    BY <1>2, <2>3
  <2> QED
    BY <1>1, <1>4, <2>4
<1>5. CASE h # 0 /\ h # Damaged
  <2>1. h \in 1 .. Len(Payloads)
    BY <1>1, <1>5 DEF Headers
  <2>2. Len(Frame(h)) = 3 + Len(Payloads[h]) /\ Len(Payloads[h]) \in 0 .. IoChunk
    BY <2>1, FrameFacts
  <2> QED
    BY <1>1, <1>2, <1>5, <2>1, <2>2
<1> QED
  BY <1>3, <1>4, <1>5

LEMMA AcceptFacts ==
  ASSUME NEW h \in Headers \cup {Damaged}, NEW bytes \in Seq(Values),
         got \in Seq(Headers \X Seq(Values)), Accept(h, bytes)
  PROVE  got' \in Seq(Headers \X Seq(Values))
<1>1. CASE CrcMatches(h, bytes)
  <2>1. got' = Append(got, <<h, bytes>>) /\ h \in Headers
    BY <1>1 DEF Accept, CrcMatches
  <2>2. <<h, bytes>> \in Headers \X Seq(Values)
    BY <2>1
  <2> QED
    BY <2>1, <2>2, AppendProperties
<1>2. CASE ~CrcMatches(h, bytes)
  BY <1>2 DEF Accept
<1> QED
  BY <1>1, <1>2

LEMMA PlacedHeader ==
  ASSUME PortInv, Placed, ReadHeader
  PROVE  Placed'
<1> DEFINE h == IF Byte.value \in Headers THEN Byte.value ELSE Damaged
<1>1. /\ phase = "header" /\ ReadByte /\ TypeOK /\ got \in Seq(Headers \X Seq(Values))
      /\ UNCHANGED <<reflects, mode, writes, sent, turn, faults, outOfTurn>>
  BY DEF ReadHeader, Placed
<1>2. PICK n \in Lengths(h) :
        CASE TooLong(n) -> Return /\ UNCHANGED got
          [] n = 0 -> Accept(h, <<>>)
          [] OTHER -> /\ phase' = "payload" /\ matched' = n /\ header' = h
                      /\ UNCHANGED <<payload, got>>
  BY DEF ReadHeader
<1>3. h \in Headers \cup {Damaged}
  OBVIOUS
<1> HIDE DEF h
<1>4. /\ n \in 0 .. IoChunk + 1 /\ (h = 0 => n = 0)
      /\ h # 0 /\ h # Damaged => h \in 1 .. Len(Payloads) /\ n = Len(Payloads[h])
  BY <1>3, LengthFacts
<1>5. rx' \in Seq(Bytes) /\ pending' = <<>> /\ payload = <<>>
  BY <1>1, ReadArrived DEF Placed
<1>6. pending' \in Seq(Bytes) /\ Len(pending') <= 1
  BY <1>5
<1>7. CASE TooLong(n)
  <2>0. n # 0
    BY <1>4, <1>7, PortAssumption DEF TooLong
  <2>1. Return /\ UNCHANGED got
    BY <1>2, <1>7, <2>0
  <2> QED
    BY <1>1, <1>5, <1>6, <2>1, PlacedReturn
<1>8. CASE ~TooLong(n) /\ n = 0
  <2>1. Accept(h, <<>>)
    BY <1>2, <1>8
  <2>2. <<>> \in Seq(Values)
    OBVIOUS
  <2>3. got' \in Seq(Headers \X Seq(Values)) /\ Return
    BY <1>1, <1>3, <2>1, <2>2, AcceptFacts DEF Accept
  <2> QED
    BY <1>1, <1>5, <1>6, <2>3, PlacedReturn
<1>9. CASE ~TooLong(n) /\ n # 0
  <2>1. /\ phase' = "payload" /\ matched' = n /\ header' = h /\ payload' = payload
        /\ got' = got
    BY <1>2, <1>9
  <2>2. n \in 1 .. IoChunk /\ h # 0 /\ IoChunk \in Nat
    BY <1>4, <1>9, PortAssumption DEF TooLong
  <2>3. matched' \in 0 .. Len(Magic) + IoChunk /\ Len(payload') < IoChunk
    BY <1>5, <2>1, <2>2 DEF Magic
  <2>4. TypeOK'
    BY <1>1, <1>3, <1>5, <1>6, <2>1, <2>3 DEF TypeOK, Headers, Magic, Bytes
  <2>5. payload' \in Seq(Values) /\ Len(payload') < matched' /\ matched' <= IoChunk
    BY <1>5, <2>1, <2>2
  <2>6. header' # Damaged => matched' = Len(Payloads[header'])
    BY <1>4, <2>1, <2>2
  <2> QED
    BY <1>1, <1>5, <2>1, <2>2, <2>4, <2>5, <2>6 DEF Placed, Headers, Values
<1> QED
  BY <1>7, <1>8, <1>9

LEMMA PlacedPayload ==
  ASSUME PortInv, Placed, ReadPayload
  PROVE  Placed'
<1> DEFINE bytes == Append(payload, Byte.value)
<1>1. /\ phase = "payload" /\ ReadByte /\ TypeOK /\ got \in Seq(Headers \X Seq(Values))
      /\ \/ Len(bytes) = matched /\ Accept(header, bytes)
         \/ /\ Len(bytes) # matched /\ payload' = bytes
            /\ UNCHANGED <<phase, matched, header, got>>
      /\ UNCHANGED <<reflects, mode, writes, sent, turn, faults, outOfTurn>>
  BY DEF ReadPayload, Placed
<1>2. /\ payload \in Seq(Values) /\ Len(payload) < matched /\ matched <= IoChunk
      /\ header # 0 /\ (header # Damaged => matched = Len(Payloads[header]))
      /\ header \in Headers \cup {Damaged} /\ matched \in Nat
  BY <1>1, PortAssumption DEF Placed, TypeOK, Magic
<1>3. rx' \in Seq(Bytes) /\ pending' = <<>> /\ Byte \in Bytes
  BY <1>1, ReadArrived
<1>4. pending' \in Seq(Bytes) /\ Len(pending') <= 1
  BY <1>3
<1>5. bytes \in Seq(Values) /\ Len(bytes) = Len(payload) + 1 /\ Len(payload) \in Nat
  <2>1. Byte.value \in Values
    BY <1>3 DEF Bytes, Values
  <2> QED
    BY <1>2, <2>1, AppendProperties, LenProperties
<1> HIDE DEF bytes
<1>6. CASE Len(bytes) = matched
  <2>1. Accept(header, bytes)
    BY <1>1, <1>6
  <2>2. got' \in Seq(Headers \X Seq(Values)) /\ Return
    BY <1>1, <1>2, <1>5, <2>1, AcceptFacts DEF Accept
  <2> QED
    BY <1>1, <1>3, <1>4, <2>2, PlacedReturn
<1>7. CASE Len(bytes) # matched
  <2>1. payload' = bytes /\ UNCHANGED <<phase, matched, header, got>>
    BY <1>1, <1>7
  <2>2. Len(bytes) < matched
    BY <1>2, <1>5, <1>7
  <2>3. Len(payload') < IoChunk
    BY <1>2, <1>5, <2>1, <2>2, PortAssumption
  <2>4. TypeOK'
    BY <1>1, <1>3, <1>4, <2>1, <2>3 DEF TypeOK, Headers, Magic, Bytes
  <2> QED
    BY <1>1, <1>2, <1>3, <1>5, <2>1, <2>2, <2>4 DEF Placed, Headers, Values
<1> QED
  BY <1>6, <1>7

LEMMA PlacedPeerSends ==
  ASSUME PortInv, Placed, PeerSends
  PROVE  Placed'
<1>1. /\ sent < Len(Payloads) /\ sent' = sent + 1 /\ turn' = FALSE
      /\ UNCHANGED <<reflects, mode, pending, phase, matched, header, payload, writes, got,
                     faults>>
  BY DEF PeerSends, reading
<1>2. rx' \in Seq(Bytes) /\ outOfTurn' \in BOOLEAN
  BY PeerSendsStep DEF PortInv
<1>3. sent' \in 0 .. Len(Payloads)
  BY <1>1, PayloadAssumption DEF Placed, TypeOK
<1>4. TypeOK'
  BY <1>1, <1>2, <1>3 DEF Placed, TypeOK, Headers, Magic, Bytes
<1>5. Len(Message(writes - 1))' = Len(Message(writes - 1))
  BY <1>1 DEF Message, Frame, Magic
<1> QED
  BY <1>1, <1>4, <1>5 DEF Placed, Headers, Values

LEMMA PlacedFault ==
  ASSUME PortInv, Placed, Fault
  PROVE  Placed'
<1>1. /\ faults < MaxFaults /\ faults' = faults + 1
      /\ UNCHANGED <<reflects, mode, pending, phase, matched, header, payload, writes, sent,
                     turn, got, outOfTurn>>
  BY DEF Fault, reading
<1>2. rx' \in Seq(Bytes)
  BY FaultStep DEF PortInv
<1>3. faults' \in 0 .. MaxFaults
  BY <1>1, PortAssumption DEF Placed, TypeOK
<1>4. TypeOK'
  BY <1>1, <1>2, <1>3 DEF Placed, TypeOK, Headers, Magic, Bytes
<1>5. Len(Message(writes - 1))' = Len(Message(writes - 1))
  BY <1>1 DEF Message, Frame, Magic
<1> QED
  BY <1>1, <1>4, <1>5 DEF Placed, Headers, Values

LEMMA PlacedInit ==
  ASSUME Init
  PROVE  PortInv /\ Placed
<1>1. reflects \in BOOLEAN
  BY Zenon DEF Init
<1>2. /\ rx \in Seq(Bytes) /\ Len(rx) = 0 /\ rx = <<>> /\ mode = "unknown"
      /\ phase = "write" /\ pending = <<>> /\ outOfTurn = FALSE /\ turn = FALSE
      /\ writes = 0 /\ sent = 0 /\ faults = 0 /\ matched = 0 /\ header = 0
      /\ payload = <<>> /\ got = <<>> /\ got \in Seq(Headers \X Seq(Values))
  BY DEF Init
<1>3. Recognised /\ Undecided /\ ReadyIsReflected
  BY <1>2 DEF Recognised, Undecided, ReadyIsReflected
<1>4. outOfTurn \in BOOLEAN /\ turn \in BOOLEAN
  BY Zenon, <1>2
<1>5. PortInv
  BY <1>1, <1>2, <1>3, <1>4 DEF PortInv
<1>6. matched \in 0 .. Len(Magic) + IoChunk /\ Len(payload) < IoChunk /\ header \in Headers
      /\ writes \in 0 .. MaxWrites /\ sent \in 0 .. Len(Payloads) /\ faults \in 0 .. MaxFaults
  BY <1>2, PortAssumption, PayloadAssumption DEF Magic, Headers
<1>7. pending \in Seq(Bytes) /\ Len(pending) <= 1
  BY <1>2
<1>8. TypeOK
  BY <1>1, <1>2, <1>4, <1>6, <1>7 DEF TypeOK
<1> QED
  BY <1>2, <1>5, <1>8 DEF Placed

LEMMA PortStep ==
  ASSUME PortInv, [Next]_vars
  PROVE  PortInv'
<1>1. CASE Done \/ UNCHANGED vars
  <2>1. UNCHANGED vars
    BY <1>1 DEF Done
  <2> QED
    BY <2>1 DEF vars, reading, history, PortInv, Recognised, ReadyIsReflected, Undecided
<1> QED
  BY <1>1, WriteStep, ConsumeOtherStep, ConsumeStep, ConsumeTimesOutStep, ReadSteps,
     ReadFailsStep, PeerSendsStep, FaultStep DEF Next, Agent

LEMMA PlacedStep ==
  ASSUME PortInv, Placed, [Next]_vars
  PROVE  Placed'
<1>1. CASE Done \/ UNCHANGED vars
  <2>1. UNCHANGED vars
    BY <1>1 DEF Done
  <2>2. Len(Message(writes - 1))' = Len(Message(writes - 1))
    BY <2>1 DEF vars, Message, Frame, Magic
  <2> QED
    BY <2>1, <2>2 DEF vars, reading, history, Placed, TypeOK, Headers, Values, Bytes, Magic
<1> QED
  BY <1>1, PlacedWrite, PlacedConsumeOther, PlacedConsume, PlacedConsumeTimesOut,
     PlacedCancelled, PlacedMagic, PlacedHeader, PlacedPayload, PlacedTimesOut,
     PlacedReadFails, PlacedPeerSends, PlacedFault DEF Next, Agent

-----------------------------------------------------------------------------
(* What a step leaves of what has arrived                                   *)

\* Byte e is gone, if there is one, and others may have been damaged.
Kept(e, j) == IF j < e THEN j ELSE j + 1

Thins(e) ==
  /\ Len(Arrived') <= Len(Arrived)
  /\ \A j \in 1 .. Len(Arrived') :
       /\ Kept(e, j) \in 1 .. Len(Arrived)
       /\ Arrived'[j].value = Arrived[Kept(e, j)].value \/ Arrived'[j].value < 0

LEMMA ArrivedSeq ==
  ASSUME TypeOK
  PROVE  Arrived \in Seq(Bytes) /\ Len(Arrived) \in Nat
<1>1. pending \in Seq(Bytes) /\ rx \in Seq(Bytes)
  BY DEF TypeOK
<1> QED
  BY <1>1, Halves, LenProperties DEF Arrived

LEMMA IntValues ==
  ASSUME NEW q \in Seq(Bytes)
  PROVE  \A j \in 1 .. Len(q) : q[j].value \in Int
<1>1. \A x \in Bytes : x.value \in Int
  BY PayloadAssumption DEF Bytes, R
<1> QED
  BY <1>1, ElementOfSeq

LEMMA ThinsRead ==
  ASSUME TypeOK, ReadByte
  PROVE  Thins(1)
<1>1. /\ Len(Arrived) \in Nat /\ Len(Arrived') = Len(Arrived) - 1
      /\ \A i \in 1 .. Len(Arrived') : Arrived'[i] = Arrived[i + 1]
  BY ReadArrived
<1> DEFINE m == Len(Arrived')
           n == Len(Arrived)
<1>2. n \in Nat /\ m = n - 1
  BY <1>1
<1>3. ASSUME NEW j \in 1 .. m
      PROVE  Kept(1, j) = j + 1
  BY <1>2 DEF Kept
<1> HIDE DEF m, n
<1>4. m <= n /\ \A j \in 1 .. m : j + 1 \in 1 .. n
  BY <1>2
<1> QED
  BY <1>1, <1>3, <1>4 DEF Thins, m, n

LEMMA ThinsNothing ==
  ASSUME TypeOK, Arrived' = Arrived
  PROVE  \E e \in Nat : Thins(e)
<1> DEFINE n == Len(Arrived)
<1>1. n \in Nat /\ Len(Arrived') = n
  BY ArrivedSeq
<1> HIDE DEF n
<1>2. \A j \in 1 .. n : Kept(n + 1, j) = j
  BY <1>1 DEF Kept
<1>3. Thins(n + 1)
  BY <1>1, <1>2 DEF Thins, n
<1> QED
  BY <1>1, <1>3

LEMMA Without ==
  ASSUME NEW S, NEW q \in Seq(S), NEW i \in 1 .. Len(q)
  PROVE  LET t == SubSeq(q, 1, i - 1) \o SubSeq(q, i + 1, Len(q))
         IN  /\ t \in Seq(S) /\ Len(t) = Len(q) - 1
             /\ \A j \in 1 .. Len(q) - 1 : t[j] = q[Kept(i, j)]
<1> DEFINE a == SubSeq(q, 1, i - 1)
           b == SubSeq(q, i + 1, Len(q))
           n == Len(q)
<1>1. n \in Nat /\ i \in Nat /\ 1 <= i /\ i <= n /\ \A j \in 1 .. n : q[j] \in S
  BY ElementOfSeq, LenProperties
<1>2. a \in Seq(S) /\ b \in Seq(S)
  BY <1>1, SubSeqProperties
<1>3. Len(a) = i - 1 /\ \A j \in 1 .. i - 1 : a[j] = q[j]
  BY <1>1, SubSeqProperties
<1>4. Len(b) = n - i /\ \A j \in 1 .. n - i : b[j] = q[i + j]
  BY <1>1
<1> HIDE DEF a, b, n
<1> DEFINE t == a \o b
<1>5. /\ t \in Seq(S) /\ Len(t) = Len(a) + Len(b)
      /\ \A j \in 1 .. Len(a) : t[j] = a[j]
      /\ \A j \in 1 .. Len(b) : t[Len(a) + j] = b[j]
  BY <1>2, Halves
<1> HIDE DEF t
<1>6. Len(t) = n - 1
  BY <1>1, <1>3, <1>4, <1>5
<1>7. ASSUME NEW j \in 1 .. n - 1
      PROVE  t[j] = q[Kept(i, j)]
  <2>1. CASE j < i
    <3>1. j \in 1 .. i - 1 /\ j \in 1 .. Len(a) /\ Kept(i, j) = j
      BY <1>1, <1>3, <2>1 DEF Kept
    <3> QED
      BY <1>3, <1>5, <3>1
  <2>2. CASE ~(j < i)
    <3> DEFINE m == j - (i - 1)
    <3>1. m \in 1 .. n - i /\ j = Len(a) + m /\ i + m = j + 1 /\ Kept(i, j) = j + 1
      BY <1>1, <1>3, <2>2 DEF Kept
    <3> HIDE DEF m
    <3>2. t[j] = b[m]
      BY <1>4, <1>5, <3>1
    <3>3. b[m] = q[j + 1]
      BY <1>4, <3>1
    <3> QED
      BY <3>1, <3>2, <3>3
  <2> QED
    BY <2>1, <2>2
<1> QED
  BY <1>5, <1>6, <1>7 DEF t, a, b, n

\* The same behind the byte that was put back.
LEMMA BehindPending ==
  ASSUME TypeOK, TypeOK', pending' = pending
  PROVE  /\ Len(pending) \in Nat /\ Len(rx) \in Nat /\ Len(rx') \in Nat
         /\ Len(Arrived) = Len(pending) + Len(rx)
         /\ Len(Arrived') = Len(pending) + Len(rx')
         /\ \A j \in 1 .. Len(pending) : Arrived[j] = pending[j] /\ Arrived'[j] = pending[j]
         /\ \A j \in 1 .. Len(rx) : Arrived[Len(pending) + j] = rx[j]
         /\ \A j \in 1 .. Len(rx') : Arrived'[Len(pending) + j] = rx'[j]
<1>1. pending \in Seq(Bytes) /\ rx \in Seq(Bytes) /\ rx' \in Seq(Bytes)
  BY DEF TypeOK
<1> DEFINE t == pending \o rx
           u == pending \o rx'
<1>2. /\ Len(t) = Len(pending) + Len(rx) /\ Len(pending) \in Nat /\ Len(rx) \in Nat
      /\ \A j \in 1 .. Len(pending) : t[j] = pending[j]
      /\ \A j \in 1 .. Len(rx) : t[Len(pending) + j] = rx[j]
  BY <1>1, Halves
<1>3. /\ Len(u) = Len(pending) + Len(rx') /\ Len(rx') \in Nat
      /\ \A j \in 1 .. Len(pending) : u[j] = pending[j]
      /\ \A j \in 1 .. Len(rx') : u[Len(pending) + j] = rx'[j]
  BY <1>1, Halves
<1>4. Arrived = t /\ Arrived' = u
  BY DEF Arrived
<1> HIDE DEF t, u
<1> QED
  BY <1>2, <1>3, <1>4

LEMMA LossThins ==
  ASSUME TypeOK, TypeOK', pending' = pending, NEW i \in DOMAIN rx, rx' = Lost(i)
  PROVE  Thins(Len(pending) + i)
<1>1. rx \in Seq(Bytes) /\ i \in 1 .. Len(rx)
  BY LenProperties DEF TypeOK
<1>2. Len(rx') = Len(rx) - 1 /\ \A j \in 1 .. Len(rx) - 1 : rx'[j] = rx[Kept(i, j)]
  BY <1>1, Without DEF Lost
<1> DEFINE p == Len(pending)
           n == Len(rx)
           m == Len(Arrived')
<1>3. /\ p \in Nat /\ n \in Nat /\ Len(Arrived) = p + n /\ m = p + Len(rx')
      /\ \A j \in 1 .. p : Arrived[j] = pending[j] /\ Arrived'[j] = pending[j]
      /\ \A j \in 1 .. n : Arrived[p + j] = rx[j]
      /\ \A j \in 1 .. Len(rx') : Arrived'[p + j] = rx'[j]
  BY BehindPending
<1>4. i \in 1 .. n /\ Len(rx') = n - 1
  BY <1>1, <1>2
<1> HIDE DEF p, n, m
<1>5. m = p + n - 1 /\ m <= p + n
  BY <1>3, <1>4
<1>6. ASSUME NEW j \in 1 .. m
      PROVE  Kept(p + i, j) \in 1 .. p + n /\ Arrived'[j] = Arrived[Kept(p + i, j)]
  <2>1. CASE j <= p
    <3>1. Kept(p + i, j) = j /\ j \in 1 .. p /\ j \in 1 .. p + n
      BY <1>3, <1>4, <2>1 DEF Kept
    <3> QED
      BY <1>3, <3>1
  <2>2. CASE ~(j <= p)
    <3> DEFINE k == j - p
    <3>1. /\ k \in 1 .. n - 1 /\ j = p + k /\ Kept(p + i, j) = p + Kept(i, k)
          /\ Kept(i, k) \in 1 .. n /\ p + Kept(i, k) \in 1 .. p + n
      BY <1>3, <1>4, <1>5, <2>2 DEF Kept
    <3> HIDE DEF k
    <3>2. Arrived'[p + k] = rx'[k] /\ rx'[k] = rx[Kept(i, k)]
      BY <1>2, <1>3, <1>4, <3>1 DEF n
    <3>3. Arrived[p + Kept(i, k)] = rx[Kept(i, k)]
      BY <1>3, <3>1
    <3> QED
      BY <3>1, <3>2, <3>3
  <2> QED
    BY <2>1, <2>2
<1> QED
  BY <1>3, <1>5, <1>6 DEF Thins, p, m

LEMMA DamageThins ==
  ASSUME TypeOK, TypeOK', pending' = pending, NEW i \in DOMAIN rx,
         NEW b \in {Damaged, Cancel}, rx' = [rx EXCEPT ![i].value = b]
  PROVE  \E e \in Nat : Thins(e)
<1>1. rx \in Seq(Bytes) /\ i \in 1 .. Len(rx) /\ b < 0
  BY LenProperties DEF TypeOK, Damaged, Cancel
<1>2. b \in R .. Len(Payloads)
  BY PayloadAssumption DEF Damaged, Cancel, R
<1> DEFINE x == [rx[i] EXCEPT !.value = b]
<1>3. x \in Bytes /\ x.value = b
  BY <1>1, <1>2, ElementOfSeq, ByteFacts
<1>4. rx' = [rx EXCEPT ![i] = x]
  OBVIOUS
<1> HIDE DEF x
<1>5. /\ Len(rx') = Len(rx)
      /\ \A j \in 1 .. Len(rx) : rx'[j] = IF j = i THEN x ELSE rx[j]
  BY <1>1, <1>3, <1>4, ExceptSeq
<1> DEFINE p == Len(pending)
           n == Len(rx)
           m == Len(Arrived')
<1>6. /\ p \in Nat /\ n \in Nat /\ Len(Arrived) = p + n /\ m = p + n
      /\ \A j \in 1 .. p : Arrived[j] = pending[j] /\ Arrived'[j] = pending[j]
      /\ \A j \in 1 .. n : Arrived[p + j] = rx[j]
      /\ \A j \in 1 .. n : Arrived'[p + j] = IF j = i THEN x ELSE rx[j]
  BY <1>5, BehindPending
<1> HIDE DEF p, n, m
<1>7. ASSUME NEW j \in 1 .. m
      PROVE  /\ Kept(m + 1, j) = j /\ j \in 1 .. p + n
             /\ Arrived'[j].value = Arrived[j].value \/ Arrived'[j].value < 0
  <2>0. Kept(m + 1, j) = j /\ j \in 1 .. p + n
    BY <1>6 DEF Kept
  <2>1. CASE j <= p
    BY <1>6, <2>0, <2>1
  <2>2. CASE ~(j <= p)
    <3> DEFINE k == j - p
    <3>1. k \in 1 .. n /\ j = p + k
      BY <1>6, <2>2
    <3> HIDE DEF k
    <3>2. Arrived'[j] = x \/ Arrived'[j] = Arrived[j]
      BY <1>6, <3>1
    <3> QED
      BY <1>1, <1>3, <2>0, <3>2
  <2> QED
    BY <2>1, <2>2
<1>8. m + 1 \in Nat /\ m <= Len(Arrived)
  BY <1>6
<1>9. Thins(m + 1)
  BY <1>6, <1>7, <1>8 DEF Thins, m
<1> QED
  BY <1>8, <1>9

-----------------------------------------------------------------------------
(* Every frame is read at most once, in order                               *)

\* No payload holds a header: a whole frame inside a file cannot be told from
\* one of the peer's once the header before it is lost.
PlainPayloads ==
  \A i \in 1 .. Len(Payloads) : \A k \in 1 .. Len(Payloads[i]) : Payloads[i][k] < 0

Body(h) == IF h = 0 THEN <<>> ELSE Payloads[h]

\* The headers on their way, in the order in which the peer sent them ...
Ordered ==
  /\ \A i \in 1 .. Len(Arrived) :
       /\ Arrived[i].value = 0 => reflects
       /\ Arrived[i].value > 0 => Arrived[i].value <= sent
  /\ \A i, j \in 1 .. Len(Arrived) :
       i < j /\ Arrived[i].value > 0 /\ Arrived[j].value > 0 =>
         Arrived[i].value < Arrived[j].value

\* ... come after those that were read, and after the one being read.
Newer(v) ==
  /\ \A k \in 1 .. Len(got) : got[k][1] < v
  /\ phase = "payload" => header < v

Read ==
  /\ \A i \in 1 .. Len(Arrived) : Arrived[i].value > 0 => Newer(Arrived[i].value)
  /\ (phase = "payload" /\ header > 0) =>
       header <= sent /\ \A k \in 1 .. Len(got) : got[k][1] < header

Returned ==
  /\ \A k \in 1 .. Len(got) :
       /\ got[k][1] <= sent /\ got[k][2] = Body(got[k][1])
       /\ got[k][1] = 0 => reflects
  /\ \A k, l \in 1 .. Len(got) :
       k < l /\ got[k][1] # 0 /\ got[l][1] # 0 => got[k][1] < got[l][1]

Once == Ordered /\ Read /\ Returned

\* Nothing new has arrived.
LEMMA OrderedThins ==
  ASSUME TypeOK, TypeOK', Ordered, NEW e \in Nat, Thins(e),
         UNCHANGED <<reflects, sent>>
  PROVE  /\ Ordered'
         /\ \A j \in 1 .. Len(Arrived') :
              Arrived'[j].value > 0 =>
                /\ Kept(e, j) \in 1 .. Len(Arrived)
                /\ Arrived'[j].value = Arrived[Kept(e, j)].value
<1>1. Arrived \in Seq(Bytes) /\ Arrived' \in Seq(Bytes)
  <2>1. pending' \in Seq(Bytes) /\ rx' \in Seq(Bytes)
    BY DEF TypeOK
  <2>2. Arrived' \in Seq(Bytes)
    BY <2>1, Halves DEF Arrived
  <2> QED
    BY <2>2, ArrivedSeq
<1>2. /\ \A j \in 1 .. Len(Arrived) : Arrived[j].value \in Int
      /\ \A j \in 1 .. Len(Arrived') : Arrived'[j].value \in Int
  BY <1>1, IntValues
<1>3. ASSUME NEW j \in 1 .. Len(Arrived')
      PROVE  /\ Kept(e, j) \in 1 .. Len(Arrived)
             /\ Arrived'[j].value \in Int /\ Arrived[Kept(e, j)].value \in Int
             /\ Arrived'[j].value = Arrived[Kept(e, j)].value \/ Arrived'[j].value < 0
  BY <1>2 DEF Thins
<1>4. ASSUME NEW j \in 1 .. Len(Arrived')
      PROVE  /\ Arrived'[j].value = 0 => reflects'
             /\ Arrived'[j].value > 0 => Arrived'[j].value <= sent'
  BY <1>3 DEF Ordered
<1>5. ASSUME NEW i \in 1 .. Len(Arrived'), NEW j \in 1 .. Len(Arrived'), i < j,
             Arrived'[i].value > 0, Arrived'[j].value > 0
      PROVE  Arrived'[i].value < Arrived'[j].value
  <2> DEFINE k == Kept(e, i)
             l == Kept(e, j)
  <2>1. k < l
    BY <1>5 DEF Kept
  <2>2. /\ k \in 1 .. Len(Arrived) /\ Arrived'[i].value = Arrived[k].value
        /\ Arrived[k].value > 0
    BY <1>3, <1>5
  <2>3. /\ l \in 1 .. Len(Arrived) /\ Arrived'[j].value = Arrived[l].value
        /\ Arrived[l].value > 0
    BY <1>3, <1>5
  <2> HIDE DEF k, l
  <2>4. Arrived[k].value < Arrived[l].value
    BY <2>1, <2>2, <2>3 DEF Ordered
  <2> QED
    BY <2>2, <2>3, <2>4
<1> QED
  BY <1>3, <1>4, <1>5 DEF Ordered

LEMMA OnceThins ==
  ASSUME TypeOK, TypeOK', Once, NEW e \in Nat, Thins(e),
         UNCHANGED <<reflects, sent, got>>,
         phase' = "payload" => phase = "payload" /\ header' = header
  PROVE  Once'
<1>1. /\ Ordered'
      /\ \A j \in 1 .. Len(Arrived') :
           Arrived'[j].value > 0 =>
             /\ Kept(e, j) \in 1 .. Len(Arrived)
             /\ Arrived'[j].value = Arrived[Kept(e, j)].value
  BY OrderedThins DEF Once
<1>2. Read'
  BY <1>1 DEF Once, Read, Newer
<1>3. Returned'
  BY DEF Once, Returned, Body
<1> QED
  BY <1>1, <1>2, <1>3 DEF Once

LEMMA CrcFacts ==
  ASSUME NEW h \in Headers \cup {Damaged}, NEW bytes \in Seq(Values),
         CrcMatches(h, bytes)
  PROVE  h \in Headers /\ bytes = Body(h)
<1>1. h \in Headers /\ Frame(h) = Magic \o <<h>> \o bytes
  BY DEF CrcMatches
<1>2. Magic \o <<h>> \in Seq(Values) /\ Body(h) \in Seq(Values)
  <2>1. Len(Payloads) \in Nat
    BY PayloadAssumption
  <2>2. h \in Values /\ W \in Values /\ F \in Values
    BY <1>1, <2>1 DEF Headers, Values, W, F, R
  <2>3. Magic \in Seq(Values) /\ <<h>> \in Seq(Values)
    BY <2>2 DEF Magic
  <2>4. h # 0 => h \in 1 .. Len(Payloads)
    BY <1>1, <2>1 DEF Headers
  <2>5. Body(h) \in Seq(Values)
    BY <2>4, FrameFacts, EmptySeq DEF Body
  <2> QED
    BY <2>3, <2>5, Halves
<1>3. Frame(h) = Magic \o <<h>> \o Body(h)
  BY DEF Frame, Body
<1> DEFINE m == Magic \o <<h>>
<1>4. m \in Seq(Values) /\ m \o Body(h) = m \o bytes
  BY <1>1, <1>2, <1>3
<1> HIDE DEF m
<1>5. Body(h) = bytes
  <2> DEFINE b == Body(h)
  <2>1. m \in Seq(Values) /\ b \in Seq(Values) /\ bytes \in Seq(Values) /\ m \o b = m \o bytes
    BY <1>2, <1>4
  <2> HIDE DEF b
  <2>2. b = bytes
    BY ZenonT(30), <2>1, ConcatSimplifications
  <2> QED
    BY <2>2 DEF b
<1> QED
  BY <1>1, <1>5

\* What read_frame returns is newer than all it has returned, and older than all
\* that is still to come.
LEMMA OnceAccept ==
  ASSUME Placed, Placed', Once, Thins(1), UNCHANGED <<reflects, sent>>,
         NEW h \in Headers \cup {Damaged}, NEW bytes \in Seq(Values), Accept(h, bytes),
         h = 0 => reflects,
         h > 0 => /\ h <= sent /\ \A k \in 1 .. Len(got) : got[k][1] < h
                  /\ \A j \in 1 .. Len(Arrived') :
                       Arrived'[j].value > 0 => h < Arrived'[j].value
  PROVE  Once'
<1>1. TypeOK /\ TypeOK' /\ got \in Seq(Headers \X Seq(Values)) /\ phase' # "payload"
  BY DEF Placed, Accept, Return
<1>2. CASE ~CrcMatches(h, bytes)
  <2>1. got' = got
    BY <1>2 DEF Accept
  <2> QED
    BY <1>1, <2>1, OnceThins
<1>3. CASE CrcMatches(h, bytes)
  <2>0. got' = Append(got, <<h, bytes>>) /\ h \in Headers /\ bytes = Body(h)
    BY <1>3, CrcFacts DEF Accept
  <2>1. /\ got' = Append(got, <<h, bytes>>) /\ h \in Headers /\ bytes = Body(h)
        /\ h \in Nat /\ sent \in Nat
    BY <1>1, <2>0, PayloadAssumption DEF Headers, TypeOK
  <2>2. /\ Ordered'
        /\ \A j \in 1 .. Len(Arrived') :
             Arrived'[j].value > 0 =>
               /\ Kept(1, j) \in 1 .. Len(Arrived)
               /\ Arrived'[j].value = Arrived[Kept(1, j)].value
    BY <1>1, OrderedThins DEF Once
  <2> DEFINE n == Len(got)
             x == <<h, bytes>>
  <2>3. /\ n \in Nat /\ Len(got') = n + 1 /\ got'[n + 1] = x
        /\ \A k \in 1 .. n : got'[k] = got[k] /\ got[k][1] \in Nat
    <3>1. x \in Headers \X Seq(Values)
      BY <2>1
    <3>2. \A k \in 1 .. n : got[k][1] \in Nat
      BY <1>1, ElementOfSeq, PayloadAssumption DEF Headers
    <3> HIDE DEF x
    <3> QED
      BY <1>1, <2>1, <3>1, <3>2, AppendProperties, LenProperties DEF x
  <2>4. x[1] = h /\ x[2] = bytes
    OBVIOUS
  <2> HIDE DEF n, x
  <2>5. ASSUME NEW k \in 1 .. n + 1
        PROVE  k \in 1 .. n \/ k = n + 1
    BY <2>3
  <2>6. Returned'
    <3>1. ASSUME NEW k \in 1 .. n + 1
          PROVE  /\ got'[k][1] <= sent /\ got'[k][2] = Body(got'[k][1])
                 /\ got'[k][1] = 0 => reflects
      BY <2>1, <2>3, <2>4, <2>5 DEF Once, Returned, n
    <3>2. ASSUME NEW k \in 1 .. n + 1, NEW l \in 1 .. n + 1, k < l,
                 got'[k][1] # 0, got'[l][1] # 0
          PROVE  got'[k][1] < got'[l][1]
      <4>1. k \in 1 .. n
        BY <2>3, <3>2
      <4>2. CASE l \in 1 .. n
        BY <2>3, <3>2, <4>1, <4>2 DEF Once, Returned, n
      <4>3. CASE l = n + 1
        <5>1. got'[l][1] = h /\ h > 0 /\ got'[k] = got[k]
          BY <2>1, <2>3, <2>4, <3>2, <4>1, <4>3
        <5> QED
          BY <4>1, <5>1 DEF n
      <4> QED
        BY <2>5, <4>2, <4>3
    <3>3. Body(0) = Body(0)' /\ \A v : Body(v)' = Body(v)
      BY DEF Body
    <3> QED
      BY <2>3, <3>1, <3>2, <3>3 DEF Returned
  <2>7. Read'
    <3>1. ASSUME NEW j \in 1 .. Len(Arrived'), Arrived'[j].value > 0, NEW k \in 1 .. n + 1
          PROVE  got'[k][1] < Arrived'[j].value
      <4>1. CASE k \in 1 .. n
        <5>1. got'[k] = got[k]
          BY <2>3, <4>1
        <5> QED
          BY <2>2, <3>1, <4>1, <5>1 DEF Once, Read, Newer, n
      <4>2. CASE k = n + 1
        <5>1. got'[k][1] = h
          BY <2>3, <2>4, <4>2
        <5>2. CASE h = 0
          BY <3>1, <5>1, <5>2
        <5>3. CASE h > 0
          BY <3>1, <5>1, <5>3
        <5>4. h = 0 \/ h > 0
          BY <2>1
        <5> QED
          BY <5>2, <5>3, <5>4
      <4> QED
        BY <2>5, <4>1, <4>2
    <3> QED
      BY <1>1, <2>3, <3>1 DEF Read, Newer
  <2> QED
    BY <2>2, <2>6, <2>7 DEF Once
<1> QED
  BY <1>2, <1>3

LEMMA Associated ==
  \A a, b, c \in Seq(Bytes) : (a \o b) \o c = a \o (b \o c)
BY ConcatAssociative

\* Bytes come behind those that have arrived.
LEMMA Appended ==
  ASSUME TypeOK, NEW q \in Seq(Bytes), rx' = rx \o q, pending' = pending
  PROVE  /\ Arrived \in Seq(Bytes) /\ Arrived' \in Seq(Bytes)
         /\ Len(Arrived) \in Nat /\ Len(q) \in Nat
         /\ Len(Arrived') = Len(Arrived) + Len(q)
         /\ \A j \in 1 .. Len(Arrived) : Arrived'[j] = Arrived[j]
         /\ \A j \in 1 .. Len(q) : Arrived'[Len(Arrived) + j] = q[j]
<1>1. pending \in Seq(Bytes) /\ rx \in Seq(Bytes) /\ Arrived \in Seq(Bytes)
  BY ArrivedSeq DEF TypeOK
<1>2. Arrived' = Arrived \o q
  <2>1. Arrived' = pending \o (rx \o q)
    BY DEF Arrived
  <2>2. (pending \o rx) \o q = pending \o (rx \o q)
    <3>1. pending \in Seq(Bytes) /\ rx \in Seq(Bytes) /\ q \in Seq(Bytes)
      BY <1>1
    <3> QED
      BY <3>1, Associated, Zenon
  <2> QED
    BY <2>1, <2>2 DEF Arrived
<1> DEFINE a == Arrived
           t == a \o q
<1>3. a \in Seq(Bytes)
  BY <1>1
<1> HIDE DEF a
<1>4. /\ t \in Seq(Bytes) /\ Len(t) = Len(a) + Len(q) /\ Len(a) \in Nat /\ Len(q) \in Nat
      /\ \A i \in 1 .. Len(a) : t[i] = a[i]
      /\ \A i \in 1 .. Len(q) : t[Len(a) + i] = q[i]
  BY <1>3, Halves
<1>5. Arrived' = t /\ Arrived = a
  BY <1>2 DEF a
<1> HIDE DEF t
<1> QED
  BY <1>3, <1>4, <1>5

\* The only header among them is that of the peer's next frame.
OneHeader(q) ==
  \A j \in 1 .. Len(q) :
    /\ q[j].value = 0 => reflects
    /\ q[j].value > 0 => j = 3 /\ q[j].value = sent' /\ sent < sent'

LEMMA OnceAppended ==
  ASSUME TypeOK, TypeOK', Once, NEW q \in Seq(Bytes), OneHeader(q), rx' = rx \o q,
         pending' = pending, UNCHANGED <<reflects, got>>, sent <= sent',
         got \in Seq(Headers \X Seq(Values)),
         phase' = "payload" => phase = "payload" /\ header' = header
  PROVE  Once'
<1> DEFINE n == Len(Arrived)
           m == Len(Arrived')
           v(j) == Arrived'[j].value
<1>1. /\ Arrived \in Seq(Bytes) /\ Arrived' \in Seq(Bytes) /\ n \in Nat /\ Len(q) \in Nat
      /\ m = n + Len(q)
      /\ \A j \in 1 .. n : Arrived'[j] = Arrived[j]
      /\ \A j \in 1 .. Len(q) : Arrived'[n + j] = q[j]
  BY Appended
<1>2. \A j \in 1 .. m : v(j) \in Int
  BY <1>1, IntValues
<1>3. sent \in Int /\ sent' \in Int /\ header \in Int
  BY PayloadAssumption DEF TypeOK, Headers, Damaged
<1> HIDE DEF n, m
<1>4. ASSUME NEW j \in 1 .. m
      PROVE  \/ j \in 1 .. n /\ Arrived'[j] = Arrived[j]
             \/ /\ j \notin 1 .. n
                /\ v(j) = 0 => reflects
                /\ v(j) > 0 => j = n + 3 /\ v(j) = sent' /\ sent < sent'
  <2>1. CASE j <= n
    BY <1>1, <2>1
  <2>2. CASE ~(j <= n)
    <3> DEFINE k == j - n
    <3>1. k \in 1 .. Len(q) /\ j = n + k /\ j \notin 1 .. n
      BY <1>1, <2>2
    <3> HIDE DEF k
    <3>2. Arrived'[j] = q[k]
      BY <1>1, <3>1
    <3> QED
      BY <3>1, <3>2 DEF OneHeader
  <2> QED
    BY <2>1, <2>2
<1>5. ASSUME NEW j \in 1 .. m
      PROVE  /\ v(j) = 0 => reflects
             /\ v(j) > 0 => v(j) <= sent'
  <2>1. CASE j \in 1 .. n /\ Arrived'[j] = Arrived[j]
    <3>1. /\ v(j) = 0 => reflects
          /\ v(j) > 0 => v(j) <= sent
      BY <2>1 DEF Once, Ordered, n
    <3> QED
      BY <1>2, <1>3, <3>1
  <2>2. CASE /\ v(j) = 0 => reflects
             /\ v(j) > 0 => j = n + 3 /\ v(j) = sent' /\ sent < sent'
    BY <1>3, <2>2
  <2> QED
    BY <1>4, <2>1, <2>2
<1>6. ASSUME NEW i \in 1 .. m, NEW j \in 1 .. m, i < j, v(i) > 0, v(j) > 0
      PROVE  v(i) < v(j)
  <2>1. CASE j \in 1 .. n
    <3>1. i \in 1 .. n
      BY <1>1, <1>6, <2>1
    <3>2. Arrived'[i] = Arrived[i] /\ Arrived'[j] = Arrived[j]
      BY <1>1, <2>1, <3>1
    <3> QED
      BY <1>6, <2>1, <3>1, <3>2 DEF Once, Ordered, n
  <2>2. CASE j \notin 1 .. n
    <3>1. j = n + 3 /\ v(j) = sent' /\ sent < sent'
      BY <1>4, <1>6, <2>2
    <3>2. i \in 1 .. n /\ Arrived'[i] = Arrived[i]
      BY <1>1, <1>4, <1>6, <3>1
    <3>3. v(i) <= sent
      BY <1>6, <3>2 DEF Once, Ordered, n
    <3> QED
      BY <1>2, <1>3, <3>1, <3>3
  <2> QED
    BY <2>1, <2>2
<1>7. \A k \in 1 .. Len(got) : got[k][1] \in Int /\ got[k][1] <= sent
  BY PayloadAssumption, ElementOfSeq DEF Headers, Once, Returned
<1>8. ASSUME NEW j \in 1 .. m, v(j) > 0
      PROVE  /\ \A k \in 1 .. Len(got') : got'[k][1] < v(j)
             /\ phase' = "payload" => header' < v(j)
  <2>1. CASE j \in 1 .. n
    <3>1. Arrived'[j] = Arrived[j] /\ Newer(Arrived[j].value)
      BY <1>1, <1>8, <2>1 DEF Once, Read, n
    <3> QED
      BY <3>1 DEF Newer
  <2>2. CASE j \notin 1 .. n
    <3>1. v(j) = sent' /\ sent < sent'
      BY <1>4, <1>8, <2>2
    <3>2. phase = "payload" => header <= sent
      <4>1. sent \in Nat
        BY PayloadAssumption DEF TypeOK
      <4>2. CASE header > 0
        BY <4>2 DEF Once, Read
      <4>3. CASE ~(header > 0)
        BY <1>3, <4>1, <4>3
      <4> QED
        BY <4>2, <4>3
    <3>3. phase' = "payload" => header' < v(j)
      BY <1>3, <3>1, <3>2
    <3>4. \A k \in 1 .. Len(got) : got[k][1] < v(j)
      BY <1>3, <1>7, <3>1
    <3> QED
      BY <3>3, <3>4
  <2> QED
    BY <2>1, <2>2
<1>9. Ordered'
  BY <1>5, <1>6 DEF Ordered, m
<1>10. Read'
  <2>2. (phase' = "payload" /\ header' > 0) =>
           header' <= sent' /\ \A k \in 1 .. Len(got') : got'[k][1] < header'
    BY <1>3 DEF Once, Read
  <2> QED
    BY <1>8, <2>2 DEF Read, Newer, m
<1>11. Returned'
  <2>1. got' = got /\ reflects' = reflects
    OBVIOUS
  <2>2. ASSUME NEW k \in 1 .. Len(got)
        PROVE  /\ got[k][1] <= sent' /\ got[k][2] = Body(got[k][1])
               /\ got[k][1] = 0 => reflects
    <3>1. /\ got[k][2] = Body(got[k][1])
          /\ got[k][1] = 0 => reflects
      BY DEF Once, Returned
    <3>2. got[k][1] <= sent'
      BY <1>3, <1>7
    <3> QED
      BY <3>1, <3>2
  <2>3. \A k, l \in 1 .. Len(got) :
          k < l /\ got[k][1] # 0 /\ got[l][1] # 0 => got[k][1] < got[l][1]
    BY DEF Once, Returned
  <2>4. \A k \in 1 .. Len(got') :
          /\ got'[k][1] <= sent' /\ got'[k][2] = Body(got'[k][1])
          /\ got'[k][1] = 0 => reflects'
    BY <2>1, <2>2
  <2>5. \A k, l \in 1 .. Len(got') :
          k < l /\ got'[k][1] # 0 /\ got'[l][1] # 0 => got'[k][1] < got'[l][1]
    BY <2>1, <2>3
  <2> QED
    BY <2>4, <2>5, Zenon DEF Returned, Body
<1> QED
  BY <1>9, <1>10, <1>11 DEF Once

LEMMA OnceSameQueue ==
  ASSUME TypeOK, TypeOK', Once, UNCHANGED <<pending, rx, reflects, sent, got>>,
         phase' = "payload" => phase = "payload" /\ header' = header
  PROVE  Once'
<1>1. Arrived' = Arrived
  BY DEF Arrived
<1>2. PICK e \in Nat : Thins(e)
  BY <1>1, ThinsNothing
<1> QED
  BY <1>2, OnceThins

\* The bytes the agent writes.
LEMMA MessageFacts ==
  ASSUME NEW n \in Nat
  PROVE  Message(n) \in Seq({R, W, F, 0}) /\ {R, W, F, 0} \subseteq R .. Len(Payloads)
<1>1. Len(Payloads) \in Nat
  BY PayloadAssumption
<1>2. /\ <<R, R>> \in Seq({R, W, F, 0}) /\ <<>> \in Seq({R, W, F, 0})
      /\ Magic \in Seq({R, W, F, 0}) /\ <<0>> \in Seq({R, W, F, 0})
  BY DEF Magic
<1>3. Frame(0) \in Seq({R, W, F, 0})
  BY <1>2, ConcatFacts DEF Frame
<1>4. {R, W, F, 0} \subseteq R .. Len(Payloads)
  BY <1>1 DEF R, W, F
<1> QED
  BY <1>2, <1>3, <1>4 DEF Message

LEMMA OnceWrite ==
  ASSUME PortInv, Placed, Placed', Once, Write
  PROVE  Once'
<1>1. /\ rx' = IF reflects THEN rx \o From(TRUE, Message(writes)) ELSE rx
      /\ phase' # "payload"
      /\ UNCHANGED <<reflects, pending, sent, got>>
  BY DEF Write, history
<1>2. /\ TypeOK /\ TypeOK' /\ got \in Seq(Headers \X Seq(Values)) /\ writes \in Nat
      /\ sent <= sent'
  <2>1. TypeOK /\ TypeOK' /\ got \in Seq(Headers \X Seq(Values))
    BY DEF Placed
  <2>2. sent \in Nat /\ writes \in Nat
    BY DEF PortInv
  <2> QED
    BY <1>1, <2>1, <2>2
<1>3. CASE ~reflects
  BY <1>1, <1>2, <1>3, OnceSameQueue
<1>4. CASE reflects
  <2> DEFINE q == From(TRUE, Message(writes))
  <2>1. /\ q \in Seq(Bytes) /\ Len(q) = Len(Message(writes))
        /\ \A i \in 1 .. Len(Message(writes)) : q[i].value = Message(writes)[i]
    BY <1>2, MessageFacts, FromFacts
  <2>2. \A i \in 1 .. Len(Message(writes)) : Message(writes)[i] \in {R, W, F, 0}
    BY <1>2, MessageFacts, ElementOfSeq
  <2>3. rx' = rx \o q
    BY <1>1, <1>4
  <2> HIDE DEF q
  <2>4. \A i \in 1 .. Len(q) : q[i].value <= 0 /\ ~(q[i].value > 0)
    BY <2>1, <2>2 DEF R, W, F
  <2>5. OneHeader(q)
    BY <1>4, <2>4 DEF OneHeader
  <2> QED
    BY <1>1, <1>2, <2>1, <2>3, <2>5, OnceAppended
<1> QED
  BY <1>3, <1>4

LEMMA OncePeerSends ==
  ASSUME PortInv, Placed, Placed', Once, PeerSends, PlainPayloads
  PROVE  Once'
<1>1. /\ sent < Len(Payloads) /\ sent' = sent + 1
      /\ rx' = rx \o From(FALSE, Frame(sent'))
      /\ UNCHANGED <<reflects, pending, phase, header, got>>
  BY DEF PeerSends, reading
<1>2. /\ TypeOK /\ TypeOK' /\ got \in Seq(Headers \X Seq(Values))
      /\ sent <= sent' /\ sent < sent' /\ sent' \in 1 .. Len(Payloads)
  <2>1. TypeOK /\ TypeOK' /\ got \in Seq(Headers \X Seq(Values))
    BY DEF Placed
  <2>2. sent \in Nat /\ Len(Payloads) \in Nat
    BY PayloadAssumption DEF PortInv
  <2> QED
    BY <1>1, <2>1, <2>2
<1> DEFINE q == From(FALSE, Frame(sent'))
           id == sent'
           p == Payloads[id]
<1>3. /\ Values \subseteq R .. Len(Payloads) /\ Frame(id) \in Seq(Values)
      /\ p \in Seq(Values) /\ Len(Frame(id)) = 3 + Len(p)
      /\ Frame(id)[1] = W /\ Frame(id)[2] = F /\ Frame(id)[3] = id
      /\ \A i \in 1 .. Len(p) : Frame(id)[3 + i] = p[i]
  BY <1>2, FrameFacts DEF Values
<1>4. /\ q \in Seq(Bytes) /\ Len(q) = 3 + Len(p) /\ Len(p) \in Nat
      /\ \A i \in 1 .. 3 + Len(p) : q[i].value = Frame(id)[i]
  <2> DEFINE f == Frame(id)
  <2>1. f \in Seq(Values)
    BY <1>3
  <2> HIDE DEF f
  <2>2. /\ From(FALSE, f) \in Seq(Bytes) /\ Len(From(FALSE, f)) = Len(f)
        /\ \A i \in 1 .. Len(f) : From(FALSE, f)[i].value = f[i]
    BY <1>3, <2>1, FromFacts
  <2>3. Len(p) \in Nat
    BY <1>3, LenProperties
  <2> QED
    BY <1>3, <2>2, <2>3 DEF f
<1>5. \A i \in 1 .. Len(p) : p[i] < 0
  BY <1>2 DEF PlainPayloads
<1>6. W < 0 /\ F < 0 /\ sent' > 0
  BY <1>2 DEF W, F
<1>7. rx' = rx \o q
  BY <1>1
<1> HIDE DEF p, q
<1>8. ASSUME NEW j \in 1 .. Len(q)
      PROVE  q[j].value < 0 \/ (j = 3 /\ q[j].value = sent')
  <2>1. CASE j \in {1, 2, 3}
    BY <1>3, <1>4, <1>6, <2>1
  <2>2. CASE j \notin {1, 2, 3}
    <3> DEFINE k == j - 3
    <3>1. k \in 1 .. Len(p) /\ j = 3 + k
      BY <1>4, <2>2
    <3> HIDE DEF k
    <3>2. q[j].value = p[k] /\ p[k] < 0
      BY <1>3, <1>4, <1>5, <3>1
    <3> QED
      BY <3>2
  <2> QED
    BY <2>1, <2>2
<1>9. sent' \in Int /\ \A j \in 1 .. Len(q) : q[j].value \in Int
  <2>1. \A x \in Bytes : x.value \in Int
    BY PayloadAssumption DEF Bytes, R
  <2> QED
    BY <1>2, <1>4, <2>1, ElementOfSeq
<1>10. OneHeader(q)
  <2>1. sent < sent' /\ sent' > 0
    BY <1>2, <1>6
  <2>2. ASSUME NEW j \in 1 .. Len(q)
        PROVE  /\ q[j].value = 0 => reflects
               /\ q[j].value > 0 => j = 3 /\ q[j].value = sent'
    BY <1>8, <1>9, <2>1
  <2> QED
    BY <2>1, <2>2 DEF OneHeader
<1> QED
  BY <1>1, <1>2, <1>4, <1>7, <1>10, OnceAppended

LEMMA OnceFault ==
  ASSUME PortInv, Placed, Placed', Once, Fault
  PROVE  Once'
<1>1. /\ TypeOK /\ TypeOK' /\ pending' = pending
      /\ UNCHANGED <<reflects, sent, got, phase, header>>
  BY DEF Placed, Fault, reading
<1>2. PICK i \in DOMAIN rx :
        rx' = Lost(i) \/ \E b \in {Damaged, Cancel} : rx' = [rx EXCEPT ![i].value = b]
  BY DEF Fault
<1>3. \E e \in Nat : Thins(e)
  <2>1. CASE rx' = Lost(i)
    <3>1. pending \in Seq(Bytes) /\ rx \in Seq(Bytes)
      BY <1>1 DEF TypeOK
    <3>2. Len(pending) + i \in Nat
      BY <3>1, LenProperties
    <3> QED
      BY <1>1, <2>1, <3>2, LossThins
  <2>2. CASE \E b \in {Damaged, Cancel} : rx' = [rx EXCEPT ![i].value = b]
    BY <1>1, <2>2, DamageThins
  <2> QED
    BY <1>2, <2>1, <2>2
<1> QED
  BY <1>1, <1>3, OnceThins

LEMMA OnceHeader ==
  ASSUME PortInv, Placed, Placed', Once, ReadHeader
  PROVE  Once'
<1> DEFINE h == IF Byte.value \in Headers THEN Byte.value ELSE Damaged
<1>1. /\ phase = "header" /\ ReadByte /\ TypeOK /\ TypeOK'
      /\ UNCHANGED <<reflects, sent>>
  BY DEF ReadHeader, Placed
<1>2. PICK n \in Lengths(h) :
        CASE TooLong(n) -> Return /\ UNCHANGED got
          [] n = 0 -> Accept(h, <<>>)
          [] OTHER -> /\ phase' = "payload" /\ matched' = n /\ header' = h
                      /\ UNCHANGED <<payload, got>>
  BY DEF ReadHeader
<1>3. /\ 1 \in 1 .. Len(Arrived) /\ Byte = Arrived[1]
      /\ \A j \in 1 .. Len(Arrived') : Arrived'[j] = Arrived[j + 1]
      /\ Len(Arrived) \in Nat /\ Len(Arrived') = Len(Arrived) - 1
  BY <1>1, ReadArrived
<1>4. h \in Headers \cup {Damaged} /\ h \in Int /\ (h >= 0 => h = Arrived[1].value)
  BY <1>3, PayloadAssumption DEF Headers, Damaged
<1>5. h = 0 => reflects
  BY <1>3, <1>4 DEF Once, Ordered
<1>6. ASSUME h > 0
      PROVE  /\ h <= sent /\ \A k \in 1 .. Len(got) : got[k][1] < h
             /\ \A j \in 1 .. Len(Arrived') :
                  Arrived'[j].value > 0 => h < Arrived'[j].value
  <2>1. h = Arrived[1].value
    BY <1>4, <1>6
  <2>2. h <= sent /\ Newer(h)
    BY <1>3, <1>6, <2>1 DEF Once, Ordered, Read
  <2>3. ASSUME NEW j \in 1 .. Len(Arrived'), Arrived'[j].value > 0
        PROVE  h < Arrived'[j].value
    <3>1. j + 1 \in 1 .. Len(Arrived) /\ 1 < j + 1 /\ Arrived'[j] = Arrived[j + 1]
      BY <1>3
    <3> QED
      BY <1>3, <1>6, <2>1, <2>3, <3>1 DEF Once, Ordered
  <2> QED
    BY <2>2, <2>3 DEF Newer
<1>7. Thins(1)
  BY <1>1, ThinsRead
<1> HIDE DEF h
<1>8. n \in Nat /\ (TooLong(n) => n # 0)
  BY <1>4, LengthFacts, PortAssumption DEF TooLong
<1>9. CASE TooLong(n)
  <2>1. phase' # "payload" /\ UNCHANGED got
    BY <1>2, <1>8, <1>9 DEF Return
  <2> QED
    BY <1>1, <1>7, <2>1, OnceThins
<1>10. CASE ~TooLong(n) /\ n = 0
  <2>1. Accept(h, <<>>) /\ <<>> \in Seq(Values)
    BY <1>2, <1>10
  <2> QED
    BY <1>1, <1>4, <1>5, <1>6, <1>7, <2>1, OnceAccept
<1>11. CASE ~TooLong(n) /\ n # 0
  <2>1. phase' = "payload" /\ header' = h /\ got' = got
    BY <1>2, <1>11
  <2>2. /\ Ordered'
        /\ \A j \in 1 .. Len(Arrived') :
             Arrived'[j].value > 0 =>
               /\ Kept(1, j) \in 1 .. Len(Arrived)
               /\ Arrived'[j].value = Arrived[Kept(1, j)].value
    BY <1>1, <1>7, OrderedThins DEF Once
  <2>3. Returned'
    BY <1>1, <2>1 DEF Once, Returned, Body
  <2>4. ASSUME NEW j \in 1 .. Len(Arrived'), Arrived'[j].value > 0
        PROVE  h < Arrived'[j].value
    <3>1. CASE h > 0
      BY <1>6, <2>4, <3>1
    <3>2. CASE ~(h > 0)
      <4>1. Arrived'[j].value \in Int
        BY <1>1, <2>4, ReadArrived, IntValues
      <4> QED
        BY <1>4, <2>4, <3>2, <4>1
    <3> QED
      BY <3>1, <3>2
  <2>5. Read'
    <3>1. ASSUME NEW j \in 1 .. Len(Arrived'), Arrived'[j].value > 0
          PROVE  \A k \in 1 .. Len(got) : got[k][1] < Arrived'[j].value
      BY <2>2, <3>1 DEF Once, Read, Newer
    <3> QED
      BY <1>1, <1>6, <2>1, <2>4, <3>1 DEF Read, Newer
  <2> QED
    BY <2>2, <2>3, <2>5 DEF Once
<1> QED
  BY <1>9, <1>10, <1>11

LEMMA OncePayload ==
  ASSUME PortInv, Placed, Placed', Once, ReadPayload
  PROVE  Once'
<1> DEFINE bytes == Append(payload, Byte.value)
<1>1. /\ phase = "payload" /\ ReadByte /\ TypeOK /\ TypeOK'
      /\ \/ Len(bytes) = matched /\ Accept(header, bytes)
         \/ UNCHANGED <<phase, header, got>>
      /\ UNCHANGED <<reflects, sent>>
      /\ payload \in Seq(Values) /\ header # 0 /\ header \in Headers \cup {Damaged}
  BY DEF ReadPayload, Placed, TypeOK
<1>2. Thins(1)
  BY <1>1, ThinsRead
<1>3. bytes \in Seq(Values)
  <2>1. Byte.value \in Values
    BY <1>1, ReadArrived DEF Bytes, Values
  <2> QED
    BY <1>1, <2>1, AppendProperties
<1> HIDE DEF bytes
<1>4. CASE UNCHANGED <<phase, header, got>>
  BY <1>1, <1>2, <1>4, OnceThins
<1>5. CASE Accept(header, bytes)
  <2>1. ASSUME header > 0
        PROVE  /\ header <= sent /\ \A k \in 1 .. Len(got) : got[k][1] < header
               /\ \A j \in 1 .. Len(Arrived') :
                    Arrived'[j].value > 0 => header < Arrived'[j].value
    <3>1. header <= sent /\ \A k \in 1 .. Len(got) : got[k][1] < header
      BY <1>1, <2>1 DEF Once, Read
    <3>2. \A j \in 1 .. Len(Arrived') :
            Arrived'[j].value > 0 =>
              /\ Kept(1, j) \in 1 .. Len(Arrived)
              /\ Arrived'[j].value = Arrived[Kept(1, j)].value
      BY <1>1, <1>2, OrderedThins DEF Once
    <3>3. \A j \in 1 .. Len(Arrived') :
            Arrived'[j].value > 0 => header < Arrived'[j].value
      BY <1>1, <3>2 DEF Once, Read, Newer
    <3> QED
      BY <3>1, <3>3
  <2> QED
    BY <1>1, <1>2, <1>3, <1>5, <2>1, OnceAccept
<1> QED
  BY <1>1, <1>4, <1>5

LEMMA OnceStep ==
  ASSUME PortInv, Placed, Once, PlainPayloads, [Next]_vars
  PROVE  Once'
<1>1. Placed' /\ TypeOK /\ TypeOK'
  BY PlacedStep DEF Placed
<1>2. CASE Done \/ UNCHANGED vars
  <2>1. UNCHANGED vars
    BY <1>2 DEF Done
  <2> QED
    BY <1>1, <2>1, OnceSameQueue DEF vars, reading, history
<1>3. CASE ConsumeOther
  <2>1. Arrived # <<>> /\ phase = "consume" /\ mode = "unknown" /\ phase' = "magic"
        /\ UNCHANGED <<reflects, sent, got>>
    BY <1>3 DEF ConsumeOther, history
  <2>2. pending = <<>> /\ pending' = <<Byte>> /\ rx' = Tail(rx)
    BY <1>3, <2>1 DEF Placed, ConsumeOther
  <2>3. Arrived' = Arrived
    BY <1>1, <2>1, <2>2, PutBack
  <2>4. PICK e \in Nat : Thins(e)
    BY <1>1, <2>3, ThinsNothing
  <2> QED
    BY <1>1, <2>1, <2>4, OnceThins
<1>4. CASE Consume \/ ReadCancelled \/ ReadMagic
  <2>1. ReadByte /\ phase' # "payload" /\ UNCHANGED <<reflects, sent, got>>
    BY <1>4 DEF Consume, ReadCancelled, ReadMagic, Return
  <2>2. Thins(1)
    BY <1>1, <2>1, ThinsRead
  <2> QED
    BY <1>1, <2>1, <2>2, OnceThins
<1>5. CASE ConsumeTimesOut \/ ReadTimesOut \/ ReadFails
  <2>1. phase' # "payload" /\ UNCHANGED <<pending, rx, reflects, sent, got>>
    BY <1>5 DEF ConsumeTimesOut, ReadTimesOut, ReadFails, Return, history
  <2> QED
    BY <1>1, <2>1, OnceSameQueue
<1> QED
  BY <1>1, <1>2, <1>3, <1>4, <1>5, OnceWrite, OnceHeader, OncePayload, OncePeerSends,
     OnceFault DEF Next, Agent

LEMMA OnceInit ==
  ASSUME Init
  PROVE  Once
<1>1. /\ Len(pending) = 0 /\ Len(rx) = 0 /\ pending \in Seq(Bytes) /\ rx \in Seq(Bytes)
      /\ Len(got) = 0 /\ phase = "write"
  BY DEF Init
<1>2. Len(Arrived) = 0
  BY <1>1, Halves DEF Arrived
<1> QED
  BY <1>1, <1>2 DEF Once, Ordered, Read, Returned

-----------------------------------------------------------------------------
(* An intact line and a peer that speaks in turn                            *)

Given(n) == [i \in 1 .. n |-> <<i, Payloads[i]>>]

\* All but the first n of these bytes have arrived.
Rest(q, bytes, n) ==
  /\ Len(q) = Len(bytes) - n
  /\ \A i \in 1 .. Len(q) : q[i].value = bytes[n + i]

Quiet == rx = <<>> /\ got = Given(sent)

\* The peer's last frame, of which n bytes have been read.
Coming(n) ==
  /\ ~turn /\ sent > 0 /\ got = Given(sent - 1)
  /\ Rest(rx, Frame(sent), n)

InPhase ==
  /\ pending = <<>>
  /\ phase = "write" => Quiet
  /\ phase = "consume" =>
       /\ turn /\ got = Given(sent)
       /\ reflects => Rest(rx, Message(writes - 1), matched)
       /\ ~reflects => rx = <<>>
  /\ phase = "magic" => (Quiet /\ matched = 0) \/ Coming(matched)
  /\ phase = "header" => Coming(2)
  /\ phase = "payload" =>
       /\ Coming(3 + Len(payload)) /\ header = sent
       /\ \A i \in 1 .. Len(payload) : payload[i] = Payloads[sent][i]

Undisturbed == (faults = 0 /\ ~outOfTurn) => InPhase

LEMMA RestRead ==
  ASSUME TypeOK, ReadByte, pending = <<>>, NEW bytes \in Seq(Values),
         NEW n \in 0 .. Len(bytes), Rest(rx, bytes, n)
  PROVE  /\ n + 1 \in 1 .. Len(bytes) /\ Byte.value = bytes[n + 1]
         /\ Rest(rx', bytes, n + 1) /\ pending' = <<>> /\ rx' \in Seq(Bytes)
<1>1. Arrived = rx /\ Arrived' = rx' /\ rx' \in Seq(Bytes) /\ pending' = <<>>
  <2>1. rx \in Seq(Bytes) /\ rx' \in Seq(Bytes) /\ pending' = <<>>
    BY ReadArrived DEF TypeOK
  <2> QED
    BY <2>1, ConcatEmptySeq DEF Arrived
<1> DEFINE l == Len(rx)
           b == Len(bytes)
<1>2. /\ l \in Nat /\ Len(rx') = l - 1 /\ 1 \in 1 .. l /\ Byte = rx[1]
      /\ \A i \in 1 .. Len(rx') : rx'[i] = rx[i + 1]
  BY <1>1, ReadArrived
<1>3. b \in Nat /\ n \in 0 .. b /\ l = b - n /\ \A i \in 1 .. l : rx[i].value = bytes[n + i]
  BY LenProperties DEF Rest
<1> HIDE DEF l, b
<1>4. n + 1 \in 1 .. b /\ Byte.value = bytes[n + 1]
  BY <1>2, <1>3
<1>5. ASSUME NEW i \in 1 .. Len(rx')
      PROVE  rx'[i].value = bytes[n + 1 + i]
  <2>1. i + 1 \in 1 .. l /\ n + (i + 1) = n + 1 + i /\ rx'[i] = rx[i + 1]
    BY <1>2, <1>3
  <2>2. rx[i + 1].value = bytes[n + (i + 1)]
    BY <1>3, <2>1
  <2> QED
    BY <2>1, <2>2
<1>6. Len(rx') = b - (n + 1)
  BY <1>2, <1>3
<1> QED
  BY <1>1, <1>4, <1>5, <1>6 DEF Rest, b

LEMMA RestArrives ==
  ASSUME TypeOK, pending = <<>>, Arrived = <<>>, NEW bytes \in Seq(Values),
         NEW n \in 0 .. Len(bytes), Rest(rx, bytes, n)
  PROVE  n = Len(bytes)
<1>1. Len(rx) = 0
  BY ConcatEmptySeq DEF TypeOK, Arrived
<1> DEFINE b == Len(bytes)
<1>2. b \in Nat /\ 0 = b - n
  BY <1>1, LenProperties DEF Rest
<1> HIDE DEF b
<1>3. n = b
  BY <1>2
<1> QED
  BY <1>3 DEF b

LEMMA GivenAppend ==
  ASSUME NEW n \in 1 .. Len(Payloads)
  PROVE  Append(Given(n - 1), <<n, Payloads[n]>>) = Given(n)
<1>1. /\ Len(Payloads) \in Nat /\ n \in Nat /\ n >= 1 /\ n - 1 \in Nat
      /\ \A i \in 1 .. Len(Payloads) : Payloads[i] \in Seq(Values)
  BY PayloadAssumption, FrameFacts
<1> DEFINE S == Nat \X Seq(Values)
           a == Given(n - 1)
           x == <<n, Payloads[n]>>
<1>2. \A i \in 1 .. n : <<i, Payloads[i]>> \in S
  BY <1>1
<1>3. a \in Seq(S) /\ Len(a) = n - 1 /\ \A i \in 1 .. n - 1 : a[i] = <<i, Payloads[i]>>
  BY <1>1, <1>2 DEF Given
<1>4. /\ Given(n) \in Seq(S) /\ Len(Given(n)) = n
      /\ \A i \in 1 .. n : Given(n)[i] = <<i, Payloads[i]>>
  BY <1>1, <1>2 DEF Given
<1>5. x \in S
  BY <1>1, <1>2
<1> HIDE DEF S, a
<1>6. /\ Append(a, x) \in Seq(S) /\ Len(Append(a, x)) = n
      /\ \A i \in 1 .. n - 1 : Append(a, x)[i] = a[i]
      /\ Append(a, x)[n] = x
  <2>1. Len(a) + 1 = n
    BY <1>1, <1>3
  <2> HIDE DEF x
  <2> QED
    BY <1>3, <1>5, <2>1, AppendProperties
<1>7. ASSUME NEW i \in 1 .. n
      PROVE  Append(a, x)[i] = Given(n)[i]
  <2>1. CASE i = n
    BY <1>1, <1>4, <1>6, <2>1
  <2>2. CASE i # n
    <3>1. i \in 1 .. n - 1
      BY <1>1, <2>2
    <3> QED
      BY <1>3, <1>4, <1>6, <3>1
  <2> QED
    BY <2>1, <2>2
<1> QED
  BY <1>4, <1>6, <1>7, SeqEqual DEF a

\* read_frame returns the frame it has read all of.
LEMMA AcceptGiven ==
  ASSUME NEW n \in 1 .. Len(Payloads), got = Given(n - 1), Accept(n, Payloads[n])
  PROVE  got' = Given(n)
<1>1. n # Damaged /\ n # 0
  BY PayloadAssumption DEF Damaged
<1>2. CrcMatches(n, Payloads[n])
  BY <1>1 DEF CrcMatches, Frame
<1> QED
  BY <1>2, GivenAppend DEF Accept

LEMMA SentFacts ==
  ASSUME TypeOK, sent > 0
  PROVE  /\ sent \in 1 .. Len(Payloads) /\ sent \in Headers /\ sent # Damaged
         /\ sent \in Values /\ sent # Cancel /\ W # Cancel /\ F # Cancel
<1>1. Len(Payloads) \in Nat /\ sent \in 0 .. Len(Payloads)
  BY PayloadAssumption DEF TypeOK
<1> QED
  BY <1>1 DEF Headers, Damaged, Values, W, F, Cancel, R

LEMMA IntactWrite ==
  ASSUME PortInv, Placed, InPhase, faults = 0, ~outOfTurn, Write
  PROVE  InPhase'
<1>1. /\ phase = "write" /\ writes' = writes + 1 /\ turn' = TRUE /\ matched' = 0
      /\ rx' = IF reflects THEN rx \o From(TRUE, Message(writes)) ELSE rx
      /\ phase' = IF mode = "off" THEN "magic" ELSE "consume"
      /\ UNCHANGED <<reflects, pending, sent, got>>
  BY DEF Write, history
<1>2. rx = <<>> /\ got = Given(sent) /\ pending = <<>> /\ writes \in Nat
  BY <1>1 DEF InPhase, Quiet, PortInv
<1>3. got' = Given(sent)' /\ pending' = <<>> /\ turn'
  BY <1>1, <1>2 DEF Given
<1>4. CASE mode = "off"
  <2>1. ~reflects
    BY <1>4 DEF PortInv, Recognised
  <2> QED
    BY <1>1, <1>2, <1>3, <1>4, <2>1 DEF InPhase, Quiet
<1>5. CASE mode # "off"
  <2>1. reflects => Rest(rx', Message(writes' - 1), 0)
    <3> SUFFICES ASSUME reflects
                 PROVE  Rest(rx', Message(writes), 0)
      <4>1. writes' - 1 = writes
        BY <1>1, <1>2
      <4> QED
        BY <4>1
    <3> DEFINE m == Message(writes)
    <3>1. /\ From(TRUE, m) \in Seq(Bytes) /\ Len(From(TRUE, m)) = Len(m) /\ Len(m) \in Nat
          /\ \A i \in 1 .. Len(m) : From(TRUE, m)[i].value = m[i]
      BY <1>2, MessageFacts, FromFacts
    <3>2. rx' = From(TRUE, m)
      BY <1>1, <1>2, <3>1, ConcatEmptySeq
    <3> HIDE DEF m
    <3>3. Len(m) - 0 = Len(m) /\ \A i \in 1 .. Len(m) : 0 + i = i
      BY <3>1
    <3>4. Rest(rx', m, 0)
      BY <3>1, <3>2, <3>3 DEF Rest
    <3> QED
      BY <3>4 DEF m
  <2>2. Message(writes - 1)' = Message(writes' - 1)
    BY DEF Message, Frame, Magic
  <2>3. phase' = "consume" /\ ~reflects => rx' = <<>>
    BY <1>1, <1>2
  <2>4. phase' = "consume" /\ matched' = 0 /\ reflects' = reflects
    BY <1>1, <1>5
  <2> QED
    BY <1>2, <1>3, <2>1, <2>2, <2>3, <2>4 DEF InPhase, Rest
<1> QED
  BY <1>4, <1>5

\* What is reflected is swallowed, and nothing else is there.
LEMMA IntactConsume ==
  ASSUME PortInv, Placed, InPhase, Consume
  PROVE  InPhase'
<1>1. /\ phase = "consume" /\ ReadByte
      /\ \/ phase' = "magic" /\ matched' = 0 /\ matched + 1 = Len(Message(writes - 1))
         \/ matched' = matched + 1 /\ phase' = phase
      /\ UNCHANGED <<reflects, writes, sent, turn, got>>
  BY DEF Consume, CountAny
<1>2. /\ TypeOK /\ pending = <<>> /\ turn /\ got = Given(sent) /\ writes - 1 \in Nat
      /\ reflects => Rest(rx, Message(writes - 1), matched)
      /\ ~reflects => rx = <<>>
      /\ matched \in Nat /\ matched < Len(Message(writes - 1))
  BY <1>1 DEF InPhase, Placed, TypeOK
<1>3. reflects
  BY <1>1, <1>2, ConcatEmptySeq DEF ReadByte, Arrived
<1> DEFINE m == Message(writes - 1)
<1>4. m \in Seq(Values) /\ matched \in 0 .. Len(m)
  <2>1. m \in Seq({R, W, F, 0}) /\ {R, W, F, 0} \subseteq Values
    BY <1>2, MessageFacts DEF Values
  <2>2. m \in Seq(Values) /\ Len(m) \in Nat
    BY <2>1, SeqMonotonic, LenProperties
  <2> QED
    BY <1>2, <2>2
<1>5. Rest(rx', m, matched + 1) /\ pending' = <<>> /\ rx' \in Seq(Bytes)
  <2>1. Rest(rx, m, matched)
    BY <1>2, <1>3
  <2> HIDE DEF m
  <2> QED
    BY <1>1, <1>2, <1>4, <2>1, RestRead
<1>6. m' = m /\ got' = Given(sent)' /\ turn'
  BY <1>1, <1>2 DEF Message, Frame, Magic, Given
<1>7. CASE phase' = "magic" /\ matched' = 0 /\ matched + 1 = Len(m)
  <2>1. Len(rx') = 0
    BY <1>5, <1>7, <1>4, LenProperties DEF Rest
  <2>2. rx' = <<>>
    BY <1>5, <2>1, EmptySeq
  <2> QED
    BY <1>5, <1>6, <1>7, <2>2 DEF InPhase, Quiet
<1>8. CASE matched' = matched + 1 /\ phase' = phase
  BY <1>1, <1>3, <1>5, <1>6, <1>8 DEF InPhase, Rest
<1> QED
  BY <1>1, <1>7, <1>8

LEMMA IntactConsumeOther ==
  ASSUME PortInv, Placed, InPhase, faults = 0, ConsumeOther
  PROVE  FALSE
<1>1. /\ phase = "consume" /\ Arrived # <<>> /\ Differs /\ TypeOK /\ matched \in Nat
      /\ matched < Len(Message(writes - 1)) /\ writes - 1 \in Nat
  BY DEF ConsumeOther, OutOfPlace, Placed, TypeOK
<1>2. /\ pending = <<>> /\ (reflects => Rest(rx, Message(writes - 1), matched))
      /\ (~reflects => rx = <<>>)
  BY <1>1 DEF InPhase
<1>3. Arrived = rx /\ rx \in Seq(Bytes)
  BY <1>1, <1>2, ConcatEmptySeq DEF Arrived, TypeOK
<1>4. Rest(rx, Message(writes - 1), matched) /\ Len(rx) \in Nat \ {0} /\ Byte = rx[1]
  BY <1>1, <1>2, <1>3, TailFacts, EmptySeq DEF Byte
<1>5. Byte.value = Message(writes - 1)[matched + 1]
  BY <1>4 DEF Rest
<1> QED
  BY <1>1, <1>5 DEF Differs

LEMMA IntactConsumeTimesOut ==
  ASSUME PortInv, Placed, InPhase, ConsumeTimesOut
  PROVE  InPhase'
<1>1. /\ phase = "consume" /\ Arrived = <<>> /\ phase' = "magic" /\ matched' = 0
      /\ UNCHANGED <<reflects, pending, rx, sent, turn, got>>
  BY DEF ConsumeTimesOut, Allowance, history
<1>2. rx = <<>> /\ pending = <<>>
  BY <1>1, ConcatEqualIffEmpty DEF Placed, TypeOK, Arrived
<1> QED
  BY <1>1, <1>2 DEF InPhase, Quiet, Given

\* In the phases of read_frame, if a byte comes it is the next of the frame.
LEMMA NextOfFrame ==
  ASSUME TypeOK, ReadByte, pending = <<>>, NEW n \in Nat, Coming(n),
         n < Len(Frame(sent)), UNCHANGED <<sent, turn>>
  PROVE  /\ sent \in 1 .. Len(Payloads) /\ Byte.value = Frame(sent)[n + 1]
         /\ ~turn' /\ sent' > 0 /\ Rest(rx', Frame(sent'), n + 1)
         /\ pending' = <<>> /\ rx' \in Seq(Bytes)
<1>1. sent > 0 /\ sent \in 1 .. Len(Payloads) /\ Rest(rx, Frame(sent), n) /\ ~turn
  BY SentFacts DEF Coming
<1>2. Frame(sent) \in Seq(Values) /\ Len(Frame(sent)) \in Nat
  BY <1>1, FrameFacts, LenProperties
<1>3. n \in 0 .. Len(Frame(sent))
  BY <1>2
<1>4. /\ Byte.value = Frame(sent)[n + 1] /\ Rest(rx', Frame(sent), n + 1)
      /\ pending' = <<>> /\ rx' \in Seq(Bytes)
  BY <1>1, <1>2, <1>3, RestRead
<1> QED
  BY <1>1, <1>4

LEMMA NothingInTurn ==
  ASSUME TypeOK, pending = <<>>, Quiet
  PROVE  ~ReadByte
<1>1. Arrived = <<>>
  BY ConcatEmptySeq DEF Quiet, Arrived, TypeOK
<1> QED
  BY <1>1 DEF ReadByte

LEMMA IntactCancelled ==
  ASSUME PortInv, Placed, InPhase, ReadCancelled
  PROVE  FALSE
<1>1. phase = "magic" /\ ReadByte /\ Byte.value = Cancel /\ TypeOK /\ matched \in Nat
      /\ matched < 2 /\ pending = <<>>
  BY DEF ReadCancelled, Cancels, Placed, TypeOK, InPhase
<1>2. ~turn /\ Coming(matched)
  <2>1. ~Quiet
    BY <1>1, NothingInTurn
  <2>2. Coming(matched)
    BY <1>1, <2>1 DEF InPhase
  <2> QED
    BY <2>2 DEF Coming
<1>3. sent \in 1 .. Len(Payloads) /\ W # Cancel /\ F # Cancel
  BY <1>1, <1>2, SentFacts DEF Coming
<1>4. /\ Frame(sent) \in Seq(Values) /\ Len(Frame(sent)) \in Nat /\ Len(Frame(sent)) >= 3
      /\ Frame(sent)[1] = W /\ Frame(sent)[2] = F /\ Rest(rx, Frame(sent), matched)
  BY <1>2, <1>3, FrameFacts DEF Coming
<1>5. matched \in 0 .. Len(Frame(sent))
  BY <1>1, <1>4
<1>6. Byte.value = Frame(sent)[matched + 1]
  BY <1>1, <1>4, <1>5, RestRead
<1>7. matched + 1 = 1 \/ matched + 1 = 2
  BY <1>1
<1> QED
  BY <1>1, <1>3, <1>4, <1>6, <1>7

LEMMA IntactMagic ==
  ASSUME PortInv, Placed, InPhase, ReadMagic
  PROVE  InPhase'
<1>1. /\ phase = "magic" /\ ReadByte /\ TypeOK /\ matched \in {0, 1} /\ pending = <<>>
      /\ payload = <<>>
      /\ UNCHANGED <<reflects, payload, writes, sent, turn, got>>
  BY DEF ReadMagic, Placed, TypeOK, InPhase
<1>2. ~turn /\ Coming(matched)
  <2>1. ~Quiet
    BY <1>1, NothingInTurn
  <2>2. Coming(matched)
    BY <1>1, <2>1 DEF InPhase
  <2> QED
    BY <2>2 DEF Coming
<1>3. sent \in 1 .. Len(Payloads)
  BY <1>1, <1>2, SentFacts DEF Coming
<1>4. /\ Len(Frame(sent)) = 3 + Len(Payloads[sent]) /\ Len(Payloads[sent]) \in Nat
      /\ Frame(sent)[1] = W /\ Frame(sent)[2] = F
  BY <1>3, FrameFacts
<1>5. matched \in Nat /\ matched < Len(Frame(sent))
  BY <1>1, <1>4
<1>6. /\ Byte.value = Frame(sent)[matched + 1]
      /\ ~turn' /\ sent' > 0 /\ Rest(rx', Frame(sent'), matched + 1)
      /\ pending' = <<>>
  BY <1>1, <1>2, <1>5, NextOfFrame
<1>7. Byte.value = Magic[matched + 1] /\ Len(Magic) = 2
  BY <1>1, <1>4, <1>6 DEF Magic
<1>8. \/ matched = 1 /\ phase' = "header"
      \/ matched = 0 /\ matched' = 1 /\ phase' = "magic"
  <2>1. CASE matched + 1 = Len(Magic)
    <3>1. phase' = "header"
      BY <1>7, <2>1 DEF ReadMagic
    <3> QED
      BY <1>7, <2>1, <3>1, <1>5
  <2>2. CASE matched + 1 # Len(Magic)
    <3>1. matched' = matched + 1 /\ phase' = phase
      BY <1>7, <2>2 DEF ReadMagic
    <3> QED
      BY <1>1, <1>7, <2>2, <3>1
  <2> QED
    BY <2>1, <2>2
<1>9. got' = Given(sent - 1)' /\ Frame(sent)' = Frame(sent')
  BY <1>1, <1>2 DEF Coming, Given, Frame, Magic
<1> QED
  BY <1>1, <1>6, <1>8, <1>9 DEF InPhase, Coming, Rest

LEMMA IntactHeader ==
  ASSUME PortInv, Placed, InPhase, ReadHeader
  PROVE  InPhase'
<1> DEFINE h == IF Byte.value \in Headers THEN Byte.value ELSE Damaged
<1>1. /\ phase = "header" /\ ReadByte /\ TypeOK /\ pending = <<>> /\ payload = <<>>
      /\ Coming(2) /\ UNCHANGED <<reflects, writes, sent, turn>>
  BY DEF ReadHeader, Placed, InPhase
<1>2. PICK n \in Lengths(h) :
        CASE TooLong(n) -> Return /\ UNCHANGED got
          [] n = 0 -> Accept(h, <<>>)
          [] OTHER -> /\ phase' = "payload" /\ matched' = n /\ header' = h
                      /\ UNCHANGED <<payload, got>>
  BY DEF ReadHeader
<1>3. /\ sent \in 1 .. Len(Payloads) /\ sent \in Headers /\ sent # Damaged
      /\ sent # 0 /\ got = Given(sent - 1)
  BY <1>1, SentFacts DEF Coming
<1>4. /\ Len(Frame(sent)) = 3 + Len(Payloads[sent]) /\ Len(Payloads[sent]) \in 0 .. IoChunk
      /\ Frame(sent)[3] = sent /\ Payloads[sent] \in Seq(Values)
  BY <1>3, FrameFacts
<1>5. 2 \in Nat /\ 2 < Len(Frame(sent)) /\ 2 + 1 = 3
  BY <1>4
<1>6. /\ Byte.value = Frame(sent)[2 + 1]
      /\ ~turn' /\ sent' > 0 /\ Rest(rx', Frame(sent'), 2 + 1)
      /\ pending' = <<>> /\ rx' \in Seq(Bytes)
  BY <1>1, <1>5, NextOfFrame
<1>7. h = sent
  BY <1>3, <1>4, <1>5, <1>6
<1> HIDE DEF h
<1>8. n = Len(Payloads[sent]) /\ ~TooLong(n) /\ n \in Nat
  <2>1. n = Len(Payloads[sent])
    BY <1>3, <1>7, LengthFacts
  <2> QED
    BY <1>4, <2>1, PortAssumption DEF TooLong
<1>9. CASE n = 0
  <2>1. Payloads[sent] = <<>>
    BY <1>4, <1>8, <1>9, EmptySeq
  <2>2. Accept(sent, Payloads[sent])
    BY <1>2, <1>7, <1>8, <1>9, <2>1
  <2>3. got' = Given(sent) /\ phase' \in {"write", "magic"} /\ matched' = 0
    BY <1>3, <2>2, AcceptGiven DEF Accept, Return
  <2>4. rx' = <<>>
    <3>1. Len(rx') = 0
      BY <1>1, <1>4, <1>6, <1>8, <1>9 DEF Rest
    <3> QED
      BY <1>6, <3>1, EmptySeq
  <2> QED
    BY <1>1, <1>6, <2>3, <2>4 DEF InPhase, Quiet, Given
<1>10. CASE n # 0
  <2>1. phase' = "payload" /\ header' = sent /\ payload' = payload /\ got' = got
    BY <1>2, <1>7, <1>8, <1>10
  <2>2. Len(payload)' = 0 /\ (3 + Len(payload))' = 3
    BY <1>1, <2>1
  <2>3. got' = Given(sent - 1)' /\ Frame(sent)' = Frame(sent')
    BY <1>1, <1>3, <2>1 DEF Given, Frame, Magic
  <2>4. Coming(3 + Len(payload))'
    BY <1>1, <1>5, <1>6, <2>2, <2>3 DEF Coming, Rest
  <2>5. \A i \in 1 .. Len(payload)' : FALSE
    BY <2>2
  <2> QED
    BY <1>1, <1>6, <2>1, <2>4, <2>5 DEF InPhase
<1> QED
  BY <1>9, <1>10

LEMMA IntactPayload ==
  ASSUME PortInv, Placed, InPhase, ReadPayload
  PROVE  InPhase'
<1> DEFINE bytes == Append(payload, Byte.value)
           k == Len(payload)
           p == Payloads[sent]
<1>1. /\ phase = "payload" /\ ReadByte /\ TypeOK /\ pending = <<>>
      /\ Coming(3 + k) /\ header = sent
      /\ \A i \in 1 .. k : payload[i] = p[i]
      /\ payload \in Seq(Values) /\ k < matched
      /\ header # Damaged => matched = Len(Payloads[header])
      /\ \/ Len(bytes) = matched /\ Accept(header, bytes)
         \/ /\ Len(bytes) # matched /\ payload' = bytes
            /\ UNCHANGED <<phase, matched, header, got>>
      /\ UNCHANGED <<reflects, writes, sent, turn>>
  BY DEF ReadPayload, Placed, InPhase
<1>2. /\ sent \in 1 .. Len(Payloads) /\ sent # Damaged /\ got = Given(sent - 1)
  BY <1>1, SentFacts DEF Coming
<1>3. /\ Len(Frame(sent)) = 3 + Len(p) /\ Len(p) \in Nat /\ p \in Seq(Values)
      /\ \A i \in 1 .. Len(p) : Frame(sent)[3 + i] = p[i]
  BY <1>2, FrameFacts
<1>4. k \in Nat /\ k < Len(p) /\ matched = Len(p)
  BY <1>1, <1>2, LenProperties
<1> HIDE DEF p
<1>5. /\ Byte.value = Frame(sent)[3 + k + 1]
      /\ ~turn' /\ sent' > 0 /\ Rest(rx', Frame(sent'), 3 + k + 1)
      /\ pending' = <<>> /\ rx' \in Seq(Bytes)
  <2>1. 3 + k \in Nat /\ 3 + k < Len(Frame(sent))
    BY <1>3, <1>4
  <2> QED
    BY <1>1, <2>1, NextOfFrame
<1>6. Byte.value = p[k + 1]
  <2>1. k + 1 \in 1 .. Len(p) /\ 3 + k + 1 = 3 + (k + 1)
    BY <1>3, <1>4
  <2> QED
    BY <1>3, <1>5, <2>1
<1>7. /\ bytes \in Seq(Values) /\ Len(bytes) = k + 1
      /\ \A i \in 1 .. k + 1 : bytes[i] = p[i]
  <2>1. Byte.value \in Values
    BY <1>1, ReadArrived DEF Bytes, Values
  <2>2. /\ bytes \in Seq(Values) /\ Len(bytes) = k + 1
        /\ \A i \in 1 .. k : bytes[i] = payload[i]
        /\ bytes[k + 1] = Byte.value
    BY <1>1, <2>1, AppendProperties
  <2>3. \A i \in 1 .. k + 1 : i \in 1 .. k \/ i = k + 1
    BY <1>4
  <2> HIDE DEF bytes, k
  <2> QED
    BY <1>1, <1>6, <2>2, <2>3
<1> HIDE DEF bytes, k
<1>8. CASE Len(bytes) = matched
  <2>1. bytes = p
    BY <1>3, <1>4, <1>7, <1>8, SeqEqual
  <2>2. Accept(sent, Payloads[sent])
    BY <1>1, <1>8, <2>1 DEF p
  <2>3. got' = Given(sent) /\ phase' \in {"write", "magic"} /\ matched' = 0
    BY <1>2, <2>2, AcceptGiven DEF Accept, Return
  <2>4. rx' = <<>>
    <3>1. Len(rx') = Len(Frame(sent)) - (3 + k + 1)
      BY <1>1, <1>5 DEF Rest
    <3>2. Len(rx') = 0
      BY <1>3, <1>4, <1>7, <1>8, <3>1
    <3> QED
      BY <1>5, <3>2, EmptySeq
  <2> QED
    BY <1>1, <1>5, <2>3, <2>4 DEF InPhase, Quiet, Given
<1>9. CASE Len(bytes) # matched
  <2>1. /\ payload' = bytes /\ phase' = "payload" /\ header' = sent /\ got' = got
        /\ sent' = sent
    BY <1>1, <1>9
  <2>2. Len(payload)' = k + 1 /\ (3 + Len(payload))' = 3 + k + 1
    BY <1>4, <1>7, <2>1
  <2>3. got' = Given(sent - 1)' /\ Frame(sent)' = Frame(sent')
    BY <1>1, <1>2, <2>1 DEF Given, Frame, Magic
  <2>4. Coming(3 + Len(payload))'
    BY <1>5, <2>2, <2>3 DEF Coming, Rest
  <2>5. \A i \in 1 .. Len(payload)' : payload'[i] = Payloads[sent'][i]
    BY <1>7, <2>1, <2>2 DEF p
  <2> QED
    BY <1>5, <2>1, <2>4, <2>5 DEF InPhase
<1> QED
  BY <1>8, <1>9

LEMMA IntactTimesOut ==
  ASSUME PortInv, Placed, InPhase, ReadTimesOut
  PROVE  InPhase'
<1>1. /\ phase \in {"magic", "header", "payload"} /\ Arrived = <<>>
      /\ phase' \in {"write", "magic"} /\ matched' = 0 /\ TypeOK /\ pending = <<>> /\ UNCHANGED <<pending, rx, sent, got>>
  BY DEF ReadTimesOut, Return, Placed, InPhase
<1>2. ASSUME NEW n \in Nat, Coming(n), n < Len(Frame(sent))
      PROVE  FALSE
  <2>1. sent \in 1 .. Len(Payloads) /\ Rest(rx, Frame(sent), n)
    BY <1>1, <1>2, SentFacts DEF Coming
  <2>2. Frame(sent) \in Seq(Values) /\ Len(Frame(sent)) \in Nat
    BY <2>1, FrameFacts, LenProperties
  <2>3. n \in 0 .. Len(Frame(sent))
    BY <1>2, <2>2
  <2>4. n = Len(Frame(sent))
    BY <1>1, <2>1, <2>2, <2>3, RestArrives
  <2> QED
    BY <1>2, <2>4
<1>3. sent > 0 =>
        Len(Frame(sent)) = 3 + Len(Payloads[sent]) /\ Len(Payloads[sent]) \in Nat
  BY <1>1, SentFacts, FrameFacts
<1>4. CASE phase = "magic"
  <2>1. CASE Quiet /\ matched = 0
    BY <1>1, <1>4, <2>1 DEF InPhase, Quiet, Given
  <2>2. CASE Coming(matched)
    <3>1. Coming(matched) /\ matched \in Nat /\ matched < 2
      BY <1>1, <1>4, <2>2 DEF InPhase, Placed, TypeOK
    <3>2. matched < Len(Frame(sent))
      BY <1>3, <3>1 DEF Coming
    <3> QED
      BY <1>2, <3>1, <3>2
  <2> QED
    BY <1>4, <2>1, <2>2 DEF InPhase
<1>5. CASE phase = "header"
  <2>1. Coming(2)
    BY <1>5 DEF InPhase
  <2>2. 2 \in Nat /\ 2 < Len(Frame(sent))
    BY <1>3, <2>1 DEF Coming
  <2> QED
    BY <1>2, <2>1, <2>2
<1>6. CASE phase = "payload"
  <2> DEFINE k == Len(payload)
  <2>1. /\ Coming(3 + k) /\ header = sent /\ payload \in Seq(Values) /\ k < matched
        /\ header # Damaged => matched = Len(Payloads[header])
    BY <1>6 DEF InPhase, Placed
  <2>2. k \in Nat /\ sent > 0 /\ sent # Damaged
    BY <1>1, <2>1, SentFacts, LenProperties DEF Coming
  <2>3. k < Len(Payloads[sent])
    BY <2>1, <2>2
  <2> HIDE DEF k
  <2>4. 3 + k \in Nat /\ 3 + k < Len(Frame(sent))
    BY <1>3, <2>2, <2>3
  <2> QED
    BY <1>2, <2>1, <2>4
<1> QED
  BY <1>1, <1>4, <1>5, <1>6

LEMMA IntactPeerSends ==
  ASSUME PortInv, Placed, InPhase, PeerSends, turn, phase = "magic"
  PROVE  InPhase'
<1>1. /\ sent < Len(Payloads) /\ sent' = sent + 1 /\ turn' = FALSE
      /\ rx' = rx \o From(FALSE, Frame(sent'))
      /\ UNCHANGED <<reflects, pending, phase, matched, got>>
  BY DEF PeerSends, reading
<1>2. /\ rx = <<>> /\ got = Given(sent) /\ matched = 0 /\ pending = <<>>
  BY DEF InPhase, Quiet, Coming
<1>3. sent' \in 1 .. Len(Payloads) /\ sent' - 1 = sent /\ sent' > 0
  BY <1>1, PayloadAssumption DEF PortInv
<1> DEFINE f == Frame(sent')
<1>4. f \in Seq(Values) /\ Values \subseteq R .. Len(Payloads)
  BY <1>3, FrameFacts DEF Values
<1> HIDE DEF f
<1>5. /\ From(FALSE, f) \in Seq(Bytes) /\ Len(From(FALSE, f)) = Len(f) /\ Len(f) \in Nat
      /\ \A i \in 1 .. Len(f) : From(FALSE, f)[i].value = f[i]
  BY <1>4, FromFacts
<1>6. rx' = From(FALSE, f)
  BY <1>1, <1>2, <1>5, ConcatEmptySeq DEF f
<1>7. Rest(rx', f, 0)
  <2>1. Len(f) - 0 = Len(f) /\ \A i \in 1 .. Len(f) : 0 + i = i
    BY <1>5
  <2> QED
    BY <1>5, <1>6, <2>1 DEF Rest
<1>8. Frame(sent)' = f /\ got' = Given(sent - 1)' /\ matched' = 0 /\ ~turn'
  BY <1>1, <1>2, <1>3 DEF f, Frame, Magic, Given
<1>9. Coming(matched)'
  BY <1>3, <1>7, <1>8 DEF Coming, Rest
<1> QED
  BY <1>1, <1>2, <1>8, <1>9 DEF InPhase

LEMMA UndisturbedStep ==
  ASSUME PortInv, Placed, Undisturbed, [Next]_vars
  PROVE  Undisturbed'
<1> SUFFICES ASSUME faults' = 0, ~outOfTurn'
             PROVE  InPhase'
  BY DEF Undisturbed
<1>1. CASE Done \/ UNCHANGED vars
  <2>1. UNCHANGED vars
    BY <1>1 DEF Done
  <2>2. faults = 0 /\ ~outOfTurn
    BY <2>1 DEF vars, history
  <2>3. InPhase
    BY <2>2 DEF Undisturbed
  <2> QED
    BY <2>1, <2>3 DEF vars, reading, history, InPhase, Quiet, Coming, Rest, Given, Message,
       Frame, Magic
<1>2. CASE Agent
  <2>1. UNCHANGED <<faults, outOfTurn>>
    BY <1>2 DEF Agent, Write, ConsumeOther, Consume, ConsumeTimesOut, ReadCancelled,
       ReadMagic, ReadHeader, ReadPayload, ReadTimesOut, history
  <2>2. InPhase /\ faults = 0 /\ ~outOfTurn
    BY <2>1 DEF Undisturbed
  <2> QED
    BY <1>2, <2>2, IntactWrite, IntactConsume, IntactConsumeOther, IntactConsumeTimesOut,
       IntactCancelled, IntactMagic, IntactHeader, IntactPayload, IntactTimesOut DEF Agent
<1>3. CASE PeerSends
  <2>1. faults = 0 /\ ~outOfTurn /\ turn /\ phase = "magic"
    BY <1>3 DEF PeerSends
  <2>2. InPhase
    BY <2>1 DEF Undisturbed
  <2> QED
    BY <1>3, <2>1, <2>2, IntactPeerSends
<1>4. CASE Fault \/ ReadFails
  <2>1. faults' = faults + 1 /\ faults \in Nat
    BY <1>4 DEF Fault, ReadFails, PortInv
  <2> QED
    BY <2>1
<1> QED
  BY <1>1, <1>2, <1>3, <1>4 DEF Next

LEMMA UndisturbedInit ==
  ASSUME Init
  PROVE  Undisturbed
<1>1. rx = <<>> /\ pending = <<>> /\ phase = "write" /\ got = <<>> /\ sent = 0
  BY DEF Init
<1>2. Given(0) = <<>>
  <2>1. Given(0) \in Seq({}) /\ Len(Given(0)) = 0
    BY DEF Given
  <2> QED
    BY <2>1, EmptySeq
<1> QED
  BY <1>1, <1>2 DEF Undisturbed, InPhase, Quiet

LEMMA UndisturbedGot ==
  ASSUME Placed, Undisturbed, faults = 0, ~outOfTurn
  PROVE  /\ \A i \in 1 .. Len(got) : got[i][1] # 0
         /\ phase = "write" => got = Given(sent)
<1>1. InPhase /\ sent \in Nat /\ phase \in {"write", "consume", "magic", "header", "payload"}
  BY PayloadAssumption DEF Undisturbed, Placed, TypeOK
<1>2. got = Given(sent) \/ (sent > 0 /\ got = Given(sent - 1))
  BY <1>1 DEF InPhase, Quiet, Coming
<1>3. \A n \in Nat : \A i \in 1 .. Len(Given(n)) : Given(n)[i][1] # 0
  <2> SUFFICES ASSUME NEW n \in Nat
               PROVE  \A i \in 1 .. Len(Given(n)) : Given(n)[i][1] # 0
    OBVIOUS
  <2>1. Len(Given(n)) = n
    BY DEF Given
  <2>2. \A i \in 1 .. n : Given(n)[i] = <<i, Payloads[i]>> /\ i # 0
    BY DEF Given
  <2> QED
    BY <2>1, <2>2
<1>4. \A i \in 1 .. Len(got) : got[i][1] # 0
  BY <1>1, <1>2, <1>3
<1>5. phase = "write" => got = Given(sent)
  BY <1>1 DEF InPhase, Quiet
<1> QED
  BY <1>4, <1>5

-----------------------------------------------------------------------------
(* The bytes of its own that the agent still has to swallow                 *)

OwnAt(q) == {i \in 1 .. Len(q) : q[i].own}

OwnIn(q) == Cardinality(OwnAt(q))

LEMMA OwnFinite ==
  ASSUME NEW q \in Seq(Bytes)
  PROVE  IsFiniteSet(OwnAt(q)) /\ OwnIn(q) \in Nat
<1>1. Len(q) \in Nat
  BY LenProperties
<1>2. IsFiniteSet(1 .. Len(q)) /\ OwnAt(q) \in SUBSET (1 .. Len(q))
  BY <1>1, FS_Interval DEF OwnAt
<1> QED
  BY <1>2, FS_Subset, FS_CardinalityType DEF OwnIn

LEMMA OwnLost ==
  ASSUME NEW q \in Seq(Bytes), NEW t \in Seq(Bytes), NEW i \in 1 .. Len(q),
         Len(t) = Len(q) - 1, \A j \in 1 .. Len(t) : t[j] = q[Kept(i, j)]
  PROVE  OwnIn(t) = IF q[i].own THEN OwnIn(q) - 1 ELSE OwnIn(q)
<1> DEFINE n == Len(q)
           m == Len(t)
           A == OwnAt(q) \ {i}
           B == OwnAt(t)
           f == [j \in B |-> Kept(i, j)]
<1>1. n \in Nat /\ m = n - 1 /\ i \in 1 .. n
  BY LenProperties
<1>2. /\ A = {k \in 1 .. n : q[k].own /\ k # i}
      /\ B = {j \in 1 .. m : t[j].own}
      /\ \A j \in 1 .. m : t[j] = q[Kept(i, j)]
  BY DEF OwnAt
<1>3. IsFiniteSet(OwnAt(q)) /\ IsFiniteSet(B)
  BY OwnFinite
<1>4. Cardinality(A) = IF q[i].own THEN OwnIn(q) - 1 ELSE OwnIn(q)
  <2>1. i \in OwnAt(q) <=> q[i].own
    BY <1>1 DEF OwnAt
  <2> QED
    BY <1>3, <2>1, FS_RemoveElement DEF OwnIn
<1> HIDE DEF n, m, A, B
<1>5. \A j \in B : f[j] \in A
  <2> SUFFICES ASSUME NEW j \in B
               PROVE  Kept(i, j) \in A
    OBVIOUS
  <2>1. j \in 1 .. m /\ t[j].own
    BY <1>2
  <2>2. Kept(i, j) \in 1 .. n /\ Kept(i, j) # i
    BY <1>1, <2>1 DEF Kept
  <2> QED
    BY <1>2, <2>1, <2>2
<1>6. \A a, b \in B : f[a] = f[b] => a = b
  <2>1. \A a, b \in 1 .. m : Kept(i, a) = Kept(i, b) => a = b
    BY <1>1 DEF Kept
  <2> QED
    BY <1>2, <2>1
<1>7. \A k \in A : \E j \in B : f[j] = k
  <2> SUFFICES ASSUME NEW k \in A
               PROVE  \E j \in B : Kept(i, j) = k
    OBVIOUS
  <2>1. k \in 1 .. n /\ q[k].own /\ k # i
    BY <1>2
  <2>2. CASE k < i
    <3>1. k \in 1 .. m /\ Kept(i, k) = k
      BY <1>1, <2>1, <2>2 DEF Kept
    <3> QED
      BY <1>2, <2>1, <3>1
  <2>3. CASE ~(k < i)
    <3>1. k - 1 \in 1 .. m /\ Kept(i, k - 1) = k
      BY <1>1, <2>1, <2>3 DEF Kept
    <3> QED
      BY <1>2, <2>1, <3>1
  <2> QED
    BY <2>2, <2>3
<1>8. f \in Bijection(B, A)
  <2>1. f \in [B -> A]
    BY <1>5
  <2> HIDE DEF f
  <2> QED
    BY <1>6, <1>7, <2>1, Fun_IsBij
<1>9. Cardinality(A) = Cardinality(B)
  BY <1>3, <1>8, Fun_ExistsBij, FS_Bijection
<1> QED
  BY <1>4, <1>9 DEF OwnIn, B

LEMMA OwnSame ==
  ASSUME NEW q \in Seq(Bytes), NEW t \in Seq(Bytes), Len(t) = Len(q),
         \A j \in 1 .. Len(q) : t[j].own = q[j].own
  PROVE  OwnIn(t) = OwnIn(q)
<1>1. OwnAt(t) = OwnAt(q)
  BY DEF OwnAt
<1> QED
  BY <1>1 DEF OwnIn

LEMMA OwnAppended ==
  ASSUME NEW q \in Seq(Bytes), NEW r \in Seq(Bytes), NEW own \in BOOLEAN,
         \A j \in 1 .. Len(r) : r[j].own = own
  PROVE  OwnIn(q \o r) = IF own THEN OwnIn(q) + Len(r) ELSE OwnIn(q)
<1> DEFINE n == Len(q)
           m == Len(r)
           t == q \o r
           A == OwnAt(q)
           I == n + 1 .. n + m
<1>1. /\ n \in Nat /\ m \in Nat /\ Len(t) = n + m
      /\ \A i \in 1 .. n : t[i] = q[i]
      /\ \A i \in 1 .. m : t[n + i] = r[i]
  BY Halves
<1>2. A = {i \in 1 .. n : q[i].own} /\ OwnAt(t) = {i \in 1 .. Len(t) : t[i].own}
      /\ \A j \in 1 .. m : r[j].own = own
  BY DEF OwnAt
<1>3. IsFiniteSet(A) /\ Cardinality(A) = OwnIn(q) /\ Cardinality(OwnAt(t)) = OwnIn(t)
      /\ OwnIn(q) \in Nat
  BY OwnFinite DEF OwnIn
<1>4. IsFiniteSet(I) /\ Cardinality(I) = m
  <2>1. n + 1 \in Int /\ n + m \in Int
    BY <1>1
  <2>2. IsFiniteSet(I) /\ Cardinality(I) = IF n + 1 > n + m THEN 0 ELSE (n + m) - (n + 1) + 1
    BY <2>1, FS_Interval
  <2> HIDE DEF n, m
  <2>3. m = IF n + 1 > n + m THEN 0 ELSE (n + m) - (n + 1) + 1
    BY <1>1
  <2> QED
    BY <2>2, <2>3
<1> HIDE DEF n, m, t, A
<1>5. ASSUME NEW i \in 1 .. n + m
      PROVE  IF i \in 1 .. n THEN t[i] = q[i] ELSE i \in I /\ t[i].own = own
  <2>1. CASE i \in 1 .. n
    BY <1>1, <2>1
  <2>2. CASE i \notin 1 .. n
    <3> DEFINE k == i - n
    <3>1. k \in 1 .. m /\ i = n + k /\ i \in I
      BY <1>1, <2>2
    <3> HIDE DEF k
    <3>2. t[i] = r[k]
      BY <1>1, <3>1
    <3> QED
      BY <1>2, <2>2, <3>1, <3>2
  <2> QED
    BY <2>1, <2>2
<1>6. /\ \A i \in 1 .. n : i \in 1 .. n + m /\ i \notin I
      /\ \A i \in I : i \in 1 .. n + m /\ i \notin 1 .. n
  BY <1>1
<1>7. OwnAt(t) = IF own THEN A \cup I ELSE A
  BY <1>1, <1>2, <1>5, <1>6
<1>8. A \cap I = {}
  BY <1>2, <1>6
<1>9. own => Cardinality(A \cup I) = Cardinality(A) + m
  <2>1. Cardinality(A \cup I) = Cardinality(A) + Cardinality(I) - Cardinality(A \cap I)
    BY <1>3, <1>4, FS_Union
  <2>2. Cardinality(A \cap I) = 0
    BY <1>8, FS_EmptySet
  <2> QED
    BY <1>1, <1>3, <1>4, <2>1, <2>2
<1> QED
  BY <1>3, <1>7, <1>9 DEF t, m

\* On a carrier that reflects a reflection is not missing more bytes than are owed.
Owed ==
  /\ owing \in Int /\ owing + OwnIn(rx) >= 0
  /\ (reflects /\ phase = "consume") =>
       owing + OwnIn(rx) >= Len(Message(writes - 1)) - matched
  /\ ~reflects => owing >= 0

LEMMA OwnRead ==
  ASSUME TypeOK, ReadByte \/ (Arrived # <<>> /\ rx' = IF pending = <<>> THEN Tail(rx) ELSE rx)
  PROVE  /\ OwnIn(rx) \in Nat /\ OwnIn(rx') \in Nat
         /\ pending = <<>> =>
              OwnIn(rx') = IF Byte.own THEN OwnIn(rx) - 1 ELSE OwnIn(rx)
         /\ pending # <<>> => OwnIn(rx') = OwnIn(rx)
<1>1. /\ rx \in Seq(Bytes) /\ pending \in Seq(Bytes) /\ Arrived # <<>>
      /\ rx' = IF pending = <<>> THEN Tail(rx) ELSE rx
  BY DEF TypeOK, ReadByte
<1>2. CASE pending = <<>>
  <2>1. Arrived = rx
    BY <1>1, <1>2, ConcatEmptySeq DEF Arrived
  <2>2. /\ rx # <<>> /\ rx' = Tail(rx) /\ Byte = rx[1] /\ rx' \in Seq(Bytes)
        /\ 1 \in 1 .. Len(rx) /\ Len(rx') = Len(rx) - 1
        /\ \A j \in 1 .. Len(rx') : rx'[j] = rx[j + 1]
    BY <1>1, <1>2, <2>1, TailFacts DEF Byte
  <2>3. \A j \in 1 .. Len(rx') : Kept(1, j) = j + 1
    <3> DEFINE m == Len(rx')
    <3>1. m \in Nat
      BY <2>2, LenProperties
    <3> HIDE DEF m
    <3>2. \A j \in 1 .. m : Kept(1, j) = j + 1
      BY <3>1 DEF Kept
    <3> QED
      BY <3>2 DEF m
  <2> DEFINE q == rx
             t == rx'
  <2>4. /\ q \in Seq(Bytes) /\ t \in Seq(Bytes) /\ 1 \in 1 .. Len(q)
        /\ Len(t) = Len(q) - 1 /\ \A j \in 1 .. Len(t) : t[j] = q[Kept(1, j)]
    BY <1>1, <2>2, <2>3
  <2> HIDE DEF q, t
  <2>5. OwnIn(t) = IF q[1].own THEN OwnIn(q) - 1 ELSE OwnIn(q)
    BY <2>4, OwnLost
  <2>6. OwnIn(q) \in Nat /\ OwnIn(t) \in Nat
    BY <2>4, OwnFinite
  <2> QED
    BY <1>2, <2>2, <2>5, <2>6 DEF q, t
<1>3. CASE pending # <<>>
  BY <1>1, <1>3, OwnFinite
<1> QED
  BY <1>2, <1>3

LEMMA OwedWrite ==
  ASSUME PortInv, Placed, Owed, Write
  PROVE  Owed'
<1>1. /\ writes' = writes + 1 /\ matched' = 0 /\ writes \in Nat
      /\ rx' = IF reflects THEN rx \o From(TRUE, Message(writes)) ELSE rx
      /\ UNCHANGED <<reflects, owing>>
  BY DEF Write, history, PortInv
<1> DEFINE m == Message(writes)
           q == From(TRUE, m)
           k == OwnIn(rx)
<1>2. rx \in Seq(Bytes) /\ k \in Nat /\ owing \in Int /\ owing + k >= 0
  BY OwnFinite DEF Placed, TypeOK, Owed
<1>3. /\ q \in Seq(Bytes) /\ Len(q) = Len(m) /\ Len(m) \in Nat
      /\ \A i \in 1 .. Len(q) : q[i].own = TRUE
  <2>1. m \in Seq({R, W, F, 0}) /\ {R, W, F, 0} \subseteq R .. Len(Payloads)
    BY <1>1, MessageFacts
  <2>2. q \in Seq(Bytes) /\ Len(q) = Len(m) /\ Len(m) \in Nat
    BY <2>1, FromFacts
  <2>3. DOMAIN m = 1 .. Len(m)
    BY <2>1, LenProperties
  <2>4. q = [i \in DOMAIN m |-> [value |-> m[i], own |-> TRUE]]
    BY DEF From
  <2> HIDE DEF m, q
  <2> QED
    BY <2>2, <2>3, <2>4
<1>4. Message(writes - 1)' = Message(writes' - 1) /\ writes' - 1 = writes
  BY <1>1 DEF Message, Frame, Magic
<1>5. CASE reflects
  <2>1. rx' = rx \o q
    BY <1>1, <1>5
  <2> HIDE DEF q, m
  <2>2. OwnIn(rx \o q) = OwnIn(rx) + Len(q)
    BY <1>2, <1>3, OwnAppended
  <2>3. OwnIn(rx)' = k + Len(m)
    BY <1>3, <2>1, <2>2 DEF OwnIn, OwnAt
  <2> DEFINE l == Len(m)
             j == OwnIn(rx)'
  <2>4. l \in Nat /\ j = k + l
    BY <1>3, <2>3
  <2> HIDE DEF k, l, j
  <2>5. owing + j >= 0 /\ owing + j >= l - 0
    BY <1>2, <2>4
  <2>6. Len(Message(writes - 1))' - matched' = l - 0
    BY <1>1, <1>4 DEF l, m
  <2> QED
    BY <1>1, <1>2, <1>5, <2>5, <2>6 DEF Owed, j
<1>6. CASE ~reflects
  <2>1. OwnIn(rx)' = OwnIn(rx)
    BY <1>1, <1>6 DEF OwnIn, OwnAt
  <2> QED
    BY <1>1, <1>6, <2>1 DEF Owed
<1> QED
  BY <1>5, <1>6

LEMMA OwedConsumeOther ==
  ASSUME PortInv, Placed, Owed, ConsumeOther
  PROVE  Owed'
<1>1. /\ phase = "consume" /\ Arrived # <<>> /\ phase' = "magic" /\ mode = "unknown"
      /\ rx' = IF pending = <<>> THEN Tail(rx) ELSE rx
      /\ UNCHANGED <<reflects, owing>>
  BY DEF ConsumeOther, history
<1> DEFINE k == OwnIn(rx)
           j == OwnIn(rx')
           l == Len(Message(writes - 1))
<1>2. /\ k \in Nat /\ j \in Nat /\ (j = k \/ j = k - 1)
  BY <1>1, OwnRead DEF Placed
<1>3. /\ owing \in Int /\ owing + k >= 0 /\ (~reflects => owing >= 0)
      /\ reflects => owing + k >= l - matched
  BY <1>1 DEF Owed
<1>4. l \in {2, 3} /\ matched \in Nat /\ matched < l
  <2>1. writes > 0 /\ matched < l /\ writes \in Nat
    BY <1>1 DEF Placed, PortInv
  <2>2. writes - 1 \in Nat
    BY <2>1
  <2>3. matched \in Nat
    BY DEF Placed, TypeOK
  <2>4. l \in {2, 3}
    BY <2>2, MessageLength
  <2> QED
    BY <2>1, <2>3, <2>4
<1> HIDE DEF k, j, l
<1>5. owing + j >= 0
  BY <1>2, <1>3, <1>4
<1>6. OwnIn(rx)' = j
  BY DEF j, OwnIn, OwnAt
<1> QED
  BY <1>1, <1>3, <1>5, <1>6 DEF Owed

\* Only on a carrier that reflects anything is swallowed.
LEMMA OwedConsume ==
  ASSUME PortInv, Placed, Owed, Consume
  PROVE  Owed'
<1>1. /\ phase = "consume" /\ ReadByte
      /\ ~Differs \/ mode # "unknown"
      /\ \/ phase' = "magic" /\ matched + 1 = Len(Message(writes - 1))
         \/ matched' = matched + 1
      /\ owing' = IF Byte.own THEN owing ELSE owing - 1
      /\ UNCHANGED <<reflects, writes>>
  BY DEF Consume, CountAny
<1>2. pending = <<>> /\ mode # "off" /\ TypeOK
  BY <1>1 DEF PortInv, Placed
<1>3. reflects
  <2>1. CASE mode # "unknown"
    BY <1>2, <2>1 DEF PortInv, Recognised
  <2>2. CASE mode = "unknown"
    <3>1. writes = 1 /\ matched \in {0, 1} /\ ~Differs
      BY <1>1, <2>2 DEF PortInv, Undecided
    <3>2. Byte.value = R /\ Byte = rx[1] /\ 1 \in 1 .. Len(rx)
      BY <1>1, <1>2, <3>1, ReadFacts, FirstMessage DEF Differs
    <3> QED
      BY <3>2 DEF PortInv, ReadyIsReflected
  <2> QED
    BY <2>1, <2>2
<1> DEFINE k == OwnIn(rx)
           j == OwnIn(rx')
           l == Len(Message(writes - 1))
<1>4. k \in Nat /\ j \in Nat /\ j = IF Byte.own THEN k - 1 ELSE k
  BY <1>1, <1>2, OwnRead
<1>5. owing \in Int /\ owing + k >= l - matched
  BY <1>1, <1>3 DEF Owed
<1>6. l \in {2, 3} /\ matched \in Nat /\ matched < l
  <2>1. writes > 0 /\ matched < l /\ writes \in Nat
    BY <1>1 DEF Placed, PortInv
  <2>2. writes - 1 \in Nat
    BY <2>1
  <2>3. matched \in Nat
    BY DEF Placed, TypeOK
  <2>4. l \in {2, 3}
    BY <2>2, MessageLength
  <2> QED
    BY <2>1, <2>3, <2>4
<1>7. OwnIn(rx)' = j
  BY DEF j, OwnIn, OwnAt
<1>8. Len(Message(writes - 1))' = l
  BY <1>1 DEF l, Message, Frame, Magic
<1> HIDE DEF k, j, l
<1>9. owing' \in Int /\ owing' + j = (owing + k) - 1
  BY <1>1, <1>4, <1>5
<1>10. owing' + j >= 0 /\ owing' + j >= l - (matched + 1)
  <2>1. \A x \in Int : x >= l - matched => x - 1 >= 0 /\ x - 1 >= l - (matched + 1)
    BY <1>6
  <2>2. k \in Nat
    BY <1>4
  <2>3. owing + k \in Int /\ owing + k >= l - matched
    BY <1>5, <2>2
  <2>4. (owing + k) - 1 >= 0 /\ (owing + k) - 1 >= l - (matched + 1)
    BY <2>1, <2>3
  <2> QED
    BY <1>9, <2>4
<1>11. phase' = "consume" => matched' = matched + 1
  BY <1>1
<1> QED
  BY <1>1, <1>3, <1>7, <1>8, <1>9, <1>10, <1>11 DEF Owed

\* What read_frame takes is either the peer's or no longer there to be swallowed.
LEMMA OwedRead ==
  ASSUME Placed, Owed, ReadByte, Leaks, phase' # "consume", UNCHANGED reflects
  PROVE  Owed'
<1> DEFINE k == OwnIn(rx)
           j == OwnIn(rx')
<1>1. /\ k \in Nat /\ j \in Nat
      /\ j = k \/ (Byte.own /\ j = k - 1)
  BY OwnRead DEF Placed
<1>2. /\ owing \in Int /\ owing + k >= 0 /\ (~reflects => owing >= 0)
      /\ owing' = IF Byte.own THEN owing + 1 ELSE owing
  BY DEF Owed, Leaks
<1>3. OwnIn(rx)' = j
  BY DEF j, OwnIn, OwnAt
<1> HIDE DEF k, j
<1>4. owing' \in Int /\ owing' + j >= 0 /\ owing' >= owing
  BY <1>1, <1>2
<1>5. ~reflects => owing' >= 0
  BY <1>2, <1>4
<1> QED
  BY <1>3, <1>4, <1>5 DEF Owed

LEMMA OwedPeerSends ==
  ASSUME PortInv, Placed, Owed, PeerSends
  PROVE  Owed'
<1>1. /\ sent < Len(Payloads) /\ sent' = sent + 1
      /\ rx' = rx \o From(FALSE, Frame(sent'))
      /\ UNCHANGED <<reflects, phase, matched, writes, owing>>
  BY DEF PeerSends, reading
<1>2. sent' \in 1 .. Len(Payloads)
  BY <1>1, PayloadAssumption DEF PortInv
<1> DEFINE m == Frame(sent')
           q == From(FALSE, m)
<1>3. q \in Seq(Bytes) /\ \A i \in 1 .. Len(q) : q[i].own = FALSE
  <2>1. m \in Seq(Values) /\ Values \subseteq R .. Len(Payloads)
    BY <1>2, FrameFacts DEF Values
  <2>2. DOMAIN m = 1 .. Len(m)
    BY <2>1, LenProperties
  <2>3. q = [i \in DOMAIN m |-> [value |-> m[i], own |-> FALSE]]
    BY DEF From
  <2> HIDE DEF m
  <2>4. q \in Seq(Bytes) /\ Len(q) = Len(m) /\ Len(m) \in Nat
    BY <2>1, FromFacts
  <2> HIDE DEF q
  <2> QED
    BY <2>2, <2>3, <2>4
<1>4. rx' = rx \o q /\ rx \in Seq(Bytes)
  BY <1>1 DEF Placed, TypeOK
<1> HIDE DEF q
<1>5. OwnIn(rx \o q) = OwnIn(rx)
  BY <1>3, <1>4, OwnAppended
<1>6. OwnIn(rx)' = OwnIn(rx) /\ Len(Message(writes - 1))' = Len(Message(writes - 1))
  BY <1>1, <1>4, <1>5 DEF OwnIn, OwnAt, Message, Frame, Magic
<1> QED
  BY <1>1, <1>6 DEF Owed

LEMMA OwedFault ==
  ASSUME PortInv, Placed, Placed', Owed, Fault
  PROVE  Owed'
<1>1. UNCHANGED <<reflects, phase, matched, writes>>
  BY DEF Fault, reading
<1>2. PICK i \in DOMAIN rx :
        \/ /\ rx' = Lost(i)
           /\ owing' = IF rx[i].own THEN owing + 1 ELSE owing
        \/ /\ \E b \in {Damaged, Cancel} : rx' = [rx EXCEPT ![i].value = b]
           /\ UNCHANGED owing
  BY DEF Fault
<1>3. /\ rx \in Seq(Bytes) /\ rx' \in Seq(Bytes) /\ i \in 1 .. Len(rx)
      /\ Len(Message(writes - 1))' = Len(Message(writes - 1))
  BY <1>1, LenProperties DEF Placed, TypeOK, Message, Frame, Magic
<1> DEFINE k == OwnIn(rx)
           j == OwnIn(rx')
<1>4. k \in Nat /\ j \in Nat /\ OwnIn(rx)' = j
  BY <1>3, OwnFinite DEF OwnIn, OwnAt
<1>5. owing \in Int
  BY DEF Owed
<1>6. CASE /\ rx' = Lost(i)
           /\ owing' = IF rx[i].own THEN owing + 1 ELSE owing
  <2>1. Len(rx') = Len(rx) - 1 /\ \A n \in 1 .. Len(rx) - 1 : rx'[n] = rx[Kept(i, n)]
    BY <1>3, <1>6, Without DEF Lost
  <2> DEFINE q == rx
             t == rx'
  <2>2. /\ q \in Seq(Bytes) /\ t \in Seq(Bytes) /\ i \in 1 .. Len(q)
        /\ Len(t) = Len(q) - 1 /\ \A n \in 1 .. Len(t) : t[n] = q[Kept(i, n)]
    BY <1>3, <2>1
  <2> HIDE DEF q, t
  <2>3. OwnIn(t) = IF q[i].own THEN OwnIn(q) - 1 ELSE OwnIn(q)
    BY <2>2, OwnLost
  <2>4. j = IF rx[i].own THEN k - 1 ELSE k
    BY <2>3 DEF q, t
  <2> HIDE DEF k, j
  <2>5. owing' \in Int /\ owing' + j = owing + k /\ owing' >= owing
    BY <1>4, <1>5, <1>6, <2>4
  <2>6. ~reflects => owing' >= 0
    BY <1>5, <2>5 DEF Owed
  <2> QED
    BY <1>1, <1>3, <1>4, <2>5, <2>6 DEF Owed, k
<1>7. CASE /\ \E b \in {Damaged, Cancel} : rx' = [rx EXCEPT ![i].value = b]
           /\ UNCHANGED owing
  <2>1. PICK b \in {Damaged, Cancel} : rx' = [rx EXCEPT ![i].value = b]
    BY <1>7
  <2>2. Len(rx') = Len(rx) /\ \A n \in 1 .. Len(rx) : rx'[n].own = rx[n].own
    <3>1. \A x \in Bytes : [x EXCEPT !.value = b].own = x.own
      BY DEF Bytes
    <3> QED
      BY <1>3, <2>1, <3>1
  <2> DEFINE q == rx
             t == rx'
  <2>3. /\ q \in Seq(Bytes) /\ t \in Seq(Bytes) /\ Len(t) = Len(q)
        /\ \A n \in 1 .. Len(q) : t[n].own = q[n].own
    BY <1>3, <2>2
  <2> HIDE DEF q, t
  <2>4. OwnIn(t) = OwnIn(q)
    BY <2>3, OwnSame
  <2>5. j = k
    BY <2>4 DEF q, t
  <2> QED
    BY <1>1, <1>3, <1>4, <1>7, <2>5 DEF Owed
<1> QED
  BY <1>2, <1>6, <1>7

LEMMA OwedStep ==
  ASSUME PortInv, Placed, Owed, [Next]_vars
  PROVE  Owed'
<1>1. CASE Done \/ UNCHANGED vars \/ ConsumeTimesOut \/ ReadTimesOut \/ ReadFails
  <2>1. /\ UNCHANGED <<reflects, rx, owing>>
        /\ phase' = "consume" => UNCHANGED <<phase, matched, writes>>
    BY <1>1 DEF Done, vars, reading, history, ConsumeTimesOut, ReadTimesOut,
       ReadFails, Return
  <2>2. OwnIn(rx)' = OwnIn(rx)
    BY <2>1 DEF OwnIn, OwnAt
  <2>3. phase' = "consume" => Len(Message(writes - 1))' = Len(Message(writes - 1))
    BY <2>1 DEF Message, Frame, Magic
  <2> QED
    BY <2>1, <2>2, <2>3 DEF Owed
<1>2. CASE ReadCancelled \/ ReadMagic \/ ReadHeader \/ ReadPayload
  <2>1. ReadByte /\ Leaks /\ phase' # "consume" /\ UNCHANGED reflects
    BY <1>2 DEF ReadCancelled, ReadMagic, ReadHeader, ReadPayload, Return, Accept
  <2> QED
    BY <2>1, OwedRead
<1> QED
  BY <1>1, <1>2, PlacedStep, OwedWrite, OwedConsumeOther, OwedConsume, OwedPeerSends,
     OwedFault DEF Next, Agent

LEMMA OwedInit ==
  ASSUME Init
  PROVE  Owed
<1>1. rx = <<>> /\ owing = 0 /\ phase = "write"
  BY DEF Init
<1>2. rx \in Seq(Bytes) /\ OwnIn(rx) \in Nat
  BY <1>1, OwnFinite, EmptySeq
<1> QED
  BY <1>1, <1>2 DEF Owed

-----------------------------------------------------------------------------
(* The theorems                                                             *)

\* docs/W98SER2-PROTOCOL.md, "Carrier reflection": the agent never takes a
\* carrier for reflecting that is not, and recognises one that is unless its
\* first copy was disturbed (consume_reflection).
THEOREM CarrierIsRecognised == Spec => []Recognised
<1>1. Init => PortInv
  BY PlacedInit
<1>2. PortInv /\ [Next]_vars => PortInv'
  BY PortStep
<1>3. PortInv => Recognised
  BY DEF PortInv
<1> QED
  BY <1>1, <1>2, <1>3, PTL DEF Spec

\* Every variable keeps its range, and what has been matched or read fits what is
\* being matched and the buffer read_frame was given.
THEOREM PortTypes == Spec => []TypeOK
<1>1. Init => PortInv /\ Placed
  BY PlacedInit
<1>2. PortInv /\ Placed /\ [Next]_vars => (PortInv /\ Placed)'
  BY PortStep, PlacedStep
<1>3. Placed => TypeOK
  BY DEF Placed
<1> QED
  BY <1>1, <1>2, <1>3, PTL DEF Spec

\* serial_read_byte and read_frame: as long as no payload looks like the header of
\* a frame, whatever is lost, damaged or reflected, what read_frame returns is
\* what the peer has sent, each frame at most once and in order; it takes a frame
\* of the agent's own for the peer's only where reflections were disturbed.
THEOREM FramesAreThePeers ==
  ASSUME PlainPayloads
  PROVE  Spec => []OnlySentFrames
<1> DEFINE Inv == PortInv /\ Placed /\ Once /\ Undisturbed
<1>1. Init => Inv
  BY PlacedInit, OnceInit, UndisturbedInit
<1>2. Inv /\ [Next]_vars => Inv'
  BY PortStep, PlacedStep, OnceStep, UndisturbedStep
<1>3. Inv => OnlySentFrames
  <2> SUFFICES ASSUME Inv
               PROVE  OnlySentFrames
    OBVIOUS
  <2>1. /\ got \in Seq(Headers \X Seq(Values)) /\ DOMAIN got = 1 .. Len(got)
        /\ \A i \in 1 .. Len(got) : got[i][1] \in Nat
    <3>1. got \in Seq(Headers \X Seq(Values)) /\ \A v \in Headers \X Seq(Values) : v[1] \in Nat
      BY PayloadAssumption DEF Placed, Headers
    <3> QED
      BY <3>1, LenProperties, ElementOfSeq
  <2>2. ASSUME NEW i \in DOMAIN got, got[i][1] # 0
        PROVE  got[i][1] \in 1 .. sent /\ got[i][2] = Payloads[got[i][1]]
    <3>1. got[i][1] <= sent /\ got[i][2] = Body(got[i][1]) /\ sent \in Nat
      BY <2>1 DEF Once, Returned, PortInv
    <3> QED
      BY <2>1, <2>2, <3>1 DEF Body
  <2>3. ASSUME NEW i \in DOMAIN got, NEW j \in DOMAIN got, i < j,
               got[i][1] # 0, got[j][1] # 0
        PROVE  got[i][1] < got[j][1]
    BY <2>1, <2>3 DEF Once, Returned
  <2>4. ASSUME NEW i \in DOMAIN got, got[i][1] = 0
        PROVE  reflects /\ (faults > 0 \/ outOfTurn)
    <3>1. reflects
      BY <2>1, <2>4 DEF Once, Returned
    <3>2. ~(faults = 0 /\ ~outOfTurn)
      BY <2>1, <2>4, UndisturbedGot
    <3>3. faults \in Nat
      BY DEF PortInv
    <3> QED
      BY <3>1, <3>2, <3>3
  <2> QED
    BY <2>2, <2>3, <2>4 DEF OnlySentFrames
<1> QED
  BY <1>1, <1>2, <1>3, PTL DEF Spec

\* With an intact line and a peer that speaks in turn read_frame has returned every
\* frame, in order, before the agent writes again: whatever the payloads are, no
\* byte of one is taken for a cancel or a reflection, and no reflection for one.
THEOREM IntactLineIsRead == Spec => []IntactIsRead
<1> DEFINE Inv == PortInv /\ Placed /\ Undisturbed
<1>1. Init => Inv
  BY PlacedInit, UndisturbedInit
<1>2. Inv /\ [Next]_vars => Inv'
  BY PortStep, PlacedStep, UndisturbedStep
<1>3. Inv => IntactIsRead
  BY UndisturbedGot DEF IntactIsRead, Given
<1> QED
  BY <1>1, <1>2, <1>3, PTL DEF Spec

\* consume_reflection counts bytes, whoever sent them: the agent swallows no more
\* of the peer's than of its own got lost, were read in the peer's place or are
\* still to come.
THEOREM SwallowsWhatIsOwed == Spec => []SwallowedAreOwed
<1> DEFINE Inv == PortInv /\ Placed /\ Owed
<1>1. Init => Inv
  BY PlacedInit, OwedInit
<1>2. Inv /\ [Next]_vars => Inv'
  BY PortStep, PlacedStep, OwedStep
<1>3. Inv => SwallowedAreOwed
  <2> SUFFICES ASSUME Inv
               PROVE  SwallowedAreOwed
    OBVIOUS
  <2>1. DOMAIN rx = 1 .. Len(rx)
    BY LenProperties DEF PortInv
  <2> QED
    BY <2>1 DEF Owed, OwnIn, OwnAt, SwallowedAreOwed
<1> QED
  BY <1>1, <1>2, <1>3, PTL DEF Spec
=============================================================================
