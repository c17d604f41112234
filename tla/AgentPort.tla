------------------------------ MODULE AgentPort -------------------------------
(***************************************************************************)
(* The agent's serial port below W98Ser2: whatever the agent writes may be   *)
(* reflected into its own receive queue; it finds out on its first write    *)
(* whether it is, swallows as many bytes as it has written from then on, and *)
(* looks for frames in what is left.                                        *)
(*                                                                         *)
(* Abstractions.  The magic W9F2 has two bytes; type, sequence, length and   *)
(* CRC of a frame are one, a natural number: which frame they belong to, 0   *)
(* for one of the agent's.  The CRC finds every damage.  Other bytes are the *)
(* negative numbers below.  Every byte knows who sent it.  What is reflected *)
(* arrives before a deadline passes: time passes only while the receive      *)
(* queue is empty.  READY stands for any line the agent writes: only lines   *)
(* are written before the carrier is known.  The lines that the command loop *)
(* reads come from the same bytes and are left out.                          *)
(***************************************************************************)
EXTENDS Integers, Sequences, FiniteSets

CONSTANTS
  Payloads,    \* the payloads of the peer's frames
  IoChunk,     \* the longest payload
  MaxWrites,   \* bound: what the agent writes
  MaxFaults    \* bound: bytes lost or damaged, and reads that fail

ASSUME PortAssumption ==
  /\ IoChunk \in Nat \ {0} /\ {MaxWrites, MaxFaults} \subseteq Nat
  /\ \A i \in DOMAIN Payloads : Len(Payloads[i]) <= IoChunk

\* A payload is made of frame bytes and of others; nothing the peer sends reads
\* like the agent's READY, not even what is left of it when bytes get lost.
ASSUME PayloadAssumption ==
  Payloads \in Seq(Seq(-4 .. Len(Payloads)))

VARIABLES
  reflects,   \* whether the carrier reflects
  mode,       \* reflection_mode: "unknown", "off" or "on"
  pending,    \* pending_value, if it is valid
  rx,         \* the receive queue
  phase,      \* "write", "consume", "magic", "header" or "payload"
  matched,    \* bytes matched of the reflection or the magic, or to be read
  header, payload,   \* what read_frame has read
  writes,     \* what the agent has written
  sent,       \* frames the peer has sent
  turn,       \* whether the peer has an answer to its last one
  got,        \* history: the frames read_frame returned
  faults,     \* bytes lost or damaged, and reads that failed
  outOfTurn,  \* history: the peer spoke without an answer
  owing       \* history: own bytes lost or read, less peer bytes swallowed

reading == <<phase, matched, header, payload>>
history == <<got, outOfTurn, owing>>
vars == <<reflects, mode, pending, rx, reading, writes, sent, turn, faults,
          history>>

W == -1
F == -2
Cancel == -3    \* CANCEL_BYTE, 0x18
Damaged == -4   \* what a byte has become that was damaged
R == -5         \* a byte of READY

Headers == 0 .. Len(Payloads)
Magic == <<W, F>>
Frame(id) == Magic \o <<id>> \o IF id = 0 THEN <<>> ELSE Payloads[id]

\* READY first, then an acknowledgement each time.
Message(n) == IF n = 0 THEN <<R, R>> ELSE Frame(0)
From(own, bytes) == [i \in DOMAIN bytes |-> [value |-> bytes[i], own |-> own]]

Init ==
  /\ reflects \in BOOLEAN /\ mode = "unknown"
  /\ pending = <<>> /\ rx = <<>>
  /\ phase = "write" /\ matched = 0 /\ header = 0 /\ payload = <<>>
  /\ writes = 0 /\ sent = 0 /\ turn = FALSE /\ faults = 0
  /\ got = <<>> /\ outOfTurn = FALSE /\ owing = 0

-----------------------------------------------------------------------------
(* serial_write_all and consume_reflection                                  *)

Write ==
  /\ phase = "write" /\ writes < MaxWrites
  /\ writes' = writes + 1 /\ turn' = TRUE
  /\ rx' = IF reflects THEN rx \o From(TRUE, Message(writes)) ELSE rx
  /\ phase' = IF mode = "off" THEN "magic" ELSE "consume"
  /\ matched' = 0
  /\ UNCHANGED <<reflects, mode, pending, header, payload, sent, faults, history>>

\* serial_read_byte: the byte that was put back comes first.
Arrived == pending \o rx
ReadByte ==
  /\ Arrived # <<>>
  /\ pending' = <<>>
  /\ rx' = IF pending = <<>> THEN Tail(rx) ELSE rx
Byte == Head(Arrived)

\* Mutant: any byte is taken for the reflection from the beginning.
AnythingDiffers == FALSE

Differs == Byte.value # Message(writes - 1)[matched + 1]

\* The bytes of a line are not all the same: behind a lost one, or left of a line
\* whose reflection could not be read, there is another than the one expected.
OutOfPlace == faults > 0 /\ Byte.own

\* The first write met a byte that is no reflection: it belongs to the peer.
ConsumeOther ==
  /\ phase = "consume" /\ Arrived # <<>> /\ mode = "unknown"
  /\ Differs \/ OutOfPlace
  /\ mode' = "off"
  /\ pending' = <<Byte>> /\ rx' = IF pending = <<>> THEN Tail(rx) ELSE rx
  /\ phase' = "magic" /\ matched' = 0
  /\ UNCHANGED <<reflects, header, payload, writes, sent, turn, faults, history>>

\* Mutant: only what is equal counts.
CountEqual == IF Differs THEN matched ELSE matched + 1

CountAny == matched + 1

Consume ==
  /\ phase = "consume" /\ ReadByte
  /\ ~Differs \/ mode # "unknown"
  /\ IF CountAny = Len(Message(writes - 1))
       THEN mode' = "on" /\ phase' = "magic" /\ matched' = 0
       ELSE matched' = CountAny /\ UNCHANGED <<mode, phase>>
  /\ owing' = IF Byte.own THEN owing ELSE owing - 1
  /\ UNCHANGED <<reflects, header, payload, writes, sent, turn, faults, got,
                 outOfTurn>>

\* Mutant: a write waits for all of its reflection.
NoAllowance == FALSE

Allowance == Arrived = <<>>

ConsumeTimesOut ==
  /\ phase = "consume" /\ Allowance
  /\ mode' = IF mode = "unknown" THEN "off" ELSE mode
  /\ phase' = "magic" /\ matched' = 0
  /\ UNCHANGED <<reflects, pending, rx, header, payload, writes, sent, turn,
                 faults, history>>

-----------------------------------------------------------------------------
(* read_frame                                                               *)

\* Its callers answer, or read again: until a FIN has come they do not answer
\* silence, and after it nothing but another FIN.
Return ==
  /\ phase' \in {"write", "magic"}
  /\ matched' = 0 /\ header' = 0 /\ payload' = <<>>

Leaks == owing' = IF Byte.own THEN owing + 1 ELSE owing

\* Mutant: 0x18 cancels in the middle of a frame as well.
CancelsAnywhere == TRUE

Cancels == phase = "magic"

ReadCancelled ==
  /\ phase \in {"magic", "header", "payload"} /\ ReadByte
  /\ Cancels /\ Byte.value = Cancel
  /\ Return /\ Leaks
  /\ UNCHANGED <<reflects, mode, writes, sent, turn, faults, got, outOfTurn>>

ReadMagic ==
  /\ phase = "magic" /\ ReadByte /\ Byte.value # Cancel
  /\ LET n == IF Byte.value = Magic[matched + 1] THEN matched + 1
              ELSE IF Byte.value = Magic[1] THEN 1 ELSE 0 IN
       IF n = Len(Magic) THEN phase' = "header" /\ matched' = 0
       ELSE matched' = n /\ UNCHANGED phase
  /\ Leaks
  /\ UNCHANGED <<reflects, mode, header, payload, writes, sent, turn, faults, got,
                 outOfTurn>>

\* Mutant: the CRC covers the header only.
HeaderIntact(h, bytes) == h # Damaged

CrcMatches(h, bytes) == h # Damaged /\ Frame(h) = Magic \o <<h>> \o bytes

Accept(h, bytes) ==
  /\ Return
  /\ got' = IF CrcMatches(h, bytes) THEN Append(got, <<h, bytes>>) ELSE got

\* A byte that is no header any more has some length, perhaps too long a one.
Lengths(h) ==
  IF h = Damaged THEN 0 .. IoChunk + 1 ELSE {Len(Frame(h)) - Len(Magic) - 1}

\* Mutant: the payload buffer has no end.
NeverTooLong(n) == FALSE

TooLong(n) == n > IoChunk

ReadHeader ==
  /\ phase = "header" /\ ReadByte
  /\ LET h == IF Byte.value \in Headers
                THEN Byte.value ELSE Damaged IN
     \E n \in Lengths(h) :
       CASE TooLong(n) -> Return /\ UNCHANGED got
         [] n = 0 -> Accept(h, <<>>)
         [] OTHER -> /\ phase' = "payload" /\ matched' = n /\ header' = h
                     /\ UNCHANGED <<payload, got>>
  /\ Leaks
  /\ UNCHANGED <<reflects, mode, writes, sent, turn, faults, outOfTurn>>

ReadPayload ==
  /\ phase = "payload" /\ ReadByte
  /\ ~(Cancels /\ Byte.value = Cancel)
  /\ LET bytes == Append(payload, Byte.value) IN
       IF Len(bytes) = matched THEN Accept(header, bytes)
       ELSE payload' = bytes /\ UNCHANGED <<phase, matched, header, got>>
  /\ Leaks
  /\ UNCHANGED <<reflects, mode, writes, sent, turn, faults, outOfTurn>>

\* Five seconds without another byte.
ReadTimesOut ==
  /\ phase \in {"magic", "header", "payload"} /\ Arrived = <<>>
  /\ Return
  /\ UNCHANGED <<reflects, mode, pending, rx, writes, sent, turn, got, faults,
                 outOfTurn, owing>>

\* ReadFile fails.  read_frame returns, and so does consume_reflection, all of
\* the message being written: its caller gives up or goes on to read.  Before
\* the carrier is known it is a line again that is written next.
ReadFails ==
  /\ phase # "write" /\ pending = <<>>
  /\ faults < MaxFaults /\ faults' = faults + 1
  /\ Return
  /\ IF mode = "unknown" THEN phase' = "write" /\ writes' = 0 ELSE UNCHANGED writes
  /\ UNCHANGED <<reflects, mode, pending, rx, sent, turn, history>>

-----------------------------------------------------------------------------
(* The peer, and the line                                                   *)

\* In turn, while the agent listens; or because its own time was up, when the
\* agent may be talking, or a new client knows nothing of what went before.
PeerSends ==
  /\ sent < Len(Payloads)
  /\ sent' = sent + 1 /\ turn' = FALSE
  /\ outOfTurn' = (outOfTurn \/ ~turn \/ phase # "magic")
  /\ rx' = rx \o From(FALSE, Frame(sent'))
  /\ UNCHANGED <<reflects, mode, pending, reading, writes, got, faults,
                 owing>>

Lost(i) == SubSeq(rx, 1, i - 1) \o SubSeq(rx, i + 1, Len(rx))

Fault ==
  /\ faults < MaxFaults /\ faults' = faults + 1
  /\ \E i \in DOMAIN rx :
       \/ /\ rx' = Lost(i)
          /\ owing' = IF rx[i].own THEN owing + 1 ELSE owing
       \/ /\ \E b \in {Damaged, Cancel} : rx' = [rx EXCEPT ![i].value = b]
          /\ UNCHANGED owing
  /\ UNCHANGED <<reflects, mode, pending, reading, writes, sent, turn, got, outOfTurn>>

Done == phase = "write" /\ writes = MaxWrites /\ UNCHANGED vars

Agent ==
  \/ Write \/ ConsumeOther \/ Consume \/ ConsumeTimesOut
  \/ ReadCancelled \/ ReadMagic \/ ReadHeader \/ ReadPayload \/ ReadTimesOut

Next == Agent \/ ReadFails \/ PeerSends \/ Fault \/ Done

Spec == Init /\ [][Next]_vars

\* The agent keeps running; nobody has to send and nothing has to fail.
FairSpec == Spec /\ WF_vars(Agent)

-----------------------------------------------------------------------------
(* Properties                                                               *)

Bytes == [value : R .. Len(Payloads), own : BOOLEAN]

TypeOK ==
  /\ reflects \in BOOLEAN /\ mode \in {"unknown", "off", "on"}
  /\ pending \in Seq(Bytes) /\ Len(pending) <= 1 /\ rx \in Seq(Bytes)
  /\ phase \in {"write", "consume", "magic", "header", "payload"}
  /\ matched \in 0 .. Len(Magic) + IoChunk
  /\ header \in Headers \cup {Damaged} /\ Len(payload) < IoChunk
  /\ writes \in 0 .. MaxWrites /\ sent \in 0 .. Len(Payloads)
  /\ faults \in 0 .. MaxFaults
  /\ turn \in BOOLEAN /\ outOfTurn \in BOOLEAN

\* docs/W98SER2-PROTOCOL.md, "Carrier reflection": the agent never takes a
\* carrier for reflecting that is not, whoever speaks when, and recognises one
\* that is unless the first copy was disturbed.
Recognised ==
  /\ mode = "on" => reflects
  /\ (mode = "off" /\ reflects) => (faults > 0 \/ outOfTurn)

\* Why it does: only the agent has bytes of READY, so that on a carrier that does
\* not reflect none arrives; and until the carrier is known nothing but the first
\* write has happened, all of whose reflection is there if nothing disturbed it.
ReadyIsReflected ==
  ~reflects => \A i \in 1 .. Len(rx) : rx[i].value # R

Undecided ==
  mode = "unknown" =>
    /\ pending = <<>>
    /\ \/ phase = "write" /\ writes = 0
       \/ phase = "consume" /\ writes = 1 /\ matched \in {0, 1}
    /\ (reflects /\ faults = 0 /\ ~outOfTurn) =>
         /\ phase = "write" => rx = <<>>
         /\ phase = "consume" =>
              Len(rx) = 2 - matched /\ \A i \in 1 .. Len(rx) : rx[i].value = R

PortInv ==
  /\ reflects \in BOOLEAN /\ outOfTurn \in BOOLEAN
  /\ mode \in {"unknown", "off", "on"} /\ rx \in Seq(Bytes)
  /\ writes \in Nat /\ sent \in Nat /\ faults \in Nat
  /\ phase = "consume" => mode # "off"
  /\ Recognised /\ ReadyIsReflected /\ Undecided

\* What read_frame returns is what the peer has sent, each frame at most once
\* and in order, however bytes are lost, damaged or mixed with reflections: the
\* channel of W98Ser2.  Its own frames (0) it can take for the peer's only if
\* reflections were disturbed.
OnlySentFrames ==
  /\ \A i \in DOMAIN got :
       got[i][1] # 0 => got[i][1] \in 1 .. sent /\ got[i][2] = Payloads[got[i][1]]
  /\ \A i, j \in DOMAIN got :
       i < j /\ got[i][1] # 0 /\ got[j][1] # 0 => got[i][1] < got[j][1]
  /\ (\E i \in DOMAIN got : got[i][1] = 0) => (reflects /\ (faults > 0 \/ outOfTurn))

\* With an intact line and a peer that speaks in turn every frame has been read,
\* once and in order, before the agent writes again: on either carrier no byte of
\* one is taken for a cancel or a reflection, and no reflection for one.
IntactIsRead ==
  (faults = 0 /\ ~outOfTurn /\ phase = "write") =>
    got = [i \in 1 .. sent |-> <<i, Payloads[i]>>]

\* The agent swallows no more bytes of the peer than bytes of its own got lost,
\* were read in the peer's place or are still to come.
SwallowedAreOwed ==
  owing + Cardinality({i \in DOMAIN rx : rx[i].own}) >= 0

\* docs/W98SER2-PROTOCOL.md: a reflection that does not come is not waited for;
\* the agent goes on to listen to the peer, or gives up on a port that fails.
ListensAgain == (phase = "consume") ~> (phase # "consume")
=============================================================================
