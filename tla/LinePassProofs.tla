---------------------------- MODULE LinePassProofs ----------------------------
(***************************************************************************)
(* What PASS and FAIL mean, for any number of rounds and faults.            *)
(***************************************************************************)
EXTENDS LinePass, SequenceTheorems, TLAPS

-----------------------------------------------------------------------------
(* The inductive invariant                                                  *)

\* What a round has read and will read next.
Stream == received \o rx

InStream(x) == \E i \in 1 .. Len(Stream) : Stream[i] = x

Awaits == \E i \in 1 .. Len(command) : command[i] = "CR"

\* The adapter still has byte x of its answer to write.
Owes(x) == Awaits \/ \E i \in 1 .. Len(answer) : answer[i] = x

\* The round cannot match any more: a byte it waits for is gone, or it will read
\* one that is none of them.
Spoilt ==
  \/ \E x \in {"c", "CR"} : ~InStream(x)
  \/ \E x \in {"r", ">"} : ~InStream(x) /\ ~Owes(x)
  \/ \E i \in 1 .. Len(Stream) : i <= Len(Expected) /\ Stream[i] = "?"

\* Each byte of a round exists once.
EachOnce ==
  /\ \A i, j \in 1 .. Len(Stream) : Stream[i] = Stream[j] /\ Stream[i] # "?" => i = j
  /\ \A x \in {"r", ">"} : InStream(x) => ~Owes(x)
  /\ answer \in {<<>>, <<">">>, Reply} /\ (Awaits => answer = <<>>)

CommandForm ==
  command \in {<<>>, Command, <<"CR">>, <<"?">>, <<"?", "CR">>}

\* Between two rounds nothing of the last one is under way.
Rested ==
  phase \in {"purge", "write"} => ~Awaits /\ answer = <<>> /\ ~harm /\ ~late

\* A round in which something was disturbed, that gave up, or that has no
\* reflection, will not match.
Judged ==
  phase \in {"read", "compare"} =>
    /\ EachOnce
    /\ harm \/ ~reflects => Spoilt
    /\ late => phase = "compare" /\ Len(received) < Len(Expected)

\* On a line without faults or earlier output the bytes of a round are those
\* expected.
Undisturbed ==
  (reflects /\ faults = 0 /\ ~late /\ earlier # "mixed") =>
    /\ phase \in {"purge", "write"} => command = <<>> /\ answer = <<>>
    /\ phase = "write" => rx = <<>>
    /\ phase # "purge" => ~errors
    /\ phase \in {"read", "compare"} =>
         \/ command \in {Command, <<"CR">>} /\ answer = <<>> /\ Stream = Command
         \/ command = <<>> /\ answer = Reply /\ Stream = Command
         \/ command = <<>> /\ answer = <<">">> /\ Stream = Append(Command, "r")
         \/ command = <<>> /\ answer = <<>> /\ Stream = Expected
    /\ phase = "compare" => Len(received) = Len(Expected)
    /\ phase = "done" => passed = Rounds

Typed ==
  /\ TypeOK /\ CommandForm
  /\ phase # "done" => passed < Rounds

\* Before a command is written only noise can have come.
Waiting ==
  phase = "write" => received = <<>> /\ \A i \in 1 .. Len(rx) : rx[i] = "?"

Clean == Waiting /\ Rested /\ Judged /\ PassMeansClean

LineInv == Typed /\ Clean /\ Undisturbed /\ FailMeansHarm

-----------------------------------------------------------------------------
(* Facts about the queues                                                   *)

LEMMA Types ==
  ASSUME TypeOK
  PROVE  /\ received \in Seq(Symbols) /\ rx \in Seq(Symbols)
         /\ command \in Seq(Symbols) /\ answer \in Seq(Symbols)
         /\ reflects \in BOOLEAN /\ errors \in BOOLEAN /\ harm \in BOOLEAN
         /\ late \in BOOLEAN
BY DEF TypeOK

LEMMA ConcatFacts ==
  ASSUME NEW S, NEW q \in Seq(S), NEW r \in Seq(S)
  PROVE  /\ q \o r \in Seq(S) /\ Len(q \o r) = Len(q) + Len(r)
         /\ Len(q) \in Nat /\ Len(r) \in Nat
         /\ \A i \in 1 .. Len(q) : (q \o r)[i] = q[i]
         /\ \A i \in 1 .. Len(r) : (q \o r)[Len(q) + i] = r[i]
OBVIOUS

LEMMA Sizes ==
  /\ Command = <<"c", "CR">> /\ Reply = <<"r", ">">>
  /\ Expected = <<"c", "CR", "r", ">">> /\ Len(Expected) = 4
<1>1. Command = <<"c", "CR">> /\ Reply = <<"r", ">">>
  BY DEF Command, Reply
<1>2. Expected = <<"c", "CR", "r", ">">>
  <2> DEFINE q == <<"c", "CR">>
             r == <<"r", ">">>
             e == <<"c", "CR", "r", ">">>
  <2>1. q \in Seq(Symbols) /\ r \in Seq(Symbols) /\ Len(q) = 2 /\ Len(r) = 2
    BY DEF Symbols
  <2>2. q \o r \in Seq(Symbols) /\ Len(q \o r) = 4
    BY <2>1, ConcatFacts
  <2>3. (q \o r)[1] = "c" /\ (q \o r)[2] = "CR"
    BY <2>1, ConcatFacts
  <2>4. (q \o r)[2 + 1] = "r" /\ (q \o r)[2 + 2] = ">"
    BY <2>1, ConcatFacts
  <2>5. \A i \in 1 .. 4 : (q \o r)[i] = e[i]
    BY <2>3, <2>4
  <2>6. e \in Seq(Symbols) /\ Len(e) = 4
    BY DEF Symbols
  <2>7. q \o r = e
    BY <2>2, <2>5, <2>6, SeqEqual
  <2> QED
    BY <2>7, <1>1 DEF Expected
<1> QED
  BY <1>1, <1>2

\* Reading a byte moves it within the stream.
LEMMA ReadKeepsStream ==
  ASSUME NEW S, NEW q \in Seq(S), NEW r \in Seq(S), r # <<>>
  PROVE  Append(q, Head(r)) \o Tail(r) = q \o r
OBVIOUS

LEMMA AppendToStream ==
  ASSUME NEW S, NEW q \in Seq(S), NEW r \in Seq(S), NEW x \in S
  PROVE  q \o Append(r, x) = Append(q \o r, x)
OBVIOUS

LEMMA StreamFacts ==
  ASSUME TypeOK
  PROVE  /\ Stream \in Seq(Symbols) /\ Len(Stream) = Len(received) + Len(rx)
         /\ Len(received) \in Nat /\ Len(rx) \in Nat
         /\ \A i \in 1 .. Len(received) : Stream[i] = received[i]
         /\ \A i \in 1 .. Len(rx) : Stream[Len(received) + i] = rx[i]
BY Types, ConcatFacts DEF Stream

\* What is left of the command when its first byte is taken or damaged.
LEMMA Shorter ==
  ASSUME CommandForm, command # <<>>
  PROVE  /\ Tail(command) \in {<<>>, <<"CR">>}
         /\ <<"?">> \o Tail(command) \in {<<"?">>, <<"?", "CR">>}
         /\ command \in {Command, <<"?", "CR">>} <=> Tail(command) = <<"CR">>
         /\ Head(command) = "CR" <=> command = <<"CR">>
         /\ Tail(command) = <<>> => command \in {<<"CR">>, <<"?">>}
<1>1. command \in {<<"c", "CR">>, <<"CR">>, <<"?">>, <<"?", "CR">>}
  BY Sizes DEF CommandForm
<1>2. /\ Tail(<<"c", "CR">>) = <<"CR">> /\ Tail(<<"CR">>) = <<>>
      /\ Tail(<<"?">>) = <<>> /\ Tail(<<"?", "CR">>) = <<"CR">>
  OBVIOUS
<1>3. /\ Head(<<"c", "CR">>) = "c" /\ Head(<<"CR">>) = "CR"
      /\ Head(<<"?">>) = "?" /\ Head(<<"?", "CR">>) = "?"
  OBVIOUS
<1>4. <<"?">> \o <<>> = <<"?">>
  <2>1. <<"?">> \in Seq(Symbols)
    BY DEF Symbols
  <2> QED
    BY <2>1, ConcatEmptySeq
<1>5. <<"?">> \o <<"CR">> = <<"?", "CR">>
  <2> DEFINE a == <<"?">>
             b == <<"CR">>
             d == <<"?", "CR">>
  <2>1. /\ a \in Seq(Symbols) /\ b \in Seq(Symbols) /\ d \in Seq(Symbols)
        /\ Len(a) = 1 /\ Len(b) = 1 /\ Len(d) = 2
    BY DEF Symbols
  <2>2. a \o b \in Seq(Symbols) /\ Len(a \o b) = 2
    BY <2>1, ConcatFacts
  <2>3. (a \o b)[1] = a[1] /\ (a \o b)[1 + 1] = b[1]
    BY <2>1, ConcatFacts
  <2>4. \A i \in 1 .. 2 : (a \o b)[i] = d[i]
    BY <2>3
  <2> QED
    BY <2>1, <2>2, <2>4, SeqEqual
<1>6. Command = <<"c", "CR">>
  BY Sizes
<1>7. /\ <<"c", "CR">> # <<"CR">> /\ <<"?", "CR">> # <<"CR">> /\ <<"?">> # <<"CR">>
      /\ <<>> # <<"CR">> /\ "c" # "CR" /\ "?" # "CR"
  OBVIOUS
<1> QED
  BY <1>1, <1>2, <1>3, <1>4, <1>5, <1>6, <1>7

LEMMA AnswerForm ==
  ASSUME answer \in {<<>>, <<">">>, Reply}, answer # <<>>
  PROVE  \/ Head(answer) = "r" /\ Tail(answer) = <<">">> /\ answer = Reply
         \/ Head(answer) = ">" /\ Tail(answer) = <<>> /\ answer = <<">">>
<1>1. Reply = <<"r", ">">>
  BY Sizes
<1>2. Head(<<"r", ">">>) = "r" /\ Tail(<<"r", ">">>) = <<">">>
  OBVIOUS
<1>3. Head(<<">">>) = ">" /\ Tail(<<">">>) = <<>>
  OBVIOUS
<1> QED
  BY <1>1, <1>2, <1>3

\* Whether the adapter will still answer, and with what, in plain cases.
LEMMA AwaitsForm ==
  ASSUME NEW q \in {<<>>, Command, <<"CR">>, <<"?">>, <<"?", "CR">>}
  PROVE  (\E i \in 1 .. Len(q) : q[i] = "CR")
           <=> q \in {Command, <<"CR">>, <<"?", "CR">>}
<1>1. q \in {<<>>, <<"c", "CR">>, <<"CR">>, <<"?">>, <<"?", "CR">>}
  BY Sizes
<1>2. Command = <<"c", "CR">>
  BY Sizes
<1>3. CASE q = <<>>
  BY <1>2, <1>3
<1>4. CASE q = <<"?">>
  BY <1>2, <1>4
<1>5. CASE q = <<"CR">>
  <2>1. q[1] = "CR" /\ 1 \in 1 .. Len(q)
    BY <1>5
  <2> QED
    BY <2>1, <1>5
<1>6. CASE q \in {<<"c", "CR">>, <<"?", "CR">>}
  <2>1. q[2] = "CR" /\ 2 \in 1 .. Len(q)
    BY <1>6
  <2> QED
    BY <2>1, <1>2, <1>6
<1> QED
  BY <1>1, <1>3, <1>4, <1>5, <1>6

LEMMA OwesForm ==
  ASSUME answer \in {<<>>, <<">">>, Reply}
  PROVE  /\ Owes("r") <=> Awaits \/ answer = Reply
         /\ Owes(">") <=> Awaits \/ answer # <<>>
<1>1. Reply = <<"r", ">">>
  BY Sizes
<1>2. CASE answer = <<>>
  BY <1>1, <1>2 DEF Owes
<1>3. CASE answer = <<">">>
  <2>1. 1 \in 1 .. Len(answer) /\ answer[1] = ">" /\ Len(answer) = 1
    BY <1>3
  <2> QED
    BY <2>1, <1>1, <1>3 DEF Owes
<1>4. CASE answer = Reply
  <2>1. /\ 1 \in 1 .. Len(answer) /\ answer[1] = "r"
        /\ 2 \in 1 .. Len(answer) /\ answer[2] = ">" /\ answer # <<>>
    BY <1>1, <1>4
  <2> QED
    BY <2>1, <1>4 DEF Owes
<1> QED
  BY <1>2, <1>3, <1>4

\* A round that is spoilt does not read what it expects.
LEMMA SpoiltNeverMatches ==
  ASSUME TypeOK, Spoilt
  PROVE  received # Expected
<1> SUFFICES ASSUME received = Expected
             PROVE  FALSE
  OBVIOUS
<1>1. /\ Len(received) = 4 /\ received[1] = "c" /\ received[2] = "CR"
      /\ received[3] = "r" /\ received[4] = ">"
  BY Sizes
<1>2. /\ Len(Stream) \in Nat /\ Len(Stream) >= 4
      /\ \A i \in 1 .. 4 : Stream[i] = received[i]
  BY <1>1, StreamFacts
<1>3. InStream("c") /\ InStream("CR") /\ InStream("r") /\ InStream(">")
  BY <1>1, <1>2 DEF InStream
<1>4. \A i \in 1 .. Len(Stream) : i <= Len(Expected) => Stream[i] # "?"
  BY <1>1, <1>2, Sizes
<1> QED
  BY <1>3, <1>4 DEF Spoilt

\* Reading moves the stream along, and the adapter reading leaves it: what holds
\* of it stays.
LEMMA SameStream ==
  ASSUME Stream' = Stream, Awaits' <=> Awaits, answer' = answer
  PROVE  (EachOnce' <=> EachOnce) /\ (Spoilt' <=> Spoilt)
BY DEF EachOnce, Spoilt, InStream, Owes

-----------------------------------------------------------------------------
(* Types: every step keeps them                                             *)

LEMMA TypedStep ==
  ASSUME Typed, [Next]_vars
  PROVE  Typed'
<1> USE LinePassAssumption
<1>1. /\ phase \in {"purge", "write", "read", "compare", "done"}
      /\ passed \in 0 .. Rounds /\ Len(received) <= 4 /\ Len(received) \in Nat
      /\ received \in Seq(Symbols) /\ rx \in Seq(Symbols)
      /\ command \in Seq(Symbols) /\ answer \in Seq(Symbols)
      /\ {reflects, errors, harm, late} \subseteq BOOLEAN
      /\ faults \in 0 .. MaxFaults /\ Len(Expected) = 4
      /\ CommandForm /\ (phase # "done" => passed < Rounds)
  BY Types, Sizes DEF Typed, TypeOK
<1>2. /\ Command \in Seq(Symbols) /\ Reply \in Seq(Symbols) /\ <<>> \in Seq(Symbols)
      /\ "?" \in Symbols
  BY Sizes DEF Symbols
<1>3. ASSUME phase' \in {"purge", "write", "read", "compare", "done"},
             passed' \in 0 .. Rounds, Len(received') <= 4,
             received' \in Seq(Symbols), rx' \in Seq(Symbols),
             command' \in {<<>>, Command, <<"CR">>, <<"?">>, <<"?", "CR">>},
             answer' \in Seq(Symbols),
             {reflects', errors', harm', late'} \subseteq BOOLEAN,
             faults' \in 0 .. MaxFaults, phase' # "done" => passed' < Rounds
      PROVE  Typed'
  <2>1. /\ <<"CR">> \in Seq(Symbols) /\ <<"?">> \in Seq(Symbols)
        /\ <<"?", "CR">> \in Seq(Symbols)
    BY DEF Symbols
  <2>2. command' \in Seq(Symbols)
    BY <1>2, <1>3, <2>1
  <2>3. Len(Expected') = 4 /\ Symbols' = Symbols
    BY Sizes DEF Expected, Command, Reply, Symbols
  <2>4. earlier' \in {"none", "due", "mixed"}
    <3>1. earlier' = earlier \/ earlier' \in {"none", "mixed"}
      BY DEF Next, Program, Purge, Write, Read, Compare, PortFails, Adapter,
         FinishesEarlier, Fault, Done, adapter, vars
    <3> QED
      BY <3>1 DEF Typed, TypeOK
  <2> QED
    BY <1>3, <2>2, <2>3, <2>4 DEF Typed, TypeOK, CommandForm, Command, Symbols
<1>4. CASE Purge
  <2>1. /\ phase' = "write" /\ received' = <<>> /\ Len(received') <= 4
        /\ rx' = <<>> /\ errors' = FALSE /\ passed' = passed /\ phase # "done"
    BY <1>4 DEF Purge, Purged
  <2>2. UNCHANGED <<reflects, command, answer, faults, harm, late>>
    BY <1>4 DEF Purge, adapter
  <2> QED
    BY <1>1, <1>2, <1>3, <2>1, <2>2 DEF CommandForm
<1>5. CASE Write
  <2>1. rx \o Command \in Seq(Symbols)
    BY <1>1, <1>2, ConcatFacts
  <2> QED
    BY <1>1, <1>2, <1>3, <1>5, <2>1 DEF Write, CommandForm
<1>6. CASE Read
  <2>1. rx # <<>> /\ Len(received) < 4 =>
          /\ Append(received, Head(rx)) \in Seq(Symbols) /\ Tail(rx) \in Seq(Symbols)
          /\ Len(Append(received, Head(rx))) <= 4
    BY <1>1, HeadTailProperties, AppendProperties
  <2> QED
    BY <1>1, <1>3, <1>6, <2>1 DEF Read, HasRoom, adapter, CommandForm
<1>7. CASE Compare
  <2>1. CASE Matches
    <3>1. /\ passed < Rounds /\ passed' = passed + 1 /\ errors' = FALSE
          /\ phase' = IF passed' = Rounds THEN "done" ELSE "purge"
      BY <1>1, <1>7, <2>1 DEF Compare
    <3>2. passed' \in 0 .. Rounds /\ (phase' # "done" => passed' < Rounds)
      BY <1>1, <3>1
    <3>3. UNCHANGED <<reflects, received, rx, command, answer, faults, harm, late>>
      BY <1>7 DEF Compare, adapter
    <3> QED
      BY <1>1, <1>3, <3>1, <3>2, <3>3 DEF CommandForm
  <2>2. CASE ~Matches
    BY <1>1, <1>3, <1>7, <2>2 DEF Compare, adapter, CommandForm
  <2> QED
    BY <2>1, <2>2
<1>8. CASE PortFails
  BY <1>1, <1>3, <1>8 DEF PortFails, adapter, CommandForm
<1>9. CASE Adapter
  <2>1. command # <<>> =>
          Tail(command) \in {<<>>, <<"CR">>}
    BY <1>1, Shorter
  <2>2. answer # <<>> =>
          /\ Append(rx, Head(answer)) \in Seq(Symbols) /\ Tail(answer) \in Seq(Symbols)
    BY <1>1, HeadTailProperties, AppendProperties
  <2>3. CASE /\ command # <<>> /\ answer = <<>> /\ command' = Tail(command)
             /\ answer' = IF Head(command) = "CR" THEN Reply ELSE <<>>
             /\ UNCHANGED rx
    BY <1>1, <1>2, <1>3, <1>9, <2>1, <2>3 DEF Adapter
  <2>4. CASE /\ answer # <<>> /\ UNCHANGED command
             /\ rx' = Append(rx, Head(answer)) /\ answer' = Tail(answer)
    BY <1>1, <1>3, <1>9, <2>2, <2>4 DEF Adapter, CommandForm
  <2> QED
    BY <1>9, <2>3, <2>4 DEF Adapter, Answer
<1>10. CASE Fault
  <2>1. faults' \in 0 .. MaxFaults
    BY <1>1, <1>10 DEF Fault
  <2>2. ASSUME NEW i \in 1 .. Len(rx) + 1
        PROVE  /\ SubSeq(rx, 1, i - 1) \o SubSeq(rx, i + 1, Len(rx)) \in Seq(Symbols)
               /\ SubSeq(rx, 1, i - 1) \o <<"?">> \o SubSeq(rx, i + 1, Len(rx))
                    \in Seq(Symbols)
    <3>1. SubSeq(rx, 1, i - 1) \in Seq(Symbols)
      BY <1>1, SubSeqProperties, ElementOfSeq
    <3>2. SubSeq(rx, i + 1, Len(rx)) \in Seq(Symbols)
      BY <1>1, SubSeqProperties, ElementOfSeq
    <3>3. <<"?">> \in Seq(Symbols)
      BY DEF Symbols
    <3> QED
      BY <3>1, <3>2, <3>3, ConcatProperties
  <2>3. CASE /\ command # <<>>
             /\ command' \in {Tail(command), <<"?">> \o Tail(command)}
             /\ harm' = (harm \/ Head(command) = "CR") /\ UNCHANGED <<rx, errors>>
    <3>1. command' \in {<<>>, <<"CR">>, <<"?">>, <<"?", "CR">>}
      BY <1>1, <2>3, Shorter
    <3> QED
      BY <1>1, <1>3, <1>10, <2>1, <2>3, <3>1 DEF Fault
  <2>4. CASE \E i \in 1 .. Len(rx) + 1 :
               /\ \/ /\ i <= Len(rx) /\ rx[i] # "?" /\ UNCHANGED errors
                     /\ rx' = SubSeq(rx, 1, i - 1) \o SubSeq(rx, i + 1, Len(rx))
                  \/ /\ rx' = SubSeq(rx, 1, i - 1) \o <<"?">>
                              \o SubSeq(rx, i + 1, Len(rx))
                     /\ errors' \in {errors, TRUE}
               /\ harm' = (harm \/ Concerns(i)) /\ UNCHANGED command
    <3>1. rx' \in Seq(Symbols) /\ errors' \in BOOLEAN
      BY <1>1, <2>2, <2>4
    <3>2. harm' \in BOOLEAN
      BY <1>1, <2>4 DEF Concerns
    <3> QED
      BY <1>1, <1>3, <1>10, <2>1, <2>4, <3>1, <3>2 DEF Fault, CommandForm
  <2> QED
    BY <1>10, <2>3, <2>4 DEF Fault
<1>11. CASE Done \/ UNCHANGED vars
  BY <1>1, <1>3, <1>11 DEF Done, vars, adapter, CommandForm
<1>12. CASE FinishesEarlier
  <2>1. Append(rx, "?") \in Seq(Symbols)
    BY <1>1, <1>2, AppendProperties
  <2>2. harm' \in BOOLEAN
    BY <1>1, <1>12 DEF FinishesEarlier, Concerns
  <2> QED
    BY <1>1, <1>3, <1>12, <2>1, <2>2 DEF FinishesEarlier, CommandForm
<1> QED
  BY <1>4, <1>5, <1>6, <1>7, <1>8, <1>9, <1>10, <1>11, <1>12 DEF Next, Program

-----------------------------------------------------------------------------
(* PASS: a round that was disturbed never matches                           *)

\* Whatever is done does not matter for a round when nothing is read.
LEMMA PurgeClean ==
  ASSUME Typed, Clean, Typed', Purge
  PROVE  Clean'
<1>1. /\ phase = "purge" /\ phase' = "write" /\ received' = <<>> /\ rx' = <<>>
      /\ UNCHANGED <<command, answer, harm, late>>
  BY DEF Purge, Purged, adapter
<1>2. Waiting' /\ Judged' /\ PassMeansClean'
  BY <1>1 DEF Waiting, Judged, PassMeansClean, Pass
<1>3. Rested'
  BY <1>1 DEF Clean, Rested, Awaits
<1> QED
  BY <1>2, <1>3 DEF Clean

\* The command's reflection, and noise before it, are all there is to read.
LEMMA WriteClean ==
  ASSUME Typed, Clean, Typed', Write
  PROVE  Clean'
<1>1. /\ phase = "write" /\ phase' = "read" /\ command' = Command
      /\ rx' = IF reflects THEN rx \o Command ELSE rx
      /\ UNCHANGED <<reflects, received, answer, harm, late>>
  BY DEF Write
<1>2. /\ received = <<>> /\ answer = <<>> /\ ~harm /\ ~late
      /\ \A i \in 1 .. Len(rx) : rx[i] = "?"
  BY <1>1 DEF Clean, Waiting, Rested
<1>3. /\ rx \in Seq(Symbols) /\ rx' \in Seq(Symbols) /\ Len(rx) \in Nat
      /\ reflects \in BOOLEAN
  BY Types DEF Typed, TypeOK
<1>4. Stream' = rx'
  BY <1>1, <1>2, <1>3, ConcatEmptySeq DEF Stream
<1>5. \A i \in 1 .. Len(Stream') :
        \/ Stream'[i] = "?"
        \/ i = Len(rx) + 1 /\ Stream'[i] = "c" /\ reflects
        \/ i = Len(rx) + 2 /\ Stream'[i] = "CR" /\ reflects
  <2>1. CASE reflects
    <3>1. Command \in Seq(Symbols) /\ Len(Command) = 2
          /\ Command[1] = "c" /\ Command[2] = "CR"
      BY Sizes DEF Symbols
    <3>2. /\ Len(rx') = Len(rx) + 2
          /\ \A i \in 1 .. Len(rx) : rx'[i] = rx[i]
          /\ rx'[Len(rx) + 1] = "c" /\ rx'[Len(rx) + 2] = "CR"
      <4>1. rx' = rx \o Command
        BY <1>1, <2>1
      <4>a. rx \in Seq(Symbols) /\ Command \in Seq(Symbols)
        BY <1>3, <3>1
      <4>2. /\ Len(rx \o Command) = Len(rx) + Len(Command)
            /\ \A i \in 1 .. Len(rx) : (rx \o Command)[i] = rx[i]
            /\ \A i \in 1 .. Len(Command) : (rx \o Command)[Len(rx) + i] = Command[i]
        BY <4>a, ConcatFacts
      <4>3. 1 \in 1 .. Len(Command) /\ 2 \in 1 .. Len(Command)
        BY <3>1
      <4> QED
        BY <3>1, <4>1, <4>2, <4>3
    <3> QED
      BY <1>2, <1>3, <1>4, <2>1, <3>2
  <2>2. CASE ~reflects
    BY <1>1, <1>2, <1>4, <2>2
  <2> QED
    BY <2>1, <2>2
<1>6. Awaits'
  <2>1. Len(Command) = 2 /\ Command[2] = "CR" /\ command' = Command
    BY <1>1, Sizes
  <2> QED
    BY <2>1 DEF Awaits
<1>7. EachOnce'
  <2>1. \A x \in {"r", ">"} : ~InStream(x)'
    BY <1>5 DEF InStream
  <2>2. \A i, j \in 1 .. Len(Stream') :
          Stream'[i] = Stream'[j] /\ Stream'[i] # "?" => i = j
    BY <1>5
  <2> QED
    BY <1>1, <1>2, <2>1, <2>2 DEF EachOnce
<1>8. ~reflects => Spoilt'
  BY <1>5 DEF Spoilt, InStream
<1>9. Judged'
  BY <1>1, <1>2, <1>7, <1>8 DEF Judged
<1> QED
  BY <1>1, <1>9 DEF Clean, Waiting, Rested, PassMeansClean, Pass

LEMMA ReadClean ==
  ASSUME Typed, Clean, Typed', Read
  PROVE  Clean'
<1>1. /\ phase = "read" /\ phase' \in {"read", "compare"}
      /\ UNCHANGED <<reflects, command, answer, harm>>
  BY DEF Read, adapter
<1>2. Stream' = Stream
  <2>1. received \in Seq(Symbols) /\ rx \in Seq(Symbols)
    BY Types DEF Typed
  <2>2. \/ rx # <<>> /\ received' = Append(received, Head(rx)) /\ rx' = Tail(rx)
        \/ received' = received /\ rx' = rx
    BY DEF Read
  <2> QED
    BY <2>1, <2>2, ReadKeepsStream DEF Stream
<1>3. (EachOnce' <=> EachOnce) /\ (Spoilt' <=> Spoilt)
  BY <1>1, <1>2, SameStream DEF Awaits
<1>4. late' => phase' = "compare" /\ Len(received') < Len(Expected)
  BY <1>1 DEF Read, Clean, Judged
<1>5. Judged'
  BY <1>1, <1>3, <1>4 DEF Clean, Judged, Expected, Command, Reply
<1> QED
  BY <1>1, <1>5 DEF Clean, Waiting, Rested, PassMeansClean, Pass

\* A round that matches was not disturbed and leaves nothing behind.
LEMMA CompareClean ==
  ASSUME Typed, Clean, Typed', Compare
  PROVE  Clean'
<1>1. /\ phase = "compare" /\ phase' \in {"purge", "done"}
      /\ UNCHANGED <<reflects, received, rx, command, answer, harm, late>>
  BY DEF Compare, adapter
<1>2. passed < Rounds /\ passed \in Nat /\ Rounds \in Nat
  BY <1>1, LinePassAssumption DEF Typed, TypeOK
<1>3. CASE ~Matches
  <2>1. phase' = "done" /\ passed' # Rounds
    BY <1>2, <1>3 DEF Compare
  <2> QED
    BY <2>1 DEF Clean, Waiting, Rested, Judged, PassMeansClean, Pass
<1>4. CASE Matches
  <2>1. received = Expected /\ EachOnce
    BY <1>1, <1>4 DEF Matches, Clean, Judged
  <2>2. reflects /\ ~harm
    BY <1>1, <2>1, SpoiltNeverMatches DEF Clean, Judged, Typed
  <2>3. ~late
    BY <1>1, <2>1, Sizes DEF Clean, Judged
  <2>4. InStream("r") /\ InStream(">")
    <3>1. /\ Len(received) = 4 /\ received[3] = "r" /\ received[4] = ">"
          /\ Len(Stream) \in Nat /\ Len(Stream) >= 4
      BY <2>1, Sizes, StreamFacts DEF Typed
    <3>2. Stream[3] = "r" /\ Stream[4] = ">"
      BY <3>1, StreamFacts DEF Typed
    <3> QED
      BY <3>1, <3>2 DEF InStream
  <2>5. ~Awaits /\ answer = <<>>
    BY <2>1, <2>4, OwesForm DEF EachOnce
  <2> QED
    BY <1>1, <2>2, <2>3, <2>5
       DEF Clean, Waiting, Rested, Judged, PassMeansClean, Pass, Awaits
<1> QED
  BY <1>3, <1>4

LEMMA PortFailsClean ==
  ASSUME Typed, Clean, Typed', PortFails
  PROVE  Clean'
<1>1. phase' = "done" /\ passed' = passed /\ passed < Rounds /\ passed \in Nat
  BY DEF PortFails, Typed, TypeOK
<1>2. passed' # Rounds
  BY <1>1, LinePassAssumption
<1> QED
  BY <1>1, <1>2 DEF Clean, Waiting, Rested, Judged, PassMeansClean, Pass

\* The adapter's own steps: it takes a byte of the command, or sends one.
LEMMA AdapterClean ==
  ASSUME Typed, Clean, Typed', Adapter
  PROVE  Clean'
<1>1. UNCHANGED <<reflects, phase, passed, received, harm, late>>
  BY DEF Adapter
<1>2. CASE /\ command # <<>> /\ answer = <<>> /\ command' = Tail(command)
           /\ answer' = (IF Head(command) = "CR" THEN Reply ELSE <<>>)
           /\ UNCHANGED rx
  <2>1. Stream' = Stream
    BY <1>1, <1>2 DEF Stream
  <2>2. /\ Awaits <=> command \in {Command, <<"CR">>, <<"?", "CR">>}
        /\ Awaits' <=> command' \in {Command, <<"CR">>, <<"?", "CR">>}
    <3>1. CommandForm /\ CommandForm'
      BY DEF Typed
    <3>2. Command' = Command
      BY DEF Command
    <3>3. Awaits <=> command \in {Command, <<"CR">>, <<"?", "CR">>}
      BY <3>1, AwaitsForm DEF Awaits, CommandForm
    <3>4. Awaits' <=> command' \in {Command, <<"CR">>, <<"?", "CR">>}
      BY <3>1, <3>2, AwaitsForm DEF Awaits, CommandForm
    <3> QED
      BY <3>3, <3>4
  <2>3. CASE Head(command) = "CR"
    <3>1. command = <<"CR">> /\ command' = <<>> /\ answer' = Reply
      BY <1>2, <2>3, Shorter DEF Typed
    <3>2. Awaits /\ ~Awaits'
      BY <2>2, <3>1, Sizes
    <3>3. phase \notin {"purge", "write"}
      BY <3>2 DEF Clean, Rested
    <3>4. \A x \in {"r", ">"} : Owes(x) /\ Owes(x)'
      <4>1. /\ 1 \in 1 .. Len(answer') /\ answer'[1] = "r"
            /\ 2 \in 1 .. Len(answer') /\ answer'[2] = ">"
        BY <3>1, Sizes
      <4> QED
        BY <3>2, <4>1 DEF Owes
    <3>5. EachOnce => EachOnce'
      BY <2>1, <3>1, <3>2, <3>4 DEF EachOnce, InStream, Reply
    <3>6. Spoilt => Spoilt'
      BY <2>1, <3>4 DEF Spoilt, InStream, Expected, Command, Reply
    <3> QED
      BY <1>1, <3>3, <3>5, <3>6
         DEF Clean, Waiting, Rested, Judged, PassMeansClean, Pass, Expected, Command, Reply
  <2>4. CASE Head(command) # "CR"
    <3>1. answer' = answer
      BY <1>2, <2>4
    <3>2. Awaits' <=> Awaits
      <4>1. /\ command # <<"CR">> /\ Command = <<"c", "CR">>
            /\ command \in {Command, <<"?", "CR">>} <=> command' = <<"CR">>
            /\ command' \in {<<>>, <<"CR">>}
        BY <1>2, <2>4, Shorter, Sizes DEF Typed
      <4>2. <<>> \notin {<<"c", "CR">>, <<"CR">>, <<"?", "CR">>}
        OBVIOUS
      <4> QED
        BY <2>2, <4>1, <4>2
    <3>3. (EachOnce' <=> EachOnce) /\ (Spoilt' <=> Spoilt)
      BY <2>1, <3>1, <3>2, SameStream
    <3> QED
      BY <1>1, <1>2, <3>1, <3>2, <3>3
         DEF Clean, Waiting, Rested, Judged, PassMeansClean, Pass, Expected, Command, Reply
  <2> QED
    BY <2>3, <2>4
<1>3. CASE /\ answer # <<>> /\ UNCHANGED command
           /\ rx' = Append(rx, Head(answer)) /\ answer' = Tail(answer)
  <2>1. phase \notin {"purge", "write"}
    BY <1>3 DEF Clean, Rested
  <2>2. CASE phase = "done"
    BY <1>1, <2>2 DEF Clean, Waiting, Rested, Judged, PassMeansClean, Pass
  <2>3. CASE phase \in {"read", "compare"}
    <3>1. EachOnce /\ (harm \/ ~reflects => Spoilt)
      BY <2>3 DEF Clean, Judged
    <3>2. \/ Head(answer) = "r" /\ answer' = <<">">> /\ answer = Reply
          \/ Head(answer) = ">" /\ answer' = <<>> /\ answer = <<">">>
      BY <1>3, <3>1, AnswerForm DEF EachOnce
    <3>3. ~Awaits /\ ~Awaits'
      BY <1>3, <3>1 DEF EachOnce, Awaits
    <3>4. /\ Owes("r") <=> answer = Reply
          /\ Owes(">")
      BY <1>3, <3>1, <3>3, OwesForm DEF EachOnce
    <3>5. /\ ~Owes("r")'
          /\ Owes(">")' <=> answer' # <<>>
      <4>1. CASE answer' = <<>>
        BY <3>3, <4>1 DEF Owes
      <4>2. CASE answer' = <<">">>
        <5>1. Len(answer') = 1 /\ answer'[1] = ">" /\ 1 \in 1 .. Len(answer')
          BY <4>2
        <5> QED
          BY <3>3, <4>2, <5>1 DEF Owes
      <4> QED
        BY <3>2, <4>1, <4>2
    <3>6. /\ Len(Stream) \in Nat /\ Len(Stream') = Len(Stream) + 1
          /\ \A i \in 1 .. Len(Stream) : Stream'[i] = Stream[i]
          /\ Stream'[Len(Stream) + 1] = Head(answer)
      <4>1. received \in Seq(Symbols) /\ rx \in Seq(Symbols) /\ Head(answer) \in Symbols
        BY <3>2, Types DEF Typed, Symbols
      <4>2. Stream' = Append(Stream, Head(answer))
        BY <1>1, <1>3, <4>1, AppendToStream DEF Stream
      <4> QED
        BY <4>1, <4>2, StreamFacts, AppendProperties DEF Typed
    <3>7. \A x \in {"c", "CR", "r", ">"} :
            InStream(x)' <=> (InStream(x) \/ x = Head(answer))
      BY <3>6 DEF InStream
    <3>8. ~InStream(Head(answer))
      BY <3>1, <3>2, <3>4, Sizes DEF EachOnce
    <3>9. EachOnce'
      <4>1. \A i, j \in 1 .. Len(Stream') :
              Stream'[i] = Stream'[j] /\ Stream'[i] # "?" => i = j
        BY <3>1, <3>6, <3>8 DEF EachOnce, InStream
      <4>2. \A x \in {"r", ">"} : InStream(x)' => ~Owes(x)'
        BY <3>1, <3>2, <3>4, <3>5, <3>7 DEF EachOnce
      <4> QED
        BY <3>2, <3>3, <4>1, <4>2 DEF EachOnce
    <3>10. Spoilt => Spoilt'
      <4>1. \A x \in {"c", "CR"} : ~InStream(x) => ~InStream(x)'
        BY <3>2, <3>7
      <4>2. \A x \in {"r", ">"} : ~InStream(x) /\ ~Owes(x) => ~InStream(x)' /\ ~Owes(x)'
        BY <3>2, <3>4, <3>5, <3>7
      <4>3. \A i \in 1 .. Len(Stream) :
              i \in 1 .. Len(Stream') /\ Stream'[i] = Stream[i]
        BY <3>6
      <4> QED
        BY <4>1, <4>2, <4>3 DEF Spoilt, Expected, Command, Reply
    <3> QED
      BY <1>1, <2>3, <3>1, <3>9, <3>10
         DEF Clean, Waiting, Rested, Judged, PassMeansClean, Pass, Expected, Command, Reply
  <2> QED
    BY <2>1, <2>2, <2>3 DEF Typed, TypeOK
<1> QED
  BY <1>2, <1>3 DEF Adapter, Answer

\* What is in the receive queue after byte i of it is lost, or is damaged (noise
\* joins at its end).
Lost(q, i) == SubSeq(q, 1, i - 1) \o SubSeq(q, i + 1, Len(q))

Noisy(q, i, x) == SubSeq(q, 1, i - 1) \o <<x>> \o SubSeq(q, i + 1, Len(q))

LEMMA Without ==
  ASSUME NEW S, NEW q \in Seq(S), NEW i \in 1 .. Len(q)
  PROVE  LET t == Lost(q, i)
         IN  /\ Len(t) = Len(q) - 1
             /\ \A j \in 1 .. Len(q) - 1 : t[j] = IF j < i THEN q[j] ELSE q[j + 1]
<1> DEFINE t == Lost(q, i)
           a == SubSeq(q, 1, i - 1)
           b == SubSeq(q, i + 1, Len(q))
           n == Len(q)
<1>1. n \in Nat /\ i \in Nat /\ 1 <= i /\ i <= n /\ \A j \in 1 .. n : q[j] \in S
  BY ElementOfSeq, LenProperties
<1>2. a \in Seq(S) /\ b \in Seq(S)
  BY <1>1, SubSeqProperties
<1>3. Len(a) = i - 1 /\ \A j \in 1 .. i - 1 : a[j] = q[j]
  BY <1>1, SubSeqProperties
<1>4. Len(b) = n - i /\ \A j \in 1 .. n - i : b[j] = q[i + j]
  BY <1>1
<1>5. t = a \o b
  BY DEF Lost
<1> HIDE DEF t, a, b, n
<1>6. /\ Len(a \o b) = Len(a) + Len(b)
      /\ \A j \in 1 .. Len(a) : (a \o b)[j] = a[j]
      /\ \A j \in 1 .. Len(b) : (a \o b)[Len(a) + j] = b[j]
  BY <1>2, ConcatFacts
<1>7. Len(t) = n - 1
  <2>1. Len(t) = Len(a) + Len(b)
    BY <1>5, <1>6
  <2>2. n \in Nat /\ i \in Nat /\ Len(a) = i - 1 /\ Len(b) = n - i
    BY <1>1, <1>3, <1>4
  <2> QED
    BY <2>1, <2>2
<1>8. ASSUME NEW j \in 1 .. n - 1
      PROVE  t[j] = IF j < i THEN q[j] ELSE q[j + 1]
  <2>1. CASE j < i
    <3>1. j \in 1 .. i - 1 /\ j \in 1 .. Len(a)
      BY <1>1, <1>3, <2>1
    <3> QED
      BY <1>3, <1>5, <1>6, <2>1, <3>1
  <2>2. CASE ~(j < i)
    <3> DEFINE m == j - (i - 1)
    <3>1. m \in 1 .. n - i /\ j = Len(a) + m /\ i + m = j + 1
      BY <1>1, <1>3, <2>2
    <3> HIDE DEF m
    <3>2. t[j] = b[m]
      BY <1>4, <1>5, <1>6, <3>1
    <3>3. b[m] = q[j + 1]
      BY <1>4, <3>1
    <3> QED
      BY <2>2, <3>2, <3>3
  <2> QED
    BY <2>1, <2>2
<1> QED
  BY <1>7, <1>8 DEF n, t

LEMMA WithNoise ==
  ASSUME NEW S, NEW q \in Seq(S), NEW i \in 1 .. Len(q) + 1, NEW x \in S
  PROVE  LET t == Noisy(q, i, x)
         IN  /\ Len(t) = IF i <= Len(q) THEN Len(q) ELSE Len(q) + 1
             /\ \A j \in 1 .. Len(t) : t[j] = IF j = i THEN x ELSE q[j]
<1> DEFINE t == Noisy(q, i, x)
           a == SubSeq(q, 1, i - 1)
           b == SubSeq(q, i + 1, Len(q))
           d == a \o <<x>>
<1>1. Len(q) \in Nat /\ \A j \in 1 .. Len(q) : q[j] \in S
  BY ElementOfSeq, LenProperties
<1>2. /\ a \in Seq(S) /\ Len(a) = i - 1
      /\ \A j \in 1 .. i - 1 : a[j] = q[j]
  BY <1>1, SubSeqProperties
<1>3. /\ b \in Seq(S) /\ Len(b) = IF i <= Len(q) THEN Len(q) - i ELSE 0
      /\ \A j \in 1 .. Len(b) : b[j] = q[i + j]
  <2>1. \A j \in i + 1 .. Len(q) : q[j] \in S
    BY <1>1
  <2>2. b \in Seq(S)
    BY <1>1, <2>1, SubSeqProperties
  <2> QED
    BY <1>1, <2>2
<1>4. t = d \o b
  BY DEF Noisy
<1> HIDE DEF t, a, b
<1>5. /\ <<x>> \in Seq(S) /\ Len(<<x>>) = 1 /\ <<x>>[1] = x
  OBVIOUS
<1>6. /\ d \in Seq(S) /\ Len(d) = i
      /\ \A j \in 1 .. i - 1 : d[j] = q[j]
      /\ d[i] = x
  <2> DEFINE e == <<x>>
  <2>1. e \in Seq(S) /\ Len(e) = 1 /\ e[1] = x /\ d = a \o e
    BY <1>5
  <2> HIDE DEF e
  <2>2. /\ a \o e \in Seq(S) /\ Len(a \o e) = Len(a) + Len(e)
        /\ \A j \in 1 .. Len(a) : (a \o e)[j] = a[j]
        /\ \A j \in 1 .. Len(e) : (a \o e)[Len(a) + j] = e[j]
    BY <1>2, <2>1, ConcatFacts
  <2>3. 1 \in 1 .. Len(e) /\ Len(a) + 1 = i
    BY <1>2, <2>1
  <2> QED
    BY <1>2, <2>1, <2>2, <2>3
<1> HIDE DEF d
<1>a. d \in Seq(S) /\ b \in Seq(S)
  BY <1>3, <1>6
<1>7. /\ Len(d \o b) = Len(d) + Len(b)
      /\ \A j \in 1 .. Len(d) : (d \o b)[j] = d[j]
      /\ \A j \in 1 .. Len(b) : (d \o b)[Len(d) + j] = b[j]
  BY <1>a, ConcatFacts
<1>8. Len(t) = IF i <= Len(q) THEN Len(q) ELSE Len(q) + 1
  <2>1. i \in Nat /\ 1 <= i /\ i <= Len(q) + 1 /\ Len(t) = i + Len(b)
    BY <1>1, <1>4, <1>6, <1>7
  <2>2. Len(b) = IF i <= Len(q) THEN Len(q) - i ELSE 0
    BY <1>3
  <2> QED
    BY <1>1, <2>1, <2>2
<1>9. ASSUME NEW j \in 1 .. Len(t)
      PROVE  t[j] = IF j = i THEN x ELSE q[j]
  <2>1. CASE j <= i
    BY <1>1, <1>4, <1>6, <1>7, <2>1
  <2>2. CASE j > i
    <3> DEFINE m == j - i
    <3>1. /\ j \in Nat /\ i \in Nat /\ Len(b) \in Nat
          /\ Len(t) = i + Len(b) /\ j <= Len(t)
      BY <1>1, <1>3, <1>4, <1>6, <1>7
    <3>2. m \in 1 .. Len(b) /\ j = Len(d) + m /\ i + m = j
      BY <1>6, <2>2, <3>1
    <3> HIDE DEF m
    <3>3. t[j] = b[m]
      BY <1>4, <1>7, <3>2
    <3>4. b[m] = q[j]
      BY <1>3, <3>2
    <3>5. j # i
      BY <2>2, <3>1
    <3> QED
      BY <3>3, <3>4, <3>5
  <2> QED
    BY <1>1, <1>8, <2>1, <2>2
<1> QED
  BY <1>8, <1>9 DEF t

\* The same of two queues, one behind the other, of which the second one q
\* changed to t.
Joined(p, q) == p \o q

LEMMA LossIn ==
  ASSUME NEW S, NEW p \in Seq(S), NEW q \in Seq(S), NEW i \in 1 .. Len(q)
  PROVE  LET t == Lost(q, i)
         IN  /\ Len(Joined(p, q)) \in Nat /\ Len(Joined(p, t)) = Len(Joined(p, q)) - 1
             /\ Len(p) + i \in 1 .. Len(Joined(p, q)) /\ Joined(p, q)[Len(p) + i] = q[i]
             /\ \A j \in 1 .. Len(Joined(p, t)) :
                  Joined(p, t)[j] = IF j < Len(p) + i THEN Joined(p, q)[j]
                                                      ELSE Joined(p, q)[j + 1]
<1> DEFINE t == Lost(q, i)
<1>p. t \in Seq(S)
  <2>1. SubSeq(q, 1, i - 1) \in Seq(S) /\ SubSeq(q, i + 1, Len(q)) \in Seq(S)
    BY SubSeqProperties, ElementOfSeq, LenProperties
  <2> QED
    BY <2>1, ConcatProperties DEF Lost
<1>q. /\ Len(t) = Len(q) - 1
      /\ \A j \in 1 .. Len(q) - 1 : t[j] = IF j < i THEN q[j] ELSE q[j + 1]
  BY Without
<1> DEFINE a == Joined(p, q)
           b == Joined(p, t)
           n == Len(p)
<1> HIDE DEF t
<1>1. n \in Nat /\ Len(q) \in Nat /\ Len(t) \in Nat /\ i \in Nat
  BY <1>p, LenProperties
<1> HIDE DEF n
<1>a. \A u \in Seq(S) :
        /\ Len(Joined(p, u)) = n + Len(u) /\ \A j \in 1 .. n : Joined(p, u)[j] = p[j]
        /\ \A j \in 1 .. Len(u) : Joined(p, u)[n + j] = u[j]
  BY ConcatFacts DEF n, Joined
<1>2. /\ Len(a) = n + Len(q) /\ \A j \in 1 .. n : a[j] = p[j]
      /\ \A j \in 1 .. Len(q) : a[n + j] = q[j]
  BY <1>a
<1>3. /\ Len(b) = n + Len(t) /\ \A j \in 1 .. n : b[j] = p[j]
      /\ \A j \in 1 .. Len(t) : b[n + j] = t[j]
  BY <1>p, <1>a
<1> HIDE DEF a, b
<1>4. /\ Len(a) \in Nat /\ Len(b) = Len(a) - 1
      /\ n + i \in 1 .. Len(a) /\ a[n + i] = q[i]
  BY <1>q, <1>1, <1>2, <1>3
<1>5. ASSUME NEW j \in 1 .. Len(b)
      PROVE  b[j] = IF j < n + i THEN a[j] ELSE a[j + 1]
  <2>1. CASE j <= n
    BY <1>q, <1>1, <1>2, <1>3, <2>1
  <2>2. CASE j > n
    <3> DEFINE m == j - n
    <3>1. /\ m \in 1 .. Len(q) - 1 /\ m \in 1 .. Len(q) /\ m + 1 \in 1 .. Len(q)
          /\ m \in 1 .. Len(t) /\ j = n + m
          /\ j + 1 = n + (m + 1) /\ (j < n + i <=> m < i)
      BY <1>q, <1>1, <1>3, <2>2
    <3> HIDE DEF m
    <3> QED
      BY <1>q, <1>2, <1>3, <3>1
  <2> QED
    BY <1>q, <1>1, <1>4, <2>1, <2>2
<1> QED
  BY <1>4, <1>5 DEF a, b, n, t

LEMMA NoiseIn ==
  ASSUME NEW S, NEW p \in Seq(S), NEW q \in Seq(S), NEW i \in 1 .. Len(q) + 1,
         NEW x \in S
  PROVE  LET t == Noisy(q, i, x)
         IN  /\ Len(Joined(p, q)) \in Nat /\ Len(p) + i \in 1 .. Len(Joined(p, q)) + 1
             /\ Len(Joined(p, t)) = IF Len(p) + i <= Len(Joined(p, q))
                                    THEN Len(Joined(p, q)) ELSE Len(Joined(p, q)) + 1
             /\ \A j \in 1 .. Len(Joined(p, t)) :
                  Joined(p, t)[j] = IF j = Len(p) + i THEN x ELSE Joined(p, q)[j]
<1> DEFINE t == Noisy(q, i, x)
<1>p. t \in Seq(S)
  <2>1. /\ SubSeq(q, 1, i - 1) \in Seq(S) /\ SubSeq(q, i + 1, Len(q)) \in Seq(S)
        /\ <<x>> \in Seq(S)
    BY SubSeqProperties, ElementOfSeq, LenProperties
  <2> QED
    BY <2>1, ConcatProperties DEF Noisy
<1>q. /\ Len(t) = IF i <= Len(q) THEN Len(q) ELSE Len(q) + 1
      /\ \A j \in 1 .. Len(t) : t[j] = IF j = i THEN x ELSE q[j]
  BY WithNoise
<1> DEFINE a == Joined(p, q)
           b == Joined(p, t)
           n == Len(p)
<1> HIDE DEF t
<1>1. n \in Nat /\ Len(q) \in Nat /\ Len(t) \in Nat /\ i \in Nat
  BY <1>p, LenProperties
<1> HIDE DEF n
<1>a. \A u \in Seq(S) :
        /\ Len(Joined(p, u)) = n + Len(u) /\ \A j \in 1 .. n : Joined(p, u)[j] = p[j]
        /\ \A j \in 1 .. Len(u) : Joined(p, u)[n + j] = u[j]
  BY ConcatFacts DEF n, Joined
<1>2. /\ Len(a) = n + Len(q) /\ \A j \in 1 .. n : a[j] = p[j]
      /\ \A j \in 1 .. Len(q) : a[n + j] = q[j]
  BY <1>a
<1>3. /\ Len(b) = n + Len(t) /\ \A j \in 1 .. n : b[j] = p[j]
      /\ \A j \in 1 .. Len(t) : b[n + j] = t[j]
  BY <1>p, <1>a
<1> HIDE DEF a, b
<1>4. /\ Len(a) \in Nat /\ n + i \in 1 .. Len(a) + 1
      /\ Len(b) = IF n + i <= Len(a) THEN Len(a) ELSE Len(a) + 1
  BY <1>q, <1>1, <1>2, <1>3
<1>5. ASSUME NEW j \in 1 .. Len(b)
      PROVE  b[j] = IF j = n + i THEN x ELSE a[j]
  <2>1. CASE j <= n
    BY <1>q, <1>1, <1>2, <1>3, <2>1
  <2>2. CASE j > n
    <3> DEFINE m == j - n
    <3>1. m \in 1 .. Len(t) /\ j = n + m /\ (j = n + i <=> m = i)
      BY <1>q, <1>1, <1>3, <2>2
    <3>2. m # i => m \in 1 .. Len(q)
      BY <1>q, <1>1, <3>1
    <3> HIDE DEF m
    <3> QED
      BY <1>q, <1>2, <1>3, <3>1, <3>2
  <2> QED
    BY <1>q, <1>1, <1>4, <2>1, <2>2
<1> QED
  BY <1>4, <1>5 DEF a, b, n, t

\* The command suffers on its way to the adapter.
LEMMA CommandFaultClean ==
  ASSUME Typed, Clean, Typed', command # <<>>,
         command' \in {Tail(command), <<"?">> \o Tail(command)},
         harm' = (harm \/ Head(command) = "CR"), phase # "done",
         UNCHANGED <<rx, reflects, phase, passed, received, answer, late>>
  PROVE  Clean'
<1>1. Stream' = Stream
  BY DEF Stream
<1>2. /\ Command = <<"c", "CR">>
      /\ Awaits <=> command \in {Command, <<"CR">>, <<"?", "CR">>}
      /\ Awaits' <=> command' \in {Command, <<"CR">>, <<"?", "CR">>}
  <2>1. CommandForm /\ CommandForm' /\ Command' = Command
    BY DEF Typed, Command
  <2>2. Awaits <=> command \in {Command, <<"CR">>, <<"?", "CR">>}
    BY <2>1, AwaitsForm DEF Awaits, CommandForm
  <2>3. Awaits' <=> command' \in {Command, <<"CR">>, <<"?", "CR">>}
    BY <2>1, AwaitsForm DEF Awaits, CommandForm
  <2> QED
    BY <2>2, <2>3, Sizes
<1>3. /\ Tail(command) \in {<<>>, <<"CR">>}
      /\ <<"?">> \o Tail(command) \in {<<"?">>, <<"?", "CR">>}
      /\ command \in {Command, <<"?", "CR">>} <=> Tail(command) = <<"CR">>
      /\ Head(command) = "CR" <=> command = <<"CR">>
  BY Shorter DEF Typed
<1>4. CASE Head(command) = "CR"
  <2>1. command = <<"CR">> /\ command' \in {<<>>, <<"?">>}
    <3>1. Tail(<<"CR">>) = <<>> /\ <<"CR">> # <<>>
      OBVIOUS
    <3>2. command = <<"CR">> /\ Tail(command) = <<>>
      BY <1>3, <1>4, <3>1
    <3>3. <<"?">> \o Tail(command) = <<"?">>
      <4>1. <<"?">> \in Seq(Symbols)
        BY DEF Symbols
      <4> QED
        BY <3>2, <4>1, ConcatEmptySeq
    <3> QED
      BY <3>2, <3>3
  <2>2. Awaits /\ ~Awaits'
    <3>1. /\ <<>> \notin {<<"c", "CR">>, <<"CR">>, <<"?", "CR">>}
          /\ <<"?">> \notin {<<"c", "CR">>, <<"CR">>, <<"?", "CR">>}
      OBVIOUS
    <3> QED
      BY <1>2, <2>1, <3>1
  <2>3. phase \in {"read", "compare"}
    BY <2>2 DEF Clean, Rested, Typed, TypeOK
  <2>4. EachOnce /\ answer = <<>>
    BY <2>2, <2>3 DEF Clean, Judged, EachOnce
  <2>5. \A x \in {"r", ">"} : Owes(x) /\ ~Owes(x)' /\ ~InStream(x)
    BY <2>2, <2>4 DEF EachOnce, Owes
  <2>6. \A x \in {"r", ">"} : ~InStream(x)'
    BY <1>1, <2>5 DEF InStream
  <2>7. EachOnce' /\ Spoilt'
    BY <1>1, <2>2, <2>4, <2>5, <2>6 DEF EachOnce, Spoilt
  <2> QED
    BY <2>3, <2>7
       DEF Clean, Waiting, Rested, Judged, PassMeansClean, Pass, Expected, Command, Reply
<1>5. CASE Head(command) # "CR"
  <2>1. command' \in {Tail(command), <<"?">> \o Tail(command)} /\ command # <<"CR">>
    BY <1>3, <1>5
  <2>2. Awaits' <=> Awaits
    <3>1. /\ <<"CR">> \in {<<"c", "CR">>, <<"CR">>, <<"?", "CR">>}
          /\ <<"?", "CR">> \in {<<"c", "CR">>, <<"CR">>, <<"?", "CR">>}
          /\ <<>> \notin {<<"c", "CR">>, <<"CR">>, <<"?", "CR">>}
          /\ <<"?">> \notin {<<"c", "CR">>, <<"CR">>, <<"?", "CR">>}
      OBVIOUS
    <3>2. Awaits <=> Tail(command) = <<"CR">>
      BY <1>2, <1>3, <2>1
    <3>3. CASE Tail(command) = <<"CR">>
      <4>1. <<"?">> \o <<"CR">> \in {<<"?">>, <<"?", "CR">>} /\ <<"?">> # <<"?", "CR">>
        BY <1>3, <3>3
      <4>2. <<"?">> \o <<"CR">> # <<"?">>
        <5>1. /\ <<"?">> \in Seq(Symbols) /\ <<"CR">> \in Seq(Symbols)
              /\ <<"CR">> # <<>>
          BY DEF Symbols
        <5> QED
          BY <5>1, ConcatEqualIffEmpty
      <4> QED
        BY <1>2, <2>1, <3>1, <3>2, <3>3, <4>1, <4>2
    <3>4. CASE Tail(command) = <<>>
      <4>1. <<"?">> \o Tail(command) = <<"?">>
        <5>1. <<"?">> \in Seq(Symbols)
          BY DEF Symbols
        <5> QED
          BY <3>4, <5>1, ConcatEmptySeq
      <4> QED
        BY <1>2, <2>1, <3>1, <3>2, <3>4, <4>1
    <3> QED
      BY <1>3, <3>3, <3>4
  <2>3. (EachOnce' <=> EachOnce) /\ (Spoilt' <=> Spoilt)
    BY <1>1, <2>2, SameStream
  <2>4. harm' = harm
    BY <1>5, Types DEF Typed
  <2> QED
    BY <2>2, <2>3, <2>4
       DEF Clean, Waiting, Rested, Judged, PassMeansClean, Pass, Expected, Command, Reply
<1> QED
  BY <1>4, <1>5

\* A byte of the answer or of the reflection is lost: it was the only one of its
\* kind, so if the round waits for it the round is spoilt.
LEMMA LossClean ==
  ASSUME Typed, Clean, Typed', NEW i \in 1 .. Len(rx) + 1,
         i <= Len(rx), rx[i] # "?", phase # "done",
         Len(Stream) \in Nat, Len(Stream') = Len(Stream) - 1,
         Len(received) + i \in 1 .. Len(Stream), Stream[Len(received) + i] = rx[i],
         \A j \in 1 .. Len(Stream') :
           Stream'[j] = IF j < Len(received) + i THEN Stream[j] ELSE Stream[j + 1],
         harm' = (harm \/ Concerns(i)),
         UNCHANGED <<reflects, phase, passed, received, command, answer, late>>
  PROVE  Clean'
<1> DEFINE k == Len(received) + i
<1>1. /\ received \in Seq(Symbols) /\ rx \in Seq(Symbols) /\ rx' \in Seq(Symbols)
      /\ Len(received) \in Nat /\ Len(rx) \in Nat /\ harm \in BOOLEAN
  BY Types DEF Typed, TypeOK
<1>2. i \in 1 .. Len(rx)
  BY <1>1
<1>4. CASE phase \in {"purge", "write"}
  <2>1. phase = "purge"
    BY <1>2, <1>4 DEF Clean, Waiting
  <2>2. ~Concerns(i) /\ harm' = harm
    BY <1>1, <2>1 DEF Concerns
  <2> QED
    BY <2>1, <2>2
       DEF Clean, Waiting, Rested, Judged, PassMeansClean, Pass, Awaits
<1>5. CASE phase \in {"read", "compare"}
  <2>1. EachOnce /\ (harm \/ ~reflects => Spoilt)
    BY <1>5 DEF Clean, Judged
  <2>2. /\ Len(Stream) \in Nat /\ Len(Stream') = Len(Stream) - 1
        /\ k \in 1 .. Len(Stream) /\ Stream[k] = rx[i]
        /\ \A j \in 1 .. Len(Stream') :
              Stream'[j] = IF j < k THEN Stream[j] ELSE Stream[j + 1]
    OBVIOUS
  <2> HIDE DEF k
  <2>3. \A x \in {"c", "CR", "r", ">"} :
          InStream(x)' <=> (InStream(x) /\ x # Stream[k])
    <3>1. ASSUME NEW x \in {"c", "CR", "r", ">"}, InStream(x)'
          PROVE  InStream(x) /\ x # Stream[k]
      <4>1. PICK j \in 1 .. Len(Stream') : Stream'[j] = x
        BY <3>1 DEF InStream
      <4>2. CASE j < k
        <5>1. j \in 1 .. Len(Stream) /\ Stream[j] = x /\ j # k
          BY <2>2, <4>1, <4>2
        <5> QED
          BY <2>1, <2>2, <5>1 DEF EachOnce, InStream
      <4>3. CASE ~(j < k)
        <5>1. j + 1 \in 1 .. Len(Stream) /\ Stream[j + 1] = x /\ j + 1 # k
          BY <2>2, <4>1, <4>3
        <5> QED
          BY <2>1, <2>2, <5>1 DEF EachOnce, InStream
      <4> QED
        BY <4>2, <4>3
    <3>2. ASSUME NEW x \in {"c", "CR", "r", ">"}, InStream(x), x # Stream[k]
          PROVE  InStream(x)'
      <4>1. PICK j \in 1 .. Len(Stream) : Stream[j] = x
        BY <3>2 DEF InStream
      <4>2. CASE j < k
        <5>1. j \in 1 .. Len(Stream') /\ Stream'[j] = x
          BY <2>2, <4>1, <4>2
        <5> QED
          BY <5>1 DEF InStream
      <4>3. CASE j > k
        <5>1. j - 1 \in 1 .. Len(Stream') /\ ~(j - 1 < k) /\ (j - 1) + 1 = j
          BY <2>2, <4>1, <4>3
        <5>2. Stream'[j - 1] = x
          BY <2>2, <4>1, <5>1
        <5> QED
          BY <5>1, <5>2 DEF InStream
      <4> QED
        BY <2>2, <3>2, <4>1, <4>2, <4>3
    <3> QED
      BY <3>1, <3>2
  <2>4. \A x \in {"r", ">"} : Owes(x)' <=> Owes(x)
    BY DEF Owes, Awaits
  <2>5. EachOnce'
    <3>1. \A a, b \in 1 .. Len(Stream') :
            Stream'[a] = Stream'[b] /\ Stream'[a] # "?" => a = b
      <4> SUFFICES ASSUME NEW a \in 1 .. Len(Stream'), NEW b \in 1 .. Len(Stream'),
                          Stream'[a] = Stream'[b], Stream'[a] # "?"
                   PROVE  a = b
        OBVIOUS
      <4> DEFINE old(j) == IF j < k THEN j ELSE j + 1
      <4>1. /\ old(a) \in 1 .. Len(Stream) /\ Stream[old(a)] = Stream'[a]
            /\ old(b) \in 1 .. Len(Stream) /\ Stream[old(b)] = Stream'[b]
        BY <2>2
      <4>2. old(a) = old(b)
        BY <2>1, <4>1 DEF EachOnce
      <4> QED
        BY <2>2, <4>2
    <3> QED
      BY <2>1, <2>3, <2>4, <3>1 DEF EachOnce, Awaits
  <2>6. Spoilt => Spoilt'
    <3>1. CASE \E j \in 1 .. Len(Stream) : j <= Len(Expected) /\ Stream[j] = "?"
      <4>1. PICK j \in 1 .. Len(Stream) : j <= 4 /\ Stream[j] = "?"
        BY <3>1, Sizes
      <4>2. j # k
        BY <2>2, <4>1
      <4>3. CASE j < k
        <5>1. j \in 1 .. Len(Stream') /\ Stream'[j] = "?"
          BY <2>2, <4>1, <4>3
        <5> QED
          BY <4>1, <5>1, Sizes DEF Spoilt, Expected, Command, Reply
      <4>4. CASE j > k
        <5>1. /\ j - 1 \in 1 .. Len(Stream') /\ ~(j - 1 < k) /\ (j - 1) + 1 = j
              /\ j - 1 <= 4
          BY <2>2, <4>1, <4>4
        <5>2. Stream'[j - 1] = "?"
          BY <2>2, <4>1, <5>1
        <5> QED
          BY <5>1, <5>2, Sizes DEF Spoilt, Expected, Command, Reply
      <4> QED
        BY <2>2, <4>2, <4>3, <4>4
    <3> QED
      BY <2>3, <2>4, <3>1 DEF Spoilt
  <2>7. Concerns(i) => Spoilt'
    <3>1. Stream[k] \in {"c", "CR", "r", ">"}
      <4>1. Stream[k] \in Symbols
        BY <2>2, StreamFacts, ElementOfSeq DEF Typed
      <4> QED
        BY <2>2, <4>1 DEF Symbols
    <3>2. Stream[k] \in {"r", ">"} => ~Owes(Stream[k])
      BY <2>1, <2>2 DEF EachOnce, InStream
    <3> QED
      BY <2>3, <2>4, <3>1, <3>2 DEF Spoilt
  <2> QED
    BY <1>5, <2>1, <2>5, <2>6, <2>7
       DEF Clean, Waiting, Rested, Judged, PassMeansClean, Pass, Expected, Command, Reply
<1> QED
  BY <1>4, <1>5 DEF Typed, TypeOK

\* A byte is damaged, or noise joins: if the round will read it the round is
\* spoilt.
LEMMA NoiseClean ==
  ASSUME Typed, Clean, Typed', NEW i \in 1 .. Len(rx) + 1, phase # "done",
         phase = "write" => \A j \in 1 .. Len(rx') : rx'[j] = "?",
         Len(Stream) \in Nat, Len(received) + i \in 1 .. Len(Stream) + 1,
         Len(Stream') = IF Len(received) + i <= Len(Stream)
                          THEN Len(Stream) ELSE Len(Stream) + 1,
         \A j \in 1 .. Len(Stream') :
           Stream'[j] = IF j = Len(received) + i THEN "?" ELSE Stream[j],
         harm' = (harm \/ Concerns(i)),
         UNCHANGED <<reflects, phase, passed, received, command, answer, late>>
  PROVE  Clean'
<1> DEFINE k == Len(received) + i
<1>1. harm \in BOOLEAN
  BY Types DEF Typed
<1>2. CASE phase \in {"purge", "write"}
  <2>1. ~Concerns(i) /\ harm' = harm
    BY <1>1, <1>2 DEF Concerns
  <2> QED
    BY <1>2, <2>1
       DEF Clean, Waiting, Rested, Judged, PassMeansClean, Pass, Awaits
<1>3. CASE phase \in {"read", "compare"}
  <2>1. EachOnce /\ (harm \/ ~reflects => Spoilt)
    BY <1>3 DEF Clean, Judged
  <2>2. /\ Len(Stream') \in Nat /\ k \in 1 .. Len(Stream') /\ Stream'[k] = "?"
        /\ \A j \in 1 .. Len(Stream') :
              j # k => Stream'[j] = Stream[j] /\ j \in 1 .. Len(Stream)
        /\ \A j \in 1 .. Len(Stream) : j \in 1 .. Len(Stream')
    OBVIOUS
  <2> HIDE DEF k
  <2>3. \A x \in {"c", "CR", "r", ">"} : InStream(x)' => InStream(x)
    BY <2>2 DEF InStream
  <2>4. \A x \in {"r", ">"} : Owes(x)' <=> Owes(x)
    BY DEF Owes, Awaits
  <2>5. EachOnce'
    BY <2>1, <2>2, <2>3, <2>4 DEF EachOnce, Awaits
  <2>6. Spoilt => Spoilt'
    <3>1. \A j \in 1 .. Len(Stream) : Stream[j] = "?" => Stream'[j] = "?"
      BY <2>2
    <3> QED
      BY <2>2, <2>3, <2>4, <3>1 DEF Spoilt, Expected, Command, Reply
  <2>7. Concerns(i) => Spoilt'
    BY <2>2 DEF Concerns, Spoilt, Expected, Command, Reply, k
  <2> QED
    BY <1>3, <2>1, <2>5, <2>6, <2>7
       DEF Clean, Waiting, Rested, Judged, PassMeansClean, Pass, Expected, Command, Reply
<1> QED
  BY <1>2, <1>3 DEF Typed, TypeOK

LEMMA FaultClean ==
  ASSUME Typed, Clean, Typed', Fault
  PROVE  Clean'
<1>1. UNCHANGED <<reflects, phase, passed, received, answer, late>> /\ phase # "done"
  BY DEF Fault
<1>2. /\ received \in Seq(Symbols) /\ rx \in Seq(Symbols) /\ "?" \in Symbols
      /\ Stream = Joined(received, rx) /\ Stream' = Joined(received, rx')
  BY <1>1, Types DEF Typed, Symbols, Stream, Joined
<1>3. ASSUME NEW i \in 1 .. Len(rx) + 1, i <= Len(rx), rx[i] # "?",
             rx' = Lost(rx, i), harm' = (harm \/ Concerns(i)), UNCHANGED command
      PROVE  Clean'
  <2>1. i \in 1 .. Len(rx)
    BY <1>2, <1>3, LenProperties
  <2>2. /\ Len(Stream) \in Nat /\ Len(Stream') = Len(Stream) - 1
        /\ Len(received) + i \in 1 .. Len(Stream)
        /\ Stream[Len(received) + i] = rx[i]
        /\ \A j \in 1 .. Len(Stream') :
             Stream'[j] = IF j < Len(received) + i THEN Stream[j] ELSE Stream[j + 1]
    BY <1>2, <1>3, <2>1, LossIn
  <2> QED
    BY <1>1, <1>3, <2>2, LossClean
<1>4. ASSUME NEW i \in 1 .. Len(rx) + 1,
             rx' = Noisy(rx, i, "?"), harm' = (harm \/ Concerns(i)), UNCHANGED command
      PROVE  Clean'
  <2>1. phase = "write" => \A j \in 1 .. Len(rx') : rx'[j] = "?"
    <3>1. /\ Len(rx') = IF i <= Len(rx) THEN Len(rx) ELSE Len(rx) + 1
          /\ \A j \in 1 .. Len(rx') : rx'[j] = IF j = i THEN "?" ELSE rx[j]
      BY <1>2, <1>4, WithNoise
    <3>2. Len(rx) \in Nat
      BY <1>2, LenProperties
    <3> QED
      BY <3>1, <3>2 DEF Clean, Waiting
  <2>2. /\ Len(Stream) \in Nat /\ Len(received) + i \in 1 .. Len(Stream) + 1
        /\ Len(Stream') = IF Len(received) + i <= Len(Stream)
                            THEN Len(Stream) ELSE Len(Stream) + 1
        /\ \A j \in 1 .. Len(Stream') :
             Stream'[j] = IF j = Len(received) + i THEN "?" ELSE Stream[j]
    BY <1>2, <1>4, NoiseIn
  <2> QED
    BY <1>1, <1>4, <2>1, <2>2, NoiseClean
<1>5. CASE /\ command # <<>>
           /\ command' \in {Tail(command), <<"?">> \o Tail(command)}
           /\ harm' = (harm \/ Head(command) = "CR") /\ UNCHANGED <<rx, errors>>
  BY <1>1, <1>5, CommandFaultClean
<1> QED
  BY <1>3, <1>4, <1>5 DEF Fault, Lost, Noisy

\* Earlier output is noise to a round.
LEMMA FinishesEarlierClean ==
  ASSUME Typed, Clean, Typed', FinishesEarlier
  PROVE  Clean'
<1>1. /\ UNCHANGED <<reflects, phase, passed, received, command, answer, late>>
      /\ phase # "done" /\ rx' = Append(rx, "?") /\ harm' = (harm \/ Concerns(Len(rx) + 1))
  BY DEF FinishesEarlier
<1>2. /\ received \in Seq(Symbols) /\ rx \in Seq(Symbols) /\ "?" \in Symbols
      /\ Len(rx) \in Nat /\ Len(received) \in Nat
  BY Types, LenProperties DEF Typed, Symbols
<1>3. phase = "write" => \A j \in 1 .. Len(rx') : rx'[j] = "?"
  <2>1. /\ Len(rx') = Len(rx) + 1
        /\ \A j \in 1 .. Len(rx') : rx'[j] = IF j <= Len(rx) THEN rx[j] ELSE "?"
    BY <1>1, <1>2, AppendProperties
  <2> QED
    BY <1>2, <2>1 DEF Clean, Waiting
<1>4. Stream' = Append(Stream, "?") /\ Stream \in Seq(Symbols)
      /\ Len(Stream) = Len(received) + Len(rx)
  <2>1. Stream' = Append(Stream, "?")
    BY <1>1, <1>2, AppendToStream DEF Stream
  <2> QED
    BY <1>2, <2>1, ConcatProperties DEF Stream
<1>5. /\ Len(Stream) \in Nat /\ Len(Stream') = Len(Stream) + 1
      /\ \A j \in 1 .. Len(Stream') :
           Stream'[j] = IF j = Len(Stream) + 1 THEN "?" ELSE Stream[j]
  <2>1. /\ Len(Stream) \in Nat /\ Len(Append(Stream, "?")) = Len(Stream) + 1
        /\ \A j \in 1 .. Len(Stream) : Append(Stream, "?")[j] = Stream[j]
        /\ Append(Stream, "?")[Len(Stream) + 1] = "?"
    BY <1>2, <1>4, AppendProperties
  <2> DEFINE k == Len(Stream)
  <2>2. k \in Nat /\ \A j \in 1 .. k + 1 : j = k + 1 \/ (j \in 1 .. k /\ j # k + 1)
    BY <2>1
  <2> QED
    BY <1>4, <2>1, <2>2
<1> DEFINE i == Len(rx) + 1
<1>6. i \in 1 .. Len(rx) + 1 /\ Len(received) + i = Len(Stream) + 1
  BY <1>2, <1>4
<1>7. harm' = (harm \/ Concerns(i))
  BY <1>1
<1> HIDE DEF i
<1>8. /\ Len(received) + i \in 1 .. Len(Stream) + 1
      /\ Len(Stream') = IF Len(received) + i <= Len(Stream)
                          THEN Len(Stream) ELSE Len(Stream) + 1
      /\ \A j \in 1 .. Len(Stream') :
           Stream'[j] = IF j = Len(received) + i THEN "?" ELSE Stream[j]
  BY <1>5, <1>6
<1> QED
  BY <1>1, <1>3, <1>5, <1>6, <1>7, <1>8, NoiseClean

LEMMA CleanStep ==
  ASSUME Typed, Clean, Typed', [Next]_vars
  PROVE  Clean'
<1>1. CASE Done \/ UNCHANGED vars
  <2>1. UNCHANGED <<reflects, phase, passed, received, rx, command, answer, harm, late>>
    BY <1>1 DEF Done, vars, adapter
  <2>2. (EachOnce' <=> EachOnce) /\ (Spoilt' <=> Spoilt)
    BY <2>1, SameStream DEF Stream, Awaits
  <2> QED
    BY <2>1, <2>2 DEF Clean, Waiting, Rested, Judged, PassMeansClean, Pass, Awaits,
                      Expected, Command, Reply
<1> QED
  BY <1>1, PurgeClean, WriteClean, ReadClean, CompareClean, PortFailsClean,
     AdapterClean, FinishesEarlierClean, FaultClean DEF Next, Program

-----------------------------------------------------------------------------
(* FAIL: an undisturbed line carries what is expected                       *)

LEMMA IsAppend ==
  ASSUME NEW S, NEW q \in Seq(S), NEW x \in S, NEW t \in Seq(S),
         Len(t) = Len(q) + 1, \A i \in 1 .. Len(q) : t[i] = q[i], t[Len(q) + 1] = x
  PROVE  Append(q, x) = t
<1> DEFINE a == Append(q, x)
<1>1. /\ a \in Seq(S) /\ Len(a) = Len(q) + 1
      /\ \A i \in 1 .. Len(q) : a[i] = q[i]
      /\ a[Len(q) + 1] = x
  OBVIOUS
<1>2. Len(q) \in Nat
  BY LenProperties
<1> HIDE DEF a
<1>3. ASSUME NEW i \in 1 .. Len(a)
      PROVE  a[i] = t[i]
  <2>1. i \in 1 .. Len(q) \/ i = Len(q) + 1
    BY <1>1, <1>2
  <2>2. CASE i \in 1 .. Len(q)
    <3>1. a[i] = q[i]
      BY <1>1, <2>2
    <3>2. t[i] = q[i]
      BY <2>2
    <3> QED
      BY <3>1, <3>2
  <2>3. CASE i = Len(q) + 1
    BY <1>1, <2>3
  <2> QED
    BY <2>1, <2>2, <2>3
<1>4. a = t
  BY <1>1, <1>3, SeqEqual
<1> QED
  BY <1>4 DEF a

\* How the bytes of a round follow one another when nothing disturbs them.
LEMMA Growth ==
  /\ <<>> \o Command = Command /\ Command \in Seq(Symbols)
  /\ Append(Command, "r") \in Seq(Symbols) /\ Append(Append(Command, "r"), ">") = Expected
  /\ Len(Command) = 2 /\ Len(Append(Command, "r")) = 3 /\ Len(Expected) = 4
  /\ Expected \in Seq(Symbols)
<1>1. Command = <<"c", "CR">> /\ Len(Expected) = 4 /\ Expected = <<"c", "CR", "r", ">">>
  BY Sizes
<1>2. Command \in Seq(Symbols) /\ Len(Command) = 2 /\ Expected \in Seq(Symbols)
  BY <1>1 DEF Symbols
<1>3. "r" \in Symbols /\ ">" \in Symbols
  BY DEF Symbols
<1> DEFINE t == <<"c", "CR", "r">>
<1>4. /\ t \in Seq(Symbols) /\ Len(t) = 3 /\ t[1] = "c" /\ t[2] = "CR" /\ t[3] = "r"
  BY DEF Symbols
<1>5. Command[1] = "c" /\ Command[2] = "CR"
  BY <1>1
<1>6. /\ Expected[1] = "c" /\ Expected[2] = "CR" /\ Expected[3] = "r"
      /\ Expected[4] = ">"
  BY <1>1
<1> HIDE DEF t
<1>7. /\ Len(t) = Len(Command) + 1 /\ t[Len(Command) + 1] = "r"
      /\ \A i \in 1 .. Len(Command) : t[i] = Command[i]
  BY <1>2, <1>4, <1>5
<1>8. Append(Command, "r") = t
  BY <1>2, <1>3, <1>4, <1>7, IsAppend
<1>9. /\ Len(Expected) = Len(t) + 1 /\ Expected[Len(t) + 1] = ">"
      /\ \A i \in 1 .. Len(t) : Expected[i] = t[i]
  BY <1>1, <1>4, <1>6
<1>10. Append(t, ">") = Expected
  BY <1>1, <1>2, <1>3, <1>4, <1>6, <1>9, IsAppend
<1>11. <<>> \o Command = Command
  BY <1>2, ConcatEmptySeq
<1> QED
  BY <1>1, <1>2, <1>4, <1>8, <1>10, <1>11

\* Where a round without faults stands.
Course ==
  \/ command \in {Command, <<"CR">>} /\ answer = <<>> /\ Stream = Command
  \/ command = <<>> /\ answer = Reply /\ Stream = Command
  \/ command = <<>> /\ answer = <<">">> /\ Stream = Append(Command, "r")
  \/ command = <<>> /\ answer = <<>> /\ Stream = Expected

LEMMA AdapterCourse ==
  ASSUME Typed, Adapter, Course
  PROVE  Course'
<1>1. received' = received
  BY DEF Adapter
<1>2. received \in Seq(Symbols) /\ rx \in Seq(Symbols)
  BY Types DEF Typed
<1>3. Command = <<"c", "CR">> /\ Reply = <<"r", ">">>
  BY Sizes
<1>4. CASE /\ command # <<>> /\ answer = <<>> /\ command' = Tail(command)
           /\ answer' = (IF Head(command) = "CR" THEN Reply ELSE <<>>)
           /\ UNCHANGED rx
  <2>1. Stream' = Stream /\ Stream = Command
    BY <1>1, <1>4 DEF Stream, Course
  <2>2. \/ command' = <<"CR">> /\ answer' = <<>>
        \/ command' = <<>> /\ answer' = Reply
    <3>1. /\ Tail(<<"c", "CR">>) = <<"CR">> /\ Tail(<<"CR">>) = <<>>
          /\ Head(<<"c", "CR">>) = "c" /\ Head(<<"CR">>) = "CR"
      OBVIOUS
    <3> QED
      BY <1>3, <1>4, <3>1 DEF Course
  <2> QED
    BY <2>1, <2>2 DEF Course, Reply, Command
<1>5. CASE /\ answer # <<>> /\ UNCHANGED command
           /\ rx' = Append(rx, Head(answer)) /\ answer' = Tail(answer)
  <2>1. command' = <<>>
    BY <1>5 DEF Course
  <2>2. \/ Head(answer) = "r" /\ answer' = <<">">> /\ Stream = Command
        \/ Head(answer) = ">" /\ answer' = <<>> /\ Stream = Append(Command, "r")
    <3>1. /\ Head(<<"r", ">">>) = "r" /\ Tail(<<"r", ">">>) = <<">">>
          /\ Head(<<">">>) = ">" /\ Tail(<<">">>) = <<>> /\ <<">">> # <<"r", ">">>
      OBVIOUS
    <3> QED
      BY <1>3, <1>5, <3>1 DEF Course
  <2>3. Stream' = Append(Stream, Head(answer))
    <3>1. Head(answer) \in Symbols
      BY <2>2 DEF Symbols
    <3> QED
      BY <1>1, <1>2, <1>5, <3>1, AppendToStream DEF Stream
  <2>4. Stream' = Append(Command, "r") \/ Stream' = Expected
    BY <2>2, <2>3, Growth
  <2>5. \/ answer' = <<">">> /\ Stream' = Append(Command, "r")
        \/ answer' = <<>> /\ Stream' = Expected
    BY <2>2, <2>3, Growth
  <2> QED
    BY <2>1, <2>5 DEF Course, Command, Reply, Expected
<1> QED
  BY <1>4, <1>5 DEF Adapter, Answer

LEMMA UndisturbedStep ==
  ASSUME Typed, Clean, Undisturbed, Typed', [Next]_vars
  PROVE  Undisturbed'
<1>1. /\ received \in Seq(Symbols) /\ rx \in Seq(Symbols) /\ faults \in Nat
      /\ Len(Expected) = 4 /\ Expected' = Expected
      /\ phase \in {"purge", "write", "read", "compare", "done"}
  BY Types, Sizes, LinePassAssumption DEF Typed, TypeOK, Expected, Command, Reply
<1>2. ASSUME reflects', faults' = 0, ~late', earlier' # "mixed", ~Fault
      PROVE  /\ reflects /\ faults = 0 /\ ~late /\ earlier # "mixed"
             /\ phase \in {"purge", "write"} => command = <<>> /\ answer = <<>>
             /\ phase = "write" => rx = <<>>
             /\ phase # "purge" => ~errors
             /\ phase \in {"read", "compare"} => Course
             /\ phase = "compare" => Len(received) = Len(Expected)
             /\ phase = "done" => passed = Rounds
  <2>1. /\ reflects' = reflects /\ faults' = faults /\ (late => late')
        /\ earlier' = earlier \/ earlier = "due"
    <3>1. CASE Purge \/ Write \/ Compare \/ Adapter \/ FinishesEarlier \/ Done \/ UNCHANGED vars
      BY <3>1 DEF Purge, Write, Compare, Adapter, FinishesEarlier, Done, adapter, vars
    <3>2. CASE Read \/ PortFails
      <4>1. reflects' = reflects /\ faults' = faults /\ earlier' = earlier
        BY <3>2 DEF Read, PortFails, adapter
      <4>2. late' = late \/ late' = TRUE
        BY <3>2 DEF Read, PortFails
      <4> QED
        BY <4>1, <4>2
    <3> QED
      BY <1>2, <3>1, <3>2 DEF Next, Program
  <2> QED
    BY <1>2, <2>1 DEF Undisturbed, Course
<1> SUFFICES ASSUME reflects', faults' = 0, ~late', earlier' # "mixed", ~Fault
             PROVE  /\ phase' \in {"purge", "write"} => command' = <<>> /\ answer' = <<>>
                    /\ phase' = "write" => rx' = <<>>
                    /\ phase' # "purge" => ~errors'
                    /\ phase' \in {"read", "compare"} => Course'
                    /\ phase' = "compare" => Len(received') = Len(Expected)
                    /\ phase' = "done" => passed' = Rounds
  <2>1. Fault => faults' # 0
    BY <1>1 DEF Fault
  <2> QED
    BY <1>1, <2>1 DEF Undisturbed, Course
<1>3. CASE Purge
  BY <1>2, <1>3 DEF Purge, Purged, adapter
<1>4. CASE Write
  <2>1. /\ phase' = "read" /\ command' = Command /\ answer' = <<>>
        /\ rx' = rx \o Command /\ received' = received /\ ~errors'
    BY <1>2, <1>4 DEF Write
  <2>2. rx = <<>> /\ received = <<>>
    BY <1>2, <1>4 DEF Write, Clean, Waiting
  <2>3. Stream' = Command
    BY <2>1, <2>2, Growth DEF Stream
  <2> QED
    BY <2>1, <2>3 DEF Course, Command
<1>5. CASE Read
  <2>1. /\ phase = "read" /\ phase' \in {"read", "compare"}
        /\ UNCHANGED <<command, answer, errors>>
    BY <1>5 DEF Read, adapter
  <2>2. Stream' = Stream
    <3>1. \/ rx # <<>> /\ received' = Append(received, Head(rx)) /\ rx' = Tail(rx)
          \/ received' = received /\ rx' = rx
      BY <1>5 DEF Read
    <3> QED
      BY <1>1, <3>1, ReadKeepsStream DEF Stream
  <2>3. phase' = "compare" => Len(received') = Len(Expected)
    BY <1>2, <1>5, <2>1 DEF Read
  <2> QED
    BY <1>2, <2>1, <2>2, <2>3 DEF Course, Command, Reply, Expected
<1>6. CASE Compare
  <2>1. /\ phase = "compare" /\ errors' = FALSE /\ Len(received) = 4 /\ Course /\ ~errors
        /\ UNCHANGED <<command, answer>>
    BY <1>1, <1>2, <1>6 DEF Compare, adapter
  <2>2. received = Expected /\ command = <<>> /\ answer = <<>>
    <3>1. Len(Stream) = 4 + Len(rx) /\ Len(rx) \in Nat
      BY <2>1, StreamFacts DEF Typed
    <3>2. Stream = Expected /\ command = <<>> /\ answer = <<>>
      BY <2>1, <3>1, Growth DEF Course
    <3>3. rx = <<>>
      <4>1. Len(Stream) = 4
        BY <1>1, <3>2
      <4> DEFINE n == Len(rx)
                 m == Len(Stream)
      <4>2. m = 4 + n /\ n \in Nat /\ m = 4
        BY <3>1, <4>1
      <4> HIDE DEF n, m
      <4>3. n = 0
        BY <4>2
      <4>a. Len(rx) = 0
        BY <4>3 DEF n
      <4> QED
        BY <1>1, <4>a, EmptySeq
    <3> QED
      BY <1>1, <3>2, <3>3, ConcatEmptySeq DEF Stream
  <2>3. phase' = IF passed' = Rounds THEN "done" ELSE "purge"
    BY <1>6, <2>1, <2>2 DEF Compare, Matches
  <2> QED
    BY <2>1, <2>2, <2>3
<1>7. CASE PortFails
  BY <1>2, <1>7 DEF PortFails
<1>8. CASE Adapter
  <2>1. UNCHANGED <<phase, passed, received, errors>>
    BY <1>8 DEF Adapter
  <2>2. CASE phase \in {"purge", "write"}
    BY <1>2, <1>8, <2>2 DEF Adapter, Answer
  <2>3. CASE phase \in {"read", "compare"}
    BY <1>2, <1>8, <2>1, <2>3, AdapterCourse
  <2>4. CASE phase = "done"
    BY <1>2, <2>1, <2>4
  <2> QED
    BY <1>1, <2>2, <2>3, <2>4
<1>9. CASE Done \/ UNCHANGED vars
  <2>1. UNCHANGED <<phase, passed, received, rx, errors, command, answer>>
    BY <1>9 DEF Done, vars, adapter
  <2> QED
    BY <1>2, <2>1 DEF Course, Stream, Command, Reply, Expected
<1>10. CASE FinishesEarlier
  \* What is not mixed with a round came before the first purge.
  <2>1. phase = "purge" /\ UNCHANGED <<phase, passed, command, answer>>
    BY <1>10 DEF FinishesEarlier
  <2> QED
    BY <1>2, <2>1
<1> QED
  BY <1>3, <1>4, <1>5, <1>6, <1>7, <1>8, <1>9, <1>10 DEF Next, Program

-----------------------------------------------------------------------------
(* The results                                                              *)

LEMMA Initially == Init => LineInv
<1> SUFFICES ASSUME Init
             PROVE  LineInv
  OBVIOUS
<1> USE LinePassAssumption
<1>1. Typed
  <2>1. /\ <<>> \in Seq(Symbols) /\ <<"?">> \in Seq(Symbols) /\ Len(<<>>) = 0
        /\ Len(Expected) = 4
    BY Sizes DEF Symbols
  <2>2. /\ received = <<>> /\ command = <<>> /\ answer = <<>> /\ rx \in {<<>>, <<"?">>}
        /\ phase = "purge" /\ passed = 0 /\ faults = 0 /\ Rounds \in Nat \ {0}
        /\ {reflects, errors, harm, late} \subseteq BOOLEAN
        /\ earlier \in {"none", "due"}
    BY DEF Init
  <2>3. {received, rx, command, answer} \subseteq Seq(Symbols)
    BY <2>1, <2>2
  <2> QED
    BY <2>1, <2>2, <2>3 DEF Typed, TypeOK, CommandForm
<1>2. phase = "purge" /\ command = <<>> /\ answer = <<>> /\ ~harm /\ ~late
  BY DEF Init
<1>3. ~Awaits
  BY <1>2 DEF Awaits
<1> QED
  BY <1>1, <1>2, <1>3 DEF LineInv, Clean, Waiting, Rested, Judged, Undisturbed,
                          PassMeansClean, FailMeansHarm, Pass

LEMMA LineStep == LineInv /\ [Next]_vars => LineInv'
<1> SUFFICES ASSUME LineInv, [Next]_vars
             PROVE  LineInv'
  OBVIOUS
<1>1. Typed'
  BY TypedStep DEF LineInv
<1>2. Clean' /\ Undisturbed'
  BY <1>1, CleanStep, UndisturbedStep DEF LineInv
<1>3. FailMeansHarm'
  <2>1. faults' \in Nat
    BY <1>1, LinePassAssumption DEF Typed, TypeOK
  <2> QED
    BY <1>2, <2>1 DEF Undisturbed, FailMeansHarm, Pass
<1> QED
  BY <1>1, <1>2, <1>3 DEF LineInv

\* The rounds of LINEPASS keep to what they send: the bytes on their way and those
\* read are of this round, complete unless something spoilt them.
THEOREM LineInvariant == Spec => []LineInv
BY Initially, LineStep, PTL DEF Spec

\* The buffer of a round never holds more than a round reads, no more rounds pass
\* than there are, and what is under way stays made of the bytes of the test.
THEOREM LineTypes == Spec => []TypeOK
<1>1. LineInv => TypeOK
  BY DEF LineInv, Typed
<1> QED
  BY <1>1, LineInvariant, PTL

\* LINEPASS reports PASS only on a carrier that reflects, after rounds in which no
\* byte was lost, damaged or joined by noise or by what the adapter printed before
\* the test, however many rounds and faults.
THEOREM PassIsEarned == Spec => []PassMeansClean
<1>1. LineInv => PassMeansClean
  BY DEF LineInv, Clean
<1> QED
  BY <1>1, LineInvariant, PTL

\* It reports FAIL only if something failed: no round inherits anything from the
\* one before, and nothing from the time before the test but what the adapter goes
\* on printing through the first purge.
THEOREM FailHasACause == Spec => []FailMeansHarm
<1>1. LineInv => FailMeansHarm
  BY DEF LineInv
<1> QED
  BY <1>1, LineInvariant, PTL
=============================================================================
