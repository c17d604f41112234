------------------------------- MODULE LinePass -------------------------------
(***************************************************************************)
(* LINEPASS, the line test: round after round it writes one command, reads   *)
(* as many bytes as the carrier's reflection and the firmware's answer have, *)
(* and compares them.                                                       *)
(*                                                                         *)
(* Abstractions.  The command has two bytes, "c" and the CR, the answer that *)
(* every unknown command earns has two, "r" and ">".  "?" is a byte that was *)
(* damaged, is noise, or belongs to what the adapter was still printing when *)
(* the test started: one such byte stands for all.  The ten seconds may be    *)
(* over at any moment.                                                      *)
(***************************************************************************)
EXTENDS Naturals, Sequences

CONSTANTS
  Rounds,      \* ROUNDS
  MaxFaults    \* bound: what goes wrong on the line

ASSUME LinePassAssumption == Rounds \in Nat \ {0} /\ MaxFaults \in Nat

VARIABLES
  reflects,   \* whether the carrier reflects
  phase,      \* "purge", "write", "read", "compare" or "done"
  passed,     \* rounds passed
  received,   \* the buffer received
  rx,         \* the receive queue of COM1
  errors,     \* whether the UART has recorded an error
  command,    \* what the adapter has not read yet of the command
  answer,     \* what it has not written yet of its answer
  earlier,    \* what it printed before that: "none", "due" or "mixed" with a round
  faults,     \* how much went wrong on the line
  harm,       \* history: some of it with what a round read or waited for
  late        \* history: a read or write gave up

adapter == <<command, answer, earlier>>
vars == <<reflects, phase, passed, received, rx, errors, adapter, faults, harm,
          late>>

Command == <<"c", "CR">>
Reply == <<"r", ">">>
Expected == Command \o Reply

Init ==
  /\ reflects \in BOOLEAN
  /\ phase = "purge" /\ passed = 0 /\ received = <<>>
  \* The line is not always quiet when the test starts, nor the adapter idle.
  /\ rx \in {<<>>, <<"?">>} /\ errors \in BOOLEAN /\ earlier \in {"none", "due"}
  /\ command = <<>> /\ answer = <<>> /\ faults = 0 /\ harm = FALSE /\ late = FALSE

-----------------------------------------------------------------------------
(* The program: main, one round after the other                             *)

\* Mutant: the round begins without PurgeComm and ClearCommError.
NotPurged == UNCHANGED <<rx, errors>>

Purged == rx' = <<>> /\ errors' = FALSE

Purge ==
  /\ phase = "purge"
  /\ Purged
  /\ phase' = "write" /\ received' = <<>>
  /\ UNCHANGED <<reflects, passed, adapter, faults, harm, late>>

Write ==
  /\ phase = "write" /\ command' = Command
  /\ rx' = IF reflects THEN rx \o Command ELSE rx
  /\ phase' = "read"
  /\ UNCHANGED <<reflects, passed, received, errors, answer, earlier, faults, harm,
                 late>>

\* Mutant: no deadline.
WaitForEver == FALSE

Expires == phase = "read"

\* Mutant: the buffer received has no end.
AlwaysRoom == TRUE

HasRoom == Len(received) < Len(Expected)

Read ==
  /\ phase = "read"
  /\ \/ /\ rx # <<>> /\ HasRoom
        /\ received' = Append(received, Head(rx)) /\ rx' = Tail(rx)
        /\ UNCHANGED <<phase, late>>
     \/ /\ Len(received) = Len(Expected)
        /\ phase' = "compare" /\ UNCHANGED <<received, rx, late>>
     \/ /\ Len(received) < Len(Expected) /\ Expires
        /\ phase' = "compare" /\ late' = TRUE /\ UNCHANGED <<received, rx>>
  /\ UNCHANGED <<reflects, passed, errors, adapter, faults, harm>>

\* Mutant: what is compared is only as long as what came.
SameBeginning ==
  ~errors /\ \A i \in DOMAIN received : received[i] = Expected[i]

Matches == ~errors /\ received = Expected

Compare ==
  /\ phase = "compare"
  /\ errors' = FALSE
  /\ IF Matches
       THEN /\ passed' = passed + 1
            /\ phase' = IF passed' = Rounds THEN "done" ELSE "purge"
       ELSE phase' = "done" /\ UNCHANGED passed
  /\ UNCHANGED <<reflects, received, rx, adapter, faults, harm, late>>

\* WriteFile or ReadFile fails.
PortFails ==
  /\ phase \in {"write", "read"}
  /\ phase' = "done" /\ late' = TRUE
  /\ UNCHANGED <<reflects, passed, received, rx, errors, adapter, faults, harm>>

Pass == phase = "done" /\ passed = Rounds

-----------------------------------------------------------------------------
(* The adapter answers a line, whatever it says; the line may fail          *)

Answer ==
  \/ /\ earlier # "due" /\ command # <<>> /\ answer = <<>>
     /\ command' = Tail(command)
     /\ answer' = IF Head(command) = "CR" THEN Reply ELSE <<>>
     /\ UNCHANGED rx
  \/ /\ answer # <<>>
     /\ rx' = Append(rx, Head(answer)) /\ answer' = Tail(answer)
     /\ UNCHANGED command

Adapter ==
  /\ Answer
  /\ UNCHANGED <<reflects, phase, passed, received, errors, earlier, faults, harm,
                 late>>

\* Whether the round will read position i of the receive queue.
Concerns(i) == phase = "read" /\ Len(received) + i <= Len(Expected)

\* It finishes what it was asked before the test; the purge clears what comes
\* before it.
FinishesEarlier ==
  /\ earlier = "due" /\ phase # "done"
  /\ earlier' = IF phase = "purge" THEN "none" ELSE "mixed"
  /\ rx' = Append(rx, "?") /\ harm' = (harm \/ Concerns(Len(rx) + 1))
  /\ UNCHANGED <<reflects, phase, passed, received, errors, command, answer, faults,
                 late>>

\* A byte is lost or damaged, noise joins, or the command suffers on its way out:
\* another letter in it changes nothing, its CR does.
Fault ==
  /\ faults < MaxFaults /\ faults' = faults + 1 /\ phase # "done"
  /\ \/ \E i \in 1 .. Len(rx) + 1 :
          /\ \/ /\ i <= Len(rx) /\ rx[i] # "?" /\ UNCHANGED errors
                /\ rx' = SubSeq(rx, 1, i - 1) \o SubSeq(rx, i + 1, Len(rx))
             \/ /\ rx' = SubSeq(rx, 1, i - 1) \o <<"?">> \o SubSeq(rx, i + 1, Len(rx))
                /\ errors' \in {errors, TRUE}
          /\ harm' = (harm \/ Concerns(i)) /\ UNCHANGED command
     \/ /\ command # <<>>
        /\ command' \in {Tail(command), <<"?">> \o Tail(command)}
        /\ harm' = (harm \/ Head(command) = "CR") /\ UNCHANGED <<rx, errors>>
  /\ UNCHANGED <<reflects, phase, passed, received, answer, earlier, late>>

Done == phase = "done" /\ UNCHANGED vars

Program == Purge \/ Write \/ Read \/ Compare
Next == Program \/ PortFails \/ Adapter \/ FinishesEarlier \/ Fault \/ Done

Spec == Init /\ [][Next]_vars
FairSpec == Spec /\ WF_vars(Program)

-----------------------------------------------------------------------------
(* Properties                                                               *)

Symbols == {"c", "CR", "r", ">", "?"}

TypeOK ==
  /\ phase \in {"purge", "write", "read", "compare", "done"}
  /\ passed \in 0 .. Rounds /\ Len(received) <= Len(Expected)
  /\ {received, rx, command, answer} \subseteq Seq(Symbols)
  /\ {reflects, errors, harm, late} \subseteq BOOLEAN /\ faults \in 0 .. MaxFaults
  /\ earlier \in {"none", "due", "mixed"}

\* docs/WINDOWS98.md: LINEPASS validates the reflection and the answer of every
\* round: it reports PASS only on a carrier that reflects, and only if no byte of
\* any round was lost, damaged or joined by noise or by earlier output.
PassMeansClean == Pass => (reflects /\ ~harm /\ ~late)

\* It reports FAIL only if something failed: nothing received before the test or
\* left over from the round before makes a good line look bad, only an adapter
\* that goes on printing through the first purge.
FailMeansHarm ==
  (phase = "done" /\ ~Pass) =>
    (~reflects \/ faults > 0 \/ late \/ earlier = "mixed")

\* The test ends, whatever the line does.
TestEnds == <>(phase = "done")
=============================================================================
