------------------------------- MODULE Terminal -------------------------------
(***************************************************************************)
(* W98TERM at the adapter's console: keys wait in a ring until the carrier's *)
(* reflection of the one before has come back or is overdue, reflections are *)
(* kept off the screen, and what is typed at a password prompt is not shown. *)
(*                                                                         *)
(* Abstractions.  A symbol stands for a byte: a printable "t", the bytes of *)
(* the Marker the terminal looks for ("P" ":" for "PASSWORD (HIDDEN): "),   *)
(* the user's password "s", which the adapter never prints, CR, LF and BS.  *)
(* The adapter is its line editor and the texts it answers a line with.     *)
(* REMOTE CONNECTED, which no firmware prints any more, is left out.        *)
(***************************************************************************)
EXTENDS Naturals, Sequences, FiniteSets, SequencesExt

CONSTANTS
  QueueSize,    \* KEY_QUEUE_SIZE
  EchoMaxAge,   \* ECHO_MAX_AGE_MS in ticks
  LineCapacity, \* kLineCapacity of the firmware
  LateReflections, \* TRUE: a reflection may be read after ECHO_MAX_AGE_MS
  TypesAhead,   \* TRUE: the user may have typed ahead of a password prompt
  MaxKeys       \* bound: how many keys are typed

ASSUME TerminalAssumption ==
  /\ {QueueSize, EchoMaxAge, LineCapacity, MaxKeys} \subseteq Nat \ {0}
  /\ {LateReflections, TypesAhead} \subseteq BOOLEAN

VARIABLES
  reflects,   \* whether the carrier reflects; the terminal does not know
  running,
  typed,      \* history: the keys it took
  value, head, count,       \* the KEY_QUEUE
  pending, expected, age,   \* the reflection it waits for
  hide, matched, afterCr,   \* hide_local_input, the prompt so far, after_cr
  screen,     \* what has been shown
  owed,       \* history: how often each symbol should be shown in the end
  toAdapter, toTerminal,    \* bytes under way
  line,       \* the firmware's line
  saying      \* the rest of its answer

queue == <<value, head, count>>
reflection == <<pending, expected, age>>
display == <<hide, matched, afterCr, screen>>
adapter == <<line, saying>>
vars == <<reflects, running, typed, queue, reflection, display, owed,
          toAdapter, toTerminal, adapter>>

Keys == {"t", "P", "BS", "CR", "s"}
Marker == <<"P", ":">>
Break == <<"CR", "LF">>
\* "PASSWORD RECEIVED", and the prompt.
Answers == {<<"P", "t">>, Marker}
Carried == Keys \cup {"LF", ":"}
Shown == {"t", "P", ":", "NL"}

Slot(i) == i % QueueSize

Init ==
  /\ reflects \in BOOLEAN /\ running = TRUE /\ typed = <<>>
  /\ value = [i \in 0 .. QueueSize - 1 |-> "CR"] /\ head = 0 /\ count = 0
  /\ pending = FALSE /\ expected = "CR" /\ age = 0
  /\ hide = FALSE /\ matched = 0 /\ afterCr = FALSE
  /\ screen = <<>> /\ owed = [c \in Shown |-> 0]
  /\ toAdapter = <<>> /\ toTerminal = <<>> /\ line = <<>> /\ saying = <<>>

Queued == [i \in 1 .. count |-> value[Slot(head + i - 1)]]

\* The keys the adapter has not read.
UnderWay == toAdapter \o Queued

-----------------------------------------------------------------------------
(* The keyboard                                                             *)

ShowsMarker ==
  /\ Len(screen) >= Len(Marker)
  /\ \A i \in 1 .. Len(Marker) : screen[Len(screen) - Len(Marker) + i] = Marker[i]

NothingAhead ==
  \E i \in DOMAIN typed :
    typed[i] = "CR" /\ \A j \in i + 1 .. Len(typed) : typed[j] = "s"

\* Whoever types a password waits for the whole prompt, with no Enter of his
\* and no answer still under way.
AtPrompt ==
  /\ ShowsMarker /\ (NothingAhead \/ TypesAhead)
  /\ saying = <<>> /\ ToSet(toTerminal) \subseteq {"s"}
  /\ "CR" \notin ToSet(UnderWay)

\* Mutant: the ring is overwritten.
NeverFull == FALSE

Full == count = QueueSize

Type(key) ==
  /\ running /\ Len(typed) < MaxKeys
  /\ key = "s" => AtPrompt
  /\ IF Full THEN running' = FALSE /\ UNCHANGED <<typed, queue>>
     ELSE /\ typed' = Append(typed, key)
          /\ value' = [value EXCEPT ![Slot(head + count)] = key]
          /\ count' = count + 1
          /\ UNCHANGED <<running, head>>
  /\ UNCHANGED <<reflects, reflection, display, owed, toAdapter, toTerminal,
                 adapter>>

NextSlot(i) == Slot(i + 1)

KeyPop == head' = NextSlot(head) /\ count' = count - 1 /\ UNCHANGED value

\* ESC, Ctrl-C, the closed window, a failed read, or a failed write of a key.
Stop ==
  /\ running /\ running' = FALSE
  /\ UNCHANGED queue \/ (count > 0 /\ ~pending /\ KeyPop)
  /\ UNCHANGED <<reflects, typed, reflection, display, owed, toAdapter,
                 toTerminal, adapter>>

-----------------------------------------------------------------------------
(* The loop of main()                                                       *)

\* Mutant: whatever comes in time is taken for the reflection.
IsAnyReflection(c) == pending /\ age <= EchoMaxAge

IsReflection(c) == pending /\ c = expected /\ age <= EchoMaxAge

\* feed_password_prompt
Match(c) ==
  IF c = Marker[matched + 1] THEN matched + 1
  ELSE IF c = Marker[1] THEN 1 ELSE 0

ShowReceived(c) ==
  /\ afterCr' = (c = "CR")
  /\ screen' = CASE c = "CR" -> Append(screen, "NL")
                 [] c = "LF" -> IF afterCr THEN screen ELSE Append(screen, "NL")
                 [] OTHER -> Append(screen, c)

HandleByte ==
  /\ running /\ toTerminal # <<>>
  /\ toTerminal' = Tail(toTerminal)
  /\ LET c == Head(toTerminal) IN
       IF IsReflection(c) THEN pending' = FALSE /\ UNCHANGED display
       ELSE /\ ShowReceived(c)
            /\ matched' = Match(c) % Len(Marker)
            /\ hide' = (hide \/ Match(c) = Len(Marker))
            /\ UNCHANGED pending
  /\ UNCHANGED <<reflects, running, typed, queue, expected, age, owed, toAdapter,
                 adapter>>

\* Mutant: a reflection is waited for as long as it takes.
NeverOverdue == FALSE

Overdue == pending /\ age > EchoMaxAge

Expire ==
  /\ running /\ Overdue
  /\ pending' = FALSE
  /\ UNCHANGED <<reflects, running, typed, queue, expected, age, display, owed,
                 toAdapter, toTerminal, adapter>>

\* Mutant: the display comes back after the first key.
HiddenForOneKey(key) == FALSE

HiddenAfter(key) == hide /\ key # "CR"

\* One key goes out, is shown unless it is hidden, and comes back if it does.
Send ==
  /\ running /\ ~pending /\ count > 0
  /\ KeyPop
  /\ LET key == value[head]
         visible == ~hide /\ key # "CR" IN
       /\ toAdapter' = Append(toAdapter, key)
       /\ toTerminal' = IF reflects THEN Append(toTerminal, key) ELSE toTerminal
       /\ pending' = TRUE /\ expected' = key /\ age' = 0
       /\ hide' = HiddenAfter(key)
       /\ screen' = IF visible THEN Append(screen, key) ELSE screen
       /\ owed' = IF visible /\ key \in Shown THEN [owed EXCEPT ![key] = @ + 1]
                  ELSE owed
  /\ UNCHANGED <<reflects, running, typed, matched, afterCr, adapter>>

\* Time passes, be it while the loop is held up.
Tick ==
  /\ running /\ pending
  /\ age < EchoMaxAge \/ (age = EchoMaxAge /\ (LateReflections \/ ~reflects))
  /\ age' = age + 1
  /\ UNCHANGED <<reflects, running, typed, queue, pending, expected, display,
                 owed, toAdapter, toTerminal, adapter>>

-----------------------------------------------------------------------------
(* The adapter: consumeSerialByte, and the answers of finishLine            *)

\* Mutant: the byte that ends the string in the buffer is counted twice.
EditedTooShort(key) ==
  CASE key = "CR" -> <<>>
    [] key = "BS" -> IF line = <<>> THEN line ELSE Front(line)
    [] OTHER -> IF Len(line) >= LineCapacity - 2 THEN line ELSE Append(line, key)

Edited(key) ==
  CASE key = "CR" -> <<>>
    [] key = "BS" -> IF line = <<>> THEN line ELSE Front(line)
    [] OTHER -> IF Len(line) >= LineCapacity - 1 THEN line ELSE Append(line, key)

AdapterReads ==
  /\ running /\ saying = <<>> /\ toAdapter # <<>>
  /\ toAdapter' = Tail(toAdapter)
  /\ line' = Edited(Head(toAdapter))
  /\ IF Head(toAdapter) = "CR"
       THEN \E answer \in Answers : saying' = Break \o answer
       ELSE UNCHANGED saying
  /\ UNCHANGED <<reflects, running, typed, queue, reflection, display, owed,
                 toTerminal>>

AdapterSays ==
  /\ running /\ saying # <<>>
  /\ saying' = Tail(saying) /\ toTerminal' = Append(toTerminal, Head(saying))
  /\ LET c == IF Head(saying) = "LF" THEN "NL" ELSE Head(saying) IN
       owed' = IF c \in Shown THEN [owed EXCEPT ![c] = @ + 1] ELSE owed
  /\ UNCHANGED <<reflects, running, typed, queue, reflection, display, toAdapter,
                 line>>

Closed == ~running /\ UNCHANGED vars

Adapter == AdapterReads \/ AdapterSays
Loop == HandleByte \/ Expire \/ Send
Next ==
  \/ \E key \in Keys : Type(key)
  \/ Stop \/ Loop \/ Tick \/ Adapter \/ Closed

Spec == Init /\ [][Next]_vars

\* The loop goes round every 5 ms, time passes and the adapter answers.
FairSpec == Spec /\ WF_vars(Loop) /\ WF_vars(Tick) /\ WF_vars(Adapter)

-----------------------------------------------------------------------------
(* Properties                                                               *)

TypeOK ==
  /\ {reflects, running, pending, hide, afterCr} \subseteq BOOLEAN
  /\ typed \in Seq(Keys) /\ toAdapter \in Seq(Keys)
  /\ value \in [0 .. QueueSize - 1 -> Keys]
  /\ head \in 0 .. QueueSize - 1 /\ count \in 0 .. QueueSize
  /\ expected \in Keys /\ age \in 0 .. EchoMaxAge + 1
  /\ matched \in 0 .. Len(Marker) - 1
  /\ toTerminal \in Seq(Carried) /\ saying \in Seq(Carried)
  /\ screen \in Seq(Keys \cup Shown) /\ owed \in [Shown -> Nat]
  /\ line \in Seq(Keys) /\ Len(line) < LineCapacity

\* docs/WINDOWS98.md: nothing that is typed at a password prompt reaches the
\* screen, neither from the keyboard nor by way of the carrier.
PasswordStaysHidden == "s" \notin ToSet(screen)

Occurrences(c, s) == Cardinality({i \in DOMAIN s : s[i] = c})

\* docs/WINDOWS98.md: once everything has arrived, a carrier that reflects has
\* made no character appear twice and the suppression has swallowed none that
\* the adapter said.  No line break is missing on either carrier: CR may be taken
\* for a reflection, LF makes up for it.  (An Enter typed into an answer can
\* leave an empty line.)
ShownOnce ==
  (toTerminal = <<>> /\ saying = <<>> /\ ~pending) =>
    /\ reflects => \A c \in Shown \ {"NL"} : Occurrences(c, screen) = owed[c]
    /\ Occurrences("NL", screen) >= owed["NL"]

TakenBack(keys, i, j) == Cardinality({k \in i .. j : keys[k] = "BS"})

\* The keys after the last Enter that no backspace takes back: up to every later
\* key, more than half are others.
Kept(keys) ==
  {i \in 1 .. Len(keys) :
     \A j \in i .. Len(keys) :
       keys[j] # "CR" /\ 2 * TakenBack(keys, i, j) <= j - i}

\* text is what is left of keys, in their order.
IsRemainder(text, keys) ==
  \E at \in [1 .. Len(text) -> Kept(keys)] :
    /\ \A i, j \in 1 .. Len(text) : i < j => at[i] < at[j]
    /\ \A k \in Kept(keys) : \E i \in 1 .. Len(text) : at[i] = k
    /\ \A i \in 1 .. Len(text) : text[i] = keys[at[i]]

\* What the adapter has read of the keys that were typed.
Arrived == SubSeq(typed, 1, Len(typed) - Len(UnderWay))

\* No key overtakes another, is lost or doubled on its way through the ring and
\* the line: what is under way are the last keys typed, in their order.
KeysInOrder == running => typed = Arrived \o UnderWay

Fits(keys) ==
  \A n \in 0 .. Len(keys) : Cardinality(Kept(SubSeq(keys, 1, n))) < LineCapacity

\* The line the adapter will carry out is what was typed and taken back, as long
\* as nothing was typed that its buffer could not take.
LineAsTyped == running /\ Fits(Arrived) => IsRemainder(line, Arrived)

\* A key is sent even if nothing ever comes back: neither a carrier without
\* reflection nor a lost one stops the terminal.
KeysGetThrough == (count > 0) ~> (count = 0 \/ ~running)
=============================================================================
