# TLA+ models of the serial Wi-Fi bridge and its Windows 98 agent

The repository turns an ESP8266 board into a bridge between a vintage
computer's serial port and TCP port 23, and moves commands and files over that
bridge (or over a null-modem cable) to a Windows 98 computer. This directory
holds the models of its control logic, the TLC runs that check them, and the
proofs that TLAPS checks. `src/` paths below are relative to the repository.

## 1. The system

| Component | Code | State it keeps | Operations |
| --- | --- | --- | --- |
| File transfer (W98SER/2) | `tools/windows98/W98AGENT.C` 213-365, 411-432; `tools/w98agent-client.py` 85-201 | sequence and attempt of the sender; expected sequence, failures, bytes written of the receiver; two 5 s timers and a 2 s grace period | send a frame and wait for its ACK, receive and acknowledge, NAK, FIN, CONFIRM, cancel |
| Commands of the agent | `W98AGENT.C` 434-553, `w98agent-client.py` 170-201, 283-325 | the file being written or read, a child process, a temporary file | PUT, GET, EXEC with their header, READY and result lines |
| Session | `W98AGENT.C` 168-195, 597-651; `w98agent-client.py` 203-281 | line buffer, SYNC token, deadlines | HELLO/READY, SYNC/SYNCED, command loop, BYE |
| Agent's port | `W98AGENT.C` 84-166, 213-307 | reflection mode -1/0/1, one pending byte, the frame being read | write and swallow the reflection, find frames |
| Firmware settings | `.ino` 28-182, 294-403, 460-534 | EEPROM record, copy in RAM, active rate, setup dialogue, button | boot and migration, WIFI, BAUD, save, recovery and restart |
| Firmware bridge | `.ino` 231-269, 422-458, 536-548 | association, the TCP client, the transparent latch | association, takeover, copying both ways, CONNECT, HANGUP |
| Line editor | `.ino` 405-420 | a 96-byte line | edit, end a line |
| W98TERM | `tools/windows98/W98TERM.C` | key queue, reflection it waits for, hidden input | type, send, show |
| LINEPASS | `tools/windows98/LINEPASS.C` | the round and what it has read | write, read, compare |
| configure.py, tests, scripts | `configure.py`, `test_bridge.py`, `scripts/`, `tools/test-*.py` | none to speak of | drive the above, build, flash |

How they interact: the client writes to TCP port 23 (or to a serial port), the
firmware copies bytes between the newest TCP connection and its UART, the agent
reads them from COM1. Control lines and frames share that one byte stream, and
some carriers reflect into COM1 what the agent writes. A client that disappears
leaves bytes in all three places; the next connection takes the bridge over and
has to find the agent's state by HELLO and SYNC. The console of the firmware
reads the same serial port until the first TCP connection and never again after
it; until then W98TERM, LINEPASS and configure.py talk to it.

What is hard about it: both ends of a transfer time out after the same five
seconds, so lost frames are repeated from both sides and the copies stay under
way; frames, lines and half lines of different clients follow each other on one
stream; reflections are recognised by their count; power may fail in the middle
of an EEPROM commit; peers die without the TCP stack noticing; a DOS child
outlives its command; and loops of the firmware last as long as a peer or the
serial host keeps sending. `PROJECT.json` lists these as hazards with their
lines.

What makes each part correct: a transfer delivers the file's blocks once, in
order and completely, or fails on the side that reports failure, and always
ends; a sender succeeds only over a file that was found whole. A PUT that
returns has stored the file; one that fails leaves no partial file. A GET keeps
a whole file or none; EXEC removes its temporary file. A client that got through
SYNC reads its own answer. What the port calls a frame is one the peer has sent.
The saved settings are those the user confirmed. One connection owns the bridge,
the newest; bytes of an older one never follow; the console is silent after the
first claim. The terminal shows each character once and no password; PASS means
a clean line.

## 2. The modules

| Module | What it models |
| --- | --- |
| `FileTransfer` | The promise of a transfer without frames, ACKs or timers |
| `W98Ser2` | Both ends of one transfer, the path between them and the clock |
| `PutCommand` | `handle_put` and `Agent.put` around a `W98Ser2` transfer (EXTENDS it) |
| `GetCommand` | `handle_get`, `handle_exec`, `send_file_handle` and the client's side around a `W98Ser2` transfer (EXTENDS it) |
| `Session` | HELLO/SYNC, the command loop, abandoned clients |
| `AgentPort` | The agent's serial port byte by byte: reflection and frames |
| `FirmwareConfig` | Settings, setup dialogue, BAUD and `parseBaud`, Flash button, power |
| `FirmwareBridge` | The main loop, association, takeover, console latch |
| `Terminal` | W98TERM in front of the firmware's line editor |
| `LinePass` | LINEPASS against the firmware's answer |
| `W98Ser2Proofs`, `PutCommandProofs`, `GetCommandProofs`, `SessionProofs`, `AgentPortProofs`, `LinePassProofs`, `TerminalProofs` | The theorems about the module each is named after |
| `FirmwareProofs` | The theorems about `FirmwareConfig` and `FirmwareBridge` |
| `MCPutCommand`, `MCGetCommand`, `MCFirmwareConfig`, `MCAgentPort` | Files, payloads and values for TLC; the other modules have only numbers as constants and are used directly |

The modules meet where the code does. `PutCommand` and `GetCommand` contain the
transfer itself. `W98Ser2` takes a path of whole frames for granted that are
lost or recognised as damaged; that this is what `read_frame` gives is
`OnlySentFrames` and `IntactIsRead` of `AgentPort`, both proved. `Session` has
one command for the three. `W98Ser2` implements `FileTransfer`
(`ImplementsTransfer`).

**W98Ser2.** The sender's `sState`, `sequence`, `attempt` are
`send_reliable_frame`'s and `send_frame_reliable`'s place, frame number and loop
counter; the receiver's `rState`, `data`, `expected`, `failures` those of
`receive_frames` and `receive_frames_to_file`. There is one action for every
branch of the two receive loops and the grace loop, and one for every way the
send loop goes on. `Direction` says who receives; the two programs differ in
that the agent only counts a failed read in the finish loop while the client
also sends a NAK, that only the agent reads 0x18 as a cancel, and in which
failures of port and disk end the transfer. A write that fails may still have
put its whole frame on the wire: `serial_write_all` returns 0 when only the
reading of the reflection failed (`Remains`). So an ACK of FIN can be under way
from a receiver that gives the file up, which is the receiver state `broken`.
The agent takes a failing `ReadFile` for a timeout, and the read may have taken a
part of a frame with it (`Interrupted`). A frame is one element of a FIFO; the
path may lose the next one, damage it, or damage it so that the agent meets a
0x18. CRC-32 detects every damage of a frame and tells files apart. The header
line has no checksum: `totalSize` and `crcRight` are what the receiver read in
it, and a wrong size sends a block through the branch that refuses it without
counting (`W98AGENT.C` 335-337), or the receiver into its finish loop too early.
Sizes are counted in half blocks, so that one can end inside a block. The timers are
counted in ticks; `Prompt = FALSE` lets any frame be late by any time,
`Prompt = TRUE` handles every frame before the next tick.

**FileTransfer** lets the sink accept only the whole file and the source succeed
only after that. `Withdraw` is the exception, where a port or disk may fail: a
sink that has found the file whole may give it up, and the source may succeed all
the same. In a PUT the agent then deletes the file and sends no STORED line, so
that `put` raises (`OkMeansStored`); in a GET the client raises, and only the
agent has succeeded.

**PutCommand** adds the agent's file (`target`), the name it read (`path`), the
two programs' place outside the transfer and the reply lines. READY goes ahead
of every frame of the agent and the result line behind them, which is why
`ClientReads` needs an empty `bwd`: bytes left in front of the line make it a
different line (`ClientMisreads`).

**GetCommand** adds the request, EXEC's temporary file and its child process,
the header line, READY and the client's local file. A child that is left running
at `EXEC_TIMEOUT` (`abandoned`), or that has started something which still holds
its output (`background`), may keep `DeleteFile` from working.

**Session** has the client's `hello` and the agent's `main` loop, with a new
client after each abandoned one. Lines are elements of FIFOs; an unfinished
line has no end and becomes the beginning of the next (`ReadBeginning`,
`Merged`). EXEC, GET and PUT are one command whose handler is deaf or eats
lines until it gives up.

**AgentPort** has one step per byte. `mode` is `reflection_mode`, `pending` the
byte `consume_reflection` puts back, `phase` and `matched` the place in
`consume_reflection` or `read_frame`. A read may end early because time is up or
because `ReadFile` fails, and the agent reads again with or without a write in
between (`Return`). READY stands for every line it writes. Every byte in the
receive queue knows who sent it; the code does not look at that, the properties
do.

**FirmwareConfig** has one action per branch of `finishLine`'s setup dialogue,
`loadConfig`, `saveBaud`, `saveConfig`, and `serviceBaudRecoveryButton`. A
commit succeeds, fails, or is cut short by a loss of power and then leaves the
old record, the new one or none. `ParseBaud` keeps the 32 bits of its
accumulator. `typed` records what the user entered, for `CredentialsAsEntered`.

**FirmwareBridge** makes each pass of each `while` loop of `serviceBridge` and
`loop` a step of its own (`pc`), so that peers, radio and serial host act
between any two of them. `lastWritten` and `owned` are history variables.

**Terminal** has one step per pass of a branch of `main`'s loop: a received
byte, a reflection given up, a key sent. The ring of keys, the expected
reflection, the prompt that is looked for and the screen are the program's; the
adapter's side is `consumeSerialByte` and the texts that answer a line.
`typed` and `owed` record what was typed and what the screen should have.
`LateReflections` lets a reflection be read after `ECHO_MAX_AGE_MS`, which takes
a loop that was held up, and `TypesAhead` lets the user type while a prompt is
still coming.

**LinePass** has one step per round for purge, write and comparison and one per
byte for the read. Loss, damage and noise may hit any byte under way; `harm`
records whether they hit one the round reads or waits for. The adapter may still
be printing something else when the test starts (`earlier`); what reaches the
port after the purge counts as noise. That output is one byte unlike any the test
expects, so output that happens to be the awaited answer is left out.

## 3. The runs

| Run | Question | Shows |
| --- | --- | --- |
| `Upload` | Can stale, repeated, late or misattributed frames, lost replies, a damaged size or CRC, failing ports or a killed agent spoil a PUT? | `DataIsPrefix`, `SuccessMeansValidated`, `OkMeansStored`, `AcceptanceIsFinal`, every transfer step is one of `FileTransfer` (`ImplementsTransfer`), `CommandEnds`, `IncompleteIsDeleted` |
| `PutCommandRepairs` | Are damaged frames repaired, and is the wire clean afterwards? | `UploadSucceeds`, `CleanHandover` |
| `Fetch` | The same frames with the roles changed, a lost READY, a damaged header, a child that does not end | `IInv`, `LocalIsWhole`, `TempIsRemoved`, `GetEnds` |
| `Sessions` | Is an answer ever another client's, and does a new client get through? | `SessionInv`, `AnswerIsOwn`, `Resynchronises` |
| `Settings` | Can credentials be mixed or lost, do RAM and flash agree, does holding the button always help? | `SettingsInv`, `CredentialsAsEntered`, `CredentialsSurvive`, `HoldingRecovers` |
| `Bridge` | Who owns the bridge, and does the newest connection get it? | `OneOwner`, `TakeoverIsClean`, `ConsoleStaysSilent`, `NewestOwns` |
| `Terminal` | Is a character shown twice or not at all, a password seen, a key lost, the keyboard stuck? | `PasswordStaysHidden`, `ShownOnce`, `KeysInOrder`, `LineAsTyped`, `KeysGetThrough` |
| `Reflections` | Can reflections, cancels inside payloads, damage or a peer that speaks too early make up, hide or repeat a frame? | `Recognised`, `OnlySentFrames`, `IntactIsRead`, `SwallowedAreOwed`, `ListensAgain` |
| `LineTest` | What do PASS and FAIL say about the line? | `PassMeansClean`, `FailMeansHarm`, `TestEnds` |

The last two also check the module's `TypeOK`; `IInv`, `SessionInv` and
`SettingsInv` contain that of theirs, and those of `PutCommand`, `GetCommand`,
`FirmwareBridge` and `Terminal` are theorems. The three runs that TLC ends with a
violation are listed under *Where code and documents disagree*.

### Bounds

`Upload` and `Fetch` use small numbers (3 attempts, one tick of timeout and one
of grace) because delays are arbitrary there: every order of timeouts and
arrivals is explored whatever the numbers are, and three attempts already allow
a first failure, a repeated one and the last. One fault, besides reads and
writes that may fail at any time and as often as they like, is enough in
`Upload` and `Fetch`: every read of the agent that fails can take a frame with
it, so it loses any number of them. Two blocks distinguish the first and the
last. An announced size of 5 half blocks is more than the file, 2 is a block
less, 0 is nothing, 1 and 3 end inside a block: the receiver of these waits for
data that will not come, goes to its finish loop early or at once, or refuses a
block of the file. The theorems of section 4 cover longer files and the empty
one.

Where the code's own numbers matter the runs use them: 10 attempts, 5 s and 2 s
with one tick per second in `PutCommandRepairs` and `LostFrame`, and 90, 15 and
60 seconds in units of 5 in `Sessions`. There the initial value of `prompt`
chooses between lines answered within a tick, for `Resynchronises`, and
arbitrary delays, where `CoarseTick` lets six ticks pass at once. Three clients
let the last one meet what two abandoned ones left.

`Settings` has two names, two passwords, two rates (the default and another), a
button whose five seconds are two ticks, commits that fail before and after the
erase, and six texts after BAUD: none, one that is no number, both rates, a
number that is no rate, and 2^32 + 9600.
`Bridge` has three connections, so that two can come between two passes of the
loop, and three kinds of units from the serial host, two of them in one
behaviour; buffers of one unit make every loop meet its empty and its full case.

`Reflections` has three payloads, one holding the cancel byte, one the beginning
of a frame, one empty; four writes of the agent and two faults, so that READY
and three acknowledgements can be reflected whole, in part or not at all while
the peer repeats itself. `Terminal` has a queue of two, a line of three and
three keys, which fill and wrap the queue. `LineTest` has two rounds, so that
the second meets what the first left, and two faults.

### What they do not say

* `OkMeansStored` is checked without damage to the destination name: nothing in
  the PUT line or in STORED protects it, and a damaged name stores the file
  elsewhere under a put that returns.
* `IncompleteIsDeleted` exempts a killed agent, which leaves the partial file:
  the name is opened with CREATE_ALWAYS at the start.
* `TempIsRemoved` exempts a child that outlives its command: the file stays.
* `Upload` lets a byte 0x18 out of a damaged frame cancel the transfer, so it
  promises no success; `UploadSucceeds` is for frames that are damaged, noticed
  and contain none. One lost frame is enough for `LostFrame`.
* One lost ACK of FIN aborts the sender although the file was accepted: the
  receiver's two seconds of grace are over before the sender repeats FIN after
  five. A lost ACK of the last DATA frame meets the receiver in its finish loop,
  which refuses the repetition; the transfer then fails on both sides, or goes
  on when the ACK was only late. Neither is a false success.
* With EEPROM commits that fail (`worn`), the code keeps the password it could
  not save, does not retry a button recovery before the button is released, and
  loses v2 credentials (`LostMigration`): `SettingsInv`, `HoldingRecovers` and
  `CredentialsSurvive` say so. After a commit that failed behind its erase RAM
  holds a record that the flash has lost; `SettingsInv` then says that the flash
  is empty. STATUS goes on reporting the old rate as saved (`.ino` 138, 212),
  and the next start uses 300. A later commit writes the credentials of RAM
  back, which `CredentialsAsEntered` allows.
* A number that wraps around to a supported rate is taken and saved, as 4294976896
  is for 9600; `docs/USING.md:45-46` lists nine rates. `ParseBaud` does what the
  code does, and `Settings` enters that number.
* `NewestOwns` bounds what a peer sends: the inner loop of `serviceBridge` runs
  as long as the present client has data, so one that streams for ever keeps
  newer connections, association and the button waiting. It also supposes a
  radio that keeps trying to associate.
* `AnswerIsOwn` is for the normal SYNC; with `--legacy-sync` any ERR passes for
  the barrier and it does not hold.
* `Recognised` promises recognition only if the first copy is undisturbed. A
  client byte that comes before READY's reflection, or a damaged first byte of
  it, sets the mode to "off" for good, and the agent then reads its own frames
  (frame 0 in `OnlySentFrames`). The model lets time pass only while the receive
  queue is empty.
* `LineAsTyped` says nothing of a line that at some moment was longer than its
  buffer: the keys that did not fit are dropped, and backspaces then take back
  others than were meant.
* `PasswordStaysHidden` holds only for a user who waits for the prompt and a loop
  that reads every reflection within `ECHO_MAX_AGE_MS` (250 ms, `W98TERM.C:247`).
  Neither is anything the code enforces. On a carrier without reflection a "P"
  typed ahead takes the prompt's own "P" for its reflection and the password is
  shown (`TypedAhead`). A late reflection is shown as well (with
  `LateReflections = TRUE` TLC finds that in `Terminal`), and the
  same lateness would show an ordinary character twice, so `ShownOnce` supposes
  it away too. An Enter typed into an arriving answer can leave an empty
  line.
* `PassMeansClean` does not hear of damage to a byte of the command other than
  its CR, which changes nothing in the answer; and bytes after the last one a
  round expects are purged unseen. A carrier that does not reflect always fails
  the test.

### Where code and documents disagree

Details are under `findings` in `PROJECT.json`.

| Run | Disagreement |
| --- | --- |
| `LostFrame` | After one lost DATA frame the client raises over a stored file |
| `LostMigration` | A failed migration and a BAUD command delete the credentials |
| `TypedAhead` | A key typed ahead swallows the beginning of the prompt, and the password is shown |

`docs/USING.md:34` says that HANGUP closes the active TCP client. It cannot be
given while there is one: the serial bytes go to the client (`.ino` 455-457), and
the console is silent from the first claim on, which is `ConsoleStaysSilent`.

W98TERM also waits for the line REMOTE CONNECTED (`docs/WINDOWS98.md:37`), which
nothing in this firmware prints; `feed_connection_status` never sees it and is
left out.

### Fairness

`PutCommand`, `GetCommand` and `Session` assume that each program keeps running
when it has a step to take and that time passes; no fault, failure, kill or
broken connection is ever required to happen, no child has to end, and nobody
has to be abandoned. Each program is one thread in a loop with timeouts, and the
disjunction of its steps is fair, not each step. `AgentPort`, `LinePass` and
`Terminal` are the same: the agent, the test and the terminal's loop run, and in
`Terminal` time passes and the adapter answers; no peer and no user has to act.
`FirmwareConfig` assumes the loop (button) runs, time passes, and that who holds
the button lets go once the adapter has stopped answering; nobody has to type
anything. `FirmwareBridge` assumes that `loop` runs and that a radio which was
told to keep trying gets its association back. No fairness is assumed of peers,
of the serial host or of the TCP stack noticing a dead peer.

`CHECK_DEADLOCK` is left on in every run; the final states have explicit
stuttering steps (`Finished`, `Over`, `Done`, `Closed`).

## 4. What is proved

Every theorem holds for all values of the constants under the module's
`ASSUME`s, which give the constants their types, and the assumption named here.

| Theorem | Statement | Further assumption |
| --- | --- | --- |
| `W98Ser2Proofs` `TypeCorrect` | `[](TypeOK /\ FailureLimit)` | |
| `Invariance` | `[]IInv` | |
| `WrittenInOrder` | `[](DataIsPrefix /\ StopAndWait)` | |
| `SuccessIsNeverFalse` | `[]SuccessMeansValidated` | |
| `AcceptanceStands` | `AcceptanceIsFinal` | `~ControllerMayBreak` |
| `Refinement` | `ImplementsTransfer` | |
| `PutCommandProofs` `RunsOneTransfer` | `PutSpec => Spec` | |
| `PutTypes` | `[]PutTypeOK` | |
| `ReturnMeansStored` | `[]OkMeansStored` | `"path" \notin LineFaults` |
| `HandsTheLineBack` | `[]CleanHandover` | `Prompt`, `"lost" \notin FaultKinds`, `FinishGrace < FrameTimeout`, `~IoMayFail` |
| `GetCommandProofs` `RunsOneTransfer` | `GetSpec => Spec` | |
| `GetTypes` | `[]GetTypeOK` | |
| `LocalFileIsWhole` | `[]LocalIsWhole` | |
| `TemporaryFileGoes` | `[]TempIsRemoved` | |
| `SessionProofs` `SessionInvariant` | `[]SessionInv` | `~LegacySync` |
| `AnswersBelong` | `[]AnswerIsOwn` | `~LegacySync` |
| `AgentPortProofs` `CarrierIsRecognised` | `[]Recognised` | |
| `PortTypes` | `[]TypeOK` | |
| `FramesAreThePeers` | `[]OnlySentFrames` | `PlainPayloads` |
| `IntactLineIsRead` | `[]IntactIsRead` | |
| `SwallowsWhatIsOwed` | `[]SwallowedAreOwed` | |
| `LinePassProofs` `LineInvariant` | `[]LineInv` | |
| `LineTypes` | `[]TypeOK` | |
| `PassIsEarned` | `[]PassMeansClean` | |
| `FailHasACause` | `[]FailMeansHarm` | |
| `TerminalProofs` `TerminalTypes` | `[]TypeOK` | |
| `NothingIsDisclosed` | `[]PasswordStaysHidden` | `~LateReflections`, `~TypesAhead` |
| `EverythingIsShown` | `[]ShownOnce` | `~LateReflections` |
| `KeysKeepTheirOrder` | `[]KeysInOrder` | |
| `TheLineIsWhatWasTyped` | `[]LineAsTyped` | |
| `FirmwareProofs` `SettingsAgree` | `[]SettingsInv` | |
| `CredentialsAreTheUsers` | `CredentialsAsEntered` | |
| `CredentialsStay` | `CredentialsSurvive` | |
| `BridgeTypes` | `[]BridgeTypeOK` | |
| `OneConnectionOwns` | `[]OneOwner` | |
| `NewerBytesOnly` | `TakeoverIsClean` | |
| `SilentAfterClaim` | `ConsoleStaysSilent` | |

**The transfer.** `SuccessMeansValidated` says that a sender is done only when
the receiver has found the whole file right, and, if no port can fail, still has
it. It is not inductive. An ACK that is still under way may finish the sender
later, so `IInv` says what an ACK under way is worth (`AcksAreEarned`: it names
a written block, or FIN of a file found whole), what a frame under way
presupposes (`FramesAreSent`: its sender has reached it), that the ends are at
most one frame apart (`StopAndWait`), that what is written is a prefix
(`DataIsPrefix`) and which loop the receiver is in (`PhaseMatchesData`). With
`StopAndWait`, an ACK equal to the sender's sequence can only be the current
one, which closes the argument. Sizes and CRCs read wrongly, and ports that fail
before, in or behind a write, are inside all of these theorems;
`AcceptanceStands` alone leaves out a client that receives and loses its
connection between its ACK of FIN and the end of its grace period, for it raises
although the agent has finished.

**The commands.** `RunsOneTransfer` shows that the command around a transfer
only restricts it, so that `Invariance` holds inside it. `ReturnMeansStored`
then follows from a second inductive invariant, `ResultIsEarned`: a STORED line
exists only once the file is stored and closed, and a client that awaits or has
read it has seen its sender finish. `HandsTheLineBack` needs a third, `InStep`:
the sender never repeats a frame that is still to be answered, because a reply
comes before its timeout does, and where none comes, because FIN or CONFIRM was
damaged on the way, the two seconds of grace end before the sender's five do
(`GraceIsShorter`). Without `Prompt`, or with a frame that vanishes whole, the
two ends repeat at the same time and copies of frames stay behind. A failing
read of the agent is a frame that vanishes, which is why the theorem also
supposes that no port fails. It does not matter how many frames are damaged, in
which direction, what the header announced, or whether the agent is killed.
`LocalFileIsWhole` needs that the client writes its local file only after its
receiver is done (`WritesLate`), `TemporaryFileGoes` that the temporary file
exists only in the phases of an EXEC that still remove it (`ChildIsWatched`).

**The session.** `AnswerIsOwn` holds because `SessionInv` says where the lines of
older sessions can still be. A token that is on its way back is the last of what
older sessions earned (`BarrierIsLast`); before it a client is not synchronised
(`NotYetSynced`) and afterwards only its own command and answer are under way
(`Exchange`); nothing of a session exists before it has begun (`Begun`).

**The port.** `PortInv` carries `Recognised`: on a carrier that does not reflect
no byte of READY ever arrives (`ReadyIsReflected`), and until the mode is decided
only the first write has happened (`Undecided`). `PayloadAssumption` says that no
byte of the peer is one of READY's in the model. The other three properties rest
on `Placed`, which is `TypeOK` with where the agent stands in what it reads:
`matched` fits the reflection, the header or the payload of the phase.

* `OnlySentFrames` follows from `Once`: the headers on their way stand in the
  order in which the peer sent them (`Ordered`), are newer than every frame read
  and than the one being read (`Read`), and every frame returned is one of the
  peer's, complete (`Returned`). Loss and damage only thin the queue out.
  `PlainPayloads` says that no byte of a payload passes for a frame header. It
  is a limit of the format, not of the proof: if a file holds a whole valid
  frame, and the header of the frame it travels in is lost, `read_frame` finds
  the inner one. The theorem then says nothing.
* `IntactIsRead` follows from `Undisturbed`, which says for every phase what has
  been read and exactly which bytes are still to come, as long as there was no
  fault and nobody spoke out of turn. It needs no assumption about payloads:
  while a reflection or a payload is read none of its bytes is looked at as a
  cancel or a header.
* `SwallowedAreOwed` follows from `Owed`: the agent's own bytes that are still to
  come, and those that got lost or were read in the peer's place, are at least
  what the reflection being consumed still lacks.

**The line test.** `LineInv` follows the bytes of a round. Those under way and
those read are the command, the answer and noise, none twice (`EachOnce`); if
something harmed a byte, what is read cannot become what is expected
(`Spoilt`); and on a line without faults command, answer and what was read
always add up to the expected bytes (`Undisturbed`). The purge before a round
makes the next one start without anything of the last (`Waiting`).

**The firmware.** `SettingsInv` is inductive: what RAM holds is what the flash
holds, unless a commit failed (`RamIsFlash`), and the answers of the dialogue
are those of its earlier steps (`Dialogue`). Every change of the flash is then
one of a saved dialogue, a saved rate or a migration. `BridgeInv`, which is
inductive too, joins to `OneOwner` that connections are taken in the order of
their numbers (`InOrder`, hence `TakeoverIsClean`) and that a claim is never
forgotten by the latch (`Claimed`, hence `ConsoleStaysSilent`).

**The terminal.** That a password stays hidden depends on everything that is
still under way. `HiddenInv` says that a reflection is never late
(`EchoInTime`), that the expected byte is the last one sent (`ExpectsTheLast`),
that a password byte which comes back is the awaited reflection and the only one
(`EchoIsAwaited`), and that a password byte in the queue finds the display off,
with no Enter ahead of it (`QueuedHidden`). `Settled` is the heart of it: if
nothing was typed ahead and the last Enter has been read, then either the answer
is still arriving and nothing follows the Enter (`Answered`), or the input is
hidden and only password bytes are under way (`Prompted`). `ShownInv` weighs
what the adapter said and the user typed against what is on the screen, under
way or to be suppressed, for each symbol (`Balance`) and for line breaks on
either carrier (`Breaks`). `OrderInv` carries `KeysInOrder` over the ring's
wrap. `LineAsTyped` is inductive with it: what is left of the keys is defined by
counting (`Kept`: up to every later key more than half are no backspaces), so
the proof has no recursion to unfold. It shows that a further key is kept behind
the others, and that a backspace removes exactly the last one kept: any other
has a kept one behind it and with it two keys more than backspaces
(`OthersStay`), and the last has only one, or the key after the last such moment
would be kept as well (`LastGoes`).

TLC checked every invariant and property above before it was proved.

Only model-checked: the liveness properties `CommandEnds`, `IncompleteIsDeleted`,
`UploadSucceeds`, `GetEnds`, `Resynchronises`, `HoldingRecovers`, `NewestOwns`,
`KeysGetThrough`, `ListensAgain` and `TestEnds`: liveness under fairness and
`ENABLED` are out of reach of the installed provers. Every safety property of a
passing run is a theorem. What `ParseBaud` computes of a number's digits is
checked by `Settings` for six texts; the proofs use that it gives a supported
rate or none.

## 5. What is not modelled

* configure.py: a straight script that waits for one prompt after the other and
  keeps no state; what it types are the lines of `FirmwareConfig`'s dialogue.
* The client's interactive session prompt, which repeats the command of
  `Session`.
* Receive-buffer overflow in the firmware: how much the UART loses depends on how
  long other loops take, which the model does not measure.
* The radio after a CONNECT or a start that found no network (`.ino:265`): it
  stays disconnected until somebody types CONNECT or resets. Nothing in the code
  retries, so there is no promise to check; `FirmwareBridge` has the state.
* The agent's line reader at byte level: `Session` has it line by line, and
  `AgentPort` only reads frames.
* Opening and configuring COM1, the terminal's file log, and
  `feed_connection_status`.
* STATUS and HELP, which only print.
* Host-side tests; build, flash and release scripts; the release binaries: no
  state of their own.

## 6. Plan

Done: the modules of section 2 and the theorems of section 4.

What would come next, most important first:

1. A composition of the bridge with two clients of `Session`: half lines as the
   takeover leaves them. Today `Session` lets any half line remain, which covers
   more than the bridge does.
2. configure.py driving `FirmwareConfig`'s dialogue through the line editor.
