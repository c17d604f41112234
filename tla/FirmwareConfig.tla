--------------------------- MODULE FirmwareConfig ---------------------------
(***************************************************************************)
(* The firmware's saved settings and everything that changes them: the      *)
(* EEPROM record and its v2 predecessor, startup, the guided Wi-Fi setup    *)
(* and the BAUD command on the serial console, and the Flash-button         *)
(* recovery of 300 baud.                                                    *)
(*                                                                         *)
(* Abstractions.  A record is valid or blank: the FNV checksum is taken to  *)
(* reject whatever a torn write leaves.  A console line is the choice the   *)
(* code makes of it; the lines that only print are left out.  EEPROM.commit *)
(* is the ESP8266 library's (erase the sector, write it): a commit that     *)
(* fails reports it and leaves what CommitFailures allows, one cut short by *)
(* a loss of power leaves the old record, the new one or neither.           *)
(* WiFi.begin is the credentials it is given.                               *)
(***************************************************************************)
EXTENDS Integers, Sequences, SequencesExt

CONSTANTS
  Ssid,            \* the network names a user may enter (1-32 characters)
  Password,        \* the passwords a user may enter (8-63 characters)
  Baud,            \* the rates of baudSupported
  DefaultBaud,     \* kDefaultBaud
  Numbers,         \* what is typed after BAUD: digits, and 10 for no digit
  Empty,           \* the empty string
  HoldTicks,       \* kBaudRecoveryHoldMs, in ticks
  LegacyFlash,     \* TRUE: the flash may still hold a v2 record
  CommitFailures,  \* what a failing commit leaves: "kept" and/or "erased"
  PowerMayFail     \* TRUE: Reset or a loss of power at any moment

ASSUME SettingsAssumption ==
  /\ DefaultBaud \in Baud
  /\ Empty \notin Ssid \cup Password
  /\ Numbers \subseteq Seq(0 .. 10)
ASSUME EnvironmentAssumption ==
  /\ HoldTicks \in Nat
  /\ CommitFailures \subseteq {"kept", "erased"}
  /\ {LegacyFlash, PowerMayFail} \subseteq BOOLEAN

VARIABLES
  power,                  \* "off", "on", or "held": saved, waiting for release
  flash,                  \* the EEPROM record
  worn,                   \* TRUE: commits to this flash may fail
  config,                 \* the copy in RAM
  activeBaud,             \* the rate Serial.begin was given
  radio,                  \* the credentials of the last WiFi.begin
  inputState,             \* the console's InputState
  pendingSsid, pendingPassword,
  pressed,                \* the Flash button
  flashPressActive,       \* seen down by an earlier loop pass
  heldFor,                \* ticks since that pass
  baudRecoveryTriggered,
  typed                   \* history: what the user entered since WIFI

settings == <<flash, worn, config, activeBaud, radio>>
console == <<inputState, pendingSsid, pendingPassword, typed>>
button == <<pressed, flashPressActive, heldFor, baudRecoveryTriggered>>
vars == <<power, settings, console, button>>

-----------------------------------------------------------------------------
(* Records                                                                  *)

Record(format, ssid, password, baud) ==
  [format |-> format, ssid |-> ssid, password |-> password, baud |-> baud]

\* Zeroed RAM, erased flash, and whatever fails its checksum.
Blank == Record("none", Empty, Empty, DefaultBaud)

V3Record ==
  {Record("v3", s, p, b) : s \in Ssid, p \in Password, b \in Baud}
    \cup {Record("v3", Empty, Empty, b) : b \in Baud}
V2Record == {Record("v2", s, p, DefaultBaud) : s \in Ssid, p \in Password}

Valid(record) == record.format = "v3"
Creds(record) == <<record.ssid, record.password>>
NoCreds == <<Empty, Empty>>
SavedBaud(record) == IF Valid(record) THEN record.baud ELSE DefaultBaud

\* writeConfig: what the flash holds afterwards and what the caller sees.
Outcome(left, result) == [left |-> left, result |-> result]
CommitOutcomes(next) ==
  {Outcome(next, "ok")}
    \cup {Outcome(IF how = "kept" THEN flash ELSE Blank, "failed") :
            how \in IF worn THEN CommitFailures ELSE {}}
    \cup {Outcome(left, "cut") :
            left \in IF PowerMayFail THEN {flash, Blank, next} ELSE {}}

\* Mutant: a rate change writes a fresh record.
WithBaudAlone(baud) == Record("v3", Empty, Empty, baud)

\* What next is saved as when saveBaud or saveConfig is called.
WithBaud(baud) ==
  IF Valid(config) THEN [config EXCEPT !.baud = baud]
                   ELSE Record("v3", Empty, Empty, baud)
WithCreds(ssid, password) ==
  Record("v3", ssid, password,
         IF Valid(config) THEN config.baud ELSE activeBaud)

-----------------------------------------------------------------------------
(* Power and startup                                                        *)

NothingTyped == [ssid |-> Empty, password |-> Empty, again |-> Empty]

Init ==
  /\ power = "off" /\ pressed = FALSE
  /\ flash \in {Blank} \cup V3Record \cup (IF LegacyFlash THEN V2Record ELSE {})
  /\ worn \in {CommitFailures # {}, FALSE}
  /\ config = Blank /\ activeBaud = DefaultBaud /\ radio = NoCreds
  /\ inputState = "Command" /\ pendingSsid = Empty /\ pendingPassword = Empty
  /\ typed = NothingTyped
  /\ flashPressActive = FALSE /\ heldFor = 0 /\ baudRecoveryTriggered = FALSE

\* RAM is gone; the next start initialises all of it.
SwitchedOff ==
  /\ power' = "off" /\ UNCHANGED <<worn, pressed>>
  /\ config' = Blank /\ activeBaud' = DefaultBaud /\ radio' = NoCreds
  /\ inputState' = "Command" /\ pendingSsid' = Empty /\ pendingPassword' = Empty
  /\ typed' = NothingTyped
  /\ flashPressActive' = FALSE /\ heldFor' = 0 /\ baudRecoveryTriggered' = FALSE

\* setup(): loadConfig, then Serial.begin, then connectWifiAndReport.
Started(loaded) ==
  /\ power' = "on" /\ config' = loaded
  /\ activeBaud' = SavedBaud(loaded)
  /\ radio' = Creds(loaded)
  /\ UNCHANGED <<worn, console, button>>

\* With the button down the chip starts its ROM bootloader instead.
Boot ==
  /\ power = "off" /\ ~pressed /\ flash.format # "v2"
  /\ Started(IF Valid(flash) THEN flash ELSE Blank)
  /\ UNCHANGED flash

\* A v2 record is rewritten as v3; without it the settings start from nothing.
BootMigrates ==
  /\ power = "off" /\ ~pressed /\ flash.format = "v2"
  /\ \E o \in CommitOutcomes([flash EXCEPT !.format = "v3"]) :
       /\ flash' = o.left
       /\ CASE o.result = "ok"     -> Started(o.left)
            [] o.result = "failed" -> Started(Blank)
            [] o.result = "cut"    -> SwitchedOff

PowerCut ==
  /\ PowerMayFail /\ power # "off"
  /\ SwitchedOff /\ UNCHANGED flash

\* The end of the recovery: ESP.restart once the button is released.
Restart ==
  /\ power = "held" /\ ~pressed
  /\ SwitchedOff /\ UNCHANGED flash

-----------------------------------------------------------------------------
(* The console: finishLine                                                  *)

At(state) == power = "on" /\ inputState = state

TypeWifi ==
  /\ At("Command")
  /\ inputState' = "WifiSsid"
  /\ pendingSsid' = Empty /\ pendingPassword' = Empty
  /\ typed' = NothingTyped
  /\ UNCHANGED <<power, settings, button>>

EnterSsid(s) ==
  /\ At("WifiSsid")
  /\ pendingSsid' = s /\ inputState' = "WifiSsidConfirm"
  /\ typed' = [typed EXCEPT !.ssid = s]
  /\ UNCHANGED <<power, settings, pendingPassword, button>>

\* An empty or overlong name ends the setup.
RejectSsid ==
  /\ At("WifiSsid")
  /\ inputState' = "Command"
  /\ UNCHANGED <<power, settings, pendingSsid, pendingPassword, typed, button>>

ConfirmSsid ==
  /\ At("WifiSsidConfirm")
  /\ inputState' = "WifiPassword"
  /\ UNCHANGED <<power, settings, pendingSsid, pendingPassword, typed, button>>

RefuseSsid ==
  /\ At("WifiSsidConfirm")
  /\ pendingSsid' = Empty /\ inputState' = "WifiSsid"
  /\ UNCHANGED <<power, settings, pendingPassword, typed, button>>

EnterPassword(p) ==
  /\ At("WifiPassword")
  /\ pendingPassword' = p /\ inputState' = "WifiPasswordConfirm"
  /\ typed' = [typed EXCEPT !.password = p]
  /\ UNCHANGED <<power, settings, pendingSsid, button>>

RejectPassword ==
  /\ At("WifiPassword")
  /\ pendingPassword' = Empty /\ inputState' = "Command"
  /\ UNCHANGED <<power, settings, pendingSsid, typed, button>>

\* Mutant: the repeated password is not compared.
RepeatPasswordUnchecked(p) ==
  /\ At("WifiPasswordConfirm")
  /\ inputState' = "WifiConfirm"
  /\ typed' = [typed EXCEPT !.again = p]
  /\ UNCHANGED <<power, settings, pendingSsid, pendingPassword, button>>

\* There is no way out of this state but the same password again.
RepeatPassword(p) ==
  /\ At("WifiPasswordConfirm")
  /\ inputState' = IF p = pendingPassword THEN "WifiConfirm" ELSE inputState
  /\ typed' = [typed EXCEPT !.again = p]
  /\ UNCHANGED <<power, settings, pendingSsid, pendingPassword, button>>

\* "Y": save, and connect with what was saved.  A failed save keeps
\* pendingPassword.
SaveSetup ==
  /\ At("WifiConfirm")
  /\ \E o \in CommitOutcomes(WithCreds(pendingSsid, pendingPassword)) :
       /\ flash' = o.left
       /\ \/ /\ o.result = "ok"
             /\ config' = o.left /\ radio' = Creds(o.left)
             /\ inputState' = "Command" /\ pendingPassword' = Empty
             /\ UNCHANGED <<power, worn, activeBaud, pendingSsid, typed, button>>
          \/ /\ o.result = "failed"
             /\ inputState' = "Command"
             /\ UNCHANGED <<power, worn, config, activeBaud, radio, pendingSsid,
                            pendingPassword, typed, button>>
          \/ o.result = "cut" /\ SwitchedOff

\* Mutant: only the state goes back.
CancelSetupKeepsPassword ==
  /\ At("WifiConfirm")
  /\ inputState' = "Command"
  /\ UNCHANGED <<power, settings, pendingSsid, pendingPassword, typed, button>>

CancelSetup ==
  /\ At("WifiConfirm")
  /\ inputState' = "Command" /\ pendingPassword' = Empty
  /\ UNCHANGED <<power, settings, pendingSsid, typed, button>>

\* Mutant: EEPROM.commit is forgotten.
SaveBaudUncommitted(baud, goesOn, triggered) ==
  /\ config' = WithBaud(baud) /\ power' = goesOn
  /\ baudRecoveryTriggered' = triggered
  /\ UNCHANGED <<flash, worn, activeBaud, radio, console, pressed,
                 flashPressActive, heldFor>>

\* setBaudAndReport and the recovery: saveBaud, then the adapter goes on or
\* waits for the button; triggered is baudRecoveryTriggered afterwards.
SaveBaud(baud, goesOn, triggered) ==
  \E o \in CommitOutcomes(WithBaud(baud)) :
    /\ flash' = o.left
    /\ \/ /\ o.result = "ok"
          /\ config' = o.left /\ power' = goesOn
          /\ baudRecoveryTriggered' = triggered
          /\ UNCHANGED <<worn, activeBaud, radio, console, pressed,
                         flashPressActive, heldFor>>
       \/ /\ o.result = "failed"
          /\ baudRecoveryTriggered' = triggered
          /\ UNCHANGED <<power, worn, config, activeBaud, radio, console, pressed,
                         flashPressActive, heldFor>>
       \/ o.result = "cut" /\ SwitchedOff

\* A uint32_t as its two halves: value * 10 + digit, without a look at the carry.
Shifted(value, digit) ==
  LET low == value[2] * 10 + digit IN
  <<(value[1] * 10 + low \div 65536) % 65536, low % 65536>>
Value(text) == FoldLeft(Shifted, <<0, 0>>, text)

\* The number itself, in units of 65536 and the rest.
Longer(value, digit) ==
  LET low == value[2] * 10 + digit IN
  <<value[1] * 10 + low \div 65536, low % 65536>>
Exact(text) == FoldLeft(Longer, <<0, 0>>, text)

\* The rate that is meant, if any; 2^32 more means the same.
ParseBaud(text) ==
  {b \in Baud : text # <<>> /\ ToSet(text) \subseteq 0 .. 9
                 /\ Value(text) = <<b \div 65536, b % 65536>>}

\* BAUD RESET is BAUD 300.
TypeBaud(text) ==
  /\ At("Command")
  /\ \E baud \in ParseBaud(text) : SaveBaud(baud, "on", baudRecoveryTriggered)

-----------------------------------------------------------------------------
(* The Flash button: serviceBaudRecoveryButton, once per loop pass          *)

\* The user presses it only while the adapter runs.
PressButton ==
  /\ power = "on" /\ ~pressed
  /\ pressed' = TRUE
  /\ UNCHANGED <<power, settings, console, flashPressActive, heldFor,
                 baudRecoveryTriggered>>

ReleaseButton ==
  /\ pressed /\ pressed' = FALSE
  /\ UNCHANGED <<power, settings, console, flashPressActive, heldFor,
                 baudRecoveryTriggered>>

SeeButtonUp ==
  /\ power = "on" /\ ~pressed
  /\ flashPressActive' = FALSE /\ heldFor' = 0 /\ baudRecoveryTriggered' = FALSE
  /\ UNCHANGED <<power, settings, console, pressed>>

\* Mutant: every pass of the loop starts the press anew.
SeeButtonDownAgain ==
  /\ power = "on" /\ pressed
  /\ flashPressActive' = TRUE /\ heldFor' = 0
  /\ UNCHANGED <<power, settings, console, pressed, baudRecoveryTriggered>>

SeeButtonDown ==
  /\ power = "on" /\ pressed /\ ~flashPressActive
  /\ flashPressActive' = TRUE /\ heldFor' = 0
  /\ UNCHANGED <<power, settings, console, pressed, baudRecoveryTriggered>>

RecoverBaud ==
  /\ power = "on" /\ pressed /\ flashPressActive
  /\ ~baudRecoveryTriggered /\ heldFor = HoldTicks
  /\ SaveBaud(DefaultBaud, "held", TRUE)

Tick ==
  /\ power = "on" /\ flashPressActive /\ heldFor < HoldTicks
  /\ heldFor' = heldFor + 1
  /\ UNCHANGED <<power, settings, console, pressed, flashPressActive,
                 baudRecoveryTriggered>>

ServiceButton == SeeButtonUp \/ SeeButtonDown \/ RecoverBaud

Next ==
  \/ Boot \/ BootMigrates \/ PowerCut \/ Restart
  \/ TypeWifi \/ RejectSsid \/ ConfirmSsid \/ RefuseSsid \/ RejectPassword
  \/ SaveSetup \/ CancelSetup
  \/ \E s \in Ssid : EnterSsid(s)
  \/ \E p \in Password : EnterPassword(p) \/ RepeatPassword(p)
  \/ \E text \in Numbers : TypeBaud(text)
  \/ PressButton \/ ReleaseButton \/ ServiceButton \/ Tick

Spec == Init /\ [][Next]_vars

\* The loop keeps running, time passes, and whoever holds the button lets go
\* of it once the adapter has stopped answering.
Fairness ==
  /\ WF_vars(Boot \/ BootMigrates) /\ WF_vars(Restart)
  /\ WF_vars(ServiceButton) /\ WF_vars(Tick)
  /\ WF_vars(power # "on" /\ ReleaseButton)

FairSpec == Spec /\ Fairness

-----------------------------------------------------------------------------
(* Properties                                                               *)

Text(set) == set \cup {Empty}

TypeOK ==
  /\ power \in {"off", "on", "held"}
  /\ flash \in {Blank} \cup V3Record \cup V2Record
  /\ config \in {Blank} \cup V3Record
  /\ activeBaud \in Baud
  /\ radio \in Text(Ssid) \X Text(Password)
  /\ inputState \in {"Command", "WifiSsid", "WifiSsidConfirm", "WifiPassword",
                     "WifiPasswordConfirm", "WifiConfirm"}
  /\ pendingSsid \in Text(Ssid) /\ pendingPassword \in Text(Password)
  /\ worn \in BOOLEAN /\ pressed \in BOOLEAN
  /\ flashPressActive \in BOOLEAN /\ baudRecoveryTriggered \in BOOLEAN
  /\ heldFor \in 0 .. HoldTicks
  /\ typed \in [ssid : Text(Ssid), password : Text(Password),
                again : Text(Password)]

\* New credentials reach the EEPROM only from the last step of a setup
\* dialogue, and they are the name entered in that dialogue and the password
\* entered twice in it: no reset, migration, rate change or earlier abandoned
\* dialogue mixes them with anything else.  A sector that a failed commit has
\* left empty gets back those the adapter is still running with.
CredentialsAsEntered ==
  [][Creds(flash') \notin {Creds(flash), NoCreds}
       => \/ /\ inputState = "WifiConfirm"
             /\ Creds(flash') = <<typed.ssid, typed.password>>
             /\ typed.again = typed.password
          \/ worn /\ flash = Blank /\ Creds(flash') = radio]_vars

\* Stored credentials go only in a setup dialogue, with the whole record in a
\* commit that failed or was cut short, or as a v2 record that could not be
\* migrated.
CredentialsSurvive ==
  [][Creds(flash) \notin {Creds(flash'), NoCreds}
       => \/ inputState = "WifiConfirm"
          \/ flash' = Blank /\ (worn \/ power' = "off")
          \/ worn /\ flash.format = "v2"]_vars

\* docs/USING.md: Wi-Fi credentials survive a baud change, and v2 settings are
\* migrated automatically.
BaudKeepsCredentials ==
  [][Valid(flash') /\ inputState # "WifiConfirm"
       => Creds(flash') = Creds(flash)]_vars

\* The radio is on the network of the saved settings, never on one that was
\* not saved or no longer is.
RadioFollowsSettings == power # "off" => radio = Creds(config)

\* A password that was typed in is forgotten when the dialogue ends, but for a
\* save that failed.
PasswordForgotten ==
  pendingPassword # Empty
    => worn \/ inputState \in {"WifiPasswordConfirm", "WifiConfirm"}

\* What the firmware relies on: RAM is what the flash holds, or nothing where
\* the flash holds nothing that this version reads, unless a failed commit has
\* emptied the sector; and the answers of the setup dialogue are those of its
\* earlier steps, each of the right kind.
RamIsFlash ==
  power # "off" =>
    IF Valid(config) THEN config = flash \/ (worn /\ flash = Blank)
                     ELSE flash = Blank \/ (worn /\ flash.format = "v2")

Dialogue ==
  /\ power = "off" => inputState = "Command"
  /\ inputState \notin {"Command", "WifiSsid"}
       => pendingSsid \in Ssid /\ pendingSsid = typed.ssid
  /\ inputState \in {"WifiPasswordConfirm", "WifiConfirm"}
       => pendingPassword \in Password /\ pendingPassword = typed.password
  /\ inputState = "WifiConfirm" => typed.again = typed.password

SettingsInv ==
  TypeOK /\ RamIsFlash /\ Dialogue /\ RadioFollowsSettings /\ PasswordForgotten

\* A button held long enough is acted upon whatever the console is doing,
\* unless the save fails.
HoldingRecovers ==
  (power = "on" /\ pressed) ~> (~pressed \/ power # "on" \/ worn)
=============================================================================
