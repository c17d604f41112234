------------------------------ MODULE FirmwareProofs ------------------------------
(***************************************************************************)
(* The two halves of the firmware.                                          *)
(*                                                                         *)
(* The saved settings for all names, passwords and rates, with or without a *)
(* v2 record, losses of power and commits that fail, whether a failing one  *)
(* leaves the record that was there or an empty sector.                     *)
(*                                                                         *)
(* Who owns the bridge: for every number of connections, every buffer size  *)
(* and every order of what peers, radio, serial host and loop do.           *)
(***************************************************************************)
EXTENDS FirmwareConfig, FirmwareBridge, TLAPS

-----------------------------------------------------------------------------
(* Records                                                                  *)

LEMMA BlankRecord ==
  /\ Blank.format = "none" /\ Blank.baud = DefaultBaud
  /\ Creds(Blank) = NoCreds /\ ~Valid(Blank)
BY DEF Blank, Record, Creds, NoCreds, Valid

LEMMA V3Fields ==
  ASSUME NEW r \in V3Record
  PROVE  /\ Valid(r) /\ r # Blank /\ r.baud \in Baud
         /\ Creds(r) \in Text(Ssid) \X Text(Password)
BY DEF V3Record, Record, Valid, Blank, Creds, Text

LEMMA V2Fields ==
  ASSUME NEW r \in V2Record
  PROVE  /\ r.format = "v2" /\ ~Valid(r) /\ r # Blank /\ r.baud = DefaultBaud
         /\ [r EXCEPT !.format = "v3"] \in V3Record
         /\ Creds([r EXCEPT !.format = "v3"]) = Creds(r)
         /\ [r EXCEPT !.format = "v3"].baud = DefaultBaud
BY SettingsAssumption DEF V2Record, V3Record, Record, Valid, Blank, Creds

LEMMA WithBaudRecord ==
  ASSUME TypeOK, NEW b \in Baud
  PROVE  /\ WithBaud(b) \in V3Record
         /\ Creds(WithBaud(b)) = IF Valid(config) THEN Creds(config) ELSE NoCreds
<1>1. CASE config = Blank
  BY <1>1, BlankRecord DEF WithBaud, V3Record, Record, Creds, NoCreds
<1>2. CASE config \in V3Record
  BY <1>2, V3Fields DEF WithBaud, V3Record, Record, Creds
<1> QED
  BY <1>1, <1>2 DEF TypeOK

LEMMA WithCredsRecord ==
  ASSUME TypeOK, NEW s \in Ssid, NEW p \in Password
  PROVE  WithCreds(s, p) \in V3Record /\ Creds(WithCreds(s, p)) = <<s, p>>
<1>1. CASE config = Blank
  BY <1>1, BlankRecord DEF WithCreds, V3Record, Record, Creds, TypeOK
<1>2. CASE config \in V3Record
  <2>1. Valid(config) /\ config.baud \in Baud
    BY <1>2, V3Fields
  <2> QED
    BY <2>1 DEF WithCreds, V3Record, Record, Creds
<1> QED
  BY <1>1, <1>2 DEF TypeOK

(* What writeConfig can leave and report.                                   *)
LEMMA Commits ==
  ASSUME NEW next, NEW o \in CommitOutcomes(next)
  PROVE  \/ o.result = "ok" /\ o.left = next
         \/ o.result = "failed" /\ o.left \in {flash, Blank} /\ worn
         \/ o.result = "cut" /\ o.left \in {flash, Blank, next}
BY EnvironmentAssumption DEF CommitOutcomes, Outcome

-----------------------------------------------------------------------------
(* The invariant                                                            *)

LEMMA SettingsInit ==
  ASSUME Init
  PROVE  SettingsInv
<1>1. TypeOK
  <2>1. /\ flash \in {Blank} \cup V3Record \cup V2Record /\ config = Blank
        /\ activeBaud \in Baud /\ radio \in Text(Ssid) \X Text(Password)
    BY SettingsAssumption DEF Init, Text, NoCreds
  <2>2. /\ typed \in [ssid : Text(Ssid), password : Text(Password),
                      again : Text(Password)]
        /\ pendingSsid \in Text(Ssid) /\ pendingPassword \in Text(Password)
        /\ heldFor \in 0 .. HoldTicks /\ power = "off" /\ inputState = "Command"
    BY EnvironmentAssumption DEF Init, NothingTyped, Text
  <2>3. /\ worn \in BOOLEAN /\ pressed \in BOOLEAN
        /\ flashPressActive \in BOOLEAN /\ baudRecoveryTriggered \in BOOLEAN
    BY DEF Init
  <2> QED
    BY <2>1, <2>2, <2>3 DEF TypeOK
<1> QED
  BY <1>1 DEF Init, SettingsInv, RamIsFlash, Dialogue, RadioFollowsSettings, PasswordForgotten

LEMMA SwitchedOffInv ==
  ASSUME SettingsInv, SwitchedOff, flash' \in {Blank} \cup V3Record \cup V2Record
  PROVE  SettingsInv'
<1>1. TypeOK'
  <2>1. /\ config' = Blank /\ activeBaud' \in Baud
        /\ radio' \in Text(Ssid) \X Text(Password)
        /\ power' = "off" /\ inputState' = "Command" /\ heldFor' \in 0 .. HoldTicks
    BY SettingsAssumption, EnvironmentAssumption DEF SwitchedOff, NoCreds, Text
  <2>2. /\ typed' \in [ssid : Text(Ssid), password : Text(Password),
                       again : Text(Password)]
        /\ pendingSsid' \in Text(Ssid) /\ pendingPassword' \in Text(Password)
    BY DEF SwitchedOff, NothingTyped, Text
  <2>3. /\ worn' \in BOOLEAN /\ pressed' \in BOOLEAN
        /\ flashPressActive' \in BOOLEAN /\ baudRecoveryTriggered' \in BOOLEAN
    BY DEF SwitchedOff, SettingsInv, TypeOK
  <2> QED
    BY <2>1, <2>2, <2>3 DEF TypeOK
<1> QED
  BY <1>1 DEF SwitchedOff, SettingsInv, RamIsFlash, Dialogue, RadioFollowsSettings, PasswordForgotten

(* loadConfig has found a valid record, or starts from nothing.             *)
LEMMA StartedInv ==
  ASSUME SettingsInv, power = "off", NEW r, Started(r),
         flash' \in {Blank} \cup V3Record \cup V2Record,
         \/ r \in V3Record /\ flash' = r
         \/ r = Blank /\ (flash' = Blank \/ (worn /\ flash'.format = "v2"))
  PROVE  SettingsInv'
<1>1. /\ power' = "on" /\ config' = r /\ radio' = Creds(r)
      /\ activeBaud' = SavedBaud(r)
      /\ UNCHANGED <<worn, inputState, pendingSsid, pendingPassword, typed,
                     pressed, flashPressActive, heldFor, baudRecoveryTriggered>>
  BY DEF Started, console, button
<1>2. /\ SavedBaud(r) \in Baud /\ Creds(r) \in Text(Ssid) \X Text(Password)
      /\ r \in {Blank} \cup V3Record
  BY V3Fields, BlankRecord, SettingsAssumption DEF SavedBaud, NoCreds, Text
<1>3. TypeOK'
  BY <1>1, <1>2 DEF SettingsInv, TypeOK
<1>4. RamIsFlash'
  BY <1>1, V3Fields, BlankRecord DEF RamIsFlash
<1> QED
  BY <1>1, <1>3, <1>4 DEF SettingsInv, Dialogue, RadioFollowsSettings, PasswordForgotten

(* saveBaud, for the BAUD command and for the button.                       *)
LEMMA SaveBaudInv ==
  ASSUME SettingsInv, power = "on",
         NEW b \in Baud, NEW to \in {"on", "held"}, NEW t \in BOOLEAN,
         SaveBaud(b, to, t)
  PROVE  SettingsInv'
<1>1. PICK o \in CommitOutcomes(WithBaud(b)) :
        /\ flash' = o.left
        /\ \/ /\ o.result = "ok"
              /\ config' = o.left /\ power' = to
              /\ baudRecoveryTriggered' = t
              /\ UNCHANGED <<worn, activeBaud, radio, console, pressed,
                             flashPressActive, heldFor>>
           \/ /\ o.result = "failed"
              /\ baudRecoveryTriggered' = t
              /\ UNCHANGED <<power, worn, config, activeBaud, radio, console,
                             pressed, flashPressActive, heldFor>>
           \/ o.result = "cut" /\ SwitchedOff
  BY DEF SaveBaud
<1>2. /\ WithBaud(b) \in V3Record
      /\ Creds(WithBaud(b)) = IF Valid(config) THEN Creds(config) ELSE NoCreds
  BY WithBaudRecord DEF SettingsInv
<1>3. CASE o.result = "ok"
  <2>1. /\ flash' = WithBaud(b) /\ config' = WithBaud(b) /\ power' = to
        /\ baudRecoveryTriggered' = t
        /\ UNCHANGED <<worn, activeBaud, radio, inputState, pendingSsid,
                       pendingPassword, typed, pressed, flashPressActive, heldFor>>
    BY <1>1, <1>3, Commits DEF console
  <2>2. TypeOK'
    BY <1>2, <2>1 DEF SettingsInv, TypeOK
  <2>3. RamIsFlash'
    BY <1>2, <2>1, V3Fields DEF RamIsFlash
  <2>4. RadioFollowsSettings'
    BY <1>2, <2>1, BlankRecord, V3Fields DEF SettingsInv, TypeOK, RadioFollowsSettings
  <2> QED
    BY <2>1, <2>2, <2>3, <2>4 DEF SettingsInv, Dialogue, PasswordForgotten
<1>4. CASE o.result = "failed"
  <2>1. /\ baudRecoveryTriggered' = t /\ flash' \in {flash, Blank} /\ worn
        /\ UNCHANGED <<power, worn, config, activeBaud, radio, inputState,
                       pendingSsid, pendingPassword, typed, pressed,
                       flashPressActive, heldFor>>
    BY <1>1, <1>4, Commits DEF console
  <2>2. TypeOK'
    BY <2>1 DEF SettingsInv, TypeOK
  <2>3. RamIsFlash'
    BY <2>1 DEF SettingsInv, RamIsFlash, Valid
  <2> QED
    BY <2>1, <2>2, <2>3 DEF SettingsInv, RadioFollowsSettings, Dialogue, PasswordForgotten
<1>5. CASE o.result = "cut"
  <2>1. flash' \in {Blank} \cup V3Record \cup V2Record
    BY <1>1, <1>2, <1>5, Commits DEF SettingsInv, TypeOK
  <2> QED
    BY <1>1, <1>5, <2>1, SwitchedOffInv
<1> QED
  BY <1>1, <1>3, <1>4, <1>5
LEMMA SettingsStep ==
  ASSUME SettingsInv, [Next]_vars
  PROVE  SettingsInv'
<1> USE DEF SettingsInv
<1>1. CASE Boot
  <2>1. PICK r : r = (IF Valid(flash) THEN flash ELSE Blank) /\ Started(r)
    BY <1>1 DEF Boot
  <2>2. flash \in {Blank} \cup V3Record /\ flash' = flash /\ power = "off"
    BY <1>1, V2Fields DEF Boot, TypeOK
  <2>3. (r \in V3Record /\ flash' = r) \/ (r = Blank /\ flash' = Blank)
    <3>1. CASE flash = Blank
      BY <2>1, <2>2, <3>1, BlankRecord
    <3>2. CASE flash \in V3Record
      <4>1. Valid(flash)
        BY <3>2, V3Fields
      <4> QED
        BY <2>1, <2>2, <3>2, <4>1
    <3> QED
      BY <2>2, <3>1, <3>2
  <2> QED
    BY <2>1, <2>2, <2>3, StartedInv
<1>2. CASE BootMigrates
  <2>1. PICK o \in CommitOutcomes([flash EXCEPT !.format = "v3"]) :
          /\ flash' = o.left
          /\ CASE o.result = "ok"     -> Started(o.left)
               [] o.result = "failed" -> Started(Blank)
               [] o.result = "cut"    -> SwitchedOff
    BY <1>2 DEF BootMigrates
  <2>2. flash \in V2Record /\ power = "off"
    BY <1>2, V3Fields, BlankRecord DEF BootMigrates, TypeOK, Valid
  <2>3. flash.format = "v2" /\ [flash EXCEPT !.format = "v3"] \in V3Record
    BY <2>2, V2Fields
  <2>4. CASE o.result = "ok"
    <3>1. Started(o.left) /\ o.left \in V3Record
      BY <2>1, <2>3, <2>4, Commits
    <3> QED
      BY <2>1, <2>2, <3>1, StartedInv
  <2>5. CASE o.result = "failed"
    <3>1. Started(Blank) /\ flash' \in {flash, Blank} /\ worn
      BY <2>1, <2>5, Commits
    <3>2. flash' \in {Blank} \cup V3Record \cup V2Record
      BY <2>2, <3>1
    <3>3. flash' = Blank \/ (worn /\ flash'.format = "v2")
      BY <2>3, <3>1
    <3> QED
      BY <2>2, <3>1, <3>2, <3>3, StartedInv
  <2>6. CASE o.result = "cut"
    <3>1. SwitchedOff /\ flash' \in {Blank} \cup V3Record \cup V2Record
      BY <2>1, <2>2, <2>3, <2>6, Commits
    <3> QED
      BY <3>1, SwitchedOffInv
  <2> QED
    BY <2>1, <2>4, <2>5, <2>6, Commits
<1>3. CASE PowerCut \/ Restart
  BY <1>3, SwitchedOffInv DEF PowerCut, Restart, TypeOK
<1>4. CASE TypeWifi
  BY <1>4 DEF TypeWifi, At, NothingTyped, settings, button, Text, TypeOK,
     RamIsFlash, Dialogue, RadioFollowsSettings, PasswordForgotten
<1>5. CASE RejectSsid \/ RejectPassword \/ CancelSetup
  BY <1>5 DEF RejectSsid, RejectPassword, CancelSetup, At, settings, button,
     Text, TypeOK, RamIsFlash, Dialogue, RadioFollowsSettings, PasswordForgotten
<1>6. CASE ConfirmSsid \/ RefuseSsid
  BY <1>6 DEF ConfirmSsid, RefuseSsid, At, settings, button, Text, TypeOK,
     RamIsFlash, Dialogue, RadioFollowsSettings, PasswordForgotten
<1>7. ASSUME NEW s \in Ssid, EnterSsid(s)
      PROVE  SettingsInv'
  BY <1>7 DEF EnterSsid, At, settings, button, Text, TypeOK, RamIsFlash,
     Dialogue, RadioFollowsSettings, PasswordForgotten
<1>8. ASSUME NEW p \in Password, EnterPassword(p)
      PROVE  SettingsInv'
  BY <1>8 DEF EnterPassword, At, settings, button, Text, TypeOK, RamIsFlash,
     Dialogue, RadioFollowsSettings, PasswordForgotten
<1>9. ASSUME NEW p \in Password, RepeatPassword(p)
      PROVE  SettingsInv'
  BY <1>9 DEF RepeatPassword, At, settings, button, Text, TypeOK, RamIsFlash,
     Dialogue, RadioFollowsSettings, PasswordForgotten
<1>10. CASE SaveSetup
  <2>1. PICK o \in CommitOutcomes(WithCreds(pendingSsid, pendingPassword)) :
          /\ flash' = o.left
          /\ \/ /\ o.result = "ok"
                /\ config' = o.left /\ radio' = Creds(o.left)
                /\ inputState' = "Command" /\ pendingPassword' = Empty
                /\ UNCHANGED <<power, worn, activeBaud, pendingSsid, typed, button>>
             \/ /\ o.result = "failed"
                /\ inputState' = "Command"
                /\ UNCHANGED <<power, worn, config, activeBaud, radio, pendingSsid,
                               pendingPassword, typed, button>>
             \/ o.result = "cut" /\ SwitchedOff
    BY <1>10 DEF SaveSetup
  <2>2. power = "on" /\ pendingSsid \in Ssid /\ pendingPassword \in Password
    BY <1>10 DEF SaveSetup, At, Dialogue
  <2>3. /\ WithCreds(pendingSsid, pendingPassword) \in V3Record
        /\ Creds(WithCreds(pendingSsid, pendingPassword))
             \in Text(Ssid) \X Text(Password)
    BY <2>2, WithCredsRecord DEF Text
  <2>4. CASE o.result = "ok"
    <3>1. /\ flash' \in V3Record /\ config' = flash' /\ radio' = Creds(flash')
          /\ radio' \in Text(Ssid) \X Text(Password)
          /\ inputState' = "Command" /\ pendingPassword' = Empty
          /\ UNCHANGED <<power, worn, activeBaud, pendingSsid, typed, pressed,
                         flashPressActive, heldFor, baudRecoveryTriggered>>
      BY <2>1, <2>3, <2>4, Commits DEF button
    <3>2. TypeOK'
      BY <3>1 DEF TypeOK, Text
    <3> QED
      BY <2>2, <3>1, <3>2, V3Fields
         DEF RamIsFlash, Dialogue, RadioFollowsSettings, PasswordForgotten
  <2>5. CASE o.result = "failed"
    <3>1. /\ inputState' = "Command" /\ worn /\ flash' \in {flash, Blank}
          /\ UNCHANGED <<power, worn, config, activeBaud, radio, pendingSsid,
                         pendingPassword, typed, pressed, flashPressActive,
                         heldFor, baudRecoveryTriggered>>
      BY <2>1, <2>5, Commits DEF button
    <3>2. TypeOK'
      BY <3>1 DEF TypeOK
    <3>3. RamIsFlash'
      BY <3>1 DEF RamIsFlash, Valid
    <3> QED
      BY <2>2, <3>1, <3>2, <3>3
         DEF Dialogue, RadioFollowsSettings, PasswordForgotten
  <2>6. CASE o.result = "cut"
    <3>1. SwitchedOff /\ flash' \in {Blank} \cup V3Record \cup V2Record
      BY <2>1, <2>3, <2>6, Commits DEF TypeOK
    <3> QED
      BY <3>1, SwitchedOffInv
  <2> QED
    BY <2>1, <2>4, <2>5, <2>6
<1>11. ASSUME NEW text \in Numbers, TypeBaud(text)
       PROVE  SettingsInv'
  <2>1. PICK b \in ParseBaud(text) : SaveBaud(b, "on", baudRecoveryTriggered)
    BY <1>11 DEF TypeBaud
  <2>2. b \in Baud /\ power = "on" /\ baudRecoveryTriggered \in BOOLEAN
    BY <1>11 DEF ParseBaud, TypeBaud, At, TypeOK
  <2> QED
    BY <2>1, <2>2, SaveBaudInv
<1>12. CASE RecoverBaud
  BY <1>12, SaveBaudInv, SettingsAssumption DEF RecoverBaud
<1>13. CASE PressButton \/ ReleaseButton \/ SeeButtonUp \/ SeeButtonDown \/ Tick
  <2>1. UNCHANGED <<power, settings, console>>
    BY <1>13 DEF PressButton, ReleaseButton, SeeButtonUp, SeeButtonDown, Tick
  <2>2. /\ pressed' \in BOOLEAN /\ flashPressActive' \in BOOLEAN
        /\ baudRecoveryTriggered' \in BOOLEAN /\ heldFor' \in 0 .. HoldTicks
    <3>1. CASE PressButton \/ ReleaseButton
      BY <3>1 DEF PressButton, ReleaseButton, TypeOK
    <3>2. CASE SeeButtonUp \/ SeeButtonDown
      <4>1. 0 \in 0 .. HoldTicks
        BY EnvironmentAssumption
      <4>2. CASE SeeButtonUp
        BY <4>1, <4>2 DEF SeeButtonUp, TypeOK
      <4>3. CASE SeeButtonDown
        BY <4>1, <4>3 DEF SeeButtonDown, TypeOK
      <4> QED
        BY <3>2, <4>2, <4>3
    <3>3. CASE Tick
      BY <3>3, EnvironmentAssumption DEF Tick, TypeOK
    <3> QED
      BY <1>13, <3>1, <3>2, <3>3
  <2> QED
    BY <2>1, <2>2 DEF settings, console, TypeOK, RamIsFlash, Dialogue,
       RadioFollowsSettings, PasswordForgotten
<1>14. CASE UNCHANGED vars
  BY <1>14 DEF vars, settings, console, button, TypeOK, RamIsFlash, Dialogue,
     RadioFollowsSettings, PasswordForgotten
<1> QED
  BY <1>1, <1>2, <1>3, <1>4, <1>5, <1>6, <1>7, <1>8, <1>9, <1>10, <1>11, <1>12,
     <1>13, <1>14 DEF Next, ServiceButton

(* The copy in RAM, the flash, the radio and the setup dialogue agree as    *)
(* saveConfig, saveBaud, loadConfig and finishLine leave them: RAM and flash *)
(* differ only over a sector that a failed commit has emptied.              *)
THEOREM SettingsAgree == Spec => []SettingsInv
BY SettingsInit, SettingsStep, PTL DEF Spec

-----------------------------------------------------------------------------
(* Credentials                                                              *)

\* Where a commit leaves an empty sector, it failed or was cut short.
Lost == flash' = Blank /\ (worn \/ power' = "off")

\* What RAM knows comes back to a sector that a failed commit has emptied.
Restored == worn /\ flash = Blank /\ Creds(flash') = radio

LEMMA SaveBaudCreds ==
  ASSUME SettingsInv, power # "off",
         NEW b \in Baud, NEW to, NEW t, SaveBaud(b, to, t)
  PROVE  \/ Creds(flash') = Creds(flash) \/ Lost \/ Restored
         \/ worn /\ flash.format = "v2" /\ Creds(flash') = NoCreds
<1>1. PICK o \in CommitOutcomes(WithBaud(b)) :
        flash' = o.left /\ (o.result = "cut" => SwitchedOff)
  BY DEF SaveBaud, CommitOutcomes, Outcome
<1>2. \/ flash' = flash \/ flash' = WithBaud(b)
      \/ flash' = Blank /\ (worn \/ power' = "off")
  BY <1>1, Commits DEF SwitchedOff
<1>3. Creds(WithBaud(b)) = IF Valid(config) THEN Creds(config) ELSE NoCreds
  BY WithBaudRecord DEF SettingsInv
<1>4. CASE flash' = WithBaud(b)
  <2>1. CASE Valid(config)
    BY <1>3, <1>4, <2>1 DEF SettingsInv, RamIsFlash, RadioFollowsSettings, Restored
  <2>2. CASE ~Valid(config)
    BY <1>3, <1>4, <2>2, BlankRecord DEF SettingsInv, RamIsFlash
  <2> QED
    BY <2>1, <2>2
<1> QED
  BY <1>2, <1>4 DEF Lost

(* What a step can do to the saved credentials.                             *)
LEMMA FlashStep ==
  ASSUME SettingsInv, [Next]_vars
  PROVE  \/ Creds(flash') = Creds(flash) \/ Lost \/ Restored
         \/ worn /\ flash.format = "v2" /\ Creds(flash') = NoCreds
         \/ /\ inputState = "WifiConfirm"
            /\ Creds(flash') = <<typed.ssid, typed.password>>
            /\ typed.again = typed.password
<1>1. CASE BootMigrates
  <2>1. PICK o \in CommitOutcomes([flash EXCEPT !.format = "v3"]) :
          flash' = o.left /\ (o.result = "cut" => SwitchedOff)
    BY <1>1 DEF BootMigrates, CommitOutcomes, Outcome
  <2>2. flash \in V2Record
    BY <1>1, V3Fields, BlankRecord DEF BootMigrates, SettingsInv, TypeOK, Valid
  <2> QED
    BY <2>1, <2>2, V2Fields, Commits DEF Lost, SwitchedOff
<1>2. CASE SaveSetup
  <2>1. PICK o \in CommitOutcomes(WithCreds(pendingSsid, pendingPassword)) :
          flash' = o.left /\ (o.result = "cut" => SwitchedOff)
    BY <1>2 DEF SaveSetup, CommitOutcomes, Outcome
  <2>2. /\ inputState = "WifiConfirm" /\ typed.again = typed.password
        /\ pendingSsid \in Ssid /\ pendingSsid = typed.ssid
        /\ pendingPassword \in Password /\ pendingPassword = typed.password
    BY <1>2 DEF SaveSetup, At, SettingsInv, Dialogue
  <2>3. Creds(WithCreds(pendingSsid, pendingPassword)) = <<typed.ssid, typed.password>>
    BY <2>2, WithCredsRecord DEF SettingsInv
  <2> QED
    BY <2>1, <2>2, <2>3, Commits DEF Lost, SwitchedOff
<1>3. ASSUME NEW text \in Numbers, TypeBaud(text)
      PROVE  \/ Creds(flash') = Creds(flash) \/ Lost \/ Restored
             \/ worn /\ flash.format = "v2" /\ Creds(flash') = NoCreds
  <2>1. PICK b \in ParseBaud(text) : SaveBaud(b, "on", baudRecoveryTriggered)
    BY <1>3 DEF TypeBaud
  <2>2. b \in Baud /\ power = "on"
    BY <1>3 DEF ParseBaud, TypeBaud, At
  <2> QED
    BY <2>1, <2>2, SaveBaudCreds
<1>4. CASE RecoverBaud
  BY <1>4, SaveBaudCreds, SettingsAssumption DEF RecoverBaud
<1>5. CASE \/ Boot \/ PowerCut \/ Restart \/ TypeWifi \/ RejectSsid \/ ConfirmSsid
           \/ RefuseSsid \/ RejectPassword \/ CancelSetup
           \/ \E s \in Ssid : EnterSsid(s)
           \/ \E p \in Password : EnterPassword(p) \/ RepeatPassword(p)
           \/ PressButton \/ ReleaseButton \/ SeeButtonUp \/ SeeButtonDown \/ Tick
           \/ UNCHANGED vars
  <2>1. flash' = flash
    BY <1>5 DEF Boot, PowerCut, Restart, TypeWifi, RejectSsid, ConfirmSsid,
       RefuseSsid, RejectPassword, CancelSetup, EnterSsid, EnterPassword,
       RepeatPassword, PressButton, ReleaseButton, SeeButtonUp, SeeButtonDown,
       Tick, vars, settings
  <2> QED
    BY <2>1
<1> QED
  BY <1>1, <1>2, <1>3, <1>4, <1>5 DEF Next, ServiceButton

(* New credentials come from one setup dialogue of finishLine only: the name *)
(* entered in it and the password entered twice in it.  Those that saveBaud *)
(* restores to an emptied sector are the ones the adapter runs with.        *)
THEOREM CredentialsAreTheUsers == Spec => CredentialsAsEntered
<1>1. SettingsInv /\ [Next]_vars
        => [Creds(flash') \notin {Creds(flash), NoCreds}
              => \/ /\ inputState = "WifiConfirm"
                    /\ Creds(flash') = <<typed.ssid, typed.password>>
                    /\ typed.again = typed.password
                 \/ worn /\ flash = Blank /\ Creds(flash') = radio]_vars
  BY FlashStep, BlankRecord DEF Lost, Restored
<1> QED
  BY <1>1, SettingsAgree, PTL DEF Spec, CredentialsAsEntered

(* BAUD, the Flash button, resets and the migration leave the credentials   *)
(* alone, but for a commit that failed or was cut short and so lost the      *)
(* record, and for a v2 record that could not be migrated.                  *)
THEOREM CredentialsStay == Spec => CredentialsSurvive
<1>1. SettingsInv /\ [Next]_vars
        => [Creds(flash) \notin {Creds(flash'), NoCreds}
              => \/ inputState = "WifiConfirm"
                 \/ flash' = Blank /\ (worn \/ power' = "off")
                 \/ worn /\ flash.format = "v2"]_vars
  BY FlashStep, BlankRecord DEF Lost, Restored
<1> QED
  BY <1>1, SettingsAgree, PTL DEF Spec, CredentialsSurvive

-----------------------------------------------------------------------------
(* The bridge                                                               *)

\* The assumption on the constants, one by one.
LEMMA Bounds ==
  /\ Peers \in Nat /\ Peers > 0 /\ SerialLimit \in Nat /\ TcpLimit \in Nat
  /\ Burst \in Nat /\ HostUnits \in Nat /\ MaxDrops \in Nat
BY BridgeAssumption

LEMMA InvInit ==
  ASSUME BridgeInit
  PROVE  BridgeInv
<1>1. BridgeTypeOK
  <2>1. /\ unclaimed \in Seq(Peer) /\ serialIn \in Seq(Unit) /\ Len(serialIn) = 0
        /\ pc = "wifi" /\ client = 0 /\ lastWritten = 0 /\ hostSent = 0 /\ drops = 0
    BY DEF BridgeInit
  <2>2. /\ conn \in [Peer -> {"none", "open", "closing", "closed"}]
        /\ crashed \in [Peer -> BOOLEAN]
        /\ tcpIn \in [Peer -> 0 .. TcpLimit] /\ sent \in [Peer -> 0 .. Burst]
    BY Bounds DEF BridgeInit
  <2>3. /\ associated \in BOOLEAN /\ joining \in BOOLEAN
        /\ wifiWasConnected \in BOOLEAN /\ listening \in BOOLEAN
        /\ transparentBridgeMode \in BOOLEAN /\ owned \in BOOLEAN
    BY Zenon DEF BridgeInit
  <2> QED
    BY <2>1, <2>2, <2>3, Bounds DEF BridgeTypeOK
<1> QED
  BY <1>1, Bounds DEF BridgeInit, BridgeInv, OneOwner, Live, InOrder, Claimed, Peer

\* What stopping the client does to the connections.
LEMMA StopClientType ==
  ASSUME BridgeTypeOK, StopClient
  PROVE  /\ conn' \in [Peer -> {"none", "open", "closing", "closed"}]
         /\ tcpIn' \in [Peer -> 0 .. TcpLimit]
<1>1. CASE Live(client)
  <2>1. /\ client \in Peer /\ conn' = [conn EXCEPT ![client] = "closed"]
        /\ tcpIn' = [tcpIn EXCEPT ![client] = 0]
    BY <1>1 DEF BridgeTypeOK, StopClient, Stopped, Discarded, Live
  <2> QED
    BY <2>1, Bounds DEF BridgeTypeOK
<1>2. CASE ~Live(client)
  BY <1>2 DEF BridgeTypeOK, StopClient
<1> QED
  BY <1>1, <1>2

\* The queue of the UART after its first unit is read.
LEMMA UnitRead ==
  ASSUME NEW q \in Seq(Unit), q # <<>>, Len(q) <= SerialLimit
  PROVE  Tail(q) \in Seq(Unit) /\ Len(Tail(q)) <= SerialLimit
BY Bounds

\* The connections that wait, after the one that waited longest is taken.
LEMMA WaitingTail ==
  ASSUME BridgeTypeOK, unclaimed # <<>>
  PROVE  Head(unclaimed) \in Peer /\ Tail(unclaimed) \in Seq(Peer)
<1>1. unclaimed \in Seq(Peer)
  BY DEF BridgeTypeOK
<1> HIDE DEF BridgeTypeOK
<1> QED
  BY <1>1

LEMMA TypeStep ==
  ASSUME BridgeInv, [BridgeNext]_bridgeVars
  PROVE  BridgeTypeOK'
<1> USE Bounds DEF BridgeInv, BridgeTypeOK, Peer, Unit
<1>1. CASE ServiceWifi
  BY <1>1, StopClientType DEF ServiceWifi, history
<1>2. CASE SkipBridge \/ EnterBridge \/ SerialWritten \/ PeerWritten
             \/ LeaveSerial \/ ReadSerial \/ SerialRead
  BY <1>2 DEF SkipBridge, EnterBridge, SerialWritten, PeerWritten, LeaveSerial,
     ReadSerial, SerialRead, netVars, history
<1>3. CASE TakeOver
  <2>1. Head(unclaimed) \in Peer /\ Tail(unclaimed) \in Seq(Peer)
    BY <1>3, WaitingTail DEF TakeOver
  <2> QED
    BY <1>3, <2>1, StopClientType DEF TakeOver
<1>4. CASE WriteSerial
  <2>1. /\ tcpIn[client] > 0 /\ lastWritten' = client /\ client \in Peer
        /\ tcpIn' = [tcpIn EXCEPT ![client] = @ - 1]
        /\ UNCHANGED <<loopVars, associated, joining, unclaimed, conn, crashed,
                       sent, hostSent, drops, serialIn, owned>>
    BY <1>4 DEF WriteSerial, Claimed
  <2>2. tcpIn[client] \in 0 .. TcpLimit /\ tcpIn[client] - 1 \in 0 .. TcpLimit
    BY <2>1
  <2>3. tcpIn' \in [Peer -> 0 .. TcpLimit]
    BY <2>1, <2>2
  <2> QED
    BY <2>1, <2>3 DEF loopVars
<1>5. CASE WritePeer \/ DiscardSerial \/ ConsoleLine
  <2>1. serialIn # <<>> /\ serialIn' = Tail(serialIn)
        /\ UNCHANGED <<loopVars, netVars, history>>
    BY <1>5 DEF WritePeer, DiscardSerial, ConsoleLine, ConsoleReads
  <2>2. serialIn' \in Seq(Unit) /\ Len(serialIn') <= SerialLimit
    BY <2>1
  <2> QED
    BY <2>1, <2>2 DEF loopVars, netVars, history
<1>6. CASE Hangup
  <2>1. serialIn # <<>> /\ serialIn' = Tail(serialIn) /\ StopClient
        /\ UNCHANGED <<loopVars, associated, joining, unclaimed, crashed, sent,
                       hostSent, drops, history>>
    BY <1>6 DEF Hangup, ConsoleReads
  <2>2. serialIn' \in Seq(Unit) /\ Len(serialIn') <= SerialLimit
    BY <2>1, UnitRead
  <2> QED
    BY <2>1, <2>2, StopClientType DEF loopVars, history
<1>7. CASE Connect
  <2>1. serialIn # <<>> /\ serialIn' = Tail(serialIn) /\ StopClient
        /\ associated' \in BOOLEAN /\ joining' = associated'
        /\ wifiWasConnected' = associated'
        /\ listening' = (listening \/ associated')
        /\ UNCHANGED <<pc, client, transparentBridgeMode, unclaimed, crashed,
                       sent, hostSent, drops, history>>
    BY <1>7 DEF Connect, ConsoleReads
  <2>2. serialIn' \in Seq(Unit) /\ Len(serialIn') <= SerialLimit
    BY <2>1, UnitRead
  <2>3. listening' \in BOOLEAN
    BY <2>1, Zenon
  <2> QED
    BY <2>1, <2>2, <2>3, StopClientType DEF history
<1>8. CASE RadioDrops \/ RadioReturns
  <2>1. associated' \in BOOLEAN /\ drops' \in 0 .. MaxDrops
    <3>1. CASE RadioDrops
      <4>1. associated' = FALSE /\ drops < MaxDrops /\ drops' = drops + 1
        BY <3>1 DEF RadioDrops
      <4>2. drops' \in 0 .. MaxDrops
        BY <4>1
      <4> QED
        BY <4>1, <4>2
    <3>2. CASE RadioReturns
      BY <3>2 DEF RadioReturns
    <3> QED
      BY <1>8, <3>1, <3>2
  <2>2. UNCHANGED <<loopVars, joining, unclaimed, conn, crashed, tcpIn, sent,
                    hostSent, serialIn, history>>
    BY <1>8 DEF RadioDrops, RadioReturns
  <2> QED
    BY <2>1, <2>2 DEF loopVars, history
<1>9. ASSUME NEW u \in Unit, HostSends(u)
      PROVE  BridgeTypeOK'
  BY <1>9 DEF HostSends, loopVars, history
<1>10. ASSUME NEW p \in Peer, PeerConnects(p)
       PROVE  BridgeTypeOK'
  BY <1>10 DEF PeerConnects, loopVars, history
<1>11. ASSUME NEW p \in Peer,
              PeerSends(p) \/ PeerCloses(p) \/ PeerCrashes(p) \/ StackResets(p)
       PROVE  BridgeTypeOK'
  <2>1. CASE PeerSends(p)
    BY <2>1 DEF PeerSends, loopVars, history
  <2>2. CASE PeerCloses(p)
    BY <2>2 DEF PeerCloses, loopVars, history
  <2>3. CASE PeerCrashes(p)
    BY <2>3 DEF PeerCrashes, loopVars, history
  <2>4. CASE StackResets(p)
    BY <2>4 DEF StackResets, loopVars, history
  <2> QED
    BY <1>11, <2>1, <2>2, <2>3, <2>4
<1>12. CASE UNCHANGED bridgeVars
  BY <1>12 DEF bridgeVars, loopVars, netVars, history
<1> QED
  BY <1>1, <1>2, <1>3, <1>4, <1>5, <1>6, <1>7, <1>8, <1>9, <1>10, <1>11, <1>12
     DEF BridgeNext, Loop, Console, Environment
-----------------------------------------------------------------------------
(* Ownership                                                                *)

\* A connection that stopping does not close was none of the client's.
LEMMA StopClientLive ==
  ASSUME BridgeTypeOK, StopClient, NEW p \in Peer, Live(p)'
  PROVE  Live(p) /\ (p = client => client' # client)
BY Bounds DEF BridgeTypeOK, StopClient, Stopped, Discarded, Live, Peer

LEMMA OwnerStep ==
  ASSUME BridgeInv, [BridgeNext]_bridgeVars
  PROVE  OneOwner'
<1> USE Bounds DEF BridgeInv, OneOwner
<1>1. CASE UNCHANGED <<conn, tcpIn, client, unclaimed>>
  BY <1>1 DEF Live
<1>2. CASE StopClient /\ UNCHANGED <<client, unclaimed>>
  BY <1>2, StopClientLive
<1>3. CASE TakeOver
  <2> SUFFICES ASSUME NEW p \in Peer, Live(p)'
               PROVE  p = client' \/ \E i \in 1 .. Len(unclaimed') : unclaimed'[i] = p
    OBVIOUS
  <2>1. Live(p) /\ p # client
    BY <1>3 DEF TakeOver, BridgeTypeOK, StopClient, Stopped, Discarded, Live, Peer
  <2>2. PICK i \in 1 .. Len(unclaimed) : unclaimed[i] = p
    BY <2>1
  <2>3. CASE i = 1
    BY <1>3, <2>2, <2>3 DEF TakeOver
  <2>4. CASE i # 1
    <3>1. /\ i - 1 \in 1 .. Len(Tail(unclaimed))
          /\ Tail(unclaimed)[i - 1] = unclaimed[i]
      BY <1>3, <2>4 DEF TakeOver, BridgeTypeOK
    <3> QED
      BY <1>3, <2>2, <3>1 DEF TakeOver
  <2> QED
    BY <2>3, <2>4
<1>4. ASSUME NEW p \in Peer, PeerConnects(p)
      PROVE  OneOwner'
  <2> SUFFICES ASSUME NEW q \in Peer, Live(q)'
               PROVE  q = client' \/ \E i \in 1 .. Len(unclaimed') : unclaimed'[i] = q
    OBVIOUS
  <2>1. /\ conn' = [conn EXCEPT ![p] = "open"] /\ unclaimed' = Append(unclaimed, p)
        /\ UNCHANGED <<client, tcpIn>>
    BY <1>4 DEF PeerConnects, loopVars
  <2>2. /\ Len(unclaimed') = Len(unclaimed) + 1 /\ Len(unclaimed) \in Nat
        /\ unclaimed'[Len(unclaimed')] = p
        /\ \A i \in 1 .. Len(unclaimed) : unclaimed'[i] = unclaimed[i]
    BY <2>1 DEF BridgeTypeOK
  <2>3. CASE q = p
    BY <2>2, <2>3
  <2>4. CASE q # p
    <3>1. Live(q)
      BY <2>1, <2>4 DEF Live, BridgeTypeOK
    <3> QED
      BY <2>1, <2>2, <3>1
  <2> QED
    BY <2>3, <2>4
<1>5. ASSUME NEW p \in Peer, PeerSends(p) \/ PeerCloses(p) \/ StackResets(p)
      PROVE  OneOwner'
  <2>1. UNCHANGED <<client, unclaimed>>
    BY <1>5 DEF PeerSends, PeerCloses, StackResets, loopVars
  <2>2. \A q \in Peer : Live(q)' => Live(q)
    BY <1>5 DEF PeerSends, PeerCloses, StackResets, loopVars, BridgeTypeOK, Live, Peer
  <2> QED
    BY <2>1, <2>2
<1>6. CASE UNCHANGED bridgeVars
  BY <1>1, <1>6 DEF bridgeVars, loopVars, netVars
<1>7. CASE ServiceWifi \/ Hangup \/ Connect
  BY <1>1, <1>2, <1>7 DEF ServiceWifi, Hangup, Connect, loopVars
<1>8. CASE \/ SkipBridge \/ EnterBridge \/ SerialWritten \/ PeerWritten
           \/ LeaveSerial \/ ReadSerial \/ SerialRead
           \/ WritePeer \/ DiscardSerial \/ ConsoleLine
  BY <1>1, <1>8 DEF SkipBridge, EnterBridge, SerialWritten, PeerWritten,
     LeaveSerial, ReadSerial, SerialRead, WritePeer, DiscardSerial, ConsoleLine,
     loopVars, netVars
<1>9. CASE WriteSerial
  BY <1>9 DEF WriteSerial, loopVars, BridgeTypeOK, Live, Peer
<1>10. CASE \/ RadioDrops \/ RadioReturns \/ \E u \in Unit : HostSends(u)
            \/ \E p \in Peer : PeerCrashes(p)
  BY <1>1, <1>10 DEF RadioDrops, RadioReturns, HostSends, PeerCrashes, loopVars
<1> QED
  BY <1>3, <1>4, <1>5, <1>6, <1>7, <1>8, <1>9, <1>10
     DEF BridgeNext, Loop, Console, Environment

\* Stopping leaves a connection that was made one that was made.
LEMMA StopClientMade ==
  ASSUME BridgeTypeOK, StopClient, NEW p \in Peer
  PROVE  (conn'[p] = "none") = (conn[p] = "none")
BY DEF BridgeTypeOK, StopClient, Stopped, Discarded, Live, Peer

LEMMA OrderStep ==
  ASSUME BridgeInv, [BridgeNext]_bridgeVars
  PROVE  InOrder'
<1> USE Bounds DEF BridgeInv
<1>1. ASSUME \A p \in Peer : (conn'[p] = "none") = (conn[p] = "none"),
             UNCHANGED <<client, unclaimed>>, lastWritten' \in {lastWritten, client}
      PROVE  InOrder'
  <2>1. \A i \in 1 .. Len(unclaimed) : unclaimed[i] \in Peer
    BY DEF BridgeTypeOK
  <2>2. lastWritten' <= client'
    BY <1>1 DEF InOrder, BridgeTypeOK, Peer
  <2>3. client' = 0 \/ conn'[client'] # "none"
    BY <1>1 DEF InOrder, BridgeTypeOK, Peer
  <2>4. \A p, q \in Peer : q < p /\ conn'[p] # "none" => conn'[q] # "none"
    BY <1>1 DEF InOrder
  <2> QED
    BY <1>1, <2>1, <2>2, <2>3, <2>4 DEF InOrder
<1>2. CASE TakeOver
  <2>1. /\ unclaimed # <<>> /\ client' = unclaimed[1]
        /\ lastWritten' = lastWritten /\ client' \in Peer
        /\ \A p \in Peer : (conn'[p] = "none") = (conn[p] = "none")
    BY <1>2, StopClientMade DEF TakeOver, BridgeTypeOK
  <2>2. /\ Len(unclaimed) \in Nat /\ Len(unclaimed) > 0
        /\ Len(unclaimed') \in Nat /\ Len(unclaimed') = Len(unclaimed) - 1
        /\ \A i \in 1 .. Len(unclaimed') :
             unclaimed'[i] = unclaimed[i + 1] /\ unclaimed'[i] \in Peer
    BY <1>2 DEF TakeOver, BridgeTypeOK
  <2>3. 1 \in 1 .. Len(unclaimed) /\ lastWritten \in Nat /\ client \in Nat
    <3>1. lastWritten \in Peer \cup {0} /\ client \in Peer \cup {0}
      BY DEF BridgeTypeOK
    <3> QED
      BY <2>2, <3>1 DEF Peer
  <2>4. client < unclaimed[1] /\ conn[unclaimed[1]] # "none" /\ lastWritten <= client
    BY <2>3 DEF InOrder
  <2>5. lastWritten' <= client' /\ conn'[client'] # "none"
    <3>1. client' \in Nat
      BY <2>1 DEF Peer
    <3> QED
      BY <2>1, <2>3, <2>4, <3>1
  <2>6. \A i \in 1 .. Len(unclaimed') :
          client' < unclaimed'[i] /\ conn'[unclaimed'[i]] # "none"
    <3> SUFFICES ASSUME NEW i \in 1 .. Len(unclaimed')
                 PROVE  client' < unclaimed'[i] /\ conn'[unclaimed'[i]] # "none"
      OBVIOUS
    <3>1. i + 1 \in 1 .. Len(unclaimed) /\ 1 < i + 1
      BY <2>2
    <3>2. unclaimed[1] < unclaimed[i + 1] /\ conn[unclaimed[i + 1]] # "none"
      BY <2>3, <3>1 DEF InOrder
    <3> QED
      BY <2>1, <2>2, <3>2
  <2>7. \A i, j \in 1 .. Len(unclaimed') : i < j => unclaimed'[i] < unclaimed'[j]
    <3> SUFFICES ASSUME NEW i \in 1 .. Len(unclaimed'),
                        NEW j \in 1 .. Len(unclaimed'), i < j
                 PROVE  unclaimed'[i] < unclaimed'[j]
      OBVIOUS
    <3>1. i + 1 \in 1 .. Len(unclaimed) /\ j + 1 \in 1 .. Len(unclaimed) /\ i + 1 < j + 1
      BY <2>2
    <3>2. unclaimed[i + 1] < unclaimed[j + 1]
      BY <3>1 DEF InOrder
    <3> QED
      BY <2>2, <3>2
  <2>8. \A p, q \in Peer : q < p /\ conn'[p] # "none" => conn'[q] # "none"
    BY <2>1 DEF InOrder
  <2> QED
    BY <2>5, <2>6, <2>7, <2>8 DEF InOrder
<1>3. ASSUME NEW p \in Peer, PeerConnects(p)
      PROVE  InOrder'
  <2>1. /\ conn[p] = "none" /\ conn' = [conn EXCEPT ![p] = "open"]
        /\ unclaimed' = Append(unclaimed, p) /\ UNCHANGED <<client, lastWritten>>
        /\ \A q \in 1 .. p - 1 : conn[q] # "none"
    BY <1>3 DEF PeerConnects, loopVars, history
  <2>2. /\ Len(unclaimed') = Len(unclaimed) + 1 /\ Len(unclaimed) \in Nat
        /\ unclaimed'[Len(unclaimed')] = p
        /\ \A i \in 1 .. Len(unclaimed) :
             unclaimed'[i] = unclaimed[i] /\ unclaimed[i] \in Peer
    BY <2>1 DEF BridgeTypeOK
  <2>3. \A q \in Peer : conn[q] # "none" => q < p
    BY <2>1 DEF InOrder, Peer
  <2>4. /\ \A i \in 1 .. Len(unclaimed) : unclaimed[i] < p
        /\ client < p
    <3>1. \A i \in 1 .. Len(unclaimed) : unclaimed[i] < p
      BY <2>2, <2>3 DEF InOrder
    <3>2. client < p
      BY <2>3 DEF InOrder, BridgeTypeOK, Peer
    <3> QED
      BY <3>1, <3>2
  <2>5. \A q, r \in Peer : r < q /\ conn'[q] # "none" => conn'[r] # "none"
    BY <2>1, <2>3 DEF InOrder, BridgeTypeOK, Peer
  <2>6. \A q \in Peer : conn[q] # "none" => conn'[q] # "none"
    BY <2>1 DEF BridgeTypeOK
  <2>7. conn'[p] # "none"
    BY <2>1 DEF BridgeTypeOK
  <2>8. \A i \in 1 .. Len(unclaimed') :
          client' < unclaimed'[i] /\ conn'[unclaimed'[i]] # "none"
    BY <2>1, <2>2, <2>4, <2>6, <2>7 DEF InOrder
  <2>9. \A i, j \in 1 .. Len(unclaimed') : i < j => unclaimed'[i] < unclaimed'[j]
    BY <2>2, <2>4 DEF InOrder
  <2>10. client' = 0 \/ conn'[client'] # "none"
    BY <2>1, <2>6 DEF InOrder, BridgeTypeOK
  <2> QED
    BY <2>1, <2>5, <2>8, <2>9, <2>10 DEF InOrder
<1>4. ASSUME NEW p \in Peer, PeerSends(p) \/ PeerCloses(p) \/ StackResets(p)
      PROVE  InOrder'
  BY <1>1, <1>4 DEF PeerSends, PeerCloses, StackResets, loopVars, history, BridgeTypeOK
<1>5. CASE ServiceWifi \/ Hangup \/ Connect
  BY <1>1, <1>5, StopClientMade DEF ServiceWifi, Hangup, Connect, loopVars, history
<1>6. CASE \/ SkipBridge \/ EnterBridge \/ SerialWritten \/ PeerWritten
           \/ LeaveSerial \/ ReadSerial \/ SerialRead \/ WriteSerial
           \/ WritePeer \/ DiscardSerial \/ ConsoleLine
  BY <1>1, <1>6 DEF SkipBridge, EnterBridge, SerialWritten, PeerWritten,
     LeaveSerial, ReadSerial, SerialRead, WriteSerial, WritePeer, DiscardSerial,
     ConsoleLine, loopVars, netVars, history
<1>7. CASE \/ RadioDrops \/ RadioReturns \/ \E u \in Unit : HostSends(u)
           \/ \E p \in Peer : PeerCrashes(p)
  BY <1>1, <1>7 DEF RadioDrops, RadioReturns, HostSends, PeerCrashes, loopVars, history
<1>8. CASE UNCHANGED bridgeVars
  BY <1>1, <1>8 DEF bridgeVars, loopVars, netVars, history
<1> QED
  BY <1>2, <1>3, <1>4, <1>5, <1>6, <1>7, <1>8 DEF BridgeNext, Loop, Console, Environment

LEMMA ClaimedStep ==
  ASSUME BridgeInv, [BridgeNext]_bridgeVars
  PROVE  Claimed'
<1> USE DEF BridgeInv, Claimed
<1>1. CASE TakeOver
  <2>1. Head(unclaimed) \in Peer
    BY <1>1 DEF TakeOver, BridgeTypeOK
  <2> QED
    BY <1>1, <2>1, Bounds DEF TakeOver, Peer
<1>2. CASE \/ ServiceWifi \/ SkipBridge \/ EnterBridge \/ WriteSerial
           \/ SerialWritten \/ WritePeer \/ PeerWritten \/ LeaveSerial
           \/ ReadSerial \/ SerialRead \/ DiscardSerial \/ Console
  BY <1>2 DEF ServiceWifi, SkipBridge, EnterBridge, Live, WriteSerial,
     SerialWritten, WritePeer, PeerWritten, LeaveSerial, ReadSerial, SerialRead,
     DiscardSerial, Console, ConsoleLine, Hangup, Connect, ConsoleReads, loopVars,
     history
<1>3. CASE Environment
  BY <1>3 DEF Environment, RadioDrops, RadioReturns, HostSends, PeerConnects,
     PeerSends, PeerCloses, PeerCrashes, StackResets, loopVars, history
<1>4. CASE UNCHANGED bridgeVars
  BY <1>4 DEF bridgeVars, loopVars, history
<1> QED
  BY <1>1, <1>2, <1>3, <1>4 DEF BridgeNext, Loop

LEMMA BridgeInvariant == BridgeSpec => []BridgeInv
<1>1. BridgeInv /\ [BridgeNext]_bridgeVars => BridgeInv'
  BY TypeStep, OwnerStep, OrderStep, ClaimedStep DEF BridgeInv
<1> QED
  BY InvInit, <1>1, PTL DEF BridgeSpec

-----------------------------------------------------------------------------
(* What the users of the bridge rely on                                     *)

(* The variables of the loop and of the network keep their types: the queue *)
(* of waiting connections, the counts of unread bytes and the numbers of    *)
(* serviceBridge and loop stay within their bounds.                         *)
THEOREM BridgeTypes == BridgeSpec => []BridgeTypeOK
BY BridgeInvariant, PTL DEF BridgeInv

(* Only one connection owns the bridge: whatever is still reported as       *)
(* connected is the client of serviceBridge or waits to take it over.       *)
THEOREM OneConnectionOwns == BridgeSpec => []OneOwner
BY BridgeInvariant, PTL DEF BridgeInv

(* Bytes of an older connection never follow those of a newer one on the    *)
(* serial line, however many connections arrive between two passes.         *)
THEOREM NewerBytesOnly == BridgeSpec => TakeoverIsClean
<1>1. BridgeInv /\ BridgeInv' /\ [BridgeNext]_bridgeVars => [lastWritten' >= lastWritten]_bridgeVars
  <2> SUFFICES ASSUME BridgeInv, BridgeInv', BridgeNext
               PROVE  lastWritten' >= lastWritten
    BY DEF bridgeVars
  <2>1. lastWritten' = lastWritten \/ WriteSerial
    BY DEF BridgeNext, Loop, ServiceWifi, SkipBridge, EnterBridge, TakeOver,
       SerialWritten, WritePeer, PeerWritten, LeaveSerial, ReadSerial, SerialRead,
       DiscardSerial, Console, ConsoleLine, Hangup, Connect, Environment,
       RadioDrops, RadioReturns, HostSends, PeerConnects, PeerSends, PeerCloses,
       PeerCrashes, StackResets, history
  <2>2. lastWritten \in Nat /\ lastWritten <= client
    BY Bounds DEF BridgeInv, BridgeTypeOK, InOrder, Peer
  <2> QED
    BY <2>1, <2>2, Bounds DEF WriteSerial, BridgeInv, BridgeTypeOK, Peer
<1> QED
  BY <1>1, BridgeInvariant, PTL DEF BridgeSpec, TakeoverIsClean

(* After the first claim the console of loop never reads again, until reset. *)
THEOREM SilentAfterClaim == BridgeSpec => ConsoleStaysSilent
<1>1. BridgeInv => [owned => ~Console]_bridgeVars
  BY DEF BridgeInv, Claimed, Console, ConsoleLine, Hangup, Connect, ConsoleReads
<1> QED
  BY <1>1, BridgeInvariant, PTL DEF BridgeSpec, ConsoleStaysSilent
=============================================================================
