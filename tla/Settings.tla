------------------------------ MODULE Settings ------------------------------
(***************************************************************************)
(* The settings of the radio, IMCconfig of EEPROMHandler.h: two alarms and *)
(* a length that marks the record as valid.  The record lives in RAM and   *)
(* is saved as a whole, byte after byte in the order of its fields, to the *)
(* EEPROM of the processor.  Writing a byte is a busy wait: no other       *)
(* thread runs, but the power may fail between any two fields.             *)
(*                                                                         *)
(* A field is Blank where the EEPROM was never written; of an alarm the    *)
(* model keeps the status, On or Off; len is On when it is the size of the *)
(* record.  The time zone, which shows nothing that an alarm does not, and *)
(* the texts are left out.                                                 *)
(***************************************************************************)
EXTENDS Sequences, Naturals

CONSTANTS On, Off, Blank

ASSUME SettingsAssumption == On # Off /\ Blank \notin {On, Off}

VARIABLES
  eeprom,     \* the record in the EEPROM
  IMCconfig,  \* the record in RAM
  todo,       \* the fields that the save in progress has still to write
  stage,      \* "off", "boot", "init", "arm" while starting, then "run"
  stateMenu   \* "setupMenu" or "klokMenu", which stands for the other menus

settingsVars == <<eeprom, IMCconfig, todo, stage, stateMenu>>

\* Mutant: the length first.
SaveOrder_LengthFirst == <<"len", "alarm1", "alarm2">>

\* What a save writes, in this order.
SaveOrder == <<"alarm1", "alarm2", "len">>

Config == [alarm1 : {On, Off, Blank}, alarm2 : {On, Off, Blank}, len : {On, Off, Blank}]
Empty == [alarm1 |-> Blank, alarm2 |-> Blank, len |-> Blank]

SettingsTypeOK ==
  /\ {eeprom, IMCconfig} \subseteq Config
  /\ todo \in {SubSeq(SaveOrder, i, 3) : i \in 1 .. 4}
  /\ stage \in {"off", "boot", "init", "arm", "run"}
  /\ stateMenu \in {"setupMenu", "klokMenu"}

SettingsInit ==
  /\ eeprom = Empty /\ IMCconfig = Empty
  /\ todo = <<>> /\ stage = "off" /\ stateMenu = "klokMenu"

-----------------------------------------------------------------------------
\* checkEEPROM: a record whose length does not fit is replaced by defaults.
Checked(stored) == IF stored.len = On THEN stored
                   ELSE [alarm1 |-> Off, alarm2 |-> Off, len |-> stored.len]

(* readEEPROM, called by initMenu: load, check, set the length, save; the  *)
(* result of the check picks the first menu.                               *)
ReadEEPROM ==
  /\ stage = "boot"
  /\ IMCconfig' = [Checked(eeprom) EXCEPT !.len = On]
  /\ todo' = SaveOrder /\ stage' = "init"
  /\ stateMenu' = IF eeprom.len = On THEN "klokMenu" ELSE "setupMenu"
  /\ UNCHANGED eeprom

\* OnChipNvMemSave reaches the end of the next field.
WriteField ==
  /\ todo # <<>>
  /\ eeprom' = [eeprom EXCEPT ![Head(todo)] = IMCconfig[Head(todo)]]
  /\ todo' = Tail(todo)
  /\ UNCHANGED <<IMCconfig, stage, stateMenu>>

\* setAlarm(&IMCconfig.alarm1, ...) of setHardcodedAlarm, called by initAlarms.
SetAlarm1 ==
  /\ stage = "init" /\ todo = <<>>
  /\ IMCconfig' = [IMCconfig EXCEPT !.alarm1 = On]
  /\ todo' = SaveOrder /\ stage' = "arm"
  /\ UNCHANGED <<eeprom, stateMenu>>

-----------------------------------------------------------------------------
\* A thread may run: the radio is on and nobody waits for the EEPROM.
CpuFree == stage = "run" /\ todo = <<>>

\* KEY_OK in the setup menu.
SetupOk ==
  /\ CpuFree /\ stateMenu = "setupMenu"
  /\ todo' = SaveOrder /\ stateMenu' = "klokMenu"
  /\ UNCHANGED <<eeprom, IMCconfig, stage>>

\* setAlarm(&IMCconfig.alarm2, ...) of the last page of the alarm menu.
SetAlarm2 ==
  /\ CpuFree /\ stateMenu = "klokMenu"
  /\ IMCconfig' = [IMCconfig EXCEPT !.alarm2 = On]
  /\ todo' = SaveOrder
  /\ UNCHANGED <<eeprom, stage, stateMenu>>

\* KEY_LEFT and KEY_RIGHT on alarm 2 of the first page: in RAM only.
SwitchAlarm2 ==
  /\ CpuFree /\ stateMenu = "klokMenu"
  /\ \E status \in {On, Off} : IMCconfig' = [IMCconfig EXCEPT !.alarm2 = status]
  /\ UNCHANGED <<eeprom, todo, stage, stateMenu>>

\* KEY_RESET: resetEEPROM, then reset().
ResetEEPROM ==
  /\ CpuFree
  /\ IMCconfig' = [IMCconfig EXCEPT !.len = Off]
  /\ todo' = SaveOrder /\ stateMenu' = "setupMenu"
  /\ UNCHANGED <<eeprom, stage>>

-----------------------------------------------------------------------------
(* What the radio accepts when it starts is a record of which every field  *)
(* has been written, however often the power fails during a save.  They may*)
(* be fields of two saves: that a later one was cut off does not show.     *)
AcceptedIsComplete ==
  eeprom.len = On => \A field \in DOMAIN eeprom : eeprom[field] # Blank
=============================================================================
