---------------------------- MODULE RadioProofs -----------------------------
(***************************************************************************)
(* For a day of any length and any times of alarm 2: what the radio accepts*)
(* from the EEPROM has no field that was never written, and the daily alarm*)
(* is armed whenever the radio runs.                                       *)
(*                                                                         *)
(* Neither is inductive.  A save may be cut between any two fields, so the *)
(* first needs to know that the record in RAM is complete as soon as a save*)
(* can begin, and that the fields a save has passed are no longer blank    *)
(* (SaveInv); the second needs to know that flag1 still holds what the     *)
(* program starts with until initAlarms has run (ArmInv).                  *)
(*                                                                         *)
(* No alarm is missed.  For that it has to be known what the thread of the *)
(* alarms holds between its reads: the registers as they are, and no alarm *)
(* it has passed by that is due, in this half minute or the one before     *)
(* (CheckInv).                                                             *)
(*                                                                         *)
(* A sleep is over in time, for hours and sleeps of any length: the clock  *)
(* does not take it past its last minute (SleepInv), and up to there the   *)
(* test of the sleep mode holds in that minute only (OverInTime).          *)
(*                                                                         *)
(* The last part is about the memory card: for any length of the           *)
(* validations and any bouncing of the switch, a card is reported only     *)
(* after PresentOK scans in a row have found it.                           *)
(***************************************************************************)
EXTENDS Radio, CardDetect, ListLemmas

Fields == {"alarm1", "alarm2", "len"}
Complete(config) == \A field \in Fields : config[field] # Blank

SaveTypes ==
  /\ eeprom \in Config /\ IMCconfig \in Config
  /\ todo \in {<<>>, <<"len">>, <<"alarm2", "len">>, <<"alarm1", "alarm2", "len">>}

SaveInv ==
  /\ SaveTypes
  /\ stage \in {"off", "boot"} => todo = <<>>
  /\ stage \notin {"off", "boot"} => Complete(IMCconfig)
  /\ todo \in {<<"len">>, <<"alarm2", "len">>} => eeprom.alarm1 # Blank
  /\ todo = <<"len">> => eeprom.alarm2 # Blank
  /\ AcceptedIsComplete

ArmInv ==
  /\ rtc = [i \in 1 .. 2 |-> rtc[i]]
  /\ stage # "run" => flag1 = TRUE
  /\ DailyAlarmArmed

\* The radio starts with everything blank and nothing armed.
LEMMA RadioInit == Init => SaveInv /\ ArmInv
  <1> SUFFICES ASSUME Init PROVE SaveInv /\ ArmInv
    OBVIOUS
  <1>1. SaveTypes
    BY DEF Init, SettingsInit, SaveTypes, Config, Empty
  <1>2. AcceptedIsComplete
    BY SettingsAssumption DEF Init, SettingsInit, Empty, AcceptedIsComplete
  <1>3. SaveInv
    BY <1>1, <1>2 DEF Init, SettingsInit, SaveInv
  <1> QED
    BY <1>3 DEF Init, SettingsInit, ArmInv, DailyAlarmArmed

-----------------------------------------------------------------------------
\* Steps that leave the settings alone keep what is known of them.
LEMMA SettingsKept == SaveInv /\ UNCHANGED settingsVars => SaveInv'
  BY DEF SaveInv, SaveTypes, AcceptedIsComplete, Complete, settingsVars

\* Steps that set up a save: the record in RAM stays complete.
LEMMA SaveBegins ==
    ASSUME SaveInv, IMCconfig' \in Config, Complete(IMCconfig'), UNCHANGED eeprom,
           todo' = <<"alarm1", "alarm2", "len">>, stage' \notin {"off", "boot"}
    PROVE  SaveInv'
  <1>1. SaveTypes' /\ AcceptedIsComplete'
    BY DEF SaveInv, SaveTypes, AcceptedIsComplete
  <1>2. todo' # <<"len">> /\ todo' # <<"alarm2", "len">>
    <2>1. Len(todo') = 3 /\ Len(<<"len">>) = 1 /\ Len(<<"alarm2", "len">>) = 2
      OBVIOUS
    <2> QED
      BY <2>1
  <1> QED
    BY <1>1, <1>2 DEF SaveInv, Complete

\* The three cuts of a save: what it has passed is no longer blank.
LEMMA FieldWritten == SaveInv /\ WriteField => SaveInv'
  <1> SUFFICES ASSUME SaveInv, WriteField PROVE SaveInv'
    OBVIOUS
  <1>. DEFINE field == Head(todo)
  <1>1. /\ stage \notin {"off", "boot"} /\ Complete(IMCconfig)
        /\ UNCHANGED <<IMCconfig, stage>>
    BY DEF SaveInv, WriteField
  <1>2. /\ field \in Fields
        /\ field = "alarm1" => todo' = <<"alarm2", "len">>
        /\ field = "alarm2" => todo = <<"alarm2", "len">> /\ todo' = <<"len">>
        /\ field = "len" => todo = <<"len">> /\ todo' = <<>>
    <2>1. CASE todo = <<"alarm1", "alarm2", "len">>
      BY <2>1 DEF WriteField, Fields
    <2>2. CASE todo = <<"alarm2", "len">>
      BY <2>2 DEF WriteField, Fields
    <2>3. CASE todo = <<"len">>
      BY <2>3 DEF WriteField, Fields
    <2> QED
      BY <2>1, <2>2, <2>3 DEF SaveInv, SaveTypes, WriteField
  <1>3. eeprom' = [eeprom EXCEPT ![field] = IMCconfig[field]]
    BY DEF WriteField
  <1>. HIDE DEF field
  <1>4. SaveTypes' /\ eeprom'[field] # Blank /\ \A f \in Fields \ {field} : eeprom'[f] = eeprom[f]
    BY <1>1, <1>2, <1>3 DEF SaveInv, SaveTypes, Config, Fields, Complete
  <1>5. /\ <<"len">> # <<"alarm2", "len">> /\ <<>> # <<"len">> /\ <<>> # <<"alarm2", "len">>
    <2>1. Len(<<"len">>) = 1 /\ Len(<<"alarm2", "len">>) = 2 /\ Len(<<>>) = 0
      OBVIOUS
    <2> QED
      BY <2>1
  <1>6. CASE field = "alarm1"
    BY <1>1, <1>2, <1>4, <1>5, <1>6 DEF SaveInv, AcceptedIsComplete, Fields, Config, SaveTypes
  <1>7. CASE field = "alarm2"
    BY <1>1, <1>2, <1>4, <1>5, <1>7 DEF SaveInv, AcceptedIsComplete, Fields, Config, SaveTypes
  <1>8. CASE field = "len"
    BY <1>1, <1>2, <1>4, <1>5, <1>8 DEF SaveInv, AcceptedIsComplete, Fields, Config, SaveTypes
  <1> QED
    BY <1>2, <1>6, <1>7, <1>8 DEF Fields

\* Starting, and each key that changes the settings.
LEMMA RecordKept ==
    ASSUME SaveInv, ReadEEPROM \/ SetAlarm1 \/ SetupOk \/ SetAlarm2 \/ SwitchAlarm2 \/ ResetEEPROM
    PROVE  SaveInv'
  <1>1. CASE ReadEEPROM
    <2>1. eeprom.len \in {On, Off, Blank} /\ Checked(eeprom) \in Config
      BY DEF SaveInv, SaveTypes, Config, Checked
    <2>2. Checked(eeprom).alarm1 # Blank /\ Checked(eeprom).alarm2 # Blank
      BY <2>1, SettingsAssumption DEF SaveInv, SaveTypes, Config, Checked, AcceptedIsComplete
    <2>3. IMCconfig' \in Config /\ Complete(IMCconfig')
      BY <1>1, <2>1, <2>2, SettingsAssumption DEF ReadEEPROM, Config, Complete, Fields
    <2> QED
      BY <1>1, <2>3, SaveBegins DEF ReadEEPROM, SaveOrder
  <1>2. CASE SetAlarm1
    <2>1. IMCconfig' \in Config /\ Complete(IMCconfig')
      BY <1>2, SettingsAssumption DEF SetAlarm1, SaveInv, SaveTypes, Config, Complete, Fields
    <2> QED
      BY <1>2, <2>1, SaveBegins DEF SetAlarm1, SaveOrder
  <1>3. CASE SetupOk
    <2>1. IMCconfig' \in Config /\ Complete(IMCconfig')
      BY <1>3 DEF SetupOk, CpuFree, SaveInv, SaveTypes, Complete
    <2> QED
      BY <1>3, <2>1, SaveBegins DEF SetupOk, CpuFree, SaveOrder
  <1>4. CASE SetAlarm2
    <2>1. IMCconfig' \in Config /\ Complete(IMCconfig')
      BY <1>4, SettingsAssumption DEF SetAlarm2, CpuFree, SaveInv, SaveTypes, Config, Complete, Fields
    <2> QED
      BY <1>4, <2>1, SaveBegins DEF SetAlarm2, CpuFree, SaveOrder
  <1>5. CASE SwitchAlarm2
    <2>1. IMCconfig' \in Config /\ Complete(IMCconfig')
      BY <1>5, SettingsAssumption DEF SwitchAlarm2, CpuFree, SaveInv, SaveTypes, Config, Complete, Fields
    <2> QED
      BY <1>5, <2>1 DEF SwitchAlarm2, CpuFree, SaveInv, SaveTypes, AcceptedIsComplete
  <1>6. CASE ResetEEPROM
    <2>1. IMCconfig' \in Config /\ Complete(IMCconfig')
      BY <1>6, SettingsAssumption DEF ResetEEPROM, CpuFree, SaveInv, SaveTypes, Config, Complete, Fields
    <2> QED
      BY <1>6, <2>1, SaveBegins DEF ResetEEPROM, CpuFree, SaveOrder
  <1> QED
    BY <1>1, <1>2, <1>3, <1>4, <1>5, <1>6

-----------------------------------------------------------------------------
\* Steps of the running radio that leave the registers of the alarms alone.
LEMMA RegistersKept ==
    ArmInv /\ stage = "run" /\ UNCHANGED <<rtc, stage>> => ArmInv'
  BY DEF ArmInv, DailyAlarmArmed

\* What the threads of the running radio do, but for arming alarm 2.
LEMMA ThreadsKeep ==
    ASSUME SaveInv, ArmInv,
           \/ Check \/ StartStream \/ (\E p \in Players : Play(p) \/ StreamEnds(p))
           \/ StopStream \/ KeySleep \/ SleepEnds
    PROVE  SaveInv' /\ ArmInv'
  <1>1. stage = "run" /\ UNCHANGED <<settingsVars, rtc>>
    <2>1. CASE Check
      BY <2>1 DEF Check, CheckAlarm, GetAlarm, NotDue, RingStream, RingBeep, Running, CpuFree
    <2>2. CASE StartStream
      BY <2>2 DEF StartStream, StreamVars, Running, CpuFree
    <2>3. ASSUME NEW p \in Players, Play(p) \/ StreamEnds(p)
          PROVE  stage = "run" /\ UNCHANGED <<settingsVars, rtc>>
      BY <2>3 DEF Play, StreamEnds, SetUpFails, Connected, Refused, Stopped, LeaveStream,
                  StreamVars, Running, CpuFree
    <2>4. CASE StopStream \/ KeySleep \/ SleepEnds
      BY <2>4 DEF StopStream, KeySleep, SleepEnds, StreamVars, Running, CpuFree
    <2> QED
      BY <2>1, <2>2, <2>3, <2>4
  <1>2. UNCHANGED stage
    BY <1>1 DEF settingsVars
  <1> QED
    BY <1>1, <1>2, SettingsKept, RegistersKept

\* Writing the registers of one alarm leaves those of the other alone.
LEMMA OneAlarm ==
    ASSUME NEW r, r = [i \in 1 .. 2 |-> r[i]], NEW s, NEW k \in 1 .. 2, NEW x, s = [r EXCEPT ![k] = x]
    PROVE  /\ s = [i \in 1 .. 2 |-> s[i]] /\ s[k] = x
           /\ \A j \in 1 .. 2 : j # k => s[j] = r[j]
  <1>1. s = [i \in 1 .. 2 |-> IF i = k THEN x ELSE r[i]]
    OBVIOUS
  <1> QED
    BY <1>1

\* initAlarms arms the daily alarm with the flags the program starts with.
LEMMA DailyArmed ==
    ASSUME SaveInv, ArmInv, InitAlarms
    PROVE  SaveInv' /\ ArmInv'
  <1>1. flag1 = TRUE
    BY DEF InitAlarms, ArmInv
  <1>2. rtc' = [i \in 1 .. 2 |-> rtc'[i]] /\ rtc'[1] = [on |-> TRUE, at |-> DailyTime]
    <2>1. rtc' = [rtc EXCEPT ![1] = [on |-> TRUE, at |-> DailyTime]]
      BY <1>1 DEF InitAlarms
    <2>2. rtc = [i \in 1 .. 2 |-> rtc[i]] /\ 1 \in 1 .. 2
      BY DEF ArmInv
    <2> QED
      BY <2>1, <2>2, OneAlarm
  <1>3. ArmInv'
    BY <1>2 DEF InitAlarms, ArmInv, DailyAlarmArmed
  <1>4. SaveInv'
    BY DEF InitAlarms, SaveInv, SaveTypes, AcceptedIsComplete, Complete
  <1> QED
    BY <1>3, <1>4

\* Every step preserves both invariants.
LEMMA RadioNext == SaveInv /\ ArmInv /\ [Next]_vars => SaveInv' /\ ArmInv'
  <1> SUFFICES ASSUME SaveInv, ArmInv, [Next]_vars PROVE SaveInv' /\ ArmInv'
    OBVIOUS
  <1>1. CASE UNCHANGED vars
    BY <1>1, SettingsKept DEF vars, settingsVars, radioVars, ArmInv, DailyAlarmArmed
  <1>2. CASE PowerFails
    <2>1. Empty \in Config
      BY DEF Empty, Config
    <2>2. SaveInv'
      BY <1>2, <2>1 DEF PowerFails, SaveInv, SaveTypes, AcceptedIsComplete
    <2> QED
      BY <1>2, <2>2 DEF PowerFails, ArmInv, DailyAlarmArmed
  <1>3. CASE PowerUp
    BY <1>3 DEF PowerUp, SaveInv, SaveTypes, AcceptedIsComplete, radioVars, ArmInv, DailyAlarmArmed
  <1>4. CASE Start
    <2>1. SaveInv'
      BY <1>4, RecordKept DEF Start
    <2> QED
      BY <1>4, <2>1 DEF Start, ReadEEPROM, SetAlarm1, radioVars, ArmInv, DailyAlarmArmed
  <1>5. CASE InitAlarms
    BY <1>5, DailyArmed
  <1>6. CASE Save
    BY <1>6, FieldWritten DEF Save, WriteField, radioVars, ArmInv, DailyAlarmArmed
  <1>7. CASE Tick
    BY <1>7, SettingsKept DEF Tick, settingsVars, ArmInv, DailyAlarmArmed
  <1>8. CASE \/ Check \/ StartStream \/ (\E p \in Players : Play(p) \/ StreamEnds(p))
             \/ StopStream \/ KeySleep \/ SleepEnds
    BY <1>8, ThreadsKeep
  <1>9. CASE MenuSetAlarm
    BY <1>9, RecordKept, RegistersKept DEF MenuSetAlarm, SetAlarm2, CpuFree
  <1>10. CASE ArmAlarm2
    <2>1. rtc' = [rtc EXCEPT ![2] = arming] /\ UNCHANGED settingsVars
      BY <1>10 DEF ArmAlarm2
    <2>2. rtc = [i \in 1 .. 2 |-> rtc[i]] /\ {1, 2} \subseteq 1 .. 2 /\ 1 # 2
      BY DEF ArmInv
    <2>3. rtc' = [i \in 1 .. 2 |-> rtc'[i]] /\ rtc'[1] = rtc[1]
      BY <2>1, <2>2, OneAlarm
    <2>4. stage = "run" /\ UNCHANGED stage
      BY <1>10 DEF ArmAlarm2, Running, CpuFree, settingsVars
    <2> QED
      BY <2>1, <2>3, <2>4, SettingsKept DEF ArmInv, DailyAlarmArmed
  <1>11. CASE Keys
    <2>1. SaveInv' /\ stage = "run" /\ UNCHANGED <<rtc, stage>>
      BY <1>11, RecordKept DEF Keys, radioVars, SetupOk, SwitchAlarm2, ResetEEPROM, CpuFree
    <2> QED
      BY <2>1, RegistersKept
  <1> QED
    BY <1>1, <1>2, <1>3, <1>4, <1>5, <1>6, <1>7, <1>8, <1>9, <1>10, <1>11 DEF Next, Booting

-----------------------------------------------------------------------------
(* What the radio accepts from the EEPROM when it starts has no field that *)
(* was never written (readEEPROM, saveEEPROM), however often the power     *)
(* failed in a save; the fields may be of two saves.                       *)
THEOREM SettingsComplete == Spec => []AcceptedIsComplete
  <1>1. SaveInv => AcceptedIsComplete
    BY DEF SaveInv
  <1> QED
    BY <1>1, RadioInit, RadioNext, PTL DEF Spec

(* Whatever is read, armed or pressed, the daily alarm is armed while the  *)
(* radio runs (initAlarms, X12RtcSetAlarm).                                *)
THEOREM DailyAlarm == Spec => []DailyAlarmArmed
  <1>1. ArmInv => DailyAlarmArmed
    BY DEF ArmInv
  <1> QED
    BY <1>1, RadioInit, RadioNext, PTL DEF Spec
-----------------------------------------------------------------------------
(* The alarm checker.                                                      *)

RadioTypeOK ==
  /\ rtc \in [1 .. 2 -> [on : BOOLEAN, at : Nat]] /\ now \in 0 .. (Day - 1)
  /\ flag1 \in BOOLEAN /\ stopAlarm \in BOOLEAN /\ sleepMode \in BOOLEAN
  /\ spinning \in BOOLEAN /\ temp \in 0 .. (Hour - 1)
  /\ arming \in [on : BOOLEAN, at : Nat] /\ checkAt \in Nat
  /\ checker \in Checking \union {"none", "streams", "exited"}
  /\ settled \in 0 .. 2 /\ polled \in {"no", "begun", "yes"}
  /\ player \in [Players -> Streaming \union {"idle", "created"}]
  /\ starter \in Players \union {"nobody"}

\* The half minute before this one.
Before(time) == IF time = 0 THEN Day - 1 ELSE time - 1

\* While the registers stay as they are, what the checker has read is what
\* they hold, and an alarm it has passed by is not due: neither in this half
\* minute nor, once they have stood for a whole one, in the one before.  No
\* check goes on while the clock moves to the next half minute.
CheckInv ==
  /\ RadioTypeOK
  /\ stage # "run" => checker = "none" /\ polled = "no" /\ settled = 0
  /\ polled = "yes" => checker \notin Checking \ {"sleep"}
  /\ checker \in Checking /\ settled # 0 =>
        /\ checker = "clock1" => checkAt = rtc[1].at
        /\ checker \in {"read2", "clock2"} => ~InWindow(now, rtc[1].at)
        /\ checker = "clock2" => checkAt = rtc[2].at
        /\ polled = "yes" => \A i \in 1 .. 2 : ~InWindow(now, rtc[i].at)
  /\ checker \in Checking /\ settled = 2 =>
        \A i \in 1 .. 2 : ~InWindow(Before(now), rtc[i].at)

\* A sleep is not past its end, unless it began in the minute that has none.
SleepInv ==
  /\ sleepMode => stage = "run"
  /\ sleepMode /\ temp # Hour - Nap => Slept <= Nap

\* The numbers of the model.
LEMMA RadioNumbers ==
    /\ Day \in Nat \ {0} /\ 0 \in 0 .. (Day - 1) /\ DailyTime \in Nat
    /\ 0 \in 0 .. 2 /\ 1 \in 0 .. 2 /\ 2 \in 0 .. 2 /\ 0 \in 0 .. (Hour - 1)
    /\ \A t \in 0 .. (Day - 1) : (t + 1) % Day = IF t + 1 = Day THEN 0 ELSE t + 1
    /\ \A t \in 0 .. (Day - 1) : (t + 1) % Day \in 0 .. (Day - 1)
    /\ \A t \in 0 .. (Day - 1) : Before((t + 1) % Day) = t
  <1>1. Day \in Nat \ {0} /\ DailyTime \in Nat
    BY RadioAssumption
  <1>2. Day % Day = 0 /\ \A x \in 0 .. (Day - 1) : x % Day = x
    BY <1>1
  <1>3. ASSUME NEW t \in 0 .. (Day - 1)
        PROVE  (t + 1) % Day = IF t + 1 = Day THEN 0 ELSE t + 1
    <2>1. t + 1 # Day => t + 1 \in 0 .. (Day - 1)
      BY <1>1
    <2> QED
      BY <1>2, <2>1
  <1>4. ASSUME NEW t \in 0 .. (Day - 1)
        PROVE  (t + 1) % Day \in 0 .. (Day - 1) /\ Before((t + 1) % Day) = t
    BY <1>1, <1>3 DEF Before
  <1> QED
    BY <1>1, <1>3, <1>4, RadioAssumption

\* A number is a number of hours and the minutes that are left.
LEMMA HoursAndMinutes ==
    ASSUME NEW H \in Nat \ {0}, NEW x \in Int
    PROVE  \E d \in Int, s \in 0 .. (H - 1) : x = d * H + s /\ x % H = s
  <1>. DEFINE d == x \div H
              s == x % H
  <1>1. x = H * d + s /\ s \in 0 .. (H - 1) /\ d \in Int
    OBVIOUS
  <1>. HIDE DEF d
  <1>2. x = d * H + s
    BY <1>1
  <1> QED
    BY <1>1, <1>2

\* Whole hours do not count.
LEMMA MinutesLeft ==
    ASSUME NEW H \in Nat \ {0}, NEW q \in Int, NEW r \in 0 .. (H - 1)
    PROVE  (q * H + r) % H = r
  <1>. DEFINE x == q * H + r
  <1>1. x \in Int /\ q * H \in Int
    OBVIOUS
  <1>2. PICK d \in Int, s \in 0 .. (H - 1) : x = d * H + s /\ x % H = s
    BY <1>1, HoursAndMinutes
  <1>3. (d - q) * H = r - s
    BY <1>2
  <1>4. d - q >= 1 => (d - q) * H >= H
    OBVIOUS
  <1>5. d - q <= 0 - 1 => (d - q) * H <= 0 - H
    OBVIOUS
  <1>6. d - q = 0
    BY <1>3, <1>4, <1>5
  <1> QED
    BY <1>2, <1>3, <1>6

\* The minute stays when a half minute passes, or is the next one.
LEMMA MinuteMoves ==
    ASSUME NEW t \in 0 .. (Day - 1)
    PROVE  /\ Minute(t) \in 0 .. (Hour - 1)
           /\ \/ Minute((t + 1) % Day) = Minute(t)
              \/ Minute((t + 1) % Day) = IF Minute(t) + 1 = Hour THEN 0 ELSE Minute(t) + 1
  <1>. DEFINE q == t \div 2
  <1>1. /\ Hour \in Nat \ {0} /\ Day \in Nat \ {0} /\ 2 * Hour \in Nat \ {0} /\ t \in Nat
        /\ q \in Nat /\ (t = 2 * q \/ t = 2 * q + 1)
    BY RadioAssumption
  <1>. HIDE DEF q
  <1>2. PICK k \in Int, m \in 0 .. (Hour - 1) : q = k * Hour + m /\ q % Hour = m
    BY <1>1, HoursAndMinutes
  <1>3. Minute(t) = m
    BY <1>2 DEF Minute, q
  <1>4. \A n \in Int, r \in 0 .. (Hour - 1) : (n * Hour + r) % Hour = r
    BY <1>1, MinutesLeft
  <1>5. CASE t + 1 # Day
    <2>1. (t + 1) % Day = t + 1
      BY <1>1, <1>5
    <2>2. (t + 1) \div 2 = q \/ (t + 1) \div 2 = q + 1
      BY <1>1
    <2>3. (q + 1) % Hour = IF m + 1 = Hour THEN 0 ELSE m + 1
      <3>1. CASE m + 1 = Hour
        <4>1. q + 1 = (k + 1) * Hour + 0
          BY <1>1, <1>2, <3>1
        <4> QED
          BY <1>1, <1>4, <3>1, <4>1
      <3>2. CASE m + 1 # Hour
        <4>1. q + 1 = k * Hour + (m + 1) /\ m + 1 \in 0 .. (Hour - 1)
          BY <1>1, <1>2, <3>2
        <4> QED
          BY <1>4, <3>2, <4>1
      <3> QED
        BY <3>1, <3>2
    <2> QED
      BY <1>2, <1>3, <2>1, <2>2, <2>3 DEF Minute
  <1>6. CASE t + 1 = Day
    <2>1. (t + 1) % Day = 0
      BY <1>1, <1>6
    <2>2. PICK h \in Int, r \in 0 .. (2 * Hour - 1) :
             Day = h * (2 * Hour) + r /\ Day % (2 * Hour) = r
      BY <1>1, HoursAndMinutes
    <2>3. q = (h - 1) * Hour + (Hour - 1)
      <3>1. Day = 2 * (h * Hour) /\ h * Hour \in Int
        BY <1>1, <2>2, RadioAssumption
      <3>2. t = 2 * (h * Hour) - 1
        BY <1>1, <1>6, <3>1
      <3>3. q = h * Hour - 1
        BY <1>1, <3>1, <3>2
      <3> QED
        BY <1>1, <3>1, <3>3
    <2>4. m = Hour - 1
      BY <1>1, <1>2, <1>4, <2>3
    <2>5. Minute(0) = 0
      BY <1>1 DEF Minute
    <2> QED
      BY <1>1, <1>3, <2>1, <2>4, <2>5
  <1> QED
    BY <1>3, <1>5, <1>6
\* The initial state.
LEMMA CheckInit == Init => CheckInv
  <1> SUFFICES ASSUME Init PROVE CheckInv
    OBVIOUS
  <1>1. Disarmed \in [on : BOOLEAN, at : Nat] /\ None \in [on : BOOLEAN, at : Nat]
    BY RadioNumbers DEF Disarmed, None
  <1>2. /\ rtc \in [1 .. 2 -> [on : BOOLEAN, at : Nat]]
        /\ player \in [Players -> Streaming \union {"idle", "created"}]
    BY <1>1 DEF Init
  <1>3. RadioTypeOK
    BY <1>1, <1>2, RadioNumbers DEF Init, RadioTypeOK
  <1> QED
    BY <1>3 DEF Init, SettingsInit, CheckInv, Checking

\* Steps that leave clock, registers and checker alone.
LEMMA CheckKept ==
    ASSUME CheckInv, UNCHANGED <<stage, rtc, now, settled, checker, checkAt, polled>>,
           RadioTypeOK'
    PROVE  CheckInv'
  BY DEF CheckInv, InWindow, Before

\* What the players, the keys and the sleep mode do.
LEMMA PlayersCheck ==
    ASSUME CheckInv,
           \/ StartStream \/ (\E p \in Players : Play(p) \/ StreamEnds(p))
           \/ StopStream \/ KeySleep \/ SleepEnds
    PROVE  CheckInv'
  <1>1. RadioTypeOK
    BY DEF CheckInv
  <1>2. UNCHANGED <<stage, rtc, now, settled, flag1, arming, checker, checkAt, polled>>
    <2>1. CASE StartStream
      BY <2>1 DEF StartStream, StreamVars, settingsVars
    <2>2. ASSUME NEW p \in Players, Play(p) \/ StreamEnds(p)
          PROVE  UNCHANGED <<stage, rtc, now, settled, flag1, arming, checker, checkAt, polled>>
      BY <2>2 DEF Play, StreamEnds, SetUpFails, Connected, Refused, Stopped, LeaveStream,
                  StreamVars, settingsVars
    <2>3. CASE StopStream \/ KeySleep \/ SleepEnds
      BY <2>3 DEF StopStream, KeySleep, SleepEnds, StreamVars, settingsVars
    <2> QED
      BY <2>1, <2>2, <2>3
  <1>3. temp' \in 0 .. (Hour - 1)
    <2>1. now \in 0 .. (Day - 1) /\ temp \in 0 .. (Hour - 1)
      BY <1>1 DEF RadioTypeOK
    <2>2. Minute(now) \in 0 .. (Hour - 1) /\ 0 \in 0 .. (Hour - 1)
      BY <2>1, MinuteMoves, RadioAssumption
    <2>3. CASE StartStream \/ StopStream
      BY <2>1, <2>3 DEF StartStream, StopStream, sleepVars
    <2>4. ASSUME NEW p \in Players, Play(p) \/ StreamEnds(p)
          PROVE  temp' \in 0 .. (Hour - 1)
      BY <2>1, <2>4 DEF Play, StreamEnds, SetUpFails, Connected, Refused, Stopped, LeaveStream,
                        sleepVars
    <2>5. CASE KeySleep \/ SleepEnds
      BY <2>2, <2>5 DEF KeySleep, SleepEnds
    <2> QED
      BY <2>3, <2>4, <2>5
  <1>4. /\ stopAlarm' \in BOOLEAN /\ sleepMode' \in BOOLEAN /\ spinning' \in BOOLEAN
        /\ starter' \in Players \union {"nobody"}
        /\ \/ player' = player
           \/ \E p \in Players, x \in Streaming \union {"idle", "created"} :
                 player' = [player EXCEPT ![p] = x]
    <2>1. CASE StartStream
      BY <1>1, <2>1 DEF StartStream, EnterStream, sleepVars, RadioTypeOK, Players, Streaming
    <2>2. ASSUME NEW p \in Players, Play(p) \/ StreamEnds(p)
          PROVE  /\ stopAlarm' \in BOOLEAN /\ sleepMode' \in BOOLEAN /\ spinning' \in BOOLEAN
                 /\ starter' \in Players \union {"nobody"}
                 /\ \/ player' = player
                    \/ \E x \in Streaming \union {"idle", "created"} :
                          player' = [player EXCEPT ![p] = x]
      <3>1. CASE SetUpFails(p)
        BY <1>1, <3>1 DEF SetUpFails, sleepVars, RadioTypeOK
      <3>2. CASE Connected(p)
        BY <1>1, <3>2 DEF Connected, sleepVars, RadioTypeOK, Streaming
      <3>3. CASE Refused(p) \/ Stopped(p) \/ StreamEnds(p)
        BY <1>1, <3>3 DEF Refused, Stopped, StreamEnds, LeaveStream, sleepVars, RadioTypeOK
      <3> QED
        BY <2>2, <3>1, <3>2, <3>3 DEF Play
    <2>3. CASE StopStream \/ SleepEnds
      BY <1>1, <2>3 DEF StopStream, SleepEnds, sleepVars, RadioTypeOK
    <2>4. CASE KeySleep
      BY <1>1, <2>4 DEF KeySleep, RadioTypeOK, Players
    <2> QED
      BY <2>1, <2>2, <2>3, <2>4
  <1>5. player' \in [Players -> Streaming \union {"idle", "created"}]
    BY <1>1, <1>4 DEF RadioTypeOK
  <1>6. RadioTypeOK'
    BY <1>1, <1>2, <1>3, <1>4, <1>5 DEF RadioTypeOK
  <1> QED
    BY <1>2, <1>6, CheckKept

\* The steps of the checker.
LEMMA CheckerChecks ==
    ASSUME CheckInv, Check
    PROVE  CheckInv'
  <1>1. RadioTypeOK
    BY DEF CheckInv
  <1>2. stage = "run" /\ UNCHANGED <<stage, rtc, now, arming, sleepMode, temp, spinning>>
    BY DEF Check, CheckAlarm, GetAlarm, NotDue, RingStream, RingBeep, Running, CpuFree,
           settingsVars, sleepVars
  <1>3. rtc[1].at \in Nat /\ rtc[2].at \in Nat
    BY <1>1 DEF RadioTypeOK
  <1>4. CASE CheckAlarm
    <2>1. /\ checker = "sleep" /\ checker' = "read1" /\ flag1' = FALSE /\ polled' = "begun"
          /\ UNCHANGED <<settled, checkAt, player, starter, stopAlarm>>
      BY <1>4 DEF CheckAlarm
    <2>2. RadioTypeOK'
      BY <1>1, <1>2, <2>1 DEF RadioTypeOK, Checking
    <2> QED
      BY <1>2, <2>1, <2>2 DEF CheckInv, Checking, InWindow, Before
  <1>5. ASSUME NEW i \in 1 .. 2, GetAlarm(i)
        PROVE  CheckInv'
    <2>1. /\ flag1' = rtc[i].on /\ checkAt' = rtc[i].at
          /\ UNCHANGED <<settled, polled, player, starter, stopAlarm>>
          /\ \/ i = 1 /\ checker = "read1" /\ checker' = "clock1"
             \/ i = 2 /\ checker = "read2" /\ checker' = "clock2"
      BY <1>5 DEF GetAlarm
    <2>2. rtc[i].on \in BOOLEAN /\ rtc[i].at \in Nat
      BY <1>1 DEF RadioTypeOK
    <2>3. RadioTypeOK'
      BY <1>1, <1>2, <2>1, <2>2 DEF RadioTypeOK, Checking
    <2> QED
      BY <1>2, <2>1, <2>3 DEF CheckInv, Checking, InWindow, Before
  <1>6. ASSUME NEW i \in 1 .. 2, NotDue(i)
        PROVE  CheckInv'
    <2>1. /\ ~InWindow(now, checkAt) /\ checkAt' = 0
          /\ UNCHANGED <<settled, player, starter, stopAlarm>> /\ flag1' \in {flag1, FALSE}
          /\ \/ i = 1 /\ checker = "clock1" /\ checker' = "read2" /\ polled' = polled
             \/ i = 2 /\ checker = "clock2" /\ checker' = "sleep" /\ polled' \in {polled, "yes"}
      <3>1. CASE i = 1
        BY <1>6, <3>1 DEF NotDue
      <3>2. CASE i = 2
        BY <1>6, <3>2 DEF NotDue
      <3>3. i = 1 \/ i = 2
        OBVIOUS
      <3> QED
        BY <3>1, <3>2, <3>3, Zenon
    <2>2. RadioTypeOK'
      BY <1>1, <1>2, <2>1 DEF RadioTypeOK, Checking
    <2>3. CASE i = 1
      BY <1>2, <2>1, <2>2, <2>3 DEF CheckInv, Checking, InWindow, Before
    <2>4. CASE i = 2
      <3>1. settled # 0 => ~InWindow(now, rtc[1].at) /\ ~InWindow(now, rtc[2].at)
        BY <2>1, <2>4 DEF CheckInv, Checking
      <3> QED
        BY <1>2, <2>1, <2>2, <2>4, <3>1 DEF CheckInv, Checking, InWindow, Before
    <2> QED
      BY <2>3, <2>4
  <1>7. ASSUME NEW i \in 1 .. 2, RingStream(i)
        PROVE  CheckInv'
    <2>1. /\ checker' = "streams" /\ checkAt' = 0 /\ stopAlarm' = FALSE
          /\ checker \in Checking \ {"sleep"}
          /\ starter' = "AlarmCheckerThread"
          /\ player' = [player EXCEPT !["AlarmCheckerThread"] = "opening"]
          /\ settled' = 0 /\ polled' = "no" /\ UNCHANGED flag1
      BY <1>7 DEF RingStream, EnterStream, Checking
    <2>2. RadioTypeOK'
      BY <1>1, <1>2, <2>1, RadioNumbers DEF RadioTypeOK, Players, Streaming
    <2> QED
      BY <1>2, <2>1, <2>2 DEF CheckInv, Checking
  <1>8. CASE RingBeep
    <2>1. /\ checker' = "exited" /\ checkAt' = 0 /\ settled' = 0 /\ polled' = "no"
          /\ UNCHANGED <<flag1, player, starter, stopAlarm>>
      BY <1>8 DEF RingBeep
    <2>2. RadioTypeOK'
      BY <1>1, <1>2, <2>1 DEF RadioTypeOK
    <2> QED
      BY <1>2, <2>1, <2>2 DEF CheckInv, Checking
  <1> QED
    BY <1>4, <1>5, <1>6, <1>7, <1>8 DEF Check

\* The clock: a half minute passes only when a checker that lives has looked
\* at both alarms in it.
LEMMA TickChecks ==
    ASSUME CheckInv, Tick
    PROVE  CheckInv'
  <1>1. /\ RadioTypeOK /\ stage = "run" /\ (checker \in Checking => polled = "yes")
        /\ polled' = "no" /\ now' = (now + 1) % Day
        /\ settled' = IF checker \in Checking /\ settled < 2 THEN settled + 1 ELSE settled
        /\ UNCHANGED <<settingsVars, rtc, flag1, arming, checker, checkAt, player,
                       starter, stopAlarm, sleepMode, temp, spinning>>
    BY DEF CheckInv, Tick, sleepVars
  <1>2. now \in 0 .. (Day - 1) /\ settled \in {0, 1, 2}
    BY <1>1 DEF RadioTypeOK
  <1>3. now' \in 0 .. (Day - 1) /\ Before(now') = now
    BY <1>1, <1>2, RadioNumbers
  <1>4. settled' \in 0 .. 2
    BY <1>1, <1>2
  <1>5. RadioTypeOK'
    BY <1>1, <1>3, <1>4 DEF RadioTypeOK
  <1>6. stage' = "run"
    BY <1>1 DEF settingsVars
  <1>7. CASE checker \in Checking
    <2>1. checker = "sleep" /\ (settled' = 2 => settled # 0)
      BY <1>1, <1>2, <1>7 DEF CheckInv
    <2>2. settled' = 2 => \A i \in 1 .. 2 : ~InWindow(Before(now'), rtc[i].at)
      BY <1>1, <1>3, <1>7, <2>1 DEF CheckInv
    <2> QED
      BY <1>1, <1>5, <1>6, <2>1, <2>2 DEF CheckInv, InWindow, Before
  <1>8. CASE checker \notin Checking
    BY <1>1, <1>5, <1>6, <1>8 DEF CheckInv
  <1> QED
    BY <1>7, <1>8

\* The power, the start and the alarm menu.
LEMMA StartChecks ==
    ASSUME SaveInv, ArmInv, CheckInv,
           PowerFails \/ Booting \/ Save \/ MenuSetAlarm \/ ArmAlarm2 \/ Keys
    PROVE  CheckInv'
  <1>1. RadioTypeOK
    BY DEF CheckInv
  <1>2. CASE PowerFails
    BY <1>1, <1>2, RadioNumbers
    DEF PowerFails, CheckInv, RadioTypeOK, None, Checking, Players, Streaming
  <1>3. CASE PowerUp
    BY <1>1, <1>3 DEF PowerUp, CheckInv, RadioTypeOK, radioVars, sleepVars, Checking
  <1>4. CASE Start
    <2>1. stage # "run" /\ stage' # "run" /\ UNCHANGED radioVars
      BY <1>4 DEF Start, ReadEEPROM, SetAlarm1
    <2> QED
      BY <1>1, <2>1 DEF CheckInv, RadioTypeOK, radioVars, sleepVars, Checking
  <1>5. CASE InitAlarms
    <2>1. /\ stage = "arm" /\ stage' = "run" /\ checker' = "sleep" /\ now' \in 0 .. (Day - 1)
          /\ rtc' = [rtc EXCEPT ![1] = [on |-> TRUE, at |-> DailyTime]]
          /\ flag1' = rtc'[1].on
          /\ UNCHANGED <<settled, arming, checkAt, polled, player, starter, stopAlarm,
                         sleepMode, temp, spinning>>
      BY <1>5 DEF InitAlarms, ArmInv, sleepVars
    <2>2. settled = 0 /\ polled = "no"
      BY <2>1 DEF CheckInv
    <2>3. rtc' \in [1 .. 2 -> [on : BOOLEAN, at : Nat]] /\ flag1' \in BOOLEAN
      BY <1>1, <2>1, RadioNumbers DEF RadioTypeOK
    <2>4. RadioTypeOK'
      BY <1>1, <2>1, <2>3 DEF RadioTypeOK, Checking
    <2> QED
      BY <2>1, <2>2, <2>4 DEF CheckInv
  <1>6. CASE Save \/ Keys
    <2>1. UNCHANGED <<stage, radioVars>>
      BY <1>6 DEF Save, WriteField, Keys, SetupOk, SwitchAlarm2, ResetEEPROM
    <2>2. RadioTypeOK'
      BY <1>1, <2>1 DEF RadioTypeOK, radioVars, sleepVars
    <2> QED
      BY <2>1, <2>2, CheckKept DEF radioVars, sleepVars
  <1>7. CASE MenuSetAlarm
    <2>1. /\ UNCHANGED <<stage, rtc, now, settled, flag1, checker, checkAt, polled, player,
                         starter, stopAlarm, sleepMode, temp, spinning>>
          /\ \E at \in Times : arming' = IF flag1 THEN [on |-> TRUE, at |-> at] ELSE Disarmed
      BY <1>7 DEF MenuSetAlarm, SetAlarm2, sleepVars
    <2>2. arming' \in [on : BOOLEAN, at : Nat]
      BY <2>1, RadioAssumption DEF Disarmed
    <2>3. RadioTypeOK'
      BY <1>1, <2>1, <2>2 DEF RadioTypeOK
    <2> QED
      BY <2>1, <2>3, CheckKept
  <1>8. CASE ArmAlarm2
    <2>1. /\ rtc' = [rtc EXCEPT ![2] = arming] /\ arming' = None /\ settled' = 0
          /\ stage = "run" /\ UNCHANGED stage
          /\ UNCHANGED <<now, flag1, checker, checkAt, polled, player, starter, stopAlarm,
                         sleepMode, temp, spinning>>
      BY <1>8 DEF ArmAlarm2, Running, CpuFree, settingsVars, sleepVars
    <2>2. rtc' \in [1 .. 2 -> [on : BOOLEAN, at : Nat]] /\ arming' \in [on : BOOLEAN, at : Nat]
      BY <1>1, <2>1, RadioNumbers DEF RadioTypeOK, None
    <2>3. RadioTypeOK'
      BY <1>1, <2>1, <2>2, RadioNumbers DEF RadioTypeOK
    <2> QED
      BY <2>1, <2>3 DEF CheckInv
  <1> QED
    BY <1>2, <1>3, <1>4, <1>5, <1>6, <1>7, <1>8 DEF Booting

\* Every step.
LEMMA CheckNext == SaveInv /\ ArmInv /\ CheckInv /\ [Next]_vars => CheckInv'
  <1> SUFFICES ASSUME SaveInv, ArmInv, CheckInv, [Next]_vars PROVE CheckInv'
    OBVIOUS
  <1>1. CASE UNCHANGED vars
    <2>1. UNCHANGED <<stage, radioVars>> /\ RadioTypeOK
      BY <1>1 DEF vars, settingsVars, CheckInv
    <2>2. RadioTypeOK'
      BY <2>1 DEF RadioTypeOK, radioVars, sleepVars
    <2> QED
      BY <2>1, <2>2, CheckKept DEF radioVars, sleepVars
  <1> QED
    BY <1>1, PlayersCheck, CheckerChecks, TickChecks, StartChecks DEF Next

\* Where the radio is: between off and running, and in which menu.
MenuInv ==
  /\ stage \in {"off", "boot", "init", "arm", "run"}
  /\ stateMenu \in {"setupMenu", "klokMenu"}

\* Every step leaves it in one of these.
LEMMA MenuNext == MenuInv /\ [Next]_vars => MenuInv'
  <1> SUFFICES ASSUME MenuInv, [Next]_vars PROVE MenuInv'
    OBVIOUS
  <1>1. CASE PowerFails \/ Booting \/ Save \/ MenuSetAlarm \/ ArmAlarm2 \/ Keys
    BY <1>1 DEF PowerFails, Booting, PowerUp, Start, ReadEEPROM, SetAlarm1, InitAlarms, Save,
                WriteField, MenuSetAlarm, SetAlarm2, ArmAlarm2, Keys, SetupOk, SwitchAlarm2,
                ResetEEPROM, settingsVars, MenuInv
  <1>2. CASE Tick \/ Check \/ UNCHANGED vars
    BY <1>2 DEF Tick, Check, CheckAlarm, GetAlarm, NotDue, RingStream, RingBeep, vars,
                settingsVars, MenuInv
  <1>3. CASE \/ StartStream \/ (\E p \in Players : Play(p) \/ StreamEnds(p))
             \/ StopStream \/ KeySleep \/ SleepEnds
    BY <1>3 DEF StartStream, Play, StreamEnds, SetUpFails, Connected, Refused, Stopped,
                LeaveStream, StopStream, KeySleep, SleepEnds, StreamVars, settingsVars, MenuInv
  <1> QED
    BY <1>1, <1>2, <1>3 DEF Next

\* A save in progress has a rest of the order still to write.
LEMMA SavesAreRests ==
    {<<>>, <<"len">>, <<"alarm2", "len">>, <<"alarm1", "alarm2", "len">>}
      \subseteq {SubSeq(SaveOrder, i, 3) : i \in 1 .. 4}
  <1>. DEFINE R(i) == SubSeq(SaveOrder, i, 3)
  <1>1. /\ SaveOrder \in Seq(Fields) /\ Len(SaveOrder) = 3
        /\ SaveOrder[1] = "alarm1" /\ SaveOrder[2] = "alarm2" /\ SaveOrder[3] = "len"
    BY DEF SaveOrder, Fields
  <1>2. \A i \in 1 .. 3 : SaveOrder[i] \in Fields
    BY <1>1 DEF Fields
  <1>3. /\ R(3) \in Seq(Fields) /\ Len(R(3)) = 1 /\ R(3)[1] = "len"
    BY <1>1, <1>2, SubSeqProperties
  <1>4. /\ R(2) \in Seq(Fields) /\ Len(R(2)) = 2 /\ R(2)[1] = "alarm2" /\ R(2)[2] = "len"
    BY <1>1, <1>2, SubSeqProperties
  <1>5. R(4) = <<>>
    BY SubSeqEmpty
  <1>6. R(1) = SaveOrder
    BY <1>1, SubSeqFull
  <1>. HIDE DEF R
  <1>7. R(3) = <<"len">>
    <2>1. <<"len">> \in Seq(Fields) /\ Len(<<"len">>) = 1 /\ <<"len">>[1] = "len"
      BY DEF Fields
    <2> QED
      BY <1>3, <2>1, SeqEqual
  <1>8. R(2) = <<"alarm2", "len">>
    <2>1. /\ <<"alarm2", "len">> \in Seq(Fields) /\ Len(<<"alarm2", "len">>) = 2
          /\ <<"alarm2", "len">>[1] = "alarm2" /\ <<"alarm2", "len">>[2] = "len"
      BY DEF Fields
    <2>2. \A i \in 1 .. 2 : R(2)[i] = <<"alarm2", "len">>[i]
      <3>1. \A i \in 1 .. 2 : i = 1 \/ i = 2
        OBVIOUS
      <3> QED
        BY <1>4, <2>1, <3>1
    <2> QED
      BY <1>4, <2>1, <2>2, SeqEqual
  <1>9. /\ <<>> \in {R(i) : i \in 1 .. 4} /\ <<"len">> \in {R(i) : i \in 1 .. 4}
        /\ <<"alarm2", "len">> \in {R(i) : i \in 1 .. 4}
        /\ <<"alarm1", "alarm2", "len">> \in {R(i) : i \in 1 .. 4}
    BY <1>5, <1>6, <1>7, <1>8 DEF SaveOrder
  <1> QED
    BY <1>9 DEF R

\* The invariants of the radio.
THEOREM RadioInvariance == Spec => [](SaveInv /\ ArmInv /\ CheckInv /\ MenuInv)
  <1>1. Init => SaveInv /\ ArmInv /\ CheckInv /\ MenuInv
    BY RadioInit, CheckInit DEF Init, SettingsInit, MenuInv
  <1>2. SaveInv /\ ArmInv /\ CheckInv /\ MenuInv /\ [Next]_vars
        => (SaveInv /\ ArmInv /\ CheckInv /\ MenuInv)'
    BY RadioNext, CheckNext, MenuNext
  <1> QED
    BY <1>1, <1>2, PTL DEF Spec

\* Every variable of the radio and its settings keeps its type.
THEOREM RadioTypes == Spec => []TypeOK
  <1>1. SaveInv /\ CheckInv /\ MenuInv => TypeOK
    <2> SUFFICES ASSUME SaveInv, CheckInv, MenuInv PROVE TypeOK
      OBVIOUS
    <2>1. todo \in {SubSeq(SaveOrder, i, 3) : i \in 1 .. 4}
      BY SavesAreRests DEF SaveInv, SaveTypes
    <2> QED
      BY <2>1 DEF SaveInv, SaveTypes, CheckInv, RadioTypeOK, MenuInv, SettingsTypeOK, TypeOK
  <1> QED
    BY <1>1, RadioInvariance, PTL

(* No alarm is missed: the half minute an alarm is set for never passes    *)
(* while the checker lives and the alarm was armed for the whole window,   *)
(* whatever the length of the day, at midnight and for 24:00 too, and      *)
(* whatever the other threads write or read between the checker's steps    *)
(* (AlarmCheckerThread, CheckAlarm1, CheckAlarm2).                         *)
THEOREM NoAlarmMissed == Spec => AlarmInTime
  <1>1. ASSUME CheckInv, [Next]_vars, NEW i \in 1 .. 2,
               now' # now, checker \in Checking, stage' = "run", settled = 2
        PROVE  ~(rtc[i].on /\ rtc[i].at <= Day /\ rtc[i].at % Day = now)
    <2>1. Tick
      <3>1. CASE PowerFails
        BY <1>1, <3>1 DEF PowerFails
      <3>2. CASE InitAlarms
        BY <1>1, <3>2 DEF InitAlarms, CheckInv, Checking
      <3>3. CASE \/ PowerUp \/ Start \/ Save \/ MenuSetAlarm \/ ArmAlarm2 \/ Keys
                 \/ UNCHANGED vars
        BY <1>1, <3>3 DEF PowerUp, Start, Save, MenuSetAlarm, ArmAlarm2, Keys, radioVars, vars
      <3>4. CASE Check
        BY <1>1, <3>4 DEF Check, CheckAlarm, GetAlarm, NotDue, RingStream, RingBeep
      <3>5. CASE \/ StartStream \/ (\E p \in Players : Play(p) \/ StreamEnds(p))
                 \/ StopStream \/ KeySleep \/ SleepEnds
        BY <1>1, <3>5 DEF StartStream, Play, StreamEnds, SetUpFails, Connected, Refused, Stopped,
                          LeaveStream, StopStream, KeySleep, SleepEnds, StreamVars
      <3> QED
        BY <1>1, <3>1, <3>2, <3>3, <3>4, <3>5 DEF Next, Booting
    <2>2. /\ ~InWindow(now, rtc[i].at) /\ ~InWindow(Before(now), rtc[i].at)
          /\ rtc[i].at \in Nat /\ now \in 0 .. (Day - 1)
      BY <1>1, <2>1 DEF Tick, CheckInv, RadioTypeOK
    <2>3. PICK a \in Nat : a = rtc[i].at
      BY <2>2
    <2>4. a <= Day /\ a # Day => a % Day = a
      <3>1. Day \in Nat \ {0} /\ \A x \in 0 .. (Day - 1) : x % Day = x
        BY RadioAssumption
      <3> QED
        BY <3>1
    <2>5. Day % Day = 0 /\ Day \in Nat \ {0}
      BY RadioNumbers
    <2>6. CASE a <= Day /\ a # Day /\ a % Day = now
      BY <2>2, <2>3, <2>4, <2>5, <2>6 DEF InWindow
    <2>7. CASE a = Day /\ a % Day = now
      BY <2>2, <2>3, <2>5, <2>7 DEF InWindow, Before
    <2> QED
      BY <2>3, <2>6, <2>7
  <1>2. SaveInv /\ ArmInv /\ CheckInv /\ [Next]_vars =>
          [\A i \in 1 .. 2 :
             now' # now /\ checker \in Checking /\ stage' = "run" /\ settled = 2
               => ~(rtc[i].on /\ rtc[i].at <= Day /\ rtc[i].at % Day = now)]_vars
    BY <1>1
  <1> QED
    BY <1>2, RadioInvariance, PTL DEF Spec, AlarmInTime

\* SleepMode's test holds in the last minute of a sleep and in none before it,
\* and never in a sleep that began in minute 45.
LEMMA OverInTime ==
    ASSUME RadioTypeOK, SleepInv, sleepMode
    PROVE  SleepOver(Minute(now)) <=> Slept = Nap /\ temp # Hour - Nap
  <1>1. Minute(now) \in 0 .. (Hour - 1) /\ temp \in 0 .. (Hour - 1)
    BY MinuteMoves DEF RadioTypeOK
  <1>2. Hour \in Nat \ {0} /\ Nap \in Nat \ {0} /\ 2 * Nap <= Hour
    BY RadioAssumption
  <1>3. CASE temp > Hour - Nap
    BY <1>1, <1>2, <1>3 DEF SleepOver, SleepInv, Slept
  <1>4. CASE temp <= Hour - Nap
    BY <1>1, <1>2, <1>4 DEF SleepOver, SleepInv, Slept
  <1> QED
    BY <1>1, <1>2, <1>3, <1>4

\* Steps that let the clock stand, and the sleep mode.
LEMMA SleepKept == SleepInv /\ UNCHANGED <<stage, now, sleepMode, temp>> => SleepInv'
  BY DEF SleepInv, Slept

\* The clock does not take a sleep past its end.
LEMMA TickSleeps ==
    ASSUME RadioTypeOK, SleepInv, Tick
    PROVE  SleepInv'
  <1>1. UNCHANGED <<stage, sleepMode, temp>> /\ now' = (now + 1) % Day
    BY DEF Tick, settingsVars, sleepVars
  <1>2. CASE sleepMode /\ temp # Hour - Nap
    <2>1. /\ Minute(now) \in 0 .. (Hour - 1) /\ temp \in 0 .. (Hour - 1)
          /\ \/ Minute(now') = Minute(now)
             \/ Minute(now') = IF Minute(now) + 1 = Hour THEN 0 ELSE Minute(now) + 1
      BY <1>1, MinuteMoves DEF RadioTypeOK
    <2>2. Hour \in Nat \ {0} /\ Nap \in Nat \ {0} /\ 2 * Nap <= Hour
      BY RadioAssumption
    <2>3. Slept <= Nap /\ (Minute(now') # Minute(now) => Slept # Nap)
      BY <1>2, OverInTime DEF SleepInv, Tick
    <2>4. Slept' <= Nap
      BY <1>1, <2>1, <2>2, <2>3 DEF Slept
    <2> QED
      BY <1>1, <2>4 DEF SleepInv
  <1>3. CASE ~(sleepMode /\ temp # Hour - Nap)
    BY <1>1, <1>3 DEF SleepInv
  <1> QED
    BY <1>2, <1>3

\* Every step keeps sleeps in time.
LEMMA SleepNext == CheckInv /\ SleepInv /\ [Next]_vars => SleepInv'
  <1> SUFFICES ASSUME CheckInv, SleepInv, [Next]_vars PROVE SleepInv'
    OBVIOUS
  <1>1. RadioTypeOK
    BY DEF CheckInv
  <1>2. CASE PowerFails \/ SleepEnds
    BY <1>2 DEF PowerFails, SleepEnds, SleepInv
  <1>3. CASE Booting
    <2>1. stage # "run" /\ sleepMode' = sleepMode
      BY <1>3 DEF Booting, PowerUp, Start, ReadEEPROM, SetAlarm1, InitAlarms, radioVars, sleepVars
    <2> QED
      BY <2>1 DEF SleepInv
  <1>4. CASE KeySleep
    <2>1. /\ stage = "run" /\ UNCHANGED <<stage, now>> /\ temp' = Minute(now)
      BY <1>4 DEF KeySleep, Running, CpuFree, StreamVars, settingsVars
    <2>2. Minute(now) \in 0 .. (Hour - 1) /\ Nap \in Nat
      BY <1>1, MinuteMoves, RadioAssumption DEF RadioTypeOK
    <2>3. Slept' = 0
      BY <2>1, <2>2 DEF Slept
    <2> QED
      BY <2>1, <2>2, <2>3 DEF SleepInv
  <1>5. CASE Tick
    BY <1>1, <1>5, TickSleeps
  <1>6. CASE \/ Save \/ Check \/ MenuSetAlarm \/ ArmAlarm2 \/ Keys \/ UNCHANGED vars
    <2>1. UNCHANGED <<stage, now, sleepMode, temp>>
      BY <1>6 DEF Save, WriteField, Check, CheckAlarm, GetAlarm, NotDue, RingStream, RingBeep,
                  MenuSetAlarm, SetAlarm2, ArmAlarm2, Keys, SetupOk, SwitchAlarm2, ResetEEPROM,
                  vars, settingsVars, radioVars, sleepVars
    <2> QED
      BY <2>1, SleepKept
  <1>7. CASE StartStream \/ (\E p \in Players : Play(p) \/ StreamEnds(p)) \/ StopStream
    <2>1. UNCHANGED <<stage, now, sleepMode, temp>>
      BY <1>7 DEF StartStream, Play, StreamEnds, SetUpFails, Connected, Refused, Stopped,
                  LeaveStream, StopStream, StreamVars, settingsVars, sleepVars
    <2> QED
      BY <2>1, SleepKept
  <1> QED
    BY <1>2, <1>3, <1>4, <1>5, <1>6, <1>7 DEF Next

(* For an hour and a sleep of any length, if a sleep is no longer than half*)
(* an hour: it is over in its last minute, not before and not after, also  *)
(* over the end of an hour, but one that began when a sleep before the end *)
(* of the hour is left (minute 45) is never over (SleepMode).              *)
THEOREM SleepLasts == Spec => SleepInTime
  <1>1. ASSUME CheckInv, SleepInv, [Next]_vars, sleepMode, stage' = "run"
        PROVE  /\ ~sleepMode' => Slept = Nap /\ temp # Hour - Nap
               /\ sleepMode' /\ Slept = Nap /\ Minute(now') # Minute(now) => temp = Hour - Nap
    <2>1. RadioTypeOK /\ stage = "run"
      BY <1>1 DEF CheckInv, SleepInv
    <2>2. CASE SleepEnds
      BY <1>1, <2>1, <2>2, OverInTime DEF SleepEnds
    <2>3. CASE Tick
      BY <1>1, <2>1, <2>3, OverInTime DEF Tick, sleepVars
    <2>4. CASE \/ Save \/ Check \/ MenuSetAlarm \/ ArmAlarm2 \/ Keys \/ UNCHANGED vars
      <3>1. UNCHANGED <<now, sleepMode>>
        BY <2>4 DEF Save, WriteField, Check, CheckAlarm, GetAlarm, NotDue, RingStream, RingBeep,
                    MenuSetAlarm, ArmAlarm2, Keys, vars, radioVars, sleepVars
      <3> QED
        BY <1>1, <3>1
    <2>5. CASE StartStream \/ (\E p \in Players : Play(p) \/ StreamEnds(p)) \/ StopStream
      <3>1. UNCHANGED <<now, sleepMode>>
        BY <2>5 DEF StartStream, Play, StreamEnds, SetUpFails, Connected, Refused, Stopped,
                    LeaveStream, StopStream, StreamVars, sleepVars
      <3> QED
        BY <1>1, <3>1
    <2>6. ~PowerFails /\ ~Booting /\ ~KeySleep
      BY <1>1, <2>1 DEF PowerFails, Booting, PowerUp, Start, ReadEEPROM, SetAlarm1, InitAlarms,
                        KeySleep
    <2> QED
      BY <1>1, <2>2, <2>3, <2>4, <2>5, <2>6 DEF Next
  <1>2. CheckInv /\ SleepInv /\ [Next]_vars =>
          [sleepMode /\ stage' = "run" =>
             /\ ~sleepMode' => Slept = Nap /\ temp # Hour - Nap
             /\ sleepMode' /\ Slept = Nap /\ Minute(now') # Minute(now)
                  => temp = Hour - Nap]_vars
    BY <1>1
  <1>3. Init => SleepInv
    BY DEF Init, SleepInv
  <1> QED
    BY <1>2, <1>3, SleepNext, RadioInvariance, PTL DEF Spec, SleepInTime

(***************************************************************************)
(* The detection of the card: a flag that follows the switch, which        *)
(* bounces.  The counter counts scans in a row only (ValidationCounted).   *)
(***************************************************************************)

\* The bound of the model on the run of equal scans is no smaller than
\* either validation.
LEMMA BoundIsLarge ==
    /\ Bound \in Nat /\ PresentOK \in Nat /\ NotPresentOK \in Nat
    /\ 1 < PresentOK /\ 1 < NotPresentOK
    /\ PresentOK <= Bound /\ NotPresentOK <= Bound
  BY CardAssumption DEF Bound

\* The run of equal scans stays in its range, and a scan that finds the card
\* makes it longer up to its bound.
LEMMA InARowGrows ==
    ASSUME CardTypeOK
    PROVE  /\ InARow \in (0 - Bound) .. Bound
           /\ card => InARow >= 1 /\ (run >= 1 => InARow >= run)
           /\ card /\ run \in 1 .. (Bound - 1) => InARow = run + 1
  BY BoundIsLarge DEF CardTypeOK, InARow

\* The initial state.
LEMMA DebounceInit == CardInit => DebounceInv
  <1> SUFFICES ASSUME CardInit PROVE DebounceInv
    OBVIOUS
  <1>1. card \in BOOLEAN /\ CardPresentFlag \in BOOLEAN /\ OldCardStatus \in BOOLEAN
        /\ removed \in BOOLEAN /\ mounted \in BOOLEAN
    BY Zenon DEF CardInit
  <1>2. CardState = "IDLE" /\ ValidateCounter \in 0 .. Bound /\ run \in (0 - Bound) .. Bound
    BY BoundIsLarge DEF CardInit
  <1>3. CardTypeOK
    BY <1>1, <1>2 DEF CardInit, CardTypeOK
  <1>4. FlagMatchesState /\ ValidationCounted /\ RemovalCounted
    BY DEF CardInit, FlagMatchesState, ValidationCounted, RemovalCounted
  <1> QED
    BY <1>3, <1>4 DEF DebounceInv

\* The steps of the card, the card thread and the button handler leave the
\* debouncing alone.
LEMMA OthersPreserve ==
    ASSUME DebounceInv, CardMoves \/ CardPresent \/ PollKey \/ UNCHANGED cardVars
    PROVE  DebounceInv' /\ UNCHANGED CardPresentFlag
  <1>1. UNCHANGED <<switch, run>>
    BY DEF CardMoves, CardPresent, PollKey, Look, MountCard, CloseCard, Latch, cardVars
  <1>2. card' \in BOOLEAN /\ removed' \in BOOLEAN /\ mounted' \in BOOLEAN
        /\ OldCardStatus' \in BOOLEAN
    BY Zenon DEF DebounceInv, CardTypeOK, CardMoves, CardPresent, PollKey, Look, MountCard,
                 CloseCard, Latch, switch, cardVars
  <1>3. /\ pc' \in {"look", "mount", "close", "latch"}
        /\ KeyBuffer' \in KeyCodes \cup {NoKey, MmcIn} /\ key' \in KeyCodes \cup {NoKey, MmcIn}
    BY DEF DebounceInv, CardTypeOK, CardMoves, CardPresent, PollKey, Look, MountCard,
           CloseCard, Latch, switch, cardVars
  <1>4. CardTypeOK'
    BY <1>1, <1>2, <1>3 DEF DebounceInv, CardTypeOK, switch
  <1>5. FlagMatchesState' /\ ValidationCounted' /\ RemovalCounted'
    BY <1>1 DEF DebounceInv, FlagMatchesState, ValidationCounted, RemovalCounted, switch
  <1> QED
    BY <1>1, <1>4, <1>5 DEF DebounceInv, switch

\* One call of CardCheckCard keeps the counter, the state and the flag in
\* step; the flag is raised only by a scan that completes the validation.
LEMMA BeatPreserves ==
    ASSUME DebounceInv, MainBeat
    PROVE  /\ DebounceInv'
           /\ ~CardPresentFlag /\ CardPresentFlag' => run' >= PresentOK
  <1> USE BoundIsLarge
  <1>1. CardTypeOK /\ FlagMatchesState /\ ValidationCounted /\ RemovalCounted
    BY DEF DebounceInv
  <1>2. /\ run' = InARow /\ run' \in (0 - Bound) .. Bound
        /\ UNCHANGED <<card, OldCardStatus, pc, key, removed, mounted>>
        /\ KeyBuffer' \in KeyCodes \cup {NoKey, MmcIn}
    BY <1>1, InARowGrows DEF MainBeat
  <1> DEFINE Switched == /\ CardState' \in {"IDLE", "PRESENT", "VALID", "NOT_PRESENT"}
                         /\ ValidateCounter' \in 0 .. Bound
                         /\ FlagMatchesState' /\ ValidationCounted' /\ RemovalCounted'
                         /\ CardPresentFlag' \in BOOLEAN
                         /\ ~CardPresentFlag /\ CardPresentFlag' => run' >= PresentOK
  <1>3. ASSUME CheckIdle PROVE Switched
    BY <1>1, <1>2, <1>3, InARowGrows
    DEF CheckIdle, CardTypeOK, FlagMatchesState, ValidationCounted, RemovalCounted
  <1>4. ASSUME CheckPresent PROVE Switched
    <2>1. CardState = "PRESENT" /\ ~CardPresentFlag
          /\ ValidateCounter \in 1 .. (PresentOK - 1) /\ ValidateCounter <= run
      BY <1>1, <1>4 DEF CheckPresent, FlagMatchesState, ValidationCounted
    <2>2. CASE ~card
      BY <1>1, <1>2, <1>4, <2>1, <2>2
      DEF CheckPresent, CardTypeOK, FlagMatchesState, ValidationCounted, RemovalCounted
    <2>3. CASE card
      <3>1. /\ ValidateCounter' = ValidateCounter + 1
            /\ CardState' = IF ValidateCounter' = PresentOK THEN "VALID" ELSE "PRESENT"
        BY <1>4, <2>1, <2>3 DEF CheckPresent
      <3>2. CardPresentFlag' \in BOOLEAN /\ (CardPresentFlag' <=> ValidateCounter' = PresentOK)
        BY <1>4, <2>1, <2>3, Zenon DEF CheckPresent
      <3>3. ValidateCounter' <= run'
        BY <1>1, <1>2, <2>1, <2>3, <3>1, InARowGrows DEF CardTypeOK
      <3> QED
        BY <2>1, <3>1, <3>2, <3>3 DEF FlagMatchesState, ValidationCounted, RemovalCounted
    <2> QED
      BY <1>1, <2>2, <2>3 DEF CardTypeOK
  <1>5. ASSUME CheckValid PROVE Switched
    BY <1>1, <1>2, <1>5
    DEF CheckValid, CardTypeOK, FlagMatchesState, ValidationCounted, RemovalCounted
  <1>6. ASSUME CheckNotPresent PROVE Switched
    <2>1. CardState = "NOT_PRESENT" /\ CardPresentFlag
          /\ ValidateCounter \in 1 .. (NotPresentOK - 1) /\ ValidateCounter' = ValidateCounter + 1
      BY <1>1, <1>6 DEF CheckNotPresent, FlagMatchesState, RemovalCounted
    <2>2. CASE ValidateCounter' = NotPresentOK
      <3>1. ~CardPresentFlag' /\ CardPresentFlag' \in BOOLEAN /\ CardState' = "IDLE"
        BY <1>6, <2>2, Zenon DEF CheckNotPresent
      <3> QED
        BY <2>1, <2>2, <3>1 DEF FlagMatchesState, ValidationCounted, RemovalCounted
    <2>3. CASE ValidateCounter' # NotPresentOK
      <3>1. UNCHANGED <<CardPresentFlag, CardState>>
        BY <1>6, <2>3 DEF CheckNotPresent
      <3> QED
        BY <1>1, <2>1, <2>3, <3>1
        DEF CardTypeOK, FlagMatchesState, ValidationCounted, RemovalCounted
    <2> QED
      BY <2>2, <2>3
  <1>7. Switched
    <2>1. CheckIdle \/ CheckPresent \/ CheckValid \/ CheckNotPresent
      BY DEF MainBeat
    <2> HIDE DEF Switched
    <2> QED
      BY <1>3, <1>4, <1>5, <1>6, <2>1
  <1>8. CardTypeOK'
    BY <1>1, <1>2, <1>7 DEF CardTypeOK
  <1> QED
    BY <1>7, <1>8 DEF DebounceInv

\* The flag, the state and the counters of the debouncing agree.
THEOREM DebounceInvariance == CardSpec => []DebounceInv
  <1>1. CardInit => DebounceInv
    BY DebounceInit
  <1>2. DebounceInv /\ [CardNext]_cardVars => DebounceInv'
    BY BeatPreserves, OthersPreserve DEF CardNext
  <1> QED
    BY <1>1, <1>2, PTL DEF CardSpec

\* A card is reported only after PresentOK scans in a row have found it.
THEOREM InsertionIsValidated == CardSpec => InsertionValidated
  <1>1. DebounceInv /\ [CardNext]_cardVars =>
            [~CardPresentFlag /\ CardPresentFlag' => run' >= PresentOK]_cardVars
    BY BeatPreserves, OthersPreserve DEF CardNext
  <1> QED
    BY <1>1, DebounceInvariance, PTL DEF CardSpec, InsertionValidated

=============================================================================
