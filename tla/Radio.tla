------------------------------- MODULE Radio --------------------------------
(***************************************************************************)
(* The alarm clock: the alarm checker thread, the threads that play a      *)
(* stream, the sleep mode, the keys, the two alarms in the clock chip and  *)
(* the settings.  The power may fail at any time; the EEPROM and the clock *)
(* chip keep what they hold, everything in RAM starts anew.                *)
(*                                                                         *)
(* The clock counts half minutes: an alarm set for a is rung from thirty   *)
(* seconds before a to thirty seconds after it, that is, in the half       *)
(* minutes a - 1 and a.  Talking to the clock chip lets other threads run, *)
(* so flag1, a global that each reading clears and fills again, is seen in *)
(* between.                                                                *)
(***************************************************************************)
EXTENDS Settings

CONSTANTS
  Day,        \* half minutes of a day
  Hour,       \* minutes of an hour, 60
  Nap,        \* minutes a sleep lasts, 15
  DailyTime,  \* the time setHardcodedAlarm sets
  Times       \* the times a user sets alarm 2 for, 24:00 and later included

ASSUME RadioAssumption ==
  /\ Day \in Nat \ {0} /\ DailyTime \in 0 .. (Day - 1) /\ Times \subseteq Nat
  /\ Hour \in Nat \ {0} /\ Nap \in Nat \ {0} /\ 2 * Nap <= Hour
  /\ Day % (2 * Hour) = 0

VARIABLES
  rtc,        \* the alarm registers of the chip
  now,        \* its clock
  flag1,      \* the enable flags of the alarm that was read last
  arming,     \* what X12RtcSetAlarm is writing for alarm 2, or None
  checker,    \* where AlarmCheckerThread is
  checkAt,    \* its local: the time of the alarm it has read
  settled,    \* half minutes since the registers were written, at most 2 (history)
  polled,     \* "no", "begun", "yes": did it check both alarms in this half minute
              \* (history; neither of the two is kept on when it checks no more)
  player,     \* what each thread with a stream does
  starter,    \* the thread that called startStream last, while it streams
  stopAlarm,
  sleepMode,  \* the thread SleepMode is there
  temp,       \* its local: the minute it began in
  spinning    \* a thread is in a for(;;) without a call that lets others run

sleepVars == <<sleepMode, temp>>
radioVars == <<rtc, now, settled, flag1, arming, checker, checkAt, polled, player,
               starter, stopAlarm, sleepVars, spinning>>
vars == <<settingsVars, radioVars>>

None == [on |-> FALSE, at |-> Day]
Disarmed == [on |-> FALSE, at |-> 0]
Players == {"AlarmCheckerThread", "StreamMusic"}
Streaming == {"opening", "playing"}
Checking == {"sleep", "read1", "clock1", "read2", "clock2"}

Init ==
  /\ SettingsInit
  /\ rtc = [i \in 1 .. 2 |-> Disarmed] /\ now = 0
  /\ settled = 0 /\ flag1 = TRUE /\ arming = None
  /\ checker = "none" /\ checkAt = 0 /\ polled = "no"
  /\ player = [p \in Players |-> "idle"] /\ starter = "nobody"
  /\ stopAlarm = FALSE /\ spinning = FALSE
  /\ sleepMode = FALSE /\ temp = 0

-----------------------------------------------------------------------------
\* A thread may run.
Running == CpuFree /\ ~spinning

\* The power fails, or comes back.
PowerFails ==
  /\ stage # "off" /\ stage' = "off"
  /\ settled' = 0 /\ flag1' = TRUE /\ arming' = None
  /\ checker' = "none" /\ checkAt' = 0 /\ polled' = "no"
  /\ player' = [p \in Players |-> "idle"] /\ starter' = "nobody"
  /\ stopAlarm' = FALSE /\ spinning' = FALSE
  /\ sleepMode' = FALSE /\ temp' = 0
  /\ IMCconfig' = Empty /\ todo' = <<>> /\ stateMenu' = "klokMenu"
  /\ now' = 0 /\ UNCHANGED <<eeprom, rtc>>

PowerUp ==
  /\ stage = "off" /\ stage' = "boot"
  /\ UNCHANGED <<eeprom, IMCconfig, todo, stateMenu, radioVars>>

\* Mutant: flag1 is read from the chip before it is written there.
InitAlarms_ReadFirst ==
  /\ stage = "arm" /\ todo = <<>>
  /\ flag1' = rtc[1].on
  /\ rtc' = [rtc EXCEPT ![1] = [on |-> flag1', at |-> IF flag1' THEN DailyTime ELSE 0]]
  /\ stage' = "run" /\ checker' = "sleep" /\ now' \in 0 .. (Day - 1)
  /\ UNCHANGED <<eeprom, IMCconfig, todo, stateMenu, settled, arming, checkAt, polled,
                 player, starter, stopAlarm, sleepVars, spinning>>

(* The rest of initAlarms and main: X12RtcSetAlarm with the flags the      *)
(* program starts with, then X12RtcGetAlarm, which keeps flag1; the keys   *)
(* are not scanned yet and the threads are created afterwards.  It may be  *)
(* any time of day.                                                        *)
InitAlarms ==
  /\ stage = "arm" /\ todo = <<>>
  /\ rtc' = [rtc EXCEPT ![1] = [on |-> flag1, at |-> IF flag1 THEN DailyTime ELSE 0]]
  /\ flag1' = rtc'[1].on
  /\ stage' = "run" /\ checker' = "sleep" /\ now' \in 0 .. (Day - 1)
  /\ UNCHANGED <<eeprom, IMCconfig, todo, stateMenu, settled, arming, checkAt, polled,
                 player, starter, stopAlarm, sleepVars, spinning>>

Save == WriteField /\ UNCHANGED radioVars
Start == (ReadEEPROM \/ SetAlarm1) /\ UNCHANGED radioVars

-----------------------------------------------------------------------------
\* tm_min of the clock.
Minute(time) == (time \div 2) % Hour

\* Mutant: behind minute 45 only the lower bound is tested.
SleepOver_LowerBound(min) ==
  IF temp > Hour - Nap THEN min >= temp - (Hour - Nap) ELSE min >= temp + Nap

\* SleepMode's test of the minute it has read.
SleepOver(min) ==
  IF temp > Hour - Nap THEN min >= temp - (Hour - Nap) /\ min < Hour - Nap
  ELSE min >= temp + Nap

(* The clock of the chip runs by itself.  Six checks of the alarms fall    *)
(* into a half minute, so at least one of them begins and ends in it.  The *)
(* sleep mode looks every twenty seconds, so it sees every minute, and one *)
(* that satisfies its test does not pass it by; its other looks change     *)
(* nothing.  While nobody reads the clock the model lets it stand.         *)
Tick ==
  /\ stage = "run" /\ ~spinning
  /\ checker \in Checking \/ sleepMode
  /\ checker \in Checking => polled = "yes"
  /\ now' = (now + 1) % Day /\ polled' = "no"
  /\ sleepMode /\ SleepOver(Minute(now)) => Minute(now') = Minute(now)
  /\ settled' = IF checker \in Checking /\ settled < 2 THEN settled + 1 ELSE settled
  /\ UNCHANGED <<settingsVars, rtc, flag1, arming, checker, checkAt, player,
                 starter, stopAlarm, sleepVars, spinning>>

-----------------------------------------------------------------------------
\* Mutant: only the minute itself.
InWindow_NoEarlyHalf(time, at) == time = at

\* The window of CheckAlarm1 and CheckAlarm2.
InWindow(time, at) == time + 1 >= at /\ time <= at

\* Entry of X12RtcGetAlarm for the first alarm.
CheckAlarm ==
  /\ Running /\ checker = "sleep" /\ polled # "yes"
  /\ flag1' = FALSE /\ checker' = "read1" /\ polled' = "begun"
  /\ UNCHANGED <<settingsVars, rtc, now, settled, arming, checkAt, player, starter,
                 stopAlarm, sleepVars, spinning>>

\* The registers have been read; a disabled alarm leaves the zeros of memset.
GetAlarm(i) ==
  /\ Running /\ checker = <<"read1", "read2">>[i]
  /\ flag1' = rtc[i].on /\ checkAt' = rtc[i].at
  /\ checker' = <<"clock1", "clock2">>[i]
  /\ UNCHANGED <<settingsVars, rtc, now, settled, arming, polled, player, starter,
                 stopAlarm, sleepVars, spinning>>

\* The clock has been read and the alarm is not due: the other one, or sleep.
NotDue(i) ==
  /\ Running /\ checker = <<"clock1", "clock2">>[i] /\ ~InWindow(now, checkAt)
  /\ IF i = 1 THEN checker' = "read2" /\ flag1' = FALSE /\ UNCHANGED polled
              ELSE /\ checker' = "sleep" /\ UNCHANGED flag1
                   /\ polled' = IF polled = "begun" THEN "yes" ELSE polled
  /\ checkAt' = 0
  /\ UNCHANGED <<settingsVars, rtc, now, settled, arming, player, starter, stopAlarm,
                 sleepVars, spinning>>

\* The first steps of startStream by thread p.
EnterStream(p) ==
  /\ stopAlarm' = FALSE /\ starter' = p
  /\ player' = [player EXCEPT ![p] = "opening"]

(* An alarm is due.  Alarm 2 plays or beeps, as its mode says; a mode that *)
(* was never set is whatever the stack held.  Either way the checker does  *)
(* not come back.                                                          *)
RingStream(i) ==
  /\ Running /\ checker = <<"clock1", "clock2">>[i] /\ InWindow(now, checkAt)
  /\ checker' = "streams" /\ checkAt' = 0 /\ settled' = 0 /\ polled' = "no"
  /\ EnterStream("AlarmCheckerThread")
  /\ UNCHANGED <<settingsVars, rtc, now, flag1, arming, sleepVars, spinning>>

RingBeep ==
  /\ Running /\ checker = "clock2" /\ InWindow(now, checkAt)
  /\ checker' = "exited" /\ checkAt' = 0 /\ settled' = 0 /\ polled' = "no"
  /\ UNCHANGED <<settingsVars, rtc, now, flag1, arming, player, starter, stopAlarm,
                 sleepVars, spinning>>

-----------------------------------------------------------------------------
StreamVars == <<settingsVars, rtc, now, settled, flag1, arming, checker, checkAt, polled>>

\* StreamMusic runs for the first time.
StartStream ==
  /\ Running /\ player["StreamMusic"] = "created"
  /\ EnterStream("StreamMusic")
  /\ UNCHANGED <<StreamVars, sleepVars, spinning>>

\* ConfigureLan and NutTcpCreateSocket: a failure is an endless loop.
SetUpFails(p) ==
  /\ Running /\ player[p] = "opening"
  /\ spinning' = TRUE
  /\ UNCHANGED <<StreamVars, player, starter, stopAlarm, sleepVars>>

\* Mutant: stopAlarm is cleared when the connection is there.
Connected_ClearsStop(p) ==
  /\ Running /\ player[p] = "opening"
  /\ player' = [player EXCEPT ![p] = "playing"]
  /\ stopAlarm' = FALSE
  /\ UNCHANGED <<StreamVars, starter, sleepVars, spinning>>

\* ConnectStation returns a stream.
Connected(p) ==
  /\ Running /\ player[p] = "opening"
  /\ player' = [player EXCEPT ![p] = "playing"]
  /\ UNCHANGED <<StreamVars, starter, stopAlarm, sleepVars, spinning>>

\* The rest of startStream: the thread closes the stream and plays no more.
LeaveStream(p) ==
  /\ player' = [player EXCEPT ![p] = "idle"]
  /\ starter' = IF starter = p THEN "nobody" ELSE starter
  /\ UNCHANGED <<StreamVars, stopAlarm, sleepVars, spinning>>

\* ConnectStation gives up and returns no stream.
Refused(p) == Running /\ player[p] = "opening" /\ LeaveStream(p)

\* PlayMp3Stream finds stopAlarm set, or the stream at its end.
Stopped(p) == Running /\ player[p] = "playing" /\ stopAlarm /\ LeaveStream(p)
StreamEnds(p) == Running /\ player[p] = "playing" /\ LeaveStream(p)

\* KEY_ALT.
StopStream ==
  /\ Running /\ stopAlarm' = TRUE
  /\ UNCHANGED <<StreamVars, player, starter, sleepVars, spinning>>

(* KEY_01 and the first steps of SleepMode, which looks at the clock and   *)
(* creates StreamMusic.  One such thread at a time: the bound of the       *)
(* model, not of the code.                                                 *)
KeySleep ==
  /\ Running /\ ~sleepMode /\ player["StreamMusic"] = "idle"
  /\ sleepMode' = TRUE /\ temp' = Minute(now)
  /\ player' = [player EXCEPT !["StreamMusic"] = "created"]
  /\ UNCHANGED <<StreamVars, starter, stopAlarm, spinning>>

\* SleepMode finds its time over and stops the stream.
SleepEnds ==
  /\ Running /\ sleepMode /\ SleepOver(Minute(now))
  /\ stopAlarm' = TRUE
  /\ sleepMode' = FALSE /\ temp' = 0
  /\ UNCHANGED <<StreamVars, player, starter, spinning>>

-----------------------------------------------------------------------------
(* The last page of the alarm menu: setAlarm, then setVariableAlarm, whose *)
(* X12RtcSetAlarm is called with flag1 as it is now.                       *)
MenuSetAlarm ==
  /\ Running /\ arming = None
  /\ SetAlarm2
  /\ \E at \in Times : arming' = IF flag1 THEN [on |-> TRUE, at |-> at] ELSE Disarmed
  /\ UNCHANGED <<rtc, now, settled, flag1, checker, checkAt, polled, player, starter,
                 stopAlarm, sleepVars, spinning>>

\* The registers of alarm 2 are written.
ArmAlarm2 ==
  /\ Running /\ arming # None
  /\ rtc' = [rtc EXCEPT ![2] = arming] /\ arming' = None /\ settled' = 0
  /\ UNCHANGED <<settingsVars, now, flag1, checker, checkAt, polled, player,
                 starter, stopAlarm, sleepVars, spinning>>

\* The button thread does one key at a time.
Keys ==
  /\ Running /\ arming = None
  /\ SetupOk \/ SwitchAlarm2 \/ ResetEEPROM
  /\ UNCHANGED radioVars

-----------------------------------------------------------------------------
Booting == PowerUp \/ Start \/ InitAlarms
Check == CheckAlarm \/ (\E i \in 1 .. 2 : GetAlarm(i) \/ NotDue(i) \/ RingStream(i)) \/ RingBeep
Play(p) == SetUpFails(p) \/ Connected(p) \/ Refused(p) \/ Stopped(p)

Next ==
  \/ PowerFails \/ Booting \/ Save
  \/ Tick
  \/ Check
  \/ StartStream \/ \E p \in Players : Play(p) \/ StreamEnds(p)
  \/ (arming = None /\ StopStream) \/ (arming = None /\ KeySleep) \/ SleepEnds
  \/ MenuSetAlarm \/ ArmAlarm2 \/ Keys

(* A save ends.  It makes everybody wait, but the run queue is served in   *)
(* order, so a thread that can run again and again does; a connection is   *)
(* made or given up, and a read returns after its timeout.                 *)
Fairness == WF_todo(Save) /\ \A p \in Players : SF_<<player, spinning>>(Play(p))

Spec == Init /\ [][Next]_vars /\ Fairness
-----------------------------------------------------------------------------
\* The values of the variables.
TypeOK ==
  /\ SettingsTypeOK
  /\ rtc \in [1 .. 2 -> [on : BOOLEAN, at : Nat]] /\ now \in 0 .. (Day - 1)
  /\ {flag1, stopAlarm, sleepMode, spinning} \subseteq BOOLEAN
  /\ temp \in 0 .. (Hour - 1)
  /\ arming \in [on : BOOLEAN, at : Nat] /\ checkAt \in Nat
  /\ checker \in Checking \union {"none", "streams", "exited"}
  /\ settled \in 0 .. 2 /\ polled \in {"no", "begun", "yes"}
  /\ player \in [Players -> Streaming \union {"idle", "created"}]
  /\ starter \in Players \union {"nobody"}

(* The daily alarm is armed whenever the radio runs: whatever flag1 held   *)
(* when it was set, readings of the other alarm never disarm it (initAlarms*)
(* and the order of its two calls).                                        *)
DailyAlarmArmed == stage = "run" => rtc[1] = [on |-> TRUE, at |-> DailyTime]

(* No alarm is missed: the half minute an alarm is set for never passes    *)
(* while the checker lives and the alarm was armed for the whole window,   *)
(* at midnight and for 24:00 too, where the arithmetic on seconds does not *)
(* wrap (CheckAlarm1, CheckAlarm2).  After 24:00 the menu has times that   *)
(* never ring.                                                             *)
AlarmInTime ==
  [][\A i \in 1 .. 2 :
       now' # now /\ checker \in Checking /\ stage' = "run" /\ settled = 2
         => ~(rtc[i].on /\ rtc[i].at <= Day /\ rtc[i].at % Day = now)]_vars

(* A stop ends the stream that was started last, also if it comes while    *)
(* the connection is being made; only a stream started after the stop      *)
(* withdraws it (stopStream, startStream).                                 *)
StopObeyed ==
  \A p \in Players : (starter = p /\ stopAlarm) ~> (starter # p \/ spinning)

\* The minutes since the sleep mode began, up to whole hours.
Slept == Minute(now) - temp + IF Minute(now) < temp THEN Hour ELSE 0

(* A sleep is over in its fifteenth minute, not before and not after, also *)
(* over the end of an hour; but one that began in minute 45 waits for a    *)
(* minute 60 and is never over (SleepMode).                                *)
SleepInTime ==
  [][sleepMode /\ stage' = "run" =>
       /\ ~sleepMode' => Slept = Nap /\ temp # Hour - Nap
       /\ sleepMode' /\ Slept = Nap /\ Minute(now') # Minute(now) => temp = Hour - Nap]_vars

(* Alarm 2 rings only if its status is on, as alarm.h says: "the status is *)
(* to tell if its active 0 = off 1 = on".  The checker never looks at it.  *)
RingsOnlyWhenOn ==
  [][checker = "clock2" /\ checker' \in {"streams", "exited"} => IMCconfig.alarm2 = On]_vars

=============================================================================
