SPECIFICATION Spec
CONSTANTS
  On = On
  Off = Off
  Blank = Blank
  Day = 8
  DailyTime = 3
  Hour = 4
  Nap = 2
  Times <- AlarmTimes
INVARIANTS
  AcceptedIsComplete
  DailyAlarmArmed
PROPERTIES
  AlarmInTime
  SleepInTime
  StopObeyed
