------------------------------ MODULE MCRadio -------------------------------
(* A day of one hour, an hour of four minutes, a sleep of two of them; 3      *)
(* stands for 13:10, 0 and 8 are midnight.                                    *)
EXTENDS Radio

AlarmTimes == {0, 8}
=============================================================================
