---------------------------- MODULE MCSleepClock ----------------------------
(* Instances of SleepClock for TLC. *)
EXTENDS SleepClock

TwoSleeps   == {1, 2}
Nothing     == {}
CtrlZ       == {"SIGTSTP"}
BothKeys    == {"SIGINT", "SIGTSTP"}
ShellOnly   == {Shell}
Everyone    == 1 .. MaxPid
=============================================================================
