---------------------------- MODULE MCProtection ----------------------------
(* Instances of Protection for TLC. *)
EXTENDS Protection

CONSTANTS shell, command

ShellAndCommand == {shell, command}
CtrlZ           == {"SIGTSTP"}
NoKeys          == {}
=============================================================================
