------------------------------ MODULE MCKernel ------------------------------
(* Instances of Kernel for TLC. *)
EXTENDS Kernel

OneTick   == {1}
NoLevels  == {}
CtrlZ     == {"SIGTSTP"}
CtrlC     == {"SIGINT"}
BothKeys  == {"SIGINT", "SIGTSTP"}
Everyone  == 1 .. MaxPid
ShellOnly == {Shell}
=============================================================================
