------------------------------- MODULE MCJobs -------------------------------
(* Instances of Jobs for TLC. *)
EXTENDS Jobs

NoTicks   == {}
NoLevels  == {}
LowOnly   == {LOW}
CtrlZ     == {"SIGTSTP"}
BothKeys  == {"SIGINT", "SIGTSTP"}
Everyone  == 1 .. MaxPid
ShellOnly == {Shell}

\* status is only read after a failed wait.
NoStatus == <<vars, jobs, cur_job_node, at, child, flag>>

JobControl == {"foreground", "background", "nice", "nice_pid", "fg", "bg", "hang"}
Unattended == {"background", "nohang", "recur"}
Recalling  == {"foreground", "fg"}
=============================================================================
