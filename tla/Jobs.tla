-------------------------------- MODULE Jobs --------------------------------
(***************************************************************************)
(* The shell's program on top of Kernel: the command loop of shell.c, the  *)
(* job control of job_handler.c and the built-in stress commands.  Every   *)
(* other process does whatever Kernel lets a program do.                   *)
(*                                                                         *)
(* The shell's variables are its own, so what it does between two system   *)
(* calls is part of the step of the first: at names the call it makes      *)
(* next.  A line has one command: of a pipeline only the first is spawned. *)
(*                                                                         *)
(* A node of the job list is known by a number that is in use once: it     *)
(* stands for the node's address and for its job_id.                       *)
(***************************************************************************)
EXTENDS Kernel, FiniteSetsExt

CONSTANTS
    Commands,  \* the kinds of command that are typed
    Nappers    \* the children hang and nohang spawn, 10 in stress.c

ASSUME CommandsAssumption ==
    Commands \subseteq {"foreground", "background", "nice", "nice_pid",
                        "fg", "bg", "hang", "nohang", "recur"}
ASSUME NappersAssumption == Nappers \in Nat \ {0}
ASSUME ShellAssumption == Shell \in Parents

VARIABLES
    jobs,          \* the job nodes behind head
    cur_job_node,  \* a node, or NoJob for NULL and for head
    at,            \* the call the shell makes next, or is in
    status,        \* the global status of shell.c
    child,         \* pids[0], the job fg waits for, or the nappers to spawn
    flag           \* is_background, foundStopped or nohang

jobVars == <<jobs, cur_job_node, at, status, child, flag>>
allVars == <<vars, jobVars>>

NoJob == 0

\* poll: p_waitpid(-1) at the top of the loop; prompt: a line is read; nice,
\* started: between p_spawn and p_waitpid of a command; fg: before p_waitpid of
\* fg; recur: of recur; spawning, reap: in the loops of hang and nohang;
\* undefined: after the use of NULL or of a freed node.
At == {"poll", "prompt", "nice", "started", "fg", "recur", "spawning", "reap",
       "undefined"}

JobsInit ==
    /\ Init
    /\ jobs = <<>>
    /\ cur_job_node = NoJob
    /\ at = "poll"
    /\ status = "EXITED"
    /\ child = 0
    /\ flag = FALSE

\* Back at the top of the loop, or at another call that does not use them.
GoTo(place) == at' = place /\ child' = 0 /\ flag' = FALSE
-----------------------------------------------------------------------------
(* The list of jobs. *)

Nodes == {jobs[i].job_id : i \in DOMAIN jobs}

Position(node) == CHOOSE i \in DOMAIN jobs : jobs[i].job_id = node

\* node->prev
Before(node) == IF Position(node) = 1 THEN NoJob ELSE jobs[Position(node) - 1].job_id

NewNode == CHOOSE n \in 1 .. Len(jobs) + 2 : n \notin Nodes \cup {cur_job_node}

add_job(pid, job_status) ==
    /\ jobs' = Append(jobs, [job_id |-> NewNode, pid |-> pid, job_status |-> job_status])
    /\ cur_job_node' = NewNode

remove_job(node) == jobs' = RemoveAt(jobs, Position(node))

SetStatus(node, job_status) ==
    jobs' = [jobs EXCEPT ![Position(node)].job_status = job_status]

find_job_by_pid(pid) == {jobs[i].job_id : i \in {k \in DOMAIN jobs : jobs[k].pid = pid}}

change_job_status_RemovesStopped(node, how) ==
    /\ cur_job_node' = Before(node)
    /\ remove_job(node)

change_job_status_Unnamed(node, how) ==
    \/ /\ how \in Terminated
       /\ cur_job_node' = Before(node)
       /\ remove_job(node)
    \/ /\ how = "STOPPED"
       /\ cur_job_node' = node
       /\ SetStatus(node, how)

\* The job's process, its only one, was reported.
change_job_status(node, how) ==
    \/ /\ how \in Terminated
       /\ cur_job_node' = Before(node)
       /\ remove_job(node)
    \/ /\ how = "STOPPED"
       /\ cur_job_node' = node
       /\ SetStatus(node, "stopped")
-----------------------------------------------------------------------------
(* p_waitpid called by the shell.  Found is what it reports: the first     *)
(* zombie, else the first stopped one, else FAILURE.                       *)

Found_StoppedFirst(target) ==
    IF FoundIn(Stopped, Shell, target) # {}
    THEN [pid |-> FirstFound(Stopped, Shell, target), how |-> "STOPPED"]
    ELSE IF FoundIn(Zombie, Shell, target) # {}
    THEN LET c == FirstFound(Zombie, Shell, target) IN [pid |-> c, how |-> pcb[c].status]
    ELSE [pid |-> -1, how |-> "FAILURE"]

Found(target) ==
    IF FoundIn(Zombie, Shell, target) # {}
    THEN LET c == FirstFound(Zombie, Shell, target) IN [pid |-> c, how |-> pcb[c].status]
    ELSE IF FoundIn(Stopped, Shell, target) # {}
    THEN [pid |-> FirstFound(Stopped, Shell, target), how |-> "STOPPED"]
    ELSE [pid |-> -1, how |-> "FAILURE"]

FindsNothing(target) == InProgram(Shell) /\ Found(target).pid = -1 /\ UNCHANGED vars

FindsStopped(target) == InProgram(Shell) /\ Found(target).how = "STOPPED" /\ UNCHANGED vars

\* A blocking call returns, at once or after having blocked.
Returns(target) ==
    \/ WaitFound(Shell, target)
    \/ FindsStopped(target)
    \/ WaitResume(Shell)

Blocks(target) == WaitBlock(Shell, target) /\ UNCHANGED jobVars
-----------------------------------------------------------------------------
(* The loop of shell(). *)

Poll_SkipsStopped ==
    /\ at = "poll"
    /\ \/ /\ InProgram(Shell) /\ FoundIn(Zombie, Shell, AnyChild) = {}
          /\ GoTo("prompt")
          /\ UNCHANGED <<vars, jobs, cur_job_node, status>>
       \/ /\ WaitFound(Shell, AnyChild)
          /\ LET found == Found(AnyChild) IN
             /\ find_job_by_pid(found.pid) # {}
             /\ status' = found.how
             /\ change_job_status(Min(find_job_by_pid(found.pid)), found.how)
             /\ GoTo("prompt")

\* p_waitpid(-1, &status, nohang).  It reports one child; a stopped one stays
\* where it is and is reported again next time.
Poll ==
    /\ at = "poll"
    /\ \/ /\ FindsNothing(AnyChild)
          /\ GoTo("prompt")
          /\ UNCHANGED <<jobs, cur_job_node, status>>
       \/ /\ WaitFound(Shell, AnyChild) \/ FindsStopped(AnyChild)
          /\ LET found == Found(AnyChild) IN
             /\ status' = found.how
             /\ IF find_job_by_pid(found.pid) = {}
                THEN GoTo("undefined") /\ UNCHANGED <<jobs, cur_job_node>>
                ELSE /\ change_job_status(Min(find_job_by_pid(found.pid)), found.how)
                     /\ GoTo("prompt")

\* A command that is a process of its own.
Launch ==
    /\ at = "prompt"
    /\ Spawn(Shell)
    /\ child' = CHOOSE c \in Pid : c \in k_find_available_pid
    /\ flag' \in {b \in BOOLEAN : IF b THEN "background" \in Commands
                                       ELSE "foreground" \in Commands}
    /\ at' \in {"started"} \cup ({"nice"} \cap Commands)
    /\ UNCHANGED <<jobs, cur_job_node, status>>

\* nice: the new process gets its priority.
NiceChild ==
    /\ at = "nice"
    /\ \E priority \in Levels : Nice(child, priority)
    /\ at' = "started"
    /\ UNCHANGED <<jobs, cur_job_node, status, child, flag>>

Background ==
    /\ at = "started" /\ flag
    /\ InProgram(Shell)
    /\ add_job(child, "running")
    /\ GoTo("poll")
    /\ UNCHANGED <<vars, status>>

\* Whether the wait failed is looked at last.  After a failure status is that
\* of an earlier wait; the job then made is marked in a place that was never
\* written.
Foreground ==
    /\ at = "started" /\ ~flag
    /\ \/ Blocks(child)
       \/ /\ Returns(child)
          /\ LET found == Found(child)
                 how   == IF found.pid = -1 THEN status ELSE found.how
             IN
             /\ status' = how
             /\ IF how = "STOPPED"
                THEN add_job(child, "stopped") \/ (found.pid = -1 /\ add_job(child, "running"))
                ELSE UNCHANGED <<jobs, cur_job_node>>
          /\ GoTo("poll")

\* nice_pid
NicePid ==
    /\ at = "prompt" /\ "nice_pid" \in Commands
    /\ \E t \in Pid, priority \in Levels : Nice(t, priority)
    /\ GoTo("poll")
    /\ UNCHANGED <<jobs, cur_job_node, status>>

\* jobs, man, mount, a syntax error: nothing that matters here.
OtherLine ==
    /\ at = "prompt"
    /\ InProgram(Shell)
    /\ GoTo("poll")
    /\ UNCHANGED <<vars, jobs, cur_job_node, status>>
-----------------------------------------------------------------------------
(* fg and bg. *)

StoppedJobs == {i \in DOMAIN jobs : jobs[i].job_status = "stopped"}

\* Without a job id: the last stopped job, otherwise the current one.
MostRecent == IF StoppedJobs # {} THEN jobs[Max(StoppedJobs)].job_id ELSE cur_job_node

Restart_Unmarked(node) ==
    /\ InProgram(Shell)
    /\ SigCont(jobs[Position(node)].pid, pcb)
    /\ UNCHANGED <<jobs, current_pcb, ctx, cursor>>

\* p_kill(S_SIGCONT) of a stopped job, which is then shown as running.
Restart(node) ==
    /\ InProgram(Shell)
    /\ SigCont(jobs[Position(node)].pid, pcb)
    /\ SetStatus(node, "running")
    /\ UNCHANGED <<current_pcb, ctx, cursor>>

\* fg up to p_waitpid; child is the node.
FgNode(node, stopped) ==
    \/ /\ node = NoJob
       /\ cur_job_node' = NoJob
       /\ GoTo("poll")
       /\ UNCHANGED <<vars, jobs>>
    \/ /\ node \notin Nodes \cup {NoJob}
       /\ GoTo("undefined")
       /\ UNCHANGED <<vars, jobs, cur_job_node>>
    \/ /\ node \in Nodes
       /\ IF jobs[Position(node)].job_status = "stopped"
          THEN Restart(node)
          ELSE UNCHANGED <<vars, jobs>>
       /\ at' = "fg" /\ child' = node /\ flag' = stopped
       /\ UNCHANGED cur_job_node

Fg ==
    /\ at = "prompt" /\ "fg" \in Commands
    /\ InProgram(Shell)
    /\ \/ \E node \in Nodes \cup {NoJob} : FgNode(node, FALSE)
       \/ FgNode(MostRecent, StoppedJobs # {})
    /\ UNCHANGED status

FgEnds_Keeps(node) ==
    /\ cur_job_node' = Before(node)
    /\ UNCHANGED jobs

\* The job terminated.  If it had been stopped the last node becomes the
\* current one, though it may be the one that is removed.
FgEnds(node) ==
    /\ cur_job_node' = IF flag THEN Last(jobs).job_id ELSE Before(node)
    /\ remove_job(node)

\* fg from p_waitpid.  Its own status has no value after a failure.
FgWait ==
    /\ at = "fg"
    /\ LET pid == jobs[Position(child)].pid IN
       \/ Blocks(pid)
       \/ /\ Returns(pid)
          /\ \/ Found(pid).how \in Terminated \cup {"FAILURE"} /\ FgEnds(child)
             \/ /\ Found(pid).how \in {"STOPPED", "FAILURE"}
                /\ change_job_status(child, "STOPPED")
             \/ /\ Found(pid).how = "FAILURE"
                /\ cur_job_node' = child
                /\ UNCHANGED jobs
          /\ GoTo("poll")
          /\ UNCHANGED status

\* bg restarts the stopped job with the given id, or without one the last
\* stopped job up to the current one.
Bg ==
    /\ at = "prompt" /\ "bg" \in Commands
    /\ InProgram(Shell)
    /\ \/ \E i \in StoppedJobs : Restart(jobs[i].job_id) /\ GoTo("poll")
       \/ /\ cur_job_node \notin Nodes \cup {NoJob}
          /\ GoTo("undefined")
          /\ UNCHANGED <<vars, jobs>>
    /\ UNCHANGED <<cur_job_node, status>>
-----------------------------------------------------------------------------
(* The stress commands, which run in the shell. *)

\* hang and nohang; child counts the nappers still to be spawned.  Enough pids
\* are free, since only MaxPid bounds them here.
Stress ==
    /\ at = "prompt"
    /\ InProgram(Shell)
    /\ Cardinality({c \in Pid : ~Listed(queue, c)}) >= Nappers
    /\ flag' \in {b \in BOOLEAN : (IF b THEN "nohang" ELSE "hang") \in Commands}
    /\ at' = "spawning" /\ child' = Nappers
    /\ UNCHANGED <<vars, jobs, cur_job_node, status>>

SpawnNapper ==
    /\ at = "spawning"
    /\ Spawn(Shell)
    /\ child' = child - 1
    /\ at' = IF child = 1 THEN "reap" ELSE "spawning"
    /\ UNCHANGED <<jobs, cur_job_node, status, flag>>

\* p_waitpid(-1, NULL, nohang) until it fails.  Without nohang it blocks when
\* there is nothing to report, children or not; with nohang it returns 0.
Reap ==
    /\ at = "reap"
    /\ \/ ~flag /\ Blocks(AnyChild)
       \/ flag /\ FindsNothing(AnyChild) /\ UNCHANGED jobVars
       \/ /\ Returns(AnyChild)
          /\ IF Found(AnyChild).pid = -1 THEN GoTo("poll") ELSE UNCHANGED <<at, child, flag>>
          /\ UNCHANGED <<jobs, cur_job_node, status>>

\* recur: the shell's call of spawn_r.  After 26 generations it does nothing.
Recur ==
    /\ at = "prompt" /\ "recur" \in Commands
    /\ Spawn(Shell)
    /\ child' = CHOOSE c \in Pid : c \in k_find_available_pid
    /\ at' = "recur"
    /\ UNCHANGED <<jobs, cur_job_node, status, flag>>

RecurWait ==
    /\ at = "recur"
    /\ \/ Blocks(child)
       \/ /\ Returns(child)
          /\ GoTo("poll")
          /\ UNCHANGED <<jobs, cur_job_node, status>>
-----------------------------------------------------------------------------
ShellStep ==
    \/ Poll
    \/ Launch \/ NiceChild \/ Background \/ Foreground \/ NicePid \/ OtherLine
    \/ Fg \/ FgWait \/ Bg
    \/ Stress \/ SpawnNapper \/ Reap
    \/ Recur \/ RecurWait

OtherStep ==
    /\ \/ \E p \in Pid \ {Shell} : Process(p)
       \/ Switch(Shell)
       \/ OrphanStep
       \/ KeyInt \/ KeyStop \/ IdleSwitch
       \/ Alarm \/ AlarmStep
       \/ \E l \in ReadyLists : Schedule(l)
       \/ Idle
    /\ UNCHANGED jobVars

JobsNext == ShellStep \/ OtherStep

JobsSpec == JobsInit /\ [][JobsNext]_allVars
-----------------------------------------------------------------------------
(* What must hold. *)

\* Type invariant of the shell's variables (job.h:9-23).
JobsTypeOK ==
    /\ jobs \in Seq([job_id : Nat \ {NoJob}, pid : Pid, job_status : {"running", "stopped"}])
    /\ cur_job_node \in Nat
    /\ at \in At
    /\ status \in Terminated \cup {"STOPPED"}
    /\ child \in Nat
    /\ flag \in BOOLEAN

ShellChild(p) == Listed(queue, p) /\ pcb[p].ppid = Shell

AtJobs == at \notin {"spawning", "reap", "undefined"}

\* A job stands for one process, a child of the shell that exists, and no two
\* jobs for the same: fg and bg never reach a process that took over the pid.
JobsAreChildren ==
    AtJobs =>
        \A i \in DOMAIN jobs :
            /\ ShellChild(jobs[i].pid)
            /\ \A k \in DOMAIN jobs : jobs[k].pid = jobs[i].pid => k = i

\* Every child is in a job, except the one the shell is starting or waiting for:
\* what the poll reports can be found (shell.c:56-57).
ChildHasJob ==
    AtJobs =>
        \A p \in Pid :
            ShellChild(p) => \/ find_job_by_pid(p) # {}
                             \/ at \in {"nice", "started", "recur"} /\ child = p

\* A job shown as stopped has not been continued behind the list's back.
StoppedIsStopped ==
    AtJobs =>
        \A i \in StoppedJobs : pcb[jobs[i].pid].status \in {"STOPPED"} \cup Terminated

\* cur_job_node is never a freed node: after fg "we fg a stopped one, set the
\* cur_job to the last node" (job_handler.c:347).
CurrentIsJob == cur_job_node \in Nodes \cup {NoJob}
-----------------------------------------------------------------------------
(* Fairness and liveness. *)

\* A shell that gets the processor again and again executes, once in a while,
\* the p_waitpid of its loop.
LoopFairness == SF_allVars(Poll \/ Reap)

LiveSpec == JobsSpec /\ KernelFairness /\ QueueFairness /\ ShellFairness /\ LoopFairness

\* A child that terminated is reaped, if lines keep being typed or the shell is
\* in the loop of a stress command: no other child, stopped or new, keeps
\* p_waitpid(-1) from reporting it.
ZombieReaped ==
    []<>(at \in {"poll", "reap"}) =>
        \A p \in Pid :
            ShellChild(p) /\ pcb[p].status \in Terminated
              ~> pcb[p].status = "FREE" \/ at = "undefined"

\* A background job that stops is shown as stopped, if lines keep being typed,
\* unless another child stops or terminates: the poll reports one child, zombies
\* first, and the same stopped child every time (shell.c:53-58).
StopReported ==
    []<>(at = "poll") =>
        \A p \in Pid :
            (\E i \in DOMAIN jobs : jobs[i].pid = p /\ pcb[p].status = "STOPPED")
              ~> \/ \E i \in StoppedJobs : jobs[i].pid = p
                 \/ pcb[p].status # "STOPPED"
                 \/ \E q \in Pid \ {p} : /\ ShellChild(q)
                                          /\ pcb[q].status \in {"STOPPED"} \cup Terminated
=============================================================================
