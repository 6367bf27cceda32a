------------------------------- MODULE Kernel -------------------------------
(***************************************************************************)
(* The PennOS kernel of process_control.c: process control blocks, the     *)
(* process lists, the system calls p_spawn, p_sleep, p_waitpid, p_kill,    *)
(* p_nice and p_exit, the terminal signals, the clock tick and the         *)
(* scheduler and idle contexts.                                            *)
(*                                                                         *)
(* One processor runs one context at a time.  A system call runs with all  *)
(* signals blocked, so it is one step; where it leaves protected mode and  *)
(* only then swaps to the scheduler, it is two, and a signal may come      *)
(* between them.  The orphan sweep and the walk of the sleep list are      *)
(* loops: one step per iteration, and nothing else moves meanwhile.        *)
(*                                                                         *)
(* A definition X_Y is X with a plausible mistake; no action uses it.  It  *)
(* is there to see which property would notice.                            *)
(***************************************************************************)
EXTENDS ProcessList

CONSTANTS
    MaxPid,   \* bound on the pids in use at once
    Ticks,    \* the arguments p_sleep is called with
    Levels,   \* the priorities the nice commands ask for
    Keys,     \* the terminal signals that may arrive while a process runs
    IdleKeys, \* and while idle runs
    Parents,  \* pids whose programs call p_spawn and p_waitpid
    Immune    \* pids the kill command is not aimed at

ASSUME MaxPidAssumption == MaxPid \in Nat \ {0}
ASSUME TicksAssumption  == Ticks \subseteq Nat \ {0}
ASSUME LevelsAssumption == Levels \subseteq {-1, 0, 1}
ASSUME KeysAssumption   == Keys \cup IdleKeys \subseteq {"SIGINT", "SIGTSTP"}
ASSUME ParentsAssumption == Parents \subseteq Nat
ASSUME ImmuneAssumption == Immune \subseteq Nat

Pid      == 1 .. MaxPid
Shell    == 1    \* shell_pcb->pid: the shell is spawned first
NoPid    == 0    \* a NULL current_pcb, the ppid of the shell, an unset pid_waitfor
AnyChild == -1   \* p_waitpid(-1, ...)

HIGH == -1
MED  == 0
LOW  == 1

Terminated == {"EXITED", "SIGNALED"}
Status     == {"READY", "BLOCKED", "STOPPED", "FREE"} \cup Terminated

\* Where a process continues when it gets the processor: in its program; at
\* the swapcontext of p_sleep or p_waitpid; after that of p_waitpid; or
\* (kill command) after p_kill, about to return.
PC == {"user", "sleep_switch", "wait_switch", "wait_resume", "return"}

\* sleep_remain is only ever compared with 0, so it is kept at -1 once there.
\* stopping: the process stopped itself (or was the target of Ctrl-Z) and has
\* not reached the swapcontext of k_process_kill yet.
PCB == [status : Status, ppid : Pid \cup {NoPid}, process_priority : {HIGH, MED, LOW},
        pid_waitfor : Pid \cup {NoPid, AnyChild}, sleep_remain : Nat \cup {-1},
        pc : PC, stopping : BOOLEAN]

Context == {"scheduler", "process", "idle", "idle_switch", "alarm"}

VARIABLES
    queue,          \* PL->list_pointer[]
    sleep_list,     \* PL->sleep_list
    waiting_list,   \* PL->waiting_list
    pcb,            \* the PCBs; status "FREE" when there is none with that pid
    current_pcb,    \* the pid of current_pcb
    ctx,            \* the context that has the processor (with idle_flag)
    cursor,         \* alarm_handler's sleep_node, as an index into sleep_list
    dying           \* the k_terminate calls still looking for children

vars == <<queue, sleep_list, waiting_list, pcb, current_pcb, ctx, cursor, dying>>

FreePCB == [status |-> "FREE", ppid |-> NoPid, process_priority |-> MED,
            pid_waitfor |-> NoPid, sleep_remain |-> -1, pc |-> "user",
            stopping |-> FALSE]

NewPCB(parent, priority) ==
    [FreePCB EXCEPT !.status = "READY", !.ppid = parent,
                    !.process_priority = priority]

ReadyQueueOf(pid) == pcb[pid].process_priority + 1

Init ==
    /\ queue = [l \in ListId |-> IF l = ReadyHigh THEN <<Shell>> ELSE <<>>]
    /\ sleep_list = <<>>
    /\ waiting_list = <<>>
    /\ pcb = [p \in Pid |-> IF p = Shell THEN NewPCB(NoPid, HIGH) ELSE FreePCB]
    /\ current_pcb = NoPid
    /\ ctx = "scheduler"
    /\ cursor = 0
    /\ dying = {}
-----------------------------------------------------------------------------
(* Who may take a step. *)

\* What a process does after its PCB and stack were freed is undefined, and is
\* not followed; CurrentExists says when that does not arise.
Running(p) ==
    ctx = "process" /\ dying = {} /\ current_pcb = p /\ Listed(queue, p)

InProgram(p) == Running(p) /\ ~pcb[p].stopping /\ pcb[p].pc = "user"

Signalable == ctx \in {"process", "idle", "idle_switch"} /\ dying = {}
-----------------------------------------------------------------------------
(* Kernel functions shared by the system calls.  Those that another kernel *)
(* function calls take the state their caller has reached as arguments.    *)

Awaits_AnyChild(w, p) == pcb[p].ppid = w

Awaits(w, p) ==
    \/ pcb[w].pid_waitfor = p
    \/ pcb[w].pid_waitfor = AnyChild /\ pcb[p].ppid = w

FirstWaiter(waiters, p) ==
    waiters[CHOOSE i \in DOMAIN waiters :
              Awaits(waiters[i], p) /\ \A j \in 1 .. i - 1 : ~Awaits(waiters[j], p)]

k_unblock_wait_StaysBlocked(lists, waiters, pcbs, p) ==
    IF \E w \in Range(waiters) : Awaits(w, p)
    THEN LET w == FirstWaiter(waiters, p) IN
         /\ waiting_list' = k_delete(waiters, w)
         /\ queue' = AddTail(lists, w, ReadyQueueOf(w))
         /\ pcb' = [pcbs EXCEPT ![w].status = "READY"]
    ELSE waiting_list' = waiters /\ queue' = lists /\ pcb' = pcbs

\* At most one waiting process, the first that awaits p, becomes ready.
k_unblock_wait(lists, waiters, pcbs, p) ==
    IF \E w \in Range(waiters) : Awaits(w, p)
    THEN LET w == FirstWaiter(waiters, p) IN
         /\ waiting_list' = k_delete(waiters, w)
         /\ queue' = Shift(lists, w, Blocked, ReadyQueueOf(w))
         /\ pcb' = [pcbs EXCEPT ![w].status = "READY"]
    ELSE /\ waiting_list' = waiters
         /\ queue' = lists
         /\ pcb' = pcbs

k_terminate_Twice(t, how, pcbs) ==
    /\ k_unblock_wait(MoveTo(queue, t, Zombie), k_delete(waiting_list, t),
                      [pcbs EXCEPT ![t].status = how], t)
    /\ sleep_list' = k_delete(sleep_list, t)
    /\ dying' = {t}

k_terminate_LeavesOrphans(t, how, pcbs) ==
    /\ k_unblock_wait(MoveTo(queue, t, Zombie), k_delete(waiting_list, t),
                      [pcbs EXCEPT ![t].status = how], t)
    /\ sleep_list' = k_delete(sleep_list, t)
    /\ UNCHANGED dying

\* The children of t are left to OrphanStep.
k_terminate(t, how, pcbs) ==
    IF ~Listed(queue, t) \/ pcb[t].status \in Terminated
    THEN /\ pcb' = pcbs
         /\ UNCHANGED <<queue, sleep_list, waiting_list, dying>>
    ELSE /\ k_unblock_wait(MoveTo(queue, t, Zombie), k_delete(waiting_list, t),
                           [pcbs EXCEPT ![t].status = how], t)
         /\ sleep_list' = k_delete(sleep_list, t)
         /\ dying' = {t}

SigCont_AlwaysReady(t, pcbs) ==
    /\ IF pcb[t].status = "STOPPED"
       THEN /\ queue' = Shift(queue, t, Stopped, ReadyQueueOf(t))
            /\ pcb' = [pcbs EXCEPT ![t].status = "READY"]
       ELSE queue' = queue /\ pcb' = pcbs
    /\ UNCHANGED <<sleep_list, waiting_list, dying>>

SigCont(t, pcbs) ==
    /\ IF pcb[t].status = "STOPPED"
       THEN IF On(sleep_list, t)
            THEN /\ queue' = Shift(queue, t, Stopped, Blocked)
                 /\ pcb' = [pcbs EXCEPT ![t].status = "BLOCKED"]
            ELSE /\ queue' = Shift(queue, t, Stopped, ReadyQueueOf(t))
                 /\ pcb' = [pcbs EXCEPT ![t].status = "READY"]
       ELSE queue' = queue /\ pcb' = pcbs
    /\ UNCHANGED <<sleep_list, waiting_list, dying>>

Stoppable(t) == pcb[t].status = "READY" \/ On(sleep_list, t)

SigStp_WakesNobody(t, pcbs) ==
    /\ IF Stoppable(t)
       THEN /\ queue' = MoveTo(queue, t, Stopped)
            /\ pcb' = [pcbs EXCEPT ![t].status = "STOPPED"]
       ELSE queue' = queue /\ pcb' = pcbs
    /\ UNCHANGED <<sleep_list, waiting_list, dying>>

SigStp(t, pcbs) ==
    /\ IF Stoppable(t)
       THEN k_unblock_wait(MoveTo(queue, t, Stopped), waiting_list,
                           [pcbs EXCEPT ![t].status = "STOPPED"], t)
       ELSE /\ pcb' = pcbs
            /\ UNCHANGED <<queue, waiting_list>>
    /\ UNCHANGED <<sleep_list, dying>>
-----------------------------------------------------------------------------
(* System calls of the running process. *)

\* p_spawn: the least pid in no list, at the head of the ready queue.
k_find_available_pid ==
    {c \in Pid : ~Listed(queue, c) /\ \A d \in 1 .. c - 1 : Listed(queue, d)}

Spawn(p) ==
    /\ InProgram(p) /\ p \in Parents
    /\ \E c \in k_find_available_pid :
          /\ pcb' = [pcb EXCEPT ![c] = NewPCB(p, MED)]
          /\ queue' = AddHead(queue, c, ReadyMed)
    /\ UNCHANGED <<sleep_list, waiting_list, current_pcb, ctx, cursor, dying>>

Sleep_GoesOn(p, t) ==
    /\ InProgram(p) /\ p # Shell
    /\ queue' = MoveTo(queue, p, Blocked)
    /\ sleep_list' = k_add_tail(sleep_list, p)
    /\ pcb' = [pcb EXCEPT ![p].sleep_remain = t, ![p].status = "BLOCKED"]
    /\ UNCHANGED <<waiting_list, current_pcb, ctx, cursor, dying>>

\* p_sleep, up to k_leave_last_protected_mode.  The shell never calls it.
Sleep(p, t) ==
    /\ InProgram(p) /\ p # Shell
    /\ queue' = MoveTo(queue, p, Blocked)
    /\ sleep_list' = k_add_tail(sleep_list, p)
    /\ pcb' = [pcb EXCEPT ![p].sleep_remain = t, ![p].status = "BLOCKED",
                          ![p].pc = "sleep_switch"]
    /\ UNCHANGED <<waiting_list, current_pcb, ctx, cursor, dying>>

Matches_AnyZombie(c, p, target) == c = target \/ target = AnyChild

\* What p_waitpid(target) looks for among the pids of one list: the pid
\* itself, or any child.  Programs wait for pids p_spawn gave them.
Matches(c, p, target) == c = target \/ (target = AnyChild /\ pcb[c].ppid = p)

FoundIn(l, p, target) == {c \in Range(queue[l]) : Matches(c, p, target)}

FirstFound(l, p, target) ==
    CHOOSE c \in FoundIn(l, p, target) :
        \A d \in FoundIn(l, p, target) :
            FirstNode(queue[l], c) <= FirstNode(queue[l], d)

Targets(p) == {AnyChild} \cup {c \in Pid : Listed(queue, c) /\ pcb[c].ppid = p}

\* A zombie that was found is unlinked and its PCB freed; a stopped child
\* that was found only reports its status, and so changes nothing.
ReapFound(p, target, pcbs) ==
    IF FoundIn(Zombie, p, target) # {}
    THEN LET c == FirstFound(Zombie, p, target) IN
         /\ queue' = DeleteFrom(queue, c, Zombie)
         /\ pcb' = [pcbs EXCEPT ![c] = FreePCB]
    ELSE /\ queue' = queue
         /\ pcb' = pcbs

WaitFound(p, target) ==
    /\ InProgram(p) /\ p \in Parents
    /\ target \in Targets(p)
    /\ FoundIn(Zombie, p, target) # {}
    /\ ReapFound(p, target, pcb)
    /\ UNCHANGED <<sleep_list, waiting_list, current_pcb, ctx, cursor, dying>>

WaitBlock_Forgetful(p, target) ==
    /\ InProgram(p) /\ p \in Parents
    /\ target \in Targets(p)
    /\ FoundIn(Zombie, p, target) \cup FoundIn(Stopped, p, target) = {}
    /\ waiting_list' = k_add_tail(waiting_list, p)
    /\ queue' = MoveTo(queue, p, Blocked)
    /\ pcb' = [pcb EXCEPT ![p].status = "BLOCKED", ![p].pc = "wait_switch"]
    /\ UNCHANGED <<sleep_list, current_pcb, ctx, cursor, dying>>

\* Nothing found and no nohang: join the waiting list and block.
WaitBlock(p, target) ==
    /\ InProgram(p) /\ p \in Parents
    /\ target \in Targets(p)
    /\ FoundIn(Zombie, p, target) \cup FoundIn(Stopped, p, target) = {}
    /\ waiting_list' = k_add_tail(waiting_list, p)
    /\ queue' = MoveTo(queue, p, Blocked)
    /\ pcb' = [pcb EXCEPT ![p].pid_waitfor = target, ![p].status = "BLOCKED",
                          ![p].pc = "wait_switch"]
    /\ UNCHANGED <<sleep_list, current_pcb, ctx, cursor, dying>>

\* After the swapcontext: search again; if nothing is there, return FAILURE.
WaitResume(p) ==
    /\ Running(p) /\ ~pcb[p].stopping /\ pcb[p].pc = "wait_resume"
    /\ ReapFound(p, pcb[p].pid_waitfor, [pcb EXCEPT ![p].pc = "user"])
    /\ UNCHANGED <<sleep_list, waiting_list, current_pcb, ctx, cursor, dying>>

\* The swapcontext to the scheduler that ends a blocking call or a self-stop.
Switch(p) ==
    /\ Running(p)
    /\ \/ /\ pcb[p].stopping
          /\ pcb' = [pcb EXCEPT ![p].stopping = FALSE]
       \/ /\ ~pcb[p].stopping /\ pcb[p].pc = "sleep_switch"
          /\ pcb' = [pcb EXCEPT ![p].pc = "user"]
       \/ /\ ~pcb[p].stopping /\ pcb[p].pc = "wait_switch"
          /\ pcb' = [pcb EXCEPT ![p].pc = "wait_resume"]
    /\ ctx' = "scheduler"
    /\ UNCHANGED <<queue, sleep_list, waiting_list, current_pcb, cursor, dying>>

\* The kill command: a child of the shell that calls p_kill and returns.
Kill(p, t, signal) ==
    /\ InProgram(p) /\ pcb[p].ppid = Shell
    /\ Listed(queue, t) /\ t \notin Immune
    /\ \/ /\ signal = "S_SIGTERM"
          /\ k_terminate(t, "SIGNALED", [pcb EXCEPT ![p].pc = "return"])
       \/ /\ signal = "S_SIGCONT"
          /\ SigCont(t, [pcb EXCEPT ![p].pc = "return"])
       \/ /\ signal = "S_SIGSTP"
          /\ SigStp(t, [pcb EXCEPT ![p].pc = "return",
                                   ![p].stopping = t = p /\ Stoppable(t)])
    /\ UNCHANGED <<current_pcb, ctx, cursor>>

\* fg and bg: the shell continues the process of a job (module Jobs says
\* which).
Continue(t) ==
    /\ InProgram(Shell)
    /\ Listed(queue, t) /\ pcb[t].status = "STOPPED"
    /\ SigCont(t, pcb)
    /\ UNCHANGED <<current_pcb, ctx, cursor>>

Nice_AlwaysMoves(t, priority) ==
    /\ InProgram(Shell)
    /\ Listed(queue, t)
    /\ pcb' = [pcb EXCEPT ![t].process_priority = priority]
    /\ queue' = MoveTo(queue, t, priority + 1)
    /\ UNCHANGED <<sleep_list, waiting_list, current_pcb, ctx, cursor, dying>>

\* nice and nice_pid are built into the shell.
Nice(t, priority) ==
    /\ InProgram(Shell)
    /\ Listed(queue, t)
    /\ pcb' = [pcb EXCEPT ![t].process_priority = priority]
    /\ queue' = IF pcb[t].status = "READY" THEN MoveTo(queue, t, priority + 1)
                                           ELSE queue
    /\ UNCHANGED <<sleep_list, waiting_list, current_pcb, ctx, cursor, dying>>

\* p_exit, or a return to the returner context.
Exit(p) ==
    /\ Running(p) /\ ~pcb[p].stopping /\ p # Shell
    /\ pcb[p].pc \in {"user", "return"}
    /\ k_terminate(p, "EXITED", [pcb EXCEPT ![p].pc = "return"])
    /\ ctx' = "scheduler"
    /\ UNCHANGED <<current_pcb, cursor>>

OrphanStep_KeepsWaiting ==
    \E d \in dying :
        LET children == {c \in Pid : Listed(queue, c) /\ pcb[c].ppid = d} IN
        /\ IF children = {}
           THEN dying' = dying \ {d} /\ UNCHANGED <<queue, sleep_list, pcb>>
           ELSE \E c \in children :
                /\ queue' = k_delete_in_processlists(queue, c)
                /\ sleep_list' = k_delete(sleep_list, c)
                /\ pcb' = [pcb EXCEPT ![c] = FreePCB]
                /\ dying' = dying \cup {c}
        /\ UNCHANGED <<waiting_list, current_pcb, ctx, cursor>>

\* One iteration of the loop over all lists in a k_terminate call for d: a
\* child becomes an orphan, which k_process_kill(S_SIGTERM) takes out of every
\* list and frees, with a k_terminate call of its own for its children.
OrphanStep ==
    \E d \in dying :
        LET children == {c \in Pid : Listed(queue, c) /\ pcb[c].ppid = d} IN
        /\ IF children = {}
           THEN /\ dying' = dying \ {d}
                /\ UNCHANGED <<queue, sleep_list, waiting_list, pcb>>
           ELSE \E c \in children :
                /\ queue' = k_delete_in_processlists(queue, c)
                /\ waiting_list' = k_delete(waiting_list, c)
                /\ sleep_list' = k_delete(sleep_list, c)
                /\ pcb' = [pcb EXCEPT ![c] = FreePCB]
                /\ dying' = dying \cup {c}
        /\ UNCHANGED <<current_pcb, ctx, cursor>>
-----------------------------------------------------------------------------
(* Signals. *)

\* Ctrl-C: p_kill(current_pcb->pid, S_SIGTERM), ignored for the shell.  The
\* handler returns to where it came from, whatever it killed.
KeyInt ==
    /\ Signalable
    /\ "SIGINT" \in (IF ctx = "process" THEN Keys ELSE IdleKeys)
    /\ current_pcb # Shell /\ Listed(queue, current_pcb)
    /\ k_terminate(current_pcb, "SIGNALED", pcb)
    /\ UNCHANGED <<current_pcb, ctx, cursor>>

\* Ctrl-Z: a stopped current process goes on to swap to the scheduler.  The
\* signal is blocked while its own handler is in that window.
KeyStop ==
    /\ Signalable
    /\ "SIGTSTP" \in (IF ctx = "process" THEN Keys ELSE IdleKeys)
    /\ current_pcb # Shell /\ Listed(queue, current_pcb)
    /\ ctx # "idle_switch" /\ ~pcb[current_pcb].stopping
    /\ Stoppable(current_pcb)
    /\ SigStp(current_pcb, [pcb EXCEPT ![current_pcb].stopping = (ctx = "process")])
    /\ ctx' = IF ctx = "idle" THEN "idle_switch" ELSE ctx
    /\ UNCHANGED <<current_pcb, cursor>>

IdleSwitch ==
    /\ ctx = "idle_switch" /\ dying = {}
    /\ ctx' = "scheduler"
    /\ UNCHANGED <<queue, sleep_list, waiting_list, pcb, current_pcb, cursor, dying>>

\* SIGALRM in user mode; in kernel mode the handler returns at once.
Alarm ==
    /\ Signalable
    /\ ctx' = "alarm"
    /\ cursor' = 1
    /\ UNCHANGED <<queue, sleep_list, waiting_list, pcb, current_pcb, dying>>

Countdown_StopsAtZero(n) == IF n > 0 THEN n - 1 ELSE 0

Countdown_ToTheEnd(n) == -1

Countdown(n) == IF n > 0 THEN n - 1 ELSE -1

\* The handler's loop over the sleep list.  It takes a tick off the process
\* at the cursor; when that wakes the process, the cursor is left at the next
\* node, which loses a tick at once and another when the loop comes to it.
AlarmStep ==
    /\ ctx = "alarm"
    /\ IF cursor > Len(sleep_list)
       THEN /\ ctx' = "scheduler"
            /\ cursor' = 0
            /\ UNCHANGED <<queue, sleep_list, pcb>>
       ELSE LET p      == sleep_list[cursor]
                remain == Countdown(pcb[p].sleep_remain)
            IN
            /\ IF remain < 0 /\ pcb[p].status = "BLOCKED"
               THEN LET awake == [pcb EXCEPT ![p].sleep_remain = remain,
                                             ![p].status = "READY"] IN
                    /\ sleep_list' = k_delete(sleep_list, p)
                    /\ queue' = Shift(queue, p, Blocked, ReadyQueueOf(p))
                    /\ pcb' = IF cursor < Len(sleep_list)
                              THEN [awake EXCEPT ![sleep_list[cursor + 1]].sleep_remain
                                      = Countdown(@)]
                              ELSE awake
                    /\ cursor' = cursor
               ELSE /\ pcb' = [pcb EXCEPT ![p].sleep_remain = remain]
                    /\ cursor' = cursor + 1
                    /\ UNCHANGED <<queue, sleep_list>>
            /\ ctx' = ctx
    /\ UNCHANGED <<waiting_list, current_pcb, dying>>
-----------------------------------------------------------------------------
(* The scheduler and idle contexts. *)

Schedule_SameHead(l) ==
    /\ ctx = "scheduler" /\ dying = {}
    /\ queue[l] # <<>>
    /\ current_pcb' = Head(queue[l])
    /\ ctx' = "process"
    /\ UNCHANGED <<queue, sleep_list, waiting_list, pcb, cursor, dying>>

\* k_schedule chooses one ready queue that is not empty (module Scheduler
\* says which); its first process moves to the tail and runs.
Schedule(l) ==
    /\ ctx = "scheduler" /\ dying = {}
    /\ queue[l] # <<>>
    /\ current_pcb' = Head(queue[l])
    /\ queue' = Shift(queue, Head(queue[l]), l, l)
    /\ ctx' = "process"
    /\ UNCHANGED <<sleep_list, waiting_list, pcb, cursor, dying>>

Idle_Unchecked ==
    /\ ctx = "scheduler" /\ dying = {}
    /\ \A l \in ReadyLists : queue[l] = <<>>
    /\ current_pcb' = pcb[Shell].pid_waitfor
    /\ ctx' = "idle"
    /\ UNCHANGED <<queue, sleep_list, waiting_list, pcb, cursor, dying>>

\* Nothing is ready: idle on behalf of the process the shell waits for.
Idle ==
    /\ ctx = "scheduler" /\ dying = {}
    /\ \A l \in ReadyLists : queue[l] = <<>>
    /\ LET foreground == pcb[Shell].pid_waitfor IN
       current_pcb' = IF Listed(queue, foreground) THEN foreground ELSE current_pcb
    /\ ctx' = "idle"
    /\ UNCHANGED <<queue, sleep_list, waiting_list, pcb, cursor, dying>>
-----------------------------------------------------------------------------
Process(p) ==
    \/ Spawn(p)
    \/ \E t \in Ticks : Sleep(p, t)
    \/ \E target \in Pid \cup {AnyChild} : WaitFound(p, target) \/ WaitBlock(p, target)
    \/ WaitResume(p)
    \/ Switch(p)
    \/ \E t \in Pid, signal \in {"S_SIGTERM", "S_SIGCONT", "S_SIGSTP"} : Kill(p, t, signal)
    \/ Exit(p)

Next ==
    \/ \E p \in Pid : Process(p)
    \/ \E t \in Pid : Continue(t) \/ \E priority \in Levels : Nice(t, priority)
    \/ OrphanStep
    \/ KeyInt \/ KeyStop \/ IdleSwitch
    \/ Alarm \/ AlarmStep
    \/ \E l \in ReadyLists : Schedule(l)
    \/ Idle

Spec == Init /\ [][Next]_vars
-----------------------------------------------------------------------------
(* What must hold. *)

\* Type invariant of the kernel state (process_control.h:33-66).
TypeOK ==
    /\ queue \in [ListId -> Seq(Pid)]
    /\ sleep_list \in Seq(Pid)
    /\ waiting_list \in Seq(Pid)
    /\ pcb \in [Pid -> PCB]
    /\ current_pcb \in Pid \cup {NoPid}
    /\ ctx \in Context
    /\ cursor \in Nat /\ (ctx = "alarm" => cursor > 0)
    /\ dying \subseteq Pid

\* The lists a process of this status and priority belongs in.
Place(p) ==
    {l \in ListId : \/ pcb[p].status = "READY" /\ l = ReadyQueueOf(p)
                    \/ pcb[p].status = "BLOCKED" /\ l = Blocked
                    \/ pcb[p].status = "STOPPED" /\ l = Stopped
                    \/ pcb[p].status \in Terminated /\ l = Zombie}

\* Every process is in exactly one of the six lists, once, and it is the list
\* of its status and priority: the many delete-and-append pairs of
\* process_control.c never lose, duplicate or misplace a process.
ListsMatchStatus ==
    /\ \A l \in ListId : IsInjective(queue[l])
    /\ \A p \in Pid : ListsOf(queue, p) = Place(p)

\* A blocked process is on exactly one of the sleep and waiting lists, so
\* something will wake it; a process on the sleep list is blocked or stopped,
\* one on the waiting list is blocked.
BlockedHasWaker ==
    /\ IsInjective(sleep_list) /\ IsInjective(waiting_list)
    /\ \A p \in Pid :
          /\ pcb[p].status = "BLOCKED" => (On(sleep_list, p) # On(waiting_list, p))
          /\ On(sleep_list, p) => pcb[p].status \in {"BLOCKED", "STOPPED"}
          /\ On(waiting_list, p) => pcb[p].status = "BLOCKED"

\* A process on the sleep or the waiting list is inside the p_sleep or p_waitpid
\* that put it there: it never executes past the swapcontext of that call
\* before it is taken off the list.
BlockedInCall ==
    \A p \in Pid :
        LET executing == ctx = "process" /\ current_pcb = p IN
        /\ On(sleep_list, p) =>
              /\ pcb[p].pc \in {"user", "sleep_switch"}
              /\ pcb[p].pc = "user" => ~executing
        /\ On(waiting_list, p) =>
              /\ pcb[p].pc \in {"wait_switch", "wait_resume"}
              /\ pcb[p].pc = "wait_resume" => ~executing

\* No lost wakeup: a process is never left on the waiting list while what it
\* waits for is already a zombie or stopped (k_unblock_wait runs at every
\* entry to these lists, p_waitpid looks before it blocks).
NoLostWakeup ==
    \A w \in Range(waiting_list) :
        FoundIn(Zombie, w, pcb[w].pid_waitfor)
            \cup FoundIn(Stopped, w, pcb[w].pid_waitfor) = {}

\* A process blocked on one pid waits for a child of its own that still
\* exists: it is not reaped, freed or replaced under the same pid meanwhile.
WaitedChildExists ==
    \A w \in Range(waiting_list) :
        LET c == pcb[w].pid_waitfor IN
        c # AnyChild => c \in Pid /\ Listed(queue, c) /\ pcb[c].ppid = w

\* Apart from the sweeps in progress, every process but the shell has a
\* parent that exists and has not terminated: no orphan is left behind and no
\* child is inherited by a later owner of the parent's pid.
NoOrphanLeft ==
    \A p \in Pid \ {Shell} :
        Listed(queue, p) =>
            \/ pcb[p].ppid \in dying
            \/ /\ pcb[p].ppid \in Pid
               /\ Listed(queue, pcb[p].ppid)
               /\ pcb[pcb[p].ppid].status \notin Terminated

\* While a process or idle has the processor, current_pcb is a PCB that has
\* not been freed: the signal handlers dereference it.
CurrentExists ==
    ctx \in {"process", "idle", "idle_switch", "alarm"} =>
        current_pcb \in Pid /\ Listed(queue, current_pcb)

\* p_sleep and p_waitpid are entered by ready processes only: "current process
\* must be in ready status" (process_control.c:518).
CallerIsReady ==
    \A p \in Pid : InProgram(p) => pcb[p].status = "READY"

\* A process that blocked in p_waitpid finds a zombie or stopped child when it
\* continues: the call does not fail after having blocked.
WaiterFinds ==
    \A p \in Pid :
        Running(p) /\ ~pcb[p].stopping /\ pcb[p].pc = "wait_resume" =>
            FoundIn(Zombie, p, pcb[p].pid_waitfor)
                \cup FoundIn(Stopped, p, pcb[p].pid_waitfor) # {}

\* Death is final: a terminated process keeps its exit status until its PCB
\* is freed; nothing puts it back on another list.
TerminatedStays ==
    [][\A p \in Pid : pcb[p].status \in Terminated =>
          pcb'[p].status \in {pcb[p].status, "FREE"}]_vars

\* A zombie's PCB is freed by its parent's p_waitpid or by the orphan sweep of
\* a dead parent, by nobody else: no exit status is lost.
ReapedByParent ==
    [][\A p \in Pid : pcb[p].status \in Terminated /\ pcb'[p].status = "FREE" =>
          \/ pcb[p].ppid \in dying
          \/ Running(pcb[p].ppid) /\ pcb[pcb[p].ppid].pc \in {"user", "wait_resume"}]_vars

\* The idle context takes its foreground process from the shell's pid_waitfor
\* only after the shell has set it: the field is not initialised by p_spawn.
IdleReadsSetField ==
    [][ctx = "scheduler" /\ ctx' = "idle" => pcb[Shell].pid_waitfor # NoPid]_vars
-----------------------------------------------------------------------------
(* Fairness and liveness. *)

\* The kernel's loops end, and the scheduler context always passes the
\* processor on.  A tick that comes in kernel mode stays pending and is handled
\* once signals are unblocked, so Alarm is strongly fair.
KernelFairness ==
    /\ WF_vars(OrphanStep) /\ WF_vars(AlarmStep) /\ WF_vars(IdleSwitch)
    /\ WF_vars(Idle) /\ WF_vars(\E l \in ReadyLists : Schedule(l))
    /\ SF_vars(Alarm)

\* k_schedule does not pass a queue over for ever (module Scheduler).
QueueFairness == SF_vars(Schedule(ReadyHigh)) /\ SF_vars(Schedule(ReadyMed))

\* A shell that gets the processor again and again executes, once in a while,
\* the few instructions between two points of p_waitpid.
ShellFairness == SF_vars(Switch(Shell) \/ WaitResume(Shell))

TickSpec  == Spec /\ KernelFairness
QueueSpec == TickSpec /\ QueueFairness
ShellSpec == QueueSpec /\ ShellFairness

\* A sleeper wakes, is stopped or is killed.
SleeperWakes ==
    \A p \in Pid : On(sleep_list, p) ~> (~On(sleep_list, p) \/ pcb[p].status = "STOPPED")

\* Unless new processes keep jumping the queue (p_spawn adds at its head), a
\* ready process gets the processor or stops being ready.
ReadyRuns ==
    <>[][\A p \in Pid : pcb[p].status = "FREE" => pcb'[p].status = "FREE"]_vars =>
        \A p \in Pid : pcb[p].status = "READY" ~> (Running(p) \/ pcb[p].status # "READY")

\* The shell returns from a blocking p_waitpid once the child it waits for has
\* terminated or stopped.
ShellReturns ==
    /\ pcb[Shell].pc \in {"wait_switch", "wait_resume"}
    /\ \/ FoundIn(Zombie, Shell, pcb[Shell].pid_waitfor) # {}
       \/ FoundIn(Stopped, Shell, pcb[Shell].pid_waitfor) # {}
    ~> pcb[Shell].pc = "user"
=============================================================================
