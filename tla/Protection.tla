----------------------------- MODULE Protection -----------------------------
(***************************************************************************)
(* Protected mode (process_control.c:702-750): the stack of processor      *)
(* modes and signal masks, as the system calls, the signal handlers and    *)
(* the kernel contexts use it.  Kernel takes for granted that a system     *)
(* call is not interrupted; this module says when that is so.              *)
(*                                                                         *)
(* The stack is one, the threads are many: each must have left what it     *)
(* entered before another runs.                                            *)
(***************************************************************************)
EXTENDS Integers, Sequences, SequencesExt

CONSTANTS
    Procs,      \* processes; one that ended makes room for another
    TheShell,   \* the one the terminal signals leave alone
    Keys,       \* the terminal signals that may arrive
    MaxLayers   \* MAX_PROTECTION_LAYERS

ASSUME ProcsAssumption == Procs \cap {"idle", "scheduler", "returner"} = {}
ASSUME TheShellAssumption == TheShell \in Procs
ASSUME KeysAssumption == Keys \subseteq {"SIGINT", "SIGTSTP"}
ASSUME MaxLayersAssumption == MaxLayers \in Nat \ {0}

Threads == Procs \cup {"idle", "scheduler", "returner"}
Signals == {"SIGALRM", "SIGINT", "SIGTSTP"}
Layers  == 0 .. MaxLayers - 1

VARIABLES
    cpu_mode,
    sigmask,           \* the signals blocked in the host process
    protection_level,
    cpu_mode_stack,
    sigmask_stack,
    running,           \* the thread whose context is set
    thread,            \* where each thread is
    lost               \* layers entered and never left, up to MaxLayers

stackVars == <<cpu_mode, sigmask, protection_level, cpu_mode_stack, sigmask_stack>>

vars == <<cpu_mode, sigmask, protection_level, cpu_mode_stack, sigmask_stack,
          running, thread, lost>>

\* user: in its program.  handler, return: in a signal handler before and after
\* its p_kill.  entering, masking: in k_enter_protected_mode, with the old mode
\* saved, and with the new one set.  call: in protected mode.  asleep, away:
\* between leaving it and the swapcontext, in p_sleep and in p_waitpid or a
\* self-stop.  back, resuming, remasking, rest: after that swapcontext, the same
\* again.
Point == {"user", "handler", "return", "entering", "masking", "call", "asleep", "away",
          "back", "resuming", "remasking", "rest"}

\* frames: what the signal handlers in progress interrupted.  mask: the mask
\* saved in the context while the thread does not run.  pairs: the entries a
\* kernel context has still to make.  closed: a call of the program returned
\* without leaving protected mode.  killed: Ctrl-C terminated it while it ran.
\* raced: its saved mode was overwritten while it was entering, because it was
\* switched out there or because a terminal signal came when the mode was set.
Fresh == [point |-> "user", frames |-> <<>>, mask |-> {}, pairs |-> 0,
          closed |-> FALSE, killed |-> FALSE, raced |-> FALSE]

ModeSaved(point) == point \in {"entering", "resuming"}
ModeSet(point)   == point \in {"masking", "remasking"}
Halfway(point)   == ModeSaved(point) \/ ModeSet(point)

KernelThread(pairs) == [Fresh EXCEPT !.pairs = pairs]

Init ==
    /\ cpu_mode = "KERNEL_MODE"
    /\ sigmask = Signals
    /\ protection_level = 0
    /\ cpu_mode_stack = [l \in Layers |-> "KERNEL_MODE"]
    /\ sigmask_stack = [l \in Layers |-> {}]
    /\ running = "scheduler"
    /\ thread = [t \in Threads |-> IF t = "scheduler" THEN KernelThread(2) ELSE Fresh]
    /\ lost = 0

At       == thread[running].point
Frames   == thread[running].frames
InUser   == running \in Procs \cup {"idle"}
InKernel == running \in {"scheduler", "returner"}

Moves(point) == thread' = [thread EXCEPT ![running].point = point]
-----------------------------------------------------------------------------
(* k_enter_protected_mode and k_leave_last_protected_mode.  Signals may     *)
(* come between any two statements of the first until it blocks them.      *)
(* At the limit entering does nothing.  protection_level is unsigned, so   *)
(* the test against leaving too often never succeeds; what would follow is *)
(* not modelled, and LayersBalanced says that it does not happen.          *)

SaveMode ==
    IF protection_level < MaxLayers
    THEN /\ cpu_mode_stack' = [cpu_mode_stack EXCEPT ![protection_level] = cpu_mode]
         /\ UNCHANGED <<cpu_mode, sigmask, protection_level, sigmask_stack>>
    ELSE UNCHANGED stackVars

SetMode ==
    IF protection_level < MaxLayers
    THEN /\ cpu_mode' = "KERNEL_MODE"
         /\ UNCHANGED <<sigmask, protection_level, cpu_mode_stack, sigmask_stack>>
    ELSE UNCHANGED stackVars

Block ==
    IF protection_level < MaxLayers
    THEN /\ sigmask_stack' = [sigmask_stack EXCEPT ![protection_level] = sigmask]
         /\ sigmask' = Signals
         /\ protection_level' = protection_level + 1
         /\ UNCHANGED <<cpu_mode, cpu_mode_stack>>
    ELSE UNCHANGED stackVars

k_enter_protected_mode_Unchecked ==
    /\ cpu_mode_stack' = [cpu_mode_stack EXCEPT ![protection_level] = cpu_mode]
    /\ sigmask_stack' = [sigmask_stack EXCEPT ![protection_level] = sigmask]
    /\ cpu_mode' = "KERNEL_MODE"
    /\ sigmask' = Signals
    /\ protection_level' = protection_level + 1

\* All of it, where no signal can come.
k_enter_protected_mode ==
    IF protection_level < MaxLayers
    THEN /\ cpu_mode_stack' = [cpu_mode_stack EXCEPT ![protection_level] = cpu_mode]
         /\ sigmask_stack' = [sigmask_stack EXCEPT ![protection_level] = sigmask]
         /\ cpu_mode' = "KERNEL_MODE"
         /\ sigmask' = Signals
         /\ protection_level' = protection_level + 1
    ELSE UNCHANGED stackVars

k_leave_last_protected_mode_KeepsMode ==
    /\ protection_level > 0
    /\ protection_level' = protection_level - 1
    /\ sigmask' = sigmask_stack[protection_level - 1]
    /\ UNCHANGED <<cpu_mode, cpu_mode_stack, sigmask_stack>>

k_leave_last_protected_mode ==
    /\ protection_level > 0
    /\ protection_level' = protection_level - 1
    /\ cpu_mode' = cpu_mode_stack[protection_level - 1]
    /\ sigmask' = sigmask_stack[protection_level - 1]
    /\ UNCHANGED <<cpu_mode_stack, sigmask_stack>>
-----------------------------------------------------------------------------
(* System calls, made by a program or by a signal handler.  The handler    *)
(* does nothing to the shell.                                              *)

Enter ==
    /\ \/ At = "user" /\ running \in Procs
       \/ At = "handler" /\ running # TheShell
       \/ At = "back"
    /\ SaveMode
    /\ Moves(IF At = "back" THEN "resuming" ELSE "entering")
    /\ UNCHANGED <<running, lost>>

EnterSets ==
    /\ ModeSaved(At)
    /\ SetMode
    /\ Moves(IF At = "resuming" THEN "remasking" ELSE "masking")
    /\ UNCHANGED <<running, lost>>

EnterBlocks ==
    /\ ModeSet(At)
    /\ Block
    /\ Moves(IF At = "remasking" THEN "rest" ELSE "call")
    /\ UNCHANGED <<running, lost>>

\* The signal whose handler called p_kill.
By(signal) == Frames # <<>> /\ Last(Frames).signal = signal

\* Ctrl-Z does not stop a process that was killed, nor one that is blocked in
\* p_waitpid and still runs; one that has been woken since it stops.  The process
\* that idle stands for may be stopped or not.
Stops   == running = "idle" \/ ~thread[running].killed
StaysOn == running = "idle" \/ Last(Frames).point = "away" \/ thread[running].killed

Leave ==
    /\ InUser /\ At \in {"call", "rest"}
    /\ At = "call" /\ By("SIGTSTP") => StaysOn
    /\ k_leave_last_protected_mode
    /\ thread' = [thread EXCEPT ![running].point = IF Frames = <<>> THEN "user" ELSE "return",
                                ![running].killed = @ \/ By("SIGINT")]
    /\ UNCHANGED <<running, lost>>

\* p_kill of a pid that does not exist, p_spawn that cannot make a context.
Fail ==
    /\ running \in Procs /\ At = "call" /\ Frames = <<>>
    /\ thread' = [thread EXCEPT ![running].point = "user", ![running].closed = TRUE]
    /\ lost' = IF lost < MaxLayers THEN lost + 1 ELSE lost
    /\ UNCHANGED <<stackVars, running>>

LeaveToSwitch_Stays ==
    /\ InUser /\ At = "call"
    /\ Frames # <<>> => By("SIGTSTP") /\ Stops
    /\ \E point \in {"asleep", "away"} :
          /\ Frames # <<>> => point = "away"
          /\ Moves(point)
    /\ UNCHANGED <<stackVars, running, lost>>

\* p_sleep, p_waitpid that blocks, p_kill that stops its caller.
LeaveToSwitch ==
    /\ InUser /\ At = "call"
    /\ Frames # <<>> => By("SIGTSTP") /\ Stops
    /\ k_leave_last_protected_mode
    /\ \E point \in {"asleep", "away"} :
          /\ Frames # <<>> => point = "away"
          /\ Moves(point)
    /\ UNCHANGED <<running, lost>>
-----------------------------------------------------------------------------
(* Contexts.  The scheduler and the returner start from their beginning,   *)
(* with all signals blocked.                                               *)

ToKernel_Open(context, pairs, threads) ==
    /\ running' = context
    /\ thread' = [threads EXCEPT ![context] = KernelThread(pairs)]
    /\ cpu_mode' = "KERNEL_MODE"
    /\ sigmask' = {}
    /\ UNCHANGED <<protection_level, cpu_mode_stack, sigmask_stack, lost>>

ToKernel(context, pairs, threads) ==
    /\ running' = context
    /\ thread' = [threads EXCEPT ![context] = KernelThread(pairs)]
    /\ cpu_mode' = "KERNEL_MODE"
    /\ sigmask' = Signals
    /\ UNCHANGED <<protection_level, cpu_mode_stack, sigmask_stack, lost>>

\* The thread is neither entering nor in a handler that interrupted it there.
Outside(state) ==
    ~Halfway(state.point) /\ \A i \in DOMAIN state.frames : ~Halfway(state.frames[i].point)

\* The context of idle is not saved.  The scheduler's own entries fill the same
\* element of cpu_mode_stack that a thread which is entering has filled.
Saved(point) ==
    IF running = "idle" THEN thread
    ELSE [thread EXCEPT ![running].point = point, ![running].mask = sigmask,
                        ![running].raced = @ \/ ~Outside(thread[running])]

Switch ==
    \/ At = "asleep" /\ ToKernel("scheduler", 2, Saved("user"))
    \/ At = "away" /\ ToKernel("scheduler", 2, Saved("back"))

\* A program that returns goes on in the returner.
ProgramReturns ==
    /\ running \in Procs \ {TheShell} /\ At = "user"
    /\ ToKernel("returner", 1, [thread EXCEPT ![running] = Fresh])

KernelEnter ==
    /\ InKernel /\ At = "user" /\ thread[running].pairs > 0
    /\ k_enter_protected_mode
    /\ Moves("call")
    /\ UNCHANGED <<running, lost>>

KernelLeave ==
    /\ InKernel /\ At = "call"
    /\ k_leave_last_protected_mode
    /\ thread' = [thread EXCEPT ![running].point = "user", ![running].pairs = @ - 1]
    /\ UNCHANGED <<running, lost>>

ReturnerEnds ==
    /\ running = "returner" /\ At = "user" /\ thread[running].pairs = 0
    /\ ToKernel("scheduler", 2, thread)

ToUser(t, state) ==
    /\ running' = t
    /\ cpu_mode' = "USER_MODE"
    /\ sigmask' = state.mask
    /\ thread' = [thread EXCEPT ![t] =
                    [state EXCEPT !.mask = {}, !.raced = @ /\ ~Outside(state)]]
    /\ UNCHANGED <<protection_level, cpu_mode_stack, sigmask_stack, lost>>

Dispatch(p) ==
    /\ running = "scheduler" /\ At = "user" /\ thread[running].pairs = 0
    /\ ToUser(p, thread[p])

Idle ==
    /\ running = "scheduler" /\ At = "user" /\ thread[running].pairs = 2
    /\ ToUser("idle", Fresh)
-----------------------------------------------------------------------------
(* Signals.  Inside a call or a kernel context they can only come once the *)
(* limit was reached, which is not followed.                               *)

Interruptible(signal) == InUser /\ signal \notin sigmask /\ At \notin {"call", "rest"}

\* SIGALRM.  In kernel mode the handler returns at once.
Alarm ==
    /\ Interruptible("SIGALRM")
    /\ cpu_mode = "USER_MODE"
    /\ ToKernel("scheduler", 2, Saved(At))

Key(signal) ==
    /\ signal \in Keys /\ Interruptible(signal)
    /\ thread' = [thread EXCEPT
                    ![running].frames = Append(@, [signal |-> signal, point |-> At,
                                                   mask |-> sigmask]),
                    ![running].point = "handler",
                    ![running].raced = @ \/ ModeSet(At)]
    /\ sigmask' = sigmask \cup {signal}
    /\ UNCHANGED <<cpu_mode, protection_level, cpu_mode_stack, sigmask_stack,
                   running, lost>>

\* Idle's current process may be the shell.
HandlerReturns ==
    /\ At = "return" \/ (At = "handler" /\ running \in {TheShell, "idle"})
    /\ thread' = [thread EXCEPT ![running].frames = Front(@),
                                ![running].point = Last(Frames).point]
    /\ sigmask' = Last(Frames).mask
    /\ UNCHANGED <<cpu_mode, protection_level, cpu_mode_stack, sigmask_stack,
                   running, lost>>
-----------------------------------------------------------------------------
Next ==
    \/ Enter \/ EnterSets \/ EnterBlocks \/ Leave \/ Fail \/ LeaveToSwitch
    \/ Switch \/ ProgramReturns
    \/ KernelEnter \/ KernelLeave \/ ReturnerEnds
    \/ \E p \in Procs : Dispatch(p)
    \/ Idle
    \/ Alarm \/ HandlerReturns
    \/ \E signal \in Keys : Key(signal)

Spec == Init /\ [][Next]_vars
-----------------------------------------------------------------------------
(* What must hold. *)

Mode == {"KERNEL_MODE", "USER_MODE"}

ThreadState == [point : Point,
                frames : Seq([signal : Keys, point : Point, mask : SUBSET Signals]),
                mask : SUBSET Signals, pairs : 0 .. 2, closed : BOOLEAN,
                killed : BOOLEAN, raced : BOOLEAN]

\* Type invariant (process_control.c:54-58).
TypeOK ==
    /\ cpu_mode \in Mode
    /\ sigmask \in SUBSET Signals
    /\ protection_level \in 0 .. MaxLayers
    /\ cpu_mode_stack \in [Layers -> Mode]
    /\ sigmask_stack \in [Layers -> SUBSET Signals]
    /\ running \in Threads
    /\ thread \in [Threads -> ThreadState]
    /\ lost \in 0 .. MaxLayers

InCall(t) == thread[t].point \in {"call", "rest"}

\* Every layer on the stack belongs to the thread that runs and is in a call, or
\* was lost by a call that failed: nobody leaves a layer another thread
\* entered, and the stack is never left too often.
LayersBalanced ==
    lost < MaxLayers =>
        /\ protection_level = lost + (IF InCall(running) THEN 1 ELSE 0)
        /\ \A t \in Threads \ {running} : ~InCall(t)

\* A system call and a kernel context cannot be interrupted, until as many calls
\* have failed as the stack has room for layers.
KernelIsClosed ==
    lost < MaxLayers /\ (InKernel \/ InCall(running)) => sigmask = Signals

\* A program, once no handler is in progress, runs with signals open, unless a
\* call of its own failed, and in user mode, unless its last entry was raced:
\* "recover the state before enter protected mode" (process_control.c:731) holds
\* if neither the scheduler ran between process_control.c:710 and :717 nor a
\* handler between :711 and :717.
UserIsOpen ==
    lost < MaxLayers /\ InUser /\ At = "user" /\ ~thread[running].closed =>
        /\ sigmask = {}
        /\ cpu_mode = "USER_MODE" \/ thread[running].raced

\* The same without the exception for that window.  The scheduler that a tick
\* starts there writes the element of cpu_mode_stack that the interrupted
\* k_enter_protected_mode had filled, and so does the p_kill of a handler.
RecoversMode ==
    lost < MaxLayers /\ InUser /\ At = "user" /\ ~thread[running].closed =>
        cpu_mode = "USER_MODE"
=============================================================================
