----------------------------- MODULE SleepClock -----------------------------
(***************************************************************************)
(* How long p_sleep sleeps: the kernel with two history variables, the     *)
(* ticks each sleeper asked for and the ticks alarm_handler has handled    *)
(* since.                                                                  *)
(***************************************************************************)
EXTENDS Kernel

VARIABLES asked, elapsed

clockVars == <<asked, elapsed>>

ClockInit ==
    /\ Init
    /\ asked = [p \in Pid |-> 0]
    /\ elapsed = [p \in Pid |-> 0]

Sleeping(p) == On(sleep_list, p)

\* A process joins the sleep list with the ticks it asked for; each handled
\* tick counts for everyone on it; one that leaves is forgotten.
ClockNext ==
    /\ Next
    /\ asked' = [p \in Pid |->
                   IF ~On(sleep_list', p) THEN 0
                   ELSE IF Sleeping(p) THEN asked[p] ELSE pcb'[p].sleep_remain]
    /\ elapsed' = [p \in Pid |->
                     IF ~On(sleep_list', p) THEN 0
                     ELSE IF ctx # "alarm" /\ ctx' = "alarm" /\ elapsed[p] <= asked[p]
                          THEN elapsed[p] + 1 ELSE elapsed[p]]

ClockSpec == ClockInit /\ [][ClockNext]_<<vars, clockVars>>

FairClockSpec == ClockSpec /\ KernelFairness

\* alarm_handler never takes too few ticks: between two runs of the handler a
\* sleeper has at most the time it asked for less the ticks handled.
NeverSleepsLong ==
    \A p \in Pid : Sleeping(p) /\ ctx # "alarm" /\ pcb[p].sleep_remain >= 0 =>
        pcb[p].sleep_remain <= asked[p] - elapsed[p]

\* The extra tick that a waking neighbour takes makes up for the tick that
\* starts the sleep as long as it happens once: nobody wakes before the ticks
\* it asked for have been handled.
NeverWakesEarly ==
    [][\A p \in Pid :
          Sleeping(p) /\ pcb[p].status = "BLOCKED" /\ pcb'[p].status = "READY" =>
              elapsed[p] >= asked[p]]_<<vars, clockVars>>
=============================================================================
