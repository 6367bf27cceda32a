----------------------------- MODULE Scheduler -----------------------------
(***************************************************************************)
(* k_schedule (scheduler.c): which ready queue runs next.  The scheduler   *)
(* keeps its last choices in a ring and picks the queue that is furthest   *)
(* behind its share of them.  The queues that are not empty when it is     *)
(* called are the environment's choice.  A definition X_Y is X with a      *)
(* plausible mistake, unused, to see which property would notice.          *)
(***************************************************************************)
EXTENDS Integers, FiniteSets

CONSTANTS
    SCHEDULER_HIGH, SCHEDULER_MED, SCHEDULER_LOW,   \* turns per round
    ReadySets,      \* the sets of queues that may be found not empty
    Horizon         \* bound on the history counters

Queues == {0, 1, 2}
NoQueue == -1

ASSUME SharesAssumption ==
    /\ SCHEDULER_HIGH \in Nat \ {0}
    /\ SCHEDULER_MED \in Nat \ {0}
    /\ SCHEDULER_LOW \in Nat \ {0}
ASSUME ReadySetsAssumption == ReadySets \subseteq (SUBSET Queues) \ {{}}
ASSUME HorizonAssumption == Horizon \in Nat

Round == SCHEDULER_HIGH + SCHEDULER_MED + SCHEDULER_LOW

standard_count == [q \in Queues |-> CASE q = 0 -> SCHEDULER_HIGH
                                      [] q = 1 -> SCHEDULER_MED
                                      [] q = 2 -> SCHEDULER_LOW]

VARIABLES
    sched_list, sched_tail, sched_start,
    ready,     \* the queues that were not empty at the last call
    chosen,    \* what it returned
    passed,    \* history: consecutive calls that found a queue and passed it over
    busy       \* history: consecutive calls that found all three queues

schedVars == <<sched_list, sched_tail, sched_start>>
vars == <<schedVars, ready, chosen, passed, busy>>

Init ==
    /\ sched_list = [i \in 0 .. Round - 1 |-> 0]
    /\ sched_tail = -1
    /\ sched_start = 0
    /\ ready = {}
    /\ chosen = NoQueue
    /\ passed = [q \in Queues |-> 0]
    /\ busy = 0

\* The slots from sched_start round to sched_tail.
Window ==
    {i \in 0 .. Round - 1 :
        /\ sched_tail # -1
        /\ IF sched_start <= sched_tail THEN sched_start <= i /\ i <= sched_tail
                                        ELSE sched_start <= i \/ i <= sched_tail}

run_count(q) == Cardinality({i \in Window : sched_list[i] = q})

Gap(q) == standard_count[q] - run_count(q)

\* The first call takes the first queue that is not empty.
FirstPick(r, q) == q \in r /\ \A o \in r : q <= o

PickOfTwo_LowFirst(high, low) == low

\* One queue: that one.  Two: the lower one if it has had no turn or the ratio
\* of the turns is above that of the shares.  Three: the first largest gap
\* (max_gap starts at minus a round).
PickOfTwo(high, low) ==
    IF \/ run_count(low) = 0
       \/ run_count(high) * standard_count[low] > standard_count[high] * run_count(low)
    THEN low ELSE high

Pick_HighFirst(r, q) == FirstPick(r, q)

Pick_EvenEmpty(r, q) ==
    \A o \in Queues : Gap(o) < Gap(q) \/ (Gap(o) = Gap(q) /\ q <= o)

Pick(r, q) ==
    \/ r = {q}
    \/ \E high, low \in Queues : high < low /\ r = {high, low} /\ q = PickOfTwo(high, low)
    \/ /\ r = Queues
       /\ Gap(q) > -Round
       /\ \A o \in Queues : Gap(o) < Gap(q) \/ (Gap(o) = Gap(q) /\ q <= o)

Advance_Past(i) == i + 1

Advance(i) == (i + 1) % Round

Capped(n) == IF n < Horizon THEN n + 1 ELSE n

Record(r, q) ==
    /\ ready' = r
    /\ chosen' = q
    /\ passed' = [o \in Queues |-> IF o \in r /\ o # q THEN Capped(passed[o]) ELSE 0]
    /\ busy' = IF r = Queues THEN Capped(busy) ELSE 0

FirstCall(r) ==
    /\ sched_tail = -1
    /\ \E q \in Queues :
          /\ FirstPick(r, q)
          /\ sched_tail' = 0
          /\ sched_list' = [sched_list EXCEPT ![0] = q]
          /\ sched_start' = sched_start
          /\ Record(r, q)

LaterCall_StartStays(r) ==
    /\ sched_tail # -1
    /\ \E q \in Queues :
          /\ Pick(r, q)
          /\ sched_tail' = Advance(sched_tail)
          /\ sched_list' = [sched_list EXCEPT ![Advance(sched_tail)] = q]
          /\ sched_start' = sched_start
          /\ Record(r, q)

LaterCall(r) ==
    /\ sched_tail # -1
    /\ \E q \in Queues :
          /\ Pick(r, q)
          /\ sched_tail' = Advance(sched_tail)
          /\ sched_list' = [sched_list EXCEPT ![Advance(sched_tail)] = q]
          /\ sched_start' = IF sched_start = Advance(sched_tail)
                            THEN Advance(sched_start) ELSE sched_start
          /\ Record(r, q)

k_schedule(r) == FirstCall(r) \/ LaterCall(r)

Next == \E r \in ReadySets : k_schedule(r)

Spec == Init /\ [][Next]_vars
LiveSpec == Spec /\ WF_vars(Next)
-----------------------------------------------------------------------------
\* Type invariant of the scheduler's static variables.
TypeOK ==
    /\ sched_list \in [0 .. Round - 1 -> Queues]
    /\ sched_tail \in -1 .. Round - 1
    /\ sched_start \in 0 .. Round - 1
    /\ ready \in SUBSET Queues
    /\ chosen \in Queues \cup {NoQueue}
    /\ passed \in [Queues -> Nat]
    /\ busy \in Nat

\* The queue returned is one that was not empty: the scheduler thread takes
\* head->next->pcb of it without looking (process_control.c:287-289).
ChosenIsReady == ready # {} => chosen \in ready

\* The ring's two indices never let the window lose a slot when they meet:
\* until the ring is full the window grows by the slot just written, from then
\* on it is the whole ring (scheduler.c:33-48, 115-120).
WindowNeverShrinks ==
    [][Window \subseteq Window' /\ sched_tail' \in Window']_vars

\* A queue that stays ready is passed over at most this often in a row, which
\* is 24 ticks with the shares 9 : 6 : 4 of macros.h.
LongestWait == Round + SCHEDULER_HIGH - SCHEDULER_LOW

BoundedWait == \A q \in Queues : passed[q] <= LongestWait

\* After one round in which all queues stayed busy, each queue's turns in the
\* window are within one of its share (9 : 6 : 4, macros.h:19-21), whatever
\* was chosen before.
FairShare ==
    busy >= Round => \A q \in Queues : Gap(q) \in {-1, 0, 1}

\* Once no process has low priority, the high and the medium queue are each
\* chosen again and again if they are found ready again and again, even if they
\* are empty in between: what QueueFairness of module Kernel assumes.
UpperNotStarved ==
    \A q \in {0, 1} : <>[](2 \notin ready) /\ []<>(q \in ready) => []<>(chosen = q)
=============================================================================
