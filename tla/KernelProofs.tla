---------------------------- MODULE KernelProofs ----------------------------
(***************************************************************************)
(* Proofs about module Kernel, for every number of processes and every set *)
(* of sleep arguments, priorities and terminal signals.                    *)
(*   First part: every process is on the one list of its status, and every *)
(* blocked process has a waker.                                            *)
(*   Second part, from "What a step does": every step is of one of a few   *)
(* kinds, by what it does to statuses, parents and waiting processes, and  *)
(* the invariants are proved kind by kind.                                 *)
(*   For all constants: no wakeup is lost, and who waits for one pid waits *)
(*   for a child of its own that exists.                                   *)
(*   If the kill command is not aimed at the shell: idle reads a pid that  *)
(*   the shell has set.                                                    *)
(*   If Ctrl-C comes only while idle runs: callers are ready, death is     *)
(*   final, no orphan survives and no exit status is lost.                 *)
(*   If both: the current process is never freed.                          *)
(***************************************************************************)
EXTENDS Kernel, ProcessListTheorems, WellFoundedInduction

\* The inductive invariant: the three invariants and BlockedInCall, without
\* which p_sleep could put a process on the sleep list a second time.
IInv == TypeOK /\ ListsMatchStatus /\ BlockedHasWaker /\ BlockedInCall

\* The list of each status.
PlaceOf(status, priority) ==
    {l \in ListId : \/ status = "READY" /\ l = priority + 1
                    \/ status = "BLOCKED" /\ l = Blocked
                    \/ status = "STOPPED" /\ l = Stopped
                    \/ status \in Terminated /\ l = Zombie}

\* One list for each status, none for a PCB that is not in use.
LEMMA PlaceOfStatus ==
    ASSUME NEW priority \in {HIGH, MED, LOW}
    PROVE  /\ PlaceOf("READY", priority) = {priority + 1}
           /\ PlaceOf("BLOCKED", priority) = {Blocked}
           /\ PlaceOf("STOPPED", priority) = {Stopped}
           /\ \A how \in Terminated : PlaceOf(how, priority) = {Zombie}
           /\ PlaceOf("FREE", priority) = {}
BY DEF PlaceOf, HIGH, MED, LOW, ListId, Blocked, Stopped, Zombie, Terminated

\* What IInv says of one process.
Executing(p) == ctx = "process" /\ current_pcb = p

Placed(p) ==
    /\ ListsOf(queue, p) = PlaceOf(pcb[p].status, pcb[p].process_priority)
    /\ pcb[p].status = "BLOCKED" => (On(sleep_list, p) # On(waiting_list, p))
    /\ On(sleep_list, p) =>
          /\ pcb[p].status \in {"BLOCKED", "STOPPED"}
          /\ pcb[p].pc \in {"user", "sleep_switch"}
          /\ pcb[p].pc = "user" => ~Executing(p)
    /\ On(waiting_list, p) =>
          /\ pcb[p].status = "BLOCKED"
          /\ pcb[p].pc \in {"wait_switch", "wait_resume"}
          /\ pcb[p].pc = "wait_resume" => ~Executing(p)

Scalars ==
    /\ pcb \in [Pid -> PCB]
    /\ current_pcb \in Pid \cup {NoPid}
    /\ ctx \in Context
    /\ cursor \in Nat /\ (ctx = "alarm" => cursor > 0)
    /\ dying \subseteq Pid

\* IInv is about lists without duplicates and about each process by itself.
LEMMA IInvByProcess ==
    IInv <=> /\ Scalars
             /\ AreLists(queue, Pid) /\ IsList(sleep_list, Pid) /\ IsList(waiting_list, Pid)
             /\ \A p \in Pid : Placed(p)
BY DEF IInv, TypeOK, ListsMatchStatus, BlockedHasWaker, BlockedInCall, Scalars,
       AreLists, IsList, Placed, Executing, Place, PlaceOf, ReadyQueueOf

\* The same of the state after a step.
LEMMA IInvPrimed ==
    ASSUME Scalars',
           AreLists(queue', Pid), IsList(sleep_list', Pid), IsList(waiting_list', Pid),
           \A p \in Pid : Placed(p)'
    PROVE  IInv'
BY DEF IInv, TypeOK, ListsMatchStatus, BlockedHasWaker, BlockedInCall, Scalars,
       AreLists, IsList, Placed, Executing, Place, PlaceOf, ReadyQueueOf

\* The first process that awaits t is one of those on the list.
LEMMA FirstWaiterLemma ==
    ASSUME NEW waiters, IsList(waiters, Pid), NEW t,
           \E w \in Range(waiters) : Awaits(w, t)
    PROVE  LET w == FirstWaiter(waiters, t) IN
           On(waiters, w) /\ w \in Pid /\ Awaits(w, t)
<1> DEFINE w == FirstWaiter(waiters, t)
           N == {i \in DOMAIN waiters : Awaits(waiters[i], t)}
<1>1. waiters \in Seq(Pid) /\ DOMAIN waiters = 1 .. Len(waiters) /\ Len(waiters) \in Nat
  BY LenProperties DEF IsList
<1>2. N \in SUBSET Nat /\ N # {}
  BY <1>1, RangeEquality
<1>3. PICK n \in N : \A m \in N : n <= m
  BY <1>2, LeastOf
<1>4. n \in DOMAIN waiters /\ Awaits(waiters[n], t)
      /\ \A j \in 1 .. n - 1 : ~Awaits(waiters[j], t)
  BY <1>1, <1>3
<1>5. \E i \in DOMAIN waiters : w = waiters[i] /\ Awaits(waiters[i], t)
  BY <1>4 DEF FirstWaiter
<1> QED
  BY <1>1, <1>5, ElementOfSeq, OnPosition

\* k_unblock_wait moves at most some processes that were waiting, from the
\* blocked list to the ready queue of their priority.
LEMMA UnblockLemma ==
    ASSUME NEW lists, AreLists(lists, Pid),
           NEW waiters, IsList(waiters, Pid),
           NEW pcbs \in [Pid -> PCB], pcb \in [Pid -> PCB],
           \A o \in Pid : On(waiters, o) => ListsOf(lists, o) = {Blocked},
           NEW t \in Pid,
           k_unblock_wait(lists, waiters, pcbs, t)
    PROVE  \E woken \in SUBSET Pid :
              /\ \A o \in woken : On(waiters, o)
              /\ AreLists(queue', Pid) /\ IsList(waiting_list', Pid)
              /\ pcb' \in [Pid -> PCB]
              /\ \A o : On(waiting_list', o) <=> On(waiters, o) /\ o \notin woken
              /\ \A o \in Pid : ListsOf(queue', o) =
                    IF o \in woken THEN {ReadyQueueOf(o)} ELSE ListsOf(lists, o)
              /\ \A o \in Pid : pcb'[o] =
                    IF o \in woken THEN [pcbs[o] EXCEPT !.status = "READY"] ELSE pcbs[o]
<1>1. CASE ~ \E w \in Range(waiters) : Awaits(w, t)
  <2>1. waiting_list' = waiters /\ queue' = lists /\ pcb' = pcbs
    BY <1>1 DEF k_unblock_wait
  <2> WITNESS {} \in SUBSET Pid
  <2> QED
    BY <2>1
<1>2. CASE \E w \in Range(waiters) : Awaits(w, t)
  <2> DEFINE w == FirstWaiter(waiters, t)
  <2>1. On(waiters, w) /\ w \in Pid
    BY <1>2, FirstWaiterLemma
  <2>2. /\ waiting_list' = k_delete(waiters, w)
        /\ queue' = Shift(lists, w, Blocked, ReadyQueueOf(w))
        /\ pcb' = [pcbs EXCEPT ![w].status = "READY"]
    BY <1>2 DEF k_unblock_wait
  <2> HIDE DEF w
  <2>3. /\ IsList(waiting_list', Pid)
        /\ \A o : On(waiting_list', o) <=> On(waiters, o) /\ o # w
    BY <2>2, DeleteLemma
  <2>4. ReadyQueueOf(w) \in ListId /\ Blocked \in ListId /\ ListsOf(lists, w) = {Blocked}
    BY <2>1 DEF ReadyQueueOf, ListId, PCB, HIGH, MED, LOW, Blocked
  <2>5. /\ AreLists(queue', Pid)
        /\ \A o : ListsOf(queue', o) =
              IF o = w THEN {ReadyQueueOf(w)} ELSE ListsOf(lists, o)
    BY <2>1, <2>2, <2>4, ShiftLemma
  <2>6. /\ pcb' \in [Pid -> PCB]
        /\ pcb' = [pcbs EXCEPT ![w] = [pcbs[w] EXCEPT !.status = "READY"]]
    BY <2>1, <2>2 DEF PCB, Status
  <2> {w} \in SUBSET Pid
    BY <2>1
  <2> WITNESS {w} \in SUBSET Pid
  <2> QED
    BY <2>1, <2>3, <2>5, <2>6
<1> QED
  BY <1>1, <1>2
-----------------------------------------------------------------------------
\* A table of PCBs that differs from pcb only in the fields pc and stopping,
\* and in pc only for a process that is not blocked in a call.
SamePlaces(pcbs) ==
    /\ pcbs \in [Pid -> PCB]
    /\ \A o \in Pid :
          /\ pcbs[o].status = pcb[o].status
          /\ pcbs[o].process_priority = pcb[o].process_priority
          /\ pcbs[o].pc = pcb[o].pc \/ (~On(sleep_list, o) /\ ~On(waiting_list, o))

\* The lists and PCBs after a step are in order.
Ordered ==
    /\ pcb \in [Pid -> PCB]
    /\ AreLists(queue, Pid) /\ IsList(sleep_list, Pid) /\ IsList(waiting_list, Pid)
    /\ \A p \in Pid : Placed(p)

\* What k_terminate and SIGSTP do to the lists: move t, unblock a waiter.
LEMMA MoveAndUnblockLemma ==
    ASSUME IInv, NEW t \in Pid, NEW how, NEW target,
           \/ target = Zombie /\ how \in Terminated
           \/ target = Stopped /\ how = "STOPPED" /\ ~On(waiting_list, t),
           NEW waiters, IsList(waiters, Pid),
           \A o : On(waiters, o) <=> On(waiting_list, o) /\ o # t,
           NEW pcbs, SamePlaces(pcbs),
           IsList(sleep_list', Pid),
           \A o : On(sleep_list', o) <=> On(sleep_list, o) /\ (target = Zombie => o # t),
           k_unblock_wait(MoveTo(queue, t, target), waiters,
                          [pcbs EXCEPT ![t].status = how], t),
           \A o \in Pid : Executing(o)' => Executing(o)
    PROVE  Ordered'
<1>1. /\ Scalars /\ AreLists(queue, Pid)
      /\ IsList(sleep_list, Pid) /\ IsList(waiting_list, Pid)
      /\ \A o \in Pid : Placed(o)
  BY IInvByProcess
<1>2. target \in ListId /\ how \in Status
  BY DEF Zombie, Stopped, ListId, Terminated, Status
<1> DEFINE lists == MoveTo(queue, t, target)
           marked == [pcbs EXCEPT ![t].status = how]
<1>3. /\ AreLists(lists, Pid)
      /\ \A o : ListsOf(lists, o) = IF o = t THEN {target} ELSE ListsOf(queue, o)
  BY <1>1, <1>2, MoveToLemma
<1>4. /\ marked \in [Pid -> PCB]
      /\ \A o \in Pid :
            /\ marked[o].status = IF o = t THEN how ELSE pcb[o].status
            /\ marked[o].process_priority = pcb[o].process_priority
            /\ marked[o].pc = pcbs[o].pc
  <2>1. pcbs \in [Pid -> PCB] /\ pcbs[t] \in PCB
    BY DEF SamePlaces
  <2>2. marked \in [Pid -> PCB] /\ \A o \in Pid :
            /\ marked[o].status = IF o = t THEN how ELSE pcbs[o].status
            /\ marked[o].process_priority = pcbs[o].process_priority
            /\ marked[o].pc = pcbs[o].pc
    BY <1>2, <2>1 DEF PCB
  <2> QED
    BY <2>2 DEF SamePlaces
<1>5. pcb \in [Pid -> PCB] /\ \A o \in Pid : pcb[o].process_priority \in {HIGH, MED, LOW}
  BY <1>1 DEF Scalars, PCB
<1>6. \A o \in Pid : On(waiters, o) => ListsOf(lists, o) = {Blocked}
  <2>1. ASSUME NEW o \in Pid, On(waiters, o)
        PROVE  ListsOf(lists, o) = {Blocked}
    <3>1. o # t /\ On(waiting_list, o)
      BY <2>1
    <3>2. pcb[o].status = "BLOCKED" /\ ListsOf(queue, o) = PlaceOf(pcb[o].status, pcb[o].process_priority)
      BY <3>1, <1>1 DEF Placed
    <3> QED
      BY <3>1, <3>2, <1>3, <1>5, PlaceOfStatus
  <2> QED
    BY <2>1
<1>7. k_unblock_wait(lists, waiters, marked, t)
  OBVIOUS
<1> HIDE DEF lists, marked
<1>8. PICK woken \in SUBSET Pid :
         /\ \A o \in woken : On(waiters, o)
         /\ AreLists(queue', Pid) /\ IsList(waiting_list', Pid)
         /\ pcb' \in [Pid -> PCB]
         /\ \A o : On(waiting_list', o) <=> On(waiters, o) /\ o \notin woken
         /\ \A o \in Pid : ListsOf(queue', o) =
               IF o \in woken THEN {ReadyQueueOf(o)} ELSE ListsOf(lists, o)
         /\ \A o \in Pid : pcb'[o] =
               IF o \in woken THEN [marked[o] EXCEPT !.status = "READY"] ELSE marked[o]
  BY <1>3, <1>4, <1>5, <1>6, <1>7, UnblockLemma
<1>9. ASSUME NEW o \in Pid
      PROVE  Placed(o)'
  <2>1. marked[o] \in PCB
    BY <1>4
  <2>2. /\ pcb'[o].process_priority = pcb[o].process_priority
        /\ pcb'[o].pc = pcbs[o].pc
        /\ o \in woken => pcb'[o].status = "READY"
        /\ o \notin woken => pcb'[o].status = IF o = t THEN how ELSE pcb[o].status
    <3>1. CASE o \in woken
      BY <3>1, <1>4, <1>8, <2>1 DEF PCB
    <3>2. CASE o \notin woken
      BY <3>2, <1>4, <1>8, <2>1
    <3> QED
      BY <3>1, <3>2
  <2>3. CASE o \in woken
    <3>1. o # t /\ On(waiting_list, o)
      BY <2>3, <1>8
    <3>2. ~On(sleep_list, o) /\ ~On(waiting_list', o)
      BY <2>3, <3>1, <1>1, <1>8 DEF Placed
    <3>3. ~On(sleep_list', o)
      BY <3>2
    <3>4. ListsOf(queue', o) = PlaceOf("READY", pcb[o].process_priority)
      BY <2>3, <1>5, <1>8, PlaceOfStatus DEF ReadyQueueOf
    <3> QED
      BY <2>2, <2>3, <3>2, <3>3, <3>4 DEF Placed
  <2>4. CASE o \notin woken /\ o = t
    <3>1. ~On(waiting_list', o) /\ (On(sleep_list', o) => target = Stopped /\ On(sleep_list, o))
      BY <2>4, <1>8 DEF Zombie, Stopped
    <3>2. ListsOf(queue', o) = PlaceOf(how, pcb[o].process_priority)
      BY <2>4, <1>3, <1>5, <1>8, PlaceOfStatus
    <3>3. pcb'[o].status = how /\ how # "BLOCKED"
      BY <2>2, <2>4 DEF Terminated
    <3>4. On(sleep_list', o) => how = "STOPPED" /\ pcbs[o].pc = pcb[o].pc
      BY <3>1 DEF SamePlaces, Zombie, Stopped
    <3> QED
      BY <2>2, <3>1, <3>2, <3>3, <3>4, <1>1 DEF Placed
  <2>5. CASE o \notin woken /\ o # t
    <3>1. ListsOf(queue', o) = PlaceOf(pcb[o].status, pcb[o].process_priority)
      BY <2>5, <1>1, <1>3, <1>8 DEF Placed
    <3>2. /\ On(sleep_list', o) <=> On(sleep_list, o)
          /\ On(waiting_list', o) <=> On(waiting_list, o)
      BY <2>5, <1>8
    <3>3. pcb'[o].pc = pcb[o].pc \/ (~On(sleep_list, o) /\ ~On(waiting_list, o))
      BY <2>2 DEF SamePlaces
    <3>4. pcb'[o].status = pcb[o].status /\ pcb'[o].pc = pcbs[o].pc
      BY <2>2, <2>5
    <3>5. Placed(o) /\ (Executing(o)' => Executing(o))
      BY <1>1
    <3>6. pcb'[o].pc = pcb[o].pc \/ (~On(sleep_list', o) /\ ~On(waiting_list', o))
      BY <3>2, <3>3
    <3>7. ListsOf(queue', o) = PlaceOf(pcb'[o].status, pcb'[o].process_priority)
      BY <2>2, <3>1, <3>4
    <3> QED
      BY <3>2, <3>4, <3>5, <3>6, <3>7 DEF Placed, On
  <2> QED
    BY <2>3, <2>4, <2>5
<1> QED
  BY <1>8, <1>9 DEF Ordered
-----------------------------------------------------------------------------
\* The initial state: the shell alone, ready.
LEMMA InitIInv == Init => IInv
<1> SUFFICES ASSUME Init PROVE IInv
  OBVIOUS
<1> USE MaxPidAssumption
<1>1. Shell \in Pid /\ ReadyHigh \in ListId
  BY DEF Shell, Pid, ReadyHigh, ListId
<1>2. Scalars
  <2>1. FreePCB \in PCB /\ NewPCB(NoPid, HIGH) \in PCB
    BY DEF FreePCB, NewPCB, PCB, Status, PC, Pid, NoPid, HIGH, MED, LOW
  <2> QED
    BY <2>1 DEF Init, Scalars, Context
<1>3. /\ \A l \in ListId : IsList(queue[l], Pid) /\ Range(queue[l]) = IF l = ReadyHigh THEN {Shell} ELSE {}
      /\ IsList(<<>>, Pid) /\ Range(<<>>) = {}
  <2>1. IsList(<<>>, Pid) /\ Range(<<>>) = {}
    BY EmptySeq DEF IsList, IsInjective, Range
  <2>2. IsList(<<Shell>>, Pid) /\ Range(<<Shell>>) = {Shell}
    BY <1>1 DEF IsList, IsInjective, Range
  <2> QED
    BY <2>1, <2>2 DEF Init
<1>4. AreLists(queue, Pid) /\ IsList(sleep_list, Pid) /\ IsList(waiting_list, Pid)
  BY <1>3 DEF Init, AreLists, IsList
<1>5. ASSUME NEW p \in Pid
      PROVE  Placed(p)
  <2>1. ~On(sleep_list, p) /\ ~On(waiting_list, p)
    BY <1>3 DEF Init, On
  <2>2. ListsOf(queue, p) = IF p = Shell THEN {ReadyHigh} ELSE {}
    BY <1>1, <1>3 DEF ListsOf, On
  <2>3. /\ pcb[p].status = IF p = Shell THEN "READY" ELSE "FREE"
        /\ pcb[p].process_priority = IF p = Shell THEN HIGH ELSE MED
    BY DEF Init, NewPCB, FreePCB
  <2> QED
    BY <2>1, <2>2, <2>3, PlaceOfStatus DEF Placed, ReadyHigh, HIGH, MED, LOW
<1> QED
  BY <1>2, <1>4, <1>5, IInvByProcess

\* Steps that change no list and no status, and keep every blocked process at
\* its swapcontext.
LEMMA SwitchIInv ==
    ASSUME IInv, NEW p \in Pid, Switch(p)
    PROVE  IInv'
<1>1. /\ Scalars /\ AreLists(queue, Pid)
      /\ IsList(sleep_list, Pid) /\ IsList(waiting_list, Pid)
      /\ \A o \in Pid : Placed(o)
  BY IInvByProcess
<1>2. /\ ctx' = "scheduler"
      /\ UNCHANGED <<queue, sleep_list, waiting_list, current_pcb, cursor, dying>>
  BY DEF Switch
<1>3. /\ pcb' \in [Pid -> PCB]
      /\ \A o \in Pid : /\ pcb'[o].status = pcb[o].status
                        /\ pcb'[o].process_priority = pcb[o].process_priority
                        /\ \/ pcb'[o].pc = pcb[o].pc
                           \/ pcb[o].pc = "sleep_switch" /\ pcb'[o].pc = "user"
                           \/ pcb[o].pc = "wait_switch" /\ pcb'[o].pc = "wait_resume"
  <2>1. \/ pcb' = [pcb EXCEPT ![p].stopping = FALSE]
        \/ pcb[p].pc = "sleep_switch" /\ pcb' = [pcb EXCEPT ![p].pc = "user"]
        \/ pcb[p].pc = "wait_switch" /\ pcb' = [pcb EXCEPT ![p].pc = "wait_resume"]
    BY DEF Switch
  <2>2. pcb \in [Pid -> PCB] /\ pcb[p] \in PCB
    BY <1>1 DEF Scalars
  <2>3. CASE pcb' = [pcb EXCEPT ![p].stopping = FALSE]
    BY <2>2, <2>3 DEF PCB
  <2>4. CASE pcb[p].pc = "sleep_switch" /\ pcb' = [pcb EXCEPT ![p].pc = "user"]
    BY <2>2, <2>4 DEF PCB, PC
  <2>5. CASE pcb[p].pc = "wait_switch" /\ pcb' = [pcb EXCEPT ![p].pc = "wait_resume"]
    BY <2>2, <2>5 DEF PCB, PC
  <2> QED
    BY <2>1, <2>3, <2>4, <2>5
<1>4. Scalars'
  BY <1>1, <1>2, <1>3 DEF Scalars, Context
<1>5. \A o \in Pid : Placed(o)'
  BY <1>1, <1>2, <1>3 DEF Placed, Executing
<1> QED
  BY <1>1, <1>2, <1>4, <1>5, IInvPrimed

\* A k_terminate call leaves the lists in order.
LEMMA TerminateLemma ==
    ASSUME IInv, NEW t \in Pid, NEW how \in Terminated,
           NEW pcbs, SamePlaces(pcbs), k_terminate(t, how, pcbs),
           \A o \in Pid : Executing(o)' => Executing(o)
    PROVE  Ordered' /\ dying' \subseteq Pid
<1>1. /\ Scalars /\ AreLists(queue, Pid)
      /\ IsList(sleep_list, Pid) /\ IsList(waiting_list, Pid)
      /\ \A o \in Pid : Placed(o)
  BY IInvByProcess
<1>2. CASE ~Listed(queue, t) \/ pcb[t].status \in Terminated
  <2>1. pcb' = pcbs /\ UNCHANGED <<queue, sleep_list, waiting_list, dying>>
    BY <1>2 DEF k_terminate
  <2>2. ASSUME NEW o \in Pid
        PROVE  Placed(o)'
    BY <1>1, <2>1 DEF Placed, SamePlaces
  <2> QED
    BY <1>1, <2>1, <2>2 DEF Ordered, SamePlaces, Scalars
<1>3. CASE ~(~Listed(queue, t) \/ pcb[t].status \in Terminated)
  <2>1. /\ k_unblock_wait(MoveTo(queue, t, Zombie), k_delete(waiting_list, t),
                          [pcbs EXCEPT ![t].status = how], t)
        /\ sleep_list' = k_delete(sleep_list, t)
        /\ dying' = {t}
    BY <1>3 DEF k_terminate
  <2>2. /\ IsList(k_delete(waiting_list, t), Pid)
        /\ \A o : On(k_delete(waiting_list, t), o) <=> On(waiting_list, o) /\ o # t
    BY <1>1, DeleteLemma
  <2>3. /\ IsList(sleep_list', Pid)
        /\ \A o : On(sleep_list', o) <=> On(sleep_list, o) /\ (Zombie = Zombie => o # t)
    BY <1>1, <2>1, DeleteLemma
  <2>4. Ordered'
    BY <2>1, <2>2, <2>3, MoveAndUnblockLemma
  <2> QED
    BY <2>1, <2>4
<1> QED
  BY <1>2, <1>3

\* So does SIGSTP, when the process signalled can be stopped or not.
LEMMA StopLemma ==
    ASSUME IInv, NEW t \in Pid, NEW pcbs, SamePlaces(pcbs), SigStp(t, pcbs),
           \A o \in Pid : Executing(o)' => Executing(o)
    PROVE  Ordered' /\ dying' = dying
<1>1. /\ Scalars /\ AreLists(queue, Pid)
      /\ IsList(sleep_list, Pid) /\ IsList(waiting_list, Pid)
      /\ \A o \in Pid : Placed(o)
  BY IInvByProcess
<1>2. CASE ~Stoppable(t)
  <2>1. pcb' = pcbs /\ UNCHANGED <<queue, sleep_list, waiting_list, dying>>
    BY <1>2 DEF SigStp
  <2>2. ASSUME NEW o \in Pid
        PROVE  Placed(o)'
    BY <1>1, <2>1 DEF Placed, SamePlaces
  <2> QED
    BY <1>1, <2>1, <2>2 DEF Ordered, SamePlaces, Scalars
<1>3. CASE Stoppable(t)
  <2>1. /\ k_unblock_wait(MoveTo(queue, t, Stopped), waiting_list,
                          [pcbs EXCEPT ![t].status = "STOPPED"], t)
        /\ sleep_list' = sleep_list /\ dying' = dying
    BY <1>3 DEF SigStp
  <2>2. ~On(waiting_list, t)
    BY <1>1, <1>3 DEF Placed, Stoppable
  <2>3. \A o : On(waiting_list, o) <=> On(waiting_list, o) /\ o # t
    BY <2>2
  <2>4. /\ IsList(sleep_list', Pid)
        /\ \A o : On(sleep_list', o) <=> On(sleep_list, o) /\ (Stopped = Zombie => o # t)
    BY <1>1, <2>1 DEF Stopped, Zombie
  <2>5. Ordered'
    BY <1>1, <2>1, <2>2, <2>3, <2>4, MoveAndUnblockLemma
  <2> QED
    BY <2>1, <2>5
<1> QED
  BY <1>2, <1>3

\* So does SIGCONT: a stopped sleeper is blocked again, any other stopped
\* process is ready.
LEMMA ContinueLemma ==
    ASSUME IInv, NEW t \in Pid, NEW pcbs, SamePlaces(pcbs), SigCont(t, pcbs),
           \A o \in Pid : Executing(o)' => Executing(o)
    PROVE  Ordered' /\ dying' = dying
<1>1. /\ Scalars /\ AreLists(queue, Pid)
      /\ IsList(sleep_list, Pid) /\ IsList(waiting_list, Pid)
      /\ \A o \in Pid : Placed(o)
  BY IInvByProcess
<1>2. UNCHANGED <<sleep_list, waiting_list, dying>>
  BY DEF SigCont
<1>3. CASE pcb[t].status # "STOPPED"
  <2>1. pcb' = pcbs /\ queue' = queue
    BY <1>3 DEF SigCont
  <2>2. ASSUME NEW o \in Pid
        PROVE  Placed(o)'
    BY <1>1, <1>2, <2>1 DEF Placed, SamePlaces
  <2> QED
    BY <1>1, <1>2, <2>1, <2>2 DEF Ordered, SamePlaces, Scalars
<1>4. CASE pcb[t].status = "STOPPED"
  <2> DEFINE status == IF On(sleep_list, t) THEN "BLOCKED" ELSE "READY"
             place  == IF On(sleep_list, t) THEN Blocked ELSE ReadyQueueOf(t)
  <2>1. /\ queue' = Shift(queue, t, Stopped, place)
        /\ pcb' = [pcbs EXCEPT ![t].status = status]
    BY <1>4 DEF SigCont
  <2>2. /\ pcb \in [Pid -> PCB]
        /\ \A o \in Pid : pcb[o].process_priority \in {HIGH, MED, LOW}
    BY <1>1 DEF Scalars, PCB
  <2>3. /\ status \in Status
        /\ Stopped \in ListId /\ place \in ListId
        /\ PlaceOf(status, pcb[t].process_priority) = {place}
        /\ ListsOf(queue, t) = {Stopped}
    <3>1. ListsOf(queue, t) = {Stopped}
      BY <1>1, <1>4, <2>2, PlaceOfStatus DEF Placed
    <3>2. PlaceOf(status, pcb[t].process_priority) = {place}
      BY <2>2, PlaceOfStatus DEF ReadyQueueOf
    <3>3. place \in ListId /\ status \in Status
      BY <2>2 DEF ReadyQueueOf, HIGH, MED, LOW, ListId, Blocked, Status
    <3>4. Stopped \in ListId
      BY DEF Stopped, ListId
    <3> QED
      BY <3>1, <3>2, <3>3, <3>4
  <2>4. /\ pcb' \in [Pid -> PCB]
        /\ \A o \in Pid :
              /\ pcb'[o].status = IF o = t THEN status ELSE pcb[o].status
              /\ pcb'[o].process_priority = pcb[o].process_priority
              /\ pcb'[o].pc = pcb[o].pc \/ (~On(sleep_list, o) /\ ~On(waiting_list, o))
    <3>1. pcbs \in [Pid -> PCB] /\ pcbs[t] \in PCB
      BY DEF SamePlaces
    <3> HIDE DEF status
    <3>2. pcb' \in [Pid -> PCB] /\ \A o \in Pid :
              /\ pcb'[o].status = IF o = t THEN status ELSE pcbs[o].status
              /\ pcb'[o].process_priority = pcbs[o].process_priority
              /\ pcb'[o].pc = pcbs[o].pc
      BY <2>1, <2>3, <3>1 DEF PCB
    <3> QED
      BY <3>2 DEF SamePlaces
  <2>5. /\ AreLists(queue', Pid)
        /\ \A o : ListsOf(queue', o) = IF o = t THEN {place} ELSE ListsOf(queue, o)
    <3> HIDE DEF place
    <3> QED
      BY <1>1, <2>1, <2>3, ShiftLemma
  <2>6. ASSUME NEW o \in Pid
        PROVE  Placed(o)'
    <3>1. Placed(o) /\ (Executing(o)' => Executing(o))
      BY <1>1
    <3>2. ListsOf(queue', o) = PlaceOf(pcb'[o].status, pcb'[o].process_priority)
      <4> HIDE DEF place, status
      <4> QED
        BY <3>1, <2>3, <2>4, <2>5 DEF Placed
    <3>3. CASE o = t
      BY <3>1, <3>2, <3>3, <1>2, <1>4, <2>4 DEF Placed
    <3>4. CASE o # t
      <4> HIDE DEF status
      <4> QED
        BY <3>1, <3>2, <3>4, <1>2, <2>4 DEF Placed
    <3> QED
      BY <3>3, <3>4
  <2> QED
    BY <1>1, <1>2, <2>4, <2>5, <2>6 DEF Ordered
<1> QED
  BY <1>3, <1>4
-----------------------------------------------------------------------------
(* Every action preserves the invariant. *)

\* What a step proof ends with.
LEMMA OrderedIsEnough ==
    ASSUME Ordered', current_pcb' \in Pid \cup {NoPid}, ctx' \in Context,
           cursor' \in Nat, ctx' = "alarm" => cursor' > 0, dying' \subseteq Pid
    PROVE  IInv'
<1>1. Scalars'
  BY DEF Scalars, Ordered
<1> QED
  BY <1>1, IInvPrimed DEF Ordered

\* And what it starts from.
LEMMA IInvMeans ==
    ASSUME IInv
    PROVE  /\ pcb \in [Pid -> PCB]
           /\ \A o \in Pid : pcb[o].process_priority \in {HIGH, MED, LOW}
           /\ current_pcb \in Pid \cup {NoPid} /\ ctx \in Context
           /\ cursor \in Nat /\ (ctx = "alarm" => cursor > 0) /\ dying \subseteq Pid
           /\ AreLists(queue, Pid) /\ IsList(sleep_list, Pid) /\ IsList(waiting_list, Pid)
           /\ \A o \in Pid : Placed(o)
<1>1. /\ Scalars /\ AreLists(queue, Pid)
      /\ IsList(sleep_list, Pid) /\ IsList(waiting_list, Pid)
      /\ \A o \in Pid : Placed(o)
  BY IInvByProcess
<1>2. \A o \in Pid : pcb[o].process_priority \in {HIGH, MED, LOW}
  BY <1>1 DEF Scalars, PCB
<1> QED
  BY <1>1, <1>2 DEF Scalars

\* A process that is executing and not at a swapcontext is on neither the
\* sleep nor the waiting list.
LEMMA ExecutingIsAwake ==
    ASSUME IInv, NEW p \in Pid, Executing(p), pcb[p].pc \notin {"sleep_switch", "wait_switch"}
    PROVE  ~On(sleep_list, p) /\ ~On(waiting_list, p)
<1>1. Placed(p)
  BY IInvMeans
<1> QED
  BY <1>1 DEF Placed, Executing

\* So its pc may change, and anybody's stopping flag.
LEMMA SamePlacesLemma ==
    ASSUME IInv, NEW p \in Pid, NEW pc \in PC, NEW stopping \in BOOLEAN
    PROVE  /\ SamePlaces(pcb)
           /\ SamePlaces([pcb EXCEPT ![p].stopping = stopping])
           /\ ~On(sleep_list, p) /\ ~On(waiting_list, p) =>
                 /\ SamePlaces([pcb EXCEPT ![p].pc = pc])
                 /\ SamePlaces([pcb EXCEPT ![p].pc = pc, ![p].stopping = stopping])
<1>1. pcb \in [Pid -> PCB] /\ pcb[p] \in PCB
  BY IInvMeans
<1>2. SamePlaces(pcb)
  BY <1>1 DEF SamePlaces
<1>3. SamePlaces([pcb EXCEPT ![p].stopping = stopping])
  BY <1>1 DEF SamePlaces, PCB
<1>4. ASSUME ~On(sleep_list, p), ~On(waiting_list, p)
      PROVE  SamePlaces([pcb EXCEPT ![p].pc = pc])
  BY <1>1, <1>4 DEF SamePlaces, PCB
<1>5. ASSUME ~On(sleep_list, p), ~On(waiting_list, p)
      PROVE  SamePlaces([pcb EXCEPT ![p].pc = pc, ![p].stopping = stopping])
  BY <1>1, <1>5 DEF SamePlaces, PCB
<1> QED
  BY <1>2, <1>3, <1>4, <1>5

LEMMA KillIInv ==
    ASSUME IInv, NEW p \in Pid, NEW t \in Pid, NEW signal, Kill(p, t, signal)
    PROVE  IInv'
<1>1. /\ Executing(p) /\ pcb[p].pc = "user"
      /\ UNCHANGED <<current_pcb, ctx, cursor>>
  BY DEF Kill, InProgram, Running, Executing
<1>2. ~On(sleep_list, p) /\ ~On(waiting_list, p)
  BY <1>1, ExecutingIsAwake
<1>3. \A o \in Pid : Executing(o)' => Executing(o)
  BY <1>1 DEF Executing
<1>4. Ordered' /\ dying' \subseteq Pid
  <2>1. "return" \in PC
    BY DEF PC
  <2>2. (t = p /\ Stoppable(t)) \in BOOLEAN
    OBVIOUS
  <2>3. /\ SamePlaces([pcb EXCEPT ![p].pc = "return"])
        /\ SamePlaces([pcb EXCEPT ![p].pc = "return",
                                  ![p].stopping = t = p /\ Stoppable(t)])
    BY <1>2, <2>1, <2>2, SamePlacesLemma
  <2>4. CASE k_terminate(t, "SIGNALED", [pcb EXCEPT ![p].pc = "return"])
    <3>1. "SIGNALED" \in Terminated
      BY DEF Terminated
    <3> QED
      BY <1>3, <2>3, <2>4, <3>1, TerminateLemma
  <2>5. CASE SigCont(t, [pcb EXCEPT ![p].pc = "return"])
    BY <1>3, <2>3, <2>5, ContinueLemma, IInvMeans
  <2>6. CASE SigStp(t, [pcb EXCEPT ![p].pc = "return",
                                   ![p].stopping = t = p /\ Stoppable(t)])
    BY <1>3, <2>3, <2>6, StopLemma, IInvMeans
  <2> QED
    BY <2>4, <2>5, <2>6 DEF Kill
<1> QED
  BY <1>1, <1>4, IInvMeans, OrderedIsEnough

LEMMA ContinueIInv ==
    ASSUME IInv, NEW t \in Pid, Continue(t)
    PROVE  IInv'
<1>1. SigCont(t, pcb) /\ UNCHANGED <<current_pcb, ctx, cursor>>
  BY DEF Continue
<1>2. SamePlaces(pcb)
  BY IInvMeans DEF SamePlaces
<1>3. \A o \in Pid : Executing(o)' => Executing(o)
  BY <1>1 DEF Executing
<1>4. Ordered' /\ dying' = dying
  BY <1>1, <1>2, <1>3, ContinueLemma
<1> QED
  BY <1>1, <1>4, IInvMeans, OrderedIsEnough

LEMMA ExitIInv ==
    ASSUME IInv, NEW p \in Pid, Exit(p)
    PROVE  IInv'
<1>1. /\ Executing(p) /\ pcb[p].pc \in {"user", "return"}
      /\ k_terminate(p, "EXITED", [pcb EXCEPT ![p].pc = "return"])
      /\ ctx' = "scheduler" /\ UNCHANGED <<current_pcb, cursor>>
  BY DEF Exit, Running, Executing
<1>2. SamePlaces([pcb EXCEPT ![p].pc = "return"])
  <2>1. ~On(sleep_list, p) /\ ~On(waiting_list, p)
    BY <1>1, ExecutingIsAwake
  <2>2. "return" \in PC /\ TRUE \in BOOLEAN
    BY DEF PC
  <2> QED
    BY <2>1, <2>2, SamePlacesLemma
<1>3. \A o \in Pid : Executing(o)' => Executing(o)
  BY <1>1 DEF Executing
<1>4. "EXITED" \in Terminated
  BY DEF Terminated
<1>5. Ordered' /\ dying' \subseteq Pid
  BY <1>1, <1>2, <1>3, <1>4, TerminateLemma
<1>6. ctx' \in Context /\ ctx' # "alarm"
  BY <1>1 DEF Context
<1> QED
  BY <1>1, <1>5, <1>6, IInvMeans, OrderedIsEnough

LEMMA KeyIntIInv ==
    ASSUME IInv, KeyInt
    PROVE  IInv'
<1>1. /\ Listed(queue, current_pcb)
      /\ k_terminate(current_pcb, "SIGNALED", pcb)
      /\ UNCHANGED <<current_pcb, ctx, cursor>>
  BY DEF KeyInt
<1>2. current_pcb \in Pid
  BY <1>1, IInvMeans, OnPosition, ElementOfSeq DEF Listed, ListsOf, AreLists
<1>3. SamePlaces(pcb)
  BY IInvMeans DEF SamePlaces
<1>4. \A o \in Pid : Executing(o)' => Executing(o)
  BY <1>1 DEF Executing
<1>5. "SIGNALED" \in Terminated
  BY DEF Terminated
<1>6. Ordered' /\ dying' \subseteq Pid
  BY <1>1, <1>2, <1>3, <1>4, <1>5, TerminateLemma
<1> QED
  BY <1>1, <1>6, IInvMeans, OrderedIsEnough

LEMMA KeyStopIInv ==
    ASSUME IInv, KeyStop
    PROVE  IInv'
<1>1. /\ Listed(queue, current_pcb)
      /\ SigStp(current_pcb, [pcb EXCEPT ![current_pcb].stopping = (ctx = "process")])
      /\ ctx' = IF ctx = "idle" THEN "idle_switch" ELSE ctx
      /\ UNCHANGED <<current_pcb, cursor>>
  BY DEF KeyStop
<1>2. current_pcb \in Pid
  BY <1>1, IInvMeans, OnPosition, ElementOfSeq DEF Listed, ListsOf, AreLists
<1>3. SamePlaces([pcb EXCEPT ![current_pcb].stopping = (ctx = "process")])
  <2>1. "user" \in PC /\ (ctx = "process") \in BOOLEAN
    BY DEF PC
  <2> QED
    BY <1>2, <2>1, SamePlacesLemma
<1>4. \A o \in Pid : Executing(o)' => Executing(o)
  BY <1>1 DEF Executing
<1>5. Ordered' /\ dying' = dying
  BY <1>1, <1>2, <1>3, <1>4, StopLemma
<1>6. ctx' \in Context /\ (ctx' = "alarm" => ctx = "alarm")
  BY <1>1, IInvMeans DEF Context
<1> QED
  BY <1>1, <1>5, <1>6, IInvMeans, OrderedIsEnough

\* A listed pid is a pid, and has a status other than "FREE".
LEMMA ListedIsPid ==
    ASSUME IInv
    PROVE  /\ \A c : Listed(queue, c) => c \in Pid
           /\ \A c \in Pid : ~Listed(queue, c) <=> pcb[c].status = "FREE"
<1>1. \A c : Listed(queue, c) => c \in Pid
  BY IInvMeans, OnPosition, ElementOfSeq DEF Listed, ListsOf, AreLists
<1>2. ASSUME NEW c \in Pid
      PROVE  ~Listed(queue, c) <=> pcb[c].status = "FREE"
  <2>1. pcb[c] \in PCB /\ Placed(c) /\ pcb[c].process_priority \in {HIGH, MED, LOW}
    BY IInvMeans
  <2>2. pcb[c].status \in {"READY", "BLOCKED", "STOPPED", "FREE"} \cup Terminated
    BY <2>1 DEF PCB, Status
  <2>3. ListsOf(queue, c) = {} <=> pcb[c].status = "FREE"
    BY <2>1, <2>2, PlaceOfStatus DEF Placed, Terminated
  <2> QED
    BY <2>3 DEF Listed
<1> QED
  BY <1>1, <1>2

LEMMA SpawnIInv ==
    ASSUME IInv, NEW p \in Pid, Spawn(p)
    PROVE  IInv'
<1>1. PICK c \in k_find_available_pid :
         /\ pcb' = [pcb EXCEPT ![c] = NewPCB(p, MED)]
         /\ queue' = AddHead(queue, c, ReadyMed)
  BY DEF Spawn
<1>2. UNCHANGED <<sleep_list, waiting_list, current_pcb, ctx, cursor, dying>>
  BY DEF Spawn
<1>3. c \in Pid /\ ~Listed(queue, c)
  BY DEF k_find_available_pid
<1>4. NewPCB(p, MED) \in PCB /\ NewPCB(p, MED).status = "READY"
      /\ NewPCB(p, MED).process_priority = MED
  BY DEF NewPCB, FreePCB, PCB, Status, PC, MED
<1>5. /\ pcb' \in [Pid -> PCB]
      /\ pcb'[c].status = "READY" /\ pcb'[c].process_priority = MED
      /\ \A o \in Pid \ {c} : pcb'[o] = pcb[o]
  BY <1>1, <1>3, <1>4, IInvMeans
<1>6. /\ AreLists(queue', Pid)
      /\ \A o : ListsOf(queue', o) = IF o = c THEN {ReadyMed} ELSE ListsOf(queue, o)
  <2>1. ReadyMed \in ListId /\ ListsOf(queue, c) = {}
    BY <1>3 DEF ReadyMed, ListId, Listed
  <2> QED
    BY <1>1, <1>3, <2>1, IInvMeans, AddOneHeadLemma
<1>7. ASSUME NEW o \in Pid
      PROVE  Placed(o)'
  <2>1. CASE o = c
    <3>1. pcb[c].status = "FREE"
      BY <1>3, ListedIsPid
    <3>2. ~On(sleep_list, c) /\ ~On(waiting_list, c)
      BY <1>3, <3>1, IInvMeans DEF Placed
    <3>3. PlaceOf("READY", MED) = {ReadyMed}
      BY PlaceOfStatus DEF MED, ReadyMed
    <3> QED
      BY <2>1, <1>2, <1>5, <1>6, <3>2, <3>3 DEF Placed
  <2>2. CASE o # c
    BY <2>2, <1>2, <1>5, <1>6, IInvMeans DEF Placed, Executing
  <2> QED
    BY <2>1, <2>2
<1> QED
  BY <1>2, <1>5, <1>6, <1>7, IInvMeans, OrderedIsEnough DEF Ordered

\* A process that blocks: it joins the blocked list, and either the sleep list
\* or the waiting list.
LEMMA BlockLemma ==
    ASSUME IInv, NEW p \in Pid, Executing(p), pcb[p].pc = "user",
           queue' = MoveTo(queue, p, Blocked),
           pcb' \in [Pid -> PCB],
           pcb'[p].status = "BLOCKED",
           \A o \in Pid \ {p} : pcb'[o] = pcb[o],
           \/ /\ sleep_list' = k_add_tail(sleep_list, p)
              /\ waiting_list' = waiting_list
              /\ pcb'[p].pc = "sleep_switch"
           \/ /\ waiting_list' = k_add_tail(waiting_list, p)
              /\ sleep_list' = sleep_list
              /\ pcb'[p].pc = "wait_switch",
           UNCHANGED <<current_pcb, ctx, cursor, dying>>
    PROVE  IInv'
<1>1. ~On(sleep_list, p) /\ ~On(waiting_list, p)
  BY ExecutingIsAwake
<1>2. /\ AreLists(queue', Pid)
      /\ \A o : ListsOf(queue', o) = IF o = p THEN {Blocked} ELSE ListsOf(queue, o)
  <2>1. Blocked \in ListId
    BY DEF Blocked, ListId
  <2> QED
    BY <2>1, IInvMeans, MoveToLemma
<1>3. /\ IsList(sleep_list', Pid) /\ IsList(waiting_list', Pid)
      /\ \A o : o # p => /\ On(sleep_list', o) <=> On(sleep_list, o)
                         /\ On(waiting_list', o) <=> On(waiting_list, o)
      /\ \/ On(sleep_list', p) /\ ~On(waiting_list', p) /\ pcb'[p].pc = "sleep_switch"
         \/ On(waiting_list', p) /\ ~On(sleep_list', p) /\ pcb'[p].pc = "wait_switch"
  BY <1>1, IInvMeans, AddTailLemma
<1>4. ASSUME NEW o \in Pid
      PROVE  Placed(o)'
  <2>1. CASE o = p
    <3>1. pcb'[p].process_priority \in {HIGH, MED, LOW}
      BY DEF PCB
    <3>2. PlaceOf("BLOCKED", pcb'[p].process_priority) = {Blocked}
      BY <3>1, PlaceOfStatus
    <3> QED
      BY <2>1, <1>2, <1>3, <3>2 DEF Placed, On
  <2>2. CASE o # p
    <3>1. Placed(o) /\ pcb'[o] = pcb[o] /\ (Executing(o)' => Executing(o))
      BY <2>2, IInvMeans DEF Executing
    <3> QED
      BY <2>2, <1>2, <1>3, <3>1 DEF Placed, On
  <2> QED
    BY <2>1, <2>2
<1> QED
  BY <1>2, <1>3, <1>4, IInvMeans, OrderedIsEnough DEF Ordered

LEMMA SleepIInv ==
    ASSUME IInv, NEW p \in Pid, NEW t \in Ticks, Sleep(p, t)
    PROVE  IInv'
<1>1. /\ Executing(p) /\ pcb[p].pc = "user"
      /\ queue' = MoveTo(queue, p, Blocked)
      /\ sleep_list' = k_add_tail(sleep_list, p)
      /\ pcb' = [pcb EXCEPT ![p].sleep_remain = t, ![p].status = "BLOCKED",
                            ![p].pc = "sleep_switch"]
      /\ UNCHANGED <<waiting_list, current_pcb, ctx, cursor, dying>>
  BY DEF Sleep, InProgram, Running, Executing
<1>2. t \in Nat
  BY TicksAssumption
<1>3. /\ pcb' \in [Pid -> PCB]
      /\ pcb'[p].status = "BLOCKED" /\ pcb'[p].pc = "sleep_switch"
      /\ \A o \in Pid \ {p} : pcb'[o] = pcb[o]
  <2>1. pcb \in [Pid -> PCB] /\ pcb[p] \in PCB
    BY IInvMeans
  <2> QED
    BY <1>1, <1>2, <2>1 DEF PCB, Status, PC
<1> QED
  BY <1>1, <1>3, BlockLemma

LEMMA WaitBlockIInv ==
    ASSUME IInv, NEW p \in Pid, NEW target \in Pid \cup {AnyChild}, WaitBlock(p, target)
    PROVE  IInv'
<1>1. /\ Executing(p) /\ pcb[p].pc = "user"
      /\ queue' = MoveTo(queue, p, Blocked)
      /\ waiting_list' = k_add_tail(waiting_list, p)
      /\ pcb' = [pcb EXCEPT ![p].pid_waitfor = target, ![p].status = "BLOCKED",
                            ![p].pc = "wait_switch"]
      /\ UNCHANGED <<sleep_list, current_pcb, ctx, cursor, dying>>
  BY DEF WaitBlock, InProgram, Running, Executing
<1>2. /\ pcb' \in [Pid -> PCB]
      /\ pcb'[p].status = "BLOCKED" /\ pcb'[p].pc = "wait_switch"
      /\ \A o \in Pid \ {p} : pcb'[o] = pcb[o]
  <2>1. pcb \in [Pid -> PCB] /\ pcb[p] \in PCB
    BY IInvMeans
  <2> QED
    BY <1>1, <2>1 DEF PCB, Status, PC
<1> QED
  BY <1>1, <1>2, BlockLemma

LEMMA NiceIInv ==
    ASSUME IInv, NEW t \in Pid, NEW priority \in Levels, Nice(t, priority)
    PROVE  IInv'
<1>1. /\ pcb' = [pcb EXCEPT ![t].process_priority = priority]
      /\ queue' = IF pcb[t].status = "READY" THEN MoveTo(queue, t, priority + 1) ELSE queue
      /\ UNCHANGED <<sleep_list, waiting_list, current_pcb, ctx, cursor, dying>>
  BY DEF Nice
<1>2. priority \in {HIGH, MED, LOW} /\ priority + 1 \in ListId
  BY LevelsAssumption DEF HIGH, MED, LOW, ListId
<1>3. /\ pcb' \in [Pid -> PCB]
      /\ \A o \in Pid : pcb'[o].status = pcb[o].status /\ pcb'[o].pc = pcb[o].pc
      /\ pcb'[t].process_priority = priority
      /\ \A o \in Pid \ {t} : pcb'[o].process_priority = pcb[o].process_priority
  <2>1. pcb \in [Pid -> PCB] /\ pcb[t] \in PCB
    BY IInvMeans
  <2> QED
    BY <1>1, <1>2, <2>1 DEF PCB
<1>4. /\ AreLists(queue', Pid)
      /\ \A o : o # t \/ pcb[t].status # "READY" => ListsOf(queue', o) = ListsOf(queue, o)
      /\ pcb[t].status = "READY" => ListsOf(queue', t) = {priority + 1}
  BY <1>1, <1>2, IInvMeans, MoveToLemma
<1>5. ASSUME NEW o \in Pid
      PROVE  Placed(o)'
  <2>1. Placed(o) /\ (Executing(o)' => Executing(o))
    BY <1>1, IInvMeans DEF Executing
  <2>2. ListsOf(queue', o) = PlaceOf(pcb'[o].status, pcb'[o].process_priority)
    <3>1. CASE o = t /\ pcb[t].status = "READY"
      BY <3>1, <1>2, <1>3, <1>4, PlaceOfStatus
    <3>2. CASE o = t /\ pcb[t].status # "READY"
      BY <3>2, <2>1, <1>3, <1>4 DEF Placed, PlaceOf
    <3>3. CASE o # t
      BY <3>3, <2>1, <1>3, <1>4 DEF Placed
    <3> QED
      BY <3>1, <3>2, <3>3
  <2> QED
    BY <1>1, <1>3, <2>1, <2>2 DEF Placed
<1> QED
  BY <1>1, <1>3, <1>4, <1>5, IInvMeans, OrderedIsEnough DEF Ordered

\* A pid on a list without duplicates has a first node there.
LEMMA FirstNodeLemma ==
    ASSUME NEW S, NEW list, IsList(list, S), NEW p, On(list, p)
    PROVE  /\ FirstNode(list, p) \in 1 .. Len(list) /\ list[FirstNode(list, p)] = p
           /\ FirstNode(list, p) \in Nat
<1>1. list \in Seq(S) /\ DOMAIN list = 1 .. Len(list) /\ Len(list) \in Nat
  BY LenProperties DEF IsList
<1>2. PICK i \in 1 .. Len(list) : list[i] = p
  BY <1>1, OnPosition
<1>3. \A j \in 1 .. i - 1 : list[j] # p
  BY <1>1, <1>2 DEF IsList, IsInjective
<1>4. \E k \in DOMAIN list : list[k] = p /\ \A j \in 1 .. k - 1 : list[j] # p
  BY <1>1, <1>2, <1>3
<1>5. FirstNode(list, p) \in DOMAIN list /\ list[FirstNode(list, p)] = p
  BY <1>4 DEF FirstNode
<1> QED
  BY <1>1, <1>5

\* What p_waitpid finds is one of the pids it looks for.
LEMMA FirstFoundLemma ==
    ASSUME IInv, NEW l \in ListId, NEW p, NEW target, FoundIn(l, p, target) # {}
    PROVE  FirstFound(l, p, target) \in FoundIn(l, p, target)
<1> DEFINE F == FoundIn(l, p, target)
           N == {FirstNode(queue[l], c) : c \in F}
<1>1. IsList(queue[l], Pid)
  BY IInvMeans DEF AreLists, IsList
<1>2. \A c \in F : FirstNode(queue[l], c) \in Nat
  BY <1>1, FirstNodeLemma DEF FoundIn, On
<1> HIDE DEF F
<1>3. N \in SUBSET Nat /\ N # {}
  BY <1>2 DEF F
<1>4. PICK n \in N : \A m \in N : n <= m
  BY <1>3, LeastOf
<1>5. \E c \in F : \A d \in F : FirstNode(queue[l], c) <= FirstNode(queue[l], d)
  BY <1>4
<1> QED
  BY <1>5 DEF F, FirstFound

\* Reaping keeps the lists in order.
LEMMA ReapLemma ==
    ASSUME IInv, NEW p, NEW target, NEW pcbs, SamePlaces(pcbs),
           ReapFound(p, target, pcbs),
           UNCHANGED <<sleep_list, waiting_list, current_pcb, ctx, cursor, dying>>
    PROVE  IInv'
<1>1. CASE FoundIn(Zombie, p, target) = {}
  <2>1. queue' = queue /\ pcb' = pcbs
    BY <1>1 DEF ReapFound
  <2>2. ASSUME NEW o \in Pid
        PROVE  Placed(o)'
    BY <2>1, IInvMeans DEF Placed, SamePlaces, Executing
  <2> QED
    BY <2>1, <2>2, IInvMeans, OrderedIsEnough DEF Ordered, SamePlaces
<1>2. CASE FoundIn(Zombie, p, target) # {}
  <2>1. PICK c \in FoundIn(Zombie, p, target) :
           /\ queue' = DeleteFrom(queue, c, Zombie)
           /\ pcb' = [pcbs EXCEPT ![c] = FreePCB]
    BY <1>2, FirstFoundLemma DEF ReapFound, Zombie, ListId
  <2>2. c \in Pid /\ Zombie \in ListsOf(queue, c) /\ Zombie \in ListId
    BY <2>1, ListedIsPid DEF FoundIn, ListsOf, Listed, On, Zombie, ListId
  <2>3. ListsOf(queue, c) = {Zombie} /\ pcb[c].status \in Terminated
    <3>1. pcb[c] \in PCB /\ Placed(c) /\ pcb[c].process_priority \in {HIGH, MED, LOW}
      BY <2>2, IInvMeans
    <3>2. pcb[c].status \in Terminated
      BY <2>2, <3>1
         DEF Placed, PlaceOf, HIGH, MED, LOW, Zombie, Stopped, Blocked
    <3> QED
      BY <3>1, <3>2, PlaceOfStatus DEF Placed
  <2>4. /\ AreLists(queue', Pid)
        /\ \A o : ListsOf(queue', o) = IF o = c THEN {} ELSE ListsOf(queue, o)
    BY <2>1, <2>2, <2>3, IInvMeans, DeleteOneLemma
  <2>5. FreePCB \in PCB /\ FreePCB.status = "FREE" /\ FreePCB.process_priority \in {HIGH, MED, LOW}
    BY DEF FreePCB, PCB, Status, PC, MED
  <2>6. /\ pcb' \in [Pid -> PCB] /\ pcb'[c] = FreePCB
        /\ \A o \in Pid \ {c} : pcb'[o] = pcbs[o]
    BY <2>1, <2>2, <2>5 DEF SamePlaces
  <2>7. ASSUME NEW o \in Pid
        PROVE  Placed(o)'
    <3>1. CASE o = c
      <4>1. ~On(sleep_list, c) /\ ~On(waiting_list, c)
        BY <2>2, <2>3, IInvMeans DEF Placed, Terminated
      <4>2. PlaceOf(FreePCB.status, FreePCB.process_priority) = {}
        BY <2>5, PlaceOfStatus
      <4> HIDE DEF FreePCB
      <4> QED
        BY <3>1, <2>4, <2>5, <2>6, <4>1, <4>2 DEF Placed
    <3>2. CASE o # c
      BY <3>2, <2>4, <2>6, IInvMeans DEF Placed, SamePlaces, Executing
    <3> QED
      BY <3>1, <3>2
  <2> QED
    BY <2>4, <2>6, <2>7, IInvMeans, OrderedIsEnough DEF Ordered
<1> QED
  BY <1>1, <1>2

LEMMA WaitFoundIInv ==
    ASSUME IInv, NEW p \in Pid, NEW target, WaitFound(p, target)
    PROVE  IInv'
<1>1. SamePlaces(pcb)
  BY IInvMeans DEF SamePlaces
<1> QED
  BY <1>1, ReapLemma DEF WaitFound

LEMMA WaitResumeIInv ==
    ASSUME IInv, NEW p \in Pid, WaitResume(p)
    PROVE  IInv'
<1>1. /\ Executing(p) /\ pcb[p].pc = "wait_resume"
      /\ ReapFound(p, pcb[p].pid_waitfor, [pcb EXCEPT ![p].pc = "user"])
      /\ UNCHANGED <<sleep_list, waiting_list, current_pcb, ctx, cursor, dying>>
  BY DEF WaitResume, Running, Executing
<1>2. SamePlaces([pcb EXCEPT ![p].pc = "user"])
  <2>1. ~On(sleep_list, p) /\ ~On(waiting_list, p)
    BY <1>1, ExecutingIsAwake
  <2>2. "user" \in PC /\ TRUE \in BOOLEAN
    BY DEF PC
  <2> QED
    BY <2>1, <2>2, SamePlacesLemma
<1> QED
  BY <1>1, <1>2, ReapLemma

LEMMA OrphanStepIInv ==
    ASSUME IInv, OrphanStep
    PROVE  IInv'
<1>1. PICK d \in dying :
         LET children == {c \in Pid : Listed(queue, c) /\ pcb[c].ppid = d} IN
         IF children = {}
         THEN /\ dying' = dying \ {d}
              /\ UNCHANGED <<queue, sleep_list, waiting_list, pcb>>
         ELSE \E c \in children :
              /\ queue' = k_delete_in_processlists(queue, c)
              /\ waiting_list' = k_delete(waiting_list, c)
              /\ sleep_list' = k_delete(sleep_list, c)
              /\ pcb' = [pcb EXCEPT ![c] = FreePCB]
              /\ dying' = dying \cup {c}
  BY DEF OrphanStep
<1>2. UNCHANGED <<current_pcb, ctx, cursor>>
  BY DEF OrphanStep
<1>3. CASE dying' = dying \ {d} /\ UNCHANGED <<queue, sleep_list, waiting_list, pcb>>
  <2>1. ASSUME NEW o \in Pid
        PROVE  Placed(o)'
    BY <1>2, <1>3, IInvMeans DEF Placed, Executing
  <2> QED
    BY <1>2, <1>3, <2>1, IInvMeans, OrderedIsEnough DEF Ordered
<1>4. CASE \E c \in Pid :
              /\ queue' = k_delete_in_processlists(queue, c)
              /\ waiting_list' = k_delete(waiting_list, c)
              /\ sleep_list' = k_delete(sleep_list, c)
              /\ pcb' = [pcb EXCEPT ![c] = FreePCB]
              /\ dying' = dying \cup {c}
  <2>1. PICK c \in Pid :
              /\ queue' = k_delete_in_processlists(queue, c)
              /\ waiting_list' = k_delete(waiting_list, c)
              /\ sleep_list' = k_delete(sleep_list, c)
              /\ pcb' = [pcb EXCEPT ![c] = FreePCB]
              /\ dying' = dying \cup {c}
    BY <1>4
  <2>2. /\ AreLists(queue', Pid) /\ IsList(sleep_list', Pid) /\ IsList(waiting_list', Pid)
        /\ \A o : ListsOf(queue', o) = IF o = c THEN {} ELSE ListsOf(queue, o)
        /\ \A o : /\ On(sleep_list', o) <=> On(sleep_list, o) /\ o # c
                  /\ On(waiting_list', o) <=> On(waiting_list, o) /\ o # c
    BY <2>1, IInvMeans, DeleteInAllLemma, DeleteLemma
  <2>3. FreePCB \in PCB /\ FreePCB.status = "FREE" /\ FreePCB.process_priority \in {HIGH, MED, LOW}
    BY DEF FreePCB, PCB, Status, PC, MED
  <2>4. /\ pcb' \in [Pid -> PCB] /\ pcb'[c] = FreePCB
        /\ \A o \in Pid \ {c} : pcb'[o] = pcb[o]
    BY <2>1, <2>3, IInvMeans
  <2>5. ASSUME NEW o \in Pid
        PROVE  Placed(o)'
    <3>1. CASE o = c
      <4>1. PlaceOf(FreePCB.status, FreePCB.process_priority) = {}
        BY <2>3, PlaceOfStatus
      <4> HIDE DEF FreePCB
      <4> QED
        BY <3>1, <2>2, <2>3, <2>4, <4>1 DEF Placed
    <3>2. CASE o # c
      <4>1. Placed(o) /\ (Executing(o)' => Executing(o))
        BY <1>2, IInvMeans DEF Executing
      <4> QED
        BY <3>2, <2>2, <2>4, <4>1 DEF Placed, On
    <3> QED
      BY <3>1, <3>2
  <2> QED
    BY <1>2, <2>1, <2>2, <2>4, <2>5, IInvMeans, OrderedIsEnough DEF Ordered
<1> QED
  BY <1>1, <1>3, <1>4

\* Steps that only hand the processor on.
LEMMA HandOnLemma ==
    ASSUME IInv, UNCHANGED <<queue, sleep_list, waiting_list, pcb, dying>>,
           current_pcb' \in Pid \cup {NoPid}, ctx' \in Context \ {"process"},
           cursor' \in Nat, ctx' = "alarm" => cursor' > 0
    PROVE  IInv'
<1>1. ASSUME NEW o \in Pid
      PROVE  Placed(o)'
  BY IInvMeans DEF Placed, Executing
<1> QED
  BY <1>1, IInvMeans, OrderedIsEnough DEF Ordered

LEMMA IdleSwitchIInv ==
    ASSUME IInv, IdleSwitch
    PROVE  IInv'
BY HandOnLemma, IInvMeans DEF IdleSwitch, Context

LEMMA AlarmIInv ==
    ASSUME IInv, Alarm
    PROVE  IInv'
BY HandOnLemma, IInvMeans DEF Alarm, Context

LEMMA IdleIInv ==
    ASSUME IInv, Idle
    PROVE  IInv'
<1>1. current_pcb' \in Pid \cup {NoPid}
  BY ListedIsPid, IInvMeans DEF Idle
<1> QED
  BY <1>1, HandOnLemma, IInvMeans DEF Idle, Context

LEMMA ScheduleIInv ==
    ASSUME IInv, NEW l \in ReadyLists, Schedule(l)
    PROVE  IInv'
<1> DEFINE p == Head(queue[l])
<1>1. /\ queue[l] # <<>>
      /\ current_pcb' = p /\ queue' = Shift(queue, p, l, l) /\ ctx' = "process"
      /\ UNCHANGED <<sleep_list, waiting_list, pcb, cursor, dying>>
  BY DEF Schedule
<1>2. l \in ListId
  BY DEF ReadyLists, ReadyHigh, ReadyMed, ReadyLow, ListId
<1>3. p \in Pid /\ On(queue[l], p)
  <2>1. queue[l] \in Seq(Pid)
    BY <1>2, IInvMeans DEF AreLists
  <2>2. p = queue[l][1] /\ 1 \in 1 .. Len(queue[l])
    BY <1>1, <2>1, EmptySeq, LenProperties
  <2> QED
    BY <2>1, <2>2, ElementOfSeq, OnPosition
<1> HIDE DEF p
<1>4. ListsOf(queue, p) = {l} /\ pcb[p].status = "READY"
  <2>1. pcb[p] \in PCB /\ Placed(p) /\ pcb[p].process_priority \in {HIGH, MED, LOW}
    BY <1>3, IInvMeans
  <2>2. l \in ListsOf(queue, p)
    BY <1>2, <1>3 DEF ListsOf
  <2>3. pcb[p].status = "READY"
    BY <2>1, <2>2 DEF Placed, PlaceOf, ReadyLists, ReadyHigh, ReadyMed, ReadyLow,
                      Blocked, Stopped, Zombie
  <2> QED
    BY <2>1, <2>2, <2>3, PlaceOfStatus DEF Placed
<1>5. /\ AreLists(queue', Pid)
      /\ \A o : ListsOf(queue', o) = ListsOf(queue, o)
  <2>1. AreLists(queue, Pid) /\ l \notin ListsOf(queue, p) \ {l}
    BY IInvMeans
  <2>2. /\ AreLists(queue', Pid)
        /\ \A o : ListsOf(queue', o) = IF o = p THEN (ListsOf(queue, o) \ {l}) \cup {l}
                                                ELSE ListsOf(queue, o)
    BY <1>1, <1>2, <1>3, <2>1, ShiftLemma
  <2>3. (ListsOf(queue, p) \ {l}) \cup {l} = ListsOf(queue, p)
    BY <1>4
  <2> QED
    BY <2>2, <2>3
<1>6. ASSUME NEW o \in Pid
      PROVE  Placed(o)'
  <2>1. CASE o = p
    BY <2>1, <1>1, <1>4, <1>5, IInvMeans DEF Placed
  <2>2. CASE o # p
    BY <2>2, <1>1, <1>5, IInvMeans DEF Placed, Executing
  <2> QED
    BY <2>1, <2>2
<1> QED
  BY <1>1, <1>3, <1>5, <1>6, IInvMeans, OrderedIsEnough DEF Ordered, Context

\* A PCB whose sleep_remain counts down is a PCB, in the same place.
LEMMA CountdownLemma ==
    ASSUME NEW pcbs \in [Pid -> PCB], NEW p \in Pid
    PROVE  LET counted == [pcbs EXCEPT ![p].sleep_remain = Countdown(pcbs[p].sleep_remain)] IN
           /\ counted \in [Pid -> PCB]
           /\ \A o \in Pid : /\ counted[o].status = pcbs[o].status
                             /\ counted[o].process_priority = pcbs[o].process_priority
                             /\ counted[o].pc = pcbs[o].pc
<1>1. pcbs[p] \in PCB /\ pcbs[p].sleep_remain \in Nat \cup {-1}
  BY DEF PCB
<1>2. Countdown(pcbs[p].sleep_remain) \in Nat \cup {-1}
  BY <1>1 DEF Countdown
<1> QED
  BY <1>1, <1>2 DEF PCB

LEMMA AlarmStepIInv ==
    ASSUME IInv, AlarmStep
    PROVE  IInv'
<1>1. ctx = "alarm" /\ UNCHANGED <<waiting_list, current_pcb, dying>>
  BY DEF AlarmStep
<1>2. CASE cursor > Len(sleep_list)
  <2>1. ctx' = "scheduler" /\ cursor' = 0 /\ UNCHANGED <<queue, sleep_list, pcb>>
    BY <1>2 DEF AlarmStep
  <2> QED
    BY <1>1, <2>1, HandOnLemma, IInvMeans DEF Context
<1>3. CASE ~(cursor > Len(sleep_list))
  <2> DEFINE p      == sleep_list[cursor]
             remain == Countdown(pcb[p].sleep_remain)
             awake  == [pcb EXCEPT ![p].sleep_remain = remain, ![p].status = "READY"]
             next   == sleep_list[cursor + 1]
  <2>1. /\ ctx' = ctx
        /\ IF remain < 0 /\ pcb[p].status = "BLOCKED"
           THEN /\ sleep_list' = k_delete(sleep_list, p)
                /\ queue' = Shift(queue, p, Blocked, ReadyQueueOf(p))
                /\ pcb' = IF cursor < Len(sleep_list)
                          THEN [awake EXCEPT ![next].sleep_remain = Countdown(awake[next].sleep_remain)]
                          ELSE awake
                /\ cursor' = cursor
           ELSE /\ pcb' = [pcb EXCEPT ![p].sleep_remain = remain]
                /\ cursor' = cursor + 1
                /\ UNCHANGED <<queue, sleep_list>>
    BY <1>3 DEF AlarmStep
  <2>2. /\ sleep_list \in Seq(Pid) /\ Len(sleep_list) \in Nat
        /\ cursor \in 1 .. Len(sleep_list)
        /\ p \in Pid /\ On(sleep_list, p)
        /\ cursor < Len(sleep_list) => next \in Pid
    <3>1. sleep_list \in Seq(Pid) /\ Len(sleep_list) \in Nat
      BY IInvMeans, LenProperties DEF IsList
    <3>2. cursor \in 1 .. Len(sleep_list)
      BY <1>1, <1>3, <3>1, IInvMeans
    <3>3. cursor < Len(sleep_list) => cursor + 1 \in 1 .. Len(sleep_list)
      BY <3>1, <3>2
    <3> QED
      BY <3>1, <3>2, <3>3, ElementOfSeq, OnPosition
  <2>3. cursor' \in Nat /\ cursor' > 0
    BY <2>1, <2>2
  <2>4. \A o \in Pid : Executing(o)' => Executing(o)
    BY <1>1, <2>1 DEF Executing
  <2> HIDE DEF p, next
  <2>5. CASE ~(remain < 0 /\ pcb[p].status = "BLOCKED")
    <3>1. /\ pcb' = [pcb EXCEPT ![p].sleep_remain = Countdown(pcb[p].sleep_remain)]
          /\ UNCHANGED <<queue, sleep_list>>
      BY <2>1, <2>5
    <3>2. /\ pcb' \in [Pid -> PCB]
          /\ \A o \in Pid : /\ pcb'[o].status = pcb[o].status
                            /\ pcb'[o].process_priority = pcb[o].process_priority
                            /\ pcb'[o].pc = pcb[o].pc
      BY <2>2, <3>1, IInvMeans, CountdownLemma
    <3>3. ASSUME NEW o \in Pid
          PROVE  Placed(o)'
      BY <1>1, <2>4, <3>1, <3>2, IInvMeans DEF Placed
    <3> QED
      BY <1>1, <2>1, <2>3, <3>1, <3>2, <3>3, IInvMeans, OrderedIsEnough DEF Ordered
  <2>6. CASE remain < 0 /\ pcb[p].status = "BLOCKED"
    <3>1. /\ sleep_list' = k_delete(sleep_list, p)
          /\ queue' = Shift(queue, p, Blocked, ReadyQueueOf(p))
          /\ \/ /\ next \in Pid
                /\ pcb' = [awake EXCEPT ![next].sleep_remain = Countdown(awake[next].sleep_remain)]
             \/ pcb' = awake
      BY <2>1, <2>2, <2>6
    <3>2. /\ awake \in [Pid -> PCB]
          /\ \A o \in Pid : /\ awake[o].status = IF o = p THEN "READY" ELSE pcb[o].status
                            /\ awake[o].process_priority = pcb[o].process_priority
                            /\ awake[o].pc = pcb[o].pc
      <4>1. pcb \in [Pid -> PCB] /\ pcb[p] \in PCB
        BY <2>2, IInvMeans
      <4>2. pcb[p].sleep_remain \in Nat \cup {-1}
        BY <4>1 DEF PCB
      <4>3. remain \in Nat \cup {-1}
        BY <4>2 DEF Countdown
      <4> HIDE DEF remain
      <4> QED
        BY <2>2, <4>1, <4>3 DEF PCB, Status
    <3> HIDE DEF awake
    <3>3. /\ pcb' \in [Pid -> PCB]
          /\ \A o \in Pid : /\ pcb'[o].status = IF o = p THEN "READY" ELSE pcb[o].status
                            /\ pcb'[o].process_priority = pcb[o].process_priority
                            /\ pcb'[o].pc = pcb[o].pc
      <4>1. CASE pcb' = awake
        BY <4>1, <3>2
      <4>2. CASE /\ next \in Pid
                 /\ pcb' = [awake EXCEPT ![next].sleep_remain = Countdown(awake[next].sleep_remain)]
        BY <4>2, <3>2, CountdownLemma
      <4> QED
        BY <3>1, <4>1, <4>2
    <3>4. /\ IsList(sleep_list', Pid)
          /\ \A o : On(sleep_list', o) <=> On(sleep_list, o) /\ o # p
      BY <3>1, IInvMeans, DeleteLemma
    <3>5. /\ ListsOf(queue, p) = {Blocked}
          /\ PlaceOf("READY", pcb[p].process_priority) = {ReadyQueueOf(p)}
          /\ ReadyQueueOf(p) \in ListId /\ Blocked \in ListId
      <4>1. Placed(p) /\ pcb[p].process_priority \in {HIGH, MED, LOW}
        BY <2>2, IInvMeans
      <4>2. ListsOf(queue, p) = PlaceOf("BLOCKED", pcb[p].process_priority)
        BY <2>6, <4>1 DEF Placed
      <4>3. ReadyQueueOf(p) \in ListId /\ Blocked \in ListId
        BY <4>1 DEF ReadyQueueOf, HIGH, MED, LOW, ListId, Blocked
      <4> QED
        BY <4>1, <4>2, <4>3, PlaceOfStatus DEF ReadyQueueOf
    <3>6. /\ AreLists(queue', Pid)
          /\ \A o : ListsOf(queue', o) = IF o = p THEN {ReadyQueueOf(p)} ELSE ListsOf(queue, o)
      BY <2>2, <3>1, <3>5, IInvMeans, ShiftLemma
    <3>7. ASSUME NEW o \in Pid
          PROVE  Placed(o)'
      <4>1. Placed(o) /\ (Executing(o)' => Executing(o))
        BY <2>4, IInvMeans
      <4>2. CASE o = p
        <5>1. ~On(sleep_list', p) /\ ~On(waiting_list', p)
          BY <1>1, <2>2, <2>6, <3>4, <4>1, <4>2 DEF Placed, On
        <5> QED
          BY <4>2, <5>1, <3>3, <3>5, <3>6 DEF Placed
      <4>3. CASE o # p
        BY <1>1, <4>1, <4>3, <3>3, <3>4, <3>6 DEF Placed, On
      <4> QED
        BY <4>2, <4>3
    <3> QED
      BY <1>1, <2>1, <2>3, <3>3, <3>4, <3>6, <3>7, IInvMeans, OrderedIsEnough DEF Ordered
  <2> QED
    BY <2>5, <2>6
<1> QED
  BY <1>2, <1>3

\* A stuttering step.
LEMMA StutterIInv ==
    ASSUME IInv, UNCHANGED vars
    PROVE  IInv'
BY DEF IInv, vars, TypeOK, ListsMatchStatus, BlockedHasWaker, BlockedInCall,
       Place, ReadyQueueOf
-----------------------------------------------------------------------------
\* Every step preserves the invariant.
LEMMA NextIInv ==
    ASSUME IInv, [Next]_vars
    PROVE  IInv'
<1>1. ASSUME NEW p \in Pid, Process(p)
      PROVE  IInv'
  <2>1. CASE Spawn(p)
    BY <2>1, SpawnIInv
  <2>2. CASE \E t \in Ticks : Sleep(p, t)
    BY <2>2, SleepIInv
  <2>3. CASE \E target \in Pid \cup {AnyChild} : WaitFound(p, target) \/ WaitBlock(p, target)
    BY <2>3, WaitFoundIInv, WaitBlockIInv
  <2>4. CASE WaitResume(p)
    BY <2>4, WaitResumeIInv
  <2>5. CASE Switch(p)
    BY <2>5, SwitchIInv
  <2>6. CASE \E t \in Pid, signal \in {"S_SIGTERM", "S_SIGCONT", "S_SIGSTP"} : Kill(p, t, signal)
    BY <2>6, KillIInv
  <2>7. CASE Exit(p)
    BY <2>7, ExitIInv
  <2> QED
    BY <1>1, <2>1, <2>2, <2>3, <2>4, <2>5, <2>6, <2>7 DEF Process
<1>2. ASSUME NEW t \in Pid, Continue(t)
      PROVE  IInv'
  BY <1>2, ContinueIInv
<1>3. ASSUME NEW t \in Pid, NEW priority \in Levels, Nice(t, priority)
      PROVE  IInv'
  BY <1>3, NiceIInv
<1>4. CASE OrphanStep
  BY <1>4, OrphanStepIInv
<1>5. CASE KeyInt
  BY <1>5, KeyIntIInv
<1>6. CASE KeyStop
  BY <1>6, KeyStopIInv
<1>7. CASE IdleSwitch
  BY <1>7, IdleSwitchIInv
<1>8. CASE Alarm
  BY <1>8, AlarmIInv
<1>9. CASE AlarmStep
  BY <1>9, AlarmStepIInv
<1>10. ASSUME NEW l \in ReadyLists, Schedule(l)
       PROVE  IInv'
  BY <1>10, ScheduleIInv
<1>11. CASE Idle
  BY <1>11, IdleIInv
<1>12. CASE UNCHANGED vars
  BY <1>12, StutterIInv
<1> QED
  BY <1>1, <1>2, <1>3, <1>4, <1>5, <1>6, <1>7, <1>8, <1>9, <1>10, <1>11, <1>12 DEF Next

\* The invariant holds in every reachable state.
THEOREM InvariantHolds == Spec => []IInv
BY InitIInv, NextIInv, PTL DEF Spec

\* The kernel state is always well typed (process_control.h:33-66).
THEOREM TypeCorrect == Spec => []TypeOK
BY InvariantHolds, PTL DEF IInv

\* No sequence of calls, signals and ticks loses, duplicates or misplaces a
\* process: each is on the one list of its status and priority, once.
THEOREM ListsAlwaysMatch == Spec => []ListsMatchStatus
BY InvariantHolds, PTL DEF IInv

\* Every blocked process is on exactly one of the sleep and waiting lists, and
\* only blocked (or, for sleepers, stopped) processes are on them.
THEOREM BlockedAlwaysHasWaker == Spec => []BlockedHasWaker
BY InvariantHolds, PTL DEF IInv

\* A process on the sleep or waiting list has not got past the swapcontext of
\* the call that put it there.
THEOREM BlockedAlwaysInCall == Spec => []BlockedInCall
BY InvariantHolds, PTL DEF IInv
-----------------------------------------------------------------------------
(* What a step does. *)

Reported == Terminated \cup {"STOPPED"}
Gone     == Terminated \cup {"FREE"}
Waits    == {"wait_switch", "wait_resume"}

\* What p_waitpid tests of a process c for a process p.
WaitsOn(p, target, c) == c = target \/ (target = AnyChild /\ pcb[c].ppid = p)

\* A PCB table that differs from pcb in nothing the invariants read, except that
\* a process may have returned from p_waitpid.
SameFields(pcbs, others) ==
    /\ pcbs \in [Pid -> PCB]
    /\ \A o \in others :
          /\ pcbs[o].ppid = pcb[o].ppid
          /\ pcbs[o].pid_waitfor = pcb[o].pid_waitfor
          /\ pcbs[o].pc \in Waits => pcb[o].pc \in Waits

NoSleeperAdded == \A o \in Pid : On(sleep_list', o) => On(sleep_list, o)
-----------------------------------------------------------------------------
(* The kinds of step. *)

\* Nobody terminates, stops, blocks or is freed.
Calm ==
    /\ SameFields(pcb', Pid)
    /\ \A o \in Pid :
          \/ pcb'[o].status = pcb[o].status
          \/ /\ pcb[o].status = "BLOCKED" /\ ~On(waiting_list, o)
             /\ pcb'[o].status = "READY"
          \/ /\ pcb[o].status = "STOPPED" /\ (o \notin Immune \/ InProgram(Shell))
             /\ pcb'[o].status \in {"READY", "BLOCKED"}
    /\ \A o \in Pid : On(waiting_list', o) <=> On(waiting_list, o)
    /\ NoSleeperAdded
    /\ dying' = dying

\* t terminates or stops, and one process that awaits it, if any, wakes.
Marks(t, how, woken) ==
    /\ SameFields(pcb', Pid)
    /\ pcb[t].status \notin Gone
    /\ t = Shell => Shell \notin Immune
    /\ \A o \in woken : On(waiting_list, o) /\ Awaits(o, t) /\ o # t
    /\ woken = {} => \A o \in Pid \ {t} : On(waiting_list, o) => ~Awaits(o, t)
    /\ \A o \in Pid : pcb'[o].status = IF o = t THEN how
                                       ELSE IF o \in woken THEN "READY" ELSE pcb[o].status
    /\ \A o \in Pid : On(waiting_list', o) <=> On(waiting_list, o) /\ o # t /\ o \notin woken
    /\ NoSleeperAdded
    /\ \/ how = "STOPPED" /\ ~On(waiting_list, t) /\ dying' = dying
       \/ /\ how \in Terminated /\ dying = {} /\ dying' = {t}
          /\ t = current_pcb \/ (current_pcb \in Pid /\ pcb[current_pcb].ppid = Shell)

\* c is freed.
Frees(c) ==
    /\ SameFields(pcb', Pid \ {c})
    /\ pcb'[c] = FreePCB
    /\ \A o \in Pid \ {c} : pcb'[o].status = pcb[o].status
    /\ \A o \in Pid : On(waiting_list', o) <=> On(waiting_list, o) /\ o # c
    /\ NoSleeperAdded

\* By p's p_waitpid.
Reaps(p, c) ==
    /\ Frees(c)
    /\ pcb[c].status \in Terminated
    /\ Running(p) /\ ~pcb[p].stopping /\ pcb[p].pc \in {"user", "wait_resume"}
    /\ pcb'[p].pc = "user"
    /\ pcb[c].ppid = p \/ (pcb[p].pc = "wait_resume" /\ pcb[p].pid_waitfor = c)
    /\ dying' = dying

\* By the orphan sweep of d.
Sweeps(d, c) ==
    /\ Frees(c)
    /\ pcb[c].status # "FREE" /\ pcb[c].ppid = d
    /\ dying' = dying \cup {c}

SweepEnds(d) ==
    /\ UNCHANGED <<queue, sleep_list, waiting_list, pcb>>
    /\ \A c \in Pid : pcb[c].ppid = d => pcb[c].status = "FREE"
    /\ dying' = dying \ {d}

Spawns(p, c) ==
    /\ InProgram(p)
    /\ SameFields(pcb', Pid \ {c})
    /\ pcb[c].status = "FREE" /\ pcb'[c] = NewPCB(p, MED)
    /\ \A o \in Pid \ {c} : pcb'[o].status = pcb[o].status
    /\ UNCHANGED <<sleep_list, waiting_list, dying>>

\* p blocks in p_sleep or p_waitpid.
BlocksIn(p) ==
    /\ InProgram(p)
    /\ SameFields(pcb', Pid \ {p})
    /\ pcb'[p].status = "BLOCKED" /\ pcb'[p].ppid = pcb[p].ppid
    /\ \A o \in Pid \ {p} : pcb'[o].status = pcb[o].status
    /\ dying' = dying

Sleeps(p) ==
    /\ BlocksIn(p) /\ p # Shell
    /\ pcb'[p].pc = "sleep_switch"
    /\ UNCHANGED waiting_list
    /\ \A o \in Pid : On(sleep_list', o) => On(sleep_list, o) \/ o = p

WaitsFor(p, target) ==
    /\ BlocksIn(p) /\ p \in Parents
    /\ pcb'[p].pid_waitfor = target
    /\ target # AnyChild => /\ target \in Pid /\ pcb[target].ppid = p
                            /\ pcb[target].status # "FREE"
    /\ \A c \in Pid : pcb[c].status \in Reported => ~WaitsOn(p, target, c)
    /\ \A o \in Pid : On(waiting_list', o) <=> On(waiting_list, o) \/ o = p
    /\ UNCHANGED sleep_list

Kinds ==
    \/ Calm
    \/ \E t \in Pid, how \in Reported, woken \in SUBSET Pid : Marks(t, how, woken)
    \/ \E p \in Pid, c \in Pid : Reaps(p, c)
    \/ \E d \in dying, c \in Pid : Sweeps(d, c)
    \/ \E d \in dying : SweepEnds(d)
    \/ \E p \in Pid, c \in Pid : Spawns(p, c)
    \/ \E p \in Pid : Sleeps(p)
    \/ \E p \in Pid, target \in Pid \cup {AnyChild} : WaitsFor(p, target)
-----------------------------------------------------------------------------
\* The lists a status stands for.
LEMMA StatusOfList ==
    ASSUME IInv, NEW p \in Pid
    PROVE  /\ Listed(queue, p) <=> pcb[p].status # "FREE"
           /\ On(queue[Zombie], p) <=> pcb[p].status \in Terminated
           /\ On(queue[Stopped], p) <=> pcb[p].status = "STOPPED"
           /\ \A l \in ReadyLists : On(queue[l], p) => pcb[p].status = "READY"
<1>1. Placed(p) /\ pcb[p] \in PCB /\ pcb[p].process_priority \in {HIGH, MED, LOW}
  BY IInvMeans
<1>2. \A l \in ListId : On(queue[l], p) <=> l \in PlaceOf(pcb[p].status, pcb[p].process_priority)
  BY <1>1 DEF Placed, ListsOf
<1>3. Zombie \in ListId /\ Stopped \in ListId /\ ReadyLists \subseteq ListId
  BY DEF Zombie, Stopped, ReadyLists, ReadyHigh, ReadyMed, ReadyLow, ListId
<1>4. On(queue[Zombie], p) <=> pcb[p].status \in Terminated
  BY <1>1, <1>2, <1>3 DEF PlaceOf, Zombie, Stopped, Blocked, HIGH, MED, LOW
<1>5. On(queue[Stopped], p) <=> pcb[p].status = "STOPPED"
  BY <1>1, <1>2, <1>3 DEF PlaceOf, Zombie, Stopped, Blocked, HIGH, MED, LOW
<1>6. \A l \in ReadyLists : On(queue[l], p) => pcb[p].status = "READY"
  BY <1>1, <1>2, <1>3 DEF PlaceOf, Zombie, Stopped, Blocked, ReadyLists, ReadyHigh, ReadyMed, ReadyLow
<1> QED
  BY <1>4, <1>5, <1>6, ListedIsPid

\* k_unblock_wait wakes a process that awaits t, unless there is none.
LEMMA WakeLemma ==
    ASSUME NEW lists, NEW waiters, IsList(waiters, Pid),
           NEW pcbs \in [Pid -> PCB], NEW t \in Pid,
           k_unblock_wait(lists, waiters, pcbs, t)
    PROVE  \E woken \in SUBSET Pid :
              /\ \A o \in woken : On(waiters, o) /\ Awaits(o, t)
              /\ woken = {} => \A o : On(waiters, o) => ~Awaits(o, t)
              /\ \A o : On(waiting_list', o) <=> On(waiters, o) /\ o \notin woken
              /\ pcb' \in [Pid -> PCB]
              /\ \A o \in Pid : pcb'[o] =
                    IF o \in woken THEN [pcbs[o] EXCEPT !.status = "READY"] ELSE pcbs[o]
<1>1. CASE ~ \E w \in Range(waiters) : Awaits(w, t)
  <2>1. waiting_list' = waiters /\ pcb' = pcbs
    BY <1>1 DEF k_unblock_wait
  <2> WITNESS {} \in SUBSET Pid
  <2> QED
    BY <1>1, <2>1 DEF On
<1>2. CASE \E w \in Range(waiters) : Awaits(w, t)
  <2> DEFINE w == FirstWaiter(waiters, t)
  <2>1. On(waiters, w) /\ w \in Pid /\ Awaits(w, t)
    BY <1>2, FirstWaiterLemma
  <2>2. waiting_list' = k_delete(waiters, w) /\ pcb' = [pcbs EXCEPT ![w].status = "READY"]
    BY <1>2 DEF k_unblock_wait
  <2> HIDE DEF w
  <2>3. \A o : On(waiting_list', o) <=> On(waiters, o) /\ o # w
    BY <2>2, DeleteLemma
  <2>4. /\ pcb' \in [Pid -> PCB]
        /\ pcb' = [pcbs EXCEPT ![w] = [pcbs[w] EXCEPT !.status = "READY"]]
    BY <2>1, <2>2 DEF PCB, Status
  <2> {w} \in SUBSET Pid
    BY <2>1
  <2> WITNESS {w} \in SUBSET Pid
  <2> QED
    BY <2>1, <2>3, <2>4
<1> QED
  BY <1>1, <1>2
-----------------------------------------------------------------------------
(* Every step is of one of the kinds. *)

\* A table that differs from pcb in pc and stopping only.
SameButPc(pcbs) ==
    /\ SameFields(pcbs, Pid)
    /\ \A o \in Pid : pcbs[o].status = pcb[o].status

LEMMA SameButPcLemma ==
    ASSUME IInv, NEW p \in Pid, NEW pc \in PC \ Waits, NEW stopping \in BOOLEAN
    PROVE  /\ SameButPc(pcb)
           /\ SameButPc([pcb EXCEPT ![p].stopping = stopping])
           /\ SameButPc([pcb EXCEPT ![p].pc = pc])
           /\ SameButPc([pcb EXCEPT ![p].pc = pc, ![p].stopping = stopping])
<1>1. pcb \in [Pid -> PCB] /\ pcb[p] \in PCB
  BY IInvMeans
<1> USE DEF SameButPc, SameFields, PCB
<1>2. SameButPc(pcb)
  BY <1>1
<1>3. SameButPc([pcb EXCEPT ![p].stopping = stopping])
  BY <1>1
<1>4. SameButPc([pcb EXCEPT ![p].pc = pc])
  BY <1>1
<1>5. SameButPc([pcb EXCEPT ![p].pc = pc, ![p].stopping = stopping])
  BY <1>1
<1> QED
  BY <1>2, <1>3, <1>4, <1>5

\* Nothing but pc and stopping changes.
LEMMA CalmLemma ==
    ASSUME IInv, SameButPc(pcb'), UNCHANGED <<sleep_list, waiting_list, dying>>
    PROVE  Kinds
BY DEF SameButPc, Kinds, Calm, NoSleeperAdded

\* k_terminate and a stop: t is marked and a process that awaits it wakes.
LEMMA MarkLemma ==
    ASSUME IInv, NEW t \in Pid, NEW how \in Reported, NEW pcbs, SameButPc(pcbs),
           NEW lists, NEW waiters, IsList(waiters, Pid),
           \A o : On(waiters, o) <=> On(waiting_list, o) /\ o # t,
           k_unblock_wait(lists, waiters, [pcbs EXCEPT ![t].status = how], t),
           pcb[t].status \notin Gone, t = Shell => Shell \notin Immune,
           NoSleeperAdded,
           \/ how = "STOPPED" /\ ~On(waiting_list, t) /\ dying' = dying
           \/ /\ how \in Terminated /\ dying = {} /\ dying' = {t}
              /\ t = current_pcb \/ (current_pcb \in Pid /\ pcb[current_pcb].ppid = Shell)
    PROVE  Kinds
<1> DEFINE marked == [pcbs EXCEPT ![t].status = how]
<1>1. how \in Status
  BY DEF Reported, Status
<1>2. /\ marked \in [Pid -> PCB]
      /\ \A o \in Pid : /\ marked[o].status = IF o = t THEN how ELSE pcbs[o].status
                        /\ marked[o].ppid = pcbs[o].ppid
                        /\ marked[o].pid_waitfor = pcbs[o].pid_waitfor
                        /\ marked[o].pc = pcbs[o].pc
  BY <1>1 DEF SameButPc, SameFields, PCB
<1>3. k_unblock_wait(lists, waiters, marked, t)
  OBVIOUS
<1> HIDE DEF marked
<1>4. PICK woken \in SUBSET Pid :
              /\ \A o \in woken : On(waiters, o) /\ Awaits(o, t)
              /\ woken = {} => \A o : On(waiters, o) => ~Awaits(o, t)
              /\ \A o : On(waiting_list', o) <=> On(waiters, o) /\ o \notin woken
              /\ pcb' \in [Pid -> PCB]
              /\ \A o \in Pid : pcb'[o] =
                    IF o \in woken THEN [marked[o] EXCEPT !.status = "READY"] ELSE marked[o]
  BY <1>2, <1>3, WakeLemma
<1>5. \A o \in Pid : /\ pcb'[o].status = IF o \in woken THEN "READY" ELSE marked[o].status
                     /\ pcb'[o].ppid = marked[o].ppid
                     /\ pcb'[o].pid_waitfor = marked[o].pid_waitfor
                     /\ pcb'[o].pc = marked[o].pc
  <2>1. \A o \in Pid : marked[o] \in PCB
    BY <1>2
  <2> QED
    BY <1>4, <2>1 DEF PCB
<1>6. SameFields(pcb', Pid)
  BY <1>2, <1>4, <1>5 DEF SameButPc, SameFields
<1>7. \A o \in woken : On(waiting_list, o) /\ Awaits(o, t) /\ o # t
  BY <1>4
<1>8. woken = {} => \A o \in Pid \ {t} : On(waiting_list, o) => ~Awaits(o, t)
  BY <1>4
<1>9. \A o \in Pid : pcb'[o].status = IF o = t THEN how
                                      ELSE IF o \in woken THEN "READY" ELSE pcb[o].status
  BY <1>2, <1>5, <1>7 DEF SameButPc
<1>10. \A o \in Pid : On(waiting_list', o) <=> On(waiting_list, o) /\ o # t /\ o \notin woken
  BY <1>4
<1>11. Marks(t, how, woken)
  BY <1>6, <1>7, <1>8, <1>9, <1>10 DEF Marks
<1> QED
  BY <1>11 DEF Kinds

LEMMA TerminateKind ==
    ASSUME IInv, NEW t \in Pid, NEW how \in Terminated, NEW pcbs, SameButPc(pcbs),
           k_terminate(t, how, pcbs), dying = {}, t = Shell => Shell \notin Immune,
           t = current_pcb \/ (current_pcb \in Pid /\ pcb[current_pcb].ppid = Shell)
    PROVE  Kinds
<1>1. CASE ~Listed(queue, t) \/ pcb[t].status \in Terminated
  <2>1. pcb' = pcbs /\ UNCHANGED <<queue, sleep_list, waiting_list, dying>>
    BY <1>1 DEF k_terminate
  <2> QED
    BY <2>1, CalmLemma
<1>2. CASE ~(~Listed(queue, t) \/ pcb[t].status \in Terminated)
  <2>1. /\ k_unblock_wait(MoveTo(queue, t, Zombie), k_delete(waiting_list, t),
                          [pcbs EXCEPT ![t].status = how], t)
        /\ sleep_list' = k_delete(sleep_list, t)
        /\ dying' = {t}
    BY <1>2 DEF k_terminate
  <2>2. /\ IsList(k_delete(waiting_list, t), Pid)
        /\ \A o : On(k_delete(waiting_list, t), o) <=> On(waiting_list, o) /\ o # t
    BY IInvMeans, DeleteLemma
  <2>3. \A o : On(sleep_list', o) <=> On(sleep_list, o) /\ o # t
    BY <2>1, IInvMeans, DeleteLemma
  <2>4. pcb[t].status \notin Gone
    BY <1>2, StatusOfList DEF Gone
  <2>5. how \in Reported /\ NoSleeperAdded
    BY <2>3 DEF Reported, NoSleeperAdded
  <2> QED
    BY <2>1, <2>2, <2>4, <2>5, MarkLemma
<1> QED
  BY <1>1, <1>2

LEMMA StopKind ==
    ASSUME IInv, NEW t \in Pid, NEW pcbs, SameButPc(pcbs), SigStp(t, pcbs),
           t = Shell => Shell \notin Immune
    PROVE  Kinds
<1>1. CASE ~Stoppable(t)
  <2>1. pcb' = pcbs /\ UNCHANGED <<queue, sleep_list, waiting_list, dying>>
    BY <1>1 DEF SigStp
  <2> QED
    BY <2>1, CalmLemma
<1>2. CASE Stoppable(t)
  <2>1. /\ k_unblock_wait(MoveTo(queue, t, Stopped), waiting_list,
                          [pcbs EXCEPT ![t].status = "STOPPED"], t)
        /\ UNCHANGED <<sleep_list, dying>>
    BY <1>2 DEF SigStp
  <2>2. Placed(t)
    BY IInvMeans
  <2>3. ~On(waiting_list, t) /\ pcb[t].status \notin Gone
    BY <1>2, <2>2 DEF Placed, Stoppable, Gone, Terminated
  <2>4. \A o : On(waiting_list, o) <=> On(waiting_list, o) /\ o # t
    BY <2>3
  <2>5. "STOPPED" \in Reported /\ NoSleeperAdded /\ IsList(waiting_list, Pid)
    BY <2>1, IInvMeans DEF Reported, NoSleeperAdded
  <2> QED
    BY <2>1, <2>3, <2>4, <2>5, MarkLemma
<1> QED
  BY <1>1, <1>2

LEMMA ContinueKind ==
    ASSUME IInv, NEW t \in Pid, NEW pcbs, SameButPc(pcbs), SigCont(t, pcbs),
           t \notin Immune \/ InProgram(Shell)
    PROVE  Kinds
<1>1. UNCHANGED <<sleep_list, waiting_list, dying>>
  BY DEF SigCont
<1>2. CASE pcb[t].status # "STOPPED"
  <2>1. pcb' = pcbs
    BY <1>2 DEF SigCont
  <2> QED
    BY <1>1, <2>1, CalmLemma
<1>3. CASE pcb[t].status = "STOPPED"
  <2>1. PICK status \in {"READY", "BLOCKED"} : pcb' = [pcbs EXCEPT ![t].status = status]
    BY <1>3 DEF SigCont
  <2>2. /\ pcb' \in [Pid -> PCB]
        /\ \A o \in Pid : /\ pcb'[o].status = IF o = t THEN status ELSE pcbs[o].status
                          /\ pcb'[o].ppid = pcbs[o].ppid
                          /\ pcb'[o].pid_waitfor = pcbs[o].pid_waitfor
                          /\ pcb'[o].pc = pcbs[o].pc
    BY <2>1 DEF SameButPc, SameFields, PCB, Status
  <2>3. ~On(waiting_list, t)
    BY <1>3, IInvMeans DEF Placed
  <2>4. Calm
    BY <1>1, <1>3, <2>2, <2>3 DEF Calm, SameButPc, SameFields, NoSleeperAdded
  <2> QED
    BY <2>4 DEF Kinds
<1> QED
  BY <1>2, <1>3

LEMMA KillKind ==
    ASSUME IInv, NEW p \in Pid, NEW t \in Pid, NEW signal, Kill(p, t, signal)
    PROVE  Kinds
<1>1. dying = {} /\ current_pcb \in Pid /\ pcb[current_pcb].ppid = Shell /\ t \notin Immune
  BY DEF Kill, InProgram, Running
<1>2. "return" \in PC \ Waits /\ (t = p /\ Stoppable(t)) \in BOOLEAN
  BY DEF PC, Waits
<1>3. /\ SameButPc([pcb EXCEPT ![p].pc = "return"])
      /\ SameButPc([pcb EXCEPT ![p].pc = "return",
                               ![p].stopping = t = p /\ Stoppable(t)])
  BY <1>2, SameButPcLemma
<1>4. CASE k_terminate(t, "SIGNALED", [pcb EXCEPT ![p].pc = "return"])
  <2>1. "SIGNALED" \in Terminated
    BY DEF Terminated
  <2> QED
    BY <1>1, <1>3, <1>4, <2>1, TerminateKind
<1>5. CASE SigCont(t, [pcb EXCEPT ![p].pc = "return"])
  BY <1>1, <1>3, <1>5, ContinueKind
<1>6. CASE SigStp(t, [pcb EXCEPT ![p].pc = "return",
                                 ![p].stopping = t = p /\ Stoppable(t)])
  BY <1>1, <1>3, <1>6, StopKind
<1> QED
  BY <1>4, <1>5, <1>6 DEF Kill

LEMMA ExitKind ==
    ASSUME IInv, NEW p \in Pid, Exit(p)
    PROVE  Kinds
<1>1. "return" \in PC \ Waits /\ "EXITED" \in Terminated /\ FALSE \in BOOLEAN
  BY DEF PC, Waits, Terminated
<1>2. SameButPc([pcb EXCEPT ![p].pc = "return"])
  BY <1>1, SameButPcLemma
<1>3. /\ k_terminate(p, "EXITED", [pcb EXCEPT ![p].pc = "return"])
      /\ dying = {} /\ p = current_pcb /\ p # Shell
  BY DEF Exit, Running
<1> QED
  BY <1>1, <1>2, <1>3, TerminateKind

LEMMA KeyKind ==
    ASSUME IInv, KeyInt \/ KeyStop
    PROVE  Kinds
<1>1. current_pcb \in Pid /\ current_pcb # Shell /\ dying = {}
  BY ListedIsPid DEF KeyInt, KeyStop, Signalable
<1>2. "user" \in PC \ Waits /\ (ctx = "process") \in BOOLEAN
  BY DEF PC, Waits
<1>3. SameButPc(pcb) /\ SameButPc([pcb EXCEPT ![current_pcb].stopping = (ctx = "process")])
  BY <1>1, <1>2, SameButPcLemma
<1>4. CASE KeyInt
  <2>1. k_terminate(current_pcb, "SIGNALED", pcb) /\ "SIGNALED" \in Terminated
    BY <1>4 DEF KeyInt, Terminated
  <2> QED
    BY <1>1, <1>3, <2>1, TerminateKind
<1>5. CASE KeyStop
  <2>1. SigStp(current_pcb, [pcb EXCEPT ![current_pcb].stopping = (ctx = "process")])
    BY <1>5 DEF KeyStop
  <2> QED
    BY <1>1, <1>3, <2>1, StopKind
<1> QED
  BY <1>4, <1>5

LEMMA SwitchKind ==
    ASSUME IInv, NEW p \in Pid, Switch(p)
    PROVE  Kinds
<1>1. pcb \in [Pid -> PCB] /\ pcb[p] \in PCB
  BY IInvMeans
<1>2. \/ pcb' = [pcb EXCEPT ![p].stopping = FALSE]
      \/ pcb' = [pcb EXCEPT ![p].pc = "user"]
      \/ pcb[p].pc = "wait_switch" /\ pcb' = [pcb EXCEPT ![p].pc = "wait_resume"]
  BY DEF Switch
<1> USE DEF SameButPc, SameFields, PCB, PC, Waits
<1>3. CASE pcb' = [pcb EXCEPT ![p].stopping = FALSE]
  <2> SameButPc(pcb')
    BY <1>1, <1>3
  <2> QED
    BY CalmLemma DEF Switch
<1>4. CASE pcb' = [pcb EXCEPT ![p].pc = "user"]
  <2> SameButPc(pcb')
    BY <1>1, <1>4
  <2> QED
    BY CalmLemma DEF Switch
<1>5. CASE pcb[p].pc = "wait_switch" /\ pcb' = [pcb EXCEPT ![p].pc = "wait_resume"]
  <2> SameButPc(pcb')
    BY <1>1, <1>5
  <2> QED
    BY CalmLemma DEF Switch
<1> QED
  BY <1>2, <1>3, <1>4, <1>5

LEMMA SpawnKind ==
    ASSUME IInv, NEW p \in Pid, Spawn(p)
    PROVE  Kinds
<1>1. PICK c \in k_find_available_pid : pcb' = [pcb EXCEPT ![c] = NewPCB(p, MED)]
  BY DEF Spawn
<1>2. c \in Pid /\ pcb[c].status = "FREE"
  BY ListedIsPid DEF k_find_available_pid
<1>3. NewPCB(p, MED) \in PCB
  BY DEF NewPCB, FreePCB, PCB, Status, PC, MED
<1>4. /\ pcb' \in [Pid -> PCB] /\ pcb'[c] = NewPCB(p, MED)
      /\ \A o \in Pid \ {c} : pcb'[o] = pcb[o]
  BY <1>1, <1>2, <1>3, IInvMeans
<1>5. Spawns(p, c)
  BY <1>2, <1>4 DEF Spawn, Spawns, SameFields
<1> QED
  BY <1>2, <1>5 DEF Kinds

LEMMA SleepKind ==
    ASSUME IInv, NEW p \in Pid, NEW t \in Ticks, Sleep(p, t)
    PROVE  Kinds
<1>1. t \in Nat
  BY TicksAssumption
<1>2. /\ pcb' \in [Pid -> PCB] /\ \A o \in Pid \ {p} : pcb'[o] = pcb[o]
      /\ pcb'[p].status = "BLOCKED" /\ pcb'[p].ppid = pcb[p].ppid
      /\ pcb'[p].pc = "sleep_switch"
  <2>1. pcb \in [Pid -> PCB] /\ pcb[p] \in PCB
    BY IInvMeans
  <2>2. pcb' = [pcb EXCEPT ![p].sleep_remain = t, ![p].status = "BLOCKED",
                           ![p].pc = "sleep_switch"]
    BY DEF Sleep
  <2> QED
    BY <1>1, <2>1, <2>2 DEF PCB, Status, PC
<1>3. \A o : On(sleep_list', o) => On(sleep_list, o) \/ o = p
  <2>1. IsList(sleep_list, Pid) /\ sleep_list' = k_add_tail(sleep_list, p)
    BY IInvMeans DEF Sleep
  <2>2. ~On(sleep_list, p)
    <3>1. Executing(p) /\ pcb[p].pc = "user"
      BY DEF Sleep, InProgram, Running, Executing
    <3> QED
      BY <3>1, ExecutingIsAwake
  <2> QED
    BY <2>1, <2>2, AddTailLemma
<1>4. Sleeps(p)
  BY <1>2, <1>3 DEF Sleep, Sleeps, BlocksIn, SameFields
<1> QED
  BY <1>4 DEF Kinds

LEMMA WaitBlockKind ==
    ASSUME IInv, NEW p \in Pid, NEW target \in Pid \cup {AnyChild}, WaitBlock(p, target)
    PROVE  Kinds
<1>1. /\ pcb' \in [Pid -> PCB] /\ \A o \in Pid \ {p} : pcb'[o] = pcb[o]
      /\ pcb'[p].status = "BLOCKED" /\ pcb'[p].ppid = pcb[p].ppid
      /\ pcb'[p].pid_waitfor = target
  <2>1. pcb \in [Pid -> PCB] /\ pcb[p] \in PCB
    BY IInvMeans
  <2>2. pcb' = [pcb EXCEPT ![p].pid_waitfor = target, ![p].status = "BLOCKED",
                           ![p].pc = "wait_switch"]
    BY DEF WaitBlock
  <2> QED
    BY <2>1, <2>2 DEF PCB, Status, PC
<1>2. \A o : On(waiting_list', o) <=> On(waiting_list, o) \/ o = p
  <2>1. IsList(waiting_list, Pid) /\ waiting_list' = k_add_tail(waiting_list, p)
    BY IInvMeans DEF WaitBlock
  <2>2. ~On(waiting_list, p)
    <3>1. Executing(p) /\ pcb[p].pc = "user"
      BY DEF WaitBlock, InProgram, Running, Executing
    <3> QED
      BY <3>1, ExecutingIsAwake
  <2> QED
    BY <2>1, <2>2, AddTailLemma
<1>3. ASSUME NEW c \in Pid, pcb[c].status \in Reported
      PROVE  ~WaitsOn(p, target, c)
  <2>1. FoundIn(Zombie, p, target) = {} /\ FoundIn(Stopped, p, target) = {}
    BY DEF WaitBlock
  <2>2. c \in Range(queue[Zombie]) \/ c \in Range(queue[Stopped])
    BY <1>3, StatusOfList DEF Reported, On
  <2> QED
    BY <2>1, <2>2 DEF FoundIn, Matches, WaitsOn
<1>4. target # AnyChild => target \in Pid /\ pcb[target].ppid = p /\ pcb[target].status # "FREE"
  BY ListedIsPid DEF WaitBlock, Targets
<1>5. WaitsFor(p, target)
  BY <1>1, <1>2, <1>3, <1>4 DEF WaitBlock, WaitsFor, BlocksIn, SameFields
<1> QED
  BY <1>5 DEF Kinds

\* Reaping: the zombie that is found is freed, or nothing happens.
LEMMA ReapKind ==
    ASSUME IInv, NEW p \in Pid, NEW target, NEW pcbs, SameButPc(pcbs),
           ReapFound(p, target, pcbs), UNCHANGED <<sleep_list, waiting_list, dying>>,
           Running(p), ~pcb[p].stopping, pcb[p].pc \in {"user", "wait_resume"},
           pcbs[p].pc = "user",
           \A c \in Pid : target = c => pcb[c].ppid = p \/ (pcb[p].pc = "wait_resume" /\ pcb[p].pid_waitfor = c)
    PROVE  Kinds
<1>1. CASE FoundIn(Zombie, p, target) = {}
  <2>1. pcb' = pcbs
    BY <1>1 DEF ReapFound
  <2> QED
    BY <2>1, CalmLemma
<1>2. CASE FoundIn(Zombie, p, target) # {}
  <2>1. PICK c \in FoundIn(Zombie, p, target) : pcb' = [pcbs EXCEPT ![c] = FreePCB]
    BY <1>2, FirstFoundLemma DEF ReapFound, Zombie, ListId
  <2>2. c \in Pid /\ pcb[c].status \in Terminated
    <3>1. On(queue[Zombie], c) /\ Zombie \in ListId
      BY <2>1 DEF FoundIn, On, Zombie, ListId
    <3>2. Listed(queue, c)
      BY <3>1 DEF Listed, ListsOf
    <3> QED
      BY <3>1, <3>2, ListedIsPid, StatusOfList
  <2>3. FreePCB \in PCB /\ FreePCB.pc = "user"
    BY DEF FreePCB, PCB, Status, PC, MED
  <2>4. /\ pcb' \in [Pid -> PCB] /\ pcb'[c] = FreePCB
        /\ \A o \in Pid \ {c} : pcb'[o] = pcbs[o]
    BY <2>1, <2>2, <2>3 DEF SameButPc, SameFields
  <2>5. pcb'[p].pc = "user"
    BY <2>3, <2>4
  <2>6. ~On(waiting_list, c)
    BY <2>2, IInvMeans DEF Placed, Terminated
  <2>7. pcb[c].ppid = p \/ (pcb[p].pc = "wait_resume" /\ pcb[p].pid_waitfor = c)
    BY <2>1, <2>2 DEF FoundIn, Matches
  <2>8. Frees(c)
    BY <2>2, <2>4, <2>6 DEF Frees, SameButPc, SameFields, NoSleeperAdded
  <2>9. Reaps(p, c)
    BY <2>2, <2>5, <2>7, <2>8 DEF Reaps
  <2> QED
    BY <2>2, <2>9 DEF Kinds
<1> QED
  BY <1>1, <1>2

LEMMA WaitFoundKind ==
    ASSUME IInv, NEW p \in Pid, NEW target, WaitFound(p, target)
    PROVE  Kinds
<1>1. SameButPc(pcb)
  BY IInvMeans DEF SameButPc, SameFields
<1>2. \A c \in Pid : target = c => pcb[c].ppid = p
  BY DEF WaitFound, Targets, AnyChild, Pid
<1> QED
  BY <1>1, <1>2, ReapKind DEF WaitFound, InProgram

LEMMA WaitResumeKind ==
    ASSUME IInv, NEW p \in Pid, WaitResume(p)
    PROVE  Kinds
<1> DEFINE pcbs == [pcb EXCEPT ![p].pc = "user"]
<1>1. "user" \in PC \ Waits /\ FALSE \in BOOLEAN
  BY DEF PC, Waits
<1>2. SameButPc(pcbs)
  BY <1>1, SameButPcLemma
<1>3. pcbs[p].pc = "user"
  <2> pcb \in [Pid -> PCB] /\ pcb[p] \in PCB
    BY IInvMeans
  <2> QED
    BY DEF PCB
<1>4. /\ Running(p) /\ ~pcb[p].stopping /\ pcb[p].pc = "wait_resume"
      /\ ReapFound(p, pcb[p].pid_waitfor, pcbs)
      /\ UNCHANGED <<sleep_list, waiting_list, dying>>
  BY DEF WaitResume
<1> HIDE DEF pcbs
<1> QED
  BY <1>2, <1>3, <1>4, ReapKind

LEMMA NiceKind ==
    ASSUME IInv, NEW t \in Pid, NEW priority \in Levels, Nice(t, priority)
    PROVE  Kinds
<1>1. pcb \in [Pid -> PCB] /\ pcb[t] \in PCB /\ priority \in {HIGH, MED, LOW}
  BY IInvMeans, LevelsAssumption DEF HIGH, MED, LOW
<1>2. pcb' = [pcb EXCEPT ![t].process_priority = priority]
  BY DEF Nice
<1>3. SameButPc(pcb')
  BY <1>1, <1>2 DEF SameButPc, SameFields, PCB
<1> QED
  BY <1>3, CalmLemma DEF Nice

LEMMA ShellContinuesKind ==
    ASSUME IInv, NEW t \in Pid, Continue(t)
    PROVE  Kinds
<1>1. SameButPc(pcb)
  BY IInvMeans DEF SameButPc, SameFields
<1> QED
  BY <1>1, ContinueKind DEF Continue

LEMMA OrphanKind ==
    ASSUME IInv, OrphanStep
    PROVE  Kinds
<1>1. PICK d \in dying :
         LET children == {c \in Pid : Listed(queue, c) /\ pcb[c].ppid = d} IN
         IF children = {}
         THEN /\ dying' = dying \ {d}
              /\ UNCHANGED <<queue, sleep_list, waiting_list, pcb>>
         ELSE \E c \in children :
              /\ queue' = k_delete_in_processlists(queue, c)
              /\ waiting_list' = k_delete(waiting_list, c)
              /\ sleep_list' = k_delete(sleep_list, c)
              /\ pcb' = [pcb EXCEPT ![c] = FreePCB]
              /\ dying' = dying \cup {c}
  BY DEF OrphanStep
<1> DEFINE children == {c \in Pid : Listed(queue, c) /\ pcb[c].ppid = d}
<1>2. CASE children = {}
  <2>1. \A c \in Pid : pcb[c].ppid = d => pcb[c].status = "FREE"
    BY <1>2, StatusOfList
  <2>2. SweepEnds(d)
    BY <1>1, <1>2, <2>1 DEF SweepEnds
  <2> QED
    BY <2>2 DEF Kinds
<1>3. CASE children # {}
  <2>1. PICK c \in children :
              /\ waiting_list' = k_delete(waiting_list, c)
              /\ sleep_list' = k_delete(sleep_list, c)
              /\ pcb' = [pcb EXCEPT ![c] = FreePCB]
              /\ dying' = dying \cup {c}
    BY <1>1, <1>3
  <2>2. c \in Pid /\ pcb[c].status # "FREE" /\ pcb[c].ppid = d
    BY StatusOfList
  <2>3. FreePCB \in PCB
    BY DEF FreePCB, PCB, Status, PC, MED
  <2>4. /\ pcb' \in [Pid -> PCB] /\ pcb'[c] = FreePCB
        /\ \A o \in Pid \ {c} : pcb'[o] = pcb[o]
    BY <2>1, <2>2, <2>3, IInvMeans
  <2>5. \A o : /\ On(sleep_list', o) <=> On(sleep_list, o) /\ o # c
               /\ On(waiting_list', o) <=> On(waiting_list, o) /\ o # c
    BY <2>1, IInvMeans, DeleteLemma
  <2>6. Frees(c)
    BY <2>4, <2>5 DEF Frees, SameFields, NoSleeperAdded
  <2>7. Sweeps(d, c)
    BY <2>1, <2>2, <2>6 DEF Sweeps
  <2> QED
    BY <2>2, <2>7 DEF Kinds
<1> QED
  BY <1>2, <1>3

LEMMA AlarmStepKind ==
    ASSUME IInv, AlarmStep
    PROVE  Kinds
<1>1. UNCHANGED <<waiting_list, dying>>
  BY DEF AlarmStep
<1>2. CASE cursor > Len(sleep_list)
  <2>1. UNCHANGED <<sleep_list, pcb>>
    BY <1>2 DEF AlarmStep
  <2>2. SameButPc(pcb')
    BY <2>1, IInvMeans DEF SameButPc, SameFields
  <2> QED
    BY <1>1, <2>1, <2>2, CalmLemma
<1>3. CASE ~(cursor > Len(sleep_list))
  <2> DEFINE p      == sleep_list[cursor]
             remain == Countdown(pcb[p].sleep_remain)
             awake  == [pcb EXCEPT ![p].sleep_remain = remain, ![p].status = "READY"]
             next   == sleep_list[cursor + 1]
  <2>1. IF remain < 0 /\ pcb[p].status = "BLOCKED"
        THEN /\ sleep_list' = k_delete(sleep_list, p)
             /\ pcb' = IF cursor < Len(sleep_list)
                       THEN [awake EXCEPT ![next].sleep_remain = Countdown(awake[next].sleep_remain)]
                       ELSE awake
        ELSE /\ pcb' = [pcb EXCEPT ![p].sleep_remain = remain]
             /\ UNCHANGED sleep_list
    BY <1>3 DEF AlarmStep
  <2>2. /\ p \in Pid /\ On(sleep_list, p)
        /\ cursor < Len(sleep_list) => next \in Pid
    <3>1. sleep_list \in Seq(Pid) /\ Len(sleep_list) \in Nat
      BY IInvMeans, LenProperties DEF IsList
    <3>2. cursor \in 1 .. Len(sleep_list)
      BY <1>3, <3>1, IInvMeans DEF AlarmStep
    <3>3. cursor < Len(sleep_list) => cursor + 1 \in 1 .. Len(sleep_list)
      BY <3>1, <3>2
    <3> QED
      BY <3>1, <3>2, <3>3, ElementOfSeq, OnPosition
  <2>3. /\ pcb \in [Pid -> PCB] /\ pcb[p] \in PCB
        /\ remain \in Nat \cup {-1}
    <3>1. pcb \in [Pid -> PCB] /\ pcb[p] \in PCB
      BY <2>2, IInvMeans
    <3>2. pcb[p].sleep_remain \in Nat \cup {-1}
      BY <3>1 DEF PCB
    <3> QED
      BY <3>1, <3>2 DEF Countdown
  <2> HIDE DEF p, next, remain
  <2>4. CASE ~(remain < 0 /\ pcb[p].status = "BLOCKED")
    <3>1. pcb' = [pcb EXCEPT ![p].sleep_remain = remain] /\ UNCHANGED sleep_list
      BY <2>1, <2>4
    <3>2. SameButPc(pcb')
      BY <2>2, <2>3, <3>1 DEF SameButPc, SameFields, PCB
    <3> QED
      BY <1>1, <3>1, <3>2, CalmLemma
  <2>5. CASE remain < 0 /\ pcb[p].status = "BLOCKED"
    <3>1. /\ awake \in [Pid -> PCB]
          /\ \A o \in Pid : /\ awake[o].status = IF o = p THEN "READY" ELSE pcb[o].status
                            /\ awake[o].ppid = pcb[o].ppid
                            /\ awake[o].pid_waitfor = pcb[o].pid_waitfor
                            /\ awake[o].pc = pcb[o].pc
      BY <2>2, <2>3 DEF PCB, Status
    <3>2. /\ sleep_list' = k_delete(sleep_list, p)
          /\ \/ /\ next \in Pid
                /\ pcb' = [awake EXCEPT ![next].sleep_remain = Countdown(awake[next].sleep_remain)]
             \/ pcb' = awake
      BY <2>1, <2>2, <2>5
    <3> HIDE DEF awake
    <3>3. /\ pcb' \in [Pid -> PCB]
          /\ \A o \in Pid : /\ pcb'[o].status = awake[o].status
                            /\ pcb'[o].ppid = awake[o].ppid
                            /\ pcb'[o].pid_waitfor = awake[o].pid_waitfor
                            /\ pcb'[o].pc = awake[o].pc
      <4>1. CASE pcb' = awake
        BY <4>1, <3>1
      <4>2. CASE /\ next \in Pid
                 /\ pcb' = [awake EXCEPT ![next].sleep_remain = Countdown(awake[next].sleep_remain)]
        <5>1. awake[next] \in PCB /\ awake[next].sleep_remain \in Nat \cup {-1}
          BY <4>2, <3>1 DEF PCB
        <5>2. Countdown(awake[next].sleep_remain) \in Nat \cup {-1}
          BY <5>1 DEF Countdown
        <5> QED
          BY <4>2, <3>1, <5>1, <5>2 DEF PCB
      <4> QED
        BY <3>2, <4>1, <4>2
    <3>4. \A o : On(sleep_list', o) => On(sleep_list, o)
      BY <3>2, IInvMeans, DeleteLemma
    <3>5. ~On(waiting_list, p)
      BY <2>2, <2>5, IInvMeans DEF Placed
    <3>6. Calm
      BY <1>1, <2>5, <3>1, <3>3, <3>4, <3>5 DEF Calm, SameFields, NoSleeperAdded
    <3> QED
      BY <3>6 DEF Kinds
  <2> QED
    BY <2>4, <2>5
<1> QED
  BY <1>2, <1>3

\* Steps that leave PCBs and waiting processes alone.
LEMMA QuietKind ==
    ASSUME IInv, UNCHANGED <<sleep_list, waiting_list, pcb, dying>>
    PROVE  Kinds
<1>1. SameButPc(pcb')
  BY IInvMeans DEF SameButPc, SameFields
<1> QED
  BY <1>1, CalmLemma

LEMMA KindsLemma ==
    ASSUME IInv, [Next]_vars
    PROVE  Kinds
<1>1. ASSUME NEW p \in Pid, Process(p)
      PROVE  Kinds
  <2>1. CASE Spawn(p)
    BY <2>1, SpawnKind
  <2>2. CASE \E t \in Ticks : Sleep(p, t)
    BY <2>2, SleepKind
  <2>3. CASE \E target \in Pid \cup {AnyChild} : WaitFound(p, target) \/ WaitBlock(p, target)
    BY <2>3, WaitFoundKind, WaitBlockKind
  <2>4. CASE WaitResume(p)
    BY <2>4, WaitResumeKind
  <2>5. CASE Switch(p)
    BY <2>5, SwitchKind
  <2>6. CASE \E t \in Pid, signal \in {"S_SIGTERM", "S_SIGCONT", "S_SIGSTP"} : Kill(p, t, signal)
    BY <2>6, KillKind
  <2>7. CASE Exit(p)
    BY <2>7, ExitKind
  <2> QED
    BY <1>1, <2>1, <2>2, <2>3, <2>4, <2>5, <2>6, <2>7 DEF Process
<1>2. ASSUME NEW t \in Pid, Continue(t)
      PROVE  Kinds
  BY <1>2, ShellContinuesKind
<1>3. ASSUME NEW t \in Pid, NEW priority \in Levels, Nice(t, priority)
      PROVE  Kinds
  BY <1>3, NiceKind
<1>4. CASE OrphanStep
  BY <1>4, OrphanKind
<1>5. CASE KeyInt \/ KeyStop
  BY <1>5, KeyKind
<1>6. CASE AlarmStep
  BY <1>6, AlarmStepKind
<1>7. CASE IdleSwitch \/ Alarm \/ Idle \/ (\E l \in ReadyLists : Schedule(l)) \/ UNCHANGED vars
  BY <1>7, QuietKind DEF IdleSwitch, Alarm, Idle, Schedule, vars
<1> QED
  BY <1>1, <1>2, <1>3, <1>4, <1>5, <1>6, <1>7 DEF Next
-----------------------------------------------------------------------------
(* No wakeup is lost, for all constants. *)

Quiet ==
    \A w, c \in Pid :
        On(waiting_list, w) /\ pcb[c].status \in Reported => ~Awaits(w, c)

Chosen ==
    \A w \in Pid :
        On(waiting_list, w) /\ pcb[w].pid_waitfor # AnyChild =>
            /\ pcb[w].pid_waitfor \in Pid
            /\ pcb[pcb[w].pid_waitfor].ppid = w
            /\ pcb[pcb[w].pid_waitfor].status # "FREE"

DyingDead == \A d \in dying : pcb[d].status \in Gone

\* Chosen makes the waker of a wait unique, without which k_unblock_wait, which
\* wakes one process only, could leave a second one behind.
SafeInv == Quiet /\ Chosen /\ DyingDead

\* Whoever awaits c is its parent.
LEMMA AwaitedByParent ==
    ASSUME Chosen, NEW w \in Pid, NEW c \in Pid, On(waiting_list, w), Awaits(w, c)
    PROVE  pcb[c].ppid = w
BY DEF Chosen, Awaits, AnyChild, Pid

LEMMA WaitingIsBlocked ==
    ASSUME IInv, NEW w \in Pid, On(waiting_list, w)
    PROVE  pcb[w].status = "BLOCKED"
BY IInvMeans DEF Placed

LEMMA CalmSafe ==
    ASSUME IInv, SafeInv, Calm
    PROVE  SafeInv'
<1>1. \A o \in Pid : pcb'[o].status \in Reported \cup Gone => pcb'[o].status = pcb[o].status
  BY DEF Calm, Reported, Gone, Terminated
<1>2. \A o \in Pid : /\ On(waiting_list', o) <=> On(waiting_list, o)
                     /\ pcb'[o].ppid = pcb[o].ppid
                     /\ pcb'[o].pid_waitfor = pcb[o].pid_waitfor
  BY DEF Calm, SameFields
<1>3. Quiet'
  BY <1>1, <1>2 DEF SafeInv, Quiet, Awaits
<1>4. Chosen'
  BY <1>1, <1>2 DEF SafeInv, Chosen, Gone
<1>5. DyingDead'
  <2>1. \A o \in Pid : pcb[o].status \in Gone => pcb'[o].status = pcb[o].status
    BY DEF Calm, Gone, Terminated
  <2> QED
    BY <2>1, IInvMeans DEF Calm, SafeInv, DyingDead
<1> QED
  BY <1>3, <1>4, <1>5 DEF SafeInv

LEMMA MarksSafe ==
    ASSUME IInv, SafeInv, NEW t \in Pid, NEW how \in Reported, NEW woken \in SUBSET Pid,
           Marks(t, how, woken)
    PROVE  SafeInv'
<1>1. \A o \in Pid : /\ On(waiting_list', o) <=> On(waiting_list, o) /\ o # t /\ o \notin woken
                     /\ pcb'[o].ppid = pcb[o].ppid
                     /\ pcb'[o].pid_waitfor = pcb[o].pid_waitfor
                     /\ pcb'[o].status = IF o = t THEN how
                                         ELSE IF o \in woken THEN "READY" ELSE pcb[o].status
  BY DEF Marks, SameFields
<1>2. "READY" \notin Reported \cup Gone /\ "FREE" \notin Reported
  BY DEF Reported, Gone, Terminated
<1>3. Quiet'
  <2> SUFFICES ASSUME NEW w \in Pid, NEW c \in Pid,
                      On(waiting_list', w), pcb'[c].status \in Reported, Awaits(w, c)'
               PROVE  FALSE
    BY DEF Quiet
  <2>1. On(waiting_list, w) /\ w # t /\ w \notin woken /\ Awaits(w, c)
    BY <1>1 DEF Awaits
  <2>2. CASE c # t
    BY <1>1, <1>2, <2>1, <2>2 DEF SafeInv, Quiet
  <2>3. CASE c = t /\ woken = {}
    BY <2>1, <2>3 DEF Marks
  <2>4. CASE c = t /\ woken # {}
    <3>1. PICK o \in woken : On(waiting_list, o) /\ Awaits(o, t)
      BY <2>4 DEF Marks
    <3>2. pcb[t].ppid = o /\ pcb[t].ppid = w
      BY <2>1, <2>4, <3>1, AwaitedByParent DEF SafeInv
    <3> QED
      BY <2>1, <3>1, <3>2
  <2> QED
    BY <2>2, <2>3, <2>4
<1>4. Chosen'
  <2>1. \A o \in Pid : pcb[o].status # "FREE" => pcb'[o].status # "FREE"
    BY <1>1, <1>2
  <2> QED
    BY <1>1, <2>1 DEF SafeInv, Chosen
<1>5. DyingDead'
  <2>1. ASSUME NEW d \in dying
        PROVE  pcb'[d].status \in Gone
    <3>1. d \in Pid /\ pcb[d].status \in Gone
      BY IInvMeans DEF SafeInv, DyingDead
    <3>2. d # t
      BY <3>1 DEF Marks
    <3>3. d \notin woken
      BY <3>1, WaitingIsBlocked DEF Marks, Gone, Terminated
    <3> QED
      BY <1>1, <3>1, <3>2, <3>3
  <2>2. how \in Terminated => pcb'[t].status \in Gone
    BY <1>1 DEF Gone
  <2> QED
    BY <2>1, <2>2 DEF Marks, DyingDead
<1> QED
  BY <1>3, <1>4, <1>5 DEF SafeInv

\* Freeing c is safe when nobody awaits it.
LEMMA FreesSafe ==
    ASSUME IInv, SafeInv, NEW c \in Pid, Frees(c),
           \A w \in Pid : On(waiting_list, w) => pcb[w].pid_waitfor # c
    PROVE  /\ Quiet' /\ Chosen'
           /\ \A d \in dying \cup {c} : pcb'[d].status \in Gone
<1>1. \A o \in Pid : On(waiting_list', o) <=> On(waiting_list, o) /\ o # c
  BY DEF Frees
<1>2. \A o \in Pid \ {c} : /\ pcb'[o].ppid = pcb[o].ppid
                           /\ pcb'[o].pid_waitfor = pcb[o].pid_waitfor
                           /\ pcb'[o].status = pcb[o].status
  BY DEF Frees, SameFields
<1>3. pcb'[c].status = "FREE"
  BY DEF Frees, FreePCB
<1>4. Quiet'
  BY <1>1, <1>2, <1>3 DEF SafeInv, Quiet, Awaits, Reported, Terminated
<1>5. Chosen'
  BY <1>1, <1>2 DEF SafeInv, Chosen
<1>6. \A d \in dying \cup {c} : pcb'[d].status \in Gone
  BY <1>2, <1>3, IInvMeans DEF SafeInv, DyingDead, Gone
<1> QED
  BY <1>4, <1>5, <1>6

LEMMA ReapsSafe ==
    ASSUME IInv, SafeInv, NEW p \in Pid, NEW c \in Pid, Reaps(p, c)
    PROVE  SafeInv'
<1>1. \A w \in Pid : On(waiting_list, w) => pcb[w].pid_waitfor # c
  BY DEF Reaps, SafeInv, Quiet, Awaits, Reported
<1> QED
  BY <1>1, FreesSafe DEF Reaps, SafeInv, DyingDead

LEMMA SweepsSafe ==
    ASSUME IInv, SafeInv, NEW d \in dying, NEW c \in Pid, Sweeps(d, c)
    PROVE  SafeInv'
<1>1. d \in Pid /\ pcb[d].status \in Gone
  BY IInvMeans DEF SafeInv, DyingDead
<1>2. \A w \in Pid : On(waiting_list, w) => pcb[w].pid_waitfor # c
  BY <1>1, WaitingIsBlocked DEF Sweeps, SafeInv, Chosen, Gone, Terminated, AnyChild, Pid
<1> QED
  BY <1>2, FreesSafe DEF Sweeps, SafeInv, DyingDead

LEMMA SpawnsSafe ==
    ASSUME IInv, SafeInv, NEW p \in Pid, NEW c \in Pid, Spawns(p, c)
    PROVE  SafeInv'
<1>1. \A o \in Pid \ {c} : /\ pcb'[o].ppid = pcb[o].ppid
                           /\ pcb'[o].pid_waitfor = pcb[o].pid_waitfor
                           /\ pcb'[o].status = pcb[o].status
  BY DEF Spawns, SameFields
<1>2. ~On(waiting_list, c) /\ waiting_list' = waiting_list
  BY WaitingIsBlocked DEF Spawns
<1>3. pcb'[c].status = "READY"
  BY DEF Spawns, NewPCB, FreePCB
<1>4. Quiet'
  BY <1>1, <1>2, <1>3 DEF SafeInv, Quiet, Awaits, Reported, Terminated
<1>5. Chosen'
  <2>1. pcb[c].status = "FREE"
    BY DEF Spawns
  <2>2. \A o \in Pid : pcb[o].status # "FREE" => o # c /\ pcb'[o].status # "FREE"
    BY <1>1, <2>1
  <2> QED
    BY <1>1, <1>2, <2>2, WaitingIsBlocked DEF SafeInv, Chosen
<1>6. DyingDead'
  BY DEF Spawns, InProgram, Running, DyingDead
<1> QED
  BY <1>4, <1>5, <1>6 DEF SafeInv

\* A process that blocks in a call was on neither list.
LEMMA BlocksMeans ==
    ASSUME IInv, NEW p \in Pid, BlocksIn(p)
    PROVE  /\ ~On(waiting_list, p) /\ ~On(sleep_list, p)
           /\ \A o \in Pid : pcb'[o].ppid = pcb[o].ppid
           /\ \A o \in Pid \ {p} : /\ pcb'[o].pid_waitfor = pcb[o].pid_waitfor
                                   /\ pcb'[o].status = pcb[o].status
           /\ pcb'[p].status = "BLOCKED"
           /\ dying = {} /\ dying' = {}
<1>1. Executing(p) /\ pcb[p].pc = "user"
  BY DEF BlocksIn, InProgram, Running, Executing
<1> QED
  BY <1>1, ExecutingIsAwake DEF BlocksIn, SameFields, InProgram, Running

LEMMA SleepsSafe ==
    ASSUME IInv, SafeInv, NEW p \in Pid, Sleeps(p)
    PROVE  SafeInv'
<1> BlocksIn(p) /\ waiting_list' = waiting_list
  BY DEF Sleeps
<1>1. Quiet'
  BY BlocksMeans DEF SafeInv, Quiet, Awaits, Reported, Terminated
<1>2. Chosen'
  BY BlocksMeans DEF SafeInv, Chosen
<1>3. DyingDead'
  BY BlocksMeans DEF DyingDead
<1> QED
  BY <1>1, <1>2, <1>3 DEF SafeInv

LEMMA WaitsForSafe ==
    ASSUME IInv, SafeInv, NEW p \in Pid, NEW target \in Pid \cup {AnyChild},
           WaitsFor(p, target)
    PROVE  SafeInv'
<1> BlocksIn(p)
  BY DEF WaitsFor
<1>1. /\ pcb'[p].pid_waitfor = target
      /\ \A o \in Pid : On(waiting_list', o) <=> On(waiting_list, o) \/ o = p
  BY DEF WaitsFor
<1>2. Quiet'
  <2> SUFFICES ASSUME NEW w \in Pid, NEW c \in Pid,
                      On(waiting_list', w), pcb'[c].status \in Reported, Awaits(w, c)'
               PROVE  FALSE
    BY DEF Quiet
  <2>1. c # p /\ pcb[c].status \in Reported /\ pcb'[c].ppid = pcb[c].ppid
    BY BlocksMeans DEF Reported, Terminated
  <2>2. CASE w = p
    BY <1>1, <2>1, <2>2 DEF WaitsFor, WaitsOn, Awaits
  <2>3. CASE w # p
    BY <1>1, <2>1, <2>3, BlocksMeans DEF SafeInv, Quiet, Awaits
  <2> QED
    BY <2>2, <2>3
<1>3. Chosen'
  BY <1>1, BlocksMeans DEF WaitsFor, SafeInv, Chosen
<1>4. DyingDead'
  BY BlocksMeans DEF DyingDead
<1> QED
  BY <1>2, <1>3, <1>4 DEF SafeInv

LEMMA InitSafe ==
    ASSUME Init
    PROVE  SafeInv
BY InitIInv, IInvMeans DEF Init, SafeInv, Quiet, Chosen, DyingDead, On, Range

LEMMA NextSafe ==
    ASSUME IInv, SafeInv, [Next]_vars
    PROVE  SafeInv'
<1>1. CASE \E d \in dying : SweepEnds(d)
  BY <1>1 DEF SweepEnds, SafeInv, Quiet, Chosen, DyingDead, Awaits
<1> QED
  BY <1>1, KindsLemma, CalmSafe, MarksSafe, ReapsSafe, SweepsSafe, SpawnsSafe,
     SleepsSafe, WaitsForSafe DEF Kinds

THEOREM SafeInvariant == Spec => [](IInv /\ SafeInv)
<1>1. Init => IInv /\ SafeInv
  BY InitIInv, InitSafe
<1>2. IInv /\ SafeInv /\ [Next]_vars => (IInv /\ SafeInv)'
  BY NextIInv, NextSafe
<1> QED
  BY <1>1, <1>2, PTL DEF Spec

LEMMA WaitingIsPid ==
    ASSUME IInv, NEW w, On(waiting_list, w)
    PROVE  w \in Pid
BY IInvMeans, OnPosition, ElementOfSeq DEF IsList

\* No process waits for what has already happened.
THEOREM WakeupNotLost == Spec => []NoLostWakeup
<1>1. IInv /\ SafeInv => NoLostWakeup
  <2> SUFFICES ASSUME IInv, SafeInv, NEW w, On(waiting_list, w), NEW c, NEW l \in {Zombie, Stopped},
                      c \in FoundIn(l, w, pcb[w].pid_waitfor)
               PROVE  FALSE
    BY DEF NoLostWakeup, On
  <2>1. On(queue[l], c) /\ l \in ListId /\ Matches(c, w, pcb[w].pid_waitfor)
    BY DEF FoundIn, On, Zombie, Stopped, ListId
  <2>2. c \in Pid /\ w \in Pid
    <3>1. Listed(queue, c)
      BY <2>1 DEF Listed, ListsOf
    <3> QED
      BY <3>1, ListedIsPid, WaitingIsPid
  <2>3. pcb[c].status \in Reported
    BY <2>1, <2>2, StatusOfList DEF Reported
  <2>4. Awaits(w, c)
    BY <2>1, <2>2 DEF Matches, Awaits
  <2> QED
    BY <2>2, <2>3, <2>4 DEF SafeInv, Quiet
<1> QED
  BY <1>1, SafeInvariant, PTL

\* Who waits for one pid waits for a child of its own that still exists.
THEOREM AwaitedChildLives == Spec => []WaitedChildExists
<1>1. IInv /\ SafeInv => WaitedChildExists
  <2> SUFFICES ASSUME IInv, SafeInv, NEW w \in Range(waiting_list)
               PROVE  LET c == pcb[w].pid_waitfor IN
                      c # AnyChild => c \in Pid /\ Listed(queue, c) /\ pcb[c].ppid = w
    BY DEF WaitedChildExists
  <2>1. On(waiting_list, w) /\ w \in Pid
    BY WaitingIsPid DEF On
  <2> QED
    BY <2>1, StatusOfList DEF SafeInv, Chosen
<1> QED
  BY <1>1, SafeInvariant, PTL
-----------------------------------------------------------------------------
(* When the kill command is not aimed at the shell. *)

\* The shell never stops, sleeps or dies.
ShellInv ==
    /\ pcb[Shell].status \in {"READY", "BLOCKED"}
    /\ pcb[Shell].ppid = NoPid
    /\ ~On(sleep_list, Shell)

LEMMA ShellIsPid == Shell \in Pid /\ NoPid \notin Pid
BY MaxPidAssumption DEF Shell, Pid, NoPid

LEMMA NextShell ==
    ASSUME Shell \in Immune, IInv, SafeInv, ShellInv, [Next]_vars
    PROVE  ShellInv'
<1> USE ShellIsPid DEF ShellInv
<1>1. CASE Calm
  BY <1>1 DEF Calm, SameFields, NoSleeperAdded
<1>2. ASSUME NEW t \in Pid, NEW how \in Reported, NEW woken \in SUBSET Pid,
             Marks(t, how, woken)
      PROVE  ShellInv'
  BY <1>2 DEF Marks, SameFields, NoSleeperAdded
<1>3. ASSUME NEW c \in Pid, Frees(c), c # Shell
      PROVE  ShellInv'
  BY <1>3 DEF Frees, SameFields, NoSleeperAdded
<1>4. ASSUME NEW p \in Pid, NEW c \in Pid, Reaps(p, c)
      PROVE  ShellInv'
  BY <1>3, <1>4 DEF Reaps, Terminated
<1>5. ASSUME NEW d \in dying, NEW c \in Pid, Sweeps(d, c)
      PROVE  ShellInv'
  BY <1>3, <1>5, IInvMeans DEF Sweeps
<1>6. CASE \E d \in dying : SweepEnds(d)
  BY <1>6 DEF SweepEnds
<1>7. ASSUME NEW p \in Pid, NEW c \in Pid, Spawns(p, c)
      PROVE  ShellInv'
  BY <1>7 DEF Spawns, SameFields
<1>8. ASSUME NEW p \in Pid, Sleeps(p)
      PROVE  ShellInv'
  BY <1>8, BlocksMeans DEF Sleeps
<1>9. ASSUME NEW p \in Pid, NEW target \in Pid \cup {AnyChild}, WaitsFor(p, target)
      PROVE  ShellInv'
  BY <1>9, BlocksMeans DEF WaitsFor
<1> QED
  BY <1>1, <1>2, <1>4, <1>5, <1>6, <1>7, <1>8, <1>9, KindsLemma DEF Kinds

LEMMA InitShell ==
    ASSUME Init
    PROVE  ShellInv
<1>1. pcb[Shell] = NewPCB(NoPid, HIGH) /\ sleep_list = <<>>
  BY ShellIsPid DEF Init
<1>2. NewPCB(NoPid, HIGH).status = "READY" /\ NewPCB(NoPid, HIGH).ppid = NoPid
  BY DEF NewPCB, FreePCB
<1>3. ~On(sleep_list, Shell)
  BY <1>1 DEF On, Range
<1> QED
  BY <1>1, <1>2, <1>3 DEF ShellInv

\* Idle runs when no process is ready, so not before the shell has run.
LEMMA ShellNotReadyInIdle ==
    ASSUME IInv, Idle
    PROVE  pcb[Shell].status # "READY"
<1>1. Placed(Shell) /\ pcb[Shell].process_priority \in {HIGH, MED, LOW}
  BY ShellIsPid, IInvMeans
<1>2. \A l \in ReadyLists : ~On(queue[l], Shell)
  BY DEF Idle, On, Range
<1>3. pcb[Shell].process_priority + 1 \in ReadyLists
  BY <1>1 DEF ReadyLists, ReadyHigh, ReadyMed, ReadyLow, HIGH, MED, LOW
<1> QED
  BY <1>1, <1>2, <1>3, PlaceOfStatus DEF Placed, ListsOf

\* Then idle, which copies the shell's pid_waitfor, finds it set: no queue is
\* ready, so the shell is blocked, and it blocks in p_waitpid only.
THEOREM IdleReadsWhatWasSet ==
    ASSUME Shell \in Immune
    PROVE  Spec => IdleReadsSetField
<1>1. IInv /\ SafeInv /\ ShellInv /\ [Next]_vars =>
        [ctx = "scheduler" /\ ctx' = "idle" => pcb[Shell].pid_waitfor # NoPid]_vars
  <2> SUFFICES ASSUME IInv, SafeInv, ShellInv, Next, ctx = "scheduler", ctx' = "idle"
               PROVE  pcb[Shell].pid_waitfor # NoPid
    BY DEF vars
  <2>1. Idle
    BY DEF Next, Process, Spawn, Sleep, WaitFound, WaitBlock, WaitResume, Switch, Kill,
           Exit, Continue, Nice, InProgram, Running, OrphanStep, KeyInt, KeyStop,
           IdleSwitch, Alarm, AlarmStep, Schedule
  <2>2. pcb[Shell].status # "READY"
    BY <2>1, ShellNotReadyInIdle
  <2>3. On(waiting_list, Shell)
    <3>1. pcb[Shell].status = "BLOCKED" /\ ~On(sleep_list, Shell)
      BY <2>2 DEF ShellInv
    <3>2. On(sleep_list, Shell) # On(waiting_list, Shell)
      BY <3>1, ShellIsPid, IInvMeans DEF Placed
    <3> QED
      BY <3>1, <3>2 DEF On
  <2> QED
    BY <2>3, ShellIsPid DEF SafeInv, Chosen, AnyChild, NoPid
<1>2. Init => IInv /\ SafeInv /\ ShellInv
  BY InitIInv, InitSafe, InitShell
<1>3. IInv /\ SafeInv /\ ShellInv /\ [Next]_vars => (IInv /\ SafeInv /\ ShellInv)'
  BY NextIInv, NextSafe, NextShell
<1> QED
  BY <1>1, <1>2, <1>3, PTL DEF Spec, IdleReadsSetField
-----------------------------------------------------------------------------
(* When Ctrl-C comes only while idle runs. *)

\* The process that executes its program is ready, although it may have been
\* stopped and not have reached the swapcontext yet.
ReadyInv ==
    \A p \in Pid :
        Executing(p) /\ pcb[p].status # "FREE" /\ ~pcb[p].stopping
            /\ pcb[p].pc \in {"user", "wait_resume"} => pcb[p].status = "READY"

\* Nothing that ReadyInv reads of the executing process changes, or it is freed.
LEMMA KeepsReady ==
    ASSUME ReadyInv, UNCHANGED <<ctx, current_pcb>>,
           \A p \in Pid : Executing(p) =>
              \/ pcb'[p].status \in {"FREE", "READY"}
              \/ pcb'[p].pc \notin {"user", "wait_resume"}
              \/ pcb'[p].stopping
              \/ UNCHANGED pcb[p]
    PROVE  ReadyInv'
BY DEF ReadyInv, Executing

LEMMA ProgramIsReady ==
    ASSUME IInv, ReadyInv, NEW p \in Pid, Running(p), ~pcb[p].stopping,
           pcb[p].pc \in {"user", "wait_resume"}
    PROVE  pcb[p].status = "READY" /\ Executing(p)
BY ListedIsPid DEF ReadyInv, Executing, Running

LEMMA WakeKeepsPc ==
    ASSUME NEW lists, NEW waiters, IsList(waiters, Pid),
           NEW pcbs \in [Pid -> PCB], NEW t \in Pid,
           k_unblock_wait(lists, waiters, pcbs, t)
    PROVE  \A o \in Pid : pcb'[o].pc = pcbs[o].pc /\ pcb'[o].stopping = pcbs[o].stopping
<1>1. PICK woken \in SUBSET Pid :
              /\ \A o \in woken : On(waiters, o) /\ Awaits(o, t)
              /\ woken = {} => \A o : On(waiters, o) => ~Awaits(o, t)
              /\ \A o : On(waiting_list', o) <=> On(waiters, o) /\ o \notin woken
              /\ pcb' \in [Pid -> PCB]
              /\ \A o \in Pid : pcb'[o] =
                    IF o \in woken THEN [pcbs[o] EXCEPT !.status = "READY"] ELSE pcbs[o]
  BY WakeLemma
<1>2. \A o \in Pid : pcbs[o] \in PCB
  OBVIOUS
<1> QED
  BY <1>1, <1>2 DEF PCB

LEMMA KillReady ==
    ASSUME IInv, ReadyInv, NEW p \in Pid, NEW t \in Pid,
           NEW signal \in {"S_SIGTERM", "S_SIGCONT", "S_SIGSTP"}, Kill(p, t, signal)
    PROVE  ReadyInv'
<1>1. pcb \in [Pid -> PCB] /\ \A o \in Pid : pcb[o] \in PCB
  BY IInvMeans
<1>2. Executing(p) /\ UNCHANGED <<ctx, current_pcb>>
  BY DEF Kill, InProgram, Running, Executing
<1>3. pcb'[p].pc = "return"
  <2> DEFINE Returned(pcbs) == pcbs \in [Pid -> PCB] /\ pcbs[p].pc = "return"
  <2>1. ASSUME NEW pcbs, Returned(pcbs), NEW how \in Status
        PROVE  Returned([pcbs EXCEPT ![t].status = how])
    BY <2>1 DEF PCB
  <2>2. ASSUME NEW pcbs, Returned(pcbs), NEW lists, NEW waiters,
               IsList(waiters, Pid), k_unblock_wait(lists, waiters, pcbs, t)
        PROVE  pcb'[p].pc = "return"
    BY <2>2, WakeKeepsPc
  <2>3. ASSUME NEW stopping \in BOOLEAN
        PROVE  Returned([pcb EXCEPT ![p].pc = "return", ![p].stopping = stopping])
    <3>1. pcb[p] \in PCB /\ "return" \in PC
      BY <1>1 DEF PC
    <3> QED
      BY <1>1, <3>1 DEF PCB
  <2>4. Returned([pcb EXCEPT ![p].pc = "return"])
    <3>1. pcb[p] \in PCB /\ "return" \in PC
      BY <1>1 DEF PC
    <3> QED
      BY <1>1, <3>1 DEF PCB
  <2> HIDE DEF Returned
  <2>5. {"SIGNALED", "STOPPED", "READY", "BLOCKED"} \subseteq Status
    BY DEF Status, Terminated
  <2>6. IsList(waiting_list, Pid) /\ IsList(k_delete(waiting_list, t), Pid)
    BY IInvMeans, DeleteLemma
  <2>7. CASE k_terminate(t, "SIGNALED", [pcb EXCEPT ![p].pc = "return"])
    <3> DEFINE pcbs == [pcb EXCEPT ![p].pc = "return"]
    <3>1. Returned(pcbs)
      BY <2>4
    <3>2. k_terminate(t, "SIGNALED", pcbs)
      BY <2>7
    <3> HIDE DEF pcbs
    <3>3. CASE pcb' = pcbs
      BY <3>1, <3>3 DEF Returned
    <3>4. CASE k_unblock_wait(MoveTo(queue, t, Zombie), k_delete(waiting_list, t),
                              [pcbs EXCEPT ![t].status = "SIGNALED"], t)
      BY <2>1, <2>2, <2>5, <2>6, <3>1, <3>4
    <3> QED
      BY <3>2, <3>3, <3>4 DEF k_terminate
  <2>8. CASE SigCont(t, [pcb EXCEPT ![p].pc = "return"])
    <3> DEFINE pcbs == [pcb EXCEPT ![p].pc = "return"]
    <3>1. Returned(pcbs)
      BY <2>4
    <3>2. pcb' \in {pcbs, [pcbs EXCEPT ![t].status = "READY"], [pcbs EXCEPT ![t].status = "BLOCKED"]}
      BY <2>8 DEF SigCont
    <3> HIDE DEF pcbs
    <3>3. Returned([pcbs EXCEPT ![t].status = "READY"])
      BY <2>1, <2>5, <3>1
    <3>4. Returned([pcbs EXCEPT ![t].status = "BLOCKED"])
      BY <2>1, <2>5, <3>1
    <3> QED
      BY <3>1, <3>2, <3>3, <3>4 DEF Returned
  <2>9. CASE SigStp(t, [pcb EXCEPT ![p].pc = "return", ![p].stopping = t = p /\ Stoppable(t)])
    <3> DEFINE pcbs == [pcb EXCEPT ![p].pc = "return", ![p].stopping = t = p /\ Stoppable(t)]
    <3>1. Returned(pcbs)
      <4> (t = p /\ Stoppable(t)) \in BOOLEAN
        OBVIOUS
      <4> QED
        BY <2>3
    <3>2. SigStp(t, pcbs)
      BY <2>9
    <3> HIDE DEF pcbs
    <3>3. CASE pcb' = pcbs
      BY <3>1, <3>3 DEF Returned
    <3>4. CASE k_unblock_wait(MoveTo(queue, t, Stopped), waiting_list,
                              [pcbs EXCEPT ![t].status = "STOPPED"], t)
      BY <2>1, <2>2, <2>5, <2>6, <3>1, <3>4
    <3> QED
      BY <3>2, <3>3, <3>4 DEF SigStp
  <2> QED
    BY <2>7, <2>8, <2>9 DEF Kill
<1> QED
  BY <1>2, <1>3, KeepsReady DEF Executing

\* The other calls of the executing process p.
LEMMA CallsReady ==
    ASSUME IInv, ReadyInv, NEW p \in Pid,
           \/ Spawn(p) \/ WaitResume(p)
           \/ \E t \in Ticks : Sleep(p, t)
           \/ \E target \in Pid \cup {AnyChild} : WaitFound(p, target) \/ WaitBlock(p, target)
    PROVE  ReadyInv'
<1>1. Running(p) /\ ~pcb[p].stopping /\ pcb[p].pc \in {"user", "wait_resume"}
      /\ UNCHANGED <<ctx, current_pcb>>
  BY DEF Spawn, WaitResume, Sleep, WaitFound, WaitBlock, InProgram
<1>2. pcb[p].status = "READY" /\ \A o \in Pid : Executing(o) => o = p
  BY <1>1, ProgramIsReady DEF Executing
<1>3. pcb \in [Pid -> PCB] /\ pcb[p] \in PCB
  BY IInvMeans
<1>4. CASE Spawn(p)
  <2>1. PICK c \in k_find_available_pid : pcb' = [pcb EXCEPT ![c] = NewPCB(p, MED)]
    BY <1>4 DEF Spawn
  <2>2. NewPCB(p, MED).status = "READY"
    BY DEF NewPCB, FreePCB
  <2> QED
    BY <1>1, <1>2, <1>3, <2>1, <2>2, KeepsReady
<1>5. ASSUME NEW t \in Ticks, Sleep(p, t)
      PROVE  ReadyInv'
  <2>1. pcb'[p].pc = "sleep_switch"
    BY <1>3, <1>5 DEF Sleep, PCB
  <2> QED
    BY <1>1, <1>2, <2>1, KeepsReady
<1>6. ASSUME NEW target \in Pid \cup {AnyChild}, WaitBlock(p, target)
      PROVE  ReadyInv'
  <2>1. pcb'[p].pc = "wait_switch"
    BY <1>3, <1>6 DEF WaitBlock, PCB
  <2> QED
    BY <1>1, <1>2, <2>1, KeepsReady
<1>7. ASSUME NEW target, NEW pcbs, ReapFound(p, target, pcbs), SameButPc(pcbs)
      PROVE  ReadyInv'
  <2>1. pcb' = pcbs \/ \E c : pcb' = [pcbs EXCEPT ![c] = FreePCB]
    BY <1>7 DEF ReapFound
  <2>2. FreePCB.status = "FREE"
    BY DEF FreePCB
  <2>3. pcb'[p].status \in {"FREE", "READY"}
    BY <1>2, <1>7, <2>1, <2>2 DEF SameButPc, SameFields
  <2> QED
    BY <1>1, <1>2, <2>3, KeepsReady
<1>8. SameButPc(pcb) /\ SameButPc([pcb EXCEPT ![p].pc = "user"])
  <2>1. "user" \in PC \ Waits /\ FALSE \in BOOLEAN
    BY DEF PC, Waits
  <2> QED
    BY <2>1, SameButPcLemma
<1> QED
  BY <1>4, <1>5, <1>6, <1>7, <1>8 DEF WaitFound, WaitResume

LEMMA NextReady ==
    ASSUME "SIGINT" \notin Keys, IInv, ReadyInv, [Next]_vars
    PROVE  ReadyInv'
<1>1. ASSUME NEW p \in Pid, Process(p)
      PROVE  ReadyInv'
  <2>1. CASE Switch(p) \/ Exit(p)
    BY <2>1 DEF Switch, Exit, ReadyInv, Executing
  <2>2. CASE \E t \in Pid, signal \in {"S_SIGTERM", "S_SIGCONT", "S_SIGSTP"} : Kill(p, t, signal)
    BY <2>2, KillReady
  <2> QED
    BY <1>1, <2>1, <2>2, CallsReady DEF Process
<1>2. ASSUME NEW t \in Pid, Continue(t)
      PROVE  ReadyInv'
  <2>1. Executing(Shell) /\ pcb[Shell].status = "READY" /\ t # Shell
    BY <1>2, ShellIsPid, ProgramIsReady DEF Continue, InProgram
  <2>2. /\ UNCHANGED <<ctx, current_pcb>>
        /\ UNCHANGED pcb[Shell]
    BY <1>2, <2>1, ShellIsPid, IInvMeans DEF Continue, SigCont
  <2> QED
    BY <2>1, <2>2, KeepsReady DEF Executing
<1>3. ASSUME NEW t \in Pid, NEW priority \in Levels, Nice(t, priority)
      PROVE  ReadyInv'
  <2>1. Executing(Shell) /\ pcb[Shell].status = "READY"
    BY <1>3, ShellIsPid, ProgramIsReady DEF Nice, InProgram
  <2>2. /\ UNCHANGED <<ctx, current_pcb>>
        /\ pcb' = [pcb EXCEPT ![t].process_priority = priority]
    BY <1>3 DEF Nice
  <2>3. pcb'[Shell].status = "READY"
    BY <2>1, <2>2, ShellIsPid, IInvMeans DEF PCB
  <2> QED
    BY <2>1, <2>2, <2>3, KeepsReady DEF Executing
<1>4. CASE OrphanStep
  <2>1. pcb' = pcb \/ \E c \in Pid : pcb' = [pcb EXCEPT ![c] = FreePCB]
    BY <1>4 DEF OrphanStep
  <2>2. FreePCB.status = "FREE"
    BY DEF FreePCB
  <2> QED
    BY <1>4, <2>1, <2>2, IInvMeans, KeepsReady DEF OrphanStep
<1>5. CASE KeyInt
  <2>1. ctx # "process" /\ ctx' = ctx
    BY <1>5 DEF KeyInt
  <2> QED
    BY <2>1 DEF ReadyInv, Executing
<1>6. CASE KeyStop
  <2>1. CASE ctx # "process"
    BY <1>6, <2>1 DEF KeyStop, ReadyInv, Executing
  <2>2. CASE ctx = "process"
    <3> DEFINE pcbs == [pcb EXCEPT ![current_pcb].stopping = (ctx = "process")]
    <3>1. current_pcb \in Pid /\ Stoppable(current_pcb) /\ ctx' = ctx /\ current_pcb' = current_pcb
      BY <1>6, <2>2, ListedIsPid DEF KeyStop
    <3>2. pcbs \in [Pid -> PCB] /\ pcbs[current_pcb].stopping
      <4>1. pcb \in [Pid -> PCB] /\ pcb[current_pcb] \in PCB /\ (ctx = "process") = TRUE
        BY <2>2, <3>1, IInvMeans
      <4>2. pcbs = [pcb EXCEPT ![current_pcb] = [pcb[current_pcb] EXCEPT !.stopping = TRUE]]
        BY <4>1
      <4>3. [pcb[current_pcb] EXCEPT !.stopping = TRUE] \in PCB
            /\ [pcb[current_pcb] EXCEPT !.stopping = TRUE].stopping = TRUE
        BY <4>1 DEF PCB
      <4> HIDE DEF pcbs
      <4> QED
        BY <3>1, <4>1, <4>2, <4>3
    <3>3. SigStp(current_pcb, pcbs)
      BY <1>6 DEF KeyStop
    <3> HIDE DEF pcbs
    <3>4. /\ [pcbs EXCEPT ![current_pcb].status = "STOPPED"] \in [Pid -> PCB]
          /\ [pcbs EXCEPT ![current_pcb].status = "STOPPED"][current_pcb].stopping
      BY <3>1, <3>2 DEF PCB, Status
    <3>5. k_unblock_wait(MoveTo(queue, current_pcb, Stopped), waiting_list,
                         [pcbs EXCEPT ![current_pcb].status = "STOPPED"], current_pcb)
      BY <3>1, <3>3 DEF SigStp
    <3>6. pcb'[current_pcb].stopping
      BY <3>1, <3>4, <3>5, WakeKeepsPc, IInvMeans
    <3> QED
      BY <3>1, <3>6, KeepsReady DEF Executing
  <2> QED
    BY <2>1, <2>2
<1>7. CASE IdleSwitch \/ Alarm \/ AlarmStep \/ Idle
  BY <1>7 DEF IdleSwitch, Alarm, AlarmStep, Idle, ReadyInv, Executing
<1>8. ASSUME NEW l \in ReadyLists, Schedule(l)
      PROVE  ReadyInv'
  <2>1. l \in ListId
    BY DEF ReadyLists, ReadyHigh, ReadyMed, ReadyLow, ListId
  <2>2. queue[l] \in Seq(Pid) /\ queue[l] # <<>>
    BY <1>8, <2>1, IInvMeans DEF Schedule, AreLists
  <2>3. current_pcb' = queue[l][1] /\ 1 \in 1 .. Len(queue[l])
    BY <1>8, <2>2, EmptySeq, LenProperties DEF Schedule
  <2>4. current_pcb' \in Pid /\ On(queue[l], current_pcb')
    BY <2>2, <2>3, ElementOfSeq, OnPosition
  <2>5. pcb[current_pcb'].status = "READY"
    BY <2>4, StatusOfList
  <2> QED
    BY <1>8, <2>5 DEF Schedule, ReadyInv, Executing
<1>9. CASE UNCHANGED vars
  BY <1>9 DEF vars, ReadyInv, Executing
<1> QED
  BY <1>1, <1>2, <1>3, <1>4, <1>5, <1>6, <1>7, <1>8, <1>9 DEF Next

\* So a process that spawns, blocks or reaps is ready, and is none of those the
\* call is about.
LEMMA CallerLemma ==
    ASSUME IInv, ReadyInv, NEW p \in Pid
    PROVE  /\ \A c \in Pid : Reaps(p, c) \/ Spawns(p, c) => pcb[p].status = "READY" /\ p # c
           /\ BlocksIn(p) => pcb[p].status = "READY"
<1>1. ASSUME NEW c \in Pid, Reaps(p, c) \/ Spawns(p, c)
      PROVE  pcb[p].status = "READY"
  BY <1>1, ProgramIsReady DEF Reaps, Spawns, InProgram
<1>2. ASSUME BlocksIn(p)
      PROVE  pcb[p].status = "READY"
  BY <1>2, ProgramIsReady DEF BlocksIn, InProgram
<1> QED
  BY <1>1, <1>2 DEF Reaps, Spawns, Terminated

\* Every process but the shell has a parent that is alive, or dying.
OrphanInv ==
    \A p \in Pid \ {Shell} :
        pcb[p].status # "FREE" =>
            \/ pcb[p].ppid \in dying
            \/ pcb[p].ppid \in Pid /\ pcb[pcb[p].ppid].status \notin Gone

\* A process inside p_waitpid waits for a child of its own.
TargetInv ==
    \A w \in Pid :
        pcb[w].status \notin Gone /\ pcb[w].pc \in Waits /\ pcb[w].pid_waitfor # AnyChild =>
            /\ pcb[w].pid_waitfor \in Pid
            /\ pcb[pcb[w].pid_waitfor].ppid = w
            /\ pcb[pcb[w].pid_waitfor].status # "FREE"

FamilyInv == OrphanInv /\ TargetInv

\* A step in which nobody dies or is freed keeps both.
LEMMA KeepsFamily ==
    ASSUME FamilyInv, dying' = dying,
           \A o \in Pid :
              /\ pcb'[o].ppid = pcb[o].ppid
              /\ pcb'[o].status \in Gone <=> pcb[o].status \in Gone
              /\ pcb'[o].status = "FREE" <=> pcb[o].status = "FREE"
    PROVE  /\ OrphanInv'
           /\ (\A o \in Pid : pcb'[o].pc \in Waits =>
                  pcb[o].pc \in Waits /\ pcb'[o].pid_waitfor = pcb[o].pid_waitfor) => TargetInv'
BY DEF FamilyInv, OrphanInv, TargetInv

LEMMA CalmFamily ==
    ASSUME FamilyInv, Calm
    PROVE  FamilyInv'
<1>1. \A o \in Pid : /\ pcb'[o].ppid = pcb[o].ppid
                     /\ pcb'[o].status \in Gone <=> pcb[o].status \in Gone
                     /\ pcb'[o].status = "FREE" <=> pcb[o].status = "FREE"
  BY DEF Calm, SameFields, Gone, Terminated
<1> QED
  BY <1>1, KeepsFamily DEF Calm, SameFields, FamilyInv

LEMMA MarksFamily ==
    ASSUME IInv, FamilyInv, NEW t \in Pid, NEW how \in Reported, NEW woken \in SUBSET Pid,
           Marks(t, how, woken)
    PROVE  FamilyInv'
<1>1. \A o \in Pid : /\ pcb'[o].ppid = pcb[o].ppid
                     /\ pcb'[o].pid_waitfor = pcb[o].pid_waitfor
                     /\ pcb'[o].pc \in Waits => pcb[o].pc \in Waits
                     /\ pcb'[o].status = IF o = t THEN how
                                         ELSE IF o \in woken THEN "READY" ELSE pcb[o].status
  BY DEF Marks, SameFields
<1>2. pcb[t].status \notin Gone /\ \A o \in woken : pcb[o].status = "BLOCKED"
  BY WaitingIsBlocked DEF Marks
<1>3. \A o \in Pid : /\ pcb'[o].status \notin Gone => pcb[o].status \notin Gone
                     /\ pcb[o].status \notin Gone /\ o # t => pcb'[o].status \notin Gone
                     /\ pcb'[o].status = "FREE" <=> pcb[o].status = "FREE"
  BY <1>1, <1>2 DEF Gone, Reported, Terminated
<1>4. TargetInv'
  BY <1>1, <1>3 DEF FamilyInv, TargetInv
<1>5. CASE how = "STOPPED"
  <2>1. pcb'[t].status \notin Gone /\ dying' = dying
    BY <1>1, <1>5 DEF Marks, Gone, Terminated
  <2> QED
    BY <1>1, <1>2, <1>3, <1>4, <2>1, KeepsFamily DEF FamilyInv
<1>6. CASE how \in Terminated
  <2>1. dying = {} /\ dying' = {t}
    BY <1>6 DEF Marks, Terminated
  <2>2. OrphanInv'
    BY <1>1, <1>3, <2>1 DEF FamilyInv, OrphanInv
  <2> QED
    BY <1>4, <2>2 DEF FamilyInv
<1> QED
  BY <1>5, <1>6 DEF Reported

\* Who waits for the zombie c that p reaps is p, and p returns from p_waitpid.
LEMMA ReapedIsOwn ==
    ASSUME IInv, ReadyInv, FamilyInv, NEW p \in Pid, NEW c \in Pid, Reaps(p, c)
    PROVE  pcb[c].ppid = p
<1>1. pcb[p].status \notin Gone
  BY CallerLemma DEF Gone, Terminated
<1>2. c # AnyChild
  BY DEF Pid, AnyChild
<1> QED
  BY <1>1, <1>2 DEF Reaps, FamilyInv, TargetInv, Waits

LEMMA ReapsFamily ==
    ASSUME IInv, ReadyInv, FamilyInv, NEW p \in Pid, NEW c \in Pid, Reaps(p, c)
    PROVE  FamilyInv'
<1>1. /\ \A o \in Pid \ {c} : /\ pcb'[o].ppid = pcb[o].ppid
                              /\ pcb'[o].pid_waitfor = pcb[o].pid_waitfor
                              /\ pcb'[o].pc \in Waits => pcb[o].pc \in Waits
                              /\ pcb'[o].status = pcb[o].status
      /\ pcb'[c].status = "FREE" /\ pcb[c].status \in Gone
      /\ dying' = dying /\ dying = {} /\ pcb'[p].pc = "user"
  BY DEF Reaps, Frees, SameFields, FreePCB, Running, Gone
<1>2. OrphanInv'
  BY <1>1 DEF FamilyInv, OrphanInv
<1>3. TargetInv'
  <2> SUFFICES ASSUME NEW w \in Pid, pcb'[w].status \notin Gone, pcb'[w].pc \in Waits,
                      pcb'[w].pid_waitfor # AnyChild
               PROVE  /\ pcb'[w].pid_waitfor \in Pid
                      /\ pcb'[pcb'[w].pid_waitfor].ppid = w
                      /\ pcb'[pcb'[w].pid_waitfor].status # "FREE"
    BY DEF TargetInv
  <2>1. w # c /\ w # p
    BY <1>1 DEF Gone, Waits
  <2>2. /\ pcb[w].pid_waitfor \in Pid
        /\ pcb[pcb[w].pid_waitfor].ppid = w
        /\ pcb[pcb[w].pid_waitfor].status # "FREE"
    BY <1>1, <2>1 DEF FamilyInv, TargetInv
  <2>3. pcb[w].pid_waitfor # c
    BY <2>1, <2>2, ReapedIsOwn
  <2> QED
    BY <1>1, <2>1, <2>2, <2>3
<1> QED
  BY <1>2, <1>3 DEF FamilyInv

LEMMA SweepsFamily ==
    ASSUME IInv, SafeInv, FamilyInv, NEW d \in dying, NEW c \in Pid, Sweeps(d, c)
    PROVE  FamilyInv'
<1>1. /\ \A o \in Pid \ {c} : /\ pcb'[o].ppid = pcb[o].ppid
                              /\ pcb'[o].pid_waitfor = pcb[o].pid_waitfor
                              /\ pcb'[o].pc \in Waits => pcb[o].pc \in Waits
                              /\ pcb'[o].status = pcb[o].status
      /\ pcb'[c].status = "FREE"
      /\ dying' = dying \cup {c} /\ pcb[c].ppid = d
  BY DEF Sweeps, Frees, SameFields, FreePCB
<1>2. d \in Pid /\ pcb[d].status \in Gone
  BY IInvMeans DEF SafeInv, DyingDead
<1>3. OrphanInv'
  BY <1>1 DEF FamilyInv, OrphanInv
<1>4. TargetInv'
  BY <1>1, <1>2 DEF FamilyInv, TargetInv, Gone
<1> QED
  BY <1>3, <1>4 DEF FamilyInv

LEMMA SweepEndsFamily ==
    ASSUME FamilyInv, NEW d \in dying, SweepEnds(d)
    PROVE  FamilyInv'
BY DEF SweepEnds, FamilyInv, OrphanInv, TargetInv

LEMMA SpawnsFamily ==
    ASSUME IInv, ReadyInv, FamilyInv, NEW p \in Pid, NEW c \in Pid, Spawns(p, c)
    PROVE  FamilyInv'
<1>1. /\ \A o \in Pid \ {c} : /\ pcb'[o].ppid = pcb[o].ppid
                              /\ pcb'[o].pid_waitfor = pcb[o].pid_waitfor
                              /\ pcb'[o].pc \in Waits => pcb[o].pc \in Waits
                              /\ pcb'[o].status = pcb[o].status
      /\ dying' = dying /\ pcb[c].status = "FREE"
  BY DEF Spawns, SameFields
<1>2. pcb'[c].status = "READY" /\ pcb'[c].ppid = p /\ pcb'[c].pc \notin Waits
  BY DEF Spawns, NewPCB, FreePCB, Waits
<1>3. pcb[p].status = "READY" /\ p # c
  BY CallerLemma
<1>4. OrphanInv'
  BY <1>1, <1>2, <1>3 DEF FamilyInv, OrphanInv, Gone, Terminated
<1>5. TargetInv'
  BY <1>1, <1>2 DEF FamilyInv, TargetInv
<1> QED
  BY <1>4, <1>5 DEF FamilyInv

LEMMA BlocksFamily ==
    ASSUME IInv, ReadyInv, FamilyInv, NEW p \in Pid,
           Sleeps(p) \/ \E target \in Pid \cup {AnyChild} : WaitsFor(p, target)
    PROVE  FamilyInv'
<1> BlocksIn(p)
  BY DEF Sleeps, WaitsFor
<1>1. /\ pcb[p].status = "READY" /\ pcb'[p].status = "BLOCKED" /\ dying' = dying
      /\ \A o \in Pid : pcb'[o].ppid = pcb[o].ppid
      /\ \A o \in Pid \ {p} : /\ pcb'[o].pid_waitfor = pcb[o].pid_waitfor
                              /\ pcb'[o].pc \in Waits => pcb[o].pc \in Waits
                              /\ pcb'[o].status = pcb[o].status
  BY CallerLemma, BlocksMeans DEF BlocksIn, SameFields
<1>2. \A o \in Pid : /\ pcb'[o].status \in Gone <=> pcb[o].status \in Gone
                     /\ pcb'[o].status = "FREE" <=> pcb[o].status = "FREE"
  BY <1>1 DEF Gone, Terminated
<1>3. OrphanInv'
  BY <1>1, <1>2, KeepsFamily
<1>4. pcb'[p].pc \in Waits /\ pcb'[p].pid_waitfor # AnyChild =>
         /\ pcb'[p].pid_waitfor \in Pid
         /\ pcb[pcb'[p].pid_waitfor].ppid = p
         /\ pcb[pcb'[p].pid_waitfor].status # "FREE"
  BY DEF Sleeps, WaitsFor, Waits
<1>5. TargetInv'
  BY <1>1, <1>2, <1>4 DEF FamilyInv, TargetInv
<1> QED
  BY <1>3, <1>5 DEF FamilyInv

LEMMA NextFamily ==
    ASSUME IInv, SafeInv, ReadyInv, FamilyInv, [Next]_vars
    PROVE  FamilyInv'
BY KindsLemma, CalmFamily, MarksFamily, ReapsFamily, SweepsFamily, SweepEndsFamily,
   SpawnsFamily, BlocksFamily DEF Kinds

LEMMA InitFamily ==
    ASSUME Init
    PROVE  ReadyInv /\ FamilyInv
<1>1. \A p \in Pid : /\ p # Shell => pcb[p].status = "FREE"
                     /\ pcb[p].pc = "user"
  BY DEF Init, NewPCB, FreePCB
<1> QED
  BY <1>1 DEF Init, ReadyInv, Executing, FamilyInv, OrphanInv, TargetInv, Waits

LEMMA FamilyInvariant ==
    ASSUME "SIGINT" \notin Keys
    PROVE  Spec => [](IInv /\ SafeInv /\ ReadyInv /\ FamilyInv)
<1>1. Init => IInv /\ SafeInv /\ ReadyInv /\ FamilyInv
  BY InitIInv, InitSafe, InitFamily
<1>2. IInv /\ SafeInv /\ ReadyInv /\ FamilyInv /\ [Next]_vars =>
        (IInv /\ SafeInv /\ ReadyInv /\ FamilyInv)'
  BY NextIInv, NextSafe, NextReady, NextFamily
<1> QED
  BY <1>1, <1>2, PTL DEF Spec

\* Only ready processes call p_sleep and p_waitpid.
THEOREM CallersAreReady ==
    ASSUME "SIGINT" \notin Keys
    PROVE  Spec => []CallerIsReady
<1>1. IInv /\ ReadyInv => CallerIsReady
  BY ProgramIsReady DEF CallerIsReady, InProgram
<1> QED
  BY <1>1, FamilyInvariant, PTL

\* A child never outlives its parent's sweep.
THEOREM NoOrphanSurvives ==
    ASSUME "SIGINT" \notin Keys
    PROVE  Spec => []NoOrphanLeft
<1>1. IInv /\ FamilyInv => NoOrphanLeft
  BY StatusOfList DEF NoOrphanLeft, FamilyInv, OrphanInv, Gone
<1> QED
  BY <1>1, FamilyInvariant, PTL

\* A terminated process stays what it is until its PCB is freed.
THEOREM DeathIsFinal ==
    ASSUME "SIGINT" \notin Keys
    PROVE  Spec => TerminatedStays
<1> DEFINE Stays == \A p \in Pid : pcb[p].status \in Terminated =>
                       pcb'[p].status \in {pcb[p].status, "FREE"}
<1>1. IInv /\ SafeInv /\ ReadyInv /\ FamilyInv /\ [Next]_vars => [Stays]_vars
  <2> SUFFICES ASSUME IInv, ReadyInv, Kinds,
                      NEW p \in Pid, pcb[p].status \in Terminated,
                      pcb'[p].status \notin {pcb[p].status, "FREE"}
               PROVE  FALSE
    BY KindsLemma
  <2>1. CASE Calm
    BY <2>1 DEF Calm, Terminated
  <2>2. ASSUME NEW t \in Pid, NEW how \in Reported, NEW woken \in SUBSET Pid,
               Marks(t, how, woken)
        PROVE  FALSE
    BY <2>2, WaitingIsBlocked DEF Marks, Gone, Terminated
  <2>3. ASSUME NEW c \in Pid, Frees(c)
        PROVE  FALSE
    BY <2>3 DEF Frees, FreePCB
  <2>4. ASSUME NEW d \in dying, SweepEnds(d)
        PROVE  FALSE
    BY <2>4 DEF SweepEnds
  <2>5. ASSUME NEW q \in Pid, NEW c \in Pid, Spawns(q, c)
        PROVE  FALSE
    BY <2>5 DEF Spawns, Terminated
  <2>6. ASSUME NEW q \in Pid, BlocksIn(q)
        PROVE  FALSE
    BY <2>6, CallerLemma DEF BlocksIn, Terminated
  <2> QED
    BY <2>1, <2>2, <2>3, <2>4, <2>5, <2>6 DEF Kinds, Reaps, Sweeps, Sleeps, WaitsFor
<1> QED
  BY <1>1, FamilyInvariant, PTL DEF Spec, TerminatedStays

\* An exit status is collected by the parent, or goes with the orphan.
THEOREM StatusNotLost ==
    ASSUME "SIGINT" \notin Keys
    PROVE  Spec => ReapedByParent
<1> DEFINE Reaped ==
        \A p \in Pid : pcb[p].status \in Terminated /\ pcb'[p].status = "FREE" =>
          \/ pcb[p].ppid \in dying
          \/ Running(pcb[p].ppid) /\ pcb[pcb[p].ppid].pc \in {"user", "wait_resume"}
<1>1. IInv /\ SafeInv /\ ReadyInv /\ FamilyInv /\ [Next]_vars => [Reaped]_vars
  <2> SUFFICES ASSUME IInv, ReadyInv, FamilyInv, Kinds,
                      NEW p \in Pid, pcb[p].status \in Terminated, pcb'[p].status = "FREE"
               PROVE  \/ pcb[p].ppid \in dying
                      \/ Running(pcb[p].ppid) /\ pcb[pcb[p].ppid].pc \in {"user", "wait_resume"}
    BY KindsLemma
  <2>1. pcb[p].status # "FREE"
    BY DEF Terminated
  <2>2. ASSUME NEW q \in Pid, NEW c \in Pid, Reaps(q, c)
        PROVE  Running(pcb[p].ppid) /\ pcb[pcb[p].ppid].pc \in {"user", "wait_resume"}
    <3>1. c = p
      BY <2>1, <2>2 DEF Reaps, Frees
    <3> QED
      BY <2>2, <3>1, ReapedIsOwn DEF Reaps
  <2>3. ASSUME NEW d \in dying, NEW c \in Pid, Sweeps(d, c)
        PROVE  pcb[p].ppid \in dying
    BY <2>1, <2>3 DEF Sweeps, Frees
  <2>4. ~Calm
    BY <2>1 DEF Calm, Terminated
  <2>5. ASSUME NEW t \in Pid, NEW how \in Reported, NEW woken \in SUBSET Pid,
               Marks(t, how, woken)
        PROVE  FALSE
    BY <2>1, <2>5 DEF Marks, Reported, Terminated
  <2>6. ASSUME NEW d \in dying, SweepEnds(d)
        PROVE  FALSE
    BY <2>1, <2>6 DEF SweepEnds
  <2>7. ASSUME NEW q \in Pid, NEW c \in Pid, Spawns(q, c)
        PROVE  FALSE
    BY <2>1, <2>7 DEF Spawns, NewPCB, FreePCB
  <2>8. ASSUME NEW q \in Pid, BlocksIn(q)
        PROVE  FALSE
    BY <2>1, <2>8 DEF BlocksIn
  <2> QED
    BY <2>2, <2>3, <2>4, <2>5, <2>6, <2>7, <2>8 DEF Kinds, Sleeps, WaitsFor
<1> QED
  BY <1>1, FamilyInvariant, PTL DEF Spec, ReapedByParent
-----------------------------------------------------------------------------
(* Under both assumptions the current process is never freed. *)

\* Parents are ranked before their children, so a sweep that started at the
\* current process or below it does not come back to it.
RankedBy(f) ==
    /\ f \in [Pid -> Nat]
    /\ \A p \in Pid : pcb[p].status # "FREE" /\ pcb[p].ppid \in Pid => f[pcb[p].ppid] < f[p]
    /\ \/ dying = {}
       \/ pcb[current_pcb].ppid = Shell
       \/ \A d \in dying : f[current_pcb] <= f[d]

Ranked == \E f : RankedBy(f)

CurrentLive == current_pcb \in Pid /\ pcb[current_pcb].status # "FREE"

\* Before the shell has been scheduled once, there is no current process.
NotStarted ==
    /\ current_pcb = NoPid /\ ctx = "scheduler"
    /\ dying = {} /\ pcb[Shell].status = "READY"

CurrentInv == (CurrentLive \/ NotStarted) /\ Ranked

AllInv == IInv /\ SafeInv /\ ShellInv /\ ReadyInv /\ FamilyInv

\* The same ranking serves when the living keep their parents.
LEMMA SameRanks ==
    ASSUME NEW f, RankedBy(f), current_pcb' = current_pcb,
           \A o \in Pid : pcb'[o].status # "FREE" =>
              pcb[o].status # "FREE" /\ pcb'[o].ppid = pcb[o].ppid,
           \/ dying' = {}
           \/ pcb'[current_pcb].ppid = Shell
           \/ \A d \in dying' : f[current_pcb] <= f[d]
    PROVE  Ranked'
<1>1. RankedBy(f)'
  BY DEF RankedBy
<1> QED
  BY <1>1 DEF Ranked

LEMMA KindsKeepCurrent ==
    ASSUME AllInv, CurrentLive, NEW f, RankedBy(f), Kinds, current_pcb' = current_pcb
    PROVE  pcb'[current_pcb].status # "FREE" /\ Ranked'
<1> USE DEF AllInv
<1>0. /\ f \in [Pid -> Nat] /\ current_pcb \in Pid /\ pcb[current_pcb].status # "FREE"
      /\ \A p \in Pid : pcb[p].status # "FREE" /\ pcb[p].ppid \in Pid => f[pcb[p].ppid] < f[p]
      /\ \/ dying = {}
         \/ pcb[current_pcb].ppid = Shell
         \/ \A d \in dying : f[current_pcb] <= f[d]
  BY DEF RankedBy, CurrentLive
<1>1. CASE Calm
  <2>1. \A o \in Pid : /\ pcb'[o].status = "FREE" <=> pcb[o].status = "FREE"
                       /\ pcb'[o].ppid = pcb[o].ppid
    BY <1>1 DEF Calm, SameFields
  <2>2. dying' = dying
    BY <1>1 DEF Calm
  <2> QED
    BY <1>0, <2>1, <2>2, SameRanks
<1>2. ASSUME NEW t \in Pid, NEW how \in Reported, NEW woken \in SUBSET Pid,
             Marks(t, how, woken)
      PROVE  pcb'[current_pcb].status # "FREE" /\ Ranked'
  <2>1. \A o \in Pid : /\ pcb'[o].status = "FREE" <=> pcb[o].status = "FREE"
                       /\ pcb'[o].ppid = pcb[o].ppid
    <3>1. pcb[t].status # "FREE" /\ how # "FREE" /\ \A o \in woken : pcb[o].status # "FREE"
      BY <1>2, WaitingIsBlocked DEF Marks, Reported, Gone, Terminated
    <3> QED
      BY <1>2, <3>1 DEF Marks, SameFields
  <2>2. \/ dying' = dying
        \/ pcb[current_pcb].ppid = Shell
        \/ \A d \in dying' : f[current_pcb] <= f[d]
    <3>1. f[current_pcb] <= f[current_pcb]
      BY <1>0
    <3> QED
      BY <1>2, <3>1 DEF Marks
  <2> QED
    BY <1>0, <2>1, <2>2, SameRanks
<1>3. ASSUME NEW p \in Pid, NEW c \in Pid, Reaps(p, c)
      PROVE  pcb'[current_pcb].status # "FREE" /\ Ranked'
  <2>1. current_pcb = p /\ p # c /\ dying' = {}
    BY <1>3, CallerLemma DEF Reaps, Running
  <2>2. \A o \in Pid : o # c => pcb'[o].status = pcb[o].status /\ pcb'[o].ppid = pcb[o].ppid
    BY <1>3 DEF Reaps, Frees, SameFields
  <2>3. pcb'[c].status = "FREE"
    BY <1>3 DEF Reaps, Frees, FreePCB
  <2> QED
    BY <1>0, <2>1, <2>2, <2>3, SameRanks
<1>4. ASSUME NEW d \in dying, NEW c \in Pid, Sweeps(d, c)
      PROVE  pcb'[current_pcb].status # "FREE" /\ Ranked'
  <2>1. d \in Pid /\ pcb[d].status \in Gone /\ d # Shell
    BY IInvMeans DEF SafeInv, DyingDead, ShellInv, Gone, Terminated
  <2>2. pcb[c].ppid = d /\ pcb[c].status # "FREE" /\ dying' = dying \cup {c} /\ f[d] < f[c]
    BY <1>0, <1>4, <2>1 DEF Sweeps
  <2>3. c # current_pcb
    BY <1>0, <2>1, <2>2
  <2>4. \A o \in Pid : o # c => pcb'[o].status = pcb[o].status /\ pcb'[o].ppid = pcb[o].ppid
    BY <1>4 DEF Sweeps, Frees, SameFields
  <2>5. pcb'[c].status = "FREE"
    BY <1>4 DEF Sweeps, Frees, FreePCB
  <2>6. \/ pcb[current_pcb].ppid = Shell
        \/ \A e \in dying' : f[current_pcb] <= f[e]
    BY <1>0, <2>1, <2>2
  <2> QED
    BY <1>0, <2>3, <2>4, <2>5, <2>6, SameRanks
<1>5. ASSUME NEW d \in dying, SweepEnds(d)
      PROVE  pcb'[current_pcb].status # "FREE" /\ Ranked'
  <2>1. pcb' = pcb /\ dying' \subseteq dying
    BY <1>5 DEF SweepEnds
  <2> QED
    BY <1>0, <2>1, SameRanks
<1>6. ASSUME NEW p \in Pid, NEW c \in Pid, Spawns(p, c)
      PROVE  pcb'[current_pcb].status # "FREE" /\ Ranked'
  <2>1. current_pcb = p /\ p # c /\ dying = {} /\ dying' = {} /\ pcb[c].status = "FREE"
    BY <1>6, CallerLemma DEF Spawns, InProgram, Running
  <2>2. \A o \in Pid : o # c => pcb'[o].status = pcb[o].status /\ pcb'[o].ppid = pcb[o].ppid
    BY <1>6 DEF Spawns, SameFields
  <2>3. pcb'[c].ppid = p
    BY <1>6 DEF Spawns, NewPCB, FreePCB
  <2>4. \A o \in Pid : pcb[o].status # "FREE" => pcb[o].ppid # c
    BY <2>1, ShellIsPid DEF FamilyInv, OrphanInv, ShellInv, Gone
  <2> DEFINE g == [f EXCEPT ![c] = f[p] + 1]
  <2>5. g \in [Pid -> Nat] /\ g[c] = f[p] + 1 /\ \A o \in Pid : o # c => g[o] = f[o]
    BY <1>0
  <2> HIDE DEF g
  <2>6. ASSUME NEW o \in Pid, pcb'[o].status # "FREE", pcb'[o].ppid \in Pid
        PROVE  g[pcb'[o].ppid] < g[o]
    <3>1. CASE o = c
      BY <1>0, <2>1, <2>3, <2>5, <3>1
    <3>2. CASE o # c
      BY <1>0, <2>2, <2>4, <2>5, <2>6, <3>2
    <3> QED
      BY <3>1, <3>2
  <2>7. RankedBy(g)'
    BY <2>1, <2>5, <2>6 DEF RankedBy
  <2> QED
    BY <1>0, <2>1, <2>2, <2>7 DEF Ranked
<1>7. ASSUME NEW p \in Pid, BlocksIn(p)
      PROVE  pcb'[current_pcb].status # "FREE" /\ Ranked'
  <2>1. pcb[p].status = "READY" /\ pcb'[p].status = "BLOCKED" /\ dying' = {}
    BY <1>7, CallerLemma, BlocksMeans
  <2>2. \A o \in Pid : /\ pcb'[o].ppid = pcb[o].ppid
                       /\ o # p => pcb'[o].status = pcb[o].status
    BY <1>7, BlocksMeans
  <2> QED
    BY <1>0, <2>1, <2>2, SameRanks
<1> QED
  BY <1>1, <1>2, <1>3, <1>4, <1>5, <1>6, <1>7 DEF Kinds, Sleeps, WaitsFor

\* Only the scheduler context changes the current process.
LEMMA WhoChangesCurrent ==
    ASSUME [Next]_vars
    PROVE  \/ current_pcb' = current_pcb
           \/ Idle
           \/ \E l \in ReadyLists : Schedule(l)
BY DEF Next, Process, Spawn, Sleep, WaitFound, WaitBlock, WaitResume, Switch, Kill, Exit,
       Continue, Nice, OrphanStep, KeyInt, KeyStop, IdleSwitch, Alarm, AlarmStep, vars

\* The scheduler context is all that runs before the shell does.
LEMMA WhoStarts ==
    ASSUME NotStarted, [Next]_vars
    PROVE  UNCHANGED vars \/ Idle \/ \E l \in ReadyLists : Schedule(l)
BY DEF NotStarted, Next, Process, Spawn, Sleep, WaitFound, WaitBlock, WaitResume, Switch,
       Kill, Exit, Continue, Nice, InProgram, Running, OrphanStep, KeyInt, KeyStop,
       Signalable, IdleSwitch, Alarm, AlarmStep

LEMMA ScheduledIsLive ==
    ASSUME IInv, NEW l \in ReadyLists, Schedule(l)
    PROVE  CurrentLive'
<1>1. l \in ListId
  BY DEF ReadyLists, ReadyHigh, ReadyMed, ReadyLow, ListId
<1>2. queue[l] \in Seq(Pid) /\ queue[l] # <<>>
  BY <1>1, IInvMeans DEF Schedule, AreLists
<1>3. current_pcb' = queue[l][1] /\ 1 \in 1 .. Len(queue[l])
  BY <1>2, EmptySeq, LenProperties DEF Schedule
<1>4. current_pcb' \in Pid /\ On(queue[l], current_pcb')
  BY <1>2, <1>3, ElementOfSeq, OnPosition
<1>5. pcb[current_pcb'].status = "READY"
  BY <1>4, StatusOfList
<1> QED
  BY <1>4, <1>5 DEF Schedule, CurrentLive

LEMMA NextCurrent ==
    ASSUME AllInv, CurrentInv, [Next]_vars
    PROVE  CurrentInv'
<1> PICK f : RankedBy(f)
  BY DEF CurrentInv, Ranked
<1> IInv
  BY DEF AllInv
<1>1. ASSUME Idle \/ \E l \in ReadyLists : Schedule(l)
      PROVE  CurrentInv'
  <2>1. dying = {} /\ dying' = {} /\ pcb' = pcb
    BY <1>1 DEF Idle, Schedule
  <2>2. Ranked'
    <3>1. RankedBy(f)'
      BY <2>1 DEF RankedBy
    <3> QED
      BY <3>1 DEF Ranked
  <2>3. ASSUME Idle
        PROVE  CurrentLive'
    <3>1. CurrentLive
      BY <2>3, ShellNotReadyInIdle DEF CurrentInv, NotStarted
    <3> QED
      BY <2>1, <2>3, <3>1, StatusOfList, ListedIsPid DEF Idle, CurrentLive
  <2> QED
    BY <1>1, <2>2, <2>3, ScheduledIsLive DEF CurrentInv
<1>2. ASSUME UNCHANGED vars
      PROVE  CurrentInv'
  BY <1>2 DEF vars, CurrentInv, CurrentLive, NotStarted, Ranked, RankedBy
<1>3. ASSUME CurrentLive, current_pcb' = current_pcb
      PROVE  CurrentInv'
  <2>1. Kinds
    BY KindsLemma
  <2> QED
    BY <1>3, <2>1, KindsKeepCurrent DEF CurrentInv, CurrentLive
<1> QED
  BY <1>1, <1>2, <1>3, WhoChangesCurrent, WhoStarts DEF CurrentInv

LEMMA InitCurrent ==
    ASSUME Init
    PROVE  CurrentInv
<1>1. /\ NotStarted
      /\ \A p \in Pid : pcb[p].status # "FREE" => pcb[p].ppid = NoPid
  BY ShellIsPid DEF Init, NotStarted, NewPCB, FreePCB
<1>2. RankedBy([p \in Pid |-> 0])
  BY <1>1, ShellIsPid DEF NotStarted, RankedBy
<1> QED
  BY <1>1, <1>2 DEF CurrentInv, Ranked

\* The signal handlers never dereference a current_pcb that was freed.
THEOREM CurrentNeverFreed ==
    ASSUME Shell \in Immune, "SIGINT" \notin Keys
    PROVE  Spec => []CurrentExists
<1>1. Init => AllInv /\ CurrentInv
  BY InitIInv, InitSafe, InitShell, InitFamily, InitCurrent DEF AllInv
<1>2. AllInv /\ CurrentInv /\ [Next]_vars => (AllInv /\ CurrentInv)'
  BY NextIInv, NextSafe, NextShell, NextReady, NextFamily, NextCurrent DEF AllInv
<1>3. AllInv /\ CurrentInv => CurrentExists
  BY StatusOfList DEF AllInv, CurrentInv, CurrentLive, NotStarted, CurrentExists
<1> QED
  BY <1>1, <1>2, <1>3, PTL DEF Spec
=============================================================================
