-------------------------- MODULE SleepClockProofs --------------------------
(***************************************************************************)
(* Proofs about module SleepClock: for every number of processes and every *)
(* set of sleep arguments, how late and how early p_sleep returns, counted *)
(* in handled ticks.                                                       *)
(***************************************************************************)
EXTENDS SleepClock, KernelProofs, FiniteSetTheorems

\* 1 while alarm_handler has still to come to position i with its tick.
Due(i) == IF ctx = "alarm" /\ i >= cursor THEN 1 ELSE 0

\* With at most room sleepers the time left at position i is what was asked for
\* less the ticks handled, or down to room - i ticks less: every neighbour ahead
\* that wakes takes one.
TimeLeft(room, i) ==
    LET p == sleep_list[i] IN
    /\ pcb[p].sleep_remain >= 0 =>
          pcb[p].sleep_remain + elapsed[p] <= asked[p] + Due(i)
    /\ \/ pcb[p].sleep_remain + elapsed[p] >= asked[p] + Due(i) - (room - i)
       \/ elapsed[p] > asked[p]

SleepInv(room) ==
    /\ ctx = "alarm" => dying = {}
    /\ ~On(sleep_list, Shell)
    /\ asked \in [Pid -> Nat] /\ elapsed \in [Pid -> Nat]
    /\ \A p \in Pid : ~On(sleep_list, p) => elapsed[p] = 0
    /\ \A i \in 1 .. Len(sleep_list) : TimeLeft(room, i)

\* The most that can sleep at once, for two sleepers at least.
Room == IF MaxPid > 3 THEN MaxPid - 1 ELSE 2
-----------------------------------------------------------------------------
\* Deleting a pid moves the nodes behind it up by one position.
LEMMA DeletePositions ==
    ASSUME NEW S, NEW list, IsList(list, S), NEW p
    PROVE  \A i \in 1 .. Len(k_delete(list, p)) :
              \E j \in 1 .. Len(list) : /\ k_delete(list, p)[i] = list[j]
                                        /\ j = i \/ j = i + 1
<1>1. list \in Seq(S) /\ Len(list) \in Nat
  BY LenProperties DEF IsList
<1>2. CASE ~On(list, p)
  BY <1>1, <1>2 DEF k_delete
<1>3. CASE On(list, p)
  <2>1. FirstNode(list, p) \in 1 .. Len(list)
    BY <1>3, FirstNodeLemma
  <2>2. k_delete(list, p) = RemoveAt(list, FirstNode(list, p))
    BY <1>3 DEF k_delete
  <2> DEFINE n == FirstNode(list, p)
  <2> HIDE DEF n
  <2>3. n \in 1 .. Len(list) /\ k_delete(list, p) = RemoveAt(list, n)
    BY <2>1, <2>2 DEF n
  <2>4. /\ Len(k_delete(list, p)) = Len(list) - 1
        /\ \A i \in 1 .. Len(list) - 1 :
              k_delete(list, p)[i] = IF i < n THEN list[i] ELSE list[i + 1]
    BY <1>1, <2>3, RemoveAtProperties
  <2>5. ASSUME NEW i \in 1 .. Len(list) - 1
        PROVE  \E j \in 1 .. Len(list) : k_delete(list, p)[i] = list[j] /\ (j = i \/ j = i + 1)
    <3>1. i \in 1 .. Len(list) /\ i + 1 \in 1 .. Len(list)
      BY <1>1
    <3> QED
      BY <2>4, <3>1
  <2> QED
    BY <2>4, <2>5
<1> QED
  BY <1>2, <1>3

\* Deleting the pid at the cursor leaves the cursor at the next node.
LEMMA DeleteAtCursor ==
    ASSUME NEW S, NEW list, IsList(list, S), NEW k \in 1 .. Len(list)
    PROVE  /\ Len(k_delete(list, list[k])) = Len(list) - 1
           /\ \A i \in 1 .. Len(list) - 1 :
                 k_delete(list, list[k])[i] = IF i < k THEN list[i] ELSE list[i + 1]
<1>1. list \in Seq(S) /\ Len(list) \in Nat
  BY LenProperties DEF IsList
<1>2. On(list, list[k])
  BY <1>1, OnPosition
<1>3. FirstNode(list, list[k]) = k
  BY <1>1, <1>2, FirstNodeLemma DEF IsList, IsInjective
<1> QED
  BY <1>1, <1>2, <1>3, RemoveAtProperties DEF k_delete

\* At most Room processes sleep at once: the shell never does.
LEMMA SleepersFit ==
    ASSUME NEW list, IsList(list, Pid), ~On(list, Shell)
    PROVE  Len(list) <= Room /\ Room \in Nat
<1>1. list \in Seq(Pid) /\ Len(list) \in Nat /\ IsInjective(list)
      /\ \A i \in 1 .. Len(list) : list[i] \in Pid
  BY LenProperties, ElementOfSeq DEF IsList
<1>2. \A i \in 1 .. Len(list) : list[i] \in Pid \ {Shell}
  BY <1>1, OnPosition
<1>3. MaxPid \in Nat \ {0}
  BY MaxPidAssumption
<1>4. IsFiniteSet(Pid) /\ Cardinality(Pid) = MaxPid
  BY <1>3, FS_Interval DEF Pid
<1>5. IsFiniteSet(Pid \ {Shell}) /\ Cardinality(Pid \ {Shell}) = MaxPid - 1
  <2>1. Shell \in Pid
    BY <1>3 DEF Pid, Shell
  <2>2. /\ IsFiniteSet(Pid \ {Shell})
        /\ Cardinality(Pid \ {Shell}) = IF Shell \in Pid THEN Cardinality(Pid) - 1 ELSE Cardinality(Pid)
    BY <1>4, FS_RemoveElement
  <2> QED
    BY <1>4, <2>1, <2>2
<1> DEFINE f == [i \in 1 .. Len(list) |-> list[i]]
<1>6. f \in Injection(1 .. Len(list), Pid \ {Shell})
  BY <1>1, <1>2 DEF Injection, IsInjective
<1> HIDE DEF f
<1>7. Cardinality(1 .. Len(list)) <= Cardinality(Pid \ {Shell})
  BY <1>5, <1>6, FS_Injection
<1>8. Cardinality(1 .. Len(list)) = Len(list)
  <2>1. Cardinality(1 .. Len(list)) = IF 1 > Len(list) THEN 0 ELSE Len(list) - 1 + 1
    BY <1>1, FS_Interval
  <2> QED
    BY <1>1, <2>1
<1> QED
  BY <1>1, <1>3, <1>5, <1>7, <1>8 DEF Room
-----------------------------------------------------------------------------
(* What the steps outside alarm_handler do to the sleepers. *)

\* Whoever stays on the sleep list keeps its time.
SameTime == \A o \in Pid : On(sleep_list', o) => pcb'[o].sleep_remain = pcb[o].sleep_remain

\* Nobody joins the sleep list and at most one process leaves it.
Keeps ==
    /\ SameTime
    /\ \E c : sleep_list' = k_delete(sleep_list, c)

LEMMA SameList ==
    ASSUME IInv, sleep_list' = sleep_list, SameTime
    PROVE  Keeps
<1>1. ~On(sleep_list, NoPid)
  BY IInvMeans, OnPosition, ElementOfSeq DEF IsList, Pid, NoPid
<1> QED
  BY <1>1 DEF Keeps, k_delete

\* A PCB table with the times of pcb.
SameTimes(pcbs) ==
    pcbs \in [Pid -> PCB] /\ \A o \in Pid : pcbs[o].sleep_remain = pcb[o].sleep_remain

LEMMA SameTimesLemma ==
    ASSUME IInv, NEW p \in Pid, NEW pc \in PC, NEW stopping \in BOOLEAN, NEW status \in Status
    PROVE  /\ SameTimes(pcb)
           /\ SameTimes([pcb EXCEPT ![p].stopping = stopping])
           /\ SameTimes([pcb EXCEPT ![p].pc = pc])
           /\ SameTimes([pcb EXCEPT ![p].pc = pc, ![p].stopping = stopping])
           /\ SameTimes([pcb EXCEPT ![p].status = status])
<1>1. pcb \in [Pid -> PCB] /\ pcb[p] \in PCB
  BY IInvMeans
<1> USE DEF SameTimes, PCB
<1>2. SameTimes(pcb)
  BY <1>1
<1>3. SameTimes([pcb EXCEPT ![p].stopping = stopping])
  BY <1>1
<1>4. SameTimes([pcb EXCEPT ![p].pc = pc])
  BY <1>1
<1>5. SameTimes([pcb EXCEPT ![p].pc = pc, ![p].stopping = stopping])
  BY <1>1
<1>6. SameTimes([pcb EXCEPT ![p].status = status])
  BY <1>1
<1> QED
  BY <1>2, <1>3, <1>4, <1>5, <1>6

\* Setting a status changes no time.
LEMMA StatusTimes ==
    ASSUME NEW pcbs, SameTimes(pcbs), NEW t, NEW status \in Status
    PROVE  SameTimes([pcbs EXCEPT ![t].status = status])
<1>1. pcbs \in [Pid -> PCB] /\ \A o \in Pid : pcbs[o] \in PCB
  BY DEF SameTimes
<1>2. [pcbs EXCEPT ![t].status = status] \in [Pid -> PCB]
  BY <1>1 DEF PCB
<1>3. \A o \in Pid : [pcbs EXCEPT ![t].status = status][o].sleep_remain = pcbs[o].sleep_remain
  BY <1>1 DEF PCB
<1> QED
  BY <1>2, <1>3 DEF SameTimes

LEMMA UnblockTimes ==
    ASSUME NEW lists, NEW waiters, NEW pcbs, NEW t, SameTimes(pcbs),
           k_unblock_wait(lists, waiters, pcbs, t)
    PROVE  SameTimes(pcb')
<1>1. "READY" \in Status
  BY DEF Status
<1>2. CASE pcb' = pcbs
  BY <1>2
<1>3. ASSUME NEW w, pcb' = [pcbs EXCEPT ![w].status = "READY"]
      PROVE  SameTimes(pcb')
  BY <1>1, <1>3, StatusTimes
<1> QED
  BY <1>2, <1>3 DEF k_unblock_wait

LEMMA TerminateKeeps ==
    ASSUME IInv, NEW t \in Pid, NEW how \in Terminated, NEW pcbs, SameTimes(pcbs),
           k_terminate(t, how, pcbs)
    PROVE  Keeps
<1>1. how \in Status
  BY DEF Status
<1>2. CASE pcb' = pcbs /\ sleep_list' = sleep_list
  BY <1>2, SameList DEF SameTimes, SameTime
<1>3. CASE /\ k_unblock_wait(MoveTo(queue, t, Zombie), k_delete(waiting_list, t),
                             [pcbs EXCEPT ![t].status = how], t)
           /\ sleep_list' = k_delete(sleep_list, t)
  <2>1. SameTimes(pcb')
    BY <1>1, <1>3, StatusTimes, UnblockTimes
  <2> QED
    BY <1>3, <2>1 DEF Keeps, SameTime, SameTimes
<1> QED
  BY <1>2, <1>3 DEF k_terminate

LEMMA StopKeeps ==
    ASSUME IInv, NEW t \in Pid, NEW pcbs, SameTimes(pcbs), SigStp(t, pcbs)
    PROVE  Keeps
<1>1. "STOPPED" \in Status
  BY DEF Status
<1>2. SameTimes(pcb')
  <2>1. CASE pcb' = pcbs
    BY <2>1
  <2>2. CASE k_unblock_wait(MoveTo(queue, t, Stopped), waiting_list,
                            [pcbs EXCEPT ![t].status = "STOPPED"], t)
    BY <1>1, <2>2, StatusTimes, UnblockTimes
  <2> QED
    BY <2>1, <2>2 DEF SigStp
<1> QED
  BY <1>2, SameList DEF SigStp, SameTime, SameTimes

LEMMA ContinueKeeps ==
    ASSUME IInv, NEW t \in Pid, NEW pcbs, SameTimes(pcbs), SigCont(t, pcbs)
    PROVE  Keeps
<1>1. \/ pcb' = pcbs
      \/ \E status \in {"READY", "BLOCKED"} : pcb' = [pcbs EXCEPT ![t].status = status]
  BY DEF SigCont
<1>2. SameTimes(pcb')
  <2>1. CASE pcb' = pcbs
    BY <2>1
  <2>2. ASSUME NEW status \in {"READY", "BLOCKED"}, pcb' = [pcbs EXCEPT ![t].status = status]
        PROVE  SameTimes(pcb')
    <3>1. status \in Status
      BY DEF Status
    <3> QED
      BY <2>2, <3>1, StatusTimes
  <2> QED
    BY <1>1, <2>1, <2>2
<1> QED
  BY <1>2, SameList DEF SigCont, SameTime, SameTimes

LEMMA SameTimesOfPcb ==
    ASSUME IInv
    PROVE  SameTimes(pcb)
BY IInvMeans DEF SameTimes

LEMMA ReapKeeps ==
    ASSUME IInv, NEW p, NEW target, NEW pcbs, SameTimes(pcbs), ReapFound(p, target, pcbs),
           UNCHANGED sleep_list
    PROVE  Keeps
<1>1. CASE pcb' = pcbs
  BY <1>1, SameList DEF SameTimes, SameTime
<1>2. CASE FoundIn(Zombie, p, target) # {}
  <2> DEFINE c == FirstFound(Zombie, p, target)
  <2>1. pcb' = [pcbs EXCEPT ![c] = FreePCB]
    BY <1>2 DEF ReapFound
  <2>2. c \in FoundIn(Zombie, p, target) /\ Zombie \in ListId
    BY <1>2, FirstFoundLemma DEF Zombie, ListId
  <2> HIDE DEF c
  <2>3. On(queue[Zombie], c) /\ c \in Pid
    BY <2>2, ListedIsPid DEF FoundIn, On, Listed, ListsOf
  <2>4. Zombie \in PlaceOf(pcb[c].status, pcb[c].process_priority) /\ Placed(c)
    BY <2>2, <2>3, IInvMeans DEF Placed, ListsOf
  <2>5. ~On(sleep_list, c)
    BY <2>3, <2>4, IInvMeans DEF Placed, PlaceOf, Zombie, Stopped, Blocked, Terminated, HIGH, MED, LOW
  <2>6. \A o \in Pid : o # c => pcb'[o].sleep_remain = pcb[o].sleep_remain
    BY <2>1, <2>3 DEF SameTimes
  <2> QED
    BY <2>5, <2>6, SameList DEF SameTime
<1> QED
  BY <1>1, <1>2 DEF ReapFound

\* Every other step leaves the sleepers that stay their time, too.
LEMMA StepKeeps ==
    ASSUME IInv, [Next]_vars
    PROVE  Keeps \/ AlarmStep \/ \E p \in Pid, t \in Ticks : Sleep(p, t)
<1>0. pcb \in [Pid -> PCB] /\ \A o \in Pid : pcb[o] \in PCB
  BY IInvMeans
<1>1. ASSUME UNCHANGED <<sleep_list, pcb>>
      PROVE  Keeps
  BY <1>1, SameList DEF SameTime
<1>2. ASSUME sleep_list' = sleep_list, SameTimes(pcb')
      PROVE  Keeps
  BY <1>2, SameList DEF SameTime, SameTimes
<1>3. ASSUME NEW p \in Pid, NEW pc \in PC, UNCHANGED sleep_list,
             pcb' = [pcb EXCEPT ![p].pc = pc] \/ pcb' = [pcb EXCEPT ![p].stopping = FALSE]
      PROVE  Keeps
  <2>1. FALSE \in BOOLEAN /\ "READY" \in Status
    BY DEF Status
  <2>2. SameTimes([pcb EXCEPT ![p].pc = pc]) /\ SameTimes([pcb EXCEPT ![p].stopping = FALSE])
    BY <2>1, SameTimesLemma
  <2> QED
    BY <1>2, <1>3, <2>2
<1>4. ASSUME NEW p \in Pid, Process(p)
      PROVE  Keeps \/ \E t \in Ticks : Sleep(p, t)
  <2>1. CASE Spawn(p)
    <3>1. PICK c \in Pid : /\ ~Listed(queue, c)
                           /\ pcb' = [pcb EXCEPT ![c] = NewPCB(p, MED)]
                           /\ UNCHANGED sleep_list
      BY <2>1 DEF Spawn, k_find_available_pid
    <3>2. ~On(sleep_list, c)
      BY <3>1, IInvMeans, ListedIsPid DEF Placed, Terminated
    <3> QED
      BY <1>0, <3>1, <3>2, SameList DEF SameTime, On
  <2>2. CASE \E target \in Pid \cup {AnyChild} : WaitFound(p, target)
    <3>1. PICK target : WaitFound(p, target)
      BY <2>2
    <3> QED
      BY <3>1, ReapKeeps, SameTimesOfPcb DEF WaitFound
  <2>3. CASE \E target \in Pid \cup {AnyChild} : WaitBlock(p, target)
    <3>1. PICK target \in Pid \cup {AnyChild} : WaitBlock(p, target)
      BY <2>3
    <3>2. \A o \in Pid : pcb'[o].sleep_remain = pcb[o].sleep_remain
      BY <1>0, <3>1 DEF WaitBlock, PCB
    <3> QED
      BY <3>1, <3>2, SameList DEF WaitBlock, SameTime
  <2>4. CASE WaitResume(p)
    <3>1. "user" \in PC /\ FALSE \in BOOLEAN /\ "READY" \in Status
      BY DEF PC, Status
    <3>2. SameTimes([pcb EXCEPT ![p].pc = "user"])
      BY <3>1, SameTimesLemma
    <3> QED
      BY <2>4, <3>2, ReapKeeps DEF WaitResume
  <2>5. CASE Switch(p)
    <3>1. "user" \in PC /\ "wait_resume" \in PC
      BY DEF PC
    <3> QED
      BY <1>3, <2>5, <3>1 DEF Switch
  <2>6. CASE \E t \in Pid, signal \in {"S_SIGTERM", "S_SIGCONT", "S_SIGSTP"} : Kill(p, t, signal)
    <3>1. PICK t \in Pid, signal \in {"S_SIGTERM", "S_SIGCONT", "S_SIGSTP"} : Kill(p, t, signal)
      BY <2>6
    <3>2. "return" \in PC /\ (t = p /\ Stoppable(t)) \in BOOLEAN /\ "READY" \in Status
          /\ "SIGNALED" \in Terminated
      BY DEF PC, Status, Terminated
    <3>3. /\ SameTimes([pcb EXCEPT ![p].pc = "return"])
          /\ SameTimes([pcb EXCEPT ![p].pc = "return",
                                    ![p].stopping = t = p /\ Stoppable(t)])
      BY <3>2, SameTimesLemma
    <3> QED
      BY <3>1, <3>2, <3>3, TerminateKeeps, ContinueKeeps, StopKeeps DEF Kill
  <2>7. CASE Exit(p)
    <3>1. "return" \in PC /\ FALSE \in BOOLEAN /\ "READY" \in Status /\ "EXITED" \in Terminated
      BY DEF PC, Status, Terminated
    <3>2. SameTimes([pcb EXCEPT ![p].pc = "return"])
      BY <3>1, SameTimesLemma
    <3> QED
      BY <2>7, <3>1, <3>2, TerminateKeeps DEF Exit
  <2> QED
    BY <1>4, <2>1, <2>2, <2>3, <2>4, <2>5, <2>6, <2>7 DEF Process
<1>5. ASSUME NEW t \in Pid, Continue(t)
      PROVE  Keeps
  BY <1>5, SameTimesOfPcb, ContinueKeeps DEF Continue
<1>6. ASSUME NEW t \in Pid, NEW priority \in Levels, Nice(t, priority)
      PROVE  Keeps
  <2>1. \A o \in Pid : pcb'[o].sleep_remain = pcb[o].sleep_remain
    BY <1>0, <1>6 DEF Nice, PCB
  <2> QED
    BY <1>6, <2>1, SameList DEF Nice, SameTime
<1>7. CASE OrphanStep
  <2>1. \/ UNCHANGED <<sleep_list, pcb>>
        \/ \E c \in Pid : /\ sleep_list' = k_delete(sleep_list, c)
                         /\ pcb' = [pcb EXCEPT ![c] = FreePCB]
    BY <1>7 DEF OrphanStep
  <2>2. ASSUME NEW c \in Pid, sleep_list' = k_delete(sleep_list, c),
               pcb' = [pcb EXCEPT ![c] = FreePCB]
        PROVE  Keeps
    <3>1. \A o : On(sleep_list', o) <=> On(sleep_list, o) /\ o # c
      BY <2>2, IInvMeans, DeleteLemma
    <3>2. SameTime
      BY <1>0, <2>2, <3>1 DEF SameTime
    <3> QED
      BY <2>2, <3>2 DEF Keeps
  <2> QED
    BY <1>1, <2>1, <2>2
<1>8. CASE KeyInt
  <2>1. current_pcb \in Pid /\ "SIGNALED" \in Terminated
    BY <1>8, ListedIsPid DEF KeyInt, Terminated
  <2> QED
    BY <1>8, <2>1, SameTimesOfPcb, TerminateKeeps DEF KeyInt
<1>9. CASE KeyStop
  <2>1. current_pcb \in Pid /\ (ctx = "process") \in BOOLEAN /\ "READY" \in Status /\ "user" \in PC
    BY <1>9, ListedIsPid DEF KeyStop, Status, PC
  <2>2. SameTimes([pcb EXCEPT ![current_pcb].stopping = (ctx = "process")])
    BY <2>1, SameTimesLemma
  <2> QED
    BY <1>9, <2>1, <2>2, StopKeeps DEF KeyStop
<1>10. ASSUME IdleSwitch \/ Alarm \/ Idle \/ (\E l \in ReadyLists : Schedule(l)) \/ UNCHANGED vars
       PROVE  Keeps
  BY <1>1, <1>10 DEF IdleSwitch, Alarm, Idle, Schedule, vars
<1> QED
  BY <1>4, <1>5, <1>6, <1>7, <1>8, <1>9, <1>10 DEF Next
-----------------------------------------------------------------------------
(* The clock. *)

\* alarm_handler runs alone.
LEMMA StepPhase ==
    ASSUME ctx = "alarm" => dying = {}, [Next]_vars
    PROVE  AlarmStep \/ Alarm \/ UNCHANGED vars \/ (ctx # "alarm" /\ ctx' # "alarm")
<1>1. ASSUME NEW p \in Pid, Process(p)
      PROVE  ctx # "alarm" /\ ctx' # "alarm"
  BY <1>1 DEF Process, Spawn, Sleep, WaitFound, WaitBlock, WaitResume, Switch, Kill, Exit,
              InProgram, Running
<1>2. ASSUME NEW t \in Pid, Continue(t) \/ \E priority \in Levels : Nice(t, priority)
      PROVE  ctx # "alarm" /\ ctx' # "alarm"
  BY <1>2 DEF Continue, Nice, InProgram, Running
<1>3. ASSUME OrphanStep
      PROVE  ctx # "alarm" /\ ctx' # "alarm"
  BY <1>3 DEF OrphanStep
<1>4. ASSUME KeyInt \/ KeyStop \/ IdleSwitch
      PROVE  ctx # "alarm" /\ ctx' # "alarm"
  BY <1>4 DEF KeyInt, KeyStop, IdleSwitch, Signalable
<1>5. ASSUME Idle \/ \E l \in ReadyLists : Schedule(l)
      PROVE  ctx # "alarm" /\ ctx' # "alarm"
  BY <1>5 DEF Idle, Schedule
<1> QED
  BY <1>1, <1>2, <1>3, <1>4, <1>5 DEF Next

\* What a step does to the history variables.
Counts ==
    /\ asked' = [p \in Pid |->
                   IF ~On(sleep_list', p) THEN 0
                   ELSE IF Sleeping(p) THEN asked[p] ELSE pcb'[p].sleep_remain]
    /\ elapsed' = [p \in Pid |->
                     IF ~On(sleep_list', p) THEN 0
                     ELSE IF ctx # "alarm" /\ ctx' = "alarm" /\ elapsed[p] <= asked[p]
                          THEN elapsed[p] + 1 ELSE elapsed[p]]

\* Nobody joins: whoever stays keeps what it asked for.
LEMMA CountsOfStayers ==
    ASSUME NEW room, IInv, IInv', SleepInv(room), Counts,
           \A o \in Pid : On(sleep_list', o) => On(sleep_list, o)
    PROVE  /\ asked' \in [Pid -> Nat] /\ elapsed' \in [Pid -> Nat]
           /\ \A o \in Pid : ~On(sleep_list', o) => elapsed'[o] = 0
           /\ \A o \in Pid : On(sleep_list', o) =>
                 /\ asked'[o] = asked[o]
                 /\ elapsed'[o] = IF ctx # "alarm" /\ ctx' = "alarm" /\ elapsed[o] <= asked[o]
                                  THEN elapsed[o] + 1 ELSE elapsed[o]
BY DEF Counts, Sleeping, SleepInv

LEMMA KeepsClock ==
    ASSUME NEW room \in Nat, Len(sleep_list) <= room,
           IInv, IInv', SleepInv(room), Keeps, Counts, ctx # "alarm", ctx' # "alarm"
    PROVE  SleepInv(room)'
<1>1. PICK c : sleep_list' = k_delete(sleep_list, c)
  BY DEF Keeps
<1>2. /\ IsList(sleep_list, Pid) /\ IsList(sleep_list', Pid)
      /\ \A o : On(sleep_list', o) <=> On(sleep_list, o) /\ o # c
  BY <1>1, IInvMeans, DeleteLemma
<1>3. /\ asked' \in [Pid -> Nat] /\ elapsed' \in [Pid -> Nat]
      /\ \A o \in Pid : ~On(sleep_list', o) => elapsed'[o] = 0
      /\ \A o \in Pid : On(sleep_list', o) => asked'[o] = asked[o] /\ elapsed'[o] = elapsed[o]
  BY <1>2, CountsOfStayers
<1>4. Len(sleep_list) \in Nat /\ Len(sleep_list) <= room
  BY <1>2, LenProperties DEF IsList
<1>5. ASSUME NEW i \in 1 .. Len(sleep_list')
      PROVE  TimeLeft(room, i)'
  <2>1. PICK j \in 1 .. Len(sleep_list) : sleep_list'[i] = sleep_list[j] /\ (j = i \/ j = i + 1)
    BY <1>1, <1>2, DeletePositions
  <2> DEFINE p == sleep_list[j]
  <2>2. p \in Pid /\ On(sleep_list', p) /\ sleep_list'[i] = p
    BY <1>2, <2>1, ElementOfSeq, OnPosition DEF IsList
  <2>3. pcb'[p].sleep_remain = pcb[p].sleep_remain /\ pcb[p].sleep_remain \in Int
    BY <2>2, IInvMeans DEF Keeps, SameTime, PCB
  <2>4. TimeLeft(room, j) /\ asked[p] \in Nat /\ elapsed[p] \in Nat
    BY <2>1, <2>2 DEF SleepInv
  <2>5. Due(j) = 0 /\ Due(i)' = 0
    BY DEF Due
  <2>6. i \in Nat /\ j \in Nat /\ i <= j
    BY <1>4, <2>1
  <2> HIDE DEF p
  <2>7. TimeLeft(room, j) <=>
          /\ pcb[p].sleep_remain >= 0 => pcb[p].sleep_remain + elapsed[p] <= asked[p]
          /\ \/ pcb[p].sleep_remain + elapsed[p] >= asked[p] - (room - j)
             \/ elapsed[p] > asked[p]
    BY <1>4, <2>3, <2>4, <2>5, <2>6 DEF TimeLeft, p
  <2>8. TimeLeft(room, i)' <=>
          /\ pcb[p].sleep_remain >= 0 => pcb[p].sleep_remain + elapsed[p] <= asked[p]
          /\ \/ pcb[p].sleep_remain + elapsed[p] >= asked[p] - (room - i)
             \/ elapsed[p] > asked[p]
    BY <1>3, <1>4, <2>2, <2>3, <2>4, <2>5, <2>6 DEF TimeLeft
  <2> QED
    BY <1>4, <2>3, <2>4, <2>6, <2>7, <2>8
<1> QED
  BY <1>2, <1>3, <1>5 DEF SleepInv

LEMMA TickBegins ==
    ASSUME NEW r \in Nat \cup {-1}, NEW e \in Nat, NEW a \in Nat, NEW x \in Int,
           r >= 0 => r + e <= a, r + e >= a - x \/ e > a
    PROVE  LET n == IF e <= a THEN e + 1 ELSE e IN
           (r >= 0 => r + n <= a + 1) /\ (r + n >= a + 1 - x \/ n > a)
<1>1. CASE e <= a
  BY <1>1
<1>2. CASE e > a
  BY <1>2
<1> QED
  BY <1>1, <1>2

\* A tick begins: one more for every sleeper, and every position is due.
LEMMA AlarmClock ==
    ASSUME NEW room \in Nat, IInv, IInv', SleepInv(room), Alarm, Counts
    PROVE  SleepInv(room)'
<1>1. /\ UNCHANGED <<sleep_list, pcb, dying>>
      /\ ctx # "alarm" /\ ctx' = "alarm" /\ cursor' = 1 /\ dying = {}
  BY DEF Alarm, Signalable
<1>2. /\ asked' \in [Pid -> Nat] /\ elapsed' \in [Pid -> Nat]
      /\ \A o \in Pid : ~On(sleep_list', o) => elapsed'[o] = 0
      /\ \A o \in Pid : On(sleep_list', o) =>
            /\ asked'[o] = asked[o]
            /\ elapsed'[o] = IF elapsed[o] <= asked[o] THEN elapsed[o] + 1 ELSE elapsed[o]
  BY <1>1, CountsOfStayers
<1>3. sleep_list \in Seq(Pid) /\ Len(sleep_list) \in Nat
  BY IInvMeans, LenProperties DEF IsList
<1>4. ASSUME NEW i \in 1 .. Len(sleep_list)
      PROVE  TimeLeft(room, i)'
  <2> DEFINE p == sleep_list[i]
  <2>1. p \in Pid /\ On(sleep_list', p) /\ sleep_list'[i] = p
    BY <1>1, <1>3, ElementOfSeq, OnPosition
  <2>2. pcb'[p].sleep_remain = pcb[p].sleep_remain /\ pcb[p].sleep_remain \in Nat \cup {-1}
    BY <1>1, <2>1, IInvMeans DEF PCB
  <2>3. TimeLeft(room, i) /\ asked[p] \in Nat /\ elapsed[p] \in Nat
    BY <2>1 DEF SleepInv
  <2>4. Due(i) = 0 /\ Due(i)' = 1
    BY <1>1 DEF Due
  <2>5. i \in Nat
    BY <1>3
  <2> HIDE DEF p
  <2>6. /\ pcb[p].sleep_remain >= 0 => pcb[p].sleep_remain + elapsed[p] <= asked[p]
        /\ \/ pcb[p].sleep_remain + elapsed[p] >= asked[p] - (room - i)
           \/ elapsed[p] > asked[p]
    BY <1>3, <2>2, <2>3, <2>4, <2>5 DEF TimeLeft, p
  <2>7. TimeLeft(room, i)' <=>
          /\ pcb[p].sleep_remain >= 0 => pcb[p].sleep_remain + elapsed'[p] <= asked[p] + 1
          /\ \/ pcb[p].sleep_remain + elapsed'[p] >= asked[p] + 1 - (room - i)
             \/ elapsed'[p] > asked[p]
    BY <1>2, <1>3, <2>1, <2>2, <2>3, <2>4, <2>5 DEF TimeLeft
  <2>8. elapsed'[p] = IF elapsed[p] <= asked[p] THEN elapsed[p] + 1 ELSE elapsed[p]
    BY <1>2, <2>1
  <2>9. room - i \in Int
    BY <1>3, <2>5
  <2> DEFINE n == IF elapsed[p] <= asked[p] THEN elapsed[p] + 1 ELSE elapsed[p]
  <2>10. /\ pcb[p].sleep_remain >= 0 => pcb[p].sleep_remain + n <= asked[p] + 1
         /\ pcb[p].sleep_remain + n >= asked[p] + 1 - (room - i) \/ n > asked[p]
    BY <2>2, <2>3, <2>6, <2>9, TickBegins
  <2>11. elapsed'[p] = n
    BY <2>8
  <2> HIDE DEF n
  <2> QED
    BY <2>7, <2>10, <2>11
<1> QED
  BY <1>1, <1>2, <1>4 DEF SleepInv

\* A process goes to sleep, at the tail, for as long as it asked for.
LEMMA SleepClockStep ==
    ASSUME NEW room \in Nat, Len(sleep_list') <= room,
           IInv, IInv', SleepInv(room), NEW p \in Pid, NEW t \in Ticks, Sleep(p, t), Counts
    PROVE  SleepInv(room)'
<1>1. /\ ctx = "process" /\ UNCHANGED <<ctx, cursor, dying>> /\ p # Shell
      /\ sleep_list' = Append(sleep_list, p)
      /\ pcb' = [pcb EXCEPT ![p].sleep_remain = t, ![p].status = "BLOCKED",
                            ![p].pc = "sleep_switch"]
      /\ ~On(sleep_list, p)
  BY ExecutingIsAwake DEF Sleep, InProgram, Running, Executing, k_add_tail
<1>2. /\ IsList(sleep_list, Pid) /\ IsList(sleep_list', Pid)
      /\ \A o : On(sleep_list', o) <=> On(sleep_list, o) \/ o = p
  BY <1>1, IInvMeans, AddTailLemma DEF k_add_tail
<1>3. t \in Nat /\ pcb \in [Pid -> PCB]
  BY TicksAssumption, IInvMeans
<1>4. /\ pcb'[p].sleep_remain = t
      /\ \A o \in Pid : o # p => pcb'[o] = pcb[o]
  <2>1. pcb[p] \in PCB
    BY <1>3
  <2> QED
    BY <1>1, <1>3, <2>1 DEF PCB
<1>5. /\ asked' \in [Pid -> Nat] /\ elapsed' \in [Pid -> Nat]
      /\ \A o \in Pid : ~On(sleep_list', o) => elapsed'[o] = 0
      /\ \A o \in Pid : On(sleep_list, o) => asked'[o] = asked[o] /\ elapsed'[o] = elapsed[o]
      /\ asked'[p] = t /\ elapsed'[p] = 0
  BY <1>1, <1>2, <1>3, <1>4 DEF Counts, Sleeping, SleepInv
<1>6. ~On(sleep_list', Shell)
  BY <1>1, <1>2 DEF SleepInv
<1>7. /\ sleep_list \in Seq(Pid) /\ Len(sleep_list) \in Nat
      /\ Len(sleep_list') <= room /\ Len(sleep_list') = Len(sleep_list) + 1
      /\ sleep_list'[Len(sleep_list) + 1] = p
      /\ \A i \in 1 .. Len(sleep_list) : sleep_list'[i] = sleep_list[i]
  <2>1. sleep_list \in Seq(Pid) /\ Len(sleep_list) \in Nat
    BY <1>2, LenProperties DEF IsList
  <2>2. /\ Len(sleep_list') = Len(sleep_list) + 1
        /\ \A i \in 1 .. Len(sleep_list) + 1 :
              sleep_list'[i] = IF i <= Len(sleep_list) THEN sleep_list[i] ELSE p
    BY <1>1, <2>1, AppendProperties
  <2> QED
    BY <2>1, <2>2
<1>8. \A i : Due(i) = 0 /\ Due(i)' = 0
  BY <1>1 DEF Due
<1>9. ASSUME NEW i \in 1 .. Len(sleep_list')
      PROVE  TimeLeft(room, i)'
  <2>1. CASE i <= Len(sleep_list)
    <3> DEFINE q == sleep_list[i]
    <3>1. i \in 1 .. Len(sleep_list)
      BY <1>7, <2>1
    <3>2. q \in Pid /\ On(sleep_list, q) /\ sleep_list'[i] = q /\ q # p
      BY <1>1, <1>7, <3>1, ElementOfSeq, OnPosition
    <3>3. /\ TimeLeft(room, i) /\ pcb'[q] = pcb[q]
          /\ asked'[q] = asked[q] /\ elapsed'[q] = elapsed[q]
      BY <1>4, <1>5, <3>1, <3>2 DEF SleepInv
    <3>4. Due(i)' = Due(i)
      BY <1>8
    <3> HIDE DEF q
    <3>5. sleep_list[i] = q
      BY DEF q
    <3> QED
      BY <3>2, <3>3, <3>4, <3>5 DEF TimeLeft
  <2>2. CASE i = Len(sleep_list) + 1
    <3>1. sleep_list'[i] = p /\ i <= room /\ i \in Nat
      BY <1>7, <2>2
    <3> QED
      BY <1>3, <1>4, <1>5, <1>7, <1>8, <3>1 DEF TimeLeft
  <2> QED
    BY <1>7, <2>1, <2>2
<1> QED
  BY <1>1, <1>5, <1>6, <1>9 DEF SleepInv

\* One more tick off a time takes one at most, and stops below zero.
LEMMA CountdownBounds ==
    ASSUME NEW n \in Nat \cup {-1}
    PROVE  /\ Countdown(n) \in Nat \cup {-1}
           /\ Countdown(n) >= n - 1
           /\ Countdown(n) >= 0 => Countdown(n) = n - 1
           /\ Countdown(n) <= n
BY DEF Countdown

\* The arithmetic: taking the tick that is due, and taking one more from who
\* moves up by a position.
LEMMA TickTaken ==
    ASSUME NEW r \in Nat \cup {-1}, NEW e \in Nat, NEW a \in Nat, NEW x \in Int,
           r >= 0 => r + e <= a + 1, r + e >= a + 1 - x \/ e > a
    PROVE  LET s == Countdown(r) IN (s >= 0 => s + e <= a) /\ (s + e >= a - x \/ e > a)
BY DEF Countdown

LEMMA TickLost ==
    ASSUME NEW r \in Nat \cup {-1}, NEW e \in Nat, NEW a \in Nat, NEW x \in Int, NEW y \in Int,
           y >= x + 1, NEW d \in Nat,
           r >= 0 => r + e <= a + d, r + e >= a + d - x \/ e > a
    PROVE  /\ LET s == Countdown(r) IN
              (s >= 0 => s + e <= a + d) /\ (s + e >= a + d - y \/ e > a)
           /\ r + e >= a + d - y \/ e > a
BY DEF Countdown

\* An iteration of the handler's loop takes its tick off the process at the
\* cursor, and one more off the next when that process wakes.
LEMMA AlarmStepClock ==
    ASSUME NEW room \in Nat, Len(sleep_list) <= room,
           IInv, IInv', SleepInv(room), AlarmStep, Counts
    PROVE  SleepInv(room)'
<1>1. /\ ctx = "alarm" /\ UNCHANGED dying /\ dying = {} /\ cursor \in Nat /\ cursor > 0
  BY IInvMeans DEF AlarmStep, SleepInv
<1>2. /\ sleep_list \in Seq(Pid) /\ Len(sleep_list) \in Nat
      /\ Len(sleep_list) <= room /\ IsList(sleep_list, Pid)
      /\ \A i \in 1 .. Len(sleep_list) : sleep_list[i] \in Pid /\ On(sleep_list, sleep_list[i])
      /\ \A i, j \in 1 .. Len(sleep_list) : sleep_list[i] = sleep_list[j] => i = j
  <2>1. IsList(sleep_list, Pid)
    BY IInvMeans
  <2>2. sleep_list \in Seq(Pid) /\ Len(sleep_list) \in Nat
    BY <2>1 DEF IsList
  <2>3. \A i \in 1 .. Len(sleep_list) : sleep_list[i] \in Pid /\ On(sleep_list, sleep_list[i])
    BY <2>2, ElementOfSeq, OnPosition
  <2>4. \A i, j \in 1 .. Len(sleep_list) : sleep_list[i] = sleep_list[j] => i = j
    BY <2>1, <2>2 DEF IsList, IsInjective
  <2> QED
    BY <2>1, <2>2, <2>3, <2>4
<1>3. pcb \in [Pid -> PCB] /\ \A o \in Pid : pcb[o].sleep_remain \in Nat \cup {-1}
  BY IInvMeans DEF PCB
<1>4. ASSUME \A o \in Pid : On(sleep_list', o) => On(sleep_list, o)
      PROVE  /\ asked' \in [Pid -> Nat] /\ elapsed' \in [Pid -> Nat]
             /\ \A o \in Pid : ~On(sleep_list', o) => elapsed'[o] = 0
             /\ \A o \in Pid : On(sleep_list', o) =>
                   asked'[o] = asked[o] /\ elapsed'[o] = elapsed[o]
             /\ ~On(sleep_list', Shell)
  <2>1. Shell \in Pid
    BY MaxPidAssumption DEF Shell, Pid
  <2> QED
    BY <1>1, <1>4, <2>1, CountsOfStayers DEF SleepInv
<1>5. CASE cursor > Len(sleep_list)
  <2>1. ctx' = "scheduler" /\ UNCHANGED <<sleep_list, pcb>>
    BY <1>5 DEF AlarmStep
  <2>2. ASSUME NEW i \in 1 .. Len(sleep_list)
        PROVE  TimeLeft(room, i)'
    <3> DEFINE q == sleep_list[i]
    <3>1. Due(i) = 0 /\ Due(i)' = 0
      BY <1>1, <1>2, <1>5, <2>1 DEF Due
    <3>2. q \in Pid /\ On(sleep_list, q)
      BY <1>2
    <3>3. /\ TimeLeft(room, i) /\ pcb'[q] = pcb[q] /\ sleep_list'[i] = q
          /\ asked'[q] = asked[q] /\ elapsed'[q] = elapsed[q]
      BY <1>4, <2>1, <3>2 DEF SleepInv
    <3>4. sleep_list[i] = q /\ Due(i)' = Due(i)
      BY <3>1
    <3> HIDE DEF q
    <3> QED
      BY <3>3, <3>4 DEF TimeLeft
  <2> QED
    BY <1>1, <1>4, <2>1, <2>2 DEF SleepInv
<1>6. CASE ~(cursor > Len(sleep_list))
  <2> DEFINE p      == sleep_list[cursor]
             remain == Countdown(pcb[p].sleep_remain)
             awake  == [pcb EXCEPT ![p].sleep_remain = remain, ![p].status = "READY"]
             next   == sleep_list[cursor + 1]
  <2>1. /\ ctx' = ctx
        /\ IF remain < 0 /\ pcb[p].status = "BLOCKED"
           THEN /\ sleep_list' = k_delete(sleep_list, p)
                /\ pcb' = IF cursor < Len(sleep_list)
                          THEN [awake EXCEPT ![next].sleep_remain = Countdown(awake[next].sleep_remain)]
                          ELSE awake
                /\ cursor' = cursor
           ELSE /\ pcb' = [pcb EXCEPT ![p].sleep_remain = remain]
                /\ cursor' = cursor + 1
                /\ UNCHANGED sleep_list
    BY <1>6 DEF AlarmStep
  <2>2. /\ cursor \in 1 .. Len(sleep_list) /\ p \in Pid
        /\ cursor < Len(sleep_list) => cursor + 1 \in 1 .. Len(sleep_list) /\ next \in Pid /\ next # p
    <3>1. cursor \in 1 .. Len(sleep_list)
      BY <1>1, <1>2, <1>6
    <3>2. cursor < Len(sleep_list) => cursor + 1 \in 1 .. Len(sleep_list) /\ cursor + 1 # cursor
      BY <1>2, <3>1
    <3> QED
      BY <1>2, <3>1, <3>2
  <2>3. CASE ~(remain < 0 /\ pcb[p].status = "BLOCKED")
    <3>1. /\ pcb' = [pcb EXCEPT ![p].sleep_remain = Countdown(pcb[p].sleep_remain)]
          /\ cursor' = cursor + 1 /\ UNCHANGED <<sleep_list, ctx>>
      BY <2>1, <2>3
    <3> HIDE DEF p, next
    <3>2. \A o \in Pid : pcb'[o].sleep_remain =
                           IF o = p THEN Countdown(pcb[p].sleep_remain) ELSE pcb[o].sleep_remain
      BY <1>3, <2>2, <3>1 DEF PCB
    <3>3. ASSUME NEW i \in 1 .. Len(sleep_list)
          PROVE  TimeLeft(room, i)'
      <4> DEFINE q == sleep_list[i]
      <4>1. q \in Pid /\ On(sleep_list, q)
        BY <1>2
      <4>2. /\ TimeLeft(room, i) /\ sleep_list'[i] = q
            /\ asked'[q] = asked[q] /\ elapsed'[q] = elapsed[q]
            /\ asked[q] \in Nat /\ elapsed[q] \in Nat
        BY <1>4, <3>1, <4>1 DEF SleepInv
      <4>3. sleep_list[i] = q /\ (q = p <=> i = cursor)
        BY <1>2, <2>2 DEF p
      <4> HIDE DEF q
      <4>4. i \in Nat /\ Due(i) = (IF i >= cursor THEN 1 ELSE 0)
            /\ Due(i)' = (IF i >= cursor + 1 THEN 1 ELSE 0)
        BY <1>1, <1>2, <3>1 DEF Due
      <4>5. /\ pcb[q].sleep_remain >= 0 => pcb[q].sleep_remain + elapsed[q] <= asked[q] + Due(i)
            /\ \/ pcb[q].sleep_remain + elapsed[q] >= asked[q] + Due(i) - (room - i)
               \/ elapsed[q] > asked[q]
        BY <4>2, <4>3 DEF TimeLeft
      <4>6. TimeLeft(room, i)' <=>
            /\ pcb'[q].sleep_remain >= 0 => pcb'[q].sleep_remain + elapsed[q] <= asked[q] + Due(i)'
            /\ \/ pcb'[q].sleep_remain + elapsed[q] >= asked[q] + Due(i)' - (room - i)
               \/ elapsed[q] > asked[q]
        BY <4>2 DEF TimeLeft
      <4>7. CASE i = cursor
        <5>1. pcb'[q].sleep_remain = Countdown(pcb[q].sleep_remain) /\ Due(i) = 1 /\ Due(i)' = 0
          BY <1>1, <3>2, <4>1, <4>3, <4>4, <4>7
        <5>2. pcb[q].sleep_remain \in Nat \cup {-1} /\ room - i \in Int
          BY <1>2, <1>3, <4>1, <4>4
        <5>3. /\ pcb[q].sleep_remain >= 0 => pcb[q].sleep_remain + elapsed[q] <= asked[q] + 1
              /\ \/ pcb[q].sleep_remain + elapsed[q] >= asked[q] + 1 - (room - i)
                 \/ elapsed[q] > asked[q]
          BY <4>5, <5>1
        <5>4. LET n == Countdown(pcb[q].sleep_remain) IN
              /\ n >= 0 => n + elapsed[q] <= asked[q]
              /\ n + elapsed[q] >= asked[q] - (room - i) \/ elapsed[q] > asked[q]
          BY <4>2, <5>2, <5>3, TickTaken
        <5>5. /\ pcb'[q].sleep_remain >= 0 => pcb'[q].sleep_remain + elapsed[q] <= asked[q]
              /\ \/ pcb'[q].sleep_remain + elapsed[q] >= asked[q] - (room - i)
                 \/ elapsed[q] > asked[q]
          BY <5>1, <5>4
        <5>6. /\ pcb'[q].sleep_remain >= 0 => pcb'[q].sleep_remain + elapsed[q] <= asked[q] + 0
              /\ \/ pcb'[q].sleep_remain + elapsed[q] >= asked[q] + 0 - (room - i)
                 \/ elapsed[q] > asked[q]
          <6>1. pcb'[q].sleep_remain \in Nat \cup {-1}
            BY <5>1, <5>2, CountdownBounds
          <6> QED
            BY <4>2, <5>2, <5>5, <6>1
        <5>7. Due(i)' = 0
          BY <5>1
        <5> QED
          BY <4>6, <5>6, <5>7
      <4>8. CASE i # cursor
        <5>1. pcb'[q].sleep_remain = pcb[q].sleep_remain /\ Due(i)' = Due(i)
          BY <1>1, <3>2, <4>1, <4>3, <4>4, <4>8
        <5> QED
          BY <4>5, <4>6, <5>1
      <4> QED
        BY <4>7, <4>8
    <3> QED
      BY <1>1, <1>4, <3>1, <3>3 DEF SleepInv
  <2>4. CASE remain < 0 /\ pcb[p].status = "BLOCKED"
    <3>1. /\ sleep_list' = k_delete(sleep_list, p) /\ UNCHANGED <<ctx, cursor>>
          /\ pcb' = IF cursor < Len(sleep_list)
                    THEN [awake EXCEPT ![next].sleep_remain = Countdown(awake[next].sleep_remain)]
                    ELSE awake
      BY <2>1, <2>4
    <3>2. /\ Len(sleep_list') = Len(sleep_list) - 1
          /\ \A i \in 1 .. Len(sleep_list) - 1 :
                sleep_list'[i] = IF i < cursor THEN sleep_list[i] ELSE sleep_list[i + 1]
      BY <1>2, <2>2, <3>1, DeleteAtCursor
    <3>3. \A o : On(sleep_list', o) <=> On(sleep_list, o) /\ o # p
      BY <1>2, <3>1, DeleteLemma
    <3>4. remain \in Nat \cup {-1}
      BY <1>3, <2>2, CountdownBounds
    <3> HIDE DEF p, next, remain
    <3>5. awake \in [Pid -> PCB] /\ \A o \in Pid : o # p => awake[o] = pcb[o]
      <4>1. pcb[p] \in PCB /\ "READY" \in Status
        BY <1>3, <2>2 DEF Status
      <4> QED
        BY <1>3, <2>2, <3>4, <4>1 DEF PCB
    <3> HIDE DEF awake
    <3>6. \A o \in Pid : o # p => pcb'[o].sleep_remain =
                          IF cursor < Len(sleep_list) /\ o = next
                          THEN Countdown(pcb[o].sleep_remain) ELSE pcb[o].sleep_remain
      BY <2>2, <3>1, <3>5 DEF PCB
    <3>7. ASSUME NEW i \in 1 .. Len(sleep_list')
          PROVE  TimeLeft(room, i)'
      <4> DEFINE j == IF i < cursor THEN i ELSE i + 1
                 q == sleep_list[j]
      <4>1. /\ i \in 1 .. Len(sleep_list) - 1 /\ i \in Nat
            /\ j \in 1 .. Len(sleep_list) /\ j \in Nat /\ j # cursor
            /\ (i < cursor => j = i) /\ (~(i < cursor) => j = i + 1)
        BY <1>1, <1>2, <3>2
      <4> HIDE DEF j
      <4>2. sleep_list'[i] = q /\ q \in Pid /\ On(sleep_list, q) /\ q # p
        BY <1>2, <2>2, <3>2, <4>1 DEF p, j
      <4>3. /\ TimeLeft(room, j)
            /\ asked'[q] = asked[q] /\ elapsed'[q] = elapsed[q]
            /\ asked[q] \in Nat /\ elapsed[q] \in Nat
        BY <1>4, <3>3, <4>1, <4>2 DEF SleepInv
      <4>4. cursor < Len(sleep_list) /\ q = next <=> j = cursor + 1
        BY <1>1, <1>2, <2>2, <4>1 DEF next
      <4>5. /\ Due(j) = (IF j >= cursor THEN 1 ELSE 0)
            /\ Due(i)' = (IF i >= cursor THEN 1 ELSE 0)
        BY <1>1, <3>1 DEF Due
      <4>6. Due(i)' = Due(j)
        BY <1>1, <4>1, <4>5
      <4>7. sleep_list[j] = q
        OBVIOUS
      <4> HIDE DEF q
      <4>8. /\ pcb[q].sleep_remain >= 0 => pcb[q].sleep_remain + elapsed[q] <= asked[q] + Due(j)
            /\ \/ pcb[q].sleep_remain + elapsed[q] >= asked[q] + Due(j) - (room - j)
               \/ elapsed[q] > asked[q]
        BY <4>3, <4>7 DEF TimeLeft
      <4>9. TimeLeft(room, i)' <=>
            /\ pcb'[q].sleep_remain >= 0 => pcb'[q].sleep_remain + elapsed[q] <= asked[q] + Due(j)
            /\ \/ pcb'[q].sleep_remain + elapsed[q] >= asked[q] + Due(j) - (room - i)
               \/ elapsed[q] > asked[q]
        BY <4>2, <4>3, <4>6 DEF TimeLeft
      <4>10. Due(j) \in {0, 1} /\ pcb[q].sleep_remain \in Nat \cup {-1}
        BY <1>3, <4>2, <4>5
      <4>11. room - j \in Int /\ room - i \in Int /\ Due(j) \in Nat /\ room - i >= room - j
        BY <1>2, <4>1, <4>10
      <4>12. CASE j = cursor + 1
        <5>1. pcb'[q].sleep_remain = Countdown(pcb[q].sleep_remain)
          BY <3>6, <4>2, <4>4, <4>12
        <5>2. room - i >= (room - j) + 1
          BY <1>1, <1>2, <4>1, <4>12
        <5>3. LET n == Countdown(pcb[q].sleep_remain) IN
              /\ n >= 0 => n + elapsed[q] <= asked[q] + Due(j)
              /\ n + elapsed[q] >= asked[q] + Due(j) - (room - i) \/ elapsed[q] > asked[q]
          BY <4>3, <4>8, <4>10, <4>11, <5>2, TickLost
        <5> QED
          BY <4>9, <5>1, <5>3
      <4>13. CASE j # cursor + 1
        <5>1. pcb'[q].sleep_remain = pcb[q].sleep_remain
          BY <3>6, <4>2, <4>4, <4>13
        <5>2. \/ pcb[q].sleep_remain + elapsed[q] >= asked[q] + Due(j) - (room - i)
              \/ elapsed[q] > asked[q]
          <6>1. pcb[q].sleep_remain \in Int /\ Due(j) \in Int
            BY <4>10
          <6> QED
            BY <4>3, <4>8, <4>11, <6>1
        <5> QED
          BY <4>8, <4>9, <5>1, <5>2
      <4> QED
        BY <4>12, <4>13
    <3> QED
      BY <1>1, <1>4, <3>1, <3>3, <3>7 DEF SleepInv
  <2> QED
    BY <2>3, <2>4
<1> QED
  BY <1>5, <1>6
-----------------------------------------------------------------------------
(* The theorems. *)

\* A step that changes nothing.
LEMMA StutterClock ==
    ASSUME NEW room, SleepInv(room), UNCHANGED <<vars, clockVars>>
    PROVE  SleepInv(room)'
BY DEF SleepInv, TimeLeft, Due, vars, clockVars

\* Nothing the kernel knows changes: nor does the clock.
LEMMA IdleClock ==
    ASSUME NEW room, IInv, IInv', SleepInv(room), UNCHANGED vars, Counts
    PROVE  SleepInv(room)'
<1>1. UNCHANGED <<sleep_list, pcb, ctx, cursor, dying>>
  BY DEF vars
<1>2. /\ asked' \in [Pid -> Nat] /\ elapsed' \in [Pid -> Nat]
      /\ \A o \in Pid : ~On(sleep_list', o) => elapsed'[o] = 0
      /\ \A o \in Pid : On(sleep_list', o) => asked'[o] = asked[o] /\ elapsed'[o] = elapsed[o]
  BY <1>1, CountsOfStayers
<1>3. ASSUME NEW i \in 1 .. Len(sleep_list)
      PROVE  TimeLeft(room, i)'
  <2>1. sleep_list[i] \in Pid /\ On(sleep_list, sleep_list[i])
    BY IInvMeans, ElementOfSeq, OnPosition DEF IsList
  <2>2. asked'[sleep_list[i]] = asked[sleep_list[i]] /\ elapsed'[sleep_list[i]] = elapsed[sleep_list[i]]
    BY <1>1, <1>2, <2>1
  <2>3. TimeLeft(room, i) /\ Due(i)' = Due(i)
    BY <1>1 DEF SleepInv, Due
  <2> QED
    BY <1>1, <2>2, <2>3 DEF TimeLeft
<1> QED
  BY <1>1, <1>2, <1>3 DEF SleepInv

LEMMA NextSleepInv ==
    ASSUME NEW room \in Nat, Len(sleep_list) <= room, Len(sleep_list') <= room,
           IInv, SleepInv(room), [ClockNext]_<<vars, clockVars>>
    PROVE  IInv' /\ SleepInv(room)'
<1>1. CASE UNCHANGED <<vars, clockVars>>
  BY <1>1, StutterIInv, StutterClock
<1>2. CASE ClockNext
  <2>1. Counts /\ [Next]_vars
    BY <1>2 DEF ClockNext, Counts
  <2>2. IInv'
    BY <2>1, NextIInv
  <2>3. CASE AlarmStep
    BY <2>1, <2>2, <2>3, AlarmStepClock
  <2>4. CASE Alarm
    BY <2>1, <2>2, <2>4, AlarmClock
  <2>5. CASE UNCHANGED vars
    BY <2>1, <2>2, <2>5, IdleClock
  <2>6. CASE ctx # "alarm" /\ ctx' # "alarm" /\ ~AlarmStep
    BY <2>1, <2>2, <2>6, StepKeeps, KeepsClock, SleepClockStep
  <2> QED
    BY <2>1, <2>3, <2>4, <2>5, <2>6, StepPhase DEF SleepInv
<1> QED
  BY <1>1, <1>2

LEMMA InitSleepInv ==
    ASSUME NEW room, ClockInit
    PROVE  SleepInv(room)
<1>1. sleep_list = <<>> /\ dying = {} /\ asked \in [Pid -> Nat] /\ elapsed = [p \in Pid |-> 0]
  BY DEF ClockInit, Init
<1>2. ~On(sleep_list, Shell) /\ Len(sleep_list) = 0
  BY <1>1 DEF On, Range
<1> QED
  BY <1>1, <1>2 DEF SleepInv

\* Nobody puts the shell on the sleep list.
LEMMA ShellStaysAwake ==
    ASSUME IInv, ~On(sleep_list, Shell), [Next]_vars
    PROVE  IsList(sleep_list', Pid) /\ ~On(sleep_list', Shell)
<1>1. IsList(sleep_list, Pid)
  BY IInvMeans
<1>2. ASSUME NEW c, sleep_list' = k_delete(sleep_list, c)
      PROVE  IsList(sleep_list', Pid) /\ ~On(sleep_list', Shell)
  BY <1>1, <1>2, DeleteLemma
<1>3. CASE AlarmStep
  BY <1>1, <1>2, <1>3 DEF AlarmStep
<1>4. ASSUME NEW p \in Pid, NEW t \in Ticks, Sleep(p, t)
      PROVE  IsList(sleep_list', Pid) /\ ~On(sleep_list', Shell)
  <2>1. p # Shell /\ sleep_list' = k_add_tail(sleep_list, p) /\ ~On(sleep_list, p)
    BY <1>4, ExecutingIsAwake DEF Sleep, InProgram, Running, Executing
  <2> QED
    BY <1>1, <2>1, AddTailLemma
<1> QED
  BY <1>2, <1>3, <1>4, StepKeeps DEF Keeps

LEMMA SleepInvariant == ClockSpec => [](IInv /\ SleepInv(Room))
<1>1. ClockInit => IInv /\ SleepInv(Room)
  BY InitIInv, InitSleepInv DEF ClockInit
<1>2. IInv /\ SleepInv(Room) /\ [ClockNext]_<<vars, clockVars>> => (IInv /\ SleepInv(Room))'
  <2> SUFFICES ASSUME IInv, SleepInv(Room), [ClockNext]_<<vars, clockVars>>
               PROVE  (IInv /\ SleepInv(Room))'
    OBVIOUS
  <2>1. [Next]_vars
    BY DEF ClockNext
  <2>2. IInv' /\ IsList(sleep_list, Pid) /\ ~On(sleep_list, Shell)
    BY <2>1, NextIInv, IInvMeans DEF SleepInv
  <2>3. IsList(sleep_list', Pid) /\ ~On(sleep_list', Shell)
    BY <2>1, <2>2, ShellStaysAwake
  <2>4. Len(sleep_list) <= Room /\ Len(sleep_list') <= Room /\ Room \in Nat
    BY <2>2, <2>3, SleepersFit
  <2> QED
    BY <2>4, NextSleepInv
<1> QED
  BY <1>1, <1>2, PTL DEF ClockSpec

\* alarm_handler never takes too few ticks off a sleeper: between two runs of
\* the handler it has at most what it asked for, less the ticks handled.
THEOREM NobodySleepsLong == ClockSpec => []NeverSleepsLong
<1>1. IInv /\ SleepInv(Room) => NeverSleepsLong
  <2> SUFFICES ASSUME IInv, SleepInv(Room), NEW p \in Pid, Sleeping(p), ctx # "alarm",
                      pcb[p].sleep_remain >= 0
               PROVE  pcb[p].sleep_remain <= asked[p] - elapsed[p]
    BY DEF NeverSleepsLong
  <2>1. PICK i \in 1 .. Len(sleep_list) : sleep_list[i] = p
    BY IInvMeans, OnPosition DEF Sleeping, IsList
  <2>2. TimeLeft(Room, i) /\ Due(i) = 0 /\ asked[p] \in Nat /\ elapsed[p] \in Nat
    BY DEF SleepInv, Due
  <2>3. pcb[p].sleep_remain \in Int
    BY IInvMeans DEF PCB
  <2>4. pcb[p].sleep_remain + elapsed[p] <= asked[p] + 0
    BY <2>1, <2>2 DEF TimeLeft
  <2> QED
    BY <2>2, <2>3, <2>4
<1> QED
  BY <1>1, SleepInvariant, PTL

-----------------------------------------------------------------------------
(* Who wakes a sleeper. *)

\* This step wakes nobody who is asleep.
WakesNoSleeper ==
    \A o \in Pid : On(sleep_list, o) /\ pcb[o].status = "BLOCKED" => pcb'[o].status # "READY"

LEMMA SameStatusWakesNone ==
    ASSUME SameButPc(pcb')
    PROVE  WakesNoSleeper
BY DEF SameButPc, WakesNoSleeper

\* k_unblock_wait leaves every status alone but those of some waiters.
LEMMA MarkStatuses ==
    ASSUME NEW t \in Pid, NEW how \in Status, NEW pcbs, SameButPc(pcbs),
           NEW lists, NEW waiters, IsList(waiters, Pid),
           k_unblock_wait(lists, waiters, [pcbs EXCEPT ![t].status = how], t)
    PROVE  \A o \in Pid : \/ On(waiters, o)
                         \/ pcb'[o].status = IF o = t THEN how ELSE pcb[o].status
<1> DEFINE marked == [pcbs EXCEPT ![t].status = how]
<1>1. /\ marked \in [Pid -> PCB]
      /\ \A o \in Pid : marked[o].status = IF o = t THEN how ELSE pcb[o].status
  BY DEF SameButPc, SameFields, PCB
<1>2. k_unblock_wait(lists, waiters, marked, t)
  OBVIOUS
<1> HIDE DEF marked
<1>3. marked \in [Pid -> PCB]
  BY <1>1
<1>4. PICK woken \in SUBSET Pid :
              /\ \A o \in woken : On(waiters, o) /\ Awaits(o, t)
              /\ woken = {} => \A o : On(waiters, o) => ~Awaits(o, t)
              /\ \A o : On(waiting_list', o) <=> On(waiters, o) /\ o \notin woken
              /\ pcb' \in [Pid -> PCB]
              /\ \A o \in Pid : pcb'[o] =
                    IF o \in woken THEN [marked[o] EXCEPT !.status = "READY"] ELSE marked[o]
  BY <1>2, <1>3, WakeLemma
<1> QED
  BY <1>1, <1>4

\* k_unblock_wait wakes a process on the waiting list.
LEMMA MarkWakesNone ==
    ASSUME IInv, NEW t \in Pid, NEW how \in Reported, NEW pcbs, SameButPc(pcbs),
           NEW lists, NEW waiters, IsList(waiters, Pid),
           \A o : On(waiters, o) => On(waiting_list, o),
           k_unblock_wait(lists, waiters, [pcbs EXCEPT ![t].status = how], t)
    PROVE  WakesNoSleeper
<1>1. how \in Status /\ how # "READY"
  BY DEF Reported, Status, Terminated
<1>2. ASSUME NEW o \in Pid, On(sleep_list, o), pcb[o].status = "BLOCKED"
      PROVE  pcb'[o].status # "READY"
  <2>1. ~On(waiting_list, o)
    BY <1>2, IInvMeans DEF Placed
  <2>2. pcb'[o].status = IF o = t THEN how ELSE pcb[o].status
    BY <1>1, <2>1, MarkStatuses
  <2> QED
    BY <1>1, <1>2, <2>2
<1> QED
  BY <1>2 DEF WakesNoSleeper

LEMMA TerminateWakesNone ==
    ASSUME IInv, NEW t \in Pid, NEW how \in Terminated, NEW pcbs, SameButPc(pcbs),
           k_terminate(t, how, pcbs)
    PROVE  WakesNoSleeper
<1>1. CASE pcb' = pcbs
  BY <1>1, SameStatusWakesNone
<1>2. CASE k_unblock_wait(MoveTo(queue, t, Zombie), k_delete(waiting_list, t),
                          [pcbs EXCEPT ![t].status = how], t)
  <2>1. /\ IsList(k_delete(waiting_list, t), Pid)
        /\ \A o : On(k_delete(waiting_list, t), o) => On(waiting_list, o)
    BY IInvMeans, DeleteLemma
  <2>2. how \in Reported
    BY DEF Reported
  <2> QED
    BY <1>2, <2>1, <2>2, MarkWakesNone
<1> QED
  BY <1>1, <1>2 DEF k_terminate

LEMMA StopWakesNone ==
    ASSUME IInv, NEW t \in Pid, NEW pcbs, SameButPc(pcbs), SigStp(t, pcbs)
    PROVE  WakesNoSleeper
<1>1. CASE pcb' = pcbs
  BY <1>1, SameStatusWakesNone
<1>2. CASE k_unblock_wait(MoveTo(queue, t, Stopped), waiting_list,
                          [pcbs EXCEPT ![t].status = "STOPPED"], t)
  <2>1. "STOPPED" \in Reported /\ IsList(waiting_list, Pid)
    BY IInvMeans DEF Reported
  <2> QED
    BY <1>2, <2>1, MarkWakesNone
<1> QED
  BY <1>1, <1>2 DEF SigStp

\* SIGCONT changes a stopped process only.
LEMMA ContinueWakesNone ==
    ASSUME IInv, NEW t \in Pid, NEW pcbs, SameButPc(pcbs), SigCont(t, pcbs)
    PROVE  WakesNoSleeper
<1>1. \/ pcb' = pcbs
      \/ pcb[t].status = "STOPPED" /\ \A o \in Pid : o # t => pcb'[o] = pcbs[o]
  BY DEF SigCont, SameButPc, SameFields
<1> QED
  BY <1>1 DEF SameButPc, WakesNoSleeper

\* Freeing a process, or making one of a free PCB, wakes nobody.
LEMMA OthersWakeNone ==
    ASSUME IInv, NEW c, NEW fresh, c \in Pid => fresh.status = "FREE" \/ pcb[c].status = "FREE",
           NEW pcbs, SameButPc(pcbs), pcb' = [pcbs EXCEPT ![c] = fresh]
    PROVE  WakesNoSleeper
<1>1. pcbs \in [Pid -> PCB] /\ \A o \in Pid : pcbs[o].status = pcb[o].status
  BY DEF SameButPc, SameFields
<1>2. \A o \in Pid : pcb'[o] = IF o = c THEN fresh ELSE pcbs[o]
  BY <1>1
<1> QED
  BY <1>1, <1>2 DEF WakesNoSleeper

LEMMA StepWakesNone ==
    ASSUME IInv, [Next]_vars, ~AlarmStep
    PROVE  WakesNoSleeper
<1>0. pcb \in [Pid -> PCB] /\ \A o \in Pid : pcb[o] \in PCB
  BY IInvMeans
<1>1. SameButPc(pcb)
  BY IInvMeans DEF SameButPc, SameFields
<1>2. ASSUME NEW p \in Pid, Process(p)
      PROVE  WakesNoSleeper
  <2>1. CASE Spawn(p)
    <3>1. PICK c \in Pid : ~Listed(queue, c) /\ pcb' = [pcb EXCEPT ![c] = NewPCB(p, MED)]
      BY <2>1 DEF Spawn, k_find_available_pid
    <3> QED
      BY <1>1, <3>1, ListedIsPid, OthersWakeNone
  <2>2. CASE \E t \in Ticks : Sleep(p, t)
    BY <1>0, <2>2 DEF Sleep, WakesNoSleeper, PCB
  <2>3. CASE \E target \in Pid \cup {AnyChild} : WaitFound(p, target)
    <3>1. pcb' = pcb \/ \E c : pcb' = [pcb EXCEPT ![c] = FreePCB]
      BY <2>3 DEF WaitFound, ReapFound
    <3>2. FreePCB.status = "FREE"
      BY DEF FreePCB
    <3> QED
      BY <1>1, <3>1, <3>2, OthersWakeNone, SameStatusWakesNone
  <2>4. CASE \E target \in Pid \cup {AnyChild} : WaitBlock(p, target)
    BY <1>0, <2>4 DEF WaitBlock, WakesNoSleeper, PCB
  <2>5. CASE WaitResume(p)
    <3> DEFINE pcbs == [pcb EXCEPT ![p].pc = "user"]
    <3>1. "user" \in PC \ Waits /\ FALSE \in BOOLEAN
      BY DEF PC, Waits
    <3>2. SameButPc(pcbs)
      BY <3>1, SameButPcLemma
    <3>3. pcb' = pcbs \/ \E c : pcb' = [pcbs EXCEPT ![c] = FreePCB]
      BY <2>5 DEF WaitResume, ReapFound
    <3>4. FreePCB.status = "FREE"
      BY DEF FreePCB
    <3> HIDE DEF pcbs
    <3> QED
      BY <3>2, <3>3, <3>4, OthersWakeNone, SameStatusWakesNone
  <2>6. CASE Switch(p)
    BY <1>0, <2>6 DEF Switch, WakesNoSleeper, PCB
  <2>7. CASE \E t \in Pid, signal \in {"S_SIGTERM", "S_SIGCONT", "S_SIGSTP"} : Kill(p, t, signal)
    <3>1. PICK t \in Pid, signal \in {"S_SIGTERM", "S_SIGCONT", "S_SIGSTP"} : Kill(p, t, signal)
      BY <2>7
    <3>2. /\ "return" \in PC \ Waits /\ (t = p /\ Stoppable(t)) \in BOOLEAN
          /\ "SIGNALED" \in Terminated
      BY DEF PC, Waits, Terminated
    <3>3. /\ SameButPc([pcb EXCEPT ![p].pc = "return"])
          /\ SameButPc([pcb EXCEPT ![p].pc = "return",
                                   ![p].stopping = t = p /\ Stoppable(t)])
      BY <3>2, SameButPcLemma
    <3> QED
      BY <3>1, <3>2, <3>3, TerminateWakesNone, ContinueWakesNone, StopWakesNone DEF Kill
  <2>8. CASE Exit(p)
    <3>1. "return" \in PC \ Waits /\ FALSE \in BOOLEAN /\ "EXITED" \in Terminated
      BY DEF PC, Waits, Terminated
    <3>2. SameButPc([pcb EXCEPT ![p].pc = "return"])
      BY <3>1, SameButPcLemma
    <3> QED
      BY <2>8, <3>1, <3>2, TerminateWakesNone DEF Exit
  <2> QED
    BY <1>2, <2>1, <2>2, <2>3, <2>4, <2>5, <2>6, <2>7, <2>8 DEF Process
<1>3. ASSUME NEW t \in Pid, Continue(t)
      PROVE  WakesNoSleeper
  BY <1>1, <1>3, ContinueWakesNone DEF Continue
<1>4. ASSUME NEW t \in Pid, NEW priority \in Levels, Nice(t, priority)
      PROVE  WakesNoSleeper
  BY <1>0, <1>4 DEF Nice, WakesNoSleeper, PCB
<1>5. CASE OrphanStep
  <2>1. pcb' = pcb \/ \E c : pcb' = [pcb EXCEPT ![c] = FreePCB]
    BY <1>5 DEF OrphanStep
  <2>2. FreePCB.status = "FREE"
    BY DEF FreePCB
  <2> QED
    BY <1>1, <2>1, <2>2, OthersWakeNone, SameStatusWakesNone
<1>6. CASE KeyInt
  <2>1. current_pcb \in Pid /\ "SIGNALED" \in Terminated
    BY <1>6, ListedIsPid DEF KeyInt, Terminated
  <2> QED
    BY <1>1, <1>6, <2>1, TerminateWakesNone DEF KeyInt
<1>7. CASE KeyStop
  <2>1. current_pcb \in Pid /\ (ctx = "process") \in BOOLEAN /\ "user" \in PC \ Waits
    BY <1>7, ListedIsPid DEF KeyStop, PC, Waits
  <2>2. SameButPc([pcb EXCEPT ![current_pcb].stopping = (ctx = "process")])
    BY <2>1, SameButPcLemma
  <2> QED
    BY <1>7, <2>1, <2>2, StopWakesNone DEF KeyStop
<1>8. ASSUME IdleSwitch \/ Alarm \/ Idle \/ (\E l \in ReadyLists : Schedule(l)) \/ UNCHANGED vars
      PROVE  WakesNoSleeper
  BY <1>8 DEF IdleSwitch, Alarm, Idle, Schedule, vars, WakesNoSleeper
<1> QED
  BY <1>2, <1>3, <1>4, <1>5, <1>6, <1>7, <1>8 DEF Next

\* alarm_handler wakes the process at its cursor, and only once its time has
\* run out.
LEMMA WhoWakes ==
    ASSUME IInv, NEW p \in Pid, pcb[p].status = "BLOCKED", pcb'[p].status = "READY", AlarmStep
    PROVE  /\ ctx = "alarm" /\ cursor \in 1 .. Len(sleep_list) /\ sleep_list[cursor] = p
           /\ pcb[p].sleep_remain <= 0
<1>1. /\ ctx = "alarm" /\ cursor \in Nat /\ cursor > 0
      /\ pcb \in [Pid -> PCB] /\ \A o \in Pid : pcb[o].sleep_remain \in Nat \cup {-1}
  BY IInvMeans DEF AlarmStep, PCB
<1>2. sleep_list \in Seq(Pid) /\ Len(sleep_list) \in Nat
  BY IInvMeans, LenProperties DEF IsList
<1>3. ~(cursor > Len(sleep_list))
  BY DEF AlarmStep
<1> DEFINE o == sleep_list[cursor]
           remain == Countdown(pcb[o].sleep_remain)
           awake  == [pcb EXCEPT ![o].sleep_remain = remain, ![o].status = "READY"]
           next   == sleep_list[cursor + 1]
<1>4. \/ pcb' = [pcb EXCEPT ![o].sleep_remain = remain]
      \/ /\ remain < 0
         /\ \/ pcb' = awake
            \/ pcb' = [awake EXCEPT ![next].sleep_remain = Countdown(awake[next].sleep_remain)]
  BY <1>3 DEF AlarmStep
<1>5. cursor \in 1 .. Len(sleep_list) /\ o \in Pid
  BY <1>1, <1>2, <1>3, ElementOfSeq
<1>6. remain \in Nat \cup {-1} /\ (remain < 0 => pcb[o].sleep_remain <= 0)
  BY <1>1, <1>5 DEF Countdown
<1> HIDE DEF o, remain, next
<1>7. pcb[p] \in PCB /\ pcb[o] \in PCB
  BY <1>1, <1>5
<1>8. CASE pcb' = [pcb EXCEPT ![o].sleep_remain = remain]
  BY <1>1, <1>7, <1>8 DEF PCB
<1>9. CASE p # o /\ remain < 0
  <2>1. awake \in [Pid -> PCB] /\ awake[p] = pcb[p]
    <3>1. "READY" \in Status
      BY DEF Status
    <3> QED
      BY <1>1, <1>5, <1>6, <1>7, <1>9, <3>1 DEF PCB
  <2> HIDE DEF awake
  <2>2. pcb'[p].status = awake[p].status
    <3>1. awake[p] \in PCB
      BY <2>1
    <3>2. CASE pcb' = [awake EXCEPT ![next].sleep_remain = Countdown(awake[next].sleep_remain)]
      BY <2>1, <3>1, <3>2 DEF PCB
    <3>3. CASE pcb' = [pcb EXCEPT ![o].sleep_remain = remain]
      BY <1>1, <1>9, <2>1, <3>3
    <3> QED
      BY <1>4, <3>2, <3>3
  <2> QED
    BY <2>1, <2>2
<1>10. CASE p = o /\ remain < 0
  BY <1>1, <1>5, <1>6, <1>10 DEF o
<1> QED
  BY <1>4, <1>8, <1>9, <1>10

\* A process that wakes has slept for what it asked for, less one tick for
\* each neighbour ahead of it that woke after the first.
LEMMA WakesWithinRoom ==
    ASSUME NEW room \in Nat, room >= 2, Len(sleep_list) <= room,
           IInv, SleepInv(room), [Next]_vars, NEW p \in Pid, Sleeping(p),
           pcb[p].status = "BLOCKED", pcb'[p].status = "READY"
    PROVE  elapsed[p] + (room - 2) >= asked[p]
<1>1. AlarmStep
  BY StepWakesNone DEF WakesNoSleeper, Sleeping
<1>2. /\ ctx = "alarm" /\ cursor \in 1 .. Len(sleep_list) /\ sleep_list[cursor] = p
      /\ pcb[p].sleep_remain <= 0
  BY <1>1, WhoWakes
<1>3. /\ pcb[p].sleep_remain \in Nat \cup {-1}
      /\ asked[p] \in Nat /\ elapsed[p] \in Nat
      /\ Len(sleep_list) \in Nat /\ cursor \in Nat
  BY <1>2, IInvMeans, LenProperties DEF SleepInv, PCB, IsList
<1>4. TimeLeft(room, cursor) /\ Due(cursor) = 1
  BY <1>2, <1>3 DEF SleepInv, Due
<1>5. \/ pcb[p].sleep_remain + elapsed[p] >= asked[p] + 1 - (room - cursor)
      \/ elapsed[p] > asked[p]
  BY <1>2, <1>4 DEF TimeLeft
<1> QED
  BY <1>2, <1>3, <1>5

\* With any number of processes, p_sleep returns at most MaxPid - 3 ticks early:
\* each sleeper but one may wake just ahead of it and take one of its ticks.
THEOREM WakesAlmostInTime ==
    ClockSpec => [][\A p \in Pid :
                      Sleeping(p) /\ pcb[p].status = "BLOCKED" /\ pcb'[p].status = "READY" =>
                          elapsed[p] + (Room - 2) >= asked[p]]_<<vars, clockVars>>
<1> DEFINE InTime == \A p \in Pid :
                       Sleeping(p) /\ pcb[p].status = "BLOCKED" /\ pcb'[p].status = "READY" =>
                           elapsed[p] + (Room - 2) >= asked[p]
<1>1. IInv /\ SleepInv(Room) /\ [ClockNext]_<<vars, clockVars>> => InTime
  <2> SUFFICES ASSUME IInv, SleepInv(Room), [Next]_vars
               PROVE  InTime
    BY DEF ClockNext, vars
  <2>1. Len(sleep_list) <= Room /\ Room \in Nat
    BY IInvMeans, SleepersFit DEF SleepInv
  <2>2. Room >= 2
    BY MaxPidAssumption DEF Room
  <2> QED
    BY <2>1, <2>2, WakesWithinRoom
<1> HIDE DEF InTime
<1>2. IInv /\ SleepInv(Room) /\ [ClockNext]_<<vars, clockVars>> => [InTime]_<<vars, clockVars>>
  BY <1>1
<1>3. ClockSpec => [][InTime]_<<vars, clockVars>>
  BY <1>2, SleepInvariant, PTL DEF ClockSpec
<1> QED
  BY <1>3 DEF InTime

\* As long as no more than two processes sleep at once, of however many there
\* are, nobody wakes before the ticks it asked for have been handled: it takes a
\* third sleeper for a neighbour's second extra tick.
THEOREM TwoNeverWakeEarly ==
    ClockSpec /\ [](Len(sleep_list) <= 2) => NeverWakesEarly
<1> DEFINE Few == Len(sleep_list) <= 2
           Inv == IInv /\ SleepInv(2)
           InTime == \A p \in Pid :
                       Sleeping(p) /\ pcb[p].status = "BLOCKED" /\ pcb'[p].status = "READY" =>
                           elapsed[p] >= asked[p]
<1>1. ClockInit => Inv
  BY InitIInv, InitSleepInv DEF ClockInit
<1>2. Inv /\ Few /\ Few' /\ [ClockNext]_<<vars, clockVars>> => Inv'
  BY NextSleepInv
<1>3. Inv /\ Few /\ [ClockNext]_<<vars, clockVars>> => [InTime]_<<vars, clockVars>>
  <2> SUFFICES ASSUME IInv, SleepInv(2), Len(sleep_list) <= 2, [Next]_vars,
                      NEW p \in Pid, Sleeping(p),
                      pcb[p].status = "BLOCKED", pcb'[p].status = "READY"
               PROVE  elapsed[p] >= asked[p]
    BY DEF ClockNext
  <2>1. elapsed[p] + (2 - 2) >= asked[p]
    BY WakesWithinRoom
  <2>2. elapsed[p] \in Nat
    BY DEF SleepInv
  <2> QED
    BY <2>1, <2>2
<1> HIDE DEF Few, Inv, InTime
<1>4. ClockSpec /\ []Few => [][InTime]_<<vars, clockVars>>
  BY <1>1, <1>2, <1>3, PTL DEF ClockSpec
<1> QED
  BY <1>4 DEF Few, InTime, NeverWakesEarly
=============================================================================
