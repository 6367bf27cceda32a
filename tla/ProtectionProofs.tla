-------------------------- MODULE ProtectionProofs --------------------------
(***************************************************************************)
(* Proofs about module Protection, for any processes, any terminal signals *)
(* and a stack of any size: the layers balance, the kernel is closed to    *)
(* signals and programs are open to them.                                  *)
(***************************************************************************)
EXTENDS Protection, SequenceTheorems, TLAPS

\* Where a handler can have come from, and what it returns to.
Shape(s) ==
    /\ s.point \in {"user", "asleep"} => s.frames = <<>>
    /\ s.point \in {"handler", "return"} => s.frames # <<>>
    /\ \A i \in DOMAIN s.frames :
          /\ s.frames[i].point \notin {"call", "rest"}
          /\ s.frames[i].point \in {"user", "asleep"} => i = 1
          /\ s.frames[i].point \in {"handler", "return"} => i # 1

\* The mask a thread has outside of its calls: the signals whose handlers are in
\* progress.
OpenMask(frames) ==
    IF frames = <<>> THEN {} ELSE Last(frames).mask \cup {Last(frames).signal}

\* Each handler runs with its own signal blocked as well; none came after an entry
\* of a thread that is not raced had set the mode.
Chain(s) ==
    ~s.closed =>
        \A i \in DOMAIN s.frames :
            /\ s.frames[i].mask = IF i = 1 THEN {}
                                  ELSE s.frames[i - 1].mask \cup {s.frames[i - 1].signal}
            /\ ~s.raced => ~ModeSet(s.frames[i].point)

\* A process that does not run.
Waiting(s) ==
    ~s.closed => /\ s.mask = OpenMask(s.frames)
                 /\ ~s.raced => Outside(s)

Balanced ==
    /\ protection_level = lost + (IF InCall(running) THEN 1 ELSE 0)
    /\ \A t \in Threads \ {running} : ~InCall(t)

Closed == InKernel \/ InCall(running) => sigmask = Signals

\* The kernel contexts: no handler interrupts them.
KernelPlain ==
    InKernel => /\ At \in {"user", "call"} /\ Frames = <<>>
                /\ At = "call" => thread[running].pairs > 0

KernelReturns ==
    InKernel /\ At = "call" => sigmask_stack[protection_level - 1] = Signals

\* The state a user thread runs in: its mask, which inside of a call is the one
\* saved below.
MaskFits(s, mask, below) ==
    ~s.closed => OpenMask(s.frames) = IF s.point \in {"call", "rest"} THEN below ELSE mask

\* The same of the mode, which k_enter_protected_mode saves before the mask: above
\* is the element it has filled when it, or a handler that came then, is not done.
ModeFits(s, mode, below, above) ==
    ~s.closed /\ ~s.raced =>
        IF s.point \in {"call", "rest"} THEN below = "USER_MODE"
        ELSE /\ mode = IF ModeSet(s.point) THEN "KERNEL_MODE" ELSE "USER_MODE"
             /\ Outside(s) \/ above = "USER_MODE"

RunningFits ==
    InUser => /\ MaskFits(thread[running], sigmask, sigmask_stack[protection_level - 1])
              /\ ModeFits(thread[running], cpu_mode, cpu_mode_stack[protection_level - 1],
                          cpu_mode_stack[protection_level])

Core ==
    /\ Balanced /\ Closed /\ KernelReturns
    /\ \A p \in Procs : p # running => Waiting(thread[p])
    /\ \A t \in Procs \cup {running} : Chain(thread[t])
    /\ RunningFits

\* The inductive invariant.
IInv ==
    /\ TypeOK /\ KernelPlain
    /\ \A t \in Threads : Shape(thread[t])
    /\ lost < MaxLayers => Core
-----------------------------------------------------------------------------
\* What Append and Front do to the frames.
LEMMA AppendFacts ==
    ASSUME NEW S, NEW q \in Seq(S), NEW f \in S
    PROVE  /\ Append(q, f) \in Seq(S) /\ Append(q, f) # <<>>
           /\ DOMAIN Append(q, f) = 1 .. Len(q) + 1
           /\ \A i \in 1 .. Len(q) : Append(q, f)[i] = q[i]
           /\ Append(q, f)[Len(q) + 1] = f
           /\ Last(Append(q, f)) = f
           /\ Len(q) \in Nat /\ DOMAIN q = 1 .. Len(q)
           /\ q = <<>> <=> Len(q) = 0
           /\ q # <<>> => Last(q) = q[Len(q)]
BY DEF Last

\* The same for Front and Last.
LEMMA FrontFacts ==
    ASSUME NEW S, NEW q \in Seq(S), q # <<>>
    PROVE  /\ Len(q) \in Nat \ {0} /\ DOMAIN q = 1 .. Len(q)
           /\ Last(q) = q[Len(q)] /\ Last(q) \in S
           /\ Front(q) \in Seq(S)
           /\ DOMAIN Front(q) = 1 .. Len(q) - 1
           /\ \A i \in 1 .. Len(q) - 1 : Front(q)[i] = q[i]
           /\ Front(q) = <<>> <=> Len(q) = 1
           /\ Len(q) # 1 => Last(Front(q)) = q[Len(q) - 1]
<1>1. Len(q) \in Nat \ {0} /\ DOMAIN q = 1 .. Len(q) /\ q \in [1 .. Len(q) -> S]
  BY EmptySeq, LenProperties
<1>2. \A i \in 1 .. Len(q) - 1 : q[i] \in S
  BY <1>1
<1>3. /\ Front(q) \in Seq(S)
      /\ Len(Front(q)) = Len(q) - 1
      /\ \A i \in 1 .. Len(q) - 1 : Front(q)[i] = q[i]
  BY <1>1, <1>2, SubSeqProperties DEF Front
<1>4. DOMAIN Front(q) = 1 .. Len(q) - 1 /\ (Front(q) = <<>> <=> Len(q) = 1)
  BY <1>1, <1>3, EmptySeq, LenProperties
<1> QED
  BY <1>1, <1>3, <1>4 DEF Last

\* A context that starts from its beginning.
LEMMA FreshLemma ==
    /\ Fresh \in ThreadState /\ Shape(Fresh) /\ Chain(Fresh) /\ Waiting(Fresh)
    /\ \A n \in 0 .. 2 : /\ KernelThread(n) \in ThreadState /\ Shape(KernelThread(n))
                         /\ KernelThread(n) = [Fresh EXCEPT !.pairs = n]
<1>1. \A n \in 0 .. 2 : KernelThread(n).frames = <<>> /\ KernelThread(n).point = "user"
  BY DEF KernelThread, Fresh
<1>2. Fresh \in ThreadState
  BY EmptySeq DEF Fresh, ThreadState, Point
<1>3. \A n \in 0 .. 2 : KernelThread(n) \in ThreadState
  BY <1>2 DEF KernelThread, ThreadState
<1>4. Fresh.frames = <<>> /\ Fresh.point = "user" /\ Fresh.mask = {}
  BY DEF Fresh
<1>5. \A i : i \notin DOMAIN <<>>
  OBVIOUS
<1>6. Shape(Fresh) /\ \A n \in 0 .. 2 : Shape(KernelThread(n))
  BY <1>1, <1>4, <1>5 DEF Shape
<1>7. Chain(Fresh) /\ Waiting(Fresh)
  BY <1>4, <1>5 DEF Chain, Waiting, OpenMask, Outside, Halfway, ModeSaved, ModeSet
<1> QED
  BY <1>2, <1>3, <1>6, <1>7 DEF KernelThread

\* The initial state: the scheduler, before its first tick.
LEMMA InitIInv == Init => IInv
<1> SUFFICES ASSUME Init PROVE IInv
  OBVIOUS
<1> USE DEF Init
<1>1. "scheduler" \in Threads /\ Procs \subseteq Threads
      /\ "scheduler" \notin Procs
  BY ProcsAssumption DEF Threads
<1>2. KernelThread(2) \in ThreadState /\ Fresh \in ThreadState
  BY FreshLemma
<1>3. TypeOK
  BY <1>1, <1>2, MaxLayersAssumption DEF TypeOK, Layers, Mode, Signals
<1>4. KernelThread(2).point = "user" /\ KernelThread(2).frames = <<>> /\ Fresh.point = "user"
  BY DEF KernelThread, Fresh
<1>5. KernelPlain /\ KernelReturns /\ RunningFits /\ Closed
  BY <1>1, <1>4 DEF KernelPlain, KernelReturns, RunningFits, Closed,
     InKernel, InUser, InCall, At, Frames
<1>6. \A t \in Threads : Shape(thread[t])
  BY <1>1, FreshLemma
<1>7. Balanced
  BY <1>1, <1>4 DEF Balanced, InCall
<1>8. \A p \in Procs : Waiting(thread[p]) /\ Chain(thread[p])
  BY <1>1, FreshLemma
<1>9. Chain(thread[running])
  BY <1>1, FreshLemma DEF Chain, KernelThread, Fresh
<1> QED
  BY <1>3, <1>5, <1>6, <1>7, <1>8, <1>9 DEF IInv, Core
-----------------------------------------------------------------------------
\* The table of threads after a step that changes one.
LEMMA ThreadLemma ==
    ASSUME TypeOK, NEW t \in Threads, NEW s \in ThreadState,
           thread' = [thread EXCEPT ![t] = s]
    PROVE  /\ thread' \in [Threads -> ThreadState]
           /\ thread'[t] = s
           /\ \A o \in Threads : o # t => thread'[o] = thread[o]
BY DEF TypeOK

\* What the stacks and the signal mask are.
Typed ==
    /\ cpu_mode \in Mode /\ sigmask \in SUBSET Signals
    /\ protection_level \in 0 .. MaxLayers
    /\ cpu_mode_stack \in [Layers -> Mode]
    /\ sigmask_stack \in [Layers -> SUBSET Signals]
    /\ lost \in 0 .. MaxLayers

\* A step of the user thread that runs: only what it is in afterwards matters.
LEMMA UserStep ==
    ASSUME IInv, InUser, running' = running, Typed',
           NEW s \in ThreadState, Shape(s),
           thread' = [thread EXCEPT ![running] = s],
           lost' < MaxLayers =>
              /\ lost < MaxLayers
              /\ protection_level' = lost' + (IF s.point \in {"call", "rest"} THEN 1 ELSE 0)
              /\ s.point \in {"call", "rest"} => sigmask' = Signals
              /\ Chain(s)
              /\ MaskFits(s, sigmask', sigmask_stack'[protection_level' - 1])
              /\ ModeFits(s, cpu_mode', cpu_mode_stack'[protection_level' - 1],
                          cpu_mode_stack'[protection_level'])
    PROVE  IInv'
<1>1. running \in Threads /\ Procs \subseteq Threads /\ ~InKernel
  BY ProcsAssumption DEF IInv, TypeOK, InUser, InKernel, Threads
<1>2. /\ thread' \in [Threads -> ThreadState]
      /\ thread'[running] = s
      /\ \A o \in Threads : o # running => thread'[o] = thread[o]
  BY <1>1, ThreadLemma DEF IInv
<1>3. TypeOK'
  BY <1>1, <1>2 DEF TypeOK, Typed
<1>4. KernelPlain' /\ KernelReturns' /\ ~InKernel'
  BY <1>1 DEF KernelPlain, KernelReturns, InKernel
<1>5. \A t \in Threads : Shape(thread[t])'
  BY <1>2 DEF IInv
<1>6. ASSUME lost' < MaxLayers PROVE Core'
  <2>1. Core
    BY <1>6 DEF IInv
  <2>2. Balanced'
    BY <1>1, <1>2, <1>6, <2>1 DEF Core, Balanced, InCall
  <2>3. Closed'
    BY <1>2, <1>4, <1>6 DEF Closed, InCall
  <2>4. \A p \in Procs : p # running' => Waiting(thread'[p])
    BY <1>1, <1>2, <2>1 DEF Core
  <2>5. \A t \in Procs \cup {running'} : Chain(thread'[t])
    BY <1>1, <1>2, <1>6, <2>1 DEF Core
  <2>6. RunningFits'
    BY <1>2, <1>6 DEF RunningFits
  <2> QED
    BY <1>4, <2>2, <2>3, <2>4, <2>5, <2>6 DEF Core
<1> QED
  BY <1>3, <1>4, <1>5, <1>6 DEF IInv

\* The scheduler or the returner starts; the thread that ran is left in state s.
LEMMA ToKernelStep ==
    ASSUME IInv, running \notin {"scheduler"}, ~InCall(running),
           NEW context \in {"scheduler", "returner"}, NEW pairs \in 0 .. 2,
           NEW s \in ThreadState, Shape(s), s.point \notin {"call", "rest"},
           running \in Procs /\ lost < MaxLayers => Chain(s) /\ Waiting(s),
           ToKernel(context, pairs, [thread EXCEPT ![running] = s])
    PROVE  IInv'
<1> DEFINE k == KernelThread(pairs)
           threads == [thread EXCEPT ![running] = s]
<1>1. /\ running' = context /\ thread' = [threads EXCEPT ![context] = k]
      /\ cpu_mode' = "KERNEL_MODE" /\ sigmask' = Signals
      /\ UNCHANGED <<protection_level, cpu_mode_stack, sigmask_stack, lost>>
  BY DEF ToKernel
<1>2. /\ running \in Threads /\ context \in Threads /\ Procs \subseteq Threads
      /\ context \notin Procs \cup {"idle"} /\ TypeOK
  BY ProcsAssumption DEF IInv, TypeOK, Threads
<1>3. /\ k \in ThreadState /\ Shape(k) /\ k.point = "user" /\ k.frames = <<>>
      /\ Chain(k)
  <2>1. k.point = "user" /\ k.frames = <<>> /\ k.closed = FALSE
    BY DEF KernelThread, Fresh
  <2>2. \A i : i \notin DOMAIN <<>>
    OBVIOUS
  <2> QED
    BY <2>1, <2>2, FreshLemma DEF Chain
<1> HIDE DEF k
<1>4. /\ thread' \in [Threads -> ThreadState]
      /\ thread'[context] = k
      /\ context # running => thread'[running] = s
      /\ \A o \in Threads : o # running /\ o # context => thread'[o] = thread[o]
  BY <1>1, <1>2, <1>3 DEF TypeOK
<1> HIDE DEF threads
<1>5. TypeOK'
  BY <1>1, <1>2, <1>4 DEF TypeOK, Mode
<1>6. KernelPlain' /\ KernelReturns' /\ ~InUser' /\ RunningFits'
  BY <1>1, <1>2, <1>3, <1>4 DEF KernelPlain, KernelReturns, InUser, RunningFits, At, Frames
<1>7. \A t \in Threads : Shape(thread[t])'
  BY <1>2, <1>3, <1>4 DEF IInv
<1>8. ASSUME lost' < MaxLayers PROVE Core'
  <2>1. Core
    BY <1>1, <1>8 DEF IInv
  <2>2. Balanced'
    BY <1>1, <1>2, <1>3, <1>4, <2>1 DEF Core, Balanced, InCall
  <2>3. Closed'
    BY <1>1 DEF Closed
  <2>4. ASSUME NEW p \in Procs PROVE Waiting(thread'[p]) /\ Chain(thread'[p])
    BY <1>1, <1>2, <1>4, <1>8, <2>1 DEF Core
  <2> QED
    BY <1>1, <1>3, <1>4, <1>6, <2>2, <2>3, <2>4 DEF Core
<1> QED
  BY <1>5, <1>6, <1>7, <1>8 DEF IInv

\* The scheduler hands the processor to a thread in state s, which is in no call.
LEMMA ToUserStep ==
    ASSUME IInv, running = "scheduler", At = "user",
           NEW t \in Procs \cup {"idle"}, NEW s \in ThreadState, Shape(s),
           lost < MaxLayers => s.point \notin {"call", "rest"} /\ Chain(s) /\ Waiting(s),
           ToUser(t, s)
    PROVE  IInv'
<1> DEFINE u == [s EXCEPT !.mask = {}, !.raced = s.raced /\ ~Outside(s)]
<1>1. /\ running' = t /\ cpu_mode' = "USER_MODE" /\ sigmask' = s.mask
      /\ thread' = [thread EXCEPT ![t] = u]
      /\ UNCHANGED <<protection_level, cpu_mode_stack, sigmask_stack, lost>>
  BY DEF ToUser
<1>2. /\ t \in Threads /\ Procs \subseteq Threads /\ "scheduler" \in Threads
      /\ t # "scheduler" /\ t # "returner" /\ TypeOK
  BY ProcsAssumption DEF IInv, TypeOK, Threads
<1>3. /\ u \in ThreadState
      /\ u.point = s.point /\ u.frames = s.frames /\ u.closed = s.closed
      /\ u.raced = (s.raced /\ ~Outside(s))
  BY DEF ThreadState
<1>4. s.mask \in SUBSET Signals /\ s.frames \in Seq([signal : Keys, point : Point, mask : SUBSET Signals])
  BY DEF ThreadState
<1>5. Shape(u)
  BY <1>3 DEF Shape
<1> HIDE DEF u
<1>6. /\ thread' \in [Threads -> ThreadState]
      /\ thread'[t] = u
      /\ \A o \in Threads : o # t => thread'[o] = thread[o]
  BY <1>1, <1>2, <1>3, ThreadLemma
<1>7. TypeOK'
  BY <1>1, <1>2, <1>4, <1>6 DEF TypeOK, Mode
<1>8. KernelPlain' /\ KernelReturns' /\ ~InKernel'
  BY <1>1, <1>2 DEF KernelPlain, KernelReturns, InKernel
<1>9. \A o \in Threads : Shape(thread[o])'
  BY <1>5, <1>6 DEF IInv
<1>10. ASSUME lost' < MaxLayers PROVE Core'
  <2>1. Core /\ s.point \notin {"call", "rest"} /\ Chain(s) /\ Waiting(s)
    BY <1>1, <1>10 DEF IInv
  <2>2. Balanced'
    BY <1>1, <1>2, <1>3, <1>6, <2>1 DEF Core, Balanced, InCall, At
  <2>3. Closed'
    BY <1>1, <1>3, <1>6, <1>8, <2>1 DEF Closed, InCall
  <2>4. Chain(u)
    BY <1>3, <2>1 DEF Chain, Outside, Halfway
  <2>5. \A p \in Procs : p # t => Waiting(thread'[p]) /\ Chain(thread'[p])
    <3>1. \A p \in Procs : p # running
      BY ProcsAssumption
    <3> QED
      BY <1>2, <1>6, <2>1, <3>1 DEF Core
  <2>6. OpenMask(u.frames) = s.mask \/ u.closed
    BY <1>3, <2>1 DEF Waiting
  <2>7. u.closed \/ u.raced \/ (Outside(u) /\ ~ModeSet(u.point))
    BY <1>3, <2>1 DEF Waiting, Outside, Halfway
  <2>8. RunningFits'
    BY <1>1, <1>3, <1>6, <2>1, <2>6, <2>7 DEF RunningFits, MaskFits, ModeFits
  <2> QED
    BY <1>1, <1>6, <1>8, <2>2, <2>3, <2>4, <2>5, <2>8 DEF Core
<1> QED
  BY <1>7, <1>8, <1>9, <1>10 DEF IInv
-----------------------------------------------------------------------------
\* What the invariant says of the thread that runs, when it is a user thread.
LEMMA InUserFacts ==
    ASSUME IInv, InUser
    PROVE  /\ running \in Threads /\ thread[running] \in ThreadState
           /\ Typed /\ Shape(thread[running])
           /\ Frames \in Seq([signal : Keys, point : Point, mask : SUBSET Signals])
           /\ lost < MaxLayers =>
                /\ protection_level = lost + (IF At \in {"call", "rest"} THEN 1 ELSE 0)
                /\ At \in {"call", "rest"} => sigmask = Signals
                /\ Chain(thread[running])
                /\ MaskFits(thread[running], sigmask, sigmask_stack[protection_level - 1])
                /\ ModeFits(thread[running], cpu_mode, cpu_mode_stack[protection_level - 1],
                            cpu_mode_stack[protection_level])
<1>1. running \in Threads /\ thread[running] \in ThreadState /\ Typed
  BY DEF IInv, TypeOK, Typed
<1>2. Frames \in Seq([signal : Keys, point : Point, mask : SUBSET Signals])
  BY <1>1 DEF Frames, ThreadState
<1>3. ASSUME lost < MaxLayers
      PROVE  /\ protection_level = lost + (IF At \in {"call", "rest"} THEN 1 ELSE 0)
             /\ At \in {"call", "rest"} => sigmask = Signals
             /\ Chain(thread[running])
             /\ MaskFits(thread[running], sigmask, sigmask_stack[protection_level - 1])
             /\ ModeFits(thread[running], cpu_mode, cpu_mode_stack[protection_level - 1],
                         cpu_mode_stack[protection_level])
  BY <1>3 DEF IInv, Core, Balanced, Closed, InCall, At, RunningFits
<1> QED
  BY <1>1, <1>2, <1>3 DEF IInv

\* At most points only a user thread can be.
LEMMA PointInUser ==
    ASSUME IInv, At \notin {"user", "call"}
    PROVE  InUser
BY DEF IInv, TypeOK, KernelPlain, InUser, InKernel, Threads

(* One lemma for each action. *)

\* A thread of which only the point changes.
LEMMA PointLemma ==
    ASSUME NEW r \in ThreadState, Shape(r), NEW point \in Point,
           point \in {"user", "asleep"} => r.frames = <<>>,
           point \in {"handler", "return"} => r.frames # <<>>
    PROVE  LET s == [r EXCEPT !.point = point] IN
           /\ s \in ThreadState /\ Shape(s) /\ s.point = point
           /\ s.frames = r.frames /\ s.closed = r.closed /\ s.raced = r.raced
           /\ s.mask = r.mask /\ s.pairs = r.pairs /\ s.killed = r.killed
           /\ Chain(r) => Chain(s)
<1> DEFINE s == [r EXCEPT !.point = point]
<1>1. /\ s \in ThreadState /\ s.point = point
      /\ s.frames = r.frames /\ s.closed = r.closed /\ s.raced = r.raced
      /\ s.mask = r.mask /\ s.pairs = r.pairs /\ s.killed = r.killed
  BY DEF ThreadState
<1> HIDE DEF s
<1>2. Shape(s)
  BY <1>1 DEF Shape
<1>3. Chain(r) => Chain(s)
  BY <1>1 DEF Chain
<1> QED
  BY <1>1, <1>2, <1>3 DEF s

LEMMA EnterIInv ==
    ASSUME IInv, Enter
    PROVE  IInv'
<1> DEFINE point == IF At = "back" THEN "resuming" ELSE "entering"
           s == [thread[running] EXCEPT !.point = point]
<1>1. /\ At \in {"user", "handler", "back"} /\ SaveMode
      /\ running' = running /\ lost' = lost
      /\ thread' = [thread EXCEPT ![running] = s]
  BY DEF Enter, Moves
<1>2. InUser
  BY PointInUser DEF Enter, InUser
<1>9. point \in {"resuming", "entering"}
  OBVIOUS
<1> HIDE DEF point
<1>3. /\ s \in ThreadState /\ Shape(s) /\ s.point = point
      /\ s.frames = Frames /\ s.closed = thread[running].closed
      /\ s.raced = thread[running].raced
      /\ Chain(thread[running]) => Chain(s)
  <2>1. point \in Point \ {"user", "asleep", "handler", "return"}
    BY <1>9 DEF Point
  <2>2. thread[running] \in ThreadState /\ Shape(thread[running])
    BY <1>2, InUserFacts
  <2> QED
    BY <2>1, <2>2, PointLemma DEF Frames
<1>4. lost \in Nat /\ MaxLayers \in Nat
  BY <1>2, InUserFacts, MaxLayersAssumption DEF Typed
<1>5. Typed'
  BY <1>1, <1>2, InUserFacts DEF SaveMode, stackVars, Typed, Mode, Layers
<1>6. ASSUME lost < MaxLayers
      PROVE  /\ protection_level' = lost
             /\ MaskFits(s, sigmask', sigmask_stack'[protection_level' - 1])
             /\ ModeFits(s, cpu_mode', cpu_mode_stack'[protection_level' - 1],
                         cpu_mode_stack'[protection_level'])
  <2>1. protection_level = lost /\ protection_level \in Layers
    BY <1>1, <1>2, <1>4, <1>6, InUserFacts DEF Layers, Typed
  <2>2. /\ cpu_mode_stack'[protection_level] = cpu_mode
        /\ UNCHANGED <<cpu_mode, sigmask, protection_level, sigmask_stack>>
    BY <1>1, <1>2, <1>6, <2>1, InUserFacts DEF SaveMode, Typed
  <2>3. MaskFits(s, sigmask', sigmask_stack'[protection_level' - 1])
    BY <1>1, <1>2, <1>3, <1>6, <1>9, <2>2, InUserFacts DEF MaskFits, At, Frames
  <2>4. ~s.closed /\ ~s.raced => cpu_mode = "USER_MODE"
    BY <1>1, <1>2, <1>3, <1>6, InUserFacts DEF ModeFits, At, ModeSet
  <2> QED
    BY <2>1, <2>2, <2>3, <2>4, <1>3, <1>9 DEF ModeFits, ModeSet
<1>7. s.point \notin {"call", "rest"}
  BY <1>3, <1>9
<1> HIDE DEF s
<1>8. ASSUME lost' < MaxLayers
      PROVE  /\ lost < MaxLayers
             /\ protection_level' = lost' + (IF s.point \in {"call", "rest"} THEN 1 ELSE 0)
             /\ s.point \in {"call", "rest"} => sigmask' = Signals
             /\ Chain(s)
             /\ MaskFits(s, sigmask', sigmask_stack'[protection_level' - 1])
             /\ ModeFits(s, cpu_mode', cpu_mode_stack'[protection_level' - 1],
                         cpu_mode_stack'[protection_level'])
  BY <1>1, <1>2, <1>3, <1>4, <1>6, <1>7, <1>8, InUserFacts
<1> QED
  BY <1>1, <1>2, <1>3, <1>5, <1>8, UserStep

LEMMA EnterSetsIInv ==
    ASSUME IInv, EnterSets
    PROVE  IInv'
<1> DEFINE point == IF At = "resuming" THEN "remasking" ELSE "masking"
           s == [thread[running] EXCEPT !.point = point]
<1>1. /\ ModeSaved(At) /\ SetMode
      /\ running' = running /\ lost' = lost
      /\ thread' = [thread EXCEPT ![running] = s]
  BY DEF EnterSets, Moves
<1>2. InUser
  BY <1>1, PointInUser DEF ModeSaved
<1>9. point \in {"remasking", "masking"}
  OBVIOUS
<1> HIDE DEF point
<1>3. /\ s \in ThreadState /\ Shape(s) /\ s.point = point
      /\ s.frames = Frames /\ s.closed = thread[running].closed
      /\ s.raced = thread[running].raced
      /\ Chain(thread[running]) => Chain(s)
  <2>1. point \in Point \ {"user", "asleep", "handler", "return"}
    BY <1>9 DEF Point
  <2>2. thread[running] \in ThreadState /\ Shape(thread[running])
    BY <1>2, InUserFacts
  <2> QED
    BY <2>1, <2>2, PointLemma DEF Frames
<1>4. lost \in Nat /\ MaxLayers \in Nat
  BY <1>2, InUserFacts, MaxLayersAssumption DEF Typed
<1>5. Typed'
  BY <1>1, <1>2, InUserFacts DEF SetMode, stackVars, Typed, Mode
<1>6. ASSUME lost < MaxLayers
      PROVE  /\ protection_level' = lost
             /\ MaskFits(s, sigmask', sigmask_stack'[protection_level' - 1])
             /\ ModeFits(s, cpu_mode', cpu_mode_stack'[protection_level' - 1],
                         cpu_mode_stack'[protection_level'])
  <2>1. protection_level = lost /\ protection_level \in Layers
    BY <1>1, <1>2, <1>4, <1>6, InUserFacts DEF ModeSaved, Layers, Typed
  <2>2. /\ cpu_mode' = "KERNEL_MODE"
        /\ UNCHANGED <<sigmask, protection_level, cpu_mode_stack, sigmask_stack>>
    BY <1>1, <1>2, <1>6, <2>1, InUserFacts DEF SetMode, Typed
  <2>3. MaskFits(s, sigmask', sigmask_stack'[protection_level' - 1])
    BY <1>1, <1>2, <1>3, <1>6, <1>9, <2>2, InUserFacts DEF MaskFits, At, Frames, ModeSaved
  <2>4. ~s.closed /\ ~s.raced => cpu_mode_stack[protection_level] = "USER_MODE"
    BY <1>1, <1>2, <1>3, <1>6, InUserFacts DEF ModeFits, At, ModeSaved, Outside, Halfway
  <2> QED
    BY <2>1, <2>2, <2>3, <2>4, <1>3, <1>9 DEF ModeFits, ModeSet
<1>7. s.point \notin {"call", "rest"}
  BY <1>3, <1>9
<1> HIDE DEF s
<1>8. ASSUME lost' < MaxLayers
      PROVE  /\ lost < MaxLayers
             /\ protection_level' = lost' + (IF s.point \in {"call", "rest"} THEN 1 ELSE 0)
             /\ s.point \in {"call", "rest"} => sigmask' = Signals
             /\ Chain(s)
             /\ MaskFits(s, sigmask', sigmask_stack'[protection_level' - 1])
             /\ ModeFits(s, cpu_mode', cpu_mode_stack'[protection_level' - 1],
                         cpu_mode_stack'[protection_level'])
  BY <1>1, <1>2, <1>3, <1>4, <1>6, <1>7, <1>8, InUserFacts
<1> QED
  BY <1>1, <1>2, <1>3, <1>5, <1>8, UserStep

LEMMA EnterBlocksIInv ==
    ASSUME IInv, EnterBlocks
    PROVE  IInv'
<1> DEFINE point == IF At = "remasking" THEN "rest" ELSE "call"
           s == [thread[running] EXCEPT !.point = point]
<1>1. /\ ModeSet(At) /\ Block
      /\ running' = running /\ lost' = lost
      /\ thread' = [thread EXCEPT ![running] = s]
  BY DEF EnterBlocks, Moves
<1>2. InUser
  BY <1>1, PointInUser DEF ModeSet
<1>9. point \in {"rest", "call"}
  OBVIOUS
<1> HIDE DEF point
<1>3. /\ s \in ThreadState /\ Shape(s) /\ s.point = point
      /\ s.frames = Frames /\ s.closed = thread[running].closed
      /\ s.raced = thread[running].raced
      /\ Chain(thread[running]) => Chain(s)
  <2>1. point \in Point \ {"user", "asleep", "handler", "return"}
    BY <1>9 DEF Point
  <2>2. thread[running] \in ThreadState /\ Shape(thread[running])
    BY <1>2, InUserFacts
  <2> QED
    BY <2>1, <2>2, PointLemma DEF Frames
<1>4. lost \in Nat /\ MaxLayers \in Nat
  BY <1>2, InUserFacts, MaxLayersAssumption DEF Typed
<1>5. Typed'
  <2>1. CASE protection_level < MaxLayers
    <3>1. /\ sigmask_stack' = [sigmask_stack EXCEPT ![protection_level] = sigmask]
          /\ sigmask' = Signals /\ protection_level' = protection_level + 1
          /\ UNCHANGED <<cpu_mode, cpu_mode_stack>>
      BY <1>1, <2>1 DEF Block
    <3>2. Typed
      BY <1>2, InUserFacts
    <3>3. protection_level' \in 0 .. MaxLayers
      BY <1>4, <2>1, <3>1, <3>2 DEF Typed
    <3> QED
      BY <1>1, <3>1, <3>2, <3>3 DEF Typed
  <2>2. CASE ~(protection_level < MaxLayers)
    BY <1>1, <1>2, <2>2, InUserFacts DEF Block, stackVars, Typed
  <2> QED
    BY <2>1, <2>2
<1>6. ASSUME lost < MaxLayers
      PROVE  /\ protection_level' = lost + 1 /\ sigmask' = Signals
             /\ MaskFits(s, sigmask', sigmask_stack'[protection_level' - 1])
             /\ ModeFits(s, cpu_mode', cpu_mode_stack'[protection_level' - 1],
                         cpu_mode_stack'[protection_level'])
  <2>1. protection_level = lost /\ protection_level \in Layers /\ protection_level \in Nat
    BY <1>1, <1>2, <1>4, <1>6, InUserFacts DEF ModeSet, Layers, Typed
  <2>2. /\ sigmask_stack'[protection_level] = sigmask /\ sigmask' = Signals
        /\ protection_level' = protection_level + 1
        /\ UNCHANGED <<cpu_mode, cpu_mode_stack>>
    BY <1>1, <1>2, <1>6, <2>1, InUserFacts DEF Block, Typed
  <2>3. protection_level' - 1 = protection_level
    BY <2>1, <2>2
  <2>4. ~s.closed => OpenMask(s.frames) = sigmask
    BY <1>1, <1>2, <1>3, <1>6, InUserFacts DEF MaskFits, At, Frames, ModeSet
  <2>5. ~s.closed /\ ~s.raced => cpu_mode_stack[protection_level] = "USER_MODE"
    BY <1>1, <1>2, <1>3, <1>6, InUserFacts DEF ModeFits, At, ModeSet, Outside, Halfway
  <2> QED
    BY <2>1, <2>2, <2>3, <2>4, <2>5, <1>3, <1>9 DEF MaskFits, ModeFits
<1>7. s.point \in {"call", "rest"}
  BY <1>3, <1>9
<1> HIDE DEF s
<1>8. ASSUME lost' < MaxLayers
      PROVE  /\ lost < MaxLayers
             /\ protection_level' = lost' + (IF s.point \in {"call", "rest"} THEN 1 ELSE 0)
             /\ s.point \in {"call", "rest"} => sigmask' = Signals
             /\ Chain(s)
             /\ MaskFits(s, sigmask', sigmask_stack'[protection_level' - 1])
             /\ ModeFits(s, cpu_mode', cpu_mode_stack'[protection_level' - 1],
                         cpu_mode_stack'[protection_level'])
  BY <1>1, <1>2, <1>3, <1>4, <1>6, <1>7, <1>8, InUserFacts
<1> QED
  BY <1>1, <1>2, <1>3, <1>5, <1>8, UserStep

\* Leaving a call brings back the mask and the mode of the program.
LEMMA LeaveLemma ==
    ASSUME IInv, InUser, At \in {"call", "rest"}, k_leave_last_protected_mode,
           lost' = lost
    PROVE  /\ Typed'
           /\ lost < MaxLayers =>
                /\ protection_level' = lost
                /\ ~thread[running].closed => sigmask' = OpenMask(Frames)
                /\ ~thread[running].closed /\ ~thread[running].raced =>
                      cpu_mode' = "USER_MODE" /\ cpu_mode_stack'[protection_level'] = "USER_MODE"
<1>1. /\ protection_level > 0 /\ protection_level' = protection_level - 1
      /\ cpu_mode' = cpu_mode_stack[protection_level - 1]
      /\ sigmask' = sigmask_stack[protection_level - 1]
      /\ UNCHANGED <<cpu_mode_stack, sigmask_stack>>
  BY DEF k_leave_last_protected_mode
<1>2. Typed /\ MaxLayers \in Nat
  BY InUserFacts, MaxLayersAssumption
<1>3. protection_level - 1 \in Layers /\ protection_level' \in 0 .. MaxLayers
  BY <1>1, <1>2 DEF Typed, Layers
<1>4. Typed'
  BY <1>1, <1>2, <1>3 DEF Typed
<1>5. ASSUME lost < MaxLayers
      PROVE  /\ protection_level' = lost
             /\ ~thread[running].closed => sigmask' = OpenMask(Frames)
             /\ ~thread[running].closed /\ ~thread[running].raced =>
                   cpu_mode' = "USER_MODE" /\ cpu_mode_stack'[protection_level'] = "USER_MODE"
  <2>1. protection_level = lost + 1
    BY <1>5, InUserFacts
  <2>2. MaskFits(thread[running], sigmask, sigmask_stack[protection_level - 1])
    BY <1>5, InUserFacts
  <2>3. ModeFits(thread[running], cpu_mode, cpu_mode_stack[protection_level - 1],
                 cpu_mode_stack[protection_level])
    BY <1>5, InUserFacts
  <2> QED
    BY <1>1, <1>2, <2>1, <2>2, <2>3 DEF MaskFits, ModeFits, At, Frames, Typed
<1> QED
  BY <1>4, <1>5

\* A thread in no call, under its own mask and in user mode.
LEMMA SettledLemma ==
    ASSUME NEW s, NEW mask, NEW mode, NEW below1, NEW below2, NEW above,
           s.point \notin {"call", "rest"}, ~ModeSet(s.point),
           ~s.closed => mask = OpenMask(s.frames),
           ~s.closed /\ ~s.raced => /\ mode = "USER_MODE"
                                    /\ Outside(s) \/ above = "USER_MODE"
    PROVE  MaskFits(s, mask, below1) /\ ModeFits(s, mode, below2, above)
BY DEF MaskFits, ModeFits

LEMMA LeaveIInv ==
    ASSUME IInv, Leave
    PROVE  IInv'
<1> DEFINE r == thread[running]
           point == IF Frames = <<>> THEN "user" ELSE "return"
           s == [r EXCEPT !.point = point, !.killed = r.killed \/ By("SIGINT")]
<1>1. /\ InUser /\ At \in {"call", "rest"} /\ k_leave_last_protected_mode
      /\ running' = running /\ lost' = lost
      /\ thread' = [thread EXCEPT ![running] = s]
  BY DEF Leave
<1>2. r \in ThreadState /\ Shape(r)
  BY <1>1, InUserFacts
<1>3. /\ s \in ThreadState /\ s.point = point
      /\ s.frames = Frames /\ s.closed = r.closed /\ s.raced = r.raced
  <2>1. (r.killed \/ By("SIGINT")) \in BOOLEAN
    OBVIOUS
  <2> HIDE DEF r
  <2>2. point \in Point
    BY DEF Point
  <2> HIDE DEF point
  <2> QED
    BY <1>2, <2>1, <2>2 DEF ThreadState, Frames, r
<1>4. Shape(s) /\ (Chain(r) => Chain(s))
  <2>1. s.frames = r.frames /\ (s.point = "user" => r.frames = <<>>)
        /\ (s.point # "user" => s.point = "return" /\ r.frames # <<>>)
    BY <1>3 DEF Frames
  <2> HIDE DEF s, r
  <2> QED
    BY <1>2, <1>3, <2>1 DEF Shape, Chain
<1>5. s.point \notin {"call", "rest"} /\ ~ModeSet(s.point)
  BY <1>3 DEF ModeSet
<1>6. Typed'
  BY <1>1, LeaveLemma
<1> HIDE DEF s
<1>7. ASSUME lost' < MaxLayers
      PROVE  /\ lost < MaxLayers
             /\ protection_level' = lost' + (IF s.point \in {"call", "rest"} THEN 1 ELSE 0)
             /\ s.point \in {"call", "rest"} => sigmask' = Signals
             /\ Chain(s)
             /\ MaskFits(s, sigmask', sigmask_stack'[protection_level' - 1])
             /\ ModeFits(s, cpu_mode', cpu_mode_stack'[protection_level' - 1],
                         cpu_mode_stack'[protection_level'])
  <2>1. lost < MaxLayers /\ lost \in Nat
    BY <1>1, <1>7, InUserFacts DEF Typed
  <2>2. Chain(s)
    BY <1>1, <1>4, <2>1, InUserFacts
  <2>3. /\ protection_level' = lost
        /\ ~s.closed => sigmask' = OpenMask(s.frames)
        /\ ~s.closed /\ ~s.raced =>
              cpu_mode' = "USER_MODE" /\ cpu_mode_stack'[protection_level'] = "USER_MODE"
    BY <1>1, <1>3, <2>1, LeaveLemma
  <2> QED
    BY <1>1, <1>5, <2>1, <2>2, <2>3, SettledLemma
<1> QED
  BY <1>1, <1>3, <1>4, <1>6, <1>7, UserStep

LEMMA LeaveToSwitchIInv ==
    ASSUME IInv, LeaveToSwitch
    PROVE  IInv'
<1> DEFINE r == thread[running]
<1>1. /\ InUser /\ At = "call" /\ k_leave_last_protected_mode
      /\ running' = running /\ lost' = lost
  BY DEF LeaveToSwitch
<1>2. PICK point \in {"asleep", "away"} :
         /\ Frames # <<>> => point = "away"
         /\ thread' = [thread EXCEPT ![running] = [r EXCEPT !.point = point]]
  BY DEF LeaveToSwitch, Moves
<1> DEFINE s == [r EXCEPT !.point = point]
<1>3. /\ s \in ThreadState /\ Shape(s) /\ s.point = point
      /\ s.frames = Frames /\ s.closed = r.closed /\ s.raced = r.raced
      /\ Chain(r) => Chain(s)
  <2>1. point \in Point /\ point \notin {"user", "handler", "return"}
        /\ (point = "asleep" => r.frames = <<>>)
    BY <1>2 DEF Point, Frames
  <2>2. r \in ThreadState /\ Shape(r)
    BY <1>1, InUserFacts
  <2> QED
    BY <2>1, <2>2, PointLemma DEF Frames
<1>4. s.point \notin {"call", "rest"} /\ ~ModeSet(s.point)
  BY <1>2, <1>3 DEF ModeSet
<1>5. Typed'
  BY <1>1, LeaveLemma
<1>6. thread' = [thread EXCEPT ![running] = s]
  BY <1>2
<1> HIDE DEF s
<1>7. ASSUME lost' < MaxLayers
      PROVE  /\ lost < MaxLayers
             /\ protection_level' = lost' + (IF s.point \in {"call", "rest"} THEN 1 ELSE 0)
             /\ s.point \in {"call", "rest"} => sigmask' = Signals
             /\ Chain(s)
             /\ MaskFits(s, sigmask', sigmask_stack'[protection_level' - 1])
             /\ ModeFits(s, cpu_mode', cpu_mode_stack'[protection_level' - 1],
                         cpu_mode_stack'[protection_level'])
  <2>1. lost < MaxLayers /\ lost \in Nat
    BY <1>1, <1>7, InUserFacts DEF Typed
  <2>2. Chain(s)
    BY <1>1, <1>3, <2>1, InUserFacts
  <2>3. /\ protection_level' = lost
        /\ ~s.closed => sigmask' = OpenMask(s.frames)
        /\ ~s.closed /\ ~s.raced =>
              cpu_mode' = "USER_MODE" /\ cpu_mode_stack'[protection_level'] = "USER_MODE"
    BY <1>1, <1>3, <2>1, LeaveLemma
  <2> QED
    BY <1>1, <1>4, <2>1, <2>2, <2>3, SettledLemma
<1> QED
  BY <1>1, <1>3, <1>5, <1>6, <1>7, UserStep

LEMMA FailIInv ==
    ASSUME IInv, Fail
    PROVE  IInv'
<1> DEFINE r == thread[running]
           s == [r EXCEPT !.point = "user", !.closed = TRUE]
<1>1. /\ InUser /\ At = "call" /\ Frames = <<>>
      /\ UNCHANGED stackVars /\ running' = running
      /\ lost' = IF lost < MaxLayers THEN lost + 1 ELSE lost
      /\ thread' = [thread EXCEPT ![running] = s]
  BY DEF Fail, InUser
<1>2. /\ s \in ThreadState /\ s.point = "user" /\ s.frames = <<>> /\ s.closed
  BY <1>1, InUserFacts DEF ThreadState, Point, Frames
<1>3. Typed /\ MaxLayers \in Nat
  BY <1>1, InUserFacts, MaxLayersAssumption
<1>4. Typed'
  <2>1. lost' \in 0 .. MaxLayers
    BY <1>1, <1>3 DEF Typed
  <2> QED
    BY <1>1, <1>3, <2>1 DEF Typed, stackVars
<1>5. Shape(s) /\ Chain(s)
  <2>1. \A i : i \notin DOMAIN <<>>
    OBVIOUS
  <2> HIDE DEF s
  <2> QED
    BY <1>2, <2>1 DEF Shape, Chain
<1>6. lost' < MaxLayers => lost < MaxLayers /\ protection_level' = lost'
  <2> SUFFICES ASSUME lost' < MaxLayers
               PROVE  lost < MaxLayers /\ protection_level' = lost'
    OBVIOUS
  <2>1. lost < MaxLayers /\ lost' = lost + 1
    BY <1>1, <1>3 DEF Typed
  <2>2. protection_level = lost + 1
    BY <1>1, <2>1, InUserFacts
  <2> QED
    BY <1>1, <2>1, <2>2 DEF stackVars
<1> HIDE DEF s
<1>7. ASSUME lost' < MaxLayers
      PROVE  /\ lost < MaxLayers
             /\ protection_level' = lost' + (IF s.point \in {"call", "rest"} THEN 1 ELSE 0)
             /\ s.point \in {"call", "rest"} => sigmask' = Signals
             /\ Chain(s)
             /\ MaskFits(s, sigmask', sigmask_stack'[protection_level' - 1])
             /\ ModeFits(s, cpu_mode', cpu_mode_stack'[protection_level' - 1],
                         cpu_mode_stack'[protection_level'])
  <2>1. lost' \in Nat
    BY <1>4 DEF Typed
  <2>2. MaskFits(s, sigmask', sigmask_stack'[protection_level' - 1])
        /\ ModeFits(s, cpu_mode', cpu_mode_stack'[protection_level' - 1],
                    cpu_mode_stack'[protection_level'])
    BY <1>2 DEF MaskFits, ModeFits
  <2>3. lost < MaxLayers /\ protection_level' = lost'
    BY <1>6, <1>7
  <2>4. protection_level' = lost' + (IF s.point \in {"call", "rest"} THEN 1 ELSE 0)
        /\ (s.point \in {"call", "rest"} => sigmask' = Signals)
    <3>1. s.point \notin {"call", "rest"}
      BY <1>2
    <3>2. \A n \in Nat : n + 0 = n
      OBVIOUS
    <3>3. lost' + 0 = lost'
      BY <2>1, <3>2, Zenon
    <3>4. protection_level' = lost' + 0
      BY <2>3, <3>3
    <3>5. (IF s.point \in {"call", "rest"} THEN 1 ELSE 0) = 0
      BY <3>1
    <3> HIDE DEF s
    <3> QED
      BY <3>1, <3>4, <3>5
  <2> QED
    BY <1>5, <2>2, <2>3, <2>4
<1> QED
  BY <1>1, <1>2, <1>4, <1>5, <1>7, UserStep

LEMMA KeyIInv ==
    ASSUME IInv, NEW signal \in Keys, Key(signal)
    PROVE  IInv'
<1> DEFINE F == [signal : Keys, point : Point, mask : SUBSET Signals]
           r == thread[running]
           f == [signal |-> signal, point |-> At, mask |-> sigmask]
           s == [r EXCEPT !.frames = Append(r.frames, f), !.point = "handler",
                          !.raced = r.raced \/ ModeSet(At)]
<1>1. /\ InUser /\ At \notin {"call", "rest"} /\ running' = running
      /\ sigmask' = sigmask \cup {signal}
      /\ UNCHANGED <<cpu_mode, protection_level, cpu_mode_stack, sigmask_stack, lost>>
      /\ thread' = [thread EXCEPT ![running] = s]
  BY DEF Key, Interruptible
<1>2. /\ r \in ThreadState /\ Shape(r) /\ Typed /\ r.frames \in Seq(F)
      /\ signal \in Signals
  BY <1>1, InUserFacts, KeysAssumption DEF Frames, Signals
<1>3. f \in F /\ f.point = At /\ f.mask = sigmask /\ f.signal = signal
  <2>1. At \in Point
    BY <1>2 DEF At, ThreadState
  <2> QED
    BY <1>2, <2>1 DEF Typed
<1> DEFINE q == Append(r.frames, f)
<1>4. /\ q \in Seq(F) /\ q # <<>>
      /\ DOMAIN q = 1 .. Len(r.frames) + 1
      /\ \A i \in 1 .. Len(r.frames) : q[i] = r.frames[i]
      /\ q[Len(r.frames) + 1] = f /\ Last(q) = f
      /\ Len(r.frames) \in Nat /\ DOMAIN r.frames = 1 .. Len(r.frames)
      /\ r.frames = <<>> <=> Len(r.frames) = 0
      /\ r.frames # <<>> => Last(r.frames) = r.frames[Len(r.frames)]
  <2> HIDE DEF f, F, r
  <2> QED
    BY <1>2, <1>3, AppendFacts
<1> HIDE DEF q
<1>5. /\ s \in ThreadState /\ s.point = "handler" /\ s.frames = q
      /\ s.closed = r.closed /\ s.raced = (r.raced \/ ModeSet(At))
  <2>1. s = [r EXCEPT !.frames = q, !.point = "handler", !.raced = r.raced \/ ModeSet(At)]
    BY DEF q
  <2>2. r \in ThreadState /\ q \in Seq(F) /\ (r.raced \/ ModeSet(At)) \in BOOLEAN
    BY <1>2, <1>4
  <2> HIDE DEF r, s
  <2> QED
    BY <2>1, <2>2 DEF ThreadState, Point
<1>6. f.point = r.point /\ r.point \notin {"call", "rest"}
  BY <1>1, <1>3 DEF At
<1> HIDE DEF s, f, r
<1>7. Shape(s)
  BY <1>2, <1>4, <1>5, <1>6 DEF Shape
<1>8. Typed'
  BY <1>1, <1>2 DEF Typed
<1>9. ASSUME lost' < MaxLayers
      PROVE  /\ lost < MaxLayers
             /\ protection_level' = lost' + (IF s.point \in {"call", "rest"} THEN 1 ELSE 0)
             /\ s.point \in {"call", "rest"} => sigmask' = Signals
             /\ Chain(s)
             /\ MaskFits(s, sigmask', sigmask_stack'[protection_level' - 1])
             /\ ModeFits(s, cpu_mode', cpu_mode_stack'[protection_level' - 1],
                         cpu_mode_stack'[protection_level'])
  <2>1. lost < MaxLayers /\ lost' = lost /\ lost \in Nat
    BY <1>1, <1>2, <1>9 DEF Typed
  <2>2. /\ protection_level = lost /\ Chain(r)
        /\ MaskFits(r, sigmask, sigmask_stack[protection_level - 1])
        /\ ModeFits(r, cpu_mode, cpu_mode_stack[protection_level - 1],
                    cpu_mode_stack[protection_level])
    BY <1>1, <1>2, <2>1, InUserFacts DEF r, Typed
  <2>3. ~r.closed => sigmask = OpenMask(r.frames)
    BY <1>6, <2>2 DEF MaskFits
  <2>4. Chain(s)
    <3> SUFFICES ASSUME ~s.closed, NEW i \in DOMAIN q
                 PROVE  /\ q[i].mask = IF i = 1 THEN {}
                                       ELSE q[i - 1].mask \cup {q[i - 1].signal}
                        /\ ~s.raced => ~ModeSet(q[i].point)
      BY <1>5 DEF Chain
    <3>1. CASE i \in DOMAIN r.frames
      <4>1. q[i] = r.frames[i] /\ (i # 1 => q[i - 1] = r.frames[i - 1])
        BY <1>4, <3>1
      <4> QED
        BY <1>5, <2>2, <3>1, <4>1 DEF Chain
    <3>2. CASE i = Len(r.frames) + 1
      <4>1. q[i].mask = OpenMask(r.frames) /\ q[i].point = At
        BY <1>3, <1>4, <1>5, <2>3, <3>2
      <4>2. i # 1 => /\ r.frames # <<>> /\ i - 1 = Len(r.frames)
                     /\ q[i - 1] = Last(r.frames)
        BY <1>4, <3>2
      <4>3. i = 1 => r.frames = <<>>
        BY <1>4, <3>2
      <4> QED
        BY <1>5, <4>1, <4>2, <4>3 DEF OpenMask
    <3> QED
      BY <1>4, <3>1, <3>2
  <2>5. ~s.closed => sigmask' = OpenMask(s.frames)
    BY <1>1, <1>3, <1>4, <1>5, <2>3 DEF OpenMask
  <2>6. ~s.closed /\ ~s.raced =>
          /\ cpu_mode' = "USER_MODE"
          /\ Outside(s) \/ cpu_mode_stack'[protection_level'] = "USER_MODE"
    <3>1. ~s.closed /\ ~s.raced =>
            /\ cpu_mode = "USER_MODE"
            /\ Outside(r) \/ cpu_mode_stack[protection_level] = "USER_MODE"
      BY <1>1, <1>3, <1>5, <1>6, <2>2 DEF ModeFits
    <3>2. Outside(r) => Outside(s)
      <4> SUFFICES ASSUME Outside(r) PROVE Outside(s)
        OBVIOUS
      <4>1. ~Halfway(r.point) /\ \A i \in DOMAIN r.frames : ~Halfway(r.frames[i].point)
        BY DEF Outside
      <4>2. \A i \in DOMAIN q : ~Halfway(q[i].point)
        BY <1>4, <1>6, <4>1
      <4> QED
        BY <1>5, <4>2 DEF Outside, Halfway, ModeSaved, ModeSet
    <3> QED
      BY <1>1, <3>1, <3>2
  <2>7. MaskFits(s, sigmask', sigmask_stack'[protection_level' - 1])
        /\ ModeFits(s, cpu_mode', cpu_mode_stack'[protection_level' - 1],
                    cpu_mode_stack'[protection_level'])
    BY <1>5, <2>5, <2>6, SettledLemma DEF ModeSet
  <2> QED
    BY <1>1, <1>5, <2>1, <2>2, <2>4, <2>7
<1> QED
  BY <1>1, <1>5, <1>7, <1>8, <1>9, UserStep DEF r

LEMMA HandlerReturnsIInv ==
    ASSUME IInv, HandlerReturns
    PROVE  IInv'
<1> DEFINE F == [signal : Keys, point : Point, mask : SUBSET Signals]
           r == thread[running]
           last == Last(r.frames)
           q == Front(r.frames)
           s == [r EXCEPT !.frames = q, !.point = last.point]
<1>1. /\ At \in {"handler", "return"} /\ running' = running
      /\ sigmask' = last.mask
      /\ UNCHANGED <<cpu_mode, protection_level, cpu_mode_stack, sigmask_stack, lost>>
      /\ thread' = [thread EXCEPT ![running] = s]
  BY DEF HandlerReturns, Frames
<1>2. InUser
  BY <1>1, PointInUser
<1>3. r \in ThreadState /\ Shape(r) /\ Typed /\ r.frames \in Seq(F) /\ r.frames # <<>>
  BY <1>1, <1>2, InUserFacts DEF Frames, Shape, At
<1>4. r.point = At
  BY DEF At
<1> HIDE DEF r, F
<1> DEFINE n == Len(r.frames)
<1>5. /\ n \in Nat \ {0} /\ DOMAIN r.frames = 1 .. n
      /\ last = r.frames[n] /\ last \in F
      /\ q \in Seq(F) /\ DOMAIN q = 1 .. n - 1
      /\ \A i \in 1 .. n - 1 : q[i] = r.frames[i]
      /\ q = <<>> <=> n = 1
      /\ n # 1 => Last(q) = r.frames[n - 1]
  BY <1>3, FrontFacts
<1> HIDE DEF last, q, n
<1>6. last.point \in Point /\ last.mask \in SUBSET Signals
  BY <1>5 DEF F
<1>7. /\ s \in ThreadState /\ s.point = last.point /\ s.frames = q
      /\ s.closed = r.closed /\ s.raced = r.raced
  BY <1>3, <1>5, <1>6 DEF ThreadState, F
<1> HIDE DEF s
<1>8. n \in DOMAIN r.frames /\ \A i \in DOMAIN q : i \in DOMAIN r.frames /\ q[i] = r.frames[i]
  BY <1>5
<1>9. Shape(s) /\ last.point \notin {"call", "rest"}
  <2>1. /\ last.point \notin {"call", "rest"}
        /\ last.point \in {"user", "asleep"} => n = 1
        /\ last.point \in {"handler", "return"} => n # 1
    BY <1>3, <1>5, <1>8 DEF Shape
  <2> QED
    BY <1>3, <1>5, <1>7, <1>8, <2>1 DEF Shape
<1>10. Typed'
  BY <1>1, <1>3, <1>6 DEF Typed
<1>11. ASSUME lost' < MaxLayers
       PROVE  /\ lost < MaxLayers
              /\ protection_level' = lost' + (IF s.point \in {"call", "rest"} THEN 1 ELSE 0)
              /\ s.point \in {"call", "rest"} => sigmask' = Signals
              /\ Chain(s)
              /\ MaskFits(s, sigmask', sigmask_stack'[protection_level' - 1])
              /\ ModeFits(s, cpu_mode', cpu_mode_stack'[protection_level' - 1],
                          cpu_mode_stack'[protection_level'])
  <2>1. lost < MaxLayers /\ lost' = lost /\ lost \in Nat
    BY <1>1, <1>3, <1>11 DEF Typed
  <2>2. /\ protection_level = lost /\ Chain(r)
        /\ ModeFits(r, cpu_mode, cpu_mode_stack[protection_level - 1],
                    cpu_mode_stack[protection_level])
    BY <1>1, <1>2, <1>3, <2>1, InUserFacts DEF r, Typed
  <2>3. Chain(s)
    <3> SUFFICES ASSUME ~s.closed, NEW i \in DOMAIN q
                 PROVE  /\ q[i].mask = IF i = 1 THEN {}
                                       ELSE q[i - 1].mask \cup {q[i - 1].signal}
                        /\ ~s.raced => ~ModeSet(q[i].point)
      BY <1>7 DEF Chain
    <3>1. i \in DOMAIN r.frames /\ q[i] = r.frames[i] /\ (i # 1 => q[i - 1] = r.frames[i - 1])
      BY <1>5
    <3> QED
      BY <1>7, <2>2, <3>1 DEF Chain
  <2>4. ~s.closed => last.mask = OpenMask(q)
    <3>1. ~s.closed => last.mask = IF n = 1 THEN {}
                                   ELSE r.frames[n - 1].mask \cup {r.frames[n - 1].signal}
      BY <1>5, <1>7, <1>8, <2>2 DEF Chain
    <3> QED
      BY <1>5, <3>1 DEF OpenMask
  <2>5. ~s.closed /\ ~s.raced =>
          /\ cpu_mode = "USER_MODE" /\ ~ModeSet(last.point)
          /\ Outside(s) \/ cpu_mode_stack[protection_level] = "USER_MODE"
    <3>1. ~s.closed /\ ~s.raced =>
            /\ cpu_mode = "USER_MODE" /\ ~ModeSet(last.point)
            /\ Outside(r) \/ cpu_mode_stack[protection_level] = "USER_MODE"
      BY <1>1, <1>4, <1>5, <1>7, <1>8, <2>2 DEF ModeFits, Chain, ModeSet
    <3>2. Outside(r) => Outside(s)
      BY <1>5, <1>7, <1>8 DEF Outside
    <3> QED
      BY <3>1, <3>2
  <2>6. MaskFits(s, sigmask', sigmask_stack'[protection_level' - 1])
        /\ ModeFits(s, cpu_mode', cpu_mode_stack'[protection_level' - 1],
                    cpu_mode_stack'[protection_level'])
    BY <1>1, <1>7, <1>9, <2>4, <2>5 DEF MaskFits, ModeFits
  <2> QED
    BY <1>1, <1>7, <1>9, <2>1, <2>2, <2>3, <2>6
<1> QED
  BY <1>1, <1>2, <1>7, <1>9, <1>10, <1>11, UserStep DEF r
-----------------------------------------------------------------------------
\* The state in which Saved leaves the thread that runs.
Left(point) ==
    IF running = "idle" THEN thread[running]
    ELSE [thread[running] EXCEPT !.point = point, !.mask = sigmask,
                                 !.raced = @ \/ ~Outside(thread[running])]

\* A user thread is switched out or preempted.
LEMMA SavedLemma ==
    ASSUME IInv, InUser, At \notin {"call", "rest"}, NEW point \in Point,
           point \notin {"call", "rest"},
           point \in {"user", "asleep"} => Frames = <<>>,
           point \in {"handler", "return"} => Frames # <<>>,
           Halfway(point) => Halfway(At),
           ToKernel("scheduler", 2, Saved(point))
    PROVE  IInv'
<1> DEFINE r == thread[running]
           s == Left(point)
           raced == r.raced \/ ~Outside(r)
           m == [r EXCEPT !.mask = sigmask, !.raced = raced]
<1>1. running \in Threads /\ r \in ThreadState /\ Shape(r) /\ sigmask \in SUBSET Signals
  BY InUserFacts DEF Typed
<1>2. m \in ThreadState /\ m.point = r.point /\ m.frames = r.frames
      /\ m.closed = r.closed /\ m.raced = raced /\ m.mask = sigmask
  <2>1. raced \in BOOLEAN
    BY <1>1 DEF ThreadState
  <2> HIDE DEF r, raced
  <2> QED
    BY <1>1, <2>1 DEF ThreadState
<1>3. Shape(m) /\ (Chain(r) => Chain(m))
  <2> HIDE DEF m, r
  <2> QED
    BY <1>1, <1>2 DEF Shape, Chain
<1>4. CASE running = "idle"
  <2>1. s = r /\ Saved(point) = [thread EXCEPT ![running] = s]
    BY <1>1, <1>4 DEF Left, Saved, IInv, TypeOK
  <2>2. running \notin Procs /\ running # "scheduler" /\ 2 \in 0 .. 2
    BY <1>4, ProcsAssumption
  <2>3. s \in ThreadState /\ Shape(s) /\ s.point \notin {"call", "rest"} /\ ~InCall(running)
    BY <1>1, <2>1 DEF InCall, At
  <2>4. ToKernel("scheduler", 2, [thread EXCEPT ![running] = s])
    BY <2>1
  <2> HIDE DEF s
  <2> QED
    BY <2>2, <2>3, <2>4, ToKernelStep
<1>5. CASE running # "idle"
  <2>1. s = [r EXCEPT !.point = point, !.mask = sigmask, !.raced = raced]
        /\ Saved(point) = [thread EXCEPT ![running] = s]
    BY <1>1, <1>5 DEF Left, Saved, IInv, TypeOK
  <2>2. s = [m EXCEPT !.point = point]
    <3> HIDE DEF r, s, raced
    <3> QED
      BY <1>1, <2>1 DEF ThreadState, m
  <2> HIDE DEF s, m
  <2>3. /\ s \in ThreadState /\ Shape(s) /\ s.point = point
        /\ s.frames = r.frames /\ s.closed = r.closed /\ s.raced = raced
        /\ s.mask = sigmask /\ (Chain(r) => Chain(s))
    BY <1>2, <1>3, <2>2, PointLemma DEF Frames
  <2>4. ASSUME lost < MaxLayers
        PROVE  Chain(s) /\ Waiting(s)
    <3>1. /\ Chain(r)
          /\ MaskFits(r, sigmask, sigmask_stack[protection_level - 1])
          /\ ModeFits(r, cpu_mode, cpu_mode_stack[protection_level - 1],
                      cpu_mode_stack[protection_level])
      BY <2>4, InUserFacts
    <3>2. ~s.closed => s.mask = OpenMask(s.frames)
      BY <2>3, <3>1 DEF MaskFits, At
    <3>3. ~s.raced => Outside(s)
      BY <2>3 DEF Outside, At
    <3> QED
      BY <2>3, <3>1, <3>2, <3>3 DEF Waiting
  <2>5. running # "scheduler" /\ ~InCall(running) /\ 2 \in 0 .. 2
    BY ProcsAssumption DEF InUser, InCall, At
  <2>6. ToKernel("scheduler", 2, [thread EXCEPT ![running] = s])
    BY <2>1
  <2> QED
    BY <2>3, <2>4, <2>5, <2>6, ToKernelStep
<1> QED
  BY <1>4, <1>5

LEMMA SwitchIInv ==
    ASSUME IInv, Switch
    PROVE  IInv'
<1>1. InUser
  BY PointInUser DEF Switch
<1>2. CASE At = "asleep" /\ ToKernel("scheduler", 2, Saved("user"))
  <2>1. Frames = <<>>
    BY <1>1, <1>2, InUserFacts DEF Shape, At, Frames
  <2> QED
    BY <1>1, <1>2, <2>1, SavedLemma DEF Point, Halfway, ModeSaved, ModeSet
<1>3. CASE At = "away" /\ ToKernel("scheduler", 2, Saved("back"))
  BY <1>1, <1>3, SavedLemma DEF Point, Halfway, ModeSaved, ModeSet
<1> QED
  BY <1>2, <1>3 DEF Switch

LEMMA AlarmIInv ==
    ASSUME IInv, Alarm
    PROVE  IInv'
<1>1. /\ InUser /\ At \notin {"call", "rest"} /\ cpu_mode = "USER_MODE"
      /\ ToKernel("scheduler", 2, Saved(At))
  BY DEF Alarm, Interruptible
<1>2. At \in Point
  BY <1>1, InUserFacts DEF At, ThreadState
<1>3. /\ At \in {"user", "asleep"} => Frames = <<>>
      /\ At \in {"handler", "return"} => Frames # <<>>
  BY <1>1, InUserFacts DEF Shape, At, Frames
<1> QED
  BY <1>1, <1>2, <1>3, SavedLemma

LEMMA ProgramReturnsIInv ==
    ASSUME IInv, ProgramReturns
    PROVE  IInv'
<1>1. /\ running \in Procs /\ At = "user" /\ running # "scheduler"
      /\ ToKernel("returner", 1, [thread EXCEPT ![running] = Fresh])
  BY ProcsAssumption DEF ProgramReturns
<1>2. Fresh.point = "user"
  BY DEF Fresh
<1> QED
  BY <1>1, <1>2, FreshLemma, ToKernelStep DEF InCall, At

LEMMA ReturnerEndsIInv ==
    ASSUME IInv, ReturnerEnds
    PROVE  IInv'
<1>1. /\ running = "returner" /\ At = "user" /\ running \notin Procs
      /\ ToKernel("scheduler", 2, thread)
  BY ProcsAssumption DEF ReturnerEnds
<1>2. /\ thread[running] \in ThreadState /\ Shape(thread[running])
      /\ thread = [thread EXCEPT ![running] = thread[running]]
  BY DEF IInv, TypeOK
<1> QED
  BY <1>1, <1>2, ToKernelStep DEF InCall, At

LEMMA DispatchIInv ==
    ASSUME IInv, NEW p \in Procs, Dispatch(p)
    PROVE  IInv'
<1>1. running = "scheduler" /\ At = "user" /\ ToUser(p, thread[p]) /\ p # running
  BY ProcsAssumption DEF Dispatch
<1>2. p \in Threads /\ thread[p] \in ThreadState /\ Shape(thread[p])
  BY DEF IInv, TypeOK, Threads
<1>3. lost < MaxLayers =>
        thread[p].point \notin {"call", "rest"} /\ Chain(thread[p]) /\ Waiting(thread[p])
  BY <1>1, <1>2 DEF IInv, Core, Balanced, InCall
<1> QED
  BY <1>1, <1>2, <1>3, ToUserStep

LEMMA IdleIInv ==
    ASSUME IInv, Idle
    PROVE  IInv'
<1>1. running = "scheduler" /\ At = "user" /\ ToUser("idle", Fresh)
  BY DEF Idle
<1>2. Fresh.point = "user"
  BY DEF Fresh
<1> QED
  BY <1>1, <1>2, FreshLemma, ToUserStep
-----------------------------------------------------------------------------
\* A step of a kernel context.
LEMMA KernelStep ==
    ASSUME IInv, InKernel, running' = running, lost' = lost, Typed',
           NEW s \in ThreadState,
           s.point \in {"user", "call"}, s.frames = <<>>,
           s.point = "call" => s.pairs > 0,
           s.closed = thread[running].closed,
           thread' = [thread EXCEPT ![running] = s],
           lost < MaxLayers =>
              /\ protection_level' = lost + (IF s.point = "call" THEN 1 ELSE 0)
              /\ sigmask' = Signals
              /\ s.point = "call" => sigmask_stack'[protection_level' - 1] = Signals
    PROVE  IInv'
<1>1. running \in Threads /\ Procs \subseteq Threads /\ ~InUser /\ running \notin Procs
  BY ProcsAssumption DEF IInv, TypeOK, InUser, InKernel, Threads
<1>2. /\ thread' \in [Threads -> ThreadState]
      /\ thread'[running] = s
      /\ \A o \in Threads : o # running => thread'[o] = thread[o]
  BY <1>1, ThreadLemma DEF IInv
<1>3. TypeOK'
  BY <1>1, <1>2 DEF TypeOK, Typed
<1>4. KernelPlain' /\ ~InUser' /\ RunningFits'
  BY <1>1, <1>2 DEF KernelPlain, InUser, RunningFits, At, Frames
<1>5. Shape(s) /\ Chain(s)
  <2>1. \A i : i \notin DOMAIN <<>>
    OBVIOUS
  <2> QED
    BY <2>1 DEF Shape, Chain
<1>6. \A t \in Threads : Shape(thread[t])'
  BY <1>2, <1>5 DEF IInv
<1>7. ASSUME lost' < MaxLayers PROVE Core'
  <2>1. Core
    BY <1>7 DEF IInv
  <2>2. Balanced'
    BY <1>1, <1>2, <1>7, <2>1 DEF Core, Balanced, InCall
  <2>3. Closed' /\ KernelReturns'
    BY <1>2, <1>7 DEF Closed, KernelReturns, At
  <2>4. \A p \in Procs : Waiting(thread'[p]) /\ Chain(thread'[p])
    BY <1>1, <1>2, <2>1 DEF Core
  <2> QED
    BY <1>2, <1>4, <1>5, <2>2, <2>3, <2>4 DEF Core
<1> QED
  BY <1>3, <1>4, <1>6, <1>7 DEF IInv

\* What the invariant says of the kernel context that runs.
LEMMA InKernelFacts ==
    ASSUME IInv, InKernel
    PROVE  /\ thread[running] \in ThreadState /\ Shape(thread[running])
           /\ Typed /\ MaxLayers \in Nat
           /\ At \in {"user", "call"} /\ thread[running].frames = <<>>
           /\ At = "call" => thread[running].pairs > 0
           /\ lost < MaxLayers =>
                /\ protection_level = lost + (IF At = "call" THEN 1 ELSE 0)
                /\ sigmask = Signals
                /\ At = "call" => sigmask_stack[protection_level - 1] = Signals
<1>1. /\ thread[running] \in ThreadState /\ Shape(thread[running])
      /\ Typed /\ MaxLayers \in Nat
  BY MaxLayersAssumption DEF IInv, TypeOK, Typed
<1>2. /\ At \in {"user", "call"} /\ thread[running].frames = <<>>
      /\ At = "call" => thread[running].pairs > 0
  BY DEF IInv, KernelPlain, Frames
<1>3. lost < MaxLayers =>
        /\ protection_level = lost + (IF At = "call" THEN 1 ELSE 0)
        /\ sigmask = Signals
        /\ At = "call" => sigmask_stack[protection_level - 1] = Signals
  BY <1>2 DEF IInv, Core, Balanced, Closed, KernelReturns, InCall, At
<1> QED
  BY <1>1, <1>2, <1>3

LEMMA KernelEnterIInv ==
    ASSUME IInv, KernelEnter
    PROVE  IInv'
<1> DEFINE r == thread[running]
           s == [r EXCEPT !.point = "call"]
<1>1. /\ InKernel /\ At = "user" /\ r.pairs > 0 /\ k_enter_protected_mode
      /\ running' = running /\ lost' = lost
      /\ thread' = [thread EXCEPT ![running] = s]
  BY DEF KernelEnter, Moves
<1>2. /\ s \in ThreadState /\ s.point = "call" /\ s.frames = <<>>
      /\ s.closed = r.closed /\ s.pairs = r.pairs
  BY <1>1, InKernelFacts, PointLemma DEF Point
<1>3. CASE protection_level < MaxLayers
  <2>1. /\ cpu_mode_stack' = [cpu_mode_stack EXCEPT ![protection_level] = cpu_mode]
        /\ sigmask_stack' = [sigmask_stack EXCEPT ![protection_level] = sigmask]
        /\ cpu_mode' = "KERNEL_MODE" /\ sigmask' = Signals
        /\ protection_level' = protection_level + 1
    BY <1>1, <1>3 DEF k_enter_protected_mode
  <2>2. Typed /\ MaxLayers \in Nat
    BY <1>1, InKernelFacts
  <2>3. protection_level \in Layers /\ protection_level' \in 0 .. MaxLayers
        /\ protection_level' - 1 = protection_level
    BY <1>3, <2>1, <2>2 DEF Typed, Layers
  <2>4. Typed'
    BY <1>1, <2>1, <2>2, <2>3 DEF Typed, Mode
  <2>5. lost < MaxLayers =>
          /\ protection_level' = lost + 1
          /\ sigmask_stack'[protection_level' - 1] = Signals
    BY <1>1, <2>1, <2>2, <2>3, InKernelFacts DEF Typed
  <2> HIDE DEF s
  <2> QED
    BY <1>1, <1>2, <2>1, <2>4, <2>5, KernelStep
<1>4. CASE ~(protection_level < MaxLayers)
  <2>1. UNCHANGED stackVars
    BY <1>1, <1>4 DEF k_enter_protected_mode
  <2>2. Typed /\ ~(lost < MaxLayers)
    BY <1>1, <1>4, InKernelFacts DEF Typed
  <2>3. Typed'
    BY <1>1, <2>1, <2>2 DEF Typed, stackVars
  <2> HIDE DEF s
  <2> QED
    BY <1>1, <1>2, <2>2, <2>3, KernelStep
<1> QED
  BY <1>3, <1>4

LEMMA KernelLeaveIInv ==
    ASSUME IInv, KernelLeave
    PROVE  IInv'
<1> DEFINE r == thread[running]
           s == [r EXCEPT !.point = "user", !.pairs = r.pairs - 1]
<1>1. /\ InKernel /\ At = "call" /\ k_leave_last_protected_mode
      /\ running' = running /\ lost' = lost
      /\ thread' = [thread EXCEPT ![running] = s]
  BY DEF KernelLeave
<1>2. /\ s \in ThreadState /\ s.point = "user" /\ s.frames = <<>> /\ s.closed = r.closed
  <2>1. r \in ThreadState /\ r.frames = <<>> /\ r.pairs > 0
    BY <1>1, InKernelFacts
  <2>2. r.pairs - 1 \in 0 .. 2
    BY <2>1 DEF ThreadState
  <2> HIDE DEF r
  <2> QED
    BY <2>1, <2>2 DEF ThreadState, Point
<1>3. /\ protection_level > 0 /\ protection_level' = protection_level - 1
      /\ cpu_mode' = cpu_mode_stack[protection_level - 1]
      /\ sigmask' = sigmask_stack[protection_level - 1]
      /\ UNCHANGED <<cpu_mode_stack, sigmask_stack>>
  BY <1>1 DEF k_leave_last_protected_mode
<1>4. Typed /\ MaxLayers \in Nat
  BY <1>1, InKernelFacts
<1>5. protection_level - 1 \in Layers /\ protection_level' \in 0 .. MaxLayers
  BY <1>3, <1>4 DEF Typed, Layers
<1>6. Typed'
  BY <1>1, <1>3, <1>4, <1>5 DEF Typed
<1>7. lost < MaxLayers => protection_level' = lost /\ sigmask' = Signals
  BY <1>1, <1>3, <1>4, InKernelFacts DEF Typed
<1> HIDE DEF s
<1>8. lost < MaxLayers => protection_level' = lost + (IF s.point = "call" THEN 1 ELSE 0)
  BY <1>2, <1>4, <1>7 DEF Typed
<1> QED
  BY <1>1, <1>2, <1>6, <1>7, <1>8, KernelStep

\* A stuttering step.
LEMMA StutterIInv ==
    ASSUME IInv, UNCHANGED vars
    PROVE  IInv'
BY DEF IInv, vars, TypeOK, KernelPlain, Core, Balanced, Closed, KernelReturns, RunningFits,
       InKernel, InUser, InCall, At, Frames
-----------------------------------------------------------------------------
\* The invariant holds in every reachable state.
THEOREM InvariantHolds == Spec => []IInv
<1>1. IInv /\ [Next]_vars => IInv'
  <2> SUFFICES ASSUME IInv, [Next]_vars
               PROVE  IInv'
    OBVIOUS
  <2>1. CASE Enter
    BY <2>1, EnterIInv
  <2>2. CASE EnterBlocks
    BY <2>2, EnterBlocksIInv
  <2>17. CASE EnterSets
    BY <2>17, EnterSetsIInv
  <2>3. CASE Leave
    BY <2>3, LeaveIInv
  <2>4. CASE Fail
    BY <2>4, FailIInv
  <2>5. CASE LeaveToSwitch
    BY <2>5, LeaveToSwitchIInv
  <2>6. CASE Switch
    BY <2>6, SwitchIInv
  <2>7. CASE ProgramReturns
    BY <2>7, ProgramReturnsIInv
  <2>8. CASE KernelEnter
    BY <2>8, KernelEnterIInv
  <2>9. CASE KernelLeave
    BY <2>9, KernelLeaveIInv
  <2>10. CASE ReturnerEnds
    BY <2>10, ReturnerEndsIInv
  <2>11. ASSUME NEW p \in Procs, Dispatch(p)
         PROVE  IInv'
    BY <2>11, DispatchIInv
  <2>12. CASE Idle
    BY <2>12, IdleIInv
  <2>13. CASE Alarm
    BY <2>13, AlarmIInv
  <2>14. CASE HandlerReturns
    BY <2>14, HandlerReturnsIInv
  <2>15. ASSUME NEW signal \in Keys, Key(signal)
         PROVE  IInv'
    BY <2>15, KeyIInv
  <2>16. CASE UNCHANGED vars
    BY <2>16, StutterIInv
  <2> QED
    BY <2>1, <2>2, <2>3, <2>4, <2>5, <2>6, <2>7, <2>8, <2>9, <2>10, <2>11, <2>12,
       <2>13, <2>14, <2>15, <2>16, <2>17 DEF Next
<1> QED
  BY <1>1, InitIInv, PTL DEF Spec

\* Modes, masks and the stack are always what process_control.c:54-58 declares.
THEOREM TypeCorrect == Spec => []TypeOK
BY InvariantHolds, PTL DEF IInv

\* Every layer was entered by the thread that runs and is in a call, or lost by
\* a call that failed, whatever signals come and wherever (process_control.c:702-750).
THEOREM LayersAlwaysBalanced == Spec => []LayersBalanced
<1>1. IInv => LayersBalanced
  BY DEF IInv, Core, Balanced, LayersBalanced
<1> QED
  BY <1>1, InvariantHolds, PTL

\* No signal interrupts a system call or a kernel context.
THEOREM KernelAlwaysClosed == Spec => []KernelIsClosed
<1>1. IInv => KernelIsClosed
  BY DEF IInv, Core, Closed, KernelIsClosed
<1> QED
  BY <1>1, InvariantHolds, PTL

\* A program none of whose calls failed runs with every signal open, and in user
\* mode unless a tick switched it out before the end of its last entry, or a
\* terminal signal came after that had set the mode.
THEOREM UserAlwaysOpen == Spec => []UserIsOpen
<1>1. ASSUME IInv, lost < MaxLayers, InUser, At = "user", ~thread[running].closed
      PROVE  sigmask = {} /\ (cpu_mode = "USER_MODE" \/ thread[running].raced)
  <2>1. Frames = <<>> /\ OpenMask(Frames) = {}
    BY <1>1, InUserFacts DEF Shape, At, Frames, OpenMask
  <2>2. /\ MaskFits(thread[running], sigmask, sigmask_stack[protection_level - 1])
        /\ ModeFits(thread[running], cpu_mode, cpu_mode_stack[protection_level - 1],
                    cpu_mode_stack[protection_level])
    BY <1>1, InUserFacts
  <2> QED
    BY <1>1, <2>1, <2>2 DEF MaskFits, ModeFits, ModeSet, At, Frames
<1>2. IInv => UserIsOpen
  BY <1>1 DEF UserIsOpen
<1> QED
  BY <1>2, InvariantHolds, PTL
=============================================================================
