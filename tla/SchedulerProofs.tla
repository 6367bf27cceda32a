-------------------------- MODULE SchedulerProofs --------------------------
(***************************************************************************)
(* Proofs about module Scheduler, for all shares of the three queues.      *)
(***************************************************************************)
EXTENDS Scheduler, FiniteSetTheorems, TLAPS

\* The ring's indices wrap at the end of the ring.
LEMMA AdvanceLemma ==
    /\ Round \in Nat /\ Round > 2
    /\ \A i \in 0 .. Round - 1 :
          /\ Advance(i) \in 0 .. Round - 1
          /\ Advance(i) = IF i = Round - 1 THEN 0 ELSE i + 1
<1>1. Round \in Nat /\ Round > 2
  BY SharesAssumption DEF Round
<1>2. \A i \in 0 .. Round - 1 : Advance(i) = IF i = Round - 1 THEN 0 ELSE i + 1
  BY <1>1 DEF Advance
<1> QED
  BY <1>1, <1>2

\* The window is the slots written so far, or the whole ring.
WindowShape ==
    \/ sched_tail = -1 /\ sched_start = 0
    \/ sched_tail \in 0 .. Round - 1 /\ sched_start = 0
    \/ sched_tail \in 0 .. Round - 1 /\ sched_start = Advance(sched_tail)

IInv == TypeOK /\ ChosenIsReady /\ WindowShape

LEMMA WindowLemma ==
    ASSUME WindowShape
    PROVE  Window = IF sched_tail = -1 THEN {}
                    ELSE IF sched_start = 0 THEN 0 .. sched_tail ELSE 0 .. Round - 1
<1>1. CASE sched_tail = -1
  BY <1>1 DEF Window
<1>2. CASE sched_tail # -1 /\ sched_start = 0
  BY <1>2, AdvanceLemma DEF Window, WindowShape
<1>3. CASE sched_tail # -1 /\ sched_start # 0
  BY <1>3, AdvanceLemma DEF Window, WindowShape
<1> QED
  BY <1>1, <1>2, <1>3

\* The rules for one, two and three queues each choose a queue that was ready.
LEMMA PickLemma ==
    ASSUME NEW r \in SUBSET Queues, NEW q \in Queues, Pick(r, q) \/ FirstPick(r, q)
    PROVE  q \in r
BY DEF Pick, FirstPick, PickOfTwo

LEMMA InitIInv == Init => IInv
BY AdvanceLemma DEF Init, IInv, TypeOK, ChosenIsReady, WindowShape, Queues, NoQueue

\* The counters of the history stay counters.
LEMMA CappedLemma ==
    ASSUME NEW n \in Nat
    PROVE  Capped(n) \in Nat
BY DEF Capped

\* What one call of k_schedule does to the ring.
RingStep ==
    \/ sched_tail = -1 /\ sched_tail' = 0 /\ sched_start' = sched_start
    \/ /\ sched_tail # -1
       /\ sched_tail' = Advance(sched_tail)
       /\ sched_start' = IF sched_start = Advance(sched_tail)
                         THEN Advance(sched_start) ELSE sched_start

LEMMA RingStepLemma ==
    ASSUME IInv, RingStep
    PROVE  WindowShape' /\ Window \subseteq Window' /\ sched_tail' \in Window'
<1>1. WindowShape
  BY DEF IInv
<1>2. WindowShape' /\ sched_tail' \in 0 .. Round - 1
  BY <1>1, AdvanceLemma DEF WindowShape, RingStep
<1>3. Window = IF sched_tail = -1 THEN {}
               ELSE IF sched_start = 0 THEN 0 .. sched_tail ELSE 0 .. Round - 1
  BY <1>1, WindowLemma
<1>4. Window' = IF sched_tail' = -1 THEN {}
                ELSE IF sched_start' = 0 THEN 0 .. sched_tail' ELSE 0 .. Round - 1
  <2>1. CASE sched_start' = 0
    BY <1>2, <2>1, AdvanceLemma DEF Window, WindowShape
  <2>2. CASE sched_start' # 0
    BY <1>2, <2>2, AdvanceLemma DEF Window, WindowShape
  <2> QED
    BY <2>1, <2>2
<1>5. Window \subseteq Window' /\ sched_tail' \in Window'
  BY <1>1, <1>2, <1>3, <1>4, AdvanceLemma DEF WindowShape, RingStep
<1> QED
  BY <1>2, <1>5

\* The two indices stay on the ring.
LEMMA RingTypeLemma ==
    ASSUME sched_tail \in -1 .. Round - 1, sched_start \in 0 .. Round - 1, RingStep
    PROVE  sched_tail' \in -1 .. Round - 1 /\ sched_start' \in 0 .. Round - 1
<1>1. CASE sched_tail = -1
  BY <1>1, AdvanceLemma DEF RingStep
<1>2. CASE sched_tail # -1
  <2>1. Advance(sched_tail) \in 0 .. Round - 1 /\ Advance(sched_start) \in 0 .. Round - 1
    BY <1>2, AdvanceLemma
  <2>2. /\ sched_tail' = Advance(sched_tail)
        /\ sched_start' = Advance(sched_start) \/ sched_start' = sched_start
    BY <1>2 DEF RingStep
  <2> QED
    BY <2>1, <2>2, AdvanceLemma
<1> QED
  BY <1>1, <1>2

LEMMA CallLemma ==
    ASSUME IInv, NEW r \in ReadySets, k_schedule(r)
    PROVE  IInv' /\ RingStep
<1>1. r \in SUBSET Queues
  BY ReadySetsAssumption
<1>2. PICK q \in Queues :
         /\ Pick(r, q) \/ FirstPick(r, q)
         /\ Record(r, q)
         /\ \/ sched_list' = [sched_list EXCEPT ![0] = q]
            \/ sched_tail # -1 /\ sched_list' = [sched_list EXCEPT ![Advance(sched_tail)] = q]
         /\ RingStep
  BY DEF k_schedule, FirstCall, LaterCall, RingStep
<1>3. WindowShape'
  BY <1>2, RingStepLemma
<1>4. ChosenIsReady'
  BY <1>1, <1>2, PickLemma DEF ChosenIsReady, Record
<1>5. TypeOK'
  <2>1. TypeOK /\ WindowShape
    BY DEF IInv
  <2>2. sched_list' \in [0 .. Round - 1 -> Queues]
    BY <1>2, <2>1 DEF TypeOK
  <2>3. sched_tail' \in -1 .. Round - 1 /\ sched_start' \in 0 .. Round - 1
    BY <1>2, <2>1, RingTypeLemma DEF TypeOK
  <2>4. passed' \in [Queues -> Nat] /\ busy' \in Nat
    BY <1>2, <2>1, CappedLemma DEF TypeOK, Record
  <2> QED
    BY <1>1, <1>2, <2>2, <2>3, <2>4 DEF TypeOK, Record
<1> QED
  BY <1>2, <1>3, <1>4, <1>5 DEF IInv

LEMMA StutterIInv ==
    ASSUME IInv, UNCHANGED vars
    PROVE  IInv'
BY DEF IInv, TypeOK, ChosenIsReady, WindowShape, vars, schedVars
-----------------------------------------------------------------------------
\* The invariant holds in every reachable state.
THEOREM InvariantHolds == Spec => []IInv
<1>1. IInv /\ [Next]_vars => IInv'
  BY CallLemma, StutterIInv DEF Next
<1> QED
  BY <1>1, InitIInv, PTL DEF Spec

\* The scheduler's static variables stay within their ranges.
THEOREM TypeCorrect == Spec => []TypeOK
BY InvariantHolds, PTL DEF IInv

\* k_schedule never returns an empty queue, so the scheduler thread never
\* takes the dummy head for a process (process_control.c:287-289).
THEOREM NeverPicksEmpty == Spec => []ChosenIsReady
BY InvariantHolds, PTL DEF IInv

\* The window over which turns are counted never loses a slot and always
\* holds the latest choice, whatever the length of the ring.
THEOREM WindowGrows == Spec => WindowNeverShrinks
<1>1. IInv /\ [Next]_vars => [Window \subseteq Window' /\ sched_tail' \in Window']_vars
  BY CallLemma, RingStepLemma DEF Next
<1> QED
  BY <1>1, InvariantHolds, PTL DEF Spec, WindowNeverShrinks
-----------------------------------------------------------------------------
(* Counting the turns in the window. *)

\* How many slots of the ring have been written.
Filled == IF sched_tail = -1 THEN 0 ELSE IF sched_start = 0 THEN sched_tail + 1 ELSE Round

\* How many calls ago a slot was written.
Age(i) == IF i <= sched_tail THEN sched_tail - i ELSE sched_tail - i + Round

\* The slots of the last n calls, and those in which q was chosen.
Recent(n) == {i \in 0 .. Round - 1 : Age(i) < n}
Turns(q)  == {i \in Window : sched_list[i] = q}

\* What a call does: it writes the next slot, which holds the oldest choice if
\* the ring is full.
Called(r, q) ==
    /\ IInv
    /\ r \in SUBSET Queues /\ q \in Queues
    /\ IF sched_tail = -1 THEN FirstPick(r, q) ELSE Pick(r, q)
    /\ sched_tail' \in 0 .. Round - 1
    /\ sched_tail' = IF sched_tail = -1 THEN 0 ELSE Advance(sched_tail)
    /\ Window' = Window \cup {sched_tail'}
    /\ sched_list' = [sched_list EXCEPT ![sched_tail'] = q]
    /\ Filled' = IF Filled = Round THEN Round ELSE Filled + 1
    /\ Filled # Round => sched_tail' \notin Window
    /\ Record(r, q)

\* Which slots the window has, read off the indices of the ring.
RingOK ==
    /\ Round \in Nat /\ Round > 2
    /\ sched_tail \in -1 .. Round - 1 /\ sched_start \in 0 .. Round - 1
    /\ sched_list \in [0 .. Round - 1 -> Queues]
    /\ Filled \in 0 .. Round
    /\ Window = 0 .. Filled - 1
    /\ sched_tail = -1 <=> Filled = 0
    /\ Filled # Round => sched_tail = Filled - 1 /\ sched_start = 0

LEMMA RingLemma == IInv => RingOK
<1> SUFFICES ASSUME IInv PROVE RingOK
  OBVIOUS
<1>1. /\ Round \in Nat /\ Round > 2
      /\ sched_tail \in -1 .. Round - 1 /\ sched_start \in 0 .. Round - 1
      /\ sched_list \in [0 .. Round - 1 -> Queues]
      /\ WindowShape
  BY AdvanceLemma DEF IInv, TypeOK
<1>2. Filled \in 0 .. Round
  BY <1>1 DEF Filled
<1>3. Window = 0 .. Filled - 1
  <2>1. CASE sched_tail = -1
    BY <1>1, <2>1, WindowLemma DEF Filled
  <2>2. CASE sched_tail # -1
    BY <1>1, <2>2, WindowLemma DEF Filled
  <2> QED
    BY <2>1, <2>2
<1>4. /\ sched_tail = -1 <=> Filled = 0
      /\ Filled # Round => sched_tail = Filled - 1 /\ sched_start = 0
  BY <1>1 DEF Filled, WindowShape
<1> QED
  BY <1>1, <1>2, <1>3, <1>4 DEF RingOK

LEMMA RingLemmaNext == IInv' => RingOK'
BY RingLemma, PTL

LEMMA RingFacts ==
    ASSUME IInv
    PROVE  /\ Round \in Nat /\ Round > 2
           /\ sched_tail \in -1 .. Round - 1 /\ sched_start \in 0 .. Round - 1
           /\ sched_list \in [0 .. Round - 1 -> Queues]
           /\ Filled \in 0 .. Round
           /\ Window = 0 .. Filled - 1
           /\ sched_tail = -1 <=> Filled = 0
           /\ Filled # Round => sched_tail = Filled - 1 /\ sched_start = 0
BY RingLemma DEF RingOK

LEMMA CalledLemma ==
    ASSUME IInv, NEW r \in ReadySets, k_schedule(r)
    PROVE  \E q \in Queues : Called(r, q)
<1>1. r \in SUBSET Queues /\ IInv' /\ RingStep
  BY ReadySetsAssumption, CallLemma
<1>2. PICK q \in Queues :
         /\ IF sched_tail = -1 THEN FirstPick(r, q) ELSE Pick(r, q)
         /\ Record(r, q)
         /\ sched_tail' = IF sched_tail = -1 THEN 0 ELSE Advance(sched_tail)
         /\ sched_list' = [sched_list EXCEPT ![sched_tail'] = q]
  BY DEF k_schedule, FirstCall, LaterCall
<1>3. /\ Round \in Nat /\ Round > 2
      /\ sched_tail \in -1 .. Round - 1 /\ sched_start \in 0 .. Round - 1
      /\ Filled \in 0 .. Round /\ Window = 0 .. Filled - 1 /\ WindowShape
      /\ sched_tail = -1 <=> Filled = 0
      /\ Filled # Round => sched_tail = Filled - 1 /\ sched_start = 0
  BY RingFacts DEF IInv
<1>4. /\ sched_tail' \in 0 .. Round - 1
      /\ sched_tail' = IF sched_tail = Round - 1 THEN 0 ELSE sched_tail + 1
  BY <1>2, <1>3, AdvanceLemma
<1>5. /\ sched_start' \in 0 .. Round - 1
      /\ Filled' \in 0 .. Round /\ Window' = 0 .. Filled' - 1 /\ WindowShape'
  BY <1>1, RingLemmaNext DEF IInv, RingOK
<1>6. Filled' = IF Filled = Round THEN Round ELSE Filled + 1
  BY <1>1, <1>2, <1>3, <1>4, <1>5, AdvanceLemma DEF RingStep, Filled, WindowShape
<1>7. Window' = Window \cup {sched_tail'} /\ (Filled # Round => sched_tail' \notin Window)
  BY <1>3, <1>4, <1>5, <1>6
<1> QED
  BY <1>1, <1>2, <1>4, <1>6, <1>7 DEF Called

\* A call makes every slot older by one and the slot it writes the youngest.
LEMMA AgeLemma ==
    ASSUME NEW r, NEW q, Called(r, q), NEW i \in 0 .. Round - 1
    PROVE  /\ Age(i) \in 0 .. Round - 1
           /\ IF i = sched_tail' THEN Age(i)' = 0 /\ Age(i) = Round - 1
              ELSE Age(i)' = Age(i) + 1 /\ Age(i) < Round - 1
<1>1. /\ Round \in Nat /\ Round > 2 /\ sched_tail \in -1 .. Round - 1
      /\ sched_tail' = IF sched_tail = Round - 1 THEN 0 ELSE sched_tail + 1
  BY RingFacts, AdvanceLemma DEF Called
<1> QED
  BY <1>1 DEF Age

\* The last n calls wrote n slots.
LEMMA RecentLemma ==
    ASSUME IInv, sched_tail # -1, NEW n \in 0 .. Round
    PROVE  IsFiniteSet(Recent(n)) /\ Cardinality(Recent(n)) = n
<1>1. /\ Round \in Nat /\ Round > 2 /\ sched_tail \in 0 .. Round - 1
  BY RingFacts
<1>2. CASE n <= sched_tail + 1
  <2>1. Recent(n) = sched_tail - n + 1 .. sched_tail
    BY <1>1, <1>2 DEF Recent, Age
  <2> QED
    BY <1>1, <1>2, <2>1, FS_Interval
<1>3. CASE n > sched_tail + 1
  <2> DEFINE A == 0 .. sched_tail
             B == sched_tail - n + 1 + Round .. Round - 1
  <2>1. Recent(n) = A \cup B /\ A \cap B = {}
    BY <1>1, <1>3 DEF Recent, Age
  <2>2. IsFiniteSet(A) /\ Cardinality(A) = sched_tail + 1
    BY <1>1, <1>3, FS_Interval
  <2>3. IsFiniteSet(B) /\ Cardinality(B) = n - sched_tail - 1
    <3>1. /\ sched_tail - n + 1 + Round \in Int /\ Round - 1 \in Int
          /\ ~(sched_tail - n + 1 + Round > Round)
      BY <1>1, <1>3
    <3>2. /\ IsFiniteSet(B)
          /\ Cardinality(B) = IF sched_tail - n + 1 + Round > Round - 1 THEN 0
                              ELSE Round - 1 - (sched_tail - n + 1 + Round) + 1
      BY <3>1, FS_Interval
    <3> QED
      BY <1>1, <1>3, <3>1, <3>2
  <2> HIDE DEF A, B
  <2>4. /\ IsFiniteSet(A \cup B)
        /\ Cardinality(A \cup B) = Cardinality(A) + Cardinality(B) - Cardinality({})
    BY <2>1, <2>2, <2>3, FS_Union
  <2> QED
    BY <1>1, <1>3, <2>1, <2>2, <2>3, <2>4, FS_EmptySet
<1> QED
  BY <1>1, <1>2, <1>3

\* The turns of the three queues make up the window.
LEMMA CountLemma ==
    ASSUME IInv
    PROVE  /\ \A q \in Queues : /\ IsFiniteSet(Turns(q)) /\ run_count(q) = Cardinality(Turns(q))
                                /\ run_count(q) \in Nat
           /\ run_count(0) + run_count(1) + run_count(2) = Filled
           /\ \A q \in Queues : standard_count[q] \in Nat \ {0}
           /\ standard_count[0] + standard_count[1] + standard_count[2] = Round
<1>1. /\ Filled \in 0 .. Round /\ Window = 0 .. Filled - 1 /\ Round \in Nat
      /\ sched_list \in [0 .. Round - 1 -> Queues]
  BY RingFacts
<1>2. IsFiniteSet(Window) /\ Cardinality(Window) = Filled
  BY <1>1, FS_Interval
<1>3. ASSUME NEW q
      PROVE  /\ IsFiniteSet(Turns(q)) /\ run_count(q) = Cardinality(Turns(q))
             /\ run_count(q) \in Nat
  <2>1. Turns(q) \in SUBSET Window
    BY DEF Turns
  <2>2. IsFiniteSet(Turns(q))
    BY <1>2, <2>1, FS_Subset
  <2> QED
    BY <2>2, FS_CardinalityType DEF Turns, run_count
<1>4. /\ Window = (Turns(0) \cup Turns(1)) \cup Turns(2)
      /\ Turns(0) \cap Turns(1) = {} /\ (Turns(0) \cup Turns(1)) \cap Turns(2) = {}
  BY <1>1 DEF Turns, Queues
<1>5. /\ IsFiniteSet(Turns(0) \cup Turns(1))
      /\ Cardinality(Turns(0) \cup Turns(1)) = Cardinality(Turns(0)) + Cardinality(Turns(1))
  BY <1>3, <1>4, FS_Union, FS_EmptySet
<1>6. Cardinality(Window) = Cardinality(Turns(0) \cup Turns(1)) + Cardinality(Turns(2))
  <2> DEFINE A == Turns(0) \cup Turns(1)
  <2> HIDE DEF A
  <2>1. IsFiniteSet(A) /\ IsFiniteSet(Turns(2)) /\ A \cap Turns(2) = {} /\ Window = A \cup Turns(2)
    BY <1>3, <1>4, <1>5 DEF A
  <2>2. Cardinality(A \cup Turns(2)) = Cardinality(A) + Cardinality(Turns(2)) - Cardinality({})
    BY <2>1, FS_Union
  <2>3. Cardinality(A) \in Nat /\ Cardinality(Turns(2)) \in Nat
    BY <2>1, FS_CardinalityType
  <2>4. Cardinality(Window) = Cardinality(A) + Cardinality(Turns(2))
    BY <2>1, <2>2, <2>3, FS_EmptySet
  <2> QED
    BY <2>4 DEF A
<1>7. run_count(0) + run_count(1) + run_count(2) = Filled
  BY <1>2, <1>3, <1>5, <1>6
<1>8. /\ \A q \in Queues : standard_count[q] \in Nat \ {0}
      /\ standard_count[0] + standard_count[1] + standard_count[2] = Round
  BY SharesAssumption DEF standard_count, Queues, Round
<1> QED
  BY <1>3, <1>7, <1>8

\* What a call does to the turns: the queue chosen has one more, the one whose
\* slot was written over one less.
LEMMA CountStepLemma ==
    ASSUME NEW r, NEW q, Called(r, q), NEW o \in Queues
    PROVE  run_count(o)' = run_count(o) - (IF sched_tail' \in Turns(o) THEN 1 ELSE 0)
                                        + (IF o = q THEN 1 ELSE 0)
<1> DEFINE t == sched_tail'
           Rest == Turns(o) \ {t}
<1>1. /\ IsFiniteSet(Turns(o)) /\ run_count(o) = Cardinality(Turns(o))
      /\ run_count(o) \in Nat
  BY CountLemma DEF Called
<1>2. IsFiniteSet(Rest) /\ Cardinality(Rest) = run_count(o) - (IF t \in Turns(o) THEN 1 ELSE 0)
  BY <1>1, FS_RemoveElement
<1>3. {i \in Window' : sched_list'[i] = o} = IF o = q THEN Rest \cup {t} ELSE Rest
  <2>1. /\ sched_list \in [0 .. Round - 1 -> Queues] /\ t \in 0 .. Round - 1
        /\ Window' = Window \cup {t} /\ sched_list' = [sched_list EXCEPT ![t] = q]
        /\ Window \subseteq 0 .. Round - 1
    BY RingFacts DEF Called
  <2>2. sched_list'[t] = q /\ \A i \in Window : i # t => sched_list'[i] = sched_list[i]
    BY <2>1
  <2> QED
    BY <2>1, <2>2 DEF Turns
<1>4. run_count(o)' = Cardinality(IF o = q THEN Rest \cup {t} ELSE Rest)
  BY <1>3 DEF run_count
<1>5. Cardinality(Rest \cup {t}) = Cardinality(Rest) + 1
  BY <1>2, FS_AddElement
<1> QED
  BY <1>1, <1>2, <1>4, <1>5
\* The sums over the queues, in whatever order they are named.
LEMMA SumLemma ==
    ASSUME IInv, NEW a \in Queues, NEW b \in Queues \ {a}, NEW c \in Queues \ {a, b}
    PROVE  /\ run_count(a) \in Nat /\ run_count(b) \in Nat /\ run_count(c) \in Nat
           /\ run_count(a) + run_count(b) + run_count(c) = Filled
           /\ standard_count[a] \in Nat \ {0} /\ standard_count[b] \in Nat \ {0}
           /\ standard_count[c] \in Nat \ {0}
           /\ standard_count[a] + standard_count[b] + standard_count[c] = Round
<1>1. /\ run_count(0) \in Nat /\ run_count(1) \in Nat /\ run_count(2) \in Nat
      /\ run_count(0) + run_count(1) + run_count(2) = Filled
      /\ standard_count[0] \in Nat \ {0} /\ standard_count[1] \in Nat \ {0}
      /\ standard_count[2] \in Nat \ {0}
      /\ standard_count[0] + standard_count[1] + standard_count[2] = Round
  BY CountLemma DEF Queues
<1>2. <<a, b, c>> \in {<<0, 1, 2>>, <<0, 2, 1>>, <<1, 0, 2>>, <<1, 2, 0>>, <<2, 0, 1>>, <<2, 1, 0>>}
  BY DEF Queues
<1> QED
  BY <1>1, <1>2

\* What the history counters say of the calls they count.
LEMMA HistoryLemma ==
    ASSUME NEW r, NEW q, Called(r, q)
    PROVE  /\ \A o \in Queues : \/ passed'[o] = 0
                                \/ o \in r /\ o # q /\ passed'[o] \in {passed[o], passed[o] + 1}
           /\ busy' = 0 \/ (r = Queues /\ busy' \in {busy, busy + 1})
           /\ busy \in Nat /\ passed \in [Queues -> Nat]
<1>1. Record(r, q) /\ busy \in Nat /\ passed \in [Queues -> Nat]
  BY DEF Called, IInv, TypeOK
<1>2. \A n \in Nat : Capped(n) \in {n, n + 1}
  BY DEF Capped
<1>3. ASSUME NEW o \in Queues
      PROVE  passed'[o] = IF o \in r /\ o # q THEN Capped(passed[o]) ELSE 0
  BY <1>1 DEF Record
<1>4. busy' = IF r = Queues THEN Capped(busy) ELSE 0
  BY <1>1 DEF Record
<1> QED
  BY <1>1, <1>2, <1>3, <1>4
-----------------------------------------------------------------------------
(* Shares. *)

\* No queue's turns are further than one from its share.
Settled == Filled = Round /\ \A q \in Queues : Gap(q) \in {-1, 0, 1}

\* While all queues stay busy, a queue that is ahead of its share is not chosen,
\* until all have come to terms.
ShareInv ==
    /\ Filled < Round => busy <= Filled
    /\ \/ Settled
       \/ \A q \in Queues : Gap(q) < 0 => \A i \in Window : Age(i) < busy => sched_list[i] # q

\* The largest gap is what a busy call chooses by.
LEMMA LargestGap ==
    ASSUME NEW q, Called(Queues, q)
    PROVE  /\ q \in Queues /\ Gap(q) \in Int /\ Gap(q) = standard_count[q] - run_count(q)
           /\ \A o \in Queues : Gap(o) \in Int
           /\ IF sched_tail = -1 THEN Gap(q) > 0 ELSE \A o \in Queues : Gap(o) <= Gap(q)
<1>1. IInv /\ q \in Queues
  BY DEF Called
<1>2. \A o \in Queues : run_count(o) \in Nat /\ standard_count[o] \in Nat \ {0}
  BY <1>1, CountLemma
<1>3. \A o \in Queues : Gap(o) \in Int /\ Gap(o) = standard_count[o] - run_count(o)
  BY <1>2 DEF Gap
<1>4. CASE sched_tail # -1
  <2>1. Pick(Queues, q)
    BY <1>4 DEF Called
  <2>2. Queues # {q} /\ \A high, low \in Queues : Queues # {high, low}
    BY DEF Queues
  <2> QED
    BY <1>1, <1>3, <1>4, <2>1, <2>2 DEF Pick
<1>5. CASE sched_tail = -1
  <2>1. Filled = 0
    BY <1>1, <1>5, RingFacts
  <2>2. run_count(0) = 0 /\ run_count(1) = 0 /\ run_count(2) = 0
    BY <1>1, <1>2, <2>1, CountLemma DEF Queues
  <2>3. q = 0
    BY <1>1, <1>5 DEF Called, FirstPick, Queues
  <2> QED
    BY <1>1, <1>2, <1>3, <1>5, <2>2, <2>3
<1> QED
  BY <1>4, <1>5
LEMMA GapStepLemma ==
    ASSUME NEW r, NEW q, Called(r, q), NEW o \in Queues
    PROVE  /\ Gap(o) \in Int
           /\ Gap(o)' = Gap(o) + (IF sched_tail' \in Turns(o) THEN 1 ELSE 0)
                               - (IF o = q THEN 1 ELSE 0)
<1>1. run_count(o) \in Nat /\ standard_count[o] \in Nat
  BY CountLemma DEF Called
<1>2. Gap(o)' = standard_count[o] - run_count(o)'
  BY DEF Gap
<1> QED
  BY <1>1, <1>2, CountStepLemma DEF Gap

LEMMA GapSumLemma ==
    ASSUME IInv
    PROVE  Gap(0) + Gap(1) + Gap(2) = Round - Filled
<1>1. /\ run_count(0) \in Nat /\ run_count(1) \in Nat /\ run_count(2) \in Nat
      /\ run_count(0) + run_count(1) + run_count(2) = Filled
      /\ standard_count[0] \in Nat /\ standard_count[1] \in Nat /\ standard_count[2] \in Nat
      /\ standard_count[0] + standard_count[1] + standard_count[2] = Round
  BY CountLemma DEF Queues
<1> QED
  BY <1>1 DEF Gap

\* Of three numbers that sum to zero the largest is positive, or all are zero.
LEMMA SomeAhead ==
    ASSUME NEW a \in Int, NEW b \in Int, NEW c \in Int, NEW g \in Int,
           a <= g, b <= g, c <= g, a + b + c = 0, ~(a = 0 /\ b = 0 /\ c = 0)
    PROVE  g >= 1
OBVIOUS

\* Who has the largest gap of all is behind its share until all have it.
LEMMA BehindLemma ==
    ASSUME NEW q, Called(Queues, q), ~Settled
    PROVE  Gap(q) >= 1
<1>1. CASE sched_tail = -1
  BY <1>1, LargestGap
<1>2. CASE sched_tail # -1
  <2>1. \A o \in Queues : Gap(o) \in Int /\ Gap(o) <= Gap(q)
    BY <1>2, LargestGap
  <2>2. Gap(0) + Gap(1) + Gap(2) = Round - Filled
    BY GapSumLemma DEF Called
  <2>3. Round \in Nat /\ Filled \in 0 .. Round /\ q \in Queues
    BY RingFacts DEF Called
  <2>4. /\ Gap(0) \in Int /\ Gap(1) \in Int /\ Gap(2) \in Int /\ Gap(q) \in Int
        /\ Gap(0) <= Gap(q) /\ Gap(1) <= Gap(q) /\ Gap(2) <= Gap(q)
    BY <2>1, <2>3 DEF Queues
  <2>5. CASE Filled # Round
    BY <2>2, <2>3, <2>4, <2>5
  <2>6. CASE Filled = Round
    <3>1. ~(Gap(0) = 0 /\ Gap(1) = 0 /\ Gap(2) = 0)
      BY <2>6 DEF Settled, Queues
    <3>2. Gap(0) + Gap(1) + Gap(2) = 0
      BY <2>2, <2>3, <2>6
    <3> QED
      BY <2>4, <3>1, <3>2, SomeAhead
  <2> QED
    BY <2>5, <2>6
<1> QED
  BY <1>1, <1>2

\* Once settled, a busy call takes from the queue that is behind, if there is
\* one, and the slot that it writes over makes at most one queue fall behind.
LEMMA StaysSettled ==
    ASSUME NEW q, Called(Queues, q), Settled
    PROVE  Settled'
<1>1. /\ IInv /\ Round \in Nat /\ Round > 2 /\ Filled = Round /\ Filled' = Round
      /\ Window = 0 .. Round - 1 /\ sched_tail # -1 /\ sched_tail' \in Window
      /\ sched_list \in [0 .. Round - 1 -> Queues]
  BY RingFacts DEF Called, Settled
<1>2. Gap(0) + Gap(1) + Gap(2) = 0
  BY <1>1, GapSumLemma
<1>3. \A o \in Queues : Gap(o) \in {-1, 0, 1} /\ Gap(o) <= Gap(q)
  BY <1>1, LargestGap DEF Settled
<1>4. PICK y \in Queues : \A o \in Queues : sched_tail' \in Turns(o) <=> o = y
  BY <1>1 DEF Turns
<1>5. \A o \in Queues : Gap(o)' = Gap(o) + (IF o = y THEN 1 ELSE 0) - (IF o = q THEN 1 ELSE 0)
  BY <1>4, GapStepLemma
<1>6. q \in Queues /\ 0 \in Queues /\ 1 \in Queues /\ 2 \in Queues
  BY DEF Called, Queues
<1>7. \A o \in Queues : Gap(o)' \in {-1, 0, 1}
  <2>1. ASSUME NEW o \in Queues, o # q, Gap(o) = 1
        PROVE  FALSE
    <3>1. Gap(q) = 1
      BY <1>3, <1>6, <2>1
    <3>2. PICK c \in Queues \ {o, q} : TRUE
      BY <1>6, <2>1 DEF Queues
    <3>3. Gap(o) + Gap(q) + Gap(c) = 0
      BY <1>2, <1>3, <1>6, <2>1, <3>2 DEF Queues
    <3> QED
      BY <1>3, <2>1, <3>1, <3>2, <3>3
  <2>2. Gap(q) # -1
    BY <1>2, <1>3, <1>6
  <2> QED
    BY <1>3, <1>5, <1>6, <2>1, <2>2
<1> QED
  BY <1>1, <1>7 DEF Settled

LEMMA NextShare ==
    ASSUME NEW r, NEW q, Called(r, q), ShareInv
    PROVE  ShareInv'
<1>1. /\ IInv /\ Round \in Nat /\ Filled \in 0 .. Round /\ Filled' \in 0 .. Round
      /\ Filled' = IF Filled = Round THEN Round ELSE Filled + 1
      /\ busy \in Nat /\ busy' \in {0, busy, busy + 1} /\ q \in Queues
      /\ Window \subseteq 0 .. Round - 1 /\ Window' \subseteq 0 .. Round - 1
      /\ Window' = Window \cup {sched_tail'} /\ sched_tail' \in 0 .. Round - 1
      /\ sched_list \in [0 .. Round - 1 -> Queues]
      /\ sched_list' = [sched_list EXCEPT ![sched_tail'] = q]
  <2>1. /\ IInv /\ q \in Queues
        /\ Filled' = IF Filled = Round THEN Round ELSE Filled + 1
        /\ Window' = Window \cup {sched_tail'} /\ sched_tail' \in 0 .. Round - 1
        /\ sched_list' = [sched_list EXCEPT ![sched_tail'] = q]
    BY DEF Called
  <2>2. /\ Round \in Nat /\ Filled \in 0 .. Round /\ Window = 0 .. Filled - 1
        /\ sched_list \in [0 .. Round - 1 -> Queues]
    BY <2>1, RingFacts
  <2>3. busy \in Nat /\ busy' \in {0, busy, busy + 1}
    BY HistoryLemma
  <2> QED
    BY <2>1, <2>2, <2>3
<1>2. Filled' < Round => busy' <= Filled'
  BY <1>1 DEF ShareInv
<1>3. ASSUME NEW i \in Window'
      PROVE  /\ Age(i)' \in Nat
             /\ i # sched_tail' => /\ i \in Window /\ Age(i) \in Nat /\ Age(i)' = Age(i) + 1
                                   /\ sched_list'[i] = sched_list[i]
             /\ i = sched_tail' => sched_list'[i] = q
  <2>1. i \in 0 .. Round - 1
    BY <1>1, <1>3
  <2>2. Age(i) \in Nat
    BY <1>1, <2>1, AgeLemma
  <2>3. IF i = sched_tail' THEN Age(i)' = 0 ELSE Age(i)' = Age(i) + 1
    BY <2>1, AgeLemma
  <2> QED
    BY <1>1, <1>3, <2>1, <2>2, <2>3
<1>4. CASE busy' = 0
  BY <1>2, <1>3, <1>4 DEF ShareInv
<1>5. CASE busy' # 0 /\ Settled
  BY <1>2, <1>5, StaysSettled, HistoryLemma DEF ShareInv
<1>6. CASE busy' # 0 /\ ~Settled
  <2>1. Called(Queues, q) /\ busy' <= busy + 1
    BY <1>1, <1>6, HistoryLemma
  <2>2. Gap(q) \in Int /\ Gap(q) >= 1
    BY <1>6, <2>1, BehindLemma, LargestGap
  <2> SUFFICES ASSUME NEW o \in Queues, Gap(o)' < 0, NEW i \in Window', Age(i)' < busy'
               PROVE  sched_list'[i] # o
    BY <1>2 DEF ShareInv
  <2>3. o # q /\ Gap(o) < 0
    BY <2>2, GapStepLemma
  <2>4. CASE i = sched_tail'
    BY <1>3, <2>3, <2>4
  <2>5. CASE i # sched_tail'
    <3>1. Age(i) < busy
      BY <1>1, <1>3, <2>1, <2>5
    <3> QED
      BY <1>3, <1>6, <2>3, <2>5, <3>1 DEF ShareInv
  <2> QED
    BY <2>4, <2>5
<1> QED
  BY <1>4, <1>5, <1>6
LEMMA InitCounts ==
    ASSUME Init
    PROVE  /\ IInv /\ Filled = 0 /\ Window = {}
           /\ busy = 0 /\ \A q \in Queues : passed[q] = 0
<1>1. IInv
  BY InitIInv
<1> QED
  BY <1>1, RingFacts DEF Init, Filled

LEMMA ShareInvariant == Spec => [](IInv /\ ShareInv)
<1>1. Init => IInv /\ ShareInv
  BY InitCounts, AdvanceLemma DEF ShareInv
<1>2. IInv /\ ShareInv /\ [Next]_vars => (IInv /\ ShareInv)'
  <2> SUFFICES ASSUME IInv, ShareInv, [Next]_vars PROVE IInv' /\ ShareInv'
    OBVIOUS
  <2>1. CASE Next
    BY <2>1, CallLemma, CalledLemma, NextShare DEF Next
  <2>2. CASE UNCHANGED vars
    <3>1. ShareInv' = ShareInv
      BY <2>2 DEF vars, schedVars, ShareInv, Settled, Filled, Gap, run_count, Window, Age
    <3> QED
      BY <2>2, <3>1, StutterIInv
  <2> QED
    BY <2>1, <2>2
<1> QED
  BY <1>1, <1>2, PTL DEF Spec

\* Whatever was chosen before, after one round of calls that found all three
\* queues the turns in the window are the shares, give or take one: the queue
\* with the largest gap brings every queue that was ahead back to its share
\* before it is chosen again (scheduler.c:95-112).
THEOREM SharesAreFair == Spec => []FairShare
<1>1. IInv /\ ShareInv => FairShare
  <2> SUFFICES ASSUME IInv, ShareInv, busy >= Round, NEW q \in Queues, ~Settled
               PROVE  Gap(q) \in {-1, 0, 1}
    BY DEF FairShare, Settled
  <2>1. /\ Round \in Nat /\ Filled \in 0 .. Round /\ busy \in Nat
        /\ Window = 0 .. Filled - 1
    BY RingFacts DEF IInv, TypeOK
  <2>2. Filled = Round
    BY <2>1 DEF ShareInv
  <2>3. ASSUME NEW o \in Queues, Gap(o) < 0
        PROVE  FALSE
    <3>1. \A i \in Window : Age(i) < busy
      <4> SUFFICES ASSUME NEW i \in Window PROVE Age(i) < busy
        OBVIOUS
      <4>1. i \in 0 .. Round - 1 /\ sched_tail \in -1 .. Round - 1
        BY <2>1, <2>2, RingFacts
      <4>2. Age(i) < Round /\ Age(i) \in Int
        BY <2>1, <4>1 DEF Age
      <4> QED
        BY <2>1, <4>2
    <3>2. Turns(o) = {}
      BY <2>3, <3>1 DEF ShareInv, Turns
    <3>3. run_count(o) = 0 /\ standard_count[o] \in Nat \ {0}
      BY <3>2, CountLemma, FS_EmptySet
    <3> QED
      BY <2>3, <3>3 DEF Gap
  <2>4. Gap(0) + Gap(1) + Gap(2) = 0
    BY <2>1, <2>2, GapSumLemma
  <2>5. \A o \in Queues : Gap(o) \in Int /\ Gap(o) >= 0
    <3>1. \A o \in Queues : Gap(o) \in Int
      BY CountLemma DEF Gap
    <3> QED
      BY <2>3, <3>1
  <2>6. Gap(0) = 0 /\ Gap(1) = 0 /\ Gap(2) = 0
    BY <2>4, <2>5 DEF Queues
  <2> QED
    BY <2>6 DEF Queues
<1> QED
  BY <1>1, ShareInvariant, PTL
-----------------------------------------------------------------------------
(* Waiting. *)

\* A queue that has been passed over for more than a round has no turn in the
\* window, and all calls since gave the turn to one other queue, which is the
\* only one that can still go before it.
Overdue(q) ==
    \E o \in Queues \ {q} :
        /\ \A i \in 0 .. Round - 1 : Age(i) <= passed[q] - Round => sched_list[i] = o
        /\ passed[q] = Round \/ passed[q] - Round <= standard_count[o] - standard_count[q]
        /\ run_count(o) < Round
        /\ run_count(o) < standard_count[o] + 2 * standard_count[q]

WaitInv(q) ==
    /\ Filled < Round => passed[q] <= Filled
    /\ \A i \in Window : Age(i) < passed[q] => sched_list[i] # q
    /\ passed[q] >= Round => Overdue(q)

\* Why another queue is chosen although q is ready: there are three rules.
LEMMA PassedOver ==
    ASSUME NEW r, NEW x, Called(r, x), sched_tail # -1, NEW q \in r, q # x
    PROVE  \/ /\ run_count(q) # 0
              /\ run_count(x) * standard_count[q] <= standard_count[x] * run_count(q)
           \/ run_count(x) = 0
           \/ run_count(q) * standard_count[x] > standard_count[q] * run_count(x)
           \/ standard_count[q] - run_count(q) <= standard_count[x] - run_count(x)
<1>1. q \in Queues /\ x \in Queues /\ Pick(r, x)
  BY DEF Called
<1>2. run_count(q) \in Nat /\ run_count(x) \in Nat /\ standard_count[q] \in Nat /\ standard_count[x] \in Nat
  BY <1>1, CountLemma DEF Called
<1>3. CASE r = {x}
  BY <1>3
<1>4. CASE \E high, low \in Queues : high < low /\ r = {high, low} /\ x = PickOfTwo(high, low)
  <2>1. PICK high \in Queues, low \in Queues :
          high < low /\ r = {high, low} /\ x = PickOfTwo(high, low)
    BY <1>4
  <2>2. \/ x = low /\ q = high
        \/ x = high /\ q = low
    BY <2>1 DEF PickOfTwo
  <2>3. CASE x = low /\ q = high
    <3>1. high # low
      BY <2>3
    <3> QED
      BY <2>1, <2>3, <3>1 DEF PickOfTwo
  <2>4. CASE x = high /\ q = low
    <3>1. /\ run_count(low) # 0
          /\ ~(run_count(high) * standard_count[low] > standard_count[high] * run_count(low))
      BY <2>1, <2>4 DEF PickOfTwo
    <3>2. /\ run_count(high) * standard_count[low] \in Int
          /\ standard_count[high] * run_count(low) \in Int
      BY <1>2, <2>4
    <3> QED
      BY <2>4, <3>1, <3>2
  <2> QED
    BY <2>2, <2>3, <2>4
<1>5. CASE r = Queues /\ \A o \in Queues : Gap(o) < Gap(x) \/ (Gap(o) = Gap(x) /\ x <= o)
  BY <1>1, <1>2, <1>5 DEF Gap
<1> QED
  BY <1>1, <1>3, <1>4, <1>5 DEF Pick
\* One more call that passes an overdue queue over gives the turn to the same
\* queue as the calls before it, and there is still room for that.
LEMMA NextOverdue ==
    ASSUME NEW r, NEW x, Called(r, x), NEW q \in r, q # x, WaitInv(q),
           passed[q] >= Round, passed'[q] \in {passed[q], passed[q] + 1}
    PROVE  Overdue(q)'
<1> DEFINE n == passed[q]
<1>1. /\ IInv /\ q \in Queues /\ x \in Queues /\ n \in Nat
      /\ Round \in Nat /\ Round > 2 /\ Filled \in 0 .. Round /\ Window = 0 .. Filled - 1
      /\ sched_list \in [0 .. Round - 1 -> Queues]
      /\ sched_list' = [sched_list EXCEPT ![sched_tail'] = x] /\ sched_tail' \in 0 .. Round - 1
  BY RingFacts DEF Called, IInv, TypeOK
<1>2. Filled = Round /\ Window = 0 .. Round - 1 /\ sched_tail # -1
  BY <1>1, RingFacts DEF WaitInv
<1>3. \A i \in 0 .. Round - 1 : Age(i) \in 0 .. Round - 1
  BY <1>1, AgeLemma
<1>4. run_count(q) = 0
  <2>1. Turns(q) = {}
    BY <1>1, <1>2, <1>3 DEF WaitInv, Turns
  <2> QED
    BY <1>1, <2>1, CountLemma, FS_EmptySet
<1>5. PICK o \in Queues \ {q} :
        /\ \A i \in 0 .. Round - 1 : Age(i) <= n - Round => sched_list[i] = o
        /\ n = Round \/ n - Round <= standard_count[o] - standard_count[q]
        /\ run_count(o) < Round
        /\ run_count(o) < standard_count[o] + 2 * standard_count[q]
  BY DEF WaitInv, Overdue
<1>6. PICK p \in Queues \ {q, o} : TRUE
  BY DEF Queues
<1>7. /\ run_count(o) \in Nat /\ run_count(p) \in Nat
      /\ run_count(o) + run_count(p) = Round
      /\ standard_count[q] \in Nat \ {0} /\ standard_count[o] \in Nat \ {0}
      /\ standard_count[p] \in Nat \ {0}
      /\ standard_count[q] + standard_count[o] + standard_count[p] = Round
  BY <1>1, <1>2, <1>4, <1>5, <1>6, SumLemma
<1>8. run_count(o) >= n - Round + 1
  <2> DEFINE m == IF n - Round + 1 <= Round THEN n - Round + 1 ELSE Round
  <2>1. m \in 0 .. Round
    BY <1>1
  <2> HIDE DEF m
  <2>2. IsFiniteSet(Recent(m)) /\ Cardinality(Recent(m)) = m
    BY <1>1, <1>2, <2>1, RecentLemma
  <2>3. Recent(m) \subseteq Turns(o)
    <3> SUFFICES ASSUME NEW i \in 0 .. Round - 1, Age(i) < m PROVE i \in Turns(o)
      BY DEF Recent
    <3>1. Age(i) <= n - Round
      BY <1>1, <1>3 DEF m
    <3> QED
      BY <1>2, <1>5, <3>1 DEF Turns
  <2>4. m <= run_count(o)
    <3>1. IsFiniteSet(Turns(o)) /\ run_count(o) = Cardinality(Turns(o))
      BY <1>1, <1>5, CountLemma
    <3> QED
      BY <2>2, <2>3, <3>1, FS_Subset
  <2> QED
    BY <1>1, <1>5, <1>7, <2>1, <2>4 DEF m
<1>9. \/ run_count(x) = 0
      \/ standard_count[q] <= standard_count[x] - run_count(x)
  <2>1. run_count(x) \in Nat /\ standard_count[x] \in Nat
    BY <1>1, CountLemma
  <2>2. run_count(q) * standard_count[x] = 0 /\ standard_count[q] * run_count(x) \in Nat
    BY <1>4, <1>7, <2>1
  <2>3. \/ run_count(q) # 0
        \/ run_count(x) = 0
        \/ run_count(q) * standard_count[x] > standard_count[q] * run_count(x)
        \/ standard_count[q] - run_count(q) <= standard_count[x] - run_count(x)
    BY <1>2, PassedOver
  <2>4. ~(run_count(q) * standard_count[x] > standard_count[q] * run_count(x))
    BY <2>2
  <2>5. standard_count[q] - run_count(q) = standard_count[q]
    BY <1>4, <1>7
  <2> QED
    BY <1>4, <2>3, <2>4, <2>5
<1>10. x = o /\ n - Round + 1 <= standard_count[o] - standard_count[q]
       /\ run_count(o) <= standard_count[o] - standard_count[q]
  <2>1. x \in {o, p}
    BY <1>1, <1>5, <1>6 DEF Queues
  <2>2. CASE x = o
    <3>1. run_count(o) > 0
      BY <1>1, <1>7, <1>8
    <3>2. standard_count[q] <= standard_count[o] - run_count(o)
      BY <1>7, <1>9, <2>2, <3>1
    <3>3. n \in Nat /\ Round \in Nat /\ n - Round + 1 \in Int
      BY <1>1
    <3>4. /\ run_count(o) \in Nat /\ standard_count[q] \in Nat /\ standard_count[o] \in Nat
      BY <1>7
    <3>5. run_count(o) <= standard_count[o] - standard_count[q]
      BY <3>2, <3>4
    <3>6. n - Round + 1 <= standard_count[o] - standard_count[q]
      BY <1>8, <3>3, <3>4, <3>5
    <3> QED
      BY <2>2, <3>5, <3>6
  <2>3. CASE x = p
    <3>1. run_count(p) > 0 /\ standard_count[p] - run_count(p) < standard_count[q]
      BY <1>5, <1>7
    <3> QED
      BY <1>7, <1>9, <2>3, <3>1
  <2> QED
    BY <2>1, <2>2, <2>3
<1>11. run_count(o)' <= run_count(o) + 1 /\ run_count(o)' \in Int
  BY <1>7, CountStepLemma
<1>12. ASSUME NEW i \in 0 .. Round - 1, Age(i)' <= passed'[q] - Round
       PROVE  sched_list'[i] = o
  <2>1. CASE i = sched_tail'
    BY <1>1, <1>10, <2>1
  <2>2. CASE i # sched_tail'
    <3>1. Age(i)' = Age(i) + 1 /\ Age(i) \in Nat
      BY <1>3, <2>2, AgeLemma
    <3> QED
      BY <1>1, <1>5, <1>12, <2>2, <3>1
  <2> QED
    BY <2>1, <2>2
<1>13. passed'[q] - Round <= standard_count[o] - standard_count[q]
  <2>1. n \in Nat /\ Round \in Nat /\ passed'[q] \in {n, n + 1}
    BY <1>1
  <2>2. standard_count[o] - standard_count[q] \in Int
    BY <1>7
  <2>3. n + 1 - Round <= standard_count[o] - standard_count[q]
    BY <1>10, <2>1, <2>2
  <2> QED
    BY <2>1, <2>2, <2>3
<1>14. run_count(o)' < Round /\ run_count(o)' < standard_count[o] + 2 * standard_count[q]
  BY <1>7, <1>10, <1>11
<1> QED
  BY <1>5, <1>12, <1>13, <1>14 DEF Overdue

\* The call that makes a queue overdue leaves so many turns to the third queue
\* that it is ahead of its share.
LEMMA BecomesOverdue ==
    ASSUME NEW r, NEW x, Called(r, x), NEW q \in r, q # x, WaitInv(q),
           passed[q] = Round - 1, passed'[q] = Round
    PROVE  Overdue(q)'
<1>1. /\ IInv /\ q \in Queues /\ x \in Queues
      /\ Round \in Nat /\ Round > 2 /\ Filled \in 0 .. Round /\ Window = 0 .. Filled - 1
      /\ sched_list' = [sched_list EXCEPT ![sched_tail'] = x] /\ sched_tail' \in 0 .. Round - 1
      /\ sched_list \in [0 .. Round - 1 -> Queues]
  BY RingFacts DEF Called
<1>2. sched_tail # -1
  BY <1>1, RingFacts DEF WaitInv
<1>3. run_count(q) \in {0, 1}
  <2>1. Turns(q) \subseteq {sched_tail'}
    <3> SUFFICES ASSUME NEW i \in Turns(q), i # sched_tail' PROVE FALSE
      OBVIOUS
    <3>1. i \in Window /\ i \in 0 .. Round - 1 /\ sched_list[i] = q
      BY <1>1 DEF Turns
    <3>2. Age(i) < Round - 1
      BY <3>1, AgeLemma
    <3> QED
      BY <3>1, <3>2 DEF WaitInv
  <2>2. Turns(q) = {} \/ Turns(q) = {sched_tail'}
    BY <2>1
  <2>3. run_count(q) = Cardinality(Turns(q))
    BY <1>1, CountLemma
  <2>4. CASE Turns(q) = {}
    BY <2>3, <2>4, FS_EmptySet
  <2>5. CASE Turns(q) = {sched_tail'}
    <3>1. Cardinality({sched_tail'}) = 1
      BY FS_Singleton
    <3> QED
      BY <2>3, <2>5, <3>1
  <2> QED
    BY <2>2, <2>4, <2>5
<1>4. PICK p \in Queues \ {q, x} : TRUE
  BY DEF Queues
<1>5. /\ run_count(x) \in Nat
      /\ standard_count[q] \in Nat \ {0} /\ standard_count[x] \in Nat \ {0}
      /\ standard_count[p] \in Nat \ {0}
      /\ standard_count[q] + standard_count[x] + standard_count[p] = Round
  BY <1>1, <1>4, SumLemma
<1>6. run_count(x) <= standard_count[x]
  <2>1. /\ run_count(x) <= run_count(x) * standard_count[q]
        /\ run_count(x) <= standard_count[q] * run_count(x)
    BY <1>5
  <2>2. /\ standard_count[x] * run_count(q) <= standard_count[x]
        /\ run_count(q) * standard_count[x] <= standard_count[x]
    BY <1>3, <1>5
  <2>3. /\ run_count(x) * standard_count[q] \in Int /\ standard_count[q] * run_count(x) \in Int
        /\ standard_count[x] * run_count(q) \in Int /\ run_count(q) * standard_count[x] \in Int
    BY <1>3, <1>5
  <2> QED
    BY <1>2, <1>3, <1>5, <2>1, <2>2, <2>3, PassedOver
<1>7. run_count(x)' <= run_count(x) + 1 /\ run_count(x)' \in Int
  BY <1>1, <1>5, CountStepLemma
<1>8. ASSUME NEW i \in 0 .. Round - 1, Age(i)' <= 0
      PROVE  sched_list'[i] = x
  <2>1. i = sched_tail'
    BY <1>8, AgeLemma, <1>1
  <2> QED
    BY <1>1, <2>1
<1>9. run_count(x)' < Round /\ run_count(x)' < standard_count[x] + 2 * standard_count[q]
  BY <1>5, <1>6, <1>7
<1> QED
  BY <1>1, <1>8, <1>9 DEF Overdue
LEMMA NextWait ==
    ASSUME NEW r, NEW x, Called(r, x), NEW q \in Queues, WaitInv(q)
    PROVE  WaitInv(q)'
<1>1. /\ IInv /\ passed[q] \in Nat /\ x \in Queues
      /\ Round \in Nat /\ Round > 2 /\ Filled \in 0 .. Round /\ Window = 0 .. Filled - 1
      /\ Filled' = IF Filled = Round THEN Round ELSE Filled + 1
      /\ Window' = Window \cup {sched_tail'} /\ sched_tail' \in 0 .. Round - 1
      /\ sched_list \in [0 .. Round - 1 -> Queues]
      /\ sched_list' = [sched_list EXCEPT ![sched_tail'] = x]
  BY RingFacts DEF Called, IInv, TypeOK
<1>2. /\ Window' \subseteq 0 .. Round - 1
      /\ \A i \in 0 .. Round - 1 :
            /\ Age(i) \in Nat
            /\ IF i = sched_tail' THEN Age(i)' = 0 ELSE Age(i)' = Age(i) + 1
  BY <1>1, AgeLemma
<1>3. CASE passed'[q] = 0
  <2>1. ~(passed'[q] >= Round)
    BY <1>1, <1>3
  <2>2. Filled' < Round => passed'[q] <= Filled'
    BY <1>1, <1>3
  <2>3. \A i \in Window' : ~(Age(i)' < passed'[q])
    BY <1>2, <1>3
  <2> QED
    BY <2>1, <2>2, <2>3 DEF WaitInv
<1>4. CASE passed'[q] # 0
  <2>1. q \in r /\ q # x /\ passed'[q] \in {passed[q], passed[q] + 1}
    BY <1>4, HistoryLemma
  <2>2. Filled' < Round => passed'[q] <= Filled'
    BY <1>1, <2>1 DEF WaitInv
  <2>3. ASSUME NEW i \in Window', Age(i)' < passed'[q]
        PROVE  sched_list'[i] # q
    <3>1. CASE i = sched_tail'
      BY <1>1, <2>1, <3>1
    <3>2. CASE i # sched_tail'
      <4>1. i \in Window /\ Age(i) < passed[q]
        BY <1>1, <1>2, <2>1, <2>3, <3>2
      <4>2. sched_list'[i] = sched_list[i]
        BY <1>1, <1>2, <3>2
      <4> QED
        BY <4>1, <4>2 DEF WaitInv
    <3> QED
      BY <3>1, <3>2
  <2>4. ASSUME passed'[q] >= Round
        PROVE  Overdue(q)'
    <3>1. CASE passed[q] >= Round
      BY <2>1, <3>1, NextOverdue
    <3>2. CASE ~(passed[q] >= Round)
      <4>1. passed[q] = Round - 1 /\ passed'[q] = Round
        BY <1>1, <2>1, <2>4, <3>2
      <4> QED
        BY <2>1, <4>1, BecomesOverdue
    <3> QED
      BY <3>1, <3>2
  <2> QED
    BY <2>2, <2>3, <2>4 DEF WaitInv
<1> QED
  BY <1>3, <1>4

LEMMA WaitInvariant == Spec => [](IInv /\ \A q \in Queues : WaitInv(q))
<1> DEFINE Waits == \A q \in Queues : WaitInv(q)
<1>1. Init => IInv /\ Waits
  BY InitCounts, AdvanceLemma DEF WaitInv
<1>2. IInv /\ Waits /\ [Next]_vars => (IInv /\ Waits)'
  <2> SUFFICES ASSUME IInv, Waits, [Next]_vars PROVE IInv' /\ Waits'
    OBVIOUS
  <2>1. CASE Next
    BY <2>1, CallLemma, CalledLemma, NextWait DEF Next
  <2>2. CASE UNCHANGED vars
    <3>1. ASSUME NEW q \in Queues
          PROVE  WaitInv(q)' = WaitInv(q)
      BY <2>2 DEF vars, schedVars, WaitInv, Overdue, Filled, run_count, Window, Age
    <3> QED
      BY <2>2, <3>1, StutterIInv
  <2> QED
    BY <2>1, <2>2
<1> HIDE DEF Waits
<1>3. Spec => [](IInv /\ Waits)
  BY <1>1, <1>2, PTL DEF Spec
<1> QED
  BY <1>3 DEF Waits

\* If no queue has more turns than the one above it, as with the shares of
\* macros.h, a queue that stays ready is passed over at most a round and the
\* difference between the largest and the smallest share in a row, whatever
\* else is ready meanwhile.
THEOREM WaitsAreBounded ==
    ASSUME SCHEDULER_HIGH >= SCHEDULER_MED, SCHEDULER_MED >= SCHEDULER_LOW
    PROVE  Spec => []BoundedWait
<1>1. IInv /\ (\A q \in Queues : WaitInv(q)) => BoundedWait
  <2> SUFFICES ASSUME IInv, NEW q \in Queues, WaitInv(q)
               PROVE  passed[q] <= LongestWait
    BY DEF BoundedWait
  <2>1. Round \in Nat /\ passed[q] \in Nat
    BY RingFacts DEF IInv, TypeOK
  <2>2. /\ SCHEDULER_HIGH \in Nat /\ SCHEDULER_MED \in Nat /\ SCHEDULER_LOW \in Nat
    BY SharesAssumption
  <2>3. \A a, b \in Queues :
           standard_count[a] - standard_count[b] <= SCHEDULER_HIGH - SCHEDULER_LOW
    BY <2>2 DEF standard_count, Queues
  <2>4. passed[q] > Round => \E o \in Queues : passed[q] - Round <= standard_count[o] - standard_count[q]
    BY <2>1 DEF WaitInv, Overdue
  <2>5. \A a \in Queues : standard_count[a] \in Nat
    BY CountLemma
  <2>6. CASE passed[q] > Round
    <3>1. PICK o \in Queues : passed[q] - Round <= standard_count[o] - standard_count[q]
      BY <2>4, <2>6
    <3>2. standard_count[o] - standard_count[q] <= SCHEDULER_HIGH - SCHEDULER_LOW
      BY <2>3
    <3> QED
      BY <2>1, <2>2, <2>5, <3>1, <3>2 DEF LongestWait
  <2>7. CASE ~(passed[q] > Round)
    BY <2>1, <2>2, <2>7 DEF LongestWait
  <2> QED
    BY <2>6, <2>7
<1> QED
  BY <1>1, WaitInvariant, PTL
=============================================================================
