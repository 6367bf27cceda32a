------------------------ MODULE ProcessListTheorems ------------------------
(***************************************************************************)
(* What the list operations of module ProcessList do to lists without      *)
(* duplicates: who is on the list afterwards, and that it still has none.  *)
(***************************************************************************)
EXTENDS ProcessList, SequenceTheorems, WellFoundedInduction, TLAPS

\* A nonempty set of naturals has a least element.
LEMMA LeastOf ==
    ASSUME NEW N \in SUBSET Nat, N # {}
    PROVE  \E n \in N : \A m \in N : n <= m
<1> DEFINE Below == {ss \in Nat \X Nat : ss[1] < ss[2]}
<1>1. OpToRel(<, Nat) = Below
  BY DEF OpToRel
<1>2. IsWellFoundedOn(Below, Nat)
  BY <1>1, NatLessThanWellFounded
<1> HIDE DEF Below
<1>3. PICK n \in N : \A m \in N : <<m, n>> \notin Below
  BY <1>2, WFMin
<1>4. \A m \in N : ~(m < n)
  BY <1>3 DEF Below
<1> QED
  BY <1>4

\* Induction from a to z, for the members of a set.
LEMMA Upwards ==
    ASSUME NEW a \in Nat, NEW z \in Nat, NEW P, a \in P,
           \A i \in a .. z - 1 : i \in P => i + 1 \in P
    PROVE  \A i \in a .. z : i \in P
<1> DEFINE Missing == {i \in a .. z : i \notin P}
<1>1. SUFFICES ASSUME Missing # {} PROVE FALSE
  OBVIOUS
<1>2. PICK m \in Missing : \A i \in Missing : m <= i
  <2>1. Missing \in SUBSET Nat
    OBVIOUS
  <2> QED
    BY <1>1, <2>1, LeastOf
<1>3. m - 1 \in a .. z - 1 /\ m - 1 \notin Missing
  BY <1>2
<1> QED
  BY <1>2, <1>3

\* A list of members of S without duplicates.
IsList(list, S) == list \in Seq(S) /\ IsInjective(list)

\* Being on a list is having a position in it.
LEMMA OnPosition ==
    ASSUME NEW S, NEW list \in Seq(S), NEW p
    PROVE  On(list, p) <=> \E i \in 1 .. Len(list) : list[i] = p
BY RangeEquality DEF On

\* Removing position i closes the gap.
LEMMA RemoveAtProperties ==
    ASSUME NEW S, NEW list \in Seq(S), NEW i \in 1 .. Len(list)
    PROVE  /\ RemoveAt(list, i) \in Seq(S)
           /\ Len(RemoveAt(list, i)) = Len(list) - 1
           /\ \A j \in 1 .. Len(list) - 1 :
                 RemoveAt(list, i)[j] = IF j < i THEN list[j] ELSE list[j + 1]
<1> DEFINE front == SubSeq(list, 1, i - 1)
           back  == SubSeq(list, i + 1, Len(list))
<1>1. Len(list) \in Nat /\ i \in Int
  BY LenProperties
<1>2. \A j \in 1 .. Len(list) : list[j] \in S
  BY ElementOfSeq
<1>3. /\ front \in Seq(S)
      /\ Len(front) = i - 1
      /\ \A j \in 1 .. i - 1 : front[j] = list[j]
  <2>1. \A j \in 1 .. i - 1 : list[j] \in S
    BY <1>1, <1>2
  <2>2. /\ SubSeq(list, 1, i - 1) \in Seq(S)
        /\ Len(SubSeq(list, 1, i - 1)) = IF 1 <= i - 1 THEN (i - 1) - 1 + 1 ELSE 0
        /\ \A j \in 1 .. (i - 1) - 1 + 1 : SubSeq(list, 1, i - 1)[j] = list[1 + j - 1]
    <3>1. 1 \in Int /\ i - 1 \in Int
      BY <1>1
    <3> QED
      BY <2>1, <3>1, SubSeqProperties
  <2> HIDE DEF front
  <2>3. /\ front \in Seq(S)
        /\ Len(front) = IF 1 <= i - 1 THEN (i - 1) - 1 + 1 ELSE 0
        /\ \A j \in 1 .. (i - 1) - 1 + 1 : front[j] = list[1 + j - 1]
    BY <2>2 DEF front
  <2> QED
    BY <2>3, <1>1
<1>4. /\ back \in Seq(S)
      /\ Len(back) = Len(list) - i
      /\ \A j \in 1 .. Len(list) - i : back[j] = list[i + j]
  <2>1. \A j \in i + 1 .. Len(list) : list[j] \in S
    BY <1>1, <1>2
  <2>2. /\ SubSeq(list, i + 1, Len(list)) \in Seq(S)
        /\ Len(SubSeq(list, i + 1, Len(list)))
             = IF i + 1 <= Len(list) THEN Len(list) - (i + 1) + 1 ELSE 0
        /\ \A j \in 1 .. Len(list) - (i + 1) + 1 :
              SubSeq(list, i + 1, Len(list))[j] = list[(i + 1) + j - 1]
    <3>1. i + 1 \in Int /\ Len(list) \in Int
      BY <1>1
    <3> QED
      BY <2>1, <3>1, SubSeqProperties
  <2> HIDE DEF back
  <2>3. /\ back \in Seq(S)
        /\ Len(back) = IF i + 1 <= Len(list) THEN Len(list) - (i + 1) + 1 ELSE 0
        /\ \A j \in 1 .. Len(list) - (i + 1) + 1 : back[j] = list[(i + 1) + j - 1]
    BY <2>2 DEF back
  <2> QED
    BY <2>3, <1>1
<1>5. RemoveAt(list, i) = front \o back
  BY DEF RemoveAt
<1> HIDE DEF front, back
<1>6. /\ front \o back \in Seq(S)
      /\ Len(front \o back) = Len(front) + Len(back)
      /\ \A j \in 1 .. Len(front) + Len(back) :
            (front \o back)[j] = IF j <= Len(front) THEN front[j] ELSE back[j - Len(front)]
  BY <1>3, <1>4, ConcatProperties
<1> QED
  BY <1>1, <1>3, <1>4, <1>5, <1>6

\* Deleting a pid takes that pid off the list and nothing else.
LEMMA DeleteLemma ==
    ASSUME NEW S, NEW list, IsList(list, S), NEW p
    PROVE  /\ IsList(k_delete(list, p), S)
           /\ \A o : On(k_delete(list, p), o) <=> On(list, o) /\ o # p
<1> USE DEF IsList
<1>1. CASE ~On(list, p)
  BY <1>1 DEF k_delete
<1>2. CASE On(list, p)
  <2>1. PICK i \in 1 .. Len(list) : list[i] = p
    BY <1>2, OnPosition
  <2>2. DOMAIN list = 1 .. Len(list) /\ Len(list) \in Nat
    BY LenProperties
  <2>3. \E k \in DOMAIN list : list[k] = p /\ \A j \in 1 .. k - 1 : list[j] # p
    <3>1. \A j \in 1 .. i - 1 : list[j] # p
      BY <2>1, <2>2 DEF IsInjective
    <3> QED
      BY <2>1, <2>2, <3>1
  <2> DEFINE k == FirstNode(list, p)
  <2>4. k \in 1 .. Len(list) /\ list[k] = p
    BY <2>2, <2>3 DEF FirstNode
  <2> HIDE DEF k
  <2> DEFINE short == RemoveAt(list, k)
  <2>5. k_delete(list, p) = short
    BY <1>2 DEF k_delete, k
  <2>6. /\ short \in Seq(S)
        /\ Len(short) = Len(list) - 1
        /\ \A j \in 1 .. Len(list) - 1 :
              short[j] = IF j < k THEN list[j] ELSE list[j + 1]
    BY <2>4, RemoveAtProperties
  <2> HIDE DEF short
  <2>7. DOMAIN short = 1 .. Len(list) - 1
    BY <2>6, LenProperties
  <2>8. IsInjective(short)
    <3>1. ASSUME NEW a \in 1 .. Len(list) - 1, NEW b \in 1 .. Len(list) - 1,
                 short[a] = short[b]
          PROVE  a = b
      <4>1. \A m, n \in 1 .. Len(list) : list[m] = list[n] => m = n
        BY <2>2 DEF IsInjective
      <4>2. /\ short[a] = IF a < k THEN list[a] ELSE list[a + 1]
            /\ short[b] = IF b < k THEN list[b] ELSE list[b + 1]
        BY <2>6
      <4>3. k \in Nat /\ Len(list) \in Nat
        BY <2>2, <2>4
      <4> DEFINE m == IF a < k THEN a ELSE a + 1
                 n == IF b < k THEN b ELSE b + 1
      <4>4. m \in 1 .. Len(list) /\ n \in 1 .. Len(list)
        BY <4>3
      <4>5. list[m] = list[n]
        BY <3>1, <4>2
      <4>6. m = n
        BY <4>1, <4>4, <4>5
      <4> QED
        BY <4>3, <4>6
    <3> QED
      BY <3>1, <2>7 DEF IsInjective
  <2>9. ASSUME NEW o
        PROVE  On(short, o) <=> On(list, o) /\ o # p
    <3>1. ASSUME On(short, o)
          PROVE  On(list, o) /\ o # p
      <4>1. PICK j \in 1 .. Len(short) : short[j] = o
        BY <3>1, <2>6, OnPosition
      <4>2. \E n \in 1 .. Len(list) : n # k /\ list[n] = o
        BY <4>1, <2>2, <2>4, <2>6
      <4> QED
        BY <4>2, <2>2, <2>4, OnPosition DEF IsInjective
    <3>2. ASSUME On(list, o), o # p
          PROVE  On(short, o)
      <4>1. PICK n \in 1 .. Len(list) : list[n] = o
        BY <3>2, OnPosition
      <4>2. n # k
        BY <4>1, <3>2, <2>4
      <4>3. \E j \in 1 .. Len(short) : short[j] = o
        <5>1. CASE n < k
          BY <5>1, <4>1, <2>2, <2>4, <2>6
        <5>2. CASE n > k
          <6>1. n - 1 \in 1 .. Len(list) - 1 /\ ~(n - 1 < k) /\ (n - 1) + 1 = n
            BY <5>2, <4>1, <2>2, <2>4
          <6>2. short[n - 1] = list[n]
            BY <6>1, <2>6
          <6> QED
            BY <6>1, <6>2, <4>1, <2>6
        <5> QED
          BY <5>1, <5>2, <4>2, <4>1, <2>2, <2>4
      <4> QED
        BY <4>3, <2>6, OnPosition
    <3> QED
      BY <3>1, <3>2
  <2> QED
    BY <2>5, <2>6, <2>8, <2>9
<1> QED
  BY <1>1, <1>2

\* Appending a pid that was not on the list puts it there and keeps the rest.
LEMMA AddTailLemma ==
    ASSUME NEW S, NEW list, IsList(list, S), NEW p \in S, ~On(list, p)
    PROVE  /\ IsList(k_add_tail(list, p), S)
           /\ \A o : On(k_add_tail(list, p), o) <=> On(list, o) \/ o = p
<1> USE DEF IsList
<1> DEFINE long == Append(list, p)
<1>1. /\ long \in Seq(S)
      /\ Len(long) = Len(list) + 1
      /\ \A i \in 1 .. Len(list) : long[i] = list[i]
      /\ long[Len(list) + 1] = p
  BY AppendProperties
<1> HIDE DEF long
<1>2. DOMAIN list = 1 .. Len(list) /\ Len(list) \in Nat /\ DOMAIN long = 1 .. Len(list) + 1
  BY <1>1, LenProperties
<1>3. \A i \in 1 .. Len(list) : list[i] # p
  BY OnPosition
<1>4. IsInjective(long)
  BY <1>1, <1>2, <1>3 DEF IsInjective
<1>5. ASSUME NEW o
      PROVE  On(long, o) <=> On(list, o) \/ o = p
  <2>1. On(long, o) <=> \E i \in 1 .. Len(list) + 1 : long[i] = o
    BY <1>1, OnPosition
  <2>2. On(list, o) <=> \E i \in 1 .. Len(list) : list[i] = o
    BY OnPosition
  <2> QED
    BY <2>1, <2>2, <1>1, <1>2
<1> QED
  BY <1>1, <1>4, <1>5 DEF long, k_add_tail

\* So does adding it at the head.
LEMMA AddHeadLemma ==
    ASSUME NEW S, NEW list, IsList(list, S), NEW p \in S, ~On(list, p)
    PROVE  /\ IsList(k_add_head(list, p), S)
           /\ \A o : On(k_add_head(list, p), o) <=> On(list, o) \/ o = p
<1> USE DEF IsList
<1> DEFINE long == <<p>> \o list
<1>0. <<p>> \in Seq(S) /\ Len(<<p>>) = 1 /\ <<p>>[1] = p
  OBVIOUS
<1>1. /\ long \in Seq(S)
      /\ Len(long) = Len(list) + 1
      /\ long[1] = p
      /\ \A i \in 1 .. Len(list) : long[i + 1] = list[i]
  <2>1. /\ <<p>> \o list \in Seq(S)
        /\ Len(<<p>> \o list) = 1 + Len(list)
        /\ \A i \in 1 .. 1 + Len(list) :
              (<<p>> \o list)[i] = IF i <= 1 THEN <<p>>[i] ELSE list[i - 1]
    BY <1>0, ConcatProperties
  <2>2. Len(list) \in Nat
    BY LenProperties
  <2> HIDE DEF long
  <2>3. /\ long \in Seq(S)
        /\ Len(long) = 1 + Len(list)
        /\ \A i \in 1 .. 1 + Len(list) : long[i] = IF i <= 1 THEN <<p>>[i] ELSE list[i - 1]
    BY <2>1 DEF long
  <2> QED
    BY <1>0, <2>2, <2>3
<1> HIDE DEF long
<1>2. DOMAIN list = 1 .. Len(list) /\ Len(list) \in Nat /\ DOMAIN long = 1 .. Len(list) + 1
  BY <1>1, LenProperties
<1>3. \A i \in 1 .. Len(list) : list[i] # p
  BY OnPosition
<1>4. \A i \in 2 .. Len(list) + 1 : i - 1 \in 1 .. Len(list) /\ long[i] = list[i - 1]
  BY <1>1, <1>2
<1>5. IsInjective(long)
  <2>1. ASSUME NEW a \in 1 .. Len(list) + 1, NEW b \in 1 .. Len(list) + 1,
               long[a] = long[b]
        PROVE  a = b
    <3>1. \A m, n \in 1 .. Len(list) : list[m] = list[n] => m = n
      BY <1>2 DEF IsInjective
    <3>2. CASE a = 1 /\ b = 1
      BY <3>2
    <3>3. CASE a = 1 /\ b # 1
      BY <3>3, <2>1, <1>1, <1>2, <1>3, <1>4
    <3>4. CASE a # 1 /\ b = 1
      BY <3>4, <2>1, <1>1, <1>2, <1>3, <1>4
    <3>5. CASE a # 1 /\ b # 1
      <4>1. a \in 2 .. Len(list) + 1 /\ b \in 2 .. Len(list) + 1
        BY <3>5, <1>2
      <4> QED
        BY <4>1, <3>1, <2>1, <1>2, <1>4
    <3> QED
      BY <3>2, <3>3, <3>4, <3>5
  <2> QED
    BY <2>1, <1>2 DEF IsInjective
<1>6. ASSUME NEW o
      PROVE  On(long, o) <=> On(list, o) \/ o = p
  <2>1. On(long, o) <=> \E i \in 1 .. Len(list) + 1 : long[i] = o
    BY <1>1, OnPosition
  <2>2. On(list, o) <=> \E i \in 1 .. Len(list) : list[i] = o
    BY OnPosition
  <2>3. ASSUME NEW i \in 1 .. Len(list), list[i] = o
        PROVE  \E j \in 1 .. Len(list) + 1 : long[j] = o
    BY <2>3, <1>1, <1>2
  <2>4. ASSUME o = p
        PROVE  \E j \in 1 .. Len(list) + 1 : long[j] = o
    BY <2>4, <1>1, <1>2
  <2>5. ASSUME NEW j \in 1 .. Len(list) + 1, long[j] = o
        PROVE  o = p \/ \E i \in 1 .. Len(list) : list[i] = o
    BY <2>5, <1>1, <1>2, <1>4
  <2> QED
    BY <2>1, <2>2, <2>3, <2>4, <2>5
<1> QED
  BY <1>1, <1>5, <1>6 DEF long, k_add_head
-----------------------------------------------------------------------------
\* Six lists of members of S, none with duplicates.
AreLists(lists, S) ==
    /\ lists \in [ListId -> Seq(S)]
    /\ \A l \in ListId : IsInjective(lists[l])

\* Deleting a pid in all lists takes it off all of them and moves nobody else.
LEMMA DeleteInAllLemma ==
    ASSUME NEW S, NEW lists, AreLists(lists, S), NEW p
    PROVE  /\ AreLists(k_delete_in_processlists(lists, p), S)
           /\ \A o : ListsOf(k_delete_in_processlists(lists, p), o)
                      = IF o = p THEN {} ELSE ListsOf(lists, o)
<1> DEFINE shorter == k_delete_in_processlists(lists, p)
<1>1. \A l \in ListId : IsList(lists[l], S)
  BY DEF AreLists, IsList
<1>2. \A l \in ListId : shorter[l] = k_delete(lists[l], p)
  BY DEF k_delete_in_processlists
<1>3. \A l \in ListId : /\ IsList(shorter[l], S)
                        /\ \A o : On(shorter[l], o) <=> On(lists[l], o) /\ o # p
  BY <1>1, <1>2, DeleteLemma
<1>4. shorter = [l \in ListId |-> shorter[l]]
  BY DEF k_delete_in_processlists
<1> HIDE DEF shorter
<1>5. AreLists(shorter, S)
  BY <1>3, <1>4 DEF AreLists, IsList
<1>6. ASSUME NEW o
      PROVE  ListsOf(shorter, o) = IF o = p THEN {} ELSE ListsOf(lists, o)
  BY <1>3 DEF ListsOf
<1> QED
  BY <1>5, <1>6 DEF shorter

\* MoveTo leaves the pid on the target list only and moves nobody else.
LEMMA MoveToLemma ==
    ASSUME NEW S, NEW lists, AreLists(lists, S), NEW p \in S, NEW target \in ListId
    PROVE  /\ AreLists(MoveTo(lists, p, target), S)
           /\ \A o : ListsOf(MoveTo(lists, p, target), o)
                      = IF o = p THEN {target} ELSE ListsOf(lists, o)
<1> DEFINE shorter == k_delete_in_processlists(lists, p)
           moved   == [shorter EXCEPT ![target] = k_add_tail(shorter[target], p)]
<1>1. MoveTo(lists, p, target) = moved
  BY DEF MoveTo, AddTail
<1>2. /\ AreLists(shorter, S)
      /\ \A o : ListsOf(shorter, o) = IF o = p THEN {} ELSE ListsOf(lists, o)
  BY DeleteInAllLemma
<1> HIDE DEF shorter
<1>3. IsList(shorter[target], S) /\ ~On(shorter[target], p)
  BY <1>2 DEF AreLists, IsList, ListsOf
<1>4. /\ IsList(moved[target], S)
      /\ \A o : On(moved[target], o) <=> On(shorter[target], o) \/ o = p
  BY <1>2, <1>3, AddTailLemma DEF AreLists
<1>5. \A l \in ListId \ {target} : moved[l] = shorter[l]
  BY <1>2 DEF AreLists
<1>6. moved = [l \in ListId |-> moved[l]]
  BY <1>2 DEF AreLists
<1> HIDE DEF moved
<1>7. AreLists(moved, S)
  BY <1>2, <1>4, <1>5, <1>6 DEF AreLists, IsList
<1>8. ASSUME NEW o
      PROVE  ListsOf(moved, o) = IF o = p THEN {target} ELSE ListsOf(lists, o)
  <2>1. CASE o = p
    <3>1. \A l \in ListId : On(moved[l], o) <=> l = target
      BY <2>1, <1>2, <1>4, <1>5 DEF ListsOf
    <3> QED
      BY <2>1, <3>1 DEF ListsOf
  <2>2. CASE o # p
    <3>1. \A l \in ListId : On(moved[l], o) <=> On(shorter[l], o)
      BY <2>2, <1>4, <1>5
    <3>2. ListsOf(moved, o) = ListsOf(shorter, o)
      BY <3>1 DEF ListsOf
    <3> QED
      BY <2>2, <3>2, <1>2
  <2> QED
    BY <2>1, <2>2
<1> QED
  BY <1>1, <1>7, <1>8

\* Deleting a pid from one list.
LEMMA DeleteOneLemma ==
    ASSUME NEW S, NEW lists, AreLists(lists, S), NEW p, NEW source \in ListId
    PROVE  /\ AreLists(DeleteFrom(lists, p, source), S)
           /\ \A o : ListsOf(DeleteFrom(lists, p, source), o)
                      = IF o = p THEN ListsOf(lists, o) \ {source} ELSE ListsOf(lists, o)
<1> DEFINE shorter == DeleteFrom(lists, p, source)
<1>1. IsList(lists[source], S)
  BY DEF AreLists, IsList
<1>2. shorter[source] = k_delete(lists[source], p)
  BY DEF AreLists, DeleteFrom
<1>3. /\ IsList(shorter[source], S)
      /\ \A o : On(shorter[source], o) <=> On(lists[source], o) /\ o # p
  BY <1>1, <1>2, DeleteLemma
<1>4. \A l \in ListId \ {source} : shorter[l] = lists[l]
  BY DEF AreLists, DeleteFrom
<1>5. shorter = [l \in ListId |-> shorter[l]]
  BY DEF AreLists, DeleteFrom
<1> HIDE DEF shorter
<1>6. AreLists(shorter, S)
  BY <1>3, <1>4, <1>5 DEF AreLists, IsList
<1>7. ASSUME NEW o
      PROVE  ListsOf(shorter, o) = IF o = p THEN ListsOf(lists, o) \ {source}
                                            ELSE ListsOf(lists, o)
  <2>1. \A l \in ListId : On(shorter[l], o) <=> On(lists[l], o) /\ ~(o = p /\ l = source)
    BY <1>3, <1>4
  <2> QED
    BY <2>1 DEF ListsOf
<1> QED
  BY <1>6, <1>7 DEF shorter

\* Adding a pid at the tail of one list it was not on.
LEMMA AddOneLemma ==
    ASSUME NEW S, NEW lists, AreLists(lists, S), NEW p \in S, NEW target \in ListId,
           target \notin ListsOf(lists, p)
    PROVE  /\ AreLists(AddTail(lists, p, target), S)
           /\ \A o : ListsOf(AddTail(lists, p, target), o)
                      = IF o = p THEN ListsOf(lists, o) \cup {target} ELSE ListsOf(lists, o)
<1> DEFINE longer == AddTail(lists, p, target)
<1>1. IsList(lists[target], S) /\ ~On(lists[target], p)
  BY DEF AreLists, IsList, ListsOf
<1>2. longer[target] = k_add_tail(lists[target], p)
  BY DEF AreLists, AddTail
<1>3. /\ IsList(longer[target], S)
      /\ \A o : On(longer[target], o) <=> On(lists[target], o) \/ o = p
  BY <1>1, <1>2, AddTailLemma
<1>4. \A l \in ListId \ {target} : longer[l] = lists[l]
  BY DEF AreLists, AddTail
<1>5. longer = [l \in ListId |-> longer[l]]
  BY DEF AreLists, AddTail
<1> HIDE DEF longer
<1>6. AreLists(longer, S)
  BY <1>3, <1>4, <1>5 DEF AreLists, IsList
<1>7. ASSUME NEW o
      PROVE  ListsOf(longer, o) = IF o = p THEN ListsOf(lists, o) \cup {target}
                                           ELSE ListsOf(lists, o)
  <2>1. \A l \in ListId : On(longer[l], o) <=> On(lists[l], o) \/ (o = p /\ l = target)
    BY <1>3, <1>4
  <2> QED
    BY <2>1 DEF ListsOf
<1> QED
  BY <1>6, <1>7 DEF longer

\* Adding a pid at the head of one list it was not on.
LEMMA AddOneHeadLemma ==
    ASSUME NEW S, NEW lists, AreLists(lists, S), NEW p \in S, NEW target \in ListId,
           target \notin ListsOf(lists, p)
    PROVE  /\ AreLists(AddHead(lists, p, target), S)
           /\ \A o : ListsOf(AddHead(lists, p, target), o)
                      = IF o = p THEN ListsOf(lists, o) \cup {target} ELSE ListsOf(lists, o)
<1> DEFINE longer == AddHead(lists, p, target)
<1>1. IsList(lists[target], S) /\ ~On(lists[target], p)
  BY DEF AreLists, IsList, ListsOf
<1>2. longer[target] = k_add_head(lists[target], p)
  BY DEF AreLists, AddHead
<1>3. /\ IsList(longer[target], S)
      /\ \A o : On(longer[target], o) <=> On(lists[target], o) \/ o = p
  BY <1>1, <1>2, AddHeadLemma
<1>4. \A l \in ListId \ {target} : longer[l] = lists[l]
  BY DEF AreLists, AddHead
<1>5. longer = [l \in ListId |-> longer[l]]
  BY DEF AreLists, AddHead
<1> HIDE DEF longer
<1>6. AreLists(longer, S)
  BY <1>3, <1>4, <1>5 DEF AreLists, IsList
<1>7. ASSUME NEW o
      PROVE  ListsOf(longer, o) = IF o = p THEN ListsOf(lists, o) \cup {target}
                                           ELSE ListsOf(lists, o)
  <2>1. \A l \in ListId : On(longer[l], o) <=> On(lists[l], o) \/ (o = p /\ l = target)
    BY <1>3, <1>4
  <2> QED
    BY <2>1 DEF ListsOf
<1> QED
  BY <1>6, <1>7 DEF longer

\* Shift takes the pid from the source list to the target list.
LEMMA ShiftLemma ==
    ASSUME NEW S, NEW lists, AreLists(lists, S), NEW p \in S,
           NEW source \in ListId, NEW target \in ListId,
           target \notin ListsOf(lists, p) \ {source}
    PROVE  /\ AreLists(Shift(lists, p, source, target), S)
           /\ \A o : ListsOf(Shift(lists, p, source, target), o)
                      = IF o = p THEN (ListsOf(lists, o) \ {source}) \cup {target}
                                 ELSE ListsOf(lists, o)
<1> DEFINE shorter == DeleteFrom(lists, p, source)
<1>1. /\ AreLists(shorter, S)
      /\ \A o : ListsOf(shorter, o) = IF o = p THEN ListsOf(lists, o) \ {source}
                                               ELSE ListsOf(lists, o)
  BY DeleteOneLemma
<1>2. Shift(lists, p, source, target) = AddTail(shorter, p, target)
  BY DEF Shift
<1> HIDE DEF shorter
<1>3. target \notin ListsOf(shorter, p)
  BY <1>1
<1> QED
  BY <1>1, <1>2, <1>3, AddOneLemma
=============================================================================
