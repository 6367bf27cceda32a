--------------------------- MODULE PennFatProofs ---------------------------
(***************************************************************************)
(* The table of PennFat stays sound, for every number of blocks, block     *)
(* size, set of names and contents.                                        *)
(*                                                                         *)
(* The directory is number 0 and its entries are the numbers from 1 on.    *)
(* Laid says that every number has a chain of the length it should have or *)
(* none, that no two chains meet, and that what is in no chain is free;    *)
(* LaidFree, LaidAlloc and LaidExtend say what remains of it when a chain  *)
(* is freed, taken from the free blocks or made longer.  WriteAllocates    *)
(* says that the write loop takes exactly such a chain.  Good adds that    *)
(* freeBlocks leaves room for the directory to be saved; it is kept by     *)
(* every file operation, and FatInv by every command.                      *)
(***************************************************************************)
EXTENDS PennFat, ProcessListTheorems, FiniteSetTheorems
\* The block count and the marks of the table.
LEMMA SizeFacts ==
    /\ NumEntries \in Nat /\ NumEntries > 2 /\ BlockSize \in Nat \ {0}
    /\ Block = 1 .. NumEntries - 1 /\ Free = 0 /\ End = NumEntries /\ Meta = NumEntries + 1
    /\ Free \notin Block /\ End \notin Block /\ Meta \notin Block
    /\ 1 \in Block /\ Block \subseteq 0 .. NumEntries - 1
BY SizeAssumption DEF Block, Free, End, Meta
-----------------------------------------------------------------------------
(* Chains. *)

\* The block behind a value of the table: a mark has none.
Step(blocks, v) == IF v \in Block THEN blocks[v] ELSE v

\* The blocks along a chain follow each other.
LEMMA NthSteps ==
    ASSUME NEW blocks, NEW b
    PROVE  /\ DOMAIN Nth(blocks, b) = 1 .. NumEntries
           /\ Nth(blocks, b)[1] = b
           /\ \A i \in 1 .. NumEntries - 1 : Nth(blocks, b)[i + 1] = Step(blocks, Nth(blocks, b)[i])
<1> DEFINE Body(f, i) == IF i = 1 THEN b ELSE Step(blocks, f[i - 1])
           Walk(f, m) == f = [i \in 1 .. m |-> Body(f, i)]
           Walkable == {m \in Nat : \E f : Walk(f, m)}
<1>1. NumEntries \in Nat /\ NumEntries > 2
  BY SizeFacts
<1>2. 1 \in Walkable
  <2>1. Walk([i \in 1 .. 1 |-> b], 1)
    OBVIOUS
  <2> QED
    BY <2>1
<1>3. ASSUME NEW m \in 1 .. NumEntries - 1, m \in Walkable
      PROVE  m + 1 \in Walkable
  <2>1. PICK f : Walk(f, m)
    BY <1>3
  <2> DEFINE g == [i \in 1 .. m + 1 |-> IF i = m + 1 THEN Step(blocks, f[m]) ELSE f[i]]
  <2>2. ASSUME NEW i \in 1 .. m + 1
        PROVE  g[i] = Body(g, i)
    <3>1. CASE i = m + 1
      BY <1>1, <3>1
    <3>2. CASE i # m + 1
      <4>1. i \in 1 .. m /\ g[i] = f[i] /\ f[i] = Body(f, i)
        BY <2>1, <3>2
      <4>2. i # 1 => i - 1 \in 1 .. m /\ g[i - 1] = f[i - 1]
        BY <4>1
      <4> QED
        BY <4>1, <4>2
    <3> QED
      BY <3>1, <3>2
  <2>3. Walk(g, m + 1)
    BY <2>2
  <2> HIDE DEF Walk
  <2> QED
    BY <2>3
<1>4. Nth(blocks, b) = CHOOSE f : Walk(f, NumEntries)
  BY Zenon DEF Nth, Step
<1>5. Walk(Nth(blocks, b), NumEntries)
  <2>1. NumEntries \in Walkable
    <3> HIDE DEF Walkable
    <3> QED
      BY <1>1, <1>2, <1>3, Upwards
  <2> HIDE DEF Walk
  <2> QED
    BY <1>4, <2>1
<1> HIDE DEF Walkable
<1> DEFINE n == Nth(blocks, b)
<1>6. n = [i \in 1 .. NumEntries |-> Body(n, i)]
  BY <1>5
<1> HIDE DEF n
<1> QED
  BY <1>1, <1>6 DEF n

\* The chain from b has exactly k blocks and an end.
Sound(blocks, b, k) ==
    /\ k \in 1 .. NumEntries - 1
    /\ \A j \in 1 .. k : Nth(blocks, b)[j] \in Block
    /\ Nth(blocks, b)[k + 1] = End

\* A path from b through the table is its chain.
LEMMA PathIsChain ==
    ASSUME NEW blocks, NEW b, NEW k \in 1 .. NumEntries - 1, NEW c \in [1 .. k -> Block],
           c[1] = b, \A j \in 1 .. k - 1 : blocks[c[j]] = c[j + 1], blocks[c[k]] = End
    PROVE  Sound(blocks, b, k) /\ \A j \in 1 .. k : Nth(blocks, b)[j] = c[j]
<1> DEFINE n == Nth(blocks, b)
           P == {j \in 1 .. k : n[j] = c[j]}
<1>1. n[1] = b /\ \A i \in 1 .. NumEntries - 1 : n[i + 1] = Step(blocks, n[i])
  BY NthSteps
<1>2. NumEntries \in Nat /\ End \notin Block
  BY SizeFacts
<1> HIDE DEF n
<1>3. 1 \in P
  BY <1>1
<1>4. ASSUME NEW j \in 1 .. k - 1, j \in P PROVE j + 1 \in P
  BY <1>1, <1>2, <1>4 DEF Step
<1>5. \A j \in 1 .. k : j \in P
  <2>1. 1 \in Nat /\ k \in Nat
    BY <1>2
  <2>2. \A i \in 1 .. k - 1 : i \in P => i + 1 \in P
    BY <1>4
  <2> HIDE DEF P
  <2> QED
    BY <1>3, <2>1, <2>2, Upwards, Zenon
<1>6. n[k + 1] = End
  BY <1>1, <1>2, <1>5 DEF Step
<1> QED
  BY <1>5, <1>6 DEF Sound, n

\* And its blocks are those of the path.
LEMMA PathIsNth ==
    ASSUME NEW blocks, NEW b, NEW k \in 1 .. NumEntries - 1, NEW c \in [1 .. k -> Block],
           c[1] = b, \A j \in 1 .. k - 1 : blocks[c[j]] = c[j + 1], blocks[c[k]] = End,
           NEW j \in 1 .. k
    PROVE  Nth(blocks, b)[j] = c[j]
BY PathIsChain

\* What is behind the end of a chain, and what its blocks are.
LEMMA SoundFacts ==
    ASSUME NEW blocks, NEW b, NEW k, Sound(blocks, b, k)
    PROVE  /\ b \in Block /\ k \in Nat \ {0} /\ k < NumEntries
           /\ Nth(blocks, b)[1] = b
           /\ \A j \in 1 .. k : Nth(blocks, b)[j] \in Block
           /\ \A j \in 1 .. k - 1 : blocks[Nth(blocks, b)[j]] = Nth(blocks, b)[j + 1]
           /\ blocks[Nth(blocks, b)[k]] = End
           /\ \A j \in k + 1 .. NumEntries : Nth(blocks, b)[j] = End
           /\ Chain(blocks, b) = {Nth(blocks, b)[j] : j \in 1 .. k}
<1> DEFINE n == Nth(blocks, b)
           P == {j \in Nat : n[j] = End}
<1>1. /\ DOMAIN n = 1 .. NumEntries
      /\ n[1] = b /\ \A i \in 1 .. NumEntries - 1 : n[i + 1] = Step(blocks, n[i])
  BY NthSteps
<1>2. NumEntries \in Nat /\ End \notin Block
  BY SizeFacts
<1>3. k \in 1 .. NumEntries - 1 /\ (\A j \in 1 .. k : n[j] \in Block) /\ n[k + 1] = End
  BY DEF Sound
<1>4. Chain(blocks, b) = {n[j] : j \in 1 .. NumEntries} \cap Block
  BY <1>1 DEF Chain, Range
<1> HIDE DEF n
<1>5. k + 1 \in P
  BY <1>2, <1>3
<1>6. ASSUME NEW j \in k + 1 .. NumEntries - 1, j \in P PROVE j + 1 \in P
  BY <1>1, <1>2, <1>3, <1>6 DEF Step
<1>7. \A j \in k + 1 .. NumEntries : j \in P
  <2> HIDE DEF P
  <2> QED
    BY <1>2, <1>3, <1>5, <1>6, Upwards
<1>8. \A j \in 1 .. k : blocks[n[j]] = n[j + 1]
  BY <1>1, <1>2, <1>3 DEF Step
<1>9. {n[j] : j \in 1 .. NumEntries} \cap Block = {n[j] : j \in 1 .. k}
  BY <1>2, <1>3, <1>7
<1> QED
  BY <1>1, <1>2, <1>3, <1>4, <1>7, <1>8, <1>9 DEF n

\* A chain that ends has no block twice.
LEMMA SoundInjective ==
    ASSUME NEW blocks, NEW b, NEW k, Sound(blocks, b, k),
           NEW i \in 1 .. k, NEW j \in 1 .. k, i < j
    PROVE  Nth(blocks, b)[i] # Nth(blocks, b)[j]
<1> DEFINE n == Nth(blocks, b)
           P == {m \in Nat : n[i + m] = n[j + m]}
<1>1. SUFFICES ASSUME n[i] = n[j] PROVE FALSE
  OBVIOUS
<1>2. /\ k \in Nat /\ k < NumEntries /\ NumEntries \in Nat /\ End \notin Block
      /\ \A m \in 1 .. k : n[m] \in Block
      /\ n[k + 1] = End
  BY SoundFacts, SizeFacts DEF Sound
<1>3. \A m \in 1 .. NumEntries - 1 : n[m + 1] = Step(blocks, n[m])
  BY NthSteps
<1> HIDE DEF n
<1>4. 0 \in P
  BY <1>1, <1>2
<1>5. ASSUME NEW m \in 0 .. k - j, m \in P PROVE m + 1 \in P
  <2>1. i + m \in 1 .. NumEntries - 1 /\ j + m \in 1 .. NumEntries - 1
    BY <1>2
  <2>2. n[(i + m) + 1] = n[(j + m) + 1]
    BY <1>3, <1>5, <2>1
  <2> QED
    BY <1>2, <2>2
<1>6. k + 1 - j \in P
  <2>1. k + 1 - j \in Nat /\ (k + 1 - j) - 1 = k - j
    BY <1>2
  <2> HIDE DEF P
  <2> QED
    BY <1>4, <1>5, <2>1, Upwards
<1>7. n[i + (k + 1 - j)] = End
  BY <1>2, <1>6
<1> QED
  BY <1>2, <1>7
-----------------------------------------------------------------------------
(* Blocks and cells. *)

\* Division with remainder.
LEMMA DivFacts ==
    ASSUME NEW n \in Nat
    PROVE  /\ n \div BlockSize \in Nat /\ n % BlockSize \in 0 .. BlockSize - 1
           /\ n = BlockSize * (n \div BlockSize) + (n % BlockSize)
<1>1. n \div BlockSize \in Nat
  BY SizeAssumption
<1>2. n % BlockSize \in 0 .. BlockSize - 1
  BY SizeAssumption
<1>3. n = BlockSize * (n \div BlockSize) + (n % BlockSize)
  BY SizeAssumption
<1> QED
  BY <1>1, <1>2, <1>3

\* Quotient and remainder are unique.
LEMMA DivUnique ==
    ASSUME NEW n \in Nat, NEW q \in Nat, NEW r \in 0 .. BlockSize - 1, n = BlockSize * q + r
    PROVE  n \div BlockSize = q /\ n % BlockSize = r
BY SizeAssumption

\* As many blocks as it takes to hold n cells.
LEMMA BlocksHold ==
    ASSUME NEW n \in Nat
    PROVE  /\ bytesToBlocks(n) \in Nat
           /\ n <= BlockSize * bytesToBlocks(n)
           /\ BlockSize * bytesToBlocks(n) < n + BlockSize
<1> DEFINE k == (n + BlockSize - 1) \div BlockSize
           r == (n + BlockSize - 1) % BlockSize
<1>1. BlockSize \in Nat \ {0}
  BY SizeAssumption
<1>2. n + BlockSize - 1 \in Nat
  BY <1>1
<1>3. k \in Nat /\ r \in 0 .. BlockSize - 1 /\ n + BlockSize - 1 = BlockSize * k + r
  BY <1>2, DivFacts
<1> HIDE DEF k, r
<1>4. BlockSize * k \in Nat
  BY <1>1, <1>3
<1>5. n <= BlockSize * k /\ BlockSize * k < n + BlockSize
  BY <1>1, <1>3, <1>4
<1> QED
  BY <1>3, <1>5 DEF bytesToBlocks, k

\* And it takes no fewer and no more.
LEMMA BlocksUnique ==
    ASSUME NEW n \in Int, NEW k \in Nat, n <= BlockSize * k, BlockSize * k < n + BlockSize
    PROVE  bytesToBlocks(n) = k
<1>1. BlockSize \in Nat \ {0}
  BY SizeAssumption
<1>4. BlockSize * k \in Nat
  BY <1>1
<1> DEFINE r == n + BlockSize - 1 - BlockSize * k
<1>2. r \in 0 .. BlockSize - 1 /\ n + BlockSize - 1 = BlockSize * k + r
  BY <1>1, <1>4
<1>3. n + BlockSize - 1 \in Nat
  BY <1>1, <1>2, <1>4
<1> HIDE DEF r
<1> QED
  BY <1>2, <1>3, DivUnique DEF bytesToBlocks

\* One more cell takes a new block if all blocks are full.
LEMMA BlocksArith ==
    ASSUME NEW n \in Nat
    PROVE  /\ bytesToBlocks(n) = 0 <=> n = 0
           /\ bytesToBlocks(n + 1) = IF n % BlockSize = 0 THEN bytesToBlocks(n) + 1 ELSE bytesToBlocks(n)
           /\ n <= BlockSize /\ n # 0 => bytesToBlocks(n) = 1
<1> DEFINE k == bytesToBlocks(n)
           q == n \div BlockSize
           r == n % BlockSize
<1>1. BlockSize \in Nat \ {0}
  BY SizeAssumption
<1>2. k \in Nat /\ n <= BlockSize * k /\ BlockSize * k < n + BlockSize
  BY BlocksHold
<1>3. q \in Nat /\ r \in 0 .. BlockSize - 1 /\ n = BlockSize * q + r
  BY DivFacts
<1>4. BlockSize * q \in Nat /\ BlockSize * k \in Nat
  BY <1>1, <1>2, <1>3
<1>5. k = 0 => BlockSize * k = 0
  BY <1>1
<1>6. k # 0 => BlockSize * k >= BlockSize
  BY <1>1, <1>2
<1>7. k = 0 <=> n = 0
  <2> HIDE DEF k
  <2> QED
    BY <1>1, <1>2, <1>4, <1>5, <1>6
<1>8. ASSUME r = 0
      PROVE  bytesToBlocks(n + 1) = k + 1
  <2>1. k = q
    <3>0. n <= BlockSize * q /\ BlockSize * q < n + BlockSize
      BY <1>1, <1>3, <1>4, <1>8
    <3> HIDE DEF q
    <3> QED
      BY <1>3, <3>0, BlocksUnique
  <2>2. BlockSize * (q + 1) = BlockSize * q + BlockSize
    BY <1>1, <1>3
  <2>3. bytesToBlocks(n + 1) = q + 1
    <3>0. n + 1 <= BlockSize * (q + 1) /\ BlockSize * (q + 1) < n + 1 + BlockSize /\ q + 1 \in Nat
      BY <1>1, <1>3, <1>4, <1>8, <2>2
    <3> HIDE DEF q
    <3> QED
      BY <3>0, BlocksUnique
  <2> QED
    BY <2>1, <2>3
<1>9. ASSUME r # 0
      PROVE  bytesToBlocks(n + 1) = k
  <2>2. BlockSize * (q + 1) = BlockSize * q + BlockSize
    BY <1>1, <1>3
  <2>1. k = q + 1
    <3>0. n <= BlockSize * (q + 1) /\ BlockSize * (q + 1) < n + BlockSize /\ q + 1 \in Nat
      BY <1>1, <1>3, <1>4, <1>9, <2>2
    <3> HIDE DEF q
    <3> QED
      BY <3>0, BlocksUnique
  <2>3. bytesToBlocks(n + 1) = q + 1
    <3>0. n + 1 <= BlockSize * (q + 1) /\ BlockSize * (q + 1) < n + 1 + BlockSize /\ q + 1 \in Nat
      BY <1>1, <1>3, <1>4, <1>9, <2>2
    <3> HIDE DEF q
    <3> QED
      BY <3>0, BlocksUnique
  <2> QED
    BY <2>1, <2>3
<1>10. n <= BlockSize /\ n # 0 => k = 1
  <2>1. BlockSize * 1 = BlockSize
    BY <1>1
  <2> QED
    BY <1>1, <2>1, BlocksUnique
<1> QED
  BY <1>7, <1>8, <1>9, <1>10

\* What is appended to whole blocks takes blocks of its own; what fits into the
\* last block takes none.
LEMMA BlocksSum ==
    ASSUME NEW n \in Nat, NEW m \in Nat
    PROVE  /\ n % BlockSize = 0 => bytesToBlocks(n + m) = bytesToBlocks(n) + bytesToBlocks(m)
           /\ n % BlockSize # 0 /\ m <= BlockSize - (n % BlockSize) =>
                 /\ bytesToBlocks(n + m) = bytesToBlocks(n)
                 /\ bytesToBlocks(m - (BlockSize - (n % BlockSize))) = 0
<1> DEFINE q == n \div BlockSize
           r == n % BlockSize
           k == bytesToBlocks(m)
<1>1. BlockSize \in Nat \ {0}
  BY SizeAssumption
<1>2. k \in Nat /\ m <= BlockSize * k /\ BlockSize * k < m + BlockSize
  BY BlocksHold
<1>3. q \in Nat /\ r \in 0 .. BlockSize - 1 /\ n = BlockSize * q + r
  BY DivFacts
<1> HIDE DEF q, r, k
<1>4. BlockSize * q \in Nat /\ BlockSize * k \in Nat /\ BlockSize * 0 = 0
  BY <1>1, <1>2, <1>3
<1>5. ASSUME r = 0
      PROVE  bytesToBlocks(n + m) = bytesToBlocks(n) + k
  <2>1. bytesToBlocks(n) = q
    <3>1. n <= BlockSize * q /\ BlockSize * q < n + BlockSize
      BY <1>1, <1>3, <1>4, <1>5
    <3> QED
      BY <1>3, <3>1, BlocksUnique
  <2>2. BlockSize * (q + k) = BlockSize * q + BlockSize * k
    BY <1>1, <1>2, <1>3
  <2>3. bytesToBlocks(n + m) = q + k
    <3>1. /\ n + m <= BlockSize * (q + k) /\ BlockSize * (q + k) < n + m + BlockSize
          /\ q + k \in Nat
      BY <1>1, <1>2, <1>3, <1>4, <1>5, <2>2
    <3> QED
      BY <3>1, BlocksUnique
  <2> QED
    BY <2>1, <2>3
<1>6. ASSUME r # 0, m <= BlockSize - r
      PROVE  bytesToBlocks(n + m) = bytesToBlocks(n) /\ bytesToBlocks(m - (BlockSize - r)) = 0
  <2>1. BlockSize * (q + 1) = BlockSize * q + BlockSize
    BY <1>1, <1>3
  <2>2. bytesToBlocks(n) = q + 1
    <3>1. n <= BlockSize * (q + 1) /\ BlockSize * (q + 1) < n + BlockSize /\ q + 1 \in Nat
      BY <1>1, <1>3, <1>4, <1>6, <2>1
    <3> QED
      BY <3>1, BlocksUnique
  <2>3. bytesToBlocks(n + m) = q + 1
    <3>1. n + m <= BlockSize * (q + 1) /\ BlockSize * (q + 1) < n + m + BlockSize /\ q + 1 \in Nat
      BY <1>1, <1>3, <1>4, <1>6, <2>1
    <3> QED
      BY <3>1, BlocksUnique
  <2>4. bytesToBlocks(m - (BlockSize - r)) = 0
    <3>1. /\ m - (BlockSize - r) \in Int /\ m - (BlockSize - r) <= BlockSize * 0
          /\ BlockSize * 0 < m - (BlockSize - r) + BlockSize
      BY <1>1, <1>3, <1>4, <1>6
    <3> QED
      BY <3>1, BlocksUnique
  <2> QED
    BY <2>2, <2>3, <2>4
<1> QED
  BY <1>5, <1>6 DEF r, k

\* Nothing is read along a chain that begins at 0.
LEMMA NoChain ==
    ASSUME NEW blocks
    PROVE  Chain(blocks, 0) = {}
<1> DEFINE n == Nth(blocks, 0)
           P == {j \in Nat : n[j] = 0}
<1>1. /\ DOMAIN n = 1 .. NumEntries
      /\ n[1] = 0 /\ \A i \in 1 .. NumEntries - 1 : n[i + 1] = Step(blocks, n[i])
  BY NthSteps
<1>2. NumEntries \in Nat /\ NumEntries > 2 /\ 0 \notin Block
  BY SizeFacts
<1> HIDE DEF n
<1>3. 1 \in P
  BY <1>1
<1>4. ASSUME NEW j \in 1 .. NumEntries - 1, j \in P PROVE j + 1 \in P
  BY <1>1, <1>2, <1>4 DEF Step
<1>5. \A j \in 1 .. NumEntries : j \in P
  <2> HIDE DEF P
  <2> QED
    BY <1>2, <1>3, <1>4, Upwards
<1> QED
  BY <1>1, <1>2, <1>5 DEF Chain, Range, n

\* A chain of k blocks has k blocks.
LEMMA SoundCard ==
    ASSUME NEW blocks, NEW b, NEW k, Sound(blocks, b, k)
    PROVE  /\ IsFiniteSet(Chain(blocks, b)) /\ Cardinality(Chain(blocks, b)) = k
           /\ Chain(blocks, b) \subseteq Block
           /\ b \in Chain(blocks, b)
<1> DEFINE n == Nth(blocks, b)
           g == [j \in 1 .. k |-> n[j]]
           C == Chain(blocks, b)
<1>1. k \in Nat \ {0} /\ C = {n[j] : j \in 1 .. k} /\ n[1] = b /\ C \subseteq Block
  BY SoundFacts
<1>2. ASSUME NEW i \in 1 .. k, NEW j \in 1 .. k, g[i] = g[j]
      PROVE  i = j
  <2>1. i < j \/ j < i \/ i = j
    BY <1>1
  <2>2. ~(i < j)
    BY <1>2, SoundInjective
  <2>3. ~(j < i)
    BY <1>2, SoundInjective
  <2> QED
    BY <2>1, <2>2, <2>3
<1>3. g \in [1 .. k -> C]
  BY <1>1
<1>3a. \A c \in C : \E j \in 1 .. k : g[j] = c
  BY <1>1
<1>4. g \in Bijection(1 .. k, C)
  <2> HIDE DEF g, C
  <2> QED
    BY <1>2, <1>3, <1>3a DEF Bijection, Injection, Surjection, IsInjective
<1>5. ExistsBijection(1 .. k, C)
  BY <1>4 DEF ExistsBijection
<1> HIDE DEF g, C
<1>6. IsFiniteSet(1 .. k) /\ Cardinality(1 .. k) = k
  BY <1>1, FS_Interval
<1>7. IsFiniteSet(C) /\ Cardinality(C) = k
  BY <1>5, <1>6, FS_Bijection
<1>8. b \in C
  BY <1>1
<1> QED
  BY <1>1, <1>7, <1>8 DEF C

\* Every block of a chain has a successor or the end mark.
LEMMA SoundNotFree ==
    ASSUME NEW blocks, NEW b, NEW k, Sound(blocks, b, k), NEW c \in Chain(blocks, b)
    PROVE  c \in Block /\ blocks[c] \in Block \cup {End} /\ blocks[c] # Free
<1> DEFINE n == Nth(blocks, b)
<1>1. /\ k \in Nat \ {0} /\ Chain(blocks, b) = {n[j] : j \in 1 .. k}
      /\ \A j \in 1 .. k : n[j] \in Block
      /\ \A j \in 1 .. k - 1 : blocks[n[j]] = n[j + 1]
      /\ blocks[n[k]] = End
  BY SoundFacts
<1> HIDE DEF n
<1>2. PICK j \in 1 .. k : c = n[j]
  BY <1>1
<1>3. CASE j = k
  BY <1>1, <1>2, <1>3, SizeFacts
<1>4. CASE j # k
  BY <1>1, <1>2, <1>4, SizeFacts
<1> QED
  BY <1>3, <1>4

\* A table that agrees on the blocks of a chain has the same chain.
LEMMA SameChain ==
    ASSUME NEW blocks, NEW other, NEW b, NEW k, Sound(blocks, b, k),
           \A c \in Chain(blocks, b) : other[c] = blocks[c]
    PROVE  /\ Sound(other, b, k) /\ Chain(other, b) = Chain(blocks, b)
           /\ \A j \in 1 .. k : Nth(other, b)[j] = Nth(blocks, b)[j]
<1> DEFINE n == Nth(blocks, b)
           c == [j \in 1 .. k |-> n[j]]
<1>1. /\ k \in Nat \ {0} /\ k < NumEntries /\ Chain(blocks, b) = {n[j] : j \in 1 .. k}
      /\ n[1] = b
      /\ \A j \in 1 .. k : n[j] \in Block
      /\ \A j \in 1 .. k - 1 : blocks[n[j]] = n[j + 1]
      /\ blocks[n[k]] = End
  BY SoundFacts
<1> HIDE DEF n
<1>2. \A j \in 1 .. k : other[n[j]] = blocks[n[j]]
  BY <1>1
<1>3. /\ k \in 1 .. NumEntries - 1 /\ c \in [1 .. k -> Block] /\ c[1] = b
      /\ \A j \in 1 .. k - 1 : other[c[j]] = c[j + 1]
      /\ other[c[k]] = End
  BY <1>1, <1>2, SizeFacts
<1>4. \A j \in 1 .. k : c[j] = n[j]
  OBVIOUS
<1> HIDE DEF c
<1>5. Sound(other, b, k) /\ \A j \in 1 .. k : Nth(other, b)[j] = c[j]
  BY <1>3, PathIsChain
<1>6. Chain(other, b) = {Nth(other, b)[j] : j \in 1 .. k}
  BY <1>5, SoundFacts
<1> QED
  BY <1>1, <1>4, <1>5, <1>6 DEF n

\* The same blocks in the same order.
LEMMA SameNth ==
    ASSUME NEW blocks, NEW other, NEW b, NEW k, Sound(blocks, b, k),
           \A c \in Chain(blocks, b) : other[c] = blocks[c], NEW j \in 1 .. k
    PROVE  Nth(other, b)[j] = Nth(blocks, b)[j]
<1> DEFINE n == Nth(blocks, b)
           c == [i \in 1 .. k |-> n[i]]
<1>1. /\ k \in Nat \ {0} /\ k < NumEntries /\ Chain(blocks, b) = {n[i] : i \in 1 .. k}
      /\ n[1] = b
      /\ \A i \in 1 .. k : n[i] \in Block
      /\ \A i \in 1 .. k - 1 : blocks[n[i]] = n[i + 1]
      /\ blocks[n[k]] = End
  BY SoundFacts
<1> HIDE DEF n
<1>2. \A i \in 1 .. k : other[n[i]] = blocks[n[i]]
  BY <1>1
<1>3. /\ k \in 1 .. NumEntries - 1 /\ c \in [1 .. k -> Block] /\ c[1] = b
      /\ \A i \in 1 .. k - 1 : other[c[i]] = c[i + 1]
      /\ other[c[k]] = End
  BY <1>1, <1>2, SizeFacts
<1>4. c[j] = n[j]
  OBVIOUS
<1> HIDE DEF c
<1>5. Nth(other, b)[j] = c[j]
  BY <1>3, PathIsNth
<1> QED
  BY <1>4, <1>5 DEF n

\* The last block of a chain is the one that is marked.
LEMMA LastBlockLemma ==
    ASSUME NEW blocks, NEW b, NEW k, Sound(blocks, b, k)
    PROVE  LastBlock(blocks, b) = Nth(blocks, b)[k]
<1> DEFINE n == Nth(blocks, b)
<1>1. /\ k \in Nat \ {0} /\ k < NumEntries
      /\ \A j \in 1 .. k : n[j] \in Block
      /\ \A j \in 1 .. k - 1 : blocks[n[j]] = n[j + 1]
      /\ blocks[n[k]] = End
      /\ \A j \in k + 1 .. NumEntries : n[j] = End
  BY SoundFacts
<1>2. DOMAIN n = 1 .. NumEntries
  BY NthSteps
<1>3. LastBlock(blocks, b) = n[CHOOSE i \in DOMAIN n : n[i] \in Block /\ blocks[n[i]] = End]
  BY DEF LastBlock
<1> HIDE DEF n
<1>4. \A i \in DOMAIN n : n[i] \in Block /\ blocks[n[i]] = End <=> i = k
  <2> SUFFICES ASSUME NEW i \in 1 .. NumEntries
               PROVE  n[i] \in Block /\ blocks[n[i]] = End <=> i = k
    BY <1>2
  <2>1. NumEntries \in Nat /\ End \notin Block
    BY SizeFacts
  <2>2. CASE i < k
    BY <1>1, <2>1, <2>2
  <2>3. CASE i >= k
    BY <1>1, <2>1, <2>3
  <2> QED
    BY <1>1, <2>1, <2>2, <2>3
<1>5. k \in DOMAIN n
  BY <1>1, <1>2, SizeFacts
<1>6. (CHOOSE i \in DOMAIN n : n[i] \in Block /\ blocks[n[i]] = End) = k
  BY <1>4, <1>5
<1> QED
  BY <1>3, <1>6 DEF n
-----------------------------------------------------------------------------
(* Who owns which blocks. *)

Table == [0 .. NumEntries - 1 -> 0 .. Meta]
FreeOf(blocks) == {b \in Block : blocks[b] = Free}

\* The free blocks are finitely many.
LEMMA FreeFinite ==
    ASSUME NEW blocks
    PROVE  /\ IsFiniteSet(FreeOf(blocks)) /\ Cardinality(FreeOf(blocks)) \in Nat
           /\ Cardinality(FreeOf(blocks)) <= NumEntries - 1
<1>1. NumEntries \in Nat /\ NumEntries > 2 /\ Block = 1 .. NumEntries - 1
  BY SizeFacts
<1>2. IsFiniteSet(1 .. NumEntries - 1) /\ Cardinality(1 .. NumEntries - 1) = NumEntries - 1
  <2>1. 1 \in Int /\ NumEntries - 1 \in Int /\ ~(1 > NumEntries - 1)
        /\ NumEntries - 1 - 1 + 1 = NumEntries - 1
    BY <1>1
  <2> HIDE DEF Block
  <2> QED
    BY <2>1, FS_Interval
<1>3. FreeOf(blocks) \in SUBSET (1 .. NumEntries - 1)
  BY <1>1 DEF FreeOf
<1> QED
  BY <1>2, <1>3, FS_Subset, FS_CardinalityType

\* What has k[i] blocks begins at head[i], or at 0 if it has none; no block
\* belongs to two, and a block that is not free belongs to one.
Laid(blocks, I, head, k) ==
    /\ blocks \in Table
    /\ head \in [I -> 0 .. NumEntries - 1] /\ k \in [I -> Nat]
    /\ \A i \in I : IF k[i] = 0 THEN head[i] = 0 ELSE Sound(blocks, head[i], k[i])
    /\ \A i, j \in I : i # j => Chain(blocks, head[i]) \cap Chain(blocks, head[j]) = {}
    /\ \A b \in Block \ FreeOf(blocks) : \E i \in I : b \in Chain(blocks, head[i])

\* The blocks of one: finitely many, not free.
LEMMA OwnedFacts ==
    ASSUME NEW blocks, NEW I, NEW head, NEW k, Laid(blocks, I, head, k), NEW i \in I
    PROVE  /\ Chain(blocks, head[i]) \subseteq Block \ FreeOf(blocks)
           /\ IsFiniteSet(Chain(blocks, head[i]))
           /\ Cardinality(Chain(blocks, head[i])) = k[i]
           /\ k[i] = 0 => Chain(blocks, head[i]) = {}
<1>1. CASE k[i] = 0
  <2>1. Chain(blocks, head[i]) = {}
    BY <1>1, NoChain DEF Laid
  <2> QED
    BY <1>1, <2>1, FS_EmptySet
<1>2. CASE k[i] # 0
  <2>1. Sound(blocks, head[i], k[i])
    BY <1>2 DEF Laid
  <2>2. \A b \in Chain(blocks, head[i]) : b \in Block /\ blocks[b] # Free
    BY <2>1, SoundNotFree
  <2> QED
    BY <1>2, <2>1, <2>2, SoundCard DEF FreeOf
<1> QED
  BY <1>1, <1>2

\* What happens to the blocks of i alone leaves the chains of the others.
LEMMA OthersStay ==
    ASSUME NEW blocks, NEW I, NEW head, NEW k, Laid(blocks, I, head, k), NEW i \in I,
           NEW other,
           \A b \in Block \ (FreeOf(blocks) \cup Chain(blocks, head[i])) : other[b] = blocks[b]
    PROVE  \A j \in I \ {i} :
              /\ Chain(other, head[j]) = Chain(blocks, head[j])
              /\ k[j] # 0 => Sound(other, head[j], k[j])
              /\ k[j] = 0 => head[j] = 0
<1> SUFFICES ASSUME NEW j \in I \ {i}
             PROVE  /\ Chain(other, head[j]) = Chain(blocks, head[j])
                    /\ k[j] # 0 => Sound(other, head[j], k[j])
                    /\ k[j] = 0 => head[j] = 0
  OBVIOUS
<1>1. CASE k[j] = 0
  BY <1>1, NoChain DEF Laid
<1>2. CASE k[j] # 0
  <2>1. Sound(blocks, head[j], k[j])
    BY <1>2 DEF Laid
  <2>2. \A c \in Chain(blocks, head[j]) : other[c] = blocks[c]
    <3>1. Chain(blocks, head[j]) \cap Chain(blocks, head[i]) = {}
      BY DEF Laid
    <3>2. Chain(blocks, head[j]) \subseteq Block \ FreeOf(blocks)
      BY OwnedFacts
    <3> QED
      BY <3>1, <3>2
  <2> QED
    BY <1>2, <2>1, <2>2, SameChain
<1> QED
  BY <1>1, <1>2

\* Freeing the chain of one.
LEMMA LaidFree ==
    ASSUME NEW blocks, NEW I, NEW head, NEW k, Laid(blocks, I, head, k), NEW i \in I
    PROVE  LET other == FreeChain(blocks, head[i]) IN
           /\ Laid(other, I, [head EXCEPT ![i] = 0], [k EXCEPT ![i] = 0])
           /\ other[0] = blocks[0]
           /\ FreeOf(other) = FreeOf(blocks) \cup Chain(blocks, head[i])
           /\ Cardinality(FreeOf(other)) = Cardinality(FreeOf(blocks)) + k[i]
<1> DEFINE other == FreeChain(blocks, head[i])
           C == Chain(blocks, head[i])
           newHead == [head EXCEPT ![i] = 0]
           newK == [k EXCEPT ![i] = 0]
<1>1. /\ blocks \in Table /\ head \in [I -> 0 .. NumEntries - 1] /\ k \in [I -> Nat]
      /\ \A a \in I : IF k[a] = 0 THEN head[a] = 0 ELSE Sound(blocks, head[a], k[a])
      /\ \A a, b \in I : a # b => Chain(blocks, head[a]) \cap Chain(blocks, head[b]) = {}
      /\ \A b \in Block \ FreeOf(blocks) : \E a \in I : b \in Chain(blocks, head[a])
  BY DEF Laid
<1>2. /\ NumEntries \in Nat /\ NumEntries > 2 /\ Block = 1 .. NumEntries - 1 /\ 0 \notin Block
      /\ Block \subseteq 0 .. NumEntries - 1
      /\ Free = 0 /\ Meta = NumEntries + 1
  BY SizeFacts
<1>3. C \subseteq Block \ FreeOf(blocks) /\ IsFiniteSet(C) /\ Cardinality(C) = k[i]
  BY OwnedFacts
<1> HIDE DEF C
<1>4. other = [c \in 0 .. NumEntries - 1 |-> IF c \in C THEN Free ELSE blocks[c]]
  BY <1>1 DEF FreeChain, Table, C
<1> HIDE DEF other
<1>5. other \in Table /\ other[0] = blocks[0]
  BY <1>1, <1>2, <1>3, <1>4 DEF Table
<1>6. FreeOf(other) = FreeOf(blocks) \cup C
  BY <1>2, <1>3, <1>4 DEF FreeOf
<1>7. \A j \in I \ {i} : /\ Chain(other, head[j]) = Chain(blocks, head[j])
                         /\ k[j] # 0 => Sound(other, head[j], k[j])
                         /\ k[j] = 0 => head[j] = 0
  <2>1. \A b \in Block \ (FreeOf(blocks) \cup C) : other[b] = blocks[b]
    BY <1>2, <1>4
  <2> QED
    BY <2>1, OthersStay DEF C
<1>8. /\ newHead \in [I -> 0 .. NumEntries - 1] /\ newK \in [I -> Nat]
      /\ newHead[i] = 0 /\ newK[i] = 0
      /\ \A j \in I \ {i} : newHead[j] = head[j] /\ newK[j] = k[j]
  BY <1>1, <1>2
<1> HIDE DEF newHead, newK
<1>9. Chain(other, newHead[i]) = {}
  BY <1>8, NoChain
<1>10. \A j \in I \ {i} : Chain(other, newHead[j]) = Chain(blocks, head[j])
  BY <1>7, <1>8
<1>11. \A a \in I : IF newK[a] = 0 THEN newHead[a] = 0 ELSE Sound(other, newHead[a], newK[a])
  BY <1>7, <1>8
<1>12. \A a, b \in I : a # b => Chain(other, newHead[a]) \cap Chain(other, newHead[b]) = {}
  BY <1>1, <1>9, <1>10
<1>13. \A b \in Block \ FreeOf(other) : \E a \in I : b \in Chain(other, newHead[a])
  <2> SUFFICES ASSUME NEW b \in Block \ FreeOf(other)
               PROVE  \E a \in I : b \in Chain(other, newHead[a])
    OBVIOUS
  <2>1. PICK a \in I : b \in Chain(blocks, head[a])
    BY <1>1, <1>6
  <2>2. a # i
    BY <1>6, <2>1 DEF C
  <2> QED
    BY <1>10, <2>1, <2>2
<1>14. Cardinality(FreeOf(other)) = Cardinality(FreeOf(blocks)) + k[i]
  <2>1. FreeOf(blocks) \cap C = {} /\ k[i] \in Nat
    BY <1>1, <1>3
  <2>2. IsFiniteSet(FreeOf(blocks)) /\ Cardinality(FreeOf(blocks)) \in Nat
    BY FreeFinite
  <2>3. Cardinality(FreeOf(blocks) \cup C)
          = Cardinality(FreeOf(blocks)) + Cardinality(C) - Cardinality(FreeOf(blocks) \cap C)
    BY <1>3, <2>2, FS_Union
  <2> QED
    BY <1>3, <1>6, <2>1, <2>2, <2>3, FS_EmptySet
<1>15. Laid(other, I, newHead, newK)
  BY <1>5, <1>8, <1>11, <1>12, <1>13 DEF Laid
<1> QED
  BY <1>5, <1>6, <1>14, <1>15 DEF other, C, newHead, newK

\* new is old, but for the m free blocks c[1] < ... < c[m], which are a chain.
Linked(old, new, c, m) ==
    /\ old \in Table /\ new \in Table /\ new[0] = old[0]
    /\ m \in Nat \ {0} /\ c \in [1 .. m -> FreeOf(old)]
    /\ \A i, j \in 1 .. m : i < j => c[i] < c[j]
    /\ \A j \in 1 .. m - 1 : new[c[j]] = c[j + 1]
    /\ new[c[m]] = End
    /\ \A b \in Block : b \notin {c[j] : j \in 1 .. m} => new[b] = old[b]

\* The blocks that are taken become a chain and are the only ones taken.
LEMMA LinkedFacts ==
    ASSUME NEW old, NEW new, NEW c, NEW m, Linked(old, new, c, m)
    PROVE  /\ Sound(new, c[1], m)
           /\ Chain(new, c[1]) = {c[j] : j \in 1 .. m}
           /\ Chain(new, c[1]) \subseteq FreeOf(old)
           /\ FreeOf(new) = FreeOf(old) \ Chain(new, c[1])
           /\ Cardinality(FreeOf(new)) = Cardinality(FreeOf(old)) - m
<1> DEFINE C == {c[j] : j \in 1 .. m}
<1>1. /\ old \in Table /\ new \in Table /\ m \in Nat \ {0} /\ c \in [1 .. m -> FreeOf(old)]
      /\ \A i, j \in 1 .. m : i < j => c[i] < c[j]
      /\ \A j \in 1 .. m - 1 : new[c[j]] = c[j + 1]
      /\ new[c[m]] = End
      /\ \A b \in Block : b \notin C => new[b] = old[b]
  BY DEF Linked
<1>2. /\ NumEntries \in Nat /\ NumEntries > 2 /\ Block = 1 .. NumEntries - 1
      /\ Free \notin Block /\ End \notin Block /\ End # Free
  BY SizeFacts
<1>3. /\ IsFiniteSet(FreeOf(old)) /\ Cardinality(FreeOf(old)) \in Nat
      /\ Cardinality(FreeOf(old)) <= NumEntries - 1
  BY FreeFinite
<1>4. FreeOf(old) \subseteq Block
  BY DEF FreeOf
<1>5. m <= NumEntries - 1
  <2>1. c \in Injection(1 .. m, FreeOf(old))
    <3>1. ASSUME NEW i \in 1 .. m, NEW j \in 1 .. m, c[i] = c[j] PROVE i = j
      <4>1. c[i] \in Int /\ c[j] \in Int
        BY <1>1, <1>2, <1>4
      <4> QED
        BY <1>1, <3>1, <4>1
    <3> QED
      BY <1>1, <3>1 DEF Injection, IsInjective
  <2>2. Cardinality(1 .. m) <= Cardinality(FreeOf(old))
    BY <1>3, <2>1, FS_Injection
  <2>3. Cardinality(1 .. m) = m
    BY <1>1, FS_Interval
  <2> QED
    BY <1>1, <1>2, <1>3, <2>2, <2>3
<1>6. m \in 1 .. NumEntries - 1 /\ c \in [1 .. m -> Block]
  BY <1>1, <1>2, <1>4, <1>5
<1>7. Sound(new, c[1], m) /\ \A j \in 1 .. m : Nth(new, c[1])[j] = c[j]
  <2>1. (\A j \in 1 .. m - 1 : new[c[j]] = c[j + 1]) /\ new[c[m]] = End
    BY <1>1
  <2>2. c[1] = c[1]
    OBVIOUS
  <2> HIDE DEF C
  <2> QED
    BY <1>6, <2>1, <2>2, PathIsChain
<1>8. Chain(new, c[1]) = C
  <2>1. Chain(new, c[1]) = {Nth(new, c[1])[j] : j \in 1 .. m}
    BY <1>7, SoundFacts
  <2> QED
    BY <1>7, <2>1
<1>9. C \subseteq FreeOf(old)
  BY <1>1
<1> HIDE DEF C
<1>10. \A b \in C : new[b] # Free
  <2>1. \A b \in Chain(new, c[1]) : new[b] # Free
    BY <1>7, SoundNotFree
  <2> QED
    BY <1>8, <2>1
<1>11. FreeOf(new) = FreeOf(old) \ C
  BY <1>1, <1>10 DEF FreeOf
<1>12. Cardinality(C) = m
  BY <1>7, <1>8, SoundCard
<1>13. Cardinality(FreeOf(new)) = Cardinality(FreeOf(old)) - m
  <2>1. FreeOf(old) \cap C = C
    BY <1>9
  <2>2. Cardinality(FreeOf(old) \ C) = Cardinality(FreeOf(old)) - Cardinality(FreeOf(old) \cap C)
    BY <1>3, FS_Difference
  <2> QED
    BY <1>11, <1>12, <2>1, <2>2
<1> QED
  BY <1>7, <1>8, <1>9, <1>11, <1>13 DEF C

\* The blocks of the chain from b are those of c.
Follows(blocks, b, c, k) == \A j \in 1 .. k : Nth(blocks, b)[j] = c[j]

\* A path from b through the table is what follows b.
LEMMA PathFollows ==
    ASSUME NEW blocks, NEW b, NEW k \in 1 .. NumEntries - 1, NEW c \in [1 .. k -> Block],
           c[1] = b, \A j \in 1 .. k - 1 : blocks[c[j]] = c[j + 1], blocks[c[k]] = End
    PROVE  Follows(blocks, b, c, k)
<1> SUFFICES ASSUME NEW j \in 1 .. k PROVE Nth(blocks, b)[j] = c[j]
  BY DEF Follows
<1> QED
  BY PathIsNth

\* The chain has the blocks in the order in which they were taken.
LEMMA LinkedFollows ==
    ASSUME NEW old, NEW new, NEW c, NEW m, Linked(old, new, c, m)
    PROVE  Sound(new, c[1], m) /\ Follows(new, c[1], c, m)
<1>1. /\ m \in Nat \ {0} /\ c \in [1 .. m -> FreeOf(old)]
      /\ \A j \in 1 .. m - 1 : new[c[j]] = c[j + 1]
      /\ new[c[m]] = End
  BY DEF Linked
<1>2. Sound(new, c[1], m)
  BY LinkedFacts
<1>3. m \in 1 .. NumEntries - 1 /\ c \in [1 .. m -> Block]
  BY <1>1, <1>2 DEF Sound, FreeOf
<1> DEFINE b == c[1]
<1>4. c[1] = b
  OBVIOUS
<1> HIDE DEF b
<1>6. /\ m \in 1 .. NumEntries - 1 /\ c \in [1 .. m -> Block] /\ c[1] = b
      /\ \A j \in 1 .. m - 1 : new[c[j]] = c[j + 1]
      /\ new[c[m]] = End
  BY <1>1, <1>3, <1>4
<1>5. \A j \in 1 .. m : Nth(new, b)[j] = c[j]
  BY <1>6, PathIsNth
<1> QED
  BY <1>2, <1>5 DEF b, Follows

\* Free blocks go to one that had none.
LEMMA LaidAlloc ==
    ASSUME NEW blocks, NEW I, NEW head, NEW k, Laid(blocks, I, head, k),
           NEW i \in I, k[i] = 0, NEW new, NEW c, NEW m, Linked(blocks, new, c, m)
    PROVE  Laid(new, I, [head EXCEPT ![i] = c[1]], [k EXCEPT ![i] = m])
<1> DEFINE newHead == [head EXCEPT ![i] = c[1]]
           newK == [k EXCEPT ![i] = m]
           C == Chain(new, c[1])
<1>1. /\ blocks \in Table /\ head \in [I -> 0 .. NumEntries - 1] /\ k \in [I -> Nat]
      /\ \A a, b \in I : a # b => Chain(blocks, head[a]) \cap Chain(blocks, head[b]) = {}
      /\ \A b \in Block \ FreeOf(blocks) : \E a \in I : b \in Chain(blocks, head[a])
  BY DEF Laid
<1>2. /\ new \in Table /\ m \in Nat \ {0}
      /\ Sound(new, c[1], m)
      /\ C \subseteq FreeOf(blocks)
      /\ FreeOf(new) = FreeOf(blocks) \ C
  <2>1. new \in Table /\ m \in Nat \ {0}
    BY DEF Linked
  <2> QED
    BY <2>1, LinkedFacts
<1>3. C = {c[j] : j \in 1 .. m}
  BY LinkedFacts
<1>4. \A b \in Block : b \notin C => new[b] = blocks[b]
  BY <1>3 DEF Linked
<1> HIDE DEF C
<1>5. Chain(blocks, head[i]) = {}
  BY OwnedFacts
<1>6. \A j \in I \ {i} : /\ Chain(new, head[j]) = Chain(blocks, head[j])
                         /\ k[j] # 0 => Sound(new, head[j], k[j])
                         /\ k[j] = 0 => head[j] = 0
  <2>1. \A b \in Block \ (FreeOf(blocks) \cup Chain(blocks, head[i])) : new[b] = blocks[b]
    BY <1>2, <1>4
  <2> QED
    BY <2>1, OthersStay
<1>7. c[1] \in 0 .. NumEntries - 1
  <2>1. c[1] \in Block
    BY <1>2, SoundFacts
  <2> QED
    BY <2>1, SizeFacts
<1>8. /\ newHead \in [I -> 0 .. NumEntries - 1] /\ newK \in [I -> Nat]
      /\ newHead[i] = c[1] /\ newK[i] = m
      /\ \A j \in I \ {i} : newHead[j] = head[j] /\ newK[j] = k[j]
  BY <1>1, <1>2, <1>7
<1> HIDE DEF newHead, newK
<1>9. Chain(new, newHead[i]) = C
  BY <1>8 DEF C
<1>10. \A j \in I \ {i} : /\ Chain(new, newHead[j]) = Chain(blocks, head[j])
                          /\ Chain(new, newHead[j]) \cap FreeOf(blocks) = {}
  BY <1>6, <1>8, OwnedFacts
<1>11. \A a \in I : IF newK[a] = 0 THEN newHead[a] = 0 ELSE Sound(new, newHead[a], newK[a])
  BY <1>2, <1>6, <1>8
<1>12. \A a, b \in I : a # b => Chain(new, newHead[a]) \cap Chain(new, newHead[b]) = {}
  <2> SUFFICES ASSUME NEW a \in I, NEW b \in I, a # b
               PROVE  Chain(new, newHead[a]) \cap Chain(new, newHead[b]) = {}
    OBVIOUS
  <2>1. CASE a = i
    BY <1>2, <1>9, <1>10, <2>1
  <2>2. CASE b = i
    BY <1>2, <1>9, <1>10, <2>2
  <2>3. CASE a # i /\ b # i
    BY <1>1, <1>10, <2>3
  <2> QED
    BY <2>1, <2>2, <2>3
<1>13. \A b \in Block \ FreeOf(new) : \E a \in I : b \in Chain(new, newHead[a])
  <2> SUFFICES ASSUME NEW b \in Block \ FreeOf(new)
               PROVE  \E a \in I : b \in Chain(new, newHead[a])
    OBVIOUS
  <2>1. CASE b \in C
    BY <1>9, <2>1
  <2>2. CASE b \notin C
    <3>1. PICK a \in I : b \in Chain(blocks, head[a])
      BY <1>1, <1>2, <2>2
    <3>2. a # i
      BY <1>5, <3>1
    <3> QED
      BY <1>10, <3>1, <3>2
  <2> QED
    BY <2>1, <2>2
<1>14. Laid(new, I, newHead, newK)
  BY <1>2, <1>8, <1>11, <1>12, <1>13 DEF Laid
<1> QED
  BY <1>14 DEF newHead, newK

\* Free blocks go to one that had some, behind its last one.
Extended(blocks, b, k, c) == [blocks EXCEPT ![Nth(blocks, b)[k]] = c]
More(k, i, m) == [k EXCEPT ![i] = k[i] + m]

\* The first k of a, then the first m of c.
Joined(a, k, c, m) == [j \in 1 .. k + m |-> IF j <= k THEN a[j] ELSE c[j - k]]

\* The blocks that are taken are put behind the last one of the file, or
\* directory, number i.
LEMMA LaidExtend ==
    ASSUME NEW blocks, NEW I, NEW head, NEW k, Laid(blocks, I, head, k),
           NEW i \in I, k[i] # 0, NEW new, NEW c, NEW m, NEW old,
           old = Extended(blocks, head[i], k[i], c[1]), Linked(old, new, c, m)
    PROVE  /\ Laid(new, I, head, More(k, i, m))
           /\ Cardinality(FreeOf(new)) = Cardinality(FreeOf(blocks)) - m
           /\ new[0] = blocks[0]
           /\ Follows(new, head[i], Joined(Nth(blocks, head[i]), k[i], c, m), k[i] + m)
<1> DEFINE n == Nth(blocks, head[i])
           q == k[i]
           last == n[q]
           newK == More(k, i, m)
           C == Chain(new, c[1])
           O == Chain(blocks, head[i])
           p == Joined(n, q, c, m)
<1>0. old = [blocks EXCEPT ![last] = c[1]]
  BY DEF Extended
<1>00. Linked(old, new, c, m)
  OBVIOUS
<1>1. /\ blocks \in Table /\ head \in [I -> 0 .. NumEntries - 1] /\ k \in [I -> Nat]
      /\ \A a, b \in I : a # b => Chain(blocks, head[a]) \cap Chain(blocks, head[b]) = {}
      /\ \A b \in Block \ FreeOf(blocks) : \E a \in I : b \in Chain(blocks, head[a])
  BY DEF Laid
<1>2. /\ new \in Table /\ m \in Nat \ {0} /\ c \in [1 .. m -> FreeOf(old)]
      /\ C \subseteq FreeOf(old)
      /\ C = {c[j] : j \in 1 .. m}
      /\ FreeOf(new) = FreeOf(old) \ C
      /\ Cardinality(FreeOf(new)) = Cardinality(FreeOf(old)) - m
      /\ \A j \in 1 .. m - 1 : new[c[j]] = c[j + 1]
      /\ new[c[m]] = End
      /\ new[0] = old[0]
      /\ \A b \in Block : b \notin {c[j] : j \in 1 .. m} => new[b] = old[b]
  <2>0. Linked(old, new, c, m)
    BY <1>00
  <2>1. /\ C \subseteq FreeOf(old)
        /\ C = {c[j] : j \in 1 .. m}
        /\ FreeOf(new) = FreeOf(old) \ C
        /\ Cardinality(FreeOf(new)) = Cardinality(FreeOf(old)) - m
    BY <2>0, LinkedFacts
  <2>2. /\ new \in Table /\ m \in Nat \ {0} /\ c \in [1 .. m -> FreeOf(old)]
        /\ \A j \in 1 .. m - 1 : new[c[j]] = c[j + 1]
        /\ new[c[m]] = End
        /\ new[0] = old[0]
        /\ \A b \in Block : b \notin {c[j] : j \in 1 .. m} => new[b] = old[b]
    BY <2>0 DEF Linked
  <2> QED
    BY <2>1, <2>2
<1>3. Sound(blocks, head[i], q)
  BY DEF Laid
<1>4. /\ q \in Nat \ {0} /\ q < NumEntries
      /\ n[1] = head[i]
      /\ \A j \in 1 .. q : n[j] \in Block
      /\ \A j \in 1 .. q - 1 : blocks[n[j]] = n[j + 1]
      /\ O = {n[j] : j \in 1 .. q}
  BY <1>3, SoundFacts
<1>5. \A j \in 1 .. q - 1 : n[j] # last
  BY <1>3, <1>4, SoundInjective
<1>6. O \subseteq Block \ FreeOf(blocks)
  BY OwnedFacts
<1>7. /\ NumEntries \in Nat /\ NumEntries > 2 /\ Block = 1 .. NumEntries - 1
      /\ 0 \notin Block /\ Free \notin Block
      /\ Block \subseteq 0 .. NumEntries - 1
  BY SizeFacts
<1> HIDE DEF n, q, C, O
<1>8. last \in Block /\ last \in O /\ last \notin FreeOf(blocks)
  BY <1>4, <1>6
<1> HIDE DEF last
<1>9. /\ old[last] = c[1] /\ \A b \in Block \ {last} : old[b] = blocks[b]
      /\ old[0] = blocks[0]
  BY <1>0, <1>1, <1>7, <1>8 DEF Table
<1>10. c[1] \in FreeOf(old) /\ c[1] \in Block /\ c[1] # Free
  <2>1. 1 \in 1 .. m
    BY <1>2
  <2>2. c[1] \in FreeOf(old)
    BY <1>2, <2>1
  <2> QED
    BY <2>2, <1>7 DEF FreeOf
<1>11. FreeOf(old) = FreeOf(blocks)
  BY <1>8, <1>9, <1>10 DEF FreeOf
<1>12. \A b \in O : new[b] = old[b]
  BY <1>2, <1>6, <1>11
<1>13. /\ Sound(new, head[i], q + m) /\ Chain(new, head[i]) = O \cup C
       /\ Follows(new, head[i], p, q + m)
  <2>1. Cardinality(FreeOf(blocks)) <= NumEntries - 1 - q
    <3>1. IsFiniteSet(O) /\ Cardinality(O) = q
      BY <1>3, SoundCard DEF O
    <3>2. IsFiniteSet(FreeOf(blocks)) /\ Cardinality(FreeOf(blocks)) \in Nat
      BY FreeFinite
    <3>3. FreeOf(blocks) \cap O = {}
      BY <1>6
    <3>4. /\ IsFiniteSet(FreeOf(blocks) \cup O)
          /\ Cardinality(FreeOf(blocks) \cup O)
               = Cardinality(FreeOf(blocks)) + Cardinality(O) - Cardinality(FreeOf(blocks) \cap O)
      BY <3>1, <3>2, FS_Union
    <3>5. IsFiniteSet(Block) /\ Cardinality(Block) = NumEntries - 1
      <4>1. 1 \in Int /\ NumEntries - 1 \in Int /\ ~(1 > NumEntries - 1)
            /\ NumEntries - 1 - 1 + 1 = NumEntries - 1
        BY <1>7
      <4> QED
        BY <1>7, <4>1, FS_Interval
    <3>6. Cardinality(FreeOf(blocks) \cup O) <= Cardinality(Block)
      <4>1. FreeOf(blocks) \cup O \in SUBSET Block
        BY <1>6 DEF FreeOf
      <4> QED
        BY <3>5, <4>1, FS_Subset
    <3>7. Cardinality(FreeOf(blocks) \cap O) = 0
      BY <3>3, FS_EmptySet
    <3> QED
      BY <1>4, <1>7, <3>1, <3>2, <3>4, <3>5, <3>6, <3>7
  <2>2. Cardinality(FreeOf(new)) \in Nat /\ Cardinality(FreeOf(blocks)) \in Nat
    BY FreeFinite
  <2>3. q + m \in 1 .. NumEntries - 1
    BY <1>2, <1>4, <1>7, <1>11, <2>1, <2>2
  <2>4. p \in [1 .. q + m -> Block]
    <3> SUFFICES ASSUME NEW j \in 1 .. q + m
                 PROVE  (IF j <= q THEN n[j] ELSE c[j - q]) \in Block
      BY DEF Joined
    <3>1. CASE j <= q
      BY <1>4, <3>1
    <3>2. CASE ~(j <= q)
      <4>1. j - q \in 1 .. m
        BY <1>2, <1>4, <3>2
      <4>2. c[j - q] \in FreeOf(old)
        BY <1>2, <4>1
      <4> QED
        BY <3>2, <4>2 DEF FreeOf
    <3> QED
      BY <3>1, <3>2
  <2>5. /\ \A j \in 1 .. q : p[j] = n[j]
        /\ \A j \in 1 .. m : p[q + j] = c[j]
    BY <1>2, <1>4 DEF Joined
  <2> HIDE DEF p
  <2>6. p[1] = head[i]
    BY <1>4, <2>5
  <2>7. \A j \in 1 .. q + m - 1 : new[p[j]] = p[j + 1]
    <3> SUFFICES ASSUME NEW j \in 1 .. q + m - 1
                 PROVE  new[p[j]] = p[j + 1]
      OBVIOUS
    <3>1. CASE j < q
      <4>1. j \in 1 .. q - 1 /\ j \in 1 .. q /\ j + 1 \in 1 .. q
        BY <1>4, <3>1
      <4>2. n[j] \in Block /\ n[j] # last /\ n[j] \in O
        BY <1>4, <1>5, <4>1
      <4> QED
        BY <1>4, <1>9, <1>12, <2>5, <4>1, <4>2
    <3>2. CASE j = q
      <4>1. p[j] = last /\ p[j + 1] = c[1]
        <5>1. q \in 1 .. q /\ 1 \in 1 .. m
          BY <1>2, <1>4
        <5> QED
          BY <2>5, <3>2, <5>1 DEF last
      <4> QED
        BY <1>8, <1>9, <1>12, <4>1
    <3>3. CASE j > q
      <4>1. /\ j - q \in 1 .. m - 1 /\ j - q \in 1 .. m /\ (j - q) + 1 \in 1 .. m
            /\ q + (j - q) = j /\ q + ((j - q) + 1) = j + 1
        BY <1>2, <1>4, <3>3
      <4>2. p[j] = c[j - q] /\ p[j + 1] = c[(j - q) + 1]
        <5>1. p[q + (j - q)] = c[j - q] /\ p[q + ((j - q) + 1)] = c[(j - q) + 1]
          BY <2>5, <4>1
        <5> QED
          BY <4>1, <5>1
      <4> QED
        BY <1>2, <4>1, <4>2
    <3> QED
      BY <1>4, <3>1, <3>2, <3>3
  <2>8. new[p[q + m]] = End
    <3>1. m \in 1 .. m
      BY <1>2
    <3> QED
      BY <1>2, <2>5, <3>1
  <2>9. Sound(new, head[i], q + m) /\ \A j \in 1 .. q + m : Nth(new, head[i])[j] = p[j]
    <3> DEFINE z == q + m
    <3>1. /\ z \in 1 .. NumEntries - 1 /\ p \in [1 .. z -> Block]
          /\ \A j \in 1 .. z - 1 : new[p[j]] = p[j + 1]
          /\ new[p[z]] = End
      <4>1. z \in 1 .. NumEntries - 1
        BY <2>3
      <4>2. p \in [1 .. z -> Block]
        BY <2>4
      <4>3. \A j \in 1 .. z - 1 : new[p[j]] = p[j + 1]
        <5>1. q + m - 1 = z - 1
          BY <1>2, <1>4
        <5> QED
          BY <2>7, <5>1
      <4>4. new[p[z]] = End
        BY <2>8
      <4> QED
        BY <4>1, <4>2, <4>3, <4>4
    <3> HIDE DEF z
    <3>2. Sound(new, head[i], z)
      BY <2>6, <3>1, PathIsChain
    <3>3. \A j \in 1 .. z : Nth(new, head[i])[j] = p[j]
      <4> DEFINE h == head[i]
      <4>1. p[1] = h
        BY <2>6
      <4> HIDE DEF h
      <4>2. \A j \in 1 .. z : Nth(new, h)[j] = p[j]
        <5>1. Follows(new, h, p, z)
          BY <3>1, <4>1, PathFollows
        <5> QED
          BY <5>1 DEF Follows
      <4> QED
        BY <4>2 DEF h
    <3> QED
      BY <3>2, <3>3 DEF z
  <2>10. Chain(new, head[i]) = {Nth(new, head[i])[j] : j \in 1 .. q + m}
    BY <2>9, SoundFacts
  <2>11. Chain(new, head[i]) = {p[j] : j \in 1 .. q + m}
    BY <2>9, <2>10
  <2>12. {p[j] : j \in 1 .. q + m} = O \cup C
    <3>1. ASSUME NEW b, b \in O \cup C PROVE b \in {p[j] : j \in 1 .. q + m}
      <4>1. CASE b \in O
        BY <1>2, <1>4, <2>5, <4>1
      <4>2. CASE b \in C
        <5>1. PICK j \in 1 .. m : b = c[j]
          BY <1>2, <4>2
        <5>2. q + j \in 1 .. q + m
          BY <1>2, <1>4
        <5> QED
          BY <2>5, <5>1, <5>2
      <4> QED
        BY <3>1, <4>1, <4>2
    <3>2. ASSUME NEW j \in 1 .. q + m PROVE p[j] \in O \cup C
      <4>1. CASE j <= q
        BY <1>4, <2>5, <4>1
      <4>2. CASE ~(j <= q)
        <5>1. j - q \in 1 .. m /\ q + (j - q) = j
          BY <1>2, <1>4, <4>2
        <5>2. p[q + (j - q)] = c[j - q]
          BY <2>5, <5>1
        <5> QED
          BY <1>2, <5>1, <5>2
      <4> QED
        BY <4>1, <4>2
    <3> QED
      BY <3>1, <3>2
  <2> QED
    BY <2>9, <2>11, <2>12 DEF Follows
<1>14. \A j \in I \ {i} : /\ Chain(new, head[j]) = Chain(blocks, head[j])
                          /\ k[j] # 0 => Sound(new, head[j], k[j])
                          /\ k[j] = 0 => head[j] = 0
  <2>1. \A b \in Block \ (FreeOf(blocks) \cup O) : new[b] = blocks[b]
    BY <1>2, <1>8, <1>9, <1>11
  <2> QED
    BY <2>1, OthersStay DEF O
<1>15. /\ newK \in [I -> Nat] /\ newK[i] = q + m /\ q + m # 0
       /\ \A j \in I \ {i} : newK[j] = k[j]
  BY <1>1, <1>2, <1>4 DEF q, More
<1> HIDE DEF newK
<1>16. \A j \in I \ {i} : Chain(new, head[j]) \cap FreeOf(blocks) = {}
  BY <1>14, OwnedFacts
<1>17. \A a \in I : IF newK[a] = 0 THEN head[a] = 0 ELSE Sound(new, head[a], newK[a])
  BY <1>13, <1>14, <1>15
<1>18. \A j \in I \ {i} : Chain(new, head[j]) \cap Chain(new, head[i]) = {}
  <2> SUFFICES ASSUME NEW j \in I \ {i}
               PROVE  Chain(new, head[j]) \cap Chain(new, head[i]) = {}
    OBVIOUS
  <2>1. Chain(new, head[j]) \cap O = {}
    BY <1>1, <1>14 DEF O
  <2>2. Chain(new, head[j]) \cap C = {}
    BY <1>2, <1>11, <1>16
  <2> QED
    BY <1>13, <2>1, <2>2
<1>19. \A a, b \in I : a # b => Chain(new, head[a]) \cap Chain(new, head[b]) = {}
  <2> SUFFICES ASSUME NEW a \in I, NEW b \in I, a # b
               PROVE  Chain(new, head[a]) \cap Chain(new, head[b]) = {}
    OBVIOUS
  <2>1. CASE a = i
    BY <1>18, <2>1
  <2>2. CASE b = i
    BY <1>18, <2>2
  <2>3. CASE a # i /\ b # i
    BY <1>1, <1>14, <2>3
  <2> QED
    BY <2>1, <2>2, <2>3
<1>20. \A b \in Block \ FreeOf(new) : \E a \in I : b \in Chain(new, head[a])
  <2> SUFFICES ASSUME NEW b \in Block \ FreeOf(new)
               PROVE  \E a \in I : b \in Chain(new, head[a])
    OBVIOUS
  <2>1. CASE b \in C
    BY <1>13, <2>1
  <2>2. CASE b \notin C
    <3>1. PICK a \in I : b \in Chain(blocks, head[a])
      BY <1>1, <1>2, <1>11, <2>2
    <3>2. b \in Chain(new, head[a])
      BY <1>13, <1>14, <3>1 DEF O
    <3> QED
      BY <3>2
  <2> QED
    BY <2>1, <2>2
<1>21. Laid(new, I, head, newK)
  BY <1>1, <1>2, <1>15, <1>17, <1>19, <1>20 DEF Laid
<1>22. new[0] = blocks[0]
  BY <1>2, <1>9
<1> QED
  BY <1>2, <1>11, <1>13, <1>21, <1>22 DEF newK, n, q, p

\* A new numbering, which may leave out those that have no blocks.
LEMMA LaidAgain ==
    ASSUME NEW blocks, NEW I, NEW head, NEW k, Laid(blocks, I, head, k),
           NEW J, NEW to \in [J -> I], \A a, b \in J : to[a] = to[b] => a = b,
           \A i \in I : k[i] # 0 => \E j \in J : to[j] = i,
           NEW newHead, NEW newK,
           newHead = [j \in J |-> head[to[j]]], newK = [j \in J |-> k[to[j]]]
    PROVE  Laid(blocks, J, newHead, newK)
<1>1. /\ blocks \in Table /\ head \in [I -> 0 .. NumEntries - 1] /\ k \in [I -> Nat]
      /\ \A a \in I : IF k[a] = 0 THEN head[a] = 0 ELSE Sound(blocks, head[a], k[a])
      /\ \A a, b \in I : a # b => Chain(blocks, head[a]) \cap Chain(blocks, head[b]) = {}
      /\ \A b \in Block \ FreeOf(blocks) : \E a \in I : b \in Chain(blocks, head[a])
  BY DEF Laid
<1>2. \A j \in J : to[j] \in I /\ newHead[j] = head[to[j]] /\ newK[j] = k[to[j]]
  OBVIOUS
<1>3. newHead \in [J -> 0 .. NumEntries - 1] /\ newK \in [J -> Nat]
  BY <1>1
<1>4. \A j \in J : IF newK[j] = 0 THEN newHead[j] = 0 ELSE Sound(blocks, newHead[j], newK[j])
  BY <1>1, <1>2
<1>5. \A a, b \in J : a # b => Chain(blocks, newHead[a]) \cap Chain(blocks, newHead[b]) = {}
  BY <1>1, <1>2
<1>6. \A b \in Block \ FreeOf(blocks) : \E j \in J : b \in Chain(blocks, newHead[j])
  <2> SUFFICES ASSUME NEW b \in Block \ FreeOf(blocks)
               PROVE  \E j \in J : b \in Chain(blocks, newHead[j])
    OBVIOUS
  <2>1. PICK a \in I : b \in Chain(blocks, head[a])
    BY <1>1
  <2>2. k[a] # 0
    BY <2>1, OwnedFacts
  <2> QED
    BY <1>2, <2>1, <2>2
<1> QED
  BY <1>1, <1>3, <1>4, <1>5, <1>6 DEF Laid
-----------------------------------------------------------------------------
(* The write loop. *)

Cell   == {Zero} \cup Data \cup dirEntry
Region == [0 .. (NumEntries - 1) * BlockSize - 1 -> Cell]

\* Where the r-th cell of block b is.
At(b, r) == (b - 1) * BlockSize + r

\* Different cells are at different places.
LEMMA CellsApart ==
    ASSUME NEW b \in Block, NEW r \in 0 .. BlockSize - 1
    PROVE  /\ At(b, r) \in 0 .. (NumEntries - 1) * BlockSize - 1
           /\ \A c \in Block, q \in 0 .. BlockSize - 1 : At(b, r) = At(c, q) => b = c /\ r = q
<1>1. /\ NumEntries \in Nat /\ Block = 1 .. NumEntries - 1 /\ BlockSize \in Nat \ {0}
  BY SizeFacts
<1>2. ASSUME NEW c \in Block, NEW q \in 0 .. BlockSize - 1
      PROVE  /\ At(c, q) \in Nat /\ c - 1 \in Nat /\ At(c, q) = BlockSize * (c - 1) + q
             /\ At(c, q) \div BlockSize = c - 1 /\ At(c, q) % BlockSize = q
  <2>1. c - 1 \in Nat
    BY <1>1
  <2>2. At(c, q) = BlockSize * (c - 1) + q
    BY <1>1, <2>1 DEF At
  <2>3. BlockSize * (c - 1) \in Nat
    BY <1>1, <2>1
  <2>4. At(c, q) \in Nat
    BY <1>1, <2>2, <2>3
  <2> QED
    BY <2>1, <2>2, <2>4, DivUnique
<1>3. At(b, r) <= (NumEntries - 1) * BlockSize - 1
  <2>1. PICK x \in Nat : NumEntries - 1 = b + x
    <3>1. NumEntries - 1 - b \in Nat /\ NumEntries - 1 = b + (NumEntries - 1 - b)
      BY <1>1
    <3> QED
      BY <3>1
  <2>2. (b + x) * BlockSize = (b - 1) * BlockSize + BlockSize + x * BlockSize
    BY <1>1
  <2>3. x * BlockSize \in Nat /\ (b - 1) * BlockSize \in Nat
    BY <1>1
  <2> QED
    BY <1>1, <2>1, <2>2, <2>3 DEF At
<1>4. \A c \in Block, q \in 0 .. BlockSize - 1 : At(b, r) = At(c, q) => b = c /\ r = q
  <2> SUFFICES ASSUME NEW c \in Block, NEW q \in 0 .. BlockSize - 1, At(b, r) = At(c, q)
               PROVE  b = c /\ r = q
    OBVIOUS
  <2>1. b - 1 = c - 1 /\ r = q
    BY <1>2
  <2> QED
    BY <1>1, <2>1
<1> QED
  BY <1>2, <1>3, <1>4

\* The search for a free block finds the first one.
LEMMA FirstFreeLemma ==
    ASSUME NEW blocks, NEW i \in Nat \ {0}, NEW default
    PROVE  LET r == FirstFree(blocks, i, default) IN
           (\E b \in i .. NumEntries - 1 : blocks[b] = Free) =>
              /\ r \in i .. NumEntries - 1 /\ r \in FreeOf(blocks)
              /\ \A b \in FreeOf(blocks) : b >= i => r <= b
<1> DEFINE free == {b \in i .. NumEntries - 1 : blocks[b] = Free}
<1> SUFFICES ASSUME free # {}
             PROVE  LET r == FirstFree(blocks, i, default) IN
                    /\ r \in i .. NumEntries - 1 /\ r \in FreeOf(blocks)
                    /\ \A b \in FreeOf(blocks) : b >= i => r <= b
  OBVIOUS
<1>1. NumEntries \in Nat /\ Block = 1 .. NumEntries - 1
  BY SizeFacts
<1>2. FirstFree(blocks, i, default) = Min(free)
  BY DEF FirstFree
<1>3. free \in SUBSET Nat
  BY <1>1
<1> HIDE DEF free
<1>4. \E r \in free : \A b \in free : r <= b
  BY <1>3, LeastOf
<1>5. Min(free) \in free /\ \A b \in free : Min(free) <= b
  BY <1>4 DEF Min
<1> DEFINE r == Min(free)
<1>6. r \in i .. NumEntries - 1 /\ blocks[r] = Free
  BY <1>5 DEF free
<1>7. \A b \in FreeOf(blocks) : b >= i => b \in free
  BY <1>1 DEF FreeOf, free
<1>8. r \in FreeOf(blocks)
  BY <1>1, <1>6 DEF FreeOf
<1> QED
  BY <1>2, <1>5, <1>6, <1>7, <1>8

\* The loop writes one cell after the other.
LEMMA LoopSteps ==
    ASSUME NEW blocks, NEW disk, NEW start, NEW offset, NEW S, NEW bytes \in Seq(S)
    PROVE  LET s == WriteLoop(blocks, disk, start, offset, bytes) IN
           /\ s[0] = [blocks |-> blocks, disk |-> disk, currIndex |-> start, byteIdx |-> 0,
                      position |-> (start - 1) * BlockSize + offset]
           /\ \A i \in 0 .. Len(bytes) - 1 : s[i + 1] = WriteCell(offset, s[i], bytes[i + 1])
<1> DEFINE begin == [blocks |-> blocks, disk |-> disk, currIndex |-> start, byteIdx |-> 0,
                     position |-> (start - 1) * BlockSize + offset]
           L == Len(bytes)
           Body(f, i) == IF i = 0 THEN begin ELSE WriteCell(offset, f[i - 1], bytes[i])
           Walk(f, m) == f = [i \in 0 .. m |-> Body(f, i)]
           Walkable == {m \in Nat : \E f : Walk(f, m)}
<1>1. L \in Nat
  OBVIOUS
<1> HIDE DEF begin
<1>2. 0 \in Walkable
  <2>1. Walk([i \in 0 .. 0 |-> begin], 0)
    OBVIOUS
  <2> QED
    BY <2>1
<1>3. ASSUME NEW m \in 0 .. L - 1, m \in Walkable
      PROVE  m + 1 \in Walkable
  <2>1. PICK f : Walk(f, m)
    BY <1>3
  <2> DEFINE g == [i \in 0 .. m + 1 |-> IF i = m + 1 THEN WriteCell(offset, f[m], bytes[m + 1]) ELSE f[i]]
  <2>2. ASSUME NEW i \in 0 .. m + 1
        PROVE  g[i] = Body(g, i)
    <3>1. CASE i = m + 1
      <4>1. i # 0 /\ i - 1 = m /\ m # m + 1 /\ m \in 0 .. m + 1
        BY <1>1, <3>1
      <4>2. g[i] = WriteCell(offset, f[m], bytes[i]) /\ g[m] = f[m]
        BY <3>1, <4>1
      <4> HIDE DEF g
      <4> QED
        BY <4>1, <4>2
    <3>2. CASE i # m + 1
      <4>1. i \in 0 .. m /\ g[i] = f[i]
        BY <3>2
      <4>2. f[i] = Body(f, i)
        BY <2>1, <4>1
      <4>3. i # 0 => i - 1 \in 0 .. m /\ g[i - 1] = f[i - 1]
        BY <4>1
      <4> HIDE DEF g
      <4> QED
        BY <4>1, <4>2, <4>3
    <3> QED
      BY <3>1, <3>2
  <2>3. Walk(g, m + 1)
    BY <2>2
  <2> HIDE DEF Walk
  <2> QED
    BY <2>3
<1>4. WriteLoop(blocks, disk, start, offset, bytes) = CHOOSE f : Walk(f, L)
  BY Zenon DEF WriteLoop, begin
<1> DEFINE s == WriteLoop(blocks, disk, start, offset, bytes)
<1>5. Walk(s, L)
  <2>1. L \in Walkable
    <3>1. 0 \in Nat /\ L \in 0 .. L
      BY <1>1
    <3>2. \A m \in 0 .. L - 1 : m \in Walkable => m + 1 \in Walkable
      BY <1>3
    <3> HIDE DEF Walkable, L
    <3>3. \A m \in 0 .. L : m \in Walkable
      BY <1>1, <1>2, <3>1, <3>2, Upwards
    <3> QED
      BY <3>1, <3>3
  <2> HIDE DEF Walk
  <2> QED
    BY <1>4, <2>1
<1> HIDE DEF Walkable, s
<1>6. s = [i \in 0 .. L |-> Body(s, i)]
  BY <1>5
<1>7. s[0] = begin
  BY <1>1, <1>6
<1>8. ASSUME NEW i \in 0 .. L - 1
      PROVE  s[i + 1] = WriteCell(offset, s[i], bytes[i + 1])
  <2>1. i + 1 \in 0 .. L /\ i + 1 # 0 /\ (i + 1) - 1 = i
    BY <1>1
  <2>2. s[i + 1] = Body(s, i + 1)
    BY <1>6, <2>1
  <2> QED
    BY <2>1, <2>2
<1> QED
  BY <1>7, <1>8 DEF s, begin

LoopState == [blocks : Table, disk : Region, currIndex : Nat, byteIdx : Nat, position : Int]

\* Writing a cell where the loop stands.
LEMMA PutCell ==
    ASSUME NEW s \in LoopState, NEW byte \in Cell
    PROVE  LET t == [s EXCEPT !.disk = [@ EXCEPT ![s.position] = byte],
                              !.position = @ + 1, !.byteIdx = @ + 1] IN
           /\ t \in LoopState
           /\ t.blocks = s.blocks /\ t.currIndex = s.currIndex
           /\ t.disk = [s.disk EXCEPT ![s.position] = byte]
           /\ t.byteIdx = s.byteIdx + 1 /\ t.position = s.position + 1
<1> DEFINE disk == [s.disk EXCEPT ![s.position] = byte]
           t  == [s EXCEPT !.disk = [@ EXCEPT ![s.position] = byte],
                           !.position = @ + 1, !.byteIdx = @ + 1]
           t1 == [s EXCEPT !.disk = disk]
           t2 == [t1 EXCEPT !.position = s.position + 1]
           t3 == [t2 EXCEPT !.byteIdx = s.byteIdx + 1]
<1>1. t = t3
  OBVIOUS
<1>2. disk \in Region
  BY DEF LoopState, Region
<1> HIDE DEF disk, t
<1>3. t1 = [blocks |-> s.blocks, disk |-> disk, currIndex |-> s.currIndex,
            byteIdx |-> s.byteIdx, position |-> s.position]
  BY DEF LoopState
<1> HIDE DEF t1
<1>4. t2 = [blocks |-> s.blocks, disk |-> disk, currIndex |-> s.currIndex,
            byteIdx |-> s.byteIdx, position |-> s.position + 1]
  BY <1>3
<1> HIDE DEF t2
<1>5. t3 = [blocks |-> s.blocks, disk |-> disk, currIndex |-> s.currIndex,
            byteIdx |-> s.byteIdx + 1, position |-> s.position + 1]
  BY <1>4
<1> HIDE DEF t3
<1>6. /\ s.blocks \in Table /\ s.currIndex \in Nat /\ s.byteIdx \in Nat /\ s.position \in Int
  BY DEF LoopState
<1>7. t3 \in LoopState
  BY <1>2, <1>5, <1>6 DEF LoopState
<1> QED
  BY <1>1, <1>5, <1>7 DEF disk, t

\* A cell that is not the first of a further block.
LEMMA CellInside ==
    ASSUME NEW s \in LoopState, NEW offset \in Nat, NEW byte \in Cell,
           s.byteIdx = 0 \/ (s.byteIdx + offset) % BlockSize # 0
    PROVE  LET t == WriteCell(offset, s, byte) IN
           /\ t \in LoopState
           /\ t.blocks = s.blocks /\ t.currIndex = s.currIndex
           /\ t.disk = [s.disk EXCEPT ![s.position] = byte]
           /\ t.byteIdx = s.byteIdx + 1 /\ t.position = s.position + 1
<1> DEFINE t == [s EXCEPT !.disk = [@ EXCEPT ![s.position] = byte],
                          !.position = @ + 1, !.byteIdx = @ + 1]
<1>1. WriteCell(offset, s, byte) = t
  BY DEF WriteCell
<1>2. /\ t \in LoopState
      /\ t.blocks = s.blocks /\ t.currIndex = s.currIndex
      /\ t.disk = [s.disk EXCEPT ![s.position] = byte]
      /\ t.byteIdx = s.byteIdx + 1 /\ t.position = s.position + 1
  BY PutCell
<1> HIDE DEF t
<1> QED
  BY <1>1, <1>2

\* More cells take no fewer blocks.
LEMMA BlocksMono ==
    ASSUME NEW n \in Nat, NEW m \in Nat, n <= m
    PROVE  bytesToBlocks(n) <= bytesToBlocks(m)
<1> DEFINE k == bytesToBlocks(n)
           l == bytesToBlocks(m)
<1>1. BlockSize \in Nat \ {0}
  BY SizeAssumption
<1>2. /\ k \in Nat /\ n <= BlockSize * k /\ BlockSize * k < n + BlockSize
      /\ l \in Nat /\ m <= BlockSize * l /\ BlockSize * l < m + BlockSize
  BY BlocksHold
<1> HIDE DEF k, l
<1>3. SUFFICES ASSUME l < k PROVE FALSE
  BY <1>2 DEF k, l
<1>4. PICK x \in Nat : k = l + 1 + x
  <2>1. k - l - 1 \in Nat /\ k = l + 1 + (k - l - 1)
    BY <1>2, <1>3
  <2> QED
    BY <2>1
<1>5. BlockSize * (l + 1 + x) = BlockSize * l + BlockSize + BlockSize * x
  BY <1>1, <1>2
<1>6. BlockSize * l \in Nat /\ BlockSize * x \in Nat
  BY <1>1, <1>2
<1> QED
  BY <1>1, <1>2, <1>4, <1>5, <1>6

\* The first cell of a further block: the first free one behind the last.
LEMMA CellBeyond ==
    ASSUME NEW s \in LoopState, NEW offset \in Nat, NEW byte \in Cell,
           s.byteIdx # 0, (s.byteIdx + offset) % BlockSize = 0,
           s.currIndex \in Block, s.blocks[s.currIndex] = Free,
           NEW f \in FreeOf(s.blocks), f > s.currIndex
    PROVE  LET t == WriteCell(offset, s, byte) IN
           /\ t \in LoopState
           /\ t.currIndex \in FreeOf(s.blocks) /\ t.currIndex > s.currIndex
           /\ \A b \in FreeOf(s.blocks) : b > s.currIndex => t.currIndex <= b
           /\ t.blocks = [s.blocks EXCEPT ![s.currIndex] = t.currIndex]
           /\ t.byteIdx = s.byteIdx + 1
           /\ t.disk = [s.disk EXCEPT ![At(t.currIndex, 0)] = byte]
           /\ t.position = At(t.currIndex, 0) + 1
<1> DEFINE after == IF s.currIndex + 1 >= NumEntries THEN 2 ELSE s.currIndex + 1
           next  == FirstFree(s.blocks, after, after)
           blocks == [s.blocks EXCEPT ![s.currIndex] = next]
           u  == NextBlock(s)
           u1 == [s EXCEPT !.blocks = blocks]
           u2 == [u1 EXCEPT !.currIndex = next]
           u3 == [u2 EXCEPT !.position = (next - 1) * BlockSize]
<1>1. /\ NumEntries \in Nat /\ NumEntries > 2 /\ Block = 1 .. NumEntries - 1
      /\ BlockSize \in Nat \ {0} /\ Free = 0
      /\ Meta = NumEntries + 1
  BY SizeFacts
<1>2. f \in Block /\ s.blocks[f] = Free
  BY DEF FreeOf
<1>3. after = s.currIndex + 1 /\ after \in Nat \ {0} /\ f \in after .. NumEntries - 1
  BY <1>1, <1>2
<1>4. /\ next \in after .. NumEntries - 1 /\ next \in FreeOf(s.blocks)
      /\ \A b \in FreeOf(s.blocks) : b >= after => next <= b
  <2> HIDE DEF after
  <2> QED
    BY <1>2, <1>3, FirstFreeLemma
<1> HIDE DEF after, next
<1>5. next \in Nat /\ next > s.currIndex /\ next \in 0 .. Meta
  BY <1>1, <1>3, <1>4
<1>6. \A b \in FreeOf(s.blocks) : b > s.currIndex => next <= b
  BY <1>1, <1>3, <1>4 DEF FreeOf
<1>7. /\ s.blocks \in Table /\ s.currIndex \in Nat /\ s.byteIdx \in Nat /\ s.position \in Int
      /\ s.disk \in Region
  BY DEF LoopState
<1>8. blocks \in Table
  BY <1>5, <1>7 DEF Table
<1>9. u = [s EXCEPT !.blocks[s.currIndex] = next, !.currIndex = next,
                    !.position = (next - 1) * BlockSize]
  BY DEF NextBlock, after, next
<1>10. u = u3
  BY <1>9
<1> HIDE DEF u
<1>11. u = [blocks |-> blocks, disk |-> s.disk, currIndex |-> next,
            byteIdx |-> s.byteIdx, position |-> (next - 1) * BlockSize]
  <2> HIDE DEF blocks
  <2>1. u1 = [blocks |-> blocks, disk |-> s.disk, currIndex |-> s.currIndex,
              byteIdx |-> s.byteIdx, position |-> s.position]
    BY DEF LoopState
  <2> HIDE DEF u1
  <2>2. u2 = [blocks |-> blocks, disk |-> s.disk, currIndex |-> next,
              byteIdx |-> s.byteIdx, position |-> s.position]
    BY <2>1
  <2> HIDE DEF u2
  <2>3. u3 = [blocks |-> blocks, disk |-> s.disk, currIndex |-> next,
              byteIdx |-> s.byteIdx, position |-> (next - 1) * BlockSize]
    BY <2>2
  <2> HIDE DEF u3
  <2> QED
    BY <1>10, <2>3
<1>12. (next - 1) * BlockSize \in Int
  BY <1>1, <1>5
<1> HIDE DEF blocks
<1>13. u \in LoopState
  BY <1>5, <1>7, <1>8, <1>11, <1>12 DEF LoopState
<1> DEFINE t == [u EXCEPT !.disk = [@ EXCEPT ![u.position] = byte],
                          !.position = @ + 1, !.byteIdx = @ + 1]
<1>14. WriteCell(offset, s, byte) = t
  BY DEF WriteCell, u
<1>15. /\ t \in LoopState
       /\ t.blocks = u.blocks /\ t.currIndex = u.currIndex /\ t.byteIdx = u.byteIdx + 1
       /\ t.disk = [u.disk EXCEPT ![u.position] = byte] /\ t.position = u.position + 1
  <2> HIDE DEF u
  <2> QED
    BY <1>13, PutCell, Zenon
<1> HIDE DEF t
<1>16. (next - 1) * BlockSize = At(next, 0)
  BY <1>1, <1>5 DEF At
<1>17. /\ t.currIndex = next /\ t.disk = [s.disk EXCEPT ![At(next, 0)] = byte]
       /\ t.position = At(next, 0) + 1
  BY <1>11, <1>15, <1>16
<1>18. t.blocks = [s.blocks EXCEPT ![s.currIndex] = next] /\ t.byteIdx = s.byteIdx + 1
  BY <1>11, <1>15 DEF blocks
<1> QED
  BY <1>4, <1>5, <1>6, <1>14, <1>15, <1>17, <1>18

\* The first n of bytes are in the blocks of c, one after the other.
Filled(disk, c, k, bytes, n) ==
    \A j \in 1 .. k, r \in 0 .. BlockSize - 1 :
        BlockSize * (j - 1) + r < n => disk[At(c[j], r)] = bytes[BlockSize * (j - 1) + r + 1]

\* Other blocks are as they were.
Confined(new, old, C) ==
    \A b \in Block \ C, r \in 0 .. BlockSize - 1 : new[At(b, r)] = old[At(b, r)]

\* A function with another value at one point.
Replaced(function, i, value) == [function EXCEPT ![i] = value]

\* The first k blocks of c, and that they are in ascending order.
BlocksOf(c, k) == {c[j] : j \in 1 .. k}
Rising(c, k) == \A i, j \in 1 .. k : i < j => c[i] < c[j]

\* One more cell, in the last block.
LEMMA OneMore ==
    ASSUME NEW disk \in Region, NEW old, NEW k \in Nat \ {0}, NEW c \in [1 .. k -> Block],
           Rising(c, k), NEW bytes, NEW n \in Nat,
           NEW r \in 0 .. BlockSize - 1, n = BlockSize * (k - 1) + r,
           Filled(disk, c, k, bytes, n), Confined(disk, old, BlocksOf(c, k)),
           NEW new, new = Replaced(disk, At(c[k], r), bytes[n + 1])
    PROVE  /\ Filled(new, c, k, bytes, n + 1)
           /\ Confined(new, old, BlocksOf(c, k))
<1> DEFINE place == At(c[k], r)
           last == c[k]
           byte == bytes[n + 1]
           C == BlocksOf(c, k)
<1>1. /\ NumEntries \in Nat /\ Block = 1 .. NumEntries - 1 /\ BlockSize \in Nat \ {0}
  BY SizeFacts
<1>2. k \in 1 .. k /\ last \in Block /\ last \in C
  BY DEF last, BlocksOf
<1>3. \A b \in Block, q \in 0 .. BlockSize - 1 :
         new[At(b, q)] = IF b = last /\ q = r THEN byte ELSE disk[At(b, q)]
  <2> SUFFICES ASSUME NEW b \in Block, NEW q \in 0 .. BlockSize - 1
               PROVE  new[At(b, q)] = IF b = last /\ q = r THEN byte ELSE disk[At(b, q)]
    OBVIOUS
  <2> DEFINE p == At(b, q)
  <2>1. p \in 0 .. (NumEntries - 1) * BlockSize - 1
    BY CellsApart
  <2>2. p = place => b = last /\ q = r
    BY <1>2, CellsApart
  <2>3. b = last /\ q = r => p = place
    OBVIOUS
  <2> HIDE DEF p, place, byte, last
  <2>4. new[p] = IF p = place THEN byte ELSE disk[p]
    BY <2>1 DEF Region, Replaced, place, byte, last
  <2> QED
    BY <2>2, <2>3, <2>4 DEF p
<1>4. ASSUME NEW j \in 1 .. k, NEW q \in 0 .. BlockSize - 1, BlockSize * (j - 1) + q < n + 1
      PROVE  new[At(c[j], q)] = bytes[BlockSize * (j - 1) + q + 1]
  <2>1. c[j] \in Block
    OBVIOUS
  <2>2. CASE j = k /\ q = r
    BY <1>3, <2>1, <2>2
  <2>3. CASE ~(j = k /\ q = r)
    <3>1. c[j] = last => j = k
      <4>1. j < k => c[j] < c[k]
        BY <1>2 DEF Rising
      <4>2. j = k \/ j < k
        OBVIOUS
      <4>3. c[j] \in Nat /\ last \in Nat
        BY <1>1, <1>2, <2>1
      <4> QED
        BY <4>1, <4>2, <4>3
    <3>2. BlockSize * (j - 1) + q < n
      <4>1. j - 1 \in Nat /\ k - 1 \in Nat
        OBVIOUS
      <4>2. BlockSize * (j - 1) + q # n
        <5> SUFFICES ASSUME BlockSize * (j - 1) + q = n PROVE FALSE
          OBVIOUS
        <5>1. n \div BlockSize = j - 1 /\ n % BlockSize = q
          BY <4>1, DivUnique
        <5>2. n \div BlockSize = k - 1 /\ n % BlockSize = r
          BY <4>1, DivUnique
        <5> QED
          BY <2>3, <5>1, <5>2
      <4>3. BlockSize * (j - 1) \in Nat
        BY <1>1, <4>1
      <4> DEFINE x == BlockSize * (j - 1)
      <4>4. x \in Nat /\ x + q # n /\ x + q < n + 1
        BY <1>4, <4>2, <4>3
      <4> HIDE DEF x
      <4>5. x + q < n
        BY <4>4
      <4> QED
        BY <4>5 DEF x
    <3>3. disk[At(c[j], q)] = bytes[BlockSize * (j - 1) + q + 1]
      BY <3>2 DEF Filled
    <3> QED
      BY <1>3, <2>1, <2>3, <3>1, <3>3
  <2> QED
    BY <2>2, <2>3
<1>5. Filled(new, c, k, bytes, n + 1)
  BY <1>4 DEF Filled
<1>6. Confined(new, old, C)
  BY <1>2, <1>3 DEF Confined
<1> QED
  BY <1>5, <1>6

\* Where the loop stands: it has taken the first k free blocks, and the last of
\* them is still marked as free.
Grows(old, s, c, k) ==
    /\ k \in Nat \ {0} /\ c \in [1 .. k -> FreeOf(old)]
    /\ \A i, j \in 1 .. k : i < j => c[i] < c[j]
    /\ \A j \in 1 .. k - 1 : s.blocks[c[j]] = c[j + 1]
    /\ c[k] = s.currIndex /\ s.blocks[s.currIndex] = Free
    /\ \A b \in 0 .. NumEntries - 1 : b \notin {c[j] : j \in 1 .. k} => s.blocks[b] = old[b]
    /\ \A b \in FreeOf(old) : b <= s.currIndex => b \in {c[j] : j \in 1 .. k}

\* There is a next one as long as there are more than k.
LEMMA GrowsOn ==
    ASSUME NEW old \in Table, NEW s \in LoopState, NEW c, NEW k, Grows(old, s, c, k),
           k < Cardinality(FreeOf(old)), NEW byte \in Cell,
           s.byteIdx # 0, s.byteIdx % BlockSize = 0
    PROVE  LET t == WriteCell(0, s, byte) IN
           /\ t \in LoopState /\ t.byteIdx = s.byteIdx + 1
           /\ t.disk = [s.disk EXCEPT ![At(t.currIndex, 0)] = byte]
           /\ t.position = At(t.currIndex, 0) + 1
           /\ \E d : Grows(old, t, d, k + 1) /\ \A j \in 1 .. k : d[j] = c[j]
<1> DEFINE t == WriteCell(0, s, byte)
           C == {c[j] : j \in 1 .. k}
           next == t.currIndex
           d == [j \in 1 .. k + 1 |-> IF j = k + 1 THEN next ELSE c[j]]
<1>1. /\ k \in Nat \ {0} /\ c \in [1 .. k -> FreeOf(old)]
      /\ \A i, j \in 1 .. k : i < j => c[i] < c[j]
      /\ \A j \in 1 .. k - 1 : s.blocks[c[j]] = c[j + 1]
      /\ c[k] = s.currIndex /\ s.blocks[s.currIndex] = Free
      /\ \A b \in 0 .. NumEntries - 1 : b \notin C => s.blocks[b] = old[b]
      /\ \A b \in FreeOf(old) : b <= s.currIndex => b \in C
  BY DEF Grows
<1>2. /\ NumEntries \in Nat /\ NumEntries > 2 /\ Block = 1 .. NumEntries - 1
      /\ Block \subseteq 0 .. NumEntries - 1 /\ Free \notin Block
  BY SizeFacts
<1>3. /\ s.blocks \in Table /\ s.currIndex \in Nat /\ s.byteIdx \in Nat
  BY DEF LoopState
<1>4. PICK f \in FreeOf(old) : f \notin C
  <2> SUFFICES ASSUME FreeOf(old) \subseteq C PROVE FALSE
    OBVIOUS
  <2>1. c \in Surjection(1 .. k, C)
    BY <1>1 DEF Surjection
  <2>2. IsFiniteSet(1 .. k) /\ Cardinality(1 .. k) = k
    <3>1. 1 \in Int /\ k \in Int /\ ~(1 > k) /\ k - 1 + 1 = k
      BY <1>1
    <3> QED
      BY <3>1, FS_Interval
  <2> HIDE DEF C
  <2>3. IsFiniteSet(C) /\ Cardinality(C) <= k
    BY <2>1, <2>2, FS_Surjection
  <2>4. FreeOf(old) \in SUBSET C
    OBVIOUS
  <2>5. Cardinality(FreeOf(old)) <= Cardinality(C)
    BY <2>3, <2>4, FS_Subset
  <2>6. Cardinality(FreeOf(old)) \in Nat /\ Cardinality(C) \in Nat
    BY <2>3, FreeFinite, FS_CardinalityType
  <2> QED
    BY <1>1, <2>3, <2>5, <2>6
<1>5. \A b \in FreeOf(old) : b \in Block /\ old[b] = Free
  BY DEF FreeOf
<1>6. /\ s.currIndex \in FreeOf(old) /\ s.currIndex \in Block
  <2>1. k \in 1 .. k
    BY <1>1
  <2>2. c[k] \in FreeOf(old)
    BY <1>1, <2>1
  <2> QED
    BY <1>1, <1>5, <2>2
<1>7. f \in FreeOf(s.blocks) /\ f > s.currIndex
  <2>1. f \in Block /\ s.blocks[f] = Free
    BY <1>1, <1>2, <1>4, <1>5
  <2> QED
    BY <1>1, <1>2, <1>3, <1>4, <2>1 DEF FreeOf
<1>8. /\ t \in LoopState
      /\ next \in FreeOf(s.blocks) /\ next > s.currIndex
      /\ \A b \in FreeOf(s.blocks) : b > s.currIndex => next <= b
      /\ t.blocks = [s.blocks EXCEPT ![s.currIndex] = next]
      /\ t.byteIdx = s.byteIdx + 1
      /\ t.disk = [s.disk EXCEPT ![At(next, 0)] = byte] /\ t.position = At(next, 0) + 1
  <2>1. (s.byteIdx + 0) % BlockSize = 0 /\ 0 \in Nat
    BY <1>3
  <2> QED
    BY <1>1, <1>6, <1>7, <2>1, CellBeyond
<1> HIDE DEF t
<1>9. \A j \in 1 .. k : c[j] \in FreeOf(old) /\ c[j] <= s.currIndex /\ c[j] \in Nat
  <2> SUFFICES ASSUME NEW j \in 1 .. k PROVE c[j] <= s.currIndex /\ c[j] \in Nat
    BY <1>1
  <2>1. c[j] \in FreeOf(old)
    BY <1>1
  <2>2. c[j] \in Nat
    BY <1>2, <1>5, <2>1
  <2>3. j = k \/ j < k
    BY <1>1
  <2>4. j < k => c[j] < c[k]
    BY <1>1
  <2> QED
    BY <1>1, <1>3, <2>2, <2>3, <2>4
<1>10. next \in Block /\ next \notin C /\ next \in FreeOf(old) /\ s.blocks[next] = Free
  <2>1. next \in Block /\ s.blocks[next] = Free
    BY <1>8 DEF FreeOf
  <2>2. next \notin C
    BY <1>2, <1>3, <1>8, <1>9, <2>1
  <2>3. old[next] = Free
    BY <1>1, <1>2, <2>1, <2>2
  <2> QED
    BY <2>1, <2>2, <2>3 DEF FreeOf
<1> HIDE DEF next
<1>11. \A j \in 1 .. k : d[j] = c[j]
  BY <1>1
<1>12. d[k + 1] = next
  BY <1>1
<1>13. d \in [1 .. k + 1 -> FreeOf(old)]
  BY <1>1, <1>10
<1> DEFINE D == {d[j] : j \in 1 .. k + 1}
<1>14. D = C \cup {next}
  BY <1>1, <1>11, <1>12
<1> HIDE DEF d, D
<1>15. /\ t.blocks[s.currIndex] = next
       /\ \A b \in 0 .. NumEntries - 1 : b # s.currIndex => t.blocks[b] = s.blocks[b]
  BY <1>2, <1>3, <1>6, <1>8 DEF Table
<1>16. \A i, j \in 1 .. k + 1 : i < j => d[i] < d[j]
  <2> SUFFICES ASSUME NEW i \in 1 .. k + 1, NEW j \in 1 .. k + 1, i < j
               PROVE  d[i] < d[j]
    OBVIOUS
  <2>1. i \in 1 .. k
    BY <1>1
  <2>2. CASE j = k + 1
    BY <1>2, <1>3, <1>8, <1>9, <1>10, <1>11, <1>12, <2>1, <2>2
  <2>3. CASE j # k + 1
    <3>0. k \in Nat
      BY <1>1
    <3>1. j \in 1 .. k
      BY <2>3, <3>0
    <3>2. d[i] = c[i] /\ d[j] = c[j] /\ c[i] < c[j]
      BY <1>1, <1>11, <2>1, <3>1
    <3> QED
      BY <3>2
  <2> QED
    BY <2>2, <2>3
<1>17. \A j \in 1 .. (k + 1) - 1 : t.blocks[d[j]] = d[j + 1]
  <2> SUFFICES ASSUME NEW j \in 1 .. k
               PROVE  t.blocks[d[j]] = d[j + 1]
    BY <1>1
  <2>1. CASE j = k
    BY <1>1, <1>11, <1>12, <1>15, <2>1
  <2>2. CASE j # k
    <3>1. j \in 1 .. k - 1 /\ j + 1 \in 1 .. k
      BY <1>1, <2>2
    <3>2. c[j] # s.currIndex
      <4>1. c[j] < c[k] /\ c[j] \in Nat
        BY <1>1, <1>9, <2>2
      <4> QED
        BY <1>1, <1>3, <4>1
    <3>3. c[j] \in 0 .. NumEntries - 1
      BY <1>2, <1>5, <1>9
    <3> QED
      BY <1>1, <1>11, <1>15, <3>1, <3>2, <3>3
  <2> QED
    BY <2>1, <2>2
<1>18. t.blocks[next] = Free
  <2>1. next # s.currIndex /\ next \in 0 .. NumEntries - 1
    BY <1>2, <1>3, <1>8, <1>10
  <2> QED
    BY <1>10, <1>15, <2>1
<1>19. \A b \in 0 .. NumEntries - 1 : b \notin D => t.blocks[b] = old[b]
  <2>1. s.currIndex \in C
    <3>1. k \in 1 .. k
      BY <1>1
    <3> QED
      BY <1>1, <3>1
  <2> QED
    BY <1>1, <1>14, <1>15, <2>1
<1>20. \A b \in FreeOf(old) : b <= next => b \in D
  <2> SUFFICES ASSUME NEW b \in FreeOf(old), b <= next, b \notin C
               PROVE  b = next
    BY <1>14
  <2>1. b \in Block /\ s.blocks[b] = Free
    BY <1>1, <1>2, <1>5
  <2>2. b > s.currIndex
    BY <1>1, <1>2, <1>3, <2>1
  <2>3. next <= b
    BY <1>8, <2>1, <2>2 DEF FreeOf
  <2> QED
    BY <1>2, <1>10, <2>1, <2>3
<1>21. Grows(old, t, d, k + 1)
  <2>1. k + 1 \in Nat \ {0} /\ t.currIndex = next
    BY <1>1 DEF next
  <2> QED
    BY <1>12, <1>13, <1>16, <1>17, <1>18, <1>19, <1>20, <2>1 DEF Grows, D
<1> QED
  BY <1>8, <1>11, <1>21 DEF t, next

\* The file position, and what has been written.
Stands(s, old, c, k, bytes) ==
    /\ s.position = At(c[k], s.byteIdx - BlockSize * (k - 1))
    /\ Filled(s.disk, c, k, bytes, s.byteIdx)
    /\ Confined(s.disk, old, BlocksOf(c, k))

\* A cell in the block the loop is in.
LEMMA StandsInside ==
    ASSUME NEW s \in LoopState, NEW t \in LoopState, NEW old, NEW k \in Nat \ {0},
           NEW c \in [1 .. k -> Block], Rising(c, k), NEW bytes,
           Stands(s, old, c, k, bytes), s.byteIdx - BlockSize * (k - 1) \in 0 .. BlockSize - 1,
           t.disk = [s.disk EXCEPT ![s.position] = bytes[s.byteIdx + 1]],
           t.position = s.position + 1, t.byteIdx = s.byteIdx + 1
    PROVE  Stands(t, old, c, k, bytes)
<1> DEFINE n == s.byteIdx
           q == BlockSize * (k - 1)
           r == n - q
<1>1. /\ NumEntries \in Nat /\ Block = 1 .. NumEntries - 1 /\ BlockSize \in Nat \ {0}
  BY SizeFacts
<1>2. n \in Nat /\ s.disk \in Region
  BY DEF LoopState
<1>3. q \in Nat
  <2>1. k - 1 \in Nat
    OBVIOUS
  <2> QED
    BY <1>1, <2>1
<1>4. c[k] \in Block
  OBVIOUS
<1>5. /\ s.position = At(c[k], r) /\ Filled(s.disk, c, k, bytes, n)
      /\ Confined(s.disk, old, BlocksOf(c, k))
  BY DEF Stands
<1>6. r \in 0 .. BlockSize - 1
  OBVIOUS
<1>7. n = q + r /\ (n + 1) - q = r + 1
  BY <1>2, <1>3
<1>8. At(c[k], r) + 1 = At(c[k], r + 1)
  BY <1>1, <1>4, <1>6 DEF At
<1>9. t.disk = [s.disk EXCEPT ![At(c[k], r)] = bytes[n + 1]]
  BY <1>5
<1>10. n = BlockSize * (k - 1) + r
  BY <1>7
<1> HIDE DEF n, r
<1>11. Filled(t.disk, c, k, bytes, n + 1) /\ Confined(t.disk, old, BlocksOf(c, k))
  <2> DEFINE disk == s.disk
             new == t.disk
  <2>1. /\ disk \in Region /\ new = Replaced(disk, At(c[k], r), bytes[n + 1])
        /\ Filled(disk, c, k, bytes, n) /\ Confined(disk, old, BlocksOf(c, k))
    BY <1>2, <1>5, <1>9 DEF Replaced
  <2> HIDE DEF disk, new
  <2>2. Filled(new, c, k, bytes, n + 1) /\ Confined(new, old, BlocksOf(c, k))
    BY <1>2, <1>6, <1>10, <2>1, OneMore
  <2> QED
    BY <2>2 DEF new
<1>12. t.byteIdx = n + 1
  BY DEF n
<1> QED
  BY <1>5, <1>7, <1>8, <1>11, <1>12 DEF Stands

\* A cell in the next block.
LEMMA StandsBeyond ==
    ASSUME NEW s \in LoopState, NEW t \in LoopState, NEW old, NEW k \in Nat \ {0}, NEW c,
           NEW d \in [1 .. k + 1 -> Block], Rising(d, k + 1),
           \A j \in 1 .. k : d[j] = c[j], NEW bytes,
           Stands(s, old, c, k, bytes), s.byteIdx = BlockSize * k,
           t.disk = [s.disk EXCEPT ![At(d[k + 1], 0)] = bytes[s.byteIdx + 1]],
           t.position = At(d[k + 1], 0) + 1, t.byteIdx = s.byteIdx + 1
    PROVE  Stands(t, old, d, k + 1, bytes)
<1> DEFINE n == s.byteIdx
           l == k + 1
           D == BlocksOf(d, l)
<1>1. /\ NumEntries \in Nat /\ Block = 1 .. NumEntries - 1 /\ BlockSize \in Nat \ {0}
  BY SizeFacts
<1>2. n \in Nat /\ s.disk \in Region
  BY DEF LoopState
<1>3. /\ Filled(s.disk, c, k, bytes, n) /\ Confined(s.disk, old, BlocksOf(c, k))
  BY DEF Stands
<1>4. Confined(s.disk, old, D)
  <2>1. BlocksOf(c, k) \subseteq D
    BY DEF BlocksOf
  <2> HIDE DEF D
  <2> QED
    BY <1>3, <2>1 DEF Confined
<1>5. Filled(s.disk, d, l, bytes, n)
  <2> SUFFICES ASSUME NEW j \in 1 .. l, NEW r \in 0 .. BlockSize - 1, BlockSize * (j - 1) + r < n
               PROVE  s.disk[At(d[j], r)] = bytes[BlockSize * (j - 1) + r + 1]
    BY DEF Filled
  <2>1. CASE j = l
    <3>1. BlockSize * (j - 1) = n
      BY <2>1
    <3> QED
      BY <1>2, <3>1
  <2>2. CASE j # l
    <3>1. j \in 1 .. k /\ d[j] = c[j]
      BY <2>2
    <3> QED
      BY <1>3, <3>1 DEF Filled
  <2> QED
    BY <2>1, <2>2
<1>6. l \in Nat \ {0} /\ l - 1 = k /\ 0 \in 0 .. BlockSize - 1
  BY <1>1
<1>7. n = BlockSize * (l - 1) + 0
  BY <1>2, <1>6
<1>8. d[l] \in Block
  OBVIOUS
<1>9. At(d[l], 0) + 1 = At(d[l], 1)
  BY <1>1, <1>8 DEF At
<1>10. (n + 1) - BlockSize * (l - 1) = 1
  BY <1>2, <1>7
<1>11. Filled(t.disk, d, l, bytes, n + 1) /\ Confined(t.disk, old, D)
  <2> HIDE DEF n
  <2>1. t.disk = [s.disk EXCEPT ![At(d[l], 0)] = bytes[n + 1]]
    BY DEF n
  <2> HIDE DEF l
  <2>2. d \in [1 .. l -> Block] /\ Rising(d, l)
    BY DEF l
  <2> DEFINE disk == s.disk
             new == t.disk
             m == 0
  <2>3. /\ disk \in Region /\ new = Replaced(disk, At(d[l], m), bytes[n + 1])
        /\ Filled(disk, d, l, bytes, n) /\ Confined(disk, old, BlocksOf(d, l))
        /\ m \in 0 .. BlockSize - 1 /\ n = BlockSize * (l - 1) + m
    BY <1>2, <1>4, <1>5, <1>6, <1>7, <2>1 DEF Replaced
  <2> HIDE DEF disk, new, m
  <2>4. Filled(new, d, l, bytes, n + 1) /\ Confined(new, old, BlocksOf(d, l))
    BY <1>2, <1>6, <2>2, <2>3, OneMore
  <2> QED
    BY <2>4 DEF new
<1>12. t.byteIdx = n + 1 /\ t.position = At(d[l], 1)
  BY <1>9
<1> QED
  BY <1>10, <1>11, <1>12 DEF Stands

\* Writing from the first free block on, with enough of them free, takes as many
\* as it needs and makes a chain of them, with bytes in its blocks, one after the other.
LEMMA WriteFills ==
    ASSUME NEW blocks \in Table, NEW disk \in Region, NEW bytes \in Seq(Cell), bytes # <<>>,
           NEW start \in FreeOf(blocks), \A b \in FreeOf(blocks) : start <= b,
           bytesToBlocks(Len(bytes)) <= Cardinality(FreeOf(blocks))
    PROVE  LET w == WriteCells(blocks, disk, start, 0, bytes) IN
           /\ w.disk \in Region
           /\ \E c : /\ Linked(blocks, w.blocks, c, bytesToBlocks(Len(bytes)))
                     /\ c[1] = start
                     /\ Filled(w.disk, c, bytesToBlocks(Len(bytes)), bytes, Len(bytes))
                     /\ Confined(w.disk, disk, BlocksOf(c, bytesToBlocks(Len(bytes))))
<1> DEFINE L == Len(bytes)
           s == WriteLoop(blocks, disk, start, 0, bytes)
           P == {i \in Nat : /\ s[i] \in LoopState /\ s[i].byteIdx = i
                             /\ \E c : /\ Grows(blocks, s[i], c, bytesToBlocks(i))
                                       /\ c[1] = start
                                       /\ Stands(s[i], disk, c, bytesToBlocks(i), bytes)}
<1>1. L \in Nat \ {0} /\ \A i \in 1 .. L : bytes[i] \in Cell
  OBVIOUS
<1>2. /\ s[0] = [blocks |-> blocks, disk |-> disk, currIndex |-> start, byteIdx |-> 0,
                 position |-> (start - 1) * BlockSize + 0]
      /\ \A i \in 0 .. L - 1 : s[i + 1] = WriteCell(0, s[i], bytes[i + 1])
  BY LoopSteps
<1>3. /\ NumEntries \in Nat /\ NumEntries > 2 /\ Block = 1 .. NumEntries - 1
      /\ Block \subseteq 0 .. NumEntries - 1 /\ Free \notin Block
      /\ BlockSize \in Nat \ {0} /\ End = NumEntries /\ Meta = NumEntries + 1
  BY SizeFacts
<1> HIDE DEF s
<1>4. /\ s[0] \in LoopState /\ s[0].byteIdx = 0 /\ s[0].blocks = blocks /\ s[0].currIndex = start
      /\ s[0].disk = disk /\ s[0].position = At(start, 0)
  <2>1. start \in Nat /\ (start - 1) * BlockSize + 0 \in Int
    BY <1>3 DEF FreeOf
  <2> QED
    BY <1>2, <2>1 DEF LoopState, At
<1>5. 1 \in P
  <2>1. s[1] = WriteCell(0, s[0], bytes[1])
    <3>1. 0 \in 0 .. L - 1 /\ 0 + 1 = 1
      BY <1>1
    <3> QED
      BY <1>2, <3>1
  <2>2. bytes[1] \in Cell
    BY <1>1
  <2>3. /\ s[1] \in LoopState /\ s[1].blocks = blocks /\ s[1].currIndex = start
        /\ s[1].byteIdx = 1
        /\ s[1].disk = [s[0].disk EXCEPT ![s[0].position] = bytes[1]]
        /\ s[1].position = s[0].position + 1
    <3>1. 0 \in Nat /\ s[0].byteIdx + 1 = 1
      BY <1>4
    <3>2. /\ s[1] \in LoopState /\ s[1].blocks = s[0].blocks /\ s[1].currIndex = s[0].currIndex
          /\ s[1].byteIdx = s[0].byteIdx + 1
          /\ s[1].disk = [s[0].disk EXCEPT ![s[0].position] = bytes[1]]
          /\ s[1].position = s[0].position + 1
      <4> DEFINE v == s[0]
                 byte == bytes[1]
      <4>1. v \in LoopState /\ byte \in Cell /\ v.byteIdx = 0
        BY <1>4, <2>2
      <4>2. s[1] = WriteCell(0, v, byte)
        BY <2>1
      <4> HIDE DEF v, byte
      <4>3. LET t == WriteCell(0, v, byte) IN
            /\ t \in LoopState /\ t.byteIdx = v.byteIdx + 1
            /\ t.blocks = v.blocks /\ t.currIndex = v.currIndex
            /\ t.disk = [v.disk EXCEPT ![v.position] = byte] /\ t.position = v.position + 1
        BY <3>1, <4>1, CellInside
      <4> QED
        BY <4>2, <4>3 DEF v, byte
    <3> QED
      BY <1>4, <3>1, <3>2
  <2>4. bytesToBlocks(1) = 1
    <3>1. bytesToBlocks(0 + 1) = bytesToBlocks(0) + 1
      <4>1. 0 % BlockSize = 0
        BY <1>3
      <4> QED
        BY <4>1, BlocksArith
    <3>2. bytesToBlocks(0) = 0
      BY BlocksArith
    <3> QED
      BY <3>1, <3>2
  <2> DEFINE c == [j \in 1 .. 1 |-> start]
  <2>5. Grows(blocks, s[1], c, 1)
    <3>1. \A b \in FreeOf(blocks) : b <= start => b = start
      BY <1>3 DEF FreeOf
    <3> QED
      BY <2>3, <3>1 DEF Grows, FreeOf
  <2>6. start \in Block
    BY DEF FreeOf
  <2>7. Stands(s[0], disk, c, 1, bytes)
    <3>1. \A r \in 0 .. BlockSize - 1 : ~(BlockSize * (1 - 1) + r < 0)
      BY <1>3
    <3>2. Filled(disk, c, 1, bytes, 0)
      BY <3>1 DEF Filled
    <3>3. Confined(disk, disk, BlocksOf(c, 1))
      BY DEF Confined
    <3>4. 0 - BlockSize * (1 - 1) = 0 /\ c[1] = start
      BY <1>3
    <3> HIDE DEF c
    <3> QED
      BY <1>4, <3>2, <3>3, <3>4 DEF Stands
  <2>8. Stands(s[1], disk, c, 1, bytes)
    <3> DEFINE v == s[0]
               t == s[1]
    <3>1. /\ v \in LoopState /\ t \in LoopState /\ v.byteIdx = 0 /\ v.byteIdx + 1 = 1
          /\ t.disk = [v.disk EXCEPT ![v.position] = bytes[1]]
          /\ t.position = v.position + 1 /\ t.byteIdx = 1
      BY <1>4, <2>3
    <3>2. c \in [1 .. 1 -> Block] /\ Rising(c, 1)
      BY <2>6 DEF Rising
    <3>3. v.byteIdx - BlockSize * (1 - 1) \in 0 .. BlockSize - 1 /\ 1 \in Nat \ {0}
      BY <1>3, <3>1
    <3>4. Stands(v, disk, c, 1, bytes)
      BY <2>7
    <3> HIDE DEF v, t, c
    <3>5. t.disk = [v.disk EXCEPT ![v.position] = bytes[v.byteIdx + 1]] /\ t.byteIdx = v.byteIdx + 1
      BY <3>1
    <3>6. Stands(t, disk, c, 1, bytes)
      BY <3>1, <3>2, <3>3, <3>4, <3>5, StandsInside
    <3> QED
      BY <3>6 DEF t
  <2>9. c[1] = start
    OBVIOUS
  <2> HIDE DEF c
  <2> QED
    BY <2>3, <2>4, <2>5, <2>8, <2>9
<1>6. ASSUME NEW i \in 1 .. L - 1, i \in P
      PROVE  i + 1 \in P
  <2>1. i \in Nat \ {0} /\ i + 1 \in 1 .. L /\ i \in 0 .. L - 1 /\ i + 1 <= L
    BY <1>1
  <2>2. s[i] \in LoopState /\ s[i].byteIdx = i
    BY <1>6
  <2>3. PICK c : /\ Grows(blocks, s[i], c, bytesToBlocks(i)) /\ c[1] = start
                 /\ Stands(s[i], disk, c, bytesToBlocks(i), bytes)
    BY <1>6
  <2>4. s[i + 1] = WriteCell(0, s[i], bytes[i + 1]) /\ bytes[i + 1] \in Cell
    BY <1>1, <1>2, <2>1
  <2>5. CASE i % BlockSize = 0
    <3>1. bytesToBlocks(i + 1) = bytesToBlocks(i) + 1
      BY <2>1, <2>5, BlocksArith
    <3>2. bytesToBlocks(i) < Cardinality(FreeOf(blocks))
      <4>1. bytesToBlocks(i + 1) <= bytesToBlocks(L)
        BY <1>1, <2>1, BlocksMono
      <4>2. bytesToBlocks(i) \in Nat /\ bytesToBlocks(L) \in Nat
        BY <1>1, <2>1, BlocksHold
      <4> QED
        BY <3>1, <4>1, <4>2, FreeFinite
    <3>3. s[i].byteIdx # 0 /\ s[i].byteIdx % BlockSize = 0
      BY <2>1, <2>2, <2>5
    <3>4. /\ s[i + 1] \in LoopState /\ s[i + 1].byteIdx = i + 1
          /\ s[i + 1].disk = [s[i].disk EXCEPT ![At(s[i + 1].currIndex, 0)] = bytes[i + 1]]
          /\ s[i + 1].position = At(s[i + 1].currIndex, 0) + 1
          /\ \E d : /\ Grows(blocks, s[i + 1], d, bytesToBlocks(i) + 1)
                    /\ \A j \in 1 .. bytesToBlocks(i) : d[j] = c[j]
      <4> DEFINE v == s[i]
                 byte == bytes[i + 1]
                 k == bytesToBlocks(i)
      <4>1. /\ v \in LoopState /\ byte \in Cell /\ Grows(blocks, v, c, k)
            /\ k < Cardinality(FreeOf(blocks)) /\ v.byteIdx # 0 /\ v.byteIdx % BlockSize = 0
            /\ s[i + 1] = WriteCell(0, v, byte)
        BY <2>2, <2>3, <2>4, <3>2, <3>3
      <4> HIDE DEF v, byte, k
      <4>2. LET t == WriteCell(0, v, byte) IN
            /\ t \in LoopState /\ t.byteIdx = v.byteIdx + 1
            /\ t.disk = [v.disk EXCEPT ![At(t.currIndex, 0)] = byte]
            /\ t.position = At(t.currIndex, 0) + 1
            /\ \E d : Grows(blocks, t, d, k + 1) /\ \A j \in 1 .. k : d[j] = c[j]
        BY <4>1, GrowsOn
      <4>3. v.byteIdx = i
        BY <2>2 DEF v
      <4> QED
        BY <4>1, <4>2, <4>3 DEF v, byte, k
    <3>5. PICK d : /\ Grows(blocks, s[i + 1], d, bytesToBlocks(i) + 1)
                   /\ \A j \in 1 .. bytesToBlocks(i) : d[j] = c[j]
      BY <3>4
    <3>6. Stands(s[i + 1], disk, d, bytesToBlocks(i) + 1, bytes) /\ d[1] = start
      <4> DEFINE v == s[i]
                 t == s[i + 1]
                 k == bytesToBlocks(i)
      <4>1. k \in Nat \ {0}
        BY <2>3 DEF Grows
      <4>2. i = BlockSize * k
        <5>1. i <= BlockSize * k /\ BlockSize * k < i + BlockSize
          BY <2>1, BlocksHold
        <5>2. i = BlockSize * (i \div BlockSize) + (i % BlockSize) /\ i \div BlockSize \in Nat
          BY <2>1, DivFacts
        <5>3. i = BlockSize * (i \div BlockSize)
          BY <1>3, <2>1, <2>5, <5>2
        <5>4. i <= BlockSize * (i \div BlockSize) /\ BlockSize * (i \div BlockSize) < i + BlockSize
          BY <1>3, <2>1, <5>3
        <5>5. k = i \div BlockSize
          BY <2>1, <5>2, <5>4, BlocksUnique
        <5> QED
          BY <5>3, <5>5
      <4>3. /\ d \in [1 .. k + 1 -> Block] /\ Rising(d, k + 1)
            /\ d[k + 1] = t.currIndex
        BY <3>5 DEF Grows, FreeOf, Rising
      <4>4. /\ v \in LoopState /\ t \in LoopState /\ v.byteIdx = i /\ t.byteIdx = i + 1
            /\ Stands(v, disk, c, k, bytes)
            /\ t.disk = [v.disk EXCEPT ![At(t.currIndex, 0)] = bytes[i + 1]]
            /\ t.position = At(t.currIndex, 0) + 1
            /\ \A j \in 1 .. k : d[j] = c[j]
        BY <2>2, <2>3, <3>4, <3>5
      <4> HIDE DEF v, t, k
      <4>5. /\ t.disk = [v.disk EXCEPT ![At(d[k + 1], 0)] = bytes[v.byteIdx + 1]]
            /\ t.position = At(d[k + 1], 0) + 1 /\ t.byteIdx = v.byteIdx + 1
            /\ v.byteIdx = BlockSize * k
        BY <4>2, <4>3, <4>4
      <4>6. Stands(t, disk, d, k + 1, bytes)
        BY <4>1, <4>3, <4>4, <4>5, StandsBeyond
      <4>7. d[1] = c[1]
        BY <4>1, <4>4
      <4> QED
        BY <2>3, <4>6, <4>7 DEF t, k
    <3> QED
      BY <2>1, <3>1, <3>4, <3>5, <3>6
  <2>6. CASE i % BlockSize # 0
    <3>1. bytesToBlocks(i + 1) = bytesToBlocks(i)
      BY <2>1, <2>6, BlocksArith
    <3>2. (s[i].byteIdx + 0) % BlockSize # 0
      BY <2>1, <2>2, <2>6
    <3>3. /\ s[i + 1] \in LoopState /\ s[i + 1].byteIdx = i + 1
          /\ s[i + 1].blocks = s[i].blocks /\ s[i + 1].currIndex = s[i].currIndex
          /\ s[i + 1].disk = [s[i].disk EXCEPT ![s[i].position] = bytes[i + 1]]
          /\ s[i + 1].position = s[i].position + 1
      <4>1. 0 \in Nat
        OBVIOUS
      <4>2. /\ s[i + 1] \in LoopState /\ s[i + 1].byteIdx = s[i].byteIdx + 1
            /\ s[i + 1].blocks = s[i].blocks /\ s[i + 1].currIndex = s[i].currIndex
            /\ s[i + 1].disk = [s[i].disk EXCEPT ![s[i].position] = bytes[i + 1]]
            /\ s[i + 1].position = s[i].position + 1
        <5> DEFINE v == s[i]
                   byte == bytes[i + 1]
        <5>1. v \in LoopState /\ byte \in Cell /\ (v.byteIdx + 0) % BlockSize # 0
          BY <2>2, <2>4, <3>2
        <5>2. s[i + 1] = WriteCell(0, v, byte)
          BY <2>4
        <5> HIDE DEF v, byte
        <5>3. LET t == WriteCell(0, v, byte) IN
              /\ t \in LoopState /\ t.byteIdx = v.byteIdx + 1
              /\ t.blocks = v.blocks /\ t.currIndex = v.currIndex
              /\ t.disk = [v.disk EXCEPT ![v.position] = byte] /\ t.position = v.position + 1
          BY <4>1, <5>1, CellInside
        <5> QED
          BY <5>2, <5>3 DEF v, byte
      <4> QED
        BY <2>2, <4>2
    <3>4. Grows(blocks, s[i + 1], c, bytesToBlocks(i + 1))
      BY <2>3, <3>1, <3>3 DEF Grows
    <3>5. Stands(s[i + 1], disk, c, bytesToBlocks(i + 1), bytes)
      <4> DEFINE v == s[i]
                 t == s[i + 1]
                 k == bytesToBlocks(i)
      <4>1. k \in Nat \ {0} /\ c \in [1 .. k -> Block] /\ Rising(c, k)
        BY <2>3 DEF Grows, FreeOf, Rising
      <4>2. i - BlockSize * (k - 1) \in 0 .. BlockSize - 1
        <5>1. i <= BlockSize * k /\ BlockSize * k < i + BlockSize
          BY <2>1, BlocksHold
        <5>2. i # BlockSize * k
          <6>1. i = BlockSize * k => i = BlockSize * k + 0 /\ 0 \in 0 .. BlockSize - 1 /\ k \in Nat
            BY <1>3, <2>1, <4>1
          <6>2. i = BlockSize * k => i % BlockSize = 0
            BY <2>1, <6>1, DivUnique
          <6> QED
            BY <2>6, <6>2
        <5>3. BlockSize * (k - 1) = BlockSize * k - BlockSize /\ BlockSize * k \in Nat
          BY <1>3, <4>1
        <5> HIDE DEF k
        <5> QED
          BY <1>3, <2>1, <5>1, <5>2, <5>3
      <4>3. /\ v \in LoopState /\ t \in LoopState /\ v.byteIdx = i /\ t.byteIdx = i + 1
            /\ Stands(v, disk, c, k, bytes)
            /\ t.disk = [v.disk EXCEPT ![v.position] = bytes[i + 1]]
            /\ t.position = v.position + 1
        BY <2>2, <2>3, <3>3
      <4> HIDE DEF v, t, k
      <4>4. /\ t.disk = [v.disk EXCEPT ![v.position] = bytes[v.byteIdx + 1]]
            /\ t.byteIdx = v.byteIdx + 1 /\ v.byteIdx - BlockSize * (k - 1) \in 0 .. BlockSize - 1
        BY <4>2, <4>3
      <4>5. Stands(t, disk, c, k, bytes)
        BY <4>1, <4>3, <4>4, StandsInside
      <4> QED
        BY <3>1, <4>5 DEF t, k
    <3> QED
      BY <2>1, <2>3, <3>3, <3>4, <3>5
  <2> QED
    BY <2>5, <2>6
<1>7. L \in P
  <2>1. 1 \in Nat /\ L \in Nat /\ L \in 1 .. L
    BY <1>1
  <2>2. \A i \in 1 .. L - 1 : i \in P => i + 1 \in P
    BY <1>6
  <2> HIDE DEF P, L
  <2>3. \A i \in 1 .. L : i \in P
    BY <1>5, <2>1, <2>2, Upwards
  <2> QED
    BY <2>1, <2>3
<1> DEFINE end == s[L]
           k == bytesToBlocks(L)
           new == [end.blocks EXCEPT ![end.currIndex] = End]
           w == WriteCells(blocks, disk, start, 0, bytes)
<1>8. end \in LoopState /\ end.byteIdx = L
  BY <1>7
<1>9. PICK c : Grows(blocks, end, c, k) /\ c[1] = start /\ Stands(end, disk, c, k, bytes)
  BY <1>7
<1>10. w = [end EXCEPT !.blocks[end.currIndex] = End]
  BY DEF WriteCells, s
<1> HIDE DEF end, k, L, P, w
<1>11. w.blocks = new /\ w.disk = end.disk
  BY <1>8, <1>10 DEF LoopState
<1>12. end.blocks \in Table /\ end.disk \in Region
  BY <1>8 DEF LoopState
<1>13. /\ k \in Nat \ {0} /\ c \in [1 .. k -> FreeOf(blocks)]
       /\ \A i, j \in 1 .. k : i < j => c[i] < c[j]
       /\ \A j \in 1 .. k - 1 : end.blocks[c[j]] = c[j + 1]
       /\ c[k] = end.currIndex
       /\ \A b \in 0 .. NumEntries - 1 : b \notin {c[j] : j \in 1 .. k} => end.blocks[b] = blocks[b]
  BY <1>9 DEF Grows
<1>14. \A j \in 1 .. k : c[j] \in Block /\ c[j] \in Nat
  <2>1. \A b \in FreeOf(blocks) : b \in Block /\ b \in Nat
    BY <1>3 DEF FreeOf
  <2> QED
    BY <1>13, <2>1
<1>15. k \in 1 .. k
  BY <1>13
<1>16. end.currIndex \in Block /\ end.currIndex \in {c[j] : j \in 1 .. k}
  BY <1>13, <1>14, <1>15
<1>17. new \in Table
  BY <1>3, <1>12 DEF Table
<1>18. new[end.currIndex] = End
  BY <1>3, <1>12, <1>16 DEF Table
<1>19. \A b \in 0 .. NumEntries - 1 : b # end.currIndex => new[b] = end.blocks[b]
  BY <1>12 DEF Table
<1> HIDE DEF new
<1>20. \A j \in 1 .. k - 1 : new[c[j]] = c[j + 1]
  <2> SUFFICES ASSUME NEW j \in 1 .. k - 1 PROVE new[c[j]] = c[j + 1]
    OBVIOUS
  <2>1. j \in 1 .. k /\ j < k
    BY <1>13
  <2>2. c[j] < c[k] /\ c[j] \in Nat /\ c[j] \in 0 .. NumEntries - 1
    BY <1>3, <1>13, <1>14, <1>15, <2>1
  <2>3. c[j] # end.currIndex
    <3>1. c[k] \in Nat
      BY <1>14, <1>15
    <3> QED
      BY <1>13, <2>2, <3>1
  <2> QED
    BY <1>13, <1>19, <2>2, <2>3
<1>21. \A b \in 0 .. NumEntries - 1 : b \notin {c[j] : j \in 1 .. k} => new[b] = blocks[b]
  BY <1>13, <1>16, <1>19
<1>22. new[0] = blocks[0]
  <2>1. 0 \in 0 .. NumEntries - 1 /\ 0 \notin {c[j] : j \in 1 .. k}
    BY <1>3, <1>14
  <2> QED
    BY <1>21, <2>1
<1>23. Linked(blocks, new, c, k)
  <2>1. new[c[k]] = End
    BY <1>13, <1>18
  <2>2. \A b \in Block : b \notin {c[j] : j \in 1 .. k} => new[b] = blocks[b]
    BY <1>3, <1>21
  <2> QED
    BY <1>13, <1>17, <1>20, <1>22, <2>1, <2>2 DEF Linked
<1>24. Filled(w.disk, c, k, bytes, L) /\ Confined(w.disk, disk, BlocksOf(c, k))
  BY <1>8, <1>9, <1>11 DEF Stands
<1> QED
  BY <1>9, <1>11, <1>12, <1>23, <1>24 DEF w, k, L

\* In particular it takes them.
LEMMA WriteAllocates ==
    ASSUME NEW blocks \in Table, NEW disk \in Region, NEW bytes \in Seq(Cell), bytes # <<>>,
           NEW start \in FreeOf(blocks), \A b \in FreeOf(blocks) : start <= b,
           bytesToBlocks(Len(bytes)) <= Cardinality(FreeOf(blocks))
    PROVE  LET w == WriteCells(blocks, disk, start, 0, bytes) IN
           /\ w.disk \in Region
           /\ \E c : Linked(blocks, w.blocks, c, bytesToBlocks(Len(bytes))) /\ c[1] = start
<1> DEFINE w == WriteCells(blocks, disk, start, 0, bytes)
           m == bytesToBlocks(Len(bytes))
<1>1. /\ w.disk \in Region
      /\ \E c : /\ Linked(blocks, w.blocks, c, m)
                /\ c[1] = start
                /\ Filled(w.disk, c, m, bytes, Len(bytes))
                /\ Confined(w.disk, disk, BlocksOf(c, m))
  BY WriteFills
<1> HIDE DEF w, m
<1> QED
  BY <1>1 DEF w, m

\* The cells from base on are those of bytes, all others are as before.
Put(new, old, base, bytes) ==
    \A p \in 0 .. (NumEntries - 1) * BlockSize - 1 :
        new[p] = IF base <= p /\ p < base + Len(bytes) THEN bytes[p - base + 1] ELSE old[p]

\* Writing what fits into one block changes that block's cells and marks it.
LEMMA WriteFits ==
    ASSUME NEW blocks \in Table, NEW disk \in Region, NEW bytes \in Seq(Cell),
           NEW start \in Block, NEW offset \in 0 .. BlockSize - 1,
           offset + Len(bytes) <= BlockSize
    PROVE  LET w    == WriteCells(blocks, disk, start, offset, bytes)
               base == (start - 1) * BlockSize + offset
           IN
           /\ bytes = <<>> => w.blocks = blocks
           /\ bytes # <<>> => w.blocks = [blocks EXCEPT ![start] = End]
           /\ w.disk \in Region
           /\ Put(w.disk, disk, base, bytes)
<1> DEFINE L == Len(bytes)
           base == (start - 1) * BlockSize + offset
           M == (NumEntries - 1) * BlockSize - 1
           s == WriteLoop(blocks, disk, start, offset, bytes)
           Written(d, i) == \A p \in 0 .. M : d[p] = IF base <= p /\ p < base + i
                                                     THEN bytes[p - base + 1] ELSE disk[p]
           P == {i \in Nat : /\ s[i] \in LoopState /\ s[i].byteIdx = i
                             /\ s[i].blocks = blocks /\ s[i].currIndex = start
                             /\ s[i].position = base + i
                             /\ Written(s[i].disk, i)}
<1>1. L \in Nat /\ \A i \in 1 .. L : bytes[i] \in Cell
  OBVIOUS
<1>2. /\ s[0] = [blocks |-> blocks, disk |-> disk, currIndex |-> start, byteIdx |-> 0,
                 position |-> base]
      /\ \A i \in 0 .. L - 1 : s[i + 1] = WriteCell(offset, s[i], bytes[i + 1])
  BY LoopSteps
<1>3. /\ NumEntries \in Nat /\ NumEntries > 2 /\ Block = 1 .. NumEntries - 1
      /\ BlockSize \in Nat \ {0}
  BY SizeFacts
<1>4. base \in Int /\ start \in Nat /\ offset \in Nat
  BY <1>3
<1> HIDE DEF s, base, M
<1>5. 0 \in P
  <2>1. Written(disk, 0)
    BY <1>4
  <2> QED
    BY <1>2, <1>4, <2>1 DEF LoopState
<1>6. ASSUME NEW i \in 0 .. L - 1, i \in P
      PROVE  i + 1 \in P
  <2> DEFINE v == s[i]
             t == s[i + 1]
             byte == bytes[i + 1]
  <2>1. i \in Nat /\ i + 1 \in 1 .. L
    BY <1>1
  <2>2. /\ v \in LoopState /\ v.byteIdx = i /\ v.blocks = blocks /\ v.currIndex = start
        /\ v.position = base + i /\ Written(v.disk, i)
    BY <1>6
  <2>3. t = WriteCell(offset, v, byte) /\ byte \in Cell
    BY <1>1, <1>2, <2>1
  <2>4. v.byteIdx = 0 \/ (v.byteIdx + offset) % BlockSize # 0
    <3>1. CASE i = 0
      BY <2>2, <3>1
    <3>2. CASE i # 0
      <4>1. i + offset \in 1 .. BlockSize - 1
        BY <1>1, <1>3, <1>4, <2>1, <3>2
      <4>2. (i + offset) % BlockSize = i + offset
        BY <1>3, <4>1
      <4> QED
        BY <2>2, <4>1, <4>2
    <3> QED
      BY <3>1, <3>2
  <2> HIDE DEF v, t, byte
  <2>5. LET u == WriteCell(offset, v, byte) IN
        /\ u \in LoopState
        /\ u.blocks = v.blocks /\ u.currIndex = v.currIndex
        /\ u.disk = [v.disk EXCEPT ![v.position] = byte]
        /\ u.byteIdx = v.byteIdx + 1 /\ u.position = v.position + 1
    BY <1>4, <2>2, <2>3, <2>4, CellInside
  <2>6. /\ t \in LoopState /\ t.byteIdx = i + 1 /\ t.blocks = blocks /\ t.currIndex = start
        /\ t.disk = [v.disk EXCEPT ![base + i] = byte]
        /\ t.position = base + i + 1
    BY <2>2, <2>3, <2>5
  <2>7. v.disk \in [0 .. M -> Cell]
    BY <2>2 DEF LoopState, Region, M
  <2>8. Written(t.disk, i + 1)
    <3> SUFFICES ASSUME NEW p \in 0 .. M
                 PROVE  t.disk[p] = IF base <= p /\ p < base + (i + 1)
                                    THEN bytes[p - base + 1] ELSE disk[p]
      OBVIOUS
    <3>1. p \in Int
      OBVIOUS
    <3>2. v.disk[p] = IF base <= p /\ p < base + i THEN bytes[p - base + 1] ELSE disk[p]
      BY <2>2
    <3>3. t.disk[p] = IF p = base + i THEN byte ELSE v.disk[p]
      BY <2>6, <2>7
    <3>4. CASE p = base + i
      <4>1. p - base + 1 = i + 1 /\ base <= p /\ p < base + (i + 1)
        BY <1>4, <2>1, <3>4
      <4> QED
        BY <3>3, <3>4, <4>1 DEF byte
    <3>5. CASE p # base + i
      <4>1. p < base + i <=> p < base + (i + 1)
        BY <1>4, <2>1, <3>1, <3>5
      <4> QED
        BY <3>2, <3>3, <3>5, <4>1
    <3> QED
      BY <3>4, <3>5
  <2>9. base + i + 1 = base + (i + 1)
    BY <1>4, <2>1
  <2> HIDE DEF Written
  <2> QED
    BY <2>1, <2>6, <2>8, <2>9 DEF t
<1>7. L \in P
  <2>1. 0 \in Nat /\ L \in 0 .. L
    BY <1>1
  <2>2. \A i \in 0 .. L - 1 : i \in P => i + 1 \in P
    BY <1>6
  <2> HIDE DEF P, L
  <2>3. \A i \in 0 .. L : i \in P
    BY <1>1, <1>5, <2>1, <2>2, Upwards
  <2> QED
    BY <2>1, <2>3
<1> DEFINE end == s[L]
           w == WriteCells(blocks, disk, start, offset, bytes)
<1>8. end \in LoopState /\ end.blocks = blocks /\ end.currIndex = start /\ Written(end.disk, L)
  BY <1>7
<1>9. w = IF bytes = <<>> THEN end ELSE [end EXCEPT !.blocks[end.currIndex] = End]
  BY DEF WriteCells, s
<1> HIDE DEF end, P, w
<1>10. w.disk = end.disk
       /\ w.blocks = IF bytes = <<>> THEN blocks ELSE [blocks EXCEPT ![start] = End]
  BY <1>8, <1>9 DEF LoopState
<1>11. end.disk \in Region
  BY <1>8 DEF LoopState
<1>12. \A p \in 0 .. M : w.disk[p] = IF base <= p /\ p < base + L
                                     THEN bytes[p - base + 1] ELSE disk[p]
  BY <1>8, <1>10
<1> QED
  BY <1>10, <1>11, <1>12 DEF w, M, base, Put
-----------------------------------------------------------------------------
(* The file system as a whole. *)

FatState == [blocks : Table, disk : Region, dir : Seq(dirEntry), freeBlocks : Nat]

\* The directory is number 0, its entries are the numbers from 1 on.
Heads(dir) == [i \in 0 .. Len(dir) |-> IF i = 0 THEN 1 ELSE dir[i].firstBlock]
Depths(dir, d) == [i \in 0 .. Len(dir) |-> IF i = 0 THEN d ELSE bytesToBlocks(dir[i].size)]

Unique(dir) == \A i, j \in 1 .. Len(dir) : i # j => dir[i].name # dir[j].name

\* The blocks that a directory of n entries takes when it is saved.
DirDepth(n) == IF n = 0 THEN 1 ELSE bytesToBlocks(n)

OneBlockDir == IsFiniteSet(Names) /\ Cardinality(Names) <= BlockSize

\* A sound file system whose directory has d blocks in the table: what is not
\* free is somebody's, and freeBlocks leaves room for the directory to be saved.
Good(f, d) ==
    /\ f \in FatState /\ f.blocks[0] = Meta
    /\ Unique(f.dir)
    /\ d \in Nat \ {0}
    /\ Laid(f.blocks, 0 .. Len(f.dir), Heads(f.dir), Depths(f.dir, d))
    /\ f.freeBlocks <= Cardinality(FreeOf(f.blocks))
    /\ f.freeBlocks + DirDepth(Len(f.dir)) <= Cardinality(FreeOf(f.blocks)) + d
    /\ OneBlockDir => d = 1 /\ f.freeBlocks = Cardinality(FreeOf(f.blocks))

\* A directory always has a block, and one more where the entries fill the last.
LEMMA DirDepthLemma ==
    ASSUME NEW n \in Nat
    PROVE  /\ DirDepth(n) \in Nat \ {0}
           /\ DirDepth(n + 1) = DirDepth(n) + (IF n # 0 /\ n % BlockSize = 0 THEN 1 ELSE 0)
           /\ n <= BlockSize => DirDepth(n) = 1
<1>1. /\ bytesToBlocks(n) \in Nat
      /\ bytesToBlocks(n) = 0 <=> n = 0
      /\ bytesToBlocks(n + 1) = IF n % BlockSize = 0 THEN bytesToBlocks(n) + 1 ELSE bytesToBlocks(n)
      /\ n <= BlockSize /\ n # 0 => bytesToBlocks(n) = 1
  BY BlocksHold, BlocksArith
<1>2. n + 1 # 0 /\ 0 % BlockSize = 0
  BY SizeAssumption
<1> QED
  BY <1>1, <1>2 DEF DirDepth

\* No two entries have the same name, so there are no more of them than names.
LEMMA DirFits ==
    ASSUME NEW dir \in Seq(dirEntry), Unique(dir), OneBlockDir
    PROVE  Len(dir) <= BlockSize /\ DirDepth(Len(dir)) = 1
<1> DEFINE L == Len(dir)
           g == [i \in 1 .. L |-> dir[i].name]
<1>1. L \in Nat /\ \A i \in 1 .. L : dir[i] \in dirEntry
  OBVIOUS
<1>2. \A i \in 1 .. L : dir[i].name \in Names
  BY <1>1 DEF dirEntry
<1>3. g \in Injection(1 .. L, Names)
  BY <1>2 DEF Injection, IsInjective, Unique
<1>4. IsFiniteSet(Names) /\ Cardinality(Names) <= BlockSize
  BY DEF OneBlockDir
<1>5. Cardinality(1 .. L) = L
  <2>1. 1 \in Int /\ L \in Int /\ (IF 1 > L THEN 0 ELSE L - 1 + 1) = L
    BY <1>1
  <2> HIDE DEF L, g
  <2> QED
    BY <2>1, FS_Interval
<1> HIDE DEF L, g
<1>6. Cardinality(1 .. L) <= Cardinality(Names)
  BY <1>3, <1>4, FS_Injection
<1>7. Cardinality(Names) \in Nat /\ BlockSize \in Nat
  BY <1>4, FS_CardinalityType, SizeAssumption
<1>8. L <= BlockSize
  BY <1>1, <1>4, <1>5, <1>6, <1>7
<1> QED
  BY <1>1, <1>8, DirDepthLemma DEF L

\* Looking a name up.
LEMMA FoundFacts ==
    ASSUME NEW f, f.dir \in Seq(dirEntry), NEW name
    PROVE  /\ Found(f, name) =>
                /\ getDirEntryNode(f, name) \in 1 .. Len(f.dir)
                /\ Entry(f, name) = f.dir[getDirEntryNode(f, name)]
                /\ Entry(f, name) \in dirEntry
                /\ Entry(f, name).name = name
           /\ ~Found(f, name) => \A i \in 1 .. Len(f.dir) : f.dir[i].name # name
<1> DEFINE N == {i \in 1 .. Len(f.dir) : f.dir[i].name = name}
<1>1. getDirEntryNode(f, name) = IF N # {} THEN Min(N) ELSE 0
  BY DEF getDirEntryNode, SelectInSeq
<1>2. N \in SUBSET Nat /\ 0 \notin N
  OBVIOUS
<1>3. ASSUME N # {}
      PROVE  Min(N) \in N
  <2> HIDE DEF N
  <2>1. \E n \in N : \A m \in N : n <= m
    BY <1>2, <1>3, LeastOf
  <2> QED
    BY <2>1 DEF Min
<1>4. Found(f, name) <=> N # {}
  <2> HIDE DEF N
  <2> QED
    BY <1>1, <1>2, <1>3 DEF Found
<1>5. ASSUME Found(f, name)
      PROVE  /\ getDirEntryNode(f, name) \in 1 .. Len(f.dir)
             /\ f.dir[getDirEntryNode(f, name)].name = name
  BY <1>1, <1>3, <1>4, <1>5
<1>6. ASSUME ~Found(f, name)
      PROVE  \A i \in 1 .. Len(f.dir) : f.dir[i].name # name
  BY <1>4, <1>6
<1>7. \A i \in 1 .. Len(f.dir) : f.dir[i] \in dirEntry
  OBVIOUS
<1> QED
  BY <1>5, <1>6, <1>7 DEF Entry

\* A file system with another table, directory and count.
LEMMA FatRecord ==
    ASSUME NEW f \in FatState, NEW blocks, NEW dir, NEW n
    PROVE  [f EXCEPT !.blocks = blocks, !.dir = dir, !.freeBlocks = n]
             = [blocks |-> blocks, disk |-> f.disk, dir |-> dir, freeBlocks |-> n]
<1> DEFINE g  == [f EXCEPT !.blocks = blocks, !.dir = dir, !.freeBlocks = n]
           g1 == [f EXCEPT !.blocks = blocks]
           g2 == [g1 EXCEPT !.dir = dir]
           g3 == [g2 EXCEPT !.freeBlocks = n]
<1>1. g = g3
  OBVIOUS
<1> HIDE DEF g
<1>2. g1 = [blocks |-> blocks, disk |-> f.disk, dir |-> f.dir, freeBlocks |-> f.freeBlocks]
  BY DEF FatState
<1> HIDE DEF g1
<1>3. g2 = [blocks |-> blocks, disk |-> f.disk, dir |-> dir, freeBlocks |-> f.freeBlocks]
  BY <1>2
<1> HIDE DEF g2
<1>4. g3 = [blocks |-> blocks, disk |-> f.disk, dir |-> dir, freeBlocks |-> n]
  BY <1>3
<1> HIDE DEF g3
<1> QED
  BY <1>1, <1>4 DEF g
-----------------------------------------------------------------------------
(* rm. *)

\* Freeing what a file has, which is nothing if it is empty.
LEMMA HelperFrees ==
    ASSUME NEW blocks \in Table, NEW e \in dirEntry, e.size = 0 => e.firstBlock = 0
    PROVE  deleteFileHelper(blocks, e) = FreeChain(blocks, e.firstBlock)
<1>1. CASE e.size = 0
  <2>1. Chain(blocks, e.firstBlock) = {}
    BY <1>1, NoChain
  <2>2. FreeChain(blocks, e.firstBlock) = [c \in DOMAIN blocks |-> blocks[c]]
    BY <2>1 DEF FreeChain
  <2> QED
    BY <1>1, <2>2 DEF deleteFileHelper, Table
<1>2. CASE e.size # 0
  BY <1>2 DEF deleteFileHelper
<1> QED
  BY <1>1, <1>2

\* What a sound file system says of one entry.
LEMMA EntryFacts ==
    ASSUME NEW dir \in Seq(dirEntry), NEW d \in Nat, NEW blocks,
           Laid(blocks, 0 .. Len(dir), Heads(dir), Depths(dir, d)), NEW i \in 1 .. Len(dir)
    PROVE  /\ i \in 0 .. Len(dir) /\ i # 0
           /\ dir[i] \in dirEntry /\ dir[i].size \in Nat
           /\ Heads(dir)[i] = dir[i].firstBlock
           /\ Depths(dir, d)[i] = bytesToBlocks(dir[i].size)
           /\ bytesToBlocks(dir[i].size) \in Nat
           /\ bytesToBlocks(dir[i].size) = 0 <=> dir[i].size = 0
           /\ dir[i].size = 0 => dir[i].firstBlock = 0
           /\ dir[i].size # 0 => Sound(blocks, dir[i].firstBlock, bytesToBlocks(dir[i].size))
<1>1. Len(dir) \in Nat /\ i \in 0 .. Len(dir) /\ i # 0 /\ dir[i] \in dirEntry
  OBVIOUS
<1>2. dir[i].size \in Nat
  BY <1>1 DEF dirEntry
<1>3. /\ Heads(dir)[i] = dir[i].firstBlock
      /\ Depths(dir, d)[i] = bytesToBlocks(dir[i].size)
  BY <1>1 DEF Heads, Depths
<1>4. /\ bytesToBlocks(dir[i].size) \in Nat
      /\ bytesToBlocks(dir[i].size) = 0 <=> dir[i].size = 0
  BY <1>2, BlocksHold, BlocksArith
<1>5. IF Depths(dir, d)[i] = 0 THEN Heads(dir)[i] = 0
      ELSE Sound(blocks, Heads(dir)[i], Depths(dir, d)[i])
  BY <1>1 DEF Laid
<1> QED
  BY <1>1, <1>2, <1>3, <1>4, <1>5

\* deleteFile gives the blocks of the file back and closes the gap.
LEMMA DeleteGood ==
    ASSUME NEW f, NEW d, Good(f, d), NEW name, Found(f, name), MayWrite(Entry(f, name))
    PROVE  /\ deleteFile(f, name).ok
           /\ LET g == deleteFile(f, name).fat IN
              /\ Good(g, d) /\ g.disk = f.disk
              /\ Len(g.dir) = Len(f.dir) - 1
              /\ \A j \in 1 .. Len(g.dir) : g.dir[j].name # name
              /\ \A i \in 1 .. Len(f.dir) : f.dir[i].name # name =>
                    \E j \in 1 .. Len(g.dir) : g.dir[j] = f.dir[i]
<1> DEFINE dir == f.dir
           L == Len(dir)
           i == getDirEntryNode(f, name)
           e == dir[i]
           k == bytesToBlocks(e.size)
           I == 0 .. L
           H == Heads(dir)
           K == Depths(dir, d)
           blocks == FreeChain(f.blocks, e.firstBlock)
           short == RemoveAt(dir, i)
           J == 0 .. L - 1
           to == [j \in J |-> IF j < i THEN j ELSE j + 1]
           g == deleteFile(f, name).fat
<1>1. /\ f \in FatState /\ f.blocks[0] = Meta /\ Unique(dir) /\ d \in Nat \ {0}
      /\ Laid(f.blocks, I, H, K)
      /\ f.freeBlocks <= Cardinality(FreeOf(f.blocks))
      /\ f.freeBlocks + DirDepth(L) <= Cardinality(FreeOf(f.blocks)) + d
      /\ OneBlockDir => d = 1 /\ f.freeBlocks = Cardinality(FreeOf(f.blocks))
  BY DEF Good
<1>2. f.blocks \in Table /\ dir \in Seq(dirEntry) /\ f.freeBlocks \in Nat /\ f.disk \in Region
  BY <1>1 DEF FatState
<1>3. i \in 1 .. L /\ Entry(f, name) = e /\ e \in dirEntry /\ e.name = name
  BY <1>2, FoundFacts
<1>4. L \in Nat /\ \A j \in 1 .. L : dir[j] \in dirEntry
  BY <1>2
<1> HIDE DEF dir, i, L
<1>5. /\ i \in I /\ i # 0 /\ H[i] = e.firstBlock /\ K[i] = k /\ k \in Nat
      /\ e.size = 0 => e.firstBlock = 0
  <2>1. Laid(f.blocks, 0 .. Len(dir), Heads(dir), Depths(dir, d)) /\ i \in 1 .. Len(dir)
        /\ d \in Nat
    BY <1>1, <1>3 DEF L
  <2> QED
    BY <1>2, <2>1, EntryFacts DEF L
<1>6. deleteFileHelper(f.blocks, e) = blocks
  BY <1>2, <1>3, <1>5, HelperFrees
<1> HIDE DEF e, k
<1>7. /\ Laid(blocks, I, [H EXCEPT ![i] = 0], [K EXCEPT ![i] = 0])
      /\ blocks[0] = f.blocks[0]
      /\ Cardinality(FreeOf(blocks)) = Cardinality(FreeOf(f.blocks)) + k
  <2> HIDE DEF I, H, K
  <2> QED
    BY <1>1, <1>5, LaidFree
<1>8. blocks \in Table
  BY <1>7 DEF Laid
<1> HIDE DEF blocks
<1>9. /\ short \in Seq(dirEntry) /\ Len(short) = L - 1
      /\ \A j \in 1 .. L - 1 : short[j] = IF j < i THEN dir[j] ELSE dir[j + 1]
  BY <1>2, <1>3, RemoveAtProperties DEF L
<1> HIDE DEF short
<1>10. deleteFile(f, name) = Done([f EXCEPT !.blocks = blocks, !.dir = short,
                                            !.freeBlocks = f.freeBlocks + k])
  <2>1. deleteFile(f, name)
          = Done([f EXCEPT !.blocks = deleteFileHelper(@, e), !.dir = RemoveAt(@, i),
                           !.freeBlocks = @ + bytesToBlocks(e.size)])
    BY <1>3 DEF deleteFile, i
  <2> QED
    BY <1>6, <2>1 DEF short, k, dir
<1>11. /\ deleteFile(f, name).ok
       /\ g \in FatState
       /\ g.blocks = blocks /\ g.dir = short /\ g.freeBlocks = f.freeBlocks + k
       /\ g.disk = f.disk
  <2>1. f.freeBlocks + k \in Nat
    BY <1>2, <1>5
  <2> DEFINE n == f.freeBlocks + k
             h == [f EXCEPT !.blocks = blocks, !.dir = short, !.freeBlocks = n]
  <2>2. deleteFile(f, name) = [ok |-> TRUE, fat |-> h]
    BY <1>10 DEF Done
  <2>3. n \in Nat
    BY <2>1
  <2> HIDE DEF n
  <2>4. h = [blocks |-> blocks, disk |-> f.disk, dir |-> short, freeBlocks |-> n]
    <3>1. f \in FatState
      BY <1>1
    <3>2. \A bs, ds, m : [f EXCEPT !.blocks = bs, !.dir = ds, !.freeBlocks = m]
                           = [blocks |-> bs, disk |-> f.disk, dir |-> ds, freeBlocks |-> m]
      BY <3>1, FatRecord, Zenon
    <3> HIDE DEF blocks, short
    <3> QED
      BY <3>2, Zenon
  <2> HIDE DEF h
  <2>5. h \in FatState
    BY <1>2, <1>8, <1>9, <2>3, <2>4 DEF FatState
  <2> QED
    BY <2>2, <2>4, <2>5 DEF n
<1> HIDE DEF g
<1>12. /\ to \in [J -> I] /\ \A a, b \in J : to[a] = to[b] => a = b
       /\ \A a \in I : a # i => \E j \in J : to[j] = a
       /\ \A j \in J : to[j] # i
       /\ to[0] = 0 /\ \A j \in 1 .. L - 1 : to[j] # 0 /\ short[j] = dir[to[j]] /\ to[j] \in 1 .. L
  <2>1. to \in [J -> I] /\ \A j \in J : to[j] # i
    BY <1>3, <1>4
  <2>2. \A a, b \in J : to[a] = to[b] => a = b
    BY <1>3, <1>4
  <2>3. ASSUME NEW a \in I, a # i
        PROVE  \E j \in J : to[j] = a
    <3>1. CASE a < i
      <4>1. a \in J
        BY <1>3, <1>4, <3>1
      <4> QED
        BY <3>1, <4>1
    <3>2. CASE ~(a < i)
      <4>1. a - 1 \in J /\ ~(a - 1 < i) /\ (a - 1) + 1 = a
        BY <1>3, <1>4, <2>3, <3>2
      <4> QED
        BY <4>1
    <3> QED
      BY <3>1, <3>2
  <2>4. to[0] = 0
    BY <1>3, <1>4
  <2>5. ASSUME NEW j \in 1 .. L - 1
        PROVE  to[j] # 0 /\ short[j] = dir[to[j]] /\ to[j] \in 1 .. L
    BY <1>3, <1>4, <1>9
  <2> QED
    BY <2>1, <2>2, <2>3, <2>4, <2>5
<1> HIDE DEF to
<1>13. Laid(blocks, J, Heads(short), Depths(short, d))
  <2> DEFINE H0 == [H EXCEPT ![i] = 0]
             K0 == [K EXCEPT ![i] = 0]
             H1 == [j \in J |-> H0[to[j]]]
             K1 == [j \in J |-> K0[to[j]]]
  <2>1. \A a \in I : a # i => H0[a] = H[a] /\ K0[a] = K[a]
    BY DEF Heads, Depths, L
  <2>2. K0[i] = 0
    BY <1>5 DEF Depths, L
  <2>3. \A j \in J : H0[to[j]] = Heads(short)[j] /\ K0[to[j]] = Depths(short, d)[j]
    <3> SUFFICES ASSUME NEW j \in J
                 PROVE  H[to[j]] = Heads(short)[j] /\ K[to[j]] = Depths(short, d)[j]
      BY <1>12, <2>1
    <3>1. j \in 0 .. Len(short) /\ to[j] \in 0 .. Len(dir)
      BY <1>9, <1>12 DEF L
    <3>2. CASE j = 0
      BY <1>12, <3>1, <3>2 DEF Heads, Depths
    <3>3. CASE j # 0
      <4>1. j \in 1 .. L - 1
        BY <1>4, <3>3
      <4>2. to[j] # 0 /\ short[j] = dir[to[j]]
        BY <1>12, <4>1
      <4> QED
        BY <3>1, <3>3, <4>2 DEF Heads, Depths
    <3> QED
      BY <3>2, <3>3
  <2>4. Heads(short) = [j \in J |-> Heads(short)[j]] /\ Depths(short, d) = [j \in J |-> Depths(short, d)[j]]
    BY <1>9 DEF Heads, Depths
  <2>5. Heads(short) = H1 /\ Depths(short, d) = K1
    <3> HIDE DEF H0, K0
    <3> QED
      BY <2>3, <2>4
  <2>6. \A a \in I : K0[a] # 0 => \E j \in J : to[j] = a
    BY <1>12, <2>2
  <2>7. Laid(blocks, I, H0, K0)
    BY <1>7
  <2> HIDE DEF H0, K0, I, J
  <2> QED
    BY <1>12, <2>5, <2>6, <2>7, LaidAgain
<1>14. Unique(short)
  <2> SUFFICES ASSUME NEW a \in 1 .. L - 1, NEW b \in 1 .. L - 1, a # b
               PROVE  short[a].name # short[b].name
    BY <1>9 DEF Unique
  <2>1. a \in J /\ b \in J
    BY <1>4
  <2>2. to[a] # to[b] /\ to[a] \in 1 .. L /\ to[b] \in 1 .. L
    BY <1>12, <2>1
  <2>3. dir[to[a]].name # dir[to[b]].name
    BY <1>1, <2>2 DEF Unique, L
  <2> QED
    BY <1>12, <2>3
<1>15. DirDepth(L - 1) \in Nat \ {0} /\ DirDepth(L) \in Nat /\ DirDepth(L - 1) <= DirDepth(L)
  <2>1. L - 1 \in Nat /\ (L - 1) + 1 = L
    BY <1>3, <1>4
  <2> QED
    BY <2>1, <1>4, DirDepthLemma
<1>16. Cardinality(FreeOf(f.blocks)) \in Nat
  BY FreeFinite
<1>17. Good(g, d)
  <2>1. Laid(g.blocks, 0 .. Len(g.dir), Heads(g.dir), Depths(g.dir, d))
    BY <1>9, <1>11, <1>13
  <2>2. g.freeBlocks <= Cardinality(FreeOf(g.blocks))
    BY <1>1, <1>2, <1>5, <1>7, <1>11, <1>16
  <2>3. g.freeBlocks + DirDepth(Len(g.dir)) <= Cardinality(FreeOf(g.blocks)) + d
    BY <1>1, <1>2, <1>5, <1>7, <1>9, <1>11, <1>15, <1>16
  <2>4. OneBlockDir => d = 1 /\ g.freeBlocks = Cardinality(FreeOf(g.blocks))
    BY <1>1, <1>2, <1>5, <1>7, <1>11, <1>16
  <2>5. g.blocks[0] = Meta
    BY <1>1, <1>7, <1>11
  <2> QED
    BY <1>1, <1>11, <1>14, <2>1, <2>2, <2>3, <2>4, <2>5 DEF Good
<1>18. \A j \in 1 .. Len(short) : short[j].name # name
  <2> SUFFICES ASSUME NEW j \in 1 .. L - 1 PROVE short[j].name # name
    BY <1>9
  <2>1. j \in J
    BY <1>4
  <2>2. to[j] \in 1 .. L /\ to[j] # i
    BY <1>12, <2>1
  <2>3. dir[to[j]].name # dir[i].name
    BY <1>1, <1>3, <2>2 DEF Unique, L
  <2> QED
    BY <1>3, <1>12, <2>3 DEF e
<1>19. \A a \in 1 .. L : dir[a].name # name => \E j \in 1 .. Len(short) : short[j] = dir[a]
  <2> SUFFICES ASSUME NEW a \in 1 .. L, dir[a].name # name
               PROVE  \E j \in 1 .. L - 1 : short[j] = dir[a]
    BY <1>9
  <2>1. a # i
    BY <1>3 DEF e
  <2>2. PICK j \in J : to[j] = a
    <3>1. a \in I
      BY <1>4
    <3> QED
      BY <1>12, <2>1, <3>1
  <2>3. j # 0
    BY <1>4, <1>12, <2>2
  <2>4. j \in 1 .. L - 1
    BY <1>4, <2>3
  <2> QED
    BY <1>12, <2>2, <2>4
<1> QED
  BY <1>9, <1>11, <1>17, <1>18, <1>19 DEF g, dir, L
-----------------------------------------------------------------------------
(* Writing a chain anew. *)

\* Nothing to write changes nothing.
LEMMA NothingWritten ==
    \A blocks \in Table, disk \in Region, start, offset \in Nat, bytes \in Seq(Cell) :
        bytes = <<>> =>
            WriteCells(blocks, disk, start, offset, bytes)
              = WriteLoop(blocks, disk, start, offset, bytes)[0]
<1> TAKE blocks \in Table, disk \in Region, start, offset \in Nat, bytes \in Seq(Cell)
<1>1. bytes = <<>> => Len(bytes) = 0
  OBVIOUS
<1> QED
  BY <1>1, Zenon DEF WriteCells

\* The block where a new chain begins.
LEMMA FirstFreeStart ==
    ASSUME NEW blocks
    PROVE  /\ FirstFree(blocks, 1, 1) \in Block
           /\ FreeOf(blocks) # {} =>
                 /\ FirstFree(blocks, 1, 1) \in FreeOf(blocks)
                 /\ \A b \in FreeOf(blocks) : FirstFree(blocks, 1, 1) <= b
<1> DEFINE start == FirstFree(blocks, 1, 1)
<1>1. (\E b \in 1 .. NumEntries - 1 : blocks[b] = Free) =>
          start \in FreeOf(blocks) /\ \A b \in FreeOf(blocks) : b >= 1 => start <= b
  <2>1. 1 \in Nat \ {0}
    OBVIOUS
  <2> QED
    BY <2>1, FirstFreeLemma
<1>2. FreeOf(blocks) # {} <=> \E b \in 1 .. NumEntries - 1 : blocks[b] = Free
  BY SizeFacts DEF FreeOf
<1>3. \A b \in FreeOf(blocks) : b \in Block /\ b >= 1
  BY SizeFacts DEF FreeOf
<1>4. CASE FreeOf(blocks) # {}
  <2> HIDE DEF start
  <2> QED
    BY <1>1, <1>2, <1>3, <1>4 DEF start
<1>5. CASE FreeOf(blocks) = {}
  <2>1. start = 1
    BY <1>2, <1>5 DEF FirstFree
  <2> HIDE DEF start
  <2> QED
    BY <1>5, <2>1, SizeFacts DEF start
<1> QED
  BY <1>4, <1>5

\* Writing where nothing is yet takes as many blocks as there is to write.
LEMMA WriteAnew ==
    ASSUME NEW blocks, NEW I, NEW head, NEW k, Laid(blocks, I, head, k), NEW i \in I, k[i] = 0,
           NEW disk \in Region, NEW bytes \in Seq(Cell), NEW m, m = bytesToBlocks(Len(bytes)),
           m <= Cardinality(FreeOf(blocks)), NEW start \in Block,
           FreeOf(blocks) # {} => start \in FreeOf(blocks) /\ \A b \in FreeOf(blocks) : start <= b
    PROVE  LET w == WriteCells(blocks, disk, start, 0, bytes)
               first == IF bytes = <<>> THEN 0 ELSE start
           IN /\ w.disk \in Region
              /\ Laid(w.blocks, I, [head EXCEPT ![i] = first], [k EXCEPT ![i] = m])
              /\ Cardinality(FreeOf(w.blocks)) = Cardinality(FreeOf(blocks)) - m
              /\ w.blocks[0] = blocks[0]
<1> DEFINE w == WriteCells(blocks, disk, start, 0, bytes)
<1>1. blocks \in Table /\ head \in [I -> 0 .. NumEntries - 1] /\ k \in [I -> Nat]
      /\ (IF k[i] = 0 THEN head[i] = 0 ELSE Sound(blocks, head[i], k[i]))
  BY DEF Laid
<1>2. Len(bytes) \in Nat /\ m \in Nat /\ (m = 0 <=> Len(bytes) = 0) /\ (bytes = <<>> <=> Len(bytes) = 0)
  <2>1. Len(bytes) \in Nat /\ (bytes = <<>> <=> Len(bytes) = 0)
    OBVIOUS
  <2> QED
    BY <2>1, BlocksHold, BlocksArith
<1>3. Cardinality(FreeOf(blocks)) \in Nat /\ IsFiniteSet(FreeOf(blocks))
  BY FreeFinite
<1>9. start \in Nat /\ 0 \in Nat
  BY SizeFacts
<1>0. bytes = <<>> => w.blocks = blocks /\ w.disk = disk
  <2>1. blocks \in Table /\ start \in Nat /\ 0 \in Nat
    BY <1>1, <1>9
  <2> DEFINE v == WriteLoop(blocks, disk, start, 0, bytes)
  <2>2. bytes = <<>> => w = v[0]
    BY <2>1, NothingWritten
  <2>3. /\ v[0] = [blocks |-> blocks, disk |-> disk, currIndex |-> start, byteIdx |-> 0,
                   position |-> (start - 1) * BlockSize + 0]
        /\ \A j \in 0 .. Len(bytes) - 1 : v[j + 1] = WriteCell(0, v[j], bytes[j + 1])
    BY LoopSteps
  <2> HIDE DEF v, w
  <2> QED
    BY <2>2, <2>3
<1>5. CASE bytes = <<>>
  <2>5. w.blocks = blocks /\ w.disk = disk
    BY <1>0, <1>5
  <2> HIDE DEF w
  <2>6. head = [head EXCEPT ![i] = 0] /\ k = [k EXCEPT ![i] = m] /\ m = 0
    BY <1>1, <1>2, <1>5
  <2>7. Cardinality(FreeOf(w.blocks)) = Cardinality(FreeOf(blocks)) - m
    BY <1>3, <2>5, <2>6
  <2>8. Laid(w.blocks, I, [head EXCEPT ![i] = 0], [k EXCEPT ![i] = m])
    BY <2>5, <2>6
  <2> QED
    BY <1>5, <2>5, <2>6, <2>7, <2>8 DEF w
<1>6. CASE bytes # <<>>
  <2>1. FreeOf(blocks) # {}
    BY <1>2, <1>3, <1>6, FS_EmptySet
  <2>2. start \in FreeOf(blocks) /\ \A b \in FreeOf(blocks) : start <= b
    BY <2>1
  <2>3. bytesToBlocks(Len(bytes)) <= Cardinality(FreeOf(blocks))
    OBVIOUS
  <2>4. w.disk \in Region
    BY <1>1, <1>6, <2>2, <2>3, WriteAllocates
  <2>5. PICK c : Linked(blocks, w.blocks, c, bytesToBlocks(Len(bytes))) /\ c[1] = start
    BY <1>1, <1>6, <2>2, <2>3, WriteAllocates
  <2> HIDE DEF w
  <2>6. Linked(blocks, w.blocks, c, m)
    BY <2>5
  <2>7. Laid(w.blocks, I, [head EXCEPT ![i] = c[1]], [k EXCEPT ![i] = m])
    BY <2>6, LaidAlloc
  <2>8. Cardinality(FreeOf(w.blocks)) = Cardinality(FreeOf(blocks)) - m
    BY <2>6, LinkedFacts
  <2>9. w.blocks[0] = blocks[0]
    BY <2>6 DEF Linked
  <2> QED
    BY <1>6, <2>4, <2>5, <2>7, <2>8, <2>9 DEF w
<1> QED
  BY <1>5, <1>6

\* The directory with one entry changed.
LEMMA EntryChanged ==
    ASSUME NEW dir \in Seq(dirEntry), NEW i \in 1 .. Len(dir), NEW e \in dirEntry
    PROVE  [dir EXCEPT ![i] = e] \in Seq(dirEntry) /\ Len([dir EXCEPT ![i] = e]) = Len(dir)
OBVIOUS

\* The first blocks of a directory of which one entry is changed.
LEMMA HeadChanged ==
    ASSUME NEW dir \in Seq(dirEntry), NEW i \in 1 .. Len(dir), NEW e \in dirEntry
    PROVE  Heads(Replaced(dir, i, e)) = Replaced(Heads(dir), i, e.firstBlock)
<1> DEFINE s == [dir EXCEPT ![i] = e]
<1>1. /\ Len(s) = Len(dir) /\ Len(dir) \in Nat
      /\ \A j \in 1 .. Len(dir) : s[j] = IF j = i THEN e ELSE dir[j]
  OBVIOUS
<1>2. i \in 0 .. Len(dir) /\ i # 0
  BY <1>1
<1> HIDE DEF s
<1>3. Heads(s) = [Heads(dir) EXCEPT ![i] = e.firstBlock]
  <2>1. Heads(s) = [j \in 0 .. Len(dir) |-> IF j = 0 THEN 1 ELSE s[j].firstBlock]
    BY <1>1 DEF Heads
  <2>2. [Heads(dir) EXCEPT ![i] = e.firstBlock]
          = [j \in 0 .. Len(dir) |-> IF j = i THEN e.firstBlock
                                     ELSE IF j = 0 THEN 1 ELSE dir[j].firstBlock]
    BY <1>2 DEF Heads
  <2>3. ASSUME NEW j \in 0 .. Len(dir)
        PROVE  (IF j = 0 THEN 1 ELSE s[j].firstBlock)
                 = IF j = i THEN e.firstBlock ELSE IF j = 0 THEN 1 ELSE dir[j].firstBlock
    <3>1. j # 0 => s[j] = IF j = i THEN e ELSE dir[j]
      BY <1>1
    <3> QED
      BY <1>2, <3>1
  <2> QED
    BY <2>1, <2>2, <2>3
<1> QED
  BY <1>3 DEF s, Replaced

\* And the numbers of their blocks.
LEMMA DepthChanged ==
    ASSUME NEW dir \in Seq(dirEntry), NEW d, NEW i \in 1 .. Len(dir), NEW e \in dirEntry
    PROVE  Depths(Replaced(dir, i, e), d) = Replaced(Depths(dir, d), i, bytesToBlocks(e.size))
<1> DEFINE s == [dir EXCEPT ![i] = e]
<1>1. /\ Len(s) = Len(dir) /\ Len(dir) \in Nat
      /\ \A j \in 1 .. Len(dir) : s[j] = IF j = i THEN e ELSE dir[j]
  OBVIOUS
<1>2. i \in 0 .. Len(dir) /\ i # 0
  BY <1>1
<1> HIDE DEF s
<1>3. Depths(s, d) = [Depths(dir, d) EXCEPT ![i] = bytesToBlocks(e.size)]
  <2>1. Depths(s, d) = [j \in 0 .. Len(dir) |-> IF j = 0 THEN d ELSE bytesToBlocks(s[j].size)]
    BY <1>1 DEF Depths
  <2>2. [Depths(dir, d) EXCEPT ![i] = bytesToBlocks(e.size)]
          = [j \in 0 .. Len(dir) |-> IF j = i THEN bytesToBlocks(e.size)
                                     ELSE IF j = 0 THEN d ELSE bytesToBlocks(dir[j].size)]
    BY <1>2 DEF Depths
  <2>3. ASSUME NEW j \in 0 .. Len(dir)
        PROVE  (IF j = 0 THEN d ELSE bytesToBlocks(s[j].size))
                 = IF j = i THEN bytesToBlocks(e.size) ELSE IF j = 0 THEN d ELSE bytesToBlocks(dir[j].size)
    <3>1. j # 0 => s[j] = IF j = i THEN e ELSE dir[j]
      BY <1>1
    <3> QED
      BY <1>2, <3>1
  <2> QED
    BY <2>1, <2>2, <2>3
<1> QED
  BY <1>3 DEF s, Replaced

\* The directory with one entry more, of an empty file, and then of any.
LEMMA EntryAppended ==
    ASSUME NEW dir \in Seq(dirEntry), NEW e \in dirEntry
    PROVE  /\ Append(dir, e) \in Seq(dirEntry) /\ Len(Append(dir, e)) = Len(dir) + 1
           /\ \A j \in 1 .. Len(dir) : Append(dir, e)[j] = dir[j]
           /\ Append(dir, e)[Len(dir) + 1] = e
OBVIOUS

\* A directory to which an entry is to be added: with an entry of no blocks it is
\* laid out as before.
LEMMA EntryAdded ==
    ASSUME NEW dir \in Seq(dirEntry), NEW d, NEW blocks,
           Laid(blocks, 0 .. Len(dir), Heads(dir), Depths(dir, d)), NEW e \in dirEntry
    PROVE  \E head, k :
              /\ Laid(blocks, 0 .. Len(dir) + 1, head, k) /\ k[Len(dir) + 1] = 0
              /\ Heads(Append(dir, e)) = [head EXCEPT ![Len(dir) + 1] = e.firstBlock]
              /\ Depths(Append(dir, e), d)
                   = [k EXCEPT ![Len(dir) + 1] = bytesToBlocks(e.size)]
<1> DEFINE L == Len(dir) + 1
           s == Append(dir, e)
           H == Heads(dir)
           K == Depths(dir, d)
           I == 0 .. Len(dir)
           J == 0 .. L
           head == [j \in J |-> IF j = L THEN 0 ELSE H[j]]
           k == [j \in J |-> IF j = L THEN 0 ELSE K[j]]
<1>1. /\ s \in Seq(dirEntry) /\ Len(s) = L /\ L \in Nat /\ L \in J /\ L # 0
      /\ \A j \in 1 .. Len(dir) : s[j] = dir[j]
      /\ s[L] = e
  OBVIOUS
<1>2. I \subseteq J /\ J \ {L} = I /\ L \notin I /\ L \in J
  OBVIOUS
<1>3. Heads(s) = [head EXCEPT ![L] = e.firstBlock]
  <2>1. \A j \in J : Heads(s)[j] = [head EXCEPT ![L] = e.firstBlock][j]
    <3> SUFFICES ASSUME NEW j \in J
                 PROVE  Heads(s)[j] = IF j = L THEN e.firstBlock ELSE H[j]
      BY <1>1
    <3>1. Heads(s)[j] = IF j = 0 THEN 1 ELSE s[j].firstBlock
      BY <1>1 DEF Heads
    <3>2. CASE j = L
      BY <1>1, <3>1, <3>2
    <3>3. CASE j # L
      <4>1. j \in 0 .. Len(dir)
        BY <3>3
      <4>2. H[j] = IF j = 0 THEN 1 ELSE dir[j].firstBlock
        BY <4>1 DEF Heads
      <4>3. j # 0 => s[j] = dir[j]
        BY <1>1, <4>1
      <4> QED
        BY <3>1, <3>3, <4>2, <4>3
    <3> QED
      BY <3>2, <3>3
  <2>2. Heads(s) = [j \in J |-> Heads(s)[j]]
    BY <1>1 DEF Heads
  <2> HIDE DEF s, H, K
  <2> QED
    BY <2>1, <2>2
<1>4. Depths(s, d) = [k EXCEPT ![L] = bytesToBlocks(e.size)]
  <2>1. \A j \in J : Depths(s, d)[j] = [k EXCEPT ![L] = bytesToBlocks(e.size)][j]
    <3> SUFFICES ASSUME NEW j \in J
                 PROVE  Depths(s, d)[j] = IF j = L THEN bytesToBlocks(e.size) ELSE K[j]
      BY <1>1
    <3>1. Depths(s, d)[j] = IF j = 0 THEN d ELSE bytesToBlocks(s[j].size)
      BY <1>1 DEF Depths
    <3>2. CASE j = L
      BY <1>1, <3>1, <3>2
    <3>3. CASE j # L
      <4>1. j \in 0 .. Len(dir)
        BY <3>3
      <4>2. K[j] = IF j = 0 THEN d ELSE bytesToBlocks(dir[j].size)
        BY <4>1 DEF Depths
      <4>3. j # 0 => s[j] = dir[j]
        BY <1>1, <4>1
      <4> QED
        BY <3>1, <3>3, <4>2, <4>3
    <3> QED
      BY <3>2, <3>3
  <2>2. Depths(s, d) = [j \in J |-> Depths(s, d)[j]]
    BY <1>1 DEF Depths
  <2> HIDE DEF s, H, K
  <2> QED
    BY <2>1, <2>2
<1> HIDE DEF s, H, K
<1>5. Laid(blocks, I, H, K)
  BY DEF H, K
<1> HIDE DEF I
<1>6. /\ blocks \in Table
      /\ H \in [I -> 0 .. NumEntries - 1] /\ K \in [I -> Nat]
      /\ \A a \in I : IF K[a] = 0 THEN H[a] = 0 ELSE Sound(blocks, H[a], K[a])
      /\ \A a, b \in I : a # b => Chain(blocks, H[a]) \cap Chain(blocks, H[b]) = {}
      /\ \A b \in Block \ FreeOf(blocks) : \E a \in I : b \in Chain(blocks, H[a])
  BY <1>5 DEF Laid
<1> HIDE DEF L
<1>7. \A a \in I : a \in J /\ a # L /\ head[a] = H[a] /\ k[a] = K[a]
  BY <1>2
<1>8. head[L] = 0 /\ k[L] = 0 /\ \A a \in J : a = L \/ a \in I
  BY <1>2
<1>9. head \in [J -> 0 .. NumEntries - 1] /\ k \in [J -> Nat]
  <2>1. \A a \in J : (IF a = L THEN 0 ELSE H[a]) \in 0 .. NumEntries - 1
                     /\ (IF a = L THEN 0 ELSE K[a]) \in Nat
    BY <1>6, <1>8, SizeFacts
  <2> QED
    BY <2>1
<1> HIDE DEF head, k, J
<1>10. Laid(blocks, J, head, k)
  <2>1. \A a \in J : IF k[a] = 0 THEN head[a] = 0 ELSE Sound(blocks, head[a], k[a])
    BY <1>6, <1>7, <1>8
  <2>2. Chain(blocks, head[L]) = {}
    BY <1>8, NoChain
  <2>3. \A a, b \in J : a # b => Chain(blocks, head[a]) \cap Chain(blocks, head[b]) = {}
    BY <1>6, <1>7, <1>8, <2>2
  <2>4. \A b \in Block \ FreeOf(blocks) : \E a \in J : b \in Chain(blocks, head[a])
    BY <1>6, <1>7
  <2> QED
    BY <1>6, <1>9, <2>1, <2>3, <2>4 DEF Laid
<1>11. L \in 0 .. L /\ J = 0 .. L
  BY <1>1 DEF J
<1>12. \E hd, kk : /\ Laid(blocks, 0 .. L, hd, kk) /\ kk[L] = 0
                   /\ Heads(s) = [hd EXCEPT ![L] = e.firstBlock]
                   /\ Depths(s, d) = [kk EXCEPT ![L] = bytesToBlocks(e.size)]
  BY <1>3, <1>4, <1>8, <1>10, <1>11
<1> QED
  BY <1>12 DEF s, L

\* A longer directory takes no fewer blocks.
LEMMA DirDepthMono ==
    ASSUME NEW n \in Nat, NEW m \in Nat, n <= m
    PROVE  DirDepth(n) <= DirDepth(m)
<1>1. bytesToBlocks(n) <= bytesToBlocks(m)
  BY BlocksMono
<1>2. /\ bytesToBlocks(n) \in Nat /\ bytesToBlocks(m) \in Nat
      /\ bytesToBlocks(m) = 0 <=> m = 0
  BY BlocksHold, BlocksArith
<1> QED
  BY <1>1, <1>2 DEF DirDepth

\* Which blocks are taken, and how many are counted, decide what stays sound.
LEMMA GoodAfter ==
    ASSUME NEW f, NEW d, Good(f, d), NEW g \in FatState, g.blocks[0] = Meta, Unique(g.dir),
           Laid(g.blocks, 0 .. Len(g.dir), Heads(g.dir), Depths(g.dir, d)),
           NEW used \in Int, Cardinality(FreeOf(g.blocks)) = Cardinality(FreeOf(f.blocks)) - used,
           g.freeBlocks = f.freeBlocks - (used + (DirDepth(Len(g.dir)) - DirDepth(Len(f.dir)))),
           Len(f.dir) <= Len(g.dir)
    PROVE  Good(g, d)
<1>1. /\ f \in FatState /\ Unique(f.dir) /\ d \in Nat \ {0}
      /\ f.freeBlocks <= Cardinality(FreeOf(f.blocks))
      /\ f.freeBlocks + DirDepth(Len(f.dir)) <= Cardinality(FreeOf(f.blocks)) + d
      /\ OneBlockDir => d = 1 /\ f.freeBlocks = Cardinality(FreeOf(f.blocks))
  BY DEF Good
<1>2. f.dir \in Seq(dirEntry) /\ g.dir \in Seq(dirEntry) /\ f.freeBlocks \in Nat /\ g.freeBlocks \in Nat
  BY <1>1 DEF FatState
<1>3. Len(f.dir) \in Nat /\ Len(g.dir) \in Nat
  BY <1>2
<1>4. DirDepth(Len(f.dir)) \in Nat /\ DirDepth(Len(g.dir)) \in Nat
  BY <1>3, DirDepthLemma
<1>5. DirDepth(Len(f.dir)) <= DirDepth(Len(g.dir))
  BY <1>3, DirDepthMono
<1>6. OneBlockDir => DirDepth(Len(f.dir)) = 1 /\ DirDepth(Len(g.dir)) = 1
  BY <1>1, <1>2, DirFits
<1>7. Cardinality(FreeOf(f.blocks)) \in Nat /\ Cardinality(FreeOf(g.blocks)) \in Nat
  BY FreeFinite
<1> DEFINE a == f.freeBlocks
           b == g.freeBlocks
           m == DirDepth(Len(f.dir))
           n == DirDepth(Len(g.dir))
           x == Cardinality(FreeOf(f.blocks))
           y == Cardinality(FreeOf(g.blocks))
<1>8. /\ a \in Nat /\ b \in Nat /\ m \in Nat /\ n \in Nat /\ x \in Nat /\ y \in Nat /\ d \in Nat
      /\ y = x - used /\ b = a - (used + (n - m)) /\ a <= x /\ a + m <= x + d /\ m <= n
  BY <1>1, <1>2, <1>4, <1>5, <1>7
<1>9. OneBlockDir => d = 1 /\ a = x /\ m = 1 /\ n = 1
  BY <1>1, <1>6
<1> HIDE DEF a, b, m, n, x, y
<1>10. b <= y /\ b + n <= y + d
  BY <1>8
<1>11. OneBlockDir => d = 1 /\ b = y
  BY <1>8, <1>9
<1> QED
  BY <1>1, <1>10, <1>11 DEF Good, b, n, y
-----------------------------------------------------------------------------
(* Saving the directory. *)

\* The file system that saveFat returns, field by field.
LEMMA SavedRecord ==
    ASSUME NEW f \in FatState, NEW blocks, NEW disk
    PROVE  [f EXCEPT !.blocks = blocks, !.disk = disk]
             = [blocks |-> blocks, disk |-> disk, dir |-> f.dir, freeBlocks |-> f.freeBlocks]
<1> DEFINE g  == [f EXCEPT !.blocks = blocks, !.disk = disk]
           g1 == [f EXCEPT !.blocks = blocks]
           g2 == [g1 EXCEPT !.disk = disk]
<1>1. g = g2
  OBVIOUS
<1> HIDE DEF g
<1>2. g1 = [blocks |-> blocks, disk |-> f.disk, dir |-> f.dir, freeBlocks |-> f.freeBlocks]
  BY DEF FatState
<1> HIDE DEF g1
<1>3. g2 = [blocks |-> blocks, disk |-> disk, dir |-> f.dir, freeBlocks |-> f.freeBlocks]
  BY <1>2
<1> HIDE DEF g2
<1> QED
  BY <1>1, <1>3 DEF g

\* The cells that saveFat writes: the entries, and a zero byte if they do not
\* fill their last block.
DirBytes(dir) == IF Len(dir) % BlockSize = 0 THEN dir ELSE Append(dir, Zero)

\* They take the blocks that the entries take.
LEMMA DirBytesFacts ==
    ASSUME NEW dir \in Seq(dirEntry)
    PROVE  /\ DirBytes(dir) \in Seq(Cell)
           /\ bytesToBlocks(Len(DirBytes(dir))) = bytesToBlocks(Len(dir))
           /\ dir # <<>> => bytesToBlocks(Len(dir)) = DirDepth(Len(dir)) /\ DirBytes(dir) # <<>>
<1>1. Len(dir) \in Nat /\ (dir # <<>> => Len(dir) # 0)
  OBVIOUS
<1>2. dir \in Seq(Cell) /\ Append(dir, Zero) \in Seq(Cell)
  <2>1. dirEntry \subseteq Cell /\ Zero \in Cell
    BY DEF Cell
  <2> HIDE DEF Cell
  <2> QED
    BY <2>1
<1>3. Len(Append(dir, Zero)) = Len(dir) + 1
  OBVIOUS
<1>4. bytesToBlocks(Len(dir) + 1) = IF Len(dir) % BlockSize = 0
                                    THEN bytesToBlocks(Len(dir)) + 1 ELSE bytesToBlocks(Len(dir))
  BY <1>1, BlocksArith
<1>5. bytesToBlocks(Len(DirBytes(dir))) = bytesToBlocks(Len(dir))
  BY <1>3, <1>4 DEF DirBytes
<1>6. dir # <<>> => DirBytes(dir) # <<>>
  <2>1. Append(dir, Zero) # <<>>
    <3> DEFINE longer == Append(dir, Zero)
    <3>1. Len(longer) # 0 /\ longer \in Seq(Cell)
      BY <1>1, <1>2, <1>3
    <3> HIDE DEF longer
    <3>2. longer # <<>>
      BY <3>1
    <3> QED
      BY <3>2 DEF longer
  <2> QED
    BY <2>1 DEF DirBytes
<1>7. dir # <<>> => bytesToBlocks(Len(dir)) = DirDepth(Len(dir))
  BY <1>1 DEF DirDepth
<1> QED
  BY <1>2, <1>5, <1>6, <1>7 DEF DirBytes

\* Saving gives the directory's blocks up and takes as many as it needs now,
\* from block 1 on.
LEMMA SaveGood ==
    ASSUME NEW f, NEW d, Good(f, d), f.dir # <<>>
    PROVE  /\ Good(saveFat(f), DirDepth(Len(f.dir)))
           /\ saveFat(f).dir = f.dir
<1> DEFINE dir == f.dir
           n == DirDepth(Len(dir))
           bytes == DirBytes(dir)
           freed == FreeChain(f.blocks, 1)
           w == WriteCells(freed, f.disk, 1, 0, bytes)
           g == saveFat(f)
           I == 0 .. Len(dir)
           H == Heads(dir)
           K == Depths(dir, d)
           H0 == [H EXCEPT ![0] = 0]
           K0 == [K EXCEPT ![0] = 0]
<1>1. /\ f \in FatState /\ f.blocks[0] = Meta /\ Unique(dir) /\ d \in Nat \ {0}
      /\ Laid(f.blocks, I, H, K)
      /\ f.freeBlocks <= Cardinality(FreeOf(f.blocks))
      /\ f.freeBlocks + DirDepth(Len(dir)) <= Cardinality(FreeOf(f.blocks)) + d
      /\ OneBlockDir => d = 1 /\ f.freeBlocks = Cardinality(FreeOf(f.blocks))
  BY DEF Good
<1>2. f.blocks \in Table /\ dir \in Seq(dirEntry) /\ f.freeBlocks \in Nat /\ f.disk \in Region
  BY <1>1 DEF FatState
<1>3. Len(dir) \in Nat /\ 0 \in I
  BY <1>2
<1>4. n \in Nat \ {0}
  BY <1>3, DirDepthLemma
<1>5. H[0] = 1 /\ K[0] = d /\ DOMAIN H = I /\ DOMAIN K = I
  BY <1>3 DEF Heads, Depths
<1>6. g = [blocks |-> w.blocks, disk |-> w.disk, dir |-> dir, freeBlocks |-> f.freeBlocks]
  <2> DEFINE b == w.blocks
             k == w.disk
  <2>1. g = [f EXCEPT !.blocks = b, !.disk = k]
    BY DEF saveFat, DirBytes
  <2> HIDE DEF b, k, g
  <2>2. g = [blocks |-> b, disk |-> k, dir |-> dir, freeBlocks |-> f.freeBlocks]
    BY <1>1, <2>1, SavedRecord, Zenon
  <2> QED
    BY <2>2 DEF b, k
<1>7. /\ bytes \in Seq(Cell) /\ bytes # <<>>
      /\ bytesToBlocks(Len(bytes)) = n
  BY <1>2, DirBytesFacts
<1> HIDE DEF bytes, n, g
<1>8. /\ Laid(freed, I, H0, K0)
      /\ freed[0] = f.blocks[0]
      /\ FreeOf(freed) = FreeOf(f.blocks) \cup Chain(f.blocks, 1)
      /\ Cardinality(FreeOf(freed)) = Cardinality(FreeOf(f.blocks)) + d
  <2>1. LET other == FreeChain(f.blocks, H[0]) IN
        /\ Laid(other, I, [H EXCEPT ![0] = 0], [K EXCEPT ![0] = 0])
        /\ other[0] = f.blocks[0]
        /\ FreeOf(other) = FreeOf(f.blocks) \cup Chain(f.blocks, H[0])
        /\ Cardinality(FreeOf(other)) = Cardinality(FreeOf(f.blocks)) + K[0]
    <3> HIDE DEF I, H, K
    <3> QED
      BY <1>1, <1>3, LaidFree
  <2> QED
    BY <1>5, <2>1
<1>9. 1 \in FreeOf(freed) /\ \A b \in FreeOf(freed) : 1 <= b
  <2>1. Sound(f.blocks, H[0], K[0])
    BY <1>1, <1>3, <1>5 DEF Laid
  <2>2. 1 \in Chain(f.blocks, 1)
    BY <1>5, <2>1, SoundCard
  <2> QED
    BY <1>8, <2>2, SizeFacts DEF FreeOf
<1>10. Cardinality(FreeOf(f.blocks)) \in Nat
  BY FreeFinite
<1>11. n <= Cardinality(FreeOf(freed))
  BY <1>1, <1>2, <1>4, <1>8, <1>10 DEF n
<1>12. K0[0] = 0
  BY <1>3, <1>5
<1> HIDE DEF H0, K0, freed, I, H, K
<1>13. /\ w.disk \in Region
       /\ Laid(w.blocks, I, [H0 EXCEPT ![0] = 1], [K0 EXCEPT ![0] = n])
       /\ Cardinality(FreeOf(w.blocks)) = Cardinality(FreeOf(freed)) - n
       /\ w.blocks[0] = freed[0]
  <2> DEFINE one == 1
             i == 0
             disk == f.disk
             v == WriteCells(freed, disk, one, 0, bytes)
  <2>1. /\ disk \in Region /\ n = bytesToBlocks(Len(bytes))
        /\ one \in Block /\ i \in I /\ K0[i] = 0
        /\ FreeOf(freed) # {} => one \in FreeOf(freed) /\ \A b \in FreeOf(freed) : one <= b
    BY <1>2, <1>3, <1>7, <1>9, <1>12, SizeFacts
  <2> HIDE DEF one, i, disk
  <2>2. LET first == IF bytes = <<>> THEN 0 ELSE one IN
        /\ v.disk \in Region
        /\ Laid(v.blocks, I, [H0 EXCEPT ![i] = first], [K0 EXCEPT ![i] = n])
        /\ Cardinality(FreeOf(v.blocks)) = Cardinality(FreeOf(freed)) - n
        /\ v.blocks[0] = freed[0]
    <3>1. bytes \in Seq(Cell) /\ Laid(freed, I, H0, K0) /\ n <= Cardinality(FreeOf(freed))
      BY <1>7, <1>8, <1>11
    <3> QED
      BY <2>1, <3>1, WriteAnew
  <2> QED
    BY <1>7, <2>2 DEF one, i, disk
<1> HIDE DEF w
<1>14. [H0 EXCEPT ![0] = 1] = Heads(dir) /\ [K0 EXCEPT ![0] = n] = Depths(dir, n)
  BY <1>3 DEF H0, K0, H, K, Heads, Depths, I
<1>15. /\ g \in FatState
       /\ g.blocks = w.blocks /\ g.disk = w.disk /\ g.dir = dir /\ g.freeBlocks = f.freeBlocks
  <2>1. w.blocks \in Table
    BY <1>13 DEF Laid
  <2> QED
    BY <1>2, <1>6, <1>13, <2>1 DEF FatState
<1>16. Laid(g.blocks, 0 .. Len(g.dir), Heads(g.dir), Depths(g.dir, n))
  BY <1>13, <1>14, <1>15 DEF I
<1>17. OneBlockDir => n = 1
  BY <1>1, <1>2, DirFits DEF n
<1>18. Cardinality(FreeOf(g.blocks)) = Cardinality(FreeOf(f.blocks)) + d - n
  BY <1>1, <1>4, <1>8, <1>10, <1>13, <1>15
<1>19. /\ g.freeBlocks <= Cardinality(FreeOf(g.blocks))
       /\ g.freeBlocks + n <= Cardinality(FreeOf(g.blocks)) + n
       /\ OneBlockDir => n = 1 /\ g.freeBlocks = Cardinality(FreeOf(g.blocks))
  BY <1>1, <1>2, <1>4, <1>10, <1>15, <1>17, <1>18 DEF n
<1>20. g.blocks[0] = Meta /\ Unique(g.dir)
  BY <1>1, <1>8, <1>13, <1>15
<1>21. Good(g, n)
  BY <1>4, <1>15, <1>16, <1>19, <1>20 DEF Good, n
<1> QED
  BY <1>15, <1>21 DEF g, n
-----------------------------------------------------------------------------
(* Writing a file. *)

\* A write that is refused changes nothing.
LEMMA WriteRefused ==
    ASSUME NEW f, NEW name, NEW bytes, NEW appending,
           \/ Found(f, name) /\ ~MayWrite(Entry(f, name))
           \/ f.freeBlocks < NeededBlocks(f, name, Len(bytes), appending)
    PROVE  writeFile(f, name, bytes, appending) = Refused(f)
BY Zenon DEF writeFile

\* The entry of a file that is new.
NewEntry(name, size, first) ==
    [name |-> name, size |-> size, firstBlock |-> first, perm |-> READWRITE_PERMS]

\* A write that succeeded: the file system stays sound and has a further file,
\* or one file of it has another size and perhaps another first block.
AddsFile(r, f, d, name, size) ==
    \E g, e : r = Done(g) /\ Good(g, d) /\ g.dir = Append(f.dir, e) /\ e.name = name /\ e.size = size

ChangesFile(r, f, d, name, size) ==
    \E g, e : /\ r = Done(g) /\ Good(g, d)
              /\ g.dir = [f.dir EXCEPT ![getDirEntryNode(f, name)] = e]
              /\ e \in dirEntry /\ e.name = name /\ e.size = size

\* Writing a file that is not there adds it.
LEMMA WriteNew ==
    ASSUME NEW f, NEW d, Good(f, d), NEW name \in Names, ~Found(f, name), NEW bytes \in Seq(Cell),
           NEW appending,
           ~(f.freeBlocks < NeededBlocks(f, name, Len(bytes), appending))
    PROVE  AddsFile(writeFile(f, name, bytes, appending), f, d, name, Len(bytes))
<1> DEFINE dir == f.dir
           blocks == f.blocks
           disk == f.disk
           start == FirstFree(blocks, 1, 1)
           w == WriteCells(blocks, disk, start, 0, bytes)
           first == IF bytes = <<>> THEN 0 ELSE start
           e == NewEntry(name, Len(bytes), first)
           need == NeededBlocks(f, name, Len(bytes), appending)
           m == bytesToBlocks(Len(bytes))
           g == [blocks |-> w.blocks, disk |-> w.disk, freeBlocks |-> f.freeBlocks - need,
                 dir |-> Append(dir, e)]
           L == Len(dir) + 1
           s == Append(dir, e)
<1>1. writeFile(f, name, bytes, appending) = Done(g)
  BY Zenon DEF writeFile, NewEntry
<1>2. /\ f \in FatState /\ f.blocks[0] = Meta /\ Unique(dir) /\ d \in Nat \ {0}
      /\ Laid(blocks, 0 .. Len(dir), Heads(dir), Depths(dir, d))
      /\ f.freeBlocks <= Cardinality(FreeOf(blocks))
  BY DEF Good
<1>3. blocks \in Table /\ dir \in Seq(dirEntry) /\ f.freeBlocks \in Nat /\ disk \in Region
  BY <1>2 DEF FatState
<1>4. Len(dir) \in Nat /\ Len(bytes) \in Nat /\ m \in Nat
  <2>1. Len(bytes) \in Nat
    OBVIOUS
  <2> QED
    BY <1>3, <2>1, BlocksHold
<1>5. need = m + (IF Len(dir) # 0 /\ Len(dir) % BlockSize = 0 THEN 1 ELSE 0)
  BY DEF NeededBlocks
<1>6. need = m + (DirDepth(L) - DirDepth(Len(dir))) /\ need \in Nat
  <2>1. /\ DirDepth(Len(dir)) \in Nat \ {0}
        /\ DirDepth(Len(dir) + 1)
             = DirDepth(Len(dir)) + (IF Len(dir) # 0 /\ Len(dir) % BlockSize = 0 THEN 1 ELSE 0)
    BY <1>4, DirDepthLemma
  <2> QED
    BY <1>4, <1>5, <2>1
<1>7. Cardinality(FreeOf(blocks)) \in Nat /\ need <= f.freeBlocks
  BY <1>3, <1>6, FreeFinite
<1>8. m <= Cardinality(FreeOf(blocks))
  BY <1>2, <1>3, <1>4, <1>5, <1>7
<1>9. /\ start \in Block
      /\ FreeOf(blocks) # {} => start \in FreeOf(blocks) /\ \A b \in FreeOf(blocks) : start <= b
  BY FirstFreeStart
<1>10. first \in Block \cup {0}
  BY <1>9
<1> HIDE DEF need, blocks, disk, start, first
<1>11. e \in dirEntry /\ e.name = name /\ e.size = Len(bytes) /\ e.firstBlock = first
  BY <1>4, <1>10 DEF NewEntry, dirEntry, Permission, READWRITE_PERMS
<1> HIDE DEF e
<1>12. /\ s \in Seq(dirEntry) /\ Len(s) = L /\ L \in 0 .. L
       /\ \A j \in 1 .. Len(dir) : s[j] = dir[j]
       /\ s[L] = e
  <2>1. dir \in Seq(dirEntry) /\ e \in dirEntry
    BY <1>3, <1>11
  <2> HIDE DEF dir
  <2> QED
    BY <1>4, <2>1, EntryAppended
<1>13. PICK head, k : /\ Laid(blocks, 0 .. L, head, k) /\ k[L] = 0
                      /\ Heads(s) = [head EXCEPT ![L] = e.firstBlock]
                      /\ Depths(s, d) = [k EXCEPT ![L] = bytesToBlocks(e.size)]
  <2>1. dir \in Seq(dirEntry) /\ e \in dirEntry /\ Laid(blocks, 0 .. Len(dir), Heads(dir), Depths(dir, d))
    BY <1>2, <1>3, <1>11
  <2> HIDE DEF dir
  <2>2. \E head, k : /\ Laid(blocks, 0 .. L, head, k) /\ k[L] = 0
                     /\ Heads(s) = [head EXCEPT ![L] = e.firstBlock]
                     /\ Depths(s, d) = [k EXCEPT ![L] = bytesToBlocks(e.size)]
    BY <2>1, EntryAdded
  <2> QED
    BY <2>2
<1> HIDE DEF s, m, dir, L
<1>14. /\ w.disk \in Region
       /\ Laid(w.blocks, 0 .. L, [head EXCEPT ![L] = first], [k EXCEPT ![L] = m])
       /\ Cardinality(FreeOf(w.blocks)) = Cardinality(FreeOf(blocks)) - m
       /\ w.blocks[0] = blocks[0]
  <2> DEFINE I == 0 .. L
  <2>1. /\ m = bytesToBlocks(Len(bytes)) /\ m <= Cardinality(FreeOf(blocks))
        /\ disk \in Region /\ L \in I /\ Laid(blocks, I, head, k) /\ k[L] = 0
        /\ start \in Block
    BY <1>3, <1>8, <1>9, <1>12, <1>13 DEF m
  <2> HIDE DEF I
  <2>2. LET fst == IF bytes = <<>> THEN 0 ELSE start IN
        /\ w.disk \in Region
        /\ Laid(w.blocks, I, [head EXCEPT ![L] = fst], [k EXCEPT ![L] = m])
        /\ Cardinality(FreeOf(w.blocks)) = Cardinality(FreeOf(blocks)) - m
        /\ w.blocks[0] = blocks[0]
    BY <1>9, <2>1, WriteAnew
  <2> QED
    BY <2>2 DEF first, I
<1> HIDE DEF w
<1>15. /\ g \in FatState
       /\ g.blocks = w.blocks /\ g.dir = s /\ g.freeBlocks = f.freeBlocks - need
  <2>1. w.blocks \in Table
    BY <1>14 DEF Laid
  <2>2. f.freeBlocks - need \in Nat
    BY <1>3, <1>6, <1>7
  <2>3. g = [blocks |-> w.blocks, disk |-> w.disk, freeBlocks |-> f.freeBlocks - need, dir |-> s]
    BY DEF s
  <2> HIDE DEF g
  <2> QED
    BY <1>12, <1>14, <2>1, <2>2, <2>3 DEF FatState
<1> HIDE DEF g
<1>16. Laid(g.blocks, 0 .. Len(g.dir), Heads(g.dir), Depths(g.dir, d))
  BY <1>11, <1>12, <1>13, <1>14, <1>15 DEF m
<1>17. Unique(g.dir)
  <2>1. \A i \in 1 .. Len(dir) : dir[i].name # name
    BY <1>3, FoundFacts DEF dir
  <2>2. \A i \in 1 .. L : i \in 1 .. Len(dir) \/ i = L
    BY <1>4 DEF L
  <2>3. \A i \in 1 .. Len(dir) : i # L
    BY <1>4 DEF L
  <2>4. \A i, j \in 1 .. Len(dir) : i # j => dir[i].name # dir[j].name
    BY <1>2 DEF Unique
  <2>5. \A i, j \in 1 .. L : i # j => s[i].name # s[j].name
    BY <1>11, <1>12, <2>1, <2>2, <2>3, <2>4
  <2> QED
    BY <1>12, <1>15, <2>5 DEF Unique
<1>18. Good(g, d)
  <2>1. /\ g.freeBlocks = f.freeBlocks - (m + (DirDepth(Len(g.dir)) - DirDepth(Len(f.dir))))
        /\ Cardinality(FreeOf(g.blocks)) = Cardinality(FreeOf(f.blocks)) - m
        /\ Len(f.dir) <= Len(g.dir) /\ g.blocks[0] = Meta /\ m \in Int
    BY <1>2, <1>4, <1>6, <1>12, <1>14, <1>15 DEF dir, blocks, L
  <2> QED
    BY <1>15, <1>16, <1>17, <2>1, GoodAfter
<1> QED
  BY <1>1, <1>11, <1>15, <1>18 DEF s, dir, AddsFile

\* Entry i of a directory replaced by one of the same name.
LEMMA UniqueStays ==
    ASSUME NEW dir \in Seq(dirEntry), Unique(dir), NEW i \in 1 .. Len(dir), NEW e \in dirEntry,
           \A j \in 1 .. Len(dir) : j # i => dir[j].name # e.name
    PROVE  Unique([dir EXCEPT ![i] = e])
<1> DEFINE s == [dir EXCEPT ![i] = e]
<1>1. Len(s) = Len(dir) /\ \A j \in 1 .. Len(dir) : s[j] = IF j = i THEN e ELSE dir[j]
  OBVIOUS
<1> HIDE DEF s
<1>2. \A a, b \in 1 .. Len(s) : a # b => s[a].name # s[b].name
  BY <1>1 DEF Unique
<1> QED
  BY <1>2 DEF Unique, s

\* Writing over a file gives its blocks up and takes as many as it needs now.
LEMMA WriteOver ==
    ASSUME NEW f, NEW d, Good(f, d), NEW name, Found(f, name), MayWrite(Entry(f, name)),
           NEW bytes \in Seq(Cell),
           ~(f.freeBlocks < NeededBlocks(f, name, Len(bytes), FALSE))
    PROVE  ChangesFile(writeFile(f, name, bytes, FALSE), f, d, name, Len(bytes))
<1> DEFINE dir == f.dir
           i == getDirEntryNode(f, name)
           old == dir[i]
           blocks == deleteFileHelper(f.blocks, Entry(f, name))
           disk == f.disk
           start == FirstFree(blocks, 1, 1)
           w == WriteCells(blocks, disk, start, 0, bytes)
           first == IF bytes = <<>> THEN 0 ELSE start
           e == [Entry(f, name) EXCEPT !.size = Len(bytes), !.firstBlock = first]
           need == NeededBlocks(f, name, Len(bytes), FALSE)
           k == bytesToBlocks(old.size)
           m == bytesToBlocks(Len(bytes))
           s == [dir EXCEPT ![i] = e]
           g == [blocks |-> w.blocks, disk |-> w.disk, freeBlocks |-> f.freeBlocks - need,
                 dir |-> s]
           I == 0 .. Len(dir)
           H == Heads(dir)
           K == Depths(dir, d)
<1>1. writeFile(f, name, bytes, FALSE) = Done(g)
  BY Zenon DEF writeFile
<1>2. /\ f \in FatState /\ f.blocks[0] = Meta /\ Unique(dir) /\ d \in Nat \ {0}
      /\ Laid(f.blocks, I, H, K)
      /\ f.freeBlocks <= Cardinality(FreeOf(f.blocks))
  BY DEF Good
<1>3. f.blocks \in Table /\ dir \in Seq(dirEntry) /\ f.freeBlocks \in Nat /\ disk \in Region
  BY <1>2 DEF FatState
<1>4. Len(dir) \in Nat /\ Len(bytes) \in Nat /\ m \in Nat
  <2>1. Len(bytes) \in Nat
    OBVIOUS
  <2> QED
    BY <1>3, <2>1, BlocksHold
<1>5. i \in 1 .. Len(dir) /\ Entry(f, name) = old /\ old \in dirEntry /\ old.name = name
  BY <1>3, FoundFacts
<1>6. need = m - k /\ f.freeBlocks - need \in Int /\ ~(f.freeBlocks < need)
  <2>1. need = m - k
    BY <1>5 DEF NeededBlocks
  <2>2. k \in Nat
    BY <1>5, BlocksHold DEF dirEntry
  <2>3. ~(f.freeBlocks < need)
    OBVIOUS
  <2> HIDE DEF need, k, m
  <2> QED
    BY <1>3, <1>4, <2>1, <2>2, <2>3
<1> HIDE DEF dir, i
<1>7. /\ i \in I /\ i # 0 /\ H[i] = old.firstBlock /\ K[i] = k /\ k \in Nat
      /\ old.size = 0 => old.firstBlock = 0
  <2>1. Laid(f.blocks, 0 .. Len(dir), Heads(dir), Depths(dir, d)) /\ d \in Nat
    BY <1>2
  <2> QED
    BY <1>3, <1>5, <2>1, EntryFacts
<1>8. blocks = FreeChain(f.blocks, H[i])
  BY <1>3, <1>5, <1>7, HelperFrees
<1>9. first \in Block \cup {0} /\ start \in Block
      /\ (FreeOf(blocks) # {} => start \in FreeOf(blocks) /\ \A b \in FreeOf(blocks) : start <= b)
  BY FirstFreeStart
<1> HIDE DEF need, blocks, disk, start, first, k
<1>10. e \in dirEntry /\ e.name = name /\ e.size = Len(bytes) /\ e.firstBlock = first
  <2> DEFINE o == Entry(f, name)
             a == [o EXCEPT !.size = Len(bytes)]
             b == [a EXCEPT !.firstBlock = first]
  <2>1. o \in dirEntry /\ o.name = name
    BY <1>5
  <2>2. e = b
    OBVIOUS
  <2> HIDE DEF o, e
  <2>3. a = [name |-> o.name, size |-> Len(bytes), firstBlock |-> o.firstBlock, perm |-> o.perm]
    BY <2>1 DEF dirEntry
  <2> HIDE DEF a
  <2>4. b = [name |-> o.name, size |-> Len(bytes), firstBlock |-> first, perm |-> o.perm]
    BY <2>3
  <2> HIDE DEF b
  <2>5. o.name \in Names /\ o.perm \in Permission
    BY <2>1 DEF dirEntry
  <2> QED
    BY <1>4, <1>9, <2>1, <2>2, <2>4, <2>5 DEF dirEntry
<1> HIDE DEF e, old
<1>11. /\ s \in Seq(dirEntry) /\ Len(s) = Len(dir)
       /\ Heads(s) = [H EXCEPT ![i] = e.firstBlock]
       /\ Depths(s, d) = [K EXCEPT ![i] = bytesToBlocks(e.size)]
  <2>1. dir \in Seq(dirEntry) /\ i \in 1 .. Len(dir) /\ e \in dirEntry
    BY <1>3, <1>5, <1>10
  <2> HIDE DEF dir, i
  <2>2. s \in Seq(dirEntry) /\ Len(s) = Len(dir)
    BY <2>1, EntryChanged
  <2>3. Heads(Replaced(dir, i, e)) = Replaced(Heads(dir), i, e.firstBlock)
    BY <2>1, HeadChanged
  <2>4. Depths(Replaced(dir, i, e), d) = Replaced(Depths(dir, d), i, bytesToBlocks(e.size))
    BY <2>1, DepthChanged
  <2> QED
    BY <2>2, <2>3, <2>4 DEF Replaced
<1>12. Unique(s)
  <2>1. \A j \in 1 .. Len(dir) : j # i => dir[j].name # e.name
    BY <1>2, <1>5, <1>10 DEF Unique, old
  <2> QED
    BY <1>2, <1>3, <1>5, <1>10, <2>1, UniqueStays
<1>13. H \in [I -> 0 .. NumEntries - 1] /\ K \in [I -> Nat]
  BY <1>2 DEF Laid
<1> HIDE DEF I, H, K, s
<1> DEFINE H0 == [H EXCEPT ![i] = 0]
           K0 == [K EXCEPT ![i] = 0]
<1>14. /\ Laid(blocks, I, H0, K0) /\ K0[i] = 0
       /\ blocks[0] = f.blocks[0]
       /\ Cardinality(FreeOf(blocks)) = Cardinality(FreeOf(f.blocks)) + k
  <2>1. LET other == FreeChain(f.blocks, H[i]) IN
        /\ Laid(other, I, [H EXCEPT ![i] = 0], [K EXCEPT ![i] = 0])
        /\ other[0] = f.blocks[0]
        /\ FreeOf(other) = FreeOf(f.blocks) \cup Chain(f.blocks, H[i])
        /\ Cardinality(FreeOf(other)) = Cardinality(FreeOf(f.blocks)) + K[i]
    <3>1. i \in I /\ Laid(f.blocks, I, H, K)
      BY <1>2, <1>7
    <3> HIDE DEF H0, K0
    <3> QED
      BY <3>1, LaidFree
  <2> QED
    BY <1>7, <1>8, <1>13, <2>1
<1>15. /\ [H0 EXCEPT ![i] = first] = [H EXCEPT ![i] = first]
       /\ [K0 EXCEPT ![i] = m] = [K EXCEPT ![i] = m]
  BY <1>7, <1>13
<1> HIDE DEF H0, K0
<1>16. Cardinality(FreeOf(f.blocks)) \in Nat
  BY FreeFinite
<1>17. m <= Cardinality(FreeOf(blocks)) /\ m = bytesToBlocks(Len(bytes))
  BY <1>2, <1>3, <1>4, <1>6, <1>7, <1>14, <1>16
<1> HIDE DEF m
<1>18. /\ w.disk \in Region
       /\ Laid(w.blocks, I, [H0 EXCEPT ![i] = first], [K0 EXCEPT ![i] = m])
       /\ Cardinality(FreeOf(w.blocks)) = Cardinality(FreeOf(blocks)) - m
       /\ w.blocks[0] = blocks[0]
  <2>1. LET fst == IF bytes = <<>> THEN 0 ELSE start IN
        /\ w.disk \in Region
        /\ Laid(w.blocks, I, [H0 EXCEPT ![i] = fst], [K0 EXCEPT ![i] = m])
        /\ Cardinality(FreeOf(w.blocks)) = Cardinality(FreeOf(blocks)) - m
        /\ w.blocks[0] = blocks[0]
    <3>1. disk \in Region /\ i \in I /\ start \in Block /\ Laid(blocks, I, H0, K0) /\ K0[i] = 0
      BY <1>3, <1>7, <1>9, <1>14
    <3> QED
      BY <1>9, <1>17, <3>1, WriteAnew
  <2> QED
    BY <2>1 DEF first
<1> HIDE DEF w
<1>19. /\ g \in FatState
       /\ g.blocks = w.blocks /\ g.dir = s /\ g.freeBlocks = f.freeBlocks - need
  <2>1. w.blocks \in Table
    BY <1>18 DEF Laid
  <2>2. f.freeBlocks - need \in Nat
    BY <1>3, <1>4, <1>6, <1>7
  <2> QED
    BY <1>11, <1>18, <2>1, <2>2 DEF FatState
<1> HIDE DEF g
<1>20. Laid(g.blocks, 0 .. Len(g.dir), Heads(g.dir), Depths(g.dir, d))
  BY <1>10, <1>11, <1>15, <1>17, <1>18, <1>19 DEF I
<1>21. DirDepth(Len(dir)) \in Nat
  BY <1>4, DirDepthLemma
<1>22. Good(g, d)
  <2>1. /\ g.freeBlocks = f.freeBlocks - ((m - k) + (DirDepth(Len(g.dir)) - DirDepth(Len(f.dir))))
        /\ Cardinality(FreeOf(g.blocks)) = Cardinality(FreeOf(f.blocks)) - (m - k)
        /\ Len(f.dir) <= Len(g.dir) /\ g.blocks[0] = Meta /\ (m - k) \in Int
    BY <1>2, <1>3, <1>4, <1>6, <1>7, <1>11, <1>14, <1>16, <1>18, <1>19, <1>21 DEF dir
  <2>2. g \in FatState /\ Unique(g.dir)
    BY <1>12, <1>19
  <2> DEFINE used == m - k
  <2>3. used \in Int /\ Cardinality(FreeOf(g.blocks)) = Cardinality(FreeOf(f.blocks)) - used
        /\ g.freeBlocks = f.freeBlocks - (used + (DirDepth(Len(g.dir)) - DirDepth(Len(f.dir))))
    BY <2>1
  <2> HIDE DEF used
  <2> QED
    BY <1>20, <2>1, <2>2, <2>3, GoodAfter
<1> QED
  BY <1>1, <1>10, <1>19, <1>22 DEF s, dir, i, ChangesFile

\* The entry of a file that has grown.
LEMMA GrownEntry ==
    ASSUME NEW o \in dirEntry, NEW n \in Nat
    PROVE  LET e == [o EXCEPT !.size = @ + n] IN
           /\ e \in dirEntry /\ e.name = o.name /\ e.size = o.size + n
           /\ e.firstBlock = o.firstBlock /\ e.perm = o.perm
BY DEF dirEntry

\* The size of a file that is appended to.
GrownSize(f, name, bytes) == Entry(f, name).size + Len(bytes)

\* Appending what fits into the last block of a file, or nothing to an empty
\* one, takes no block.
LEMMA WriteWithin ==
    ASSUME NEW f, NEW d, Good(f, d), NEW name, Found(f, name), MayWrite(Entry(f, name)),
           NEW bytes \in Seq(Cell),
           ~(f.freeBlocks < NeededBlocks(f, name, Len(bytes), TRUE)),
           \/ Entry(f, name).size = 0 /\ bytes = <<>>
           \/ /\ Entry(f, name).size % BlockSize # 0
              /\ (Entry(f, name).size % BlockSize) + Len(bytes) <= BlockSize
    PROVE  ChangesFile(writeFile(f, name, bytes, TRUE), f, d, name, GrownSize(f, name, bytes))
<1> DEFINE dir == f.dir
           i == getDirEntryNode(f, name)
           old == Entry(f, name)
           blocks == f.blocks
           disk == f.disk
           last == LastBlock(blocks, old.firstBlock)
           start == IF old.size = 0 THEN FirstFree(blocks, 1, 1) ELSE last
           offset == IF old.size = 0 THEN 0 ELSE old.size % BlockSize
           w == WriteCells(blocks, disk, start, offset, bytes)
           e == [old EXCEPT !.size = @ + Len(bytes)]
           need == NeededBlocks(f, name, Len(bytes), TRUE)
           k == bytesToBlocks(old.size)
           s == [dir EXCEPT ![i] = e]
           g == [blocks |-> w.blocks, disk |-> w.disk, freeBlocks |-> f.freeBlocks - need,
                 dir |-> s]
           I == 0 .. Len(dir)
           H == Heads(dir)
           K == Depths(dir, d)
<1>1. /\ f \in FatState /\ f.blocks[0] = Meta /\ Unique(dir) /\ d \in Nat \ {0}
      /\ Laid(blocks, I, H, K)
  BY DEF Good
<1>2. blocks \in Table /\ dir \in Seq(dirEntry) /\ f.freeBlocks \in Nat /\ disk \in Region
  BY <1>1 DEF FatState
<1>3. Len(dir) \in Nat /\ Len(bytes) \in Nat /\ (bytes = <<>> => Len(bytes) = 0)
  BY <1>2
<1>4. i \in 1 .. Len(dir) /\ old = dir[i] /\ old \in dirEntry /\ old.name = name
  BY <1>2, FoundFacts
<1>5. /\ old.size \in Nat /\ old.size % BlockSize \in 0 .. BlockSize - 1
      /\ (old.size = 0 => old.size % BlockSize = 0)
  <2>1. old.size \in Nat
    BY <1>4 DEF dirEntry
  <2>2. 0 % BlockSize = 0
    BY SizeAssumption
  <2> QED
    BY <2>1, <2>2, DivFacts
<1>6. \/ old.size = 0 /\ bytes = <<>>
      \/ old.size # 0 /\ old.size % BlockSize # 0 /\ (old.size % BlockSize) + Len(bytes) <= BlockSize
  BY <1>5
<1>7. writeFile(f, name, bytes, TRUE) = Done(g)
  <2>1. CASE old.size = 0
    BY <2>1, Zenon DEF writeFile
  <2>2. CASE old.size # 0 /\ old.size % BlockSize # 0
    BY <2>2, Zenon DEF writeFile
  <2> QED
    BY <1>6, <2>1, <2>2
<1>8. offset \in 0 .. BlockSize - 1 /\ offset + Len(bytes) <= BlockSize
  BY <1>3, <1>5, <1>6, SizeAssumption
<1>9. need = 0 /\ bytesToBlocks(old.size + Len(bytes)) = k /\ k \in Nat
  <2>1. k \in Nat
    BY <1>5, BlocksHold
  <2>2. CASE old.size = 0 /\ bytes = <<>>
    <3>1. need = bytesToBlocks(0) /\ bytesToBlocks(0) = 0
      <4>1. 0 \in Nat
        OBVIOUS
      <4>2. bytesToBlocks(0) = 0
        BY <4>1, BlocksArith
      <4> QED
        BY <1>3, <1>5, <2>2, <4>2 DEF NeededBlocks
    <3>2. old.size + Len(bytes) = old.size
      BY <1>3, <1>5, <2>2
    <3> QED
      BY <2>1, <3>1, <3>2
  <2>3. CASE ~(old.size = 0 /\ bytes = <<>>)
    <3> DEFINE n == old.size
               r == Len(bytes)
    <3>1. n \in Nat /\ r \in Nat /\ n % BlockSize # 0 /\ r <= BlockSize - (n % BlockSize)
      <4>1. BlockSize \in Nat
        BY SizeAssumption
      <4> HIDE DEF old
      <4> QED
        BY <1>3, <1>5, <1>6, <2>3, <4>1
    <3>2. need = bytesToBlocks(r - (BlockSize - (n % BlockSize)))
      BY <3>1 DEF NeededBlocks
    <3> HIDE DEF n, r, need
    <3>3. /\ bytesToBlocks(n + r) = bytesToBlocks(n)
          /\ bytesToBlocks(r - (BlockSize - (n % BlockSize))) = 0
      BY <3>1, BlocksSum
    <3> QED
      BY <2>1, <3>2, <3>3 DEF n, r
  <2> QED
    BY <2>2, <2>3
<1>10. /\ i \in I /\ i # 0 /\ H[i] = old.firstBlock /\ K[i] = k
       /\ old.size # 0 => Sound(blocks, old.firstBlock, k)
  <2>1. Laid(blocks, 0 .. Len(dir), Heads(dir), Depths(dir, d)) /\ d \in Nat
    BY <1>1
  <2> HIDE DEF dir, i, old, blocks
  <2> QED
    BY <1>2, <1>4, <2>1, EntryFacts
<1>11. start \in Block /\ (bytes # <<>> => blocks[start] = End)
  <2>1. CASE old.size = 0
    <3>1. start = FirstFree(blocks, 1, 1) /\ bytes = <<>>
      BY <1>6, <2>1
    <3> QED
      BY <3>1, FirstFreeStart
  <2>2. CASE old.size # 0
    <3>1. start = last /\ Sound(blocks, old.firstBlock, k)
      BY <1>10, <2>2
    <3> HIDE DEF start, blocks, old, k
    <3>2. last = Nth(blocks, old.firstBlock)[k]
      BY <3>1, LastBlockLemma
    <3>3. k \in 1 .. k /\ \A j \in 1 .. k : Nth(blocks, old.firstBlock)[j] \in Block
      BY <3>1, SoundFacts
    <3>4. blocks[Nth(blocks, old.firstBlock)[k]] = End
      BY <3>1, SoundFacts
    <3> QED
      BY <3>1, <3>2, <3>3, <3>4
  <2> QED
    BY <2>1, <2>2
<1> HIDE DEF need, blocks, disk, start, k, offset
<1>12. w.disk \in Region /\ w.blocks = blocks
  <2>1. LET base == (start - 1) * BlockSize + offset IN
        /\ bytes = <<>> => w.blocks = blocks
        /\ bytes # <<>> => w.blocks = [blocks EXCEPT ![start] = End]
        /\ w.disk \in Region
        /\ Put(w.disk, disk, base, bytes)
    BY <1>2, <1>8, <1>11, WriteFits
  <2>2. bytes # <<>> => [blocks EXCEPT ![start] = End] = blocks
    BY <1>2, <1>11 DEF Table
  <2> HIDE DEF w
  <2> QED
    BY <2>1, <2>2
<1> HIDE DEF w
<1>13. e \in dirEntry /\ e.name = name /\ e.size = old.size + Len(bytes)
       /\ e.firstBlock = old.firstBlock
  <2> DEFINE n == Len(bytes)
  <2>1. n \in Nat
    BY <1>3
  <2>2. old \in dirEntry
    BY <1>4
  <2>3. e = [old EXCEPT !.size = @ + n]
    OBVIOUS
  <2> HIDE DEF old, n, e
  <2>4. e \in dirEntry /\ e.name = old.name /\ e.size = old.size + n /\ e.firstBlock = old.firstBlock
    BY <2>1, <2>2, <2>3, GrownEntry
  <2> QED
    BY <1>4, <2>4 DEF n
<1> HIDE DEF e, old, dir, i
<1>14. /\ s \in Seq(dirEntry) /\ Len(s) = Len(dir)
       /\ Heads(s) = [H EXCEPT ![i] = e.firstBlock]
       /\ Depths(s, d) = [K EXCEPT ![i] = bytesToBlocks(e.size)]
  <2>1. dir \in Seq(dirEntry) /\ i \in 1 .. Len(dir) /\ e \in dirEntry
    BY <1>2, <1>4, <1>13
  <2>2. s \in Seq(dirEntry) /\ Len(s) = Len(dir)
    BY <2>1, EntryChanged
  <2>3. Heads(Replaced(dir, i, e)) = Replaced(Heads(dir), i, e.firstBlock)
    BY <2>1, HeadChanged
  <2>4. Depths(Replaced(dir, i, e), d) = Replaced(Depths(dir, d), i, bytesToBlocks(e.size))
    BY <2>1, DepthChanged
  <2> QED
    BY <2>2, <2>3, <2>4 DEF Replaced
<1>15. Heads(s) = H /\ Depths(s, d) = K
  <2>1. H \in [I -> 0 .. NumEntries - 1] /\ K \in [I -> Nat]
    BY <1>1 DEF Laid
  <2> HIDE DEF H, K, I, s
  <2> QED
    BY <1>9, <1>10, <1>13, <1>14, <2>1 DEF k
<1>16. Unique(s)
  <2>1. \A j \in 1 .. Len(dir) : j # i => dir[j].name # e.name
    BY <1>1, <1>4, <1>13 DEF Unique, old
  <2> QED
    BY <1>1, <1>2, <1>4, <1>13, <2>1, UniqueStays
<1> HIDE DEF s
<1>17. /\ g \in FatState
       /\ g.blocks = blocks /\ g.dir = s /\ g.freeBlocks = f.freeBlocks
  <2>1. f.freeBlocks - need = f.freeBlocks
    BY <1>2, <1>9
  <2> QED
    BY <1>2, <1>12, <1>14, <2>1 DEF FatState
<1> HIDE DEF g
<1>18. Laid(g.blocks, 0 .. Len(g.dir), Heads(g.dir), Depths(g.dir, d))
  BY <1>1, <1>14, <1>15, <1>17
<1>19. Good(g, d)
  <2>1. /\ f.freeBlocks <= Cardinality(FreeOf(f.blocks))
        /\ f.freeBlocks + DirDepth(Len(f.dir)) <= Cardinality(FreeOf(f.blocks)) + d
        /\ OneBlockDir => d = 1 /\ f.freeBlocks = Cardinality(FreeOf(f.blocks))
    BY DEF Good
  <2>2. Len(g.dir) = Len(f.dir) /\ g.blocks = f.blocks
    BY <1>14, <1>17 DEF dir, blocks
  <2> QED
    BY <1>1, <1>16, <1>17, <1>18, <2>1, <2>2 DEF Good
<1> QED
  BY <1>7, <1>13, <1>17, <1>19 DEF s, dir, i, old, ChangesFile, GrownSize

\* Appending to a file that fills its last block takes new ones behind it.
LEMMA WriteBehind ==
    ASSUME NEW f, NEW d, Good(f, d), NEW name, Found(f, name), MayWrite(Entry(f, name)),
           NEW bytes \in Seq(Cell), bytes # <<>>,
           ~(f.freeBlocks < NeededBlocks(f, name, Len(bytes), TRUE)),
           Entry(f, name).size # 0, Entry(f, name).size % BlockSize = 0
    PROVE  ChangesFile(writeFile(f, name, bytes, TRUE), f, d, name, GrownSize(f, name, bytes))
<1> DEFINE dir == f.dir
           i == getDirEntryNode(f, name)
           old == Entry(f, name)
           blocks == f.blocks
           disk == f.disk
           last == LastBlock(blocks, old.firstBlock)
           start == FirstFree(blocks, 1, 0)
           linked == [blocks EXCEPT ![last] = start]
           w == WriteCells(linked, disk, start, 0, bytes)
           e == [old EXCEPT !.size = @ + Len(bytes)]
           need == NeededBlocks(f, name, Len(bytes), TRUE)
           k == bytesToBlocks(old.size)
           m == bytesToBlocks(Len(bytes))
           s == [dir EXCEPT ![i] = e]
           g == [blocks |-> w.blocks, disk |-> w.disk, freeBlocks |-> f.freeBlocks - need,
                 dir |-> s]
           I == 0 .. Len(dir)
           H == Heads(dir)
           K == Depths(dir, d)
<1>1. /\ f \in FatState /\ f.blocks[0] = Meta /\ Unique(dir) /\ d \in Nat \ {0}
      /\ Laid(blocks, I, H, K)
      /\ f.freeBlocks <= Cardinality(FreeOf(blocks))
  BY DEF Good
<1>2. blocks \in Table /\ dir \in Seq(dirEntry) /\ f.freeBlocks \in Nat /\ disk \in Region
  BY <1>1 DEF FatState
<1>3. Len(dir) \in Nat /\ Len(bytes) \in Nat /\ Len(bytes) # 0 /\ m \in Nat /\ m # 0
  <2>1. Len(bytes) \in Nat /\ Len(bytes) # 0
    OBVIOUS
  <2> DEFINE n == Len(bytes)
  <2>2. n \in Nat /\ n # 0
    BY <2>1
  <2> HIDE DEF n
  <2>3. bytesToBlocks(n) \in Nat /\ bytesToBlocks(n) # 0
    BY <2>2, BlocksHold, BlocksArith
  <2> QED
    BY <1>2, <2>1, <2>3 DEF n
<1>4. i \in 1 .. Len(dir) /\ old = dir[i] /\ old \in dirEntry /\ old.name = name
  BY <1>2, FoundFacts
<1>5. old.size \in Nat /\ k \in Nat /\ bytesToBlocks(old.size + Len(bytes)) = k + m
  <2>1. old.size \in Nat
    BY <1>4 DEF dirEntry
  <2> DEFINE n == old.size
             r == Len(bytes)
  <2>2. n \in Nat /\ r \in Nat /\ n % BlockSize = 0
    BY <1>3, <2>1
  <2> HIDE DEF n, r
  <2>3. bytesToBlocks(n + r) = bytesToBlocks(n) + bytesToBlocks(r) /\ bytesToBlocks(n) \in Nat
    BY <2>2, BlocksSum, BlocksHold
  <2> QED
    BY <2>1, <2>3 DEF n, r
<1>6. writeFile(f, name, bytes, TRUE) = Done(g)
  BY Zenon DEF writeFile
<1>7. need = m
  BY DEF NeededBlocks
<1>8. need \in Nat /\ need <= f.freeBlocks
  <2>1. ~(f.freeBlocks < need)
    OBVIOUS
  <2> HIDE DEF need, m
  <2> QED
    BY <1>2, <1>3, <1>7, <2>1
<1>9. /\ i \in I /\ i # 0 /\ H[i] = old.firstBlock /\ K[i] = k
      /\ Sound(blocks, old.firstBlock, k)
  <2>1. Laid(blocks, 0 .. Len(dir), Heads(dir), Depths(dir, d)) /\ d \in Nat
    BY <1>1
  <2>2. old.size # 0
    OBVIOUS
  <2> HIDE DEF dir, i, old, blocks
  <2> QED
    BY <1>2, <1>4, <2>1, <2>2, EntryFacts
<1>10. k # 0 /\ last = Nth(blocks, old.firstBlock)[k] /\ last \in Block /\ blocks[last] = End
  <2> HIDE DEF k, old, blocks
  <2>1. last = Nth(blocks, old.firstBlock)[k]
    BY <1>9, LastBlockLemma
  <2>2. k \in 1 .. k /\ k # 0 /\ \A j \in 1 .. k : Nth(blocks, old.firstBlock)[j] \in Block
    BY <1>9, SoundFacts
  <2>3. blocks[Nth(blocks, old.firstBlock)[k]] = End
    BY <1>9, SoundFacts
  <2> QED
    BY <2>1, <2>2, <2>3
<1> HIDE DEF need, blocks, disk, k, m, last, old
<1>11. Cardinality(FreeOf(blocks)) \in Nat /\ m <= Cardinality(FreeOf(blocks))
  BY <1>1, <1>2, <1>3, <1>7, <1>8, FreeFinite
<1>12. start \in FreeOf(blocks) /\ \A b \in FreeOf(blocks) : start <= b
  <2>1. FreeOf(blocks) # {}
    <3>1. Cardinality(FreeOf(blocks)) # 0
      BY <1>3, <1>11
    <3> QED
      BY <3>1, FS_EmptySet
  <2>2. \E b \in 1 .. NumEntries - 1 : blocks[b] = Free
    BY <2>1, SizeFacts DEF FreeOf
  <2>3. 1 \in Nat \ {0}
    OBVIOUS
  <2>4. start \in FreeOf(blocks) /\ \A b \in FreeOf(blocks) : b >= 1 => start <= b
    BY <2>2, <2>3, FirstFreeLemma
  <2>5. \A b \in FreeOf(blocks) : b >= 1
    BY SizeFacts DEF FreeOf
  <2> QED
    BY <2>4, <2>5
<1> HIDE DEF start
<1>13. start \in Block /\ start # Free /\ End # Free /\ start \in 0 .. Meta
  BY <1>12, SizeFacts DEF FreeOf
<1>14. linked \in Table /\ FreeOf(linked) = FreeOf(blocks)
  <2>1. linked \in Table
    BY <1>2, <1>13, SizeFacts DEF Table
  <2>2. \A b \in Block : linked[b] = IF b = last THEN start ELSE blocks[b]
    BY <1>2, SizeFacts DEF Table
  <2>3. \A b \in Block : linked[b] = Free <=> blocks[b] = Free
    BY <1>10, <1>13, <2>2
  <2> HIDE DEF linked
  <2> QED
    BY <2>1, <2>3 DEF FreeOf
<1> HIDE DEF linked
<1>15. PICK c : Linked(linked, w.blocks, c, m) /\ c[1] = start
  <2>1. /\ start \in FreeOf(linked) /\ \A b \in FreeOf(linked) : start <= b
        /\ bytesToBlocks(Len(bytes)) <= Cardinality(FreeOf(linked))
    BY <1>11, <1>12, <1>14 DEF m
  <2>2. \E c : Linked(linked, w.blocks, c, bytesToBlocks(Len(bytes))) /\ c[1] = start
    BY <1>2, <1>14, <2>1, WriteAllocates
  <2> QED
    BY <2>2 DEF m
<1>16. w.disk \in Region
  <2>1. /\ start \in FreeOf(linked) /\ \A b \in FreeOf(linked) : start <= b
        /\ bytesToBlocks(Len(bytes)) <= Cardinality(FreeOf(linked))
    BY <1>11, <1>12, <1>14 DEF m
  <2> QED
    BY <1>2, <1>14, <2>1, WriteAllocates
<1> HIDE DEF w, I, H, K
<1>17. /\ Laid(w.blocks, I, H, [K EXCEPT ![i] = K[i] + m])
       /\ Cardinality(FreeOf(w.blocks)) = Cardinality(FreeOf(blocks)) - m
       /\ w.blocks[0] = blocks[0]
  <2>1. linked = Extended(blocks, H[i], K[i], c[1])
    BY <1>9, <1>10, <1>15 DEF linked, Extended
  <2>2. Laid(blocks, I, H, K) /\ i \in I /\ K[i] # 0
    BY <1>1, <1>9, <1>10
  <2> DEFINE new == w.blocks
  <2>3. Linked(Extended(blocks, H[i], K[i], c[1]), new, c, m)
    BY <1>15, <2>1
  <2> HIDE DEF new, i
  <2>4. Laid(new, I, H, More(K, i, m))
    BY <2>2, <2>3, LaidExtend
  <2>5. Linked(linked, new, c, m)
    BY <1>15 DEF new
  <2>6. Cardinality(FreeOf(new)) = Cardinality(FreeOf(blocks)) - m
    <3>1. Cardinality(FreeOf(new)) = Cardinality(FreeOf(linked)) - m
      BY <2>5, LinkedFacts
    <3> QED
      BY <1>14, <3>1
  <2>7. new[0] = blocks[0]
    <3>1. new[0] = linked[0]
      BY <2>5 DEF Linked
    <3>2. linked[0] = blocks[0]
      BY <1>2, <1>10, SizeFacts DEF linked, Table
    <3> QED
      BY <3>1, <3>2
  <2> QED
    BY <2>4, <2>6, <2>7 DEF new, More
<1>18. e \in dirEntry /\ e.name = name /\ e.size = old.size + Len(bytes)
       /\ e.firstBlock = old.firstBlock
  <2> DEFINE n == Len(bytes)
  <2>1. n \in Nat
    BY <1>3
  <2>2. old \in dirEntry
    BY <1>4
  <2>3. e = [old EXCEPT !.size = @ + n]
    OBVIOUS
  <2> HIDE DEF n, e
  <2>4. e \in dirEntry /\ e.name = old.name /\ e.size = old.size + n /\ e.firstBlock = old.firstBlock
    BY <2>1, <2>2, <2>3, GrownEntry
  <2> QED
    BY <1>4, <2>4 DEF n
<1> HIDE DEF e, dir, i
<1>19. /\ s \in Seq(dirEntry) /\ Len(s) = Len(dir)
       /\ Heads(s) = [Heads(dir) EXCEPT ![i] = e.firstBlock]
       /\ Depths(s, d) = [Depths(dir, d) EXCEPT ![i] = bytesToBlocks(e.size)]
  <2>1. dir \in Seq(dirEntry) /\ i \in 1 .. Len(dir) /\ e \in dirEntry
    BY <1>2, <1>4, <1>18
  <2>2. s \in Seq(dirEntry) /\ Len(s) = Len(dir)
    BY <2>1, EntryChanged
  <2>3. Heads(Replaced(dir, i, e)) = Replaced(Heads(dir), i, e.firstBlock)
    BY <2>1, HeadChanged
  <2>4. Depths(Replaced(dir, i, e), d) = Replaced(Depths(dir, d), i, bytesToBlocks(e.size))
    BY <2>1, DepthChanged
  <2> QED
    BY <2>2, <2>3, <2>4 DEF Replaced
<1>20. Heads(s) = H /\ Depths(s, d) = [K EXCEPT ![i] = K[i] + m]
  <2>1. H \in [I -> 0 .. NumEntries - 1] /\ K \in [I -> Nat]
    BY <1>1 DEF Laid
  <2>2. Heads(s) = [H EXCEPT ![i] = e.firstBlock]
        /\ Depths(s, d) = [K EXCEPT ![i] = bytesToBlocks(e.size)]
    BY <1>19 DEF H, K
  <2>3. bytesToBlocks(e.size) = k + m
    BY <1>5, <1>18 DEF k, m, old
  <2> HIDE DEF s
  <2> QED
    BY <1>9, <1>18, <2>1, <2>2, <2>3
<1>21. Unique(s)
  <2>1. \A j \in 1 .. Len(dir) : j # i => dir[j].name # e.name
    BY <1>1, <1>4, <1>18 DEF Unique
  <2> QED
    BY <1>1, <1>2, <1>4, <1>18, <2>1, UniqueStays
<1> HIDE DEF s
<1>22. /\ g \in FatState
       /\ g.blocks = w.blocks /\ g.dir = s /\ g.freeBlocks = f.freeBlocks - need
  <2>1. f.freeBlocks - need \in Nat
    BY <1>2, <1>8
  <2>2. w.blocks \in Table
    BY <1>17 DEF Laid
  <2> QED
    BY <1>16, <1>19, <2>1, <2>2 DEF FatState
<1> HIDE DEF g
<1>23. Laid(g.blocks, 0 .. Len(g.dir), Heads(g.dir), Depths(g.dir, d))
  BY <1>17, <1>19, <1>20, <1>22 DEF I
<1>24. DirDepth(Len(dir)) \in Nat
  BY <1>3, DirDepthLemma
<1>25. Good(g, d)
  <2>1. /\ g.freeBlocks = f.freeBlocks - (m + (DirDepth(Len(g.dir)) - DirDepth(Len(f.dir))))
        /\ Cardinality(FreeOf(g.blocks)) = Cardinality(FreeOf(f.blocks)) - m
        /\ Len(f.dir) <= Len(g.dir) /\ g.blocks[0] = Meta /\ m \in Int
    BY <1>1, <1>2, <1>3, <1>7, <1>17, <1>19, <1>22, <1>24 DEF dir, blocks
  <2> QED
    BY <1>21, <1>22, <1>23, <2>1, GoodAfter
<1> QED
  BY <1>6, <1>18, <1>22, <1>25 DEF s, dir, i, old, ChangesFile, GrownSize

\* The sizes with which a write that appends keeps to the rules of the table: a
\* file without contents gets none; what is written fits into the last block; or
\* there is something to write behind a full one.
Extendable(size, bytes) ==
    \/ size = 0 /\ bytes = <<>>
    \/ size % BlockSize # 0 /\ (size % BlockSize) + Len(bytes) <= BlockSize
    \/ size # 0 /\ size % BlockSize = 0 /\ bytes # <<>>

\* writeFile keeps a sound file system sound, whether or not it is refused.
LEMMA WriteGood ==
    ASSUME NEW f, NEW d, Good(f, d), NEW name \in Names, NEW bytes \in Seq(Cell),
           NEW appending \in BOOLEAN,
           appending /\ Found(f, name) => Extendable(Entry(f, name).size, bytes)
    PROVE  \/ writeFile(f, name, bytes, appending) = Refused(f)
           \/ \E g : /\ writeFile(f, name, bytes, appending) = Done(g)
                     /\ Good(g, d) /\ g.dir # <<>>
<1>0. f.dir \in Seq(dirEntry)
  BY DEF Good, FatState
<1>1. CASE \/ Found(f, name) /\ ~MayWrite(Entry(f, name))
           \/ f.freeBlocks < NeededBlocks(f, name, Len(bytes), appending)
  BY <1>1, WriteRefused
<1>2. CASE /\ ~(f.freeBlocks < NeededBlocks(f, name, Len(bytes), appending))
           /\ ~Found(f, name)
  <2>0. AddsFile(writeFile(f, name, bytes, appending), f, d, name, Len(bytes))
    BY <1>2, WriteNew
  <2>1. PICK g, e : /\ writeFile(f, name, bytes, appending) = Done(g)
                    /\ Good(g, d)
                    /\ g.dir = Append(f.dir, e)
    BY <2>0 DEF AddsFile
  <2>2. Append(f.dir, e) # <<>>
    BY <1>0
  <2> QED
    BY <2>1, <2>2
<1>3. CASE /\ ~(f.freeBlocks < NeededBlocks(f, name, Len(bytes), appending))
           /\ Found(f, name) /\ MayWrite(Entry(f, name))
  <2>1. \E size : ChangesFile(writeFile(f, name, bytes, appending), f, d, name, size)
    <3>1. CASE appending = FALSE
      <4>1. ChangesFile(writeFile(f, name, bytes, FALSE), f, d, name, Len(bytes))
        BY <1>3, <3>1, WriteOver
      <4> QED
        BY <3>1, <4>1
    <3>2. CASE appending = TRUE
      <4>1. \/ \/ Entry(f, name).size = 0 /\ bytes = <<>>
               \/ /\ Entry(f, name).size % BlockSize # 0
                  /\ (Entry(f, name).size % BlockSize) + Len(bytes) <= BlockSize
            \/ Entry(f, name).size # 0 /\ Entry(f, name).size % BlockSize = 0 /\ bytes # <<>>
        BY <1>3, <3>2 DEF Extendable
      <4>2. CASE \/ Entry(f, name).size = 0 /\ bytes = <<>>
                 \/ /\ Entry(f, name).size % BlockSize # 0
                    /\ (Entry(f, name).size % BlockSize) + Len(bytes) <= BlockSize
        <5>1. ChangesFile(writeFile(f, name, bytes, TRUE), f, d, name, GrownSize(f, name, bytes))
          BY <1>3, <3>2, <4>2, WriteWithin
        <5> QED
          BY <3>2, <5>1
      <4>3. CASE Entry(f, name).size # 0 /\ Entry(f, name).size % BlockSize = 0 /\ bytes # <<>>
        <5>1. ChangesFile(writeFile(f, name, bytes, TRUE), f, d, name, GrownSize(f, name, bytes))
          BY <1>3, <3>2, <4>3, WriteBehind
        <5> QED
          BY <3>2, <5>1
      <4> QED
        BY <4>1, <4>2, <4>3
    <3> QED
      BY <3>1, <3>2
  <2>2. PICK g, e : /\ writeFile(f, name, bytes, appending) = Done(g)
                    /\ Good(g, d)
                    /\ g.dir = [f.dir EXCEPT ![getDirEntryNode(f, name)] = e]
                    /\ e \in dirEntry
    BY <2>1 DEF ChangesFile
  <2>3. getDirEntryNode(f, name) \in 1 .. Len(f.dir)
    BY <1>0, <1>3, FoundFacts
  <2>4. Len(g.dir) = Len(f.dir) /\ Len(f.dir) \in Nat /\ Len(f.dir) # 0
    BY <1>0, <2>2, <2>3
  <2>5. g.dir # <<>>
    BY <2>4
  <2> QED
    BY <2>2, <2>5
<1> QED
  BY <1>1, <1>2, <1>3

\* Nothing in the directory ends exactly with its last block.
PartlyFilled(f, names) ==
    \A j \in 1 .. Len(f.dir) :
        f.dir[j].name \in names => f.dir[j].size = 0 \/ f.dir[j].size % BlockSize # 0

\* touch leaves the sizes that the next touch depends on.
LEMMA TouchGood ==
    ASSUME NEW f, NEW d, Good(f, d), NEW names, NEW name \in Names, name \in names,
           PartlyFilled(f, names)
    PROVE  \/ writeFile(f, name, <<>>, TRUE) = Refused(f)
           \/ \E g : /\ writeFile(f, name, <<>>, TRUE) = Done(g)
                     /\ Good(g, d) /\ g.dir # <<>> /\ PartlyFilled(g, names)
<1> DEFINE bytes == <<>>
           dir == f.dir
           i == getDirEntryNode(f, name)
           old == Entry(f, name)
<1>0. dir \in Seq(dirEntry) /\ Len(dir) \in Nat
  BY DEF Good, FatState
<1>a. bytes \in Seq(Cell) /\ Len(bytes) = 0 /\ bytes = <<>>
  OBVIOUS
<1> HIDE DEF bytes
<1>1. CASE \/ Found(f, name) /\ ~MayWrite(Entry(f, name))
           \/ f.freeBlocks < NeededBlocks(f, name, Len(bytes), TRUE)
  <2>1. writeFile(f, name, bytes, TRUE) = Refused(f)
    BY <1>1, WriteRefused
  <2> QED
    BY <1>a, <2>1
<1>2. CASE /\ ~(f.freeBlocks < NeededBlocks(f, name, Len(bytes), TRUE))
           /\ ~Found(f, name)
  <2>0. AddsFile(writeFile(f, name, bytes, TRUE), f, d, name, Len(bytes))
    BY <1>2, <1>a, WriteNew
  <2>1. PICK g, e : /\ writeFile(f, name, bytes, TRUE) = Done(g)
                    /\ Good(g, d)
                    /\ g.dir = Append(f.dir, e) /\ e.size = Len(bytes)
    BY <2>0 DEF AddsFile
  <2>2. /\ Len(g.dir) = Len(dir) + 1 /\ g.dir # <<>>
        /\ \A j \in 1 .. Len(dir) : g.dir[j] = dir[j]
        /\ g.dir[Len(dir) + 1] = e
    BY <1>0, <2>1
  <2>3. ASSUME NEW j \in 1 .. Len(g.dir), g.dir[j].name \in names
        PROVE  g.dir[j].size = 0 \/ g.dir[j].size % BlockSize # 0
    <3>1. CASE j = Len(dir) + 1
      BY <1>a, <2>1, <2>2, <3>1
    <3>2. CASE j # Len(dir) + 1
      <4>1. j \in 1 .. Len(dir) /\ g.dir[j] = dir[j]
        BY <1>0, <2>2, <3>2
      <4> QED
        BY <2>3, <4>1 DEF PartlyFilled
    <3> QED
      BY <3>1, <3>2
  <2>4. PartlyFilled(g, names)
    BY <2>3 DEF PartlyFilled
  <2> QED
    BY <1>a, <2>1, <2>2, <2>4
<1>3. CASE /\ ~(f.freeBlocks < NeededBlocks(f, name, Len(bytes), TRUE))
           /\ Found(f, name) /\ MayWrite(Entry(f, name))
  <2>1. i \in 1 .. Len(dir) /\ old = dir[i] /\ old.name = name /\ old \in dirEntry
    BY <1>0, <1>3, FoundFacts
  <2>2. old.size = 0 \/ old.size % BlockSize # 0
    BY <2>1 DEF PartlyFilled
  <2>3. old.size \in Nat /\ old.size % BlockSize \in 0 .. BlockSize - 1
    <3>1. old.size \in Nat
      BY <2>1 DEF dirEntry
    <3> HIDE DEF old
    <3> QED
      BY <3>1, DivFacts
  <2>4. \/ Entry(f, name).size = 0 /\ bytes = <<>>
        \/ /\ Entry(f, name).size % BlockSize # 0
           /\ (Entry(f, name).size % BlockSize) + Len(bytes) <= BlockSize
    <3>1. old.size % BlockSize # 0 => (old.size % BlockSize) + Len(bytes) <= BlockSize
      <4> HIDE DEF old
      <4> QED
        BY <1>a, <2>3, SizeAssumption
    <3> QED
      BY <1>a, <2>2, <3>1
  <2>10. ChangesFile(writeFile(f, name, bytes, TRUE), f, d, name, GrownSize(f, name, bytes))
    BY <1>3, <1>a, <2>4, WriteWithin
  <2>5. PICK g, e : /\ writeFile(f, name, bytes, TRUE) = Done(g)
                    /\ Good(g, d)
                    /\ g.dir = [f.dir EXCEPT ![getDirEntryNode(f, name)] = e]
                    /\ e.size = Entry(f, name).size + Len(bytes)
    BY <2>10 DEF ChangesFile, GrownSize
  <2>6. e.size = old.size
    BY <1>a, <2>3, <2>5
  <2> HIDE DEF i, old
  <2>7. /\ Len(g.dir) = Len(dir) /\ g.dir # <<>>
        /\ \A j \in 1 .. Len(dir) : g.dir[j] = IF j = i THEN e ELSE dir[j]
    BY <1>0, <2>1, <2>5 DEF i
  <2>8. ASSUME NEW j \in 1 .. Len(g.dir), g.dir[j].name \in names
        PROVE  g.dir[j].size = 0 \/ g.dir[j].size % BlockSize # 0
    <3>1. CASE j = i
      BY <2>2, <2>6, <2>7, <3>1
    <3>2. CASE j # i
      BY <2>7, <2>8, <3>2 DEF PartlyFilled
    <3> QED
      BY <3>1, <3>2
  <2>9. PartlyFilled(g, names)
    BY <2>8 DEF PartlyFilled
  <2> QED
    BY <1>a, <2>5, <2>7, <2>9
<1> QED
  BY <1>1, <1>2, <1>3
-----------------------------------------------------------------------------
(* Reading, chmod and mv. *)

\* What is read can be written again.
LEMMA ReadCells ==
    ASSUME NEW f, f.disk \in Region, NEW b, NEW n \in Nat
    PROVE  getContents(f, b, n) \in Seq(Cell)
<1> DEFINE c == Nth(f.blocks, b)
           at(i) == c[(i - 1) \div BlockSize + 1]
           cell(i) == IF at(i) \in Block
                      THEN f.disk[(at(i) - 1) * BlockSize + ((i - 1) % BlockSize)] ELSE Zero
<1>1. getContents(f, b, n) = [i \in 1 .. n |-> cell(i)]
  BY Zenon DEF getContents
<1>2. ASSUME NEW i \in 1 .. n
      PROVE  cell(i) \in Cell
  <2> DEFINE q == at(i)
             r == (i - 1) % BlockSize
  <2>1. r \in 0 .. BlockSize - 1
    <3>1. i - 1 \in Nat
      OBVIOUS
    <3> QED
      BY <3>1, DivFacts
  <2> HIDE DEF q, r
  <2>2. CASE q \in Block
    <3>1. (q - 1) * BlockSize + r \in 0 .. (NumEntries - 1) * BlockSize - 1
      <4>1. BlockSize \in Nat \ {0} /\ q - 1 \in Nat /\ NumEntries - 1 - q \in Nat
            /\ NumEntries \in Nat /\ q \in Nat
        BY <2>2, SizeFacts
      <4>2. /\ (NumEntries - 1) * BlockSize = (q - 1) * BlockSize + BlockSize + (NumEntries - 1 - q) * BlockSize
            /\ (NumEntries - 1 - q) * BlockSize \in Nat /\ (q - 1) * BlockSize \in Nat
        BY <4>1
      <4> QED
        BY <2>1, <4>1, <4>2
    <3>2. f.disk[(q - 1) * BlockSize + r] \in Cell
      BY <3>1 DEF Region
    <3> QED
      BY <2>2, <3>2 DEF q, r
  <2>3. CASE q \notin Block
    BY <2>3 DEF q, Cell
  <2> QED
    BY <2>2, <2>3
<1> HIDE DEF cell
<1> QED
  BY <1>1, <1>2

\* An entry changes, but neither its size nor its first block.
LEMMA EntryKeptGood ==
    ASSUME NEW f, NEW d, Good(f, d), NEW i \in 1 .. Len(f.dir), NEW e \in dirEntry,
           e.size = f.dir[i].size, e.firstBlock = f.dir[i].firstBlock,
           \A j \in 1 .. Len(f.dir) : j # i => f.dir[j].name # e.name,
           NEW g, g = [f EXCEPT !.dir = [f.dir EXCEPT ![i] = e]]
    PROVE  Good(g, d) /\ g.dir # <<>>
<1> DEFINE dir == f.dir
           s == [dir EXCEPT ![i] = e]
           H == Heads(dir)
           K == Depths(dir, d)
<1>1. /\ f \in FatState /\ f.blocks[0] = Meta /\ Unique(dir) /\ d \in Nat \ {0}
      /\ Laid(f.blocks, 0 .. Len(dir), H, K)
      /\ f.freeBlocks <= Cardinality(FreeOf(f.blocks))
      /\ f.freeBlocks + DirDepth(Len(dir)) <= Cardinality(FreeOf(f.blocks)) + d
      /\ OneBlockDir => d = 1 /\ f.freeBlocks = Cardinality(FreeOf(f.blocks))
  BY DEF Good
<1>2. dir \in Seq(dirEntry) /\ i \in 1 .. Len(dir) /\ e \in dirEntry /\ Len(dir) \in Nat
  BY <1>1 DEF FatState
<1>3. s \in Seq(dirEntry) /\ Len(s) = Len(dir)
  BY <1>2, EntryChanged
<1>4. g \in FatState /\ g.blocks = f.blocks /\ g.freeBlocks = f.freeBlocks /\ g.dir = s
  BY <1>1, <1>3 DEF FatState
<1>5. Heads(s) = H /\ Depths(s, d) = K
  <2>1. H \in [0 .. Len(dir) -> 0 .. NumEntries - 1] /\ K \in [0 .. Len(dir) -> Nat]
    BY <1>1 DEF Laid
  <2>2. /\ i \in 0 .. Len(dir) /\ H[i] = dir[i].firstBlock /\ K[i] = bytesToBlocks(dir[i].size)
    BY <1>2 DEF Heads, Depths
  <2> HIDE DEF dir, H, K
  <2>3. Heads(Replaced(dir, i, e)) = Replaced(Heads(dir), i, e.firstBlock)
    BY <1>2, HeadChanged
  <2>4. Depths(Replaced(dir, i, e), d) = Replaced(Depths(dir, d), i, bytesToBlocks(e.size))
    BY <1>2, DepthChanged
  <2>5. Heads(s) = [H EXCEPT ![i] = e.firstBlock] /\ Depths(s, d) = [K EXCEPT ![i] = bytesToBlocks(e.size)]
    BY <2>3, <2>4 DEF Replaced, H, K
  <2>6. e.firstBlock = H[i] /\ bytesToBlocks(e.size) = K[i]
    BY <2>2 DEF dir
  <2> QED
    BY <2>1, <2>2, <2>5, <2>6
<1>6. Unique(s)
  BY <1>1, <1>2, UniqueStays
<1>7. s # <<>>
  BY <1>2, <1>3
<1> HIDE DEF s, H, K
<1> QED
  BY <1>1, <1>3, <1>4, <1>5, <1>6, <1>7 DEF Good

\* chmod.
LEMMA ChmodGood ==
    ASSUME NEW f, NEW d, Good(f, d), NEW name, NEW perm \in Permission
    PROVE  \/ chmodFile(f, name, perm) = Refused(f)
           \/ \E g : chmodFile(f, name, perm) = Done(g) /\ Good(g, d) /\ g.dir # <<>>
<1>1. CASE ~Found(f, name)
  BY <1>1 DEF chmodFile
<1>2. CASE Found(f, name)
  <2> DEFINE i == getDirEntryNode(f, name)
             e == [f.dir[i] EXCEPT !.perm = perm]
             g == [f EXCEPT !.dir = [f.dir EXCEPT ![i] = e]]
  <2>1. f \in FatState /\ f.dir \in Seq(dirEntry) /\ Unique(f.dir)
    BY DEF Good, FatState
  <2>2. i \in 1 .. Len(f.dir) /\ f.dir[i] \in dirEntry /\ f.dir[i].name = name
    BY <1>2, <2>1, FoundFacts
  <2> HIDE DEF i
  <2>3. /\ e \in dirEntry /\ e.size = f.dir[i].size /\ e.firstBlock = f.dir[i].firstBlock
        /\ e.name = name
    BY <2>2 DEF dirEntry
  <2>4. [f EXCEPT !.dir[i].perm = perm] = g
    BY <2>1, <2>2 DEF FatState, dirEntry
  <2>5. chmodFile(f, name, perm) = Done(g)
    BY <1>2, <2>4 DEF chmodFile, i
  <2>6. \A j \in 1 .. Len(f.dir) : j # i => f.dir[j].name # e.name
    BY <2>1, <2>2, <2>3 DEF Unique
  <2>7. g = [f EXCEPT !.dir = [f.dir EXCEPT ![i] = e]]
    OBVIOUS
  <2> HIDE DEF e, g
  <2>8. Good(g, d) /\ g.dir # <<>>
    BY <2>2, <2>3, <2>6, <2>7, EntryKeptGood
  <2> QED
    BY <2>5, <2>8
<1> QED
  BY <1>1, <1>2

\* mv: a target that is there goes first, if it may.
LEMMA RenameGood ==
    ASSUME NEW f, NEW d, Good(f, d), NEW old, NEW new \in Names, old # new,
           Found(f, new) => MayWrite(Entry(f, new))
    PROVE  \/ renameFile(f, old, new) = Refused(f)
           \/ \E g : renameFile(f, old, new) = Done(g) /\ Good(g, d) /\ g.dir # <<>>
<1>1. CASE ~Found(f, old) \/ Entry(f, old).perm \in {NONE_PERMS, READ_PERMS}
  BY <1>1 DEF renameFile
<1>2. CASE ~(~Found(f, old) \/ Entry(f, old).perm \in {NONE_PERMS, READ_PERMS})
  <2> DEFINE h == deleteFile(f, new).fat
             i == getDirEntryNode(h, old)
             e == [h.dir[i] EXCEPT !.name = new]
             g == [h EXCEPT !.dir = [h.dir EXCEPT ![i] = e]]
  <2>1. f.dir \in Seq(dirEntry)
    BY DEF Good, FatState
  <2>2. PICK a \in 1 .. Len(f.dir) : f.dir[a].name = old
    BY <1>2, <2>1, FoundFacts
  <2>3. /\ Good(h, d)
        /\ \A j \in 1 .. Len(h.dir) : h.dir[j].name # new
        /\ \E j \in 1 .. Len(h.dir) : h.dir[j].name = old
    <3>1. CASE Found(f, new)
      <4>1. LET k == deleteFile(f, new).fat IN
            /\ Good(k, d) /\ k.disk = f.disk
            /\ Len(k.dir) = Len(f.dir) - 1
            /\ \A j \in 1 .. Len(k.dir) : k.dir[j].name # new
            /\ \A b \in 1 .. Len(f.dir) : f.dir[b].name # new =>
                  \E j \in 1 .. Len(k.dir) : k.dir[j] = f.dir[b]
        BY <3>1, DeleteGood
      <4> HIDE DEF h
      <4>2. /\ Good(h, d)
            /\ \A j \in 1 .. Len(h.dir) : h.dir[j].name # new
            /\ \A b \in 1 .. Len(f.dir) : f.dir[b].name # new =>
                  \E j \in 1 .. Len(h.dir) : h.dir[j] = f.dir[b]
        BY <4>1 DEF h
      <4> QED
        BY <2>2, <4>2
    <3>2. CASE ~Found(f, new)
      <4>1. h = f
        BY <3>2 DEF deleteFile, Refused
      <4> QED
        BY <2>1, <2>2, <3>2, <4>1, FoundFacts
    <3> QED
      BY <3>1, <3>2
  <2>4. renameFile(f, old, new) = Done([h EXCEPT !.dir[i].name = new])
    BY <1>2, Zenon DEF renameFile
  <2> HIDE DEF h
  <2>5. h \in FatState /\ h.dir \in Seq(dirEntry)
    BY <2>3 DEF Good, FatState
  <2>6. Found(h, old)
    BY <2>3, <2>5, FoundFacts
  <2>7. i \in 1 .. Len(h.dir) /\ h.dir[i] \in dirEntry
    BY <2>5, <2>6, FoundFacts
  <2> HIDE DEF i
  <2>8. /\ e \in dirEntry /\ e.size = h.dir[i].size /\ e.firstBlock = h.dir[i].firstBlock
        /\ e.name = new
    BY <2>7 DEF dirEntry
  <2>9. [h EXCEPT !.dir[i].name = new] = g
    BY <2>5, <2>7 DEF FatState, dirEntry
  <2>10. \A j \in 1 .. Len(h.dir) : j # i => h.dir[j].name # e.name
    BY <2>3, <2>8
  <2>11. g = [h EXCEPT !.dir = [h.dir EXCEPT ![i] = e]]
    OBVIOUS
  <2> HIDE DEF e, g
  <2>12. Good(g, d) /\ g.dir # <<>>
    BY <2>3, <2>7, <2>8, <2>10, <2>11, EntryKeptGood
  <2> QED
    BY <2>4, <2>9, <2>12
<1> QED
  BY <1>1, <1>2
-----------------------------------------------------------------------------
(* Mounting. *)

\* The blocks of the files, counted one file after the other.
LEMMA UsedSteps ==
    ASSUME NEW dir \in Seq(dirEntry)
    PROVE  /\ UsedBlocks(dir)[0] = 0
           /\ \A i \in 0 .. Len(dir) - 1 :
                 UsedBlocks(dir)[i + 1] = UsedBlocks(dir)[i] + bytesToBlocks(dir[i + 1].size)
<1> DEFINE L == Len(dir)
           Body(f, i) == IF i = 0 THEN 0 ELSE f[i - 1] + bytesToBlocks(dir[i].size)
           Walk(f, m) == f = [i \in 0 .. m |-> Body(f, i)]
           Walkable == {m \in Nat : \E f : Walk(f, m)}
<1>1. L \in Nat
  OBVIOUS
<1> HIDE DEF L
<1>2. 0 \in Walkable
  <2>1. Walk([i \in 0 .. 0 |-> 0], 0)
    OBVIOUS
  <2> QED
    BY <2>1
<1>3. ASSUME NEW m \in 0 .. L - 1, m \in Walkable
      PROVE  m + 1 \in Walkable
  <2>1. PICK f : Walk(f, m)
    BY <1>3
  <2> DEFINE g == [i \in 0 .. m + 1 |-> IF i = m + 1 THEN f[m] + bytesToBlocks(dir[m + 1].size) ELSE f[i]]
  <2>2. ASSUME NEW i \in 0 .. m + 1
        PROVE  g[i] = Body(g, i)
    <3>1. CASE i = m + 1
      BY <1>1, <3>1
    <3>2. CASE i # m + 1
      <4>1. i \in 0 .. m /\ g[i] = f[i] /\ f[i] = Body(f, i)
        BY <2>1, <3>2
      <4>2. i # 0 => i - 1 \in 0 .. m /\ g[i - 1] = f[i - 1]
        BY <4>1
      <4> QED
        BY <4>1, <4>2
    <3> QED
      BY <3>1, <3>2
  <2>3. Walk(g, m + 1)
    BY <2>2
  <2> HIDE DEF Walk
  <2> QED
    BY <2>3
<1>4. UsedBlocks(dir) = CHOOSE f : Walk(f, L)
  BY Zenon DEF UsedBlocks, L
<1>5. Walk(UsedBlocks(dir), L)
  <2>1. L \in Walkable
    <3> HIDE DEF Walkable
    <3>1. \A m \in 0 .. L - 1 : m \in Walkable => m + 1 \in Walkable
      BY <1>3
    <3>2. \A m \in 0 .. L : m \in Walkable
      BY <1>1, <1>2, <3>1, Upwards
    <3> QED
      BY <1>1, <3>2
  <2> HIDE DEF Walk
  <2> QED
    BY <1>4, <2>1
<1> HIDE DEF Walkable
<1> DEFINE n == UsedBlocks(dir)
<1>6. n = [i \in 0 .. L |-> Body(n, i)]
  BY <1>5
<1> HIDE DEF n
<1>7. n[0] = 0
  BY <1>1, <1>6
<1>8. \A i \in 0 .. L - 1 : n[i + 1] = n[i] + bytesToBlocks(dir[i + 1].size)
  BY <1>1, <1>6
<1> QED
  BY <1>7, <1>8 DEF n, L

\* Every block is free, the directory's or counted for a file.
LEMMA BlocksCounted ==
    ASSUME NEW dir \in Seq(dirEntry), NEW d \in Nat, NEW blocks,
           Laid(blocks, 0 .. Len(dir), Heads(dir), Depths(dir, d))
    PROVE  /\ UsedBlocks(dir)[Len(dir)] \in Nat
           /\ Cardinality(FreeOf(blocks)) + d + UsedBlocks(dir)[Len(dir)] = NumEntries - 1
<1> DEFINE L == Len(dir)
           I == 0 .. L
           H == Heads(dir)
           K == Depths(dir, d)
           C(i) == Chain(blocks, H[i])
           U(m) == UNION {C(i) : i \in 0 .. m}
           n == UsedBlocks(dir)
           P == {m \in Nat : /\ n[m] \in Nat
                             /\ IsFiniteSet(U(m)) /\ Cardinality(U(m)) = d + n[m]}
<1>1. L \in Nat /\ Laid(blocks, I, H, K) /\ 0 \in I
  OBVIOUS
<1>2. n[0] = 0 /\ \A i \in 0 .. L - 1 : n[i + 1] = n[i] + bytesToBlocks(dir[i + 1].size)
  BY UsedSteps
<1>3. /\ K[0] = d
      /\ \A i \in 0 .. L - 1 : i + 1 \in I /\ K[i + 1] = bytesToBlocks(dir[i + 1].size)
                               /\ K[i + 1] \in Nat
  <2>1. \A i \in I : K[i] = IF i = 0 THEN d ELSE bytesToBlocks(dir[i].size)
    BY DEF Depths
  <2>2. K \in [I -> Nat]
    BY DEF Laid
  <2> HIDE DEF K
  <2> QED
    BY <1>1, <2>1, <2>2
<1>4. \A i, j \in I : i # j => C(i) \cap C(j) = {}
  BY DEF Laid
<1>5. \A b \in Block \ FreeOf(blocks) : \E i \in I : b \in C(i)
  BY DEF Laid
<1> HIDE DEF L, I, H, K, n
<1>6. \A i \in I : C(i) \subseteq Block \ FreeOf(blocks) /\ IsFiniteSet(C(i)) /\ Cardinality(C(i)) = K[i]
  BY <1>1, OwnedFacts
<1> HIDE DEF C
<1>7. 0 \in P
  <2>1. U(0) = C(0)
    OBVIOUS
  <2> HIDE DEF U
  <2> QED
    BY <1>1, <1>2, <1>3, <1>6, <2>1
<1>8. ASSUME NEW m \in 0 .. L - 1, m \in P
      PROVE  m + 1 \in P
  <2>0. m \in Nat /\ m + 1 \in I /\ m + 1 \in Nat
    BY <1>1, <1>3
  <2>1. U(m + 1) = U(m) \cup C(m + 1)
    <3>1. 0 .. m + 1 = (0 .. m) \cup {m + 1}
      BY <2>0
    <3> QED
      BY <3>1
  <2>2. U(m) \cap C(m + 1) = {}
    <3>1. \A i \in 0 .. m : i \in I /\ i # m + 1
      BY <1>1, <2>0 DEF I
    <3>2. \A i \in 0 .. m : C(i) \cap C(m + 1) = {}
      BY <1>4, <2>0, <3>1
    <3> QED
      BY <3>2
  <2> HIDE DEF U
  <2>3. IsFiniteSet(U(m)) /\ Cardinality(U(m)) = d + n[m] /\ n[m] \in Nat
    BY <1>8
  <2>4. IsFiniteSet(C(m + 1)) /\ Cardinality(C(m + 1)) = K[m + 1] /\ K[m + 1] \in Nat
    BY <1>3, <1>6, <2>0
  <2>5. Cardinality(U(m) \cap C(m + 1)) = 0
    BY <2>2, FS_EmptySet
  <2>6. /\ IsFiniteSet(U(m) \cup C(m + 1))
        /\ Cardinality(U(m) \cup C(m + 1))
             = Cardinality(U(m)) + Cardinality(C(m + 1)) - Cardinality(U(m) \cap C(m + 1))
    BY <2>3, <2>4, FS_Union
  <2>7. n[m + 1] = n[m] + K[m + 1]
    BY <1>2, <1>3
  <2>8. n[m + 1] \in Nat
    BY <2>3, <2>4, <2>7
  <2>9. IsFiniteSet(U(m + 1))
    BY <2>1, <2>6
  <2>10. Cardinality(U(m + 1)) = d + n[m + 1]
    <3>1. Cardinality(U(m + 1)) = Cardinality(U(m) \cup C(m + 1))
      BY <2>1
    <3>2. Cardinality(U(m) \cup C(m + 1)) = (d + n[m]) + K[m + 1] - 0
      BY <2>3, <2>4, <2>5, <2>6
    <3> QED
      BY <2>3, <2>4, <2>7, <3>1, <3>2
  <2> QED
    BY <2>0, <2>8, <2>9, <2>10
<1>9. L \in P
  <2> HIDE DEF P
  <2>1. \A m \in 0 .. L - 1 : m \in P => m + 1 \in P
    BY <1>8
  <2>2. \A m \in 0 .. L : m \in P
    BY <1>1, <1>7, <2>1, Upwards
  <2> QED
    BY <1>1, <2>2
<1>10. U(L) = Block \ FreeOf(blocks)
  BY <1>5, <1>6 DEF I
<1> HIDE DEF U
<1>11. Cardinality(Block \ FreeOf(blocks)) = d + n[L] /\ n[L] \in Nat
  BY <1>9, <1>10
<1>12. /\ IsFiniteSet(Block) /\ Cardinality(Block) = NumEntries - 1
  <2>1. /\ NumEntries \in Nat /\ Block = 1 .. NumEntries - 1
        /\ 1 \in Int /\ NumEntries - 1 \in Int /\ ~(1 > NumEntries - 1)
        /\ NumEntries - 1 - 1 + 1 = NumEntries - 1
    BY SizeFacts
  <2> QED
    BY <2>1, FS_Interval
<1>13. FreeOf(blocks) \subseteq Block /\ IsFiniteSet(FreeOf(blocks)) /\ Cardinality(FreeOf(blocks)) \in Nat
  BY FreeFinite DEF FreeOf
<1>14. Cardinality(Block \ FreeOf(blocks)) = Cardinality(Block) - Cardinality(FreeOf(blocks))
  <2>1. Block \cap FreeOf(blocks) = FreeOf(blocks)
    BY <1>13
  <2>2. Cardinality(Block \ FreeOf(blocks)) = Cardinality(Block) - Cardinality(Block \cap FreeOf(blocks))
    BY <1>12, FS_Difference
  <2> QED
    BY <2>1, <2>2
<1>15. NumEntries \in Nat
  BY SizeFacts
<1> QED
  BY <1>11, <1>12, <1>13, <1>14, <1>15 DEF n, L

\* A block that is an end is a chain of its own.
LEMMA OneBlockChain ==
    ASSUME NEW blocks, NEW b \in Block, blocks[b] = End
    PROVE  Sound(blocks, b, 1) /\ Chain(blocks, b) = {b}
<1> DEFINE k == 1
           c == [j \in 1 .. k |-> b]
<1>1. k \in 1 .. NumEntries - 1 /\ k = 1
  BY SizeFacts
<1>2. /\ c \in [1 .. k -> Block] /\ c[1] = b /\ blocks[c[k]] = End
      /\ \A j \in 1 .. k - 1 : blocks[c[j]] = c[j + 1]
  OBVIOUS
<1> HIDE DEF k, c
<1>3. Sound(blocks, b, k)
  BY <1>1, <1>2, PathIsChain
<1>4. Nth(blocks, b)[1] = b /\ Chain(blocks, b) = {Nth(blocks, b)[j] : j \in 1 .. k}
  BY <1>3, SoundFacts
<1> QED
  BY <1>1, <1>3, <1>4

\* In a directory of one block all entries are read that begin it, up to a cell
\* which is none.
LEMMA ReadBack ==
    ASSUME NEW f, f.blocks[1] = End, NEW dir \in Seq(dirEntry), Len(dir) <= BlockSize,
           \A j \in 1 .. Len(dir) : f.disk[j - 1] = dir[j],
           Len(dir) < BlockSize => f.disk[Len(dir)] \in Data \cup {Zero}
    PROVE  getAllFile(f) = dir
<1> DEFINE L == Len(dir)
           length == BlockSize * Cardinality(Chain(f.blocks, 1))
           cells == getContents(f, 1, length)
           read == {n \in 0 .. Len(cells) : \A i \in 1 .. n : cells[i] \notin Data \cup {Zero}}
           c == Nth(f.blocks, 1)
           cell(i) == LET b == c[(i - 1) \div BlockSize + 1] IN
                      IF b \in Block THEN f.disk[(b - 1) * BlockSize + ((i - 1) % BlockSize)] ELSE Zero
<1>1. BlockSize \in Nat \ {0} /\ 1 \in Block /\ L \in Nat
  BY SizeFacts
<1>2. length = BlockSize
  <2>1. Chain(f.blocks, 1) = {1}
    BY <1>1, OneBlockChain
  <2>2. Cardinality({1}) = 1
    BY FS_Singleton
  <2>3. BlockSize * 1 = BlockSize
    BY <1>1
  <2>4. Cardinality(Chain(f.blocks, 1)) = 1
    BY <2>1, <2>2
  <2> QED
    BY <2>3, <2>4
<1> HIDE DEF length
<1>3. cells = [i \in 1 .. length |-> cell(i)]
  BY Zenon DEF getContents
<1>4. c[1] = 1
  BY NthSteps
<1>5. ASSUME NEW i \in 1 .. BlockSize
      PROVE  cell(i) = f.disk[i - 1]
  <2>1. (i - 1) \div BlockSize = 0 /\ (i - 1) % BlockSize = i - 1
    <3>1. i - 1 \in Nat /\ i - 1 \in 0 .. BlockSize - 1 /\ 0 \in Nat /\ i - 1 = BlockSize * 0 + (i - 1)
      BY <1>1
    <3> QED
      BY <3>1, DivUnique
  <2>2. (1 - 1) * BlockSize + (i - 1) = i - 1
    BY <1>1
  <2>3. 0 + 1 = 1 /\ 1 \in Block
    BY <1>1 DEF Block
  <2> DEFINE q == (i - 1) \div BlockSize
             r == (i - 1) % BlockSize
  <2>4. cell(i) = IF c[q + 1] \in Block THEN f.disk[(c[q + 1] - 1) * BlockSize + r] ELSE Zero
    BY Zenon
  <2>5. q = 0 /\ r = i - 1
    BY <2>1
  <2> HIDE DEF c, q, r, cell
  <2>6. c[q + 1] = 1
    BY <1>4, <2>3, <2>5
  <2> QED
    BY <2>2, <2>3, <2>4, <2>5, <2>6
<1> HIDE DEF cell, cells
<1>6. Len(cells) = BlockSize /\ \A i \in 1 .. BlockSize : cells[i] = f.disk[i - 1]
  BY <1>1, <1>2, <1>3, <1>5
<1>7. \A i \in 1 .. L : cells[i] = dir[i] /\ cells[i] \notin Data \cup {Zero}
  <2> SUFFICES ASSUME NEW i \in 1 .. L
               PROVE  cells[i] = dir[i] /\ cells[i] \notin Data \cup {Zero}
    OBVIOUS
  <2>1. cells[i] = dir[i]
    BY <1>1, <1>6
  <2>2. dir[i] \in dirEntry
    OBVIOUS
  <2> QED
    BY <2>1, <2>2, DataAssumption
<1>8. L < BlockSize => cells[L + 1] \in Data \cup {Zero}
  <2>1. L < BlockSize => L + 1 \in 1 .. BlockSize /\ (L + 1) - 1 = L
    BY <1>1
  <2>2. L < BlockSize => cells[L + 1] = f.disk[(L + 1) - 1]
    BY <1>6, <2>1
  <2> QED
    BY <2>1, <2>2
<1>9. L \in read /\ \A n \in read : n <= L
  <2>1. L \in read
    BY <1>1, <1>6, <1>7
  <2>2. ASSUME NEW n \in read PROVE n <= L
    BY <1>1, <1>6, <1>8
  <2> QED
    BY <2>1, <2>2
<1>10. Max(read) = L
  <2>1. read \subseteq Nat
    OBVIOUS
  <2> HIDE DEF read
  <2> QED
    <3>1. \A y \in read : L >= y
      BY <1>1, <1>9, <2>1
    <3>2. Max(read) \in read /\ \A y \in read : Max(read) >= y
      BY <1>9, <3>1, Zenon DEF Max
    <3> DEFINE m == Max(read)
    <3>3. m \in read /\ m >= L /\ m \in Nat /\ m <= L
      BY <1>9, <2>1, <3>2
    <3> HIDE DEF m, L
    <3>4. m = L
      BY <1>1, <3>3
    <3> QED
      BY <3>4 DEF m
<1>11. getAllFile(f) = SubSeq(cells, 1, L)
  <2>1. getAllFile(f) = SubSeq(cells, 1, Max(read))
    BY Zenon DEF getAllFile, cells, length
  <2> QED
    BY <1>10, <2>1
<1>12. SubSeq(cells, 1, L) = dir
  <2>1. SubSeq(cells, 1, L) = [i \in 1 .. L |-> cells[i]]
    <3>1. SubSeq(cells, 1, L) = [i \in 1 .. L - 1 + 1 |-> cells[i + 1 - 1]]
      BY <1>1
    <3> QED
      BY <1>1, <3>1
  <2>2. dir = [i \in 1 .. L |-> dir[i]]
    OBVIOUS
  <2> QED
    BY <1>7, <2>1, <2>2
<1> QED
  BY <1>11, <1>12

\* A sound file system of which an empty directory is told on the disk, too: a
\* save of an empty directory writes nothing.
SoundFat(f) == \E d : Good(f, d) /\ (f.dir = <<>> => f.disk[0] \in Data \cup {Zero})

\* The table as loadFat finds or makes it: block 1 is the directory's.
Linked1(blocks) == [blocks EXCEPT ![1] = IF @ = Free THEN End ELSE @]

\* loadFat, where the table and the directory on the disk agree.
LEMMA LoadGood ==
    ASSUME NEW f \in FatState, f.blocks[0] = Meta,
           NEW dir \in Seq(dirEntry), Unique(dir), Len(dir) <= BlockSize,
           NEW blocks, blocks = Linked1(f.blocks), blocks[1] = End,
           Laid(blocks, 0 .. Len(dir), Heads(dir), Depths(dir, 1)),
           \A j \in 1 .. Len(dir) : f.disk[j - 1] = dir[j],
           Len(dir) < BlockSize => f.disk[Len(dir)] \in Data \cup {Zero}
    PROVE  SoundFat(loadFat(f))
<1> DEFINE linked == [f EXCEPT !.blocks[1] = IF @ = Free THEN End ELSE @]
           n == NumEntries - 2 - UsedBlocks(dir)[Len(dir)]
           g == [blocks |-> blocks, disk |-> f.disk, dir |-> dir, freeBlocks |-> n]
           one == 1
<1>0. Len(dir) \in Nat /\ blocks \in Table /\ NumEntries \in Nat /\ one \in Nat /\ one = 1
  BY SizeFacts DEF Laid
<1>1. linked = [blocks |-> blocks, disk |-> f.disk, dir |-> f.dir, freeBlocks |-> f.freeBlocks]
  <2> DEFINE v == IF f.blocks[1] = Free THEN End ELSE f.blocks[1]
  <2>1. linked = [f EXCEPT !.blocks = [f.blocks EXCEPT ![1] = v]]
    BY DEF FatState
  <2>2. blocks = [f.blocks EXCEPT ![1] = v]
    BY DEF Linked1
  <2> HIDE DEF v, linked
  <2>3. linked = [f EXCEPT !.blocks = blocks]
    BY <2>1, <2>2
  <2> QED
    BY <2>3 DEF FatState
<1>2. getAllFile(linked) = dir
  <2>1. linked.blocks[1] = End /\ linked.disk = f.disk
    BY <1>1
  <2> HIDE DEF linked
  <2> QED
    BY <2>1, ReadBack
<1>3. loadFat(f) = g
  <2>1. loadFat(f) = [linked EXCEPT !.dir = getAllFile(linked),
                                    !.freeBlocks = NumEntries - 2 - UsedBlocks(getAllFile(linked))[Len(getAllFile(linked))]]
    BY Zenon DEF loadFat
  <2>2. loadFat(f) = [linked EXCEPT !.dir = dir, !.freeBlocks = n]
    BY <1>2, <2>1
  <2> HIDE DEF n, linked
  <2> QED
    BY <1>1, <2>2
<1> HIDE DEF one
<1>4. /\ UsedBlocks(dir)[Len(dir)] \in Nat
      /\ Cardinality(FreeOf(blocks)) + one + UsedBlocks(dir)[Len(dir)] = NumEntries - 1
  <2>1. Laid(blocks, 0 .. Len(dir), Heads(dir), Depths(dir, one))
    BY <1>0
  <2> QED
    BY <1>0, <2>1, BlocksCounted
<1>5. n = Cardinality(FreeOf(blocks)) /\ n \in Nat
  <2>1. Cardinality(FreeOf(blocks)) \in Nat
    BY FreeFinite
  <2> QED
    BY <1>0, <1>4, <2>1
<1> HIDE DEF n
<1>6. DirDepth(Len(dir)) = 1
  BY <1>0, DirDepthLemma
<1>7. g \in FatState /\ g.blocks = blocks /\ g.dir = dir /\ g.freeBlocks = n /\ g.disk = f.disk
  BY <1>0, <1>5 DEF FatState
<1>8. blocks[0] = Meta
  <2>1. 0 \in 0 .. NumEntries - 1 /\ 0 # 1
    BY SizeFacts
  <2> QED
    BY <2>1 DEF Linked1, FatState, Table
<1> HIDE DEF g
<1>9. Good(g, 1)
  <2>1. Laid(g.blocks, 0 .. Len(g.dir), Heads(g.dir), Depths(g.dir, 1))
    BY <1>7
  <2>2. /\ g.freeBlocks <= Cardinality(FreeOf(g.blocks))
        /\ g.freeBlocks + DirDepth(Len(g.dir)) <= Cardinality(FreeOf(g.blocks)) + 1
        /\ g.freeBlocks = Cardinality(FreeOf(g.blocks))
    BY <1>5, <1>6, <1>7
  <2> QED
    BY <1>7, <1>8, <2>1, <2>2 DEF Good
<1>10. g.dir = <<>> => g.disk[0] \in Data \cup {Zero}
  <2>1. dir = <<>> => Len(dir) = 0 /\ Len(dir) < BlockSize
    BY SizeFacts
  <2> QED
    BY <1>7, <2>1
<1> QED
  BY <1>3, <1>9, <1>10 DEF SoundFat

\* A table in which only the directory has a block.
LEMMA EmptyLaid ==
    ASSUME NEW blocks \in Table, \A b \in Block \ {1} : blocks[b] = Free, blocks[1] = End
    PROVE  Laid(blocks, 0 .. Len(<<>>), Heads(<<>>), Depths(<<>>, 1))
<1> DEFINE I == 0 .. Len(<<>>)
           H == Heads(<<>>)
           K == Depths(<<>>, 1)
<1>1. I = {0}
  BY DEF I
<1>2. H = [i \in I |-> 1] /\ K = [i \in I |-> 1]
  BY <1>1 DEF Heads, Depths
<1>3. 1 \in Block /\ 1 \in 0 .. NumEntries - 1
  BY SizeFacts
<1>4. Sound(blocks, 1, 1) /\ Chain(blocks, 1) = {1}
  BY <1>3, OneBlockChain
<1> HIDE DEF I, H, K
<1>5. H \in [I -> 0 .. NumEntries - 1] /\ K \in [I -> Nat]
  BY <1>2, <1>3
<1>6. \A i \in I : i = 0 /\ H[i] = 1 /\ K[i] = 1
  BY <1>1, <1>2
<1>7. \A b \in Block \ FreeOf(blocks) : b = 1
  BY DEF FreeOf
<1>8. \A i \in I : IF K[i] = 0 THEN H[i] = 0 ELSE Sound(blocks, H[i], K[i])
  BY <1>4, <1>6
<1>9. \A b \in Block \ FreeOf(blocks) : \E i \in I : b \in Chain(blocks, H[i])
  BY <1>1, <1>4, <1>6, <1>7
<1>10. \A i, j \in I : i # j => Chain(blocks, H[i]) \cap Chain(blocks, H[j]) = {}
  BY <1>6
<1> QED
  BY <1>5, <1>8, <1>9, <1>10 DEF Laid, I, H, K

\* Freeing a chain changes only blocks.
LEMMA FreeChainTable ==
    ASSUME NEW blocks \in Table, NEW b
    PROVE  /\ FreeChain(blocks, b) \in Table
           /\ FreeChain(blocks, b)[0] = blocks[0]
           /\ \A c \in Block : FreeChain(blocks, b)[c]
                                 = IF c \in Chain(blocks, b) THEN Free ELSE blocks[c]
<1> DEFINE chain == Chain(blocks, b)
           s == FreeChain(blocks, b)
<1>1. s = [c \in DOMAIN blocks |-> IF c \in chain THEN Free ELSE blocks[c]]
  BY DEF FreeChain
<1>2. chain \subseteq Block
  BY DEF Chain
<1> HIDE DEF chain, s
<1>3. /\ DOMAIN blocks = 0 .. NumEntries - 1 /\ Free \in 0 .. Meta /\ 0 \notin Block
      /\ 0 \in 0 .. NumEntries - 1 /\ Block \subseteq 0 .. NumEntries - 1
  BY SizeFacts DEF Table
<1>4. s \in Table
  BY <1>1, <1>3 DEF Table
<1>5. s[0] = blocks[0]
  BY <1>1, <1>2, <1>3
<1>6. \A c \in Block : s[c] = IF c \in chain THEN Free ELSE blocks[c]
  BY <1>1, <1>3
<1> QED
  BY <1>4, <1>5, <1>6 DEF chain, s

\* A table without files, whose directory is empty on the disk.
LEMMA EmptyLoad ==
    ASSUME NEW f \in FatState, f.blocks[0] = Meta, \A b \in Block \ {1} : f.blocks[b] = Free,
           f.blocks[1] = Free \/ f.blocks[1] = End, f.disk[0] \in Data \cup {Zero}
    PROVE  SoundFat(loadFat(f))
<1> DEFINE dir == <<>>
           blocks == Linked1(f.blocks)
<1>1. /\ dir \in Seq(dirEntry) /\ Len(dir) = 0 /\ Unique(dir)
      /\ \A j \in 1 .. Len(dir) : f.disk[j - 1] = dir[j]
  BY DEF Unique
<1>2. Len(dir) <= BlockSize
  BY <1>1, SizeFacts
<1>3. blocks \in Table /\ blocks[1] = End /\ \A b \in Block \ {1} : blocks[b] = Free
  <2>1. f.blocks \in Table
    BY DEF FatState
  <2>2. 1 \in 0 .. NumEntries - 1 /\ End \in 0 .. Meta /\ End # Free
    BY SizeFacts
  <2>3. Block \subseteq 0 .. NumEntries - 1
    BY SizeFacts
  <2> QED
    BY <2>1, <2>2, <2>3 DEF Linked1, Table
<1>4. blocks = Linked1(f.blocks)
  OBVIOUS
<1> HIDE DEF blocks
<1>5. Laid(blocks, 0 .. Len(dir), Heads(dir), Depths(dir, 1))
  BY <1>3, EmptyLaid
<1>6. f.disk[Len(dir)] \in Data \cup {Zero}
  BY <1>1
<1> HIDE DEF dir
<1> QED
  BY <1>1, <1>2, <1>3, <1>4, <1>5, <1>6, LoadGood

\* mkfs.
LEMMA NewGood ==
    SoundFat(NewFat) /\ NewFat \in FatState
<1> DEFINE dir == <<>>
           blocks == NewFat.blocks
           one == 1
<1>1. /\ NumEntries \in Nat /\ NumEntries > 2 /\ BlockSize \in Nat \ {0}
      /\ 1 \in Block /\ Block = 1 .. NumEntries - 1
      /\ Free \in 0 .. Meta /\ End \in 0 .. Meta /\ Meta \in 0 .. Meta
  BY SizeFacts
<1>2. blocks \in Table /\ blocks[0] = Meta /\ blocks[1] = End /\ \A b \in Block \ {1} : blocks[b] = Free
  BY <1>1 DEF NewFat, Table
<1>3. /\ NewFat.disk \in Region /\ NewFat.disk[0] = Zero /\ NewFat.dir = dir
      /\ NewFat.freeBlocks = NumEntries - 2 /\ NewFat.freeBlocks \in Nat
  <2>1. 0 \in 0 .. (NumEntries - 1) * BlockSize - 1
    <3>1. (NumEntries - 1) * BlockSize = (NumEntries - 2) * BlockSize + BlockSize
          /\ (NumEntries - 2) * BlockSize \in Nat
      BY <1>1
    <3> QED
      BY <1>1, <3>1
  <2>2. NewFat.disk = [c \in 0 .. (NumEntries - 1) * BlockSize - 1 |-> Zero]
    BY DEF NewFat
  <2>3. NewFat.disk \in Region /\ NewFat.disk[0] = Zero
    BY <2>1, <2>2 DEF Region, Cell
  <2> QED
    BY <1>1, <2>3 DEF NewFat
<1>4. NewFat \in FatState
  <2>1. NewFat = [blocks |-> NewFat.blocks, disk |-> NewFat.disk, dir |-> NewFat.dir,
                  freeBlocks |-> NewFat.freeBlocks]
    BY DEF NewFat
  <2>2. NewFat.dir \in Seq(dirEntry)
    BY <1>3
  <2> QED
    BY <1>2, <1>3, <2>1, <2>2 DEF FatState
<1> HIDE DEF blocks
<1>5. Laid(blocks, 0 .. Len(dir), Heads(dir), Depths(dir, 1))
  BY <1>2, EmptyLaid
<1>6. dir \in Seq(dirEntry) /\ Len(dir) = 0 /\ Unique(dir) /\ one \in Nat /\ one = 1
  BY DEF Unique
<1> HIDE DEF dir, one
<1>7. /\ UsedBlocks(dir)[Len(dir)] \in Nat
      /\ Cardinality(FreeOf(blocks)) + one + UsedBlocks(dir)[Len(dir)] = NumEntries - 1
  <2>1. Laid(blocks, 0 .. Len(dir), Heads(dir), Depths(dir, one))
    BY <1>5, <1>6
  <2> QED
    BY <1>6, <2>1, BlocksCounted
<1>8. UsedBlocks(dir)[Len(dir)] = 0
  BY <1>6, UsedSteps
<1>9. Cardinality(FreeOf(blocks)) = NumEntries - 2
  <2>1. Cardinality(FreeOf(blocks)) \in Nat
    BY FreeFinite
  <2> QED
    BY <1>1, <1>6, <1>7, <1>8, <2>1
<1>10. DirDepth(Len(dir)) = 1
  BY <1>6 DEF DirDepth
<1>11. Good(NewFat, 1)
  <2>1. Laid(NewFat.blocks, 0 .. Len(NewFat.dir), Heads(NewFat.dir), Depths(NewFat.dir, 1))
    BY <1>3, <1>5 DEF blocks
  <2>2. /\ NewFat.freeBlocks <= Cardinality(FreeOf(NewFat.blocks))
        /\ NewFat.freeBlocks + DirDepth(Len(NewFat.dir)) <= Cardinality(FreeOf(NewFat.blocks)) + 1
        /\ NewFat.freeBlocks = Cardinality(FreeOf(NewFat.blocks))
    BY <1>1, <1>3, <1>9, <1>10 DEF blocks
  <2> QED
    BY <1>2, <1>3, <1>4, <1>6, <2>1, <2>2 DEF Good, blocks
<1> QED
  BY <1>3, <1>4, <1>11 DEF SoundFat

\* What saveFat leaves in block 1 for a directory of one block.
LEMMA SavedDisk ==
    ASSUME NEW f \in FatState, f.dir # <<>>, Len(f.dir) <= BlockSize
    PROVE  /\ \A j \in 1 .. Len(f.dir) : saveFat(f).disk[j - 1] = f.dir[j]
           /\ Len(f.dir) < BlockSize => saveFat(f).disk[Len(f.dir)] = Zero
<1> DEFINE dir == f.dir
           L == Len(dir)
           bytes == DirBytes(dir)
           blocks == FreeChain(f.blocks, 1)
           disk == f.disk
           start == 1
           offset == 0
           w == WriteCells(blocks, disk, start, offset, bytes)
           top == (NumEntries - 1) * BlockSize - 1
<1>1. /\ dir \in Seq(dirEntry) /\ f.blocks \in Table /\ disk \in Region
      /\ BlockSize \in Nat \ {0} /\ L \in Nat /\ L # 0 /\ start \in Block
      /\ offset \in 0 .. BlockSize - 1 /\ start = 1 /\ offset = 0
  <2>1. dir \in Seq(dirEntry) /\ f.blocks \in Table /\ disk \in Region
    BY DEF FatState
  <2>2. L \in Nat /\ L # 0
    BY <2>1
  <2> QED
    BY <2>1, <2>2, SizeFacts
<1>2. saveFat(f).disk = w.disk
  <2> DEFINE b == w.blocks
             k == w.disk
  <2>1. saveFat(f) = [f EXCEPT !.blocks = b, !.disk = k]
    BY DEF saveFat, DirBytes
  <2> HIDE DEF b, k
  <2>2. [f EXCEPT !.blocks = b, !.disk = k]
          = [blocks |-> b, disk |-> k, dir |-> dir, freeBlocks |-> f.freeBlocks]
    BY SavedRecord, Zenon
  <2>3. saveFat(f).disk = k
    BY <2>1, <2>2
  <2> QED
    BY <2>3 DEF k
<1>3. /\ L % BlockSize = 0 => L = BlockSize
      /\ L < BlockSize => L % BlockSize # 0
  <2>1. L = BlockSize \/ L \in 0 .. BlockSize - 1
    BY <1>1
  <2>2. L \in 0 .. BlockSize - 1 => L % BlockSize = L
    <3>0. BlockSize * 0 = 0
      BY SizeFacts
    <3> HIDE DEF L
    <3>1. 0 \in Nat /\ L = BlockSize * 0 + L
      BY <1>1, <3>0
    <3> QED
      BY <1>1, <3>1, DivUnique
  <2> HIDE DEF L
  <2> QED
    BY <1>1, <2>1, <2>2
<1>4. /\ bytes \in Seq(Cell) /\ L <= Len(bytes) /\ Len(bytes) <= BlockSize /\ Len(bytes) \in Nat
      /\ \A j \in 1 .. L : bytes[j] = dir[j]
      /\ L < BlockSize => Len(bytes) = L + 1 /\ bytes[L + 1] = Zero
  <2>1. bytes \in Seq(Cell)
    BY <1>1, DirBytesFacts
  <2>2. CASE L % BlockSize = 0
    <3>1. bytes = dir
      BY <2>2 DEF DirBytes
    <3> QED
      BY <1>1, <1>3, <2>1, <2>2, <3>1
  <2>3. CASE L % BlockSize # 0
    <3>1. bytes = Append(dir, Zero)
      BY <2>3 DEF DirBytes
    <3>2. Len(bytes) = L + 1 /\ bytes[L + 1] = Zero /\ \A j \in 1 .. L : bytes[j] = dir[j]
      BY <1>1, <3>1
    <3>3. L # BlockSize
      <4>1. 1 \in Nat /\ 0 \in 0 .. BlockSize - 1 /\ BlockSize = BlockSize * 1 + 0 /\ BlockSize \in Nat
        BY <1>1
      <4>2. BlockSize % BlockSize = 0
        BY <4>1, DivUnique
      <4> QED
        BY <2>3, <4>2
    <3>4. L < BlockSize
      BY <1>1, <3>3
    <3> HIDE DEF bytes, L
    <3> QED
      BY <1>1, <2>1, <3>2, <3>4
  <2> QED
    BY <2>2, <2>3
<1>5. blocks \in Table
  BY <1>1, FreeChainTable
<1> HIDE DEF blocks, bytes, disk, dir, start, offset
<1>6. LET base == (start - 1) * BlockSize + offset IN Put(w.disk, disk, base, bytes)
  <2>1. offset + Len(bytes) <= BlockSize
    BY <1>1, <1>4
  <2>2. LET base == (start - 1) * BlockSize + offset IN
        /\ bytes = <<>> => w.blocks = blocks
        /\ bytes # <<>> => w.blocks = [blocks EXCEPT ![start] = End]
        /\ w.disk \in Region
        /\ Put(w.disk, disk, base, bytes)
    BY <1>1, <1>4, <1>5, <2>1, WriteFits
  <2> HIDE DEF w
  <2> QED
    BY <2>2
<1> HIDE DEF w
<1>7. (start - 1) * BlockSize + offset = 0
  BY <1>1
<1>8. Put(w.disk, disk, 0, bytes)
  BY <1>6, <1>7
<1>9. BlockSize - 1 <= top /\ top \in Nat
  <2>1. /\ (NumEntries - 1) * BlockSize = (NumEntries - 2) * BlockSize + BlockSize
        /\ (NumEntries - 2) * BlockSize \in Nat
    BY <1>1, SizeFacts
  <2> QED
    BY <1>1, <2>1
<1>10. \A p \in 0 .. top : w.disk[p] = IF 0 <= p /\ p < 0 + Len(bytes) THEN bytes[p - 0 + 1] ELSE disk[p]
  BY <1>8 DEF Put
<1> HIDE DEF top, L
<1>11. ASSUME NEW j \in 1 .. L
       PROVE  w.disk[j - 1] = dir[j]
  <2>1. j - 1 \in 0 .. top /\ 0 <= j - 1 /\ j - 1 < 0 + Len(bytes) /\ j - 1 - 0 + 1 = j
    BY <1>1, <1>4, <1>9
  <2>2. w.disk[j - 1] = bytes[j]
    BY <1>10, <2>1
  <2> QED
    BY <1>4, <2>2
<1>12. L < BlockSize => w.disk[L] = Zero
  <2> SUFFICES ASSUME L < BlockSize PROVE w.disk[L] = Zero
    OBVIOUS
  <2>1. L \in 0 .. top /\ 0 <= L /\ L < 0 + Len(bytes) /\ L - 0 + 1 = L + 1
    BY <1>1, <1>4, <1>9
  <2>2. w.disk[L] = bytes[L + 1]
    BY <1>10, <2>1
  <2> QED
    BY <1>4, <2>2
<1> QED
  BY <1>2, <1>11, <1>12 DEF L, dir

\* What a mount of an image leaves to be said: its directory is not in memory,
\* and if it has one block, the table and the directory on the disk agree.
Unmounted(f) ==
    /\ f \in FatState /\ f.blocks[0] = Meta /\ f.dir = <<>> /\ f.freeBlocks = 0
    /\ f.blocks[1] \notin Block => SoundFat(loadFat(f))

\* An image of which only the directory in memory and the count are dropped.
LEMMA Dropped ==
    ASSUME NEW f \in FatState
    PROVE  [f EXCEPT !.dir = <<>>, !.freeBlocks = 0]
             = [blocks |-> f.blocks, disk |-> f.disk, dir |-> <<>>, freeBlocks |-> 0]
<1> DEFINE dir == <<>>
           g  == [f EXCEPT !.dir = dir, !.freeBlocks = 0]
           g1 == [f EXCEPT !.dir = dir]
           g2 == [g1 EXCEPT !.freeBlocks = 0]
<1>1. g = g2
  OBVIOUS
<1> HIDE DEF g
<1>2. g1 = [blocks |-> f.blocks, disk |-> f.disk, dir |-> dir, freeBlocks |-> f.freeBlocks]
  BY DEF FatState
<1> HIDE DEF g1
<1>3. g2 = [blocks |-> f.blocks, disk |-> f.disk, dir |-> dir, freeBlocks |-> 0]
  BY <1>2
<1> HIDE DEF g2
<1> QED
  BY <1>1, <1>3 DEF g

\* A save of an empty directory writes nothing and frees its blocks.
LEMMA EmptySaved ==
    ASSUME NEW f \in FatState, f.blocks[0] = Meta, NEW d \in Nat, f.dir = <<>>,
           Laid(f.blocks, 0 .. Len(f.dir), Heads(f.dir), Depths(f.dir, d))
    PROVE  /\ saveFat(f) \in FatState /\ saveFat(f).blocks[0] = Meta
           /\ \A c \in Block : saveFat(f).blocks[c] = Free
           /\ saveFat(f).disk = f.disk
<1> DEFINE s == saveFat(f)
           dir == f.dir
<1>1. dir = <<>>
  OBVIOUS
<1>2. /\ f \in FatState /\ f.blocks[0] = Meta
      /\ Laid(f.blocks, 0 .. Len(dir), Heads(dir), Depths(dir, d))
      /\ f.blocks \in Table /\ dir \in Seq(dirEntry) /\ f.disk \in Region /\ Len(dir) \in Nat
  BY DEF FatState
<1> DEFINE blocks == FreeChain(f.blocks, 1)
           bytes == DirBytes(dir)
           w == WriteCells(blocks, f.disk, 1, 0, bytes)
           b == w.blocks
           k == w.disk
<1>3. bytes = <<>> /\ bytes \in Seq(Cell)
  <2>1. 0 % BlockSize = 0
    BY SizeAssumption
  <2> QED
    BY <1>1, <2>1 DEF DirBytes
<1>4. blocks \in Table /\ blocks[0] = Meta
  BY <1>2, FreeChainTable
<1>5. \A c \in Block : blocks[c] = Free
  <2>1. \A c \in Block : blocks[c] = IF c \in Chain(f.blocks, 1) THEN Free ELSE f.blocks[c]
    BY <1>2, FreeChainTable
  <2>2. \A c \in Block \ FreeOf(f.blocks) : \E i \in 0 .. Len(dir) : c \in Chain(f.blocks, Heads(dir)[i])
    BY <1>2 DEF Laid
  <2>3. \A i \in 0 .. Len(dir) : Heads(dir)[i] = 1
    BY <1>1 DEF Heads
  <2> QED
    BY <2>1, <2>2, <2>3 DEF FreeOf
<1>6. w.blocks = blocks /\ w.disk = f.disk
  <2> DEFINE start == 1
             offset == 0
             disk == f.disk
  <2>1. start \in Nat /\ offset \in Nat /\ disk \in Region
    BY <1>2
  <2>2. w = WriteCells(blocks, disk, start, offset, bytes) /\ disk = f.disk
    OBVIOUS
  <2> HIDE DEF w, blocks, start, offset, bytes, disk
  <2>3. WriteCells(blocks, disk, start, offset, bytes) = WriteLoop(blocks, disk, start, offset, bytes)[0]
    BY <1>3, <1>4, <2>1, NothingWritten
  <2>4. WriteLoop(blocks, disk, start, offset, bytes)[0]
          = [blocks |-> blocks, disk |-> disk, currIndex |-> start, byteIdx |-> 0,
             position |-> (start - 1) * BlockSize + offset]
    <3>0. bytes \in Seq(Cell)
      BY <1>3
    <3> DEFINE v == WriteLoop(blocks, disk, start, offset, bytes)
    <3>1. /\ v[0] = [blocks |-> blocks, disk |-> disk, currIndex |-> start, byteIdx |-> 0,
                     position |-> (start - 1) * BlockSize + offset]
          /\ \A i \in 0 .. Len(bytes) - 1 : v[i + 1] = WriteCell(offset, v[i], bytes[i + 1])
      BY <3>0, LoopSteps
    <3> QED
      BY <3>1
  <2> QED
    BY <2>2, <2>3, <2>4
<1>7. s = [f EXCEPT !.blocks = b, !.disk = k]
  BY DEF saveFat, DirBytes
<1> HIDE DEF b, k, s
<1>8. [f EXCEPT !.blocks = b, !.disk = k]
        = [blocks |-> b, disk |-> k, dir |-> f.dir, freeBlocks |-> f.freeBlocks]
  BY <1>2, SavedRecord, Zenon
<1>9. b = blocks /\ k = f.disk
  BY <1>6 DEF b, k
<1> HIDE DEF blocks
<1>10. s \in FatState /\ s.blocks = blocks /\ s.disk = f.disk
  BY <1>2, <1>4, <1>7, <1>8, <1>9 DEF FatState
<1> QED
  BY <1>4, <1>5, <1>10 DEF s

\* unmount.
LEMMA UnmountGood ==
    ASSUME NEW f, SoundFat(f)
    PROVE  Unmounted([saveFat(f) EXCEPT !.dir = <<>>, !.freeBlocks = 0])
<1> DEFINE s == saveFat(f)
           g == [s EXCEPT !.dir = <<>>, !.freeBlocks = 0]
           dir == f.dir
<1>1. PICK d : Good(f, d) /\ (f.dir = <<>> => f.disk[0] \in Data \cup {Zero})
  BY DEF SoundFat
<1>2. /\ f \in FatState /\ f.blocks[0] = Meta /\ d \in Nat \ {0}
      /\ Laid(f.blocks, 0 .. Len(dir), Heads(dir), Depths(dir, d))
      /\ f.blocks \in Table /\ dir \in Seq(dirEntry) /\ f.disk \in Region /\ Len(dir) \in Nat
      /\ Unique(dir)
  <2>1. /\ f \in FatState /\ f.blocks[0] = Meta /\ d \in Nat \ {0}
        /\ Laid(f.blocks, 0 .. Len(dir), Heads(dir), Depths(dir, d)) /\ Unique(dir)
    BY <1>1 DEF Good
  <2>2. f.blocks \in Table /\ dir \in Seq(dirEntry) /\ f.disk \in Region
    BY <2>1 DEF FatState
  <2> QED
    BY <2>1, <2>2
<1>3. CASE dir = <<>>
  <2>1. /\ s \in FatState /\ s.blocks[0] = Meta
        /\ \A c \in Block : s.blocks[c] = Free
        /\ s.disk = f.disk
    BY <1>2, <1>3, EmptySaved
  <2> HIDE DEF s
  <2>2. g = [blocks |-> s.blocks, disk |-> s.disk, dir |-> <<>>, freeBlocks |-> 0]
    BY <2>1, Dropped
  <2> HIDE DEF g
  <2>3. /\ g \in FatState /\ g.blocks = s.blocks /\ g.disk = f.disk
        /\ g.dir = <<>> /\ g.freeBlocks = 0
    BY <2>1, <2>2 DEF FatState
  <2>4. SoundFat(loadFat(g))
    <3>1. /\ g.blocks[0] = Meta /\ g.blocks[1] = Free
          /\ \A c \in Block \ {1} : g.blocks[c] = Free
          /\ g.disk[0] \in Data \cup {Zero}
      BY <1>1, <1>3, <2>1, <2>3, SizeFacts
    <3> QED
      BY <2>3, <3>1, EmptyLoad
  <2>5. Unmounted(g)
    BY <2>1, <2>3, <2>4 DEF Unmounted
  <2> QED
    BY <2>5 DEF g, s
<1>4. CASE dir # <<>>
  <2> DEFINE n == DirDepth(Len(dir))
  <2>1. Good(s, n) /\ s.dir = dir
    BY <1>1, <1>4, SaveGood
  <2> HIDE DEF n, s
  <2>2. /\ s \in FatState /\ s.blocks[0] = Meta /\ n \in Nat \ {0}
        /\ Laid(s.blocks, 0 .. Len(dir), Heads(dir), Depths(dir, n))
    BY <2>1 DEF Good
  <2>3. g = [blocks |-> s.blocks, disk |-> s.disk, dir |-> <<>>, freeBlocks |-> 0]
    BY <2>2, Dropped
  <2> HIDE DEF g
  <2>4. /\ g \in FatState /\ g.blocks = s.blocks /\ g.disk = s.disk
        /\ g.dir = <<>> /\ g.freeBlocks = 0
    BY <2>2, <2>3 DEF FatState
  <2>5. ASSUME g.blocks[1] \notin Block
        PROVE  SoundFat(loadFat(g))
    <3>1. Sound(g.blocks, 1, n)
      <4>1. /\ 0 \in 0 .. Len(dir) /\ Heads(dir)[0] = 1 /\ Depths(dir, n)[0] = n
        BY <1>2 DEF Heads, Depths
      <4>2. IF Depths(dir, n)[0] = 0 THEN Heads(dir)[0] = 0
            ELSE Sound(s.blocks, Heads(dir)[0], Depths(dir, n)[0])
        BY <2>2, <4>1 DEF Laid
      <4> QED
        BY <2>2, <2>4, <4>1, <4>2
    <3>2. n = 1 /\ g.blocks[1] = End
      <4>1. /\ Nth(g.blocks, 1)[1] = 1
            /\ \A j \in 1 .. n : Nth(g.blocks, 1)[j] \in Block
            /\ \A j \in 1 .. n - 1 : g.blocks[Nth(g.blocks, 1)[j]] = Nth(g.blocks, 1)[j + 1]
            /\ g.blocks[Nth(g.blocks, 1)[n]] = End
        BY <3>1, SoundFacts
      <4>2. n = 1
        <5>1. SUFFICES ASSUME n # 1 PROVE FALSE
          OBVIOUS
        <5>2. 1 \in 1 .. n - 1 /\ 1 + 1 \in 1 .. n
          BY <2>2, <5>1
        <5>3. g.blocks[Nth(g.blocks, 1)[1]] \in Block
          BY <4>1, <5>2
        <5> QED
          BY <2>5, <4>1, <5>3
      <4> QED
        BY <4>1, <4>2
    <3>3. Len(dir) <= BlockSize
      <4>1. Len(dir) # 0
        BY <1>2, <1>4
      <4>2. bytesToBlocks(Len(dir)) = 1
        BY <3>2, <4>1 DEF n, DirDepth
      <4>3. Len(dir) <= BlockSize * bytesToBlocks(Len(dir))
        BY <1>2, BlocksHold
      <4>4. BlockSize * 1 = BlockSize
        BY SizeFacts
      <4> QED
        BY <4>2, <4>3, <4>4
    <3>4. /\ \A j \in 1 .. Len(dir) : g.disk[j - 1] = dir[j]
          /\ Len(dir) < BlockSize => g.disk[Len(dir)] \in Data \cup {Zero}
      <4>1. /\ \A j \in 1 .. Len(f.dir) : saveFat(f).disk[j - 1] = f.dir[j]
            /\ Len(f.dir) < BlockSize => saveFat(f).disk[Len(f.dir)] = Zero
        BY <1>2, <1>4, <3>3, SavedDisk
      <4> QED
        BY <2>4, <4>1 DEF s
    <3>5. g.blocks = Linked1(g.blocks)
      <4>1. g.blocks \in Table /\ End # Free
        BY <2>4, SizeFacts DEF FatState
      <4> HIDE DEF n
      <4> QED
        BY <3>2, <4>1 DEF Linked1, Table
    <3>6. Laid(g.blocks, 0 .. Len(dir), Heads(dir), Depths(dir, 1))
      BY <2>2, <2>4, <3>2
    <3> DEFINE t == g.blocks
    <3>7. /\ t = Linked1(g.blocks) /\ t[1] = End
          /\ Laid(t, 0 .. Len(dir), Heads(dir), Depths(dir, 1))
      BY <3>2, <3>5, <3>6
    <3> HIDE DEF t, dir
    <3>8. /\ g \in FatState /\ g.blocks[0] = Meta
          /\ dir \in Seq(dirEntry) /\ Unique(dir) /\ Len(dir) <= BlockSize
      BY <1>2, <2>2, <2>4, <3>3
    <3> QED
      BY <3>4, <3>7, <3>8, LoadGood
  <2>6. Unmounted(g)
    BY <2>2, <2>4, <2>5 DEF Unmounted
  <2> QED
    BY <2>6 DEF g, s
<1> QED
  BY <1>3, <1>4
-----------------------------------------------------------------------------
(* How an operation ends. *)

\* How an operation may end: with a sound file system, and one that has files
\* if it is to be saved.
Outcome(r) ==
    IF r.ok THEN (\E d : Good(r.fat, d)) /\ r.fat.dir # <<>> ELSE SoundFat(r.fat)

\* A refusal leaves what was there; a success leaves what was shown to be sound.
LEMMA Outcomes ==
    ASSUME NEW f, SoundFat(f), NEW r,
           r = Refused(f) \/ \E d, g : r = Done(g) /\ Good(g, d) /\ g.dir # <<>>
    PROVE  Outcome(r)
<1>1. CASE r = Refused(f)
  BY <1>1 DEF Outcome, Refused
<1>2. CASE \E d, g : r = Done(g) /\ Good(g, d) /\ g.dir # <<>>
  BY <1>2 DEF Outcome, Done
<1> QED
  BY <1>1, <1>2

\* Writes, by their names and cases.
LEMMA WriteOutcome ==
    ASSUME NEW f, SoundFat(f), NEW name \in Names, NEW bytes \in Seq(Cell),
           NEW appending \in BOOLEAN,
           appending /\ Found(f, name) => Extendable(Entry(f, name).size, bytes)
    PROVE  Outcome(writeFile(f, name, bytes, appending))
<1> DEFINE r == writeFile(f, name, bytes, appending)
<1>1. PICK d : Good(f, d)
  BY DEF SoundFat
<1>2. \/ r = Refused(f)
      \/ \E g : r = Done(g) /\ Good(g, d) /\ g.dir # <<>>
  BY <1>1, WriteGood
<1> HIDE DEF r
<1>3. Outcome(r)
  BY <1>2, Outcomes
<1> QED
  BY <1>3 DEF r

\* An entry is found by its name.
LEMMA FindsEntry ==
    ASSUME NEW f, f.dir \in Seq(dirEntry), Unique(f.dir), NEW j \in 1 .. Len(f.dir)
    PROVE  Found(f, f.dir[j].name) /\ Entry(f, f.dir[j].name) = f.dir[j]
<1> DEFINE name == f.dir[j].name
           i == getDirEntryNode(f, name)
<1>1. Found(f, name)
  BY FoundFacts
<1>2. i \in 1 .. Len(f.dir) /\ Entry(f, name) = f.dir[i] /\ Entry(f, name).name = name
  BY <1>1, FoundFacts
<1> HIDE DEF i
<1>3. i = j
  BY <1>2 DEF Unique
<1> QED
  BY <1>1, <1>2, <1>3

\* One or two names.
LEMMA NamesGiven ==
    ASSUME NEW names \in OneOrTwo
    PROVE  /\ names[1] \in Names /\ names[1] \in Range(names) /\ Head(names) = names[1]
           /\ Len(names) = 1 \/ Len(names) = 2
           /\ Len(names) = 2 => names[2] \in Names /\ names[2] \in Range(names)
<1>1. CASE names \in {<<n>> : n \in Names}
  BY <1>1 DEF Range
<1>2. CASE names \in {<<n, m>> : n, m \in Names}
  BY <1>2 DEF Range
<1> QED
  BY <1>1, <1>2 DEF OneOrTwo

\* touch of one or two files, of which none fills its last block.
LEMMA TouchOutcome ==
    ASSUME NEW f, SoundFat(f), NEW names \in OneOrTwo, PartlyFilled(f, Range(names))
    PROVE  LET first == writeFile(f, names[1], <<>>, TRUE) IN
           Outcome(IF first.ok /\ Len(names) = 2
                   THEN writeFile(first.fat, names[2], <<>>, TRUE) ELSE first)
<1> DEFINE S == Range(names)
           r1 == writeFile(f, names[1], <<>>, TRUE)
           r2 == writeFile(r1.fat, names[2], <<>>, TRUE)
           r == IF r1.ok /\ Len(names) = 2 THEN r2 ELSE r1
<1>0. PICK d : Good(f, d)
  BY DEF SoundFat
<1>1. /\ names[1] \in Names /\ names[1] \in S
      /\ Len(names) = 2 => names[2] \in Names /\ names[2] \in S
  BY NamesGiven
<1> HIDE DEF S
<1>2. \/ r1 = Refused(f)
      \/ \E g : r1 = Done(g) /\ Good(g, d) /\ g.dir # <<>> /\ PartlyFilled(g, S)
  <2> DEFINE name == names[1]
  <2>1. name \in Names /\ name \in S /\ PartlyFilled(f, S)
    BY <1>1 DEF S
  <2> HIDE DEF name
  <2>2. \/ writeFile(f, name, <<>>, TRUE) = Refused(f)
        \/ \E g : /\ writeFile(f, name, <<>>, TRUE) = Done(g)
                  /\ Good(g, d) /\ g.dir # <<>> /\ PartlyFilled(g, S)
    BY <1>0, <2>1, TouchGood
  <2> QED
    BY <2>2 DEF name
<1> HIDE DEF r1
<1>3. CASE ~(r1.ok /\ Len(names) = 2)
  <2>1. Outcome(r1)
    BY <1>2, Outcomes
  <2> QED
    BY <1>3, <2>1 DEF r1
<1>4. CASE r1.ok /\ Len(names) = 2
  <2>1. PICK g : r1 = Done(g) /\ Good(g, d) /\ g.dir # <<>> /\ PartlyFilled(g, S)
    BY <1>2, <1>4 DEF Refused
  <2>2. r1.fat = g /\ SoundFat(g)
    BY <2>1 DEF Done, SoundFat
  <2> DEFINE name == names[2]
             q == writeFile(g, name, <<>>, TRUE)
  <2>3. name \in Names /\ name \in S
    BY <1>1, <1>4
  <2>4. r = q
    BY <1>4, <2>2
  <2> HIDE DEF name
  <2>5. \/ q = Refused(g)
        \/ \E h : q = Done(h) /\ Good(h, d) /\ h.dir # <<>> /\ PartlyFilled(h, S)
    BY <2>1, <2>3, TouchGood
  <2> HIDE DEF q
  <2>6. Outcome(q)
    BY <2>2, <2>5, Outcomes
  <2> HIDE DEF r
  <2>7. Outcome(r)
    BY <2>4, <2>6
  <2> QED
    BY <2>7 DEF r, r1
<1> QED
  BY <1>3, <1>4

\* rm of one or two files that leaves others.
LEMMA RemoveOutcome ==
    ASSUME NEW f, SoundFat(f), NEW names \in OneOrTwo, NEW r,
           r = LET first == deleteFile(f, names[1]) IN
               IF first.ok /\ Len(names) = 2 THEN deleteFile(first.fat, names[2]) ELSE first,
           r.fat # f => r.fat.dir # <<>>
    PROVE  Outcome(r)
<1>0. PICK d : Good(f, d)
  BY DEF SoundFat
<1>1. ASSUME NEW g, Good(g, d), NEW name
      PROVE  \/ deleteFile(g, name) = Refused(g)
             \/ /\ deleteFile(g, name).ok
                /\ Good(deleteFile(g, name).fat, d)
                /\ Len(deleteFile(g, name).fat.dir) = Len(g.dir) - 1
  <2>1. CASE ~Found(g, name) \/ ~MayWrite(Entry(g, name))
    BY <2>1 DEF deleteFile
  <2>2. CASE Found(g, name) /\ MayWrite(Entry(g, name))
    <3>1. /\ deleteFile(g, name).ok
          /\ LET h == deleteFile(g, name).fat IN
             /\ Good(h, d) /\ h.disk = g.disk
             /\ Len(h.dir) = Len(g.dir) - 1
             /\ \A j \in 1 .. Len(h.dir) : h.dir[j].name # name
             /\ \A i \in 1 .. Len(g.dir) : g.dir[i].name # name =>
                   \E j \in 1 .. Len(h.dir) : h.dir[j] = g.dir[i]
      BY <1>1, <2>2, DeleteGood
    <3> QED
      BY <3>1
  <2> QED
    BY <2>1, <2>2
<1>2. \A g : Good(g, d) => Len(g.dir) \in Nat
  <2> SUFFICES ASSUME NEW g, Good(g, d) PROVE Len(g.dir) \in Nat
    OBVIOUS
  <2>1. g.dir \in Seq(dirEntry)
    BY DEF Good, FatState
  <2> QED
    BY <2>1
<1> DEFINE r1 == deleteFile(f, names[1])
           r2 == deleteFile(r1.fat, names[2])
<1>3. r = IF r1.ok /\ Len(names) = 2 THEN r2 ELSE r1
  OBVIOUS
<1>4. \/ r1 = Refused(f)
      \/ r1.ok /\ Good(r1.fat, d) /\ Len(r1.fat.dir) = Len(f.dir) - 1
  BY <1>0, <1>1
<1>5. Good(r1.fat, d) => \/ r2 = Refused(r1.fat)
                         \/ r2.ok /\ Good(r2.fat, d) /\ Len(r2.fat.dir) = Len(r1.fat.dir) - 1
  BY <1>1
<1> HIDE DEF r1, r2
<1>6. CASE r1 = Refused(f)
  BY <1>3, <1>6 DEF Refused, Outcome
<1>7. CASE r1.ok /\ Good(r1.fat, d) /\ Len(r1.fat.dir) = Len(f.dir) - 1
  <2>1. Good(r.fat, d) /\ Len(r.fat.dir) < Len(f.dir)
    <3>1. Len(f.dir) \in Nat /\ Len(r1.fat.dir) \in Nat
      BY <1>0, <1>2, <1>7
    <3> DEFINE l == Len(f.dir)
               l1 == Len(r1.fat.dir)
    <3>2. CASE r = r1
      <4>1. l1 < l
        BY <1>7, <3>1
      <4> QED
        BY <1>7, <3>2, <4>1
    <3>3. CASE r = r2 /\ r2 = Refused(r1.fat)
      <4>1. r.fat = r1.fat /\ l1 < l
        BY <1>7, <3>1, <3>3 DEF Refused
      <4> QED
        BY <1>7, <4>1
    <3>4. CASE r = r2 /\ r2.ok /\ Good(r2.fat, d) /\ Len(r2.fat.dir) = Len(r1.fat.dir) - 1
      <4>1. l1 - 1 < l
        BY <1>7, <3>1
      <4> QED
        BY <3>4, <4>1
    <3> QED
      BY <1>3, <1>5, <1>7, <3>2, <3>3, <3>4
  <2>2. r.fat # f
    BY <1>0, <1>2, <2>1
  <2> QED
    BY <2>1, <2>2 DEF Outcome, SoundFat
<1> QED
  BY <1>4, <1>6, <1>7
-----------------------------------------------------------------------------
(* The commands. *)

\* The special cases in which the table stays sound.
Handled == {"move over", "remove some", "cat many", "cat append"}

\* Those in which each command but mount keeps it sound.
Tamed == Handled \cup {"remount"}

FatInv ==
    /\ mounted \in BOOLEAN /\ result \in {"ok", "failed"}
    /\ IF mounted THEN SoundFat(fat) ELSE Unmounted(fat)

\* A program starts with an image that mkfs made.
LEMMA InitGood == Init => FatInv
<1> SUFFICES ASSUME Init PROVE FatInv
  OBVIOUS
<1> DEFINE n == 0
           f == [NewFat EXCEPT !.freeBlocks = n]
<1>1. fat = f /\ mounted = FALSE /\ result = "ok"
  BY DEF Init
<1>2. NewFat \in FatState
  BY NewGood
<1>3. f = [blocks |-> NewFat.blocks, disk |-> NewFat.disk, dir |-> NewFat.dir, freeBlocks |-> n]
  BY <1>2 DEF FatState
<1>4. n \in Nat /\ n = 0
  OBVIOUS
<1> HIDE DEF f, n
<1>5. f \in FatState /\ f.blocks = NewFat.blocks /\ f.disk = NewFat.disk /\ f.dir = NewFat.dir
      /\ f.freeBlocks = 0
  BY <1>2, <1>3, <1>4 DEF FatState
<1>6. /\ NewFat.blocks[0] = Meta /\ NewFat.blocks[1] = End /\ NewFat.dir = <<>>
      /\ \A b \in Block \ {1} : NewFat.blocks[b] = Free
  BY SizeFacts DEF NewFat
<1>7. NewFat.disk[0] = Zero
  <2>1. 0 \in 0 .. (NumEntries - 1) * BlockSize - 1
    <3>1. (NumEntries - 1) * BlockSize = (NumEntries - 2) * BlockSize + BlockSize
          /\ (NumEntries - 2) * BlockSize \in Nat /\ BlockSize \in Nat \ {0}
      BY SizeFacts
    <3> QED
      BY <3>1, SizeFacts
  <2> QED
    BY <2>1 DEF NewFat
<1>8. SoundFat(loadFat(f))
  <2>1. /\ f.blocks[0] = Meta /\ f.blocks[1] = End
        /\ \A b \in Block \ {1} : f.blocks[b] = Free
        /\ f.disk[0] \in Data \cup {Zero}
    BY <1>5, <1>6, <1>7
  <2> QED
    BY <1>5, <2>1, EmptyLoad
<1>9. Unmounted(f)
  BY <1>5, <1>6, <1>8 DEF Unmounted
<1> QED
  BY <1>1, <1>9 DEF FatInv

\* A command that ends well is saved, one that fails is not.
LEMMA FinishGood ==
    ASSUME mounted = TRUE, NEW r, Outcome(r), Finish(r)
    PROVE  FatInv'
<1>1. mounted' = TRUE /\ result' \in {"ok", "failed"}
  BY DEF Finish
<1>2. CASE r.ok
  <2>1. fat' = saveFat(r.fat) /\ r.fat.dir # <<>>
    BY <1>2 DEF Finish, Outcome
  <2>2. PICK d : Good(r.fat, d)
    BY <1>2 DEF Outcome
  <2> DEFINE f == r.fat
             n == DirDepth(Len(f.dir))
  <2>3. Good(f, d) /\ f.dir # <<>>
    BY <2>1, <2>2
  <2> HIDE DEF f
  <2>4. Good(saveFat(f), n) /\ saveFat(f).dir = f.dir
    BY <2>3, SaveGood
  <2>5. SoundFat(saveFat(f))
    BY <2>3, <2>4 DEF SoundFat
  <2>6. SoundFat(fat')
    BY <2>1, <2>5 DEF f
  <2> QED
    BY <1>1, <2>6 DEF FatInv
<1>3. CASE ~r.ok
  <2>1. SoundFat(fat')
    BY <1>3 DEF Finish, Outcome
  <2> QED
    BY <1>1, <2>1 DEF FatInv
<1> QED
  BY <1>2, <1>3

\* The files that can be read are there.
LEMMA ReadableFacts ==
    ASSUME NEW f, SoundFat(f), NEW name, Readable(f, name)
    PROVE  readFile(f, name) \in Seq(Cell) /\ f.dir # <<>>
<1>1. PICK d : Good(f, d)
  BY DEF SoundFat
<1>2. f.dir \in Seq(dirEntry) /\ f.disk \in Region
  BY <1>1 DEF Good, FatState
<1>3. Found(f, name)
  BY DEF Readable
<1>4. getDirEntryNode(f, name) \in 1 .. Len(f.dir) /\ Entry(f, name) \in dirEntry
  BY <1>2, <1>3, FoundFacts
<1>5. f.dir # <<>>
  <2>1. Len(f.dir) # 0
    BY <1>2, <1>4
  <2> QED
    BY <2>1
<1> DEFINE e == Entry(f, name)
           n == e.size
           b == e.firstBlock
<1>6. n \in Nat
  BY <1>4 DEF dirEntry
<1> HIDE DEF n, b
<1>7. getContents(f, b, n) \in Seq(Cell)
  BY <1>2, <1>6, ReadCells
<1> QED
  BY <1>5, <1>7 DEF readFile, n, b

\* What a touch that the instances admit asks of its files.
LEMMA TouchesPartly ==
    ASSUME fat.dir \in Seq(dirEntry), Unique(fat.dir), ~In("touch full"), NEW names, Touch(names)
    PROVE  PartlyFilled(fat, Range(names))
<1> SUFFICES ASSUME NEW j \in 1 .. Len(fat.dir), fat.dir[j].name \in Range(names)
             PROVE  fat.dir[j].size = 0 \/ fat.dir[j].size % BlockSize # 0
  BY DEF PartlyFilled
<1> DEFINE name == fat.dir[j].name
<1>1. Found(fat, name) /\ Entry(fat, name) = fat.dir[j]
  BY FindsEntry
<1>2. Found(fat, name) => \/ Entry(fat, name).size = 0
                          \/ Entry(fat, name).size % BlockSize # 0
                          \/ In("touch full") /\ IsInjective(names)
  BY DEF Touch
<1> QED
  BY <1>1, <1>2

\* touch.
LEMMA TouchStep ==
    ASSUME FatInv, Uses \subseteq Tamed, NEW names \in OneOrTwo, Touch(names)
    PROVE  FatInv'
<1>1. mounted = TRUE /\ SoundFat(fat)
  BY DEF FatInv, Touch, Usable
<1>2. PartlyFilled(fat, Range(names))
  <2>1. fat.dir \in Seq(dirEntry) /\ Unique(fat.dir)
    BY <1>1 DEF SoundFat, Good, FatState
  <2>2. ~In("touch full")
    BY DEF In, Tamed, Handled
  <2> QED
    BY <2>1, <2>2, TouchesPartly
<1> DEFINE first == writeFile(fat, names[1], <<>>, TRUE)
           r == IF first.ok /\ Len(names) = 2
                THEN writeFile(first.fat, names[2], <<>>, TRUE) ELSE first
<1>3. Outcome(r)
  BY <1>1, <1>2, TouchOutcome
<1>4. Finish(r)
  BY Zenon DEF Touch, InTurn
<1> HIDE DEF r
<1> QED
  BY <1>1, <1>3, <1>4, FinishGood

\* rm.
LEMMA RmStep ==
    ASSUME FatInv, Uses \subseteq Tamed, NEW names \in OneOrTwo, Rm(names)
    PROVE  FatInv'
<1>1. mounted = TRUE /\ SoundFat(fat)
  BY DEF FatInv, Rm, Usable
<1> DEFINE first == deleteFile(fat, names[1])
           r == IF first.ok /\ Len(names) = 2 THEN deleteFile(first.fat, names[2]) ELSE first
<1>2. /\ Finish(r)
      /\ r.fat # fat /\ r.fat.dir = <<>> => In("empty directory")
  BY Zenon DEF Rm, InTurn
<1>3. ~In("empty directory")
  BY DEF In, Tamed, Handled
<1>4. r = LET once == deleteFile(fat, names[1]) IN
          IF once.ok /\ Len(names) = 2 THEN deleteFile(once.fat, names[2]) ELSE once
  OBVIOUS
<1> HIDE DEF r
<1>5. r.fat # fat => r.fat.dir # <<>>
  BY <1>2, <1>3
<1>6. Outcome(r)
  BY <1>1, <1>4, <1>5, RemoveOutcome
<1> QED
  BY <1>1, <1>2, <1>6, FinishGood

\* mv.
LEMMA MoveStep ==
    ASSUME FatInv, Uses \subseteq Tamed, NEW old \in Names, NEW new \in Names, Move(old, new)
    PROVE  FatInv'
<1>1. mounted = TRUE /\ SoundFat(fat)
  BY DEF FatInv, Move, Usable
<1>2. Found(fat, new) => MayWrite(Entry(fat, new))
  BY DEF Move, In, Tamed, Handled
<1>3. PICK d : Good(fat, d)
  BY <1>1 DEF SoundFat
<1>4. old # new
  BY DEF Move
<1> DEFINE r == renameFile(fat, old, new)
<1>5. \/ r = Refused(fat)
      \/ \E g : r = Done(g) /\ Good(g, d) /\ g.dir # <<>>
  BY <1>2, <1>3, <1>4, RenameGood
<1>6. fat' = r.fat /\ mounted' = TRUE /\ result' = "failed"
  BY <1>1 DEF Move
<1> HIDE DEF r
<1>7. SoundFat(fat')
  BY <1>1, <1>5, <1>6 DEF Refused, Done, SoundFat
<1> QED
  BY <1>6, <1>7 DEF FatInv

\* What is typed is made of cells.
LEMMA LineCells ==
    ASSUME NEW line \in Lines
    PROVE  line \in Seq(Cell) /\ line # <<>> /\ Len(line) \in Nat
<1>1. line \in Seq(Data) /\ line # <<>>
  BY LinesAssumption
<1>2. Data \subseteq Cell
  BY DEF Cell
<1> QED
  BY <1>1, <1>2

\* In the handled cases a cat that appends keeps to the rules of the table.
LEMMA CatExtends ==
    ASSUME SoundFat(fat), Uses \subseteq Tamed, NEW name \in Names, NEW line \in Lines,
           NEW appending \in BOOLEAN, CatInput(name, line, appending)
    PROVE  appending /\ Found(fat, name) => Extendable(Entry(fat, name).size, line)
<1>1. SoundFat(fat)
  OBVIOUS
<1>2. line \in Seq(Cell) /\ line # <<>> /\ Len(line) \in Nat
  BY LineCells
<1>3. ASSUME appending, Found(fat, name)
      PROVE  Extendable(Entry(fat, name).size, line)
  <2> DEFINE size == Entry(fat, name).size
  <2>1. size \in Nat
    <3>1. fat.dir \in Seq(dirEntry)
      BY <1>1 DEF SoundFat, Good, FatState
    <3>2. Entry(fat, name) \in dirEntry
      BY <1>3, <3>1, FoundFacts
    <3> QED
      BY <3>2 DEF dirEntry
  <2>2. /\ size = 0 => In("append empty")
        /\ BlockSize - (size % BlockSize) # BlockSize /\ Len(line) > BlockSize - (size % BlockSize)
             => In("append over")
    BY <1>3 DEF CatInput
  <2>3. ~In("append empty") /\ ~In("append over")
    BY DEF In, Tamed, Handled
  <2> HIDE DEF size
  <2>4. size % BlockSize \in 0 .. BlockSize - 1
    BY <2>1, DivFacts
  <2>5. size % BlockSize # 0 => (size % BlockSize) + Len(line) <= BlockSize
    <3> DEFINE used == size % BlockSize
               n == Len(line)
    <3>1. used # 0 => n <= BlockSize - used
      <4>1. used \in 0 .. BlockSize - 1 /\ BlockSize \in Nat /\ n \in Nat
        BY <1>2, <2>4, SizeAssumption
      <4>2. BlockSize - used # BlockSize => ~(n > BlockSize - used)
        BY <2>2, <2>3
      <4> HIDE DEF used, n
      <4> QED
        BY <4>1, <4>2
    <3>2. used \in 0 .. BlockSize - 1 /\ BlockSize \in Nat /\ n \in Nat
      BY <1>2, <2>4, SizeAssumption
    <3> HIDE DEF used, n
    <3>3. used # 0 => used + n <= BlockSize
      BY <3>1, <3>2
    <3> QED
      BY <3>3 DEF used, n
  <2>6. Extendable(size, line)
    BY <1>2, <2>2, <2>3, <2>5 DEF Extendable
  <2> QED
    BY <2>6 DEF size
<1> QED
  BY <1>3

\* cat with a line that was typed.
LEMMA CatInputStep ==
    ASSUME FatInv, Uses \subseteq Tamed, NEW name \in Names, NEW line \in Lines,
           NEW appending \in BOOLEAN, CatInput(name, line, appending)
    PROVE  FatInv'
<1>1. mounted = TRUE /\ SoundFat(fat)
  BY DEF FatInv, CatInput, Usable
<1>2. line \in Seq(Cell)
  BY LineCells
<1>3. appending /\ Found(fat, name) => Extendable(Entry(fat, name).size, line)
  BY <1>1, CatExtends
<1>4. Outcome(writeFile(fat, name, line, appending))
  BY <1>1, <1>2, <1>3, WriteOutcome
<1>5. Finish(writeFile(fat, name, line, appending))
  BY DEF CatInput
<1> QED
  BY <1>1, <1>4, <1>5, FinishGood

\* cp from the host.
LEMMA CopyFromHostStep ==
    ASSUME FatInv, NEW name \in Names, NEW line \in Lines \cup {<<>>}, CopyFromHost(name, line)
    PROVE  FatInv'
<1> DEFINE no == FALSE
           once == writeFile(fat, name, line, no)
           r == IF line = <<>> /\ once.ok THEN writeFile(once.fat, name, line, no) ELSE once
<1>1. mounted = TRUE /\ SoundFat(fat) /\ Finish(r)
  BY DEF FatInv, CopyFromHost, Usable
<1>2. line \in Seq(Cell) /\ no \in BOOLEAN /\ ~no
  <2>1. Data \subseteq Cell
    BY DEF Cell
  <2>2. CASE line \in Lines
    <3>1. line \in Seq(Data)
      BY <2>2, LinesAssumption
    <3> QED
      BY <2>1, <3>1
  <2>3. CASE line = <<>>
    BY <2>3
  <2> QED
    BY <2>2, <2>3
<1> HIDE DEF no
<1>3. \A f : SoundFat(f) => Outcome(writeFile(f, name, line, no))
  BY <1>2, WriteOutcome
<1>4. Outcome(once)
  BY <1>1, <1>3
<1>5. once.ok => SoundFat(once.fat)
  BY <1>4 DEF Outcome, SoundFat
<1>6. once.ok => Outcome(writeFile(once.fat, name, line, no))
  BY <1>3, <1>5
<1>7. Outcome(r)
  BY <1>4, <1>6
<1> HIDE DEF r
<1> QED
  BY <1>1, <1>7, FinishGood

\* cat and cp from one file to another.
LEMMA CopyOutcome ==
    ASSUME NEW f, SoundFat(f), NEW name, Readable(f, name), NEW out \in Names
    PROVE  Outcome(writeFile(f, out, readFile(f, name), FALSE))
<1> DEFINE bytes == readFile(f, name)
           no == FALSE
<1>1. bytes \in Seq(Cell) /\ no \in BOOLEAN /\ ~no
  BY ReadableFacts
<1> HIDE DEF bytes, no
<1>2. Outcome(writeFile(f, out, bytes, no))
  BY <1>1, WriteOutcome
<1> QED
  BY <1>2 DEF bytes, no

\* The commands that read a file.
LEMMA ReaderStep ==
    ASSUME FatInv, NEW names \in OneOrTwo, NEW name \in Names, NEW out \in Names,
           CatOver(names, out) \/ CatAppend(names, out) \/ Copy(name, out)
    PROVE  FatInv'
<1>1. mounted = TRUE /\ SoundFat(fat)
  BY DEF FatInv, CatOver, CatAppend, Copy, Usable
<1>2. Outcome(Refused(fat))
  BY <1>1, Outcomes
<1>3. CASE Copy(name, out)
  <2> DEFINE r == IF Readable(fat, name)
                  THEN writeFile(fat, out, readFile(fat, name), FALSE) ELSE Refused(fat)
  <2>1. Finish(r)
    BY <1>3 DEF Copy
  <2>2. Outcome(r)
    BY <1>1, <1>2, CopyOutcome
  <2> HIDE DEF r
  <2> QED
    BY <1>1, <2>1, <2>2, FinishGood
<1>4. names[1] \in Range(names) /\ Head(names) = names[1]
  BY NamesGiven
<1>5. CASE CatOver(names, out)
  <2> DEFINE r == IF \A n \in Range(names) : Readable(fat, n)
                  THEN writeFile(fat, out, readFile(fat, Head(names)), FALSE) ELSE Refused(fat)
             n1 == Head(names)
  <2>1. Finish(r)
    BY <1>5 DEF CatOver
  <2>2. ASSUME \A n \in Range(names) : Readable(fat, n)
        PROVE  Outcome(writeFile(fat, out, readFile(fat, n1), FALSE))
    <3>1. Readable(fat, n1)
      BY <1>4, <2>2
    <3> HIDE DEF n1
    <3> QED
      BY <1>1, <3>1, CopyOutcome
  <2>3. Outcome(r)
    BY <1>2, <2>2
  <2> HIDE DEF r
  <2> QED
    BY <1>1, <2>1, <2>3, FinishGood
<1>6. CASE CatAppend(names, out)
  <2> DEFINE r == IF \A n \in Range(names) : Readable(fat, n) THEN Done(fat) ELSE Refused(fat)
  <2>1. Finish(r)
    BY <1>6 DEF CatAppend
  <2>2. ASSUME \A n \in Range(names) : Readable(fat, n)
        PROVE  Outcome(Done(fat))
    <3>1. fat.dir # <<>>
      BY <1>1, <1>4, <2>2, ReadableFacts
    <3> QED
      BY <1>1, <3>1 DEF Outcome, Done, SoundFat
  <2>3. Outcome(r)
    BY <1>2, <2>2
  <2> HIDE DEF r
  <2> QED
    BY <1>1, <2>1, <2>3, FinishGood
<1> QED
  BY <1>3, <1>5, <1>6

\* chmod.
LEMMA ChmodStep ==
    ASSUME FatInv, NEW name \in Names, NEW perm \in Perms, Chmod(name, perm)
    PROVE  FatInv'
<1> DEFINE r == chmodFile(fat, name, perm)
<1>1. mounted = TRUE /\ SoundFat(fat) /\ Finish(r)
  BY DEF FatInv, Chmod, Usable
<1>2. PICK d : Good(fat, d)
  BY <1>1 DEF SoundFat
<1>3. perm \in Permission
  BY PermsAssumption
<1>4. \/ r = Refused(fat)
      \/ \E g : r = Done(g) /\ Good(g, d) /\ g.dir # <<>>
  BY <1>2, <1>3, ChmodGood
<1> HIDE DEF r
<1>5. Outcome(r)
  BY <1>1, <1>4, Outcomes
<1> QED
  BY <1>1, <1>5, FinishGood

\* mkfs, mount and unmount.
LEMMA MountStep ==
    ASSUME FatInv, Uses \subseteq Handled, Mkfs \/ Mount \/ Unmount
    PROVE  FatInv'
<1>1. CASE Mkfs
  BY <1>1, NewGood DEF Mkfs, FatInv
<1>2. CASE Mount
  <2>1. ~In("remount") /\ ~In("long directory")
    BY DEF In, Handled
  <2>2. ~mounted /\ fat.blocks[1] \notin Block
    BY <1>2, <2>1 DEF Mount
  <2>3. SoundFat(loadFat(fat))
    BY <2>2 DEF FatInv, Unmounted
  <2> QED
    BY <1>2, <2>3 DEF Mount, FatInv
<1>4. CASE Unmount /\ ~mounted
  BY <1>4 DEF Unmount, FatInv
<1>3. CASE Unmount /\ mounted
  <2>1. SoundFat(fat)
    BY <1>3 DEF FatInv, Unmount, Usable
  <2>2. Unmounted([saveFat(fat) EXCEPT !.dir = <<>>, !.freeBlocks = 0])
    BY <2>1, UnmountGood
  <2>3. Unmounted(fat')
    BY <1>3, <2>2 DEF Unmount
  <2> QED
    BY <1>3, <2>3 DEF Unmount, FatInv
<1> QED
  BY <1>1, <1>2, <1>3, <1>4

\* Every command keeps the file system sound.
LEMMA StepGood ==
    ASSUME Uses \subseteq Handled
    PROVE  FatInv /\ [Next]_vars => FatInv'
<1> SUFFICES ASSUME FatInv, [Next]_vars PROVE FatInv'
  OBVIOUS
<1>0. Uses \subseteq Tamed
  BY DEF Tamed
<1>1. CASE Mkfs \/ Mount \/ Unmount
  BY <1>1, MountStep
<1>2. CASE \E names \in OneOrTwo, out \in Names : CatAppend(names, out) \/ CatOver(names, out)
  <2>1. PICK names \in OneOrTwo, out \in Names : CatAppend(names, out) \/ CatOver(names, out)
    BY <1>2
  <2> QED
    BY <2>1, ReaderStep
<1>3. CASE \E name \in Names, line \in Lines, appending \in BOOLEAN : CatInput(name, line, appending)
  BY <1>0, <1>3, CatInputStep
<1>4. CASE \E name \in Names, line \in Lines \cup {<<>>} : CopyFromHost(name, line)
  BY <1>4, CopyFromHostStep
<1>5. CASE \E names \in OneOrTwo : Touch(names) \/ Rm(names)
  BY <1>0, <1>5, TouchStep, RmStep
<1>6. CASE \E old, new \in Names : Move(old, new) \/ Copy(old, new)
  <2>1. PICK old \in Names, new \in Names : Move(old, new) \/ Copy(old, new)
    BY <1>6
  <2>2. <<old>> \in OneOrTwo
    BY DEF OneOrTwo
  <2> QED
    BY <1>0, <2>1, <2>2, MoveStep, ReaderStep
<1>7. CASE \E name \in Names, perm \in Perms : Chmod(name, perm)
  BY <1>7, ChmodStep
<1>8. CASE UNCHANGED vars
  <2>1. fat' = fat /\ mounted' = mounted /\ result' = result
    BY <1>8 DEF vars
  <2> QED
    BY <2>1 DEF FatInv
<1> QED
  BY <1>1, <1>2, <1>3, <1>4, <1>5, <1>6, <1>7, <1>8 DEF Next

\* In the handled cases the file system is sound whenever it is mounted, and
\* can be mounted again.
THEOREM TableStaysSound ==
    ASSUME Uses \subseteq Handled
    PROVE  Spec => []FatInv
<1>1. Init => FatInv
  BY InitGood
<1>2. FatInv /\ [Next]_vars => FatInv'
  BY StepGood
<1> HIDE DEF FatInv
<1> QED
  BY <1>1, <1>2, PTL DEF Spec
-----------------------------------------------------------------------------
(* What the runs check of the table. *)

\* What Good says of the mounted table, in the terms of the properties.
LEMMA SoundParts ==
    ASSUME NEW d, Good(fat, d)
    PROVE  /\ \A i \in DOMAIN fat.dir :
                 /\ i \in 0 .. Len(fat.dir) /\ i # 0
                 /\ Owned(i) = Chain(fat.blocks, Heads(fat.dir)[i])
           /\ 0 \in 0 .. Len(fat.dir) /\ DirBlocks = Chain(fat.blocks, Heads(fat.dir)[0])
           /\ FreeSet = FreeOf(fat.blocks)
           /\ DOMAIN fat.dir = 1 .. Len(fat.dir) /\ Len(fat.dir) \in Nat
<1>1. fat.dir \in Seq(dirEntry)
  BY DEF Good, FatState
<1>2. DOMAIN fat.dir = 1 .. Len(fat.dir) /\ Len(fat.dir) \in Nat
  BY <1>1
<1>3. \A i \in 0 .. Len(fat.dir) : Heads(fat.dir)[i] = IF i = 0 THEN 1 ELSE fat.dir[i].firstBlock
  BY DEF Heads
<1> QED
  BY <1>2, <1>3 DEF Owned, DirBlocks, FreeSet, FreeOf

\* The properties follow from the invariant.
LEMMA InvType == FatInv => TypeOK
<1> SUFFICES ASSUME FatInv PROVE TypeOK
  OBVIOUS
<1>1. fat \in FatState /\ fat.blocks[0] = Meta
  BY DEF FatInv, SoundFat, Good, Unmounted
<1> QED
  BY <1>1 DEF TypeOK, FatState, Table, Region, Cell, FatInv

\* A sound chain is as long as the size of its file says.
LEMMA InvChains == FatInv => ChainsSound
<1> SUFFICES ASSUME FatInv, mounted PROVE ChainsSound
  BY DEF ChainsSound
<1>1. PICK d : Good(fat, d)
  BY DEF FatInv, SoundFat
<1>2. /\ fat.dir \in Seq(dirEntry) /\ d \in Nat \ {0}
      /\ Laid(fat.blocks, 0 .. Len(fat.dir), Heads(fat.dir), Depths(fat.dir, d))
  BY <1>1 DEF Good, FatState
<1>3. ASSUME NEW i \in DOMAIN fat.dir
      PROVE  LET e == fat.dir[i]
                 n == Nth(fat.blocks, e.firstBlock)
                 k == bytesToBlocks(e.size)
             IN IF k = 0 THEN e.firstBlock = 0
                ELSE /\ k < NumEntries /\ n[k + 1] = End
                     /\ \A j \in 1 .. k : n[j] \in Block
  <2> DEFINE e == fat.dir[i]
             k == bytesToBlocks(e.size)
  <2>1. i \in 1 .. Len(fat.dir)
    BY <1>2
  <2>2. /\ e.size = 0 => e.firstBlock = 0
        /\ e.size # 0 => Sound(fat.blocks, e.firstBlock, k)
        /\ k = 0 <=> e.size = 0
    BY <1>2, <2>1, EntryFacts
  <2>3. Sound(fat.blocks, e.firstBlock, k) =>
           /\ k < NumEntries
           /\ Nth(fat.blocks, e.firstBlock)[k + 1] = End
           /\ \A j \in 1 .. k : Nth(fat.blocks, e.firstBlock)[j] \in Block
    <3> DEFINE b == e.firstBlock
    <3> HIDE DEF b, k
    <3>1. Sound(fat.blocks, b, k) => k \in 1 .. NumEntries - 1 /\ NumEntries \in Nat
      BY SizeFacts DEF Sound
    <3>2. Sound(fat.blocks, b, k) => k < NumEntries
      BY <3>1
    <3> QED
      BY <3>2 DEF Sound, b
  <2> QED
    BY <2>2, <2>3
<1> QED
  BY <1>3 DEF ChainsSound

\* Two numbers of a sound table stand for disjoint sets of blocks.
LEMMA InvShared == FatInv => NoSharedBlock
<1> SUFFICES ASSUME FatInv, mounted PROVE NoSharedBlock
  BY DEF NoSharedBlock
<1>1. PICK d : Good(fat, d)
  BY DEF FatInv, SoundFat
<1> DEFINE H == Heads(fat.dir)
           I == 0 .. Len(fat.dir)
<1>2. \A a, b \in I : a # b => Chain(fat.blocks, H[a]) \cap Chain(fat.blocks, H[b]) = {}
  BY <1>1 DEF Good, Laid
<1>3. /\ \A i \in DOMAIN fat.dir : i \in I /\ i # 0 /\ Owned(i) = Chain(fat.blocks, H[i])
      /\ 0 \in I /\ DirBlocks = Chain(fat.blocks, H[0])
  BY <1>1, SoundParts
<1> HIDE DEF H, I
<1> QED
  BY <1>2, <1>3 DEF NoSharedBlock

\* A block that is not free is in the chain of a number.
LEMMA InvLost == FatInv => NoLostBlock
<1> SUFFICES ASSUME FatInv, mounted PROVE NoLostBlock
  BY DEF NoLostBlock
<1>1. PICK d : Good(fat, d)
  BY DEF FatInv, SoundFat
<1> DEFINE H == Heads(fat.dir)
           I == 0 .. Len(fat.dir)
<1>2. \A b \in Block \ FreeOf(fat.blocks) : \E i \in I : b \in Chain(fat.blocks, H[i])
  BY <1>1 DEF Good, Laid
<1>3. /\ \A i \in DOMAIN fat.dir : Owned(i) = Chain(fat.blocks, H[i])
      /\ DirBlocks = Chain(fat.blocks, H[0])
      /\ FreeSet = FreeOf(fat.blocks)
      /\ \A i \in I : i = 0 \/ i \in DOMAIN fat.dir
  <2>1. DOMAIN fat.dir = 1 .. Len(fat.dir) /\ Len(fat.dir) \in Nat
    BY <1>1, SoundParts
  <2>2. \A i \in I : i = 0 \/ i \in DOMAIN fat.dir
    BY <2>1
  <2> QED
    BY <1>1, <2>2, SoundParts
<1> HIDE DEF H, I
<1> SUFFICES ASSUME NEW b \in Block \ FreeSet
             PROVE  b \in DirBlocks \cup UNION {Owned(i) : i \in DOMAIN fat.dir}
  BY DEF NoLostBlock
<1>4. PICK i \in I : b \in Chain(fat.blocks, H[i])
  BY <1>2, <1>3
<1> QED
  BY <1>3, <1>4

\* What is counted is there; with a directory of one block it is exact.
LEMMA InvFree ==
    /\ FatInv => FreeNotOverstated
    /\ FatInv /\ OneBlockDir => FreeBlockNumber
<1>1. ASSUME FatInv, mounted
      PROVE  /\ fat.freeBlocks <= Cardinality(FreeSet)
             /\ OneBlockDir => fat.freeBlocks = Cardinality(FreeSet \ {1})
  <2>1. PICK d : Good(fat, d)
    BY <1>1 DEF FatInv, SoundFat
  <2>2. FreeSet = FreeOf(fat.blocks)
    BY DEF FreeSet, FreeOf
  <2>3. 1 \notin FreeOf(fat.blocks)
    <3>1. Laid(fat.blocks, 0 .. Len(fat.dir), Heads(fat.dir), Depths(fat.dir, d)) /\ d \in Nat \ {0}
      BY <2>1 DEF Good
    <3>2. 0 \in 0 .. Len(fat.dir)
      BY <2>1, SoundParts
    <3>3. Heads(fat.dir)[0] = 1 /\ Depths(fat.dir, d)[0] = d
      BY <3>2 DEF Heads, Depths
    <3>4. IF Depths(fat.dir, d)[0] = 0 THEN Heads(fat.dir)[0] = 0
          ELSE Sound(fat.blocks, Heads(fat.dir)[0], Depths(fat.dir, d)[0])
      BY <3>1, <3>2 DEF Laid
    <3> DEFINE one == 1
    <3>5. Sound(fat.blocks, one, d)
      BY <3>1, <3>3, <3>4
    <3> HIDE DEF one
    <3>6. one \in Chain(fat.blocks, one)
      BY <3>5, SoundCard
    <3>7. fat.blocks[one] # Free
      BY <3>5, <3>6, SoundNotFree
    <3> QED
      BY <3>7 DEF FreeOf, one
  <2>4. FreeSet \ {1} = FreeOf(fat.blocks)
    BY <2>2, <2>3
  <2> QED
    BY <2>1, <2>2, <2>4 DEF Good
<1>2. FatInv => FreeNotOverstated
  BY <1>1 DEF FreeNotOverstated
<1>3. FatInv /\ OneBlockDir => FreeBlockNumber
  BY <1>1 DEF FreeBlockNumber
<1> QED
  BY <1>2, <1>3

\* The names are unique, also while there are none.
LEMMA InvNames == FatInv => NamesUnique
<1> SUFFICES ASSUME FatInv PROVE NamesUnique
  OBVIOUS
<1>1. fat.dir \in Seq(dirEntry) /\ Unique(fat.dir)
  BY DEF FatInv, SoundFat, Good, Unmounted, FatState, Unique
<1> QED
  BY <1>1 DEF NamesUnique, Unique

\* The table, the data region and the directory are what their types say, also
\* between an unmount and the next mount (fat.h:20-55).
THEOREM FatTypeCorrect ==
    ASSUME Uses \subseteq Handled
    PROVE  Spec => []TypeOK
<1>1. FatInv => TypeOK
  BY InvType
<1> HIDE DEF FatInv
<1> QED
  BY <1>1, TableStaysSound, PTL

\* However files are written, appended to, removed, moved and copied (file.c),
\* every file has a terminated chain of exactly the blocks that its size calls for.
THEOREM EveryChainIsSound ==
    ASSUME Uses \subseteq Handled
    PROVE  Spec => []ChainsSound
<1>1. FatInv => ChainsSound
  BY InvChains
<1> HIDE DEF FatInv
<1> QED
  BY <1>1, TableStaysSound, PTL

\* No block is given to a second file, or to a file and the directory, while it
\* is in use (writeFile and writeDirEntries of file.c and fat.c).
THEOREM NoBlockIsShared ==
    ASSUME Uses \subseteq Handled
    PROVE  Spec => []NoSharedBlock
<1>1. FatInv => NoSharedBlock
  BY InvShared
<1> HIDE DEF FatInv
<1> QED
  BY <1>1, TableStaysSound, PTL

\* Whatever is not free is reached from a directory entry or belongs to the
\* directory: deleteFile and saveFat leave nothing behind.
THEOREM NoBlockIsLost ==
    ASSUME Uses \subseteq Handled
    PROVE  Spec => []NoLostBlock
<1>1. FatInv => NoLostBlock
  BY InvLost
<1> HIDE DEF FatInv
<1> QED
  BY <1>1, TableStaysSound, PTL

\* The check of freeBlocks in writeFile is enough: the blocks it promises are
\* there, also for the directory that grows with the file.
THEOREM FreeIsNotOverstated ==
    ASSUME Uses \subseteq Handled
    PROVE  Spec => []FreeNotOverstated
<1>1. FatInv => FreeNotOverstated
  BY InvFree
<1> HIDE DEF FatInv
<1> QED
  BY <1>1, TableStaysSound, PTL

\* While the directory has one block, freeBlocks is the number of free blocks
\* (fat.h:45).
THEOREM FreeIsCounted ==
    ASSUME Uses \subseteq Handled, OneBlockDir
    PROVE  Spec => []FreeBlockNumber
<1>1. FatInv => FreeBlockNumber
  BY InvFree
<1> HIDE DEF FatInv
<1> QED
  BY <1>1, TableStaysSound, PTL

\* mv and the writes never leave two entries of one name.
THEOREM NamesStayUnique ==
    ASSUME Uses \subseteq Handled
    PROVE  Spec => []NamesUnique
<1>1. FatInv => NamesUnique
  BY InvNames
<1> HIDE DEF FatInv
<1> QED
  BY <1>1, TableStaysSound, PTL
=============================================================================
