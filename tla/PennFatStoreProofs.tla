------------------------- MODULE PennFatStoreProofs -------------------------
(***************************************************************************)
(* What is in the files of PennFat, for every number of blocks, block      *)
(* size, set of names and contents.                                        *)
(*                                                                         *)
(* A file holds what is read along its chain (Held).  Filled says that the *)
(* blocks of a chain have the cells that were written, Same that some      *)
(* blocks are as before; from the chains of PennFatProofs it follows that  *)
(* a write changes what the file it names holds, and no other (Puts).      *)
(*                                                                         *)
(* The second part shows that the commands are steps of FileStore.  The    *)
(* files in use are those of the directory in memory; what is saved is     *)
(* what a mount would find, which depends on the table and the data region *)
(* only (SameImage): a command that succeeds has its files found again     *)
(* (SaveStores), and one that fails has to leave the image alone.          *)
(***************************************************************************)
EXTENDS PennFatStore, PennFatProofs

(* What is read. *)

\* What is read along a chain is what is in its blocks.
LEMMA ReadCell ==
    ASSUME NEW f, NEW b, NEW k, Sound(f.blocks, b, k), NEW n \in Nat, n <= BlockSize * k,
           NEW j \in 1 .. k, NEW r \in 0 .. BlockSize - 1, BlockSize * (j - 1) + r < n,
           NEW i, i = BlockSize * (j - 1) + r + 1
    PROVE  getContents(f, b, n)[i] = f.disk[At(Nth(f.blocks, b)[j], r)]
<1> DEFINE p == Nth(f.blocks, b)
           x == BlockSize * (j - 1) + r
           cell(m) == LET c == p[(m - 1) \div BlockSize + 1] IN
                      IF c \in Block THEN f.disk[(c - 1) * BlockSize + ((m - 1) % BlockSize)] ELSE Zero
<1>1. BlockSize \in Nat \ {0} /\ k \in Nat
  BY SizeFacts, SoundFacts
<1>2. j - 1 \in Nat /\ BlockSize * (j - 1) \in Nat
  BY <1>1
<1>3. x \in Nat /\ i \in 1 .. n /\ i - 1 = x
  BY <1>2
<1>4. x \div BlockSize = j - 1 /\ x % BlockSize = r
  BY <1>2, <1>3, DivUnique
<1>5. p[j] \in Block
  BY SoundFacts
<1>6. getContents(f, b, n) = [m \in 1 .. n |-> cell(m)]
  BY Zenon DEF getContents
<1>7. cell(i) = f.disk[At(p[j], r)]
  <2> HIDE DEF p, x
  <2>1. (i - 1) \div BlockSize + 1 = j /\ (i - 1) % BlockSize = r
    BY <1>2, <1>3, <1>4
  <2> QED
    BY <1>5, <2>1 DEF At
<1> HIDE DEF cell, p, x
<1>8. getContents(f, b, n)[i] = cell(i)
  BY <1>3, <1>6
<1> QED
  BY <1>7, <1>8 DEF p

\* What is read from a chain fills its blocks.
LEMMA ReadFills ==
    ASSUME NEW f, NEW b, NEW k, Sound(f.blocks, b, k), NEW n \in Nat, n <= BlockSize * k
    PROVE  Filled(f.disk, Nth(f.blocks, b), k, getContents(f, b, n), n)
<1> SUFFICES ASSUME NEW j \in 1 .. k, NEW r \in 0 .. BlockSize - 1, BlockSize * (j - 1) + r < n
             PROVE  f.disk[At(Nth(f.blocks, b)[j], r)]
                      = getContents(f, b, n)[BlockSize * (j - 1) + r + 1]
  BY DEF Filled
<1> DEFINE i == BlockSize * (j - 1) + r + 1
<1>1. i = BlockSize * (j - 1) + r + 1
  OBVIOUS
<1> HIDE DEF i
<1>2. getContents(f, b, n)[i] = f.disk[At(Nth(f.blocks, b)[j], r)]
  BY <1>1, ReadCell
<1> QED
  BY <1>2 DEF i

\* Blocks that hold the cells of some contents read as these contents.
LEMMA ReadFilled ==
    ASSUME NEW f, NEW b, NEW k, Sound(f.blocks, b, k), NEW S, NEW bytes \in Seq(S),
           Len(bytes) <= BlockSize * k, NEW c, \A j \in 1 .. k : c[j] = Nth(f.blocks, b)[j],
           Filled(f.disk, c, k, bytes, Len(bytes))
    PROVE  getContents(f, b, Len(bytes)) = bytes
<1> DEFINE n == Len(bytes)
           read == getContents(f, b, n)
<1>1. BlockSize \in Nat \ {0} /\ k \in Nat \ {0} /\ n \in Nat
  BY SizeFacts, SoundFacts
<1>2. DOMAIN read = 1 .. n /\ read = [i \in 1 .. n |-> read[i]]
  BY DEF getContents
<1>3. bytes = [i \in 1 .. n |-> bytes[i]]
  OBVIOUS
<1> HIDE DEF n, read
<1>4. ASSUME NEW i \in 1 .. n
      PROVE  read[i] = bytes[i]
  <2> DEFINE q == (i - 1) \div BlockSize
             r == (i - 1) % BlockSize
  <2>1. /\ q \in Nat /\ r \in 0 .. BlockSize - 1 /\ i - 1 = BlockSize * q + r
    <3>1. i - 1 \in Nat
      BY <1>1
    <3> QED
      BY <3>1, DivFacts
  <2> HIDE DEF q, r
  <2>2. q < k
    <3>1. BlockSize * q < BlockSize * k
      <4>1. BlockSize * q \in Nat /\ BlockSize * k \in Nat
        BY <1>1, <2>1
      <4> QED
        BY <1>1, <2>1, <4>1 DEF n
    <3> SUFFICES ASSUME k <= q PROVE FALSE
      BY <1>1, <2>1
    <3>2. PICK x \in Nat : q = k + x
      <4>1. q - k \in Nat /\ q = k + (q - k)
        BY <1>1, <2>1
      <4> QED
        BY <4>1
    <3>3. BlockSize * (k + x) = BlockSize * k + BlockSize * x
      BY <1>1
    <3>4. BlockSize * x \in Nat /\ BlockSize * k \in Nat
      BY <1>1
    <3> QED
      BY <3>1, <3>2, <3>3, <3>4
  <2> DEFINE j == q + 1
  <2>3. j \in 1 .. k /\ j - 1 = q
    BY <1>1, <2>1, <2>2
  <2> HIDE DEF j
  <2>4. BlockSize * (j - 1) + r < n /\ BlockSize * (j - 1) + r + 1 = i
    BY <1>1, <2>1, <2>3
  <2>5. f.disk[At(c[j], r)] = bytes[i]
    BY <2>1, <2>3, <2>4 DEF Filled, n
  <2>6. read[i] = f.disk[At(Nth(f.blocks, b)[j], r)]
    <3>1. Filled(f.disk, Nth(f.blocks, b), k, read, n)
      BY <1>1, ReadFills DEF read, n
    <3>2. f.disk[At(Nth(f.blocks, b)[j], r)] = read[BlockSize * (j - 1) + r + 1]
      BY <2>1, <2>3, <2>4, <3>1 DEF Filled
    <3> QED
      BY <2>4, <3>2
  <2> QED
    BY <2>3, <2>4, <2>5, <2>6
<1>5. read = bytes
  BY <1>2, <1>3, <1>4
<1> QED
  BY <1>5 DEF read, n

\* A file that begins at b and is as long as bytes holds them.
Reads(f, b, bytes) == getContents(f, b, Len(bytes)) = bytes

\* The same, of the blocks that follow b.
LEMMA FilledReads ==
    ASSUME NEW f, NEW b, NEW k, Sound(f.blocks, b, k), NEW bytes \in Seq(Cell),
           Len(bytes) <= BlockSize * k, NEW c, Follows(f.blocks, b, c, k),
           Filled(f.disk, c, k, bytes, Len(bytes))
    PROVE  Reads(f, b, bytes)
<1>1. \A j \in 1 .. k : c[j] = Nth(f.blocks, b)[j]
  BY DEF Follows
<1>2. getContents(f, b, Len(bytes)) = bytes
  BY <1>1, ReadFilled
<1> QED
  BY <1>2 DEF Reads

\* The table and the cells of some blocks are the same.
Same(f, g, C) ==
    \A b \in C : /\ g.blocks[b] = f.blocks[b]
                 /\ \A r \in 0 .. BlockSize - 1 : g.disk[At(b, r)] = f.disk[At(b, r)]

\* A file reads the same as long as nothing happens to its blocks.
LEMMA ReadSame ==
    ASSUME NEW f, f.disk \in Region, NEW g, NEW b, NEW k, Sound(f.blocks, b, k), NEW n \in Nat,
           n <= BlockSize * k, Same(f, g, Chain(f.blocks, b))
    PROVE  getContents(g, b, n) = getContents(f, b, n)
<1> DEFINE data == getContents(f, b, n)
           c == Nth(f.blocks, b)
           C == Chain(f.blocks, b)
<1>1. k \in Nat /\ \A j \in 1 .. k : c[j] \in C
  BY SoundFacts
<1>2. Sound(g.blocks, b, k) /\ \A j \in 1 .. k : c[j] = Nth(g.blocks, b)[j]
  <2> DEFINE blocks == f.blocks
             other == g.blocks
  <2>1. \A x \in Chain(blocks, b) : other[x] = blocks[x]
    BY DEF Same
  <2>2. Sound(blocks, b, k)
    OBVIOUS
  <2> HIDE DEF blocks, other
  <2>3. Sound(other, b, k)
    BY <2>1, <2>2, SameChain
  <2>4. ASSUME NEW j \in 1 .. k
        PROVE  Nth(other, b)[j] = Nth(blocks, b)[j]
    BY <2>1, <2>2, SameNth
  <2>5. \A j \in 1 .. k : Nth(blocks, b)[j] = Nth(other, b)[j]
    BY <2>4
  <2> QED
    BY <2>3, <2>5 DEF blocks, other
<1>3. data \in Seq(Cell)
  BY ReadCells
<1>4. Len(data) = n
  BY DEF getContents
<1>5. Filled(f.disk, c, k, data, n)
  BY ReadFills
<1> HIDE DEF data, c, C
<1>6. Filled(g.disk, c, k, data, n)
  <2> SUFFICES ASSUME NEW j \in 1 .. k, NEW r \in 0 .. BlockSize - 1, BlockSize * (j - 1) + r < n
               PROVE  g.disk[At(c[j], r)] = data[BlockSize * (j - 1) + r + 1]
    BY DEF Filled
  <2>1. g.disk[At(c[j], r)] = f.disk[At(c[j], r)]
    BY <1>1 DEF Same, C
  <2> QED
    BY <1>5, <2>1 DEF Filled
<1>7. getContents(g, b, n) = data
  <2>1. /\ Len(data) <= BlockSize * k /\ Filled(g.disk, c, k, data, Len(data))
        /\ \A j \in 1 .. k : c[j] = Nth(g.blocks, b)[j]
    BY <1>2, <1>4, <1>6
  <2>2. getContents(g, b, Len(data)) = data
    BY <1>2, <1>3, <2>1, ReadFilled
  <2> QED
    BY <1>4, <2>2
<1> QED
  BY <1>7 DEF data

\* What the file of an entry holds.
Held(f, e) == getContents(f, e.firstBlock, e.size)

\* Nothing is read of an empty file.
LEMMA EmptyHeld ==
    ASSUME NEW f, NEW b
    PROVE  getContents(f, b, 0) = <<>>
<1>1. 1 .. 0 = {}
  OBVIOUS
<1> DEFINE read == getContents(f, b, 0)
<1>2. DOMAIN read = 1 .. 0 /\ read = [i \in 1 .. 0 |-> read[i]]
  BY DEF getContents
<1> HIDE DEF read
<1>3. read = [i \in {} |-> read[i]]
  BY <1>1, <1>2
<1> QED
  BY <1>1, <1>3 DEF read

\* A file reads the same as long as nothing happens but to the free blocks and
\* to those of another file, or of the directory.
LEMMA OthersHeld ==
    ASSUME NEW f, NEW d, Good(f, d), NEW i \in 0 .. Len(f.dir), NEW g,
           Same(f, g, Block \ (FreeOf(f.blocks) \cup Chain(f.blocks, Heads(f.dir)[i]))),
           NEW j \in 1 .. Len(f.dir), j # i
    PROVE  Held(g, f.dir[j]) = Held(f, f.dir[j])
<1> DEFINE dir == f.dir
           I == 0 .. Len(dir)
           H == Heads(dir)
           K == Depths(dir, d)
           e == dir[j]
           k == bytesToBlocks(e.size)
<1>1. /\ f \in FatState /\ d \in Nat /\ Laid(f.blocks, I, H, K)
  BY DEF Good
<1>2. dir \in Seq(dirEntry) /\ f.disk \in Region
  BY <1>1 DEF FatState
<1>3. /\ j \in I /\ e.size \in Nat /\ H[j] = e.firstBlock
      /\ e.size # 0 => Sound(f.blocks, e.firstBlock, k)
  BY <1>1, <1>2, EntryFacts
<1> HIDE DEF dir, I, H, K, e, k
<1>4. CASE e.size = 0
  BY <1>4, EmptyHeld DEF Held, e, dir
<1>5. CASE e.size # 0
  <2> DEFINE b == e.firstBlock
             n == e.size
  <2>1. n \in Nat /\ n <= BlockSize * k /\ Sound(f.blocks, b, k)
    BY <1>3, <1>5, BlocksHold DEF k
  <2>2. /\ Chain(f.blocks, b) \subseteq Block \ FreeOf(f.blocks)
        /\ Chain(f.blocks, b) \cap Chain(f.blocks, H[i]) = {}
    <3>1. i \in I /\ i # j
      BY DEF I, dir
    <3>2. Chain(f.blocks, H[j]) \subseteq Block \ FreeOf(f.blocks)
      BY <1>1, <1>3, OwnedFacts
    <3>3. Chain(f.blocks, H[j]) \cap Chain(f.blocks, H[i]) = {}
      BY <1>1, <1>3, <3>1 DEF Laid
    <3> QED
      BY <1>3, <3>2, <3>3
  <2>3. Same(f, g, Chain(f.blocks, b))
    BY <2>2 DEF Same, H, dir
  <2> HIDE DEF b, n
  <2>4. getContents(g, b, n) = getContents(f, b, n)
    BY <1>2, <2>1, <2>3, ReadSame
  <2> QED
    BY <2>4 DEF b, n, Held, e, dir
<1> QED
  BY <1>4, <1>5

\* What a new chain of blocks is filled with is read along it.
LEMMA LinkedHeld ==
    ASSUME NEW f, NEW old, NEW c, NEW m, Linked(old, f.blocks, c, m),
           NEW bytes \in Seq(Cell), Len(bytes) <= BlockSize * m,
           Filled(f.disk, c, m, bytes, Len(bytes))
    PROVE  getContents(f, c[1], Len(bytes)) = bytes
<1> DEFINE b == c[1]
<1>1. Sound(f.blocks, b, m) /\ Follows(f.blocks, b, c, m)
  BY LinkedFollows
<1> HIDE DEF b
<1>2. Reads(f, b, bytes)
  BY <1>1, FilledReads
<1> QED
  BY <1>2 DEF b, Reads

\* What is read depends on the table and the data region alone.
LEMMA ReadAlike ==
    ASSUME NEW f, NEW g, g.blocks = f.blocks, g.disk = f.disk, NEW b, NEW n
    PROVE  getContents(g, b, n) = getContents(f, b, n)
BY DEF getContents

\* What is written where nothing was yet is what is read there, and only free
\* blocks are written to.
LEMMA AnewHeld ==
    ASSUME NEW blocks \in Table, NEW disk \in Region, NEW bytes \in Seq(Cell), NEW start \in Block,
           FreeOf(blocks) # {} => start \in FreeOf(blocks) /\ \A b \in FreeOf(blocks) : start <= b,
           bytesToBlocks(Len(bytes)) <= Cardinality(FreeOf(blocks))
    PROVE  LET w == WriteCells(blocks, disk, start, 0, bytes) IN
           /\ Same([blocks |-> blocks, disk |-> disk], w, Block \ FreeOf(blocks))
           /\ getContents(w, IF bytes = <<>> THEN 0 ELSE start, Len(bytes)) = bytes
<1> DEFINE w == WriteCells(blocks, disk, start, 0, bytes)
           f == [blocks |-> blocks, disk |-> disk]
           m == bytesToBlocks(Len(bytes))
<1>0. f.blocks = blocks /\ f.disk = disk
  OBVIOUS
<1>1. Len(bytes) \in Nat /\ (bytes = <<>> => Len(bytes) = 0)
  OBVIOUS
<1>9. start \in Nat /\ 0 \in Nat
  BY SizeFacts
<1>2. bytes = <<>> => w.blocks = blocks /\ w.disk = disk
  <2>1. blocks \in Table /\ start \in Nat /\ 0 \in Nat
    BY <1>9
  <2> DEFINE v == WriteLoop(blocks, disk, start, 0, bytes)
  <2>2. bytes = <<>> => w = v[0]
    BY <2>1, NothingWritten
  <2>3. /\ v[0] = [blocks |-> blocks, disk |-> disk, currIndex |-> start, byteIdx |-> 0,
                   position |-> (start - 1) * BlockSize + 0]
        /\ \A j \in 0 .. Len(bytes) - 1 : v[j + 1] = WriteCell(0, v[j], bytes[j + 1])
    BY LoopSteps
  <2> HIDE DEF v, w
  <2> QED
    BY <2>2, <2>3
<1> HIDE DEF f
<1>3. CASE bytes = <<>>
  <2> HIDE DEF w
  <2>1. Same(f, w, Block \ FreeOf(blocks))
    BY <1>0, <1>2, <1>3 DEF Same
  <2>2. getContents(w, 0, Len(bytes)) = bytes
    BY <1>1, <1>3, EmptyHeld
  <2> QED
    BY <1>3, <2>1, <2>2 DEF f, w
<1>4. CASE bytes # <<>>
  <2>1. m # 0 /\ m \in Nat /\ Len(bytes) <= BlockSize * m
    <3> DEFINE n == Len(bytes)
    <3>1. n \in Nat /\ n # 0
      BY <1>1, <1>4
    <3> HIDE DEF n
    <3>2. bytesToBlocks(n) # 0 /\ bytesToBlocks(n) \in Nat /\ n <= BlockSize * bytesToBlocks(n)
      BY <3>1, BlocksArith, BlocksHold
    <3> QED
      BY <3>2 DEF n
  <2>2. start \in FreeOf(blocks) /\ \A b \in FreeOf(blocks) : start <= b
    <3>1. FreeOf(blocks) # {}
      <4>1. FreeOf(blocks) = {} => Cardinality(FreeOf(blocks)) = 0
        BY FS_EmptySet
      <4>2. m <= Cardinality(FreeOf(blocks))
        OBVIOUS
      <4> HIDE DEF m
      <4> QED
        BY <2>1, <4>1, <4>2
    <3> QED
      BY <3>1
  <2>3. \E c : /\ Linked(blocks, w.blocks, c, m)
               /\ c[1] = start
               /\ Filled(w.disk, c, m, bytes, Len(bytes))
               /\ Confined(w.disk, disk, BlocksOf(c, m))
    BY <1>4, <2>2, WriteFills
  <2> HIDE DEF m, w
  <2>4. PICK c : /\ Linked(blocks, w.blocks, c, m)
                 /\ c[1] = start
                 /\ Filled(w.disk, c, m, bytes, Len(bytes))
                 /\ Confined(w.disk, disk, BlocksOf(c, m))
    BY <2>3
  <2>5. BlocksOf(c, m) \subseteq FreeOf(blocks)
    BY <2>4 DEF Linked, BlocksOf
  <2>6. Same(f, w, Block \ FreeOf(blocks))
    BY <1>0, <2>4, <2>5 DEF Same, Linked, Confined, BlocksOf
  <2>7. getContents(w, c[1], Len(bytes)) = bytes
    BY <2>1, <2>4, LinkedHeld
  <2> QED
    BY <1>4, <2>4, <2>6, <2>7 DEF f, w
<1> QED
  BY <1>3, <1>4

\* A table in which the blocks of C are free as well.
Frees(freed, blocks, C) ==
    /\ freed \in Table /\ blocks \in Table
    /\ FreeOf(freed) = FreeOf(blocks) \cup C
    /\ \A b \in Block \ C : freed[b] = blocks[b]

\* There is room for bytes from the first free block on.
HasRoom(blocks, start, bytes) ==
    /\ start \in Block
    /\ FreeOf(blocks) # {} => start \in FreeOf(blocks) /\ \A b \in FreeOf(blocks) : start <= b
    /\ bytesToBlocks(Len(bytes)) <= Cardinality(FreeOf(blocks))

\* The table and the cells of f are those that a write leaves.
Written(f, blocks, disk, start, bytes) ==
    /\ f.blocks = WriteCells(blocks, disk, start, 0, bytes).blocks
    /\ f.disk = WriteCells(blocks, disk, start, 0, bytes).disk

\* Where a file begins, and the blocks that are not free and not in C.
FirstOf(start, bytes) == IF bytes = <<>> THEN 0 ELSE start
Elsewhere(blocks, C) == Block \ (FreeOf(blocks) \cup C)

\* What follows of it for a file system with the blocks and cells so written.
LEMMA AnewRead ==
    ASSUME NEW f, f.disk \in Region, NEW freed, NEW C, Frees(freed, f.blocks, C),
           NEW bytes \in Seq(Cell), NEW start, HasRoom(freed, start, bytes),
           NEW g, Written(g, freed, f.disk, start, bytes)
    PROVE  /\ Same(f, g, Elsewhere(f.blocks, C))
           /\ Reads(g, FirstOf(start, bytes), bytes)
<1> DEFINE disk == f.disk
           w == WriteCells(freed, disk, start, 0, bytes)
           h == [blocks |-> freed, disk |-> disk]
           n == Len(bytes)
<1>1. disk \in Region /\ g.blocks = w.blocks /\ g.disk = w.disk
  BY DEF Written
<1>2. h.blocks = freed /\ h.disk = disk
  OBVIOUS
<1> HIDE DEF disk
<1>3. Same(h, w, Block \ FreeOf(freed)) /\ getContents(w, FirstOf(start, bytes), n) = bytes
  <2>1. LET v == WriteCells(freed, disk, start, 0, bytes) IN
        /\ Same([blocks |-> freed, disk |-> disk], v, Block \ FreeOf(freed))
        /\ getContents(v, IF bytes = <<>> THEN 0 ELSE start, Len(bytes)) = bytes
    <3>1. freed \in Table /\ start \in Block
          /\ (FreeOf(freed) # {} => start \in FreeOf(freed) /\ \A b \in FreeOf(freed) : start <= b)
          /\ bytesToBlocks(Len(bytes)) <= Cardinality(FreeOf(freed))
      BY DEF Frees, HasRoom
    <3> QED
      BY <1>1, <3>1, AnewHeld
  <2> QED
    BY <2>1 DEF FirstOf
<1> HIDE DEF w, h, n
<1>4. getContents(g, FirstOf(start, bytes), n) = getContents(w, FirstOf(start, bytes), n)
  BY <1>1, ReadAlike
<1>5. Same(f, g, Elsewhere(f.blocks, C))
  BY <1>1, <1>2, <1>3 DEF Same, disk, Frees, Elsewhere
<1> QED
  BY <1>3, <1>4, <1>5 DEF n, Reads

\* A write that succeeded: a new file holds data, the others what they held.
AddsHeld(r, f, name, data) ==
    \E g, e : /\ r = Done(g) /\ g.dir = Append(f.dir, e)
              /\ e \in dirEntry /\ e.name = name /\ e.perm = READWRITE_PERMS /\ Held(g, e) = data
              /\ \A j \in 1 .. Len(f.dir) : Held(g, f.dir[j]) = Held(f, f.dir[j])

\* Or the file of that name holds data, the others what they held.
ChangesHeld(r, f, name, data) ==
    \E g, e : /\ r = Done(g) /\ g.dir = Replaced(f.dir, getDirEntryNode(f, name), e)
              /\ e \in dirEntry /\ e.name = name /\ e.perm = Entry(f, name).perm /\ Held(g, e) = data
              /\ \A j \in 1 .. Len(f.dir) :
                    j # getDirEntryNode(f, name) => Held(g, f.dir[j]) = Held(f, f.dir[j])

\* A file that is new holds what was written.
LEMMA NewHeld ==
    ASSUME NEW f, NEW d, Good(f, d), NEW name \in Names, ~Found(f, name), NEW bytes \in Seq(Cell),
           NEW appending,
           ~(f.freeBlocks < NeededBlocks(f, name, Len(bytes), appending))
    PROVE  AddsHeld(writeFile(f, name, bytes, appending), f, name, bytes)
<1> DEFINE dir == f.dir
           blocks == f.blocks
           start == FirstFree(blocks, 1, 1)
           w == WriteCells(blocks, f.disk, start, 0, bytes)
           first == IF bytes = <<>> THEN 0 ELSE start
           e == NewEntry(name, Len(bytes), first)
           need == NeededBlocks(f, name, Len(bytes), appending)
           m == bytesToBlocks(Len(bytes))
           g == [blocks |-> w.blocks, disk |-> w.disk, freeBlocks |-> f.freeBlocks - need,
                 dir |-> Append(dir, e)]
<1>1. writeFile(f, name, bytes, appending) = Done(g)
  BY Zenon DEF writeFile, NewEntry
<1>2. f \in FatState /\ f.freeBlocks <= Cardinality(FreeOf(blocks))
  BY DEF Good
<1>3. blocks \in Table /\ dir \in Seq(dirEntry) /\ f.freeBlocks \in Nat /\ f.disk \in Region
  BY <1>2 DEF FatState
<1>4. Len(dir) \in Nat /\ Len(bytes) \in Nat /\ m \in Nat
  <2>1. Len(bytes) \in Nat
    OBVIOUS
  <2> QED
    BY <1>3, <2>1, BlocksHold
<1>5. need = m + (IF Len(dir) # 0 /\ Len(dir) % BlockSize = 0 THEN 1 ELSE 0)
  BY DEF NeededBlocks
<1>6. m <= Cardinality(FreeOf(blocks))
  <2>1. Cardinality(FreeOf(blocks)) \in Nat /\ ~(f.freeBlocks < need)
    BY FreeFinite
  <2> HIDE DEF need, m
  <2> QED
    BY <1>2, <1>3, <1>4, <1>5, <2>1
<1>7. /\ start \in Block
      /\ FreeOf(blocks) # {} => start \in FreeOf(blocks) /\ \A b \in FreeOf(blocks) : start <= b
  BY FirstFreeStart
<1>8. first \in Block \cup {0}
  BY <1>7
<1> HIDE DEF need, blocks, start, first
<1>9. e \in dirEntry /\ e.name = name /\ e.size = Len(bytes) /\ e.firstBlock = first
      /\ e.perm = READWRITE_PERMS
  BY <1>4, <1>8 DEF NewEntry, dirEntry, Permission, READWRITE_PERMS
<1> HIDE DEF e
<1>10. g.blocks = w.blocks /\ g.disk = w.disk /\ g.dir = Append(dir, e)
  OBVIOUS
<1> HIDE DEF g
<1> DEFINE none == {}
<1>11. Same(f, g, Elsewhere(f.blocks, none)) /\ Reads(g, FirstOf(start, bytes), bytes)
  <2>1. Frees(blocks, f.blocks, none)
    BY <1>3 DEF blocks, Frees
  <2>2. HasRoom(blocks, start, bytes)
    BY <1>6, <1>7 DEF HasRoom
  <2>3. Written(g, blocks, f.disk, start, bytes)
    BY <1>10 DEF Written
  <2> HIDE DEF none
  <2> QED
    BY <1>3, <2>1, <2>2, <2>3, AnewRead
<1>12. Held(g, e) = bytes
  BY <1>9, <1>11 DEF Held, FirstOf, first, Reads
<1>13. \A j \in 1 .. Len(dir) : Held(g, dir[j]) = Held(f, dir[j])
  <2> SUFFICES ASSUME NEW j \in 1 .. Len(dir) PROVE Held(g, dir[j]) = Held(f, dir[j])
    OBVIOUS
  <2> DEFINE i == 0
  <2>1. i \in 0 .. Len(dir) /\ j # i
    BY <1>4
  <2> HIDE DEF i
  <2>2. Same(f, g, Elsewhere(f.blocks, Chain(f.blocks, Heads(f.dir)[i])))
    BY <1>11 DEF Same, Elsewhere
  <2> QED
    BY <2>1, <2>2, OthersHeld DEF Elsewhere
<1> QED
  BY <1>1, <1>9, <1>10, <1>12, <1>13 DEF AddsHeld

\* The table without the chain of a file, or of the directory.
LEMMA ChainFreed ==
    ASSUME NEW f, NEW d, Good(f, d), NEW i \in 0 .. Len(f.dir)
    PROVE  LET b == Heads(f.dir)[i]
               freed == FreeChain(f.blocks, b)
           IN /\ Frees(freed, f.blocks, Chain(f.blocks, b))
              /\ Cardinality(FreeOf(freed)) = Cardinality(FreeOf(f.blocks)) + Depths(f.dir, d)[i]
<1> DEFINE I == 0 .. Len(f.dir)
           H == Heads(f.dir)
           K == Depths(f.dir, d)
           b == H[i]
           freed == FreeChain(f.blocks, b)
<1>1. Laid(f.blocks, I, H, K) /\ f.blocks \in Table /\ i \in I
  BY DEF Good, FatState
<1>2. \A c \in Block \ Chain(f.blocks, b) : freed[c] = f.blocks[c]
  BY <1>1, SizeFacts DEF FreeChain, Table
<1> HIDE DEF I, H, K
<1>3. LET other == FreeChain(f.blocks, H[i]) IN
      /\ Laid(other, I, [H EXCEPT ![i] = 0], [K EXCEPT ![i] = 0])
      /\ other[0] = f.blocks[0]
      /\ FreeOf(other) = FreeOf(f.blocks) \cup Chain(f.blocks, H[i])
      /\ Cardinality(FreeOf(other)) = Cardinality(FreeOf(f.blocks)) + K[i]
  BY <1>1, LaidFree
<1>4. freed \in Table
  BY <1>3 DEF Laid
<1>5. Frees(freed, f.blocks, Chain(f.blocks, b))
  BY <1>1, <1>2, <1>3, <1>4 DEF Frees
<1> QED
  BY <1>3, <1>5 DEF H, K

\* What saveFat writes from block 1 on.
LEMMA SaveWrites ==
    ASSUME NEW f, NEW d, Good(f, d), f.dir # <<>>
    PROVE  /\ Same(f, saveFat(f), Elsewhere(f.blocks, Chain(f.blocks, 1)))
           /\ Reads(saveFat(f), 1, DirBytes(f.dir))
<1> DEFINE dir == f.dir
           n == DirDepth(Len(dir))
           bytes == DirBytes(dir)
           one == 1
           i == 0
           C == Chain(f.blocks, one)
           freed == FreeChain(f.blocks, one)
           g == saveFat(f)
<1>1. /\ f \in FatState /\ d \in Nat
      /\ f.freeBlocks + DirDepth(Len(dir)) <= Cardinality(FreeOf(f.blocks)) + d
      /\ Laid(f.blocks, 0 .. Len(dir), Heads(dir), Depths(dir, d)) /\ d # 0
  BY DEF Good
<1>2. dir \in Seq(dirEntry) /\ f.freeBlocks \in Nat /\ f.disk \in Region
  BY <1>1 DEF FatState
<1>3. Len(dir) \in Nat /\ i \in 0 .. Len(dir) /\ n \in Nat
  <2>1. Len(dir) \in Nat /\ i \in 0 .. Len(dir)
    BY <1>2
  <2> HIDE DEF dir, i
  <2> QED
    BY <2>1, DirDepthLemma
<1>4. Heads(dir)[i] = one /\ Depths(dir, d)[i] = d
  BY <1>3 DEF Heads, Depths
<1>5. /\ bytes \in Seq(Cell) /\ bytes # <<>>
      /\ bytesToBlocks(Len(bytes)) = n
  BY <1>2, DirBytesFacts
<1>6. Written(g, freed, f.disk, one, bytes)
  <2> DEFINE w == WriteCells(freed, f.disk, 1, 0, bytes)
             b == w.blocks
             k == w.disk
  <2>1. g = [f EXCEPT !.blocks = b, !.disk = k]
    BY DEF saveFat, DirBytes
  <2> HIDE DEF b, k, g
  <2>2. g = [blocks |-> b, disk |-> k, dir |-> dir, freeBlocks |-> f.freeBlocks]
    BY <1>1, <2>1, SavedRecord, Zenon
  <2>3. g.blocks = b /\ g.disk = k
    BY <2>2
  <2> QED
    BY <2>3 DEF Written, b, k
<1> HIDE DEF bytes, n, i, one, g
<1>7. Frees(freed, f.blocks, C) /\ Cardinality(FreeOf(freed)) = Cardinality(FreeOf(f.blocks)) + d
  BY <1>3, <1>4, ChainFreed
<1>8. one \in FreeOf(freed) /\ \A b \in FreeOf(freed) : one <= b
  <2>1. Sound(f.blocks, one, d)
    BY <1>1, <1>3, <1>4 DEF Laid
  <2>2. one \in C
    BY <2>1, SoundCard
  <2> HIDE DEF freed, C
  <2>3. FreeOf(freed) \subseteq Block /\ one \in FreeOf(freed)
    BY <1>7, <2>2 DEF Frees, FreeOf
  <2> QED
    BY <2>3, SizeFacts DEF one
<1>9. n <= Cardinality(FreeOf(freed))
  <2>1. Cardinality(FreeOf(f.blocks)) \in Nat
    BY FreeFinite
  <2> QED
    BY <1>1, <1>2, <1>3, <1>7, <2>1 DEF n
<1>10. HasRoom(freed, one, bytes)
  BY <1>5, <1>8, <1>9 DEF HasRoom, FreeOf
<1> HIDE DEF freed, C
<1>11. Same(f, g, Elsewhere(f.blocks, C)) /\ Reads(g, FirstOf(one, bytes), bytes)
  BY <1>2, <1>5, <1>6, <1>7, <1>10, AnewRead
<1>12. FirstOf(one, bytes) = one
  BY <1>5 DEF FirstOf
<1> QED
  BY <1>11, <1>12 DEF one, g, C, bytes

\* So all files hold what they held.
LEMMA SaveHeld ==
    ASSUME NEW f, NEW d, Good(f, d), f.dir # <<>>, NEW j \in 1 .. Len(f.dir)
    PROVE  Held(saveFat(f), f.dir[j]) = Held(f, f.dir[j])
<1> DEFINE i == 0
           g == saveFat(f)
<1>1. Len(f.dir) \in Nat
  BY DEF Good, FatState
<1>2. i \in 0 .. Len(f.dir) /\ j # i /\ Heads(f.dir)[i] = 1
  BY <1>1 DEF Heads
<1>3. Same(f, g, Elsewhere(f.blocks, Chain(f.blocks, 1)))
  BY SaveWrites
<1> HIDE DEF i, g
<1>4. Same(f, g, Block \ (FreeOf(f.blocks) \cup Chain(f.blocks, Heads(f.dir)[i])))
  BY <1>2, <1>3 DEF Elsewhere
<1>5. Held(g, f.dir[j]) = Held(f, f.dir[j])
  BY <1>2, <1>4, OthersHeld
<1> QED
  BY <1>5 DEF g

\* A file that is written over holds what was written.
LEMMA OverHeld ==
    ASSUME NEW f, NEW d, Good(f, d), NEW name, Found(f, name), MayWrite(Entry(f, name)),
           NEW bytes \in Seq(Cell),
           ~(f.freeBlocks < NeededBlocks(f, name, Len(bytes), FALSE))
    PROVE  ChangesHeld(writeFile(f, name, bytes, FALSE), f, name, bytes)
<1> DEFINE dir == f.dir
           i == getDirEntryNode(f, name)
           old == Entry(f, name)
           blocks == deleteFileHelper(f.blocks, Entry(f, name))
           start == FirstFree(blocks, 1, 1)
           w == WriteCells(blocks, f.disk, start, 0, bytes)
           first == IF bytes = <<>> THEN 0 ELSE start
           e == [Entry(f, name) EXCEPT !.size = Len(bytes), !.firstBlock = first]
           need == NeededBlocks(f, name, Len(bytes), FALSE)
           k == bytesToBlocks(old.size)
           m == bytesToBlocks(Len(bytes))
           b == Heads(dir)[i]
           C == Chain(f.blocks, b)
           g == [blocks |-> w.blocks, disk |-> w.disk, freeBlocks |-> f.freeBlocks - need,
                 dir |-> [dir EXCEPT ![i] = e]]
<1>1. writeFile(f, name, bytes, FALSE) = Done(g)
  BY Zenon DEF writeFile
<1>2. /\ f \in FatState /\ d \in Nat
      /\ Laid(f.blocks, 0 .. Len(dir), Heads(dir), Depths(dir, d))
      /\ f.freeBlocks <= Cardinality(FreeOf(f.blocks))
  BY DEF Good
<1>3. f.blocks \in Table /\ dir \in Seq(dirEntry) /\ f.freeBlocks \in Nat /\ f.disk \in Region
  BY <1>2 DEF FatState
<1>4. Len(dir) \in Nat /\ Len(bytes) \in Nat /\ m \in Nat
  <2>1. Len(bytes) \in Nat
    OBVIOUS
  <2> QED
    BY <1>3, <2>1, BlocksHold
<1>5. i \in 1 .. Len(dir) /\ old = dir[i] /\ old \in dirEntry /\ old.name = name
  BY <1>3, FoundFacts
<1>6. /\ i \in 0 .. Len(dir) /\ b = old.firstBlock /\ Depths(dir, d)[i] = k /\ k \in Nat
      /\ old.size = 0 => old.firstBlock = 0
  <2> HIDE DEF dir, i, old
  <2> QED
    BY <1>2, <1>3, <1>5, EntryFacts
<1>7. need = m - k /\ ~(f.freeBlocks < need)
  BY DEF NeededBlocks
<1>8. blocks = FreeChain(f.blocks, b)
  BY <1>3, <1>5, <1>6, HelperFrees
<1>9. first \in Block \cup {0} /\ start \in Block
      /\ (FreeOf(blocks) # {} => start \in FreeOf(blocks) /\ \A c \in FreeOf(blocks) : start <= c)
  BY FirstFreeStart
<1>10. e \in dirEntry /\ e.name = name /\ e.size = Len(bytes) /\ e.firstBlock = first
       /\ e.perm = old.perm
  <2> DEFINE o == Entry(f, name)
             x == [o EXCEPT !.size = Len(bytes)]
             y == [x EXCEPT !.firstBlock = first]
  <2>1. o \in dirEntry /\ o.name = name
    BY <1>5
  <2>2. e = y
    OBVIOUS
  <2> HIDE DEF o, e, first
  <2>3. x = [name |-> o.name, size |-> Len(bytes), firstBlock |-> o.firstBlock, perm |-> o.perm]
    BY <2>1 DEF dirEntry
  <2> HIDE DEF x
  <2>4. y = [name |-> o.name, size |-> Len(bytes), firstBlock |-> first, perm |-> o.perm]
    BY <2>3
  <2> HIDE DEF y
  <2>5. o.name \in Names /\ o.perm \in Permission
    BY <2>1 DEF dirEntry
  <2>6. e.perm = o.perm
    BY <2>2, <2>4
  <2> QED
    BY <1>4, <1>9, <2>1, <2>2, <2>4, <2>5, <2>6 DEF dirEntry, o
<1>11. g.blocks = w.blocks /\ g.disk = w.disk /\ g.dir = [dir EXCEPT ![i] = e]
  OBVIOUS
<1> HIDE DEF need, blocks, start, first, e, old, b, i, dir, g, k, m
<1>12. Frees(blocks, f.blocks, C) /\ Cardinality(FreeOf(blocks)) = Cardinality(FreeOf(f.blocks)) + k
  BY <1>6, <1>8, ChainFreed DEF b, dir
<1>13. m <= Cardinality(FreeOf(blocks))
  <2> DEFINE x == Cardinality(FreeOf(f.blocks))
             y == Cardinality(FreeOf(blocks))
             z == f.freeBlocks
  <2>1. x \in Nat
    BY FreeFinite
  <2>2. z \in Nat /\ z <= x /\ y = x + k /\ ~(z < m - k) /\ m \in Nat /\ k \in Nat
    BY <1>2, <1>3, <1>4, <1>6, <1>7, <1>12
  <2> HIDE DEF x, y, z
  <2>3. m <= y
    BY <2>1, <2>2
  <2> QED
    BY <2>3 DEF y
<1>14. Same(f, g, Elsewhere(f.blocks, C)) /\ Reads(g, FirstOf(start, bytes), bytes)
  <2>1. HasRoom(blocks, start, bytes)
    BY <1>9, <1>13 DEF HasRoom, m
  <2>2. Written(g, blocks, f.disk, start, bytes)
    BY <1>11 DEF Written
  <2> HIDE DEF C
  <2> QED
    BY <1>3, <1>12, <2>1, <2>2, AnewRead
<1>15. Held(g, e) = bytes
  BY <1>10, <1>14 DEF Held, FirstOf, first, Reads
<1>16. \A j \in 1 .. Len(dir) : j # i => Held(g, dir[j]) = Held(f, dir[j])
  BY <1>6, <1>14, OthersHeld DEF Elsewhere, b, dir
<1>17. /\ writeFile(f, name, bytes, FALSE) = Done(g)
       /\ g.dir = Replaced(f.dir, getDirEntryNode(f, name), e)
       /\ e \in dirEntry /\ e.name = name /\ e.perm = Entry(f, name).perm /\ Held(g, e) = bytes
       /\ \A j \in 1 .. Len(f.dir) :
            j # getDirEntryNode(f, name) => Held(g, f.dir[j]) = Held(f, f.dir[j])
  BY <1>1, <1>10, <1>11, <1>15, <1>16 DEF Replaced, dir, i, old
<1> QED
  BY <1>17 DEF ChangesHeld

\* Two sequences of cells, one behind the other.
LEMMA BothCells ==
    ASSUME NEW data \in Seq(Cell), NEW bytes \in Seq(Cell)
    PROVE  /\ data \o bytes \in Seq(Cell) /\ Len(data \o bytes) = Len(data) + Len(bytes)
           /\ \A i \in 1 .. Len(data) : (data \o bytes)[i] = data[i]
           /\ \A i \in 1 .. Len(bytes) : (data \o bytes)[Len(data) + i] = bytes[i]
OBVIOUS

\* The cells of block start from offset on are those of bytes, all others are as before.
PutInto(new, old, start, offset, bytes) ==
    \A b \in Block, r \in 0 .. BlockSize - 1 :
        new[At(b, r)] = IF b = start /\ offset <= r /\ r < offset + Len(bytes)
                        THEN bytes[r - offset + 1] ELSE old[At(b, r)]

\* Where something is put is in one block.
LEMMA PutCells ==
    ASSUME NEW new, NEW old, NEW bytes \in Seq(Cell), NEW start \in Block,
           NEW offset \in 0 .. BlockSize - 1, offset + Len(bytes) <= BlockSize,
           Put(new, old, At(start, offset), bytes)
    PROVE  PutInto(new, old, start, offset, bytes)
<1> SUFFICES ASSUME NEW b \in Block, NEW r \in 0 .. BlockSize - 1
             PROVE  new[At(b, r)] = IF b = start /\ offset <= r /\ r < offset + Len(bytes)
                                    THEN bytes[r - offset + 1] ELSE old[At(b, r)]
  BY DEF PutInto
<1> DEFINE L == Len(bytes)
           base == At(start, offset)
           p == At(b, r)
<1>1. /\ NumEntries \in Nat /\ Block = 1 .. NumEntries - 1 /\ BlockSize \in Nat \ {0} /\ L \in Nat
  <2>1. L \in Nat
    OBVIOUS
  <2> QED
    BY <2>1, SizeFacts
<1>2. /\ p \in 0 .. (NumEntries - 1) * BlockSize - 1 /\ base \in 0 .. (NumEntries - 1) * BlockSize - 1
  BY CellsApart
<1>3. new[p] = IF base <= p /\ p < base + L THEN bytes[p - base + 1] ELSE old[p]
  BY <1>2 DEF Put
<1>4. p = (b - 1) * BlockSize + r /\ base = (start - 1) * BlockSize + offset
  BY DEF At
<1> DEFINE x == (b - 1) * BlockSize
           y == (start - 1) * BlockSize
<1>5. x \in Nat /\ y \in Nat
  BY <1>1
<1>6. offset + L <= BlockSize
  OBVIOUS
<1>7. p = x + r /\ base = y + offset
  BY <1>4
<1>8. b < start => x + BlockSize <= y
  <2> SUFFICES ASSUME b < start PROVE x + BlockSize <= y
    OBVIOUS
  <2>1. PICK z \in Nat : start = b + 1 + z
    <3>1. start - b - 1 \in Nat /\ start = b + 1 + (start - b - 1)
      BY <1>1
    <3> QED
      BY <3>1
  <2>2. (b + z) * BlockSize = (b - 1) * BlockSize + BlockSize + z * BlockSize /\ start - 1 = b + z
    BY <1>1, <2>1
  <2>3. z * BlockSize \in Nat
    BY <1>1
  <2> QED
    BY <1>1, <1>5, <2>2, <2>3
<1>9. start < b => y + BlockSize <= x
  <2> SUFFICES ASSUME start < b PROVE y + BlockSize <= x
    OBVIOUS
  <2>1. PICK z \in Nat : b = start + 1 + z
    <3>1. b - start - 1 \in Nat /\ b = start + 1 + (b - start - 1)
      BY <1>1
    <3> QED
      BY <3>1
  <2>2. (start + z) * BlockSize = (start - 1) * BlockSize + BlockSize + z * BlockSize /\ b - 1 = start + z
    BY <1>1, <2>1
  <2>3. z * BlockSize \in Nat
    BY <1>1
  <2> QED
    BY <1>1, <1>5, <2>2, <2>3
<1>10. b = start => x = y
  OBVIOUS
<1> HIDE DEF L, base, p, x, y
<1>11. base <= p /\ p < base + L <=> b = start /\ offset <= r /\ r < offset + L
  <2>1. b < start \/ start < b \/ b = start
    BY <1>1
  <2> QED
    BY <1>1, <1>5, <1>6, <1>7, <1>8, <1>9, <1>10, <2>1
<1>12. b = start => p - base + 1 = r - offset + 1
  BY <1>1, <1>5, <1>7, <1>10
<1> QED
  BY <1>3, <1>11, <1>12 DEF L, base, p

\* What is put behind the last cell of a file is what it goes on with.
LEMMA FilledOn ==
    ASSUME NEW disk, NEW new, NEW k \in Nat \ {0}, NEW c, \A j \in 1 .. k : c[j] \in Block,
           \A j \in 1 .. k - 1 : c[j] # c[k], NEW data \in Seq(Cell), NEW bytes \in Seq(Cell),
           NEW offset \in 0 .. BlockSize - 1, offset + Len(bytes) <= BlockSize,
           Len(data) = BlockSize * (k - 1) + offset, Filled(disk, c, k, data, Len(data)),
           PutInto(new, disk, c[k], offset, bytes)
    PROVE  Filled(new, c, k, data \o bytes, Len(data \o bytes))
<1> DEFINE n == Len(data)
           L == Len(bytes)
           both == data \o bytes
<1>1. BlockSize \in Nat \ {0} /\ n \in Nat /\ L \in Nat /\ k - 1 \in Nat /\ k \in 1 .. k
  <2>1. n \in Nat /\ L \in Nat
    OBVIOUS
  <2> QED
    BY <2>1, SizeFacts
<1>2. /\ Len(both) = n + L
      /\ \A i \in 1 .. n : both[i] = data[i]
      /\ \A i \in 1 .. L : both[n + i] = bytes[i]
  BY BothCells
<1>3. n = BlockSize * (k - 1) + offset /\ offset + L <= BlockSize
  OBVIOUS
<1> HIDE DEF both
<1> SUFFICES ASSUME NEW j \in 1 .. k, NEW r \in 0 .. BlockSize - 1, BlockSize * (j - 1) + r < n + L
             PROVE  new[At(c[j], r)] = both[BlockSize * (j - 1) + r + 1]
  BY <1>2 DEF Filled, both
<1> DEFINE x == BlockSize * (j - 1)
           y == BlockSize * (k - 1)
<1>4. x \in Nat /\ y \in Nat /\ x + r < n + L /\ n = y + offset
  BY <1>1, <1>3
<1>5. j # k => x + BlockSize <= y
  <2> SUFFICES ASSUME j # k PROVE x + BlockSize <= y
    OBVIOUS
  <2>1. PICK z \in Nat : k = j + 1 + z
    <3>1. k - j - 1 \in Nat /\ k = j + 1 + (k - j - 1)
      BY <1>1
    <3> QED
      BY <3>1
  <2>2. BlockSize * (j + z) = BlockSize * (j - 1) + BlockSize + BlockSize * z /\ k - 1 = j + z
    BY <1>1, <2>1
  <2>3. BlockSize * z \in Nat
    BY <1>1
  <2> QED
    BY <1>1, <1>4, <2>2, <2>3
<1>6. new[At(c[j], r)] = IF c[j] = c[k] /\ offset <= r /\ r < offset + L
                         THEN bytes[r - offset + 1] ELSE disk[At(c[j], r)]
  BY <1>1 DEF PutInto
<1>7. x + r < n => disk[At(c[j], r)] = data[x + r + 1]
  BY DEF Filled
<1>8. c[j] = c[k] <=> j = k
  <2>1. j # k => j \in 1 .. k - 1
    BY <1>1
  <2> QED
    BY <2>1
<1>9. j = k => x = y
  OBVIOUS
<1> HIDE DEF x, y, n, L
<1>10. CASE x + r < n
  <2>1. ~(j = k /\ offset <= r)
    BY <1>1, <1>4, <1>9, <1>10
  <2>2. x + r + 1 \in 1 .. n
    BY <1>1, <1>4, <1>10
  <2> QED
    BY <1>2, <1>6, <1>7, <1>8, <1>10, <2>1, <2>2 DEF x
<1>11. CASE ~(x + r < n)
  <2>1. j = k
    BY <1>1, <1>4, <1>5, <1>11
  <2>2. /\ offset <= r /\ r < offset + L /\ r - offset + 1 \in 1 .. L
        /\ n + (r - offset + 1) = x + r + 1
    BY <1>1, <1>4, <1>9, <1>11, <2>1
  <2>3. both[n + (r - offset + 1)] = bytes[r - offset + 1]
    BY <1>2, <2>2
  <2> QED
    BY <1>6, <1>8, <2>1, <2>2, <2>3 DEF x
<1> QED
  BY <1>10, <1>11

\* A file that does not fill its last block, and what fits into it.
LEMMA LastPartly ==
    ASSUME NEW n \in Nat, n % BlockSize # 0
    PROVE  LET k == bytesToBlocks(n) IN
           /\ n <= BlockSize * k /\ n % BlockSize \in 0 .. BlockSize - 1
           /\ n = BlockSize * (k - 1) + (n % BlockSize)
<1> DEFINE q == n \div BlockSize
           r == n % BlockSize
           x == BlockSize * q
           y == BlockSize * (q + 1)
<1>1. q \in Nat /\ r \in 0 .. BlockSize - 1 /\ n = x + r /\ r # 0
  BY DivFacts
<1>2. BlockSize \in Nat \ {0}
  BY SizeFacts
<1> HIDE DEF q, r
<1>3. x \in Nat /\ y = x + BlockSize
  BY <1>1, <1>2
<1> HIDE DEF x, y
<1>4. n <= y /\ y < n + BlockSize /\ q + 1 \in Nat
  BY <1>1, <1>2, <1>3
<1>5. bytesToBlocks(n) = q + 1
  BY <1>4, BlocksUnique DEF y
<1>6. q + 1 - 1 = q
  BY <1>1
<1> QED
  BY <1>1, <1>4, <1>5, <1>6 DEF x, y, r

\* What fits behind it is still in the same number of blocks.
LEMMA LastFits ==
    ASSUME NEW k \in Nat \ {0}, NEW offset \in 0 .. BlockSize - 1, NEW m \in Nat,
           offset + m <= BlockSize, NEW n, n = BlockSize * (k - 1) + offset
    PROVE  n + m <= BlockSize * k
<1> DEFINE x == BlockSize * (k - 1)
           y == BlockSize * k
<1>1. BlockSize \in Nat \ {0}
  BY SizeFacts
<1>2. x \in Nat /\ y = x + BlockSize /\ n = x + offset
  BY <1>1
<1> HIDE DEF x, y
<1>3. n + m <= y
  BY <1>1, <1>2
<1> QED
  BY <1>3 DEF y

\* Appending what fits into the last block leaves it behind what was there.
LEMMA WithinRead ==
    ASSUME NEW f, NEW d, Good(f, d), NEW i \in 1 .. Len(f.dir), NEW bytes \in Seq(Cell),
           f.dir[i].size # 0, NEW offset, offset = f.dir[i].size % BlockSize,
           offset # 0, offset + Len(bytes) <= BlockSize,
           NEW g, g.blocks = f.blocks,
           PutInto(g.disk, f.disk, LastBlock(f.blocks, f.dir[i].firstBlock), offset, bytes)
    PROVE  /\ Same(f, g, Elsewhere(f.blocks, Chain(f.blocks, Heads(f.dir)[i])))
           /\ Reads(g, f.dir[i].firstBlock, Held(f, f.dir[i]) \o bytes)
           /\ Len(Held(f, f.dir[i]) \o bytes) = f.dir[i].size + Len(bytes)
<1> DEFINE dir == f.dir
           e == dir[i]
           b == e.firstBlock
           n == e.size
           k == bytesToBlocks(n)
           c == Nth(f.blocks, b)
           last == LastBlock(f.blocks, b)
           data == Held(f, e)
           both == data \o bytes
<1>1. /\ f \in FatState /\ d \in Nat
      /\ Laid(f.blocks, 0 .. Len(dir), Heads(dir), Depths(dir, d))
  BY DEF Good
<1>2. f.blocks \in Table /\ dir \in Seq(dirEntry) /\ f.disk \in Region
  BY <1>1 DEF FatState
<1>3. n \in Nat /\ n # 0 /\ Sound(f.blocks, b, k) /\ Heads(dir)[i] = b
  BY <1>1, <1>2, EntryFacts
<1>4. last = c[k] /\ PutInto(g.disk, f.disk, last, offset, bytes)
  <2> HIDE DEF b, k
  <2>1. LastBlock(f.blocks, b) = Nth(f.blocks, b)[k]
    BY <1>3, LastBlockLemma
  <2> QED
    BY <2>1 DEF b, last
<1>5. k \in Nat \ {0} /\ (\A j \in 1 .. k : c[j] \in Block) /\ (\A j \in 1 .. k : c[j] \in Chain(f.blocks, b))
  <2> HIDE DEF b, k
  <2> QED
    BY <1>3, SoundFacts
<1>6. \A j \in 1 .. k - 1 : c[j] # c[k]
  <2> HIDE DEF b, k
  <2> SUFFICES ASSUME NEW j \in 1 .. k - 1 PROVE Nth(f.blocks, b)[j] # Nth(f.blocks, b)[k]
    OBVIOUS
  <2>1. j \in 1 .. k /\ k \in 1 .. k /\ j < k
    BY <1>5
  <2> QED
    BY <1>3, <2>1, SoundInjective
<1>7. n <= BlockSize * k /\ offset \in 0 .. BlockSize - 1 /\ n = BlockSize * (k - 1) + offset
  <2>1. n \in Nat /\ n % BlockSize # 0 /\ offset = n % BlockSize
    BY <1>3
  <2> HIDE DEF n
  <2> QED
    BY <2>1, LastPartly DEF k
<1>8. data \in Seq(Cell) /\ Len(data) = n
  <2> HIDE DEF n, b
  <2>1. getContents(f, b, n) \in Seq(Cell)
    BY <1>2, <1>3, ReadCells
  <2>2. Len(getContents(f, b, n)) = n
    BY <1>3 DEF getContents
  <2> QED
    BY <2>1, <2>2 DEF n, b, Held
<1>9. Filled(f.disk, c, k, data, n)
  <2> HIDE DEF n, b, k
  <2>1. Filled(f.disk, Nth(f.blocks, b), k, getContents(f, b, n), n)
    BY <1>3, <1>7, ReadFills
  <2> QED
    BY <2>1 DEF n, b, Held
<1>10. both \in Seq(Cell) /\ Len(both) = n + Len(bytes) /\ Len(bytes) \in Nat
  <2> HIDE DEF data, n
  <2>1. Len(bytes) \in Nat
    OBVIOUS
  <2> QED
    BY <1>8, <2>1, BothCells
<1> HIDE DEF e, b, n, k, c, last, data
<1>11. Filled(g.disk, c, k, both, Len(both))
  BY <1>4, <1>5, <1>6, <1>7, <1>8, <1>9, FilledOn
<1> HIDE DEF both
<1>12. Len(both) <= BlockSize * k
  BY <1>5, <1>7, <1>10, LastFits
<1>13. Reads(g, b, both)
  <2>1. Follows(g.blocks, b, c, k)
    BY DEF c, Follows
  <2>2. Sound(g.blocks, b, k)
    BY <1>3
  <2> QED
    BY <1>10, <1>11, <1>12, <2>1, <2>2, FilledReads
<1>14. Same(f, g, Elsewhere(f.blocks, Chain(f.blocks, b)))
  <2>1. last \in Chain(f.blocks, b)
    BY <1>4, <1>5
  <2> QED
    BY <1>4, <2>1 DEF Same, Elsewhere, PutInto
<1> QED
  BY <1>3, <1>10, <1>13, <1>14 DEF both, data, b, e, dir, n


\* A file that is appended to, within its last block, holds what was written
\* behind what it held.
LEMMA WithinHeld ==
    ASSUME NEW f, NEW d, Good(f, d), NEW name, Found(f, name), MayWrite(Entry(f, name)),
           NEW bytes \in Seq(Cell),
           ~(f.freeBlocks < NeededBlocks(f, name, Len(bytes), TRUE)),
           Entry(f, name).size % BlockSize # 0,
           (Entry(f, name).size % BlockSize) + Len(bytes) <= BlockSize
    PROVE  ChangesHeld(writeFile(f, name, bytes, TRUE), f, name, Held(f, Entry(f, name)) \o bytes)
<1> DEFINE dir == f.dir
           i == getDirEntryNode(f, name)
           old == Entry(f, name)
           blocks == f.blocks
           disk == f.disk
           start == LastBlock(blocks, old.firstBlock)
           offset == old.size % BlockSize
           w == WriteCells(blocks, disk, start, offset, bytes)
           e == [old EXCEPT !.size = @ + Len(bytes)]
           need == NeededBlocks(f, name, Len(bytes), TRUE)
           k == bytesToBlocks(old.size)
           g == [blocks |-> w.blocks, disk |-> w.disk, freeBlocks |-> f.freeBlocks - need,
                 dir |-> [dir EXCEPT ![i] = e]]
           both == Held(f, old) \o bytes
<1>1. f \in FatState /\ d \in Nat /\ Laid(blocks, 0 .. Len(dir), Heads(dir), Depths(dir, d))
  BY DEF Good
<1>2. blocks \in Table /\ dir \in Seq(dirEntry) /\ disk \in Region
  BY <1>1 DEF FatState
<1>3. Len(dir) \in Nat /\ Len(bytes) \in Nat
  BY <1>2
<1>4. i \in 1 .. Len(dir) /\ old = dir[i] /\ old \in dirEntry /\ old.name = name
  BY <1>2, FoundFacts
<1>5. old.size \in Nat /\ offset \in 0 .. BlockSize - 1 /\ old.size # 0 /\ offset # 0
  <2>1. old.size \in Nat
    BY <1>4 DEF dirEntry
  <2>2. 0 % BlockSize = 0
    BY SizeAssumption
  <2> QED
    BY <2>1, <2>2, DivFacts
<1>6. writeFile(f, name, bytes, TRUE) = Done(g)
  BY <1>5, Zenon DEF writeFile
<1>7. /\ i \in 0 .. Len(dir) /\ Heads(dir)[i] = old.firstBlock
      /\ Sound(blocks, old.firstBlock, k)
  <2>1. Laid(blocks, 0 .. Len(dir), Heads(dir), Depths(dir, d)) /\ d \in Nat
    BY <1>1
  <2>2. old.size # 0
    BY <1>5
  <2> HIDE DEF dir, i, old, blocks
  <2> QED
    BY <1>2, <1>4, <2>1, <2>2, EntryFacts
<1>8. start \in Block /\ blocks[start] = End
  <2> HIDE DEF blocks, old, k
  <2>1. start = Nth(blocks, old.firstBlock)[k]
    BY <1>7, LastBlockLemma
  <2>2. k \in 1 .. k /\ \A j \in 1 .. k : Nth(blocks, old.firstBlock)[j] \in Block
    BY <1>7, SoundFacts
  <2>3. blocks[Nth(blocks, old.firstBlock)[k]] = End
    BY <1>7, SoundFacts
  <2> QED
    BY <2>1, <2>2, <2>3
<1>9. offset + Len(bytes) <= BlockSize
  OBVIOUS
<1>10. e \in dirEntry /\ e.name = name /\ e.size = old.size + Len(bytes)
       /\ e.firstBlock = old.firstBlock /\ e.perm = old.perm
  <2> DEFINE n == Len(bytes)
  <2>1. n \in Nat
    BY <1>3
  <2>2. old \in dirEntry
    BY <1>4
  <2>3. e = [old EXCEPT !.size = @ + n]
    OBVIOUS
  <2> HIDE DEF old, n, e
  <2>4. e \in dirEntry /\ e.name = old.name /\ e.size = old.size + n
        /\ e.firstBlock = old.firstBlock /\ e.perm = old.perm
    BY <2>1, <2>2, <2>3, GrownEntry
  <2> QED
    BY <1>4, <2>4 DEF n
<1>11. g.blocks = w.blocks /\ g.disk = w.disk /\ g.dir = [dir EXCEPT ![i] = e]
  OBVIOUS
<1> HIDE DEF need, start, offset, e, g
<1>12. w.blocks = blocks /\ PutInto(w.disk, disk, start, offset, bytes)
  <2>1. LET base == (start - 1) * BlockSize + offset IN
        /\ bytes = <<>> => w.blocks = blocks
        /\ bytes # <<>> => w.blocks = [blocks EXCEPT ![start] = End]
        /\ w.disk \in Region
        /\ Put(w.disk, disk, base, bytes)
    BY <1>2, <1>5, <1>8, <1>9, WriteFits
  <2>2. [blocks EXCEPT ![start] = End] = blocks
    BY <1>2, <1>8 DEF Table
  <2>3. Put(w.disk, disk, At(start, offset), bytes)
    BY <2>1 DEF At
  <2>4. w.blocks = blocks
    BY <2>1, <2>2
  <2> DEFINE new == w.disk
  <2>5. Put(new, disk, At(start, offset), bytes)
    BY <2>3
  <2> HIDE DEF new, disk, w
  <2>6. PutInto(new, disk, start, offset, bytes)
    BY <1>5, <1>8, <1>9, <2>5, PutCells
  <2> QED
    BY <2>4, <2>6 DEF new
<1> HIDE DEF w
<1>13. /\ Same(f, g, Elsewhere(f.blocks, Chain(f.blocks, Heads(f.dir)[i])))
       /\ Reads(g, f.dir[i].firstBlock, Held(f, f.dir[i]) \o bytes)
       /\ Len(Held(f, f.dir[i]) \o bytes) = f.dir[i].size + Len(bytes)
  <2>1. /\ i \in 1 .. Len(f.dir) /\ f.dir[i].size # 0 /\ offset = f.dir[i].size % BlockSize
        /\ offset # 0 /\ g.blocks = f.blocks
        /\ PutInto(g.disk, f.disk, LastBlock(f.blocks, f.dir[i].firstBlock), offset, bytes)
    BY <1>4, <1>5, <1>11, <1>12 DEF offset, start
  <2> HIDE DEF i
  <2> QED
    BY <1>9, <2>1, WithinRead
<1> HIDE DEF old, i, dir
<1>14. Held(g, e) = both
  BY <1>4, <1>10, <1>13 DEF Held, Reads, dir
<1>15. \A j \in 1 .. Len(dir) : j # i => Held(g, dir[j]) = Held(f, dir[j])
  BY <1>7, <1>13, OthersHeld DEF Elsewhere, dir
<1> HIDE DEF both
<1>16. /\ writeFile(f, name, bytes, TRUE) = Done(g)
       /\ g.dir = Replaced(f.dir, getDirEntryNode(f, name), e)
       /\ e \in dirEntry /\ e.name = name /\ e.perm = Entry(f, name).perm /\ Held(g, e) = both
       /\ \A j \in 1 .. Len(f.dir) :
            j # getDirEntryNode(f, name) => Held(g, f.dir[j]) = Held(f, f.dir[j])
  BY <1>6, <1>10, <1>11, <1>14, <1>15 DEF Replaced, dir, i, old
<1> QED
  BY <1>16 DEF ChangesHeld, both, old


\* What blocks hold that are filled, and what is in those behind them.
LEMMA FilledBehind ==
    ASSUME NEW new, NEW k \in Nat, NEW m \in Nat, NEW a, NEW c,
           NEW data \in Seq(Cell), NEW bytes \in Seq(Cell), Len(data) = BlockSize * k,
           Filled(new, a, k, data, Len(data)), Filled(new, c, m, bytes, Len(bytes))
    PROVE  Filled(new, Joined(a, k, c, m), k + m, data \o bytes, Len(data \o bytes))
<1> DEFINE n == Len(data)
           L == Len(bytes)
           both == data \o bytes
           p == Joined(a, k, c, m)
           y == BlockSize * k
<1>1. BlockSize \in Nat \ {0} /\ n \in Nat /\ L \in Nat /\ y \in Nat /\ n = y
  <2>1. n \in Nat /\ L \in Nat
    OBVIOUS
  <2> QED
    BY <2>1, SizeFacts
<1>2. /\ Len(both) = n + L
      /\ \A i \in 1 .. n : both[i] = data[i]
      /\ \A i \in 1 .. L : both[n + i] = bytes[i]
  BY BothCells
<1> HIDE DEF both
<1> SUFFICES ASSUME NEW j \in 1 .. k + m, NEW r \in 0 .. BlockSize - 1,
                    BlockSize * (j - 1) + r < n + L
             PROVE  new[At(p[j], r)] = both[BlockSize * (j - 1) + r + 1]
  BY <1>2 DEF Filled, both
<1>3. p[j] = IF j <= k THEN a[j] ELSE c[j - k]
  BY DEF Joined
<1> DEFINE x == BlockSize * (j - 1)
<1>4. x \in Nat /\ x + r < n + L
  BY <1>1
<1>5. CASE j <= k
  <2>1. x + BlockSize <= y
    <3>1. PICK z \in Nat : k = j + z
      <4>1. k - j \in Nat /\ k = j + (k - j)
        BY <1>5
      <4> QED
        BY <4>1
    <3>2. BlockSize * (j + z) = BlockSize * (j - 1) + BlockSize + BlockSize * z
      BY <1>1, <3>1
    <3>3. BlockSize * z \in Nat
      BY <1>1
    <3> QED
      BY <1>1, <1>4, <3>1, <3>2, <3>3
  <2>2. j \in 1 .. k
    BY <1>5
  <2>3. x + r < n => new[At(a[j], r)] = data[x + r + 1]
    BY <2>2 DEF Filled
  <2> HIDE DEF x, y, n, L
  <2>4. x + r < n /\ x + r + 1 \in 1 .. n
    BY <1>1, <1>4, <2>1
  <2> QED
    BY <1>2, <1>3, <1>5, <2>3, <2>4 DEF x
<1>6. CASE ~(j <= k)
  <2> DEFINE q == j - k
             z == BlockSize * (q - 1)
  <2>1. q \in 1 .. m /\ x = y + z /\ z \in Nat
    <3>1. q \in 1 .. m /\ q - 1 \in Nat
      BY <1>6
    <3>2. BlockSize * (k + (q - 1)) = BlockSize * k + BlockSize * (q - 1) /\ j - 1 = k + (q - 1)
      BY <1>1, <3>1
    <3> QED
      BY <1>1, <3>1, <3>2
  <2>2. z + r < L => new[At(c[q], r)] = bytes[z + r + 1]
    BY <2>1 DEF Filled
  <2>3. p[j] = c[q]
    BY <1>3, <1>6
  <2> HIDE DEF x, y, n, L, z, q, p
  <2>4. z + r < L /\ z + r + 1 \in 1 .. L /\ n + (z + r + 1) = x + r + 1
    BY <1>1, <1>4, <2>1
  <2>5. both[n + (z + r + 1)] = bytes[z + r + 1]
    BY <1>2, <2>4
  <2> QED
    BY <2>2, <2>3, <2>4, <2>5 DEF x, p
<1> QED
  BY <1>5, <1>6

\* A file that fills its last block, and what is put behind it.
LEMMA LastFull ==
    ASSUME NEW n \in Nat, n % BlockSize = 0
    PROVE  n = BlockSize * bytesToBlocks(n)
<1> DEFINE q == n \div BlockSize
           x == BlockSize * q
<1>1. q \in Nat /\ n = x
  <2> DEFINE r == n % BlockSize
  <2>1. q \in Nat /\ r \in 0 .. BlockSize - 1 /\ n = x + r /\ r = 0
    BY DivFacts
  <2>2. BlockSize \in Nat
    BY SizeFacts
  <2> HIDE DEF q, r
  <2>3. x \in Nat
    BY <2>1, <2>2
  <2> HIDE DEF x
  <2> QED
    BY <2>1, <2>3
<1>2. BlockSize \in Nat \ {0}
  BY SizeFacts
<1> HIDE DEF x
<1>3. n <= x /\ x < n + BlockSize
  BY <1>1, <1>2
<1> HIDE DEF q
<1>4. bytesToBlocks(n) = q
  BY <1>1, <1>3, BlocksUnique DEF x
<1> QED
  BY <1>1, <1>4 DEF x

\* The blocks that are filled do not hold less than is written.
LEMMA FullFits ==
    ASSUME NEW k \in Nat, NEW m \in Nat, NEW n, n = BlockSize * k, NEW l \in Nat, l <= BlockSize * m
    PROVE  n + l <= BlockSize * (k + m)
<1> DEFINE x == BlockSize * k
           y == BlockSize * m
           z == BlockSize * (k + m)
<1>1. BlockSize \in Nat \ {0}
  BY SizeFacts
<1>2. x \in Nat /\ y \in Nat /\ z = x + y /\ n = x /\ l <= y
  BY <1>1
<1> HIDE DEF x, y, z
<1>3. n + l <= z
  BY <1>2
<1> QED
  BY <1>3 DEF z

\* Appending to a file that fills its last block leaves the new cells behind
\* what was there.
LEMMA BehindRead ==
    ASSUME NEW f, NEW d, Good(f, d), NEW i \in 1 .. Len(f.dir), NEW bytes \in Seq(Cell),
           f.dir[i].size # 0, f.dir[i].size % BlockSize = 0,
           NEW g, NEW c, NEW m, Len(bytes) <= BlockSize * m,
           Linked(Extended(f.blocks, f.dir[i].firstBlock, bytesToBlocks(f.dir[i].size), c[1]),
                  g.blocks, c, m),
           Filled(g.disk, c, m, bytes, Len(bytes)),
           Confined(g.disk, f.disk, BlocksOf(c, m))
    PROVE  /\ Same(f, g, Elsewhere(f.blocks, Chain(f.blocks, Heads(f.dir)[i])))
           /\ Reads(g, f.dir[i].firstBlock, Held(f, f.dir[i]) \o bytes)
           /\ Len(Held(f, f.dir[i]) \o bytes) = f.dir[i].size + Len(bytes)
<1> DEFINE dir == f.dir
           e == dir[i]
           b == e.firstBlock
           n == e.size
           k == bytesToBlocks(n)
           a == Nth(f.blocks, b)
           data == Held(f, e)
           both == data \o bytes
           I == 0 .. Len(dir)
           H == Heads(dir)
           K == Depths(dir, d)
           old == Extended(f.blocks, b, k, c[1])
           new == g.blocks
           own == Chain(f.blocks, b)
<1>1. f \in FatState /\ d \in Nat /\ Laid(f.blocks, I, H, K)
  BY DEF Good
<1>2. f.blocks \in Table /\ dir \in Seq(dirEntry) /\ f.disk \in Region
  BY <1>1 DEF FatState
<1>3. /\ n \in Nat /\ n # 0 /\ Sound(f.blocks, b, k) /\ H[i] = b /\ K[i] = k /\ k # 0
      /\ i \in I
  BY <1>1, <1>2, EntryFacts
<1>4. k \in Nat \ {0} /\ (\A j \in 1 .. k : a[j] \in own) /\ a[k] \in own
      /\ own \subseteq Block \ FreeOf(f.blocks)
  <2>1. k \in Nat \ {0} /\ (\A j \in 1 .. k : a[j] \in own) /\ k \in 1 .. k
    <3> HIDE DEF b, k
    <3> QED
      BY <1>3, SoundFacts
  <2>2. own \subseteq Block \ FreeOf(f.blocks)
    <3> HIDE DEF b, I, H, K
    <3> QED
      BY <1>1, <1>3, OwnedFacts
  <2> QED
    BY <2>1, <2>2
<1>5. n = BlockSize * k
  <2>1. n \in Nat /\ n % BlockSize = 0
    BY <1>3
  <2> HIDE DEF n
  <2> QED
    BY <2>1, LastFull DEF k
<1>6. data \in Seq(Cell) /\ Len(data) = n /\ Filled(f.disk, a, k, data, n)
  <2>1. n <= BlockSize * k
    BY <1>3, BlocksHold
  <2> HIDE DEF n, b, k
  <2>2. getContents(f, b, n) \in Seq(Cell)
    BY <1>2, <1>3, ReadCells
  <2>3. Len(getContents(f, b, n)) = n
    BY <1>3 DEF getContents
  <2>4. Filled(f.disk, Nth(f.blocks, b), k, getContents(f, b, n), n)
    BY <1>3, <2>1, ReadFills
  <2> QED
    BY <2>2, <2>3, <2>4 DEF n, b, Held
<1>7. both \in Seq(Cell) /\ Len(both) = n + Len(bytes) /\ Len(bytes) \in Nat
  <2> HIDE DEF data, n
  <2>1. Len(bytes) \in Nat
    OBVIOUS
  <2> QED
    BY <1>6, <2>1, BothCells
<1>8. Linked(old, new, c, m) /\ old = Extended(f.blocks, H[i], K[i], c[1])
  <2> HIDE DEF k, H, K, b
  <2>1. old = Extended(f.blocks, H[i], K[i], c[1])
    BY <1>3
  <2> QED
    BY <2>1 DEF b, k
<1>9. m \in Nat \ {0} /\ c \in [1 .. m -> FreeOf(old)] /\ \A x \in Block \ BlocksOf(c, m) : new[x] = old[x]
  <2> HIDE DEF old, new
  <2> QED
    BY <1>8 DEF Linked, BlocksOf
<1>10. \A x \in Block : old[x] = IF x = a[k] THEN c[1] ELSE f.blocks[x]
  BY <1>2, SizeFacts DEF Extended, Table
<1> HIDE DEF e, b, n, k, a, data, old, new, H, K, I, own, both
<1>11. BlocksOf(c, m) \subseteq FreeOf(f.blocks)
  <2> SUFFICES ASSUME NEW j \in 1 .. m PROVE c[j] \in FreeOf(f.blocks)
    BY DEF BlocksOf
  <2>1. c[1] \in Block /\ c[j] \in Block /\ old[c[j]] = Free
    BY <1>9 DEF FreeOf
  <2>2. c[1] # Free
    BY <2>1, SizeFacts
  <2> QED
    BY <1>10, <2>1, <2>2 DEF FreeOf
<1>12. \A j \in 1 .. k, r \in 0 .. BlockSize - 1 : g.disk[At(a[j], r)] = f.disk[At(a[j], r)]
  BY <1>4, <1>11 DEF Confined
<1>13. Filled(g.disk, a, k, data, Len(data))
  BY <1>6, <1>12 DEF Filled
<1>14. Filled(g.disk, Joined(a, k, c, m), k + m, both, Len(both))
  <2>1. Len(data) = BlockSize * k /\ k \in Nat /\ m \in Nat
    BY <1>4, <1>5, <1>6, <1>9
  <2> QED
    BY <1>6, <1>13, <2>1, FilledBehind DEF both
<1>15. Sound(new, b, k + m) /\ Follows(new, b, Joined(a, k, c, m), k + m)
  <2>1. /\ Laid(new, I, H, More(K, i, m))
        /\ Follows(new, H[i], Joined(Nth(f.blocks, H[i]), K[i], c, m), K[i] + m)
    <3> DEFINE blocks == f.blocks
    <3>1. Laid(blocks, I, H, K) /\ i \in I /\ K[i] # 0 /\ old = Extended(blocks, H[i], K[i], c[1])
          /\ Linked(old, new, c, m)
      BY <1>1, <1>3, <1>8
    <3> HIDE DEF blocks
    <3>2. /\ Laid(new, I, H, More(K, i, m))
          /\ Follows(new, H[i], Joined(Nth(blocks, H[i]), K[i], c, m), K[i] + m)
      BY <3>1, LaidExtend
    <3> QED
      BY <3>2 DEF blocks
  <2>2. More(K, i, m)[i] = k + m
    BY <1>1, <1>3 DEF More, Laid
  <2>3. k + m # 0
    BY <1>4, <1>9
  <2>4. IF More(K, i, m)[i] = 0 THEN H[i] = 0 ELSE Sound(new, H[i], More(K, i, m)[i])
    BY <1>3, <2>1 DEF Laid
  <2> QED
    BY <1>3, <2>1, <2>2, <2>3, <2>4 DEF a
<1>16. Len(both) <= BlockSize * (k + m)
  <2>1. k \in Nat /\ m \in Nat
    BY <1>4, <1>9
  <2> DEFINE l == Len(bytes)
  <2>2. l \in Nat /\ l <= BlockSize * m
    BY <1>7
  <2> HIDE DEF l
  <2>3. n + l <= BlockSize * (k + m)
    BY <1>5, <2>1, <2>2, FullFits
  <2> QED
    BY <1>7, <2>3 DEF l
<1>17. Reads(g, b, both)
  <2> DEFINE p == Joined(a, k, c, m)
             q == k + m
  <2>1. Sound(g.blocks, b, q) /\ Follows(g.blocks, b, p, q) /\ Len(both) <= BlockSize * q
        /\ Filled(g.disk, p, q, both, Len(both))
    BY <1>14, <1>15, <1>16 DEF new
  <2> HIDE DEF p, q
  <2> QED
    BY <1>7, <2>1, FilledReads
<1>18. Same(f, g, Elsewhere(f.blocks, own))
  <2> SUFFICES ASSUME NEW x \in Elsewhere(f.blocks, own)
               PROVE  /\ g.blocks[x] = f.blocks[x]
                      /\ \A r \in 0 .. BlockSize - 1 : g.disk[At(x, r)] = f.disk[At(x, r)]
    BY DEF Same
  <2>1. x \in Block /\ x \notin BlocksOf(c, m) /\ x # a[k]
    BY <1>4, <1>11 DEF Elsewhere
  <2> QED
    BY <1>9, <1>10, <2>1 DEF Confined, new
<1> QED
  BY <1>3, <1>7, <1>17, <1>18 DEF both, data, b, e, dir, n, own, H


\* A file that is appended to behind its last block, which is full, holds what
\* was written behind what it held.
LEMMA BehindHeld ==
    ASSUME NEW f, NEW d, Good(f, d), NEW name, Found(f, name), MayWrite(Entry(f, name)),
           NEW bytes \in Seq(Cell), bytes # <<>>,
           ~(f.freeBlocks < NeededBlocks(f, name, Len(bytes), TRUE)),
           Entry(f, name).size # 0, Entry(f, name).size % BlockSize = 0
    PROVE  ChangesHeld(writeFile(f, name, bytes, TRUE), f, name, Held(f, Entry(f, name)) \o bytes)
<1> DEFINE dir == f.dir
           i == getDirEntryNode(f, name)
           old == Entry(f, name)
           blocks == f.blocks
           disk == f.disk
           last == LastBlock(blocks, old.firstBlock)
           start == FirstFree(blocks, 1, 0)
           linked == [blocks EXCEPT ![last] = start]
           w == WriteCells(linked, disk, start, 0, bytes)
           e == [old EXCEPT !.size = @ + Len(bytes)]
           need == NeededBlocks(f, name, Len(bytes), TRUE)
           k == bytesToBlocks(old.size)
           m == bytesToBlocks(Len(bytes))
           g == [blocks |-> w.blocks, disk |-> w.disk, freeBlocks |-> f.freeBlocks - need,
                 dir |-> [dir EXCEPT ![i] = e]]
           both == Held(f, old) \o bytes
<1>1. /\ f \in FatState /\ d \in Nat
      /\ Laid(blocks, 0 .. Len(dir), Heads(dir), Depths(dir, d))
      /\ f.freeBlocks <= Cardinality(FreeOf(blocks))
  BY DEF Good
<1>2. blocks \in Table /\ dir \in Seq(dirEntry) /\ f.freeBlocks \in Nat /\ disk \in Region
  BY <1>1 DEF FatState
<1>3. Len(dir) \in Nat /\ Len(bytes) \in Nat /\ Len(bytes) # 0 /\ m \in Nat /\ m # 0
      /\ Len(bytes) <= BlockSize * m
  <2>1. Len(bytes) \in Nat /\ Len(bytes) # 0
    OBVIOUS
  <2> DEFINE n == Len(bytes)
  <2>2. n \in Nat /\ n # 0
    BY <2>1
  <2> HIDE DEF n
  <2>3. bytesToBlocks(n) \in Nat /\ bytesToBlocks(n) # 0 /\ n <= BlockSize * bytesToBlocks(n)
    BY <2>2, BlocksHold, BlocksArith
  <2> QED
    BY <1>2, <2>1, <2>3 DEF n
<1>4. i \in 1 .. Len(dir) /\ old = dir[i] /\ old \in dirEntry /\ old.name = name
  BY <1>2, FoundFacts
<1>5. writeFile(f, name, bytes, TRUE) = Done(g)
  BY Zenon DEF writeFile
<1>6. need = m /\ ~(f.freeBlocks < need)
  BY DEF NeededBlocks
<1>7. Sound(blocks, old.firstBlock, k) /\ i \in 0 .. Len(dir)
  <2>1. Laid(blocks, 0 .. Len(dir), Heads(dir), Depths(dir, d)) /\ d \in Nat
    BY <1>1
  <2>2. old.size # 0
    OBVIOUS
  <2> HIDE DEF dir, i, old, blocks
  <2> QED
    BY <1>2, <1>4, <2>1, <2>2, EntryFacts
<1>8. last = Nth(blocks, old.firstBlock)[k] /\ last \in Block /\ blocks[last] = End
  <2> HIDE DEF k, old, blocks
  <2>1. last = Nth(blocks, old.firstBlock)[k]
    BY <1>7, LastBlockLemma
  <2>2. k \in 1 .. k /\ \A j \in 1 .. k : Nth(blocks, old.firstBlock)[j] \in Block
    BY <1>7, SoundFacts
  <2>3. blocks[Nth(blocks, old.firstBlock)[k]] = End
    BY <1>7, SoundFacts
  <2> QED
    BY <2>1, <2>2, <2>3
<1>9. e \in dirEntry /\ e.name = name /\ e.size = old.size + Len(bytes)
      /\ e.firstBlock = old.firstBlock /\ e.perm = old.perm
  <2> DEFINE n == Len(bytes)
  <2>1. n \in Nat
    BY <1>3
  <2>2. old \in dirEntry
    BY <1>4
  <2>3. e = [old EXCEPT !.size = @ + n]
    OBVIOUS
  <2> HIDE DEF old, n, e
  <2>4. e \in dirEntry /\ e.name = old.name /\ e.size = old.size + n
        /\ e.firstBlock = old.firstBlock /\ e.perm = old.perm
    BY <2>1, <2>2, <2>3, GrownEntry
  <2> QED
    BY <1>4, <2>4 DEF n
<1>10. g.blocks = w.blocks /\ g.disk = w.disk /\ g.dir = [dir EXCEPT ![i] = e]
  OBVIOUS
<1> HIDE DEF need, blocks, disk, k, m, last, e, g
<1>11. Cardinality(FreeOf(blocks)) \in Nat /\ m <= Cardinality(FreeOf(blocks))
  BY <1>1, <1>2, <1>3, <1>6, FreeFinite
<1>12. start \in FreeOf(blocks) /\ \A b \in FreeOf(blocks) : start <= b
  <2>1. FreeOf(blocks) # {}
    <3>1. Cardinality(FreeOf(blocks)) # 0
      BY <1>3, <1>11
    <3> QED
      BY <3>1, FS_EmptySet
  <2>2. \E b \in 1 .. NumEntries - 1 : blocks[b] = Free
    BY <2>1, SizeFacts DEF FreeOf
  <2>3. 1 \in Nat \ {0}
    OBVIOUS
  <2>4. start \in FreeOf(blocks) /\ \A b \in FreeOf(blocks) : b >= 1 => start <= b
    BY <2>2, <2>3, FirstFreeLemma
  <2>5. \A b \in FreeOf(blocks) : b >= 1
    BY SizeFacts DEF FreeOf
  <2> QED
    BY <2>4, <2>5
<1> HIDE DEF start
<1>13. start \in Block /\ start # Free /\ End # Free /\ start \in 0 .. Meta
  BY <1>12, SizeFacts DEF FreeOf
<1>14. linked \in Table /\ FreeOf(linked) = FreeOf(blocks)
  <2>1. linked \in Table
    BY <1>2, <1>13, SizeFacts DEF Table
  <2>2. \A b \in Block : linked[b] = IF b = last THEN start ELSE blocks[b]
    BY <1>2, SizeFacts DEF Table
  <2>3. \A b \in Block : linked[b] = Free <=> blocks[b] = Free
    BY <1>8, <1>13, <2>2
  <2> HIDE DEF linked
  <2> QED
    BY <2>1, <2>3 DEF FreeOf
<1> HIDE DEF linked, old, i, dir
<1>15. PICK c : /\ Linked(linked, w.blocks, c, m)
                /\ c[1] = start
                /\ Filled(w.disk, c, m, bytes, Len(bytes))
                /\ Confined(w.disk, disk, BlocksOf(c, m))
  <2>1. /\ start \in FreeOf(linked) /\ \A b \in FreeOf(linked) : start <= b
        /\ bytesToBlocks(Len(bytes)) <= Cardinality(FreeOf(linked))
    BY <1>11, <1>12, <1>14 DEF m
  <2>2. \E c : /\ Linked(linked, w.blocks, c, bytesToBlocks(Len(bytes)))
               /\ c[1] = start
               /\ Filled(w.disk, c, bytesToBlocks(Len(bytes)), bytes, Len(bytes))
               /\ Confined(w.disk, disk, BlocksOf(c, bytesToBlocks(Len(bytes))))
    BY <1>2, <1>14, <2>1, WriteFills
  <2> HIDE DEF w
  <2> QED
    BY <2>2 DEF m
<1> HIDE DEF w
<1>16. linked = Extended(f.blocks, old.firstBlock, k, c[1])
  BY <1>8, <1>15 DEF linked, Extended, blocks
<1>17. /\ Same(f, g, Elsewhere(f.blocks, Chain(f.blocks, Heads(f.dir)[i])))
       /\ Reads(g, f.dir[i].firstBlock, Held(f, f.dir[i]) \o bytes)
       /\ Len(Held(f, f.dir[i]) \o bytes) = f.dir[i].size + Len(bytes)
  <2>1. /\ i \in 1 .. Len(f.dir) /\ f.dir[i].size # 0 /\ f.dir[i].size % BlockSize = 0
        /\ Len(bytes) <= BlockSize * m
        /\ Linked(Extended(f.blocks, f.dir[i].firstBlock, bytesToBlocks(f.dir[i].size), c[1]),
                  g.blocks, c, m)
        /\ Filled(g.disk, c, m, bytes, Len(bytes))
        /\ Confined(g.disk, f.disk, BlocksOf(c, m))
    <3>1. old = f.dir[i] /\ i \in 1 .. Len(f.dir) /\ old.size # 0 /\ old.size % BlockSize = 0
      BY <1>4 DEF dir, old
    <3> QED
      BY <1>3, <1>10, <1>15, <1>16, <3>1 DEF k, disk
  <2> QED
    BY <2>1, BehindRead
<1>18. Held(g, e) = both
  BY <1>4, <1>9, <1>17 DEF Held, Reads, dir
<1>19. \A j \in 1 .. Len(dir) : j # i => Held(g, dir[j]) = Held(f, dir[j])
  BY <1>7, <1>17, OthersHeld DEF Elsewhere, dir
<1> HIDE DEF both
<1>20. /\ writeFile(f, name, bytes, TRUE) = Done(g)
       /\ g.dir = Replaced(f.dir, getDirEntryNode(f, name), e)
       /\ e \in dirEntry /\ e.name = name /\ e.perm = Entry(f, name).perm /\ Held(g, e) = both
       /\ \A j \in 1 .. Len(f.dir) :
            j # getDirEntryNode(f, name) => Held(g, f.dir[j]) = Held(f, f.dir[j])
  BY <1>5, <1>9, <1>10, <1>18, <1>19 DEF Replaced, dir, i, old
<1> QED
  BY <1>20 DEF ChangesHeld, both, old


\* A file that is empty stays so when nothing is appended to it.
LEMMA NothingHeld ==
    ASSUME NEW f, NEW d, Good(f, d), NEW name, Found(f, name), MayWrite(Entry(f, name)),
           Entry(f, name).size = 0,
           ~(f.freeBlocks < NeededBlocks(f, name, Len(<<>>), TRUE))
    PROVE  ChangesHeld(writeFile(f, name, <<>>, TRUE), f, name, Held(f, Entry(f, name)) \o <<>>)
<1> DEFINE dir == f.dir
           i == getDirEntryNode(f, name)
           old == Entry(f, name)
           blocks == f.blocks
           disk == f.disk
           start == FirstFree(blocks, 1, 1)
           bytes == <<>>
           w == WriteCells(blocks, disk, start, 0, bytes)
           v == WriteLoop(blocks, disk, start, 0, bytes)
           e == [old EXCEPT !.size = @ + Len(bytes)]
           need == NeededBlocks(f, name, Len(bytes), TRUE)
           g == [blocks |-> w.blocks, disk |-> w.disk, freeBlocks |-> f.freeBlocks - need,
                 dir |-> [dir EXCEPT ![i] = e]]
<1>1. f \in FatState
  BY DEF Good
<1>2. blocks \in Table /\ dir \in Seq(dirEntry) /\ disk \in Region
  BY <1>1 DEF FatState
<1>3. i \in 1 .. Len(dir) /\ old = dir[i] /\ old \in dirEntry /\ old.name = name /\ old.size = 0
  BY <1>2, FoundFacts
<1>4. writeFile(f, name, bytes, TRUE) = Done(g)
  BY Zenon DEF writeFile
<1>5. bytes = <<>> /\ Len(bytes) = 0
  OBVIOUS
<1>55. bytes \in Seq(Cell)
  OBVIOUS
<1>6. w.blocks = blocks /\ w.disk = disk
  <2>1. start \in Nat /\ 0 \in Nat
    BY FirstFreeStart, SizeFacts
  <2> HIDE DEF start, bytes, blocks, disk
  <2>2. w = v[0]
    BY <1>2, <1>5, <1>55, <2>1, NothingWritten
  <2>3. /\ v[0] = [blocks |-> blocks, disk |-> disk, currIndex |-> start, byteIdx |-> 0,
                   position |-> (start - 1) * BlockSize + 0]
        /\ \A j \in 0 .. Len(bytes) - 1 : v[j + 1] = WriteCell(0, v[j], bytes[j + 1])
    BY <1>55, LoopSteps
  <2> HIDE DEF v, w
  <2> QED
    BY <2>2, <2>3
<1>7. e \in dirEntry /\ e.name = name /\ e.size = 0 /\ e.firstBlock = old.firstBlock
      /\ e.perm = old.perm
  <2> DEFINE n == Len(bytes)
  <2>1. n \in Nat /\ n = 0 /\ old \in dirEntry /\ e = [old EXCEPT !.size = @ + n]
    BY <1>3, <1>5
  <2> HIDE DEF old, n, e
  <2>2. e \in dirEntry /\ e.name = old.name /\ e.size = old.size + n
        /\ e.firstBlock = old.firstBlock /\ e.perm = old.perm
    BY <2>1, GrownEntry
  <2> QED
    BY <1>3, <2>1, <2>2
<1>8. g.blocks = w.blocks /\ g.disk = w.disk /\ g.dir = [dir EXCEPT ![i] = e]
  OBVIOUS
<1> HIDE DEF need, start, e, g, w, i
<1>9. Held(g, e) = Held(f, old) \o bytes
  <2>1. Held(g, e) = <<>> /\ Held(f, old) = <<>>
    BY <1>3, <1>7, EmptyHeld DEF Held
  <2> QED
    BY <1>5, <2>1
<1>10. \A j \in 1 .. Len(dir) : Held(g, dir[j]) = Held(f, dir[j])
  BY <1>6, <1>8, ReadAlike DEF Held
<1> HIDE DEF bytes, old
<1>11. /\ writeFile(f, name, bytes, TRUE) = Done(g)
       /\ g.dir = Replaced(f.dir, getDirEntryNode(f, name), e)
       /\ e \in dirEntry /\ e.name = name /\ e.perm = Entry(f, name).perm
       /\ Held(g, e) = Held(f, old) \o bytes
       /\ \A j \in 1 .. Len(f.dir) :
            j # getDirEntryNode(f, name) => Held(g, f.dir[j]) = Held(f, f.dir[j])
  BY <1>4, <1>7, <1>8, <1>9, <1>10 DEF Replaced, dir, i, old
<1>12. ChangesHeld(writeFile(f, name, bytes, TRUE), f, name, Held(f, old) \o bytes)
  BY <1>11 DEF ChangesHeld
<1> QED
  BY <1>12 DEF bytes, old
-----------------------------------------------------------------------------
(* What the users see. *)

\* A file as its users see it.
FileOf(f, e) == [data |-> Held(f, e), perm |-> e.perm]

\* There is one for each entry.
LEMMA FilesAre ==
    ASSUME NEW f, f.dir \in Seq(dirEntry), Unique(f.dir)
    PROVE  /\ DOMAIN FilesOf(f) = {f.dir[j].name : j \in 1 .. Len(f.dir)}
           /\ \A j \in 1 .. Len(f.dir) : FilesOf(f)[f.dir[j].name] = FileOf(f, f.dir[j])
           /\ FilesOf(f) = [name \in DOMAIN FilesOf(f) |-> FilesOf(f)[name]]
<1> DEFINE D == {f.dir[j].name : j \in 1 .. Len(f.dir)}
           file(name) == [data |-> readFile(f, name), perm |-> Entry(f, name).perm]
<1>1. DOMAIN f.dir = 1 .. Len(f.dir)
  OBVIOUS
<1>2. FilesOf(f) = [name \in D |-> file(name)]
  BY <1>1, Zenon DEF FilesOf
<1> HIDE DEF file
<1>3. ASSUME NEW j \in 1 .. Len(f.dir)
      PROVE  FilesOf(f)[f.dir[j].name] = FileOf(f, f.dir[j])
  <2> DEFINE name == f.dir[j].name
  <2>1. Entry(f, name) = f.dir[j]
    BY FindsEntry
  <2>2. FilesOf(f)[name] = file(name)
    <3>1. name \in D
      OBVIOUS
    <3> HIDE DEF D, name
    <3> QED
      BY <1>2, <3>1
  <2> HIDE DEF name
  <2>3. file(name) = FileOf(f, f.dir[j])
    BY <2>1 DEF file, FileOf, readFile, Held
  <2> QED
    BY <2>2, <2>3 DEF name
<1> QED
  BY <1>2, <1>3

\* The files of h are those of f, but for one of this name that holds data.
Puts(f, h, name, data) ==
    /\ DOMAIN FilesOf(h) = DOMAIN FilesOf(f) \cup {name}
    /\ FilesOf(h)[name] =
         [data |-> data,
          perm |-> IF name \in DOMAIN FilesOf(f) THEN FilesOf(f)[name].perm ELSE READWRITE_PERMS]
    /\ \A other \in DOMAIN FilesOf(f) \ {name} : FilesOf(h)[other] = FilesOf(f)[other]

\* A file that is found is one of them.
LEMMA FoundFile ==
    ASSUME NEW f, f.dir \in Seq(dirEntry), Unique(f.dir), NEW name
    PROVE  /\ Found(f, name) <=> name \in DOMAIN FilesOf(f)
           /\ Found(f, name) => FilesOf(f)[name] = FileOf(f, Entry(f, name))
<1>1. DOMAIN FilesOf(f) = {f.dir[j].name : j \in 1 .. Len(f.dir)}
  BY FilesAre
<1>2. ASSUME Found(f, name)
      PROVE  name \in DOMAIN FilesOf(f) /\ FilesOf(f)[name] = FileOf(f, Entry(f, name))
  <2> DEFINE j == getDirEntryNode(f, name)
  <2>1. j \in 1 .. Len(f.dir) /\ Entry(f, name) = f.dir[j] /\ f.dir[j].name = name
    BY <1>2, FoundFacts
  <2> HIDE DEF j
  <2>2. FilesOf(f)[f.dir[j].name] = FileOf(f, f.dir[j])
    BY <2>1, FilesAre
  <2> QED
    BY <1>1, <2>1, <2>2
<1>3. ASSUME name \in DOMAIN FilesOf(f)
      PROVE  Found(f, name)
  BY <1>1, <1>3, FindsEntry
<1> QED
  BY <1>2, <1>3

\* A new file.
LEMMA AddsPuts ==
    ASSUME NEW f, f.dir \in Seq(dirEntry), Unique(f.dir), NEW name, ~Found(f, name),
           NEW g, NEW e \in dirEntry, g.dir = Append(f.dir, e), Unique(g.dir), e.name = name,
           e.perm = READWRITE_PERMS, NEW data, Held(g, e) = data,
           \A j \in 1 .. Len(f.dir) : Held(g, f.dir[j]) = Held(f, f.dir[j])
    PROVE  Puts(f, g, name, data)
<1> DEFINE n == Len(f.dir)
<1>1. n \in Nat /\ g.dir \in Seq(dirEntry) /\ Len(g.dir) = n + 1 /\ g.dir[n + 1] = e
      /\ \A j \in 1 .. n : g.dir[j] = f.dir[j]
  OBVIOUS
<1> HIDE DEF n
<1>2. /\ DOMAIN FilesOf(f) = {f.dir[j].name : j \in 1 .. n}
      /\ \A j \in 1 .. n : FilesOf(f)[f.dir[j].name] = FileOf(f, f.dir[j])
  BY FilesAre DEF n
<1>3. /\ DOMAIN FilesOf(g) = {g.dir[j].name : j \in 1 .. n + 1}
      /\ \A j \in 1 .. n + 1 : FilesOf(g)[g.dir[j].name] = FileOf(g, g.dir[j])
  <2>1. /\ DOMAIN FilesOf(g) = {g.dir[j].name : j \in 1 .. Len(g.dir)}
        /\ \A j \in 1 .. Len(g.dir) : FilesOf(g)[g.dir[j].name] = FileOf(g, g.dir[j])
    BY <1>1, FilesAre
  <2> QED
    BY <1>1, <2>1
<1>4. name \notin DOMAIN FilesOf(f)
  BY FoundFile
<1>5. DOMAIN FilesOf(g) = DOMAIN FilesOf(f) \cup {name}
  BY <1>1, <1>2, <1>3
<1>6. FilesOf(g)[name] = [data |-> data, perm |-> READWRITE_PERMS]
  <2>1. n + 1 \in 1 .. n + 1 /\ g.dir[n + 1].name = name
    BY <1>1
  <2>2. FilesOf(g)[g.dir[n + 1].name] = FileOf(g, g.dir[n + 1])
    BY <1>3, <2>1
  <2> QED
    BY <1>1, <2>1, <2>2 DEF FileOf
<1>7. ASSUME NEW j \in 1 .. n
      PROVE  FilesOf(g)[f.dir[j].name] = FilesOf(f)[f.dir[j].name]
  <2>1. j \in 1 .. n + 1 /\ g.dir[j] = f.dir[j]
    BY <1>1
  <2>2. Held(g, f.dir[j]) = Held(f, f.dir[j])
    BY DEF n
  <2>3. FilesOf(g)[g.dir[j].name] = FileOf(g, g.dir[j])
    BY <1>3, <2>1
  <2>4. FilesOf(f)[f.dir[j].name] = FileOf(f, f.dir[j])
    BY <1>2
  <2> QED
    BY <2>1, <2>2, <2>3, <2>4 DEF FileOf
<1> QED
  BY <1>2, <1>4, <1>5, <1>6, <1>7 DEF Puts

\* A file that was there.
LEMMA ChangesPuts ==
    ASSUME NEW f, f.dir \in Seq(dirEntry), Unique(f.dir), NEW name, Found(f, name),
           NEW g, NEW e \in dirEntry, g.dir = Replaced(f.dir, getDirEntryNode(f, name), e),
           Unique(g.dir), e.name = name, e.perm = Entry(f, name).perm, NEW data, Held(g, e) = data,
           \A j \in 1 .. Len(f.dir) :
              j # getDirEntryNode(f, name) => Held(g, f.dir[j]) = Held(f, f.dir[j])
    PROVE  Puts(f, g, name, data)
<1> DEFINE n == Len(f.dir)
           i == getDirEntryNode(f, name)
<1>0. i \in 1 .. n /\ Entry(f, name) = f.dir[i] /\ f.dir[i].name = name
  BY FoundFacts
<1>1. n \in Nat /\ g.dir \in Seq(dirEntry) /\ Len(g.dir) = n /\ g.dir[i] = e
      /\ \A j \in 1 .. n : j # i => g.dir[j] = f.dir[j]
  <2> HIDE DEF i
  <2>1. g.dir = [f.dir EXCEPT ![i] = e]
    BY DEF Replaced, i
  <2> QED
    BY <1>0, <2>1
<1>2. \A j \in 1 .. n : j # i => Held(g, f.dir[j]) = Held(f, f.dir[j])
  OBVIOUS
<1> HIDE DEF n, i
<1>3. /\ DOMAIN FilesOf(f) = {f.dir[j].name : j \in 1 .. n}
      /\ \A j \in 1 .. n : FilesOf(f)[f.dir[j].name] = FileOf(f, f.dir[j])
  BY FilesAre DEF n
<1>4. /\ DOMAIN FilesOf(g) = {g.dir[j].name : j \in 1 .. n}
      /\ \A j \in 1 .. n : FilesOf(g)[g.dir[j].name] = FileOf(g, g.dir[j])
  <2>1. /\ DOMAIN FilesOf(g) = {g.dir[j].name : j \in 1 .. Len(g.dir)}
        /\ \A j \in 1 .. Len(g.dir) : FilesOf(g)[g.dir[j].name] = FileOf(g, g.dir[j])
    BY <1>1, FilesAre
  <2> QED
    BY <1>1, <2>1
<1>5. name \in DOMAIN FilesOf(f) /\ FilesOf(f)[name].perm = e.perm
  <2>1. FilesOf(f)[f.dir[i].name] = FileOf(f, f.dir[i])
    BY <1>0, <1>3
  <2>2. FilesOf(f)[name].perm = f.dir[i].perm
    BY <1>0, <2>1 DEF FileOf
  <2>3. f.dir[i].perm = e.perm
    BY <1>0
  <2> QED
    BY <1>0, <1>3, <2>2, <2>3
<1>6. DOMAIN FilesOf(g) = DOMAIN FilesOf(f) \cup {name}
  <2>1. \A j \in 1 .. n : g.dir[j].name = f.dir[j].name
    BY <1>0, <1>1
  <2>2. DOMAIN FilesOf(g) = DOMAIN FilesOf(f)
    BY <1>3, <1>4, <2>1
  <2> QED
    BY <1>5, <2>2
<1>7. FilesOf(g)[name] = [data |-> data, perm |-> e.perm]
  <2>1. FilesOf(g)[g.dir[i].name] = FileOf(g, g.dir[i])
    BY <1>0, <1>4
  <2> QED
    BY <1>1, <2>1 DEF FileOf
<1>8. ASSUME NEW j \in 1 .. n, j # i
      PROVE  FilesOf(g)[f.dir[j].name] = FilesOf(f)[f.dir[j].name]
  <2>1. g.dir[j] = f.dir[j] /\ Held(g, f.dir[j]) = Held(f, f.dir[j])
    BY <1>1, <1>2, <1>8
  <2>2. FilesOf(g)[g.dir[j].name] = FileOf(g, g.dir[j])
    BY <1>4
  <2>3. FilesOf(f)[f.dir[j].name] = FileOf(f, f.dir[j])
    BY <1>3
  <2> QED
    BY <2>1, <2>2, <2>3 DEF FileOf
<1>9. \A other \in DOMAIN FilesOf(f) \ {name} : FilesOf(g)[other] = FilesOf(f)[other]
  <2> SUFFICES ASSUME NEW other \in DOMAIN FilesOf(f) \ {name}
               PROVE  FilesOf(g)[other] = FilesOf(f)[other]
    OBVIOUS
  <2>1. PICK j \in 1 .. n : other = f.dir[j].name
    BY <1>3
  <2>2. j # i
    BY <1>0, <2>1
  <2> QED
    BY <1>8, <2>1, <2>2
<1> QED
  BY <1>5, <1>6, <1>7, <1>9 DEF Puts


\* What there is before what is written.
Before(f, name, appending) == IF appending /\ Found(f, name) THEN Held(f, Entry(f, name)) ELSE <<>>

\* A write that does not fail puts what it was given into the file it names, and
\* leaves the other files as they are.
LEMMA WritePuts ==
    ASSUME NEW f, NEW d, Good(f, d), NEW name \in Names, NEW bytes \in Seq(Cell),
           NEW appending \in BOOLEAN,
           appending /\ Found(f, name) => Extendable(Entry(f, name).size, bytes),
           NEW r, r = writeFile(f, name, bytes, appending), r.ok
    PROVE  /\ Good(r.fat, d) /\ r.fat.dir # <<>>
           /\ Puts(f, r.fat, name, Before(f, name, appending) \o bytes)
<1> DEFINE data == Before(f, name, appending) \o bytes
           w == writeFile(f, name, bytes, appending)
           g == r.fat
<1>1. f.dir \in Seq(dirEntry) /\ Unique(f.dir)
  BY DEF Good, FatState
<1>2. r = w
  OBVIOUS
<1>3. \/ w = Refused(f)
      \/ \E h : w = Done(h) /\ Good(h, d) /\ h.dir # <<>>
  BY WriteGood
<1>4. \/ Found(f, name) /\ ~MayWrite(Entry(f, name))
      \/ f.freeBlocks < NeededBlocks(f, name, Len(bytes), appending)
      => w = Refused(f)
  BY WriteRefused
<1>5. ~Refused(f).ok /\ \A h : Done(h).fat = h
  BY DEF Refused, Done
<1> HIDE DEF w, g
<1>6. Good(g, d) /\ g.dir # <<>> /\ w = Done(g) /\ w # Refused(f)
  BY <1>2, <1>3, <1>5 DEF g
<1>7. Unique(g.dir)
  BY <1>6 DEF Good
<1>8. CASE ~Found(f, name)
  <2>1. AddsHeld(w, f, name, bytes)
    BY <1>4, <1>6, <1>8, NewHeld DEF w
  <2>2. data = bytes
    BY <1>8 DEF Before
  <2> HIDE DEF data
  <2>3. PICK h, e : /\ w = Done(h) /\ h.dir = Append(f.dir, e)
                    /\ e \in dirEntry /\ e.name = name /\ e.perm = READWRITE_PERMS
                    /\ Held(h, e) = data
                    /\ \A j \in 1 .. Len(f.dir) : Held(h, f.dir[j]) = Held(f, f.dir[j])
    BY <2>1, <2>2 DEF AddsHeld
  <2>4. h = g
    <3>1. Done(h) = Done(g)
      BY <1>6, <2>3
    <3>2. Done(h).fat = h /\ Done(g).fat = g
      BY <1>5
    <3> QED
      BY <3>1, <3>2, Zenon
  <2>5. Unique(h.dir)
    BY <1>7, <2>4
  <2>6. Puts(f, h, name, data)
    BY <1>1, <1>8, <2>3, <2>5, AddsPuts
  <2> QED
    BY <1>6, <2>4, <2>6 DEF g, data
<1>9. CASE Found(f, name)
  <2>0. MayWrite(Entry(f, name)) /\ ~(f.freeBlocks < NeededBlocks(f, name, Len(bytes), appending))
    BY <1>4, <1>6, <1>9
  <2>1. ChangesHeld(w, f, name, data)
    <3>1. CASE appending = FALSE
      <4>1. ChangesHeld(writeFile(f, name, bytes, FALSE), f, name, bytes)
        BY <1>9, <2>0, <3>1, OverHeld
      <4>2. data = bytes
        BY <3>1 DEF Before
      <4> QED
        BY <3>1, <4>1, <4>2 DEF w
    <3>2. CASE appending = TRUE
      <4> DEFINE size == Entry(f, name).size
                 both == Held(f, Entry(f, name)) \o bytes
      <4>1. data = both
        BY <1>9, <3>2 DEF Before
      <4>2. size \in Nat
        <5>1. Entry(f, name) \in dirEntry
          BY <1>1, <1>9, FoundFacts
        <5> QED
          BY <5>1 DEF dirEntry
      <4>3. ~(f.freeBlocks < NeededBlocks(f, name, Len(bytes), TRUE))
        BY <2>0, <3>2
      <4>4. \/ size = 0 /\ bytes = <<>>
            \/ size % BlockSize # 0 /\ (size % BlockSize) + Len(bytes) <= BlockSize
            \/ size # 0 /\ size % BlockSize = 0 /\ bytes # <<>>
        BY <1>9, <3>2 DEF Extendable
      <4>5. bytes = <<>> /\ size = 0 => ChangesHeld(writeFile(f, name, bytes, TRUE), f, name, both)
        <5> SUFFICES ASSUME bytes = <<>>, size = 0
                     PROVE  ChangesHeld(writeFile(f, name, bytes, TRUE), f, name, both)
          OBVIOUS
        <5>1. ~(f.freeBlocks < NeededBlocks(f, name, Len(<<>>), TRUE))
          BY <4>3
        <5>2. ChangesHeld(writeFile(f, name, <<>>, TRUE), f, name, Held(f, Entry(f, name)) \o <<>>)
          BY <1>9, <2>0, <5>1, NothingHeld
        <5> QED
          BY <5>2
      <4>6. CASE size % BlockSize # 0 /\ (size % BlockSize) + Len(bytes) <= BlockSize
        <5>1. ChangesHeld(writeFile(f, name, bytes, TRUE), f, name, Held(f, Entry(f, name)) \o bytes)
          BY <1>9, <2>0, <4>3, <4>6, WithinHeld
        <5> QED
          BY <3>2, <4>1, <5>1 DEF w
      <4>7. CASE size # 0 /\ size % BlockSize = 0 /\ bytes # <<>>
        <5>1. ChangesHeld(writeFile(f, name, bytes, TRUE), f, name, Held(f, Entry(f, name)) \o bytes)
          BY <1>9, <2>0, <4>3, <4>7, BehindHeld
        <5> QED
          BY <3>2, <4>1, <5>1 DEF w
      <4> HIDE DEF data, both
      <4>8. CASE size = 0 /\ bytes = <<>>
        BY <3>2, <4>1, <4>5, <4>8 DEF w
      <4> QED
        BY <4>4, <4>6, <4>7, <4>8
    <3> QED
      BY <3>1, <3>2
  <2> HIDE DEF data
  <2>3. PICK h, e : /\ w = Done(h) /\ h.dir = Replaced(f.dir, getDirEntryNode(f, name), e)
                    /\ e \in dirEntry /\ e.name = name /\ e.perm = Entry(f, name).perm
                    /\ Held(h, e) = data
                    /\ \A j \in 1 .. Len(f.dir) :
                          j # getDirEntryNode(f, name) => Held(h, f.dir[j]) = Held(f, f.dir[j])
    BY <2>1 DEF ChangesHeld
  <2>4. h = g
    <3>1. Done(h) = Done(g)
      BY <1>6, <2>3
    <3>2. Done(h).fat = h /\ Done(g).fat = g
      BY <1>5
    <3> QED
      BY <3>1, <3>2, Zenon
  <2>5. Unique(h.dir)
    BY <1>7, <2>4
  <2>6. Puts(f, h, name, data)
    BY <1>1, <1>9, <2>3, <2>5, ChangesPuts
  <2> QED
    BY <1>6, <2>4, <2>6 DEF g, data
<1> QED
  BY <1>8, <1>9

\* saveFat changes no file.
LEMMA SavedFiles ==
    ASSUME NEW f, NEW d, Good(f, d), f.dir # <<>>
    PROVE  FilesOf(saveFat(f)) = FilesOf(f)
<1> DEFINE g == saveFat(f)
           n == Len(f.dir)
<1>1. f.dir \in Seq(dirEntry) /\ Unique(f.dir)
  BY DEF Good, FatState
<1>2. g.dir = f.dir
  BY SaveGood
<1>3. \A j \in 1 .. n : Held(g, f.dir[j]) = Held(f, f.dir[j])
  BY SaveHeld
<1> HIDE DEF g
<1>4. g.dir \in Seq(dirEntry) /\ Unique(g.dir) /\ Len(g.dir) = n
  BY <1>1, <1>2
<1>5. /\ DOMAIN FilesOf(f) = {f.dir[j].name : j \in 1 .. n}
      /\ \A j \in 1 .. n : FilesOf(f)[f.dir[j].name] = FileOf(f, f.dir[j])
      /\ FilesOf(f) = [name \in DOMAIN FilesOf(f) |-> FilesOf(f)[name]]
  BY <1>1, FilesAre
<1>6. /\ DOMAIN FilesOf(g) = {g.dir[j].name : j \in 1 .. Len(g.dir)}
      /\ \A j \in 1 .. Len(g.dir) : FilesOf(g)[g.dir[j].name] = FileOf(g, g.dir[j])
      /\ FilesOf(g) = [name \in DOMAIN FilesOf(g) |-> FilesOf(g)[name]]
  BY <1>4, FilesAre
<1> DEFINE a == FilesOf(f)
           b == FilesOf(g)
<1>7. DOMAIN b = DOMAIN a /\ \A name \in DOMAIN a : b[name] = a[name]
  <2>1. DOMAIN b = DOMAIN a
    BY <1>2, <1>4, <1>5, <1>6
  <2>2. ASSUME NEW j \in 1 .. n
        PROVE  b[f.dir[j].name] = a[f.dir[j].name]
    <3>1. FileOf(g, f.dir[j]) = FileOf(f, f.dir[j])
      BY <1>3 DEF FileOf
    <3> QED
      BY <1>2, <1>4, <1>5, <1>6, <3>1
  <2> QED
    BY <1>5, <2>1, <2>2
<1> HIDE DEF a, b
<1>8. a = [name \in DOMAIN a |-> a[name]] /\ b = [name \in DOMAIN b |-> b[name]]
  BY <1>5, <1>6 DEF a, b
<1>9. b = a
  BY <1>7, <1>8
<1> QED
  BY <1>9 DEF a, b, g

\* The property, of one step.
Arrives ==
    \A name \in Names, line \in Lines, appending \in BOOLEAN :
        CatInput(name, line, appending) /\ result' = "ok" =>
            LET before == FilesOf(fat)
                after  == FilesOf(fat')
                old    == IF appending /\ name \in DOMAIN before
                          THEN before[name].data ELSE <<>>
            IN /\ after[name].data = old \o line
               /\ \A other \in DOMAIN before \ {name} : after[other] = before[other]

\* A cat that ends well has put the line where it belongs.
LEMMA ArrivesStep ==
    ASSUME FatInv, Uses \subseteq Handled
    PROVE  Arrives
<1> SUFFICES ASSUME NEW name \in Names, NEW line \in Lines, NEW appending \in BOOLEAN,
                    CatInput(name, line, appending), result' = "ok"
             PROVE  LET before == FilesOf(fat)
                        after  == FilesOf(fat')
                        old    == IF appending /\ name \in DOMAIN before
                                  THEN before[name].data ELSE <<>>
                    IN /\ after[name].data = old \o line
                       /\ \A other \in DOMAIN before \ {name} : after[other] = before[other]
  BY DEF Arrives
<1> DEFINE r == writeFile(fat, name, line, appending)
           g == r.fat
           data == Before(fat, name, appending) \o line
<1>1. Finish(r)
  BY DEF CatInput
<1>2. SoundFat(fat)
  BY DEF FatInv, CatInput, Usable
<1>3. PICK d : Good(fat, d)
  BY <1>2 DEF SoundFat
<1>4. line \in Seq(Cell)
  BY LineCells
<1>5. appending /\ Found(fat, name) => Extendable(Entry(fat, name).size, line)
  <2>1. Uses \subseteq Tamed
    BY DEF Tamed
  <2> QED
    BY <1>2, <2>1, CatExtends
<1> HIDE DEF r
<1>6. r.ok /\ fat' = saveFat(g)
  BY <1>1 DEF Finish
<1>7. Good(g, d) /\ g.dir # <<>> /\ Puts(fat, g, name, data)
  BY <1>3, <1>4, <1>5, <1>6, WritePuts DEF r
<1> HIDE DEF g
<1>8. FilesOf(fat') = FilesOf(g)
  BY <1>6, <1>7, SavedFiles
<1> DEFINE before == FilesOf(fat)
           after == FilesOf(g)
<1>9. Before(fat, name, appending)
        = IF appending /\ name \in DOMAIN before THEN before[name].data ELSE <<>>
  <2>1. fat.dir \in Seq(dirEntry) /\ Unique(fat.dir)
    BY <1>3 DEF Good, FatState
  <2>2. /\ Found(fat, name) <=> name \in DOMAIN FilesOf(fat)
        /\ Found(fat, name) => FilesOf(fat)[name] = FileOf(fat, Entry(fat, name))
    BY <2>1, FoundFile
  <2> QED
    BY <2>2 DEF Before, FileOf
<1>10. after[name].data = data /\ \A other \in DOMAIN before \ {name} : after[other] = before[other]
  BY <1>7 DEF Puts
<1> QED
  BY <1>8, <1>9, <1>10

\* A cat that succeeds leaves the line in the file, after what was there or in
\* its place, and no other file changes: so it is in the handled cases, of which
\* writing past the end of the last block (run spill) is not one.
THEOREM LineArrives ==
    ASSUME Uses \subseteq Handled
    PROVE  Spec => InputArrives
<1>1. FatInv /\ [Next]_vars => [Arrives]_vars
  BY ArrivesStep
<1>2. Spec => []FatInv
  BY TableStaysSound
<1>3. [][Arrives]_vars => InputArrives
  BY DEF InputArrives, Arrives
<1> HIDE DEF FatInv, Arrives
<1> QED
  BY <1>1, <1>2, <1>3, PTL DEF Spec
-----------------------------------------------------------------------------
(* What a mount finds. *)

\* What loadFat takes from the image.
ImageOf(f) == [blocks |-> Linked1(f.blocks), disk |-> f.disk]

\* The directory, and the number of free blocks that is computed from it.
FoundDir(f) == getAllFile(ImageOf(f))
FoundFree(f) == NumEntries - 2 - UsedBlocks(FoundDir(f))[Len(FoundDir(f))]

\* The file system that loadFat returns, field by field: the directory and the
\* count that were in memory are of no account.
LEMMA LoadRecord ==
    ASSUME NEW f \in FatState
    PROVE  loadFat(f) = [blocks |-> Linked1(f.blocks), disk |-> f.disk, dir |-> FoundDir(f),
                         freeBlocks |-> FoundFree(f)]
<1> DEFINE linked == [f EXCEPT !.blocks[1] = IF @ = Free THEN End ELSE @]
           blocks == Linked1(f.blocks)
           dir == FoundDir(f)
           n == FoundFree(f)
<1>1. linked = [blocks |-> blocks, disk |-> f.disk, dir |-> f.dir, freeBlocks |-> f.freeBlocks]
  <2> DEFINE v == IF f.blocks[1] = Free THEN End ELSE f.blocks[1]
  <2>1. linked = [f EXCEPT !.blocks = [f.blocks EXCEPT ![1] = v]]
    BY DEF FatState
  <2>2. blocks = [f.blocks EXCEPT ![1] = v]
    BY DEF Linked1
  <2> HIDE DEF v, linked, blocks
  <2>3. linked = [f EXCEPT !.blocks = blocks]
    BY <2>1, <2>2
  <2> QED
    BY <2>3 DEF FatState
<1>2. getAllFile(linked) = dir
  <2>1. linked.blocks = ImageOf(f).blocks /\ linked.disk = ImageOf(f).disk
    BY <1>1 DEF ImageOf
  <2> HIDE DEF linked
  <2>2. ASSUME NEW m PROVE getContents(linked, 1, m) = getContents(ImageOf(f), 1, m)
    BY <2>1 DEF getContents
  <2> QED
    BY <2>1, <2>2 DEF getAllFile, FoundDir
<1>3. n = NumEntries - 2 - UsedBlocks(dir)[Len(dir)]
  BY DEF FoundFree
<1>4. loadFat(f) = [linked EXCEPT !.dir = dir, !.freeBlocks = n]
  <2>1. loadFat(f) = [linked EXCEPT !.dir = getAllFile(linked),
                                    !.freeBlocks = NumEntries - 2 - UsedBlocks(getAllFile(linked))[Len(getAllFile(linked))]]
    BY Zenon DEF loadFat
  <2> HIDE DEF linked, dir, n
  <2> QED
    BY <1>2, <1>3, <2>1
<1> HIDE DEF linked, dir, n, blocks
<1> QED
  BY <1>1, <1>4 DEF blocks, dir, n

\* So a mount finds the same in two file systems with the same image.
SameImage(f, g) == g.blocks = f.blocks /\ g.disk = f.disk

LEMMA LoadAlike ==
    ASSUME NEW f \in FatState, NEW g \in FatState, SameImage(f, g)
    PROVE  loadFat(g) = loadFat(f)
<1>1. ImageOf(g) = ImageOf(f) /\ g.blocks = f.blocks /\ g.disk = f.disk
  BY DEF ImageOf, SameImage
<1>2. FoundDir(g) = FoundDir(f)
  BY <1>1 DEF FoundDir
<1>3. FoundFree(g) = FoundFree(f)
  BY <1>2 DEF FoundFree
<1> QED
  BY <1>1, <1>2, <1>3, LoadRecord

\* And the same again when it is mounted a second time.
LEMMA LoadTwice ==
    ASSUME NEW f \in FatState, loadFat(f) \in FatState
    PROVE  loadFat(loadFat(f)) = loadFat(f)
<1> DEFINE g == loadFat(f)
           b == Linked1(f.blocks)
<1>1. g.blocks = b /\ g.disk = f.disk
  BY LoadRecord
<1>2. Linked1(b) = b
  <2>1. f.blocks \in Table /\ 1 \in 0 .. NumEntries - 1 /\ End # Free
    BY SizeFacts DEF FatState
  <2> QED
    BY <2>1 DEF Linked1, Table
<1> HIDE DEF b
<1>3. ImageOf(g) = ImageOf(f)
  <2>1. Linked1(g.blocks) = b /\ b = Linked1(f.blocks) /\ g.disk = f.disk
    BY <1>1, <1>2 DEF b
  <2> HIDE DEF g
  <2> QED
    BY <2>1 DEF ImageOf
<1> HIDE DEF g
<1>4. FoundDir(g) = FoundDir(f)
  BY <1>3 DEF FoundDir
<1>5. FoundFree(g) = FoundFree(f)
  BY <1>4 DEF FoundFree
<1>6. loadFat(g) = [blocks |-> Linked1(g.blocks), disk |-> g.disk, dir |-> FoundDir(g),
                    freeBlocks |-> FoundFree(g)]
  BY LoadRecord DEF g
<1>7. loadFat(f) = [blocks |-> Linked1(f.blocks), disk |-> f.disk, dir |-> FoundDir(f),
                    freeBlocks |-> FoundFree(f)]
  BY LoadRecord
<1>8. Linked1(g.blocks) = Linked1(f.blocks)
  BY <1>1, <1>2 DEF b
<1>9. loadFat(g) = loadFat(f)
  BY <1>1, <1>4, <1>5, <1>6, <1>7, <1>8
<1> QED
  BY <1>9 DEF g

\* The files are the same if besides the directories are.
LEMMA FilesAlike ==
    ASSUME NEW f, f.dir \in Seq(dirEntry), Unique(f.dir), NEW g, SameImage(f, g), g.dir = f.dir
    PROVE  FilesOf(g) = FilesOf(f)
<1>1. /\ DOMAIN FilesOf(f) = {f.dir[j].name : j \in 1 .. Len(f.dir)}
      /\ \A j \in 1 .. Len(f.dir) : FilesOf(f)[f.dir[j].name] = FileOf(f, f.dir[j])
      /\ FilesOf(f) = [name \in DOMAIN FilesOf(f) |-> FilesOf(f)[name]]
  BY FilesAre
<1>2. /\ DOMAIN FilesOf(g) = {g.dir[j].name : j \in 1 .. Len(g.dir)}
      /\ \A j \in 1 .. Len(g.dir) : FilesOf(g)[g.dir[j].name] = FileOf(g, g.dir[j])
      /\ FilesOf(g) = [name \in DOMAIN FilesOf(g) |-> FilesOf(g)[name]]
  <2>1. g.dir \in Seq(dirEntry) /\ Unique(g.dir)
    OBVIOUS
  <2> QED
    BY <2>1, FilesAre
<1>3. g.blocks = f.blocks /\ g.disk = f.disk /\ g.dir = f.dir
  BY DEF SameImage
<1>4. \A j \in 1 .. Len(f.dir) : FileOf(g, f.dir[j]) = FileOf(f, f.dir[j])
  BY <1>3, ReadAlike DEF FileOf, Held
<1> DEFINE a == FilesOf(f)
           b == FilesOf(g)
<1>5. DOMAIN b = DOMAIN a /\ \A name \in DOMAIN a : b[name] = a[name]
  BY <1>1, <1>2, <1>3, <1>4
<1>6. a = [name \in DOMAIN a |-> a[name]] /\ b = [name \in DOMAIN b |-> b[name]]
  BY <1>1, <1>2
<1> HIDE DEF a, b
<1>7. b = a
  BY <1>5, <1>6
<1> QED
  BY <1>7 DEF a, b

\* The directory is what its chain holds, up to a cell that is no entry.
LEMMA ReadDir ==
    ASSUME NEW f, NEW length \in Nat, length = BlockSize * Cardinality(Chain(f.blocks, 1)),
           NEW dir \in Seq(dirEntry), Len(dir) <= length,
           \A i \in 1 .. Len(dir) : getContents(f, 1, length)[i] = dir[i],
           Len(dir) < length => getContents(f, 1, length)[Len(dir) + 1] \in Data \cup {Zero}
    PROVE  getAllFile(f) = dir
<1> DEFINE L == Len(dir)
           cells == getContents(f, 1, length)
           read == {n \in 0 .. Len(cells) : \A i \in 1 .. n : cells[i] \notin Data \cup {Zero}}
<1>1. L \in Nat /\ Len(cells) = length
  BY DEF getContents
<1>2. getAllFile(f) = SubSeq(cells, 1, Max(read))
  BY Zenon DEF getAllFile
<1>3. \A i \in 1 .. L : cells[i] = dir[i] /\ cells[i] \notin Data \cup {Zero}
  <2> SUFFICES ASSUME NEW i \in 1 .. L
               PROVE  cells[i] = dir[i] /\ cells[i] \notin Data \cup {Zero}
    OBVIOUS
  <2>1. cells[i] = dir[i] /\ dir[i] \in dirEntry
    OBVIOUS
  <2> HIDE DEF cells
  <2> QED
    BY <2>1, DataAssumption
<1>4. L < length => cells[L + 1] \in Data \cup {Zero}
  OBVIOUS
<1> HIDE DEF cells, L
<1>5. L \in read /\ \A n \in read : n <= L
  <2>1. L <= length
    BY DEF L
  <2>2. L \in read
    BY <1>1, <1>3, <2>1
  <2>3. ASSUME NEW n \in read PROVE n <= L
    BY <1>1, <1>4
  <2> QED
    BY <2>2, <2>3
<1>6. Max(read) = L
  <2>1. read \subseteq Nat
    OBVIOUS
  <2> HIDE DEF read
  <2>2. \A y \in read : L >= y
    BY <1>1, <1>5, <2>1
  <2>3. Max(read) \in read /\ \A y \in read : Max(read) >= y
    BY <1>5, <2>2, Zenon DEF Max
  <2> DEFINE m == Max(read)
  <2>4. m >= L /\ m \in Nat /\ m <= L
    BY <1>5, <2>1, <2>3
  <2> HIDE DEF m
  <2>5. m = L
    BY <1>1, <2>4
  <2> QED
    BY <2>5 DEF m
<1>7. SubSeq(cells, 1, L) = dir
  <2>1. SubSeq(cells, 1, L) = [i \in 1 .. L |-> cells[i]]
    <3>1. SubSeq(cells, 1, L) = [i \in 1 .. L - 1 + 1 |-> cells[i + 1 - 1]]
      BY <1>1
    <3> QED
      BY <1>1, <3>1
  <2>2. dir = [i \in 1 .. L |-> dir[i]]
    BY DEF L
  <2> QED
    BY <1>3, <2>1, <2>2
<1> QED
  BY <1>2, <1>6, <1>7

\* More cells read from the same place begin with the same cells.
LEMMA ReadMore ==
    ASSUME NEW f, NEW b, NEW bytes, Reads(f, b, bytes), NEW n \in Nat, Len(bytes) \in Nat,
           Len(bytes) <= n, NEW i \in 1 .. Len(bytes)
    PROVE  getContents(f, b, n)[i] = bytes[i]
<1> DEFINE m == Len(bytes)
           p == Nth(f.blocks, b)
           cell(j) == LET c == p[(j - 1) \div BlockSize + 1] IN
                      IF c \in Block THEN f.disk[(c - 1) * BlockSize + ((j - 1) % BlockSize)] ELSE Zero
<1>1. /\ getContents(f, b, n) = [j \in 1 .. n |-> cell(j)]
      /\ getContents(f, b, m) = [j \in 1 .. m |-> cell(j)]
  BY Zenon DEF getContents
<1>2. getContents(f, b, m) = bytes
  BY DEF Reads
<1>3. i \in 1 .. m /\ i \in 1 .. n
  OBVIOUS
<1> HIDE DEF cell, m
<1>4. getContents(f, b, n)[i] = cell(i) /\ getContents(f, b, m)[i] = cell(i)
  BY <1>1, <1>3
<1> QED
  BY <1>2, <1>4

\* In a saved file system the directory is found again, of however many blocks.
LEMMA DirFoundAgain ==
    ASSUME NEW f, NEW d, Good(f, d), f.dir # <<>>
    PROVE  getAllFile(saveFat(f)) = f.dir
<1> DEFINE dir == f.dir
           g == saveFat(f)
           n == DirDepth(Len(dir))
           bytes == DirBytes(dir)
           length == BlockSize * n
           one == 1
<1>1. dir \in Seq(dirEntry) /\ dir # <<>>
  BY DEF Good, FatState
<1>2. Len(dir) \in Nat /\ n \in Nat /\ BlockSize \in Nat /\ length \in Nat
  <2>1. Len(dir) \in Nat
    BY <1>1
  <2>2. n \in Nat /\ BlockSize \in Nat
    BY <2>1, DirDepthLemma, SizeFacts
  <2> HIDE DEF n
  <2> QED
    BY <2>1, <2>2
<1>3. Reads(g, one, bytes)
  BY SaveWrites
<1>4. bytes \in Seq(Cell) /\ bytesToBlocks(Len(bytes)) = n /\ bytesToBlocks(Len(dir)) = n
  BY <1>1, DirBytesFacts
<1>5. Len(bytes) \in Nat /\ Len(bytes) <= length
  <2>1. Len(bytes) \in Nat
    BY <1>4
  <2> HIDE DEF bytes, n
  <2> QED
    BY <1>4, <2>1, BlocksHold
<1>6. Cardinality(Chain(g.blocks, one)) = n
  <2>1. Good(g, n) /\ g.dir = dir
    BY SaveGood
  <2> DEFINE i == 0
             H == Heads(dir)
             K == Depths(dir, n)
  <2>2. i \in 0 .. Len(dir) /\ H[i] = one /\ K[i] = n
    BY <1>2 DEF Heads, Depths
  <2>3. Laid(g.blocks, 0 .. Len(dir), H, K) /\ n # 0
    BY <2>1 DEF Good
  <2> HIDE DEF g, n, H, K, one, i
  <2>4. Sound(g.blocks, one, n)
    BY <2>2, <2>3 DEF Laid
  <2> QED
    BY <2>4, SoundCard
<1>7. length = BlockSize * Cardinality(Chain(g.blocks, one))
  BY <1>6
<1>8. \/ Len(dir) = length /\ bytes = dir
      \/ bytes = Append(dir, Zero)
  <2>1. CASE Len(dir) % BlockSize = 0
    <3>1. Len(dir) = BlockSize * bytesToBlocks(Len(dir))
      BY <1>2, <2>1, LastFull
    <3>2. Len(dir) = length
      BY <1>4, <3>1
    <3>3. bytes = dir
      BY <2>1 DEF DirBytes
    <3> QED
      BY <3>2, <3>3
  <2>2. CASE Len(dir) % BlockSize # 0
    BY <2>2 DEF DirBytes
  <2> QED
    BY <2>1, <2>2
<1>9. \A i \in 1 .. Len(dir) : i \in 1 .. Len(bytes) /\ bytes[i] = dir[i]
  BY <1>1, <1>8
<1>10. Len(dir) <= length /\ (Len(dir) < length => Len(dir) + 1 \in 1 .. Len(bytes) /\ bytes[Len(dir) + 1] = Zero)
  <2>1. CASE Len(dir) = length
    BY <1>2, <2>1
  <2>2. CASE bytes = Append(dir, Zero)
    <3>1. Len(bytes) = Len(dir) + 1 /\ bytes[Len(dir) + 1] = Zero
      BY <1>1, <2>2
    <3> HIDE DEF bytes, dir, length
    <3> QED
      BY <1>2, <1>5, <3>1
  <2> QED
    BY <1>8, <2>1, <2>2
<1> HIDE DEF bytes, g, one, length, n, dir
<1>11. \A i \in 1 .. Len(bytes) : getContents(g, one, length)[i] = bytes[i]
  BY <1>2, <1>3, <1>5, ReadMore
<1>12. \A i \in 1 .. Len(dir) : getContents(g, one, length)[i] = dir[i]
  BY <1>9, <1>11
<1>13. Len(dir) < length => getContents(g, one, length)[Len(dir) + 1] \in Data \cup {Zero}
  BY <1>10, <1>11
<1>14. getAllFile(g) = dir
  <2>1. one = 1
    BY DEF one
  <2> QED
    BY <1>1, <1>2, <1>7, <1>10, <1>12, <1>13, <2>1, ReadDir
<1> QED
  BY <1>14 DEF g, dir

\* A mount that the instances admit finds a sound file system.
Mountable(f) == f.blocks[1] \notin Block => SoundFat(loadFat(f))

\* Both are the same for the same image.
LEMMA MountAlike ==
    ASSUME NEW f \in FatState, NEW g \in FatState, SameImage(f, g)
    PROVE  OnDisk(g) = OnDisk(f) /\ (Mountable(f) => Mountable(g))
<1>1. loadFat(g) = loadFat(f)
  BY LoadAlike
<1>2. g.blocks = f.blocks
  BY DEF SameImage
<1> QED
  BY <1>1, <1>2 DEF OnDisk, Mountable

\* What is saved is what a mount finds.
LEMMA SaveStores ==
    ASSUME NEW f, NEW d, Good(f, d), f.dir # <<>>
    PROVE  /\ saveFat(f) \in FatState
           /\ FilesOf(saveFat(f)) = FilesOf(f) /\ OnDisk(saveFat(f)) = FilesOf(f)
           /\ Mountable(saveFat(f))
<1> DEFINE g == saveFat(f)
           n == DirDepth(Len(f.dir))
           h == loadFat(g)
           u == [g EXCEPT !.dir = <<>>, !.freeBlocks = 0]
<1>1. Good(g, n) /\ g.dir = f.dir
  BY SaveGood
<1>2. FilesOf(g) = FilesOf(f) /\ getAllFile(g) = f.dir
  BY SavedFiles, DirFoundAgain
<1>3. SoundFat(f)
  BY DEF SoundFat
<1>4. Unmounted(u)
  BY <1>3, UnmountGood
<1> HIDE DEF g, n, h, u
<1>5. g \in FatState /\ f.dir \in Seq(dirEntry) /\ Unique(f.dir) /\ n \in Nat
  BY <1>1 DEF Good, FatState
<1>6. Linked1(g.blocks) = g.blocks
  <2> DEFINE i == 0
             H == Heads(g.dir)
             K == Depths(g.dir, n)
             one == 1
  <2>1. Len(g.dir) \in Nat
    BY <1>1, <1>5
  <2>2. i \in 0 .. Len(g.dir) /\ H[i] = one /\ K[i] = n
    BY <2>1 DEF Heads, Depths
  <2>3. Laid(g.blocks, 0 .. Len(g.dir), H, K) /\ n # 0
    BY <1>1 DEF Good
  <2> HIDE DEF i, H, K, one
  <2>4. Sound(g.blocks, one, n)
    BY <2>2, <2>3 DEF Laid
  <2>5. g.blocks[one] # Free
    BY <2>4, SoundCard, SoundNotFree
  <2>6. g.blocks[1] # Free /\ g.blocks \in Table
    BY <1>5, <2>5 DEF one, FatState
  <2> QED
    BY <2>6 DEF Linked1, Table
<1>7. h.blocks = g.blocks /\ h.disk = g.disk /\ h.dir = f.dir
  <2>1. h.blocks = Linked1(g.blocks) /\ h.disk = g.disk /\ h.dir = FoundDir(g)
    BY <1>5, LoadRecord DEF h
  <2>2. FoundDir(g) = getAllFile(g)
    <3> DEFINE j == ImageOf(g)
    <3>1. j.blocks = g.blocks /\ j.disk = g.disk
      BY <1>6 DEF ImageOf
    <3> HIDE DEF j
    <3>2. ASSUME NEW m PROVE getContents(j, 1, m) = getContents(g, 1, m)
      BY <3>1 DEF getContents
    <3>3. getAllFile(j) = getAllFile(g)
      BY <3>1, <3>2 DEF getAllFile
    <3> QED
      BY <3>3 DEF FoundDir, j
  <2> QED
    BY <1>2, <1>6, <2>1, <2>2
<1>8. FilesOf(h) = FilesOf(g)
  <2>1. g.dir \in Seq(dirEntry) /\ Unique(g.dir) /\ SameImage(g, h) /\ h.dir = g.dir
    BY <1>1, <1>5, <1>7 DEF SameImage
  <2> QED
    BY <2>1, FilesAlike
<1>9. Mountable(g)
  <2>1. u = [blocks |-> g.blocks, disk |-> g.disk, dir |-> <<>>, freeBlocks |-> 0]
    BY <1>5, Dropped DEF u
  <2>2. u \in FatState /\ SameImage(u, g) /\ Mountable(u)
    BY <1>4, <2>1 DEF SameImage, Mountable, Unmounted
  <2> QED
    BY <1>5, <2>2, MountAlike
<1>10. OnDisk(g) = FilesOf(h)
  BY DEF OnDisk, h
<1>11. g \in FatState /\ FilesOf(g) = FilesOf(f) /\ OnDisk(g) = FilesOf(f) /\ Mountable(g)
  BY <1>2, <1>5, <1>8, <1>9, <1>10
<1> QED
  BY <1>11 DEF g

\* No entries, no files.
LEMMA NoEntries ==
    ASSUME NEW f, f.dir = <<>>
    PROVE  FilesOf(f) = [name \in {} |-> <<>>]
<1>1. f.dir \in Seq(dirEntry) /\ Unique(f.dir) /\ Len(f.dir) = 0
  BY DEF Unique
<1>2. /\ DOMAIN FilesOf(f) = {f.dir[j].name : j \in 1 .. Len(f.dir)}
      /\ FilesOf(f) = [name \in DOMAIN FilesOf(f) |-> FilesOf(f)[name]]
  BY <1>1, FilesAre
<1>3. DOMAIN FilesOf(f) = {}
  BY <1>1, <1>2
<1> DEFINE a == FilesOf(f)
<1>4. a = [name \in DOMAIN a |-> a[name]] /\ DOMAIN a = {}
  BY <1>2, <1>3
<1> HIDE DEF a
<1>5. a = [name \in {} |-> <<>>]
  BY <1>4
<1> QED
  BY <1>5 DEF a

\* A mount finds none where block 1 is the last of the directory, or free, and
\* does not begin with an entry.
LEMMA NothingFound ==
    ASSUME NEW f \in FatState, f.blocks[1] = Free \/ f.blocks[1] = End,
           f.disk[0] \in Data \cup {Zero}
    PROVE  OnDisk(f) = [name \in {} |-> <<>>]
<1> DEFINE j == ImageOf(f)
           dir == <<>>
<1>1. j.blocks[1] = End /\ j.disk = f.disk
  <2>1. f.blocks \in Table /\ 1 \in 0 .. NumEntries - 1
    BY SizeFacts DEF FatState
  <2>2. Linked1(f.blocks)[1] = End
    BY <2>1 DEF Linked1, Table
  <2> QED
    BY <2>2 DEF ImageOf
<1>2. dir \in Seq(dirEntry) /\ Len(dir) = 0 /\ Len(dir) <= BlockSize /\ \A i \in 1 .. Len(dir) : j.disk[i - 1] = dir[i]
  BY SizeFacts
<1>3. j.disk[Len(dir)] \in Data \cup {Zero}
  BY <1>1, <1>2
<1> HIDE DEF j, dir
<1>4. getAllFile(j) = dir
  BY <1>1, <1>2, <1>3, ReadBack
<1>5. loadFat(f).dir = dir
  <2>1. FoundDir(f) = dir
    BY <1>4 DEF FoundDir, j
  <2> QED
    BY <2>1, LoadRecord
<1>6. loadFat(f).dir = <<>>
  BY <1>5 DEF dir
<1> QED
  BY <1>6, NoEntries DEF OnDisk

\* The image that an unmount leaves.
Closed(f, u) == u = [saveFat(f) EXCEPT !.dir = <<>>, !.freeBlocks = 0]

\* An unmount saves what there is, also if it is nothing.
LEMMA UnmountStores ==
    ASSUME NEW f, SoundFat(f),
           NEW u, Closed(f, u)
    PROVE  u \in FatState /\ OnDisk(u) = FilesOf(f) /\ Mountable(u)
<1> DEFINE g == saveFat(f)
<1>1. PICK d : Good(f, d) /\ (f.dir = <<>> => f.disk[0] \in Data \cup {Zero})
  BY DEF SoundFat
<1>2. u \in FatState /\ Mountable(u)
  <2> DEFINE v == [g EXCEPT !.dir = <<>>, !.freeBlocks = 0]
  <2>1. Unmounted(v) /\ u = v
    BY UnmountGood DEF Closed
  <2> HIDE DEF v
  <2> QED
    BY <2>1 DEF Unmounted, Mountable
<1>3. CASE f.dir = <<>>
  <2>1. /\ f \in FatState /\ f.blocks[0] = Meta /\ d \in Nat
        /\ Laid(f.blocks, 0 .. Len(f.dir), Heads(f.dir), Depths(f.dir, d))
    BY <1>1 DEF Good
  <2>2. /\ g \in FatState /\ \A c \in Block : g.blocks[c] = Free
        /\ g.disk = f.disk
    BY <1>3, <2>1, EmptySaved
  <2>3. u = [blocks |-> g.blocks, disk |-> g.disk, dir |-> <<>>, freeBlocks |-> 0]
    <3>1. u = [g EXCEPT !.dir = <<>>, !.freeBlocks = 0] /\ g \in FatState
      BY <2>2 DEF Closed
    <3> HIDE DEF g
    <3> QED
      BY <3>1, Dropped, Zenon
  <2> HIDE DEF g
  <2>4. u.blocks[1] = Free /\ u.disk[0] \in Data \cup {Zero}
    BY <1>1, <1>3, <2>2, <2>3, SizeFacts
  <2>5. OnDisk(u) = [name \in {} |-> <<>>]
    BY <1>2, <2>4, NothingFound
  <2> QED
    BY <1>2, <1>3, <2>5, NoEntries
<1>4. CASE f.dir # <<>>
  <2>1. g \in FatState /\ OnDisk(g) = FilesOf(f)
    BY <1>1, <1>4, SaveStores
  <2>2. u = [blocks |-> g.blocks, disk |-> g.disk, dir |-> <<>>, freeBlocks |-> 0]
    <3>1. u = [g EXCEPT !.dir = <<>>, !.freeBlocks = 0] /\ g \in FatState
      BY <2>1 DEF Closed
    <3> HIDE DEF g
    <3> QED
      BY <3>1, Dropped, Zenon
  <2> HIDE DEF g
  <2>3. SameImage(g, u)
    BY <2>2 DEF SameImage
  <2>4. OnDisk(u) = OnDisk(g)
    BY <1>2, <2>1, <2>3, MountAlike
  <2> QED
    BY <1>2, <2>1, <2>4
<1> QED
  BY <1>3, <1>4
-----------------------------------------------------------------------------
(* The commands as steps of the store. *)

\* The special cases in which the commands do to the files what they should.
Stored == {"remount", "cat many", "cat append"}

\* The files in use are those of the directory in memory, the saved ones those
\* that a mount finds, which it finds sound.
StoreInv ==
    /\ FatInv
    /\ Mountable(fat)
    /\ saved = OnDisk(fat)
    /\ files = IF mounted THEN FilesOf(fat) ELSE saved

\* What is seen of a step.
Shown ==
    /\ saved' = OnDisk(fat')
    /\ files' = IF mounted' THEN FilesOf(fat') ELSE saved'

\* What is to be shown of one.
StoreStep == FatInv' /\ Mountable(fat') /\ Store!Next

IsFun(a) == a = [x \in DOMAIN a |-> a[x]]

\* Two functions that agree are the same.
LEMMA Agree ==
    ASSUME NEW a, IsFun(a), NEW b, IsFun(b), DOMAIN b = DOMAIN a,
           \A x \in DOMAIN a : b[x] = a[x]
    PROVE  b = a
BY DEF IsFun

LEMMA FilesFun == ASSUME NEW f PROVE IsFun(FilesOf(f))
BY DEF IsFun, FilesOf

\* What is known where commands are given.
LEMMA InUse ==
    ASSUME StoreInv, Usable
    PROVE  /\ mounted = TRUE /\ SoundFat(fat) /\ Mountable(fat)
           /\ files = FilesOf(fat) /\ saved = OnDisk(fat)
           /\ fat \in FatState /\ fat.dir \in Seq(dirEntry) /\ Unique(fat.dir)
BY DEF StoreInv, FatInv, Usable, SoundFat, Good, FatState

\* A command that ends well has saved its work.
LEMMA Commits ==
    ASSUME Shown, mounted = TRUE, NEW r, r.ok, Finish(r), NEW d, Good(r.fat, d), r.fat.dir # <<>>
    PROVE  FatInv' /\ Mountable(fat') /\ Store!Commit(FilesOf(r.fat))
<1> DEFINE g == r.fat
<1>1. Outcome(r)
  BY DEF Outcome
<1>2. FatInv'
  BY <1>1, FinishGood
<1>3. fat' = saveFat(g) /\ mounted' = TRUE /\ result' = "ok"
  BY DEF Finish
<1>4. Good(g, d) /\ g.dir # <<>>
  OBVIOUS
<1> HIDE DEF g
<1>5. FilesOf(saveFat(g)) = FilesOf(g) /\ OnDisk(saveFat(g)) = FilesOf(g) /\ Mountable(saveFat(g))
  BY <1>4, SaveStores
<1>6. files' = FilesOf(g) /\ saved' = FilesOf(g) /\ Mountable(fat')
  BY <1>3, <1>5 DEF Shown
<1> QED
  BY <1>2, <1>3, <1>6 DEF Store!Commit, g

\* One that fails and leaves the image alone has saved nothing.
LEMMA Keeps ==
    ASSUME StoreInv, Usable, Shown, mounted' = TRUE, fat' \in FatState, SameImage(fat, fat')
    PROVE  Mountable(fat') /\ saved' = saved /\ files' = FilesOf(fat')
<1>1. /\ Mountable(fat) /\ saved = OnDisk(fat) /\ fat \in FatState
  BY InUse
<1>2. OnDisk(fat') = OnDisk(fat) /\ Mountable(fat')
  BY <1>1, MountAlike
<1> QED
  BY <1>1, <1>2 DEF Shown

\* One that is refused is a failure in which no file was created.
LEMMA Refusal ==
    ASSUME StoreInv, Usable, Shown, Finish(Refused(fat))
    PROVE  StoreStep
<1>1. /\ mounted = TRUE /\ SoundFat(fat) /\ files = FilesOf(fat) /\ fat \in FatState
  BY InUse
<1>2. fat' = fat /\ mounted' = TRUE /\ result' = "failed"
  BY <1>1 DEF Finish, Refused
<1>3. Mountable(fat') /\ saved' = saved /\ files' = FilesOf(fat')
  <2>1. SameImage(fat, fat') /\ fat' \in FatState
    BY <1>1, <1>2 DEF SameImage
  <2> QED
    BY <1>2, <2>1, Keeps
<1>4. files' = Store!Created({})
  <2> DEFINE b == Store!Created({})
  <2>1. IsFun(b) /\ DOMAIN b = DOMAIN files /\ \A x \in DOMAIN files : b[x] = files[x]
    BY DEF IsFun, Store!Created, Store!Exists
  <2>2. IsFun(files) /\ files' = files
    BY <1>1, <1>2, <1>3, FilesFun
  <2> HIDE DEF b
  <2>3. b = files
    BY <2>1, <2>2, Agree
  <2> QED
    BY <2>2, <2>3 DEF b
<1>5. Store!Fail
  BY <1>2, <1>3, <1>4 DEF Store!Fail
<1>6. FatInv'
  BY <1>1, <1>2 DEF FatInv
<1> QED
  BY <1>3, <1>5, <1>6 DEF StoreStep, Store!Next

\* The write permission of a file is that of its entry.
LEMMA WritableFile ==
    ASSUME NEW f, f.dir \in Seq(dirEntry), Unique(f.dir), files = FilesOf(f), NEW name
    PROVE  /\ Store!Exists(name) <=> Found(f, name)
           /\ Store!Writable(name) <=> (Found(f, name) => MayWrite(Entry(f, name)))
           /\ Store!Readable(name) <=> Readable(f, name)
           /\ Found(f, name) => files[name] = FileOf(f, Entry(f, name))
<1>1. /\ Found(f, name) <=> name \in DOMAIN files
      /\ Found(f, name) => files[name] = FileOf(f, Entry(f, name))
  BY FoundFile
<1>2. Found(f, name) => files[name].perm = Entry(f, name).perm
  BY <1>1 DEF FileOf
<1> QED
  BY <1>1, <1>2 DEF Store!Exists, Store!Writable, Store!Readable, Readable, MayWrite, MayRead,
     READ_PERMS, WRITE_PERMS, READWRITE_PERMS

\* Putting something into a file.
LEMMA PutsWith ==
    ASSUME NEW f, files = FilesOf(f), NEW g, NEW name, NEW data, Puts(f, g, name, data)
    PROVE  FilesOf(g) = Store!With(name, data)
<1> DEFINE a == Store!With(name, data)
           b == FilesOf(g)
<1>1. IsFun(a) /\ DOMAIN a = DOMAIN files \cup {name}
  BY DEF IsFun, Store!With
<1>2. IsFun(b) /\ DOMAIN b = DOMAIN files \cup {name}
  BY FilesFun DEF Puts
<1>3. b[name] = a[name]
  BY DEF Puts, Store!With, Store!Exists, READWRITE_PERMS
<1>4. \A x \in DOMAIN files \ {name} : b[x] = a[x]
  BY DEF Puts, Store!With
<1> HIDE DEF a, b
<1>5. \A x \in DOMAIN a : b[x] = a[x]
  BY <1>1, <1>3, <1>4
<1>6. b = a
  BY <1>1, <1>2, <1>5, Agree
<1> QED
  BY <1>6 DEF a, b

\* A write that does not fail was allowed; one that fails has done nothing.
LEMMA WriteMay ==
    ASSUME NEW f, NEW name, NEW bytes, NEW appending,
           NEW r, r = writeFile(f, name, bytes, appending)
    PROVE  /\ r.ok => (Found(f, name) => MayWrite(Entry(f, name)))
           /\ ~r.ok => r = Refused(f)
           /\ (Found(f, name) => MayWrite(Entry(f, name)))
              /\ ~(f.freeBlocks < NeededBlocks(f, name, Len(bytes), appending)) => r.ok
<1> DEFINE w == writeFile(f, name, bytes, appending)
           refused == \/ Found(f, name) /\ ~MayWrite(Entry(f, name))
                      \/ f.freeBlocks < NeededBlocks(f, name, Len(bytes), appending)
<1>1. refused => w = Refused(f)
  BY WriteRefused
<1>2. ~refused => \E g : w = Done(g)
  BY Zenon DEF writeFile
<1>3. ~Refused(f).ok /\ \A g : Done(g).ok
  BY DEF Refused, Done
<1> HIDE DEF w
<1>4. r = w
  BY DEF w
<1> QED
  BY <1>1, <1>2, <1>3, <1>4

\* A write that ends well puts what is written into one file and saves it.
LEMMA WriteCommits ==
    ASSUME StoreInv, Usable, Shown, NEW name \in Names, NEW bytes \in Seq(Cell),
           NEW appending \in BOOLEAN,
           appending /\ Found(fat, name) => Extendable(Entry(fat, name).size, bytes),
           NEW r, r = writeFile(fat, name, bytes, appending), r.ok, Finish(r)
    PROVE  /\ FatInv' /\ Mountable(fat') /\ Store!Writable(name)
           /\ Store!Commit(Store!With(name, Before(fat, name, appending) \o bytes))
<1> DEFINE data == Before(fat, name, appending) \o bytes
<1>1. /\ mounted = TRUE /\ SoundFat(fat) /\ files = FilesOf(fat)
      /\ fat.dir \in Seq(dirEntry) /\ Unique(fat.dir)
  BY InUse
<1>2. PICK d : Good(fat, d)
  BY <1>1 DEF SoundFat
<1>3. Good(r.fat, d) /\ r.fat.dir # <<>> /\ Puts(fat, r.fat, name, data)
  BY <1>2, WritePuts
<1>4. FatInv' /\ Mountable(fat') /\ Store!Commit(FilesOf(r.fat))
  BY <1>1, <1>3, Commits
<1>5. Found(fat, name) => MayWrite(Entry(fat, name))
  BY WriteMay
<1> HIDE DEF data
<1>6. FilesOf(r.fat) = Store!With(name, data)
  BY <1>1, <1>3, PutsWith
<1>7. Store!Writable(name)
  BY <1>1, <1>5, WritableFile
<1> QED
  BY <1>4, <1>6, <1>7 DEF data

\* cat with a line that was typed.
LEMMA CatInputStores ==
    ASSUME StoreInv, Shown, Uses \subseteq Stored, NEW name \in Names, NEW line \in Lines,
           NEW appending \in BOOLEAN, CatInput(name, line, appending)
    PROVE  StoreStep
<1> DEFINE r == writeFile(fat, name, line, appending)
<1>1. Usable /\ Finish(r)
  BY DEF CatInput
<1>2. /\ SoundFat(fat) /\ files = FilesOf(fat)
      /\ fat.dir \in Seq(dirEntry) /\ Unique(fat.dir)
  BY <1>1, InUse
<1>3. line \in Seq(Cell)
  BY LineCells
<1>4. appending /\ Found(fat, name) => Extendable(Entry(fat, name).size, line)
  <2>1. Uses \subseteq Tamed
    BY DEF Stored, Tamed, Handled
  <2> QED
    BY <1>2, <2>1, CatExtends
<1>5. CASE ~r.ok
  <2>1. r = Refused(fat)
    BY <1>5, WriteMay
  <2> HIDE DEF r
  <2> QED
    BY <1>1, <2>1, Refusal
<1>6. CASE r.ok
  <2> DEFINE old == Before(fat, name, appending)
  <2>1. /\ FatInv' /\ Mountable(fat') /\ Store!Writable(name)
        /\ Store!Commit(Store!With(name, old \o line))
    <3>1. r = writeFile(fat, name, line, appending)
      OBVIOUS
    <3> HIDE DEF r
    <3> QED
      BY <1>1, <1>3, <1>4, <1>6, <3>1, WriteCommits
  <2>2. appending = TRUE => old = Store!Contents(name)
    <3>1. /\ Store!Exists(name) <=> Found(fat, name)
          /\ Found(fat, name) => files[name] = FileOf(fat, Entry(fat, name))
      BY <1>2, WritableFile
    <3> QED
      BY <3>1 DEF Before, Store!Contents, FileOf
  <2>3. appending = FALSE => old \o line = line
    <3>1. <<>> \o line = line
      BY <1>3
    <3> QED
      BY <3>1 DEF Before
  <2> HIDE DEF old
  <2>4. appending = TRUE => Store!AppendTo(name, line)
    BY <2>1, <2>2 DEF Store!AppendTo
  <2>5. appending = FALSE => Store!Overwrite(name, line)
    BY <2>1, <2>3 DEF Store!Overwrite
  <2>6. Store!Next
    BY <2>4, <2>5 DEF Store!Next
  <2> QED
    BY <2>1, <2>6 DEF StoreStep
<1> QED
  BY <1>5, <1>6

\* Writing anew, rather than appending.
LEMMA Overwrites ==
    ASSUME StoreInv, Usable, Shown, NEW name \in Names, NEW bytes \in Seq(Cell),
           NEW r, r = writeFile(fat, name, bytes, FALSE), r.ok, Finish(r)
    PROVE  FatInv' /\ Mountable(fat') /\ Store!Overwrite(name, bytes)
<1> DEFINE no == FALSE
           old == Before(fat, name, no)
<1>1. no \in BOOLEAN /\ ~no /\ r = writeFile(fat, name, bytes, no)
  OBVIOUS
<1>2. old = <<>>
  BY DEF Before
<1> HIDE DEF no
<1>3. /\ FatInv' /\ Mountable(fat') /\ Store!Writable(name)
      /\ Store!Commit(Store!With(name, old \o bytes))
  BY <1>1, WriteCommits
<1>4. old \o bytes = bytes
  <2>1. <<>> \o bytes = bytes
    OBVIOUS
  <2> QED
    BY <1>2, <2>1
<1> QED
  BY <1>3, <1>4 DEF Store!Overwrite

\* Copying from one file to another.
LEMMA CopyWrites ==
    ASSUME StoreInv, Usable, Shown, NEW name \in Names, NEW out \in Names, Readable(fat, name),
           NEW r, r = writeFile(fat, out, readFile(fat, name), FALSE), Finish(r)
    PROVE  StoreStep
<1> DEFINE bytes == readFile(fat, name)
<1>1. /\ mounted = TRUE /\ SoundFat(fat) /\ files = FilesOf(fat)
      /\ fat.dir \in Seq(dirEntry) /\ Unique(fat.dir)
  BY InUse
<1>2. bytes \in Seq(Cell)
  BY <1>1, ReadableFacts
<1>3. Store!Readable(name) /\ files[name].data = bytes
  <2>1. Found(fat, name)
    BY DEF Readable
  <2>2. /\ Store!Readable(name) <=> Readable(fat, name)
        /\ files[name] = FileOf(fat, Entry(fat, name))
    BY <1>1, <2>1, WritableFile
  <2> QED
    BY <2>2 DEF FileOf, Held, readFile
<1> HIDE DEF bytes
<1>4. r = writeFile(fat, out, bytes, FALSE)
  BY DEF bytes
<1>5. CASE ~r.ok
  <2>1. r = Refused(fat)
    BY <1>4, <1>5, WriteMay
  <2>2. Finish(Refused(fat))
    BY <2>1
  <2> QED
    BY <2>2, Refusal
<1>6. CASE r.ok
  <2>1. FatInv' /\ Mountable(fat') /\ Store!Overwrite(out, bytes)
    BY <1>2, <1>4, <1>6, Overwrites
  <2>2. Store!Copy(name, out)
    BY <1>3, <2>1 DEF Store!Copy
  <2> QED
    BY <2>1, <2>2 DEF StoreStep, Store!Next
<1> QED
  BY <1>5, <1>6

\* cat and cp of files.
LEMMA ReaderStores ==
    ASSUME StoreInv, Shown, NEW names \in OneOrTwo, NEW name \in Names, NEW out \in Names,
           CatOver(names, out) \/ CatAppend(names, out) \/ Copy(name, out)
    PROVE  StoreStep
<1>0. Usable
  BY DEF CatOver, CatAppend, Copy
<1>1. mounted = TRUE /\ SoundFat(fat) /\ files = FilesOf(fat)
  BY <1>0, InUse
<1>2. names[1] \in Names /\ names[1] \in Range(names) /\ Head(names) = names[1]
  BY NamesGiven
<1>3. CASE Copy(name, out)
  <2> DEFINE r == writeFile(fat, out, readFile(fat, name), FALSE)
  <2>1. Finish(IF Readable(fat, name) THEN r ELSE Refused(fat))
    BY <1>3 DEF Copy
  <2>2. CASE Readable(fat, name)
    <3>1. Finish(r)
      BY <2>1, <2>2
    <3>2. r = writeFile(fat, out, readFile(fat, name), FALSE)
      OBVIOUS
    <3> HIDE DEF r
    <3> QED
      BY <1>0, <2>2, <3>1, <3>2, CopyWrites
  <2>3. CASE ~Readable(fat, name)
    <3>1. Finish(Refused(fat))
      BY <2>1, <2>3
    <3> QED
      BY <1>0, <3>1, Refusal
  <2> QED
    BY <2>2, <2>3
<1>4. CASE CatOver(names, out)
  <2> DEFINE n == names[1]
             r == writeFile(fat, out, readFile(fat, n), FALSE)
             all == \A m \in Range(names) : Readable(fat, m)
  <2>1. Finish(IF all THEN r ELSE Refused(fat))
    BY <1>2, <1>4 DEF CatOver
  <2>2. CASE all
    <3>1. Finish(r) /\ Readable(fat, n) /\ n \in Names
      BY <1>2, <2>1, <2>2
    <3>2. r = writeFile(fat, out, readFile(fat, n), FALSE)
      OBVIOUS
    <3> HIDE DEF r, n
    <3> QED
      BY <1>0, <3>1, <3>2, CopyWrites
  <2>3. CASE ~all
    <3>1. Finish(Refused(fat))
      BY <2>1, <2>3
    <3> QED
      BY <1>0, <3>1, Refusal
  <2> QED
    BY <2>2, <2>3
<1>5. CASE CatAppend(names, out)
  <2> DEFINE r == Done(fat)
             all == \A m \in Range(names) : Readable(fat, m)
  <2>1. Finish(IF all THEN r ELSE Refused(fat))
    BY <1>5 DEF CatAppend
  <2>2. CASE all
    <3>1. Finish(r) /\ r.ok /\ r.fat = fat
      BY <2>1, <2>2 DEF Done
    <3>2. fat.dir # <<>>
      BY <1>1, <1>2, <2>2, ReadableFacts
    <3>3. PICK d : Good(fat, d)
      BY <1>1 DEF SoundFat
    <3>4. Good(r.fat, d) /\ r.fat.dir # <<>>
      BY <3>1, <3>2, <3>3
    <3> HIDE DEF r
    <3>5. FatInv' /\ Mountable(fat') /\ Store!Commit(FilesOf(r.fat))
      BY <1>1, <3>1, <3>4, Commits
    <3>6. Store!Unmount
      BY <1>1, <3>1, <3>5 DEF Store!Unmount
    <3> QED
      BY <3>5, <3>6 DEF StoreStep, Store!Next
  <2>3. CASE ~all
    <3>1. Finish(Refused(fat))
      BY <2>1, <2>3
    <3> QED
      BY <1>0, <3>1, Refusal
  <2> QED
    BY <2>2, <2>3
<1> QED
  BY <1>3, <1>4, <1>5

\* Putting the same again changes nothing.
LEMMA PutsTwice ==
    ASSUME NEW f, NEW g, NEW h, NEW name, NEW data, Puts(f, g, name, data), Puts(g, h, name, data)
    PROVE  Puts(f, h, name, data)
<1> DEFINE a == FilesOf(f)
           b == FilesOf(g)
           c == FilesOf(h)
           perm == IF name \in DOMAIN a THEN a[name].perm ELSE READWRITE_PERMS
<1>1. /\ DOMAIN b = DOMAIN a \cup {name} /\ b[name] = [data |-> data, perm |-> perm]
      /\ \A other \in DOMAIN a \ {name} : b[other] = a[other]
  BY DEF Puts
<1>2. /\ DOMAIN c = DOMAIN b \cup {name}
      /\ c[name] = [data |-> data, perm |-> IF name \in DOMAIN b THEN b[name].perm ELSE READWRITE_PERMS]
      /\ \A other \in DOMAIN b \ {name} : c[other] = b[other]
  BY DEF Puts
<1> HIDE DEF a, b, c, perm
<1>3. /\ DOMAIN c = DOMAIN a \cup {name} /\ c[name] = [data |-> data, perm |-> perm]
      /\ \A other \in DOMAIN a \ {name} : c[other] = a[other]
  BY <1>1, <1>2
<1> QED
  BY <1>3 DEF Puts, a, c, perm

\* An empty file that may be written to can always be emptied again.
LEMMA EmptiedAgain ==
    ASSUME NEW f, NEW d, Good(f, d), NEW name, Found(f, name), MayWrite(Entry(f, name)),
           Held(f, Entry(f, name)) = <<>>
    PROVE  writeFile(f, name, <<>>, FALSE).ok
<1> DEFINE bytes == <<>>
           no == FALSE
           need == NeededBlocks(f, name, Len(bytes), no)
           size == Entry(f, name).size
<1>1. f.dir \in Seq(dirEntry) /\ f.freeBlocks \in Nat
  BY DEF Good, FatState
<1>2. size \in Nat
  <2>1. Entry(f, name) \in dirEntry
    BY <1>1, FoundFacts
  <2> QED
    BY <2>1 DEF dirEntry
<1>3. size = 0
  <2> DEFINE held == Held(f, Entry(f, name))
  <2>1. Len(held) = size
    BY <1>2 DEF Held, getContents
  <2>2. held = <<>>
    OBVIOUS
  <2> HIDE DEF held, size
  <2>3. Len(held) = 0
    BY <2>2
  <2> QED
    BY <2>1, <2>3
<1>4. Len(bytes) = 0
  OBVIOUS
<1>5. need = bytesToBlocks(Len(bytes)) - bytesToBlocks(size)
  BY DEF NeededBlocks
<1>6. bytesToBlocks(0) \in Nat
  BY BlocksHold
<1> HIDE DEF bytes, size, need
<1>7. need = 0
  BY <1>3, <1>4, <1>5, <1>6
<1>8. ~(f.freeBlocks < need)
  BY <1>1, <1>7
<1>9. ~(Found(f, name) /\ ~MayWrite(Entry(f, name)))
  OBVIOUS
<1> DEFINE r == writeFile(f, name, bytes, no)
<1>10. r = writeFile(f, name, bytes, no) /\ ~(f.freeBlocks < NeededBlocks(f, name, Len(bytes), no))
  BY <1>8 DEF need
<1> HIDE DEF r, no
<1>11. r.ok
  BY <1>9, <1>10, WriteMay
<1> QED
  BY <1>11 DEF r, no, bytes

\* cp from the host.
LEMMA HostStores ==
    ASSUME StoreInv, Shown, NEW name \in Names, NEW line \in Lines \cup {<<>>},
           CopyFromHost(name, line)
    PROVE  StoreStep
<1> DEFINE no == FALSE
           once == writeFile(fat, name, line, no)
           again == writeFile(once.fat, name, line, no)
           r == IF line = <<>> /\ once.ok THEN again ELSE once
<1>0. Usable /\ Finish(r)
  BY DEF CopyFromHost
<1>1. /\ mounted = TRUE /\ SoundFat(fat) /\ files = FilesOf(fat)
      /\ fat.dir \in Seq(dirEntry) /\ Unique(fat.dir)
  BY <1>0, InUse
<1>2. line \in Seq(Cell) /\ no \in BOOLEAN /\ ~no
  <2>1. CASE line \in Lines
    BY <2>1, LineCells
  <2>2. CASE line = <<>>
    BY <2>2
  <2> QED
    BY <2>1, <2>2
<1>3. PICK d : Good(fat, d)
  BY <1>1 DEF SoundFat
<1>4. CASE ~once.ok
  <2>1. once = Refused(fat)
    BY <1>4, WriteMay
  <2>2. Finish(Refused(fat))
    BY <1>0, <1>4, <2>1
  <2> QED
    BY <1>0, <2>2, Refusal
<1>5. CASE once.ok /\ line # <<>>
  <2>1. Finish(once) /\ once = writeFile(fat, name, line, FALSE)
    BY <1>0, <1>5
  <2> HIDE DEF once
  <2>2. FatInv' /\ Mountable(fat') /\ Store!Overwrite(name, line)
    BY <1>0, <1>2, <1>5, <2>1, Overwrites
  <2>3. Store!Next
    BY <2>2 DEF Store!Next
  <2> QED
    BY <2>2, <2>3 DEF StoreStep
<1>6. CASE once.ok /\ line = <<>>
  <2> DEFINE g == once.fat
  <2>1. Before(fat, name, no) \o line = line /\ Before(g, name, no) \o line = line
    <3>1. <<>> \o line = line
      BY <1>2
    <3> QED
      BY <1>2, <3>1 DEF Before
  <2>2. Good(g, d) /\ Puts(fat, g, name, line)
    <3>1. once = writeFile(fat, name, line, no) /\ once.ok
      BY <1>6
    <3> HIDE DEF once, no
    <3>2. Good(g, d) /\ Puts(fat, g, name, Before(fat, name, no) \o line)
      BY <1>2, <1>3, <3>1, WritePuts
    <3> QED
      BY <2>1, <3>2
  <2>3. Found(fat, name) => MayWrite(Entry(fat, name))
    BY <1>6, WriteMay
  <2> HIDE DEF g, no
  <2>4. Found(g, name) /\ MayWrite(Entry(g, name)) /\ Held(g, Entry(g, name)) = line
    <3>1. g.dir \in Seq(dirEntry) /\ Unique(g.dir)
      BY <2>2 DEF Good, FatState
    <3>2. /\ Found(g, name) <=> name \in DOMAIN FilesOf(g)
          /\ Found(g, name) => FilesOf(g)[name] = FileOf(g, Entry(g, name))
      BY <3>1, FoundFile
    <3>3. /\ Found(fat, name) <=> name \in DOMAIN FilesOf(fat)
          /\ Found(fat, name) => FilesOf(fat)[name] = FileOf(fat, Entry(fat, name))
      BY <1>1, FoundFile
    <3>4. /\ name \in DOMAIN FilesOf(g) /\ FilesOf(g)[name].data = line
          /\ FilesOf(g)[name].perm = IF Found(fat, name) THEN FilesOf(fat)[name].perm ELSE READWRITE_PERMS
      BY <2>2, <3>3 DEF Puts
    <3>5. Held(g, Entry(g, name)) = line /\ Entry(g, name).perm = FilesOf(g)[name].perm
      BY <3>2, <3>4 DEF FileOf
    <3>6. Found(fat, name) => FilesOf(fat)[name].perm = Entry(fat, name).perm
      BY <3>3 DEF FileOf
    <3> QED
      BY <2>3, <3>2, <3>4, <3>5, <3>6 DEF MayWrite
  <2>5. again.ok
    <3>1. line = <<>> /\ no = FALSE
      BY <1>6 DEF no
    <3>2. writeFile(g, name, <<>>, FALSE).ok
      BY <2>2, <2>4, <3>1, EmptiedAgain
    <3> QED
      BY <3>1, <3>2 DEF g
  <2>6. again = writeFile(g, name, line, no)
    BY DEF g
  <2>7. Finish(again)
    BY <1>0, <1>6
  <2> HIDE DEF again
  <2>8. Good(again.fat, d) /\ again.fat.dir # <<>> /\ Puts(g, again.fat, name, line)
    <3>1. /\ Good(again.fat, d) /\ again.fat.dir # <<>>
          /\ Puts(g, again.fat, name, Before(g, name, no) \o line)
      BY <1>2, <2>2, <2>5, <2>6, WritePuts
    <3> QED
      BY <2>1, <3>1
  <2>9. Puts(fat, again.fat, name, line)
    BY <2>2, <2>8, PutsTwice
  <2>10. FatInv' /\ Mountable(fat') /\ Store!Commit(FilesOf(again.fat))
    BY <1>1, <2>5, <2>7, <2>8, Commits
  <2>11. Store!Writable(name)
    BY <1>1, <2>3, WritableFile
  <2>12. FilesOf(again.fat) = Store!With(name, line)
    BY <1>1, <2>9, PutsWith
  <2>13. Store!Overwrite(name, line)
    BY <2>10, <2>11, <2>12 DEF Store!Overwrite
  <2>14. Store!Next
    BY <2>13 DEF Store!Next
  <2> QED
    BY <2>10, <2>14 DEF StoreStep
<1> QED
  BY <1>4, <1>5, <1>6

\* Appending nothing, to a file that does not fill its last block, leaves the
\* image alone.
LEMMA NothingAppended ==
    ASSUME NEW f, NEW name, Found(f, name) => \/ Entry(f, name).size = 0
                                              \/ Entry(f, name).size % BlockSize # 0
    PROVE  SameImage(f, writeFile(f, name, <<>>, TRUE).fat)
<1> DEFINE bytes == <<>>
           found == Found(f, name)
           e     == Entry(f, name)
           extends == found /\ e.size # 0
           atEdge  == e.size % BlockSize = 0
           last    == LastBlock(f.blocks, e.firstBlock)
           start   == IF ~extends THEN FirstFree(f.blocks, 1, 1)
                      ELSE IF atEdge THEN FirstFree(f.blocks, 1, 0) ELSE last
           linked  == IF extends /\ atEdge THEN [f.blocks EXCEPT ![last] = start] ELSE f.blocks
           offset  == IF extends THEN e.size % BlockSize ELSE 0
           w == WriteCells(linked, f.disk, start, offset, bytes)
<1>2. linked = f.blocks
  OBVIOUS
<1>3. w.blocks = linked /\ w.disk = f.disk
  <2> DEFINE v == WriteLoop(linked, f.disk, start, offset, bytes)
             none == 0
  <2>0. bytes \in Seq(Cell)
    OBVIOUS
  <2>1. Len(bytes) = none
    OBVIOUS
  <2>2. w = v[Len(bytes)]
    BY Zenon DEF WriteCells
  <2> HIDE DEF bytes, linked, start, offset
  <2>3. v[none] = [blocks |-> linked, disk |-> f.disk, currIndex |-> start, byteIdx |-> 0,
                   position |-> (start - 1) * BlockSize + offset]
    BY <2>0, LoopSteps
  <2> HIDE DEF v, w, none
  <2> QED
    BY <2>1, <2>2, <2>3
<1> DEFINE value == writeFile(f, name, bytes, TRUE)
<1>4. \/ value = Refused(f)
      \/ \E n, dir : value = Done([blocks |-> w.blocks, disk |-> w.disk, freeBlocks |-> n, dir |-> dir])
  BY Zenon DEF writeFile
<1> HIDE DEF w, linked, value
<1>5. SameImage(f, value.fat)
  <2>1. CASE value = Refused(f)
    BY <2>1 DEF Refused, SameImage
  <2>2. ASSUME NEW n, NEW dir,
               value = Done([blocks |-> w.blocks, disk |-> w.disk, freeBlocks |-> n, dir |-> dir])
        PROVE  SameImage(f, value.fat)
    <3>1. value.fat = [blocks |-> w.blocks, disk |-> w.disk, freeBlocks |-> n, dir |-> dir]
      BY <2>2 DEF Done
    <3> QED
      BY <1>2, <1>3, <3>1 DEF SameImage
  <2> QED
    BY <1>4, <2>1, <2>2
<1> QED
  BY <1>5 DEF value, bytes

\* The files of g are those of f and empty ones of the names in S.
Creates(f, g, S) ==
    /\ DOMAIN FilesOf(g) = DOMAIN FilesOf(f) \cup S
    /\ \A x \in DOMAIN FilesOf(g) :
          FilesOf(g)[x] = IF x \in DOMAIN FilesOf(f) THEN FilesOf(f)[x]
                          ELSE [data |-> <<>>, perm |-> READWRITE_PERMS]

LEMMA CreatesMore ==
    ASSUME NEW f, NEW g, NEW h, NEW S, NEW T, Creates(f, g, S), Creates(g, h, T)
    PROVE  Creates(f, h, S \cup T)
BY DEF Creates

\* Creating files.
LEMMA CreatesCreated ==
    ASSUME NEW f, files = FilesOf(f), NEW g, NEW S, Creates(f, g, S)
    PROVE  FilesOf(g) = Store!Created(S)
<1> DEFINE a == Store!Created(S)
           b == FilesOf(g)
<1>1. IsFun(a) /\ DOMAIN a = DOMAIN files \cup S
  BY DEF IsFun, Store!Created
<1>2. IsFun(b) /\ DOMAIN b = DOMAIN files \cup S
  BY FilesFun DEF Creates
<1>3. \A x \in DOMAIN b : b[x] = a[x]
  BY DEF Creates, Store!Created, Store!Exists, READWRITE_PERMS
<1> HIDE DEF a, b
<1>4. b = a
  BY <1>1, <1>2, <1>3, Agree
<1> QED
  BY <1>4 DEF a, b

\* touch of one file.
LEMMA TouchCreates ==
    ASSUME NEW f, NEW d, Good(f, d), NEW names, NEW name \in Names, name \in names,
           PartlyFilled(f, names), NEW r, r = writeFile(f, name, <<>>, TRUE), r.ok
    PROVE  /\ Good(r.fat, d) /\ r.fat.dir # <<>> /\ PartlyFilled(r.fat, names)
           /\ SameImage(f, r.fat) /\ Creates(f, r.fat, {name})
           /\ Found(f, name) => MayWrite(Entry(f, name))
<1> DEFINE w == writeFile(f, name, <<>>, TRUE)
           g == r.fat
<1>1. f.dir \in Seq(dirEntry) /\ Unique(f.dir) /\ f.disk \in Region
  BY DEF Good, FatState
<1>2. Good(g, d) /\ g.dir # <<>> /\ PartlyFilled(g, names)
  <2>1. r = w
    OBVIOUS
  <2>2. \/ w = Refused(f)
        \/ \E h : w = Done(h) /\ Good(h, d) /\ h.dir # <<>> /\ PartlyFilled(h, names)
    BY TouchGood
  <2>3. ~Refused(f).ok /\ \A h : Done(h).fat = h
    BY DEF Refused, Done
  <2> HIDE DEF w
  <2>4. PICK h : w = Done(h) /\ Good(h, d) /\ h.dir # <<>> /\ PartlyFilled(h, names)
    BY <2>1, <2>2, <2>3, Zenon
  <2>5. g = h
    BY <2>1, <2>3, <2>4, Zenon
  <2> QED
    BY <2>4, <2>5, Zenon
<1>3. Found(f, name) => MayWrite(Entry(f, name))
  BY WriteMay
<1>4. ASSUME Found(f, name)
      PROVE  /\ Entry(f, name).size \in Nat
             /\ Entry(f, name).size = 0 \/ Entry(f, name).size % BlockSize # 0
  <2>1. getDirEntryNode(f, name) \in 1 .. Len(f.dir) /\ Entry(f, name) = f.dir[getDirEntryNode(f, name)]
        /\ Entry(f, name) \in dirEntry /\ Entry(f, name).name = name
    BY <1>1, <1>4, FoundFacts
  <2> QED
    BY <2>1 DEF PartlyFilled, dirEntry
<1>5. SameImage(f, g)
  BY <1>4, NothingAppended, Zenon
<1>6. Puts(f, g, name, Before(f, name, TRUE) \o <<>>)
  <2> DEFINE yes == TRUE
             bytes == <<>>
  <2>1. bytes \in Seq(Cell) /\ bytes = <<>> /\ Len(bytes) = 0 /\ yes \in BOOLEAN
    OBVIOUS
  <2>2. r = writeFile(f, name, bytes, yes)
    OBVIOUS
  <2> HIDE DEF bytes, yes
  <2>3. yes /\ Found(f, name) => Extendable(Entry(f, name).size, bytes)
    <3> SUFFICES ASSUME Found(f, name) PROVE Extendable(Entry(f, name).size, bytes)
      OBVIOUS
    <3> DEFINE size == Entry(f, name).size
    <3>1. size \in Nat /\ (size = 0 \/ size % BlockSize # 0)
      BY <1>4
    <3>2. size % BlockSize \in 0 .. BlockSize - 1 /\ BlockSize \in Nat
      BY <3>1, DivFacts, SizeFacts
    <3> HIDE DEF size
    <3>3. (size % BlockSize) + Len(bytes) <= BlockSize
      BY <2>1, <3>2
    <3>4. Extendable(size, bytes)
      BY <2>1, <3>1, <3>3 DEF Extendable
    <3> QED
      BY <3>4 DEF size
  <2>4. bytes \in Seq(Cell) /\ yes \in BOOLEAN
    BY <2>1
  <2>5. Puts(f, g, name, Before(f, name, yes) \o bytes)
    BY <2>2, <2>3, <2>4, WritePuts
  <2> QED
    BY <2>5 DEF yes, bytes
<1>7. CASE ~Found(f, name)
  <2>1. Before(f, name, TRUE) \o <<>> = <<>>
    BY <1>7 DEF Before
  <2>2. name \notin DOMAIN FilesOf(f)
    BY <1>1, <1>7, FoundFile
  <2>3. Puts(f, g, name, <<>>)
    BY <1>6, <2>1
  <2>4. Creates(f, g, {name})
    BY <2>2, <2>3 DEF Puts, Creates
  <2> QED
    BY <1>2, <1>3, <1>5, <2>4
<1>8. CASE Found(f, name)
  <2> DEFINE held == Held(f, Entry(f, name))
  <2>1. name \in DOMAIN FilesOf(f) /\ FilesOf(f)[name] = FileOf(f, Entry(f, name))
    BY <1>1, <1>8, FoundFile
  <2>2. held \in Seq(Cell)
    <3> DEFINE n == Entry(f, name).size
               b == Entry(f, name).firstBlock
    <3>1. n \in Nat
      BY <1>4, <1>8
    <3> HIDE DEF n, b
    <3>2. getContents(f, b, n) \in Seq(Cell)
      BY <1>1, <3>1, ReadCells
    <3> QED
      BY <3>2 DEF Held, n, b
  <2>3. Before(f, name, TRUE) = held
    BY <1>8 DEF Before
  <2> HIDE DEF held
  <2>4. held \o <<>> = held
    BY <2>2
  <2>5. Puts(f, g, name, held)
    BY <1>6, <2>3, <2>4
  <2>6. FilesOf(f)[name] = [data |-> held, perm |-> FilesOf(f)[name].perm]
    BY <2>1 DEF FileOf, held
  <2>7. Creates(f, g, {name})
    BY <2>1, <2>5, <2>6 DEF Puts, Creates
  <2> QED
    BY <1>2, <1>3, <1>5, <2>7
<1> QED
  BY <1>7, <1>8

\* What is created in a copy of the file system could have been in the first.
LEMMA StillMayWrite ==
    ASSUME NEW f, f.dir \in Seq(dirEntry), Unique(f.dir), NEW g, g.dir \in Seq(dirEntry), Unique(g.dir),
           NEW S, Creates(f, g, S), NEW name, Found(g, name) => MayWrite(Entry(g, name))
    PROVE  Found(f, name) => MayWrite(Entry(f, name))
<1>1. /\ Found(g, name) <=> name \in DOMAIN FilesOf(g)
      /\ Found(g, name) => FilesOf(g)[name] = FileOf(g, Entry(g, name))
  BY FoundFile
<1>2. /\ Found(f, name) <=> name \in DOMAIN FilesOf(f)
      /\ Found(f, name) => FilesOf(f)[name] = FileOf(f, Entry(f, name))
  BY FoundFile
<1>3. Found(f, name) => Found(g, name) /\ FilesOf(g)[name] = FilesOf(f)[name]
  BY <1>1, <1>2 DEF Creates
<1>4. /\ Found(g, name) => FilesOf(g)[name].perm = Entry(g, name).perm
      /\ Found(f, name) => FilesOf(f)[name].perm = Entry(f, name).perm
  BY <1>1, <1>2 DEF FileOf
<1> QED
  BY <1>3, <1>4 DEF MayWrite

\* Files that were created and saved.
LEMMA CreatesCommits ==
    ASSUME StoreInv, Usable, Shown, NEW r, r.ok, Finish(r), NEW d, Good(r.fat, d), r.fat.dir # <<>>,
           NEW S \in SUBSET Names, Creates(fat, r.fat, S),
           \A name \in S : Found(fat, name) => MayWrite(Entry(fat, name))
    PROVE  StoreStep
<1>1. /\ mounted = TRUE /\ files = FilesOf(fat)
      /\ fat.dir \in Seq(dirEntry) /\ Unique(fat.dir)
  BY InUse
<1>2. FatInv' /\ Mountable(fat') /\ Store!Commit(FilesOf(r.fat))
  BY <1>1, Commits
<1>3. FilesOf(r.fat) = Store!Created(S)
  BY <1>1, CreatesCreated
<1>4. \A name \in S : Store!Writable(name)
  BY <1>1, WritableFile
<1>5. Store!Create(S)
  BY <1>2, <1>3, <1>4 DEF Store!Create
<1> QED
  BY <1>2, <1>5 DEF StoreStep, Store!Next

\* Files that were created before the command failed.
LEMMA CreatesFails ==
    ASSUME StoreInv, Usable, Shown, NEW g, Finish(Refused(g)), NEW d, Good(g, d), g.dir # <<>>,
           SameImage(fat, g), NEW S \in SUBSET Names, Creates(fat, g, S)
    PROVE  StoreStep
<1>1. mounted = TRUE /\ files = FilesOf(fat)
  BY InUse
<1>2. fat' = g /\ mounted' = TRUE /\ result' = "failed"
  BY <1>1 DEF Finish, Refused
<1>3. FatInv' /\ fat' \in FatState /\ SameImage(fat, fat')
  <2>1. SoundFat(g) /\ g \in FatState
    BY DEF SoundFat, Good
  <2> QED
    BY <1>2, <2>1 DEF FatInv
<1>4. Mountable(fat') /\ saved' = saved /\ files' = FilesOf(g)
  BY <1>2, <1>3, Keeps
<1>5. FilesOf(g) = Store!Created(S)
  BY <1>1, CreatesCreated
<1>6. Store!Fail
  BY <1>2, <1>4, <1>5 DEF Store!Fail
<1> QED
  BY <1>3, <1>4, <1>6 DEF StoreStep, Store!Next

\* touch.
LEMMA TouchStores ==
    ASSUME StoreInv, Shown, Uses \subseteq Stored, NEW names \in OneOrTwo, Touch(names)
    PROVE  StoreStep
<1> DEFINE S == Range(names)
           n1 == names[1]
           n2 == names[2]
           r1 == writeFile(fat, n1, <<>>, TRUE)
           r2 == writeFile(r1.fat, n2, <<>>, TRUE)
           r == IF r1.ok /\ Len(names) = 2 THEN r2 ELSE r1
<1>0. Usable /\ Finish(r)
  BY Zenon DEF Touch, InTurn
<1>1. /\ SoundFat(fat) /\ fat.dir \in Seq(dirEntry) /\ Unique(fat.dir)
  BY <1>0, InUse
<1>2. /\ n1 \in Names /\ n1 \in S /\ (Len(names) = 1 \/ Len(names) = 2)
      /\ Len(names) = 2 => n2 \in Names /\ n2 \in S
  BY NamesGiven
<1>3. PartlyFilled(fat, S)
  <2>1. ~In("touch full")
    BY DEF In, Stored
  <2> QED
    BY <1>1, <2>1, TouchesPartly
<1>4. PICK d : Good(fat, d)
  BY <1>1 DEF SoundFat
<1>5. r1 = writeFile(fat, n1, <<>>, TRUE) /\ r2 = writeFile(r1.fat, n2, <<>>, TRUE)
  OBVIOUS
<1>6. r = IF r1.ok /\ Len(names) = 2 THEN r2 ELSE r1
  OBVIOUS
<1> HIDE DEF S, n1, n2, r1, r2, r
<1>7. CASE ~r1.ok
  <2>1. r1 = Refused(fat)
    BY <1>5, <1>7, WriteMay
  <2>2. r = Refused(fat)
    BY <1>6, <1>7, <2>1
  <2>3. Finish(Refused(fat))
    BY <1>0, <2>2
  <2> QED
    BY <1>0, <2>3, Refusal
<1>8. CASE r1.ok
  <2> DEFINE g == r1.fat
  <2>1. /\ Good(g, d) /\ g.dir # <<>> /\ PartlyFilled(g, S)
        /\ SameImage(fat, g) /\ Creates(fat, g, {n1})
        /\ Found(fat, n1) => MayWrite(Entry(fat, n1))
    BY <1>2, <1>3, <1>4, <1>5, <1>8, TouchCreates
  <2>2. CASE Len(names) # 2
    <3>1. r = r1
      BY <1>6, <2>2
    <3>2. {n1} \in SUBSET Names /\ \A name \in {n1} : Found(fat, name) => MayWrite(Entry(fat, name))
      BY <1>2, <2>1
    <3>3. Finish(r1)
      BY <1>0, <3>1
    <3> QED
      BY <1>0, <1>8, <2>1, <3>2, <3>3, CreatesCommits
  <2>3. CASE Len(names) = 2
    <3> HIDE DEF g
    <3>1. r = r2 /\ n2 \in Names /\ n2 \in S /\ Finish(r2) /\ r2 = writeFile(g, n2, <<>>, TRUE)
      BY <1>0, <1>2, <1>5, <1>6, <1>8, <2>3 DEF g
    <3>2. CASE ~r2.ok
      <4>1. r2 = Refused(g)
        BY <3>1, <3>2, WriteMay
      <4>2. Finish(Refused(g))
        BY <3>1, <4>1
      <4>3. {n1} \in SUBSET Names
        BY <1>2
      <4> QED
        BY <1>0, <2>1, <4>2, <4>3, CreatesFails
    <3>3. CASE r2.ok
      <4>1. /\ Good(r2.fat, d) /\ r2.fat.dir # <<>> /\ Creates(g, r2.fat, {n2})
            /\ Found(g, n2) => MayWrite(Entry(g, n2))
        BY <2>1, <3>1, <3>3, TouchCreates
      <4>2. g.dir \in Seq(dirEntry) /\ Unique(g.dir)
        BY <2>1 DEF Good, FatState
      <4>3. Found(fat, n2) => MayWrite(Entry(fat, n2))
        BY <1>1, <2>1, <4>1, <4>2, StillMayWrite
      <4>4. Creates(fat, r2.fat, {n1} \cup {n2})
        BY <2>1, <4>1, CreatesMore
      <4>5. /\ {n1} \cup {n2} \in SUBSET Names
            /\ \A name \in {n1} \cup {n2} : Found(fat, name) => MayWrite(Entry(fat, name))
        BY <1>2, <2>1, <3>1, <4>3
      <4> QED
        BY <1>0, <3>1, <3>3, <4>1, <4>4, <4>5, CreatesCommits
    <3> QED
      BY <3>2, <3>3
  <2> QED
    BY <2>2, <2>3
<1> QED
  BY <1>7, <1>8

\* One entry is replaced by one with contents that were there.
EntryReplaced(f, g, i, e) ==
    SameImage(f, g) /\ g \in FatState /\ g.dir = Replaced(f.dir, i, e)

\* What that makes of the files: one has another name or permission.
ReplacesFile(f, g, old, new, file) ==
    /\ DOMAIN FilesOf(g) = (DOMAIN FilesOf(f) \ {old}) \cup {new}
    /\ FilesOf(g)[new] = file
    /\ \A x \in DOMAIN FilesOf(f) \ {old} : x # new /\ FilesOf(g)[x] = FilesOf(f)[x]

LEMMA FileReplaced ==
    ASSUME NEW f, f.dir \in Seq(dirEntry), Unique(f.dir), NEW i \in 1 .. Len(f.dir),
           NEW e \in dirEntry, \A j \in 1 .. Len(f.dir) : j # i => f.dir[j].name # e.name,
           NEW g, EntryReplaced(f, g, i, e)
    PROVE  ReplacesFile(f, g, f.dir[i].name, e.name, FileOf(f, e))
<1> DEFINE dir == f.dir
           s == g.dir
           a == FilesOf(f)
           b == FilesOf(g)
           file(x) == FileOf(f, x)
<1>1. /\ s \in Seq(dirEntry) /\ Len(s) = Len(dir) /\ Unique(s)
      /\ \A j \in 1 .. Len(dir) : s[j] = IF j = i THEN e ELSE dir[j]
  <2> DEFINE t == [dir EXCEPT ![i] = e]
  <2>1. t \in Seq(dirEntry) /\ Len(t) = Len(dir) /\ Unique(t)
    BY EntryChanged, UniqueStays
  <2>2. \A j \in 1 .. Len(dir) : t[j] = IF j = i THEN e ELSE dir[j]
    OBVIOUS
  <2>3. s = t
    BY DEF EntryReplaced, Replaced
  <2> HIDE DEF t, s
  <2> QED
    BY <2>1, <2>2, <2>3
<1>2. /\ DOMAIN a = {dir[j].name : j \in 1 .. Len(dir)}
      /\ \A j \in 1 .. Len(dir) : a[dir[j].name] = file(dir[j])
  BY FilesAre
<1>3. /\ DOMAIN b = {s[j].name : j \in 1 .. Len(s)}
      /\ \A j \in 1 .. Len(s) : b[s[j].name] = FileOf(g, s[j])
  BY <1>1, FilesAre
<1>4. \A x : FileOf(g, x) = file(x)
  BY ReadAlike DEF FileOf, Held, EntryReplaced, SameImage
<1>5. i \in 1 .. Len(dir) /\ \A j \in 1 .. Len(dir) : j # i => dir[j].name # e.name
  OBVIOUS
<1>6. \A j \in 1 .. Len(dir) : j # i => dir[j].name # dir[i].name
  BY DEF Unique
<1> HIDE DEF dir, s, a, b, file
<1>7. DOMAIN b = (DOMAIN a \ {dir[i].name}) \cup {e.name}
  <2>1. \A j \in 1 .. Len(s) : s[j].name = IF j = i THEN e.name ELSE dir[j].name
    BY <1>1
  <2>2. ASSUME NEW x \in DOMAIN b PROVE x \in (DOMAIN a \ {dir[i].name}) \cup {e.name}
    <3>1. PICK j \in 1 .. Len(s) : x = s[j].name
      BY <1>3
    <3>2. CASE j = i
      BY <2>1, <3>1, <3>2
    <3>3. CASE j # i
      <4>1. x = dir[j].name /\ j \in 1 .. Len(dir)
        BY <1>1, <2>1, <3>1, <3>3
      <4> QED
        BY <1>2, <1>6, <3>3, <4>1
    <3> QED
      BY <3>2, <3>3
  <2>3. ASSUME NEW x \in DOMAIN a \ {dir[i].name} PROVE x \in DOMAIN b
    <3>1. PICK j \in 1 .. Len(dir) : x = dir[j].name /\ j # i
      BY <1>2, <2>3
    <3>2. s[j].name = x /\ j \in 1 .. Len(s)
      BY <1>1, <2>1, <3>1
    <3> QED
      BY <1>3, <3>2
  <2>4. e.name \in DOMAIN b
    <3>1. s[i].name = e.name /\ i \in 1 .. Len(s)
      BY <1>1, <1>5, <2>1
    <3> QED
      BY <1>3, <3>1
  <2> QED
    BY <2>2, <2>3, <2>4
<1>8. b[e.name] = file(e)
  BY <1>1, <1>3, <1>4, <1>5
<1>9. ASSUME NEW x \in DOMAIN a \ {dir[i].name}
      PROVE  x # e.name /\ b[x] = a[x]
  <2>1. PICK j \in 1 .. Len(dir) : x = dir[j].name /\ j # i
    BY <1>2, <1>9
  <2>2. s[j] = dir[j] /\ j \in 1 .. Len(s)
    BY <1>1, <2>1
  <2> QED
    BY <1>2, <1>3, <1>4, <1>5, <2>1, <2>2
<1> QED
  BY <1>7, <1>8, <1>9 DEF ReplacesFile, dir, a, b, file

\* A file system in which an entry was replaced.
LEMMA Replacing ==
    ASSUME NEW f \in FatState, NEW i \in 1 .. Len(f.dir), NEW e \in dirEntry,
           NEW g, g = [f EXCEPT !.dir = Replaced(f.dir, i, e)]
    PROVE  EntryReplaced(f, g, i, e)
<1> DEFINE t == Replaced(f.dir, i, e)
<1>1. t \in Seq(dirEntry)
  <2>1. f.dir \in Seq(dirEntry)
    BY DEF FatState
  <2> QED
    BY <2>1, EntryChanged DEF Replaced
<1>2. g = [f EXCEPT !.dir = t]
  OBVIOUS
<1> HIDE DEF t
<1>3. g = [blocks |-> f.blocks, disk |-> f.disk, dir |-> t, freeBlocks |-> f.freeBlocks]
  BY <1>2 DEF FatState
<1>4. g \in FatState /\ g.dir = t /\ g.blocks = f.blocks /\ g.disk = f.disk
  BY <1>1, <1>3 DEF FatState
<1> QED
  BY <1>4 DEF EntryReplaced, SameImage, t

\* chmod.
LEMMA ChmodReplaces ==
    ASSUME NEW f \in FatState, Unique(f.dir), NEW name, Found(f, name), NEW perm \in Permission
    PROVE  \E g : /\ chmodFile(f, name, perm) = Done(g)
                  /\ ReplacesFile(f, g, name, name, [data |-> Held(f, Entry(f, name)), perm |-> perm])
<1> DEFINE i == getDirEntryNode(f, name)
           e == [f.dir[i] EXCEPT !.perm = perm]
           g == [f EXCEPT !.dir = [f.dir EXCEPT ![i] = e]]
<1>1. f.dir \in Seq(dirEntry)
  BY DEF FatState
<1>2. /\ i \in 1 .. Len(f.dir) /\ f.dir[i] \in dirEntry /\ f.dir[i].name = name
      /\ Entry(f, name) = f.dir[i]
  BY <1>1, FoundFacts
<1> HIDE DEF i
<1>3. /\ e \in dirEntry /\ e.size = f.dir[i].size /\ e.firstBlock = f.dir[i].firstBlock
      /\ e.name = name /\ e.perm = perm
  BY <1>2 DEF dirEntry
<1>4. [f EXCEPT !.dir[i].perm = perm] = g
  BY <1>1, <1>2 DEF FatState, dirEntry
<1>5. chmodFile(f, name, perm) = Done(g)
  BY <1>4 DEF chmodFile, i
<1>6. \A j \in 1 .. Len(f.dir) : j # i => f.dir[j].name # e.name
  BY <1>1, <1>2, <1>3 DEF Unique
<1>7. g = [f EXCEPT !.dir = Replaced(f.dir, i, e)]
  BY DEF Replaced
<1> HIDE DEF e, g
<1>8. EntryReplaced(f, g, i, e)
  BY <1>2, <1>3, <1>7, Replacing
<1>9. ReplacesFile(f, g, f.dir[i].name, e.name, FileOf(f, e))
  BY <1>1, <1>2, <1>3, <1>6, <1>8, FileReplaced
<1>10. FileOf(f, e) = [data |-> Held(f, Entry(f, name)), perm |-> perm]
  BY <1>2, <1>3 DEF FileOf, Held
<1>11. ReplacesFile(f, g, name, name, [data |-> Held(f, Entry(f, name)), perm |-> perm])
  BY <1>2, <1>3, <1>9, <1>10
<1> QED
  BY <1>5, <1>11

\* chmod as a step of the store.
LEMMA ChmodStores ==
    ASSUME StoreInv, Shown, NEW name \in Names, NEW perm \in Perms, Chmod(name, perm)
    PROVE  StoreStep
<1> DEFINE r == chmodFile(fat, name, perm)
           file == [data |-> Held(fat, Entry(fat, name)), perm |-> perm]
<1>1. Usable /\ Finish(r)
  BY DEF Chmod
<1>2. /\ mounted = TRUE /\ SoundFat(fat) /\ files = FilesOf(fat) /\ fat \in FatState
      /\ fat.dir \in Seq(dirEntry) /\ Unique(fat.dir)
  BY <1>1, InUse
<1>3. PICK d : Good(fat, d)
  BY <1>2 DEF SoundFat
<1>4. perm \in Permission
  BY PermsAssumption
<1>5. CASE ~Found(fat, name)
  <2>1. r = Refused(fat)
    BY <1>5 DEF chmodFile
  <2>2. Finish(Refused(fat))
    BY <1>1, <2>1
  <2> QED
    BY <1>1, <2>2, Refusal
<1>6. CASE Found(fat, name)
  <2>1. PICK g : r = Done(g) /\ ReplacesFile(fat, g, name, name, file)
    BY <1>2, <1>4, <1>6, ChmodReplaces
  <2>2. r = Refused(fat) \/ \E h : r = Done(h) /\ Good(h, d) /\ h.dir # <<>>
    BY <1>3, <1>4, ChmodGood
  <2> HIDE DEF r, file
  <2>3. r.ok /\ r.fat = g /\ Good(r.fat, d) /\ r.fat.dir # <<>>
    BY <2>1, <2>2 DEF Done, Refused
  <2>4. FatInv' /\ Mountable(fat') /\ Store!Commit(FilesOf(r.fat))
    BY <1>1, <1>2, <2>3, Commits
  <2>5. FilesOf(g) = [files EXCEPT ![name].perm = perm]
    <3> DEFINE a == [files EXCEPT ![name].perm = perm]
               b == FilesOf(g)
    <3>1. name \in DOMAIN files /\ files[name] = FileOf(fat, Entry(fat, name))
      BY <1>2, <1>6, FoundFile
    <3>2. IsFun(files) /\ IsFun(b)
      BY <1>2, FilesFun
    <3>3. IsFun(a) /\ DOMAIN a = DOMAIN files
      BY DEF IsFun
    <3>4. a[name] = file
      BY <3>1 DEF FileOf, file
    <3>5. \A x \in DOMAIN files \ {name} : a[x] = files[x]
      BY <3>1
    <3>6. DOMAIN b = DOMAIN files /\ b[name] = file /\ \A x \in DOMAIN files \ {name} : b[x] = files[x]
      BY <1>2, <2>1, <3>1 DEF ReplacesFile
    <3> HIDE DEF a, b
    <3>7. b = a
      BY <3>2, <3>3, <3>4, <3>5, <3>6, Agree
    <3> QED
      BY <3>7 DEF a, b
  <2>6. Store!Exists(name)
    BY <1>2, <1>6, WritableFile
  <2>7. Store!Chmod(name, perm)
    BY <2>3, <2>4, <2>5, <2>6 DEF Store!Chmod
  <2> QED
    BY <2>4, <2>7 DEF StoreStep, Store!Next
<1> QED
  BY <1>5, <1>6

\* mv to a name that is not taken.
LEMMA RenameReplaces ==
    ASSUME NEW f \in FatState, Unique(f.dir), NEW old, NEW new \in Names, old # new,
           ~Found(f, new)
    PROVE  \/ renameFile(f, old, new) = Refused(f)
           \/ /\ Found(f, old)
              /\ \E g : /\ renameFile(f, old, new) = Done(g) /\ SameImage(f, g) /\ g \in FatState
                       /\ ReplacesFile(f, g, old, new, FilesOf(f)[old])
<1>1. CASE ~Found(f, old) \/ Entry(f, old).perm \in {NONE_PERMS, READ_PERMS}
  BY <1>1 DEF renameFile
<1>2. CASE ~(~Found(f, old) \/ Entry(f, old).perm \in {NONE_PERMS, READ_PERMS})
  <2> DEFINE h == deleteFile(f, new).fat
             i == getDirEntryNode(f, old)
             e == [f.dir[i] EXCEPT !.name = new]
             g == [f EXCEPT !.dir = [f.dir EXCEPT ![i] = e]]
  <2>1. f.dir \in Seq(dirEntry) /\ Found(f, old)
    BY <1>2 DEF FatState
  <2>2. h = f
    BY DEF deleteFile, Refused
  <2>3. renameFile(f, old, new) = Done([h EXCEPT !.dir[getDirEntryNode(h, old)].name = new])
    BY <1>2, Zenon DEF renameFile
  <2> HIDE DEF h
  <2>4. renameFile(f, old, new) = Done([f EXCEPT !.dir[i].name = new])
    BY <2>2, <2>3
  <2>5. /\ i \in 1 .. Len(f.dir) /\ f.dir[i] \in dirEntry /\ f.dir[i].name = old
        /\ Entry(f, old) = f.dir[i]
    BY <2>1, FoundFacts
  <2> HIDE DEF i
  <2>6. /\ e \in dirEntry /\ e.size = f.dir[i].size /\ e.firstBlock = f.dir[i].firstBlock
        /\ e.perm = f.dir[i].perm /\ e.name = new
    BY <2>5 DEF dirEntry
  <2>7. [f EXCEPT !.dir[i].name = new] = g
    BY <2>1, <2>5 DEF FatState, dirEntry
  <2>8. \A j \in 1 .. Len(f.dir) : j # i => f.dir[j].name # e.name
    BY <2>1, <2>6, FoundFacts
  <2>9. g = [f EXCEPT !.dir = Replaced(f.dir, i, e)]
    BY DEF Replaced
  <2> HIDE DEF e, g
  <2>10. EntryReplaced(f, g, i, e)
    BY <2>5, <2>6, <2>9, Replacing
  <2>11. ReplacesFile(f, g, f.dir[i].name, e.name, FileOf(f, e))
    BY <2>1, <2>5, <2>6, <2>8, <2>10, FileReplaced
  <2>12. FileOf(f, e) = FilesOf(f)[old]
    <3>1. FilesOf(f)[old] = FileOf(f, f.dir[i])
      BY <2>1, <2>5, FoundFile
    <3>2. FileOf(f, e) = FileOf(f, f.dir[i])
      BY <2>6 DEF FileOf, Held
    <3> QED
      BY <3>1, <3>2
  <2>13. ReplacesFile(f, g, old, new, FilesOf(f)[old])
    BY <2>5, <2>6, <2>11, <2>12
  <2> QED
    BY <2>1, <2>4, <2>7, <2>10, <2>13 DEF EntryReplaced
<1> QED
  BY <1>1, <1>2

\* A rename that is not refused was allowed.
LEMMA RenameAllowed ==
    ASSUME NEW f, NEW old, NEW new, renameFile(f, old, new) # Refused(f)
    PROVE  Found(f, old) /\ Entry(f, old).perm \notin {NONE_PERMS, READ_PERMS}
BY Zenon DEF renameFile

\* mv as a step of the store: not onto another file, and not saved.
LEMMA MoveStores ==
    ASSUME StoreInv, Shown, Uses \subseteq Stored, NEW old \in Names, NEW new \in Names,
           Move(old, new)
    PROVE  StoreStep
<1> DEFINE r == renameFile(fat, old, new)
<1>0. Usable /\ old # new
  BY DEF Move
<1>1. /\ mounted = TRUE /\ SoundFat(fat) /\ files = FilesOf(fat) /\ fat \in FatState
      /\ fat.dir \in Seq(dirEntry) /\ Unique(fat.dir)
  BY <1>0, InUse
<1>2. ~Found(fat, new)
  BY DEF Move, In, Stored
<1>3. FatInv'
  <2>1. Uses \subseteq Tamed /\ FatInv
    BY DEF Stored, Tamed, Handled, StoreInv
  <2> QED
    BY <2>1, MoveStep
<1>4. fat' = r.fat /\ result' = "failed" /\ mounted' = TRUE
  BY <1>1 DEF Move
<1>5. \/ r = Refused(fat)
      \/ /\ Found(fat, old)
         /\ \E g : /\ r = Done(g) /\ SameImage(fat, g) /\ g \in FatState
                  /\ ReplacesFile(fat, g, old, new, FilesOf(fat)[old])
  BY <1>0, <1>1, <1>2, RenameReplaces
<1> HIDE DEF r
<1>6. CASE r = Refused(fat)
  <2>1. Finish(Refused(fat))
    BY <1>1, <1>4, <1>6 DEF Finish, Refused
  <2> QED
    BY <1>0, <2>1, Refusal
<1>7. CASE r # Refused(fat)
  <2>1. PICK g : /\ r = Done(g) /\ SameImage(fat, g) /\ g \in FatState
                 /\ ReplacesFile(fat, g, old, new, FilesOf(fat)[old])
    BY <1>5, <1>7
  <2>2. fat' = g
    BY <1>4, <2>1 DEF Done
  <2>3. Mountable(fat') /\ saved' = saved /\ files' = FilesOf(g)
    BY <1>0, <1>4, <2>1, <2>2, Keeps
  <2>4. Store!Exists(old)
    BY <1>1, <1>5, <1>7, WritableFile
  <2>5. FilesOf(g) = [h \in (DOMAIN files \ {old}) \cup {new} |-> IF h = new THEN files[old] ELSE files[h]]
    <3> DEFINE a == [h \in (DOMAIN files \ {old}) \cup {new} |-> IF h = new THEN files[old] ELSE files[h]]
               b == FilesOf(g)
    <3>1. IsFun(a) /\ IsFun(b)
      BY FilesFun DEF IsFun
    <3>2. /\ DOMAIN a = (DOMAIN files \ {old}) \cup {new}
          /\ \A x \in DOMAIN a : a[x] = IF x = new THEN files[old] ELSE files[x]
      OBVIOUS
    <3>3. /\ DOMAIN b = (DOMAIN files \ {old}) \cup {new} /\ b[new] = files[old]
          /\ \A x \in DOMAIN files \ {old} : b[x] = files[x]
      BY <1>1, <2>1 DEF ReplacesFile
    <3> HIDE DEF a, b
    <3>4. b = a
      BY <3>1, <3>2, <3>3, Agree
    <3> QED
      BY <3>4 DEF a, b
  <2>6. Store!LostRename(old, new)
    <3>1. Store!Movable(old)
      <4>1. Found(fat, old) /\ Entry(fat, old).perm \notin {NONE_PERMS, READ_PERMS}
        BY <1>7, RenameAllowed DEF r
      <4>2. files[old] = FileOf(fat, Entry(fat, old))
        BY <1>1, <4>1, WritableFile
      <4>3. files[old].perm = Entry(fat, old).perm
        BY <4>2 DEF FileOf
      <4> QED
        BY <2>4, <4>1, <4>3 DEF Store!Movable, NONE_PERMS, READ_PERMS
    <3>2. files' = Store!Renamed(old, new)
      BY <2>3, <2>5 DEF Store!Renamed
    <3> QED
      BY <1>0, <1>4, <2>3, <3>1, <3>2 DEF Store!LostRename, KnownLapses
  <2> QED
    BY <1>3, <2>3, <2>6 DEF StoreStep, Store!Next
<1> QED
  BY <1>6, <1>7

\* The files of g are those of f without the ones of the names in S.
Removes(f, g, S) ==
    /\ DOMAIN FilesOf(g) = DOMAIN FilesOf(f) \ S
    /\ \A x \in DOMAIN FilesOf(g) : FilesOf(g)[x] = FilesOf(f)[x]

LEMMA RemovesMore ==
    ASSUME NEW f, NEW g, NEW h, NEW S, NEW T, Removes(f, g, S), Removes(g, h, T)
    PROVE  Removes(f, h, S \cup T)
BY DEF Removes

LEMMA RemovesWithout ==
    ASSUME NEW f, files = FilesOf(f), NEW g, NEW S, Removes(f, g, S)
    PROVE  FilesOf(g) = Store!Without(S)
<1> DEFINE a == Store!Without(S)
           b == FilesOf(g)
<1>1. IsFun(a) /\ DOMAIN a = DOMAIN files \ S
  BY DEF IsFun, Store!Without
<1>2. IsFun(b) /\ DOMAIN b = DOMAIN files \ S
  BY FilesFun DEF Removes
<1>3. \A x \in DOMAIN b : b[x] = a[x]
  BY DEF Removes, Store!Without
<1> HIDE DEF a, b
<1>4. b = a
  BY <1>1, <1>2, <1>3, Agree
<1> QED
  BY <1>4 DEF a, b

\* What deleteFile does to the file system.
LEMMA DeleteRecord ==
    ASSUME NEW f, NEW d, Good(f, d), NEW name, Found(f, name), MayWrite(Entry(f, name)),
           NEW g, g = deleteFile(f, name).fat
    PROVE  /\ g.blocks = FreeChain(f.blocks, Heads(f.dir)[getDirEntryNode(f, name)])
           /\ g.disk = f.disk
           /\ g.dir = RemoveAt(f.dir, getDirEntryNode(f, name))
<1> DEFINE dir == f.dir
           i == getDirEntryNode(f, name)
           e == Entry(f, name)
           n == f.freeBlocks + bytesToBlocks(e.size)
           blocks == deleteFileHelper(f.blocks, e)
           short == RemoveAt(f.dir, i)
<1>1. /\ f \in FatState /\ f.blocks \in Table /\ dir \in Seq(dirEntry) /\ d \in Nat
      /\ Laid(f.blocks, 0 .. Len(dir), Heads(dir), Depths(dir, d))
  BY DEF Good, FatState
<1>2. i \in 1 .. Len(dir) /\ e = dir[i] /\ e \in dirEntry
  BY <1>1, FoundFacts
<1>3. deleteFile(f, name) = Done([f EXCEPT !.blocks = blocks, !.dir = short, !.freeBlocks = n])
  BY DEF deleteFile
<1> HIDE DEF i, e, n, blocks, short
<1>4. Heads(dir)[i] = dir[i].firstBlock /\ (dir[i].size = 0 => dir[i].firstBlock = 0)
  BY <1>1, <1>2, EntryFacts
<1>5. blocks = FreeChain(f.blocks, e.firstBlock)
  BY <1>1, <1>2, <1>4, HelperFrees DEF blocks
<1> DEFINE h == [f EXCEPT !.blocks = blocks, !.dir = short, !.freeBlocks = n]
<1>6. h = [blocks |-> blocks, disk |-> f.disk, dir |-> short, freeBlocks |-> n]
  <2>1. \A bs, ds, m : [f EXCEPT !.blocks = bs, !.dir = ds, !.freeBlocks = m]
                         = [blocks |-> bs, disk |-> f.disk, dir |-> ds, freeBlocks |-> m]
    BY <1>1, FatRecord, Zenon
  <2> QED
    BY <2>1, Zenon
<1>7. g = h
  <2> HIDE DEF h
  <2> QED
    BY <1>3 DEF Done, h
<1> HIDE DEF h, dir
<1>8. g.blocks = blocks /\ g.disk = f.disk /\ g.dir = short
  BY <1>6, <1>7
<1> QED
  BY <1>2, <1>4, <1>5, <1>8 DEF i, short, dir

\* The other files read as before.
LEMMA DeleteRemoves ==
    ASSUME NEW f, NEW d, Good(f, d), NEW name, NEW r, r = deleteFile(f, name), r.ok
    PROVE  /\ Good(r.fat, d) /\ Removes(f, r.fat, {name})
           /\ Found(f, name) /\ MayWrite(Entry(f, name))
<1> DEFINE dir == f.dir
           L == Len(dir)
           i == getDirEntryNode(f, name)
           g == r.fat
           s == g.dir
           a == FilesOf(f)
           b == FilesOf(g)
           file(x) == FileOf(f, x)
<1>1. Found(f, name) /\ MayWrite(Entry(f, name))
  BY DEF deleteFile, Refused
<1>2. /\ f \in FatState /\ f.blocks \in Table /\ dir \in Seq(dirEntry) /\ L \in Nat /\ Unique(dir)
  BY DEF Good, FatState
<1>3. i \in 1 .. L /\ dir[i].name = name
  BY <1>1, <1>2, FoundFacts
<1>4. /\ Good(g, d)
      /\ \A j \in 1 .. Len(s) : s[j].name # name
      /\ \A m \in 1 .. L : dir[m].name # name => \E j \in 1 .. Len(s) : s[j] = dir[m]
  <2>1. LET h == deleteFile(f, name).fat IN
        /\ Good(h, d) /\ h.disk = f.disk
        /\ Len(h.dir) = Len(f.dir) - 1
        /\ \A j \in 1 .. Len(h.dir) : h.dir[j].name # name
        /\ \A m \in 1 .. Len(f.dir) : f.dir[m].name # name =>
              \E j \in 1 .. Len(h.dir) : h.dir[j] = f.dir[m]
    BY <1>1, DeleteGood
  <2> QED
    BY <2>1
<1>5. /\ g.blocks = FreeChain(f.blocks, Heads(f.dir)[i]) /\ g.disk = f.disk
      /\ g.dir = RemoveAt(f.dir, i)
  <2>1. g = deleteFile(f, name).fat
    OBVIOUS
  <2> HIDE DEF g
  <2> QED
    BY <1>1, <2>1, DeleteRecord
<1> HIDE DEF g, i
<1>6. \A j \in 1 .. Len(s) : \E m \in 1 .. L : s[j] = dir[m]
  <2> DEFINE short == RemoveAt(dir, i)
  <2>1. /\ short \in Seq(dirEntry) /\ Len(short) = L - 1
        /\ \A j \in 1 .. L - 1 : short[j] = IF j < i THEN dir[j] ELSE dir[j + 1]
    BY <1>2, <1>3, RemoveAtProperties
  <2>2. s = short
    BY <1>5
  <2> HIDE DEF short, s, dir, L
  <2> SUFFICES ASSUME NEW j \in 1 .. L - 1 PROVE \E m \in 1 .. L : s[j] = dir[m]
    BY <2>1, <2>2
  <2>3. j \in 1 .. L /\ j + 1 \in 1 .. L
    BY <1>2
  <2> QED
    BY <2>1, <2>2, <2>3
<1>7. \A m \in 1 .. L : m # i => FileOf(g, dir[m]) = file(dir[m])
  <2>1. i \in 0 .. Len(f.dir)
    BY <1>2, <1>3
  <2> DEFINE C == Chain(f.blocks, Heads(f.dir)[i])
             freed == FreeChain(f.blocks, Heads(f.dir)[i])
  <2>2. Frees(freed, f.blocks, C)
    BY <2>1, ChainFreed
  <2>3. g.blocks = freed
    BY <1>5
  <2> HIDE DEF C, freed
  <2>4. Same(f, g, Block \ (FreeOf(f.blocks) \cup C))
    BY <1>5, <2>2, <2>3 DEF Same, Frees
  <2>5. ASSUME NEW m \in 1 .. Len(f.dir), m # i
        PROVE  Held(g, f.dir[m]) = Held(f, f.dir[m])
    BY <2>1, <2>4, <2>5, OthersHeld DEF C
  <2> QED
    BY <2>5 DEF FileOf
<1>8. /\ DOMAIN a = {dir[m].name : m \in 1 .. L}
      /\ \A m \in 1 .. L : a[dir[m].name] = file(dir[m])
  BY <1>2, FilesAre
<1>9. /\ DOMAIN b = {s[j].name : j \in 1 .. Len(s)}
      /\ \A j \in 1 .. Len(s) : b[s[j].name] = FileOf(g, s[j])
  <2>1. s \in Seq(dirEntry) /\ Unique(s)
    BY <1>4 DEF Good, FatState
  <2> QED
    BY <2>1, FilesAre
<1> HIDE DEF dir, s, a, b, file, L
<1>10. ASSUME NEW x \in DOMAIN b
       PROVE  x \in DOMAIN a \ {name} /\ b[x] = a[x]
  <2>1. PICK j \in 1 .. Len(s) : x = s[j].name
    BY <1>9
  <2>2. PICK m \in 1 .. L : s[j] = dir[m]
    BY <1>6, <2>1
  <2>3. x = dir[m].name /\ x # name /\ m # i
    BY <1>3, <1>4, <2>1, <2>2
  <2>4. b[x] = FileOf(g, dir[m]) /\ a[x] = file(dir[m])
    BY <1>8, <1>9, <2>1, <2>2, <2>3
  <2> QED
    BY <1>7, <1>8, <2>3, <2>4
<1>11. ASSUME NEW x \in DOMAIN a \ {name}
       PROVE  x \in DOMAIN b
  <2>1. PICK m \in 1 .. L : x = dir[m].name
    BY <1>8
  <2>2. PICK j \in 1 .. Len(s) : s[j] = dir[m]
    BY <1>4, <2>1
  <2> QED
    BY <1>9, <2>1, <2>2
<1>12. DOMAIN b = DOMAIN a \ {name}
  BY <1>10, <1>11
<1> QED
  BY <1>1, <1>4, <1>10, <1>12 DEF Removes, a, b, g

\* What can be removed of what is left could have been removed before.
LEMMA WasThere ==
    ASSUME NEW f, f.dir \in Seq(dirEntry), Unique(f.dir), NEW g, g.dir \in Seq(dirEntry), Unique(g.dir),
           NEW S, Removes(f, g, S), NEW name, Found(g, name), MayWrite(Entry(g, name))
    PROVE  Found(f, name) /\ MayWrite(Entry(f, name))
<1>1. name \in DOMAIN FilesOf(g) /\ FilesOf(g)[name] = FileOf(g, Entry(g, name))
  BY FoundFile
<1>2. name \in DOMAIN FilesOf(f) /\ FilesOf(f)[name] = FilesOf(g)[name]
  BY <1>1 DEF Removes
<1>3. Found(f, name) /\ FilesOf(f)[name] = FileOf(f, Entry(f, name))
  BY <1>2, FoundFile
<1> QED
  BY <1>1, <1>2, <1>3 DEF FileOf, MayWrite

\* rm as a step of the store: of all its files or of none.
LEMMA RmStores ==
    ASSUME StoreInv, Shown, Uses \subseteq Stored, NEW names \in OneOrTwo, Rm(names)
    PROVE  StoreStep
<1> DEFINE n1 == names[1]
           n2 == names[2]
           r1 == deleteFile(fat, n1)
           r2 == deleteFile(r1.fat, n2)
           r == IF r1.ok /\ Len(names) = 2 THEN r2 ELSE r1
<1>0. /\ Usable /\ Finish(r)
      /\ r.fat # fat /\ r.fat.dir = <<>> => In("empty directory")
      /\ ~r.ok /\ r.fat # fat => In("remove some")
  BY Zenon DEF Rm, InTurn
<1>1. /\ mounted = TRUE /\ SoundFat(fat) /\ files = FilesOf(fat)
      /\ fat.dir \in Seq(dirEntry) /\ Unique(fat.dir)
  BY <1>0, InUse
<1>2. /\ n1 \in Names /\ (Len(names) = 1 \/ Len(names) = 2)
      /\ Len(names) = 2 => n2 \in Names
  BY NamesGiven
<1>3. ~In("empty directory") /\ ~In("remove some")
  BY DEF In, Stored
<1>4. PICK d : Good(fat, d)
  BY <1>1 DEF SoundFat
<1>5. \A f, n : deleteFile(f, n).ok \/ deleteFile(f, n) = Refused(f)
  BY DEF deleteFile, Done
<1>6. Outcome(r)
  <2>1. r = LET once == deleteFile(fat, names[1]) IN
            IF once.ok /\ Len(names) = 2 THEN deleteFile(once.fat, names[2]) ELSE once
    OBVIOUS
  <2>2. r.fat # fat => r.fat.dir # <<>>
    BY <1>0, <1>3
  <2> HIDE DEF r
  <2> QED
    BY <1>1, <2>1, <2>2, RemoveOutcome
<1>7. r1 = deleteFile(fat, n1) /\ r2 = deleteFile(r1.fat, n2)
  OBVIOUS
<1>8. r = IF r1.ok /\ Len(names) = 2 THEN r2 ELSE r1
  OBVIOUS
<1> HIDE DEF n1, n2, r1, r2, r
<1>9. CASE ~r.ok
  <2>1. r.fat = fat
    BY <1>0, <1>3, <1>9
  <2>2. \E f : r = Refused(f)
    BY <1>5, <1>7, <1>8, <1>9, Zenon
  <2>3. r = Refused(fat)
    BY <2>1, <2>2 DEF Refused
  <2>4. Finish(Refused(fat))
    BY <1>0, <2>3
  <2> QED
    BY <1>0, <2>4, Refusal
<1>10. CASE r.ok
  <2>1. r1.ok
    BY <1>8, <1>10
  <2> DEFINE g == r1.fat
  <2>2. /\ Good(g, d) /\ Removes(fat, g, {n1})
        /\ Found(fat, n1) /\ MayWrite(Entry(fat, n1))
    BY <1>4, <1>7, <2>1, DeleteRemoves
  <2> HIDE DEF g
  <2>3. \E S \in SUBSET Names :
           Removes(fat, r.fat, S) /\ \A name \in S : Found(fat, name) /\ MayWrite(Entry(fat, name))
    <3>1. CASE Len(names) # 2
      <4>1. r.fat = g /\ {n1} \in SUBSET Names
        BY <1>2, <1>8, <3>1 DEF g
      <4> QED
        BY <2>2, <4>1
    <3>2. CASE Len(names) = 2
      <4>1. r = r2 /\ r2.ok /\ r2 = deleteFile(g, n2) /\ n2 \in Names
        BY <1>2, <1>7, <1>8, <1>10, <2>1, <3>2 DEF g
      <4>2. Removes(g, r2.fat, {n2}) /\ Found(g, n2) /\ MayWrite(Entry(g, n2))
        BY <2>2, <4>1, DeleteRemoves
      <4>3. g.dir \in Seq(dirEntry) /\ Unique(g.dir)
        BY <2>2 DEF Good, FatState
      <4>4. Found(fat, n2) /\ MayWrite(Entry(fat, n2))
        BY <1>1, <2>2, <4>2, <4>3, WasThere
      <4>5. Removes(fat, r.fat, {n1} \cup {n2})
        BY <2>2, <4>1, <4>2, RemovesMore
      <4>6. {n1} \cup {n2} \in SUBSET Names
        BY <1>2, <4>1
      <4> QED
        BY <2>2, <4>4, <4>5, <4>6
    <3> QED
      BY <3>1, <3>2
  <2>4. PICK S \in SUBSET Names :
           Removes(fat, r.fat, S) /\ \A name \in S : Found(fat, name) /\ MayWrite(Entry(fat, name))
    BY <2>3
  <2>5. PICK n : Good(r.fat, n) /\ r.fat.dir # <<>>
    BY <1>6, <1>10 DEF Outcome
  <2>6. FatInv' /\ Mountable(fat') /\ Store!Commit(FilesOf(r.fat))
    BY <1>0, <1>1, <1>10, <2>5, Commits
  <2>7. FilesOf(r.fat) = Store!Without(S)
    BY <1>1, <2>4, RemovesWithout
  <2>8. \A name \in S : Store!Exists(name) /\ Store!Writable(name)
    BY <1>1, <2>4, WritableFile
  <2>9. Store!Delete(S)
    BY <2>6, <2>7, <2>8 DEF Store!Delete
  <2> QED
    BY <2>6, <2>9 DEF StoreStep, Store!Next
<1> QED
  BY <1>9, <1>10

\* A file system that mkfs has just made, whatever it counts.
LEMMA NewStores ==
    ASSUME NEW f \in FatState, f.blocks = NewFat.blocks, f.disk = NewFat.disk
    PROVE  OnDisk(f) = Store!NoFiles /\ Mountable(f)
<1>1. /\ NewFat.blocks[0] = Meta /\ NewFat.blocks[1] = End
      /\ \A b \in Block \ {1} : NewFat.blocks[b] = Free
  BY SizeFacts DEF NewFat
<1>2. NewFat.disk[0] = Zero
  <2>1. 0 \in 0 .. (NumEntries - 1) * BlockSize - 1
    <3>1. (NumEntries - 1) * BlockSize = (NumEntries - 2) * BlockSize + BlockSize
          /\ (NumEntries - 2) * BlockSize \in Nat /\ BlockSize \in Nat \ {0}
      BY SizeFacts
    <3> QED
      BY <3>1, SizeFacts
  <2> QED
    BY <2>1 DEF NewFat
<1>3. /\ f.blocks[0] = Meta /\ f.blocks[1] = End
      /\ \A b \in Block \ {1} : f.blocks[b] = Free
      /\ f.disk[0] \in Data \cup {Zero}
  BY <1>1, <1>2
<1>4. SoundFat(loadFat(f))
  BY <1>3, EmptyLoad
<1>5. OnDisk(f) = [name \in {} |-> <<>>]
  BY <1>3, NothingFound
<1> QED
  BY <1>4, <1>5 DEF Mountable, Store!NoFiles

\* mkfs.
LEMMA MkfsStores ==
    ASSUME StoreInv, Shown, Mkfs
    PROVE  StoreStep
<1> DEFINE f == NewFat
<1>1. f \in FatState /\ SoundFat(f) /\ f.dir = <<>> /\ f.blocks = NewFat.blocks /\ f.disk = NewFat.disk
  BY NewGood DEF NewFat
<1>2. fat' = f /\ mounted' = TRUE /\ result' = "ok"
  BY DEF Mkfs
<1> HIDE DEF f
<1>3. OnDisk(f) = Store!NoFiles /\ Mountable(f)
  BY <1>1, NewStores
<1>4. FilesOf(f) = Store!NoFiles
  BY <1>1, NoEntries DEF Store!NoFiles
<1>5. files' = Store!NoFiles /\ saved' = Store!NoFiles
  BY <1>2, <1>3, <1>4 DEF Shown
<1>6. Store!Format
  BY <1>2, <1>5 DEF Store!Format, Store!Commit
<1>7. FatInv'
  BY <1>1, <1>2 DEF FatInv
<1> QED
  BY <1>2, <1>3, <1>6, <1>7 DEF StoreStep, Store!Next

\* mount, of a directory of one block, also over a file system that is mounted.
LEMMA MountStores ==
    ASSUME StoreInv, Shown, Uses \subseteq Stored, Mount
    PROVE  StoreStep
<1> DEFINE g == loadFat(fat)
<1>1. ~In("long directory")
  BY DEF In, Stored
<1>2. fat \in FatState
  BY DEF StoreInv, FatInv, SoundFat, Good, Unmounted
<1>3. SoundFat(g)
  BY <1>1 DEF Mount, StoreInv, Mountable
<1>4. g \in FatState
  BY <1>3 DEF SoundFat, Good
<1>5. loadFat(g) = g
  BY <1>2, <1>4, LoadTwice
<1>6. fat' = g /\ mounted' = TRUE /\ result' = "ok"
  BY DEF Mount
<1>7. saved = FilesOf(g)
  BY DEF StoreInv, OnDisk
<1> HIDE DEF g
<1>8. OnDisk(g) = FilesOf(g) /\ Mountable(g)
  BY <1>3, <1>5 DEF OnDisk, Mountable
<1>9. files' = saved /\ saved' = saved
  BY <1>6, <1>7, <1>8 DEF Shown
<1>10. Store!Mount
  BY <1>6, <1>9 DEF Store!Mount
<1>11. FatInv'
  BY <1>3, <1>6 DEF FatInv
<1> QED
  BY <1>6, <1>8, <1>10, <1>11 DEF StoreStep, Store!Next

\* unmount.
LEMMA UnmountStep ==
    ASSUME StoreInv, Shown, Unmount, mounted
    PROVE  StoreStep
<1>0. Usable
  BY DEF Unmount
<1>1. SoundFat(fat) /\ files = FilesOf(fat)
  BY <1>0, InUse
<1>2. Closed(fat, fat') /\ mounted' = FALSE /\ result' = "ok"
  <2> DEFINE u == [saveFat(fat) EXCEPT !.dir = <<>>, !.freeBlocks = 0]
  <2>1. fat' = u /\ mounted' = FALSE /\ result' = "ok"
    BY DEF Unmount
  <2> QED
    BY <2>1 DEF Closed
<1>3. OnDisk(fat') = FilesOf(fat) /\ Mountable(fat')
  BY <1>1, <1>2, UnmountStores
<1>4. Unmounted(fat')
  <2> DEFINE u == [saveFat(fat) EXCEPT !.dir = <<>>, !.freeBlocks = 0]
  <2>1. Unmounted(u) /\ fat' = u
    BY <1>1, <1>2, UnmountGood DEF Closed
  <2> HIDE DEF u
  <2> QED
    BY <2>1
<1>5. files' = files /\ saved' = files
  BY <1>1, <1>2, <1>3 DEF Shown
<1>6. Store!Unmount
  BY <1>2, <1>5 DEF Store!Unmount, Store!Commit
<1>7. FatInv'
  BY <1>2, <1>4 DEF FatInv
<1> QED
  BY <1>3, <1>6, <1>7 DEF StoreStep, Store!Next

\* The same with nothing mounted, when it does nothing.
LEMMA NoUnmountStep ==
    ASSUME StoreInv, Shown, Unmount, ~mounted
    PROVE  StoreStep
<1>1. fat' = fat /\ mounted' = FALSE /\ result' = "ok" /\ mounted = FALSE
  BY DEF Unmount, StoreInv, FatInv
<1>2. saved' = saved /\ files' = saved' /\ files = saved
  BY <1>1 DEF Shown, StoreInv
<1>3. Store!Unmount
  BY <1>1, <1>2 DEF Store!Unmount, Store!Commit
<1>4. FatInv' /\ Mountable(fat')
  BY <1>1 DEF StoreInv, FatInv
<1> QED
  BY <1>3, <1>4 DEF StoreStep, Store!Next

\* Every command is a step of the store.
LEMMA EachStores ==
    ASSUME StoreInv, Uses \subseteq Stored, StoreNext
    PROVE  StoreStep
<1>0. Next /\ Shown
  BY DEF StoreNext, Shown
<1>1. CASE Mkfs \/ Mount \/ Unmount
  BY <1>0, <1>1, MkfsStores, MountStores, UnmountStep, NoUnmountStep
<1>2. CASE \E names \in OneOrTwo, out \in Names : CatAppend(names, out) \/ CatOver(names, out)
  <2>1. PICK names \in OneOrTwo, out \in Names : CatAppend(names, out) \/ CatOver(names, out)
    BY <1>2
  <2> QED
    BY <1>0, <2>1, ReaderStores
<1>3. CASE \E name \in Names, line \in Lines, appending \in BOOLEAN : CatInput(name, line, appending)
  BY <1>0, <1>3, CatInputStores
<1>4. CASE \E name \in Names, line \in Lines \cup {<<>>} : CopyFromHost(name, line)
  BY <1>0, <1>4, HostStores
<1>5. CASE \E names \in OneOrTwo : Touch(names) \/ Rm(names)
  BY <1>0, <1>5, TouchStores, RmStores
<1>6. CASE \E old, new \in Names : Move(old, new) \/ Copy(old, new)
  <2>1. PICK old \in Names, new \in Names : Move(old, new) \/ Copy(old, new)
    BY <1>6
  <2>2. <<old>> \in OneOrTwo
    BY DEF OneOrTwo
  <2> QED
    BY <1>0, <2>1, <2>2, MoveStores, ReaderStores
<1>7. CASE \E name \in Names, perm \in Perms : Chmod(name, perm)
  BY <1>0, <1>7, ChmodStores
<1> QED
  BY <1>0, <1>1, <1>2, <1>3, <1>4, <1>5, <1>6, <1>7 DEF Next

\* The program starts with a store in which there is nothing.
LEMMA StoreBegins ==
    ASSUME StoreInit
    PROVE  StoreInv /\ Store!Init
<1>1. FatInv /\ mounted = FALSE /\ result = "ok"
  BY InitGood DEF StoreInit, Init
<1>2. fat \in FatState
  BY <1>1 DEF FatInv, Unmounted
<1>3. fat.blocks = NewFat.blocks /\ fat.disk = NewFat.disk
  <2> DEFINE n == 0
             f == [NewFat EXCEPT !.freeBlocks = n]
  <2>1. fat = f /\ NewFat \in FatState
    BY NewGood DEF StoreInit, Init
  <2>2. f = [blocks |-> NewFat.blocks, disk |-> NewFat.disk, dir |-> NewFat.dir, freeBlocks |-> n]
    BY <2>1 DEF FatState
  <2> HIDE DEF f
  <2> QED
    BY <2>1, <2>2
<1>4. OnDisk(fat) = Store!NoFiles /\ Mountable(fat)
  BY <1>2, <1>3, NewStores
<1> QED
  BY <1>1, <1>4 DEF StoreInit, StoreInv, Store!Init

\* A step of the commands is a step of the store, or none.
LEMMA StoreSteps ==
    ASSUME Uses \subseteq Stored, StoreInv, [StoreNext]_<<vars, files, saved>>
    PROVE  StoreInv' /\ [Store!Next]_(Store!storeVars)
<1>1. CASE StoreNext
  <2>1. StoreStep /\ Shown
    BY <1>1, EachStores DEF StoreNext, Shown
  <2>2. StoreInv'
    BY <2>1 DEF StoreInv, StoreStep, Shown
  <2> QED
    BY <2>1, <2>2 DEF StoreStep
<1>2. CASE UNCHANGED <<vars, files, saved>>
  <2>1. fat' = fat /\ mounted' = mounted /\ result' = result /\ files' = files /\ saved' = saved
    BY <1>2 DEF vars
  <2>2. StoreInv'
    BY <2>1 DEF StoreInv, FatInv
  <2> QED
    BY <2>1, <2>2 DEF Store!storeVars
<1> QED
  BY <1>1, <1>2

\* PennFAT is a store of files: outside the cases with a flaw behind them, and
\* those in which blocks are freed that the directory on the disk still names
\* (a mv onto a file, an rm that fails half-way), what is read back is what was
\* written, no command changes a file it does not name, and a mount finds what
\* the last successful command left, whatever the sizes, names and lines.
THEOREM FilesAreStored ==
    ASSUME Uses \subseteq Stored
    PROVE  StoreSpec => ImplementsStore
<1>1. StoreInit => StoreInv /\ Store!Init
  BY StoreBegins
<1>2. StoreInv /\ [StoreNext]_<<vars, files, saved>> => StoreInv' /\ [Store!Next]_(Store!storeVars)
  BY StoreSteps
<1> HIDE DEF StoreInv
<1> QED
  BY <1>1, <1>2, PTL DEF StoreSpec, ImplementsStore, Store!Spec

\* What the refinement rests on, and with it the soundness of the table, also
\* if file systems are mounted over mounted ones.
THEOREM StoreStaysSound ==
    ASSUME Uses \subseteq Stored
    PROVE  StoreSpec => []StoreInv
<1>1. StoreInit => StoreInv
  BY StoreBegins
<1>2. StoreInv /\ [StoreNext]_<<vars, files, saved>> => StoreInv'
  BY StoreSteps
<1> HIDE DEF StoreInv
<1> QED
  BY <1>1, <1>2, PTL DEF StoreSpec

\* A mount counts what was free when the file system was saved, or was mounted
\* over: freeBlocks is the number of free blocks here too (fat.h:45), while the
\* directory has one block.
THEOREM MountCountsFree ==
    ASSUME Uses \subseteq Stored, OneBlockDir
    PROVE  StoreSpec => []FreeBlockNumber
<1>1. StoreInv => FreeBlockNumber
  BY InvFree DEF StoreInv
<1> HIDE DEF StoreInv
<1> QED
  BY <1>1, StoreStaysSound, PTL
=============================================================================
