------------------------------ MODULE PennFat ------------------------------
(***************************************************************************)
(* The PennFAT file system: the file allocation table and directory of     *)
(* fat.c, the file operations of file.c and the commands that              *)
(* pennfat_handler.c builds from them.                                     *)
(*                                                                         *)
(* Commands run one at a time.  The table is a shared mapping of the image *)
(* and reaches it at once; the directory is kept in memory and is written  *)
(* to block 1 and its successors by saveFat.  Sizes are in cells: a cell   *)
(* holds one directory entry or as many bytes of a file.                   *)
(*                                                                         *)
(* A definition X_Y is X with a plausible mistake, unused, to see which    *)
(* property would notice.                                                  *)
(***************************************************************************)
EXTENDS Integers, Sequences, SequencesExt, FiniteSets, FiniteSetsExt, Functions, TLC

CONSTANTS
    Names,        \* file names
    Data,         \* what a cell of a file may hold
    Zero,         \* a cell that begins with a zero byte
    Lines,        \* what may be typed, or copied from the host
    Perms,        \* what chmod may set
    NumEntries,   \* fat->numEntries
    BlockSize,    \* fat->blockSize
    MaxSize,      \* bound on the size of a file that is appended to
    Uses          \* the special cases in which commands are given, see below

ASSUME SizeAssumption == NumEntries \in Nat /\ NumEntries > 2 /\ BlockSize \in Nat \ {0}
ASSUME LinesAssumption == \A line \in Lines : line \in Seq(Data) /\ line # <<>>
ASSUME ZeroAssumption == Zero \notin Data

\* The cases with a flaw of the code behind them, which the instances admit
\* one at a time: removing the last file; touching a file that fills its last
\* block; appending to an empty file; appending past the end of the last
\* block; mounting again; mounting a directory of several blocks; moving onto an
\* existing file; moving onto one that is not writable; an rm that fails
\* half-way; cat of several files to one; cat of files with -a.
AllUses == {"empty directory", "touch full", "append empty", "append over",
            "remount", "long directory", "move over", "move denied", "remove some", "cat many",
            "cat append"}
ASSUME UsesAssumption == Uses \subseteq AllUses

Block == 1 .. NumEntries - 1
Free  == 0
End   == NumEntries        \* 0xFFFF
Meta  == NumEntries + 1    \* blocks[0]: the size of the file system

NONE_PERMS  == "---"
WRITE_PERMS == "--w"
READ_PERMS  == "-r-"
READWRITE_PERMS == "-rw"
Permission == {NONE_PERMS, WRITE_PERMS, READ_PERMS, "xr-", READWRITE_PERMS, "xrw"}
ASSUME PermsAssumption == Perms \subseteq Permission

dirEntry == [name : Names, size : Nat, firstBlock : Block \cup {0}, perm : Permission]

\* What a file holds is told from a directory entry.
ASSUME DataAssumption == \A c \in Data \cup {Zero} : c \notin dirEntry

VARIABLES
    fat,       \* *fat: the table, the data region, the directory in memory
               \* (head first) and the free block count
    mounted,   \* fat is not NULL
    result     \* what the last command returned

vars == <<fat, mounted, result>>

NewFat ==
    [blocks |-> [b \in 0 .. NumEntries - 1 |-> CASE b = 0 -> Meta [] b = 1 -> End
                                                 [] OTHER -> Free],
     disk |-> [c \in 0 .. (NumEntries - 1) * BlockSize - 1 |-> Zero],
     dir |-> <<>>,
     freeBlocks |-> NumEntries - 2]

\* The program starts with nothing mounted; the image is the one mkfs makes.
Init == fat = [NewFat EXCEPT !.freeBlocks = 0] /\ mounted = FALSE /\ result = "ok"
-----------------------------------------------------------------------------
(* Chains of blocks and what is read along them. *)

bytesToBlocks(n) == (n + BlockSize - 1) \div BlockSize

\* The i-th block of the chain that starts at b.
Nth(blocks, b) ==
    LET n[i \in 1 .. NumEntries] ==
          IF i = 1 THEN b
          ELSE LET before == n[i - 1] IN
               IF before \in Block THEN blocks[before] ELSE before
    IN n

Chain(blocks, b) == Range(Nth(blocks, b)) \cap Block

LastBlock(blocks, b) ==
    LET n == Nth(blocks, b) IN n[CHOOSE i \in DOMAIN n : n[i] \in Block /\ blocks[n[i]] = End]

\* length cells from startIndex on; what is outside the data region reads as
\* no file's contents.
getContents(f, startIndex, length) ==
    LET n == Nth(f.blocks, startIndex) IN
    [i \in 1 .. length |->
        LET b == n[(i - 1) \div BlockSize + 1] IN
        IF b \in Block THEN f.disk[(b - 1) * BlockSize + ((i - 1) % BlockSize)] ELSE Zero]

\* The directory: entries up to the first zero byte or the end of the chain.
getAllFile(f) ==
    LET cells == getContents(f, 1, BlockSize * Cardinality(Chain(f.blocks, 1)))
        read  == {n \in 0 .. Len(cells) : \A i \in 1 .. n : cells[i] \notin Data \cup {Zero}}
    IN SubSeq(cells, 1, Max(read))

\* The blocks that the first i files of a directory use.
UsedBlocks(dir) ==
    LET used[i \in 0 .. Len(dir)] ==
          IF i = 0 THEN 0 ELSE used[i - 1] + bytesToBlocks(dir[i].size)
    IN used

loadFat(f) ==
    LET linked == [f EXCEPT !.blocks[1] = IF @ = Free THEN End ELSE @]
        dir    == getAllFile(linked)
    IN [linked EXCEPT !.dir = dir, !.freeBlocks = NumEntries - 2 - UsedBlocks(dir)[Len(dir)]]
-----------------------------------------------------------------------------
(* file.c: every operation gives [ok, fat], where ok says it did not return -1. *)

getDirEntryNode(f, name) == SelectInSeq(f.dir, LAMBDA e : e.name = name)

Found(f, name) == getDirEntryNode(f, name) # 0
Entry(f, name) == f.dir[getDirEntryNode(f, name)]

MayWrite(e) == e.perm \in {WRITE_PERMS, READWRITE_PERMS}
MayRead(e)  == e.perm \in {READ_PERMS, READWRITE_PERMS}

Refused(f) == [ok |-> FALSE, fat |-> f]
Done(f)    == [ok |-> TRUE, fat |-> f]

FreeChain(blocks, b) ==
    LET chain == Chain(blocks, b) IN
    [c \in DOMAIN blocks |-> IF c \in chain THEN Free ELSE blocks[c]]

deleteFileHelper_FirstOnly(blocks, e) ==
    IF e.size = 0 THEN blocks ELSE [blocks EXCEPT ![e.firstBlock] = Free]

deleteFileHelper(blocks, e) ==
    IF e.size = 0 THEN blocks ELSE FreeChain(blocks, e.firstBlock)

deleteFile_CountsDown(f, name) ==
    IF ~Found(f, name) \/ ~MayWrite(Entry(f, name)) THEN Refused(f)
    ELSE LET e == Entry(f, name) IN
         Done([f EXCEPT !.blocks = deleteFileHelper(@, e),
                        !.dir = RemoveAt(@, getDirEntryNode(f, name)),
                        !.freeBlocks = @ - bytesToBlocks(e.size)])

deleteFile(f, name) ==
    IF ~Found(f, name) \/ ~MayWrite(Entry(f, name)) THEN Refused(f)
    ELSE LET e == Entry(f, name) IN
         Done([f EXCEPT !.blocks = deleteFileHelper(@, e),
                        !.dir = RemoveAt(@, getDirEntryNode(f, name)),
                        !.freeBlocks = @ + bytesToBlocks(e.size)])

NeededBlocks_NoDirectory(f, name, len, appending) ==
    bytesToBlocks(len)
    - (IF Found(f, name) /\ ~appending THEN bytesToBlocks(Entry(f, name).size) ELSE 0)

\* The blocks a write takes from freeBlocks.
NeededBlocks(f, name, len, appending) ==
    IF ~Found(f, name)
    THEN bytesToBlocks(len)
         + (IF Len(f.dir) # 0 /\ Len(f.dir) % BlockSize = 0 THEN 1 ELSE 0)
    ELSE LET size == Entry(f, name).size IN
         IF ~appending THEN bytesToBlocks(len) - bytesToBlocks(size)
         ELSE IF size % BlockSize = 0 THEN bytesToBlocks(len)
         ELSE bytesToBlocks(len - (BlockSize - (size % BlockSize)))

FirstFree_Unlooked(blocks, i, default) == i

\* The first free block from index i on, or the default.
FirstFree(blocks, i, default) ==
    LET free == {b \in i .. NumEntries - 1 : blocks[b] = Free} IN
    IF free = {} THEN default ELSE Min(free)

NextBlock_NoSeek(s) ==
    LET after == IF s.currIndex + 1 >= NumEntries THEN 2 ELSE s.currIndex + 1
        next  == FirstFree(s.blocks, after, after)
    IN [s EXCEPT !.blocks[s.currIndex] = next, !.currIndex = next]

\* At the end of a block: the search for a new one starts behind it, and takes
\* its starting point if it finds none; a link that is there is followed, but
\* the file position stays where it is.
NextBlock(s) ==
    IF s.blocks[s.currIndex] \in {Free, End}
    THEN LET after == IF s.currIndex + 1 >= NumEntries THEN 2 ELSE s.currIndex + 1
             next  == FirstFree(s.blocks, after, after)
         IN [s EXCEPT !.blocks[s.currIndex] = next, !.currIndex = next,
                      !.position = (next - 1) * BlockSize]
    ELSE [s EXCEPT !.currIndex = s.blocks[s.currIndex]]

\* The write loop, a cell at a time, and the end mark.
WriteCell(offset, s, byte) ==
    LET atEdge == s.byteIdx # 0 /\ (s.byteIdx + offset) % BlockSize = 0
        t == IF atEdge THEN NextBlock(s) ELSE s
    IN [t EXCEPT !.disk = [@ EXCEPT ![t.position] = byte],
                 !.position = @ + 1, !.byteIdx = @ + 1]

\* The state of the loop after the first i cells.
WriteLoop(blocks, disk, start, offset, bytes) ==
    LET begin == [blocks |-> blocks, disk |-> disk, currIndex |-> start, byteIdx |-> 0,
                  position |-> (start - 1) * BlockSize + offset]
        s[i \in 0 .. Len(bytes)] ==
          IF i = 0 THEN begin ELSE WriteCell(offset, s[i - 1], bytes[i])
    IN s

WriteCells_NoEndMark(blocks, disk, start, offset, bytes) ==
    WriteLoop(blocks, disk, start, offset, bytes)[Len(bytes)]

WriteCells(blocks, disk, start, offset, bytes) ==
    LET end == WriteLoop(blocks, disk, start, offset, bytes)[Len(bytes)]
    IN IF bytes = <<>> THEN end ELSE [end EXCEPT !.blocks[end.currIndex] = End]

writeFile(f, name, bytes, appending) ==
    LET found == Found(f, name)
        e     == Entry(f, name)
        need  == NeededBlocks(f, name, Len(bytes), appending)
        extends == appending /\ found /\ e.size # 0
        atEdge  == e.size % BlockSize = 0
        cleared == IF found /\ ~appending THEN deleteFileHelper(f.blocks, e) ELSE f.blocks
        last    == LastBlock(f.blocks, e.firstBlock)
        start   == IF ~extends THEN FirstFree(cleared, 1, 1)
                   ELSE IF atEdge THEN FirstFree(cleared, 1, 0) ELSE last
        linked  == IF extends /\ atEdge THEN [cleared EXCEPT ![last] = start] ELSE cleared
        offset  == IF extends THEN e.size % BlockSize ELSE 0
        written == WriteCells(linked, f.disk, start, offset, bytes)
        first   == IF bytes = <<>> THEN 0 ELSE start
    IN IF (found /\ ~MayWrite(e)) \/ f.freeBlocks < need THEN Refused(f)
       ELSE Done([blocks |-> written.blocks,
                  disk |-> written.disk,
                  freeBlocks |-> f.freeBlocks - need,
                  dir |-> IF ~found
                          THEN Append(f.dir, [name |-> name, size |-> Len(bytes),
                                              firstBlock |-> first, perm |-> READWRITE_PERMS])
                          ELSE [f.dir EXCEPT ![getDirEntryNode(f, name)] =
                                  IF appending THEN [e EXCEPT !.size = @ + Len(bytes)]
                                  ELSE [e EXCEPT !.size = Len(bytes), !.firstBlock = first]]])

\* writeDirEntries: the directory's chain is given up and written anew.
saveFat(f) ==
    LET bytes == IF Len(f.dir) % BlockSize = 0 THEN f.dir ELSE Append(f.dir, Zero)
        written == WriteCells(FreeChain(f.blocks, 1), f.disk, 1, 0, bytes)
    IN [f EXCEPT !.blocks = written.blocks, !.disk = written.disk]

renameFile_KeepsTarget(f, old, new) ==
    IF ~Found(f, old) \/ Entry(f, old).perm \in {NONE_PERMS, READ_PERMS} THEN Refused(f)
    ELSE Done([f EXCEPT !.dir[getDirEntryNode(f, old)].name = new])

\* A target that cannot be deleted does not keep the file from its new name.
renameFile(f, old, new) ==
    IF ~Found(f, old) \/ Entry(f, old).perm \in {NONE_PERMS, READ_PERMS} THEN Refused(f)
    ELSE LET g == deleteFile(f, new).fat IN
         Done([g EXCEPT !.dir[getDirEntryNode(g, old)].name = new])

chmodFile(f, name, perm) ==
    IF ~Found(f, name) THEN Refused(f)
    ELSE Done([f EXCEPT !.dir[getDirEntryNode(f, name)].perm = perm])

Readable(f, name) == Found(f, name) /\ MayRead(Entry(f, name))
readFile(f, name) == getContents(f, Entry(f, name).firstBlock, Entry(f, name).size)
-----------------------------------------------------------------------------
(* When a command is given, and how it ends. *)

\* The commands but mkfs, mount and umount dereference the NULL that stands for
\* no file system.  Of a file with contents but no first block, freeing or reading
\* the blocks would begin at block 0.  Neither is followed.
Usable ==
    mounted /\ \A i \in DOMAIN fat.dir : fat.dir[i].size # 0 => fat.dir[i].firstBlock # 0

\* The walk to the last block of a file that is appended to comes to an end.
WalkEnds(name) ==
    Found(fat, name) /\ Entry(fat, name).size # 0 =>
        \E b \in Chain(fat.blocks, Entry(fat, name).firstBlock) : fat.blocks[b] = End

In(use) == use \in Uses

Finish(r) ==
    /\ fat' = IF r.ok THEN saveFat(r.fat) ELSE r.fat
    /\ result' = IF r.ok THEN "ok" ELSE "failed"
    /\ UNCHANGED mounted

\* The files of a command, one or two, are dealt with in turn until one fails.
InTurn(names, Op(_, _)) ==
    LET r == Op(fat, names[1]) IN
    IF r.ok /\ Len(names) = 2 THEN Op(r.fat, names[2]) ELSE r
-----------------------------------------------------------------------------
(* Commands. *)

Mkfs ==
    /\ fat' = NewFat
    /\ mounted' = TRUE
    /\ result' = "ok"

\* A file system that is mounted already is dropped, not saved.
Mount ==
    /\ mounted => In("remount")
    /\ fat.blocks[1] \in Block => In("long directory")
    /\ fat' = loadFat(fat)
    /\ mounted' = TRUE
    /\ result' = "ok"

\* With nothing mounted there is nothing to save and nothing to free.
Unmount ==
    /\ mounted => Usable
    /\ fat' = IF mounted THEN [saveFat(fat) EXCEPT !.dir = <<>>, !.freeBlocks = 0] ELSE fat
    /\ mounted' = FALSE
    /\ result' = "ok"

Touch(names) ==
    /\ Usable /\ \A name \in Range(names) : WalkEnds(name)
    /\ \A name \in Range(names) :
          Found(fat, name) => \/ Entry(fat, name).size = 0
                              \/ Entry(fat, name).size % BlockSize # 0
                              \/ In("touch full") /\ IsInjective(names)
    /\ Finish(InTurn(names, LAMBDA f, name : writeFile(f, name, <<>>, TRUE)))

\* Every mv returns -1, and does so before it gets to saveFat.  Moving a file
\* onto itself frees the entry that is then written to: not modelled.
Move(old, new) ==
    /\ Usable
    /\ old # new
    /\ Found(fat, new) => In(IF MayWrite(Entry(fat, new)) THEN "move over" ELSE "move denied")
    /\ fat' = renameFile(fat, old, new).fat
    /\ result' = "failed"
    /\ UNCHANGED mounted

Rm(names) ==
    LET r == InTurn(names, deleteFile) IN
    /\ Usable
    /\ r.fat # fat /\ r.fat.dir = <<>> => In("empty directory")
    /\ ~r.ok /\ r.fat # fat => In("remove some")
    /\ Finish(r)

\* cat -w FILE and cat -a FILE; cp -h SOURCE FILE writes like cat -w.
CatInput(name, line, appending) ==
    /\ Usable /\ (appending => WalkEnds(name))
    /\ appending /\ Found(fat, name) =>
          LET size == Entry(fat, name).size
              room == BlockSize - (size % BlockSize)
          IN /\ size + Len(line) <= MaxSize
             /\ size = 0 => In("append empty")
             /\ room # BlockSize /\ Len(line) > room => In("append over")
    /\ Finish(writeFile(fat, name, line, appending))

\* An empty host file is written twice.
CopyFromHost(name, line) ==
    LET once == writeFile(fat, name, line, FALSE) IN
    /\ Usable
    /\ Finish(IF line = <<>> /\ once.ok THEN writeFile(once.fat, name, line, FALSE) ELSE once)

\* cat FILE ... -w OUT: only the first file is written.
CatOver(names, out) ==
    /\ Usable
    /\ Len(names) > 1 => In("cat many")
    /\ Finish(IF \A name \in Range(names) : Readable(fat, name)
              THEN writeFile(fat, out, readFile(fat, Head(names)), FALSE)
              ELSE Refused(fat))

\* cat FILE ... -a OUT: nothing is written.
CatAppend(names, out) ==
    /\ Usable
    /\ In("cat append")
    /\ Finish(IF \A name \in Range(names) : Readable(fat, name)
              THEN Done(fat) ELSE Refused(fat))

Copy(name, out) ==
    /\ Usable
    /\ Finish(IF Readable(fat, name)
              THEN writeFile(fat, out, readFile(fat, name), FALSE) ELSE Refused(fat))

Chmod(name, perm) == Usable /\ Finish(chmodFile(fat, name, perm))

OneOrTwo == {<<n>> : n \in Names} \cup {<<n, m>> : n, m \in Names}

Next ==
    \/ Mkfs \/ Mount \/ Unmount
    \/ \E names \in OneOrTwo, out \in Names : CatAppend(names, out) \/ CatOver(names, out)
    \/ \E name \in Names, line \in Lines, appending \in BOOLEAN : CatInput(name, line, appending)
    \/ \E name \in Names, line \in Lines \cup {<<>>} : CopyFromHost(name, line)
    \/ \E names \in OneOrTwo : Touch(names) \/ Rm(names)
    \/ \E old, new \in Names : Move(old, new) \/ Copy(old, new)
    \/ \E name \in Names, perm \in Perms : Chmod(name, perm)

Spec == Init /\ [][Next]_vars
-----------------------------------------------------------------------------
(* What must hold. *)

\* Type invariant of the mounted file system (fat.h:20-55); the size of the
\* file system in blocks[0] is never overwritten.
TypeOK ==
    /\ fat.blocks \in [0 .. NumEntries - 1 -> 0 .. Meta] /\ fat.blocks[0] = Meta
    /\ fat.disk \in [0 .. (NumEntries - 1) * BlockSize - 1 -> {Zero} \cup Data \cup dirEntry]
    /\ fat.dir \in Seq(dirEntry)
    /\ fat.freeBlocks \in Nat
    /\ mounted \in BOOLEAN
    /\ result \in {"ok", "failed"}

Owned(i) == Chain(fat.blocks, fat.dir[i].firstBlock)
DirBlocks == Chain(fat.blocks, 1)
FreeSet == {b \in Block : fat.blocks[b] = Free}

\* The chain of every file has exactly the blocks its size calls for and is
\* terminated, whatever was written, appended and deleted around it.
ChainsSound ==
    mounted =>
        \A i \in DOMAIN fat.dir :
            LET e == fat.dir[i]
                n == Nth(fat.blocks, e.firstBlock)
                k == bytesToBlocks(e.size)
            IN IF k = 0 THEN e.firstBlock = 0
               ELSE /\ k < NumEntries /\ n[k + 1] = End
                    /\ \A j \in 1 .. k : n[j] \in Block

\* No block belongs to two files or to a file and the directory.
NoSharedBlock ==
    mounted =>
        \A i \in DOMAIN fat.dir :
            /\ Owned(i) \cap DirBlocks = {}
            /\ \A j \in DOMAIN fat.dir : i # j => Owned(i) \cap Owned(j) = {}

\* A block that is not free belongs to a file or to the directory: none leaks.
NoLostBlock ==
    mounted => Block \ FreeSet \subseteq DirBlocks \cup UNION {Owned(i) : i \in DOMAIN fat.dir}

\* "Free block number" (fat.h:45): freeBlocks is the number of free blocks.
FreeBlockNumber == mounted => fat.freeBlocks = Cardinality(FreeSet \ {1})

\* freeBlocks never promises a block that is not there: a write that passes the
\* check of writeFile finds its blocks, the directory's included.
FreeNotOverstated == mounted => fat.freeBlocks <= Cardinality(FreeSet)

\* Two entries never have the same name: every file can be reached.
NamesUnique == \A i, j \in DOMAIN fat.dir : i # j => fat.dir[i].name # fat.dir[j].name

\* The files in a directory, as their users see them.
FilesOf(f) ==
    [name \in {f.dir[i].name : i \in DOMAIN f.dir} |->
        [data |-> readFile(f, name), perm |-> Entry(f, name).perm]]

OnDisk(f) == FilesOf(loadFat(f))

\* "Read user input to overwiret [cat -w OUTPUT_FILE] or append [cat -a
\* OUTPUT_FILE] the file" (pennfat_handler.c:101): a cat that succeeds leaves
\* the line in the file, after what was there or in its place, and no other
\* file changes.
InputArrives ==
    [][\A name \in Names, line \in Lines, appending \in BOOLEAN :
          CatInput(name, line, appending) /\ result' = "ok" =>
              LET before == FilesOf(fat)
                  after  == FilesOf(fat')
                  old    == IF appending /\ name \in DOMAIN before
                            THEN before[name].data ELSE <<>>
              IN /\ after[name].data = old \o line
                 /\ \A other \in DOMAIN before \ {name} : after[other] = before[other]]_vars
=============================================================================
