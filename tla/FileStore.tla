----------------------------- MODULE FileStore -----------------------------
(***************************************************************************)
(* What PennFAT promises its users: a set of named files, and a saved copy *)
(* of it that a mount brings back.  A command that reports success has     *)
(* changed the files it names, no others, and has saved them; one that     *)
(* fails has not touched the contents of any file and has saved nothing.   *)
(* What is not promised but known to happen is a lapse, and has a name.    *)
(*   Next leaves open which of its steps a command is and what a write     *)
(* writes.                                                                 *)
(***************************************************************************)
EXTENDS Sequences

CONSTANTS
    Names,   \* file names
    Lines,   \* what may be written in one go
    Perms,   \* what chmod may set
    Lapses   \* the lapses admitted

VARIABLES
    files,   \* name -> [data, perm], for the files there are
    saved,   \* what a mount would find
    result   \* what the last command reported

storeVars == <<files, saved, result>>

NoFiles == [f \in {} |-> <<>>]

Init == files = NoFiles /\ saved = NoFiles /\ result = "ok"

Exists(f)   == f \in DOMAIN files
Writable(f) == Exists(f) => files[f].perm \in {"--w", "-rw"}
Readable(f) == Exists(f) /\ files[f].perm \in {"-r-", "-rw"}
Movable(f)  == Exists(f) /\ files[f].perm \notin {"---", "-r-"}
Contents(f) == IF Exists(f) THEN files[f].data ELSE <<>>

With(f, data) ==
    [g \in DOMAIN files \cup {f} |->
        IF g = f THEN [data |-> data, perm |-> IF Exists(f) THEN files[f].perm ELSE "-rw"]
        ELSE files[g]]

Without(S) == [f \in DOMAIN files \ S |-> files[f]]

Created(S) ==
    [f \in DOMAIN files \cup S |->
        IF Exists(f) THEN files[f] ELSE [data |-> <<>>, perm |-> "-rw"]]

Commit(new) == files' = new /\ saved' = new /\ result' = "ok"

Overwrite(f, data) == Writable(f) /\ Commit(With(f, data))
AppendTo(f, data)  == Writable(f) /\ Commit(With(f, Contents(f) \o data))
Copy(f, g)         == Readable(f) /\ Overwrite(g, files[f].data)
Delete(S)  == (\A f \in S : Exists(f) /\ Writable(f)) /\ Commit(Without(S))
Create(S)  == (\A f \in S : Writable(f)) /\ Commit(Created(S))
Chmod(f, perm) == Exists(f) /\ Commit([files EXCEPT ![f].perm = perm])
Format     == Commit(NoFiles)

\* Saves what there is; and, the other way round, goes back to what was saved.
Unmount == Commit(files)
Mount   == files' = saved /\ saved' = saved /\ result' = "ok"

Renamed(f, g) ==
    [h \in (DOMAIN files \ {f}) \cup {g} |-> IF h = g THEN files[f] ELSE files[h]]

Rename(f, g) == Movable(f) /\ Writable(g) /\ f # g /\ Commit(Renamed(f, g))

\* A lapse: the file has its new name, failure is reported and nothing is saved.
LostRename(f, g) ==
    /\ "rename" \in Lapses
    /\ Movable(f) /\ f # g
    /\ files' = Renamed(f, g)
    /\ saved' = saved
    /\ result' = "failed"

\* A touch of several files may have created some before it failed.
Fail ==
    /\ \E S \in SUBSET Names : files' = Created(S)
    /\ saved' = saved
    /\ result' = "failed"

\* Commands that only read, or had nothing to do, save all the same.
Next ==
    \/ \E f \in Names, data \in Lines \cup {<<>>} : Overwrite(f, data)
    \/ \E f \in Names, data \in Lines : AppendTo(f, data)
    \/ \E f, g \in Names : Copy(f, g) \/ Rename(f, g) \/ LostRename(f, g)
    \/ \E S \in SUBSET Names : Delete(S) \/ Create(S)
    \/ \E f \in Names, perm \in Perms : Chmod(f, perm)
    \/ Format \/ Unmount \/ Mount \/ Fail

Spec == Init /\ [][Next]_storeVars
=============================================================================
