---------------------------- MODULE PennFatStore ----------------------------
(***************************************************************************)
(* PennFAT as a store of files: what its users see of it, in two variables *)
(* that depend on the state of the file system alone, and the claim that   *)
(* they behave like module FileStore.                                      *)
(***************************************************************************)
EXTENDS PennFat

VARIABLES
    files,   \* what the commands work on: what a mount would find if there is none
    saved    \* what a mount would find

StoreInit ==
    /\ Init
    /\ saved = OnDisk(fat)
    /\ files = saved

StoreNext ==
    /\ Next
    /\ saved' = OnDisk(fat')
    /\ files' = IF mounted' THEN FilesOf(fat') ELSE saved'

StoreSpec == StoreInit /\ [][StoreNext]_<<vars, files, saved>>

\* mv returns before it saves, whatever became of it.
KnownLapses == {"rename"}

Store ==
    INSTANCE FileStore
    WITH Names <- Names, Lines <- Lines, Perms <- Perms, Lapses <- KnownLapses,
         files <- files, saved <- saved, result <- result

\* The block-level file system implements the abstract store of files: what is
\* read back is what was written, no command changes a file it does not name,
\* and a mount finds what the last successful command left.  mv is the one known
\* lapse: without it this is false.
ImplementsStore == Store!Spec
=============================================================================
