# PennOS in TLA+

Models, model checking and proofs for PennOS, a Unix-like kernel that runs as
one host process (`src/src/pennos`), and PennFAT, its file system
(`src/src/pennfat`). Line numbers refer to those sources.

## The system

PennOS multiplexes `ucontext` threads on one processor. A 100 ms timer raises
SIGALRM, whose handler is the clock tick and the only preemption. System calls
(`p_*`) run in "protected mode": all signals blocked and `cpu_mode` set to
kernel. Everything else runs with signals open. The shell is pid 1; every
command is a process it spawns.

| Component | State | Operations | What makes it correct |
|---|---|---|---|
| Process lists (`process_list.c`) | six circular lists in `list_pointer[]`, `sleep_list`, `waiting_list` | add at head or tail, delete by pid, search by pid or parent | a process is in one list, once |
| Process control (`process_control.c`) | PCBs, `current_pcb`, `idle_flag`, the protection stack | `p_spawn`, `p_sleep`, `p_waitpid`, `p_kill`, `p_nice`, `p_exit`; `k_terminate`, `k_process_kill`, `k_unblock_wait`; SIGINT, SIGTSTP, SIGALRM; scheduler, returner and idle contexts | status and list agree, blocked processes have a waker, no lost wakeup, no orphan, no lost exit status, sleepers wake in time |
| Scheduler (`scheduler.c`) | a ring of the last 19 choices | `k_schedule` | returns a queue that is not empty, shares 9 : 6 : 4, no starvation |
| PennFAT table and directory (`fat.c`) | the table (mapped), the directory (in memory), `freeBlocks` | `initFat`, `loadFat`, `saveFat` | the directory on disk is the one in memory after each command |
| PennFAT files (`file.c`) | chains in the table, the data region | `writeFile`, `readFile`, `deleteFile`, `renameFile`, `chmodFile` | what is read is what was written; blocks are owned once |
| PennFAT commands (`pennfat_handler.c`) | none | mkfs, mount, umount, touch, mv, rm, cat, cp, chmod, ls | success means done and saved |
| Protection stack (`process_control.c`) | `cpu_mode`, the signal mask, a stack of both | `k_enter_protected_mode`, `k_leave_last_protected_mode` | every layer is left by who entered it; the kernel is never interrupted; programs get their mode and mask back |
| Shell (`shell.c`, `shell-behavior.c`) | the line, the redirections, `status`, `mounted_fat` | one command per line, foreground and background, a poll before each | waits for the right child, reports every child |
| Jobs (`job_handler.c`) | a list of jobs, `cur_job_node` | `add_job`, `fg`, `bg`, `change_job_status` | the list agrees with the shell's children |
| Stress commands (`stress.c`) | - | `hang`, `nohang`, `recur`, inside the shell | all their children are reaped |
| Standalone PennFAT (`pennfat.c`) | `currFat` | parses a line, calls a handler | - |
| Logger, contexts, parser | - | - | - |

They interact by calls (shell to `p_*`, commands to `pennfat*`), by signals
(keys and the timer interrupt whatever runs in user mode) and by two shared
globals, `PL` and `mounted_fat`. The hard behaviours are the windows between
leaving protected mode and `swapcontext`, the handlers that act on
`current_pcb`, pids that are reused at once, a sleeper that is stopped, the
recursive orphan sweep, and, in the file system, chains that several loops
build, follow and free. `PROJECT.json` lists the hazards line by line, with
those that no property covers yet.

## Modules

- `ProcessList`: a circular list with a dummy head is the sequence of its pids.
  `k_delete` removes the first node with the pid, as the code does; that there
  is at most one is a theorem, not an assumption.
- `Kernel` extends it. `queue` is `list_pointer[]`, `pcb` the PCBs. A system
  call is one action, because signals are blocked in it; a call that leaves
  protected mode and only then swaps contexts (`p_sleep` :527-528, `p_waitpid`
  :596-598, a self-stop :462-468) is two, with `pc` and `stopping` to say where
  the process is, and signals may come between. `ctx` says which context has
  the processor. The orphan sweep of `k_terminate` and the walk of
  `alarm_handler` are loops, one step per iteration, and nothing else can move
  meanwhile (`dying`, `ctx = "alarm"`). The order of the recursive sweep is
  left open: any unfinished `k_terminate` may take the next child.
- `Jobs` extends `Kernel` with the shell's program. `at` is the call the shell
  makes next; what it does between two calls touches only its own variables, so
  it is part of the step of the first call. Its actions are `Kernel`'s calls
  made by `Shell`, conjoined with what the shell does with the result; all other
  processes take any step `Kernel` allows them. The nodes of the job list are
  numbers, so that a pointer to a freed node is a number that is no node.
- `Protection`: the stack of modes and masks, apart from what the calls do.
  `k_enter_protected_mode` is three steps, saving the mode (:710), setting it
  (:711) and blocking signals (:717), because signals are open until the last;
  a thread is at a `point` of a call, inside `frames` of signal
  handlers. It says under which conditions `Kernel` may take a call as one step.
- `Scheduler`: `k_schedule` with its static variables, over any sequence of sets
  of ready queues. In `Kernel`, `Schedule(l)` may take any queue that is not
  empty; that the policy starves neither of the two upper queues is shown for
  `Scheduler` by model checking (`UpperNotStarved`) and is assumed in `Kernel`'s fairness.
- `SleepClock`: `Kernel` with the ticks each sleeper asked for and the ticks
  handled since, under fair ticks.
- `PennFat`: the file system. Its sizes are in cells, a cell being a directory
  entry or as many bytes of a file; the data region is modelled cell by cell,
  with the file position kept apart from the chain, since the code seeks only
  where it finds a new block. Each command is one action, with its `saveFat`.
- `FileStore`: what the file system promises: a set of named files and a saved
  copy. `PennFatStore` adds to `PennFat` what a reader sees, as two variables
  that are functions of the state, and claims `FileStore`'s specification of them.
  `Rename` is the promise of `mv`, to move the file, save and report success; the
  code never keeps it, since `pennfat_handler.c:72-77` lacks braces and returns -1
  in every case. What it does instead, `LostRename`, is a lapse that has to be
  named in `Lapses`; `PennFatStore` admits it as its only one (`KnownLapses`), and
  with that set empty `ImplementsStore` fails at the first `mv`. `FileStore` says
  how the files may change from step to step, not which step a given command is or
  what a write writes; for the commands that write a line `InputArrives` says that.
- `MC*`: instances. `*Theorems`, `*Proofs`: theorems.

A definition named `X_Y` is `X` with a plausible mistake and is used by no
action; `PROJECT.json` says which property it would break.

## Special cases of PennFAT

Several commands go wrong in particular cases. They are named in the constant
`Uses`, and a run admits the ones it is about; without this every run would end
at the first of them.

| Case | What happens | Where |
|---|---|---|
| empty directory | block 1 stays free after the last file is removed; the next file is put there and overwritten | `file.c:550`; `InputArrives` fails |
| append over | the next block is looked for only above; failing that, a block in use is taken | `file.c:512`, run `spill` |
| touch full | a touch of a file that fills its last block links a block that is never marked | `file.c:408` |
| append empty | the first block of the file is never set | `file.c:590` |
| long directory | a mount forgets the directory's further blocks in `freeBlocks` | `fat.c:205` |
| remove some, with remount | an rm that fails half-way frees blocks that the saved directory still names | `pennfat_handler.c:85` |
| move denied | a target that may not be deleted stays beside the file of the same name | `file.c:311` |
| cat many, cat append | only the first file is written; with `-a` none is | `pennfat_handler.c:178` |
| remount | a mount drops what was not saved | `pennfat_handler.c:29` |
| move over | moving onto a writable file replaces it | `file.c:310` |

A directory that grew and shrank leaves `freeBlocks` one too small for good
(`file.c:354`), so the exact count is checked in the run whose directory fits
one block and the bound in the other. `mv` of a file onto itself, which uses
freed memory, and reading through a chain that begins at block 0 are not
followed.

## Runs

All bounds are in the `.cfg` files.

| Run | Instance | Shows |
|---|---|---|
| `safety` | 3 pids, sleeps of 1 tick, Ctrl-Z, Ctrl-C while idle runs, all may spawn and wait, kill of any but the shell | the safety properties of `Kernel` |
| `jobs` | 3 pids, the shell's program with foreground, background, nice, nice_pid, fg, bg and hang, Ctrl-Z, Ctrl-C while idle runs | jobs and children correspond; a wait that blocked finds its child |
| `live` | 3 pids, background commands, nohang, recur, Ctrl-C and Ctrl-Z | ready processes run, the shell returns, zombies are reaped, stops reported |
| `guard` | shell, one command, idle and the kernel contexts, Ctrl-Z, 3 layers | layers balance, the kernel is closed, programs are open |
| `shares` | shares 3 : 2 : 1, all patterns of ready queues | waiting bound, shares, no starvation of the upper queues |
| `two` | 3 pids, sleeps of 1 and 2 ticks, at most two sleepers, fair ticks, Ctrl-Z, Ctrl-C while idle runs | sleeping times are exact, sleepers wake |
| `store` | 2 files, 5 table entries, 2 cells a block, contents of two kinds, chmod, remount | refinement of `FileStore`, exact free count |
| `blocks` | 3 files, 6 table entries, directory of two blocks, disk full, half-failed commands | chains, ownership, counter bound, unique names |
| `undead`, `spill`, `window`, `dangling` | as small as the behaviour allows | four disagreements between code and comments |

Why the bounds suffice: with three pids there is a parent, a child and a
grandchild, or two siblings, a waiter for each, and pids are reused; a fourth
adds only longer lists, and the theorems about the lists hold for any number.
Sleeping times above 2 only repeat the countdown. The ring's arithmetic is in
terms of the shares, and 3 : 2 : 1 exercises a full ring, a wrap and all three
rules; the proofs about it are for any shares. Four or five blocks of two cells
give files of one and two blocks, chains out of order, a full disk and a
directory that crosses a block. In `jobs` the shell and two children fill the
pids: two jobs, or a job and a foreground child, or a job and a napper of
`hang`. In `guard` three layers let two calls fail before the limit is reached,
and a fourth entry occurs; one of the two processes is the shell, which the
handler spares. A handler masks its own signal, so that handlers nest only under
both keys, which are too many states for TLC; the theorems of `ProtectionProofs`
are for both.

`blocks` and `spill` use a `VIEW` that leaves out the data region while a file
system is mounted (without remount the data region influences no guard, no
chain and no entry, and `result` is never read) and, as names are compared for
equality only, `SYMMETRY` in them. `jobs` uses a `VIEW` that leaves out `status`,
which is only read after a wait that failed. None of these checks liveness.
`CHECK_DEADLOCK` is on everywhere: the kernel always has a tick, the file system
a mkfs.

### Violations

- `undead`: Ctrl-C kills the process it interrupts, which then executes on as a
  zombie and can enter `p_sleep`, whose comment demands a ready caller. This is
  why `Keys` and `IdleKeys` are apart: while idle runs on behalf of the process,
  Ctrl-C does what it is meant to, and the runs `safety`, `jobs` and `two` admit
  it there.
- `spill`: see the special cases; a cat that reports success has written into
  another file.
- `window`: a plain tick between `process_control.c:710` and :711, where the mode
  is saved and not yet set, starts the scheduler, whose own entry writes kernel
  mode to the same element of `cpu_mode_stack`; the program gets that back and goes
  on in kernel mode, where the tick handler returns at once. A terminal signal
  after :711 does the same through the handler's `p_kill`; the run has no keys.
- `dangling`: fg of the last stopped job leaves `cur_job_node` on the node it
  then frees.

Other behaviours are known from the models and excluded by the instances,
because each would end a run that has more to say:

- With three sleepers of 1, 2 and 4 ticks `NeverWakesEarly` fails: two
  neighbours wake and the double decrement of `alarm_handler` takes two ticks
  from the third. `WakesAlmostInTime` says how many ticks can be lost.
- A parent that was woken by its child's stop finds nothing if a kill -cont from
  another process continues the child first. `p_waitpid` returns FAILURE,
  `WaiterFinds` fails, and the shell then acts on an old `status`, so that
  `ChildHasJob` may fail too. In `jobs` only the shell continues processes.
- `hang` ends with a `p_waitpid(-1)` that blocks the shell for ever: the test at
  `process_control.c:547` looks up the caller and not its children. The comment
  behind it says "if current process doesn't have child, directly return -1"
  (:548), and `stress.c:57` counts on it: "no more waitable children (if
  block-waiting) or error". `Jobs` has that wait as the code has it (`Reap`). Only
  `hang` makes such a call, so no passing run says anything of it.
- A `recur` whose child Ctrl-Z stops leaves a stopped child in no job. The next
  poll dereferences NULL, the state `undefined` of `Jobs`; `live` admits it, and
  says so in `ZombieReaped`.

### Fairness

`KernelFairness` is weak fairness of the kernel's own loops and of the
scheduler context, which nothing interrupts, and strong fairness of `Alarm`: the
timer is periodic, and a tick raised while signals are blocked stays pending.
`Alarm` of `Kernel` is a tick that is handled, so its fairness presupposes that
the program's mode is user mode again after each call. In the windows of
`UserIsOpen` (run `window`) that is lost, and ticks are dropped until the process
blocks or ends; likewise a call that fails inside (`p_kill` of a pid that does not
exist) leaves its caller with signals blocked. What `live` and `two` show of
liveness is shown for behaviours without these losses.
`QueueFairness` is strong fairness of the two upper queues, which
`UpperNotStarved` justifies for runs without low priority processes, such as
`live`. `ShellFairness` says that a shell that
keeps getting the processor gets through the few instructions between two
points of `p_waitpid` before a tick. `LoopFairness` is the same
for the `p_waitpid` of the shell's loops; that lines keep being typed is no
fairness but a hypothesis of `ZombieReaped` and `StopReported`. `FairClockSpec` is
`SleepClock` under `KernelFairness`. No other process is assumed to do anything: a
program may loop for ever. `ReadyRuns` assumes that process creation ends,
because `p_spawn` adds at the head of the queue; without that it is false.

## Proofs

`KernelProofs` shows for every number of pids, all tick counts, priorities and
signals that `Spec` implies `TypeOK`, `ListsMatchStatus`, `BlockedHasWaker` and
`BlockedInCall`. They are proved together: the inductive invariant `IInv` is
their conjunction. None is inductive alone. That `p_kill` moves a process to
the right list needs the lists to agree with the statuses before; that a wakeup
removes the waiter from the blocked queue needs it to be there; that the tick
handler wakes only blocked processes needs the sleep list to hold only blocked
or stopped ones; and that a process joins the sleep list once needs
`BlockedInCall`, since a process that is on it already, stopped or woken in
between, is not at a point of its program from which it could call `p_sleep`.
The proof has one lemma per action, each split by conjunct. Facts about the lists
(what delete, append and move do to membership and to the absence of
duplicates) are the lemmas of `ProcessListTheorems`, for any sequences.

The second part of `KernelProofs` classifies the steps of `Kernel` by what they do to
statuses, parents and waiting processes (`KindsLemma`: nothing of note, one
process terminates or stops and its waiter wakes, a zombie is reaped, an orphan
swept, a process spawned, one sleeps, one waits), and proves the rest kind by
kind.

- For all constants: `NoLostWakeup` and `WaitedChildExists`. `k_unblock_wait`
  wakes one process only, so that nobody else waits for the child must be
  known; `SafeInv` adds that a process waits for its own child (`Chosen`), which
  makes the waiter unique, and that who is being swept is dead (`DyingDead`),
  which keeps the sweep from freeing a child that is waited for.
- If `Shell \in Immune`: `IdleReadsSetField`. With no queue ready the shell is
  blocked, and it blocks in `p_waitpid` only.
- If `"SIGINT" \notin Keys`: `CallerIsReady`, `TerminatedStays`, `NoOrphanLeft` and
  `ReapedByParent`. `ReadyInv` says that what executes is ready unless it has
  stopped itself and is about to switch; `FamilyInv` that living processes have
  living parents and that a process inside `p_waitpid` names its own child, also
  after it was woken. The condition is needed: in `undead` a zombie reaches the
  entry of `p_sleep`, which would block it.
- Under both: `CurrentExists`. A ranking of parents before children shows that a
  sweep that the current process starts by its own death does not come back to
  it; if it kills another, it is a child of the shell, which does not die.

`SchedulerProofs` shows for all shares that the ring's indices stay in range,
that the queue chosen was not empty, and that the window of recent choices
never loses a slot. The invariant adds the window's three shapes: empty, a
prefix of the ring, the whole ring. Two theorems count the turns in the window.

- `SharesAreFair`, for all shares: after a round of calls that found all three
  queues the turns are the shares, give or take one. `ShareInv` says why: a
  queue that is ahead of its share has the smallest gap and is not chosen until
  the window has forgotten its surplus, so what it has beyond its share was
  chosen before the queues were all busy, and a round later that is gone.
- `WaitsAreBounded`, if `HIGH >= MED >= LOW`: a queue that stays ready is passed
  over at most a round and the difference between the largest and the smallest
  share. `WaitInv` says that a queue passed over for a round has no turn left in
  the window, and that from then on only one other queue can go before it
  (`Overdue`), for as many calls as its share is larger. The order of the shares
  is needed: with 1 : 1 : 2, 1 : 2 : 1 or 3 : 1 : 2 TLC finds a longer wait.

`ProtectionProofs` shows for any number of processes, both terminal signals and
any number of layers that `Spec` of `Protection` implies `TypeOK`,
`LayersBalanced`, `KernelIsClosed` and `UserIsOpen`. Its inductive invariant is
`TypeOK`, what never changes in the kernel threads (`KernelPlain`), the shape of a
thread's chain of interrupted points (`Shape`: which point may lie under which,
and with which mask), and, while fewer layers are lost than there are, `Core`: the
layers balance, masks are closed in calls, a thread that waits has the mask its
point calls for, each handler in a chain returns to the mask it interrupted,
and the entry on top of the stack is what the running thread saved. The last
part is what `UserIsOpen` needs and cannot carry itself: leaving a call restores
the right mask only because the entry was not overwritten since. The mode of
that entry may be overwritten, and `raced` marks when: the thread was switched
out between saving the mode and blocking signals, or a terminal signal came
between setting the mode and blocking them. A terminal signal between saving
and setting does no harm as long as its handler is not switched out: the handler
saves user mode to the same element and leaves it there (`UserAlwaysOpen`).

`JobsProofs` shows that `JobsSpec` implements `Spec` of `Kernel`, whatever the
commands, for any number of pids and nappers. Each call the shell makes is shown
to be one `Kernel` lets a process make; for that `JInv` says that the children
the shell names are pids and the job it waits for is in the list. The step lemma of `KernelProofs` (`NextIInv`) then gives `IInv` in
every state of `JobsSpec`, and with it `ListsMatchStatus` and `BlockedHasWaker`.

The rest of `JobsProofs` is about jobs and children. Every step is classified by
what it does to the shell's children (`Kids`) and to those that have something
to report (`Done`), and `AllJobs` says of every state: nodes and pids of the job
list are unique and its pids are children (`ListInv`); which call the shell
blocks in, and for whom, follows from its point in the program (`CallInv`); a
waiter that was woken has a child to report (`WaitInv`); a job shown as stopped
has stopped or ended (`StoppedInv`); a child has a job, or is the one that was
just spawned (`ChildInv`). They need each other: a job is dropped because the
wait reported its child, which `WaitInv` promises, and that promise is kept
because nobody continues the child before the shell resumes, which needs to know
where the shell is.

- `JobsStayChildren`: if Ctrl-C comes only while idle runs, nobody kills the
  shell, and `kill` and `hang` are not used together.
- `StoppedJobsAreStopped`, `WaitersAlwaysFind`, and, without `recur`,
  `EveryChildHasJob`: if besides `kill` is not used. A kill -cont between the
  wakeup of the shell and its resumption makes `p_waitpid` fail, and the shell
  goes on with an old `status`; in `hang` it gives the loop up.

`SleepClockProofs` shows for any number of processes and all tick counts that
nobody sleeps longer than it asked (`NobodySleepsLong`), that a sleeper wakes at
most `MaxPid` - 3 ticks early (`WakesAlmostInTime`), and that in a behaviour in
which never more than two processes sleep at once, out of however many, nobody
wakes early (`TwoNeverWakeEarly`). Both come from one invariant, `SleepInv`, whose
parameter `room` bounds the length of the sleep list. The double decrement of `alarm_handler` hits
the sleeper behind one that wakes, so what a sleeper may lose depends on how many
are in front of it: `TimeLeft` of the invariant `SleepInv` bounds the loss by the
position in the list, and stays true in the middle of the handler's walk
because the walk has passed (`Due`) exactly those in front of the cursor. A
bound that is the same for all positions is not inductive: who wakes takes a
tick from its neighbour and moves it forward by one.

`PennFatProofs` shows for any number of blocks and block size, any names, contents
and permissions that `Spec` of `PennFat` implies `TypeOK`, `ChainsSound`,
`NoSharedBlock`, `NoLostBlock`, `FreeNotOverstated`, `NamesUnique` and, if all names
fit a directory of one block (`OneBlockDir`), `FreeBlockNumber`. The condition is
`Uses \subseteq Handled`: the cases move over, remove some, cat many and cat append
are admitted. All others of the table above are flaws that break one of these
invariants in themselves, except `remount`, for which see `PennFatStoreProofs`.

- The state of the table is `Laid`: a directory (number 0) and entries
  (numbers 1, 2, ...), each with a first block and a length, whose chains have
  that length, do not meet, and leave only free blocks over. `LaidFree`,
  `LaidAlloc` and `LaidExtend` say that it survives when a chain is freed, taken
  from free blocks, or made longer; every command is a composition of these.
- The write loop (`WriteAllocates`) is the hard part: after each cell the blocks
  used so far are a path of blocks that were free, in the order written, and the
  last one is not linked yet. The loop looks for the next block only above the
  current one and takes its starting point if it finds none. It finds one because it
  began at the lowest free block and the check of `freeBlocks` has left enough;
  an append that begins in a block of its own (`append over`) has no such start.
- So `freeBlocks` must be part of the invariant, and `freeBlocks <=` the free
  blocks is not enough: saving gives up the chain of the directory and takes a
  new one, which may be longer or shorter. `Good` says that the free blocks and
  those of the directory's chain cover `freeBlocks` and the directory as it is
  (`DirDepth`). Between a file operation and `saveFat`, and after a mv or an rm
  that failed, the chain on disk has another length than the directory calls
  for; `d` of `Good` is that length.
- An unmount forgets the directory and the count, so that the next mount has to
  find them: `Unmounted` says that what `loadFat` will make of the image is sound.
  It holds because the entries come back from the data region as they were
  written (`LoadGood`, with `DataAssumption`: a directory entry is told from
  contents). An empty directory is the exception `SoundFat` has a part for:
  saving it writes nothing, not even the cell that ends the entries.

`PennFatStoreProofs` is about what is in the files, for the same constants. A
file holds what is read along its chain (`Held`).

- `LineArrives`: in the handled cases, a cat that succeeds leaves its line in the
  file and no other file changes (`InputArrives`). The write loop is followed a
  second time, now for the cells: after each cell the chain that was taken so far
  is filled with what was written so far (`Filled`), and no cell of another block
  changes (`Confined`). Since the code seeks only where it takes a new block,
  the file position must be shown to be at the next cell of the chain. With the
  chains of `PennFatProofs`, which do not meet, every other file reads as before.
- `FilesAreStored`: `PennFatStore` implements `FileStore`, if `Uses` has no more
  than remount, cat many and cat append (`Stored`). The inductive invariant
  `StoreInv` is `FatInv`, that what is saved is what a mount would find and would
  find sound (`Mountable`), and that the files in use are those of the directory
  in memory. A mount depends on the table and the data region alone
  (`SameImage`, `LoadAlike`). So a command that succeeds has to be found again:
  `saveFat` writes the directory, of however many blocks, where `getAllFile`
  reads it, with a cell after it that ends it unless the chain does
  (`SaveStores`). And one that fails has to leave the image alone: a touch whose
  second file is refused has written no cell and linked no block, a mv has
  changed the directory in memory only. Then each command is one step of
  `FileStore`: `Overwrites`, `TouchStores`, `RmStores`, `MoveStores` and so on.
  Moving onto a file and an rm that fails half-way are left out because they
  free blocks that the saved directory still names: what a mount finds is then no
  longer what was saved; TLC finds a counterexample if `Uses` of
  `store` has either.
- `StoreStaysSound` and `MountCountsFree`: in those cases the table stays sound and,
  with `OneBlockDir`, `freeBlocks` exact, also when a file system is mounted over
  one that is mounted (`remount`, which `PennFatProofs` leaves out).

Assumptions are those of the constants, named where they are declared.

Only model-checked: liveness (`ReadyRuns`, `ShellReturns`, `ZombieReaped`,
`StopReported`, `SleeperWakes`, `UpperNotStarved`), which is out of the prover's
reach. Every invariant and action property that a passing run checks, the refinement
of `FileStore`, and `InputArrives`, which `spill` violates in the one case the
theorem leaves out, are theorems under the conditions named above.

## Not modelled

Failing allocations and host calls, except that a failed `p_spawn` loses its
layer; crashes; file commands that preempt each other under PennOS; the
standalone PennFAT shell, which only parses a line and calls a handler; parser,
logger and output; the limits of 100 processes and 65535 blocks. In `Kernel`,
what a process does after its PCB was freed is not followed; `CurrentExists` says
when this does not arise. In `Protection`, what follows when all layers are lost
is not followed. In `Jobs`, a line has one command (of a pipeline only the first
is spawned), `hang` and `nohang` have fewer children than 10, and the generations
of `recur` below the first are programs of `Kernel`. In `PennFat`, with nothing
mounted an umount does nothing and reports success, as in the code; the other
commands but mkfs and mount then dereference NULL, and are not followed (`Usable`).

## Plan

1. Theorems: the table under moves and removals that are followed by a mount over
   a mounted file system, and what the saved directory still promises then.
2. `PennFatCrash`: a command as table steps and directory steps, a crash
   between any two, and what a mount then finds; `PennFatPreempt`: two commands
   interleaved on one `mounted_fat`.
3. Pipelines, once the shell spawns more than their first command.
