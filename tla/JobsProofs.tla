----------------------------- MODULE JobsProofs -----------------------------
(***************************************************************************)
(* Proofs about module Jobs, for every number of processes and every set   *)
(* of commands.                                                            *)
(*   For all constants: the shell's variables stay well typed, and the     *)
(*   shell's program does to the kernel only what Kernel lets a program    *)
(*   do, so that what is proved of Kernel holds under it.                  *)
(*   If Ctrl-C comes only while idle runs and nobody kills the shell: jobs *)
(*   are children of the shell, unless hang is used together with kill.    *)
(*   Without the kill command besides: a wait that blocked finds a child,  *)
(*   a job shown as stopped is stopped and, without recur, every child has *)
(*   a job.                                                                *)
(***************************************************************************)
EXTENDS Jobs, KernelProofs, FiniteSetTheorems

Job == [job_id : Nat \ {NoJob}, pid : Pid, job_status : {"running", "stopped"}]

\* What the variables mean at the calls that use them.
JInv ==
    /\ JobsTypeOK
    /\ at \in {"nice", "started"} => child \in Pid
    /\ at = "fg" => child \in Nodes
    /\ at = "spawning" => child # 0
-----------------------------------------------------------------------------
(* The list of jobs. *)

\* The positions of a list and its length.
LEMMA JobsFacts ==
    ASSUME JobsTypeOK
    PROVE  /\ jobs \in Seq(Job) /\ Len(jobs) \in Nat /\ DOMAIN jobs = 1 .. Len(jobs)
           /\ \A i \in DOMAIN jobs : jobs[i] \in Job
           /\ Nodes \subseteq Nat \ {NoJob}
<1>1. jobs \in Seq(Job) /\ Len(jobs) \in Nat /\ DOMAIN jobs = 1 .. Len(jobs)
  BY LenProperties DEF JobsTypeOK, Job
<1>2. \A i \in DOMAIN jobs : jobs[i] \in Job
  BY <1>1, ElementOfSeq
<1> QED
  BY <1>1, <1>2 DEF Nodes, Job

\* A node of the list has a position, and the node before it is one or none.
LEMMA NodeFacts ==
    ASSUME JobsTypeOK, NEW node \in Nodes
    PROVE  /\ Position(node) \in 1 .. Len(jobs) /\ Position(node) \in DOMAIN jobs
           /\ jobs[Position(node)] \in Job /\ jobs[Position(node)].job_id = node
           /\ Before(node) \in Nat
<1>1. Position(node) \in DOMAIN jobs /\ jobs[Position(node)].job_id = node
  BY DEF Nodes, Position
<1>2. Position(node) \in 1 .. Len(jobs) /\ Len(jobs) \in Nat
  BY <1>1, JobsFacts
<1>3. Position(node) # 1 => Position(node) - 1 \in DOMAIN jobs
  BY <1>2, JobsFacts
<1>4. Before(node) \in Nat
  BY <1>3, JobsFacts DEF Before, Job, NoJob
<1> QED
  BY <1>1, <1>2, <1>4, JobsFacts

\* There is always a number for one more node.
LEMMA NewNodeLemma ==
    ASSUME JobsTypeOK
    PROVE  NewNode \in Nat \ {NoJob} /\ NewNode \notin Nodes
<1> DEFINE n == Len(jobs)
           used == Nodes \cup {cur_job_node}
           f == [i \in 1 .. n |-> jobs[i].job_id]
<1>1. n \in Nat /\ DOMAIN jobs = 1 .. n
  BY JobsFacts
<1>2. IsFiniteSet(1 .. n) /\ Cardinality(1 .. n) = n
  <2> HIDE DEF n
  <2>1. 1 \in Int /\ n \in Int
    BY <1>1
  <2>2. IsFiniteSet(1 .. n) /\ Cardinality(1 .. n) = IF 1 > n THEN 0 ELSE n - 1 + 1
    BY <2>1, FS_Interval
  <2> QED
    BY <1>1, <2>2
<1>3. f \in Surjection(1 .. n, Nodes)
  <2>1. \A i \in 1 .. n : f[i] = jobs[i].job_id /\ f[i] \in Nodes
    BY <1>1 DEF Nodes
  <2>2. f \in [1 .. n -> Nodes]
    BY <2>1
  <2>3. \A node \in Nodes : \E i \in 1 .. n : f[i] = node
    BY <1>1, <2>1 DEF Nodes
  <2> HIDE DEF f
  <2> QED
    BY <2>2, <2>3 DEF Surjection
<1>4. IsFiniteSet(Nodes) /\ Cardinality(Nodes) <= n /\ Cardinality(Nodes) \in Nat
  BY <1>2, <1>3, FS_Surjection, FS_CardinalityType
<1>5. IsFiniteSet(used) /\ Cardinality(used) <= n + 1 /\ Cardinality(used) \in Nat
  <2>1. IsFiniteSet(used)
        /\ Cardinality(used) = IF cur_job_node \in Nodes THEN Cardinality(Nodes)
                                                         ELSE Cardinality(Nodes) + 1
    BY <1>4, FS_AddElement
  <2>2. Cardinality(used) \in Nat
    BY <2>1, FS_CardinalityType
  <2> HIDE DEF used, n
  <2> QED
    BY <1>1, <1>4, <2>1, <2>2
<1> HIDE DEF used, n
<1>6. IsFiniteSet(1 .. n + 2) /\ Cardinality(1 .. n + 2) = n + 2
  BY <1>1, FS_Interval
<1>7. \E k \in 1 .. n + 2 : k \notin used
  <2> SUFFICES ASSUME 1 .. n + 2 \subseteq used PROVE FALSE
    OBVIOUS
  <2>1. Cardinality(1 .. n + 2) <= Cardinality(used)
    BY <1>5, FS_Subset
  <2> QED
    BY <1>1, <1>5, <1>6, <2>1
<1> QED
  BY <1>1, <1>7 DEF NewNode, n, used, NoJob

\* Adding, removing and marking a job.
LEMMA AddJobLemma ==
    ASSUME JobsTypeOK, NEW pid \in Pid, NEW job_status \in {"running", "stopped"},
           add_job(pid, job_status)
    PROVE  jobs' \in Seq(Job) /\ cur_job_node' \in Nat
<1>1. [job_id |-> NewNode, pid |-> pid, job_status |-> job_status] \in Job
  BY NewNodeLemma DEF Job
<1>2. jobs \in Seq(Job)
  BY JobsFacts
<1> QED
  BY <1>1, <1>2, NewNodeLemma, AppendProperties DEF add_job

LEMMA RemoveJobLemma ==
    ASSUME JobsTypeOK, NEW node \in Nodes, remove_job(node)
    PROVE  jobs' \in Seq(Job)
<1>1. jobs \in Seq(Job) /\ Position(node) \in 1 .. Len(jobs)
  BY JobsFacts, NodeFacts
<1> QED
  BY <1>1, RemoveAtProperties DEF remove_job

LEMMA SetStatusLemma ==
    ASSUME JobsTypeOK, NEW node \in Nodes, NEW job_status \in {"running", "stopped"},
           SetStatus(node, job_status)
    PROVE  /\ jobs' \in Seq(Job)
           /\ node \in Nodes'
<1> DEFINE k == Position(node)
           job == [jobs[k] EXCEPT !.job_status = job_status]
<1>1. /\ jobs \in Seq(Job) /\ k \in 1 .. Len(jobs) /\ k \in DOMAIN jobs
      /\ jobs[k] \in Job /\ jobs[k].job_id = node
  BY JobsFacts, NodeFacts
<1>2. job \in Job /\ job.job_id = node
  BY <1>1 DEF Job
<1>3. jobs' = [jobs EXCEPT ![k] = job]
  BY DEF SetStatus
<1> HIDE DEF job, k
<1>4. jobs' \in Seq(Job) /\ DOMAIN jobs' = DOMAIN jobs /\ jobs'[k] = job
  BY <1>1, <1>2, <1>3, ExceptSeq
<1> QED
  BY <1>1, <1>2, <1>4 DEF Nodes

LEMMA ChangeStatusLemma ==
    ASSUME JobsTypeOK, NEW node \in Nodes, NEW how, change_job_status(node, how)
    PROVE  jobs' \in Seq(Job) /\ cur_job_node' \in Nat
BY JobsFacts, NodeFacts, RemoveJobLemma, SetStatusLemma DEF change_job_status

\* The job that find_job_by_pid returns is a node.
LEMMA FindLemma ==
    ASSUME JobsTypeOK, NEW pid, find_job_by_pid(pid) # {}
    PROVE  Min(find_job_by_pid(pid)) \in Nodes
<1>1. find_job_by_pid(pid) \subseteq Nodes /\ find_job_by_pid(pid) \in SUBSET Nat
  BY JobsFacts DEF find_job_by_pid, Nodes
<1>2. \E m \in find_job_by_pid(pid) : \A k \in find_job_by_pid(pid) : m <= k
  BY <1>1, LeastOf
<1> QED
  BY <1>1, <1>2 DEF Min
-----------------------------------------------------------------------------
\* What p_waitpid reports.
LEMMA FoundLemma ==
    ASSUME IInv, NEW target
    PROVE  /\ Found(target).how \in Terminated \cup {"STOPPED", "FAILURE"}
           /\ Found(target).how = "FAILURE" <=> Found(target).pid = -1
           /\ FoundIn(Zombie, Shell, target) # {} => Found(target).how \in Terminated
<1>1. Zombie \in ListId /\ Stopped \in ListId
  BY DEF Zombie, Stopped, ListId
<1>2. CASE FoundIn(Zombie, Shell, target) # {}
  <2> DEFINE c == FirstFound(Zombie, Shell, target)
  <2>1. c \in FoundIn(Zombie, Shell, target)
    BY <1>1, <1>2, FirstFoundLemma
  <2>2. Found(target) = [pid |-> c, how |-> pcb[c].status]
    BY <1>2 DEF Found
  <2> HIDE DEF c
  <2>3. c \in Pid /\ Zombie \in ListsOf(queue, c)
    BY <1>1, <2>1, ListedIsPid DEF FoundIn, ListsOf, Listed, On
  <2>4. pcb[c] \in PCB /\ Placed(c) /\ pcb[c].process_priority \in {HIGH, MED, LOW}
    BY <2>3, IInvMeans
  <2>5. pcb[c].status \in Terminated
    BY <2>3, <2>4 DEF Placed, PlaceOf, HIGH, MED, LOW, Zombie, Stopped, Blocked
  <2> QED
    BY <2>2, <2>3, <2>5 DEF Pid, Terminated
<1>3. CASE FoundIn(Zombie, Shell, target) = {} /\ FoundIn(Stopped, Shell, target) # {}
  <2> DEFINE c == FirstFound(Stopped, Shell, target)
  <2>1. c \in FoundIn(Stopped, Shell, target)
    BY <1>1, <1>3, FirstFoundLemma
  <2>2. Found(target) = [pid |-> c, how |-> "STOPPED"]
    BY <1>3 DEF Found
  <2> HIDE DEF c
  <2>3. c \in Pid
    BY <1>1, <2>1, ListedIsPid DEF FoundIn, ListsOf, Listed, On
  <2> QED
    BY <1>3, <2>2, <2>3 DEF Pid
<1>4. CASE FoundIn(Zombie, Shell, target) = {} /\ FoundIn(Stopped, Shell, target) = {}
  BY <1>4 DEF Found
<1> QED
  BY <1>2, <1>3, <1>4
-----------------------------------------------------------------------------
(* Every step does to the kernel what Kernel allows. *)

\* The shell's calls.
LEMMA CallLemma ==
    ASSUME IInv, NEW target
    PROVE  /\ Spawn(Shell) => [Next]_vars
           /\ WaitFound(Shell, target) => [Next]_vars
           /\ WaitBlock(Shell, target) => [Next]_vars
           /\ Blocks(target) => [Next]_vars
           /\ Returns(target) => [Next]_vars
           /\ FindsNothing(target) => [Next]_vars
           /\ FindsStopped(target) => [Next]_vars
<1>1. Shell \in Pid
  BY MaxPidAssumption DEF Shell, Pid
<1>2. Process(Shell) => Next
  BY <1>1 DEF Next
<1>3. Spawn(Shell) => Process(Shell)
  BY DEF Process
<1>4. target \in Targets(Shell) => target \in Pid \cup {AnyChild}
  BY DEF Targets
<1>5. WaitFound(Shell, target) \/ WaitBlock(Shell, target) => Process(Shell)
  BY <1>4 DEF WaitFound, WaitBlock, Process
<1>6. WaitResume(Shell) => Process(Shell)
  BY DEF Process
<1> QED
  BY <1>2, <1>3, <1>5, <1>6 DEF Blocks, Returns, FindsNothing, FindsStopped

\* Restarting a job continues its process, unless something did so before.
LEMMA RestartLemma ==
    ASSUME IInv, JobsTypeOK, NEW node \in Nodes, Restart(node)
    PROVE  [Next]_vars
<1> DEFINE t == jobs[Position(node)].pid
<1>1. t \in Pid
  BY NodeFacts DEF Job
<1>2. /\ InProgram(Shell) /\ SigCont(t, pcb)
      /\ UNCHANGED <<current_pcb, ctx, cursor>>
  BY DEF Restart
<1> HIDE DEF t
<1>3. CASE pcb[t].status = "STOPPED"
  <2>1. Listed(queue, t)
    BY <1>1, <1>3, ListedIsPid
  <2> QED
    BY <1>1, <1>2, <1>3, <2>1 DEF Continue, Next
<1>4. CASE pcb[t].status # "STOPPED"
  BY <1>2, <1>4 DEF SigCont, vars
<1> QED
  BY <1>3, <1>4

LEMMA FgNodeLemma ==
    ASSUME IInv, JobsTypeOK, NEW node, NEW stopped, FgNode(node, stopped)
    PROVE  [Next]_vars
<1>1. CASE node \in Nodes /\ Restart(node)
  BY <1>1, RestartLemma
<1>2. CASE UNCHANGED vars
  BY <1>2
<1> QED
  BY <1>1, <1>2 DEF FgNode, NoJob

\* Every step of Jobs is a step of Kernel or leaves it alone.
LEMMA StepImplements ==
    ASSUME IInv, JInv, [JobsNext]_allVars
    PROVE  [Next]_vars
<1> USE DEF JInv
<1>1. CASE ShellStep
  <2>1. CASE Poll \/ Reap
    BY <2>1, CallLemma DEF Poll, Reap
  <2>2. CASE Launch \/ SpawnNapper \/ Recur
    BY <2>2, CallLemma DEF Launch, SpawnNapper, Recur
  <2>3. CASE Foreground \/ RecurWait \/ FgWait
    BY <2>3, CallLemma DEF Foreground, RecurWait, FgWait
  <2>4. CASE NiceChild
    <3>1. PICK priority \in Levels : Nice(child, priority)
      BY <2>4 DEF NiceChild
    <3>2. child \in Pid
      BY <3>1, ListedIsPid DEF Nice
    <3> QED
      BY <3>1, <3>2 DEF Next
  <2>5. CASE NicePid
    BY <2>5 DEF NicePid, Next
  <2>6. CASE Background \/ OtherLine \/ Stress
    BY <2>6 DEF Background, OtherLine, Stress
  <2>7. CASE Fg
    BY <2>7, FgNodeLemma DEF Fg
  <2>8. CASE Bg
    <3>1. CASE UNCHANGED vars
      BY <3>1
    <3>2. ASSUME NEW i \in StoppedJobs, Restart(jobs[i].job_id)
          PROVE  [Next]_vars
      BY <3>2, RestartLemma DEF StoppedJobs, Nodes
    <3> QED
      BY <2>8, <3>1, <3>2 DEF Bg
  <2> QED
    BY <1>1, <2>1, <2>2, <2>3, <2>4, <2>5, <2>6, <2>7, <2>8 DEF ShellStep
<1>2. CASE OtherStep
  <2>1. Shell \in Pid
    BY MaxPidAssumption DEF Shell, Pid
  <2>2. Switch(Shell) => Process(Shell)
    BY DEF Process
  <2> QED
    BY <1>2, <2>1, <2>2 DEF OtherStep, Next
<1>3. CASE UNCHANGED allVars
  BY <1>3 DEF allVars
<1> QED
  BY <1>1, <1>2, <1>3 DEF JobsNext
-----------------------------------------------------------------------------
(* Every step keeps the shell's variables in order. *)

\* Back to a place that uses neither child nor flag.
LEMMA BackLemma ==
    ASSUME jobs' \in Seq(Job), cur_job_node' \in Nat,
           status' \in Terminated \cup {"STOPPED"},
           NEW place \in {"poll", "prompt", "undefined"}, GoTo(place)
    PROVE  JInv'
BY DEF GoTo, JInv, JobsTypeOK, Job, At

\* What the invariant is made of.
LEMMA JInvMeans ==
    ASSUME JInv
    PROVE  /\ JobsTypeOK /\ jobs \in Seq(Job) /\ cur_job_node \in Nat
           /\ status \in Terminated \cup {"STOPPED"}
           /\ child \in Nat /\ flag \in BOOLEAN /\ at \in At
BY DEF JInv, JobsTypeOK, Job

\* On to a place that uses them.
LEMMA OnLemma ==
    ASSUME jobs' \in Seq(Job), cur_job_node' \in Nat,
           status' \in Terminated \cup {"STOPPED"},
           at' \in At, child' \in Nat, flag' \in BOOLEAN,
           at' \in {"nice", "started"} => child' \in Pid,
           at' = "fg" => child' \in Nodes',
           at' = "spawning" => child' # 0
    PROVE  JInv'
BY DEF JInv, JobsTypeOK, Job

LEMMA PollJInv ==
    ASSUME IInv, JInv, Poll
    PROVE  JInv'
<1> DEFINE found == Found(AnyChild)
           jobsOf == find_job_by_pid(found.pid)
<1>1. CASE GoTo("prompt") /\ UNCHANGED <<jobs, cur_job_node, status>>
  BY <1>1, JInvMeans, BackLemma
<1>2. CASE /\ WaitFound(Shell, AnyChild) \/ FindsStopped(AnyChild)
           /\ status' = found.how
           /\ IF jobsOf = {}
              THEN GoTo("undefined") /\ UNCHANGED <<jobs, cur_job_node>>
              ELSE /\ change_job_status(Min(jobsOf), found.how)
                   /\ GoTo("prompt")
  <2>1. status' \in Terminated \cup {"STOPPED"}
    BY <1>2, FoundLemma DEF WaitFound, FindsStopped
  <2>2. CASE jobsOf = {}
    BY <1>2, <2>1, <2>2, JInvMeans, BackLemma
  <2>3. CASE jobsOf # {}
    <3>1. Min(jobsOf) \in Nodes
      BY <2>3, JInvMeans, FindLemma
    <3>2. jobs' \in Seq(Job) /\ cur_job_node' \in Nat
      BY <1>2, <2>3, <3>1, JInvMeans, ChangeStatusLemma
    <3> QED
      BY <1>2, <2>1, <2>3, <3>2, BackLemma
  <2> QED
    BY <2>2, <2>3
<1> QED
  BY <1>1, <1>2 DEF Poll

\* p_spawn gives a pid.
LEMMA LaunchedLemma ==
    ASSUME Spawn(Shell), child' = CHOOSE c \in Pid : c \in k_find_available_pid
    PROVE  child' \in Pid /\ child' \in Nat
<1>1. \E c \in Pid : c \in k_find_available_pid
  BY DEF Spawn, k_find_available_pid
<1>2. child' \in Pid
  BY <1>1
<1> QED
  BY <1>2 DEF Pid

LEMMA LaunchJInv ==
    ASSUME JInv, Launch \/ Recur
    PROVE  JInv'
<1>1. child' \in Pid /\ child' \in Nat
  BY LaunchedLemma DEF Launch, Recur
<1>2. at' \in {"started", "nice", "recur"} /\ flag' \in BOOLEAN
      /\ UNCHANGED <<jobs, cur_job_node, status>>
  BY JInvMeans DEF Launch, Recur
<1> QED
  BY <1>1, <1>2, JInvMeans, OnLemma DEF At

LEMMA NiceChildJInv ==
    ASSUME JInv, NiceChild
    PROVE  JInv'
<1>1. /\ at' = "started" /\ UNCHANGED <<jobs, cur_job_node, status, child, flag>>
      /\ child \in Pid
  BY DEF NiceChild, JInv
<1> QED
  BY <1>1, JInvMeans, OnLemma DEF At

LEMMA BackgroundJInv ==
    ASSUME JInv, Background
    PROVE  JInv'
<1>1. add_job(child, "running") /\ GoTo("poll") /\ status' = status /\ child \in Pid
  BY DEF Background, JInv
<1> QED
  BY <1>1, JInvMeans, AddJobLemma, BackLemma

LEMMA ForegroundJInv ==
    ASSUME IInv, JInv, Foreground
    PROVE  JInv'
<1>1. at = "started" /\ child \in Pid
  BY DEF Foreground, JInv
<1>2. CASE Blocks(child)
  BY <1>1, <1>2, JInvMeans, OnLemma DEF Blocks, jobVars
<1> DEFINE found == Found(child)
           how == IF found.pid = -1 THEN status ELSE found.how
<1>3. CASE /\ status' = how
           /\ IF how = "STOPPED"
              THEN add_job(child, "stopped") \/ (found.pid = -1 /\ add_job(child, "running"))
              ELSE UNCHANGED <<jobs, cur_job_node>>
           /\ GoTo("poll")
  <2>1. status' \in Terminated \cup {"STOPPED"}
    BY <1>3, JInvMeans, FoundLemma
  <2>2. jobs' \in Seq(Job) /\ cur_job_node' \in Nat
    BY <1>1, <1>3, JInvMeans, AddJobLemma
  <2> QED
    BY <1>3, <2>1, <2>2, BackLemma
<1> QED
  BY <1>2, <1>3 DEF Foreground

LEMMA LineJInv ==
    ASSUME JInv, NicePid \/ OtherLine
    PROVE  JInv'
<1>1. GoTo("poll") /\ UNCHANGED <<jobs, cur_job_node, status>>
  BY DEF NicePid, OtherLine
<1> QED
  BY <1>1, JInvMeans, BackLemma

LEMMA FgJInv ==
    ASSUME JInv, NEW node, NEW stopped \in BOOLEAN, FgNode(node, stopped), status' = status
    PROVE  JInv'
<1>1. CASE node = NoJob /\ cur_job_node' = NoJob /\ GoTo("poll") /\ UNCHANGED <<vars, jobs>>
  BY <1>1, JInvMeans, BackLemma DEF NoJob
<1>2. CASE GoTo("undefined") /\ UNCHANGED <<vars, jobs, cur_job_node>>
  BY <1>2, JInvMeans, BackLemma
<1>3. CASE /\ node \in Nodes
           /\ IF jobs[Position(node)].job_status = "stopped"
              THEN Restart(node)
              ELSE UNCHANGED <<vars, jobs>>
           /\ at' = "fg" /\ child' = node /\ flag' = stopped
           /\ UNCHANGED cur_job_node
  <2>1. jobs' \in Seq(Job) /\ node \in Nodes'
    BY <1>3, JInvMeans, SetStatusLemma DEF Restart, Nodes
  <2>2. node \in Nat
    BY <1>3, JInvMeans, JobsFacts
  <2> QED
    BY <1>3, <2>1, <2>2, JInvMeans, OnLemma DEF At
<1> QED
  BY <1>1, <1>2, <1>3 DEF FgNode

LEMMA FgWaitJInv ==
    ASSUME JInv, FgWait
    PROVE  JInv'
<1> DEFINE pid == jobs[Position(child)].pid
<1>1. at = "fg" /\ child \in Nodes
  BY DEF FgWait, JInv
<1>2. CASE Blocks(pid)
  BY <1>1, <1>2, JInvMeans, OnLemma DEF Blocks, jobVars, Nodes
<1>3. CASE GoTo("poll") /\ UNCHANGED status /\ FgEnds(child)
  <2>1. jobs' \in Seq(Job)
    BY <1>1, <1>3, JInvMeans, RemoveJobLemma DEF FgEnds
  <2>2. Len(jobs) \in DOMAIN jobs
    BY <1>1, JInvMeans, JobsFacts, NodeFacts
  <2>3. Last(jobs).job_id \in Nat
    BY <2>2, JInvMeans, JobsFacts DEF Last, Job
  <2>4. cur_job_node' \in Nat
    BY <1>1, <1>3, <2>3, JInvMeans, NodeFacts DEF FgEnds
  <2> QED
    BY <1>3, <2>1, <2>4, JInvMeans, BackLemma
<1>4. CASE GoTo("poll") /\ UNCHANGED status /\ change_job_status(child, "STOPPED")
  BY <1>1, <1>4, JInvMeans, ChangeStatusLemma, BackLemma
<1>5. CASE GoTo("poll") /\ UNCHANGED status /\ cur_job_node' = child /\ UNCHANGED jobs
  BY <1>5, JInvMeans, BackLemma
<1> QED
  BY <1>2, <1>3, <1>4, <1>5 DEF FgWait

LEMMA BgJInv ==
    ASSUME JInv, Bg
    PROVE  JInv'
<1>1. UNCHANGED <<cur_job_node, status>>
  BY DEF Bg
<1>2. CASE GoTo("undefined") /\ UNCHANGED <<vars, jobs>>
  BY <1>1, <1>2, JInvMeans, BackLemma
<1>3. ASSUME NEW i \in StoppedJobs, Restart(jobs[i].job_id), GoTo("poll")
      PROVE  JInv'
  <2>1. jobs[i].job_id \in Nodes
    BY DEF StoppedJobs, Nodes
  <2>2. jobs' \in Seq(Job)
    BY <1>3, <2>1, JInvMeans, SetStatusLemma DEF Restart
  <2> QED
    BY <1>1, <1>3, <2>2, JInvMeans, BackLemma
<1> QED
  BY <1>2, <1>3 DEF Bg

LEMMA StressJInv ==
    ASSUME JInv, Stress \/ SpawnNapper
    PROVE  JInv'
<1>1. CASE Stress
  <2>1. /\ at' = "spawning" /\ child' = Nappers /\ flag' \in BOOLEAN
        /\ UNCHANGED <<jobs, cur_job_node, status>>
    BY <1>1 DEF Stress
  <2> QED
    BY <2>1, JInvMeans, OnLemma, NappersAssumption DEF At
<1>2. CASE SpawnNapper
  <2>1. /\ child' = child - 1 /\ at' = IF child = 1 THEN "reap" ELSE "spawning"
        /\ UNCHANGED <<jobs, cur_job_node, status, flag>>
        /\ child \in Nat \ {0}
    BY <1>2, JInvMeans DEF SpawnNapper, JInv
  <2>2. child' \in Nat /\ (child # 1 => child' # 0)
    BY <2>1
  <2> QED
    BY <2>1, <2>2, JInvMeans, OnLemma DEF At
<1> QED
  BY <1>1, <1>2

LEMMA WaitingJInv ==
    ASSUME JInv, Reap \/ RecurWait
    PROVE  JInv'
<1>1. at \in {"reap", "recur"}
  BY DEF Reap, RecurWait
<1>2. CASE UNCHANGED jobVars
  BY <1>1, <1>2, JInvMeans, OnLemma DEF jobVars
<1>3. CASE GoTo("poll") /\ UNCHANGED <<jobs, cur_job_node, status>>
  BY <1>3, JInvMeans, BackLemma
<1> QED
  BY <1>2, <1>3 DEF Reap, RecurWait, Blocks, jobVars

\* Every step preserves the invariant.
LEMMA NextJInv ==
    ASSUME IInv, JInv, [JobsNext]_allVars
    PROVE  JInv'
<1>1. CASE ShellStep
  <2>1. CASE Poll
    BY <2>1, PollJInv
  <2>2. CASE Launch \/ Recur
    BY <2>2, LaunchJInv
  <2>3. CASE NiceChild
    BY <2>3, NiceChildJInv
  <2>4. CASE Background
    BY <2>4, BackgroundJInv
  <2>5. CASE Foreground
    BY <2>5, ForegroundJInv
  <2>6. CASE NicePid \/ OtherLine
    BY <2>6, LineJInv
  <2>7. CASE Fg
    BY <2>7, FgJInv DEF Fg
  <2>8. CASE FgWait
    BY <2>8, FgWaitJInv
  <2>9. CASE Bg
    BY <2>9, BgJInv
  <2>10. CASE Stress \/ SpawnNapper
    BY <2>10, StressJInv
  <2>11. CASE Reap \/ RecurWait
    BY <2>11, WaitingJInv
  <2> QED
    BY <1>1, <2>1, <2>2, <2>3, <2>4, <2>5, <2>6, <2>7, <2>8, <2>9, <2>10, <2>11
       DEF ShellStep
<1>2. CASE UNCHANGED jobVars
  BY <1>2 DEF JInv, JobsTypeOK, jobVars, Nodes
<1> QED
  BY <1>1, <1>2 DEF JobsNext, OtherStep, allVars

\* The initial state: no jobs.
LEMMA InitJInv == JobsInit => JInv
<1> SUFFICES ASSUME JobsInit PROVE JInv
  OBVIOUS
<1>1. jobs \in Seq(Job)
  BY DEF JobsInit
<1> QED
  BY <1>1 DEF JobsInit, JInv, JobsTypeOK, Job, At, NoJob, Terminated
-----------------------------------------------------------------------------
\* Both invariants hold in every reachable state.
THEOREM JobsInvariantHolds == JobsSpec => [](IInv /\ JInv)
<1>1. JobsInit => IInv /\ JInv
  BY InitIInv, InitJInv DEF JobsInit
<1>2. IInv /\ JInv /\ [JobsNext]_allVars => (IInv /\ JInv)'
  BY StepImplements, NextIInv, NextJInv
<1> QED
  BY <1>1, <1>2, PTL DEF JobsSpec

\* Whatever commands are typed, the shell's program implements Kernel: shell.c,
\* job_handler.c and stress.c use the kernel as its model assumes programs do.
THEOREM JobsImplementsKernel == JobsSpec => Spec
<1>1. JobsInit => Init
  BY DEF JobsInit
<1>2. IInv /\ JInv /\ [JobsNext]_allVars => [Next]_vars
  BY StepImplements
<1> QED
  BY <1>1, <1>2, JobsInvariantHolds, PTL DEF JobsSpec, Spec

\* Under the shell's program too every process is on the one list of its status
\* and priority, once.
THEOREM ListsMatchUnderJobs == JobsSpec => []ListsMatchStatus
BY JobsImplementsKernel, ListsAlwaysMatch, PTL

\* And every blocked process has a waker: no command and no job control leaves a
\* process that nothing will wake.
THEOREM BlockedHasWakerUnderJobs == JobsSpec => []BlockedHasWaker
BY JobsImplementsKernel, BlockedAlwaysHasWaker, PTL

\* The job list and the shell's other variables stay well typed (job.h:9-23).
THEOREM JobsTypeCorrect == JobsSpec => []JobsTypeOK
BY JobsInvariantHolds, PTL DEF JInv
-----------------------------------------------------------------------------
(* Jobs and children. *)

\* Nobody uses the kill command.
NoKill == Pid \subseteq Immune

\* The shell's children, the children p_waitpid would report, the processes of
\* the jobs and of the jobs shown as stopped.
Kids       == {p \in Pid : pcb[p].status # "FREE" /\ pcb[p].ppid = Shell}
Done       == {p \in Pid : pcb[p].status \in Reported}
JobPids    == {jobs[i].pid : i \in DOMAIN jobs}
PausedPids == {jobs[i].pid : i \in StoppedJobs}

IdsUnique  == \A i, k \in DOMAIN jobs : jobs[i].job_id = jobs[k].job_id => i = k
PidsUnique == \A i, k \in DOMAIN jobs : jobs[i].pid = jobs[k].pid => i = k

\* The wait the shell is in is that of the call at names.
CallInv ==
    pcb[Shell].pc \in Waits =>
        \/ at \in {"started", "recur"} /\ pcb[Shell].pid_waitfor = child
        \/ at = "fg" /\ pcb[Shell].pid_waitfor = jobs[Position(child)].pid
        \/ at = "reap" /\ ~flag /\ pcb[Shell].pid_waitfor = AnyChild

\* Only hang blocks in its loop.
StressInv == "hang" \notin Commands /\ at \in {"spawning", "reap"} => flag

\* Jobs are children; so is the one being started, which is no job yet.
ListInv ==
    AtJobs =>
        /\ PidsUnique /\ JobPids \subseteq Kids
        /\ at \in {"nice", "started", "recur"} => child \in Kids \ JobPids

StoppedInv == AtJobs => PausedPids \subseteq Done

ChildInv ==
    AtJobs =>
        /\ at # "recur"
        /\ Kids \subseteq JobPids \cup (IF at \in {"nice", "started"} THEN {child} ELSE {})

\* Who was woken in p_waitpid has something to find.
WaitInv ==
    \A p \in Pid :
        pcb[p].pc \in Waits /\ ~On(waiting_list, p) /\ pcb[p].status \notin Gone =>
            \E c \in Done : WaitsOn(p, pcb[p].pid_waitfor, c)
-----------------------------------------------------------------------------
(* What the operations do to the list. *)

\* A job is added, for a process that has none.
LEMMA AddJobList ==
    ASSUME JobsTypeOK, NEW pid \in Pid, NEW job_status \in {"running", "stopped"},
           add_job(pid, job_status), IdsUnique
    PROVE  /\ IdsUnique'
           /\ PidsUnique /\ pid \notin JobPids => PidsUnique'
           /\ JobPids' = JobPids \cup {pid}
           /\ PausedPids' = PausedPids \cup (IF job_status = "stopped" THEN {pid} ELSE {})
<1> DEFINE n == Len(jobs)
           job == [job_id |-> NewNode, pid |-> pid, job_status |-> job_status]
<1>1. jobs \in Seq(Job) /\ n \in Nat /\ DOMAIN jobs = 1 .. n /\ job \in Job
  BY JobsFacts, NewNodeLemma DEF Job
<1>2. /\ DOMAIN jobs' = 1 .. n + 1 /\ jobs'[n + 1] = job
      /\ \A i \in 1 .. n : jobs'[i] = jobs[i]
  <2>1. jobs' = Append(jobs, job) /\ jobs' \in Seq(Job)
    BY <1>1, AppendProperties DEF add_job
  <2> HIDE DEF job
  <2>2. Len(jobs') = n + 1 /\ DOMAIN jobs' = 1 .. Len(jobs')
    BY <1>1, <2>1, AppendProperties, LenProperties
  <2> QED
    BY <1>1, <2>1, <2>2, AppendProperties
<1>3. NewNode \notin Nodes
  BY NewNodeLemma
<1>4. job.job_id = NewNode /\ job.pid = pid /\ job.job_status = job_status
  OBVIOUS
<1> HIDE DEF job, n
<1>5. IdsUnique'
  BY <1>1, <1>2, <1>3, <1>4 DEF IdsUnique, Nodes
<1>6. PidsUnique /\ pid \notin JobPids => PidsUnique'
  BY <1>1, <1>2, <1>4 DEF PidsUnique, JobPids
<1>7. 1 .. n + 1 = (1 .. n) \cup {n + 1}
  BY <1>1
<1>8. JobPids' = JobPids \cup {pid}
  BY <1>1, <1>2, <1>4, <1>7 DEF JobPids
<1>9. PausedPids' = PausedPids \cup (IF job_status = "stopped" THEN {pid} ELSE {})
  BY <1>1, <1>2, <1>4, <1>7 DEF PausedPids, StoppedJobs
<1> QED
  BY <1>5, <1>6, <1>8, <1>9

\* A job is removed.
LEMMA RemoveJobList ==
    ASSUME JobsTypeOK, NEW node \in Nodes, remove_job(node), IdsUnique, PidsUnique
    PROVE  /\ IdsUnique' /\ PidsUnique'
           /\ JobPids' = JobPids \ {jobs[Position(node)].pid}
           /\ PausedPids' = PausedPids \ {jobs[Position(node)].pid}
<1> DEFINE n == Len(jobs)
           k == Position(node)
<1>1. jobs \in Seq(Job) /\ n \in Nat /\ DOMAIN jobs = 1 .. n /\ k \in 1 .. n
  BY JobsFacts, NodeFacts
<1>2. /\ DOMAIN jobs' = 1 .. n - 1
      /\ \A i \in 1 .. n - 1 : jobs'[i] = IF i < k THEN jobs[i] ELSE jobs[i + 1]
  <2>1. jobs' = RemoveAt(jobs, k)
    BY DEF remove_job
  <2> QED
    BY <1>1, <2>1, RemoveAtProperties, LenProperties
<1> HIDE DEF k, n
<1> DEFINE old == [i \in 1 .. n - 1 |-> IF i < k THEN i ELSE i + 1]
<1>3. \A i \in 1 .. n - 1 : /\ old[i] \in (1 .. n) \ {k} /\ jobs'[i] = jobs[old[i]]
                            /\ \A j \in 1 .. n - 1 : old[i] = old[j] => i = j
  BY <1>1, <1>2
<1>4. \A j \in (1 .. n) \ {k} : \E i \in 1 .. n - 1 : old[i] = j
  <2> TAKE j \in (1 .. n) \ {k}
  <2>1. CASE j < k
    BY <1>1, <2>1
  <2>2. CASE j > k
    <3>1. j - 1 \in 1 .. n - 1 /\ ~(j - 1 < k) /\ (j - 1) + 1 = j
      BY <1>1, <2>2
    <3> QED
      BY <3>1
  <2> QED
    BY <1>1, <2>1, <2>2
<1> HIDE DEF old
<1>5. IdsUnique' /\ PidsUnique'
  <2>1. DOMAIN jobs = 1 .. n /\ DOMAIN jobs' = 1 .. n - 1
    BY <1>1, <1>2
  <2> QED
    BY <1>3, <2>1 DEF IdsUnique, PidsUnique
<1>6. \A j \in 1 .. n : jobs[j].pid = jobs[k].pid <=> j = k
  BY <1>1 DEF PidsUnique
<1>7. \A p : /\ p \in JobPids <=> \E j \in 1 .. n : jobs[j].pid = p
             /\ p \in JobPids' <=> \E i \in 1 .. n - 1 : jobs[old[i]].pid = p
  <2>1. DOMAIN jobs = 1 .. n /\ DOMAIN jobs' = 1 .. n - 1
    BY <1>1, <1>2
  <2> QED
    BY <1>3, <2>1 DEF JobPids
<1>8. JobPids' = JobPids \ {jobs[k].pid}
  BY <1>3, <1>4, <1>6, <1>7
<1>9. \A p : /\ p \in PausedPids <=> \E j \in 1 .. n : jobs[j].pid = p /\ jobs[j].job_status = "stopped"
             /\ p \in PausedPids' <=> \E i \in 1 .. n - 1 : jobs[old[i]].pid = p
                                                            /\ jobs[old[i]].job_status = "stopped"
  <2>1. DOMAIN jobs = 1 .. n /\ DOMAIN jobs' = 1 .. n - 1
    BY <1>1, <1>2
  <2> QED
    BY <1>3, <2>1 DEF PausedPids, StoppedJobs
<1>10. PausedPids' = PausedPids \ {jobs[k].pid}
  BY <1>3, <1>4, <1>6, <1>9
<1> QED
  BY <1>5, <1>8, <1>10 DEF k

\* A job is marked.
LEMMA MarkJobList ==
    ASSUME JobsTypeOK, NEW node \in Nodes, NEW job_status \in {"running", "stopped"},
           SetStatus(node, job_status), IdsUnique
    PROVE  /\ IdsUnique' /\ JobPids' = JobPids
           /\ PidsUnique => PidsUnique'
           /\ PidsUnique => PausedPids' =
                IF job_status = "stopped" THEN PausedPids \cup {jobs[Position(node)].pid}
                                          ELSE PausedPids \ {jobs[Position(node)].pid}
<1> DEFINE n == Len(jobs)
           k == Position(node)
           job == [jobs[k] EXCEPT !.job_status = job_status]
<1>1. /\ jobs \in Seq(Job) /\ n \in Nat /\ DOMAIN jobs = 1 .. n /\ k \in 1 .. n
      /\ jobs[k] \in Job
  BY JobsFacts, NodeFacts
<1>2. /\ job \in Job /\ job.job_id = jobs[k].job_id /\ job.pid = jobs[k].pid
      /\ job.job_status = job_status
  BY <1>1 DEF Job
<1>3. jobs' = [jobs EXCEPT ![k] = job]
  BY DEF SetStatus
<1> HIDE DEF job, k, n
<1>4. DOMAIN jobs' = 1 .. n /\ \A i \in 1 .. n : jobs'[i] = IF i = k THEN job ELSE jobs[i]
  BY <1>1, <1>3
<1>5. \A i \in 1 .. n : jobs'[i].job_id = jobs[i].job_id /\ jobs'[i].pid = jobs[i].pid
  BY <1>2, <1>4
<1>6. IdsUnique' /\ (PidsUnique => PidsUnique') /\ JobPids' = JobPids
  BY <1>1, <1>4, <1>5 DEF IdsUnique, PidsUnique, JobPids
<1>7. ASSUME PidsUnique
      PROVE  PausedPids' = IF job_status = "stopped" THEN PausedPids \cup {jobs[k].pid}
                                                     ELSE PausedPids \ {jobs[k].pid}
  <2>1. \A i \in 1 .. n : jobs[i].pid = jobs[k].pid <=> i = k
    BY <1>1, <1>7 DEF PidsUnique
  <2> QED
    BY <1>1, <1>2, <1>4, <1>5, <2>1 DEF PausedPids, StoppedJobs
<1> QED
  BY <1>6, <1>7 DEF k

\* The job that find_job_by_pid returns is one of this process.
LEMMA FoundJob ==
    ASSUME JobsTypeOK, NEW pid, find_job_by_pid(pid) # {}, IdsUnique
    PROVE  /\ Min(find_job_by_pid(pid)) \in Nodes
           /\ jobs[Position(Min(find_job_by_pid(pid)))].pid = pid
<1> DEFINE node == Min(find_job_by_pid(pid))
<1>1. /\ find_job_by_pid(pid) \in SUBSET Nat
      /\ \E m \in find_job_by_pid(pid) : \A k \in find_job_by_pid(pid) : m <= k
  <2>1. find_job_by_pid(pid) \in SUBSET Nat
    BY JobsFacts DEF find_job_by_pid, Nodes
  <2> QED
    BY <2>1, LeastOf
<1>2. node \in find_job_by_pid(pid)
  BY <1>1 DEF Min
<1>3. node \in Nodes
  BY FindLemma
<1> HIDE DEF node
<1>4. PICK i \in DOMAIN jobs : jobs[i].job_id = node /\ jobs[i].pid = pid
  BY <1>2 DEF find_job_by_pid
<1>5. Position(node) = i
  BY <1>3, <1>4, NodeFacts DEF IdsUnique
<1> QED
  BY <1>3, <1>4, <1>5 DEF node
-----------------------------------------------------------------------------
(* Which wait the shell is in. *)

\* After every call of the shell that does not block it is in its program.
LEMMA CallPc ==
    ASSUME IInv
    PROVE  /\ Spawn(Shell) => pcb'[Shell].pc \notin Waits
           /\ WaitResume(Shell) => pcb'[Shell].pc \notin Waits
           /\ \A target : WaitFound(Shell, target) => pcb'[Shell].pc \notin Waits
           /\ \A t, priority : Nice(t, priority) => pcb'[Shell].pc \notin Waits
           /\ \A t : InProgram(Shell) /\ SigCont(t, pcb) => pcb'[Shell].pc \notin Waits
           /\ InProgram(Shell) /\ pcb' = pcb => pcb'[Shell].pc \notin Waits
<1> USE ShellIsPid DEF Waits
<1>1. pcb \in [Pid -> PCB] /\ pcb[Shell] \in PCB
  BY IInvMeans
<1>2. \A p : NewPCB(p, MED).pc = "user" /\ FreePCB.pc = "user"
  BY DEF NewPCB, FreePCB
<1>3. InProgram(Shell) => pcb[Shell].pc = "user"
  BY DEF InProgram
<1>4. Spawn(Shell) => pcb'[Shell].pc \notin Waits
  BY <1>1, <1>2, <1>3 DEF Spawn
<1>5. ASSUME NEW target, NEW pcbs \in [Pid -> PCB], pcbs[Shell].pc = "user",
             ReapFound(Shell, target, pcbs)
      PROVE  pcb'[Shell].pc \notin Waits
  BY <1>2, <1>5 DEF ReapFound
<1>6. \A target : WaitFound(Shell, target) => pcb'[Shell].pc \notin Waits
  BY <1>1, <1>3, <1>5 DEF WaitFound
<1>7. WaitResume(Shell) => pcb'[Shell].pc \notin Waits
  <2> DEFINE pcbs == [pcb EXCEPT ![Shell].pc = "user"]
  <2>1. pcbs \in [Pid -> PCB] /\ pcbs[Shell].pc = "user"
    BY <1>1 DEF PCB, PC
  <2>2. WaitResume(Shell) => ReapFound(Shell, pcb[Shell].pid_waitfor, pcbs)
    BY DEF WaitResume
  <2> HIDE DEF pcbs
  <2> QED
    BY <1>5, <2>1, <2>2
<1>8. ASSUME NEW t, NEW priority, Nice(t, priority)
      PROVE  pcb'[Shell].pc \notin Waits
  <2>1. pcb' = [pcb EXCEPT ![t].process_priority = priority] /\ InProgram(Shell)
    BY <1>8 DEF Nice
  <2> QED
    BY <1>1, <1>3, <2>1 DEF PCB
<1>9. ASSUME NEW t, InProgram(Shell), SigCont(t, pcb)
      PROVE  pcb'[Shell].pc \notin Waits
  <2>1. pcb' = pcb \/ \E s \in {"READY", "BLOCKED"} : pcb' = [pcb EXCEPT ![t].status = s]
    BY <1>9 DEF SigCont
  <2> QED
    BY <1>1, <1>3, <1>9, <2>1 DEF PCB
<1>10. InProgram(Shell) /\ pcb' = pcb => pcb'[Shell].pc \notin Waits
  BY <1>3
<1> QED
  BY <1>4, <1>6, <1>7, <1>8, <1>9, <1>10

\* A shell that is blocked records what it waits for.
LEMMA BlocksLemma ==
    ASSUME IInv, NEW target, Blocks(target)
    PROVE  /\ InProgram(Shell) /\ UNCHANGED <<jobVars, dying>>
           /\ target \in Pid \cup {AnyChild}
           /\ pcb'[Shell].pid_waitfor = target
           /\ \A o \in Pid : /\ o # Shell => pcb'[o].status = pcb[o].status
                             /\ pcb'[o].ppid = pcb[o].ppid
           /\ pcb'[Shell].status = "BLOCKED"
<1>1. pcb \in [Pid -> PCB] /\ pcb[Shell] \in PCB
  BY ShellIsPid, IInvMeans
<1>2. target \in Pid \cup {AnyChild} /\ WaitBlock(Shell, target)
  BY DEF Blocks, WaitBlock, Targets
<1>3. pcb' = [pcb EXCEPT ![Shell].pid_waitfor = target, ![Shell].status = "BLOCKED",
                         ![Shell].pc = "wait_switch"]
  BY <1>2 DEF WaitBlock
<1>4. /\ pcb'[Shell].pid_waitfor = target
      /\ \A o \in Pid : /\ o # Shell => pcb'[o].status = pcb[o].status
                        /\ pcb'[o].ppid = pcb[o].ppid
      /\ pcb'[Shell].status = "BLOCKED"
  BY ShellIsPid, <1>1, <1>3 DEF PCB, Status, PC
<1> QED
  BY <1>2, <1>4 DEF Blocks, WaitBlock

\* While the shell is between two calls only the shell's own steps change PCBs.
LEMMA OthersSpareCaller ==
    ASSUME OtherStep, Running(Shell), ~pcb[Shell].stopping,
           pcb[Shell].pc \in {"user", "wait_resume"}
    PROVE  pcb' = pcb
<1>1. ctx = "process" /\ dying = {} /\ current_pcb = Shell
  BY DEF Running
<1>2. \A p \in Pid \ {Shell} : ~Running(p)
  BY <1>1 DEF Running
<1>3. \A p \in Pid \ {Shell} : ~Process(p)
  BY <1>2 DEF Process, Spawn, Sleep, WaitFound, WaitBlock, WaitResume, Switch, Kill, Exit,
         InProgram
<1>4. ~Switch(Shell) /\ ~OrphanStep /\ ~KeyInt /\ ~KeyStop /\ ~IdleSwitch /\ ~AlarmStep /\ ~Idle
      /\ \A l \in ReadyLists : ~Schedule(l)
  BY <1>1 DEF Switch, OrphanStep, KeyInt, KeyStop, IdleSwitch, AlarmStep, Idle, Schedule
<1> QED
  BY <1>3, <1>4 DEF OtherStep, Alarm

\* So no step but the shell's own makes it wait, or wait for something else.
LEMMA OthersKeepCall ==
    ASSUME IInv, OtherStep, pcb'[Shell].pc \in Waits
    PROVE  pcb[Shell].pc \in Waits /\ pcb'[Shell].pid_waitfor = pcb[Shell].pid_waitfor
<1> USE ShellIsPid
<1>1. Kinds
  <2>1. [Next]_vars
    <3>1. Switch(Shell) => Process(Shell)
      BY DEF Process
    <3> QED
      BY <3>1 DEF OtherStep, Next
  <2> QED
    BY <2>1, KindsLemma
<1>2. InProgram(Shell) => pcb' = pcb
  BY OthersSpareCaller DEF InProgram
<1>3. ~InProgram(Shell)
  BY <1>2, CallPc
<1>4. CASE Calm \/ \E t \in Pid, how \in Reported, woken \in SUBSET Pid : Marks(t, how, woken)
  BY <1>4 DEF Calm, Marks, SameFields
<1>5. ASSUME NEW c \in Pid, Frees(c)
      PROVE  pcb[Shell].pc \in Waits /\ pcb'[Shell].pid_waitfor = pcb[Shell].pid_waitfor
  BY <1>5 DEF Frees, SameFields, FreePCB, Waits
<1>6. CASE \E d \in dying : SweepEnds(d)
  BY <1>6 DEF SweepEnds
<1>7. ASSUME NEW p \in Pid, NEW c \in Pid, Spawns(p, c)
      PROVE  pcb[Shell].pc \in Waits /\ pcb'[Shell].pid_waitfor = pcb[Shell].pid_waitfor
  BY <1>7 DEF Spawns, SameFields, NewPCB, FreePCB, Waits
<1>8. ASSUME NEW p \in Pid, BlocksIn(p)
      PROVE  pcb[Shell].pc \in Waits /\ pcb'[Shell].pid_waitfor = pcb[Shell].pid_waitfor
  BY <1>3, <1>8 DEF BlocksIn, SameFields
<1> QED
  BY <1>1, <1>4, <1>5, <1>6, <1>7, <1>8 DEF Kinds, Reaps, Sweeps, Sleeps, WaitsFor

LEMMA NextCall ==
    ASSUME IInv, CallInv, [JobsNext]_allVars
    PROVE  CallInv'
<1>1. CASE pcb'[Shell].pc \notin Waits
  BY <1>1 DEF CallInv
<1>2. CASE UNCHANGED jobVars /\ pcb[Shell].pc \in Waits
           /\ pcb'[Shell].pid_waitfor = pcb[Shell].pid_waitfor
  BY <1>2 DEF CallInv, jobVars, Position
<1>3. CASE OtherStep
  BY <1>1, <1>2, <1>3, OthersKeepCall DEF OtherStep
<1>4. CASE UNCHANGED allVars
  BY <1>1, <1>2, <1>4 DEF allVars, vars
<1>5. CASE at \in {"started", "recur"} /\ Blocks(child)
  BY <1>5, BlocksLemma DEF CallInv, jobVars
<1>6. CASE at = "fg" /\ Blocks(jobs[Position(child)].pid)
  BY <1>6, BlocksLemma DEF CallInv, jobVars, Position
<1>7. CASE at = "reap" /\ ~flag /\ Blocks(AnyChild)
  BY <1>7, BlocksLemma DEF CallInv, jobVars
<1>8. ASSUME NEW target, Returns(target) \/ FindsNothing(target) \/ WaitFound(Shell, target)
      PROVE  pcb'[Shell].pc \notin Waits
  BY <1>8, CallPc DEF Returns, FindsNothing, FindsStopped, vars
<1>9. CASE ShellStep
  <2>1. CASE Poll
    BY <1>1, <1>8, <2>1 DEF Poll, Returns
  <2>2. CASE Launch \/ SpawnNapper \/ Recur
    BY <1>1, <2>2, CallPc DEF Launch, SpawnNapper, Recur
  <2>3. CASE NiceChild \/ NicePid
    BY <1>1, <2>3, CallPc DEF NiceChild, NicePid
  <2>4. CASE Background \/ OtherLine \/ Stress
    BY <1>1, <2>4, CallPc DEF Background, OtherLine, Stress, vars
  <2>5. CASE Foreground \/ RecurWait
    BY <1>1, <1>5, <1>8, <2>5 DEF Foreground, RecurWait
  <2>6. CASE FgWait
    BY <1>1, <1>6, <1>8, <2>6 DEF FgWait
  <2>7. CASE Reap
    BY <1>1, <1>7, <1>8, <2>7 DEF Reap
  <2>8. CASE Fg \/ Bg
    <3>1. InProgram(Shell) /\ (UNCHANGED vars \/ \E node : Restart(node))
      BY <2>8 DEF Fg, FgNode, Bg
    <3> QED
      BY <1>1, <3>1, CallPc DEF Restart, vars
  <2> QED
    BY <1>9, <2>1, <2>2, <2>3, <2>4, <2>5, <2>6, <2>7, <2>8 DEF ShellStep
<1> QED
  BY <1>3, <1>4, <1>9 DEF JobsNext
-----------------------------------------------------------------------------
(* What the shell's calls do to its children. *)

Steady     == Kids' = Kids /\ Done' = Done
Born(c)    == c \in Pid \ (Kids \cup Done) /\ Kids' = Kids \cup {c} /\ Done' = Done
Reaped(c)  == c \in Kids \cap Done /\ Kids' = Kids \ {c} /\ Done' = Done \ {c}
Resumed(t) == Kids' = Kids /\ Done \ {t} \subseteq Done' /\ Done' \subseteq Done

\* Only statuses and parents matter.
LEMMA SteadyLemma ==
    ASSUME \A o \in Pid : pcb'[o].status = pcb[o].status /\ pcb'[o].ppid = pcb[o].ppid
    PROVE  Steady
BY DEF Steady, Kids, Done

\* p_spawn gives the shell a child.
LEMMA SpawnEffect ==
    ASSUME IInv, Spawn(Shell)
    PROVE  Born(CHOOSE c \in Pid : c \in k_find_available_pid)
<1> DEFINE c == CHOOSE c \in Pid : c \in k_find_available_pid
<1>1. PICK b \in k_find_available_pid : pcb' = [pcb EXCEPT ![b] = NewPCB(Shell, MED)]
  BY DEF Spawn
<1>2. b \in Pid /\ c \in Pid /\ c \in k_find_available_pid
  BY <1>1 DEF k_find_available_pid
<1>3. b = c
  <2>1. ~(b < c) /\ ~(c < b)
    BY <1>1, <1>2, MaxPidAssumption DEF k_find_available_pid, Pid
  <2> QED
    BY <1>2, <2>1, MaxPidAssumption DEF Pid
<1> HIDE DEF c
<1>4. pcb[c].status = "FREE"
  BY <1>2, ListedIsPid DEF k_find_available_pid
<1>5. NewPCB(Shell, MED).status = "READY" /\ NewPCB(Shell, MED).ppid = Shell
  BY DEF NewPCB, FreePCB
<1>6. pcb' = [pcb EXCEPT ![c] = NewPCB(Shell, MED)] /\ pcb \in [Pid -> PCB]
  BY <1>1, <1>3, IInvMeans
<1>7. /\ pcb'[c].status = "READY" /\ pcb'[c].ppid = Shell
      /\ \A o \in Pid \ {c} : pcb'[o] = pcb[o]
  BY <1>2, <1>5, <1>6
<1>8. Born(c)
  BY <1>2, <1>4, <1>7 DEF Born, Kids, Done, Reported, Terminated
<1> QED
  BY <1>8 DEF c

\* Blocking changes the shell's own status only.
LEMMA BlockEffect ==
    ASSUME IInv, ShellInv, NEW target, Blocks(target)
    PROVE  Steady
BY BlocksLemma, ShellIsPid DEF ShellInv, Steady, Kids, Done, Reported, Terminated, NoPid, Shell

LEMMA NiceEffect ==
    ASSUME IInv, NEW t, NEW priority, Nice(t, priority)
    PROVE  Steady
<1>1. pcb' = [pcb EXCEPT ![t].process_priority = priority] /\ t \in Pid
  BY ListedIsPid DEF Nice
<1>2. pcb \in [Pid -> PCB] /\ pcb[t] \in PCB
  BY <1>1, IInvMeans
<1>3. \A o \in Pid : pcb'[o].status = pcb[o].status /\ pcb'[o].ppid = pcb[o].ppid
  BY <1>1, <1>2 DEF PCB
<1> QED
  BY <1>3, SteadyLemma

\* Continuing a child takes it from those to be reported, if it had stopped.
LEMMA ContinueEffect ==
    ASSUME IInv, NEW t \in Kids, SigCont(t, pcb)
    PROVE  Resumed(t)
<1>1. t \in Pid /\ pcb \in [Pid -> PCB] /\ pcb[t] \in PCB
  BY IInvMeans DEF Kids
<1>2. CASE pcb' = pcb
  BY <1>2 DEF Resumed, Kids, Done
<1>3. ASSUME NEW s \in {"READY", "BLOCKED"}, pcb' = [pcb EXCEPT ![t].status = s]
      PROVE  Resumed(t)
  <2>1. \A o \in Pid : /\ pcb'[o].status = IF o = t THEN s ELSE pcb[o].status
                       /\ pcb'[o].ppid = pcb[o].ppid
    BY <1>1, <1>3 DEF PCB
  <2>2. s # "FREE" /\ s \notin Reported
    BY DEF Reported, Terminated
  <2>3. pcb[t].status # "FREE"
    BY DEF Kids
  <2> QED
    BY <2>1, <2>2, <2>3 DEF Resumed, Kids, Done
<1> QED
  BY <1>2, <1>3 DEF SigCont

\* What p_waitpid reports, and that there is nothing else if it fails.
LEMMA FoundWhat ==
    ASSUME IInv, NEW target
    PROVE  LET found == Found(target) IN
           \/ /\ found.how \in Terminated /\ FoundIn(Zombie, Shell, target) # {}
              /\ found.pid = FirstFound(Zombie, Shell, target)
              /\ found.pid \in Done /\ WaitsOn(Shell, target, found.pid)
           \/ /\ found.how = "STOPPED" /\ FoundIn(Zombie, Shell, target) = {}
              /\ found.pid \in Done /\ WaitsOn(Shell, target, found.pid)
           \/ /\ found.how = "FAILURE" /\ FoundIn(Zombie, Shell, target) = {}
              /\ found.pid = -1
              /\ \A c \in Done : ~WaitsOn(Shell, target, c)
<1>1. Zombie \in ListId /\ Stopped \in ListId
  BY DEF Zombie, Stopped, ListId
<1>2. \A c : On(queue[Zombie], c) \/ On(queue[Stopped], c) => c \in Pid
  BY <1>1, ListedIsPid DEF Listed, ListsOf
<1>3. \A c : WaitsOn(Shell, target, c) <=> Matches(c, Shell, target)
  BY DEF WaitsOn, Matches
<1>4. CASE FoundIn(Zombie, Shell, target) # {}
  <2> DEFINE c == FirstFound(Zombie, Shell, target)
  <2>1. c \in FoundIn(Zombie, Shell, target)
    BY <1>1, <1>4, FirstFoundLemma
  <2>2. Found(target) = [pid |-> c, how |-> pcb[c].status]
    BY <1>4 DEF Found
  <2> HIDE DEF c
  <2>3. c \in Pid /\ pcb[c].status \in Terminated /\ WaitsOn(Shell, target, c)
    BY <1>2, <1>3, <2>1, StatusOfList DEF FoundIn, On
  <2> QED
    BY <1>4, <2>2, <2>3 DEF Done, Reported, c
<1>5. CASE FoundIn(Zombie, Shell, target) = {} /\ FoundIn(Stopped, Shell, target) # {}
  <2> DEFINE c == FirstFound(Stopped, Shell, target)
  <2>1. c \in FoundIn(Stopped, Shell, target)
    BY <1>1, <1>5, FirstFoundLemma
  <2>2. Found(target) = [pid |-> c, how |-> "STOPPED"]
    BY <1>5 DEF Found
  <2> HIDE DEF c
  <2>3. c \in Pid /\ pcb[c].status = "STOPPED" /\ WaitsOn(Shell, target, c)
    BY <1>2, <1>3, <2>1, StatusOfList DEF FoundIn, On
  <2> QED
    BY <1>5, <2>2, <2>3 DEF Done, Reported
<1>6. CASE FoundIn(Zombie, Shell, target) = {} /\ FoundIn(Stopped, Shell, target) = {}
  <2>1. Found(target) = [pid |-> -1, how |-> "FAILURE"]
    BY <1>6 DEF Found
  <2>2. \A c \in Done : On(queue[Zombie], c) \/ On(queue[Stopped], c)
    BY StatusOfList DEF Done, Reported
  <2> QED
    BY <1>3, <1>6, <2>1, <2>2 DEF FoundIn, On
<1> QED
  BY <1>4, <1>5, <1>6

\* Reaping what was found.
LEMMA ReapEffect ==
    ASSUME IInv, NEW target, NEW pcbs, SameButPc(pcbs), ReapFound(Shell, target, pcbs),
           target # AnyChild => target \in Kids
    PROVE  /\ Found(target).how \in Terminated => Reaped(Found(target).pid)
           /\ Found(target).how \notin Terminated => Steady
<1>1. CASE FoundIn(Zombie, Shell, target) = {}
  <2>1. pcb' = pcbs /\ Found(target).how \notin Terminated
    BY <1>1, FoundWhat DEF ReapFound, Terminated
  <2> QED
    BY <2>1, SteadyLemma DEF SameButPc, SameFields
<1>2. CASE FoundIn(Zombie, Shell, target) # {}
  <2> DEFINE c == FirstFound(Zombie, Shell, target)
  <2>1. /\ Found(target).how \in Terminated /\ Found(target).pid = c
        /\ c \in Done /\ WaitsOn(Shell, target, c)
    BY <1>2, FoundWhat
  <2>2. pcb' = [pcbs EXCEPT ![c] = FreePCB]
    BY <1>2 DEF ReapFound
  <2> HIDE DEF c
  <2>3. c \in Pid /\ pcb[c].ppid = Shell /\ c \in Kids
    <3>1. c \in Pid /\ pcb[c].status # "FREE"
      BY <2>1 DEF Done, Reported, Terminated
    <3>2. c # AnyChild
      BY <3>1 DEF Pid, AnyChild
    <3> QED
      BY <2>1, <3>1, <3>2 DEF WaitsOn, Kids
  <2>4. pcb'[c].status = "FREE" /\ \A o \in Pid \ {c} : pcb'[o] = pcbs[o]
    BY <2>2, <2>3 DEF SameButPc, SameFields, FreePCB
  <2>5. Reaped(c)
    BY <2>1, <2>3, <2>4 DEF SameButPc, SameFields, Reaped, Kids, Done, Reported, Terminated
  <2> QED
    BY <2>1, <2>5
<1> QED
  BY <1>1, <1>2

\* A call of p_waitpid that returns reaps the zombie it reports, if it reports
\* one; it fails only after having blocked.
LEMMA ReturnsLemma ==
    ASSUME IInv, NEW target, Returns(target), target # AnyChild => target \in Kids,
           pcb[Shell].pc \in Waits => pcb[Shell].pid_waitfor = target
    PROVE  /\ Found(target).how \in Terminated => Reaped(Found(target).pid)
           /\ Found(target).how \notin Terminated => Steady
           /\ Found(target).how = "FAILURE" => WaitResume(Shell)
<1>1. SameButPc(pcb) /\ SameButPc([pcb EXCEPT ![Shell].pc = "user"])
  <2>1. "user" \in PC \ Waits /\ FALSE \in BOOLEAN
    BY DEF PC, Waits
  <2> QED
    BY <2>1, ShellIsPid, SameButPcLemma
<1>2. CASE WaitFound(Shell, target)
  <2>1. ReapFound(Shell, target, pcb) /\ FoundIn(Zombie, Shell, target) # {}
    BY <1>2 DEF WaitFound
  <2>2. Found(target).how # "FAILURE"
    BY <2>1, FoundWhat DEF Terminated
  <2> QED
    BY <1>1, <2>1, <2>2, ReapEffect
<1>3. CASE FindsStopped(target)
  <2>1. Found(target).how = "STOPPED" /\ pcb' = pcb
    BY <1>3 DEF FindsStopped, vars
  <2> QED
    BY <2>1, SteadyLemma DEF Terminated
<1>4. CASE WaitResume(Shell)
  <2>1. ReapFound(Shell, target, [pcb EXCEPT ![Shell].pc = "user"])
    BY <1>4 DEF WaitResume, Waits
  <2> QED
    BY <1>1, <1>4, <2>1, ReapEffect
<1> QED
  BY <1>2, <1>3, <1>4 DEF Returns

\* A call that returns after having blocked finds something to report.
LEMMA ResumeFinds ==
    ASSUME IInv, ShellInv, ReadyInv, WaitInv, NEW target, WaitResume(Shell),
           pcb[Shell].pid_waitfor = target
    PROVE  Found(target).how # "FAILURE"
<1>1. /\ pcb[Shell].pc = "wait_resume" /\ Running(Shell) /\ ~pcb[Shell].stopping
      /\ Executing(Shell)
  BY DEF WaitResume, Running, Executing
<1>2. ~On(waiting_list, Shell)
  BY <1>1, ShellIsPid, ExecutingIsAwake
<1>3. \E c \in Done : WaitsOn(Shell, target, c)
  BY <1>1, <1>2, ShellIsPid DEF WaitInv, Waits, ShellInv, Gone, Terminated
<1> QED
  BY <1>3, FoundWhat DEF Terminated
-----------------------------------------------------------------------------
(* Every step keeps jobs and children together. *)

JobsSafe == AllInv /\ JInv /\ CallInv /\ StressInv /\ IdsUnique /\ ListInv

\* What a step has to show.
Holds ==
    /\ IdsUnique' /\ ListInv'
    /\ NoKill /\ WaitInv /\ StoppedInv => StoppedInv'
    /\ NoKill /\ WaitInv /\ "recur" \notin Commands /\ ChildInv => ChildInv'
    /\ InProgram(Shell) => Done \ Done' \subseteq Kids

LEMMA JobsSafeMeans ==
    ASSUME JobsSafe
    PROVE  /\ IInv /\ SafeInv /\ ShellInv /\ ReadyInv /\ FamilyInv
           /\ JInv /\ JobsTypeOK /\ CallInv /\ IdsUnique
           /\ PausedPids \subseteq JobPids
           /\ AtJobs => PidsUnique /\ JobPids \subseteq Kids
           /\ at \in {"nice", "started", "recur"} => child \in Kids \ JobPids
           /\ AnyChild \notin Kids
<1>1. PausedPids \subseteq JobPids
  BY DEF PausedPids, StoppedJobs, JobPids
<1>2. at \in {"nice", "started", "recur"} => child \in Kids \ JobPids
  BY DEF JobsSafe, ListInv, AtJobs
<1>3. AnyChild \notin Kids
  BY DEF Kids, Pid, AnyChild
<1> QED
  BY <1>1, <1>2, <1>3 DEF JobsSafe, AllInv, JInv, ListInv

\* A step that leaves the list and the children as they are.
LEMMA SameList ==
    ASSUME JobsSafe, AtJobs, Steady, jobs' = jobs,
           at' \in {"nice", "started", "recur"} =>
              at \in {"nice", "started", "recur"} /\ child' = child,
           at \in {"nice", "started"} => at' \in {"nice", "started"} /\ child' = child,
           at' = "recur" => at = "recur"
    PROVE  Holds
<1>1. JobPids' = JobPids /\ PausedPids' = PausedPids /\ (IdsUnique => IdsUnique')
      /\ (PidsUnique => PidsUnique')
  BY DEF JobPids, PausedPids, StoppedJobs, IdsUnique, PidsUnique
<1>2. IdsUnique' /\ ListInv'
  BY <1>1, JobsSafeMeans DEF ListInv, Steady
<1>3. StoppedInv => StoppedInv'
  BY <1>1 DEF StoppedInv, Steady
<1>4. ChildInv => ChildInv'
  BY <1>1 DEF ChildInv, Steady
<1> QED
  BY <1>2, <1>3, <1>4 DEF Holds, Steady

\* A step to a place where the list says nothing.
LEMMA OutOfJobs ==
    ASSUME JobsSafe, ~AtJobs', jobs' = jobs, InProgram(Shell) => Done \ Done' \subseteq Kids
    PROVE  Holds
BY DEF JobsSafe, Holds, IdsUnique, ListInv, StoppedInv, ChildInv

\* What p_waitpid reported is taken from the list, or marked.
LEMMA ReportLemma ==
    ASSUME JobsSafe, AtJobs, at \notin {"nice", "started", "recur"},
           NEW node \in Nodes, NEW pid, jobs[Position(node)].pid = pid,
           at' \notin {"nice", "started", "recur"},
           \/ Reaped(pid) /\ remove_job(node)
           \/ Steady /\ pid \in Done /\ SetStatus(node, "stopped")
    PROVE  Holds
<1>1. PidsUnique /\ JobPids \subseteq Kids /\ PausedPids \subseteq JobPids
      /\ JobsTypeOK /\ IdsUnique
  BY JobsSafeMeans
<1>2. CASE Reaped(pid) /\ remove_job(node)
  <2>1. IdsUnique' /\ PidsUnique' /\ JobPids' = JobPids \ {pid} /\ PausedPids' = PausedPids \ {pid}
    BY <1>1, <1>2, RemoveJobList
  <2>2. IdsUnique' /\ ListInv'
    BY <1>1, <1>2, <2>1 DEF ListInv, Reaped
  <2>3. StoppedInv => StoppedInv'
    BY <1>2, <2>1 DEF StoppedInv, Reaped
  <2>4. ChildInv => ChildInv'
    BY <1>2, <2>1 DEF ChildInv, Reaped
  <2> QED
    BY <1>2, <2>2, <2>3, <2>4 DEF Holds, Reaped
<1>3. CASE Steady /\ pid \in Done /\ SetStatus(node, "stopped")
  <2>1. IdsUnique' /\ PidsUnique' /\ JobPids' = JobPids /\ PausedPids' = PausedPids \cup {pid}
    BY <1>1, <1>3, MarkJobList
  <2>2. IdsUnique' /\ ListInv'
    BY <1>1, <1>3, <2>1 DEF ListInv, Steady
  <2>3. StoppedInv => StoppedInv'
    BY <1>3, <2>1 DEF StoppedInv, Steady
  <2>4. ChildInv => ChildInv'
    BY <1>3, <2>1 DEF ChildInv, Steady
  <2> QED
    BY <1>3, <2>2, <2>3, <2>4 DEF Holds, Steady
<1> QED
  BY <1>2, <1>3

LEMMA PollHolds ==
    ASSUME JobsSafe, Poll
    PROVE  Holds
<1> DEFINE found == Found(AnyChild)
           node == Min(find_job_by_pid(found.pid))
<1>1. AtJobs /\ at = "poll"
  BY DEF Poll, AtJobs
<1>2. CASE FindsNothing(AnyChild) /\ GoTo("prompt") /\ UNCHANGED <<jobs, cur_job_node, status>>
  <2>1. Steady
    BY <1>2, SteadyLemma DEF FindsNothing, vars
  <2> QED
    BY <1>1, <1>2, <2>1, SameList DEF GoTo
<1>3. CASE /\ WaitFound(Shell, AnyChild) \/ FindsStopped(AnyChild)
           /\ IF find_job_by_pid(found.pid) = {}
              THEN GoTo("undefined") /\ UNCHANGED <<jobs, cur_job_node>>
              ELSE change_job_status(node, found.how) /\ GoTo("prompt")
  <2>1. InProgram(Shell) /\ pcb[Shell].pc = "user" /\ Returns(AnyChild)
    BY <1>3 DEF WaitFound, FindsStopped, InProgram, Returns
  <2>2. IInv /\ IdsUnique /\ JobsTypeOK
    BY JobsSafeMeans
  <2>3. /\ found.how \in Terminated => Reaped(found.pid)
        /\ found.how \notin Terminated => Steady
        /\ found.how # "FAILURE"
    BY <2>1, <2>2, ReturnsLemma DEF Waits, WaitResume
  <2>4. found.pid \in Done /\ (found.how \in Terminated \/ found.how = "STOPPED")
    BY <2>2, <2>3, FoundWhat
  <2> HIDE DEF found
  <2>5. CASE find_job_by_pid(found.pid) = {}
    <3>1. ~AtJobs' /\ jobs' = jobs
      BY <1>3, <2>5 DEF GoTo, AtJobs
    <3>2. Done \ Done' \subseteq Kids
      BY <2>3 DEF Reaped, Steady
    <3> QED
      BY <3>1, <3>2, OutOfJobs
  <2>6. CASE find_job_by_pid(found.pid) # {}
    <3>1. node \in Nodes /\ jobs[Position(node)].pid = found.pid
      BY <2>2, <2>6, FoundJob
    <3>2. change_job_status(node, found.how) /\ at' = "prompt"
      BY <1>3, <2>6 DEF GoTo
    <3> HIDE DEF node
    <3>3. \/ Reaped(found.pid) /\ remove_job(node)
          \/ Steady /\ SetStatus(node, "stopped")
      BY <2>3, <2>4, <3>2 DEF change_job_status, Terminated
    <3> QED
      BY <1>1, <2>4, <3>1, <3>2, <3>3, ReportLemma
  <2> QED
    BY <2>5, <2>6
<1> QED
  BY <1>2, <1>3 DEF Poll

\* A new child is in no job.
LEMMA LaunchHolds ==
    ASSUME JobsSafe, Launch \/ Recur
    PROVE  Holds
<1> DEFINE c == CHOOSE c \in Pid : c \in k_find_available_pid
<1>1. /\ AtJobs /\ at = "prompt" /\ Spawn(Shell) /\ child' = c /\ jobs' = jobs
      /\ at' \in {"started", "nice", "recur"} /\ (at' = "recur" => "recur" \in Commands)
  BY DEF Launch, Recur, AtJobs
<1>2. Born(c)
  BY <1>1, JobsSafeMeans, SpawnEffect
<1> HIDE DEF c
<1>3. PidsUnique /\ JobPids \subseteq Kids /\ PausedPids \subseteq JobPids /\ IdsUnique
  BY <1>1, JobsSafeMeans
<1>4. JobPids' = JobPids /\ PausedPids' = PausedPids /\ IdsUnique' /\ PidsUnique'
  BY <1>1, <1>3 DEF JobPids, PausedPids, StoppedJobs, IdsUnique, PidsUnique
<1>5. ListInv'
  BY <1>1, <1>2, <1>3, <1>4 DEF ListInv, Born
<1>6. StoppedInv => StoppedInv'
  BY <1>1, <1>2, <1>4 DEF StoppedInv, Born
<1>7. "recur" \notin Commands /\ ChildInv => ChildInv'
  BY <1>1, <1>2, <1>4 DEF ChildInv, Born
<1> QED
  BY <1>2, <1>4, <1>5, <1>6, <1>7 DEF Holds, Born

\* The started child becomes a job.
LEMMA AddHolds ==
    ASSUME JobsSafe, at = "started", at' = "poll", Steady,
           NEW job_status \in {"running", "stopped"}, add_job(child, job_status)
    PROVE  /\ IdsUnique' /\ ListInv'
           /\ StoppedInv /\ (job_status = "stopped" => child \in Done) => StoppedInv'
           /\ ChildInv => ChildInv'
           /\ Done \ Done' \subseteq Kids
<1>1. AtJobs
  BY DEF AtJobs
<1>2. /\ PidsUnique /\ JobPids \subseteq Kids /\ PausedPids \subseteq JobPids /\ IdsUnique
      /\ JobsTypeOK /\ child \in Kids \ JobPids /\ child \in Pid
  BY <1>1, JobsSafeMeans DEF Kids
<1>3. /\ IdsUnique' /\ PidsUnique' /\ JobPids' = JobPids \cup {child}
      /\ PausedPids' = PausedPids \cup (IF job_status = "stopped" THEN {child} ELSE {})
  BY <1>2, AddJobList
<1>4. ListInv'
  BY <1>2, <1>3 DEF ListInv, Steady
<1>5. StoppedInv /\ (job_status = "stopped" => child \in Done) => StoppedInv'
  BY <1>1, <1>3 DEF StoppedInv, Steady
<1>6. ChildInv => ChildInv'
  BY <1>1, <1>3 DEF ChildInv, Steady
<1> QED
  BY <1>3, <1>4, <1>5, <1>6 DEF Steady

LEMMA BackgroundHolds ==
    ASSUME JobsSafe, Background
    PROVE  Holds
<1>1. at = "started" /\ at' = "poll" /\ add_job(child, "running")
  BY DEF Background, GoTo
<1>2. Steady
  BY SteadyLemma DEF Background, vars
<1> QED
  BY <1>1, <1>2, AddHolds DEF Holds

\* What the call for a child returns.
LEMMA ReturnsOwn ==
    ASSUME JobsSafe, NEW target, Returns(target),
           target = AnyChild \/ target \in Kids,
           pcb[Shell].pc \in Waits => pcb[Shell].pid_waitfor = target
    PROVE  /\ \/ Found(target).how \in Terminated /\ Reaped(Found(target).pid)
              \/ Found(target).how = "STOPPED" /\ Steady /\ Found(target).pid \in Done
              \/ Found(target).how = "FAILURE" /\ Found(target).pid = -1 /\ Steady
                 /\ pcb[Shell].pc \in Waits /\ ~WaitInv
           /\ Found(target).how # "FAILURE" =>
                 Found(target).pid # -1 /\ (target # AnyChild => Found(target).pid = target)
           /\ Done \ Done' \subseteq Kids
<1>1. IInv /\ ShellInv /\ ReadyInv
  BY JobsSafeMeans
<1>2. /\ Found(target).how \in Terminated => Reaped(Found(target).pid)
      /\ Found(target).how \notin Terminated => Steady
      /\ Found(target).how = "FAILURE" => WaitResume(Shell)
  BY <1>1, JobsSafeMeans, ReturnsLemma
<1>3. WaitResume(Shell) => pcb[Shell].pc \in Waits
  BY DEF WaitResume, Waits
<1>4. WaitInv => Found(target).how # "FAILURE"
  BY <1>1, <1>2, <1>3, ResumeFinds
<1>5. Done \ Done' \subseteq Kids
  BY <1>2 DEF Reaped, Steady
<1>6. \A c \in Done : c # -1 /\ (WaitsOn(Shell, target, c) /\ target # AnyChild => c = target)
  BY DEF Done, Pid, WaitsOn
<1> QED
  BY <1>1, <1>2, <1>3, <1>4, <1>5, <1>6, FoundWhat

\* The call the shell waits in is for a child: the one it started, or a job's.
LEMMA WaitsForChild ==
    ASSUME JobsSafe
    PROVE  /\ at \in {"started", "recur"} =>
                /\ child \in Kids
                /\ pcb[Shell].pc \in Waits => pcb[Shell].pid_waitfor = child
           /\ at = "fg" =>
                /\ child \in Nodes /\ jobs[Position(child)].pid \in Kids
                /\ pcb[Shell].pc \in Waits =>
                      pcb[Shell].pid_waitfor = jobs[Position(child)].pid
           /\ at = "reap" /\ pcb[Shell].pc \in Waits =>
                ~flag /\ pcb[Shell].pid_waitfor = AnyChild
<1>1. at = "fg" => child \in Nodes /\ jobs[Position(child)].pid \in Kids
  <2>1. at = "fg" => AtJobs /\ child \in Nodes
    BY DEF AtJobs, JobsSafe, JInv
  <2> QED
    BY <2>1, JobsSafeMeans, NodeFacts DEF JobPids
<1> QED
  BY <1>1, JobsSafeMeans DEF JobsSafe, CallInv

LEMMA ForegroundHolds ==
    ASSUME JobsSafe, Foreground
    PROVE  Holds
<1> DEFINE found == Found(child)
           how   == IF found.pid = -1 THEN status ELSE found.how
<1>1. AtJobs /\ at = "started"
  BY DEF Foreground, AtJobs
<1>2. CASE Blocks(child)
  <2>1. Steady /\ UNCHANGED jobVars
    BY <1>2, JobsSafeMeans, BlockEffect, BlocksLemma
  <2> QED
    BY <1>1, <2>1, SameList DEF jobVars
<1>3. CASE /\ Returns(child)
           /\ IF how = "STOPPED"
              THEN add_job(child, "stopped") \/ (found.pid = -1 /\ add_job(child, "running"))
              ELSE UNCHANGED <<jobs, cur_job_node>>
           /\ GoTo("poll")
  <2>1. child \in Kids /\ child # AnyChild
        /\ (pcb[Shell].pc \in Waits => pcb[Shell].pid_waitfor = child)
    BY <1>1, WaitsForChild, JobsSafeMeans
  <2>2. /\ \/ found.how \in Terminated /\ Reaped(found.pid)
           \/ found.how = "STOPPED" /\ Steady /\ found.pid \in Done
           \/ found.how = "FAILURE" /\ found.pid = -1 /\ Steady
              /\ pcb[Shell].pc \in Waits /\ ~WaitInv
        /\ found.how # "FAILURE" => found.pid # -1 /\ found.pid = child
    BY <1>3, <2>1, ReturnsOwn
  <2>3. at' = "poll"
    BY <1>3 DEF GoTo
  <2>4. CASE found.how \in Terminated
    <3>1. Reaped(child) /\ jobs' = jobs
      BY <1>3, <2>2, <2>4 DEF Terminated
    <3>2. PidsUnique /\ JobPids \subseteq Kids /\ PausedPids \subseteq JobPids /\ IdsUnique
          /\ child \notin JobPids
      BY <1>1, JobsSafeMeans
    <3>3. JobPids' = JobPids /\ PausedPids' = PausedPids /\ IdsUnique' /\ PidsUnique'
      BY <3>1, <3>2 DEF JobPids, PausedPids, StoppedJobs, IdsUnique, PidsUnique
    <3>4. ListInv'
      BY <2>3, <3>1, <3>2, <3>3 DEF ListInv, Reaped
    <3>5. StoppedInv => StoppedInv'
      BY <1>1, <3>1, <3>2, <3>3 DEF StoppedInv, Reaped
    <3>6. ChildInv => ChildInv'
      BY <1>1, <2>3, <3>1, <3>3 DEF ChildInv, Reaped
    <3> QED
      BY <3>1, <3>3, <3>4, <3>5, <3>6 DEF Holds, Reaped
  <2>5. CASE found.how = "STOPPED"
    <3>1. Steady /\ child \in Done /\ add_job(child, "stopped")
      BY <1>3, <2>2, <2>5 DEF Terminated
    <3> QED
      BY <1>1, <2>3, <3>1, AddHolds DEF Holds
  <2>6. CASE found.how = "FAILURE"
    <3>1. Steady /\ ~WaitInv
      BY <2>2, <2>6 DEF Terminated
    <3>2. CASE \E job_status \in {"stopped", "running"} : add_job(child, job_status)
      BY <1>1, <2>3, <3>1, <3>2, AddHolds DEF Holds
    <3>3. CASE UNCHANGED <<jobs, cur_job_node>>
      <4>1. IdsUnique' /\ ListInv'
        BY <1>1, <2>3, <3>1, <3>3, JobsSafeMeans
           DEF IdsUnique, ListInv, Steady, JobPids, PidsUnique
      <4> QED
        BY <3>1, <4>1 DEF Holds, Steady
    <3> QED
      BY <1>3, <3>2, <3>3
  <2> QED
    BY <2>2, <2>4, <2>5, <2>6
<1> QED
  BY <1>2, <1>3 DEF Foreground

LEMMA LineHolds ==
    ASSUME JobsSafe, NiceChild \/ NicePid \/ OtherLine
    PROVE  Holds
<1>1. Steady
  BY JobsSafeMeans, NiceEffect, SteadyLemma DEF NiceChild, NicePid, OtherLine, vars
<1> QED
  BY <1>1, SameList DEF NiceChild, NicePid, OtherLine, GoTo, AtJobs

\* A job shown as stopped is continued.
LEMMA RestartHolds ==
    ASSUME JobsSafe, at = "prompt", NEW node \in Nodes, Restart(node), at' \in {"fg", "poll"}
    PROVE  Holds
<1> DEFINE t == jobs[Position(node)].pid
<1>1. AtJobs
  BY DEF AtJobs
<1>2. /\ PidsUnique /\ JobPids \subseteq Kids /\ PausedPids \subseteq JobPids /\ IdsUnique
      /\ JobsTypeOK /\ IInv
  BY <1>1, JobsSafeMeans
<1>3. t \in JobPids
  BY <1>2, NodeFacts DEF JobPids
<1>4. SigCont(t, pcb) /\ SetStatus(node, "running")
  BY DEF Restart
<1>5. IdsUnique' /\ PidsUnique' /\ JobPids' = JobPids /\ PausedPids' = PausedPids \ {t}
  BY <1>2, <1>4, MarkJobList
<1> HIDE DEF t
<1>6. Resumed(t)
  BY <1>2, <1>3, <1>4, ContinueEffect
<1>7. ListInv'
  BY <1>2, <1>5, <1>6 DEF ListInv, Resumed
<1>8. StoppedInv => StoppedInv'
  BY <1>1, <1>5, <1>6 DEF StoppedInv, Resumed
<1>9. ChildInv => ChildInv'
  BY <1>1, <1>5, <1>6 DEF ChildInv, Resumed
<1>10. Done \ Done' \subseteq Kids
  BY <1>2, <1>3, <1>6 DEF Resumed
<1> QED
  BY <1>5, <1>7, <1>8, <1>9, <1>10 DEF Holds

LEMMA FgHolds ==
    ASSUME JobsSafe, Fg \/ Bg
    PROVE  Holds
<1>1. at = "prompt" /\ AtJobs
  BY DEF Fg, Bg, AtJobs
<1>2. ASSUME NEW node, NEW stopped, FgNode(node, stopped)
      PROVE  Holds
  <2>1. CASE UNCHANGED <<vars, jobs>> /\ at' \in {"poll", "undefined", "fg"}
    BY <1>1, <2>1, SteadyLemma, SameList DEF vars
  <2>2. CASE node \in Nodes /\ Restart(node) /\ at' = "fg"
    BY <1>1, <2>2, RestartHolds
  <2> QED
    BY <1>2, <2>1, <2>2 DEF FgNode, GoTo
<1>3. CASE Bg
  <2>1. CASE UNCHANGED <<vars, jobs>> /\ at' = "undefined"
    BY <1>1, <2>1, SteadyLemma, SameList DEF vars
  <2>2. ASSUME NEW i \in StoppedJobs, Restart(jobs[i].job_id), at' = "poll"
        PROVE  Holds
    <3>1. jobs[i].job_id \in Nodes
      BY DEF StoppedJobs, Nodes
    <3> QED
      BY <1>1, <2>2, <3>1, RestartHolds
  <2> QED
    BY <1>3, <2>1, <2>2 DEF Bg, GoTo
<1> QED
  BY <1>2, <1>3 DEF Fg

LEMMA FgWaitHolds ==
    ASSUME JobsSafe, FgWait
    PROVE  Holds
<1> DEFINE pid == jobs[Position(child)].pid
           found == Found(pid)
<1>1. AtJobs /\ at = "fg"
  BY DEF FgWait, AtJobs
<1>2. /\ child \in Nodes /\ pid \in Kids /\ pid # AnyChild
      /\ pcb[Shell].pc \in Waits => pcb[Shell].pid_waitfor = pid
  BY <1>1, WaitsForChild, JobsSafeMeans
<1>3. CASE Blocks(pid)
  <2>1. Steady /\ UNCHANGED jobVars
    BY <1>3, JobsSafeMeans, BlockEffect, BlocksLemma
  <2> QED
    BY <1>1, <2>1, SameList DEF jobVars
<1>4. CASE /\ Returns(pid)
           /\ \/ found.how \in Terminated \cup {"FAILURE"} /\ FgEnds(child)
              \/ found.how \in {"STOPPED", "FAILURE"} /\ change_job_status(child, "STOPPED")
              \/ found.how = "FAILURE" /\ cur_job_node' = child /\ UNCHANGED jobs
           /\ GoTo("poll")
  <2>1. /\ \/ found.how \in Terminated /\ Reaped(found.pid)
           \/ found.how = "STOPPED" /\ Steady /\ found.pid \in Done
           \/ found.how = "FAILURE" /\ found.pid = -1 /\ Steady
              /\ pcb[Shell].pc \in Waits /\ ~WaitInv
        /\ found.how # "FAILURE" => found.pid # -1 /\ found.pid = pid
    BY <1>2, <1>4, ReturnsOwn
  <2>2. at' = "poll"
    BY <1>4 DEF GoTo
  <2>3. CASE found.how \in Terminated
    <3>1. Reaped(pid) /\ remove_job(child)
      BY <1>4, <2>1, <2>3 DEF FgEnds, Terminated
    <3> QED
      BY <1>1, <1>2, <2>2, <3>1, ReportLemma
  <2>4. CASE found.how = "STOPPED"
    <3>1. Steady /\ pid \in Done /\ SetStatus(child, "stopped")
      BY <1>4, <2>1, <2>4 DEF change_job_status, Terminated
    <3> QED
      BY <1>1, <1>2, <2>2, <3>1, ReportLemma
  <2>5. CASE found.how = "FAILURE"
    <3>1. Steady /\ ~WaitInv
      BY <2>1, <2>5 DEF Terminated
    <3>2. /\ PidsUnique /\ JobPids \subseteq Kids /\ IdsUnique /\ JobsTypeOK
      BY <1>1, JobsSafeMeans
    <3>3. \/ remove_job(child) \/ SetStatus(child, "stopped") \/ UNCHANGED jobs
      BY <1>4, <2>5 DEF change_job_status, FgEnds, Terminated
    <3>4. IdsUnique' /\ PidsUnique' /\ JobPids' \subseteq JobPids
      BY <1>2, <3>2, <3>3, RemoveJobList, MarkJobList DEF IdsUnique, PidsUnique, JobPids
    <3>5. ListInv'
      BY <2>2, <3>1, <3>2, <3>4 DEF ListInv, Steady
    <3> QED
      BY <3>1, <3>4, <3>5 DEF Holds, Steady
  <2> QED
    BY <2>1, <2>3, <2>4, <2>5
<1> QED
  BY <1>3, <1>4 DEF FgWait

LEMMA RecurWaitHolds ==
    ASSUME JobsSafe, RecurWait
    PROVE  Holds
<1>1. AtJobs /\ at = "recur"
  BY DEF RecurWait, AtJobs
<1>2. CASE Blocks(child)
  <2>1. Steady /\ UNCHANGED jobVars
    BY <1>2, JobsSafeMeans, BlockEffect, BlocksLemma
  <2> QED
    BY <1>1, <2>1, SameList DEF jobVars
<1>3. CASE Returns(child) /\ at' = "poll" /\ jobs' = jobs
  <2>1. child \in Kids \ JobPids
        /\ (pcb[Shell].pc \in Waits => pcb[Shell].pid_waitfor = child)
    BY <1>1, WaitsForChild, JobsSafeMeans
  <2>2. Reaped(child) \/ Steady
    BY <1>3, <2>1, ReturnsOwn, JobsSafeMeans DEF Terminated
  <2>3. PidsUnique /\ JobPids \subseteq Kids /\ PausedPids \subseteq JobPids /\ IdsUnique
    BY <1>1, JobsSafeMeans
  <2>4. JobPids' = JobPids /\ PausedPids' = PausedPids /\ IdsUnique' /\ PidsUnique'
    BY <1>3, <2>3 DEF JobPids, PausedPids, StoppedJobs, IdsUnique, PidsUnique
  <2>5. ListInv'
    BY <1>3, <2>1, <2>2, <2>3, <2>4 DEF ListInv, Reaped, Steady
  <2>6. StoppedInv => StoppedInv'
    BY <1>1, <2>1, <2>2, <2>3, <2>4 DEF StoppedInv, Reaped, Steady
  <2>7. ~ChildInv
    BY <1>1 DEF ChildInv
  <2>8. Done \ Done' \subseteq Kids
    BY <2>2 DEF Reaped, Steady
  <2> QED
    BY <2>4, <2>5, <2>6, <2>7, <2>8 DEF Holds
<1> QED
  BY <1>2, <1>3 DEF RecurWait, GoTo

\* The loops of hang and nohang do not end, so that the jobs whose processes
\* they reap are never looked at again.
LEMMA StressHolds ==
    ASSUME JobsSafe, Stress \/ SpawnNapper \/ Reap,
           \/ NoKill /\ WaitInv
           \/ "hang" \notin Commands
    PROVE  Holds
<1>1. CASE Stress
  <2>1. Steady
    BY <1>1, SteadyLemma DEF Stress, vars
  <2> QED
    BY <1>1, <2>1, OutOfJobs DEF Stress, AtJobs, Steady
<1>2. CASE SpawnNapper
  <2>1. \E c \in Pid : Born(c)
    <3>1. \E c \in Pid : c \in k_find_available_pid
      BY <1>2 DEF SpawnNapper, Spawn, k_find_available_pid
    <3> QED
      BY <1>2, <3>1, JobsSafeMeans, SpawnEffect DEF SpawnNapper
  <2>2. Done' = Done
    BY <2>1 DEF Born
  <2> QED
    BY <1>2, <2>2, OutOfJobs DEF SpawnNapper, AtJobs
<1>3. CASE Reap
  <2>1. at = "reap" /\ ~AtJobs
    BY <1>3 DEF Reap, AtJobs
  <2>2. CASE Blocks(AnyChild) \/ (FindsNothing(AnyChild) /\ UNCHANGED jobVars)
    <3>1. Steady /\ UNCHANGED jobVars
      BY <2>2, JobsSafeMeans, BlockEffect, BlocksLemma, SteadyLemma DEF FindsNothing, vars
    <3> QED
      BY <2>1, <3>1, OutOfJobs DEF jobVars, AtJobs, Steady
  <2>3. CASE /\ Returns(AnyChild)
             /\ IF Found(AnyChild).pid = -1 THEN GoTo("poll") ELSE UNCHANGED <<at, child, flag>>
             /\ jobs' = jobs
    <3>1. pcb[Shell].pc \in Waits => ~flag /\ pcb[Shell].pid_waitfor = AnyChild
      BY <2>1, WaitsForChild
    <3>2. /\ \/ Found(AnyChild).how \in Terminated /\ Reaped(Found(AnyChild).pid)
             \/ Found(AnyChild).how = "STOPPED" /\ Steady /\ Found(AnyChild).pid \in Done
             \/ Found(AnyChild).how = "FAILURE" /\ Found(AnyChild).pid = -1 /\ Steady
                /\ pcb[Shell].pc \in Waits /\ ~WaitInv
          /\ Found(AnyChild).how # "FAILURE" => Found(AnyChild).pid # -1
          /\ Done \ Done' \subseteq Kids
      BY <2>3, <3>1, ReturnsOwn
    <3>3. Found(AnyChild).how # "FAILURE"
      BY <2>1, <3>1, <3>2 DEF Terminated, JobsSafe, StressInv
    <3>4. at' = at
      BY <2>3, <3>2, <3>3
    <3> QED
      BY <2>1, <2>3, <3>2, <3>4, OutOfJobs DEF AtJobs
  <2> QED
    BY <1>3, <2>2, <2>3 DEF Reap
<1> QED
  BY <1>1, <1>2, <1>3

\* No other process, signal or tick takes a child from the shell, or from the
\* list of those to be reported.
LEMMA OthersEffect ==
    ASSUME JobsSafe, OtherStep
    PROVE  /\ Kids' = Kids
           /\ NoKill => Kids \cap Done \subseteq Done'
           /\ InProgram(Shell) => Done' = Done
<1> USE ShellIsPid
<1>1. IInv /\ SafeInv /\ ShellInv /\ ReadyInv /\ FamilyInv
  BY JobsSafeMeans
<1>2. Kinds
  <2>1. [Next]_vars
    <3>1. Switch(Shell) => Process(Shell)
      BY DEF Process
    <3> QED
      BY <3>1 DEF OtherStep, Next
  <2> QED
    BY <1>1, <2>1, KindsLemma
<1>3. Running(Shell) /\ ~pcb[Shell].stopping /\ pcb[Shell].pc \in {"user", "wait_resume"} => pcb' = pcb
  BY OthersSpareCaller
<1>4. InProgram(Shell) => pcb' = pcb
  BY <1>3 DEF InProgram
<1>5. InProgram(Shell) => Done' = Done
  BY <1>4 DEF Done
<1>6. CASE Running(Shell) /\ ~pcb[Shell].stopping /\ pcb[Shell].pc \in {"user", "wait_resume"}
  BY <1>3, <1>5, <1>6 DEF Kids, Done
<1> SUFFICES ASSUME ~(Running(Shell) /\ ~pcb[Shell].stopping
                      /\ pcb[Shell].pc \in {"user", "wait_resume"})
             PROVE  Kids' = Kids /\ (NoKill => Kids \cap Done \subseteq Done')
  BY <1>5, <1>6
<1>7. ~InProgram(Shell)
  BY DEF InProgram
<1>8. ASSUME \A o \in Pid : /\ pcb'[o].ppid = pcb[o].ppid
                            /\ pcb'[o].status = "FREE" <=> pcb[o].status = "FREE"
                            /\ NoKill /\ pcb[o].status \in Reported => pcb'[o].status \in Reported
      PROVE  Kids' = Kids /\ (NoKill => Kids \cap Done \subseteq Done')
  BY <1>8 DEF Kids, Done
<1>9. ASSUME NEW c \in Pid, pcb[c].ppid # Shell \/ pcb[c].status = "FREE",
             pcb'[c].ppid # Shell \/ pcb'[c].status = "FREE",
             \A o \in Pid \ {c} : pcb'[o].ppid = pcb[o].ppid /\ pcb'[o].status = pcb[o].status
      PROVE  Kids' = Kids /\ (NoKill => Kids \cap Done \subseteq Done')
  <2>1. c \notin Kids /\ c \notin Kids'
    BY <1>9 DEF Kids
  <2> QED
    BY <1>9, <2>1 DEF Kids, Done
<1>10. CASE Calm
  BY <1>7, <1>8, <1>10 DEF Calm, SameFields, NoKill, Reported, Terminated
<1>11. ASSUME NEW t \in Pid, NEW how \in Reported, NEW woken \in SUBSET Pid,
              Marks(t, how, woken)
       PROVE  Kids' = Kids /\ (NoKill => Kids \cap Done \subseteq Done')
  <2>1. \A o \in Pid : pcb'[o].ppid = pcb[o].ppid
    BY <1>11 DEF Marks, SameFields
  <2>2. \A o \in woken : pcb[o].status = "BLOCKED"
    BY <1>1, <1>11, WaitingIsBlocked DEF Marks
  <2>3. pcb[t].status # "FREE"
    BY <1>11 DEF Marks, Gone
  <2>4. \A o \in Pid : /\ pcb'[o].status = "FREE" <=> pcb[o].status = "FREE"
                       /\ pcb[o].status \in Reported => pcb'[o].status \in Reported
    BY <1>11, <2>2, <2>3 DEF Marks, Reported, Terminated
  <2> QED
    BY <1>8, <2>1, <2>4
<1>12. ASSUME NEW p \in Pid, NEW c \in Pid, Reaps(p, c)
       PROVE  Kids' = Kids /\ (NoKill => Kids \cap Done \subseteq Done')
  <2>1. p # Shell
    BY <1>12 DEF Reaps
  <2>2. pcb[c].ppid = p
    BY <1>1, <1>12, ReapedIsOwn
  <2>3. /\ \A o \in Pid \ {c} : pcb'[o].ppid = pcb[o].ppid /\ pcb'[o].status = pcb[o].status
        /\ pcb'[c].status = "FREE"
    BY <1>12 DEF Reaps, Frees, SameFields, FreePCB
  <2> QED
    BY <1>9, <2>1, <2>2, <2>3
<1>13. ASSUME NEW d \in dying, NEW c \in Pid, Sweeps(d, c)
       PROVE  Kids' = Kids /\ (NoKill => Kids \cap Done \subseteq Done')
  <2>1. d # Shell
    BY <1>1 DEF SafeInv, DyingDead, ShellInv, Gone, Terminated
  <2>2. /\ \A o \in Pid \ {c} : pcb'[o].ppid = pcb[o].ppid /\ pcb'[o].status = pcb[o].status
        /\ pcb'[c].status = "FREE" /\ pcb[c].ppid = d
    BY <1>13 DEF Sweeps, Frees, SameFields, FreePCB
  <2> QED
    BY <1>9, <2>1, <2>2
<1>14. CASE \E d \in dying : SweepEnds(d)
  BY <1>8, <1>14 DEF SweepEnds
<1>15. ASSUME NEW p \in Pid, NEW c \in Pid, Spawns(p, c)
       PROVE  Kids' = Kids /\ (NoKill => Kids \cap Done \subseteq Done')
  <2>1. p # Shell
    BY <1>7, <1>15 DEF Spawns
  <2>2. /\ \A o \in Pid \ {c} : pcb'[o].ppid = pcb[o].ppid /\ pcb'[o].status = pcb[o].status
        /\ pcb[c].status = "FREE" /\ pcb'[c] = NewPCB(p, MED)
    BY <1>15 DEF Spawns, SameFields
  <2>3. pcb'[c].ppid = p
    BY <2>2 DEF NewPCB, FreePCB
  <2> QED
    BY <1>9, <2>1, <2>2, <2>3
<1>16. ASSUME NEW p \in Pid, BlocksIn(p)
       PROVE  Kids' = Kids /\ (NoKill => Kids \cap Done \subseteq Done')
  <2>1. pcb[p].status = "READY"
    BY <1>1, <1>16, CallerLemma
  <2>2. /\ \A o \in Pid : pcb'[o].ppid = pcb[o].ppid
        /\ \A o \in Pid \ {p} : pcb'[o].status = pcb[o].status
        /\ pcb'[p].status = "BLOCKED"
    BY <1>1, <1>16, BlocksMeans
  <2> QED
    BY <1>8, <2>1, <2>2 DEF Reported, Terminated
<1> QED
  BY <1>2, <1>10, <1>11, <1>12, <1>13, <1>14, <1>15, <1>16 DEF Kinds, Sleeps, WaitsFor

LEMMA OthersHold ==
    ASSUME JobsSafe, OtherStep \/ UNCHANGED allVars
    PROVE  Holds
<1>1. /\ Kids' = Kids
      /\ NoKill => Kids \cap Done \subseteq Done'
      /\ InProgram(Shell) => Done' = Done
  <2>1. UNCHANGED allVars => Kids' = Kids /\ Done' = Done
    BY DEF Kids, Done, allVars, vars
  <2> QED
    BY <2>1, OthersEffect
<1>2. UNCHANGED jobVars
  BY DEF OtherStep, allVars
<1>3. /\ jobs' = jobs /\ at' = at /\ child' = child
      /\ JobPids' = JobPids /\ PausedPids' = PausedPids
      /\ (IdsUnique => IdsUnique') /\ (PidsUnique => PidsUnique')
  BY <1>2 DEF JobPids, PausedPids, StoppedJobs, IdsUnique, PidsUnique, jobVars
<1>4. IdsUnique' /\ ListInv'
  BY <1>1, <1>3 DEF JobsSafe, ListInv, AtJobs
<1>5. NoKill /\ StoppedInv => StoppedInv'
  BY <1>1, <1>3, JobsSafeMeans DEF StoppedInv, AtJobs
<1>6. ChildInv => ChildInv'
  BY <1>1, <1>3 DEF ChildInv, AtJobs
<1> QED
  BY <1>1, <1>4, <1>5, <1>6 DEF Holds

LEMMA StepHolds ==
    ASSUME JobsSafe, [JobsNext]_allVars,
           \/ NoKill /\ WaitInv
           \/ "hang" \notin Commands
    PROVE  Holds
BY OthersHold, PollHolds, LaunchHolds, LineHolds, BackgroundHolds, ForegroundHolds, FgHolds,
   FgWaitHolds, StressHolds, RecurWaitHolds DEF JobsNext, ShellStep
-----------------------------------------------------------------------------
(* Who was woken finds what woke it. *)

\* What is found for p is a child of p.
LEMMA FoundIsOwn ==
    ASSUME FamilyInv, NEW p \in Pid, pcb[p].pc \in Waits, pcb[p].status \notin Gone,
           NEW c \in Pid, WaitsOn(p, pcb[p].pid_waitfor, c)
    PROVE  pcb[c].ppid = p
BY DEF WaitsOn, FamilyInv, TargetInv, Pid, AnyChild

LEMMA NextWait ==
    ASSUME IInv, SafeInv, ReadyInv, FamilyInv, NoKill, WaitInv, Kinds,
           InProgram(Shell) => Done \ Done' \subseteq Kids
    PROVE  WaitInv'
<1> SUFFICES ASSUME NEW p \in Pid, pcb'[p].pc \in Waits, ~On(waiting_list', p),
                    pcb'[p].status \notin Gone
             PROVE  \E c \in Done' : WaitsOn(p, pcb[p].pid_waitfor, c)'
  BY DEF WaitInv
<1> USE DEF WaitsOn
<1>1. ASSUME pcb[p].pc \in Waits, ~On(waiting_list, p), pcb[p].status \notin Gone,
             pcb'[p].pid_waitfor = pcb[p].pid_waitfor,
             \A c \in Done : pcb[c].ppid = p => c \in Done' /\ pcb'[c].ppid = pcb[c].ppid
      PROVE  \E c \in Done' : WaitsOn(p, pcb[p].pid_waitfor, c)'
  <2>1. PICK c \in Done : WaitsOn(p, pcb[p].pid_waitfor, c)
    BY <1>1 DEF WaitInv
  <2>2. c \in Pid
    BY DEF Done
  <2>3. pcb[c].ppid = p
    BY <1>1, <2>1, <2>2, FoundIsOwn
  <2> QED
    BY <1>1, <2>1, <2>3
<1>2. CASE Calm
  <2>1. /\ pcb[p].pc \in Waits /\ ~On(waiting_list, p) /\ pcb[p].status \notin Gone
        /\ pcb'[p].pid_waitfor = pcb[p].pid_waitfor
    BY <1>2 DEF Calm, SameFields, Gone, Terminated
  <2>2. \A c \in Pid : pcb'[c].ppid = pcb[c].ppid
    BY <1>2 DEF Calm, SameFields
  <2>3. ASSUME NEW c \in Done, pcb[c].ppid = p
        PROVE  c \in Done'
    <3>1. c \in Pid /\ pcb[c].status \in Reported
      BY DEF Done
    <3>2. CASE InProgram(Shell)
      <4>1. p # Shell
        BY <2>1, <3>2 DEF InProgram, Waits
      <4> QED
        BY <2>3, <3>2, <4>1 DEF Kids
    <3>3. CASE ~InProgram(Shell)
      BY <1>2, <3>1, <3>3 DEF Calm, NoKill, Done, Reported, Terminated
    <3> QED
      BY <3>2, <3>3
  <2> QED
    BY <1>1, <2>1, <2>2, <2>3 DEF Done
<1>3. ASSUME NEW t \in Pid, NEW how \in Reported, NEW woken \in SUBSET Pid,
             Marks(t, how, woken)
      PROVE  \E c \in Done' : WaitsOn(p, pcb[p].pid_waitfor, c)'
  <2>1. \A o \in Pid : /\ pcb'[o].ppid = pcb[o].ppid
                       /\ pcb'[o].pid_waitfor = pcb[o].pid_waitfor
                       /\ pcb'[o].pc \in Waits => pcb[o].pc \in Waits
                       /\ pcb'[o].status = IF o = t THEN how
                                           ELSE IF o \in woken THEN "READY" ELSE pcb[o].status
                       /\ On(waiting_list', o) <=> On(waiting_list, o) /\ o # t /\ o \notin woken
    BY <1>3 DEF Marks, SameFields
  <2>2. \A o \in woken : pcb[o].status = "BLOCKED" /\ Awaits(o, t)
    BY <1>3, WaitingIsBlocked DEF Marks
  <2>3. pcb[t].status \notin Gone /\ (how = "STOPPED" => ~On(waiting_list, t))
    BY <1>3 DEF Marks, Terminated
  <2>4. Done \subseteq Done' /\ t \in Done'
    BY <2>1, <2>2 DEF Done, Reported, Terminated
  <2>5. CASE p \in woken
    BY <2>1, <2>2, <2>4, <2>5 DEF Awaits
  <2>6. CASE p \notin woken
    <3>1. pcb[p].pc \in Waits /\ ~On(waiting_list, p) /\ pcb[p].status \notin Gone
      BY <2>1, <2>3, <2>6 DEF Reported, Gone
    <3> QED
      BY <1>1, <2>1, <2>4, <3>1 DEF Done
  <2> QED
    BY <2>5, <2>6
<1>4. ASSUME NEW b \in Pid, Frees(b), pcb[b].ppid # p
      PROVE  \E c \in Done' : WaitsOn(p, pcb[p].pid_waitfor, c)'
  <2>1. p # b
    BY <1>4 DEF Frees, FreePCB, Gone
  <2>2. \A o \in Pid \ {b} : /\ pcb'[o].ppid = pcb[o].ppid
                             /\ pcb'[o].status = pcb[o].status
    BY <1>4 DEF Frees, SameFields
  <2>3. /\ pcb[p].pc \in Waits /\ ~On(waiting_list, p) /\ pcb[p].status \notin Gone
        /\ pcb'[p].pid_waitfor = pcb[p].pid_waitfor
    BY <1>4, <2>1, <2>2 DEF Frees, SameFields
  <2> QED
    BY <1>1, <1>4, <2>2, <2>3 DEF Done
<1>5. ASSUME NEW q \in Pid, NEW b \in Pid, Reaps(q, b)
      PROVE  \E c \in Done' : WaitsOn(p, pcb[p].pid_waitfor, c)'
  <2>1. p # q
    BY <1>5 DEF Reaps, Waits
  <2>2. pcb[b].ppid = q
    BY <1>5, ReapedIsOwn
  <2> QED
    BY <1>4, <1>5, <2>1, <2>2 DEF Reaps
<1>6. ASSUME NEW d \in dying, NEW b \in Pid, Sweeps(d, b)
      PROVE  \E c \in Done' : WaitsOn(p, pcb[p].pid_waitfor, c)'
  <2>1. d \in Pid /\ pcb[d].status \in Gone
    BY IInvMeans DEF SafeInv, DyingDead
  <2>2. p # b /\ pcb'[p].status = pcb[p].status
    BY <1>6 DEF Sweeps, Frees, FreePCB, Gone
  <2>3. p # d
    BY <2>1, <2>2
  <2> QED
    BY <1>4, <1>6, <2>3 DEF Sweeps
<1>7. CASE \E d \in dying : SweepEnds(d)
  BY <1>1, <1>7 DEF SweepEnds, Done
<1>8. ASSUME NEW q \in Pid, NEW b \in Pid, Spawns(q, b)
      PROVE  \E c \in Done' : WaitsOn(p, pcb[p].pid_waitfor, c)'
  <2>1. p # b
    BY <1>8 DEF Spawns, NewPCB, FreePCB, Waits
  <2>2. /\ \A o \in Pid \ {b} : /\ pcb'[o].ppid = pcb[o].ppid
                                /\ pcb'[o].status = pcb[o].status
        /\ pcb[b].status = "FREE"
    BY <1>8 DEF Spawns, SameFields
  <2>3. /\ pcb[p].pc \in Waits /\ ~On(waiting_list, p) /\ pcb[p].status \notin Gone
        /\ pcb'[p].pid_waitfor = pcb[p].pid_waitfor
    BY <1>8, <2>1, <2>2 DEF Spawns, SameFields
  <2>4. \A c \in Done : c \in Done' /\ pcb'[c].ppid = pcb[c].ppid
    BY <2>2 DEF Done, Reported, Terminated
  <2> QED
    BY <1>1, <2>3, <2>4
<1>9. ASSUME NEW q \in Pid, BlocksIn(q), p # q, \A o \in Pid \ {q} : On(waiting_list', o) <=> On(waiting_list, o)
      PROVE  \E c \in Done' : WaitsOn(p, pcb[p].pid_waitfor, c)'
  <2>1. pcb[q].status = "READY"
    BY <1>9, CallerLemma
  <2>2. /\ \A o \in Pid : pcb'[o].ppid = pcb[o].ppid
        /\ \A o \in Pid \ {q} : /\ pcb'[o].status = pcb[o].status
                                /\ pcb'[o].pid_waitfor = pcb[o].pid_waitfor
    BY <1>9, BlocksMeans
  <2>3. pcb[p].pc \in Waits
    BY <1>9 DEF BlocksIn, SameFields
  <2>4. \A c \in Done : c \in Done' /\ pcb'[c].ppid = pcb[c].ppid
    BY <2>1, <2>2 DEF Done, Reported, Terminated
  <2> QED
    BY <1>1, <1>9, <2>2, <2>3, <2>4
<1>10. ASSUME NEW q \in Pid, Sleeps(q)
       PROVE  \E c \in Done' : WaitsOn(p, pcb[p].pid_waitfor, c)'
  BY <1>9, <1>10 DEF Sleeps, Waits
<1>11. ASSUME NEW q \in Pid, NEW target \in Pid \cup {AnyChild}, WaitsFor(q, target)
       PROVE  \E c \in Done' : WaitsOn(p, pcb[p].pid_waitfor, c)'
  BY <1>9, <1>11 DEF WaitsFor
<1> QED
  BY <1>2, <1>3, <1>5, <1>6, <1>7, <1>8, <1>10, <1>11 DEF Kinds

-----------------------------------------------------------------------------
(* The invariant. *)

\* What holds although the kill command is used, and what holds without it.
AllJobs ==
    /\ JobsSafe
    /\ NoKill => WaitInv /\ StoppedInv
    /\ NoKill /\ "recur" \notin Commands => ChildInv

LEMMA NextStress ==
    ASSUME StressInv, [JobsNext]_allVars
    PROVE  StressInv'
<1> SUFFICES ASSUME "hang" \notin Commands, at' \in {"spawning", "reap"}
             PROVE  flag'
  BY DEF StressInv
<1>1. CASE OtherStep \/ UNCHANGED allVars \/ SpawnNapper \/ Reap
  BY <1>1 DEF OtherStep, allVars, jobVars, SpawnNapper, Reap, Blocks, GoTo, StressInv
<1>2. CASE Stress
  BY <1>2 DEF Stress
<1>3. ~(Poll \/ Launch \/ NiceChild \/ Background \/ NicePid \/ OtherLine)
  BY DEF Poll, Launch, NiceChild, Background, NicePid, OtherLine, GoTo
<1>4. ~(Foreground \/ FgWait \/ RecurWait \/ Recur)
  BY DEF Foreground, FgWait, RecurWait, Recur, Blocks, jobVars, GoTo
<1>5. ~(Fg \/ Bg)
  BY DEF Fg, FgNode, Bg, GoTo
<1> QED
  BY <1>1, <1>2, <1>3, <1>4, <1>5 DEF JobsNext, ShellStep

LEMMA NextAllJobs ==
    ASSUME Shell \in Immune, "SIGINT" \notin Keys, NoKill \/ "hang" \notin Commands,
           AllJobs, [JobsNext]_allVars
    PROVE  AllJobs'
<1>1. JobsSafe /\ IInv /\ SafeInv /\ ShellInv /\ ReadyInv /\ FamilyInv /\ JInv /\ CallInv
      /\ StressInv
  BY JobsSafeMeans DEF AllJobs, JobsSafe
<1>2. [Next]_vars
  BY <1>1, StepImplements
<1>3. AllInv'
  BY <1>1, <1>2, NextIInv, NextSafe, NextShell, NextReady, NextFamily DEF AllInv
<1>4. JInv' /\ CallInv' /\ StressInv'
  BY <1>1, NextJInv, NextCall, NextStress
<1>5. Holds
  BY <1>1, StepHolds DEF AllJobs
<1>6. JobsSafe'
  BY <1>3, <1>4, <1>5 DEF JobsSafe, Holds
<1>7. NoKill => WaitInv'
  BY <1>1, <1>2, <1>5, KindsLemma, NextWait DEF AllJobs, Holds
<1> QED
  BY <1>5, <1>6, <1>7 DEF AllJobs, Holds, NoKill

LEMMA InitAllJobs ==
    ASSUME JobsInit
    PROVE  AllJobs
<1>1. AllInv
  BY InitIInv, InitSafe, InitShell, InitFamily DEF JobsInit, AllInv
<1>2. JInv
  BY InitJInv
<1>3. at = "poll" /\ jobs = <<>> /\ DOMAIN jobs = {}
  BY DEF JobsInit
<1>4. \A p \in Pid : pcb[p].pc = "user" /\ (p # Shell => pcb[p].status = "FREE")
  BY DEF JobsInit, Init, NewPCB, FreePCB
<1>5. CallInv /\ StressInv /\ WaitInv
  BY <1>3, <1>4, ShellIsPid DEF CallInv, StressInv, WaitInv, Waits
<1>6. Kids = {}
  BY <1>1, <1>4, ShellIsPid DEF Kids, AllInv, ShellInv
<1>7. IdsUnique /\ PidsUnique /\ JobPids = {} /\ PausedPids = {}
  BY <1>3 DEF IdsUnique, PidsUnique, JobPids, PausedPids, StoppedJobs
<1>8. ListInv /\ StoppedInv /\ ChildInv
  BY <1>3, <1>6, <1>7 DEF ListInv, StoppedInv, ChildInv
<1> QED
  BY <1>1, <1>2, <1>5, <1>7, <1>8 DEF AllJobs, JobsSafe

LEMMA AllJobsInvariant ==
    ASSUME Shell \in Immune, "SIGINT" \notin Keys, NoKill \/ "hang" \notin Commands
    PROVE  JobsSpec => []AllJobs
<1>1. AllJobs /\ [JobsNext]_allVars => AllJobs'
  BY NextAllJobs
<1>2. JobsInit => AllJobs
  BY InitAllJobs
<1> QED
  BY <1>1, <1>2, PTL DEF JobsSpec

LEMMA ShellSpared ==
    ASSUME NoKill
    PROVE  Shell \in Immune
BY ShellIsPid DEF NoKill
-----------------------------------------------------------------------------
(* The theorems. *)

\* If Ctrl-C comes only while idle runs, nobody kills the shell, and kill or hang
\* is not used: a job stands for one process, a child of the shell that exists,
\* and no two jobs for the same.  fg and bg
\* never reach a process that took over the pid of a reaped one.
THEOREM JobsStayChildren ==
    ASSUME Shell \in Immune, "SIGINT" \notin Keys, NoKill \/ "hang" \notin Commands
    PROVE  JobsSpec => []JobsAreChildren
<1>1. AllJobs => JobsAreChildren
  <2> SUFFICES ASSUME AllJobs, AtJobs, NEW i \in DOMAIN jobs
               PROVE  /\ ShellChild(jobs[i].pid)
                      /\ \A k \in DOMAIN jobs : jobs[k].pid = jobs[i].pid => k = i
    BY DEF JobsAreChildren
  <2>1. PidsUnique /\ JobPids \subseteq Kids /\ IInv
    BY JobsSafeMeans DEF AllJobs
  <2>2. jobs[i].pid \in Kids
    BY <2>1 DEF JobPids
  <2>3. ShellChild(jobs[i].pid)
    BY <2>1, <2>2, StatusOfList DEF Kids, ShellChild
  <2> QED
    BY <2>1, <2>3 DEF PidsUnique
<1> QED
  BY <1>1, AllJobsInvariant, PTL

\* Without the kill command: a job shown as stopped is stopped or has terminated
\* since.
THEOREM StoppedJobsAreStopped ==
    ASSUME NoKill, "SIGINT" \notin Keys
    PROVE  JobsSpec => []StoppedIsStopped
<1>1. AllJobs => StoppedIsStopped
  BY DEF AllJobs, StoppedInv, StoppedIsStopped, PausedPids, Done, Reported
<1> QED
  BY <1>1, ShellSpared, AllJobsInvariant, PTL

\* Without the kill command and recur, whose first child has no job if it is
\* stopped: what the poll of the shell's loop reports is always the process of a
\* job, so that it does not go on from a NULL job (shell.c:56-57).
THEOREM EveryChildHasJob ==
    ASSUME NoKill, "SIGINT" \notin Keys, "recur" \notin Commands
    PROVE  JobsSpec => []ChildHasJob
<1>1. AllJobs => ChildHasJob
  <2> SUFFICES ASSUME AllJobs, AtJobs, NEW p \in Pid, ShellChild(p), find_job_by_pid(p) = {}
               PROVE  at \in {"nice", "started", "recur"} /\ child = p
    BY DEF ChildHasJob
  <2>1. p \in Kids
    BY StatusOfList, JobsSafeMeans DEF AllJobs, ShellChild, Kids
  <2>2. p \notin JobPids
    BY DEF find_job_by_pid, JobPids
  <2>3. Kids \subseteq JobPids \cup (IF at \in {"nice", "started"} THEN {child} ELSE {})
    BY DEF AllJobs, ChildInv
  <2> QED
    BY <2>1, <2>2, <2>3
<1> QED
  BY <1>1, ShellSpared, AllJobsInvariant, PTL

\* Without the kill command: a process that blocked in p_waitpid finds a zombie
\* or a stopped child when it continues, because no other process reaps it and
\* the shell, which alone continues jobs, does not run in between.
THEOREM WaitersAlwaysFind ==
    ASSUME NoKill, "SIGINT" \notin Keys
    PROVE  JobsSpec => []WaiterFinds
<1>1. AllJobs => WaiterFinds
  <2> SUFFICES ASSUME AllJobs, NEW p \in Pid,
                      Running(p), ~pcb[p].stopping, pcb[p].pc = "wait_resume"
               PROVE  \E c : \/ c \in FoundIn(Zombie, p, pcb[p].pid_waitfor)
                             \/ c \in FoundIn(Stopped, p, pcb[p].pid_waitfor)
    BY DEF WaiterFinds
  <2>1. IInv /\ ReadyInv /\ WaitInv
    BY JobsSafeMeans DEF AllJobs
  <2>2. Executing(p) /\ pcb[p].status # "FREE"
    BY <2>1, StatusOfList DEF Running, Executing
  <2>3. ~On(waiting_list, p) /\ pcb[p].status = "READY"
    BY <2>1, <2>2, ExecutingIsAwake DEF ReadyInv
  <2>4. PICK c \in Done : WaitsOn(p, pcb[p].pid_waitfor, c)
    BY <2>1, <2>3 DEF WaitInv, Waits, Gone, Terminated
  <2>5. On(queue[Zombie], c) \/ On(queue[Stopped], c)
    BY <2>1, StatusOfList DEF Done, Reported
  <2> QED
    BY <2>4, <2>5 DEF FoundIn, On, Matches, WaitsOn
<1> QED
  BY <1>1, ShellSpared, AllJobsInvariant, PTL
=============================================================================
