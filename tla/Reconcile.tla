------------------------------ MODULE Reconcile ------------------------------
(***************************************************************************)
(* What a job leaves outside its processes, a cgroup and a staging root,   *)
(* and who removes it: its launcher, the supervisor that owns it, or the   *)
(* next supervisor to start, which tells from the owner's PID and start    *)
(* time in the job ID whether anybody still does.  Supervisors may share   *)
(* the cgroup root, end in any way, and their PIDs are used again.         *)
(***************************************************************************)
EXTENDS Integers, FiniteSets

CONSTANTS
    Pids,
    MaxStarts,  \* bound: processes that get one of these PIDs
    MaxOwners,  \* bound: of these, the first so many may have jobs
    MaxJobs,    \* bound: jobs of a supervisor
    CanFail     \* whether reading, listing or removing may fail at once

ASSUME ReconcileAssumption ==
    /\ Pids # {}
    /\ MaxStarts \in Nat /\ MaxOwners \in 0 .. MaxStarts /\ MaxJobs \in Nat
    /\ CanFail \in BOOLEAN

Procs == 1 .. MaxStarts                 \* a process, by its start time
Jobs == (1 .. MaxOwners) \X (1 .. MaxJobs)  \* job-<pid>-<start>-<request>
Owner(j) == j[1]
Main(k) == <<k, 0>>
Cleaners == Jobs \cup {Main(k) : k \in Procs}  \* waiter threads; supervisors' main threads
Idle == <<>>
Things == {"group", "root"}

VARIABLES
    life,      \* each process: what it is doing
    pidOf,
    todo,      \* jobs whose leavings a supervisor still has to look at
    at,        \* what a cleaner is removing: a job and one of its things
    launcher,  \* each job's launcher process
    killed,    \* whether it was sent SIGKILL; "spent" after a last system call
    waiter,    \* the waiter thread of the job
    groups,    \* jobs whose cgroup exists
    roots,     \* jobs whose staging root exists
    guests,    \* jobs with live processes in the cgroup
    dying,     \* those of which were sent SIGKILL
    missed,    \* history: jobs a removal or listing failed for, which was logged
    misread,   \* history: jobs whose owner's record could not be read
    stale      \* history: what was abandoned when a supervisor started that reconciles

procVars == <<life, pidOf, stale>>
jobVars == <<launcher, killed>>
vars == <<procVars, todo, at, jobVars, waiter, groups, roots, guests, dying, missed, misread>>

Reconciling == {"groups", "roots"}
Working == Reconciling \cup {"serving", "dropping"}
Started == {"fresh", "rooted", "grouped", "running", "undoing", "unrooting"}

TypeOK ==
    /\ life \in [Procs -> {"unborn", "alien", "zombie", "gone"} \cup Working]
    /\ pidOf \in [Procs -> Pids]
    /\ todo \in [Procs -> SUBSET Jobs]
    /\ at \in [Cleaners -> {Idle} \cup (Jobs \X Things)]
    /\ launcher \in [Jobs -> {"none", "dead"} \cup Started]
    /\ killed \in [Jobs -> {"no", "pending", "spent"}]
    /\ waiter \in [Jobs -> {"none", "waiting", "cleaning", "done"}]
    /\ guests \subseteq Jobs /\ dying \subseteq guests
    /\ {groups, roots, missed, misread} \subseteq SUBSET Jobs
    /\ stale \in [Procs -> SUBSET Jobs]

Init ==
    /\ life = [k \in Procs |-> "unborn"]
    /\ pidOf = [k \in Procs |-> CHOOSE p \in Pids : TRUE]
    /\ todo = [k \in Procs |-> {}]
    /\ at = [c \in Cleaners |-> Idle]
    /\ launcher = [j \in Jobs |-> "none"]
    /\ killed = [j \in Jobs |-> "no"]
    /\ waiter = [j \in Jobs |-> "none"]
    /\ groups = {} /\ roots = {} /\ guests = {} /\ dying = {}
    /\ missed = {} /\ misread = {}
    /\ stale = [k \in Procs |-> {}]

-----------------------------------------------------------------------------
(* Processes.                                                               *)

\* process_start_time: /proc has a record of a process up to its being reaped.
StartTimes(p) == {k \in Procs : pidOf[k] = p /\ life[k] \notin {"unborn", "gone"}}

\* Mutant: a process with the PID of the owner is taken for the owner.
OwnerPidFree(j) == StartTimes(pidOf[Owner(j)]) = {}

\* Mutant: whoever left it, it is in the way.
OwnerIgnored(j) == TRUE

\* owner_is_dead: the process with the PID in the job's ID, if any, has not the start
\* time in it.
OwnerIsDead(j) == Owner(j) \notin StartTimes(pidOf[Owner(j)])

\* What reconciliation acts upon: a record it fails to read counts as none.
Abandoned(j) ==
    \/ OwnerIsDead(j) /\ UNCHANGED misread
    \/ ~OwnerIsDead(j) /\ CanFail /\ misread' = misread \cup {j}

\* A supervisor or another program starts under a PID that is free.
Boot(k, p) ==
    /\ life[k] = "unborn" /\ \A i \in 1 .. k - 1 : life[i] # "unborn"
    /\ StartTimes(p) = {}
    /\ pidOf' = [pidOf EXCEPT ![k] = p]
    /\ \/ /\ life' = [life EXCEPT ![k] = "groups"]
          /\ todo' = [todo EXCEPT ![k] = groups]
          /\ stale' = [stale EXCEPT ![k] =
                {j \in groups \cup roots : life[Owner(j)] = "gone" /\ launcher[j] \notin Started}]
       \/ life' = [life EXCEPT ![k] = "alien"] /\ UNCHANGED <<todo, stale>>
    /\ UNCHANGED <<at, jobVars, waiter, groups, roots, guests, dying, missed, misread>>

\* The process ends, and its threads: the kernel sends SIGKILL to its launchers, which
\* asked for that before they were executed.
Ends(k) ==
    /\ life' = [life EXCEPT ![k] = "zombie"]
    /\ todo' = [todo EXCEPT ![k] = {}]
    /\ at' = [c \in Cleaners |-> IF Owner(c) = k THEN Idle ELSE at[c]]
    /\ killed' = [j \in Jobs |-> IF Owner(j) = k /\ launcher[j] \in Started /\ killed[j] = "no"
                                 THEN "pending" ELSE killed[j]]
    /\ waiter' = [j \in Jobs |-> IF Owner(j) = k /\ waiter[j] # "done" THEN "none" ELSE waiter[j]]
    /\ stale' = [stale EXCEPT ![k] = {}]
    /\ UNCHANGED <<pidOf, launcher, groups, roots, guests, dying, missed, misread>>

\* SIGKILL, or an error before the protocol loop.
Crash(k) == life[k] \in Working /\ Ends(k)

\* The loop returned: after shutdown or end of input no job is left in the table.
Returns(k) ==
    /\ life[k] = "serving"
    /\ \A j \in Jobs : Owner(j) = k => waiter[j] \in {"none", "done"}
    /\ Ends(k)

\* Its parent reaps it, or the other program ends.
Reaped(k) ==
    /\ life[k] \in {"zombie", "alien"}
    /\ life' = [life EXCEPT ![k] = "gone"]
    /\ UNCHANGED <<pidOf, stale, todo, at, jobVars, waiter, groups, roots, guests, dying, missed, misread>>

-----------------------------------------------------------------------------
(* Removing what a job left.                                                *)

\* remove_job_dir: cgroup.kill, best effort.
KillGroup(c, j) ==
    /\ at' = [at EXCEPT ![c] = <<j, "group">>]
    /\ dying' = dying \cup ({j} \cap guests)

\* Mutant: a cgroup that is busy is tried for ever.
RemoveDirPatiently(c, j) ==
    \/ j \notin guests /\ groups' = groups \ {j} /\ UNCHANGED missed
    \/ j \notin guests /\ CanFail /\ missed' = missed \cup {j} /\ UNCHANGED groups

\* remove_dir: what is gone counts as removed, what is busy is tried for a second.
RemoveDir(c, j) ==
    \/ j \notin guests /\ groups' = groups \ {j} /\ UNCHANGED missed
    \/ (j \in guests \/ CanFail) /\ missed' = missed \cup {j} /\ UNCHANGED groups

\* remove_staging_root, after listing them in cleanup_job.
RemoveRoot(j) ==
    \/ roots' = roots \ {j} /\ UNCHANGED missed
    \/ CanFail /\ missed' = missed \cup {j} /\ UNCHANGED roots

\* reconcile_stale_jobs, the cgroups: the directory is read entry by entry.
VisitGroup(s, j) ==
    /\ life[s] = "groups" /\ at[Main(s)] = Idle /\ j \in todo[s] \cap groups
    /\ todo' = [todo EXCEPT ![s] = @ \ {j}]
    /\ \/ Abandoned(j) /\ KillGroup(Main(s), j)
       \/ ~OwnerIsDead(j) /\ UNCHANGED <<at, dying, misread>>
    /\ UNCHANGED <<procVars, jobVars, waiter, groups, roots, guests, missed>>

RemoveStale(s) ==
    /\ life[s] = "groups" /\ at[Main(s)] # Idle
    /\ RemoveDir(Main(s), at[Main(s)][1])
    /\ at' = [at EXCEPT ![Main(s)] = Idle]
    /\ UNCHANGED <<procVars, todo, jobVars, waiter, roots, guests, dying, misread>>

\* Then the staging roots, all listed first; that they cannot be is only logged.
ListRoots(s) ==
    /\ life[s] = "groups" /\ at[Main(s)] = Idle /\ todo[s] \cap groups = {}
    /\ life' = [life EXCEPT ![s] = "roots"]
    /\ \/ todo' = [todo EXCEPT ![s] = roots] /\ UNCHANGED missed
       \/ CanFail /\ missed' = missed \cup roots /\ todo' = [todo EXCEPT ![s] = {}]
    /\ UNCHANGED <<pidOf, stale, at, jobVars, waiter, groups, roots, guests, dying, misread>>

VisitRoot(s, j) ==
    /\ life[s] = "roots" /\ j \in todo[s]
    /\ todo' = [todo EXCEPT ![s] = @ \ {j}]
    /\ \/ Abandoned(j) /\ RemoveRoot(j)
       \/ ~OwnerIsDead(j) /\ UNCHANGED <<roots, missed, misread>>
    /\ UNCHANGED <<procVars, at, jobVars, waiter, groups, guests, dying>>

Reconciled(s) ==
    /\ life[s] = "roots" /\ todo[s] = {}
    /\ life' = [life EXCEPT ![s] = "serving"]
    /\ stale' = [stale EXCEPT ![s] = {}]
    /\ UNCHANGED <<pidOf, todo, at, jobVars, waiter, groups, roots, guests, dying, missed, misread>>

-----------------------------------------------------------------------------
(* A job.                                                                   *)

StartJob(j) ==
    /\ life[Owner(j)] = "serving" /\ launcher[j] = "none"
    /\ launcher' = [launcher EXCEPT ![j] = "fresh"]
    /\ waiter' = [waiter EXCEPT ![j] = "waiting"]
    /\ UNCHANGED <<procVars, todo, at, killed, groups, roots, guests, dying, missed, misread>>

\* The launcher makes a system call; one that is being made when SIGKILL arrives may
\* still take effect.
Calls(j, from, to) ==
    /\ launcher[j] = from /\ killed[j] # "spent"
    /\ launcher' = [launcher EXCEPT ![j] = to]
    /\ killed' = [killed EXCEPT ![j] =
            IF @ = "no" \/ to = "dead" THEN "no" ELSE "spent"]
    /\ UNCHANGED <<procVars, at, waiter, missed, misread>>

MakeRoot(j) ==
    /\ Calls(j, "fresh", "rooted")
    /\ roots' = roots \cup {j}
    /\ UNCHANGED <<todo, groups, guests, dying>>

\* Who reads the directory meanwhile may or may not see it.
MakeGroup(j) ==
    /\ Calls(j, "rooted", "grouped")
    /\ groups' = groups \cup {j}
    /\ \E see \in SUBSET {s \in Procs : life[s] = "groups"} :
          todo' = [s \in Procs |-> IF s \in see THEN todo[s] \cup {j} ELSE todo[s]]
    /\ UNCHANGED <<roots, guests, dying>>

\* clone3 into the cgroup, which must still be there.
Clone(j) ==
    /\ j \in groups
    /\ Calls(j, "grouped", "running")
    /\ guests' = guests \cup {j}
    /\ UNCHANGED <<todo, groups, roots, dying>>

\* An error on the way, or the guest ended: it is killed and waited for, then
\* the guards remove the cgroup and the staging root.
StopGuest(j) ==
    /\ \E from \in {"fresh", "rooted", "grouped", "running"} : Calls(j, from, "undoing")
    /\ guests' = guests \ {j} /\ dying' = dying \ {j}
    /\ UNCHANGED <<todo, groups, roots>>

DropGroup(j) ==
    /\ Calls(j, "undoing", "unrooting")
    /\ groups' = groups \ {j} \/ (CanFail /\ UNCHANGED groups)
    /\ UNCHANGED <<todo, roots, guests, dying>>

DropRoot(j) ==
    /\ Calls(j, "unrooting", "dead")
    /\ roots' = roots \ {j} \/ (CanFail /\ UNCHANGED roots)
    /\ UNCHANGED <<todo, groups, guests, dying>>

\* Its supervisor sends it SIGKILL: the job was cancelled, or start_job failed once the
\* launcher was spawned.
Cancel(j) ==
    /\ life[Owner(j)] = "serving" /\ launcher[j] \in Started /\ killed[j] = "no"
    /\ killed' = [killed EXCEPT ![j] = "pending"]
    /\ UNCHANGED <<procVars, todo, at, launcher, waiter, groups, roots, guests, dying, missed, misread>>

\* The launcher dies of SIGKILL, and the guest gets its parent-death signal.
Dies(j) ==
    /\ launcher[j] \in Started /\ killed[j] # "no"
    /\ launcher' = [launcher EXCEPT ![j] = "dead"]
    /\ killed' = [killed EXCEPT ![j] = "no"]
    /\ dying' = dying \cup ({j} \cap guests)
    /\ UNCHANGED <<procVars, todo, at, waiter, groups, roots, guests, missed, misread>>

\* A process can take its time to die in the kernel.
GuestDies(j) ==
    /\ j \in dying
    /\ guests' = guests \ {j} /\ dying' = dying \ {j}
    /\ UNCHANGED <<procVars, todo, at, jobVars, waiter, groups, roots, missed, misread>>

-----------------------------------------------------------------------------
(* The owner's cleanup_job: by the waiter, or by Drop on an error.  After a  *)
(* launcher whose start_job failed it is start_job itself that waits and     *)
(* cleans up, and then reports: "waiter" stands for it too, though the main  *)
(* thread does nothing else meanwhile.                                       *)

WaiterStarts(j) ==
    /\ waiter[j] = "waiting" /\ launcher[j] = "dead" /\ life[Owner(j)] \in {"serving", "dropping"}
    /\ waiter' = [waiter EXCEPT ![j] = "cleaning"]
    /\ KillGroup(j, j)
    /\ UNCHANGED <<procVars, todo, jobVars, groups, roots, guests, missed, misread>>

\* The staging root is removed even if the cgroup was not.
CleanGroup(c) ==
    /\ at[c] # Idle /\ at[c][2] = "group" /\ (c \in Jobs \/ life[Owner(c)] = "dropping")
    /\ RemoveDir(c, at[c][1])
    /\ at' = [at EXCEPT ![c] = <<@[1], "root">>]
    /\ UNCHANGED <<procVars, todo, jobVars, waiter, roots, guests, dying, misread>>

\* Mutant: the staging root is left to the launcher, which was killed.
CleanRootNot(c) ==
    /\ at[c] # Idle /\ at[c][2] = "root"
    /\ at' = [at EXCEPT ![c] = Idle]
    /\ waiter' = IF c \in Jobs THEN [waiter EXCEPT ![c] = "done"] ELSE waiter
    /\ UNCHANGED <<procVars, todo, jobVars, groups, roots, guests, dying, missed, misread>>

CleanRoot(c) ==
    /\ at[c] # Idle /\ at[c][2] = "root"
    /\ RemoveRoot(at[c][1])
    /\ at' = [at EXCEPT ![c] = Idle]
    /\ waiter' = IF c \in Jobs THEN [waiter EXCEPT ![c] = "done"] ELSE waiter
    /\ UNCHANGED <<procVars, todo, jobVars, groups, guests, dying, misread>>

\* The loop returned an error: Drop for Supervisor goes through the table.
Fails(k) ==
    /\ life[k] = "serving"
    /\ life' = [life EXCEPT ![k] = "dropping"]
    /\ todo' = [todo EXCEPT ![k] = {j \in Jobs : Owner(j) = k /\ waiter[j] \notin {"none", "done"}}]
    /\ UNCHANGED <<pidOf, stale, at, jobVars, waiter, groups, roots, guests, dying, missed, misread>>

DropJob(k, j) ==
    /\ life[k] = "dropping" /\ at[Main(k)] = Idle /\ j \in todo[k]
    /\ todo' = [todo EXCEPT ![k] = @ \ {j}]
    /\ killed' = [killed EXCEPT ![j] =
            IF launcher[j] \in Started /\ @ = "no" THEN "pending" ELSE @]
    /\ KillGroup(Main(k), j)
    /\ UNCHANGED <<procVars, launcher, waiter, groups, roots, guests, missed, misread>>

Dropped(k) ==
    /\ life[k] = "dropping" /\ at[Main(k)] = Idle /\ todo[k] = {}
    /\ Ends(k)

-----------------------------------------------------------------------------
Reconcile(s) ==
    \/ \E j \in Jobs : VisitGroup(s, j) \/ VisitRoot(s, j)
    \/ RemoveStale(s) \/ ListRoots(s) \/ Reconciled(s)

Launch(j) ==
    \/ MakeRoot(j) \/ MakeGroup(j) \/ Clone(j)
    \/ StopGuest(j) \/ DropGroup(j) \/ DropRoot(j)

CleanUp(c) == CleanGroup(c) \/ CleanRoot(c)

Next ==
    \/ \E k \in Procs :
          \/ \E p \in Pids : Boot(k, p)
          \/ Crash(k) \/ Returns(k) \/ Reaped(k)
          \/ Reconcile(k)
          \/ Fails(k) \/ Dropped(k)
          \/ \E j \in Jobs : DropJob(k, j)
    \/ \E j \in Jobs :
          \/ StartJob(j) \/ Launch(j) \/ Cancel(j) \/ Dies(j) \/ GuestDies(j)
          \/ WaiterStarts(j)
    \/ \E c \in Cleaners : CleanUp(c)

\* The new supervisor's only thread runs.  Directory reading ends; nothing is assumed
\* of the processes that are killed.
Fairness ==
    \A s \in Procs :
        /\ WF_vars(RemoveStale(s) \/ ListRoots(s) \/ Reconciled(s))
        /\ \A j \in Jobs : WF_vars(VisitGroup(s, j) \/ VisitRoot(s, j))

Spec == Init /\ [][Next]_vars /\ Fairness

-----------------------------------------------------------------------------
(* Properties.                                                              *)

\* A job that its supervisor serves and nobody cancelled keeps its staging root, its
\* cgroup and its guest, whoever reconciles meanwhile and whatever PIDs are used again,
\* unless its owner's record in /proc could not be read (supervisor.rs:515: "True only
\* for supervisor-owned job IDs whose recorded owner process no longer exists").
RunningUndisturbed ==
    \A j \in Jobs \ misread : life[Owner(j)] = "serving" /\ killed[j] = "no" =>
        /\ launcher[j] \in {"rooted", "grouped", "running"} => j \in roots
        /\ launcher[j] \in {"grouped", "running"} => j \in groups
        /\ launcher[j] = "running" => j \in guests \ dying

\* When a supervisor starts to serve, nothing is left of what was abandoned when it
\* started, its owner and its launcher gone, unless a failure was logged.
NothingStale ==
    \A s \in Procs : life[s] = "roots" /\ todo[s] = {} =>
        stale[s] \cap (groups \cup roots) \subseteq missed

\* When a waiter reports that its job has finished, nothing is left of it, in spite of
\* a launcher killed anywhere and of Drop beside it, unless the cleanup failed.
ReportedIsClean ==
    /\ TypeOK
    /\ \A j \in Jobs : waiter[j] = "done" => j \in missed \/ j \notin groups \cup roots \cup guests

\* Reconciliation ends, though a process in an abandoned cgroup may never die.
ReconcileEnds == \A s \in Procs : life[s] \in Reconciling ~> life[s] \notin Reconciling
=============================================================================
