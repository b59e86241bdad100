------------------------------ MODULE Launcher ------------------------------
(***************************************************************************)
(* The launcher process of one job (job.rs, clone.rs, cgroup.rs): the      *)
(* setup handshakes with the cloned guest, the monitor loop with its       *)
(* deadline and output budget, the threads that read the guest's output,   *)
(* and the guards that undo everything on an error.  The supervisor may    *)
(* kill the process at any moment.                                         *)
(*                                                                         *)
(* The guest is the first process of a PID namespace: when it has died,    *)
(* so have its descendants.                                                *)
(***************************************************************************)
EXTENDS Integers, FiniteSets, FiniteSetsExt

CONSTANTS
    Streams,     \* stdout and stderr
    Budget,      \* limits.output_bytes
    MaxWritten,  \* bound: bytes the guest writes to a stream
    PipeCap,     \* capacity of a pipe
    Workspace,   \* whether the job has one, whose outputs are validated while it runs
    IoErrors     \* whether a system call of the launcher may fail

ASSUME LauncherAssumption ==
    /\ IsFiniteSet(Streams)
    /\ Budget \in Nat /\ MaxWritten \in Nat /\ PipeCap \in Nat \ {0}
    /\ Workspace \in BOOLEAN /\ IoErrors \in BOOLEAN

VARIABLES
    pc,         \* where launch() is
    expired,    \* whether the deadline has passed
    guest,      \* the cloned child
    doomed,     \* whether it was sent SIGKILL
    status,     \* how it ended
    box,        \* whether the job's cgroup directory exists
    staging,    \* whether the staging root exists
    stuck,      \* whether the launcher failed to remove it, which it ignores
    late,       \* the monitor's last comparison of the time with the deadline
    timedOut,   \* timed_out
    reason,     \* why the monitor killed the guest
    pipe,       \* bytes in each output pipe
    written,    \* bytes the guest wrote to each stream
    remaining,  \* the part of the budget that no reader claimed
    overflow,
    reader, chunk, seen, kept,  \* per stream: its reader's state, the bytes it read,
                \* the budget it loaded, and the bytes it kept
    writer,     \* the stdin writer thread
    flagged     \* output_limit_exceeded of the result

runVars == <<late, timedOut, reason>>
readVars == <<remaining, overflow, reader, chunk, seen, kept>>
guestVars == <<guest, doomed, status>>
hostVars == <<box, staging, stuck>>
vars == <<pc, expired, guestVars, hostVars, runVars, pipe, written, readVars, writer, flagged>>

Setup == {"arming", "mapping", "readying"}
Monitoring == {"monitor", "checking", "polling", "killing", "joining"}
Returned == {"done", "failed"}
Ended == Returned \cup {"killed"}
Live == {"cloned", "armed", "setup", "ready", "running"}
Gone == {"none", "reaped"}

TypeOK ==
    /\ pc \in {"creating", "cloning", "failing", "dropping"} \cup Setup \cup Monitoring \cup Ended
    /\ guest \in Live \cup Gone \cup {"zombie"}
    /\ status \in {"none", "exited", "failed", "killed"}
    /\ {expired, doomed, box, staging, stuck, late, timedOut, overflow, flagged} \subseteq BOOLEAN
    /\ reason \in {"none", "deadline", "overflow", "artifact"}
    /\ pipe \in [Streams -> 0 .. PipeCap]
    /\ written \in [Streams -> 0 .. MaxWritten]
    /\ remaining \in 0 .. Budget
    /\ reader \in [Streams -> {"none", "reading", "claiming", "done"}]
    /\ chunk \in [Streams -> 0 .. PipeCap]
    /\ seen \in [Streams -> 0 .. Budget]
    /\ kept \in [Streams -> Nat]
    /\ writer \in {"none", "writing", "done"}

Init ==
    /\ pc = "creating" /\ expired = FALSE
    /\ guest = "none" /\ doomed = FALSE /\ status = "none"
    /\ box = FALSE /\ staging = FALSE /\ stuck = FALSE
    /\ late = FALSE /\ timedOut = FALSE /\ reason = "none"
    /\ pipe = [s \in Streams |-> 0] /\ written = [s \in Streams |-> 0]
    /\ remaining = Budget /\ overflow = FALSE
    /\ reader = [s \in Streams |-> "none"]
    /\ chunk = [s \in Streams |-> 0] /\ seen = [s \in Streams |-> 0]
    /\ kept = [s \in Streams |-> 0]
    /\ writer = "none" /\ flagged = FALSE

Total(f) == MapThenSumSet(LAMBDA s : f[s], Streams)
Lesser(a, b) == IF a < b THEN a ELSE b

-----------------------------------------------------------------------------
(* launch: from the cgroup to a guest that is ready.                        *)

\* StagingRoot::create and Cgroup::create.
Create ==
    /\ pc = "creating"
    /\ \/ /\ staging' = TRUE /\ box' = TRUE
          /\ pc' = "cloning"
       \/ /\ \/ UNCHANGED <<staging, box>>                    \* no staging root
             \/ staging' = TRUE /\ UNCHANGED box              \* no cgroup
             \/ IoErrors /\ staging' = TRUE /\ box' = TRUE    \* its limits not set
          /\ pc' = "failing"
    /\ UNCHANGED <<expired, stuck, guestVars, runVars, pipe, written, readVars, writer, flagged>>

\* clone3 into the cgroup, or an error of it or of the pipes made before.
Clone ==
    /\ pc = "cloning"
    /\ \/ guest' = "cloned" /\ pc' = "arming"
       \/ UNCHANGED guest /\ pc' = "failing"
    /\ UNCHANGED <<expired, doomed, status, hostVars, runVars, pipe, written, readVars, writer,
                   flagged>>

\* wait_until_ready on the armed pipe: the guest has its parent-death signal.
Armed ==
    /\ pc = "arming" /\ guest = "armed"
    /\ pc' = "mapping"
    /\ UNCHANGED <<expired, guestVars, hostVars, runVars, pipe, written, readVars, writer, flagged>>

\* The mappings are written and the guest released, which may be too late for it.
Release ==
    /\ pc = "mapping"
    /\ guest' = IF guest \in {"cloned", "armed"} THEN "setup" ELSE guest
    /\ pc' = "readying"
    /\ UNCHANGED <<expired, doomed, status, hostVars, runVars, pipe, written, readVars, writer,
                   flagged>>

\* A handshake fails: the deadline passed, the guest died, or a system call failed.
SetupFails ==
    /\ pc \in Setup
    /\ expired \/ guest = "zombie" \/ IoErrors
    /\ pc' = "failing"
    /\ UNCHANGED <<expired, guestVars, hostVars, runVars, pipe, written, readVars, writer, flagged>>

\* The ready byte arrived, written by a guest that may have died since.
Ready ==
    /\ pc = "readying" /\ (guest \in {"ready", "running"} \/ (guest = "zombie" /\ status # "failed"))
    /\ pc' = "monitor"
    /\ reader' = [s \in Streams |-> "reading"]
    /\ writer' = "writing"
    /\ UNCHANGED <<expired, guestVars, hostVars, runVars, pipe, written, remaining, overflow,
                   chunk, seen, kept, flagged>>

-----------------------------------------------------------------------------
(* supervise_child: the monitor loop.                                       *)

\* try_wait: the guest is reaped, or the loop looks at the clock.
TryWait ==
    /\ pc = "monitor"
    /\ IF guest = "zombie"
       THEN guest' = "reaped" /\ pc' = "joining" /\ UNCHANGED late
       ELSE pc' = "checking" /\ late' = expired /\ UNCHANGED guest
    /\ UNCHANGED <<expired, doomed, status, hostVars, timedOut, reason, pipe, written, readVars,
                   writer, flagged>>

\* Mutant: the deadline is only minded while the guest is set up.
CheckUndated ==
    /\ pc = "checking"
    /\ \E why \in {IF overflow THEN "overflow" ELSE "none"} \cup (IF Workspace THEN {"artifact"} ELSE {}) :
          /\ reason' = why
          /\ UNCHANGED timedOut
          /\ doomed' = (doomed \/ why # "none")
          /\ pc' = IF why = "none" THEN "polling" ELSE "killing"
    /\ UNCHANGED <<expired, guest, status, hostVars, late, pipe, written, readVars, writer, flagged>>

\* The checks of the loop body: an output file out of bounds, the deadline, the
\* budget; each kills the guest and everything in its cgroup.
Check ==
    /\ pc = "checking"
    /\ \E why \in (IF Workspace THEN {"artifact"} ELSE {})
                  \cup (IF late THEN {"deadline"} ELSE IF overflow THEN {"overflow"} ELSE {"none"}) :
          /\ reason' = why
          /\ timedOut' = (why = "deadline")
          /\ doomed' = (doomed \/ why # "none")
          /\ pc' = IF why = "none" THEN "polling" ELSE "killing"
    /\ UNCHANGED <<expired, guest, status, hostVars, late, pipe, written, readVars, writer, flagged>>

\* wait_for_event returns: the guest ended, a reader woke it, or it is time to check.
Poll ==
    /\ pc = "polling"
    /\ pc' = "monitor"
    /\ UNCHANGED <<expired, guestVars, hostVars, runVars, pipe, written, readVars, writer, flagged>>

\* wait() after the kill.
Wait ==
    /\ pc = "killing" /\ guest = "zombie"
    /\ guest' = "reaped"
    /\ pc' = "joining"
    /\ UNCHANGED <<expired, doomed, status, hostVars, runVars, pipe, written, readVars, writer,
                   flagged>>

\* Drop for StagingRoot: an error of the removal is ignored, and the directory stays.
RemoveStaging ==
    \/ staging' = FALSE /\ UNCHANGED stuck
    \/ IoErrors /\ staging /\ stuck' = TRUE /\ UNCHANGED staging

\* After the loop: the threads are joined, the cgroup is removed, the outputs are
\* collected (an artifact error fails the job), and the result is printed.
Join ==
    /\ pc = "joining" /\ writer = "done" /\ \A s \in Streams : reader[s] = "done"
    /\ IF reason = "artifact"
       THEN pc' = "failing" /\ box' = FALSE /\ UNCHANGED <<staging, stuck, flagged>>
       ELSE pc' = "done" /\ box' = FALSE /\ RemoveStaging /\ flagged' = overflow
    /\ UNCHANGED <<expired, guestVars, runVars, pipe, written, readVars, writer>>

\* A system call of the monitor or of the collection fails.
MonitorFails ==
    /\ IoErrors /\ pc \in Monitoring
    /\ pc' = "failing"
    /\ UNCHANGED <<expired, guestVars, hostVars, runVars, pipe, written, readVars, writer, flagged>>

-----------------------------------------------------------------------------
(* An error: the guards are dropped in reverse order.                       *)

\* Mutant: the guest is signalled and not waited for.
DropChildUnreaped ==
    /\ pc = "failing"
    /\ doomed' = (doomed \/ guest \in Live)
    /\ pc' = "dropping"
    /\ UNCHANGED <<expired, guest, status, hostVars, runVars, pipe, written, readVars, writer,
                   flagged>>

\* Drop for RunningChild: SIGKILL, and waitpid.
DropChild ==
    /\ pc = "failing"
    /\ \/ /\ guest \in Live /\ ~doomed
          /\ doomed' = TRUE
          /\ UNCHANGED <<guest, pc>>
       \/ /\ guest \in Gone \cup {"zombie"}
          /\ guest' = IF guest = "zombie" THEN "reaped" ELSE guest
          /\ pc' = "dropping"
          /\ UNCHANGED doomed
    /\ UNCHANGED <<expired, status, hostVars, runVars, pipe, written, readVars, writer, flagged>>

\* Drop for Cgroup, which may fail, and for StagingRoot; the error is printed.
DropHost ==
    /\ pc = "dropping"
    /\ \/ box' = FALSE
       \/ IoErrors /\ UNCHANGED box
    /\ RemoveStaging
    /\ pc' = "failed"
    /\ UNCHANGED <<expired, guestVars, runVars, pipe, written, readVars, writer, flagged>>

\* Mutant: a guest that did not ask for the parent-death signal.
KilledUnheard ==
    /\ pc \notin Ended
    /\ pc' = "killed"
    /\ UNCHANGED <<expired, guestVars, hostVars, runVars, pipe, written, readVars, writer, flagged>>

\* SIGKILL of the process, by the supervisor or for the supervisor's death: no guard
\* runs.  The guest gets its parent-death signal, if it asked for one by then.
Killed ==
    /\ pc \notin Ended
    /\ pc' = "killed"
    /\ doomed' = (doomed \/ guest \in Live \ {"cloned"})
    /\ UNCHANGED <<expired, guest, status, hostVars, runVars, pipe, written, readVars, writer,
                   flagged>>

Expire ==
    /\ ~expired
    /\ expired' = TRUE
    /\ UNCHANGED <<pc, guestVars, hostVars, runVars, pipe, written, readVars, writer, flagged>>

-----------------------------------------------------------------------------
(* The guest.                                                               *)

GuestOnly ==
    UNCHANGED <<pc, expired, hostVars, runVars, readVars, writer, flagged>>

Dies(how) ==
    /\ guest' = "zombie"
    /\ status' = how
    /\ UNCHANGED <<doomed, pipe, written>>
    /\ GuestOnly

\* PR_SET_PDEATHSIG, then the byte for the launcher; without a reader the guest
\* aborts, since the signal of a parent already dead never comes.
Arm ==
    /\ guest = "cloned"
    /\ IF pc \in Ended
       THEN Dies("failed")
       ELSE /\ guest' = "armed"
            /\ UNCHANGED <<doomed, status, pipe, written>>
            /\ GuestOnly

\* The rest of its setup, after the mapping: the root, the limits, the ready byte.
SetUp ==
    /\ guest = "setup"
    /\ \/ /\ guest' = "ready"
          /\ UNCHANGED <<doomed, status, pipe, written>>
          /\ GuestOnly
       \/ Dies("failed")

Exec ==
    /\ guest = "ready"
    /\ guest' = "running"
    /\ UNCHANGED <<doomed, status, pipe, written>>
    /\ GuestOnly

\* It exits, also because execve failed.
Exits == guest \in {"ready", "running"} /\ Dies("exited")

\* SIGKILL takes effect.
IsKilled == guest \in Live /\ doomed /\ Dies("killed")

\* A guest that waits for a launcher that is gone reads the end of the pipe.
Deserted == guest = "armed" /\ pc \in Ended /\ Dies("failed")

Prints(s) ==
    /\ guest = "running" /\ written[s] < MaxWritten /\ pipe[s] < PipeCap
    /\ pipe' = [pipe EXCEPT ![s] = @ + 1]
    /\ written' = [written EXCEPT ![s] = @ + 1]
    /\ UNCHANGED guestVars
    /\ GuestOnly

\* Reaped by init, once the launcher is gone.
Inherited ==
    /\ pc \in Ended /\ guest = "zombie"
    /\ guest' = "reaped"
    /\ UNCHANGED <<doomed, status, pipe, written>>
    /\ GuestOnly

-----------------------------------------------------------------------------
(* The threads of the launcher.                                             *)

Threads == pc \notin Ended

ThreadOnly == UNCHANGED <<pc, expired, guestVars, hostVars, runVars, written, flagged>>

\* read_stream: what the pipe holds is read, and the budget loaded.
ReadChunk(s) ==
    /\ Threads /\ reader[s] = "reading" /\ pipe[s] > 0
    /\ reader' = [reader EXCEPT ![s] = "claiming"]
    /\ chunk' = [chunk EXCEPT ![s] = pipe[s]]
    /\ seen' = [seen EXCEPT ![s] = remaining]
    /\ pipe' = [pipe EXCEPT ![s] = 0]
    /\ UNCHANGED <<remaining, overflow, kept, writer>>
    /\ ThreadOnly

\* Mutant: the budget is written back without looking whether it changed.
ClaimBlindly(s) ==
    /\ Threads /\ reader[s] = "claiming"
    /\ LET claimed == Lesser(chunk[s], seen[s]) IN
       /\ remaining' = seen[s] - claimed
       /\ kept' = [kept EXCEPT ![s] = @ + claimed]
       /\ overflow' = (overflow \/ claimed < chunk[s])
       /\ reader' = [reader EXCEPT ![s] = "reading"]
       /\ UNCHANGED seen
    /\ UNCHANGED <<pipe, chunk, writer>>
    /\ ThreadOnly

\* claim_output_bytes: a compare-exchange that is tried again when the other reader
\* was faster.  A chunk not kept in full raises overflow and wakes the monitor.
Claim(s) ==
    /\ Threads /\ reader[s] = "claiming"
    /\ LET claimed == Lesser(chunk[s], seen[s]) IN
       IF seen[s] # remaining
       THEN seen' = [seen EXCEPT ![s] = remaining] /\ UNCHANGED <<remaining, overflow, kept, reader>>
       ELSE /\ remaining' = remaining - claimed
            /\ kept' = [kept EXCEPT ![s] = @ + claimed]
            /\ overflow' = (overflow \/ claimed < chunk[s])
            /\ reader' = [reader EXCEPT ![s] = "reading"]
            /\ UNCHANGED seen
    /\ UNCHANGED <<pipe, chunk, writer>>
    /\ ThreadOnly

\* Every writer of the pipe is gone and it is empty.
ReadEof(s) ==
    /\ Threads /\ reader[s] = "reading" /\ pipe[s] = 0 /\ guest \notin Live
    /\ reader' = [reader EXCEPT ![s] = "done"]
    /\ UNCHANGED <<pipe, remaining, overflow, chunk, seen, kept, writer>>
    /\ ThreadOnly

\* The input writer wrote everything, which a guest that is gone cannot hold up.
WriterEnds ==
    /\ Threads /\ writer = "writing"
    /\ writer' = "done"
    /\ UNCHANGED <<pipe, readVars>>
    /\ ThreadOnly

Over == pc \in Ended /\ guest \in Gone /\ UNCHANGED vars

-----------------------------------------------------------------------------
Launch ==
    \/ Create \/ Clone \/ Armed \/ Release \/ SetupFails \/ Ready
    \/ TryWait \/ Check \/ Poll \/ Wait \/ Join \/ MonitorFails
    \/ DropChild \/ DropHost

GuestSetup == Arm \/ IsKilled \/ Deserted \/ Inherited

Reader(s) == ReadChunk(s) \/ Claim(s) \/ ReadEof(s)

Next ==
    \/ Launch \/ Killed \/ Expire
    \/ GuestSetup \/ SetUp \/ Exec \/ Exits
    \/ \E s \in Streams : Prints(s) \/ Reader(s)
    \/ WriterEnds
    \/ Over

\* The launcher and its threads run, the clock advances, signals are delivered, init
\* reaps, and a new process makes its first steps.  A guest need never exit, print or
\* read its input.
Fairness ==
    /\ WF_vars(Launch) /\ WF_vars(Expire) /\ WF_vars(GuestSetup)
    /\ \A s \in Streams : WF_vars(Reader(s))
    /\ WF_vars(guest \notin Live /\ WriterEnds)

Spec == Init /\ [][Next]_vars /\ Fairness

-----------------------------------------------------------------------------
(* Properties.                                                              *)

\* Both streams together are kept up to the budget, whatever the readers' race.  A
\* result that does not say its output was limited has all of it, and one that says
\* so lost some: truncated output never passes for complete.
OutputHonest ==
    /\ Total(kept) + remaining = Budget
    /\ pc = "done" => (flagged <=> \E s \in Streams : kept[s] < written[s])

\* A guest the monitor killed is reported as timed out, or as over its budget, or
\* the job fails: no result shows a signal without its reason.
KillExplained ==
    pc = "done" /\ reason # "none" => (timedOut /\ expired) \/ flagged

\* What a result says of the run's output and of its end is what happened
\* (job.rs:309-330); with it, the types.
ResultHonest == TypeOK /\ OutputHonest /\ KillExplained

\* The launcher undoes what it did, and in the order in which that is safe: as long as
\* the guest lives, its cgroup and staging root are there and not even tried to remove;
\* whenever launch() returned, the guest was reaped and the staging root's removal tried
\* (if that failed, the supervisor's cleanup_job tries again); with a result the cgroup
\* is gone as well, which Supervisor.tla takes for granted.
NothingLeft ==
    /\ guest \in Live => box /\ staging /\ ~stuck
    /\ pc \in Returned => guest \in Gone /\ (staging => stuck)
    /\ pc = "done" => ~box

\* When the launcher is dead, a guest that is not is about to be killed, or has not
\* passed its first check yet: none ever runs on its own.
GuestAttached ==
    pc \in Ended => guest \notin {"setup", "ready", "running"} \/ doomed

\* Every launch ends, by the deadline at the latest, and so does its guest.
LaunchEnds == <>(pc \in Ended /\ guest \in Gone)
=============================================================================
