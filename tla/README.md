# micro-sandbox in TLA+

micro-sandbox runs untrusted commands on Linux. A Node library queues jobs and
stages their files; a native supervisor process admits jobs and starts one
launcher process per job; each launcher clones a guest into namespaces and a
cgroup, watches it, and prints one result. These modules model the control of
these programs, check it with TLC on small instances, and prove what TLC checks of
safety for all values of the constants with TLAPS.

Paths below are relative to the repository root; `native/` is Rust, `src/` is
TypeScript.

## 1. The system

### Components

| component | state | operations | what is hard about it |
|---|---|---|---|
| Sandbox API `src/api/sandbox.ts` | FIFO queue, active count, reserved workspace bytes, the cached connection promise, the close promise | `run`, abort of a queued run, `close`, and the continuations of `execute`, `withWorkspace`, `dispatch`, `recoverRequester`, `getRequester`, `finishCloseIfIdle` | every `await` is a point where another run, an abort, a close or a failing connection interleaves; a workspace must not be removed while a supervisor may write it |
| Supervisor client `src/supervisor/client.ts` | pending requests, next ID, closed flag, close promise, grace timers | `request` with its abort listener, `close`, `handleMessage`, `handleClose`, `connectSupervisor` | an answer racing an abort, a grace timer, a close; a cancel that cannot be sent |
| Child-process transport `src/supervisor/transport.ts` | closed, finished, stdin error, bounded write queue, exit status, kill timers | `send`, `close`, data, stdin errors, `error`, `exit` and `close` events | exit may precede the last output, and a timer gives up waiting for it; broken pipes; undecodable output; a child that ignores SIGTERM |
| Native supervisor `native/src/supervisor.rs` | active table, shutdown ID, end-of-input flag, workspace counter, bounded event channel, reader and waiter threads | `handle_request` (health, run, cancel, shutdown, unknown), `start_job`, `finish`, `cancel_all`, `Drop` | three kinds of threads and two kinds of processes; reused IDs; failures between two reservations; a client that stops reading; shutdown with jobs running; a crash |
| Admission `native/src/scheduler.rs` | reserved capacity under a mutex | `reserve_with_limit`, `release`, `drop`, the measurements before them | two measurements that are no snapshot; integer overflow |
| Launcher `native/src/job.rs`, `linux/clone.rs`, `linux/cgroup.rs` | guest process, cgroup, staging root, two reader threads and a writer, an atomic budget and flag | `launch`, handshakes, `supervise_child`, readers, the `Drop` guards | the guest exiting, the deadline, the budget and SIGKILL race; parent death before the parent-death signal is set |
| Startup reconciliation `supervisor.rs:484-538`, `linux/mount.rs:246-315` | directories named after their owner | `reconcile_stale_jobs`, `cleanup_job` | PID reuse, several supervisors on one root, launchers in a last system call |
| Node artifacts `src/artifacts/workspace.ts` | a workspace directory | plan, reserve, prepare, collect, remove | path collisions, sources that change while they are staged, files replaced before they are read |
| Native artifacts `native/src/artifact.rs`, `linux/mount.rs:82-128` | a workspace directory written by the guest | validate, mount, scan while the guest runs, collect | a tree that changes while it is read, or between validation and mount |
| Framing `src/supervisor/protocol.ts`, `supervisor.rs:540-575` | a partial frame | push a chunk, read a frame | limits at chunk boundaries |
| Capacity detection `native/src/resources.rs` | none | headroom from cgroups and the host | unlimited and missing values, margins |
| Policy `src/policy/*` | none | limits and guest paths | none but boundaries (pure) |
| Seccomp filter `linux/seccomp.rs:162-306` | none | assembly of a BPF program | relative jumps, one accumulator shared by all blocks |
| Isolation `linux/mount.rs`, `capabilities.rs` | the kernel's | sequences of system calls | kernel semantics |
| Registries, platform lookup, errors, scripts | maps, none | | nothing a model would show |

### How they interact

    run() --request('run')--> client --frames on stdin--> reader thread --channel--> protocol loop
      ^                          ^                                                     |  start_job
      |                          |                                                     v
    result <-- promise <----- frames on stdout <--- finish <--channel-- waiter <--wait-- launcher --> guest

A run's promise settles with the answer of the supervisor or, when the connection
fails, after the supervisor process is gone. The supervisor answers a run when the
waiter thread has reaped the launcher and removed the job's cgroup. Cancellation is
a request of its own that names the run by its ID; the run itself is then answered
with `CANCELLED`. Closing the client ends the supervisor's stdin, which cancels all
jobs; SIGTERM and SIGKILL follow after timers. A launcher gets a parent-death
signal when the supervisor dies, and a guest when its launcher dies.

What makes each component correct:

- Supervisor: exactly one answer per run, after its processes are gone, and no cancel is
  answered in its place; cancel hits
  what it names and is told to its run; nothing is reserved without a job; shutdown
  is answered last.
- Admission: reservations are within the limit, counted once, and what was
  promised fits the machine.
- Client and transport: every request settles, once, and not with "unavailable" while
  the supervisor may still be running; no response is lost.
- Sandbox: a workspace is left alone while a supervisor may write it, slots and bytes
  are neither leaked nor exceeded, one supervisor at a time, close waits for everything.
- Reconciliation: what a dead supervisor left is removed, and nothing of a live one.
- Artifacts: what is delivered is what the guest left, an input is one version of its
  source, the disk is bounded at every moment, and what Node accepts the launcher accepts,
  but in known cases.
- Launcher: the guest and its cgroup never outlive it; truncated output is never
  reported as complete; a kill has a reason in the result.

The places where these can go wrong, each at its line, are the `hazards` of
`PROJECT.json` with the properties that cover them.

## 2. Modules

| module | models | its variables and the code's state |
|---|---|---|
| `Supervisor` | the supervisor process with its threads, launchers, guests and cgroups | `chan` the `sync_channel`, `active` the table, `shutdown`, `eof`, `cancelled` the flag of `ActiveJob`, `reserved` and `wsReserved` the two counters, `waiter`, `launcher`, `box` the threads, processes and cgroups, `out` its stdout, `reply` what was written for each frame |
| `RunContract` | abstract: what a client may rely on for runs | `phase`, `alive`, `up`; no threads, table or channel |
| `Admission` | `scheduler.rs`, `resources.rs` and the measurements of `start_job` | `reserved` is `State::reserved`; `used` what the guests use, `others` what else is in the cgroups above them; `live` the headroom of the `start_job` under way |
| `SupervisorClient` | `client.ts`, `transport.ts`, `connectSupervisor` | `call` the promises, `listening` and `graced` their listeners and timers, `closed` and `tClosed` the two flags, `backlog` the write queue, `proc` the child, `inbound` its output |
| `Sandbox` | `sandbox.ts` | `queue`, `active`, `reserved`, `cached` the fields of the class; `pc` the await at which each run is; `client` the state of each connection |
| `Launcher` | `launch`, `supervise_child`, the clone handshakes, the guards | `pc` where `launch` is, `guest` the child, `remaining` and `overflow` the atomics, `reader`, `chunk`, `seen`, `kept` the reader threads, `box`, `staging`, `stuck` cgroup, staging root and a removal of it that failed |
| `Reconcile` | `reconcile_stale_jobs`, `cleanup_job`, `Drop for Supervisor`, and the launchers whose directories they remove | `life` where each process is, `todo` what of a directory listing or table it has not looked at, `at` what a thread is removing, `groups`, `roots` the directories, `guests`, `dying` the processes in a cgroup |
| `Filter` | `seccomp.rs`: the program and what it answers | none; a 32-bit word is the set of its bits |
| `Artifacts` | `workspace.ts`, `artifact.rs`, `bind_artifacts`, `harden` and the scan of `supervise_child`, for one run | `tree` and `file` the workspace by path and inode, `pinned` the open handles, `mounted` what the guest writes, `scan` the counters of `inspect_tree` and what they stand for, `manifest` and `delivered` what each side reports |
| `SupervisorProofs`, `AdmissionProofs`, `ClientProofs`, `SandboxProofs`, `LauncherProofs`, `ReconcileProofs`, `ArtifactsProofs` | proofs about the module of that name (`ArtifactsProofs` also about `Filter`) | |
| `SumProofs` | what sums over finite sets are, for the counters | |
| `MCSupervisor`, `MCAdmission`, `MCSandbox`, `MCArtifacts` | symmetry sets and structured constants for TLC; the other modules are checked as they are | |

An action is a handler of the event loop (`Supervisor`), a callback (`SupervisorClient`),
the code between two awaits (`Sandbox`), a step between two points where another
process or thread is visible (`Launcher`, `Reconcile`), or between two looks at a file
that another process may change (`Artifacts`). `Artifacts` extends `Filter`: whether the
guest may preallocate is what the filter answers. Everything a handler calls is in its
action. Definitions named `...` under a comment "Mutant" are variants with a plausible
bug; they are part of no specification.

Abstractions worth knowing:

- A request frame is named by its position in the input, so that two frames with the
  same ID stay apart; what the code keys by ID is keyed by ID, and `AnsweredOnce` compares
  what is written under the same ID.
- The supervisor's stdout is open, full or broken. It may fill up and be read at any moment;
  a write to a full one blocks the loop. A blocked handler counts as not begun, since all it
  did before is private to the loop's thread but for the place in the channel that it freed.
- Payloads carry only what admission looks at. `health` and unknown types are
  requests that are answered at once.
- `start_job` reads the kernel's counters; in `Supervisor` that is a fixed `Limit`, and
  the failure of any measurement is the first case of `StartFails`; the others take the
  reservations and give them back. `Admission` has the measurements.
- The launcher as the supervisor sees it may create its cgroup, end with a
  result, with an error, or be killed; `Launcher` shows how.
- In `Sandbox` each run measures the free space for itself, with any result up to a bound.
  A connection can do what `SupervisorClient` shows a client to do: answer,
  be retired, break, and close when its process has exited.
- Awaits that one turn of the Node event loop resolves may be taken in any order.
- The guest's work between the mapping and the ready byte (mounts, capabilities, seccomp)
  is one step that succeeds or fails in `Launcher`, and artifact validation by the monitor
  a choice there; `Artifacts` has both.
- In `Admission`, what is in use beside the jobs moves between given settings (`Outside`);
  the CPU is never measured, as in the code.
- In `Reconcile` a process is its start time, and a job ID a pair of owner and number. A
  launcher that was killed may finish one more system call. Reading a directory may or
  may not show what is created meanwhile. When `start_job` fails with a launcher, the loop
  kills, awaits and cleans up inline (`native/src/supervisor.rs:341-346`): these are the steps
  of a cancel and of the waiter, with nothing of the loop in between.
- In `Artifacts` a path is the sequence of what its slashes separate, contents are a length
  and a bit, and a hash is the content. An edit of a source changes its time of modification
  or, within the resolution of `mtimeMs`, does not (`"unseen"`, which `InputsWhole` excludes).
  Other processes touch the workspace only after it was staged (before, nobody knows its
  random name); they replace and write files, or open it to others, which stands for every
  failure of `resolve_workspace` and `validate_private_directory`. How long a path is, in
  UTF-16 units and in bytes, is a parameter. Memory mappings, special files and the order of
  the manifest are left out.
- `Filter` is the x86_64 build; system call and command numbers are those of its libc.
- Time is a deadline that has passed or has not, and timers that may fire at any moment.

## 3. Runs

| run | instance | shows |
|---|---|---|
| `SupervisorJobs` | 2 IDs, 3 frames (run, cancel, shutdown), 2 slots, capacity 2, a failing cgroup removal | one answer per run, after teardown, and no cancel answered under its ID; no job outside the table; exact cancellation; counters match and limits hold; shutdown comes last |
| `SupervisorFaults` | 2 IDs, 3 frames of all kinds, 1 slot, all faults | the same (`Safety`) on every error path, with a crash, an unread or broken stdout and a host that kills; the slot limit |
| `SupervisorContract` | 1 ID, 3 frames (run, shutdown), 1 slot, crash, unread and broken stdout | refinement of `RunContract`, with its liveness if the client reads (a started run is answered, or the supervisor gives up as a whole); the process then ends when told; no process is left |
| `AdmissionJobs` | 3 jobs, 3 dimensions, width 64, 3 cgroups of which each bounds something else and the last has no files | counters exact and within the limit, no wrap-around; an admission fits every cgroup and the host if no measurement was raced |
| `AdmissionSnapshot` | the same | finding: the two measurements are no snapshot |
| `ClientCalls` | 2 runs, write queue of 2, garbage | no request settled early, forgotten or with a timer left (`Bookkeeping`, `RejectedAfterExit`, `LastResponseKept`); aborts, closes, startup and the death of the child settle what waits (`AbortSettles`, `EndSettles`) |
| `ClientCancelId` | 2 runs | finding: a cancel has an ID of its own |
| `SandboxRuns` | 3 runs, 2 with workspaces that do not fit together, 2 slots, queue of 1 | a workspace is left alone while it may be written; slots and bytes match the runs (`Accounting`); connections, close |
| `SandboxLiveness` | 2 runs, 1 slot, owned root | runs and close settle |
| `LauncherRuns` | 2 streams of up to 2 bytes, budget 2, all errors and kills | the budget and honest results (`ResultHonest`); the guest ends before anything of it is removed, and what stays is a removal that failed (`NothingLeft`); every launch ends |
| `ReconcileRuns` | 4 processes on 2 PIDs, the first with a job, failures of every file operation | a live job is undisturbed by whoever reconciles; what was abandoned is gone before the next supervisor serves; a reported job is clean; reconciliation ends beside a guest that does not die |
| `ArtifactRuns` | every request with up to 2 inputs, or up to 2 outputs, over 10 paths, and limits beyond the launcher's; lengths 0 to 2, blocks of 2 bytes; one act of another process | the disk is bounded between scans (`WithinBounds`); refusals have one of the named causes, and what only the launcher refuses it refuses before the guest runs (`RefusalsJustified`); inputs are one version, outputs what the guest left; the filter is its policy |

### Bounds

`MaxFrames` bounds the client of the supervisor: three frames are a run, a second
request that reuses or targets its ID, and a third that meets the result of both (a
run under the freed ID, a late cancel, a shutdown). The channel holds `2 * MaxActive`
events; with one slot it fills up, which the mutants `PostOrDrop` and `DropJoins` need. Two
IDs separate "this job" from "another job" and compete for the single slot; they are
interchangeable, so the runs of safety properties treat them as symmetric. The liveness run
has one ID, since progress is about the channel, the threads and stdout, which no ID owns. In `Admission`, width 64
makes sums with the largest request overflow, three jobs are one more than fit, and
leaving any cgroup out would admit too much.
`MaxQueued` 2 lets the write queue be full with a run or a cancel in it. Three runs in
`Sandbox` are one waiting for two that compete for space, and allow three connections
in a row. `MaxWritten` lets two streams exceed the budget separately and together.
In `Reconcile`, four processes
are an owner, two supervisors that overlap while they reconcile, and an unrelated
program with the owner's PID; a second owner or job only repeats the first, as actions
of different jobs touch different directories. In `Artifacts`, two paths collide in every
way the path tree tells apart, and one act of another process between any two steps is
what each check has to detect; a request has inputs or outputs, which share no state but
the workspace's removal. The paths are `a`, `b`, `a/b`, `b/a`, `a/`, `./`, `../a`, one that is
longer in bytes than in UTF-16 units, one deeper than the launcher allows, and one too long for
Node. A path may have 4 units; the launcher's bounds are 2 files, 3 bytes, 2 to 3 entries and
directories one deep (1024 files, 1 GiB, 64 to 4096 entries and 32 in the code), so that each
refuses some request that Node accepts. The
calls of `Filter` are every number the program names, neighbours of the ABI boundary, and
arguments that equal, contain or resemble what each block compares.
For each property there is a mutant of the code that violates it within these bounds.

### Fairness

Fairness is weak but for one action, and only of what the code or the kernel drives by
itself: the loop and waiter threads of the supervisor; launchers, because their monitor enforces a
deadline (which `LaunchEnds` shows); signals that were sent; timers that run, events
the Node loop has queued; awaited file operations. Nothing is assumed of a client that
sends frames, of users that call, abort or close, of a guest (it need not exit, print
or read), nor of faults.

The loop is strongly fair because a client that reads now and then may fill the pipe again
before a step of the loop: a blocked `write` returns when the pipe has room. A client that
never reads again blocks the loop for good, with runs unanswered and shutdown without effect;
the model has these behaviours. That it reads is therefore an assumption in two properties and
no fairness: `ImplementsContract` (its liveness only) and `EndsWhenTold` assume `ClientReads`,
that stdout has room again and again or the process ended. The Node client does so:
`src/supervisor/transport.ts:103` attaches a listener that consumes each chunk at once and never
pauses. `NoOrphans`, a pending error that ends the process, and all safety do without. In
`SupervisorClient` the supervisor need not read, answer or
heed SIGTERM; only SIGKILL is obeyed. What follows the exit of the child is `Finish` or
`DrainTimer`, whichever comes first. In `Reconcile` only the reconciling thread is fair: its
loops are bounded by the directory and a deadline, and the processes it kills need not die.

Deadlock is checked in every run but `ReconcileRuns`, where the bounded processes and
jobs come to an end; in the others the final states stutter by an explicit action.

### Findings

- `ClientCancelId`: `native/src/supervisor.rs:219` says that the Node client reuses a
  run's ID for its cancel; `src/supervisor/client.ts:61-68` takes a new one. The native
  code copes with both, and `Supervisor` models clients that do either.
- `AdmissionSnapshot`: `native/src/scheduler.rs:66` says that the headroom is measured
  from usage that already includes the own usage; `start_job` measures the own usage
  later (`supervisor.rs:251-255`), and a guest that allocates in between makes the
  sum too large. `NoOvercommit` holds as long as this did not happen (`raced`, a history
  variable), and is proved as such.

### What the models show beside it

- `native/src/supervisor.rs:515` says that an owner is dead only if its process "no longer
  exists"; the code also takes one for dead whose `/proc` record cannot be read.
  `RunningUndisturbed` makes an exception of such jobs (`misread`).
- `native/src/supervisor.rs:218-222` keeps an answer back that would settle a running job
  twice, for a malformed cancel under the job's ID. Other requests under that ID are answered
  while the job runs: a second `run` (174-177), health and unknown requests (161-173, 195),
  and after a shutdown anything (157-159). The client of this repository never reuses an ID;
  `AnsweredOnce` names these exceptions and holds for cancels.
- `src/artifacts/workspace.ts:434` lets a path through that ends in one slash, which
  `path.posix.normalize` keeps, and `PathTree` takes `a/` and `a/b` for compatible; staging
  or the launcher refuses them later. `RefusalsJustified` makes an exception of such paths.
- Node accepts requests that the launcher then refuses: directories deeper than 32 and trees of
  more entries than `clamp(4 * files, 64, 4096)` (`native/src/artifact.rs:348-384`, which counts
  directories, while Node counts files), output paths of at most 1024 UTF-16 units but more
  bytes (185; `workspace.ts:429`), and limits beyond 1024 files or 1 GiB when the configured
  ceilings allow them (280-299; `src/policy/artifacts.ts:42-49`). `RefusalsJustified` names them
  (`Fit`) and says that they are refused before the guest runs, not when its work is done.
- `StagingRoot::drop` ignores an error (`native/src/job.rs:562-566`), so that a staging root may
  outlive a launch that succeeded; the supervisor's `cleanup_job` tries again (`Reconcile`).
- `src/supervisor/transport.ts:122-124` says that no last response is lost; the drain timer
  (128-134) destroys what was not read when it fires. `LastResponseKept` excepts that step.
- A launcher killed in a system call can create its directory after `Drop` removed it; the
  next supervisor finds it (`NothingStale`), and a waiter thread that is still there does
  not report before (`ReportedIsClean`).

## 4. Proofs

Each `...Proofs` module states an inductive invariant as a conjunction of named parts, one
lemma for each part (one step per action), and theorems of the form `Spec => []P` for the
properties the runs check. They hold for every value of the constants. The only
assumptions are those the modules state about their constants (`SupervisorAssumption`,
`ArtifactsAssumption`, ...), which TLC evaluates on each run.

`SupervisorProofs`, for any IDs, payloads, limits, faults and number of frames:

- `TypeCorrect`, with `InRange`: events, jobs and the table name frames that were read.
- `NoStrayJobHolds`, `SlotBoundHolds`, `CapacityBoundHolds`. `JobInv` strengthens them: the stages of a job's waiter, launcher and answer fit together
  (`Stages`); an entry of the table is an unanswered job of that ID and every unanswered
  job has its entry (`TableInv`, `NoneLost`); each event in the channel stands for a
  request not yet handled or a waiter that has posted, once (`QueueInv`, `UnreadInv`); the
  requests are in order (`OrderInv`); a pending shutdown is an unanswered frame.
- `AnsweredOnceHolds` needs, on top, `IdInv`: whatever was answered was read before the
  requests that wait in the channel (`Late`), so that nothing behind a run was answered when
  it starts; a pending shutdown has cancelled all open runs (`AllMarked`); and what was answered
  under the ID of an open run is no cancel, but after a shutdown (`UnderOwn`).
- `AnsweredAfterTeardownHolds` needs, on top, `BoxInv`: which job the cgroup of a reused
  ID belongs to (`OpenApart`, `LaterOpen`) and that a posted completion means a removed
  cgroup or a reported failure (`CleanPosted`).
- `ReservationsMatchHolds`: the two counters are the sums over the table, from what each
  action adds to the table and takes from it (`SumProofs`).
- `CancelJustifiedHolds`, `CleanEndHolds`, `CancelWinsHolds` (an action property), and with
  them `SafetyHolds`, the conjunction the run with faults checks.
- `StepsImplementContract`: the initial states and every step of `Supervisor` are, under
  the refinement mapping, initial states and steps or stutters of `RunContract`
  (`Contract!Steps`). Its fairness is left to the run `SupervisorContract`.

`AdmissionProofs`:

- `WithinLimitHolds` and `ReservedIsHeldHolds`: the reserved total is within the limit, since
  every sum is checked before it is stored, and is the sum of what is held.
- `NoOvercommitHolds`: an admission that was not raced fits every cgroup and the host. It rests
  on `EffectiveBound`: the detected capacity and the usage it was measured with are no
  more than any cgroup's limit or the host leaves (`MarginBound`, `MinIsLeast`). The
  induction carries that, until something changes, the headroom of the `start_job`
  under way is the one of the present usage (`MeasurementKept`).

`ClientProofs`: `BookkeepingHolds`, `RejectedAfterExitHolds` and the action property
`LastResponseKeptHolds`. Beside the properties the invariant says that a run takes at most two
IDs, one for its cancel (`IdInv`), that the client is closed when its transport is, and that
nobody waits once `close` resolved (`ClosedInv`), and that a transport finishes only after
its process exited, and a process that never ran wrote nothing (`ExitInv`). For
`LastResponseKept` each step that takes a response from the output is shown to settle its
request, to be the drain timer, or to find the output invalid; `Finish` comes at its end.

`SandboxProofs`: `AccountingHolds`, `WriterIsAwaitedHolds`, `OneSupervisorHolds`, `ClosedIsGoneHolds`.
The queue holds exactly the runs that wait, each once (`QueueInv`); connections are numbered
as they are opened, each by a run that uses it (`GenInv`); one that takes runs, or will, is
the cached one (`OneInv`); a run that may be executing waits for a process that has not
exited (`AliveInv`); such a process is cached, or some run waits for its end (`GoneInv`);
and a `close` that found the sandbox idle leaves only the connection it ends (`CloseInv`).
`Accounting` compares slots and bytes with sums over the runs.

`LauncherProofs`: `ResultHonestHolds`, `NothingLeftHolds`, `GuestAttachedHolds`, for any streams,
budget and pipes, and any failures. Where `launch` is tells what became of guest, readers and
directories, and that no removal was tried while the guest lives (`Control`); a guest a killed launcher left is doomed (`Doom`); what the readers kept and
what remains is the budget (`BudgetKept`); a byte is lost exactly when the flag was raised
(`Bytes`); and what the monitor remembers of its reasons is still so (`Reasons`).

`ReconcileProofs`: `RunningUndisturbedHolds`, `NothingStaleHolds`, `ReportedIsCleanHolds`. A waiter
removes the directories of its own job, whose launcher is dead, and a supervisor those of an
owner that is gone, of one it failed to read, or its own (`AtInv`); a job has nothing before
its owner serves (`FreshInv`); a launcher has a guest from the clone to the wait
(`GuestInv`); what a waiter or a supervisor is through with has gone (`CleanInv`, `StaleInv`).

`ArtifactsProofs`:

- `ArtifactsInvariant`, from which `InputsWholeHolds` and `OutputsHonestHolds` follow: an inode
  is at one path, and a new file is never an old inode, so what was pinned is at its output's
  path or at none (`TreeInv`, `PinInv`); the tree was empty when it was pinned, and from
  then on an output holds what the guest left unless another process writes that very
  file (`ContentInv`); the manifest is what was left, and the delivery is the manifest
  (`ReportInv`). Replacing files, at any moment and any number of times, changes none of it.
- `WithinBoundsHolds`: no file has more blocks than its length needs, since what would allocate
  more does not pass the filter, and every output is within the limit of the first
  (`BoundInv`); the sums follow from what the plan accepted (`SumMonotone`, `SumMargin`).
- `RefusalsJustifiedHolds`: what Node planned is what the launcher, the monitor and Node again
  find, but for what only the launcher looks at. `CalmInv` says what a run nobody interfered
  with looks like: each file is at the
  path it was planned for, below directories only (`PlacedInv`); inputs hold what was
  staged, outputs nothing before the guest runs and at most `RLIMIT_FSIZE` from then on
  (`SizeInv`); handles and manifest are in the order of the outputs (`HandleInv`, `ListInv`);
  and an unfinished scan has counted entries of the tree, no file for more than it may hold,
  though files change under it (`ScanInv`). Each check then passes: paths without a slash at the
  end have distinct places, none above another (`SpotsApart`); the directories of either tree
  are those above the paths of the request (`FoldersOf`), so that depth and number of entries
  are right exactly when the request fits (`ShapeIs`); the launcher's sum over the
  tree is Node's over the inputs (`SumReindex`); and the outputs at their maxima are
  within what the plan summed (`OutputBudget`). Conversely a run past the validation has passed
  `Fit` (`NextFit`). `EditInv` dates the first interference.
- `VerdictIsPolicy`: the program decides all 2^128 calls as the policy says, not only the calls
  of the run. `ProgramAt` gives its 109 instructions, as assembled from the blocks; every
  jump goes forward and stays inside (`Forward`), so that the evaluation, a recursive
  function, has a value for every state (`Answering`, by induction on the number of the
  last instructions); then one lemma per block follows the accumulator through it, the
  forty denied numbers by induction from the last to the first (`DeniedRun`).
  `FilterMeetsPolicyHolds` is its consequence for the guest.

`SumProofs`: `SumFunctionOnSet` of the community modules is a fold, a recursion over subsets.
`FiniteInduction` states induction with a set of subsets in place of a predicate (a smallest
counterexample exists by `WFMin`); it gives the existence of the recursive function and what
a sum does when a term is added, removed or changed.

With these, every safety invariant and every action property of the runs is a theorem.
Checked by TLC only: all liveness, and the fairness of `RunContract` (the proof system has no
rule for fairness and ENABLED here).

## 5. Not modelled, and the plan

Not modelled: the kernel's side of isolation, command line and environment parsing, error
texts, the shape of results, packaging, the parsing of `cpu.max`; of artifact trees, special
files. `PROJECT.json` lists each component with its reason.

Done: `Supervisor`, `RunContract`, `Admission` with the detection of capacity,
`SupervisorClient`, `Sandbox`, `Launcher`, `Reconcile`, `Filter`, `Artifacts`. Left, by importance:

1. `Teardown`: one workspace across Sandbox, client, supervisor, launcher and guest, with
   the escalation to SIGKILL. Question: may anything write the workspace once the
   promise has settled (`src/supervisor/client.ts:17-20`)? Today each model assumes of its
   neighbours what the neighbour's model shows.
2. `Frames`: a stream cut into frames against a reference definition, for all chunkings.
3. `Policy`: pure definitions against references over bounded inputs.

Abstract specifications worth stating: a queue with slots that `Sandbox` implements; a
request/response channel that `SupervisorClient` implements; a job that ends once, for
`Launcher`.

Theorems worth proving next: that `SupervisorClient` and `Launcher` implement the last two,
step by step, as `StepsImplementContract` shows for `Supervisor`.
