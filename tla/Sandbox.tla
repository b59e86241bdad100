------------------------------- MODULE Sandbox -------------------------------
(***************************************************************************)
(* The Sandbox class (sandbox.ts): the bounded FIFO queue of runs, their   *)
(* workspaces, the supervisor connection they share, its replacement when  *)
(* it fails, and close().  An action is what runs between two awaits: a    *)
(* call of the user, or one continuation of one run.  Continuations of the *)
(* same tick may be taken in any order, a superset of what Node does.      *)
(*                                                                         *)
(* A connection is one call of requesterFactory.  What it can do is what   *)
(* module SupervisorClient shows of client.ts: it answers a run, or is     *)
(* retired or breaks, and close() resolves when its process has exited.    *)
(***************************************************************************)
EXTENDS Integers, Sequences, FiniteSets, SequencesExt

CONSTANTS
    Jobs,          \* the runs that may be asked for
    Need,          \* Need[j]: workspace bytes of j, 0 when it has no artifacts
    Usable,        \* the most that 80% of the free space of the workspace root ever is
    MaxInFlight, MaxQueue, Waits,  \* CapacityOptions; Waits: overload = "wait"
    OwnsRoot       \* ownsWorkspaceRoot

ASSUME SandboxAssumption ==
    /\ IsFiniteSet(Jobs)
    /\ Need \in [Jobs -> Nat] /\ Usable \in Nat
    /\ MaxInFlight \in Nat \ {0} /\ MaxQueue \in Nat
    /\ Waits \in BOOLEAN /\ OwnsRoot \in BOOLEAN

\* A run opens at most one connection (getRequester is called once per run).
Gens == 1 .. Cardinality(Jobs)
None == 0

VARIABLES
    pc,          \* where each run is
    outcome,     \* what its promise settles with, "none" until that is known
    aborted,     \* runs whose signal was aborted
    queue, active,
    reserved,    \* workspaceReservedBytes
    workspaces,  \* runs whose workspace directory exists
    cached,      \* requesterPromise: the connection shared by new runs, or None
    gen,         \* the connection each run uses
    client,      \* the state of each connection
    alive,       \* runs sent to a supervisor that may still write their workspace
    closing,     \* close(): "no", "asked", "closing" when idle, or "done"
    closeOn      \* the connection close() closes

jobVars == <<pc, outcome, aborted>>
queueVars == <<queue, active>>
spaceVars == <<reserved, workspaces>>
connVars == <<cached, gen, client, alive>>
closeVars == <<closing, closeOn>>
vars == <<jobVars, queueVars, spaceVars, connVars, closeVars>>

InFlight == {"measuring", "staging", "starting", "running", "recovering", "collecting",
             "removing", "ending"}

TypeOK ==
    /\ pc \in [Jobs -> {"idle", "queued", "done"} \cup InFlight]
    /\ outcome \in [Jobs -> {"none", "result", "error", "cancelled", "refused"}]
    /\ aborted \subseteq Jobs
    /\ queue \in Seq(Jobs) /\ Len(queue) <= MaxQueue
    /\ active \in 0 .. MaxInFlight
    /\ reserved \in Nat
    /\ workspaces \subseteq Jobs
    /\ cached \in Gens \cup {None}
    /\ gen \in [Jobs -> Gens \cup {None}]
    /\ client \in [Gens -> {"none", "starting", "failed", "up", "retiring", "broken", "exited"}]
    /\ alive \subseteq Jobs
    /\ closing \in {"no", "asked", "closing", "done"}
    /\ closeOn \in Gens \cup {None}

Init ==
    /\ pc = [j \in Jobs |-> "idle"]
    /\ outcome = [j \in Jobs |-> "none"]
    /\ aborted = {}
    /\ queue = <<>> /\ active = 0
    /\ reserved = 0 /\ workspaces = {}
    /\ cached = None
    /\ gen = [j \in Jobs |-> None]
    /\ client = [g \in Gens |-> "none"]
    /\ alive = {}
    /\ closing = "no" /\ closeOn = None

-----------------------------------------------------------------------------
(* Helpers.                                                                 *)

\* Mutant: a connection is shared only once it is up.
GetRequesterUp(js) ==
    LET new == 1 + Cardinality({g \in Gens : client[g] # "none"})
        shared == cached # None /\ client[cached] # "starting"
        conn == IF shared THEN cached ELSE new
    IN IF js = {} THEN UNCHANGED <<cached, gen, client>>
       ELSE /\ cached' = conn
            /\ gen' = [j \in Jobs |-> IF j \in js THEN conn ELSE gen[j]]
            /\ client' = IF shared THEN client ELSE [client EXCEPT ![new] = "starting"]

\* getRequester for the runs of js: the cached connection, or a new one.
GetRequester(js) ==
    LET new == 1 + Cardinality({g \in Gens : client[g] # "none"})
        conn == IF cached # None THEN cached ELSE new
    IN IF js = {} THEN UNCHANGED <<cached, gen, client>>
       ELSE /\ cached' = conn
            /\ gen' = [j \in Jobs |-> IF j \in js THEN conn ELSE gen[j]]
            /\ client' = IF cached = None THEN [client EXCEPT ![new] = "starting"] ELSE client

\* pump with queue q and act runs in flight, the other runs being where "to" says:
\* runs start in order while there is room, and go to their first await.
Pump(q, act, to) ==
    LET n == Min({Len(q), MaxInFlight - act})
        started == {q[k] : k \in 1 .. n}
    IN /\ queue' = SubSeq(q, n + 1, Len(q))
       /\ active' = act + n
       /\ pc' = [j \in Jobs |-> IF j \notin started THEN to[j]
                                ELSE IF Need[j] = 0 THEN "starting" ELSE "measuring"]
       /\ GetRequester({j \in started : Need[j] = 0})

\* finishCloseIfIdle with the given state of close(), queue and active; it reads
\* requesterPromise at once.
FinishCloseIfIdle(phase, q, act) ==
    IF phase = "asked" /\ act = 0 /\ q = <<>>
    THEN closing' = "closing" /\ closeOn' = cached
    ELSE closing' = phase /\ UNCHANGED closeOn

\* The operation on j's workspace ended with outcome o: the workspace is removed.
Leave(j, o) ==
    /\ pc' = [pc EXCEPT ![j] = "removing"]
    /\ outcome' = [outcome EXCEPT ![j] = o]

\* Mutant: any connection in the cache is taken for the one that failed.
RecoverStale(j) ==
    /\ pc' = [pc EXCEPT ![j] = "recovering"]
    /\ cached' = None
    /\ client' = [client EXCEPT ![gen[j]] = IF @ = "up" THEN "retiring" ELSE @]
    /\ UNCHANGED outcome

\* Mutant: the workspace is given up before the supervisor is known to be gone.
RecoverAtOnce(j) ==
    /\ Leave(j, "error")
    /\ cached' = IF cached = gen[j] THEN None ELSE cached
    /\ client' = [client EXCEPT ![gen[j]] = IF @ = "up" THEN "retiring" ELSE @]

\* recoverRequester: the connection that failed is no longer handed out, is closed,
\* and j waits for that.
Recover(j) ==
    /\ pc' = [pc EXCEPT ![j] = "recovering"]
    /\ cached' = IF cached = gen[j] THEN None ELSE cached
    /\ client' = [client EXCEPT ![gen[j]] = IF @ = "up" THEN "retiring" ELSE @]
    /\ UNCHANGED outcome

-----------------------------------------------------------------------------
(* Calls of the user.                                                       *)

\* run(): refused, or queued and possibly started.
Run(j) ==
    /\ pc[j] = "idle"
    /\ LET refusal ==
             IF closing # "no" THEN "refused"
             ELSE IF j \in aborted THEN "cancelled"
             ELSE IF active >= MaxInFlight /\ (~Waits \/ Len(queue) >= MaxQueue) THEN "refused"
             ELSE "none"
       IN IF refusal # "none"
          THEN /\ pc' = [pc EXCEPT ![j] = "done"]
               /\ outcome' = [outcome EXCEPT ![j] = refusal]
               /\ UNCHANGED <<queueVars, cached, gen, client>>
          ELSE /\ Pump(Append(queue, j), active, [pc EXCEPT ![j] = "queued"])
               /\ UNCHANGED outcome
    /\ UNCHANGED <<aborted, spaceVars, alive, closeVars>>

\* The caller aborts: a queued run leaves the queue; a run in flight notices at its
\* next await (StageFails, AbortedWaiting, Answer, Retire).
Abort(j) ==
    /\ j \notin aborted /\ pc[j] # "done"
    /\ aborted' = aborted \cup {j}
    /\ IF pc[j] = "queued"
       THEN \E k \in 1 .. Len(queue) :
            /\ queue[k] = j /\ queue' = RemoveAt(queue, k)
            /\ pc' = [pc EXCEPT ![j] = "done"]
            /\ outcome' = [outcome EXCEPT ![j] = "cancelled"]
            /\ FinishCloseIfIdle(closing, queue', active)
       ELSE UNCHANGED <<queue, pc, outcome, closeVars>>
    /\ UNCHANGED <<active, spaceVars, connVars>>

Close ==
    /\ closing = "no"
    /\ FinishCloseIfIdle("asked", queue, active)
    /\ UNCHANGED <<jobVars, queueVars, spaceVars, connVars>>

-----------------------------------------------------------------------------
(* The continuations of a run.                                              *)

\* Mutant: the free space is compared with this run's need alone.
MeasuredAlone(j) ==
    /\ pc[j] = "measuring"
    /\ \/ /\ \E usable \in 0 .. Usable : Need[j] <= usable
          /\ pc' = [pc EXCEPT ![j] = "staging"]
          /\ reserved' = reserved + Need[j]
          /\ UNCHANGED outcome
       \/ /\ pc' = [pc EXCEPT ![j] = "ending"]
          /\ outcome' = [outcome EXCEPT ![j] = "error"]
          /\ UNCHANGED reserved
    /\ UNCHANGED <<aborted, queueVars, workspaces, connVars, closeVars>>

\* reserveWorkspaceCapacity returned: the space is reserved and staging begins.  What
\* is usable was measured for this run, at some moment before the await, and is compared
\* with what is reserved now.
Measured(j) ==
    /\ pc[j] = "measuring"
    /\ \/ /\ \E usable \in 0 .. Usable : reserved + Need[j] <= usable
          /\ pc' = [pc EXCEPT ![j] = "staging"]
          /\ reserved' = reserved + Need[j]
          /\ UNCHANGED outcome
       \/ /\ pc' = [pc EXCEPT ![j] = "ending"]  \* too little space, or statfs failed
          /\ outcome' = [outcome EXCEPT ![j] = "error"]
          /\ UNCHANGED reserved
    /\ UNCHANGED <<aborted, queueVars, workspaces, connVars, closeVars>>

\* prepareWorkspace returned: dispatch asks for the connection.
Staged(j) ==
    /\ pc[j] = "staging"
    /\ pc' = [pc EXCEPT ![j] = "starting"]
    /\ workspaces' = workspaces \cup {j}
    /\ GetRequester({j})
    /\ UNCHANGED <<outcome, aborted, queueVars, reserved, alive, closeVars>>

\* prepareWorkspace failed, or saw the abort, and removed what it made.
StageFails(j) ==
    /\ pc[j] = "staging"
    /\ pc' = [pc EXCEPT ![j] = "ending"]
    /\ outcome' = [outcome EXCEPT ![j] = IF j \in aborted THEN "cancelled" ELSE "error"]
    /\ reserved' = reserved - Need[j]
    /\ UNCHANGED <<aborted, queueVars, workspaces, connVars, closeVars>>

\* raceAbort: the caller stops waiting for a connection, which goes on starting.
AbortedWaiting(j) ==
    /\ pc[j] = "starting" /\ j \in aborted
    /\ Leave(j, "cancelled")
    /\ UNCHANGED <<aborted, queueVars, spaceVars, connVars, closeVars>>

\* The startup j waited for failed.
NoConnection(j) ==
    /\ pc[j] = "starting" /\ client[gen[j]] = "failed"
    /\ Leave(j, "error")
    /\ UNCHANGED <<aborted, queueVars, spaceVars, connVars, closeVars>>

\* The connection is there: request("run") sends the job, or is refused.
Send(j) ==
    /\ pc[j] = "starting" /\ client[gen[j]] \notin {"starting", "failed"}
    /\ \/ /\ client[gen[j]] = "up" /\ j \notin aborted
          /\ pc' = [pc EXCEPT ![j] = "running"]
          /\ alive' = alive \cup {j}
          /\ UNCHANGED <<outcome, cached, client>>
       \/ /\ client[gen[j]] = "up"  \* aborted, or the frame or the write queue too large
          /\ Leave(j, IF j \in aborted THEN "cancelled" ELSE "error")
          /\ UNCHANGED <<alive, cached, client>>
       \/ /\ Recover(j)             \* closed, or its stdin broken
          /\ UNCHANGED alive
    /\ UNCHANGED <<aborted, queueVars, spaceVars, gen, closeVars>>

\* The supervisor answers, after the job's teardown.
Answer(j) ==
    /\ pc[j] = "running" /\ client[gen[j]] = "up"
    /\ alive' = alive \ {j}
    /\ \/ /\ pc' = [pc EXCEPT ![j] = "collecting"]
          /\ UNCHANGED <<outcome, cached, client>>
       \/ /\ Leave(j, IF j \in aborted THEN "cancelled" ELSE "error")
          /\ UNCHANGED <<cached, client>>
       \/ Recover(j)                \* it answers SUPERVISOR_UNAVAILABLE
    /\ UNCHANGED <<aborted, queueVars, spaceVars, gen, closeVars>>

\* The request is rejected because the connection broke or its process exited.
Rejected(j) ==
    /\ pc[j] = "running" /\ client[gen[j]] \in {"broken", "exited"}
    /\ Recover(j)
    /\ UNCHANGED <<aborted, queueVars, spaceVars, gen, alive, closeVars>>

\* close() of the failed connection resolved.
Recovered(j) ==
    /\ pc[j] = "recovering" /\ client[gen[j]] = "exited"
    /\ Leave(j, IF j \in aborted THEN "cancelled" ELSE "error")
    /\ UNCHANGED <<aborted, queueVars, spaceVars, connVars, closeVars>>

\* decodeJobResult: the artifacts are collected, or the result is refused.
Collected(j) ==
    /\ pc[j] = "collecting"
    /\ \/ Leave(j, "result")
       \/ Leave(j, IF j \in aborted THEN "cancelled" ELSE "error")
    /\ UNCHANGED <<aborted, queueVars, spaceVars, connVars, closeVars>>

\* removeWorkspace returned, or failed: then a result becomes an error.
Removed(j) ==
    /\ pc[j] = "removing"
    /\ pc' = [pc EXCEPT ![j] = "ending"]
    /\ reserved' = reserved - Need[j]
    /\ \/ workspaces' = workspaces \ {j} /\ UNCHANGED outcome
       \/ /\ j \in workspaces
          /\ outcome' = [outcome EXCEPT ![j] = IF @ = "result" THEN "error" ELSE @]
          /\ UNCHANGED workspaces
    /\ UNCHANGED <<aborted, queueVars, connVars, closeVars>>

\* Mutant: the end of a run does not look whether close() waits for it.
FinishUnaware(j) ==
    /\ pc[j] = "ending"
    /\ Pump(queue, active - 1, [pc EXCEPT ![j] = "done"])
    /\ UNCHANGED <<outcome, aborted, spaceVars, alive, closeVars>>

\* The end of execute(): the next run starts, close() may proceed, the promise settles.
Finish(j) ==
    /\ pc[j] = "ending"
    /\ Pump(queue, active - 1, [pc EXCEPT ![j] = "done"])
    /\ FinishCloseIfIdle(closing, queue', active')
    /\ UNCHANGED <<outcome, aborted, spaceVars, alive>>

-----------------------------------------------------------------------------
(* Connections.                                                             *)

\* connectSupervisor resolves after the health check.
Connected(g) ==
    /\ client[g] = "starting"
    /\ client' = [client EXCEPT ![g] = "up"]
    /\ UNCHANGED <<jobVars, queueVars, spaceVars, cached, gen, alive, closeVars>>

\* It rejects, its process gone; a failed startup is never cached.
StartupFails(g) ==
    /\ client[g] = "starting"
    /\ client' = [client EXCEPT ![g] = "failed"]
    /\ cached' = IF cached = g THEN None ELSE cached
    /\ UNCHANGED <<jobVars, queueVars, spaceVars, gen, alive, closeVars>>

\* A cancel was not acknowledged in time, or could not be sent: the client closes.
Retire(g) ==
    /\ client[g] = "up" /\ \E j \in aborted : pc[j] = "running" /\ gen[j] = g
    /\ client' = [client EXCEPT ![g] = "retiring"]
    /\ UNCHANGED <<jobVars, queueVars, spaceVars, cached, gen, alive, closeVars>>

\* An invalid message: requests are rejected, the process is being killed.
Breaks(g) ==
    /\ client[g] = "up"
    /\ client' = [client EXCEPT ![g] = "broken"]
    /\ UNCHANGED <<jobVars, queueVars, spaceVars, cached, gen, alive, closeVars>>

\* The process exits, by itself or because it was told to, and its jobs with it.
Exits(g) ==
    /\ client[g] \in {"up", "retiring", "broken"}
    /\ client' = [client EXCEPT ![g] = "exited"]
    /\ alive' = {j \in alive : gen[j] # g}
    /\ UNCHANGED <<jobVars, queueVars, spaceVars, cached, gen, closeVars>>

-----------------------------------------------------------------------------
(* close(), when idle.                                                      *)

\* A startup still under way is waited for; then its connection is closed.
CloseRetires ==
    /\ closing = "closing" /\ closeOn \in {g \in Gens : client[g] = "up"}
    /\ client' = [client EXCEPT ![closeOn] = "retiring"]
    /\ UNCHANGED <<jobVars, queueVars, spaceVars, cached, gen, alive, closeVars>>

\* The root is removed if it is ours (or that fails, and close() rejects).
CloseDone ==
    /\ closing = "closing"
    /\ closeOn \in {None} \cup {g \in Gens : client[g] \in {"failed", "exited"}}
    /\ closing' = "done"
    /\ \/ workspaces' = IF OwnsRoot THEN {} ELSE workspaces
       \/ OwnsRoot /\ UNCHANGED workspaces
    /\ UNCHANGED <<jobVars, queueVars, reserved, connVars, closeOn>>

Over ==
    /\ closing = "done" /\ \A j \in Jobs : pc[j] \in {"idle", "done"}
    /\ UNCHANGED vars

-----------------------------------------------------------------------------
Continue(j) ==
    \/ Measured(j) \/ Staged(j) \/ StageFails(j)
    \/ AbortedWaiting(j) \/ NoConnection(j) \/ Send(j)
    \/ Answer(j) \/ Rejected(j) \/ Recovered(j) \/ Collected(j)
    \/ Removed(j) \/ Finish(j)

Next ==
    \/ \E j \in Jobs : Run(j) \/ Abort(j) \/ Continue(j)
    \/ \E g \in Gens : Connected(g) \/ StartupFails(g) \/ Retire(g) \/ Breaks(g) \/ Exits(g)
    \/ Close \/ CloseRetires \/ CloseDone
    \/ Over

\* Awaited operations return.  A supervisor answers its runs, whose wall time it
\* limits; the health check of a startup is bounded; a connection that was closed or
\* broke ends in SIGKILL.  Nobody has to call, abort or close.
Fairness ==
    /\ \A j \in Jobs : WF_vars(Continue(j))
    /\ \A g \in Gens : /\ WF_vars(Connected(g) \/ StartupFails(g))
                       /\ WF_vars(client[g] \in {"retiring", "broken"} /\ Exits(g))
    /\ WF_vars(CloseRetires) /\ WF_vars(CloseDone)

Spec == Init /\ [][Next]_vars /\ Fairness

-----------------------------------------------------------------------------
(* Properties.                                                              *)

\* While a supervisor may write a run's workspace, the run waits for its answer or
\* for the supervisor to be gone: the workspace is neither read nor removed, and the
\* promise has not settled (sandbox.ts:266-269).
WriterIsAwaited == \A j \in alive : pc[j] \in {"running", "recovering"}

\* The reserved bytes are those of the runs between staging and removal, and together
\* they fit: concurrent runs never reserve more than what may be used.
SpaceReserved ==
    LET holders == {j \in Jobs : pc[j] \in InFlight \ {"measuring", "ending"}} IN
    reserved = SumFunctionOnSet(Need, holders) /\ reserved <= Usable

\* Runs wait only while every slot is taken by a run that has not ended.
SlotsInUse ==
    /\ active = Cardinality({j \in Jobs : pc[j] \in InFlight})
    /\ queue # <<>> => active = MaxInFlight

\* The counters execute() keeps across its awaits: slots and workspace bytes are those
\* of the runs that hold them (sandbox.ts:206-249); with them, the types.
Accounting == TypeOK /\ SpaceReserved /\ SlotsInUse

\* At most one supervisor accepts runs: the failure of an old one never discards its
\* replacement (sandbox.ts:276-277).
OneSupervisor == Cardinality({g \in Gens : client[g] \in {"starting", "up"}}) <= 1

\* close() resolves after every run has settled and every supervisor that was ever
\* started is gone.
ClosedIsGone ==
    closing = "done" =>
        /\ \A g \in Gens : client[g] \in {"none", "failed", "exited"}
        /\ \A j \in Jobs : pc[j] \in {"idle", "done"}

\* Every run settles, and so does close().
Settles ==
    /\ \A j \in Jobs : pc[j] \in {"queued"} \cup InFlight ~> pc[j] = "done"
    /\ closing = "asked" ~> closing = "done"
=============================================================================
