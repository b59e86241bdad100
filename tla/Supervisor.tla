----------------------------- MODULE Supervisor -----------------------------
(***************************************************************************)
(* The native supervisor process (src/native/src/supervisor.rs): the       *)
(* thread that reads request frames, the bounded channel, the protocol     *)
(* loop with its table of active jobs, one waiter thread and one launcher  *)
(* process per job, and the job's cgroup with the guest in it.             *)
(*                                                                         *)
(* A request is named by its position in the stream of frames read, so     *)
(* that two frames with the same request ID stay apart; everything the     *)
(* code keys by the ID (the table, the cgroup named after the job) is      *)
(* keyed by the ID here.  0 stands for "no request".                       *)
(***************************************************************************)
EXTENDS Integers, Sequences, FiniteSets, FiniteSetsExt

CONSTANTS
    Ids,         \* request IDs the client may use
    Malformed,   \* the target of a cancel whose payload does not parse
    Payloads,    \* what run requests ask for: [need |-> capacity, ws |-> output bytes]
    Sent,        \* the kinds of requests the client sends, a subset of Kinds
    MaxFrames,   \* bound: number of frames the client sends
    MaxActive,   \* MAX_ACTIVE_JOBS
    Limit,       \* the scheduler's static capacity
    WsUsable,    \* usable bytes (80% of the available ones) of the output file system
    Faults       \* which faults occur: subset of AllFaults

Kinds == {"health", "run", "cancel", "shutdown", "unknown"}
AllFaults == {"crash", "pipe", "stall", "hostkill", "leak"}

ASSUME SupervisorAssumption ==
    /\ IsFiniteSet(Ids)
    /\ Malformed \notin Ids
    /\ Payloads \subseteq [need : Nat, ws : Nat]
    /\ Sent \subseteq Kinds
    /\ MaxFrames \in Nat
    /\ MaxActive \in Nat \ {0}
    /\ Limit \in Nat
    /\ WsUsable \in Nat
    /\ Faults \subseteq AllFaults

Requests == 1 .. MaxFrames

\* Room for one request plus one completion per job.
ChanCap == 2 * MaxActive

AllFrames ==
    {[kind |-> "run", id |-> i, target |-> i, need |-> p.need, ws |-> p.ws] :
        i \in Ids, p \in Payloads}
    \cup {[kind |-> "cancel", id |-> i, target |-> t, need |-> 0, ws |-> 0] :
        i \in Ids, t \in Ids \cup {Malformed}}
    \cup {[kind |-> k, id |-> i, target |-> i, need |-> 0, ws |-> 0] :
        i \in Ids, k \in Kinds \ {"run", "cancel"}}
Frames == {f \in AllFrames : f.kind \in Sent}

\* "error" stands for every failure response except CANCELLED, "quoted" for one whose
\* message quotes the request, and which may so exceed the 1 MiB of a frame.
Codes == {"success", "closed", "CANCELLED", "error", "quoted"}

\* What the channel carries: a frame read, the end of input, or a finished job.
Events == [type : {"request", "eof", "error", "finished"}, req : 0 .. MaxFrames]
RequestEvent(r) == [type |-> "request", req |-> r]
FinishedEvent(r) == [type |-> "finished", req |-> r]
EofEvent == [type |-> "eof", req |-> 0]
ErrorEvent == [type |-> "error", req |-> 0]

VARIABLES
    stream,      \* the request frames read so far
    reader,      \* the reader thread: "reading" or "done"
    chan,        \* the bounded channel
    out,         \* stdout: "open", "full" while the client does not read and the pipe
                 \* has no room, or "broken" once the client closed its end
    reply,       \* the responses written for each request
    proc,        \* the protocol loop's thread, and with it the process
    shutdown,    \* shutdown_id: the shutdown request to answer last, or 0
    eof,         \* end of input was handled
    active,      \* the active table: request ID -> its request, or 0
    cancelled,   \* jobs marked cancelled
    reserved,    \* Scheduler: reserved capacity
    wsReserved,  \* reserved workspace bytes
    launcher,    \* each job's launcher process
    signalled,   \* launchers sent SIGKILL
    waiter,      \* each job's waiter thread
    leaked,      \* jobs whose cleanup reported an error
    box          \* request ID -> the job's cgroup: absent, with a live guest, or empty

ioVars == <<stream, reader, out>>
loopVars == <<shutdown, eof>>
tableVars == <<active, cancelled, reserved, wsReserved>>
jobVars == <<launcher, signalled, waiter, leaked, box>>
vars == <<ioVars, chan, reply, proc, loopVars, tableVars, jobVars>>

LauncherStates == {"none", "starting", "boxed", "succeeded", "failed"}
WaiterStates == {"none", "waiting", "cleaning", "posting", "done"}
CleanEnds == {"closed", "drained"}
Ends == CleanEnds \cup {"failed", "crashed"}

Ended == proc \in Ends
ActiveIds == {i \in Ids : active[i] # 0}
ActiveJobs == {active[i] : i \in ActiveIds}
Running(r) == launcher[r] \in {"starting", "boxed"}

IoType ==
    /\ stream \in Seq(Frames) /\ Len(stream) <= MaxFrames
    /\ reader \in {"reading", "done"}
    /\ out \in {"open", "full", "broken"}

ChanType == chan \in Seq(Events) /\ Len(chan) <= ChanCap

LoopType ==
    /\ reply \in [Requests -> Seq(Codes)]
    /\ proc \in {"running", "dropping"} \cup Ends
    /\ shutdown \in 0 .. MaxFrames
    /\ eof \in BOOLEAN

TableType ==
    /\ active \in [Ids -> 0 .. MaxFrames]
    /\ cancelled \subseteq Requests
    /\ reserved \in Nat
    /\ wsReserved \in Int  \* fetch_sub wraps: that it never does is in ReservationsMatch

JobType ==
    /\ launcher \in [Requests -> LauncherStates]
    /\ signalled \subseteq Requests
    /\ waiter \in [Requests -> WaiterStates]
    /\ leaked \subseteq Requests
    /\ box \in [Ids -> {"none", "live", "dead"}]

TypeOK == IoType /\ ChanType /\ LoopType /\ TableType /\ JobType

Init ==
    /\ stream = <<>>
    /\ reader = "reading"
    /\ chan = <<>>
    /\ out = "open"
    /\ reply = [r \in Requests |-> <<>>]
    /\ proc = "running"
    /\ shutdown = 0
    /\ eof = FALSE
    /\ active = [i \in Ids |-> 0]
    /\ cancelled = {}
    /\ reserved = 0
    /\ wsReserved = 0
    /\ launcher = [r \in Requests |-> "none"]
    /\ signalled = {}
    /\ waiter = [r \in Requests |-> "none"]
    /\ leaked = {}
    /\ box = [i \in Ids |-> "none"]

-----------------------------------------------------------------------------
(* The reader thread.  While the channel is full it blocks with a frame in  *)
(* hand, which nobody can tell from a frame not sent yet.                   *)

ReaderRuns == ~Ended /\ reader = "reading" /\ Len(chan) < ChanCap

ReadFrame ==
    /\ ReaderRuns
    /\ Len(stream) < MaxFrames
    /\ \E f \in Frames : stream' = Append(stream, f)
    /\ chan' = Append(chan, RequestEvent(Len(stream) + 1))
    /\ UNCHANGED <<reader, out, reply, proc, loopVars, tableVars, jobVars>>

\* End of input, or a frame that is oversized or does not decode: the thread ends.
ReadEnd ==
    /\ ReaderRuns
    /\ \E e \in {EofEvent, ErrorEvent} : chan' = Append(chan, e)
    /\ reader' = "done"
    /\ UNCHANGED <<stream, out, reply, proc, loopVars, tableVars, jobVars>>

-----------------------------------------------------------------------------
(* The protocol loop.                                                       *)

\* The loop waits for an event only after it found no reason to return.
Receive(e) ==
    /\ proc = "running"
    /\ ActiveIds = {} => shutdown = 0 /\ ~eof
    /\ chan # <<>> /\ Head(chan) = e
    /\ chan' = Tail(chan)

\* encode_response and write_frame: an error of either makes run() return it, and
\* the supervisor is dropped.  While the pipe is full the write blocks, and the
\* handler with it.  A blocked handler counts as not begun: all it did before is
\* private to the loop's thread, but for the event it took, and a sender that used
\* its place in the channel already might as well have come after the write.
Write(r, code) ==
    \/ /\ out = "open"
       /\ reply' = [reply EXCEPT ![r] = Append(@, code)]
       /\ UNCHANGED proc
    \/ /\ out = "broken" \/ code = "quoted"
       /\ proc' = "dropping"
       /\ UNCHANGED reply

\* A request the loop handles (it was told to shut down: see RefuseClosing).
Handle(r, kind) ==
    /\ Receive(RequestEvent(r))
    /\ shutdown = 0
    /\ stream[r].kind = kind

RefuseClosing(r) ==
    /\ Receive(RequestEvent(r))
    /\ shutdown # 0
    /\ Write(r, "CANCELLED")
    /\ UNCHANGED <<ioVars, loopVars, tableVars, jobVars>>

HandleHealth(r) ==
    /\ Handle(r, "health")
    /\ Write(r, "success")
    /\ UNCHANGED <<ioVars, loopVars, tableVars, jobVars>>

HandleUnknown(r) ==
    /\ Handle(r, "unknown")
    /\ Write(r, "quoted")
    /\ UNCHANGED <<ioVars, loopVars, tableVars, jobVars>>

\* Mutant: the table is not searched for the ID.
RunNotSearched(r) == Cardinality(ActiveIds) >= MaxActive

\* Mutant: the slot limit is off by one.
RunOneTooMany(r) == active[stream[r].id] # 0 \/ Cardinality(ActiveIds) > MaxActive

\* The two checks made before start_job.
RunRefused(r) == active[stream[r].id] # 0 \/ Cardinality(ActiveIds) >= MaxActive

RefuseRun(r) ==
    /\ Handle(r, "run")
    /\ RunRefused(r) /\ Write(r, "error")
    /\ UNCHANGED <<ioVars, loopVars, tableVars, jobVars>>

Monus(a, b) == IF a > b THEN a - b ELSE 0

\* Mutant: admission trusts the live headroom alone.
AdmitsByHeadroom(need) ==
    \E live \in 0 .. Limit, own \in 0 .. reserved :
        Monus(reserved, own) + need <= live

\* reserve_with_limit, with the live headroom and this supervisor's own usage
\* as the kernel happens to report them.  A headroom above Limit decides like
\* Limit, a usage above the reservations like the reservations.
Admits(need) ==
    /\ reserved + need <= Limit
    /\ \E live \in 0 .. Limit, own \in 0 .. reserved :
           Monus(reserved, own) + need <= live

\* WorkspaceReservation::reserve, for the bytes available at this moment.
WorkspaceFits(bytes) ==
    bytes # 0 => \E usable \in 0 .. WsUsable : wsReserved + bytes <= usable

AcceptRun(r) ==
    LET f == stream[r] IN
    /\ Handle(r, "run")
    /\ ~RunRefused(r)
    /\ Admits(f.need)
    /\ WorkspaceFits(f.ws)
    /\ reserved' = reserved + f.need
    /\ wsReserved' = wsReserved + f.ws
    /\ active' = [active EXCEPT ![f.id] = r]
    /\ launcher' = [launcher EXCEPT ![r] = "starting"]
    /\ waiter' = [waiter EXCEPT ![r] = "waiting"]
    /\ UNCHANGED <<ioVars, reply, proc, loopVars, cancelled, signalled, leaked, box>>

\* Scheduler::release, and the drop of a WorkspaceReservation: the capacity, or the
\* bytes, that n of the held ones being returned leaves.
Released(held, n) == Monus(held, n)
Freed(held, n) == held - n

\* Mutant: the capacity reserved first is kept when the workspace is refused.
StartFailsLeaks(r) ==
    LET f == stream[r] IN
    /\ Handle(r, "run")
    /\ ~RunRefused(r)
    /\ Admits(f.need)
    /\ Write(r, "error")
    /\ reserved' = reserved + f.need
    /\ UNCHANGED <<ioVars, loopVars, active, cancelled, wsReserved, jobVars>>

\* start_job fails before it has a launcher: the payload is invalid, the headroom
\* unknown or too small; or the workspace is missing or too small, and the capacity
\* taken before is released; or no process or thread can be started, and both are.
StartFails(r) ==
    LET f == stream[r] IN
    /\ Handle(r, "run")
    /\ ~RunRefused(r)
    /\ \/ /\ Write(r, "quoted")
          /\ UNCHANGED <<reserved, wsReserved>>
       \/ /\ Admits(f.need)
          /\ reserved' = Released(reserved + f.need, f.need)
          /\ UNCHANGED wsReserved
          /\ Write(r, "error")
       \/ /\ Admits(f.need) /\ WorkspaceFits(f.ws)
          /\ reserved' = Released(reserved + f.need, f.need)
          /\ wsReserved' = Freed(wsReserved + f.ws, f.ws)
          /\ Write(r, "error")
    /\ UNCHANGED <<ioVars, loopVars, active, cancelled, jobVars>>

\* It fails after: the launcher is killed, waited for and cleaned up after, and both
\* reservations are dropped, before the reply.  A cgroup the launcher managed to
\* create goes too, or is left empty.
SetupFails(r) ==
    LET f == stream[r] IN
    /\ Handle(r, "run")
    /\ ~RunRefused(r)
    /\ Admits(f.need) /\ WorkspaceFits(f.ws)
    /\ reserved' = Released(reserved + f.need, f.need)
    /\ wsReserved' = Freed(wsReserved + f.ws, f.ws)
    /\ Write(r, "error")
    /\ \/ /\ box' = [box EXCEPT ![f.id] = "none"]
          /\ UNCHANGED leaked
       \/ /\ "leak" \in Faults
          /\ box' = [box EXCEPT ![f.id] = "dead"]
          /\ leaked' = leaked \cup {r}
    /\ UNCHANGED <<ioVars, loopVars, active, cancelled, launcher, signalled, waiter>>

\* Mutant: a target that is not active is marked as well.
HandleCancelAny(r) ==
    /\ Handle(r, "cancel")
    /\ stream[r].target # Malformed
    /\ cancelled' = cancelled \cup {active[stream[r].target]}
    /\ signalled' = signalled \cup ({active[stream[r].target]} \ {0})
    /\ UNCHANGED <<ioVars, reply, proc, loopVars, active, reserved, wsReserved,
                   launcher, waiter, leaked, box>>

\* Mutant: the ID of the cancel itself is taken for its target.
HandleCancelSelf(r) ==
    LET target == active[stream[r].id] IN
    /\ Handle(r, "cancel")
    /\ stream[r].target # Malformed
    /\ cancelled' = IF target = 0 THEN cancelled ELSE cancelled \cup {target}
    /\ signalled' = IF target = 0 THEN signalled ELSE signalled \cup {target}
    /\ UNCHANGED <<ioVars, reply, proc, loopVars, active, reserved, wsReserved,
                   launcher, waiter, leaked, box>>

\* The target is marked and its launcher signalled; the answer is left to
\* finish().  A target that is not active is ignored.
HandleCancel(r) ==
    LET target == active[stream[r].target] IN
    /\ Handle(r, "cancel")
    /\ stream[r].target # Malformed
    /\ cancelled' = IF target = 0 THEN cancelled ELSE cancelled \cup {target}
    /\ signalled' = IF target = 0 THEN signalled ELSE signalled \cup {target}
    /\ UNCHANGED <<ioVars, reply, proc, loopVars, active, reserved, wsReserved,
                   launcher, waiter, leaked, box>>

\* Mutant: the table is not searched before a malformed cancel is answered.
HandleBadCancelAlways(r) ==
    /\ Handle(r, "cancel")
    /\ stream[r].target = Malformed
    /\ Write(r, "quoted")
    /\ UNCHANGED <<ioVars, loopVars, tableVars, jobVars>>

\* A malformed cancel is answered unless its own ID is that of an active job,
\* whose response it would be taken for.
HandleBadCancel(r) ==
    /\ Handle(r, "cancel")
    /\ stream[r].target = Malformed
    /\ IF active[stream[r].id] # 0
       THEN UNCHANGED <<reply, proc>>
       ELSE Write(r, "quoted")
    /\ UNCHANGED <<ioVars, loopVars, tableVars, jobVars>>

CancelAll ==
    /\ cancelled' = cancelled \cup ActiveJobs
    /\ signalled' = signalled \cup ActiveJobs

HandleShutdown(r) ==
    /\ Handle(r, "shutdown")
    /\ shutdown' = r
    /\ CancelAll
    /\ UNCHANGED <<ioVars, reply, proc, eof, active, reserved, wsReserved,
                   launcher, waiter, leaked, box>>

HandleEof ==
    /\ Receive(EofEvent)
    /\ eof' = TRUE
    /\ CancelAll
    /\ UNCHANGED <<ioVars, reply, proc, shutdown, active, reserved, wsReserved,
                   launcher, waiter, leaked, box>>

\* An undecodable frame desynchronizes the stream: run() returns the error.
HandleStreamError ==
    /\ Receive(ErrorEvent)
    /\ proc' = "dropping"
    /\ UNCHANGED <<ioVars, reply, loopVars, tableVars, jobVars>>

\* Mutant: a result that was printed before the signal is passed on.
ResultCodesLate(j, r) ==
    IF launcher[r] = "succeeded" THEN {"success", "error"}
    ELSE IF j \in cancelled THEN {"CANCELLED"}
    ELSE {"error"}

\* What a finished job j is answered, given the output of launcher r.  A launcher
\* that exits with success may still print a result that is too long or does
\* not parse.
ResultCodes(j, r) ==
    IF j \in cancelled THEN {"CANCELLED"}
    ELSE IF launcher[r] = "succeeded" THEN {"success", "error"}
    ELSE {"error"}

\* Mutant: the workspace reservation outlives the job.
FinishKeepsWorkspace(r) ==
    LET id == stream[r].id
        job == active[id] IN
    /\ Receive(FinishedEvent(r))
    /\ job # 0
    /\ active' = [active EXCEPT ![id] = 0]
    /\ reserved' = Released(reserved, stream[job].need)
    /\ \E code \in ResultCodes(job, r) : Write(job, code)
    /\ UNCHANGED <<ioVars, loopVars, cancelled, wsReserved, jobVars>>

\* finish: the job leaves the table, its response is written, and its
\* reservations are dropped with it.
Finish(r) ==
    LET id == stream[r].id
        job == active[id] IN
    /\ Receive(FinishedEvent(r))
    /\ IF job = 0
       THEN UNCHANGED <<reply, proc, active, reserved, wsReserved>>
       ELSE /\ active' = [active EXCEPT ![id] = 0]
            /\ reserved' = Released(reserved, stream[job].need)
            /\ wsReserved' = Freed(wsReserved, stream[job].ws)
            /\ \E code \in ResultCodes(job, r) : Write(job, code)
    /\ UNCHANGED <<ioVars, loopVars, cancelled, jobVars>>

\* Mutant: shutdown is answered while jobs are still in the table.
CloseEarly ==
    /\ proc = "running" /\ shutdown # 0 /\ out = "open"
    /\ reply' = [reply EXCEPT ![shutdown] = Append(@, "closed")]
    /\ proc' = "closed"
    /\ chan' = <<>>
    /\ UNCHANGED <<ioVars, loopVars, tableVars, jobVars>>

\* The top of the loop: shutdown is answered once no job is active.
Close ==
    /\ proc = "running"
    /\ ActiveIds = {} /\ shutdown # 0
    /\ \/ /\ out = "open"
          /\ reply' = [reply EXCEPT ![shutdown] = Append(@, "closed")]
          /\ proc' = "closed"
       \/ /\ out = "broken"
          /\ proc' = "failed"
          /\ UNCHANGED reply
    /\ chan' = <<>>
    /\ UNCHANGED <<ioVars, loopVars, tableVars, jobVars>>

Drain ==
    /\ proc = "running"
    /\ ActiveIds = {} /\ shutdown = 0 /\ eof
    /\ proc' = "drained"
    /\ chan' = <<>>
    /\ UNCHANGED <<ioVars, reply, loopVars, tableVars, jobVars>>

-----------------------------------------------------------------------------
(* Cleanup of a job's cgroup: cgroup.kill, then rmdir, retried while busy.  *)

\* cleanup_job reports an error only for a directory that is still there.
CleanupJob(id, r) ==
    \/ /\ box' = [box EXCEPT ![id] = "none"]
       /\ UNCHANGED leaked
    \/ /\ "leak" \in Faults /\ box[id] # "none"
       /\ leaked' = leaked \cup {r}
       /\ UNCHANGED box

\* Drop for Supervisor: signal and clean up after each active job, without
\* waiting for its launcher.
DropJob(i) ==
    /\ proc = "dropping"
    /\ active[i] # 0
    /\ signalled' = signalled \cup {active[i]}
    /\ CleanupJob(i, active[i])
    /\ active' = [active EXCEPT ![i] = 0]
    /\ reserved' = Released(reserved, stream[active[i]].need)
    /\ wsReserved' = Freed(wsReserved, stream[active[i]].ws)
    /\ UNCHANGED <<ioVars, chan, reply, proc, loopVars, cancelled, launcher, waiter>>

\* Mutant: the supervisor joins its waiter threads before it returns.
DropJoins ==
    /\ proc = "dropping"
    /\ ActiveIds = {}
    /\ \A r \in Requests : waiter[r] \in {"none", "done"}
    /\ proc' = "failed"
    /\ chan' = <<>>
    /\ UNCHANGED <<ioVars, reply, loopVars, tableVars, jobVars>>

DropDone ==
    /\ proc = "dropping"
    /\ ActiveIds = {}
    /\ proc' = "failed"
    /\ chan' = <<>>
    /\ UNCHANGED <<ioVars, reply, loopVars, tableVars, jobVars>>

-----------------------------------------------------------------------------
(* The waiter thread of a job: wait_with_output, cleanup_job, send.         *)

\* Mutant: the waiter reports without cleaning up.
ReapOnly(r) ==
    /\ ~Ended
    /\ waiter[r] = "waiting"
    /\ launcher[r] \in {"succeeded", "failed"}
    /\ waiter' = [waiter EXCEPT ![r] = "posting"]
    /\ UNCHANGED <<ioVars, chan, reply, proc, loopVars, tableVars,
                   launcher, signalled, leaked, box>>

Reap(r) ==
    /\ ~Ended
    /\ waiter[r] = "waiting"
    /\ launcher[r] \in {"succeeded", "failed"}
    /\ waiter' = [waiter EXCEPT ![r] = "cleaning"]
    /\ UNCHANGED <<ioVars, chan, reply, proc, loopVars, tableVars,
                   launcher, signalled, leaked, box>>

CleanUp(r) ==
    /\ ~Ended
    /\ waiter[r] = "cleaning"
    /\ CleanupJob(stream[r].id, r)
    /\ waiter' = [waiter EXCEPT ![r] = "posting"]
    /\ UNCHANGED <<ioVars, chan, reply, proc, loopVars, tableVars, launcher, signalled>>

\* Mutant: the completion is dropped while the channel is full.
PostOrDrop(r) ==
    /\ ~Ended
    /\ waiter[r] = "posting"
    /\ chan' = IF Len(chan) < ChanCap THEN Append(chan, FinishedEvent(r)) ELSE chan
    /\ waiter' = [waiter EXCEPT ![r] = "done"]
    /\ UNCHANGED <<ioVars, reply, proc, loopVars, tableVars,
                   launcher, signalled, leaked, box>>

\* The send blocks while the channel is full.
Post(r) ==
    /\ ~Ended
    /\ waiter[r] = "posting"
    /\ Len(chan) < ChanCap
    /\ chan' = Append(chan, FinishedEvent(r))
    /\ waiter' = [waiter EXCEPT ![r] = "done"]
    /\ UNCHANGED <<ioVars, reply, proc, loopVars, tableVars,
                   launcher, signalled, leaked, box>>

-----------------------------------------------------------------------------
(* The launcher process of a job, and the guest in its cgroup.              *)

ProcessUnchanged ==
    UNCHANGED <<ioVars, chan, reply, proc, loopVars, tableVars, signalled, waiter, leaked>>

\* Cgroup::create and clone into it; mkdir fails when the directory exists.
LauncherBoxes(r) ==
    /\ launcher[r] = "starting"
    /\ box[stream[r].id] = "none"
    /\ launcher' = [launcher EXCEPT ![r] = "boxed"]
    /\ box' = [box EXCEPT ![stream[r].id] = "live"]
    /\ ProcessUnchanged

\* A result is printed only after the guest was reaped and the cgroup removed.
LauncherSucceeds(r) ==
    /\ launcher[r] = "boxed"
    /\ launcher' = [launcher EXCEPT ![r] = "succeeded"]
    /\ box' = [box EXCEPT ![stream[r].id] = "none"]
    /\ ProcessUnchanged

\* On an error the guards kill and reap the guest and try to remove the cgroup.
LauncherFails(r) ==
    /\ Running(r)
    /\ launcher' = [launcher EXCEPT ![r] = "failed"]
    /\ IF launcher[r] = "starting"
       THEN UNCHANGED box
       ELSE \E left \in {"none"} \cup (IF "leak" \in Faults THEN {"dead"} ELSE {}) :
               box' = [box EXCEPT ![stream[r].id] = left]
    /\ ProcessUnchanged

Killed(r) ==
    /\ Running(r)
    /\ launcher' = [launcher EXCEPT ![r] = "failed"]
    /\ UNCHANGED box
    /\ ProcessUnchanged

\* SIGKILL of the supervisor arrives, or PR_SET_PDEATHSIG's after its death.
LauncherKilled(r) == (r \in signalled \/ Ended) /\ Killed(r)

\* Somebody else kills the launcher (the host's OOM killer).
HostKills(r) == "hostkill" \in Faults /\ Killed(r)

\* Mutant: the guest has no parent-death signal and waits for a cleanup.
GuestOutlives(i) ==
    /\ box[i] = "live" /\ ~Ended
    /\ \A r \in 1 .. Len(stream) : stream[r].id = i => launcher[r] # "boxed"
    /\ box' = [box EXCEPT ![i] = "dead"]
    /\ UNCHANGED launcher
    /\ ProcessUnchanged

\* PR_SET_PDEATHSIG kills a guest whose launcher is gone.
GuestDies(i) ==
    /\ box[i] = "live"
    /\ \A r \in 1 .. Len(stream) : stream[r].id = i => launcher[r] # "boxed"
    /\ box' = [box EXCEPT ![i] = "dead"]
    /\ UNCHANGED launcher
    /\ ProcessUnchanged

-----------------------------------------------------------------------------
(* Faults, and the end.                                                     *)

\* The process dies; what it held in memory is gone with it.
Crash ==
    /\ "crash" \in Faults
    /\ ~Ended
    /\ proc' = "crashed"
    /\ chan' = <<>>
    /\ active' = [i \in Ids |-> 0]
    /\ reserved' = 0
    /\ wsReserved' = 0
    /\ UNCHANGED <<ioVars, reply, loopVars, cancelled, jobVars>>

OutUnchanged ==
    UNCHANGED <<stream, reader, chan, reply, proc, loopVars, tableVars, jobVars>>

\* The client closes the supervisor's stdout.
PipeBreaks ==
    /\ "pipe" \in Faults
    /\ ~Ended /\ out # "broken"
    /\ out' = "broken"
    /\ OutUnchanged

\* The client does not read, and what is written, if only part of a frame, fills the pipe.
PipeFills ==
    /\ "stall" \in Faults
    /\ ~Ended /\ out = "open"
    /\ out' = "full"
    /\ OutUnchanged

\* The client reads.
PipeEmpties ==
    /\ ~Ended /\ out = "full"
    /\ out' = "open"
    /\ OutUnchanged

ClientSide == PipeBreaks \/ PipeFills \/ PipeEmpties

\* The process has returned and every process it started is gone.
Terminated ==
    /\ Ended
    /\ \A r \in Requests : ~Running(r)
    /\ \A i \in Ids : box[i] # "live"
    /\ UNCHANGED vars

-----------------------------------------------------------------------------
HandleRequest(r) ==
    \/ RefuseClosing(r)
    \/ HandleHealth(r)
    \/ HandleUnknown(r)
    \/ RefuseRun(r)
    \/ AcceptRun(r)
    \/ StartFails(r)
    \/ SetupFails(r)
    \/ HandleCancel(r)
    \/ HandleBadCancel(r)
    \/ HandleShutdown(r)

Loop ==
    \/ \E r \in Requests : HandleRequest(r) \/ Finish(r)
    \/ HandleEof
    \/ HandleStreamError
    \/ Close
    \/ Drain
    \/ \E i \in Ids : DropJob(i)
    \/ DropDone

Waiter(r) == Reap(r) \/ CleanUp(r) \/ Post(r)

LauncherExits(r) == LauncherSucceeds(r) \/ LauncherFails(r) \/ LauncherKilled(r)

Next ==
    \/ ReadFrame
    \/ ReadEnd
    \/ Loop
    \/ \E r \in Requests :
          Waiter(r) \/ LauncherBoxes(r) \/ LauncherExits(r) \/ HostKills(r)
    \/ \E i \in Ids : GuestDies(i)
    \/ Crash
    \/ ClientSide
    \/ Terminated

\* The scheduler runs every thread; a launcher ends because its monitor enforces
\* the job's deadline; the kernel delivers signals.  The room that the client makes
\* by reading is there for the loop alone, so that a blocked write goes on whenever
\* the client reads, and not only when it never stops: strong fairness.  Nothing is
\* assumed here of the client, which may stop sending, keep its pipe open and never
\* read, nor of faults.
Fairness ==
    /\ SF_vars(Loop)
    /\ \A r \in Requests : WF_vars(Waiter(r)) /\ WF_vars(LauncherExits(r))
    /\ \A i \in Ids : WF_vars(GuestDies(i))

Spec == Init /\ [][Next]_vars /\ Fairness

-----------------------------------------------------------------------------
(* Properties.                                                              *)

\* start_job succeeded for r.
Accepted(r) == waiter[r] # "none"
Answered(r) == reply[r] # <<>>

\* The client matches responses by ID alone.  No frame is answered twice; and as long
\* as a run that was started waits for its answer, no cancel is answered under the
\* run's ID, where the client would take it for the run's end: neither a cancel that
\* names the run, nor a malformed one that only carries its ID (supervisor.rs:218-222).
\* Two answers under the ID of a running job are what the code does, and the exceptions
\* here: to a second request other than a cancel under the same ID, of which the client
\* awaits an answer too (supervisor.rs:161-181, 195), and the CANCELLED for whatever
\* comes after a shutdown, when the run's own answer is CANCELLED as well
\* (supervisor.rs:157).
AnsweredOnce ==
    \A r \in Requests :
        /\ Len(reply[r]) <= 1
        /\ Accepted(r) /\ ~Answered(r) =>
              \A q \in r + 1 .. Len(stream) :
                  stream[q].id = stream[r].id /\ stream[q].kind = "cancel" /\ Answered(q)
                      => shutdown # 0 /\ r \in cancelled /\ reply[q] = <<"CANCELLED">>

\* A run that was started is answered only after its launcher was reaped and its
\* cleanup tried; unless that cleanup failed no guest of the job is left in the
\* cgroup, except one of a later job under the same ID.
AnsweredAfterTeardown ==
    \A r \in Requests : Accepted(r) /\ Answered(r) =>
        /\ waiter[r] = "done"
        /\ ~Running(r)
        /\ \/ r \in leaked
           \/ box[stream[r].id] = "none"
           \/ \E q \in r + 1 .. Len(stream) :
                 stream[q].id = stream[r].id /\ (Accepted(q) \/ q \in leaked)

\* While the loop runs, every launcher process and every waiter belongs to an
\* entry of the table: none is outside the reach of cancel_all and Drop, and
\* none escapes the slot count.
NoStrayJob ==
    proc = "running" => \A r \in Requests :
        (Running(r) \/ (Accepted(r) /\ ~Answered(r))) => active[stream[r].id] = r

\* At most MaxActive jobs hold a slot.
SlotBound == Cardinality(ActiveIds) <= MaxActive

\* The scheduler's and the workspace counter are exactly what the active jobs
\* hold: a path that fails after reserving, a cancel or a second release
\* neither leaks capacity nor returns it twice.
ReservationsMatch ==
    /\ reserved = SumFunction([i \in ActiveIds |-> stream[active[i]].need])
    /\ wsReserved = SumFunction([i \in ActiveIds |-> stream[active[i]].ws])

\* The jobs admitted together never exceed the capacity given at start-up.
CapacityBound == reserved <= Limit /\ wsReserved <= WsUsable

\* A job is marked cancelled only when a cancel read after it named its ID, or
\* when everything is being cancelled: a late cancel never hits the next job
\* that reuses an ID before it.
CancelJustified ==
    \A r \in cancelled :
        \/ shutdown # 0 \/ eof
        \/ \E c \in r + 1 .. Len(stream) :
              stream[c].kind = "cancel" /\ stream[c].target = stream[r].id

\* Once a cancel was handled while the job was in the table, its response says
\* so, although the launcher may have printed a result before the signal.
CancelWins ==
    [][\A r \in cancelled : reply'[r] # reply[r] => reply'[r] = <<"CANCELLED">>]_vars

\* The answer to shutdown is the last thing: every request that entered the
\* table was answered before, nothing is reserved, nothing runs, and no cgroup
\* is left but those whose cleanup was reported to have failed.
CleanEnd ==
    proc \in CleanEnds =>
        /\ \A r \in Requests : Accepted(r) => Answered(r) /\ ~Running(r)
        /\ reserved = 0 /\ wsReserved = 0
        /\ \A i \in Ids : box[i] # "none" =>
              \E r \in leaked : stream[r].id = i

\* All of it, for runs that check it under every fault.
Safety ==
    /\ TypeOK /\ AnsweredOnce /\ AnsweredAfterTeardown /\ NoStrayJob
    /\ SlotBound /\ ReservationsMatch /\ CapacityBound /\ CancelJustified /\ CleanEnd

\* The client never stops reading for good; the Node transport's 'data' listener
\* (transport.ts:103) sees to that.
ClientReads == []<>(out # "full" \/ Ended)

\* Shutdown, end of input and a fatal error all end the process, if the client reads
\* or closes its end of stdout; with an error pending it need not even do that.
EndsWhenTold ==
    /\ proc = "dropping" ~> Ended
    /\ ClientReads => (shutdown # 0 \/ eof ~> Ended)

\* However the process ends, no launcher and no guest outlives it for good.
NoOrphans ==
    Ended ~> /\ \A r \in Requests : ~Running(r)
             /\ \A i \in Ids : box[i] # "live"

-----------------------------------------------------------------------------
(* The supervisor implements RunContract.                                   *)

\* A job has live processes while its launcher runs, or a guest of its is left in
\* the cgroup and no cleanup has reported that it failed to remove it.
Alive(r) ==
    \/ Running(r)
    \/ /\ Accepted(r) /\ r \notin leaked
       /\ box[stream[r].id] = "live"
       /\ ~\E q \in r + 1 .. Len(stream) : stream[q].id = stream[r].id /\ Accepted(q)

Contract == INSTANCE RunContract WITH
    Runs <- Requests,
    phase <- [r \in Requests |-> IF ~Accepted(r) THEN "new"
                                 ELSE IF Answered(r) THEN "answered" ELSE "accepted"],
    alive <- {r \in Requests : Alive(r)},
    up <- IF proc = "running" THEN "up" ELSE IF proc \in CleanEnds THEN "ended" ELSE "lost"

\* Every step of the threads, processes and faults together is a step of the
\* contract or invisible to it; and if the client reads, the contract's progress is
\* kept: a started run is answered or the supervisor gives up as a whole, so the
\* bounded channel never stops the loop, the reader and the waiters together.
ImplementsContract == Contract!Steps /\ (ClientReads => Contract!Fairness)
=============================================================================
