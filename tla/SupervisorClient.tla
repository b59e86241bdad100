-------------------------- MODULE SupervisorClient --------------------------
(***************************************************************************)
(* The Node side of the connection to a supervisor: SupervisorClient and   *)
(* connectSupervisor (client.ts) over ChildProcessTransport                *)
(* (transport.ts).  An action is one callback of the event loop: a call of *)
(* the user, an abort signal, a timer, a chunk of data, an event of the    *)
(* child process.  The supervisor process is the environment: it answers   *)
(* what it read in any order, or never, and may die at any time.           *)
(***************************************************************************)
EXTENDS Integers, Sequences, FiniteSets

CONSTANTS
    Runs,        \* the run requests that may be made
    MaxQueued,   \* bound on frames accepted by send() and not yet read (maxQueuedBytes)
    Garbles      \* whether the supervisor may send what is no valid message

ASSUME ClientAssumption ==
    /\ IsFiniteSet(Runs)
    /\ MaxQueued \in Nat \ {0}
    /\ Garbles \in BOOLEAN

\* One ID for the health check, and per run one for it and one for its cancel.
MaxId == 1 + 2 * Cardinality(Runs)
HealthId == 1
Bad == 0  \* a chunk that does not decode or validate

Messages == [type : {"health", "run", "cancel"}, id : 1 .. MaxId, target : 1 .. MaxId]

VARIABLES
    startup,    \* connectSupervisor: "waiting" for the health check, "ready",
                \* "closing" the client after a failure, or "failed"
    health,     \* the health request: "pending", "answered" or "rejected"
    nextId,
    idOf,       \* the request ID of each run, or 0
    call,       \* each run's promise and why it settled
    aborted,    \* runs whose signal was aborted
    listening,  \* runs with an abort listener
    graced,     \* runs with a running grace timer
    closed,     \* SupervisorClient::closed
    closing,    \* closePromise: "no", "waiting" or "done"
    tClosed,    \* ChildProcessTransport::closed
    stdin,      \* "open", "ended", or "broken" by a write error
    backlog,    \* frames accepted by send() and not read by the supervisor
    timers,     \* transport.close(): "none", "term" or "kill" timer running, or "over"
    finished,   \* ChildProcessTransport::finished
    proc,       \* the child: "unspawned", "up", "dead", or "exited" with exit seen
    signal,     \* what it was sent: "none", "term" or "kill"
    jobs,       \* IDs it read and has not answered
    inbound     \* IDs it answered, in order, and Bad, not handled yet

clientVars == <<nextId, idOf, call, aborted, listening, graced, closed, closing>>
startVars == <<startup, health>>
transportVars == <<tClosed, stdin, backlog, timers, finished>>
procVars == <<proc, signal, jobs, inbound>>
vars == <<startVars, clientVars, transportVars, procVars>>

\* "unsent": refused by request() or send(); "unavailable": rejected at the close.
Settled == {"answered", "cancelled", "unsent", "unavailable"}
Pending == {r \in Runs : call[r] = "pending"}

TypeOK ==
    /\ startup \in {"waiting", "ready", "closing", "failed"}
    /\ health \in {"pending", "answered", "rejected"}
    /\ nextId \in 1 .. MaxId + 1
    /\ idOf \in [Runs -> 0 .. MaxId]
    /\ call \in [Runs -> {"idle", "pending"} \cup Settled]
    /\ aborted \subseteq Runs /\ listening \subseteq Runs /\ graced \subseteq Runs
    /\ closed \in BOOLEAN
    /\ closing \in {"no", "waiting", "done"}
    /\ tClosed \in BOOLEAN
    /\ stdin \in {"open", "ended", "broken"}
    /\ backlog \in Seq(Messages) /\ Len(backlog) <= MaxQueued
    /\ timers \in {"none", "term", "kill", "over"}
    /\ finished \in BOOLEAN
    /\ proc \in {"unspawned", "up", "dead", "exited"}
    /\ signal \in {"none", "term", "kill"}
    /\ jobs \subseteq 1 .. MaxId
    /\ inbound \in Seq(0 .. MaxId)

\* The transport was constructed, and connectSupervisor sent the health check.
Init ==
    /\ startup = "waiting" /\ health = "pending"
    /\ nextId = HealthId + 1
    /\ idOf = [r \in Runs |-> 0]
    /\ call = [r \in Runs |-> "idle"]
    /\ aborted = {} /\ listening = {} /\ graced = {}
    /\ closed = FALSE /\ closing = "no"
    /\ tClosed = FALSE /\ stdin = "open" /\ timers = "none" /\ finished = FALSE
    /\ backlog = <<[type |-> "health", id |-> HealthId, target |-> HealthId]>>
    /\ proc \in {"unspawned", "up"}
    /\ signal = "none" /\ jobs = {} /\ inbound = <<>>

-----------------------------------------------------------------------------
(* ChildProcessTransport.                                                   *)

\* send() accepts a frame; Node destroys the stdin of a child that exited.
CanSend == ~tClosed /\ stdin = "open" /\ proc # "exited" /\ Len(backlog) < MaxQueued

\* close(): stdin.end() writes what the pipe took; frames held back by the
\* backpressure are never written.
TransportClose ==
    IF finished THEN UNCHANGED <<stdin, backlog, timers>>
    ELSE /\ timers' = IF timers = "none" THEN "term" ELSE timers
         /\ IF proc # "exited" /\ stdin = "open"
            THEN /\ stdin' = "ended"
                 /\ \E n \in 0 .. Len(backlog) : backlog' = SubSeq(backlog, 1, n)
            ELSE UNCHANGED <<stdin, backlog>>

\* SupervisorClient.close().
ClientClose ==
    IF closing # "no" THEN UNCHANGED <<closed, closing, stdin, backlog, timers>>
    ELSE /\ closed' = TRUE
         /\ closing' = "waiting"
         /\ TransportClose

\* rejectPending.
RejectPending ==
    /\ call' = [r \in Runs |-> IF r \in Pending THEN "unavailable" ELSE call[r]]
    /\ health' = IF health = "pending" THEN "rejected" ELSE health
    /\ listening' = listening \ Pending
    /\ graced' = graced \ Pending

\* handleClose of the transport, and of the client that listens to it.
HandleClose ==
    IF tClosed THEN UNCHANGED <<tClosed, closed, call, health, listening, graced>>
    ELSE /\ tClosed' = TRUE
         /\ closed' = TRUE
         /\ IF closed THEN UNCHANGED <<call, health, listening, graced>> ELSE RejectPending

-----------------------------------------------------------------------------
(* SupervisorClient.                                                        *)

\* request(): refused, or registered and sent.
Request(r) ==
    /\ startup = "ready" /\ call[r] = "idle"
    /\ \/ /\ closed
          /\ call' = [call EXCEPT ![r] = "unsent"]
          /\ UNCHANGED <<nextId, idOf, listening, backlog>>
       \/ /\ ~closed /\ r \in aborted
          /\ call' = [call EXCEPT ![r] = "cancelled"]
          /\ UNCHANGED <<nextId, idOf, listening, backlog>>
       \/ /\ ~closed /\ r \notin aborted /\ CanSend
          /\ idOf' = [idOf EXCEPT ![r] = nextId]
          /\ nextId' = nextId + 1
          /\ call' = [call EXCEPT ![r] = "pending"]
          /\ listening' = listening \cup {r}
          /\ backlog' = Append(backlog, [type |-> "run", id |-> nextId, target |-> nextId])
       \/ /\ ~closed /\ r \notin aborted  \* not writable, full, or an oversized frame
          /\ nextId' = nextId + 1
          /\ call' = [call EXCEPT ![r] = "unsent"]
          /\ UNCHANGED <<idOf, listening, backlog>>
    /\ UNCHANGED <<startVars, aborted, graced, closed, closing,
                   tClosed, stdin, timers, finished, procVars>>

\* Mutant: a cancel that cannot be sent is left to the supervisor's good will.
AbortIgnoringSendErrors(r) ==
    /\ r \notin aborted
    /\ aborted' = aborted \cup {r}
    /\ listening' = listening \ {r}
    /\ IF r \notin listening
       THEN UNCHANGED <<nextId, graced, backlog>>
       ELSE /\ nextId' = nextId + 1
            /\ IF CanSend
               THEN /\ graced' = graced \cup {r}
                    /\ backlog' = Append(backlog,
                          [type |-> "cancel", id |-> nextId, target |-> idOf[r]])
               ELSE UNCHANGED <<graced, backlog>>
    /\ UNCHANGED <<startVars, idOf, call, closed, closing, tClosed, stdin, timers, finished,
                   procVars>>

\* The caller aborts: onAbort sends a cancel and starts the grace timer, or, when
\* the cancel cannot be sent, retires the client.
Abort(r) ==
    /\ r \notin aborted
    /\ aborted' = aborted \cup {r}
    /\ listening' = listening \ {r}
    /\ IF r \notin listening
       THEN UNCHANGED <<nextId, graced, closed, closing, stdin, backlog, timers>>
       ELSE /\ nextId' = nextId + 1
            /\ \/ /\ CanSend
                  /\ graced' = graced \cup {r}
                  /\ backlog' = Append(backlog,
                        [type |-> "cancel", id |-> nextId, target |-> idOf[r]])
                  /\ UNCHANGED <<closed, closing, stdin, timers>>
               \/ /\ ~CanSend
                  /\ ClientClose
                  /\ UNCHANGED graced
    /\ UNCHANGED <<startVars, idOf, call, tClosed, finished, procVars>>

\* The grace timer of r: the supervisor did not acknowledge the cancel.
GraceExpires(r) ==
    /\ r \in graced
    /\ graced' = graced \ {r}
    /\ IF call[r] = "pending" THEN ClientClose
       ELSE UNCHANGED <<closed, closing, stdin, backlog, timers>>
    /\ UNCHANGED <<startVars, nextId, idOf, call, aborted, listening, tClosed, finished, procVars>>

\* The owner of a client that started calls close().
Close ==
    /\ startup = "ready" /\ closing = "no"
    /\ ClientClose
    /\ UNCHANGED <<startVars, nextId, idOf, call, aborted, listening, graced,
                   tClosed, finished, procVars>>

\* Mutant: close() does not wait for the transport to have closed.
CloseDoneEarly ==
    /\ closing = "waiting"
    /\ closing' = "done"
    /\ RejectPending
    /\ UNCHANGED <<startup, nextId, idOf, aborted, closed, transportVars, procVars>>

\* transport.close() returned: close() rejects what is left and resolves.
CloseDone ==
    /\ closing = "waiting" /\ finished
    /\ closing' = "done"
    /\ RejectPending
    /\ UNCHANGED <<startup, nextId, idOf, aborted, closed, transportVars, procVars>>

\* Mutant: an answered request keeps its timer and its listener.
DeliverBare(id) ==
    /\ IF closed THEN UNCHANGED call
       ELSE call' = [r \in Runs |-> IF r \in Pending /\ idOf[r] = id THEN "answered" ELSE call[r]]
    /\ UNCHANGED <<listening, graced>>
    /\ IF ~closed /\ id = HealthId /\ health = "pending"
       THEN /\ health' = "answered"
            /\ startup' = IF startup = "waiting" THEN "ready" ELSE startup
       ELSE UNCHANGED startVars

\* handleMessage: settles the request the ID belongs to, if it is still pending.
Deliver(id) ==
    LET settles == IF closed THEN {} ELSE {r \in Pending : idOf[r] = id} IN
    /\ call' = [r \in Runs |-> IF r \in settles THEN "answered" ELSE call[r]]
    /\ listening' = listening \ settles
    /\ graced' = graced \ settles
    /\ IF ~closed /\ id = HealthId /\ health = "pending"
       THEN /\ health' = "answered"
            /\ startup' = IF startup = "waiting" THEN "ready" ELSE startup
       ELSE UNCHANGED startVars

\* handleData.  A chunk that holds something invalid closes the transport at once
\* and kills the process; the responses decoded with it, and all later ones, are
\* lost.
HandleData ==
    /\ inbound # <<>>
    /\ \/ /\ tClosed
          /\ inbound' = <<>>
          /\ UNCHANGED <<startVars, call, listening, graced, closed, tClosed, signal>>
       \/ /\ ~tClosed /\ Head(inbound) # Bad
          /\ Deliver(Head(inbound))
          /\ inbound' = Tail(inbound)
          /\ UNCHANGED <<closed, tClosed, signal>>
       \/ /\ ~tClosed /\ \E k \in 1 .. Len(inbound) : inbound[k] = Bad
          /\ HandleClose
          /\ signal' = "kill"
          /\ inbound' = <<>>
          /\ UNCHANGED startup
    /\ UNCHANGED <<nextId, idOf, aborted, closing, stdin, backlog, timers, finished, proc, jobs>>

-----------------------------------------------------------------------------
(* connectSupervisor.                                                       *)

\* The health check was rejected, or its timer fires.
StartupFails ==
    /\ startup = "waiting"
    /\ startup' = "closing"
    /\ ClientClose
    /\ UNCHANGED <<health, nextId, idOf, call, aborted, listening, graced,
                   tClosed, finished, procVars>>

StartupRejects ==
    /\ startup = "closing" /\ closing = "done"
    /\ startup' = "failed"
    /\ UNCHANGED <<health, clientVars, transportVars, procVars>>

-----------------------------------------------------------------------------
(* The timers of transport.close(), and the events of the child.            *)

TermTimer ==
    /\ timers = "term"
    /\ IF proc = "exited"
       THEN timers' = "over" /\ UNCHANGED signal
       ELSE /\ timers' = "kill"
            /\ signal' = IF signal = "none" THEN "term" ELSE signal
    /\ UNCHANGED <<startVars, clientVars, tClosed, stdin, backlog, finished, proc, jobs, inbound>>

\* Mutant: SIGTERM is the last resort.
KillTimerGivesUp ==
    /\ timers = "kill"
    /\ timers' = "over"
    /\ UNCHANGED <<startVars, clientVars, tClosed, stdin, backlog, finished, procVars>>

KillTimer ==
    /\ timers = "kill"
    /\ timers' = "over"
    /\ signal' = IF proc = "exited" THEN signal ELSE "kill"
    /\ UNCHANGED <<startVars, clientVars, tClosed, stdin, backlog, finished, proc, jobs, inbound>>

\* A write fails: handleStdinFailure drops what is queued and closes the transport,
\* not the client, whose last responses may still arrive.
StdinFails ==
    /\ proc \in {"dead", "exited"} /\ stdin # "broken" /\ backlog # <<>>
    /\ ~finished
    /\ stdin' = "broken"
    /\ backlog' = <<>>
    /\ timers' = IF timers = "none" THEN "term" ELSE timers
    /\ UNCHANGED <<startVars, clientVars, tClosed, finished, procVars>>

\* 'error' of a process that could not be started ('exit' never comes, 'close' does).
SpawnFails ==
    /\ proc = "unspawned"
    /\ proc' = "exited"
    /\ HandleClose
    /\ UNCHANGED <<startup, nextId, idOf, aborted, closing, stdin, backlog, timers, finished,
                   signal, jobs, inbound>>

ExitSeen ==
    /\ proc = "dead"
    /\ proc' = "exited"
    /\ UNCHANGED <<startVars, clientVars, transportVars, signal, jobs, inbound>>

\* finish(): close() returns and clears its timers, and 'exit' its drain timer.
FinishTransport ==
    /\ proc = "exited" /\ ~finished
    /\ finished' = TRUE
    /\ timers' = IF timers = "none" THEN "none" ELSE "over"
    /\ HandleClose
    /\ UNCHANGED <<startup, nextId, idOf, aborted, closing, stdin, backlog, proc, signal, jobs>>

\* Mutant: the end of the process is taken for the end of its output.
FinishAtExit ==
    /\ UNCHANGED inbound
    /\ FinishTransport

\* 'close': the end of stdout was reached, so all the process wrote was read.
Finish ==
    /\ inbound = <<>> /\ UNCHANGED inbound
    /\ FinishTransport

\* The drain timer that 'exit' started: a descendant may hold stdout open, or the
\* event loop came too late to it.  What was not read is destroyed.  (A process that
\* could not be started has no such timer, only its 'close'; nothing is lost there.)
DrainTimer ==
    /\ inbound' = <<>>
    /\ FinishTransport

-----------------------------------------------------------------------------
(* The supervisor process.                                                  *)

Read ==
    /\ proc = "up" /\ backlog # <<>> /\ stdin # "broken"
    /\ jobs' = IF Head(backlog).type = "cancel" THEN jobs ELSE jobs \cup {Head(backlog).id}
    /\ backlog' = Tail(backlog)
    /\ UNCHANGED <<startVars, clientVars, tClosed, stdin, timers, finished, proc, signal, inbound>>

Answer(id) ==
    /\ proc = "up" /\ id \in jobs
    /\ jobs' = jobs \ {id}
    /\ inbound' = Append(inbound, id)
    /\ UNCHANGED <<startVars, clientVars, transportVars, proc, signal>>

Garble ==
    /\ Garbles /\ proc = "up" /\ Bad \notin {inbound[k] : k \in 1 .. Len(inbound)}
    /\ inbound' = Append(inbound, Bad)
    /\ UNCHANGED <<startVars, clientVars, transportVars, proc, signal, jobs>>

\* At the end of input, at SIGTERM, or for reasons of its own.
Dies ==
    /\ proc = "up"
    /\ proc' = "dead"
    /\ UNCHANGED <<startVars, clientVars, transportVars, signal, jobs, inbound>>

Killed == signal = "kill" /\ Dies

Over ==
    /\ startup = "failed" \/ closing = "done"
    /\ finished
    /\ UNCHANGED vars

-----------------------------------------------------------------------------
Next ==
    \/ \E r \in Runs : Request(r) \/ Abort(r) \/ GraceExpires(r)
    \/ Close \/ CloseDone
    \/ HandleData
    \/ StartupFails \/ StartupRejects
    \/ TermTimer \/ KillTimer
    \/ StdinFails \/ SpawnFails \/ ExitSeen \/ Finish \/ DrainTimer
    \/ Read \/ Dies \/ Garble
    \/ \E id \in 1 .. MaxId : Answer(id)
    \/ Over

\* Timers fire and events are delivered, but 'close' need not come before the drain
\* timer; SIGKILL is obeyed.  The supervisor need not read, answer, or heed the end of
\* its input or SIGTERM, and nobody has to call, abort or close.
Fairness ==
    /\ \A r \in Runs : WF_vars(GraceExpires(r))
    /\ WF_vars(CloseDone) /\ WF_vars(HandleData)
    /\ WF_vars(StartupFails) /\ WF_vars(StartupRejects)
    /\ WF_vars(TermTimer) /\ WF_vars(KillTimer)
    /\ WF_vars(SpawnFails) /\ WF_vars(ExitSeen) /\ WF_vars(Finish \/ DrainTimer)
    /\ WF_vars(Killed)

Spec == Init /\ [][Next]_vars /\ Fairness

-----------------------------------------------------------------------------
(* Properties.                                                              *)

\* A request is rejected for want of a supervisor, or the client says it is closed,
\* only when the process has exited, or was sent SIGKILL for a message that does not
\* decode (transport.ts:198): until then its jobs may own their workspaces.
RejectedAfterExit ==
    (closing = "done" \/ \E r \in Runs : call[r] = "unavailable")
        => proc = "exited" \/ signal = "kill"

\* Only a pending request has a listener or a grace timer: a settled one cannot send
\* a cancel for an ID that is no longer its own, nor retire the client.
NoTimerLeft == listening \cup graced \subseteq Pending

\* Once the transport has closed, nobody waits for an answer but the caller of a
\* close() that is about to reject everyone.
NobodyLeftBehind == tClosed /\ closing # "waiting" => Pending = {} /\ health # "pending"

\* The client's tables: their types and bounds, no timer or listener without a pending
\* request (client.ts:75-90), no pending request without a transport (client.ts:99).
Bookkeeping == TypeOK /\ NoTimerLeft /\ NobodyLeftBehind

\* What the supervisor wrote and Node has not handled.
Written == {inbound[k] : k \in 1 .. Len(inbound)}

\* A response that was written for a waiting request of an open client settles it or
\* stays to be read, whatever else happens: the process exits or is killed, stdin
\* breaks, other requests are aborted, the client is closed ("the last response and any
\* fatal stderr message are not lost", transport.ts:122-124).  Only output that breaks
\* the protocol and the drain timer (transport.ts:128-133) take it away.
LastResponseKept ==
    [][ \A r \in Pending :
          ~closed /\ idOf[r] \in Written /\ Bad \notin Written =>
              \/ call'[r] = "answered"
              \/ call'[r] = "pending" /\ idOf'[r] = idOf[r] /\ idOf[r] \in Written'
              \/ DrainTimer ]_vars

\* What supervisor.rs:219-220 says of this client: a cancel has the ID of its run.
CancelReusesRunId ==
    \A k \in 1 .. Len(backlog) : backlog[k].type = "cancel" => backlog[k].id = backlog[k].target

\* An aborted request settles, whatever the supervisor does: it answers, or the
\* grace timer retires the client and SIGKILL ends the process.
AbortSettles == \A r \in Runs : (r \in aborted /\ call[r] = "pending") ~> (call[r] \in Settled)

\* close() resolves, and connectSupervisor returns a client or rejects with its
\* process gone, however deaf that is.
CloseCompletes ==
    /\ closing = "waiting" ~> closing = "done"
    /\ startup \in {"waiting", "closing"} ~> startup \in {"ready", "failed"}

\* A supervisor that dies takes no request with it.
ExitSettles == proc = "dead" ~> Pending = {} /\ health # "pending"

\* However a connection comes to its end, closed by its owner or by the death of the
\* supervisor, everyone waiting on it is told (client.ts:99-113, transport.ts:122-135).
EndSettles == CloseCompletes /\ ExitSettles
=============================================================================
