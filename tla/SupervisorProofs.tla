-------------------------- MODULE SupervisorProofs --------------------------
(* Proofs about Supervisor, for every value of its constants. *)
EXTENDS Supervisor, SumProofs, TLAPS

\* What a frame carries.
LEMMA FrameFields ==
    ASSUME NEW f \in Frames
    PROVE  /\ f.kind \in Kinds
           /\ f.id \in Ids
           /\ f.need \in Nat
           /\ f.ws \in Nat
BY SupervisorAssumption DEF Frames, AllFrames, Kinds

-----------------------------------------------------------------------------
(* The channel.                                                             *)

\* What taking the first event leaves.
LEMMA Taken ==
    ASSUME ChanType, NEW e, Receive(e)
    PROVE  /\ ChanType'
           /\ Len(chan) >= 1 /\ chan[1] = e
           /\ Len(chan') = Len(chan) - 1
           /\ \A k \in 1 .. Len(chan') : k + 1 \in 1 .. Len(chan) /\ chan'[k] = chan[k + 1]
<1>1. chan \in Seq(Events) /\ Len(chan) <= ChanCap /\ chan # <<>> /\ Head(chan) = e
      /\ chan' = Tail(chan)
  BY DEF ChanType, Receive
<1> HIDE DEF Events
<1>2. Len(chan) >= 1 /\ chan[1] = e
  BY <1>1
<1>3. chan' \in Seq(Events) /\ Len(chan') = Len(chan) - 1
      /\ \A k \in 1 .. Len(chan') : k + 1 \in 1 .. Len(chan) /\ chan'[k] = chan[k + 1]
  BY <1>1, <1>2
<1>4. QED
  BY <1>1, <1>2, <1>3, SupervisorAssumption DEF ChanType, ChanCap

\* What appending an event leaves.
LEMMA Sent1 ==
    ASSUME ChanType, NEW e \in Events, Len(chan) < ChanCap, chan' = Append(chan, e)
    PROVE  /\ ChanType'
           /\ Len(chan') = Len(chan) + 1 /\ chan'[Len(chan) + 1] = e
           /\ \A k \in 1 .. Len(chan) : chan'[k] = chan[k]
<1>1. chan \in Seq(Events)
  BY DEF ChanType
<1>2. chan' \in Seq(Events) /\ Len(chan') = Len(chan) + 1 /\ chan'[Len(chan) + 1] = e
      /\ \A k \in 1 .. Len(chan) : chan'[k] = chan[k]
  BY <1>1
<1>3. QED
  BY <1>1, <1>2, SupervisorAssumption DEF ChanType, ChanCap

\* Writing a response keeps the types of the replies and of proc.
LEMMA WriteType ==
    ASSUME LoopType, NEW r \in Requests, NEW code \in Codes, Write(r, code)
    PROVE  /\ reply' \in [Requests -> Seq(Codes)]
           /\ proc' \in {"running", "dropping"} \cup Ends
<1>1. reply \in [Requests -> Seq(Codes)] /\ proc \in {"running", "dropping"} \cup Ends
  BY DEF LoopType
<1>2. Append(reply[r], code) \in Seq(Codes)
  BY <1>1
<1>3. QED
  BY <1>1, <1>2 DEF Write

\* Every request an event, a job or the table names was read before.
InRange ==
    /\ \A k \in 1 .. Len(chan) : chan[k].type \in {"request", "finished"} =>
          chan[k].req \in 1 .. Len(stream)
    /\ \A r \in Requests : waiter[r] # "none" \/ launcher[r] # "none" => r <= Len(stream)
    /\ \A i \in Ids : active[i] <= Len(stream)

TypeInv == TypeOK /\ InRange

LEMMA InitType == Init => TypeInv
<1> SUFFICES ASSUME Init PROVE TypeInv
  OBVIOUS
<1>1. IoType
  BY SupervisorAssumption DEF Init, IoType
<1>2. ChanType
  BY SupervisorAssumption DEF Init, ChanType, ChanCap
<1>3. reply \in [Requests -> Seq(Codes)] /\ proc \in {"running", "dropping"} \cup Ends
      /\ shutdown \in 0 .. MaxFrames
  BY SupervisorAssumption DEF Init
<1>4. LoopType
  BY <1>3, Zenon DEF LoopType, Init
<1>5. TableType
  BY SupervisorAssumption DEF Init, TableType
<1>6. JobType
  BY DEF Init, JobType, LauncherStates, WaiterStates
<1>7. InRange
  BY DEF Init, InRange
<1>8. QED
  BY <1>1, <1>2, <1>4, <1>5, <1>6, <1>7 DEF TypeInv, TypeOK

-----------------------------------------------------------------------------
(* Type correctness, one lemma per kind of step.                            *)

\* A part of the state that a step leaves alone keeps its type.
LEMMA KeptTypes ==
    /\ IoType /\ UNCHANGED ioVars => IoType'
    /\ ChanType /\ UNCHANGED chan => ChanType'
    /\ LoopType /\ UNCHANGED <<reply, proc, loopVars>> => LoopType'
    /\ TableType /\ UNCHANGED tableVars => TableType'
    /\ JobType /\ UNCHANGED jobVars => JobType'
<1>1. IoType /\ UNCHANGED ioVars => IoType'
  BY DEF IoType, ioVars
<1>2. ChanType /\ UNCHANGED chan => ChanType'
  BY DEF ChanType
<1>3. LoopType /\ UNCHANGED <<reply, proc, loopVars>> => LoopType'
  BY Zenon DEF LoopType, loopVars
<1>4. TableType /\ UNCHANGED tableVars => TableType'
  BY DEF TableType, tableVars
<1>5. JobType /\ UNCHANGED jobVars => JobType'
  BY DEF JobType, jobVars
<1>6. QED
  BY <1>1, <1>2, <1>3, <1>4, <1>5

\* A request taken from the channel was read before.
LEMMA RequestRead ==
    ASSUME TypeInv, NEW r \in Requests,
           Receive(RequestEvent(r)) \/ Receive(FinishedEvent(r))
    PROVE  /\ r \in 1 .. Len(stream)
           /\ stream[r] \in Frames
           /\ stream[r].id \in Ids
           /\ stream[r].need \in Nat /\ stream[r].ws \in Nat
<1>1. Len(chan) >= 1 /\ chan[1] \in {RequestEvent(r), FinishedEvent(r)}
  BY Taken DEF TypeInv, TypeOK
<1>2. r \in 1 .. Len(stream)
  BY <1>1 DEF TypeInv, InRange, RequestEvent, FinishedEvent, TypeOK, ChanType
<1>3. stream[r] \in Frames
  BY <1>2 DEF TypeInv, TypeOK, IoType
<1>4. QED
  BY <1>2, <1>3, FrameFields

\* A start that fails leaves the table and the counters as it found them: whatever
\* it had reserved by then is given back, in either counter.
LEMMA StartKept ==
    ASSUME TypeInv, NEW r \in Requests, StartFails(r) \/ SetupFails(r)
    PROVE  UNCHANGED tableVars
<1>1. stream[r].need \in Nat /\ stream[r].ws \in Nat
  BY RequestRead DEF StartFails, SetupFails, Handle
<1>2. reserved \in Nat /\ wsReserved \in Int
  BY DEF TypeInv, TypeOK, TableType
<1>3. /\ Released(reserved + stream[r].need, stream[r].need) = reserved
      /\ Freed(wsReserved + stream[r].ws, stream[r].ws) = wsReserved
  BY <1>1, <1>2 DEF Released, Freed, Monus
<1>4. QED
  BY <1>3 DEF StartFails, SetupFails, tableVars

\* The loop took a request and did no more than, perhaps, answer it.
OnlyReply(r) ==
    /\ \E e \in Events : Receive(e)
    /\ (\E code \in Codes : Write(r, code)) \/ UNCHANGED <<reply, proc>>
    /\ UNCHANGED <<ioVars, loopVars, tableVars, jobVars>>

LEMMA OnlyReplies ==
    ASSUME TypeInv, NEW r \in Requests,
           \/ RefuseClosing(r) \/ HandleHealth(r) \/ HandleUnknown(r)
           \/ RefuseRun(r) \/ StartFails(r) \/ HandleBadCancel(r)
    PROVE  OnlyReply(r) /\ Receive(RequestEvent(r))
<1>1. RequestEvent(r) \in Events
  BY SupervisorAssumption DEF RequestEvent, Events, Requests
<1>2. {"CANCELLED", "success", "error", "quoted"} \subseteq Codes
  BY DEF Codes
<1>3. CASE StartFails(r)
  <2>1. UNCHANGED tableVars
    BY <1>3, StartKept
  <2>2. Receive(RequestEvent(r)) /\ UNCHANGED <<ioVars, loopVars, jobVars>>
        /\ (Write(r, "error") \/ Write(r, "quoted"))
    BY <1>3 DEF StartFails, Handle
  <2>3. QED
    BY <1>1, <1>2, <2>1, <2>2 DEF OnlyReply
<1>4. QED
  BY <1>1, <1>2, <1>3 DEF OnlyReply, RefuseClosing, HandleHealth, HandleUnknown, RefuseRun,
     HandleBadCancel, Handle

\* After an event was taken, what remains in the channel is still in range, as
\* long as nothing else was put in range that should not be.
LEMMA TakenInRange ==
    ASSUME TypeInv, NEW e, Receive(e), UNCHANGED stream,
           \A r \in Requests : waiter'[r] # "none" \/ launcher'[r] # "none" => r <= Len(stream),
           \A i \in Ids : active'[i] <= Len(stream)
    PROVE  InRange'
<1>1. \A k \in 1 .. Len(chan') : k + 1 \in 1 .. Len(chan) /\ chan'[k] = chan[k + 1]
  BY Taken DEF TypeInv, TypeOK
<1>2. QED
  BY <1>1 DEF TypeInv, InRange

LEMMA OnlyReplyType == ASSUME TypeInv, NEW r \in Requests, OnlyReply(r) PROVE TypeInv'
<1>1. PICK e \in Events : Receive(e)
  BY DEF OnlyReply
<1>2. UNCHANGED ioVars /\ UNCHANGED loopVars /\ UNCHANGED tableVars /\ UNCHANGED jobVars
  BY DEF OnlyReply
<1>3. ChanType'
  BY <1>1, Taken DEF TypeInv, TypeOK
<1>4. reply' \in [Requests -> Seq(Codes)] /\ proc' \in {"running", "dropping"} \cup Ends
  <2>1. CASE \E code \in Codes : Write(r, code)
    BY <2>1, WriteType DEF TypeInv, TypeOK
  <2>2. CASE UNCHANGED <<reply, proc>>
    BY <2>2 DEF TypeInv, TypeOK, LoopType
  <2>3. QED
    BY <2>1, <2>2 DEF OnlyReply
<1>5. LoopType'
  BY <1>2, <1>4, Zenon DEF LoopType, loopVars, TypeInv, TypeOK
<1>6. InRange'
  BY <1>1, <1>2, TakenInRange DEF ioVars, tableVars, jobVars, TypeInv, InRange
<1>7. QED
  BY <1>2, <1>3, <1>5, <1>6, KeptTypes DEF TypeInv, TypeOK

LEMMA ReadFrameType == ASSUME TypeInv, ReadFrame PROVE TypeInv'
<1> DEFINE n == Len(stream) + 1
<1>1. PICK f \in Frames : stream' = Append(stream, f)
  BY DEF ReadFrame
<1>2. stream \in Seq(Frames) /\ Len(stream) < MaxFrames
  BY DEF ReadFrame, TypeInv, TypeOK, IoType
<1>3. stream' \in Seq(Frames) /\ Len(stream') = n
  BY <1>1, <1>2
<1>4. IoType'
  BY <1>2, <1>3, SupervisorAssumption DEF IoType, ReadFrame, TypeInv, TypeOK
<1>5. RequestEvent(n) \in Events
  BY <1>2, SupervisorAssumption DEF RequestEvent, Events
<1>6. ChanType' /\ Len(chan') = Len(chan) + 1 /\ chan'[Len(chan) + 1] = RequestEvent(n)
      /\ \A k \in 1 .. Len(chan) : chan'[k] = chan[k]
  BY <1>5, Sent1 DEF ReadFrame, ReaderRuns, TypeInv, TypeOK
<1>7. UNCHANGED loopVars /\ UNCHANGED tableVars /\ UNCHANGED jobVars /\ UNCHANGED <<reply, proc>>
  BY DEF ReadFrame
<1>8. InRange'
  <2>1. Len(chan) \in Nat /\ Len(stream) \in Nat
    BY <1>2 DEF TypeInv, TypeOK, ChanType
  <2>2. \A k \in 1 .. Len(chan') : chan'[k].type \in {"request", "finished"} =>
           chan'[k].req \in 1 .. Len(stream')
    BY <1>3, <1>6, <2>1 DEF TypeInv, InRange, RequestEvent
  <2>3. \A r \in Requests : waiter'[r] # "none" \/ launcher'[r] # "none" => r <= Len(stream')
    BY <1>3, <1>7, <2>1, SupervisorAssumption DEF TypeInv, InRange, jobVars, Requests
  <2>4. \A i \in Ids : active'[i] <= Len(stream')
    BY <1>3, <1>7, <2>1, SupervisorAssumption
       DEF TypeInv, InRange, tableVars, TypeOK, TableType
  <2>5. QED
    BY <2>2, <2>3, <2>4 DEF InRange
<1>9. QED
  BY <1>4, <1>6, <1>7, <1>8, KeptTypes DEF TypeInv, TypeOK

\* A thread puts an event that is in range into the channel.
LEMMA PostedInRange ==
    ASSUME TypeInv, NEW e \in Events, Len(chan) < ChanCap, chan' = Append(chan, e),
           UNCHANGED stream,
           e.type \in {"request", "finished"} => e.req \in 1 .. Len(stream),
           \A r \in Requests : waiter'[r] # "none" \/ launcher'[r] # "none" => r <= Len(stream),
           \A i \in Ids : active'[i] <= Len(stream)
    PROVE  ChanType' /\ InRange'
<1>1. ChanType' /\ Len(chan') = Len(chan) + 1 /\ chan'[Len(chan) + 1] = e
      /\ \A k \in 1 .. Len(chan) : chan'[k] = chan[k]
  BY Sent1 DEF TypeInv, TypeOK
<1>2. Len(chan) \in Nat
  BY DEF TypeInv, TypeOK, ChanType
<1>3. QED
  BY <1>1, <1>2 DEF TypeInv, InRange

LEMMA ReadEndType == ASSUME TypeInv, ReadEnd PROVE TypeInv'
<1>1. PICK e \in {EofEvent, ErrorEvent} : chan' = Append(chan, e)
  BY DEF ReadEnd
<1>2. e \in Events /\ e.type \notin {"request", "finished"}
  BY SupervisorAssumption DEF Events, EofEvent, ErrorEvent
<1>3. UNCHANGED stream /\ UNCHANGED <<reply, proc, loopVars>> /\ UNCHANGED tableVars
      /\ UNCHANGED jobVars
  BY DEF ReadEnd
<1>4. ChanType' /\ InRange'
  BY <1>1, <1>2, <1>3, PostedInRange
     DEF ReadEnd, ReaderRuns, jobVars, tableVars, TypeInv, InRange
<1>5. IoType'
  BY <1>3 DEF ReadEnd, TypeInv, TypeOK, IoType
<1>6. QED
  BY <1>3, <1>4, <1>5, KeptTypes DEF TypeInv, TypeOK

LEMMA AcceptRunType == ASSUME TypeInv, NEW r \in Requests, AcceptRun(r) PROVE TypeInv'
<1>1. Receive(RequestEvent(r)) /\ UNCHANGED ioVars /\ UNCHANGED <<reply, proc, loopVars>>
      /\ UNCHANGED <<cancelled, signalled, leaked, box>>
  BY DEF AcceptRun, Handle
<1>2. /\ active' = [active EXCEPT ![stream[r].id] = r]
      /\ reserved' = reserved + stream[r].need
      /\ wsReserved' = wsReserved + stream[r].ws
      /\ launcher' = [launcher EXCEPT ![r] = "starting"]
      /\ waiter' = [waiter EXCEPT ![r] = "waiting"]
  BY DEF AcceptRun
<1>3. r \in 1 .. Len(stream) /\ stream[r].id \in Ids /\ stream[r].need \in Nat
      /\ stream[r].ws \in Nat
  BY <1>1, RequestRead
<1>4. ChanType'
  BY <1>1, Taken DEF TypeInv, TypeOK
<1>5. TableType'
  <2>1. active' \in [Ids -> 0 .. MaxFrames]
    BY <1>2, <1>3, SupervisorAssumption DEF TableType, TypeInv, TypeOK, Requests
  <2>2. cancelled' \subseteq Requests
    BY <1>1 DEF TableType, TypeInv, TypeOK
  <2>3. reserved' \in Nat /\ wsReserved' \in Int
    BY <1>2, <1>3 DEF TableType, TypeInv, TypeOK
  <2>4. QED
    BY <2>1, <2>2, <2>3 DEF TableType
<1>6. JobType'
  BY <1>1, <1>2 DEF JobType, TypeInv, TypeOK, LauncherStates, WaiterStates
<1>7. InRange'
  <2>1. \A q \in Requests : waiter'[q] # "none" \/ launcher'[q] # "none" => q <= Len(stream)
    BY <1>2, <1>3 DEF TypeInv, InRange, TypeOK, JobType
  <2>2. \A i \in Ids : active'[i] <= Len(stream)
    BY <1>2, <1>3 DEF TypeInv, InRange, TypeOK, TableType
  <2>3. QED
    BY <1>1, <2>1, <2>2, TakenInRange DEF ioVars
<1>8. QED
  BY <1>1, <1>4, <1>5, <1>6, <1>7, KeptTypes DEF TypeInv, TypeOK

LEMMA SetupFailsType == ASSUME TypeInv, NEW r \in Requests, SetupFails(r) PROVE TypeInv'
<1>1. Receive(RequestEvent(r)) /\ UNCHANGED ioVars /\ UNCHANGED loopVars
      /\ UNCHANGED tableVars /\ UNCHANGED <<launcher, signalled, waiter>> /\ Write(r, "error")
  BY StartKept DEF SetupFails, Handle
<1>2. ChanType'
  BY <1>1, Taken DEF TypeInv, TypeOK
<1>3. reply' \in [Requests -> Seq(Codes)] /\ proc' \in {"running", "dropping"} \cup Ends
  BY <1>1, WriteType DEF TypeInv, TypeOK, Codes
<1>4. LoopType'
  BY <1>1, <1>3, Zenon DEF LoopType, loopVars, TypeInv, TypeOK
<1>5. JobType'
  BY <1>1 DEF SetupFails, JobType, TypeInv, TypeOK
<1>6. InRange'
  BY <1>1, TakenInRange DEF ioVars, tableVars, TypeInv, InRange
<1>7. QED
  BY <1>1, <1>2, <1>4, <1>5, <1>6, KeptTypes DEF TypeInv, TypeOK

\* Steps that mark jobs cancelled and signal their launchers.
LEMMA SignalType ==
    ASSUME TypeInv, NEW e, Receive(e), NEW S \in SUBSET Requests,
           cancelled' = cancelled \cup S, signalled' = signalled \cup S,
           UNCHANGED <<ioVars, reply, proc, active, reserved, wsReserved,
                       launcher, waiter, leaked, box>>,
           shutdown' \in 0 .. MaxFrames, eof' \in BOOLEAN
    PROVE  TypeInv'
<1>1. ChanType'
  BY Taken DEF TypeInv, TypeOK
<1>2. LoopType'
  BY Zenon DEF LoopType, TypeInv, TypeOK
<1>3. TableType'
  BY DEF TableType, TypeInv, TypeOK
<1>4. JobType'
  BY DEF JobType, TypeInv, TypeOK
<1>5. InRange'
  BY TakenInRange DEF ioVars, TypeInv, InRange
<1>6. QED
  BY <1>1, <1>2, <1>3, <1>4, <1>5, KeptTypes DEF TypeInv, TypeOK

LEMMA ActiveJobsRequests == ASSUME TypeInv PROVE ActiveJobs \in SUBSET Requests
BY SupervisorAssumption DEF ActiveJobs, ActiveIds, TypeInv, TypeOK, TableType, Requests

LEMMA HandleCancelType == ASSUME TypeInv, NEW r \in Requests, HandleCancel(r) PROVE TypeInv'
<1> DEFINE target == active[stream[r].target]
           S == IF target = 0 THEN {} ELSE {target}
<1>1. Receive(RequestEvent(r)) /\ stream[r].kind = "cancel" /\ stream[r].target # Malformed
  BY DEF HandleCancel, Handle
<1>2. stream[r] \in Frames
  BY <1>1, RequestRead
<1>3. stream[r].target \in Ids
  BY <1>1, <1>2 DEF Frames, AllFrames, Kinds
<1>4. S \in SUBSET Requests
  BY <1>3, SupervisorAssumption DEF TypeInv, TypeOK, TableType, Requests
<1>5. cancelled' = cancelled \cup S /\ signalled' = signalled \cup S
  BY DEF HandleCancel
<1>6. UNCHANGED <<ioVars, reply, proc, loopVars, active, reserved, wsReserved,
                  launcher, waiter, leaked, box>>
  BY DEF HandleCancel
<1>7. shutdown' \in 0 .. MaxFrames /\ eof' \in BOOLEAN
  BY <1>6, Zenon DEF loopVars, TypeInv, TypeOK, LoopType
<1> HIDE DEF S
<1>8. QED
  BY <1>1, <1>4, <1>5, <1>6, <1>7, SignalType

LEMMA HandleShutdownType == ASSUME TypeInv, NEW r \in Requests, HandleShutdown(r) PROVE TypeInv'
<1>1. Receive(RequestEvent(r)) /\ shutdown' = r /\ CancelAll
      /\ UNCHANGED <<ioVars, reply, proc, eof, active, reserved, wsReserved,
                     launcher, waiter, leaked, box>>
  BY DEF HandleShutdown, Handle
<1>2. shutdown' \in 0 .. MaxFrames
  BY <1>1, SupervisorAssumption DEF Requests
<1>3. eof' \in BOOLEAN
  BY <1>1, Zenon DEF TypeInv, TypeOK, LoopType
<1>4. QED
  BY <1>1, <1>2, <1>3, SignalType, ActiveJobsRequests DEF CancelAll

LEMMA HandleEofType == ASSUME TypeInv, HandleEof PROVE TypeInv'
<1>1. Receive(EofEvent) /\ CancelAll
      /\ UNCHANGED <<ioVars, reply, proc, shutdown, active, reserved, wsReserved,
                     launcher, waiter, leaked, box>>
  BY DEF HandleEof
<1>2. shutdown' \in 0 .. MaxFrames
  BY <1>1 DEF TypeInv, TypeOK, LoopType
<1>3. eof' \in BOOLEAN
  BY Zenon DEF HandleEof
<1>4. QED
  BY <1>1, <1>2, <1>3, SignalType, ActiveJobsRequests DEF CancelAll

LEMMA HandleStreamErrorType == ASSUME TypeInv, HandleStreamError PROVE TypeInv'
<1>1. Receive(ErrorEvent) /\ proc' = "dropping" /\ UNCHANGED ioVars /\ UNCHANGED reply
      /\ UNCHANGED loopVars /\ UNCHANGED tableVars /\ UNCHANGED jobVars
  BY DEF HandleStreamError
<1>2. ChanType'
  BY <1>1, Taken DEF TypeInv, TypeOK
<1>3. proc' \in {"running", "dropping"} \cup Ends
  BY <1>1
<1>4. LoopType'
  BY <1>1, <1>3, Zenon DEF LoopType, loopVars, TypeInv, TypeOK
<1>5. InRange'
  BY <1>1, TakenInRange DEF ioVars, tableVars, jobVars, TypeInv, InRange
<1>6. QED
  BY <1>1, <1>2, <1>4, <1>5, KeptTypes DEF TypeInv, TypeOK

\* The job a finished event's ID leads to, when there is one.
LEMMA ActiveRead ==
    ASSUME TypeInv, NEW i \in Ids, active[i] # 0
    PROVE  /\ active[i] \in 1 .. Len(stream) /\ active[i] \in Requests
           /\ stream[active[i]].need \in Nat /\ stream[active[i]].ws \in Nat
<1>1. active[i] \in 1 .. Len(stream) /\ Len(stream) <= MaxFrames
  BY SupervisorAssumption DEF TypeInv, InRange, TypeOK, TableType, IoType
<1>2. stream[active[i]] \in Frames
  BY <1>1 DEF TypeInv, TypeOK, IoType
<1>3. QED
  BY <1>1, <1>2, FrameFields, SupervisorAssumption DEF Requests

\* An entry leaves the table with what it reserved.
LEMMA ReleasedTable ==
    ASSUME TypeInv, NEW i \in Ids, active[i] # 0,
           active' = [active EXCEPT ![i] = 0],
           reserved' = Released(reserved, stream[active[i]].need),
           wsReserved' = Freed(wsReserved, stream[active[i]].ws),
           UNCHANGED cancelled
    PROVE  TableType' /\ \A k \in Ids : active'[k] <= Len(stream)
<1>1. stream[active[i]].need \in Nat /\ stream[active[i]].ws \in Nat
  BY ActiveRead
<1>2. Len(stream) \in Nat
  BY DEF TypeInv, TypeOK, IoType
<1>3. QED
  BY <1>1, <1>2, SupervisorAssumption DEF TypeInv, InRange, TypeOK, TableType, Released, Freed, Monus

LEMMA FinishType == ASSUME TypeInv, NEW r \in Requests, Finish(r) PROVE TypeInv'
<1> DEFINE id == stream[r].id
           job == active[id]
<1>1. Receive(FinishedEvent(r)) /\ UNCHANGED ioVars /\ UNCHANGED loopVars
      /\ UNCHANGED cancelled /\ UNCHANGED jobVars
  BY DEF Finish
<1>2. id \in Ids
  BY <1>1, RequestRead
<1>3. ChanType'
  BY <1>1, Taken DEF TypeInv, TypeOK
<1>4. \A q \in Requests : waiter'[q] # "none" \/ launcher'[q] # "none" => q <= Len(stream)
  BY <1>1 DEF jobVars, TypeInv, InRange
<1>5. CASE job = 0
  <2>1. UNCHANGED <<reply, proc, active, reserved, wsReserved>>
    BY <1>5 DEF Finish
  <2>2. InRange'
    BY <1>1, <1>4, <2>1, TakenInRange DEF ioVars, TypeInv, InRange
  <2>3. UNCHANGED <<reply, proc, loopVars>> /\ UNCHANGED tableVars
    BY <1>1, <2>1 DEF tableVars
  <2>4. QED
    BY <1>1, <1>3, <2>2, <2>3, KeptTypes DEF TypeInv, TypeOK
<1>6. CASE job # 0
  <2>1. /\ active' = [active EXCEPT ![id] = 0]
        /\ reserved' = Released(reserved, stream[job].need)
        /\ wsReserved' = Freed(wsReserved, stream[job].ws)
        /\ \E code \in ResultCodes(job, r) : Write(job, code)
    BY <1>6 DEF Finish
  <2>2. TableType' /\ \A k \in Ids : active'[k] <= Len(stream)
    BY <1>1, <1>2, <1>6, <2>1, ReleasedTable
  <2>3. ResultCodes(job, r) \subseteq Codes
    BY DEF ResultCodes, Codes
  <2>4. job \in Requests
    BY <1>2, <1>6, ActiveRead
  <2>5. reply' \in [Requests -> Seq(Codes)] /\ proc' \in {"running", "dropping"} \cup Ends
    BY <2>1, <2>3, <2>4, WriteType DEF TypeInv, TypeOK
  <2>6. LoopType'
    BY <1>1, <2>5, Zenon DEF LoopType, loopVars, TypeInv, TypeOK
  <2>7. InRange'
    BY <1>1, <1>4, <2>2, TakenInRange DEF ioVars
  <2>8. QED
    BY <1>1, <1>3, <2>2, <2>6, <2>7, KeptTypes DEF TypeInv, TypeOK
<1>7. QED
  BY <1>5, <1>6

\* The channel goes with the process.
LEMMA EndType ==
    ASSUME TypeInv, chan' = <<>>, UNCHANGED ioVars, UNCHANGED loopVars, UNCHANGED jobVars,
           proc' \in Ends, reply' \in [Requests -> Seq(Codes)], TableType',
           \A i \in Ids : active'[i] <= Len(stream)
    PROVE  TypeInv'
<1>1. ChanType'
  BY SupervisorAssumption DEF ChanType, ChanCap
<1>2. LoopType'
  BY Zenon DEF LoopType, loopVars, TypeInv, TypeOK
<1>3. InRange'
  BY DEF ioVars, jobVars, TypeInv, InRange
<1>4. QED
  BY <1>1, <1>2, <1>3, KeptTypes DEF TypeInv, TypeOK

LEMMA CloseType == ASSUME TypeInv, Close PROVE TypeInv'
<1>1. chan' = <<>> /\ UNCHANGED ioVars /\ UNCHANGED loopVars /\ UNCHANGED tableVars
      /\ UNCHANGED jobVars /\ shutdown # 0
  BY DEF Close
<1>2. proc' \in Ends
  BY DEF Close, Ends, CleanEnds
<1>3. shutdown \in Requests
  BY <1>1, SupervisorAssumption DEF TypeInv, TypeOK, LoopType, Requests
<1>4. Append(reply[shutdown], "closed") \in Seq(Codes)
  BY <1>3 DEF TypeInv, TypeOK, LoopType, Codes
<1>5. reply' \in [Requests -> Seq(Codes)]
  BY <1>3, <1>4 DEF Close, TypeInv, TypeOK, LoopType
<1>6. TableType' /\ \A i \in Ids : active'[i] <= Len(stream)
  BY <1>1 DEF tableVars, TableType, TypeInv, TypeOK, InRange
<1>7. QED
  BY <1>1, <1>2, <1>5, <1>6, EndType

LEMMA DrainType == ASSUME TypeInv, Drain PROVE TypeInv'
<1>1. chan' = <<>> /\ UNCHANGED ioVars /\ UNCHANGED loopVars /\ UNCHANGED tableVars
      /\ UNCHANGED jobVars /\ UNCHANGED reply /\ proc' \in Ends
  BY DEF Drain, Ends, CleanEnds
<1>2. reply' \in [Requests -> Seq(Codes)]
  BY <1>1 DEF TypeInv, TypeOK, LoopType
<1>3. TableType' /\ \A i \in Ids : active'[i] <= Len(stream)
  BY <1>1 DEF tableVars, TableType, TypeInv, TypeOK, InRange
<1>4. QED
  BY <1>1, <1>2, <1>3, EndType

LEMMA DropDoneType == ASSUME TypeInv, DropDone PROVE TypeInv'
<1>1. chan' = <<>> /\ UNCHANGED ioVars /\ UNCHANGED loopVars /\ UNCHANGED tableVars
      /\ UNCHANGED jobVars /\ UNCHANGED reply /\ proc' \in Ends
  BY DEF DropDone, Ends, CleanEnds
<1>2. reply' \in [Requests -> Seq(Codes)]
  BY <1>1 DEF TypeInv, TypeOK, LoopType
<1>3. TableType' /\ \A i \in Ids : active'[i] <= Len(stream)
  BY <1>1 DEF tableVars, TableType, TypeInv, TypeOK, InRange
<1>4. QED
  BY <1>1, <1>2, <1>3, EndType

LEMMA CrashType == ASSUME TypeInv, Crash PROVE TypeInv'
<1>1. chan' = <<>> /\ UNCHANGED ioVars /\ UNCHANGED loopVars /\ UNCHANGED jobVars
      /\ UNCHANGED reply /\ proc' \in Ends
  BY DEF Crash, Ends, CleanEnds
<1>2. reply' \in [Requests -> Seq(Codes)]
  BY <1>1 DEF TypeInv, TypeOK, LoopType
<1>3. active' = [i \in Ids |-> 0] /\ reserved' = 0 /\ wsReserved' = 0 /\ UNCHANGED cancelled
  BY DEF Crash
<1>4. TableType'
  BY <1>3, SupervisorAssumption DEF TableType, TypeInv, TypeOK
<1>5. \A i \in Ids : active'[i] <= Len(stream)
  BY <1>3 DEF TypeInv, TypeOK, IoType
<1>6. QED
  BY <1>1, <1>2, <1>4, <1>5, EndType

\* Steps that touch neither the channel nor what was read.
LEMMA OffChannel ==
    ASSUME TypeInv, UNCHANGED chan, UNCHANGED stream, UNCHANGED <<reply, proc, loopVars>>,
           IoType', TableType', JobType',
           \A r \in Requests : waiter'[r] # "none" \/ launcher'[r] # "none" => r <= Len(stream),
           \A i \in Ids : active'[i] <= Len(stream)
    PROVE  TypeInv'
<1>1. InRange'
  BY DEF TypeInv, InRange
<1>2. QED
  BY <1>1, KeptTypes DEF TypeInv, TypeOK

LEMMA DropJobType == ASSUME TypeInv, NEW i \in Ids, DropJob(i) PROVE TypeInv'
<1>1. /\ active[i] # 0
      /\ active' = [active EXCEPT ![i] = 0]
      /\ reserved' = Released(reserved, stream[active[i]].need)
      /\ wsReserved' = Freed(wsReserved, stream[active[i]].ws)
      /\ UNCHANGED cancelled /\ UNCHANGED ioVars /\ UNCHANGED chan
      /\ UNCHANGED <<reply, proc, loopVars>> /\ UNCHANGED <<launcher, waiter>>
  BY DEF DropJob
<1>2. TableType' /\ \A k \in Ids : active'[k] <= Len(stream)
  BY <1>1, ReleasedTable
<1>3. active[i] \in Requests
  BY <1>1, ActiveRead
<1>4. JobType'
  BY <1>1, <1>3 DEF DropJob, CleanupJob, JobType, TypeInv, TypeOK
<1>5. \A r \in Requests : waiter'[r] # "none" \/ launcher'[r] # "none" => r <= Len(stream)
  BY <1>1 DEF TypeInv, InRange
<1>6. IoType' /\ UNCHANGED stream
  BY <1>1, KeptTypes DEF ioVars, TypeInv, TypeOK
<1>7. QED
  BY <1>1, <1>2, <1>4, <1>5, <1>6, OffChannel

LEMMA PostType == ASSUME TypeInv, NEW r \in Requests, Post(r) PROVE TypeInv'
<1>1. /\ chan' = Append(chan, FinishedEvent(r)) /\ Len(chan) < ChanCap
      /\ waiter[r] = "posting" /\ waiter' = [waiter EXCEPT ![r] = "done"]
      /\ UNCHANGED ioVars /\ UNCHANGED <<reply, proc, loopVars>> /\ UNCHANGED tableVars
      /\ UNCHANGED <<launcher, signalled, leaked, box>>
  BY DEF Post
<1>2. FinishedEvent(r) \in Events /\ r \in 1 .. Len(stream)
  BY <1>1, SupervisorAssumption
     DEF FinishedEvent, Events, Requests, TypeInv, InRange, TypeOK, IoType
<1>3. \A q \in Requests : waiter'[q] # "none" \/ launcher'[q] # "none" => q <= Len(stream)
  BY <1>1 DEF TypeInv, InRange, TypeOK, JobType
<1>4. ChanType' /\ InRange'
  BY <1>1, <1>2, <1>3, PostedInRange DEF ioVars, tableVars, FinishedEvent, TypeInv, InRange
<1>5. JobType'
  BY <1>1 DEF JobType, WaiterStates, TypeInv, TypeOK
<1>6. QED
  BY <1>1, <1>4, <1>5, KeptTypes DEF TypeInv, TypeOK

\* Everything else: waiters, launchers, guests and the client's end of the pipe.
LEMMA ProcessType ==
    ASSUME TypeInv, NEW r, NEW i,
           \/ /\ r \in Requests
              /\ \/ Reap(r) \/ CleanUp(r) \/ LauncherBoxes(r)
                 \/ LauncherSucceeds(r) \/ LauncherFails(r) \/ Killed(r)
           \/ i \in Ids /\ GuestDies(i)
           \/ ClientSide
    PROVE  TypeInv'
<1> USE DEF ProcessUnchanged, Running
<1>1. /\ UNCHANGED chan /\ UNCHANGED stream /\ UNCHANGED reader /\ UNCHANGED tableVars
      /\ UNCHANGED <<reply, proc, loopVars>>
  BY DEF Reap, CleanUp, LauncherBoxes, LauncherSucceeds, LauncherFails, Killed, GuestDies,
     ClientSide, PipeBreaks, PipeFills, PipeEmpties, OutUnchanged, ioVars
<1>2. IoType'
  BY DEF Reap, CleanUp, LauncherBoxes, LauncherSucceeds, LauncherFails, Killed, GuestDies,
     ClientSide, PipeBreaks, PipeFills, PipeEmpties, OutUnchanged, ioVars, IoType, TypeInv, TypeOK
<1>3. waiter' \in [Requests -> WaiterStates] /\ launcher' \in [Requests -> LauncherStates]
  BY DEF Reap, CleanUp, LauncherBoxes, LauncherSucceeds, LauncherFails, Killed, GuestDies,
     ClientSide, PipeBreaks, PipeFills, PipeEmpties, OutUnchanged, jobVars, JobType, TypeInv,
     TypeOK, WaiterStates, LauncherStates
<1>4. signalled' \subseteq Requests /\ leaked' \subseteq Requests
  BY DEF Reap, CleanUp, CleanupJob, LauncherBoxes, LauncherSucceeds, LauncherFails, Killed,
     GuestDies, ClientSide, PipeBreaks, PipeFills, PipeEmpties, OutUnchanged, jobVars, JobType,
     TypeInv, TypeOK
<1>5. box' \in [Ids -> {"none", "live", "dead"}]
  BY DEF Reap, CleanUp, CleanupJob, LauncherBoxes, LauncherSucceeds, LauncherFails, Killed,
     GuestDies, ClientSide, PipeBreaks, PipeFills, PipeEmpties, OutUnchanged, jobVars, JobType,
     TypeInv, TypeOK
<1>6. JobType'
  BY <1>3, <1>4, <1>5 DEF JobType
<1>7. \A q \in Requests : waiter'[q] # "none" \/ launcher'[q] # "none" =>
         waiter[q] # "none" \/ launcher[q] # "none"
  BY DEF Reap, CleanUp, LauncherBoxes, LauncherSucceeds, LauncherFails, Killed, GuestDies,
     ClientSide, PipeBreaks, PipeFills, PipeEmpties, OutUnchanged, jobVars, JobType, TypeInv, TypeOK
<1>8. \A q \in Requests : waiter'[q] # "none" \/ launcher'[q] # "none" => q <= Len(stream)
  BY <1>7 DEF TypeInv, InRange
<1>9. TableType' /\ \A k \in Ids : active'[k] <= Len(stream)
  BY <1>1, KeptTypes DEF tableVars, TypeInv, TypeOK, InRange
<1>10. QED
  BY <1>1, <1>2, <1>6, <1>8, <1>9, OffChannel

LEMMA NextType == ASSUME TypeInv, [Next]_vars PROVE TypeInv'
<1>1. CASE ReadFrame
  BY <1>1, ReadFrameType
<1>2. CASE ReadEnd
  BY <1>2, ReadEndType
<1>3. ASSUME NEW r \in Requests, HandleRequest(r) PROVE TypeInv'
  <2>1. CASE AcceptRun(r)
    BY <2>1, AcceptRunType
  <2>2. CASE SetupFails(r)
    BY <2>2, SetupFailsType
  <2>3. CASE HandleCancel(r)
    BY <2>3, HandleCancelType
  <2>4. CASE HandleShutdown(r)
    BY <2>4, HandleShutdownType
  <2>5. CASE \/ RefuseClosing(r) \/ HandleHealth(r) \/ HandleUnknown(r)
             \/ RefuseRun(r) \/ StartFails(r) \/ HandleBadCancel(r)
    BY <2>5, OnlyReplies, OnlyReplyType
  <2>6. QED
    BY <1>3, <2>1, <2>2, <2>3, <2>4, <2>5 DEF HandleRequest
<1>4. ASSUME NEW r \in Requests, Finish(r) PROVE TypeInv'
  BY <1>4, FinishType
<1>5. CASE HandleEof
  BY <1>5, HandleEofType
<1>6. CASE HandleStreamError
  BY <1>6, HandleStreamErrorType
<1>7. CASE Close
  BY <1>7, CloseType
<1>8. CASE Drain
  BY <1>8, DrainType
<1>9. ASSUME NEW i \in Ids, DropJob(i) PROVE TypeInv'
  BY <1>9, DropJobType
<1>10. CASE DropDone
  BY <1>10, DropDoneType
<1>11. ASSUME NEW r \in Requests, Post(r) PROVE TypeInv'
  BY <1>11, PostType
<1>12. ASSUME NEW r \in Requests,
              \/ Reap(r) \/ CleanUp(r) \/ LauncherBoxes(r)
              \/ LauncherExits(r) \/ HostKills(r)
       PROVE  TypeInv'
  BY <1>12, ProcessType DEF LauncherExits, LauncherKilled, HostKills
<1>13. ASSUME NEW i \in Ids, GuestDies(i) PROVE TypeInv'
  BY <1>13, ProcessType
<1>14. CASE Crash
  BY <1>14, CrashType
<1>15. CASE ClientSide
  BY <1>15, ProcessType
<1>16. CASE UNCHANGED vars
  BY <1>16, KeptTypes
     DEF vars, ioVars, loopVars, tableVars, jobVars, TypeInv, TypeOK, InRange
<1>17. QED
  BY <1>1, <1>2, <1>3, <1>4, <1>5, <1>6, <1>7, <1>8, <1>9, <1>10, <1>11, <1>12, <1>13,
     <1>14, <1>15, <1>16
     DEF Next, Loop, Waiter, Terminated

LEMMA TypeInvariance == Spec => []TypeInv
<1>1. Init => TypeInv
  BY InitType
<1>2. TypeInv /\ [Next]_vars => TypeInv'
  BY NextType
<1>3. QED
  BY <1>1, <1>2, PTL DEF Spec

\* The supervisor's state has its types in every reachable state.
THEOREM TypeCorrect == Spec => []TypeOK
<1>1. TypeInv => TypeOK
  BY DEF TypeInv
<1>2. QED
  BY <1>1, TypeInvariance, PTL

-----------------------------------------------------------------------------
(* The inductive invariant behind the safety properties: where a request is  *)
(* at any time, from the channel through the table to its response.          *)

\* A job's waiter and launcher advance together, and its response comes last.
Stage(r) ==
    /\ waiter[r] = "none" <=> launcher[r] = "none"
    /\ waiter[r] \in {"cleaning", "posting", "done"} => launcher[r] \in {"succeeded", "failed"}
    /\ Accepted(r) /\ Answered(r) => waiter[r] = "done"
    /\ Len(reply[r]) <= 1

Stages == \A r \in Requests : Stage(r)

\* The table holds unanswered jobs, each under its own ID ...
TableInv ==
    \A i \in Ids : active[i] # 0 =>
        stream[active[i]].id = i /\ Accepted(active[i]) /\ ~Answered(active[i])

\* ... and, while the loop runs, all of them.
NoneLost ==
    proc = "running" =>
        \A r \in Requests : Accepted(r) /\ ~Answered(r) => active[stream[r].id] = r

\* An event in the channel is the only trace of what it announces.
RequestQueued(r) ==
    /\ ~Accepted(r) /\ ~Answered(r)
    /\ r # shutdown
    /\ \A q \in Requests : Accepted(q) => q < r

FinishQueued(r) == waiter[r] = "done" /\ ~Answered(r)

QueueInv ==
    \A k \in 1 .. Len(chan) :
        /\ chan[k].type = "request" => RequestQueued(chan[k].req)
        /\ chan[k].type = "finished" => FinishQueued(chan[k].req)

\* Requests wait in the order they were read; a job finishes once.
Follows(e, f) ==
    /\ e.type = "request" /\ f.type = "request" => e.req < f.req
    /\ e.type = "finished" /\ f.type = "finished" => e.req # f.req

OrderInv == \A k, l \in 1 .. Len(chan) : k < l => Follows(chan[k], chan[l])

\* The shutdown to be answered is no job, and has no response before the end.
ShutdownInv ==
    shutdown # 0 =>
        /\ shutdown <= Len(stream)
        /\ ~Accepted(shutdown)
        /\ proc \in {"running", "dropping"} => ~Answered(shutdown)

\* What was not read was not answered.
UnreadInv == \A r \in Requests : Answered(r) => r <= Len(stream)

JobInv ==
    /\ Stages /\ TableInv /\ NoneLost /\ QueueInv /\ OrderInv /\ ShutdownInv /\ UnreadInv

LEMMA InitJob == Init => JobInv
<1> SUFFICES ASSUME Init PROVE JobInv
  OBVIOUS
<1>1. Len(chan) = 0 /\ \A r \in Requests : reply[r] = <<>> /\ waiter[r] = "none" /\ launcher[r] = "none"
  BY DEF Init
<1>2. Stages /\ NoneLost /\ QueueInv /\ OrderInv /\ UnreadInv
  BY <1>1 DEF Stages, Stage, NoneLost, QueueInv, OrderInv, UnreadInv, Accepted, Answered
<1>3. TableInv /\ ShutdownInv
  BY DEF Init, TableInv, ShutdownInv
<1>4. QED
  BY <1>2, <1>3 DEF JobInv

LEMMA TakenOrder == ASSUME TypeInv, OrderInv, NEW e, Receive(e) PROVE OrderInv'
<1>1. /\ \A k \in 1 .. Len(chan') : k + 1 \in 1 .. Len(chan) /\ chan'[k] = chan[k + 1]
      /\ Len(chan') \in Nat
  BY Taken DEF TypeInv, TypeOK, ChanType
<1>2. SUFFICES ASSUME NEW k \in 1 .. Len(chan'), NEW l \in 1 .. Len(chan'), k < l
               PROVE  Follows(chan'[k], chan'[l])
  BY DEF OrderInv, Follows
<1>3. k + 1 \in 1 .. Len(chan) /\ l + 1 \in 1 .. Len(chan) /\ k + 1 < l + 1
  BY <1>1, <1>2
<1>4. Follows(chan[k + 1], chan[l + 1])
  BY <1>3 DEF OrderInv
<1>5. QED
  BY <1>1, <1>4

LEMMA EventRequest ==
    ASSUME TypeInv, NEW k \in 1 .. Len(chan), chan[k].type \in {"request", "finished"}
    PROVE  chan[k].req \in Requests /\ chan[k].req <= Len(stream)
<1>1. chan[k].req \in 1 .. Len(stream) /\ Len(stream) \in Nat /\ Len(stream) <= MaxFrames
  BY DEF TypeInv, InRange, TypeOK, IoType
<1>2. QED
  BY <1>1, SupervisorAssumption DEF Requests

\* Writing one response for a request that had none.
LEMMA WriteOnce ==
    ASSUME TypeInv, NEW r \in Requests, reply[r] = <<>>, NEW code \in Codes, Write(r, code)
    PROVE  /\ \A q \in Requests : q # r => reply'[q] = reply[q]
           /\ reply'[r] = reply[r] \/ (Len(reply'[r]) <= 1 /\ reply'[r] # <<>> /\ UNCHANGED proc)
           /\ reply'[r] = reply[r] => reply' = reply /\ proc' = "dropping"
<1>1. reply \in [Requests -> Seq(Codes)]
  BY DEF TypeInv, TypeOK, LoopType
<1>2. CASE out = "open" /\ reply' = [reply EXCEPT ![r] = Append(@, code)] /\ UNCHANGED proc
  <2>1. reply'[r] = Append(<<>>, code)
    BY <1>1, <1>2
  <2>2. Len(reply'[r]) <= 1 /\ reply'[r] # <<>>
    BY <2>1
  <2>3. QED
    BY <1>1, <1>2, <2>2
<1>3. CASE proc' = "dropping" /\ UNCHANGED reply
  BY <1>3
<1>4. QED
  BY <1>2, <1>3 DEF Write

\* A step that takes event e, may answer the unanswered request r, which is no
\* job, and leaves jobs, table and shutdown alone.
LEMMA ReplyJob ==
    ASSUME TypeInv, JobInv, NEW e, Receive(e),
           UNCHANGED <<stream, active, shutdown, launcher, waiter>>,
           \/ UNCHANGED reply /\ proc' \in {"running", "dropping"}
           \/ \E r \in Requests, code \in Codes :
                 e = RequestEvent(r) /\ Write(r, code)
    PROVE  JobInv'
<1>1. /\ Len(chan) >= 1 /\ chan[1] = e
      /\ \A k \in 1 .. Len(chan') : k + 1 \in 1 .. Len(chan) /\ chan'[k] = chan[k + 1]
      /\ Len(chan) \in Nat /\ Len(chan') \in Nat
  BY Taken DEF TypeInv, TypeOK, ChanType
<1>2. proc = "running"
  BY DEF Receive
<1>3. OrderInv'
  BY TakenOrder DEF JobInv
<1>4. CASE UNCHANGED reply /\ proc' \in {"running", "dropping"}
  <2>1. QueueInv'
    BY <1>1, <1>4 DEF JobInv, QueueInv, RequestQueued, FinishQueued, Accepted, Answered
  <2>2. Stages' /\ TableInv' /\ UnreadInv'
    BY <1>4 DEF JobInv, Stages, Stage, TableInv, UnreadInv, Accepted, Answered
  <2>3. NoneLost' /\ ShutdownInv'
    BY <1>2, <1>4 DEF JobInv, NoneLost, ShutdownInv, Accepted, Answered
  <2>4. QED
    BY <1>3, <2>1, <2>2, <2>3 DEF JobInv
<1>5. ASSUME NEW r \in Requests, NEW code \in Codes, e = RequestEvent(r), Write(r, code)
      PROVE  JobInv'
  <2>1. ~Accepted(r) /\ ~Answered(r) /\ r # shutdown /\ r <= Len(stream)
    BY <1>1, <1>5 DEF JobInv, QueueInv, RequestQueued, RequestEvent, TypeInv, InRange
  <2>2. /\ \A q \in Requests : q # r => reply'[q] = reply[q]
        /\ reply'[r] = reply[r] \/ (Len(reply'[r]) <= 1 /\ reply'[r] # <<>> /\ UNCHANGED proc)
        /\ reply'[r] = reply[r] => proc' = "dropping"
    BY <1>5, <2>1, WriteOnce DEF Answered
  <2>3. Stages'
    <3>1. SUFFICES ASSUME NEW q \in Requests PROVE Stage(q)'
      BY DEF Stages
    <3>2. Stage(q)
      BY DEF JobInv, Stages
    <3>3. CASE q = r
      BY <2>1, <2>2, <3>2, <3>3 DEF Stage, Accepted, Answered
    <3>4. CASE q # r
      BY <2>2, <3>2, <3>4 DEF Stage, Accepted, Answered
    <3>5. QED
      BY <3>3, <3>4
  <2>4. TableInv'
    <3>1. SUFFICES ASSUME NEW i \in Ids, active[i] # 0
                   PROVE  stream[active[i]].id = i /\ Accepted(active[i])' /\ ~Answered(active[i])'
      BY DEF TableInv
    <3>2. active[i] \in Requests
      BY <3>1, ActiveRead
    <3>3. stream[active[i]].id = i /\ Accepted(active[i]) /\ ~Answered(active[i])
      BY <3>1 DEF JobInv, TableInv
    <3>4. QED
      BY <2>1, <2>2, <3>2, <3>3 DEF Accepted, Answered
  <2>5. NoneLost'
    BY <2>1, <2>2, <1>2 DEF JobInv, NoneLost, Accepted, Answered
  <2>6. QueueInv'
    <3>1. SUFFICES ASSUME NEW k \in 1 .. Len(chan')
                   PROVE  /\ chan'[k].type = "request" => RequestQueued(chan[k].req)'
                          /\ chan'[k].type = "finished" => FinishQueued(chan[k].req)'
      BY DEF QueueInv
    <3>2. k + 1 \in 1 .. Len(chan) /\ chan'[k] = chan[k + 1] /\ 1 < k + 1 /\ 1 \in 1 .. Len(chan)
      BY <1>1
    <3> DEFINE q == chan[k + 1].req
    <3>3. CASE chan[k + 1].type = "request"
      <4>1. Follows(chan[1], chan[k + 1])
        BY <3>2 DEF JobInv, OrderInv
      <4>2. q \in Requests
        BY <3>2, <3>3, EventRequest
      <4>3. r < q
        <5>1. chan[1].type = "request" /\ chan[1].req = r
          BY <1>1, <1>5 DEF RequestEvent
        <5>2. QED
          BY <3>3, <4>1, <5>1 DEF Follows
      <4>4. RequestQueued(q)
        BY <3>2, <3>3 DEF JobInv, QueueInv
      <4>5. reply'[q] = reply[q]
        BY <2>2, <4>2, <4>3 DEF Requests
      <4>6. RequestQueued(chan[k].req)'
        BY <3>2, <4>4, <4>5 DEF RequestQueued, Accepted, Answered
      <4>7. QED
        BY <3>2, <3>3, <4>6
    <3>4. CASE chan[k + 1].type = "finished"
      <4>1. FinishQueued(q)
        BY <3>2, <3>4 DEF JobInv, QueueInv
      <4>2. q \in Requests
        BY <3>2, <3>4, EventRequest
      <4>3. q # r
        BY <2>1, <4>1 DEF FinishQueued, Accepted
      <4>4. FinishQueued(chan[k].req)'
        BY <2>2, <3>2, <4>1, <4>2, <4>3 DEF FinishQueued, Answered
      <4>5. QED
        BY <3>2, <3>4, <4>4
    <3>5. CASE chan[k + 1].type \notin {"request", "finished"}
      BY <3>2, <3>5
    <3>6. QED
      BY <3>3, <3>4, <3>5
  <2>7. ShutdownInv'
    <3>1. SUFFICES ASSUME shutdown # 0
                   PROVE  /\ shutdown <= Len(stream)
                          /\ ~Accepted(shutdown)'
                          /\ ~Answered(shutdown)'
      BY DEF ShutdownInv
    <3>2. shutdown \in Requests
      BY <3>1, SupervisorAssumption DEF TypeInv, TypeOK, LoopType, Requests
    <3>3. QED
      BY <1>2, <2>1, <2>2, <3>1, <3>2 DEF JobInv, ShutdownInv, Accepted, Answered
  <2>8. UnreadInv'
    BY <2>1, <2>2 DEF JobInv, UnreadInv, Answered
  <2>9. QED
    BY <1>3, <2>3, <2>4, <2>5, <2>6, <2>7, <2>8 DEF JobInv
<1>6. QED
  BY <1>4, <1>5

LEMMA AcceptJob == ASSUME TypeInv, JobInv, NEW r \in Requests, AcceptRun(r) PROVE JobInv'
<1> DEFINE id == stream[r].id
<1>1. /\ Receive(RequestEvent(r)) /\ UNCHANGED <<stream, reply, proc, shutdown>>
      /\ active[id] = 0 /\ active' = [active EXCEPT ![id] = r]
      /\ launcher' = [launcher EXCEPT ![r] = "starting"]
      /\ waiter' = [waiter EXCEPT ![r] = "waiting"]
  BY DEF AcceptRun, Handle, RunRefused, ioVars, loopVars
<1>2. /\ Len(chan) >= 1 /\ chan[1] = RequestEvent(r)
      /\ \A k \in 1 .. Len(chan') : k + 1 \in 1 .. Len(chan) /\ chan'[k] = chan[k + 1]
      /\ Len(chan) \in Nat /\ Len(chan') \in Nat
  BY <1>1, Taken DEF TypeInv, TypeOK, ChanType
<1>3. r \in 1 .. Len(stream) /\ id \in Ids
  BY <1>1, RequestRead
<1>4. chan[1].type = "request" /\ chan[1].req = r /\ 1 \in 1 .. Len(chan)
  BY <1>2 DEF RequestEvent
<1>5. ~Accepted(r) /\ ~Answered(r) /\ r # shutdown /\ \A q \in Requests : Accepted(q) => q < r
  BY <1>4 DEF JobInv, QueueInv, RequestQueued
<1>6. \A q \in Requests : q # r => waiter'[q] = waiter[q] /\ launcher'[q] = launcher[q]
  BY <1>1 DEF TypeInv, TypeOK, JobType
<1>7. waiter'[r] = "waiting" /\ launcher'[r] = "starting"
  BY <1>1 DEF TypeInv, TypeOK, JobType
<1>8. active'[id] = r /\ \A i \in Ids : i # id => active'[i] = active[i]
  BY <1>1, <1>3 DEF TypeInv, TypeOK, TableType
<1>9. Stages'
  <2>1. SUFFICES ASSUME NEW q \in Requests PROVE Stage(q)'
    BY DEF Stages
  <2>2. Stage(q)
    BY DEF JobInv, Stages
  <2>3. CASE q = r
    BY <1>1, <1>5, <1>7, <2>2, <2>3 DEF Stage, Accepted, Answered
  <2>4. CASE q # r
    BY <1>1, <1>6, <2>2, <2>4 DEF Stage, Accepted, Answered
  <2>5. QED
    BY <2>3, <2>4
<1>10. TableInv'
  <2>1. SUFFICES ASSUME NEW i \in Ids, active'[i] # 0
                 PROVE  stream'[active'[i]].id = i /\ waiter'[active'[i]] # "none"
                        /\ reply'[active'[i]] = <<>>
    BY DEF TableInv, Accepted, Answered
  <2>2. CASE i = id
    BY <1>1, <1>5, <1>7, <1>8, <2>2 DEF Answered
  <2>3. CASE i # id
    <3>1. active'[i] = active[i] /\ active[i] # 0
      BY <1>8, <2>1, <2>3
    <3>2. stream[active[i]].id = i /\ Accepted(active[i]) /\ ~Answered(active[i])
      BY <3>1 DEF JobInv, TableInv
    <3>3. active[i] \in Requests /\ active[i] # r
      BY <1>5, <3>1, <3>2, ActiveRead
    <3>4. QED
      BY <1>1, <1>6, <3>1, <3>2, <3>3 DEF Accepted, Answered
  <2>4. QED
    BY <2>2, <2>3
<1>11. NoneLost'
  <2>1. SUFFICES ASSUME proc' = "running", NEW q \in Requests, Accepted(q)', ~Answered(q)'
                 PROVE  active'[stream'[q].id] = q
    BY DEF NoneLost
  <2>2. CASE q = r
    BY <1>1, <1>8, <2>2
  <2>3. CASE q # r
    <3>1. Accepted(q) /\ ~Answered(q) /\ proc = "running"
      BY <1>1, <1>6, <2>1, <2>3 DEF Accepted, Answered
    <3>2. active[stream[q].id] = q
      BY <3>1 DEF JobInv, NoneLost
    <3>3. q \in 1 .. Len(stream)
      BY <3>1 DEF TypeInv, InRange, Accepted, Requests, TypeOK, IoType
    <3>4. stream[q].id \in Ids
      BY <3>3, FrameFields DEF TypeInv, TypeOK, IoType
    <3>5. q # 0
      BY DEF Requests
    <3>6. QED
      BY <1>1, <1>8, <3>2, <3>4, <3>5
  <2>4. QED
    BY <2>2, <2>3
<1>12. QueueInv'
  <2>1. SUFFICES ASSUME NEW k \in 1 .. Len(chan')
                 PROVE  /\ chan'[k].type = "request" => RequestQueued(chan[k].req)'
                        /\ chan'[k].type = "finished" => FinishQueued(chan[k].req)'
    BY DEF QueueInv
  <2>2. k + 1 \in 1 .. Len(chan) /\ chan'[k] = chan[k + 1] /\ 1 < k + 1
    BY <1>2
  <2> DEFINE q == chan[k + 1].req
  <2>3. CASE chan[k + 1].type = "request"
    <3>1. q \in Requests
      BY <2>2, <2>3, EventRequest
    <3>2. r < q
      BY <1>4, <2>2, <2>3 DEF JobInv, OrderInv, Follows
    <3>3. RequestQueued(q)
      BY <2>2, <2>3 DEF JobInv, QueueInv
    <3>4. q # r
      BY <3>1, <3>2 DEF Requests
    <3>5. \A x \in Requests : Accepted(x)' => x < q
      BY <1>6, <3>2, <3>3 DEF RequestQueued, Accepted
    <3>6. RequestQueued(chan[k].req)'
      BY <1>1, <1>6, <2>2, <3>1, <3>3, <3>4, <3>5 DEF RequestQueued, Accepted, Answered
    <3>7. QED
      BY <2>2, <2>3, <3>6
  <2>4. CASE chan[k + 1].type = "finished"
    <3>1. q \in Requests
      BY <2>2, <2>4, EventRequest
    <3>2. FinishQueued(q)
      BY <2>2, <2>4 DEF JobInv, QueueInv
    <3>3. q # r
      BY <1>5, <3>2 DEF FinishQueued, Accepted
    <3>4. FinishQueued(chan[k].req)'
      BY <1>1, <1>6, <2>2, <3>1, <3>2, <3>3 DEF FinishQueued, Answered
    <3>5. QED
      BY <2>2, <2>4, <3>4
  <2>5. CASE chan[k + 1].type \notin {"request", "finished"}
    BY <2>2, <2>5
  <2>6. QED
    BY <2>3, <2>4, <2>5
<1>13. OrderInv'
  BY <1>1, TakenOrder DEF JobInv
<1>14. ShutdownInv'
  <2>1. SUFFICES ASSUME shutdown # 0
                 PROVE  /\ shutdown <= Len(stream)
                        /\ ~Accepted(shutdown)'
                        /\ proc \in {"running", "dropping"} => ~Answered(shutdown)'
    BY <1>1 DEF ShutdownInv, Accepted, Answered
  <2>2. shutdown \in Requests
    BY <2>1, SupervisorAssumption DEF TypeInv, TypeOK, LoopType, Requests
  <2>3. QED
    BY <1>1, <1>5, <1>6, <2>1, <2>2 DEF JobInv, ShutdownInv, Accepted, Answered
<1>15. UnreadInv'
  BY <1>1 DEF JobInv, UnreadInv, Answered
<1>16. QED
  BY <1>9, <1>10, <1>11, <1>12, <1>13, <1>14, <1>15 DEF JobInv

LEMMA ShutdownJob == ASSUME TypeInv, JobInv, NEW r \in Requests, HandleShutdown(r) PROVE JobInv'
<1>1. /\ Receive(RequestEvent(r)) /\ UNCHANGED <<stream, reply, proc, active, waiter, launcher>>
      /\ shutdown' = r
  BY DEF HandleShutdown, Handle, ioVars
<1>2. /\ Len(chan) >= 1 /\ chan[1] = RequestEvent(r)
      /\ \A k \in 1 .. Len(chan') : k + 1 \in 1 .. Len(chan) /\ chan'[k] = chan[k + 1]
      /\ Len(chan) \in Nat /\ Len(chan') \in Nat
  BY <1>1, Taken DEF TypeInv, TypeOK, ChanType
<1>3. chan[1].type = "request" /\ chan[1].req = r /\ 1 \in 1 .. Len(chan)
  BY <1>2 DEF RequestEvent
<1>4. ~Accepted(r) /\ ~Answered(r) /\ r <= Len(stream)
  BY <1>3, EventRequest DEF JobInv, QueueInv, RequestQueued
<1>5. Stages' /\ TableInv' /\ NoneLost' /\ UnreadInv'
  BY <1>1 DEF JobInv, Stages, Stage, TableInv, NoneLost, UnreadInv, Accepted, Answered
<1>6. OrderInv'
  BY <1>1, TakenOrder DEF JobInv
<1>7. ShutdownInv'
  BY <1>1, <1>4 DEF ShutdownInv, Accepted, Answered
<1>8. QueueInv'
  <2>1. SUFFICES ASSUME NEW k \in 1 .. Len(chan')
                 PROVE  /\ chan'[k].type = "request" => RequestQueued(chan[k].req)'
                        /\ chan'[k].type = "finished" => FinishQueued(chan[k].req)'
    BY DEF QueueInv
  <2>2. k + 1 \in 1 .. Len(chan) /\ chan'[k] = chan[k + 1] /\ 1 < k + 1
    BY <1>2
  <2>3. CASE chan[k + 1].type = "request"
    <3>1. chan[k + 1].req \in Requests /\ r < chan[k + 1].req
      BY <1>3, <2>2, <2>3, EventRequest DEF JobInv, OrderInv, Follows
    <3>2. RequestQueued(chan[k + 1].req)
      BY <2>2, <2>3 DEF JobInv, QueueInv
    <3>3. chan[k + 1].req # r
      BY <3>1 DEF Requests
    <3>4. RequestQueued(chan[k].req)'
      BY <1>1, <2>2, <3>2, <3>3 DEF RequestQueued, Accepted, Answered
    <3>5. QED
      BY <2>2, <2>3, <3>4
  <2>4. CASE chan[k + 1].type = "finished"
    <3>1. FinishQueued(chan[k + 1].req)
      BY <2>2, <2>4 DEF JobInv, QueueInv
    <3>2. FinishQueued(chan[k].req)'
      BY <1>1, <2>2, <3>1 DEF FinishQueued, Answered
    <3>3. QED
      BY <2>2, <2>4, <3>2
  <2>5. CASE chan[k + 1].type \notin {"request", "finished"}
    BY <2>2, <2>5
  <2>6. QED
    BY <2>3, <2>4, <2>5
<1>9. QED
  BY <1>5, <1>6, <1>7, <1>8 DEF JobInv

\* A completion always finds its own job in the table.
LEMMA FinishKnown ==
    ASSUME TypeInv, JobInv, NEW r \in Requests, Receive(FinishedEvent(r))
    PROVE  active[stream[r].id] = r /\ waiter[r] = "done" /\ ~Answered(r)
<1>1. Len(chan) >= 1 /\ chan[1] = FinishedEvent(r) /\ Len(chan) \in Nat /\ proc = "running"
  BY Taken DEF TypeInv, TypeOK, ChanType, Receive
<1>2. 1 \in 1 .. Len(chan) /\ chan[1].type = "finished" /\ chan[1].req = r
  BY <1>1 DEF FinishedEvent
<1>3. waiter[r] = "done" /\ ~Answered(r)
  BY <1>2 DEF JobInv, QueueInv, FinishQueued
<1>4. active[stream[r].id] = r
  BY <1>1, <1>3 DEF JobInv, NoneLost, Accepted
<1>5. QED
  BY <1>3, <1>4

LEMMA FinishJob == ASSUME TypeInv, JobInv, NEW r \in Requests, Finish(r) PROVE JobInv'
<1> DEFINE id == stream[r].id
<1>1. /\ Receive(FinishedEvent(r)) /\ UNCHANGED <<stream, shutdown, launcher, waiter>>
  BY DEF Finish, ioVars, loopVars, jobVars
<1>2. active[id] = r /\ waiter[r] = "done" /\ ~Answered(r) /\ r # 0
  BY <1>1, FinishKnown DEF Requests
<1>3. active' = [active EXCEPT ![id] = 0] /\ \E code \in ResultCodes(r, r) : Write(r, code)
  BY <1>2 DEF Finish
<1>4. ResultCodes(r, r) \subseteq Codes
  BY DEF ResultCodes, Codes
<1>5. /\ \A q \in Requests : q # r => reply'[q] = reply[q]
      /\ reply'[r] = reply[r] \/ (Len(reply'[r]) <= 1 /\ reply'[r] # <<>> /\ UNCHANGED proc)
      /\ reply'[r] = reply[r] => proc' = "dropping"
  BY <1>2, <1>3, <1>4, WriteOnce DEF Answered
<1>6. id \in Ids /\ r \in 1 .. Len(stream)
  BY <1>1, RequestRead
<1>7. active'[id] = 0 /\ \A i \in Ids : i # id => active'[i] = active[i]
  BY <1>3, <1>6 DEF TypeInv, TypeOK, TableType
<1>8. /\ Len(chan) >= 1 /\ chan[1] = FinishedEvent(r)
      /\ \A k \in 1 .. Len(chan') : k + 1 \in 1 .. Len(chan) /\ chan'[k] = chan[k + 1]
      /\ Len(chan) \in Nat /\ Len(chan') \in Nat
  BY <1>1, Taken DEF TypeInv, TypeOK, ChanType
<1>9. chan[1].type = "finished" /\ chan[1].req = r /\ 1 \in 1 .. Len(chan)
  BY <1>8 DEF FinishedEvent
<1>10. Stages'
  <2>1. SUFFICES ASSUME NEW q \in Requests PROVE Stage(q)'
    BY DEF Stages
  <2>2. Stage(q)
    BY DEF JobInv, Stages
  <2>3. CASE q = r
    BY <1>1, <1>2, <1>5, <2>2, <2>3 DEF Stage, Accepted, Answered
  <2>4. CASE q # r
    BY <1>1, <1>5, <2>2, <2>4 DEF Stage, Accepted, Answered
  <2>5. QED
    BY <2>3, <2>4
<1>11. TableInv'
  <2>1. SUFFICES ASSUME NEW i \in Ids, active'[i] # 0
                 PROVE  stream'[active'[i]].id = i /\ waiter'[active'[i]] # "none"
                        /\ reply'[active'[i]] = <<>>
    BY DEF TableInv, Accepted, Answered
  <2>2. i # id /\ active'[i] = active[i] /\ active[i] # 0
    BY <1>7, <2>1
  <2>3. stream[active[i]].id = i /\ Accepted(active[i]) /\ ~Answered(active[i])
    BY <2>2 DEF JobInv, TableInv
  <2>4. active[i] \in Requests /\ active[i] # r
    BY <2>2, <2>3, ActiveRead
  <2>5. QED
    BY <1>1, <1>5, <2>2, <2>3, <2>4 DEF Accepted, Answered
<1>12. NoneLost'
  <2>1. SUFFICES ASSUME proc' = "running", NEW q \in Requests, Accepted(q)', ~Answered(q)'
                 PROVE  active'[stream'[q].id] = q
    BY DEF NoneLost
  <2>2. q # r
    BY <1>5, <2>1 DEF Answered
  <2>3. Accepted(q) /\ ~Answered(q) /\ proc = "running"
    BY <1>1, <1>5, <2>1, <2>2 DEF Accepted, Answered, Receive
  <2>4. active[stream[q].id] = q
    BY <2>3 DEF JobInv, NoneLost
  <2>5. q \in 1 .. Len(stream)
    BY <2>3 DEF TypeInv, InRange, Accepted, Requests, TypeOK, IoType
  <2>6. stream[q].id \in Ids
    BY <2>5, FrameFields DEF TypeInv, TypeOK, IoType
  <2>7. QED
    BY <1>1, <1>2, <1>7, <2>2, <2>4, <2>6
<1>13. QueueInv'
  <2>1. SUFFICES ASSUME NEW k \in 1 .. Len(chan')
                 PROVE  /\ chan'[k].type = "request" => RequestQueued(chan[k].req)'
                        /\ chan'[k].type = "finished" => FinishQueued(chan[k].req)'
    BY DEF QueueInv
  <2>2. k + 1 \in 1 .. Len(chan) /\ chan'[k] = chan[k + 1] /\ 1 < k + 1
    BY <1>8
  <2> DEFINE q == chan[k + 1].req
  <2>3. CASE chan[k + 1].type = "request"
    <3>1. q \in Requests
      BY <2>2, <2>3, EventRequest
    <3>2. RequestQueued(q)
      BY <2>2, <2>3 DEF JobInv, QueueInv
    <3>3. q # r
      BY <1>2, <3>2 DEF RequestQueued, Accepted
    <3>4. RequestQueued(chan[k].req)'
      BY <1>1, <1>5, <2>2, <3>1, <3>2, <3>3 DEF RequestQueued, Accepted, Answered
    <3>5. QED
      BY <2>2, <2>3, <3>4
  <2>4. CASE chan[k + 1].type = "finished"
    <3>1. q \in Requests
      BY <2>2, <2>4, EventRequest
    <3>2. FinishQueued(q)
      BY <2>2, <2>4 DEF JobInv, QueueInv
    <3>3. q # r
      BY <1>9, <2>2, <2>4 DEF JobInv, OrderInv, Follows
    <3>4. FinishQueued(chan[k].req)'
      BY <1>1, <1>5, <2>2, <3>1, <3>2, <3>3 DEF FinishQueued, Answered
    <3>5. QED
      BY <2>2, <2>4, <3>4
  <2>5. CASE chan[k + 1].type \notin {"request", "finished"}
    BY <2>2, <2>5
  <2>6. QED
    BY <2>3, <2>4, <2>5
<1>14. OrderInv'
  BY <1>1, TakenOrder DEF JobInv
<1>15. ShutdownInv'
  <2>1. SUFFICES ASSUME shutdown # 0
                 PROVE  shutdown <= Len(stream) /\ ~Accepted(shutdown)' /\ ~Answered(shutdown)'
    BY <1>1 DEF ShutdownInv, Accepted, Answered
  <2>2. shutdown \in Requests
    BY <2>1, SupervisorAssumption DEF TypeInv, TypeOK, LoopType, Requests
  <2>3. shutdown <= Len(stream) /\ ~Accepted(shutdown) /\ ~Answered(shutdown)
    BY <1>1, <2>1 DEF JobInv, ShutdownInv, Receive
  <2>4. QED
    BY <1>1, <1>2, <1>5, <2>2, <2>3 DEF Accepted, Answered
<1>16. UnreadInv'
  BY <1>1, <1>5, <1>6 DEF JobInv, UnreadInv, Answered
<1>17. QED
  BY <1>10, <1>11, <1>12, <1>13, <1>14, <1>15, <1>16 DEF JobInv

\* The end of the process: jobs keep their state, and nothing is in transit.
LEMMA EndJob ==
    ASSUME TypeInv, JobInv, chan' = <<>>, proc' \in Ends,
           UNCHANGED <<stream, reply, shutdown, launcher, waiter>>,
           \A i \in Ids : active'[i] \in {0, active[i]}
    PROVE  JobInv'
<1>1. proc' \notin {"running", "dropping"}
  BY DEF Ends, CleanEnds
<1>2. Len(chan') = 0
  OBVIOUS
<1>3. QueueInv' /\ OrderInv'
  BY <1>2 DEF QueueInv, OrderInv
<1>4. Stages' /\ UnreadInv'
  BY DEF JobInv, Stages, Stage, UnreadInv, Accepted, Answered
<1>5. TableInv'
  BY DEF JobInv, TableInv, Accepted, Answered
<1>6. NoneLost' /\ ShutdownInv'
  BY <1>1 DEF JobInv, NoneLost, ShutdownInv, Accepted, Answered
<1>7. QED
  BY <1>3, <1>4, <1>5, <1>6 DEF JobInv

LEMMA CloseJob == ASSUME TypeInv, JobInv, Close PROVE JobInv'
<1>1. /\ chan' = <<>> /\ UNCHANGED <<stream, shutdown, launcher, waiter, active>>
      /\ shutdown # 0 /\ proc = "running" /\ proc' \in Ends
  BY DEF Close, ioVars, loopVars, tableVars, jobVars, Ends, CleanEnds
<1>2. CASE UNCHANGED reply
  BY <1>1, <1>2, EndJob
<1>3. CASE reply' = [reply EXCEPT ![shutdown] = Append(@, "closed")]
  <2>1. shutdown \in Requests
    BY <1>1, SupervisorAssumption DEF TypeInv, TypeOK, LoopType, Requests
  <2>2. ~Accepted(shutdown) /\ ~Answered(shutdown) /\ shutdown <= Len(stream)
    BY <1>1 DEF JobInv, ShutdownInv
  <2>3. reply'[shutdown] = Append(<<>>, "closed") /\ \A q \in Requests : q # shutdown => reply'[q] = reply[q]
    BY <1>3, <2>1, <2>2 DEF TypeInv, TypeOK, LoopType, Answered
  <2>4. Len(reply'[shutdown]) <= 1
    BY <2>3
  <2>5. proc' \notin {"running", "dropping"} /\ Len(chan') = 0
    BY <1>1 DEF Ends, CleanEnds
  <2>6. Stages'
    <3>1. SUFFICES ASSUME NEW q \in Requests PROVE Stage(q)'
      BY DEF Stages
    <3>2. Stage(q)
      BY DEF JobInv, Stages
    <3>3. CASE q = shutdown
      BY <1>1, <2>2, <2>4, <3>2, <3>3 DEF Stage, Accepted, Answered
    <3>4. CASE q # shutdown
      BY <1>1, <2>3, <3>2, <3>4 DEF Stage, Accepted, Answered
    <3>5. QED
      BY <3>3, <3>4
  <2>7. TableInv'
    <3>1. SUFFICES ASSUME NEW i \in Ids, active[i] # 0
                   PROVE  stream[active[i]].id = i /\ waiter[active[i]] # "none"
                          /\ reply'[active[i]] = <<>>
      BY <1>1 DEF TableInv, Accepted, Answered
    <3>2. stream[active[i]].id = i /\ Accepted(active[i]) /\ ~Answered(active[i])
      BY <3>1 DEF JobInv, TableInv
    <3>3. active[i] \in Requests /\ active[i] # shutdown
      BY <2>2, <3>1, <3>2, ActiveRead
    <3>4. QED
      BY <2>3, <3>2, <3>3 DEF Accepted, Answered
  <2>8. NoneLost' /\ QueueInv' /\ OrderInv'
    BY <2>5 DEF NoneLost, QueueInv, OrderInv
  <2>9. ShutdownInv'
    BY <1>1, <2>2, <2>5 DEF ShutdownInv, Accepted
  <2>10. UnreadInv'
    BY <1>1, <2>2, <2>3 DEF JobInv, UnreadInv, Answered
  <2>11. QED
    BY <2>6, <2>7, <2>8, <2>9, <2>10 DEF JobInv
<1>4. QED
  BY <1>2, <1>3 DEF Close

LEMMA ReadFrameJob == ASSUME TypeInv, JobInv, ReadFrame PROVE JobInv'
<1> DEFINE n == Len(stream) + 1
<1>1. /\ chan' = Append(chan, RequestEvent(n)) /\ Len(stream) < MaxFrames /\ Len(chan) < ChanCap
      /\ UNCHANGED <<reply, proc, shutdown, active, launcher, waiter>>
  BY DEF ReadFrame, ReaderRuns, loopVars, tableVars, jobVars
<1>2. /\ stream \in Seq(Frames) /\ Len(stream) \in Nat /\ Len(chan) \in Nat
      /\ Len(stream) <= MaxFrames
  BY DEF TypeInv, TypeOK, IoType, ChanType
<1>3. Len(stream') = n /\ \A r \in 1 .. Len(stream) : stream'[r] = stream[r]
  BY <1>2 DEF ReadFrame
<1>4. n \in Requests /\ RequestEvent(n) \in Events
  BY <1>1, <1>2, SupervisorAssumption DEF Requests, RequestEvent, Events
<1>5. /\ Len(chan') = Len(chan) + 1 /\ chan'[Len(chan) + 1] = RequestEvent(n)
      /\ \A k \in 1 .. Len(chan) : chan'[k] = chan[k]
  BY <1>1, <1>4, Sent1 DEF TypeInv, TypeOK
<1>6. \A r \in Requests : Accepted(r) => r < n
  BY <1>2 DEF TypeInv, InRange, Accepted, Requests
<1>7. ~Accepted(n) /\ ~Answered(n) /\ n # shutdown
  BY <1>2, <1>4, <1>6, SupervisorAssumption
     DEF JobInv, UnreadInv, ShutdownInv, Requests, TypeInv, TypeOK, LoopType
<1>8. Stages'
  BY <1>1 DEF JobInv, Stages, Stage, Accepted, Answered
<1>9. TableInv'
  <2>1. SUFFICES ASSUME NEW i \in Ids, active[i] # 0
                 PROVE  stream'[active[i]].id = i /\ Accepted(active[i]) /\ ~Answered(active[i])
    BY <1>1 DEF TableInv, Accepted, Answered
  <2>2. active[i] \in 1 .. Len(stream)
    BY <2>1, ActiveRead
  <2>3. QED
    BY <1>3, <2>1, <2>2 DEF JobInv, TableInv
<1>10. NoneLost'
  <2>1. SUFFICES ASSUME proc = "running", NEW q \in Requests, Accepted(q), ~Answered(q)
                 PROVE  active[stream'[q].id] = q
    BY <1>1 DEF NoneLost, Accepted, Answered
  <2>2. q \in 1 .. Len(stream)
    BY <1>2, <1>6, <2>1 DEF Requests
  <2>3. QED
    BY <1>3, <2>1, <2>2 DEF JobInv, NoneLost
<1>11. QueueInv'
  <2>1. SUFFICES ASSUME NEW k \in 1 .. Len(chan')
                 PROVE  /\ chan'[k].type = "request" => RequestQueued(chan'[k].req)
                        /\ chan'[k].type = "finished" => FinishQueued(chan'[k].req)
    BY <1>1 DEF QueueInv, RequestQueued, FinishQueued, Accepted, Answered
  <2>2. CASE k \in 1 .. Len(chan)
    BY <1>5, <2>2 DEF JobInv, QueueInv
  <2>3. CASE k = Len(chan) + 1
    BY <1>5, <1>6, <1>7, <2>3 DEF RequestQueued, RequestEvent
  <2>4. QED
    BY <1>2, <1>5, <2>2, <2>3
<1>12. OrderInv'
  <2>1. SUFFICES ASSUME NEW k \in 1 .. Len(chan'), NEW l \in 1 .. Len(chan'), k < l
                 PROVE  Follows(chan'[k], chan'[l])
    BY DEF OrderInv, Follows
  <2>2. k \in 1 .. Len(chan)
    BY <1>2, <1>5, <2>1
  <2>3. CASE l \in 1 .. Len(chan)
    BY <1>5, <2>1, <2>2, <2>3 DEF JobInv, OrderInv
  <2>4. CASE l = Len(chan) + 1
    <3>1. chan'[l].type = "request" /\ chan'[l].req = n
      BY <1>5, <2>4 DEF RequestEvent
    <3>2. chan[k].type = "request" => chan[k].req \in Requests /\ chan[k].req <= Len(stream)
      BY <2>2, EventRequest
    <3>3. chan[k].type = "request" => chan[k].req < n
      BY <1>2, <3>2 DEF Requests
    <3>4. QED
      BY <1>5, <2>2, <3>1, <3>3 DEF Follows
  <2>5. QED
    BY <1>2, <1>5, <2>3, <2>4
<1>13. ShutdownInv'
  <2>1. shutdown \in Int
    BY DEF TypeInv, TypeOK, LoopType
  <2>2. QED
    BY <1>1, <1>2, <1>3, <2>1 DEF JobInv, ShutdownInv, Accepted, Answered
<1>14. UnreadInv'
  BY <1>1, <1>2, <1>3 DEF JobInv, UnreadInv, Answered, Requests
<1>15. QED
  BY <1>8, <1>9, <1>10, <1>11, <1>12, <1>13, <1>14 DEF JobInv

LEMMA ReadEndJob == ASSUME TypeInv, JobInv, ReadEnd PROVE JobInv'
<1>1. PICK e \in {EofEvent, ErrorEvent} : chan' = Append(chan, e)
  BY DEF ReadEnd
<1>2. e \in Events /\ e.type \notin {"request", "finished"}
  BY SupervisorAssumption DEF Events, EofEvent, ErrorEvent
<1>3. /\ Len(chan') = Len(chan) + 1 /\ chan'[Len(chan) + 1] = e /\ Len(chan) \in Nat
      /\ \A k \in 1 .. Len(chan) : chan'[k] = chan[k]
  BY <1>1, <1>2, Sent1 DEF ReadEnd, ReaderRuns, TypeInv, TypeOK, ChanType
<1>4. UNCHANGED <<stream, reply, proc, shutdown, active, launcher, waiter>>
  BY DEF ReadEnd, loopVars, tableVars, jobVars
<1>5. Stages' /\ TableInv' /\ NoneLost' /\ ShutdownInv' /\ UnreadInv'
  BY <1>4 DEF JobInv, Stages, Stage, TableInv, NoneLost, ShutdownInv, UnreadInv, Accepted, Answered
<1>6. QueueInv'
  <2>1. SUFFICES ASSUME NEW k \in 1 .. Len(chan')
                 PROVE  /\ chan'[k].type = "request" => RequestQueued(chan'[k].req)
                        /\ chan'[k].type = "finished" => FinishQueued(chan'[k].req)
    BY <1>4 DEF QueueInv, RequestQueued, FinishQueued, Accepted, Answered
  <2>2. CASE k \in 1 .. Len(chan)
    BY <1>3, <2>2 DEF JobInv, QueueInv
  <2>3. CASE k = Len(chan) + 1
    BY <1>2, <1>3, <2>3
  <2>4. QED
    BY <1>3, <2>2, <2>3
<1>7. OrderInv'
  <2>1. SUFFICES ASSUME NEW k \in 1 .. Len(chan'), NEW l \in 1 .. Len(chan'), k < l
                 PROVE  Follows(chan'[k], chan'[l])
    BY DEF OrderInv, Follows
  <2>2. k \in 1 .. Len(chan)
    BY <1>3, <2>1
  <2>3. CASE l \in 1 .. Len(chan)
    BY <1>3, <2>1, <2>2, <2>3 DEF JobInv, OrderInv
  <2>4. CASE l = Len(chan) + 1
    BY <1>2, <1>3, <2>4 DEF Follows
  <2>5. QED
    BY <1>3, <2>3, <2>4
<1>8. QED
  BY <1>5, <1>6, <1>7 DEF JobInv

LEMMA PostJob == ASSUME TypeInv, JobInv, NEW r \in Requests, Post(r) PROVE JobInv'
<1>1. /\ chan' = Append(chan, FinishedEvent(r)) /\ Len(chan) < ChanCap
      /\ waiter[r] = "posting" /\ waiter' = [waiter EXCEPT ![r] = "done"]
      /\ UNCHANGED <<stream, reply, proc, shutdown, active, launcher>>
  BY DEF Post, ioVars, loopVars, tableVars
<1>2. waiter'[r] = "done" /\ \A q \in Requests : q # r => waiter'[q] = waiter[q]
  BY <1>1 DEF TypeInv, TypeOK, JobType
<1>3. FinishedEvent(r) \in Events
  BY SupervisorAssumption DEF FinishedEvent, Events, Requests
<1>4. /\ Len(chan') = Len(chan) + 1 /\ chan'[Len(chan) + 1] = FinishedEvent(r) /\ Len(chan) \in Nat
      /\ \A k \in 1 .. Len(chan) : chan'[k] = chan[k]
  BY <1>1, <1>3, Sent1 DEF TypeInv, TypeOK, ChanType
<1>5. Accepted(r) /\ ~Answered(r)
  BY <1>1 DEF JobInv, Stages, Stage, Accepted
<1>6. \A q \in Requests : Accepted(q)' <=> Accepted(q)
  BY <1>1, <1>2 DEF Accepted
<1>7. Stages'
  <2>1. SUFFICES ASSUME NEW q \in Requests PROVE Stage(q)'
    BY DEF Stages
  <2>2. Stage(q)
    BY DEF JobInv, Stages
  <2>3. CASE q = r
    BY <1>1, <1>2, <2>2, <2>3 DEF Stage, Accepted, Answered
  <2>4. CASE q # r
    BY <1>1, <1>2, <2>2, <2>4 DEF Stage, Accepted, Answered
  <2>5. QED
    BY <2>3, <2>4
<1>8. TableInv'
  BY <1>1, <1>6, ActiveRead DEF JobInv, TableInv, Answered
<1>9. NoneLost' /\ UnreadInv'
  BY <1>1, <1>6 DEF JobInv, NoneLost, UnreadInv, Answered
<1>10. ShutdownInv'
  <2>1. shutdown # 0 => shutdown \in Requests
    BY SupervisorAssumption DEF TypeInv, TypeOK, LoopType, Requests
  <2>2. QED
    BY <1>1, <1>6, <2>1 DEF JobInv, ShutdownInv, Answered
<1>11. QueueInv'
  <2>1. SUFFICES ASSUME NEW k \in 1 .. Len(chan')
                 PROVE  /\ chan'[k].type = "request" => RequestQueued(chan'[k].req) /\ chan'[k].req \in Requests
                        /\ chan'[k].type = "finished" =>
                              waiter'[chan'[k].req] = "done" /\ ~Answered(chan'[k].req)
    BY <1>1, <1>6 DEF QueueInv, RequestQueued, FinishQueued, Answered
  <2>2. CASE k \in 1 .. Len(chan)
    <3>1. chan[k].type \in {"request", "finished"} => chan[k].req \in Requests
      BY <2>2, EventRequest
    <3>2. QED
      BY <1>2, <1>4, <2>2, <3>1 DEF JobInv, QueueInv, FinishQueued
  <2>3. CASE k = Len(chan) + 1
    BY <1>2, <1>4, <1>5, <2>3 DEF FinishedEvent
  <2>4. QED
    BY <1>4, <2>2, <2>3
<1>12. OrderInv'
  <2>1. SUFFICES ASSUME NEW k \in 1 .. Len(chan'), NEW l \in 1 .. Len(chan'), k < l
                 PROVE  Follows(chan'[k], chan'[l])
    BY DEF OrderInv, Follows
  <2>2. k \in 1 .. Len(chan)
    BY <1>4, <2>1
  <2>3. CASE l \in 1 .. Len(chan)
    BY <1>4, <2>1, <2>2, <2>3 DEF JobInv, OrderInv
  <2>4. CASE l = Len(chan) + 1
    <3>1. chan[k].type = "finished" => waiter[chan[k].req] = "done"
      BY <2>2 DEF JobInv, QueueInv, FinishQueued
    <3>2. chan'[l].type = "finished" /\ chan'[l].req = r
      BY <1>4, <2>4 DEF FinishedEvent
    <3>3. QED
      BY <1>1, <1>4, <2>2, <3>1, <3>2 DEF Follows
  <2>5. QED
    BY <1>4, <2>3, <2>4
<1>13. QED
  BY <1>7, <1>8, <1>9, <1>10, <1>11, <1>12 DEF JobInv

\* Steps of waiters before their send, of launchers and guests, and of Drop:
\* they start no job, finish no waiter, write nothing and read nothing.
LEMMA ProcessJob ==
    ASSUME TypeInv, JobInv,
           UNCHANGED <<stream, chan, reply, proc, shutdown>>,
           \A i \in Ids : active'[i] = active[i] \/ (active'[i] = 0 /\ proc # "running"),
           \A r \in Requests :
              /\ waiter'[r] = "none" <=> waiter[r] = "none"
              /\ waiter'[r] = "done" <=> waiter[r] = "done"
              /\ launcher'[r] = "none" <=> launcher[r] = "none"
              /\ waiter'[r] \in {"cleaning", "posting", "done"} =>
                    launcher'[r] \in {"succeeded", "failed"}
    PROVE  JobInv'
<1>1. \A r \in Requests : Accepted(r)' <=> Accepted(r)
  BY DEF Accepted
<1>2. Stages'
  BY DEF JobInv, Stages, Stage, Accepted, Answered
<1>3. TableInv'
  <2>1. SUFFICES ASSUME NEW i \in Ids, active'[i] # 0
                 PROVE  stream[active'[i]].id = i /\ waiter'[active'[i]] # "none"
                        /\ reply[active'[i]] = <<>>
    BY DEF TableInv, Accepted, Answered
  <2>2. active'[i] = active[i] /\ active[i] # 0
    BY <2>1
  <2>3. active[i] \in Requests
    BY <2>2, ActiveRead
  <2>4. QED
    BY <2>2, <2>3 DEF JobInv, TableInv, Accepted, Answered
<1>4. NoneLost'
  <2>1. SUFFICES ASSUME proc = "running", NEW q \in Requests, Accepted(q), ~Answered(q)
                 PROVE  active'[stream[q].id] = q
    BY <1>1 DEF NoneLost, Answered
  <2>2. q \in 1 .. Len(stream)
    BY <2>1 DEF TypeInv, InRange, Accepted, Requests, TypeOK, IoType
  <2>3. stream[q].id \in Ids
    BY <2>2, FrameFields DEF TypeInv, TypeOK, IoType
  <2>4. QED
    BY <2>1, <2>3 DEF JobInv, NoneLost
<1>5. QueueInv'
  <2>1. SUFFICES ASSUME NEW k \in 1 .. Len(chan)
                 PROVE  /\ chan[k].type = "request" => RequestQueued(chan[k].req)'
                        /\ chan[k].type = "finished" => FinishQueued(chan[k].req)'
    BY DEF QueueInv
  <2>2. chan[k].type \in {"request", "finished"} => chan[k].req \in Requests
    BY EventRequest
  <2>3. /\ chan[k].type = "request" => RequestQueued(chan[k].req)
        /\ chan[k].type = "finished" => FinishQueued(chan[k].req)
    BY DEF JobInv, QueueInv
  <2>4. QED
    BY <1>1, <2>2, <2>3 DEF RequestQueued, FinishQueued, Accepted, Answered
<1>6. OrderInv'
  BY DEF JobInv, OrderInv
<1>7. ShutdownInv'
  <2>1. shutdown # 0 => shutdown \in Requests
    BY SupervisorAssumption DEF TypeInv, TypeOK, LoopType, Requests
  <2>2. QED
    BY <1>1, <2>1 DEF JobInv, ShutdownInv, Answered
<1>8. UnreadInv'
  BY DEF JobInv, UnreadInv, Answered
<1>9. QED
  BY <1>2, <1>3, <1>4, <1>5, <1>6, <1>7, <1>8 DEF JobInv

LEMMA DropJobJob == ASSUME TypeInv, JobInv, NEW i \in Ids, DropJob(i) PROVE JobInv'
<1>1. /\ UNCHANGED <<stream, chan, reply, proc, shutdown, waiter, launcher>>
      /\ proc = "dropping" /\ active' = [active EXCEPT ![i] = 0]
  BY DEF DropJob, ioVars, loopVars
<1>2. \A k \in Ids : active'[k] = active[k] \/ (active'[k] = 0 /\ proc # "running")
  BY <1>1 DEF TypeInv, TypeOK, TableType
<1>3. QED
  BY <1>1, <1>2, ProcessJob DEF JobInv, Stages, Stage

\* The steps between two launcher states, or two waiter states before the last.
LEMMA StepJob ==
    ASSUME TypeInv, JobInv, NEW r, NEW i,
           \/ /\ r \in Requests
              /\ \/ Reap(r) \/ CleanUp(r) \/ LauncherBoxes(r)
                 \/ LauncherSucceeds(r) \/ LauncherFails(r) \/ Killed(r)
           \/ i \in Ids /\ GuestDies(i)
           \/ ClientSide
    PROVE  JobInv'
<1> USE DEF ProcessUnchanged, Running
<1>1. UNCHANGED <<stream, chan, reply, proc, shutdown, active>>
  BY DEF Reap, CleanUp, LauncherBoxes, LauncherSucceeds, LauncherFails, Killed, GuestDies,
     ClientSide, PipeBreaks, PipeFills, PipeEmpties, OutUnchanged, ioVars, loopVars, tableVars
<1>2. \A q \in Requests :
         /\ waiter[q] = "none" <=> launcher[q] = "none"
         /\ waiter[q] \in {"cleaning", "posting", "done"} => launcher[q] \in {"succeeded", "failed"}
         /\ launcher[q] \in LauncherStates /\ waiter[q] \in WaiterStates
  BY DEF JobInv, Stages, Stage, TypeInv, TypeOK, JobType
<1>3. CASE r \in Requests /\ (Reap(r) \/ CleanUp(r))
  <2>1. UNCHANGED launcher
    BY <1>3 DEF Reap, CleanUp
  <2>2. \A q \in Requests : waiter'[q] = waiter[q] \/
           (/\ waiter[q] \in {"waiting", "cleaning"} /\ waiter'[q] \in {"cleaning", "posting"}
            /\ launcher[q] \in {"succeeded", "failed"})
    BY <1>2, <1>3 DEF Reap, CleanUp, TypeInv, TypeOK, JobType
  <2>3. QED
    BY <1>1, <1>2, <2>1, <2>2, ProcessJob
<1>4. CASE r \in Requests /\ \/ LauncherBoxes(r) \/ LauncherSucceeds(r)
                             \/ LauncherFails(r) \/ Killed(r)
  <2>1. UNCHANGED waiter
    BY <1>4 DEF LauncherBoxes, LauncherSucceeds, LauncherFails, Killed
  <2>2. \A q \in Requests : launcher'[q] = launcher[q] \/
           (launcher[q] \in {"starting", "boxed"} /\ launcher'[q] \in {"boxed", "succeeded", "failed"})
    BY <1>4 DEF LauncherBoxes, LauncherSucceeds, LauncherFails, Killed, TypeInv, TypeOK, JobType
  <2>3. QED
    BY <1>1, <1>2, <2>1, <2>2, ProcessJob
<1>5. CASE (i \in Ids /\ GuestDies(i)) \/ ClientSide
  <2>1. UNCHANGED <<waiter, launcher>>
    BY <1>5 DEF GuestDies, ClientSide, PipeBreaks, PipeFills, PipeEmpties, OutUnchanged, jobVars
  <2>2. QED
    BY <1>1, <1>2, <2>1, ProcessJob
<1>6. QED
  BY <1>3, <1>4, <1>5

LEMMA NextJob == ASSUME TypeInv, JobInv, [Next]_vars PROVE JobInv'
<1> USE DEF ioVars, loopVars, tableVars, jobVars
<1>1. CASE ReadFrame
  BY <1>1, ReadFrameJob
<1>2. CASE ReadEnd
  BY <1>2, ReadEndJob
<1>3. ASSUME NEW r \in Requests, HandleRequest(r) PROVE JobInv'
  <2>1. CASE AcceptRun(r)
    BY <2>1, AcceptJob
  <2>2. CASE HandleShutdown(r)
    BY <2>2, ShutdownJob
  <2>3. CASE SetupFails(r)
    <3>1. Receive(RequestEvent(r)) /\ Write(r, "error") /\ "error" \in Codes
      BY <2>3 DEF SetupFails, Handle, Codes
    <3>2. UNCHANGED <<stream, active, shutdown, launcher, waiter>>
      BY <2>3 DEF SetupFails
    <3>3. QED
      BY <3>1, <3>2, ReplyJob
  <2>4. CASE HandleCancel(r)
    <3>1. Receive(RequestEvent(r)) /\ UNCHANGED reply /\ proc' \in {"running", "dropping"}
      BY <2>4 DEF HandleCancel, Handle, Receive
    <3>2. UNCHANGED <<stream, active, shutdown, launcher, waiter>>
      BY <2>4 DEF HandleCancel
    <3>3. QED
      BY <3>1, <3>2, ReplyJob
  <2>5. CASE \/ RefuseClosing(r) \/ HandleHealth(r) \/ HandleUnknown(r)
             \/ RefuseRun(r) \/ StartFails(r) \/ HandleBadCancel(r)
    <3>1. OnlyReply(r) /\ Receive(RequestEvent(r))
      BY <2>5, OnlyReplies
    <3>2. UNCHANGED <<stream, active, shutdown, launcher, waiter>>
      BY <3>1 DEF OnlyReply
    <3>3. CASE \E code \in Codes : Write(r, code)
      BY <3>1, <3>2, <3>3, ReplyJob
    <3>4. CASE UNCHANGED <<reply, proc>>
      BY <3>1, <3>2, <3>4, ReplyJob DEF Receive
    <3>5. QED
      BY <3>1, <3>3, <3>4 DEF OnlyReply
  <2>6. QED
    BY <1>3, <2>1, <2>2, <2>3, <2>4, <2>5 DEF HandleRequest
<1>4. ASSUME NEW r \in Requests, Finish(r) PROVE JobInv'
  BY <1>4, FinishJob
<1>5. CASE HandleEof
  <2>1. Receive(EofEvent) /\ UNCHANGED reply /\ proc' \in {"running", "dropping"}
        /\ UNCHANGED <<stream, active, shutdown, launcher, waiter>>
    BY <1>5 DEF HandleEof, Receive
  <2>2. QED
    BY <2>1, ReplyJob
<1>6. CASE HandleStreamError
  <2>1. Receive(ErrorEvent) /\ UNCHANGED reply /\ proc' \in {"running", "dropping"}
        /\ UNCHANGED <<stream, active, shutdown, launcher, waiter>>
    BY <1>6 DEF HandleStreamError
  <2>2. QED
    BY <2>1, ReplyJob
<1>7. CASE Close
  BY <1>7, CloseJob
<1>8. CASE Drain \/ DropDone \/ Crash
  <2>1. chan' = <<>> /\ UNCHANGED <<stream, reply, shutdown, launcher, waiter>>
    BY <1>8 DEF Drain, DropDone, Crash
  <2>2. proc' \in Ends
    BY <1>8 DEF Drain, DropDone, Crash, Ends, CleanEnds
  <2>3. \A i \in Ids : active'[i] \in {0, active[i]}
    BY <1>8 DEF Drain, DropDone, Crash
  <2>4. QED
    BY <2>1, <2>2, <2>3, EndJob
<1>9. ASSUME NEW i \in Ids, DropJob(i) PROVE JobInv'
  BY <1>9, DropJobJob
<1>10. ASSUME NEW r \in Requests, Post(r) PROVE JobInv'
  BY <1>10, PostJob
<1>11. ASSUME NEW r \in Requests,
              \/ Reap(r) \/ CleanUp(r) \/ LauncherBoxes(r)
              \/ LauncherExits(r) \/ HostKills(r)
       PROVE  JobInv'
  BY <1>11, StepJob DEF LauncherExits, LauncherKilled, HostKills
<1>12. ASSUME NEW i \in Ids, GuestDies(i) PROVE JobInv'
  BY <1>12, StepJob
<1>13. CASE ClientSide
  BY <1>13, StepJob
<1>14. CASE UNCHANGED vars
  BY <1>14 DEF vars, JobInv, Stages, Stage, TableInv, NoneLost, QueueInv, RequestQueued,
     FinishQueued, OrderInv, ShutdownInv, UnreadInv, Accepted, Answered
<1>15. QED
  BY <1>1, <1>2, <1>3, <1>4, <1>5, <1>6, <1>7, <1>8, <1>9, <1>10, <1>11, <1>12, <1>13, <1>14
     DEF Next, Loop, Waiter, Terminated

LEMMA JobInvariance == Spec => [](TypeInv /\ JobInv)
<1>1. Init => TypeInv /\ JobInv
  BY InitType, InitJob
<1>2. TypeInv /\ JobInv /\ [Next]_vars => TypeInv' /\ JobInv'
  BY NextType, NextJob
<1>3. QED
  BY <1>1, <1>2, PTL DEF Spec

-----------------------------------------------------------------------------
(* The safety theorems.                                                     *)

\* While the loop runs, no launcher and no waiter is outside the table (NoStrayJob).
THEOREM NoStrayJobHolds == Spec => []NoStrayJob
<1>1. TypeInv /\ JobInv => NoStrayJob
  <2> SUFFICES ASSUME TypeInv, JobInv, proc = "running", NEW r \in Requests,
                      Running(r) \/ (Accepted(r) /\ ~Answered(r))
               PROVE  active[stream[r].id] = r
    BY DEF NoStrayJob
  <2>1. Running(r) => Accepted(r) /\ ~Answered(r)
    BY DEF JobInv, Stages, Stage, Running, Accepted
  <2>2. QED
    BY <2>1 DEF JobInv, NoneLost
<1>2. QED
  BY <1>1, JobInvariance, PTL

-----------------------------------------------------------------------------
(* The cgroups, for AnsweredAfterTeardown.                                  *)

Open(r) == Accepted(r) /\ ~Answered(r)
SameId(r, q) == stream[r].id = stream[q].id

\* Two unanswered jobs never share an ID, and with it a cgroup.
OpenApart == \A r, q \in Requests : Open(r) /\ Open(q) /\ SameId(r, q) => r = q

\* A job that reuses the ID of an answered one was read after it.
LaterOpen ==
    \A r, q \in Requests : Accepted(r) /\ Answered(r) /\ Open(q) /\ SameId(r, q) => r < q

\* What AnsweredAfterTeardown asks of the cgroup.
Clean(r) ==
    \/ r \in leaked
    \/ box[stream[r].id] = "none"
    \/ \E q \in r + 1 .. Len(stream) :
          stream[q].id = stream[r].id /\ (Accepted(q) \/ q \in leaked)

Posted(r) == waiter[r] \in {"posting", "done"}
CleanPosted == \A r \in Requests : Posted(r) => Clean(r)

BoxInv == OpenApart /\ LaterOpen /\ CleanPosted

LEMMA InitBox == Init => BoxInv
BY DEF Init, BoxInv, OpenApart, LaterOpen, CleanPosted, Open, Posted, Accepted

\* Steps that start and answer no job.
LEMMA OpenKept ==
    ASSUME BoxInv, UNCHANGED stream,
           \A r \in Requests : (Accepted(r)' <=> Accepted(r)) /\ (Open(r)' <=> Open(r))
    PROVE  OpenApart' /\ LaterOpen'
BY DEF BoxInv, OpenApart, LaterOpen, Open, SameId

\* Steps that may change a cgroup.
LEMMA CleanKept ==
    ASSUME BoxInv, UNCHANGED stream, leaked \subseteq leaked',
           \A r : Accepted(r) => Accepted(r)',
           \A r \in Requests : Posted(r)' =>
              \/ Clean(r)'
              \/ Posted(r) /\ (box'[stream[r].id] = "none" \/ box[stream[r].id] # "none")
    PROVE  CleanPosted'
<1>1. SUFFICES ASSUME NEW r \in Requests, Posted(r),
                      box'[stream[r].id] = "none" \/ box[stream[r].id] # "none"
               PROVE  Clean(r)'
  BY DEF CleanPosted
<1>2. Clean(r)
  BY <1>1 DEF BoxInv, CleanPosted
<1>3. QED
  BY <1>1, <1>2 DEF Clean

\* Steps that only move requests, responses of requests that are no jobs, and
\* the table.
LEMMA BoxKept ==
    ASSUME BoxInv, UNCHANGED <<stream, leaked, box>>,
           \A r : Accepted(r)' <=> Accepted(r),
           \A r \in Requests : Posted(r)' => Posted(r),
           \A r \in Requests : Accepted(r) => reply'[r] = reply[r]
    PROVE  BoxInv'
<1>1. OpenApart' /\ LaterOpen'
  BY OpenKept DEF Open, Answered
<1>2. CleanPosted'
  BY CleanKept DEF BoxInv, CleanPosted
<1>3. QED
  BY <1>1, <1>2 DEF BoxInv

\* The job q that holds the cgroup of an ID comes after every posted job of it.
LEMMA HolderLater ==
    ASSUME TypeInv, JobInv, BoxInv, NEW q \in Requests, Running(q),
           NEW r \in Requests, Posted(r), SameId(r, q)
    PROVE  /\ q \in r + 1 .. Len(stream)
           /\ stream[q].id = stream[r].id /\ Accepted(q)
<1>1. Open(q) /\ ~Posted(q) /\ q <= Len(stream)
  BY DEF JobInv, Stages, Stage, Running, Open, Accepted, Posted, TypeInv, InRange
<1>2. Accepted(r) /\ r # q
  BY <1>1 DEF Posted, Accepted
<1>3. Answered(r)
  BY <1>1, <1>2 DEF BoxInv, OpenApart, Open
<1>4. r < q
  BY <1>1, <1>2, <1>3 DEF BoxInv, LaterOpen
<1>5. QED
  BY <1>1, <1>4 DEF SameId, Open, Requests, TypeInv, TypeOK, IoType

LEMMA AcceptBox == ASSUME TypeInv, JobInv, BoxInv, NEW r \in Requests, AcceptRun(r) PROVE BoxInv'
<1>1. /\ Receive(RequestEvent(r)) /\ UNCHANGED <<stream, reply, leaked, box>>
      /\ active[stream[r].id] = 0 /\ waiter' = [waiter EXCEPT ![r] = "waiting"]
  BY DEF AcceptRun, Handle, RunRefused, ioVars
<1>2. Len(chan) >= 1 /\ chan[1] = RequestEvent(r) /\ Len(chan) \in Nat /\ proc = "running"
  BY <1>1, Taken DEF TypeInv, TypeOK, ChanType, Receive
<1>3. 1 \in 1 .. Len(chan) /\ chan[1].type = "request" /\ chan[1].req = r
  BY <1>2 DEF RequestEvent
<1>4. ~Accepted(r) /\ ~Answered(r) /\ \A q \in Requests : Accepted(q) => q < r
  BY <1>3 DEF JobInv, QueueInv, RequestQueued
<1>5. \A q \in Requests : q # r => waiter'[q] = waiter[q]
  BY <1>1 DEF TypeInv, TypeOK, JobType
<1>6. waiter'[r] = "waiting"
  BY <1>1 DEF TypeInv, TypeOK, JobType
<1>7. \A q \in Requests : q # r => (Accepted(q)' <=> Accepted(q)) /\ (Open(q)' <=> Open(q))
  BY <1>1, <1>5 DEF Open, Accepted, Answered
<1>8. \A q \in Requests : Open(q) => ~SameId(q, r)
  BY <1>1, <1>2 DEF JobInv, NoneLost, Open, SameId, Requests
<1>9. OpenApart'
  <2>1. SUFFICES ASSUME NEW p \in Requests, NEW q \in Requests, Open(p)', Open(q)', SameId(p, q)'
                 PROVE  p = q
    BY DEF OpenApart
  <2>2. SameId(p, q) /\ SameId(q, p)
    BY <1>1, <2>1 DEF SameId
  <2>3. QED
    BY <1>7, <1>8, <2>1, <2>2 DEF BoxInv, OpenApart
<1>10. LaterOpen'
  <2>1. SUFFICES ASSUME NEW p \in Requests, NEW q \in Requests,
                        Accepted(p)', Answered(p)', Open(q)', SameId(p, q)'
                 PROVE  p < q
    BY DEF LaterOpen
  <2>2. p # r /\ Accepted(p) /\ Answered(p) /\ SameId(p, q)
    BY <1>1, <1>4, <1>7, <2>1 DEF Answered, SameId
  <2>3. CASE q = r
    BY <1>4, <2>2, <2>3
  <2>4. CASE q # r
    BY <1>7, <2>1, <2>2, <2>4 DEF BoxInv, LaterOpen
  <2>5. QED
    BY <2>3, <2>4
<1>11. CleanPosted'
  <2>1. SUFFICES ASSUME NEW q \in Requests, Posted(q)' PROVE Clean(q)'
    BY DEF CleanPosted
  <2>2. q # r /\ Posted(q)
    BY <1>5, <1>6, <2>1 DEF Posted
  <2>3. Clean(q)
    BY <2>2 DEF BoxInv, CleanPosted
  <2>4. q \in leaked \/ box[stream[q].id] = "none" => Clean(q)'
    BY <1>1 DEF Clean
  <2>5. ASSUME NEW x \in q + 1 .. Len(stream), stream[x].id = stream[q].id,
               Accepted(x) \/ x \in leaked
        PROVE  Clean(q)'
    <3>1. x \in Requests
      BY SupervisorAssumption DEF Requests, TypeInv, TypeOK, IoType
    <3>2. Accepted(x) => Accepted(x)'
      BY <1>5, <1>6, <3>1 DEF Accepted
    <3>3. QED
      BY <1>1, <2>5, <3>2 DEF Clean
  <2>6. QED
    BY <2>3, <2>4, <2>5 DEF Clean
<1>12. QED
  BY <1>9, <1>10, <1>11 DEF BoxInv

LEMMA SetupBox == ASSUME TypeInv, JobInv, BoxInv, NEW r \in Requests, SetupFails(r) PROVE BoxInv'
<1>1. /\ Receive(RequestEvent(r)) /\ UNCHANGED <<stream, waiter>> /\ Write(r, "error")
      /\ \/ box' = [box EXCEPT ![stream[r].id] = "none"] /\ UNCHANGED leaked
         \/ box' = [box EXCEPT ![stream[r].id] = "dead"] /\ leaked' = leaked \cup {r}
  BY DEF SetupFails, Handle, ioVars
<1>2. Len(chan) >= 1 /\ chan[1] = RequestEvent(r) /\ Len(chan) \in Nat
  BY <1>1, Taken DEF TypeInv, TypeOK, ChanType
<1>3. 1 \in 1 .. Len(chan) /\ chan[1].type = "request" /\ chan[1].req = r
  BY <1>2 DEF RequestEvent
<1>4. ~Accepted(r) /\ ~Answered(r) /\ \A q \in Requests : Accepted(q) => q < r
  BY <1>3 DEF JobInv, QueueInv, RequestQueued
<1>5. r \in 1 .. Len(stream) /\ stream[r].id \in Ids
  BY <1>1, RequestRead
<1>6. \A q \in Requests : q # r => reply'[q] = reply[q]
  BY <1>1, <1>4, WriteOnce DEF Answered, Codes
<1>7. OpenApart' /\ LaterOpen'
  BY <1>1, <1>4, <1>6, OpenKept DEF Open, Accepted, Answered
<1>8. CleanPosted'
  <2>1. SUFFICES ASSUME NEW q \in Requests, Posted(q)
                 PROVE  \/ Clean(q)'
                        \/ box'[stream[q].id] = "none" \/ box[stream[q].id] # "none"
    BY <1>1, CleanKept DEF Accepted, Posted
  <2>2. Accepted(q) /\ q < r
    BY <1>4, <2>1 DEF Posted, Accepted
  <2>3. q \in 1 .. Len(stream) /\ r \in q + 1 .. Len(stream)
    BY <1>5, <2>2 DEF Requests, TypeInv, TypeOK, IoType
  <2>4. stream[q].id \in Ids
    BY <2>3, FrameFields DEF TypeInv, TypeOK, IoType
  <2>5. CASE stream[q].id # stream[r].id
    <3>1. box'[stream[q].id] = box[stream[q].id]
      BY <1>1, <1>5, <2>4, <2>5 DEF TypeInv, TypeOK, JobType
    <3>2. QED
      BY <3>1
  <2>6. CASE stream[q].id = stream[r].id
    <3>1. CASE r \in leaked'
      BY <1>1, <2>3, <2>6, <3>1 DEF Clean
    <3>2. CASE box' = [box EXCEPT ![stream[r].id] = "none"]
      BY <1>5, <2>6, <3>2 DEF TypeInv, TypeOK, JobType
    <3>3. QED
      BY <1>1, <3>1, <3>2
  <2>7. QED
    BY <2>5, <2>6
<1>9. QED
  BY <1>7, <1>8 DEF BoxInv

LEMMA FinishBox == ASSUME TypeInv, JobInv, BoxInv, NEW r \in Requests, Finish(r) PROVE BoxInv'
<1>1. active[stream[r].id] = r /\ waiter[r] = "done" /\ ~Answered(r) /\ r # 0
  BY FinishKnown DEF Finish, Requests
<1>2. /\ UNCHANGED <<stream, waiter, leaked, box>>
      /\ \E code \in Codes : Write(r, code)
  BY <1>1 DEF Finish, ioVars, jobVars, ResultCodes, Codes
<1>3. \A q \in Requests : q # r => reply'[q] = reply[q]
  BY <1>1, <1>2, WriteOnce DEF Answered
<1>4. Open(r)
  BY <1>1 DEF Open, Accepted
<1>5. \A q \in Requests : Open(q)' => Open(q)
  BY <1>2, <1>3, <1>4 DEF Open, Accepted, Answered
<1>6. OpenApart'
  BY <1>2, <1>5 DEF BoxInv, OpenApart, SameId
<1>7. LaterOpen'
  <2>1. SUFFICES ASSUME NEW p \in Requests, NEW q \in Requests,
                        Accepted(p)', Answered(p)', Open(q)', SameId(p, q)'
                 PROVE  p < q
    BY DEF LaterOpen
  <2>2. Accepted(p) /\ Open(q) /\ SameId(p, q) /\ p # q
    BY <1>2, <1>5, <2>1 DEF Accepted, SameId, Open
  <2>3. Answered(p)
    BY <2>2 DEF BoxInv, OpenApart, Open
  <2>4. QED
    BY <2>2, <2>3 DEF BoxInv, LaterOpen
<1>8. CleanPosted'
  BY <1>2, CleanKept DEF Accepted, Posted
<1>9. QED
  BY <1>6, <1>7, <1>8 DEF BoxInv

\* A cleanup removes the cgroup or leaves it and says so.
LEMMA CleanupKept ==
    ASSUME TypeInv, NEW i \in Ids, NEW r, CleanupJob(i, r)
    PROVE  /\ leaked \subseteq leaked'
           /\ \A j \in Ids : box'[j] = "none" \/ box'[j] = box[j]
           /\ box'[i] = "none" \/ r \in leaked'
BY DEF CleanupJob, TypeInv, TypeOK, JobType

LEMMA WaiterBox ==
    ASSUME TypeInv, JobInv, BoxInv, NEW r \in Requests, Reap(r) \/ CleanUp(r) \/ Post(r)
    PROVE  BoxInv'
<1>1. UNCHANGED <<stream, reply>>
  BY DEF Reap, CleanUp, Post, ioVars
<1>2. waiter[r] # "none" /\ r \in 1 .. Len(stream) /\ stream[r].id \in Ids
  <2>1. waiter[r] # "none"
    BY DEF Reap, CleanUp, Post
  <2>2. r \in 1 .. Len(stream)
    BY <2>1 DEF TypeInv, InRange, TypeOK, IoType, Requests
  <2>3. QED
    BY <2>1, <2>2, FrameFields DEF TypeInv, TypeOK, IoType
<1>3. \A q \in Requests : q # r => waiter'[q] = waiter[q]
  BY DEF Reap, CleanUp, Post, TypeInv, TypeOK, JobType
<1>4. waiter'[r] \in {"cleaning", "posting", "done"}
  BY DEF Reap, CleanUp, Post, TypeInv, TypeOK, JobType
<1>5. \A q \in Requests : Accepted(q)' <=> Accepted(q)
  BY <1>2, <1>3, <1>4 DEF Accepted
<1>6. OpenApart' /\ LaterOpen'
  BY <1>1, <1>5, OpenKept DEF Open, Answered
<1>7. leaked \subseteq leaked' /\ \A j \in Ids : box'[j] = "none" \/ box'[j] = box[j]
  <2>1. CASE Reap(r) \/ Post(r)
    BY <2>1 DEF Reap, Post
  <2>2. CASE CleanUp(r)
    BY <1>2, <2>2, CleanupKept DEF CleanUp
  <2>3. QED
    BY <2>1, <2>2
<1>8. Posted(r)' => Posted(r) \/ (box'[stream[r].id] = "none" \/ r \in leaked')
  <2>1. CASE Reap(r) \/ Post(r)
    BY <2>1 DEF Reap, Post, Posted, TypeInv, TypeOK, JobType
  <2>2. CASE CleanUp(r)
    BY <1>2, <2>2, CleanupKept DEF CleanUp
  <2>3. QED
    BY <2>1, <2>2
<1>9. CleanPosted'
  <2>1. SUFFICES ASSUME NEW q \in Requests, Posted(q)'
                 PROVE  Clean(q)'
    BY DEF CleanPosted
  <2>2. q \in 1 .. Len(stream) /\ stream[q].id \in Ids
    <3>1. Accepted(q)
      BY <1>5, <2>1 DEF Posted, Accepted
    <3>2. q \in 1 .. Len(stream)
      BY <3>1 DEF Accepted, TypeInv, InRange, TypeOK, IoType, Requests
    <3>3. QED
      BY <3>2, FrameFields DEF TypeInv, TypeOK, IoType
  <2>3. CASE Posted(q)
    <3>1. Clean(q)
      BY <2>3 DEF BoxInv, CleanPosted
    <3>2. \A x \in q + 1 .. Len(stream) : Accepted(x) => Accepted(x)'
      <4>1. \A x \in q + 1 .. Len(stream) : x \in Requests
        BY <2>2, SupervisorAssumption DEF Requests, TypeInv, TypeOK, IoType
      <4>2. QED
        BY <1>5, <4>1
    <3>3. q \in leaked => Clean(q)'
      BY <1>7 DEF Clean
    <3>4. box[stream[q].id] = "none" => Clean(q)'
      BY <1>1, <1>7, <2>2 DEF Clean
    <3>5. QED
      BY <1>1, <1>7, <3>1, <3>2, <3>3, <3>4 DEF Clean
  <2>4. CASE ~Posted(q)
    <3>1. q = r
      BY <1>3, <2>1, <2>4 DEF Posted
    <3>2. QED
      BY <1>1, <1>8, <2>1, <2>4, <3>1 DEF Clean
  <2>5. QED
    BY <2>3, <2>4
<1>10. QED
  BY <1>6, <1>9 DEF BoxInv

\* Processes come and go: a cgroup may get a guest again only for a later job.
LEMMA ProcessBox ==
    ASSUME TypeInv, JobInv, BoxInv,
           UNCHANGED <<stream, reply, waiter, leaked>>,
           \A i \in Ids :
              \/ box'[i] = "none" \/ box[i] # "none"
              \/ \E q \in Requests : Running(q) /\ stream[q].id = i
    PROVE  BoxInv'
<1>1. OpenApart' /\ LaterOpen'
  BY OpenKept DEF Open, Accepted, Answered
<1>2. CleanPosted'
  <2>1. SUFFICES ASSUME NEW r \in Requests, Posted(r),
                        box'[stream[r].id] # "none", box[stream[r].id] = "none"
                 PROVE  Clean(r)'
    BY CleanKept DEF Accepted, Posted
  <2>2. stream[r].id \in Ids
    <3>1. r \in 1 .. Len(stream)
      BY <2>1 DEF Posted, TypeInv, InRange, TypeOK, IoType, Requests
    <3>2. QED
      BY <3>1, FrameFields DEF TypeInv, TypeOK, IoType
  <2>3. PICK q \in Requests : Running(q) /\ stream[q].id = stream[r].id
    BY <2>1, <2>2
  <2>4. q \in r + 1 .. Len(stream) /\ stream[q].id = stream[r].id /\ Accepted(q)
    BY <2>1, <2>3, HolderLater DEF SameId
  <2>5. QED
    BY <2>4 DEF Clean, Accepted
<1>3. QED
  BY <1>1, <1>2 DEF BoxInv

LEMMA LauncherBox ==
    ASSUME TypeInv, JobInv, BoxInv, NEW r, NEW i,
           \/ /\ r \in Requests
              /\ LauncherBoxes(r) \/ LauncherSucceeds(r) \/ LauncherFails(r) \/ Killed(r)
           \/ i \in Ids /\ GuestDies(i)
    PROVE  BoxInv'
<1>1. UNCHANGED <<stream, reply, waiter, leaked>>
  BY DEF LauncherBoxes, LauncherSucceeds, LauncherFails, Killed, GuestDies, ProcessUnchanged, ioVars
<1>2. CASE r \in Requests /\ (LauncherBoxes(r) \/ LauncherSucceeds(r) \/ LauncherFails(r) \/ Killed(r))
  <2>1. \A j \in Ids : j # stream[r].id => box'[j] = box[j]
    BY <1>2 DEF LauncherBoxes, LauncherSucceeds, LauncherFails, Killed, TypeInv, TypeOK, JobType
  <2>2. Running(r)
    BY <1>2 DEF LauncherBoxes, LauncherSucceeds, LauncherFails, Killed, Running
  <2>3. QED
    BY <1>1, <1>2, <2>1, <2>2, ProcessBox
<1>3. CASE i \in Ids /\ GuestDies(i)
  <2>1. \A j \in Ids : box'[j] = box[j] \/ box[j] # "none"
    BY <1>3 DEF GuestDies, TypeInv, TypeOK, JobType
  <2>2. QED
    BY <1>1, <2>1, ProcessBox
<1>4. QED
  BY <1>2, <1>3

LEMMA DropJobBox == ASSUME TypeInv, JobInv, BoxInv, NEW i \in Ids, DropJob(i) PROVE BoxInv'
<1>1. UNCHANGED <<stream, reply, waiter>> /\ CleanupJob(i, active[i])
  BY DEF DropJob, ioVars
<1>2. OpenApart' /\ LaterOpen'
  BY <1>1, OpenKept DEF Open, Accepted, Answered
<1>3. leaked \subseteq leaked' /\ \A j \in Ids : box'[j] = "none" \/ box'[j] = box[j]
  BY <1>1, CleanupKept
<1>4. CleanPosted'
  <2>1. \A r \in Requests : Posted(r) => stream[r].id \in Ids
    <3>1. SUFFICES ASSUME NEW r \in Requests, Posted(r) PROVE stream[r].id \in Ids
      OBVIOUS
    <3>2. r \in 1 .. Len(stream)
      BY <3>1 DEF Posted, TypeInv, InRange, TypeOK, IoType, Requests
    <3>3. QED
      BY <3>2, FrameFields DEF TypeInv, TypeOK, IoType
  <2>2. \A r \in Requests : Posted(r)' => Posted(r)
    BY <1>1 DEF Posted
  <2>3. \A r : Accepted(r) => Accepted(r)'
    BY <1>1 DEF Accepted
  <2>4. \A r \in Requests : Posted(r)' =>
           Posted(r) /\ (box'[stream[r].id] = "none" \/ box[stream[r].id] # "none")
    BY <1>3, <2>1, <2>2
  <2>5. QED
    BY <1>1, <1>3, <2>3, <2>4, CleanKept
<1>5. QED
  BY <1>2, <1>4 DEF BoxInv

LEMMA ReadFrameBox == ASSUME TypeInv, JobInv, BoxInv, ReadFrame PROVE BoxInv'
<1>1. /\ UNCHANGED <<reply, waiter, leaked, box>>
      /\ \E f \in Frames : stream' = Append(stream, f)
  BY DEF ReadFrame, jobVars
<1>2. stream \in Seq(Frames)
  BY DEF TypeInv, TypeOK, IoType
<1> HIDE DEF Frames
<1>3. Len(stream') = Len(stream) + 1 /\ \A r \in 1 .. Len(stream) : stream'[r] = stream[r]
  BY <1>1, <1>2
<1>4. \A r \in Requests : Accepted(r) => r \in 1 .. Len(stream)
  BY DEF Accepted, TypeInv, InRange, TypeOK, IoType, Requests
<1>5. \A r \in Requests : (Accepted(r)' <=> Accepted(r)) /\ (Open(r)' <=> Open(r))
  BY <1>1 DEF Open, Accepted, Answered
<1>6. \A r, q \in Requests : Accepted(r) /\ Accepted(q) => (SameId(r, q)' <=> SameId(r, q))
  BY <1>3, <1>4 DEF SameId
<1>7. OpenApart' /\ LaterOpen'
  BY <1>1, <1>5, <1>6 DEF BoxInv, OpenApart, LaterOpen, Open, Answered
<1>8. CleanPosted'
  <2>1. SUFFICES ASSUME NEW r \in Requests, Posted(r) PROVE Clean(r)'
    BY <1>1 DEF CleanPosted, Posted
  <2>2. Clean(r) /\ r \in 1 .. Len(stream) /\ Len(stream) \in Nat
    BY <1>2, <1>4, <2>1 DEF BoxInv, CleanPosted, Posted, Accepted
  <2>3. \A q \in r + 1 .. Len(stream) :
           q \in r + 1 .. Len(stream') /\ stream'[q] = stream[q] /\ stream'[r] = stream[r]
    BY <1>3, <2>2
  <2>4. r \in leaked \/ box[stream[r].id] = "none" => Clean(r)'
    BY <1>1, <1>3, <2>2 DEF Clean
  <2>5. ASSUME NEW q \in r + 1 .. Len(stream),
               stream[q].id = stream[r].id, Accepted(q) \/ q \in leaked
        PROVE  Clean(r)'
    BY <1>1, <2>3, <2>5 DEF Clean, Accepted
  <2>6. QED
    BY <2>2, <2>4, <2>5 DEF Clean
<1>9. QED
  BY <1>7, <1>8 DEF BoxInv

\* Answering a request from the channel answers no job.
LEMMA ReplyBox ==
    ASSUME TypeInv, JobInv, BoxInv, NEW r \in Requests, OnlyReply(r), Receive(RequestEvent(r))
    PROVE  BoxInv'
<1>1. Len(chan) >= 1 /\ chan[1] = RequestEvent(r) /\ Len(chan) \in Nat
  BY Taken DEF TypeInv, TypeOK, ChanType
<1>2. 1 \in 1 .. Len(chan) /\ chan[1].type = "request" /\ chan[1].req = r
  BY <1>1 DEF RequestEvent
<1>3. ~Accepted(r) /\ ~Answered(r)
  BY <1>2 DEF JobInv, QueueInv, RequestQueued
<1>4. \A q \in Requests : q # r => reply'[q] = reply[q]
  BY <1>3, WriteOnce DEF OnlyReply, Answered
<1>5. QED
  BY <1>3, <1>4, BoxKept DEF OnlyReply, Accepted, Posted, ioVars, jobVars

LEMMA NextBox == ASSUME TypeInv, JobInv, BoxInv, [Next]_vars PROVE BoxInv'
<1>1. CASE ReadFrame
  BY <1>1, ReadFrameBox
<1>2. ASSUME NEW r \in Requests, HandleRequest(r) PROVE BoxInv'
  <2>1. CASE AcceptRun(r)
    BY <2>1, AcceptBox
  <2>2. CASE SetupFails(r)
    BY <2>2, SetupBox
  <2>3. CASE HandleCancel(r) \/ HandleShutdown(r)
    BY <2>3, BoxKept DEF HandleCancel, HandleShutdown, Accepted, Posted, ioVars
  <2>4. CASE \/ RefuseClosing(r) \/ HandleHealth(r) \/ HandleUnknown(r)
             \/ RefuseRun(r) \/ StartFails(r) \/ HandleBadCancel(r)
    BY <2>4, OnlyReplies, ReplyBox
  <2>5. QED
    BY <1>2, <2>1, <2>2, <2>3, <2>4 DEF HandleRequest
<1>3. ASSUME NEW r \in Requests, Finish(r) PROVE BoxInv'
  BY <1>3, FinishBox
<1>4. CASE Close
  <2>1. \A r \in Requests : Accepted(r) => reply'[r] = reply[r]
    BY <1>4 DEF Close, JobInv, ShutdownInv, TypeInv, TypeOK, LoopType
  <2>2. UNCHANGED <<stream, waiter, leaked, box>>
    BY <1>4 DEF Close, ioVars, jobVars
  <2>3. QED
    BY <2>1, <2>2, BoxKept DEF Accepted, Posted
<1>5. CASE \/ ReadEnd \/ HandleEof \/ HandleStreamError \/ Drain \/ DropDone
           \/ Crash \/ ClientSide \/ UNCHANGED vars
  <2>1. UNCHANGED <<stream, reply, waiter, leaked, box>>
    BY <1>5 DEF ReadEnd, HandleEof, HandleStreamError, Drain, DropDone, Crash, ClientSide,
       PipeBreaks, PipeFills, PipeEmpties, OutUnchanged,
       vars, ioVars, jobVars
  <2>2. QED
    BY <2>1, BoxKept DEF Accepted, Posted
<1>6. ASSUME NEW i \in Ids, DropJob(i) PROVE BoxInv'
  BY <1>6, DropJobBox
<1>7. ASSUME NEW r \in Requests, Waiter(r) PROVE BoxInv'
  BY <1>7, WaiterBox DEF Waiter
<1>8. ASSUME NEW r \in Requests, LauncherBoxes(r) \/ LauncherExits(r) \/ HostKills(r)
      PROVE  BoxInv'
  BY <1>8, LauncherBox DEF LauncherExits, LauncherKilled, HostKills
<1>9. ASSUME NEW i \in Ids, GuestDies(i) PROVE BoxInv'
  BY <1>9, LauncherBox
<1>10. QED
  BY <1>1, <1>2, <1>3, <1>4, <1>5, <1>6, <1>7, <1>8, <1>9 DEF Next, Loop, Terminated

LEMMA BoxInvariance == Spec => [](TypeInv /\ JobInv /\ BoxInv)
<1>1. Init => TypeInv /\ JobInv /\ BoxInv
  BY InitType, InitJob, InitBox
<1>2. TypeInv /\ JobInv /\ BoxInv /\ [Next]_vars => TypeInv' /\ JobInv' /\ BoxInv'
  BY NextType, NextJob, NextBox
<1>3. QED
  BY <1>1, <1>2, PTL DEF Spec

\* A run is answered only after its launcher was reaped and its cgroup removed or
\* reported, whoever uses the ID next (AnsweredAfterTeardown).
THEOREM AnsweredAfterTeardownHolds == Spec => []AnsweredAfterTeardown
<1>1. TypeInv /\ JobInv /\ BoxInv => AnsweredAfterTeardown
  <2> SUFFICES ASSUME TypeInv, JobInv, BoxInv, NEW r \in Requests, Accepted(r), Answered(r)
               PROVE  waiter[r] = "done" /\ ~Running(r) /\ Clean(r)
    BY DEF AnsweredAfterTeardown, Clean
  <2>1. waiter[r] = "done" /\ launcher[r] \in {"succeeded", "failed"}
    BY DEF JobInv, Stages, Stage
  <2>2. Clean(r)
    BY <2>1 DEF BoxInv, CleanPosted, Posted
  <2>3. QED
    BY <2>1, <2>2 DEF Running
<1>2. QED
  BY <1>1, BoxInvariance, PTL

-----------------------------------------------------------------------------
(* The limits.                                                              *)

\* Only accepting a run takes a slot or reserves anything.
Shrinks ==
    /\ \A i \in Ids : active[i] = 0 => active'[i] = 0
    /\ reserved' <= reserved
    /\ wsReserved' <= wsReserved \/ wsReserved' = 0

\* The request a table entry stands for asked for amounts.
LEMMA EntryRead ==
    ASSUME TypeInv, NEW i \in Ids, active[i] # 0
    PROVE  stream[active[i]].need \in Nat /\ stream[active[i]].ws \in Nat
<1>1. active[i] \in 1 .. Len(stream)
  BY SupervisorAssumption DEF TypeInv, TypeOK, TableType, IoType, InRange
<1>2. QED
  BY <1>1, FrameFields DEF TypeInv, TypeOK, IoType

\* What is left of the capacity, and of the bytes, after a part is given back.
LEMMA ReleasedBound ==
    ASSUME NEW a \in Nat, NEW b \in Nat
    PROVE  Released(a, b) \in Nat /\ Released(a, b) <= a
BY DEF Released, Monus

LEMMA OnlyAcceptGrows ==
    ASSUME TypeInv, [Next]_vars
    PROVE  Shrinks \/ \E r \in Requests : AcceptRun(r)
<1> SUFFICES ASSUME ~\E r \in Requests : AcceptRun(r) PROVE Shrinks
  OBVIOUS
<1> USE DEF tableVars
<1>1. reserved \in Nat /\ wsReserved \in Int /\ active \in [Ids -> 0 .. MaxFrames]
  BY DEF TypeInv, TypeOK, TableType
<1>2. UNCHANGED <<active, reserved, wsReserved>> => Shrinks
  BY <1>1 DEF Shrinks
<1>3. ASSUME NEW r \in Requests, HandleRequest(r) PROVE Shrinks
  <2>1. CASE StartFails(r) \/ SetupFails(r)
    BY <1>2, <2>1, StartKept
  <2>2. CASE ~(StartFails(r) \/ SetupFails(r))
    BY <1>2, <1>3, <2>2 DEF HandleRequest, RefuseClosing, HandleHealth, HandleUnknown, RefuseRun,
       HandleCancel, HandleBadCancel, HandleShutdown
  <2>3. QED
    BY <2>1, <2>2
<1>4. ASSUME NEW r \in Requests, Finish(r) PROVE Shrinks
  <2>1. stream[r].id \in Ids
    BY <1>4, RequestRead DEF Finish
  <2>2. CASE active[stream[r].id] = 0
    BY <1>2, <1>4, <2>2 DEF Finish
  <2>3. CASE active[stream[r].id] # 0
    <3>1. /\ stream[active[stream[r].id]].need \in Nat
          /\ stream[active[stream[r].id]].ws \in Nat
      BY <2>1, <2>3, EntryRead
    <3>2. /\ active' = [active EXCEPT ![stream[r].id] = 0]
          /\ reserved' = Released(reserved, stream[active[stream[r].id]].need)
          /\ wsReserved' = Freed(wsReserved, stream[active[stream[r].id]].ws)
      BY <1>4, <2>3 DEF Finish
    <3>3. reserved' <= reserved
      BY <1>1, <3>1, <3>2, ReleasedBound
    <3>4. QED
      BY <1>1, <3>1, <3>2, <3>3 DEF Shrinks, Freed
  <2>4. QED
    BY <2>2, <2>3
<1>5. ASSUME NEW i \in Ids, DropJob(i) PROVE Shrinks
  <2>1. stream[active[i]].need \in Nat /\ stream[active[i]].ws \in Nat
    BY <1>5, EntryRead DEF DropJob
  <2>2. /\ active' = [active EXCEPT ![i] = 0]
        /\ reserved' = Released(reserved, stream[active[i]].need)
        /\ wsReserved' = Freed(wsReserved, stream[active[i]].ws)
    BY <1>5 DEF DropJob
  <2>3. reserved' <= reserved
    BY <1>1, <2>1, <2>2, ReleasedBound
  <2>4. QED
    BY <1>1, <2>1, <2>2, <2>3 DEF Shrinks, Freed
<1>6. CASE \/ HandleEof \/ HandleStreamError \/ Close \/ Drain \/ DropDone
           \/ ReadFrame \/ ReadEnd \/ ClientSide \/ UNCHANGED vars
  BY <1>2, <1>6 DEF HandleEof, HandleStreamError, Close, Drain, DropDone, ReadFrame, ReadEnd,
     ClientSide, PipeBreaks, PipeFills, PipeEmpties, OutUnchanged, vars
<1>7. ASSUME NEW r \in Requests, Waiter(r) \/ LauncherBoxes(r) \/ LauncherExits(r) \/ HostKills(r)
      PROVE  Shrinks
  BY <1>2, <1>7 DEF Waiter, Reap, CleanUp, Post, LauncherBoxes, LauncherExits, LauncherSucceeds,
     LauncherFails, LauncherKilled, HostKills, Killed, ProcessUnchanged
<1>8. ASSUME NEW i \in Ids, GuestDies(i) PROVE Shrinks
  BY <1>2, <1>8 DEF GuestDies, ProcessUnchanged
<1>9. CASE Crash
  BY <1>1, <1>9 DEF Crash, Shrinks
<1>10. QED
  BY <1>3, <1>4, <1>5, <1>6, <1>7, <1>8, <1>9 DEF Next, Loop, Terminated

\* The loop starts a job only below MaxActive and for no taken ID (SlotBound).
THEOREM SlotBoundHolds == Spec => []SlotBound
<1>1. IsFiniteSet(ActiveIds) /\ Cardinality(ActiveIds) \in Nat
  <2>1. IsFiniteSet(ActiveIds)
    BY SupervisorAssumption, FS_Subset DEF ActiveIds
  <2>2. QED
    BY <2>1, FS_CardinalityType
<1>2. IsFiniteSet(ActiveIds') /\ Cardinality(ActiveIds') \in Nat
  <2>1. IsFiniteSet(ActiveIds')
    BY SupervisorAssumption, FS_Subset DEF ActiveIds
  <2>2. QED
    BY <2>1, FS_CardinalityType
<1>3. ASSUME TypeInv, SlotBound, NEW r \in Requests, AcceptRun(r) PROVE SlotBound'
  <2>1. Cardinality(ActiveIds) < MaxActive
    BY <1>1, <1>3, SupervisorAssumption DEF AcceptRun, RunRefused
  <2>2. ActiveIds' \subseteq ActiveIds \cup {stream[r].id}
    BY <1>3 DEF AcceptRun, ActiveIds, TypeInv, TypeOK, TableType, ioVars
  <2>3. /\ IsFiniteSet(ActiveIds \cup {stream[r].id})
        /\ Cardinality(ActiveIds \cup {stream[r].id})
              \in {Cardinality(ActiveIds), Cardinality(ActiveIds) + 1}
    BY <1>1, FS_AddElement
  <2>4. Cardinality(ActiveIds') <= Cardinality(ActiveIds \cup {stream[r].id})
    BY <2>2, <2>3, FS_Subset
  <2>5. QED
    BY <1>1, <1>2, <2>1, <2>3, <2>4, SupervisorAssumption DEF SlotBound
<1>4. ASSUME TypeInv, SlotBound, Shrinks PROVE SlotBound'
  <2>1. ActiveIds' \subseteq ActiveIds
    BY <1>4 DEF Shrinks, ActiveIds
  <2>2. Cardinality(ActiveIds') <= Cardinality(ActiveIds)
    BY <1>1, <2>1, FS_Subset
  <2>3. QED
    BY <1>1, <1>2, <1>4, <2>2, SupervisorAssumption DEF SlotBound
<1>5. Init => SlotBound
  <2>1. Init => ActiveIds = {}
    BY DEF Init, ActiveIds
  <2>2. Cardinality({}) = 0
    BY FS_EmptySet
  <2>3. QED
    BY <2>1, <2>2, SupervisorAssumption DEF SlotBound
<1>6. TypeInv /\ SlotBound /\ [Next]_vars => SlotBound'
  BY <1>3, <1>4, OnlyAcceptGrows
<1>7. QED
  BY <1>5, <1>6, TypeInvariance, PTL DEF Spec

\* What the active jobs reserved together stays within the capacity given at
\* start-up, whatever is refused, cancelled or lost in between (CapacityBound).
THEOREM CapacityBoundHolds == Spec => []CapacityBound
<1>1. TypeInv => reserved \in Nat /\ wsReserved \in Int
  BY DEF TypeInv, TypeOK, TableType
<1>2. ASSUME TypeInv, CapacityBound, NEW r \in Requests, AcceptRun(r) PROVE CapacityBound'
  <2>1. stream[r].ws \in Nat /\ stream[r].need \in Nat
    BY <1>2, RequestRead DEF AcceptRun, Handle
  <2>2. reserved' <= Limit
    BY <1>1, <1>2 DEF AcceptRun, Admits
  <2>3. wsReserved' <= WsUsable
    <3>1. wsReserved' = wsReserved + stream[r].ws
          /\ (stream[r].ws # 0 => \E u \in 0 .. WsUsable : wsReserved + stream[r].ws <= u)
      BY <1>2 DEF AcceptRun, WorkspaceFits
    <3>2. QED
      BY <1>1, <1>2, <2>1, <3>1, SupervisorAssumption DEF CapacityBound
  <2>4. QED
    BY <2>2, <2>3 DEF CapacityBound
<1>3. ASSUME TypeInv, TypeInv', CapacityBound, Shrinks PROVE CapacityBound'
  <2>1. reserved' \in Nat /\ wsReserved' \in Int
    BY <1>3 DEF TypeInv, TypeOK, TableType
  <2>2. QED
    BY <1>1, <1>3, <2>1, SupervisorAssumption DEF CapacityBound, Shrinks
<1>4. Init => CapacityBound
  BY SupervisorAssumption DEF Init, CapacityBound
<1>5. TypeInv /\ CapacityBound /\ [Next]_vars => CapacityBound'
  BY <1>2, <1>3, NextType, OnlyAcceptGrows
<1>6. QED
  BY <1>4, <1>5, TypeInvariance, PTL DEF Spec

-----------------------------------------------------------------------------
(* The reservations.                                                        *)

Needs == [i \in ActiveIds |-> stream[active[i]].need]
Spaces == [i \in ActiveIds |-> stream[active[i]].ws]

\* ReservationsMatch, over the set of active IDs.
LEMMA MatchSums ==
    ReservationsMatch <=> /\ reserved = SumFunctionOnSet(Needs, ActiveIds)
                          /\ wsReserved = SumFunctionOnSet(Spaces, ActiveIds)
BY DEF ReservationsMatch, Needs, Spaces, SumFunction

LEMMA AmountTypes ==
    ASSUME TypeInv
    PROVE  /\ IsFiniteSet(ActiveIds)
           /\ \A i \in ActiveIds : Needs[i] \in Nat /\ Spaces[i] \in Nat
           /\ Terms(Needs, ActiveIds) /\ Terms(Spaces, ActiveIds)
<1>1. IsFiniteSet(ActiveIds)
  BY SupervisorAssumption, FS_Subset DEF ActiveIds
<1>2. \A i \in ActiveIds : Needs[i] \in Nat /\ Spaces[i] \in Nat
  BY EntryRead DEF ActiveIds, Needs, Spaces
<1>3. QED
  BY <1>1, <1>2 DEF Terms

\* Steps that leave the table and the counters alone.
LEMMA TableKept ==
    ASSUME TypeInv, ReservationsMatch, UNCHANGED <<active, reserved, wsReserved>>,
           \A i \in ActiveIds : stream'[active[i]] = stream[active[i]]
    PROVE  ReservationsMatch'
<1>1. Needs' = Needs /\ Spaces' = Spaces /\ ActiveIds' = ActiveIds
  BY DEF Needs, Spaces, ActiveIds
<1>2. QED
  BY <1>1 DEF ReservationsMatch, Needs, Spaces

\* A job enters with what it reserves.
LEMMA AcceptMatch ==
    ASSUME TypeInv, ReservationsMatch, NEW r \in Requests, AcceptRun(r)
    PROVE  ReservationsMatch'
<1> DEFINE id == stream[r].id
<1>1. /\ id \in Ids /\ stream[r].need \in Nat /\ stream[r].ws \in Nat
  BY RequestRead DEF AcceptRun, Handle
<1>2. /\ active[id] = 0 /\ active' = [active EXCEPT ![id] = r] /\ UNCHANGED stream
      /\ reserved' = reserved + stream[r].need /\ wsReserved' = wsReserved + stream[r].ws
  BY DEF AcceptRun, RunRefused, ioVars
<1>3. r # 0 /\ active \in [Ids -> 0 .. MaxFrames]
  BY DEF Requests, TypeInv, TypeOK, TableType
<1> HIDE DEF id
<1>4. ActiveIds' = ActiveIds \cup {id} /\ id \notin ActiveIds /\ active'[id] = r
  BY <1>1, <1>2, <1>3 DEF ActiveIds
<1>5. \A i \in ActiveIds : active'[i] = active[i]
  BY <1>2, <1>3, <1>4 DEF ActiveIds
<1>6. /\ \A i \in ActiveIds : Needs'[i] = Needs[i] /\ Spaces'[i] = Spaces[i]
      /\ Needs'[id] = stream[r].need /\ Spaces'[id] = stream[r].ws
  BY <1>2, <1>4, <1>5 DEF Needs, Spaces
<1>7. Terms(Needs', ActiveIds \cup {id}) /\ Terms(Spaces', ActiveIds \cup {id})
  BY <1>1, <1>6, AmountTypes DEF Terms
<1>8. /\ SumFunctionOnSet(Needs', ActiveIds \cup {id}) = Needs'[id] + SumFunctionOnSet(Needs', ActiveIds)
      /\ SumFunctionOnSet(Spaces', ActiveIds \cup {id}) = Spaces'[id] + SumFunctionOnSet(Spaces', ActiveIds)
  BY <1>4, <1>7, AmountTypes, SumAdd
<1>9. /\ SumFunctionOnSet(Needs, ActiveIds) = SumFunctionOnSet(Needs', ActiveIds)
      /\ SumFunctionOnSet(Spaces, ActiveIds) = SumFunctionOnSet(Spaces', ActiveIds)
  BY <1>6, AmountTypes, SumSame
<1>10. reserved \in Int /\ wsReserved \in Int
  BY DEF TypeInv, TypeOK, TableType
<1>11. /\ reserved' = SumFunctionOnSet(Needs', ActiveIds')
       /\ wsReserved' = SumFunctionOnSet(Spaces', ActiveIds')
  BY <1>1, <1>2, <1>4, <1>6, <1>8, <1>9, <1>10, MatchSums
<1>12. QED
  BY <1>11 DEF ReservationsMatch, Needs, Spaces, SumFunction

\* A job leaves the table with what it reserved, neither more nor less.
LEMMA ReleaseMatch ==
    ASSUME TypeInv, ReservationsMatch, NEW i \in Ids, active[i] # 0, UNCHANGED stream,
           active' = [active EXCEPT ![i] = 0],
           reserved' = Released(reserved, stream[active[i]].need),
           wsReserved' = Freed(wsReserved, stream[active[i]].ws)
    PROVE  ReservationsMatch'
<1> DEFINE S == ActiveIds \ {i}
           needs == SumFunctionOnSet(Needs, S)
           spaces == SumFunctionOnSet(Spaces, S)
<1>1. active \in [Ids -> 0 .. MaxFrames]
  BY DEF TypeInv, TypeOK, TableType
<1>2. i \in ActiveIds /\ ActiveIds' = S /\ \A j \in S : active'[j] = active[j]
  BY <1>1 DEF ActiveIds
<1>3. /\ Needs[i] = stream[active[i]].need /\ Spaces[i] = stream[active[i]].ws
      /\ Needs[i] \in Nat /\ Spaces[i] \in Nat
  BY <1>2, AmountTypes DEF Needs, Spaces
<1>4. \A j \in S : Needs'[j] = Needs[j] /\ Spaces'[j] = Spaces[j]
  BY <1>2 DEF Needs, Spaces
<1>5. IsFiniteSet(S) /\ Terms(Needs, S) /\ Terms(Spaces, S) /\ (\A j \in S : Needs[j] \in Nat /\ Spaces[j] \in Nat)
  BY AmountTypes, FS_Subset DEF Terms
<1>6. SumFunctionOnSet(Needs, ActiveIds) = Needs[i] + needs
  BY <1>2, AmountTypes, SumRemove
<1>7. SumFunctionOnSet(Spaces, ActiveIds) = Spaces[i] + spaces
  BY <1>2, AmountTypes, SumRemove
<1> HIDE DEF S
<1>8. needs \in Nat /\ spaces \in Nat
  BY <1>5, SumNat
<1>9. needs = SumFunctionOnSet(Needs', S) /\ spaces = SumFunctionOnSet(Spaces', S)
  BY <1>4, <1>5, SumSame
<1> HIDE DEF needs, spaces
<1>10. reserved = Needs[i] + needs /\ wsReserved = Spaces[i] + spaces
  BY <1>6, <1>7, MatchSums
<1>11. reserved' = needs /\ wsReserved' = spaces
  BY <1>3, <1>8, <1>10 DEF Released, Freed, Monus
<1>12. QED
  BY <1>2, <1>9, <1>11 DEF ReservationsMatch, Needs, Spaces, SumFunction

LEMMA NextMatch == ASSUME TypeInv, ReservationsMatch, [Next]_vars PROVE ReservationsMatch'
<1> USE DEF tableVars, ioVars
<1>1. UNCHANGED <<stream, active, reserved, wsReserved>> => ReservationsMatch'
  BY TableKept
<1>2. CASE ReadFrame
  <2>1. PICK f \in Frames : stream' = Append(stream, f)
    BY <1>2 DEF ReadFrame
  <2>2. stream \in Seq(Frames) /\ active \in [Ids -> 0 .. MaxFrames]
    BY DEF TypeInv, TypeOK, IoType, TableType
  <2>3. \A i \in ActiveIds : active[i] \in 1 .. Len(stream)
    BY <2>2, SupervisorAssumption DEF TypeInv, InRange, ActiveIds
  <2>4. \A i \in ActiveIds : stream'[active[i]] = stream[active[i]]
    BY <2>1, <2>2, <2>3
  <2>5. UNCHANGED <<active, reserved, wsReserved>>
    BY <1>2 DEF ReadFrame
  <2>6. QED
    BY <2>4, <2>5, TableKept
<1>3. ASSUME NEW r \in Requests, HandleRequest(r) PROVE ReservationsMatch'
  <2>1. CASE AcceptRun(r)
    BY <2>1, AcceptMatch
  <2>2. CASE StartFails(r) \/ SetupFails(r)
    <3>1. UNCHANGED stream
      BY <2>2 DEF StartFails, SetupFails
    <3>2. QED
      BY <1>1, <2>2, <3>1, StartKept
  <2>3. CASE ~(AcceptRun(r) \/ StartFails(r) \/ SetupFails(r))
    BY <1>1, <1>3, <2>3 DEF HandleRequest, RefuseClosing, HandleHealth, HandleUnknown, RefuseRun,
       HandleCancel, HandleBadCancel, HandleShutdown
  <2>4. QED
    BY <2>1, <2>2, <2>3
<1>4. ASSUME NEW r \in Requests, Finish(r) PROVE ReservationsMatch'
  <2>1. stream[r].id \in Ids /\ UNCHANGED stream
    BY <1>4, RequestRead DEF Finish
  <2>2. CASE active[stream[r].id] = 0
    BY <1>1, <1>4, <2>2 DEF Finish
  <2>3. CASE active[stream[r].id] # 0
    <3>1. /\ active' = [active EXCEPT ![stream[r].id] = 0]
          /\ reserved' = Released(reserved, stream[active[stream[r].id]].need)
          /\ wsReserved' = Freed(wsReserved, stream[active[stream[r].id]].ws)
      BY <1>4, <2>3 DEF Finish
    <3>2. QED
      BY <2>1, <2>3, <3>1, ReleaseMatch
  <2>4. QED
    BY <2>2, <2>3
<1>5. ASSUME NEW i \in Ids, DropJob(i) PROVE ReservationsMatch'
  BY <1>5, ReleaseMatch DEF DropJob
<1>6. CASE \/ HandleEof \/ HandleStreamError \/ Close \/ Drain \/ DropDone
           \/ ReadEnd \/ ClientSide \/ UNCHANGED vars
  BY <1>1, <1>6 DEF HandleEof, HandleStreamError, Close, Drain, DropDone, ReadEnd, ClientSide,
     PipeBreaks, PipeFills, PipeEmpties, OutUnchanged, vars
<1>7. ASSUME NEW r \in Requests, Waiter(r) \/ LauncherBoxes(r) \/ LauncherExits(r) \/ HostKills(r)
      PROVE  ReservationsMatch'
  BY <1>1, <1>7 DEF Waiter, Reap, CleanUp, Post, LauncherBoxes, LauncherExits, LauncherSucceeds,
     LauncherFails, LauncherKilled, HostKills, Killed, ProcessUnchanged
<1>8. ASSUME NEW i \in Ids, GuestDies(i) PROVE ReservationsMatch'
  BY <1>1, <1>8 DEF GuestDies, ProcessUnchanged
<1>9. CASE Crash
  <2>1. ActiveIds' = {} /\ reserved' = 0 /\ wsReserved' = 0
    BY <1>9 DEF Crash, ActiveIds
  <2>2. \A f : SumFunctionOnSet(f, ActiveIds') = 0
    BY <2>1, SumEmpty
  <2>3. QED
    BY <2>1, <2>2 DEF ReservationsMatch, SumFunction
<1>10. QED
  BY <1>2, <1>3, <1>4, <1>5, <1>6, <1>7, <1>8, <1>9 DEF Next, Loop, Terminated

LEMMA InitMatch == Init => ReservationsMatch
<1> SUFFICES ASSUME Init PROVE ReservationsMatch
  OBVIOUS
<1>1. ActiveIds = {}
  BY DEF Init, ActiveIds
<1>2. \A f : SumFunctionOnSet(f, ActiveIds) = 0
  BY <1>1, SumEmpty
<1>3. QED
  BY <1>2 DEF Init, ReservationsMatch, SumFunction

\* The counters are exactly what the active jobs hold, on every path through failures,
\* cancels, completions, Drop and a crash (ReservationsMatch).
THEOREM ReservationsMatchHolds == Spec => []ReservationsMatch
<1>1. TypeInv /\ ReservationsMatch /\ [Next]_vars => ReservationsMatch'
  BY NextMatch
<1>2. QED
  BY <1>1, InitMatch, TypeInvariance, PTL DEF Spec

-----------------------------------------------------------------------------
(* Cancellation.                                                            *)

CancelledStarted == \A r \in cancelled : Accepted(r)

CancelInv == CancelledStarted /\ CancelJustified

\* The frames read stay as they are.
StreamGrows == Len(stream) <= Len(stream') /\ \A k \in 1 .. Len(stream) : stream'[k] = stream[k]

LEMMA StreamSteps == ASSUME TypeInv, [Next]_vars PROVE StreamGrows
<1>1. stream \in Seq(Frames) /\ Len(stream) \in Nat
  BY DEF TypeInv, TypeOK, IoType
<1>2. UNCHANGED stream => StreamGrows
  BY <1>1 DEF StreamGrows
<1>3. CASE ReadFrame
  <2>1. PICK f \in Frames : stream' = Append(stream, f)
    BY <1>3 DEF ReadFrame
  <2>2. QED
    BY <1>1, <2>1 DEF StreamGrows
<1>4. CASE ~ReadFrame
  <2> USE DEF ioVars
  <2>1. CASE ReadEnd \/ Crash \/ ClientSide \/ UNCHANGED vars
    BY <1>2, <2>1 DEF ReadEnd, Crash, ClientSide, PipeBreaks, PipeFills, PipeEmpties,
       OutUnchanged, vars
  <2>2. ASSUME NEW r \in Requests, HandleRequest(r) \/ Finish(r) PROVE StreamGrows
    BY <1>2, <2>2 DEF HandleRequest, RefuseClosing, HandleHealth, HandleUnknown, RefuseRun, AcceptRun,
       StartFails, SetupFails, HandleCancel, HandleBadCancel, HandleShutdown, Finish
  <2>3. CASE HandleEof \/ HandleStreamError \/ Close \/ Drain \/ DropDone \/ \E i \in Ids : DropJob(i)
    BY <1>2, <2>3 DEF HandleEof, HandleStreamError, Close, Drain, DropDone, DropJob
  <2>4. ASSUME NEW r \in Requests,
               Waiter(r) \/ LauncherBoxes(r) \/ LauncherExits(r) \/ HostKills(r)
        PROVE  StreamGrows
    BY <1>2, <2>4 DEF Waiter, Reap, CleanUp, Post, LauncherBoxes, LauncherExits, LauncherSucceeds,
       LauncherFails, LauncherKilled, HostKills, Killed, ProcessUnchanged
  <2>5. ASSUME NEW i \in Ids, GuestDies(i) PROVE StreamGrows
    BY <1>2, <2>5 DEF GuestDies, ProcessUnchanged
  <2>6. QED
    BY <1>4, <2>1, <2>2, <2>3, <2>4, <2>5 DEF Next, Loop, Terminated
<1>5. QED
  BY <1>3, <1>4

\* Only starting a job and its waiter's own steps move a waiter.
LEMMA WaiterSteps ==
    ASSUME TypeInv, [Next]_vars
    PROVE  UNCHANGED waiter \/ \E r \in Requests : AcceptRun(r) \/ Waiter(r)
<1> USE DEF jobVars
<1>1. ASSUME NEW r \in Requests, HandleRequest(r), ~AcceptRun(r) PROVE UNCHANGED waiter
  BY <1>1 DEF HandleRequest, RefuseClosing, HandleHealth, HandleUnknown, RefuseRun,
     StartFails, SetupFails, HandleCancel, HandleBadCancel, HandleShutdown
<1>2. CASE ReadFrame \/ ReadEnd \/ Crash \/ ClientSide \/ UNCHANGED vars
  BY <1>2 DEF ReadFrame, ReadEnd, Crash, ClientSide, PipeBreaks, PipeFills, PipeEmpties,
     OutUnchanged, vars
<1>3. CASE \/ HandleEof \/ HandleStreamError \/ Close \/ Drain \/ DropDone
           \/ (\E i \in Ids : DropJob(i)) \/ \E r \in Requests : Finish(r)
  BY <1>3 DEF HandleEof, HandleStreamError, Close, Drain, DropDone, DropJob, Finish
<1>4. ASSUME NEW r \in Requests, LauncherBoxes(r) \/ LauncherExits(r) \/ HostKills(r)
      PROVE  UNCHANGED waiter
  BY <1>4 DEF LauncherBoxes, LauncherExits, LauncherSucceeds,
     LauncherFails, LauncherKilled, HostKills, Killed, ProcessUnchanged
<1>5. ASSUME NEW i \in Ids, GuestDies(i) PROVE UNCHANGED waiter
  BY <1>5 DEF GuestDies, ProcessUnchanged
<1>6. QED
  BY <1>1, <1>2, <1>3, <1>4, <1>5 DEF Next, Loop, Terminated

\* A job that was started stays one, and starts nowhere but in start_job.
LEMMA AcceptedSteps ==
    ASSUME TypeInv, [Next]_vars
    PROVE  \A r \in Requests : Accepted(r)' <=> Accepted(r) \/ AcceptRun(r)
<1> USE DEF Accepted
<1>1. waiter \in [Requests -> WaiterStates]
  BY DEF TypeInv, TypeOK, JobType
<1>2. ASSUME NEW r \in Requests, AcceptRun(r) PROVE waiter' = [waiter EXCEPT ![r] = "waiting"]
  BY <1>2 DEF AcceptRun
<1>3. ASSUME NEW r \in Requests, Waiter(r)
      PROVE  \A q \in Requests : Accepted(q)' <=> Accepted(q)
  BY <1>1, <1>3 DEF Waiter, Reap, CleanUp, Post
<1>4. ASSUME NEW r \in Requests, AcceptRun(r)
      PROVE  \A q \in Requests : Accepted(q)' <=> Accepted(q) \/ q = r
  BY <1>1, <1>2, <1>4
<1>5. ASSUME NEW r \in Requests, AcceptRun(r), NEW q \in Requests, AcceptRun(q) PROVE q = r
  BY <1>5 DEF AcceptRun, Handle, Receive, RequestEvent
<1>6. CASE \E r \in Requests : AcceptRun(r)
  BY <1>4, <1>5, <1>6
<1>7. CASE ~\E r \in Requests : AcceptRun(r)
  BY <1>3, <1>7, WaiterSteps
<1>8. QED
  BY <1>6, <1>7

LEMMA AcceptedStays ==
    ASSUME TypeInv, [Next]_vars
    PROVE  \A r \in Requests : Accepted(r) => Accepted(r)'
BY AcceptedSteps

\* Marks are added by a cancel, by shutdown and at the end of input.
LEMMA MarkSteps ==
    ASSUME TypeInv, [Next]_vars
    PROVE  \/ UNCHANGED <<cancelled, shutdown, eof>>
           \/ \E r \in Requests : HandleCancel(r) \/ HandleShutdown(r)
           \/ HandleEof
<1> USE DEF tableVars, loopVars
<1>1. ASSUME NEW r \in Requests, HandleRequest(r), ~HandleCancel(r), ~HandleShutdown(r)
      PROVE  UNCHANGED <<cancelled, shutdown, eof>>
  BY <1>1 DEF HandleRequest, RefuseClosing, HandleHealth, HandleUnknown, RefuseRun, AcceptRun,
     StartFails, SetupFails, HandleBadCancel
<1>2. CASE ReadFrame \/ ReadEnd \/ Crash \/ ClientSide \/ UNCHANGED vars
  BY <1>2 DEF ReadFrame, ReadEnd, Crash, ClientSide, PipeBreaks, PipeFills, PipeEmpties,
     OutUnchanged, vars
<1>3. CASE \/ HandleStreamError \/ Close \/ Drain \/ DropDone
           \/ (\E i \in Ids : DropJob(i)) \/ \E r \in Requests : Finish(r)
  BY <1>3 DEF HandleStreamError, Close, Drain, DropDone, DropJob, Finish
<1>4. ASSUME NEW r \in Requests, Waiter(r) \/ LauncherBoxes(r) \/ LauncherExits(r) \/ HostKills(r)
      PROVE  UNCHANGED <<cancelled, shutdown, eof>>
  BY <1>4 DEF Waiter, Reap, CleanUp, Post, LauncherBoxes, LauncherExits, LauncherSucceeds,
     LauncherFails, LauncherKilled, HostKills, Killed, ProcessUnchanged
<1>5. ASSUME NEW i \in Ids, GuestDies(i) PROVE UNCHANGED <<cancelled, shutdown, eof>>
  BY <1>5 DEF GuestDies, ProcessUnchanged
<1>6. QED
  BY <1>1, <1>2, <1>3, <1>4, <1>5 DEF Next, Loop, Terminated

LEMMA NextCancel == ASSUME TypeInv, JobInv, CancelInv, [Next]_vars PROVE CancelInv'
<1>1. StreamGrows /\ \A r \in Requests : Accepted(r) => Accepted(r)'
  BY StreamSteps, AcceptedStays
<1>2. cancelled \subseteq Requests /\ Len(stream) \in Nat
  BY DEF TypeInv, TypeOK, TableType, IoType
<1>3. ASSUME NEW r \in Requests, NEW c \in r + 1 .. Len(stream),
             stream[c].kind = "cancel" /\ stream[c].target = stream[r].id
      PROVE  \E d \in r + 1 .. Len(stream') :
                stream'[d].kind = "cancel" /\ stream'[d].target = stream'[r].id
  <2>1. c \in 1 .. Len(stream) /\ r \in 1 .. Len(stream) /\ Len(stream') \in Int
    BY <1>2, <1>3, StreamSteps, NextType DEF Requests, TypeInv, TypeOK, IoType
  <2>2. c \in r + 1 .. Len(stream')
    BY <1>1, <1>2, <1>3, <2>1 DEF StreamGrows
  <2>3. QED
    BY <1>1, <1>3, <2>1, <2>2 DEF StreamGrows
<1>4. CASE UNCHANGED cancelled /\ (shutdown # 0 => shutdown' # 0) /\ (eof => eof')
  <2>1. CancelledStarted'
    BY <1>1, <1>2, <1>4 DEF CancelInv, CancelledStarted
  <2>2. CancelJustified'
    <3> SUFFICES ASSUME NEW r \in cancelled, ~(shutdown' # 0 \/ eof')
                 PROVE  \E d \in r + 1 .. Len(stream') :
                           stream'[d].kind = "cancel" /\ stream'[d].target = stream'[r].id
      BY <1>4 DEF CancelJustified
    <3>1. PICK c \in r + 1 .. Len(stream) : stream[c].kind = "cancel" /\ stream[c].target = stream[r].id
      BY <1>4 DEF CancelInv, CancelJustified
    <3>2. QED
      BY <1>2, <1>3, <3>1
  <2>3. QED
    BY <2>1, <2>2 DEF CancelInv
<1>5. ASSUME NEW j \in ActiveJobs PROVE Accepted(j) /\ j \in Requests
  BY <1>5, ActiveJobsRequests DEF ActiveJobs, ActiveIds, JobInv, TableInv
<1>6. ASSUME NEW r \in Requests, HandleShutdown(r) PROVE CancelInv'
  <2>1. cancelled' = cancelled \cup ActiveJobs /\ shutdown' # 0
    BY <1>6 DEF HandleShutdown, CancelAll, Requests
  <2>2. QED
    BY <1>1, <1>2, <1>5, <2>1 DEF CancelInv, CancelledStarted, CancelJustified
<1>7. CASE HandleEof
  <2>1. cancelled' = cancelled \cup ActiveJobs /\ eof'
    BY <1>7 DEF HandleEof, CancelAll
  <2>2. QED
    BY <1>1, <1>2, <1>5, <2>1 DEF CancelInv, CancelledStarted, CancelJustified
<1>8. ASSUME NEW r \in Requests, HandleCancel(r) PROVE CancelInv'
  <2> DEFINE target == active[stream[r].target]
  <2>1. /\ Receive(RequestEvent(r)) /\ UNCHANGED <<stream, shutdown, eof, waiter>>
        /\ stream[r].kind = "cancel" /\ stream[r].target # Malformed
        /\ cancelled' = IF target = 0 THEN cancelled ELSE cancelled \cup {target}
    BY <1>8 DEF HandleCancel, Handle, ioVars, loopVars
  <2>2. /\ r \in 1 .. Len(stream) /\ stream[r] \in Frames
        /\ \A q \in Requests : Accepted(q) => q < r
    <3>1. Len(chan) >= 1 /\ chan[1] = RequestEvent(r) /\ Len(chan) \in Nat
      BY <2>1, Taken DEF TypeInv, TypeOK, ChanType
    <3>2. 1 \in 1 .. Len(chan) /\ chan[1].type = "request" /\ chan[1].req = r
      BY <3>1 DEF RequestEvent
    <3>3. QED
      BY <2>1, <3>2, RequestRead DEF JobInv, QueueInv, RequestQueued
  <2>3. stream[r].target \in Ids
    BY <2>1, <2>2 DEF Frames, AllFrames
  <2>4. CASE target = 0
    BY <1>4, <2>1, <2>4
  <2>5. CASE target # 0
    <3>1. target \in Requests
      BY <2>3, <2>5, SupervisorAssumption DEF TypeInv, TypeOK, TableType, Requests
    <3>2. Accepted(target) /\ stream[target].id = stream[r].target
      BY <2>3, <2>5 DEF JobInv, TableInv
    <3>3. r \in target + 1 .. Len(stream)
      BY <2>2, <3>1, <3>2 DEF Requests
    <3> HIDE DEF target
    <3>4. cancelled' = cancelled \cup {target} /\ UNCHANGED <<stream, shutdown, eof, waiter>>
      BY <2>1, <2>5
    <3>5. CancelledStarted'
      BY <1>1, <1>2, <3>1, <3>2, <3>4 DEF CancelInv, CancelledStarted
    <3>6. CancelJustified'
      BY <2>1, <3>2, <3>3, <3>4 DEF CancelInv, CancelJustified
    <3>7. QED
      BY <3>5, <3>6 DEF CancelInv
  <2>6. QED
    BY <2>4, <2>5
<1>9. QED
  BY <1>4, <1>6, <1>7, <1>8, MarkSteps

LEMMA CancelInvariance == Spec => [](TypeInv /\ JobInv /\ CancelInv)
<1>1. Init => TypeInv /\ JobInv
  BY InitType, InitJob
<1>2. Init => CancelInv
  BY DEF Init, CancelInv, CancelledStarted, CancelJustified
<1>3. TypeInv /\ JobInv /\ CancelInv /\ [Next]_vars => TypeInv' /\ JobInv' /\ CancelInv'
  BY NextType, NextJob, NextCancel
<1>4. QED
  BY <1>1, <1>2, <1>3, PTL DEF Spec

\* A job is marked only by a cancel of its ID read after it, or when all are: a late
\* cancel never hits the job that uses the ID next (CancelJustified).
THEOREM CancelJustifiedHolds == Spec => []CancelJustified
<1>1. CancelInv => CancelJustified
  BY DEF CancelInv
<1>2. QED
  BY <1>1, CancelInvariance, PTL

\* A request the loop takes from the channel has not been started or answered.
LEMMA TakenFresh ==
    ASSUME TypeInv, JobInv, NEW r \in Requests, Receive(RequestEvent(r))
    PROVE  ~Accepted(r) /\ ~Answered(r)
<1>1. Len(chan) >= 1 /\ chan[1] = RequestEvent(r) /\ Len(chan) \in Nat
  BY Taken DEF TypeInv, TypeOK, ChanType
<1>2. 1 \in 1 .. Len(chan) /\ chan[1].type = "request" /\ chan[1].req = r
  BY <1>1 DEF RequestEvent
<1>3. QED
  BY <1>2 DEF JobInv, QueueInv, RequestQueued

\* A started run gets its response from finish and from nowhere else.
LEMMA JobReplies ==
    ASSUME TypeInv, JobInv, [Next]_vars, NEW q \in Requests, Accepted(q), reply'[q] # reply[q]
    PROVE  Finish(q) /\ active[stream[q].id] = q /\ ~Answered(q)
<1>1. ASSUME NEW r \in Requests, HandleRequest(r) PROVE FALSE
  <2>1. CASE SetupFails(r)
    <3>1. Receive(RequestEvent(r)) /\ Write(r, "error")
      BY <2>1 DEF SetupFails, Handle
    <3>2. QED
      BY <3>1, TakenFresh, WriteOnce DEF Answered, Codes
  <2>2. CASE AcceptRun(r) \/ HandleCancel(r) \/ HandleShutdown(r)
    BY <2>2 DEF AcceptRun, HandleCancel, HandleShutdown
  <2>3. CASE \/ RefuseClosing(r) \/ HandleHealth(r) \/ HandleUnknown(r)
             \/ RefuseRun(r) \/ StartFails(r) \/ HandleBadCancel(r)
    <3>1. OnlyReply(r) /\ Receive(RequestEvent(r))
      BY <2>3, OnlyReplies
    <3>2. QED
      BY <3>1, TakenFresh, WriteOnce DEF OnlyReply, Answered
  <2>4. QED
    BY <1>1, <2>1, <2>2, <2>3 DEF HandleRequest
<1>2. ASSUME NEW r \in Requests, Finish(r)
      PROVE  Finish(q) /\ active[stream[q].id] = q /\ ~Answered(q)
  <2>1. active[stream[r].id] = r /\ ~Answered(r) /\ r # 0
    BY <1>2, FinishKnown DEF Finish, Requests
  <2>2. \E code \in Codes : Write(r, code)
    BY <1>2, <2>1 DEF Finish, ResultCodes, Codes
  <2>3. q = r
    BY <2>1, <2>2, WriteOnce DEF Answered
  <2>4. QED
    BY <1>2, <2>1, <2>3
<1>3. ~Close
  BY DEF Close, JobInv, ShutdownInv, TypeInv, TypeOK, LoopType
<1>4. CASE \/ ReadFrame \/ ReadEnd \/ HandleEof \/ HandleStreamError \/ Drain \/ DropDone
           \/ Crash \/ ClientSide \/ UNCHANGED vars \/ \E i \in Ids : DropJob(i)
  BY <1>4 DEF ReadFrame, ReadEnd, HandleEof, HandleStreamError, Drain, DropDone, DropJob,
     Crash, ClientSide, PipeBreaks, PipeFills, PipeEmpties, OutUnchanged, vars
<1>5. ASSUME NEW r \in Requests, Waiter(r) \/ LauncherBoxes(r) \/ LauncherExits(r) \/ HostKills(r)
      PROVE  FALSE
  BY <1>5 DEF Waiter, Reap, CleanUp, Post, LauncherBoxes, LauncherExits, LauncherSucceeds,
     LauncherFails, LauncherKilled, HostKills, Killed, ProcessUnchanged
<1>6. ASSUME NEW i \in Ids, GuestDies(i) PROVE FALSE
  BY <1>6 DEF GuestDies, ProcessUnchanged
<1>7. QED
  BY <1>1, <1>2, <1>3, <1>4, <1>5, <1>6 DEF Next, Loop, Terminated

\* A job marked cancelled while it was in the table is answered so, whatever its
\* launcher printed before the signal (CancelWins).
THEOREM CancelWinsHolds == Spec => CancelWins
<1>1. ASSUME TypeInv, JobInv, CancelInv, [Next]_vars, NEW r \in cancelled, reply'[r] # reply[r]
      PROVE  reply'[r] = <<"CANCELLED">>
  <2>1. r \in Requests /\ Accepted(r)
    BY <1>1 DEF CancelInv, CancelledStarted, TypeInv, TypeOK, TableType
  <2>2. Finish(r) /\ active[stream[r].id] = r /\ ~Answered(r) /\ r # 0
    BY <1>1, <2>1, JobReplies DEF Requests
  <2>3. Write(r, "CANCELLED")
    BY <1>1, <2>2 DEF Finish, ResultCodes
  <2>4. reply' = [reply EXCEPT ![r] = Append(@, "CANCELLED")]
    BY <1>1, <2>3 DEF Write
  <2>5. reply'[r] = Append(<<>>, "CANCELLED")
    BY <1>1, <2>1, <2>2, <2>4 DEF Answered, TypeInv, TypeOK, LoopType
  <2>6. QED
    BY <2>5
<1>2. TypeInv /\ JobInv /\ CancelInv /\ [Next]_vars
      => [\A r \in cancelled : reply'[r] # reply[r] => reply'[r] = <<"CANCELLED">>]_vars
  BY <1>1
<1>3. QED
  BY <1>2, CancelInvariance, PTL DEF Spec, CancelWins

-----------------------------------------------------------------------------
(* The end of a session.                                                    *)

\* Who answers for what is in a cgroup: a job whose cleanup failed, or one that
\* has not been cleaned up after yet.
Owns(r) == r \in leaked \/ (Accepted(r) /\ ~Posted(r))

BoxOwned ==
    \A i \in Ids : box[i] # "none" => \E r \in 1 .. Len(stream) : stream[r].id = i /\ Owns(r)

LEMMA OwnedKept ==
    ASSUME TypeInv, BoxOwned, StreamGrows, Len(stream') \in Nat,
           \A i \in Ids : box'[i] # "none" =>
              \/ /\ box[i] # "none"
                 /\ \A r \in 1 .. Len(stream) : stream[r].id = i /\ Owns(r) => Owns(r)'
              \/ \E r \in 1 .. Len(stream) : stream[r].id = i /\ Owns(r)'
    PROVE  BoxOwned'
<1>1. SUFFICES ASSUME NEW i \in Ids, NEW r \in 1 .. Len(stream), stream[r].id = i, Owns(r)'
               PROVE  \E q \in 1 .. Len(stream') : stream'[q].id = i /\ Owns(q)'
  BY DEF BoxOwned
<1>2. r \in 1 .. Len(stream') /\ stream'[r] = stream[r]
  BY DEF StreamGrows, TypeInv, TypeOK, IoType
<1>3. QED
  BY <1>1, <1>2

\* Steps that leave jobs and cgroups alone, or only take away from the cgroups.
LEMMA OwnedQuiet ==
    ASSUME TypeInv, BoxOwned, StreamGrows, Len(stream') \in Nat,
           UNCHANGED waiter, leaked \subseteq leaked',
           \A i \in Ids : box'[i] # "none" => box[i] # "none"
    PROVE  BoxOwned'
BY OwnedKept DEF Owns, Accepted, Posted

\* A launcher that runs belongs to a job not cleaned up after yet.
LEMMA RunnerOwns ==
    ASSUME TypeInv, JobInv, NEW r \in Requests, Running(r)
    PROVE  Owns(r) /\ r \in 1 .. Len(stream) /\ stream[r].id \in Ids
<1>1. Accepted(r) /\ ~Posted(r) /\ launcher[r] # "none"
  BY DEF JobInv, Stages, Stage, Running, Accepted, Posted
<1>2. r \in 1 .. Len(stream)
  BY <1>1 DEF TypeInv, InRange, TypeOK, IoType, Requests
<1>3. QED
  BY <1>1, <1>2, FrameFields DEF Owns, TypeInv, TypeOK, IoType

LEMMA LauncherOwned ==
    ASSUME TypeInv, JobInv, BoxOwned, StreamGrows, Len(stream') \in Nat, NEW r \in Requests,
           LauncherBoxes(r) \/ LauncherSucceeds(r) \/ LauncherFails(r) \/ Killed(r)
    PROVE  BoxOwned'
<1>1. Running(r) /\ UNCHANGED <<waiter, leaked>>
  BY DEF LauncherBoxes, LauncherSucceeds, LauncherFails, Killed, Running, ProcessUnchanged
<1>2. r \in 1 .. Len(stream) /\ Owns(r)'
  BY <1>1, RunnerOwns DEF Owns, Accepted, Posted
<1>3. \A i \in Ids : i = stream[r].id \/ box'[i] = box[i]
  BY DEF LauncherBoxes, LauncherSucceeds, LauncherFails, Killed, TypeInv, TypeOK, JobType
<1>4. \A q : Owns(q) => Owns(q)'
  BY <1>1 DEF Owns, Accepted, Posted
<1>5. QED
  BY <1>2, <1>3, <1>4, OwnedKept

LEMMA WaiterOwned ==
    ASSUME TypeInv, BoxOwned, StreamGrows, Len(stream') \in Nat, NEW r \in Requests, Waiter(r)
    PROVE  BoxOwned'
<1>1. waiter \in [Requests -> WaiterStates] /\ box \in [Ids -> {"none", "live", "dead"}]
  BY DEF TypeInv, TypeOK, JobType
<1>2. CASE Reap(r) \/ Post(r)
  <2>1. UNCHANGED <<leaked, box>>
    BY <1>2 DEF Reap, Post
  <2>2. \A q \in Requests : Owns(q) => Owns(q)'
    BY <1>1, <1>2, <2>1 DEF Reap, Post, Owns, Accepted, Posted
  <2>3. \A q \in 1 .. Len(stream) : q \in Requests
    BY SupervisorAssumption DEF Requests, TypeInv, TypeOK, IoType
  <2>4. QED
    BY <2>1, <2>2, <2>3, OwnedKept
<1>3. CASE CleanUp(r)
  <2>1. waiter[r] = "cleaning" /\ waiter' = [waiter EXCEPT ![r] = "posting"]
        /\ CleanupJob(stream[r].id, r)
    BY <1>3 DEF CleanUp
  <2>2. r \in 1 .. Len(stream)
    BY <2>1 DEF TypeInv, InRange, TypeOK, IoType, Requests
  <2>3. stream[r].id \in Ids
    BY <2>2, FrameFields DEF TypeInv, TypeOK, IoType
  <2>4. /\ leaked \subseteq leaked'
        /\ \A j \in Ids : box'[j] = "none" \/ box'[j] = box[j]
        /\ box'[stream[r].id] = "none" \/ r \in leaked'
    BY <2>1, <2>3, CleanupKept
  <2>5. \A q : q # r /\ Owns(q) => Owns(q)'
    BY <1>1, <2>1, <2>4 DEF Owns, Accepted, Posted
  <2>6. r \in leaked' => Owns(r)'
    BY DEF Owns
  <2>7. QED
    BY <2>2, <2>4, <2>5, <2>6, OwnedKept
<1>4. QED
  BY <1>2, <1>3 DEF Waiter

LEMMA NextOwned == ASSUME TypeInv, JobInv, BoxOwned, [Next]_vars PROVE BoxOwned'
<1> USE DEF jobVars
<1>1. StreamGrows /\ Len(stream') \in Nat
  BY StreamSteps, NextType DEF TypeInv, TypeOK, IoType
<1>2. UNCHANGED <<waiter, leaked, box>> => BoxOwned'
  BY <1>1, OwnedQuiet
<1>3. ASSUME NEW r \in Requests, AcceptRun(r) PROVE BoxOwned'
  <2>1. UNCHANGED <<leaked, box>> /\ waiter' = [waiter EXCEPT ![r] = "waiting"]
    BY <1>3 DEF AcceptRun
  <2>2. \A q : Owns(q) => Owns(q)'
    BY <2>1 DEF Owns, Accepted, Posted, TypeInv, TypeOK, JobType
  <2>3. QED
    BY <1>1, <2>1, <2>2, OwnedKept
<1>4. ASSUME NEW r \in Requests, SetupFails(r) PROVE BoxOwned'
  <2>1. /\ UNCHANGED waiter /\ Receive(RequestEvent(r))
        /\ \/ box' = [box EXCEPT ![stream[r].id] = "none"] /\ UNCHANGED leaked
           \/ box' = [box EXCEPT ![stream[r].id] = "dead"] /\ leaked' = leaked \cup {r}
    BY <1>4 DEF SetupFails, Handle
  <2>2. r \in 1 .. Len(stream) /\ stream[r].id \in Ids
    BY <2>1, RequestRead
  <2>3. \A q : Owns(q) => Owns(q)'
    BY <2>1 DEF Owns, Accepted, Posted
  <2>4. \A i \in Ids : i # stream[r].id => box'[i] = box[i]
    BY <2>1 DEF TypeInv, TypeOK, JobType
  <2>5. box'[stream[r].id] = "none" \/ Owns(r)'
    BY <2>1, <2>2 DEF Owns, TypeInv, TypeOK, JobType
  <2>6. QED
    BY <1>1, <2>2, <2>3, <2>4, <2>5, OwnedKept
<1>5. ASSUME NEW r \in Requests, HandleRequest(r), ~AcceptRun(r), ~SetupFails(r) PROVE BoxOwned'
  BY <1>2, <1>5 DEF HandleRequest, RefuseClosing, HandleHealth, HandleUnknown, RefuseRun,
     StartFails, HandleCancel, HandleBadCancel, HandleShutdown
<1>6. CASE \/ ReadFrame \/ ReadEnd \/ Crash \/ ClientSide \/ UNCHANGED vars
           \/ HandleEof \/ HandleStreamError \/ Close \/ Drain \/ DropDone
           \/ \E r \in Requests : Finish(r)
  BY <1>2, <1>6 DEF ReadFrame, ReadEnd, Crash, ClientSide, PipeBreaks, PipeFills, PipeEmpties,
     OutUnchanged, vars, HandleEof, HandleStreamError,
     Close, Drain, DropDone, Finish
<1>7. ASSUME NEW i \in Ids, DropJob(i) PROVE BoxOwned'
  <2>1. UNCHANGED waiter /\ CleanupJob(i, active[i])
    BY <1>7 DEF DropJob
  <2>2. leaked \subseteq leaked' /\ \A j \in Ids : box'[j] = "none" \/ box'[j] = box[j]
    BY <2>1, CleanupKept
  <2>3. QED
    BY <1>1, <2>1, <2>2, OwnedQuiet
<1>8. ASSUME NEW r \in Requests, Waiter(r) PROVE BoxOwned'
  BY <1>1, <1>8, WaiterOwned
<1>9. ASSUME NEW r \in Requests, LauncherBoxes(r) \/ LauncherExits(r) \/ HostKills(r)
      PROVE  BoxOwned'
  BY <1>1, <1>9, LauncherOwned DEF LauncherExits, LauncherKilled, HostKills
<1>10. ASSUME NEW i \in Ids, GuestDies(i) PROVE BoxOwned'
  <2>1. UNCHANGED <<waiter, leaked>> /\ \A j \in Ids : box'[j] # "none" => box[j] # "none"
    BY <1>10 DEF GuestDies, ProcessUnchanged, TypeInv, TypeOK, JobType
  <2>2. QED
    BY <1>1, <2>1, OwnedQuiet
<1>11. QED
  BY <1>3, <1>4, <1>5, <1>6, <1>7, <1>8, <1>9, <1>10 DEF Next, Loop, Terminated

\* How the process gets to a clean end, and what may still happen after it.
LEMMA EndSteps ==
    ASSUME [Next]_vars, proc' \in CleanEnds
    PROVE  \/ Close \/ Drain
           \/ /\ proc \in CleanEnds
              /\ \/ \E r \in Requests : LauncherBoxes(r) \/ LauncherExits(r) \/ HostKills(r)
                 \/ \E i \in Ids : GuestDies(i)
                 \/ UNCHANGED vars
<1> USE DEF CleanEnds, Ends, Ended
<1>1. ASSUME NEW r \in Requests, HandleRequest(r) \/ Finish(r) PROVE FALSE
  BY <1>1 DEF HandleRequest, RefuseClosing, HandleHealth, HandleUnknown, RefuseRun, AcceptRun,
     StartFails, SetupFails, HandleCancel, HandleBadCancel, HandleShutdown, Finish,
     Handle, Receive, Write
<1>2. CASE \/ ReadFrame \/ ReadEnd \/ Crash \/ ClientSide \/ HandleEof \/ HandleStreamError
           \/ DropDone \/ (\E i \in Ids : DropJob(i)) \/ \E r \in Requests : Waiter(r)
  BY <1>2 DEF ReadFrame, ReadEnd, ReaderRuns, Crash, ClientSide, PipeBreaks, PipeFills,
     PipeEmpties, OutUnchanged, HandleEof, HandleStreamError,
     Receive, DropDone, DropJob, Waiter, Reap, CleanUp, Post
<1>3. ASSUME NEW r \in Requests, LauncherBoxes(r) \/ LauncherExits(r) \/ HostKills(r)
      PROVE  proc \in CleanEnds
  BY <1>3 DEF LauncherBoxes, LauncherExits, LauncherSucceeds,
     LauncherFails, LauncherKilled, HostKills, Killed, ProcessUnchanged
<1>4. ASSUME NEW i \in Ids, GuestDies(i) PROVE proc \in CleanEnds
  BY <1>4 DEF GuestDies, ProcessUnchanged
<1>5. QED
  BY <1>1, <1>2, <1>3, <1>4 DEF Next, Loop, Terminated, vars

\* With an empty table everything was answered, given back and cleaned up after.
LEMMA EmptyTable ==
    ASSUME TypeInv, JobInv, ReservationsMatch, BoxOwned, proc = "running", ActiveIds = {}
    PROVE  /\ \A r \in Requests : Accepted(r) => Answered(r) /\ ~Running(r)
           /\ reserved = 0 /\ wsReserved = 0
           /\ \A i \in Ids : box[i] # "none" => \E r \in leaked : stream[r].id = i
<1>1. \A i \in Ids : active[i] = 0
  BY DEF ActiveIds
<1>2. ASSUME NEW r \in Requests, Accepted(r) PROVE Answered(r) /\ ~Running(r) /\ Posted(r)
  <2>1. r \in 1 .. Len(stream)
    BY <1>2 DEF Accepted, TypeInv, InRange, TypeOK, IoType, Requests
  <2>2. stream[r].id \in Ids
    BY <2>1, FrameFields DEF TypeInv, TypeOK, IoType
  <2>3. Answered(r)
    BY <1>1, <1>2, <2>2 DEF JobInv, NoneLost, Requests
  <2>4. QED
    BY <1>2, <2>3 DEF JobInv, Stages, Stage, Running, Posted
<1>3. reserved = 0 /\ wsReserved = 0
  BY MatchSums, SumEmpty
<1>4. ASSUME NEW i \in Ids, box[i] # "none" PROVE \E r \in leaked : stream[r].id = i
  <2>1. PICK r \in 1 .. Len(stream) : stream[r].id = i /\ Owns(r)
    BY <1>4 DEF BoxOwned
  <2>2. r \in Requests
    BY SupervisorAssumption DEF Requests, TypeInv, TypeOK, IoType
  <2>3. QED
    BY <1>2, <2>1, <2>2 DEF Owns
<1>5. QED
  BY <1>2, <1>3, <1>4

LEMMA NextClean ==
    ASSUME TypeInv, JobInv, ReservationsMatch, BoxOwned, CleanEnd, [Next]_vars
    PROVE  CleanEnd'
<1>1. SUFFICES ASSUME proc' \in CleanEnds
               PROVE  /\ \A r \in Requests : Accepted(r)' => Answered(r)' /\ ~Running(r)'
                      /\ reserved' = 0 /\ wsReserved' = 0
                      /\ \A i \in Ids : box'[i] # "none" => \E r \in leaked' : stream'[r].id = i
  BY DEF CleanEnd
<1>2. CASE Close \/ Drain
  <2>1. proc = "running" /\ ActiveIds = {} /\ UNCHANGED <<ioVars, tableVars, jobVars>>
    BY <1>2 DEF Close, Drain
  <2>2. \A r \in Requests : Accepted(r) => reply'[r] = reply[r]
    BY <1>2 DEF Close, Drain, JobInv, ShutdownInv, TypeInv, TypeOK, LoopType
  <2>3. QED
    BY <2>1, <2>2, EmptyTable DEF Accepted, Answered, Running, ioVars, tableVars, jobVars
<1>3. CASE proc \in CleanEnds
  <2>1. \A r \in Requests : ~Running(r)
    BY <1>3 DEF CleanEnd, JobInv, Stages, Stage, Running, Accepted
  <2>2. ~\E r \in Requests : LauncherBoxes(r) \/ LauncherExits(r) \/ HostKills(r)
    BY <2>1 DEF LauncherBoxes, LauncherExits, LauncherSucceeds, LauncherFails, LauncherKilled,
       HostKills, Killed, Running
  <2>3. ~Close /\ ~Drain
    BY <1>3 DEF Close, Drain, CleanEnds
  <2>4. /\ UNCHANGED <<stream, reply, tableVars, launcher, waiter, leaked>>
        /\ \A i \in Ids : box'[i] # "none" => box[i] # "none"
    <3>1. CASE UNCHANGED vars
      BY <3>1 DEF vars, ioVars, jobVars
    <3>2. ASSUME NEW i \in Ids, GuestDies(i)
          PROVE  /\ UNCHANGED <<stream, reply, tableVars, launcher, waiter, leaked>>
                 /\ \A j \in Ids : box'[j] # "none" => box[j] # "none"
      BY <3>2 DEF GuestDies, ProcessUnchanged, ioVars, TypeInv, TypeOK, JobType
    <3>3. QED
      BY <1>1, <2>2, <2>3, <3>1, <3>2, EndSteps
  <2>5. QED
    BY <1>3, <2>4 DEF CleanEnd, Accepted, Answered, Running, tableVars
<1>4. QED
  BY <1>1, <1>2, <1>3, EndSteps

LEMMA CleanInvariance == Spec => [](TypeInv /\ JobInv /\ ReservationsMatch /\ BoxOwned /\ CleanEnd)
<1>1. Init => TypeInv /\ JobInv /\ ReservationsMatch
  BY InitType, InitJob, InitMatch
<1>2. Init => BoxOwned /\ CleanEnd
  BY DEF Init, BoxOwned, CleanEnd, CleanEnds
<1>3. TypeInv /\ JobInv /\ ReservationsMatch /\ BoxOwned /\ CleanEnd /\ [Next]_vars
      => TypeInv' /\ JobInv' /\ ReservationsMatch' /\ BoxOwned' /\ CleanEnd'
  BY NextType, NextJob, NextMatch, NextOwned, NextClean
<1>4. QED
  BY <1>1, <1>2, <1>3, PTL DEF Spec

\* When shutdown or the end of input ends the process, every started run was answered,
\* nothing is reserved, nothing runs, and every cgroup left was reported (CleanEnd).
THEOREM CleanEndHolds == Spec => []CleanEnd
BY CleanInvariance, PTL

-----------------------------------------------------------------------------
(* No cancel is answered under the ID of a run that waits for its answer.    *)

\* Requests are answered in the order they were read, but for the jobs ...
Late ==
    \A k \in 1 .. Len(chan) :
        chan[k].type = "request" => \A q \in Requests : Answered(q) => q < chan[k].req

\* ... a shutdown marks all of these ...
AllMarked == shutdown # 0 => \A r \in Requests : Open(r) => r \in cancelled

\* ... and only after it is a cancel answered under the ID of one.
UnderOwn ==
    \A r \in Requests : Open(r) =>
        \A q \in r + 1 .. Len(stream) :
            SameId(r, q) /\ stream[q].kind = "cancel" /\ Answered(q)
                => shutdown # 0 /\ reply[q] = <<"CANCELLED">>

IdInv == Late /\ AllMarked /\ UnderOwn

\* Only the reader adds requests to the channel.
ChanShrinks ==
    \A k \in 1 .. Len(chan') :
        chan'[k].type = "request" => \E j \in 1 .. Len(chan) : chan'[k] = chan[j]

LEMMA ChanSteps == ASSUME TypeInv, [Next]_vars, ~ReadFrame PROVE ChanShrinks
<1>1. Len(chan) \in Nat /\ ChanType
  BY DEF TypeInv, TypeOK, ChanType
<1>2. UNCHANGED chan => ChanShrinks
  BY DEF ChanShrinks
<1>3. chan' = <<>> => ChanShrinks
  BY DEF ChanShrinks
<1>4. (\E e : Receive(e)) => ChanShrinks
  BY <1>1, Taken DEF ChanShrinks
<1>5. ASSUME NEW e \in Events, Len(chan) < ChanCap, chan' = Append(chan, e), e.type # "request"
      PROVE  ChanShrinks
  BY <1>1, <1>5, Sent1 DEF ChanShrinks
<1>6. CASE ReadEnd
  <2>1. PICK e \in {EofEvent, ErrorEvent} : chan' = Append(chan, e)
    BY <1>6 DEF ReadEnd
  <2>2. e \in Events /\ e.type # "request"
    BY SupervisorAssumption DEF Events, EofEvent, ErrorEvent
  <2>3. QED
    BY <1>5, <1>6, <2>1, <2>2 DEF ReadEnd, ReaderRuns
<1>7. ASSUME NEW r \in Requests, Post(r) PROVE ChanShrinks
  <2>1. FinishedEvent(r) \in Events /\ FinishedEvent(r).type # "request"
    BY SupervisorAssumption DEF Events, FinishedEvent, Requests
  <2>2. QED
    BY <1>5, <1>7, <2>1 DEF Post
<1>8. ASSUME NEW r \in Requests, HandleRequest(r) \/ Finish(r) PROVE ChanShrinks
  BY <1>4, <1>8 DEF HandleRequest, RefuseClosing, HandleHealth, HandleUnknown, RefuseRun, AcceptRun,
     StartFails, SetupFails, HandleCancel, HandleBadCancel, HandleShutdown, Finish, Handle
<1>9. CASE HandleEof \/ HandleStreamError
  BY <1>4, <1>9 DEF HandleEof, HandleStreamError
<1>10. CASE Close \/ Drain \/ DropDone \/ Crash
  BY <1>3, <1>10 DEF Close, Drain, DropDone, Crash
<1>11. CASE ClientSide \/ UNCHANGED vars \/ \E i \in Ids : DropJob(i) \/ GuestDies(i)
  BY <1>2, <1>11 DEF ClientSide, PipeBreaks, PipeFills, PipeEmpties, OutUnchanged, vars,
     DropJob, GuestDies, ProcessUnchanged
<1>12. ASSUME NEW r \in Requests,
              Reap(r) \/ CleanUp(r) \/ LauncherBoxes(r) \/ LauncherExits(r) \/ HostKills(r)
       PROVE  ChanShrinks
  BY <1>2, <1>12 DEF Reap, CleanUp, LauncherBoxes, LauncherExits, LauncherSucceeds,
     LauncherFails, LauncherKilled, HostKills, Killed, ProcessUnchanged
<1>13. QED
  BY <1>6, <1>7, <1>8, <1>9, <1>10, <1>11, <1>12 DEF Next, Loop, Waiter, Terminated

\* A job that is answered stays so.
LEMMA OpenSteps ==
    ASSUME TypeInv, JobInv, [Next]_vars
    PROVE  \A r \in Requests : Open(r)' => Open(r) \/ AcceptRun(r)
<1>1. SUFFICES ASSUME NEW r \in Requests, Open(r)', ~AcceptRun(r) PROVE Open(r)
  OBVIOUS
<1>2. Accepted(r)
  BY <1>1, AcceptedSteps DEF Open
<1>3. ~Answered(r)
  BY <1>1, <1>2, JobReplies DEF Open, Answered
<1>4. QED
  BY <1>2, <1>3 DEF Open

\* A request that is no job is answered by its handler, a shutdown at the end.
LEMMA FrameReplies ==
    ASSUME TypeInv, JobInv, [Next]_vars, NEW q \in Requests, ~Accepted(q), reply'[q] # reply[q]
    PROVE  \/ Close
           \/ /\ Receive(RequestEvent(q))
              /\ stream[q].kind = "cancel" =>
                    \/ shutdown # 0 /\ UNCHANGED shutdown /\ Write(q, "CANCELLED")
                    \/ active[stream[q].id] = 0
<1> DEFINE Answers ==
        /\ Receive(RequestEvent(q))
        /\ stream[q].kind = "cancel" =>
              \/ shutdown # 0 /\ UNCHANGED shutdown /\ Write(q, "CANCELLED")
              \/ active[stream[q].id] = 0
<1>1. ASSUME NEW r \in Requests, HandleRequest(r) PROVE Answers
  <2>1. CASE SetupFails(r)
    <3>1. Receive(RequestEvent(r)) /\ Write(r, "error") /\ stream[r].kind = "run"
      BY <2>1 DEF SetupFails, Handle
    <3>2. q = r
      BY <3>1, TakenFresh, WriteOnce DEF Answered, Codes
    <3>3. QED
      BY <3>1, <3>2
  <2>2. CASE AcceptRun(r) \/ HandleCancel(r) \/ HandleShutdown(r)
    BY <2>2 DEF AcceptRun, HandleCancel, HandleShutdown
  <2>3. CASE \/ RefuseClosing(r) \/ HandleHealth(r) \/ HandleUnknown(r)
             \/ RefuseRun(r) \/ StartFails(r) \/ HandleBadCancel(r)
    <3>1. OnlyReply(r) /\ Receive(RequestEvent(r))
      BY <2>3, OnlyReplies
    <3>2. q = r
      BY <3>1, TakenFresh, WriteOnce DEF OnlyReply, Answered
    <3>3. CASE RefuseClosing(r)
      BY <3>1, <3>2, <3>3 DEF RefuseClosing, loopVars
    <3>4. CASE HandleHealth(r) \/ HandleUnknown(r) \/ RefuseRun(r) \/ StartFails(r)
      BY <3>1, <3>2, <3>4 DEF HandleHealth, HandleUnknown, RefuseRun, StartFails, Handle
    <3>5. CASE HandleBadCancel(r)
      BY <3>1, <3>2, <3>5 DEF HandleBadCancel
    <3>6. QED
      BY <2>3, <3>3, <3>4, <3>5
  <2>4. QED
    BY <1>1, <2>1, <2>2, <2>3 DEF HandleRequest
<1> HIDE DEF Answers
<1>2. ASSUME NEW r \in Requests, Finish(r) PROVE FALSE
  <2>1. active[stream[r].id] = r /\ waiter[r] = "done" /\ ~Answered(r) /\ r # 0
    BY <1>2, FinishKnown DEF Finish, Requests
  <2>2. \E code \in Codes : Write(r, code)
    BY <1>2, <2>1 DEF Finish, ResultCodes, Codes
  <2>3. q = r
    BY <2>1, <2>2, WriteOnce DEF Answered
  <2>4. QED
    BY <2>1, <2>3 DEF Accepted
<1>3. ASSUME \/ ReadFrame \/ ReadEnd \/ HandleEof \/ HandleStreamError \/ Drain \/ DropDone
             \/ Crash \/ ClientSide \/ UNCHANGED vars \/ \E i \in Ids : DropJob(i)
      PROVE  FALSE
  BY <1>3 DEF ReadFrame, ReadEnd, HandleEof, HandleStreamError, Drain, DropDone, DropJob,
     Crash, ClientSide, PipeBreaks, PipeFills, PipeEmpties, OutUnchanged, vars
<1>4. ASSUME NEW r \in Requests, Waiter(r) \/ LauncherBoxes(r) \/ LauncherExits(r) \/ HostKills(r)
      PROVE  FALSE
  BY <1>4 DEF Waiter, Reap, CleanUp, Post, LauncherBoxes, LauncherExits, LauncherSucceeds,
     LauncherFails, LauncherKilled, HostKills, Killed, ProcessUnchanged
<1>5. ASSUME NEW i \in Ids, GuestDies(i) PROVE FALSE
  BY <1>5 DEF GuestDies, ProcessUnchanged
<1>6. Close \/ Answers
  BY <1>1, <1>2, <1>3, <1>4, <1>5 DEF Next, Loop, Terminated
<1>7. QED
  BY <1>6 DEF Answers

\* A job that was started was read, under an ID.
LEMMA OpenRead ==
    ASSUME TypeInv, NEW r \in Requests, Open(r)
    PROVE  r \in 1 .. Len(stream) /\ stream[r].id \in Ids /\ r # 0
<1>1. r \in 1 .. Len(stream)
  BY DEF Open, Accepted, TypeInv, InRange, Requests
<1>2. QED
  BY <1>1, FrameFields DEF TypeInv, TypeOK, IoType

\* The event the loop takes is the head of the channel, and the rest comes after it.
LEMMA HeadFirst ==
    ASSUME TypeInv, JobInv, NEW r \in Requests, Receive(RequestEvent(r))
    PROVE  /\ 1 \in 1 .. Len(chan) /\ chan[1].type = "request" /\ chan[1].req = r
           /\ proc = "running"
           /\ \A k \in 1 .. Len(chan') : chan'[k].type = "request" => r < chan'[k].req
<1>1. /\ Len(chan) >= 1 /\ chan[1] = RequestEvent(r) /\ Len(chan) \in Nat /\ Len(chan') \in Nat
      /\ \A k \in 1 .. Len(chan') : k + 1 \in 1 .. Len(chan) /\ chan'[k] = chan[k + 1]
      /\ proc = "running"
  BY Taken DEF TypeInv, TypeOK, ChanType, Receive
<1>2. 1 \in 1 .. Len(chan) /\ chan[1].type = "request" /\ chan[1].req = r
  BY <1>1 DEF RequestEvent
<1>3. ASSUME NEW k \in 1 .. Len(chan'), chan'[k].type = "request" PROVE r < chan'[k].req
  <2>1. k + 1 \in 1 .. Len(chan) /\ 1 < k + 1
    BY <1>1
  <2>2. Follows(chan[1], chan[k + 1])
    BY <1>2, <2>1 DEF JobInv, OrderInv
  <2>3. QED
    BY <1>1, <1>2, <1>3, <2>2 DEF Follows
<1>4. QED
  BY <1>1, <1>2, <1>3

LEMMA NextLate == ASSUME TypeInv, JobInv, Late, [Next]_vars PROVE Late'
<1>1. SUFFICES ASSUME NEW k \in 1 .. Len(chan'), chan'[k].type = "request",
                      NEW q \in Requests, Answered(q)'
               PROVE  q < chan'[k].req
  BY DEF Late
<1>2. CASE ReadFrame
  <2>1. /\ UNCHANGED reply /\ Len(stream) \in Nat /\ Len(chan) \in Nat
        /\ chan' = Append(chan, RequestEvent(Len(stream) + 1))
        /\ Len(stream) < MaxFrames /\ Len(chan) < ChanCap
    BY <1>2 DEF ReadFrame, ReaderRuns, TypeInv, TypeOK, IoType, ChanType
  <2>2. RequestEvent(Len(stream) + 1) \in Events
    BY <2>1, SupervisorAssumption DEF Events, RequestEvent
  <2>3. /\ Len(chan') = Len(chan) + 1 /\ chan'[Len(chan) + 1] = RequestEvent(Len(stream) + 1)
        /\ \A j \in 1 .. Len(chan) : chan'[j] = chan[j]
    BY <2>1, <2>2, Sent1 DEF TypeInv, TypeOK
  <2>4. Answered(q) /\ q \in Int /\ q <= Len(stream)
    BY <1>1, <2>1 DEF Answered, JobInv, UnreadInv, Requests
  <2>5. CASE k = Len(chan) + 1
    BY <2>1, <2>3, <2>4, <2>5 DEF RequestEvent
  <2>6. CASE k # Len(chan) + 1
    <3>1. k \in 1 .. Len(chan) /\ chan'[k] = chan[k]
      BY <2>1, <2>3, <2>6
    <3>2. QED
      BY <1>1, <2>4, <3>1 DEF Late
  <2>7. QED
    BY <2>5, <2>6
<1>3. CASE ~ReadFrame
  <2>1. PICK j \in 1 .. Len(chan) : chan'[k] = chan[j]
    BY <1>1, <1>3, ChanSteps DEF ChanShrinks
  <2>2. CASE Answered(q)
    BY <1>1, <2>1, <2>2 DEF Late
  <2>3. CASE Accepted(q)
    BY <1>1, <2>1, <2>3 DEF JobInv, QueueInv, RequestQueued
  <2>4. CASE ~Answered(q) /\ ~Accepted(q)
    <3>1. Close \/ Receive(RequestEvent(q))
      BY <1>1, <2>4, FrameReplies DEF Answered
    <3>2. ~Close
      BY <1>1 DEF Close
    <3>3. QED
      BY <1>1, <3>1, <3>2, HeadFirst
  <2>5. QED
    BY <2>2, <2>3, <2>4
<1>4. QED
  BY <1>2, <1>3

LEMMA NextMarked == ASSUME TypeInv, JobInv, AllMarked, [Next]_vars PROVE AllMarked'
<1>1. SUFFICES ASSUME shutdown' # 0, NEW r \in Requests, Open(r)' PROVE r \in cancelled'
  BY DEF AllMarked
<1>2. CASE Open(r)
  <2>1. CASE UNCHANGED <<cancelled, shutdown, eof>>
    BY <1>1, <1>2, <2>1 DEF AllMarked
  <2>2. ASSUME NEW c \in Requests, HandleCancel(c) PROVE r \in cancelled'
    <3>1. cancelled \subseteq cancelled' /\ UNCHANGED shutdown
      BY <2>2 DEF HandleCancel, loopVars
    <3>2. QED
      BY <1>1, <1>2, <3>1 DEF AllMarked
  <2>3. ASSUME Receive(RequestEvent(shutdown')) \/ Receive(EofEvent), CancelAll
        PROVE  r \in cancelled'
    <3>1. active[stream[r].id] = r /\ r # 0
      BY <1>2, <2>3 DEF Receive, JobInv, NoneLost, Open, Requests
    <3>2. stream[r].id \in Ids
      BY <1>2, OpenRead
    <3>3. QED
      BY <2>3, <3>1, <3>2 DEF CancelAll, ActiveJobs, ActiveIds
  <2>4. ASSUME NEW s \in Requests, HandleShutdown(s) PROVE r \in cancelled'
    BY <2>3, <2>4 DEF HandleShutdown, Handle
  <2>5. HandleEof => r \in cancelled'
    BY <2>3 DEF HandleEof
  <2>6. QED
    BY <2>1, <2>2, <2>4, <2>5, MarkSteps
<1>3. CASE AcceptRun(r)
  BY <1>1, <1>3 DEF AcceptRun, Handle, loopVars
<1>4. QED
  BY <1>1, <1>2, <1>3, OpenSteps

LEMMA NextUnder == ASSUME TypeInv, JobInv, IdInv, [Next]_vars PROVE UnderOwn'
<1>1. SUFFICES ASSUME NEW r \in Requests, Open(r)', NEW q \in r + 1 .. Len(stream'),
                      SameId(r, q)', stream'[q].kind = "cancel", Answered(q)'
               PROVE  shutdown' # 0 /\ reply'[q] = <<"CANCELLED">>
  BY DEF UnderOwn
<1>2. q \in Requests /\ r < q /\ Len(stream) \in Nat
  <2>1. stream' \in Seq(Frames) /\ Len(stream') <= MaxFrames /\ stream \in Seq(Frames)
    BY NextType DEF TypeInv, TypeOK, IoType
  <2>2. Len(stream') \in Nat /\ Len(stream) \in Nat
    BY <2>1
  <2>3. QED
    BY <2>1, <2>2, SupervisorAssumption DEF Requests
<1>3. ASSUME q <= Len(stream)
      PROVE  /\ SameId(r, q) /\ stream[q].kind = "cancel" /\ stream[r].id \in Ids
             /\ q \in r + 1 .. Len(stream)
  <2>1. r \in 1 .. Len(stream) /\ q \in 1 .. Len(stream) /\ q \in r + 1 .. Len(stream)
    BY <1>2, <1>3 DEF Requests
  <2>2. stream'[r] = stream[r] /\ stream'[q] = stream[q]
    BY <2>1, StreamSteps DEF StreamGrows
  <2>3. stream[r].id \in Ids
    BY <2>1, FrameFields DEF TypeInv, TypeOK, IoType
  <2>4. QED
    BY <1>1, <2>1, <2>2, <2>3 DEF SameId
<1>4. CASE reply'[q] = reply[q]
  <2>1. Answered(q) /\ q <= Len(stream)
    BY <1>1, <1>2, <1>4 DEF Answered, JobInv, UnreadInv
  <2>2. CASE Open(r)
    <3>1. shutdown # 0 /\ reply[q] = <<"CANCELLED">>
      BY <1>3, <2>1, <2>2 DEF IdInv, UnderOwn
    <3>2. shutdown' # 0
      <4>1. ASSUME NEW c \in Requests, HandleCancel(c) PROVE UNCHANGED shutdown
        BY <4>1 DEF HandleCancel, loopVars
      <4>2. ASSUME NEW c \in Requests, HandleShutdown(c) PROVE shutdown' = c /\ c # 0
        BY <4>2 DEF HandleShutdown, Requests
      <4>3. HandleEof => UNCHANGED shutdown
        BY DEF HandleEof
      <4>4. UNCHANGED <<cancelled, shutdown, eof>> => UNCHANGED shutdown
        OBVIOUS
      <4>5. QED
        BY <3>1, <4>1, <4>2, <4>3, <4>4, MarkSteps
    <3>3. QED
      BY <1>4, <3>1, <3>2
  <2>3. CASE AcceptRun(r)
    <3>1. Receive(RequestEvent(r))
      BY <2>3 DEF AcceptRun, Handle
    <3>2. q < r
      BY <1>2, <2>1, <3>1, HeadFirst DEF IdInv, Late
    <3>3. QED
      BY <1>2, <3>2 DEF Requests
  <2>4. QED
    BY <1>1, <2>2, <2>3, OpenSteps
<1>5. CASE reply'[q] # reply[q]
  <2>1. Open(r)
    BY <1>1, <1>5, OpenSteps DEF AcceptRun
  <2>2. ASSUME proc = "running", q <= Len(stream) PROVE active[stream[q].id] = r
    BY <1>3, <2>1, <2>2 DEF JobInv, NoneLost, Open, SameId
  <2>3. ~Accepted(q)
    <3> SUFFICES ASSUME Accepted(q) PROVE FALSE
      OBVIOUS
    <3>1. Finish(q) /\ active[stream[q].id] = q
      BY <1>2, <1>5, JobReplies
    <3>2. proc = "running" /\ q <= Len(stream)
      BY <1>2, <3>1, RequestRead DEF Finish, Receive
    <3>3. QED
      BY <1>2, <2>2, <3>1, <3>2 DEF Requests
  <2>4. ~Close
    <3> SUFFICES ASSUME Close PROVE FALSE
      OBVIOUS
    <3>1. active[stream[r].id] = r /\ r # 0
      BY <2>1 DEF Close, JobInv, NoneLost, Open, Requests
    <3>2. stream[r].id \in Ids
      BY <2>1, OpenRead
    <3>3. QED
      BY <3>1, <3>2 DEF Close, ActiveIds
  <2>5. /\ Receive(RequestEvent(q))
        /\ stream[q].kind = "cancel" =>
              \/ shutdown # 0 /\ UNCHANGED shutdown /\ Write(q, "CANCELLED")
              \/ active[stream[q].id] = 0
    BY <1>2, <1>5, <2>3, <2>4, FrameReplies
  <2>6. proc = "running" /\ q <= Len(stream)
    BY <1>2, <2>5, RequestRead DEF Receive
  <2>7. active[stream[q].id] = r /\ r # 0
    BY <2>2, <2>6 DEF Requests
  <2>8. shutdown # 0 /\ UNCHANGED shutdown /\ Write(q, "CANCELLED")
    BY <1>3, <2>5, <2>6, <2>7
  <2>9. reply' = [reply EXCEPT ![q] = Append(@, "CANCELLED")]
    BY <1>5, <2>8 DEF Write
  <2>10. ~Answered(q)
    BY <1>2, <2>5, TakenFresh
  <2>11. reply'[q] = Append(<<>>, "CANCELLED")
    BY <1>2, <2>9, <2>10 DEF Answered, TypeInv, TypeOK, LoopType
  <2>12. QED
    BY <2>8, <2>11
<1>6. QED
  BY <1>4, <1>5

LEMMA IdInvariance == Spec => [](TypeInv /\ JobInv /\ IdInv)
<1>1. Init => TypeInv /\ JobInv
  BY InitType, InitJob
<1>2. Init => IdInv
  BY DEF Init, IdInv, Late, AllMarked, UnderOwn, Open, Accepted
<1>3. TypeInv /\ JobInv /\ IdInv /\ [Next]_vars => TypeInv' /\ JobInv' /\ IdInv'
  BY NextType, NextJob, NextLate, NextMarked, NextUnder DEF IdInv
<1>4. QED
  BY <1>1, <1>2, <1>3, PTL DEF Spec

\* No frame is answered twice, and under the ID of a run that waits for its answer no
\* cancel is, except with the CANCELLED that a shutdown holds for both (AnsweredOnce).
THEOREM AnsweredOnceHolds == Spec => []AnsweredOnce
<1>1. JobInv /\ IdInv => AnsweredOnce
  <2> SUFFICES ASSUME JobInv, IdInv, NEW r \in Requests
               PROVE  /\ Len(reply[r]) <= 1
                      /\ Accepted(r) /\ ~Answered(r) =>
                           \A q \in r + 1 .. Len(stream) :
                             stream[q].id = stream[r].id /\ stream[q].kind = "cancel" /\ Answered(q)
                               => shutdown # 0 /\ r \in cancelled /\ reply[q] = <<"CANCELLED">>
    BY DEF AnsweredOnce
  <2>1. Len(reply[r]) <= 1
    BY DEF JobInv, Stages, Stage
  <2>2. Open(r) => \A q \in r + 1 .. Len(stream) :
            SameId(r, q) /\ stream[q].kind = "cancel" /\ Answered(q)
                => shutdown # 0 /\ r \in cancelled /\ reply[q] = <<"CANCELLED">>
    BY DEF IdInv, UnderOwn, AllMarked
  <2>3. QED
    BY <2>1, <2>2 DEF Open, SameId
<1>2. QED
  BY <1>1, IdInvariance, PTL

\* All of the safety invariants together, for every number of IDs, frames and slots
\* and every set of faults.
THEOREM SafetyHolds == Spec => []Safety
<1>1. TypeOK /\ AnsweredOnce /\ AnsweredAfterTeardown /\ NoStrayJob /\ SlotBound
      /\ ReservationsMatch /\ CapacityBound /\ CancelJustified /\ CleanEnd => Safety
  BY DEF Safety
<1>2. QED
  BY <1>1, TypeCorrect, AnsweredOnceHolds, AnsweredAfterTeardownHolds, NoStrayJobHolds, SlotBoundHolds,
     ReservationsMatchHolds, CapacityBoundHolds, CancelJustifiedHolds, CleanEndHolds, PTL

-----------------------------------------------------------------------------
(* The supervisor's steps are steps of RunContract.  What that takes besides  *)
(* the invariants above: a start that failed and left its cgroup (a leaked    *)
(* request that is no job) never passes for the end of a job's guest.         *)

LeakedRead == \A x \in leaked : x <= Len(stream)

LeakedBefore ==
    \A k \in 1 .. Len(chan) :
        chan[k].type = "request" => \A x \in leaked : x < chan[k].req

\* The cgroup such a start left is empty until a later job gets a guest into it.
LeakedStart(x) ==
    /\ \A r \in Requests : Open(r) /\ SameId(r, x) => x < r
    /\ box[stream[x].id] = "live" =>
          \E q \in x + 1 .. Len(stream) : stream[q].id = stream[x].id /\ Accepted(q)
LeakedStarts == \A x \in leaked : ~Accepted(x) => LeakedStart(x)

LeakInv == LeakedRead /\ LeakedBefore /\ LeakedStarts

\* Cleanups are reported to have failed for jobs, and for starts that failed.
LEMMA LeakSteps ==
    ASSUME TypeInv, JobInv, [Next]_vars
    PROVE  \A x \in leaked' : x \in leaked \/ (x \in Requests /\ (Accepted(x) \/ SetupFails(x)))
<1> USE DEF jobVars
<1>1. ASSUME NEW r \in Requests, HandleRequest(r), ~SetupFails(r) PROVE UNCHANGED leaked
  BY <1>1 DEF HandleRequest, RefuseClosing, HandleHealth, HandleUnknown, RefuseRun, AcceptRun,
     StartFails, HandleCancel, HandleBadCancel, HandleShutdown
<1>2. ASSUME NEW r \in Requests, SetupFails(r) PROVE leaked' \subseteq leaked \cup {r}
  BY <1>2 DEF SetupFails
<1>3. CASE \/ ReadFrame \/ ReadEnd \/ Crash \/ ClientSide \/ UNCHANGED vars \/ HandleEof
           \/ HandleStreamError \/ Close \/ Drain \/ DropDone \/ \E r \in Requests : Finish(r)
  BY <1>3 DEF ReadFrame, ReadEnd, Crash, ClientSide, PipeBreaks, PipeFills, PipeEmpties,
     OutUnchanged, vars, HandleEof, HandleStreamError, Close,
     Drain, DropDone, Finish
<1>4. ASSUME NEW r \in Requests, Waiter(r) PROVE leaked' \subseteq leaked \cup {r} /\ Accepted(r)
  BY <1>4 DEF Waiter, Reap, CleanUp, Post, CleanupJob, Accepted
<1>5. ASSUME NEW i \in Ids, DropJob(i)
      PROVE  leaked' \subseteq leaked \cup {active[i]} /\ Accepted(active[i]) /\ active[i] \in Requests
  BY <1>5, ActiveJobsRequests DEF DropJob, CleanupJob, JobInv, TableInv, ActiveJobs, ActiveIds
<1>6. ASSUME NEW r \in Requests, LauncherBoxes(r) \/ LauncherExits(r) \/ HostKills(r)
      PROVE  UNCHANGED leaked
  BY <1>6 DEF LauncherBoxes, LauncherExits, LauncherSucceeds,
     LauncherFails, LauncherKilled, HostKills, Killed, ProcessUnchanged
<1>7. ASSUME NEW i \in Ids, GuestDies(i) PROVE UNCHANGED leaked
  BY <1>7 DEF GuestDies, ProcessUnchanged
<1>8. QED
  BY <1>1, <1>2, <1>3, <1>4, <1>5, <1>6, <1>7 DEF Next, Loop, Terminated

\* Only a launcher puts a guest into a cgroup.
LEMMA LiveSteps ==
    ASSUME TypeInv, [Next]_vars
    PROVE  \A i \in Ids : box'[i] = "live" =>
              box[i] = "live" \/ \E r \in Requests : LauncherBoxes(r) /\ stream[r].id = i
<1> USE DEF jobVars, TypeInv, TypeOK, JobType
<1>1. ASSUME NEW r \in Requests, HandleRequest(r), ~SetupFails(r) PROVE UNCHANGED box
  BY <1>1 DEF HandleRequest, RefuseClosing, HandleHealth, HandleUnknown, RefuseRun, AcceptRun,
     StartFails, HandleCancel, HandleBadCancel, HandleShutdown
<1>2. ASSUME NEW r \in Requests, SetupFails(r)
      PROVE  \A i \in Ids : box'[i] = "live" => box[i] = "live"
  BY <1>2 DEF SetupFails
<1>3. CASE \/ ReadFrame \/ ReadEnd \/ Crash \/ ClientSide \/ UNCHANGED vars \/ HandleEof
           \/ HandleStreamError \/ Close \/ Drain \/ DropDone \/ \E r \in Requests : Finish(r)
  BY <1>3 DEF ReadFrame, ReadEnd, Crash, ClientSide, PipeBreaks, PipeFills, PipeEmpties,
     OutUnchanged, vars, HandleEof, HandleStreamError, Close,
     Drain, DropDone, Finish
<1>4. ASSUME NEW r \in Requests, Waiter(r)
      PROVE  \A i \in Ids : box'[i] = "live" => box[i] = "live"
  BY <1>4 DEF Waiter, Reap, CleanUp, Post, CleanupJob
<1>5. ASSUME NEW i \in Ids, DropJob(i)
      PROVE  \A j \in Ids : box'[j] = "live" => box[j] = "live"
  BY <1>5 DEF DropJob, CleanupJob
<1>6. ASSUME NEW r \in Requests, LauncherExits(r) \/ HostKills(r)
      PROVE  \A i \in Ids : box'[i] = "live" => box[i] = "live"
  BY <1>6 DEF LauncherExits, LauncherSucceeds, LauncherFails, LauncherKilled, HostKills, Killed
<1>7. ASSUME NEW r \in Requests, LauncherBoxes(r)
      PROVE  \A i \in Ids : box'[i] = "live" => box[i] = "live" \/ stream[r].id = i
  BY <1>7 DEF LauncherBoxes
<1>8. ASSUME NEW i \in Ids, GuestDies(i) PROVE \A j \in Ids : box'[j] = "live" => box[j] = "live"
  BY <1>8 DEF GuestDies
<1>9. QED
  BY <1>1, <1>2, <1>3, <1>4, <1>5, <1>6, <1>7, <1>8 DEF Next, Loop, Terminated

\* The request of a start that fails is the first event, and none of its ID is open.
LEMMA SetupAlone ==
    ASSUME TypeInv, JobInv, NEW x \in Requests, SetupFails(x)
    PROVE  /\ x \in 1 .. Len(stream)
           /\ \A k \in 1 .. Len(chan') : chan'[k].type = "request" => x < chan'[k].req
           /\ \A r \in Requests : Open(r) => ~SameId(r, x)
           /\ x \in leaked \/ x \notin leaked' \/ box'[stream[x].id] = "dead"
<1>1. /\ Receive(RequestEvent(x)) /\ ~RunRefused(x)
      /\ UNCHANGED leaked \/ box' = [box EXCEPT ![stream[x].id] = "dead"]
  BY DEF SetupFails, Handle
<1>2. x \in 1 .. Len(stream) /\ stream[x].id \in Ids
  BY <1>1, RequestRead
<1>3. /\ Len(chan) >= 1 /\ chan[1] = RequestEvent(x) /\ Len(chan) \in Nat /\ Len(chan') \in Nat
      /\ \A k \in 1 .. Len(chan') : k + 1 \in 1 .. Len(chan) /\ chan'[k] = chan[k + 1]
      /\ proc = "running"
  BY <1>1, Taken DEF TypeInv, TypeOK, ChanType, Receive
<1>4. ASSUME NEW k \in 1 .. Len(chan'), chan'[k].type = "request" PROVE x < chan'[k].req
  <2>1. 1 \in 1 .. Len(chan) /\ k + 1 \in 1 .. Len(chan) /\ 1 < k + 1
    BY <1>3
  <2>2. Follows(chan[1], chan[k + 1])
    BY <2>1 DEF JobInv, OrderInv
  <2>3. QED
    BY <1>3, <1>4, <2>2 DEF Follows, RequestEvent
<1>5. ASSUME NEW r \in Requests, Open(r), SameId(r, x) PROVE FALSE
  <2>1. active[stream[x].id] = r
    BY <1>3, <1>5 DEF JobInv, NoneLost, Open, SameId
  <2>2. QED
    BY <1>1, <2>1 DEF RunRefused, Requests
<1>6. x \in leaked \/ x \notin leaked' \/ box'[stream[x].id] = "dead"
  BY <1>1, <1>2 DEF TypeInv, TypeOK, JobType
<1>7. QED
  BY <1>2, <1>4, <1>5, <1>6

LEMMA ReadLeaked == ASSUME TypeInv, JobInv, LeakInv, [Next]_vars PROVE LeakedRead'
<1>1. Len(stream) <= Len(stream') /\ Len(stream) \in Nat /\ Len(stream') \in Nat
  BY StreamSteps, NextType DEF StreamGrows, TypeInv, TypeOK, IoType
<1>2. SUFFICES ASSUME NEW x \in leaked' PROVE x \in Int /\ x <= Len(stream)
  BY <1>1 DEF LeakedRead
<1>3. leaked \subseteq Requests /\ Requests \subseteq Int
  BY DEF TypeInv, TypeOK, JobType, Requests
<1>4. CASE x \in leaked
  BY <1>3, <1>4 DEF LeakInv, LeakedRead
<1>5. CASE x \in Requests /\ Accepted(x)
  BY <1>3, <1>5 DEF Accepted, TypeInv, InRange
<1>6. CASE x \in Requests /\ SetupFails(x)
  BY <1>3, <1>6, SetupAlone
<1>7. QED
  BY <1>4, <1>5, <1>6, LeakSteps

LEMMA BeforeLeaked == ASSUME TypeInv, JobInv, LeakInv, [Next]_vars PROVE LeakedBefore'
<1>1. SUFFICES ASSUME NEW k \in 1 .. Len(chan'), chan'[k].type = "request", NEW x \in leaked'
               PROVE  x < chan'[k].req
  BY DEF LeakedBefore
<1>2. CASE ReadFrame
  <2>1. /\ UNCHANGED leaked /\ Len(stream) \in Nat /\ Len(chan) \in Nat
        /\ chan' = Append(chan, RequestEvent(Len(stream) + 1))
        /\ Len(stream) < MaxFrames /\ Len(chan) < ChanCap
    BY <1>2 DEF ReadFrame, ReaderRuns, jobVars, TypeInv, TypeOK, IoType, ChanType
  <2>2. RequestEvent(Len(stream) + 1) \in Events
    BY <2>1, SupervisorAssumption DEF Events, RequestEvent
  <2>3. /\ Len(chan') = Len(chan) + 1 /\ chan'[Len(chan) + 1] = RequestEvent(Len(stream) + 1)
        /\ \A j \in 1 .. Len(chan) : chan'[j] = chan[j]
    BY <2>1, <2>2, Sent1 DEF TypeInv, TypeOK
  <2>4. CASE k = Len(chan) + 1
    <3>1. x \in leaked /\ x \in Int /\ x <= Len(stream)
      BY <2>1 DEF LeakInv, LeakedRead, TypeInv, TypeOK, JobType, Requests
    <3>2. QED
      BY <2>1, <2>3, <2>4, <3>1 DEF RequestEvent
  <2>5. CASE k # Len(chan) + 1
    <3>1. k \in 1 .. Len(chan) /\ chan'[k] = chan[k]
      BY <2>1, <2>3, <2>5
    <3>2. QED
      BY <1>1, <2>1, <3>1 DEF LeakInv, LeakedBefore
  <2>6. QED
    BY <2>4, <2>5
<1>3. CASE ~ReadFrame
  <2>1. PICK j \in 1 .. Len(chan) : chan'[k] = chan[j]
    BY <1>1, <1>3, ChanSteps DEF ChanShrinks
  <2>2. CASE x \in leaked
    BY <1>1, <2>1, <2>2 DEF LeakInv, LeakedBefore
  <2>3. CASE x \in Requests /\ Accepted(x)
    BY <1>1, <2>1, <2>3 DEF JobInv, QueueInv, RequestQueued
  <2>4. CASE x \in Requests /\ SetupFails(x)
    BY <1>1, <2>4, SetupAlone
  <2>5. QED
    BY <2>2, <2>3, <2>4, LeakSteps
<1>4. QED
  BY <1>2, <1>3

LEMMA StartLeaked == ASSUME TypeInv, JobInv, LeakInv, [Next]_vars PROVE LeakedStarts'
<1>1. SUFFICES ASSUME NEW x \in leaked', ~Accepted(x)' PROVE LeakedStart(x)'
  BY DEF LeakedStarts
<1>2. leaked \subseteq Requests /\ leaked' \subseteq Requests /\ Len(stream) \in Nat /\ Len(stream') \in Nat
      /\ stream \in Seq(Frames)
  BY NextType DEF TypeInv, TypeOK, JobType, IoType
<1>3. x \in Requests /\ ~Accepted(x)
  BY <1>1, <1>2, AcceptedStays
<1>4. x \in 1 .. Len(stream)
  <2>1. x \in leaked \/ SetupFails(x)
    BY <1>3, LeakSteps
  <2>2. CASE x \in leaked
    BY <1>3, <2>2 DEF LeakInv, LeakedRead, Requests
  <2>3. CASE SetupFails(x)
    BY <1>3, <2>3, SetupAlone
  <2>4. QED
    BY <2>1, <2>2, <2>3
<1>5. stream'[x] = stream[x] /\ stream[x].id \in Ids
  BY <1>2, <1>4, StreamSteps, FrameFields DEF StreamGrows
<1>6. \A r \in Requests : Open(r) => r \in 1 .. Len(stream) /\ stream'[r] = stream[r]
  BY <1>2, StreamSteps DEF StreamGrows, Open, Accepted, TypeInv, InRange, Requests
<1>7. CASE x \in leaked
  <2>1. LeakedStart(x)
    BY <1>3, <1>7 DEF LeakInv, LeakedStarts
  <2>2. ASSUME NEW r \in Requests, Open(r)', SameId(r, x)' PROVE x < r
    <3>1. CASE Open(r)
      BY <1>5, <1>6, <2>1, <2>2, <3>1 DEF LeakedStart, SameId
    <3>2. CASE AcceptRun(r)
      <4>1. Receive(RequestEvent(r))
        BY <3>2 DEF AcceptRun, Handle
      <4>2. Len(chan) >= 1 /\ chan[1] = RequestEvent(r) /\ Len(chan) \in Nat
        BY <4>1, Taken DEF TypeInv, TypeOK, ChanType
      <4>3. 1 \in 1 .. Len(chan) /\ chan[1].type = "request" /\ chan[1].req = r
        BY <4>2 DEF RequestEvent
      <4>4. QED
        BY <1>7, <4>3 DEF LeakInv, LeakedBefore
    <3>3. QED
      BY <2>2, <3>1, <3>2, OpenSteps
  <2>3. ASSUME NEW q \in x + 1 .. Len(stream), stream[q].id = stream[x].id, Accepted(q)
        PROVE  \E y \in x + 1 .. Len(stream') : stream'[y].id = stream'[x].id /\ Accepted(y)'
    <3>1. q \in 1 .. Len(stream) /\ q \in Requests
      BY <1>2, <1>4, <2>3, SupervisorAssumption DEF Requests, TypeInv, TypeOK, IoType
    <3>2. q \in x + 1 .. Len(stream') /\ stream'[q] = stream[q] /\ Accepted(q)'
      BY <1>2, <2>3, <3>1, StreamSteps, AcceptedStays DEF StreamGrows
    <3>3. QED
      BY <1>5, <2>3, <3>2
  <2>4. ASSUME box'[stream[x].id] = "live"
        PROVE  \E q \in x + 1 .. Len(stream) : stream[q].id = stream[x].id /\ Accepted(q)
    <3>1. CASE box[stream[x].id] = "live"
      BY <2>1, <3>1 DEF LeakedStart
    <3>2. ASSUME NEW r \in Requests, LauncherBoxes(r), stream[r].id = stream[x].id
          PROVE  \E q \in x + 1 .. Len(stream) : stream[q].id = stream[x].id /\ Accepted(q)
      <4>1. Open(r)
        BY <3>2 DEF LauncherBoxes, JobInv, Stages, Stage, Open, Accepted
      <4>2. x < r /\ r \in 1 .. Len(stream)
        BY <1>6, <2>1, <3>2, <4>1 DEF LeakedStart, SameId
      <4>3. r \in x + 1 .. Len(stream) /\ Accepted(r)
        BY <1>4, <4>1, <4>2 DEF Open
      <4>4. QED
        BY <3>2, <4>3
    <3>3. QED
      BY <1>5, <2>4, <3>1, <3>2, LiveSteps
  <2>5. QED
    BY <1>5, <2>2, <2>3, <2>4 DEF LeakedStart
<1>8. CASE x \notin leaked
  <2>1. SetupFails(x)
    BY <1>3, <1>8, LeakSteps
  <2>2. box'[stream[x].id] = "dead" /\ \A r \in Requests : Open(r) => ~SameId(r, x)
    BY <1>1, <1>3, <1>8, <2>1, SetupAlone
  <2>3. ASSUME NEW r \in Requests, Open(r)' PROVE Open(r)
    <3>1. UNCHANGED waiter
      BY <2>1 DEF SetupFails
    <3>2. Accepted(r)
      BY <2>3, <3>1 DEF Open, Accepted
    <3>3. ~Answered(r)
      BY <2>3, <3>2, JobReplies DEF Open, Answered
    <3>4. QED
      BY <3>2, <3>3 DEF Open
  <2>4. QED
    BY <1>5, <1>6, <2>2, <2>3 DEF LeakedStart, SameId
<1>9. QED
  BY <1>7, <1>8

LEMMA LeakInvariance == Spec => [](TypeInv /\ JobInv /\ BoxInv /\ LeakInv)
<1>1. Init => TypeInv /\ JobInv /\ BoxInv
  BY InitType, InitJob, InitBox
<1>2. Init => LeakInv
  BY DEF Init, LeakInv, LeakedRead, LeakedBefore, LeakedStarts
<1>3. TypeInv /\ JobInv /\ BoxInv /\ LeakInv /\ [Next]_vars
      => TypeInv' /\ JobInv' /\ BoxInv' /\ LeakInv'
  BY NextType, NextJob, NextBox, ReadLeaked, BeforeLeaked, StartLeaked DEF LeakInv
<1>4. QED
  BY <1>1, <1>2, <1>3, PTL DEF Spec

Phase ==
    [r \in Requests |-> IF ~Accepted(r) THEN "new"
                        ELSE IF Answered(r) THEN "answered" ELSE "accepted"]
AliveJobs == {r \in Requests : Alive(r)}
Up == IF proc = "running" THEN "up" ELSE IF proc \in CleanEnds THEN "ended" ELSE "lost"

\* The contract's actions, in these terms.
LEMMA ContractStutters ==
    ASSUME UNCHANGED <<Phase, AliveJobs, Up>>
    PROVE  UNCHANGED Contract!vars
BY DEF Contract!vars, Phase, AliveJobs, Up

LEMMA ContractAccepts ==
    ASSUME NEW r \in Requests, Up = "up", Phase[r] = "new",
           Phase' = [Phase EXCEPT ![r] = "accepted"], AliveJobs' = AliveJobs \cup {r}, UNCHANGED Up
    PROVE  Contract!Next
BY DEF Contract!Next, Contract!Accept, Phase, AliveJobs, Up

LEMMA ContractExits ==
    ASSUME NEW r \in Requests, r \in AliveJobs, AliveJobs' = AliveJobs \ {r}, UNCHANGED <<Phase, Up>>
    PROVE  Contract!Next
BY DEF Contract!Next, Contract!Exit, Phase, AliveJobs, Up

LEMMA ContractAnswers ==
    ASSUME NEW r \in Requests, Up = "up", Phase[r] = "accepted", r \notin AliveJobs,
           Phase' = [Phase EXCEPT ![r] = "answered"], UNCHANGED <<AliveJobs, Up>>
    PROVE  Contract!Next
BY DEF Contract!Next, Contract!Answer, Phase, AliveJobs, Up

LEMMA ContractEnds ==
    ASSUME Up = "up", \A r \in Requests : Phase[r] # "accepted", Up' = "ended",
           UNCHANGED <<Phase, AliveJobs>>
    PROVE  Contract!Next
BY DEF Contract!Next, Contract!End, Phase, AliveJobs, Up

LEMMA ContractLoses ==
    ASSUME Up = "up", Up' = "lost", UNCHANGED <<Phase, AliveJobs>>
    PROVE  Contract!Next
BY DEF Contract!Next, Contract!Lose, Phase, AliveJobs, Up

\* Steps that start and answer no job keep every phase.
LEMMA PhaseKept ==
    ASSUME \A r \in Requests : Accepted(r)' <=> Accepted(r),
           \A r \in Requests : Accepted(r) => reply'[r] = reply[r]
    PROVE  UNCHANGED Phase
BY DEF Phase, Answered

\* Steps that touch neither jobs nor cgroups keep who is alive.
LEMMA AliveKept == ASSUME UNCHANGED <<stream, launcher, waiter, leaked, box>> PROVE UNCHANGED AliveJobs
BY DEF AliveJobs, Alive, Running, Accepted

\* While a job is open, no other of its ID is alive: what happens to its launcher
\* and cgroup concerns no other job.
LEMMA OthersKept ==
    ASSUME TypeInv, JobInv, BoxInv, NEW r \in Requests, Open(r), UNCHANGED stream,
           \A q \in Requests : Accepted(q)' <=> Accepted(q),
           \A q \in Requests : q # r => launcher'[q] = launcher[q] /\ (q \in leaked' <=> q \in leaked),
           \A i \in Ids : i # stream[r].id => box'[i] = box[i]
    PROVE  \A q \in Requests : q # r => (Alive(q)' <=> Alive(q))
<1>1. SUFFICES ASSUME NEW q \in Requests, q # r PROVE Alive(q)' <=> Alive(q)
  OBVIOUS
<1>2. (Running(q)' <=> Running(q)) /\ (Accepted(q)' <=> Accepted(q)) /\ (q \in leaked' <=> q \in leaked)
  BY <1>1 DEF Running
<1>3. \A x \in q + 1 .. Len(stream) : x \in Requests
  BY SupervisorAssumption DEF Requests, TypeInv, TypeOK, IoType
<1>4. (\E x \in q + 1 .. Len(stream') : stream'[x].id = stream'[q].id /\ Accepted(x)')
      <=> (\E x \in q + 1 .. Len(stream) : stream[x].id = stream[q].id /\ Accepted(x))
  BY <1>3
<1>5. CASE Accepted(q) /\ SameId(q, r)
  <2>1. Answered(q)
    BY <1>1, <1>5 DEF BoxInv, OpenApart, Open, SameId
  <2>2. q < r /\ r \in 1 .. Len(stream)
    BY <1>5, <2>1 DEF BoxInv, LaterOpen, Open, Accepted, TypeInv, InRange, TypeOK, IoType, Requests
  <2>3. r \in q + 1 .. Len(stream) /\ stream[r].id = stream[q].id /\ Accepted(r)
    BY <1>5, <2>2 DEF SameId, Open, Requests
  <2>4. ~Running(q)
    BY <1>5, <2>1 DEF JobInv, Stages, Stage, Running
  <2>5. QED
    BY <1>2, <1>4, <2>3, <2>4 DEF Alive
<1>6. CASE Accepted(q) /\ ~SameId(q, r)
  <2>1. q \in 1 .. Len(stream)
    BY <1>6 DEF Accepted, TypeInv, InRange, TypeOK, IoType, Requests
  <2>2. stream[q].id \in Ids
    BY <2>1, FrameFields DEF TypeInv, TypeOK, IoType
  <2>3. box'[stream'[q].id] = box[stream[q].id]
    BY <1>6, <2>2 DEF SameId
  <2>4. QED
    BY <1>2, <1>4, <2>3 DEF Alive
<1>7. CASE ~Accepted(q)
  BY <1>2, <1>7 DEF Alive
<1>8. QED
  BY <1>5, <1>6, <1>7

\* So such a step is invisible, or it is the job's exit.
LEMMA OpenStep ==
    ASSUME TypeInv, JobInv, BoxInv, NEW r \in Requests, Open(r), UNCHANGED <<stream, reply, proc>>,
           \A q \in Requests : Accepted(q)' <=> Accepted(q),
           \A q \in Requests : q # r => launcher'[q] = launcher[q] /\ (q \in leaked' <=> q \in leaked),
           \A i \in Ids : i # stream[r].id => box'[i] = box[i],
           Alive(r)' => Alive(r)
    PROVE  [Contract!Next]_(Contract!vars)
<1>1. UNCHANGED <<Phase, Up>>
  BY PhaseKept DEF Up
<1>2. \A q \in Requests : q # r => (Alive(q)' <=> Alive(q))
  BY OthersKept
<1>3. CASE Alive(r)' <=> Alive(r)
  <2>1. UNCHANGED AliveJobs
    BY <1>2, <1>3 DEF AliveJobs
  <2>2. QED
    BY <1>1, <2>1, ContractStutters
<1>4. CASE Alive(r) /\ ~Alive(r)'
  <2>1. r \in AliveJobs /\ AliveJobs' = AliveJobs \ {r}
    BY <1>2, <1>4 DEF AliveJobs
  <2>2. QED
    BY <1>1, <2>1, ContractExits
<1>5. QED
  BY <1>3, <1>4

LEMMA QuietStep ==
    ASSUME UNCHANGED <<Phase, AliveJobs>>, UNCHANGED Up \/ (Up = "up" /\ Up' = "lost")
    PROVE  [Contract!Next]_(Contract!vars)
BY ContractStutters, ContractLoses

\* What a cleanup leaves of a job whose launcher is gone does not live on.
LEMMA PostedDead ==
    ASSUME TypeInv, JobInv, BoxInv, LeakInv, NEW r \in Requests, Posted(r)
    PROVE  ~Alive(r) /\ ~Running(r)
<1>1. ~Running(r) /\ Accepted(r)
  BY DEF JobInv, Stages, Stage, Posted, Running, Accepted
<1>2. SUFFICES ASSUME r \notin leaked, box[stream[r].id] = "live",
                      ~\E q \in r + 1 .. Len(stream) : stream[q].id = stream[r].id /\ Accepted(q)
               PROVE  FALSE
  BY <1>1 DEF Alive
<1>3. Clean(r)
  BY DEF BoxInv, CleanPosted
<1>4. PICK x \in r + 1 .. Len(stream) : stream[x].id = stream[r].id /\ x \in leaked /\ ~Accepted(x)
  BY <1>2, <1>3 DEF Clean
<1>5. PICK q \in x + 1 .. Len(stream) : stream[q].id = stream[x].id /\ Accepted(q)
  BY <1>2, <1>4 DEF LeakInv, LeakedStarts, LeakedStart
<1>6. q \in r + 1 .. Len(stream)
  BY <1>4, <1>5 DEF Requests, TypeInv, TypeOK, IoType
<1>7. QED
  BY <1>2, <1>4, <1>5, <1>6

\* Where no job of an ID is open, none of its jobs is alive.
LEMMA ClosedDead ==
    ASSUME TypeInv, JobInv, BoxInv, LeakInv, NEW r \in Requests, ~Open(r)
    PROVE  ~Alive(r) /\ ~Running(r)
<1>1. CASE Accepted(r)
  <2>1. Posted(r)
    BY <1>1 DEF Open, JobInv, Stages, Stage, Posted
  <2>2. QED
    BY <2>1, PostedDead
<1>2. CASE ~Accepted(r)
  BY <1>2 DEF JobInv, Stages, Stage, Accepted, Alive, Running
<1>3. QED
  BY <1>1, <1>2

LEMMA AcceptStep ==
    ASSUME TypeInv, JobInv, BoxInv, LeakInv, NEW r \in Requests, AcceptRun(r)
    PROVE  Contract!Next
<1>1. /\ Receive(RequestEvent(r)) /\ UNCHANGED <<stream, reply, proc, leaked, box>>
      /\ active[stream[r].id] = 0 /\ proc = "running"
      /\ waiter' = [waiter EXCEPT ![r] = "waiting"] /\ launcher' = [launcher EXCEPT ![r] = "starting"]
  BY DEF AcceptRun, Handle, Receive, RunRefused, ioVars
<1>2. ~Accepted(r) /\ ~Answered(r)
  BY <1>1, TakenFresh
<1>3. /\ Accepted(r)' /\ Running(r)' /\ ~Answered(r)'
      /\ \A q \in Requests : q # r => /\ Accepted(q)' <=> Accepted(q)
                                      /\ Answered(q)' <=> Answered(q)
                                      /\ Running(q)' <=> Running(q)
  BY <1>1, <1>2 DEF Accepted, Running, Answered, TypeInv, TypeOK, JobType
<1>4. Phase[r] = "new" /\ Phase' = [Phase EXCEPT ![r] = "accepted"]
  BY <1>2, <1>3 DEF Phase
<1>5. ASSUME NEW q \in Requests, q # r PROVE Alive(q)' <=> Alive(q)
  <2>1. \A x \in q + 1 .. Len(stream) : x \in Requests
    BY SupervisorAssumption DEF Requests, TypeInv, TypeOK, IoType
  <2>2. (Accepted(q)' <=> Accepted(q)) /\ (Running(q)' <=> Running(q))
    BY <1>3, <1>5
  <2>3. CASE SameId(q, r)
    <3>1. ~Open(q)
      BY <1>1, <2>3 DEF JobInv, NoneLost, Open, SameId, Requests
    <3>2. ~Alive(q) /\ ~Running(q)
      BY <3>1, ClosedDead
    <3>3. Alive(q)' => Alive(q)
      BY <1>1, <1>3, <2>1, <2>2 DEF Alive
    <3>4. QED
      BY <3>2, <3>3
  <2>4. CASE ~SameId(q, r)
    BY <1>1, <1>3, <2>1, <2>2, <2>4 DEF Alive, SameId
  <2>5. QED
    BY <2>3, <2>4
<1>6. AliveJobs' = AliveJobs \cup {r}
  BY <1>3, <1>5 DEF AliveJobs, Alive
<1>7. QED
  BY <1>1, <1>4, <1>6, ContractAccepts DEF Up

LEMMA SetupStep ==
    ASSUME TypeInv, JobInv, BoxInv, LeakInv, NEW r \in Requests, SetupFails(r)
    PROVE  [Contract!Next]_(Contract!vars)
<1>1. /\ Receive(RequestEvent(r)) /\ Write(r, "error") /\ UNCHANGED <<stream, launcher, waiter>>
      /\ proc = "running"
      /\ \/ box' = [box EXCEPT ![stream[r].id] = "none"] /\ UNCHANGED leaked
         \/ box' = [box EXCEPT ![stream[r].id] = "dead"] /\ leaked' = leaked \cup {r}
  BY DEF SetupFails, Handle, Receive, ioVars
<1>2. ~Accepted(r) /\ ~Answered(r)
  BY <1>1, TakenFresh
<1>3. \A q \in Requests : q # r => reply'[q] = reply[q]
  BY <1>1, <1>2, WriteOnce DEF Answered, Codes
<1>4. UNCHANGED Phase
  BY <1>1, <1>2, <1>3, PhaseKept DEF Accepted
<1>5. \A q : (Accepted(q)' <=> Accepted(q)) /\ (Running(q)' <=> Running(q))
  BY <1>1 DEF Accepted, Running
<1>6. stream[r].id \in Ids
  BY <1>1, RequestRead
<1>7. ASSUME NEW q \in Requests PROVE Alive(q)' <=> Alive(q)
  <2>1. CASE Accepted(q) /\ SameId(q, r)
    <3>1. ~Open(q)
      BY <2>1, SetupAlone
    <3>2. ~Alive(q) /\ ~Running(q)
      BY <3>1, ClosedDead
    <3>3. box'[stream'[q].id] # "live"
      BY <1>1, <1>6, <2>1 DEF SameId, TypeInv, TypeOK, JobType
    <3>4. QED
      BY <1>5, <3>2, <3>3 DEF Alive
  <2>2. CASE Accepted(q) /\ ~SameId(q, r)
    <3>1. q \in 1 .. Len(stream)
      BY <2>2 DEF Accepted, TypeInv, InRange, TypeOK, IoType, Requests
    <3>2. stream[q].id \in Ids
      BY <3>1, FrameFields DEF TypeInv, TypeOK, IoType
    <3>3. box'[stream'[q].id] = box[stream[q].id] /\ (q \in leaked' <=> q \in leaked)
      BY <1>1, <1>2, <2>2, <3>2 DEF SameId, TypeInv, TypeOK, JobType
    <3>4. QED
      BY <1>1, <1>5, <3>3 DEF Alive
  <2>3. CASE ~Accepted(q)
    BY <1>5, <2>3 DEF Alive
  <2>4. QED
    BY <2>1, <2>2, <2>3
<1>8. UNCHANGED AliveJobs
  BY <1>7 DEF AliveJobs
<1>9. proc' \in {"running", "dropping"}
  BY <1>1 DEF Write
<1>10. QED
  BY <1>1, <1>4, <1>8, <1>9, QuietStep DEF Up, CleanEnds

LEMMA FinishStep ==
    ASSUME TypeInv, JobInv, BoxInv, LeakInv, NEW r \in Requests, Finish(r)
    PROVE  [Contract!Next]_(Contract!vars)
<1>1. /\ active[stream[r].id] = r /\ waiter[r] = "done" /\ ~Answered(r) /\ r # 0
      /\ proc = "running"
  BY FinishKnown DEF Finish, Receive, Requests
<1>2. PICK code \in Codes : Write(r, code)
  BY <1>1 DEF Finish, ResultCodes, Codes
<1>3. UNCHANGED <<stream, launcher, waiter, leaked, box>>
  BY DEF Finish, ioVars, jobVars
<1>4. UNCHANGED AliveJobs
  BY <1>3, AliveKept
<1>5. /\ \A q \in Requests : q # r => reply'[q] = reply[q]
      /\ reply'[r] = reply[r] \/ (reply'[r] # <<>> /\ UNCHANGED proc)
      /\ reply'[r] = reply[r] => reply' = reply /\ proc' = "dropping"
  BY <1>1, <1>2, WriteOnce DEF Answered
<1>6. CASE reply'[r] = reply[r]
  <2>1. UNCHANGED Phase
    BY <1>3, <1>5, <1>6, PhaseKept DEF Accepted
  <2>2. QED
    BY <1>1, <1>4, <1>5, <1>6, <2>1, QuietStep DEF Up, CleanEnds
<1>7. CASE reply'[r] # <<>> /\ UNCHANGED proc
  <2>1. Accepted(r) /\ Posted(r)
    BY <1>1 DEF Accepted, Posted
  <2>2. r \notin AliveJobs
    BY <2>1, PostedDead DEF AliveJobs
  <2>3. Phase[r] = "accepted" /\ Phase' = [Phase EXCEPT ![r] = "answered"]
    BY <1>1, <1>3, <1>5, <1>7, <2>1 DEF Phase, Accepted, Answered
  <2>4. QED
    BY <1>1, <1>4, <1>7, <2>2, <2>3, ContractAnswers DEF Up
<1>8. QED
  BY <1>5, <1>6, <1>7

LEMMA EndStep ==
    ASSUME TypeInv, JobInv, ReservationsMatch, BoxOwned, Close \/ Drain
    PROVE  [Contract!Next]_(Contract!vars)
<1>1. /\ proc = "running" /\ ActiveIds = {} /\ proc' \in {"closed", "drained", "failed"}
      /\ UNCHANGED <<stream, launcher, waiter, leaked, box>>
  BY DEF Close, Drain, ioVars, jobVars
<1>2. UNCHANGED AliveJobs
  BY <1>1, AliveKept
<1>3. UNCHANGED Phase
  <2>1. \A r \in Requests : Accepted(r) => reply'[r] = reply[r]
    BY DEF Close, Drain, JobInv, ShutdownInv, TypeInv, TypeOK, LoopType
  <2>2. QED
    BY <1>1, <2>1, PhaseKept DEF Accepted
<1>4. \A r \in Requests : Phase[r] # "accepted"
  BY <1>1, EmptyTable DEF Phase
<1>5. Up = "up" /\ Up' \in {"ended", "lost"}
  BY <1>1 DEF Up, CleanEnds
<1>6. QED
  BY <1>2, <1>3, <1>4, <1>5, ContractEnds, ContractLoses

LEMMA LauncherStep ==
    ASSUME TypeInv, JobInv, BoxInv, NEW r \in Requests,
           LauncherBoxes(r) \/ LauncherSucceeds(r) \/ LauncherFails(r) \/ Killed(r)
    PROVE  [Contract!Next]_(Contract!vars)
<1>1. Running(r) /\ UNCHANGED <<stream, reply, proc, waiter, leaked>>
  BY DEF LauncherBoxes, LauncherSucceeds, LauncherFails, Killed, Running, ProcessUnchanged, ioVars
<1>2. Open(r)
  BY <1>1 DEF JobInv, Stages, Stage, Running, Open, Accepted
<1>3. /\ \A i \in Ids : i # stream[r].id => box'[i] = box[i]
      /\ \A q \in Requests : q # r => launcher'[q] = launcher[q]
  BY DEF LauncherBoxes, LauncherSucceeds, LauncherFails, Killed, TypeInv, TypeOK, JobType
<1>4. Alive(r)
  BY <1>1 DEF Alive
<1>5. QED
  BY <1>1, <1>2, <1>3, <1>4, OpenStep DEF Accepted

\* A cleanup, whoever makes it, is invisible or the exit of the job.
LEMMA CleanupStep ==
    ASSUME TypeInv, JobInv, BoxInv, NEW r \in Requests, Open(r), stream[r].id \in Ids,
           UNCHANGED <<stream, reply, proc, launcher>>,
           \A q \in Requests : Accepted(q)' <=> Accepted(q),
           CleanupJob(stream[r].id, r) \/ UNCHANGED <<leaked, box>>
    PROVE  [Contract!Next]_(Contract!vars)
<1>1. /\ leaked \subseteq leaked' /\ leaked' \subseteq leaked \cup {r}
      /\ \A i \in Ids : i # stream[r].id => box'[i] = box[i]
      /\ box'[stream[r].id] \in {"none", box[stream[r].id]}
  BY DEF CleanupJob, TypeInv, TypeOK, JobType
<1>2. Alive(r)' => Alive(r)
  <2>1. SUFFICES ASSUME Alive(r)', ~Running(r) PROVE Alive(r)
    BY DEF Alive
  <2>2. \A x \in r + 1 .. Len(stream) : x \in Requests
    BY SupervisorAssumption DEF Requests, TypeInv, TypeOK, IoType
  <2>3. Accepted(r) /\ r \notin leaked /\ box[stream[r].id] = "live"
    BY <1>1, <2>1 DEF Alive, Running
  <2>4. ~\E q \in r + 1 .. Len(stream) : stream[q].id = stream[r].id /\ Accepted(q)
    BY <2>1, <2>2 DEF Alive, Running
  <2>5. QED
    BY <2>3, <2>4 DEF Alive
<1>3. QED
  BY <1>1, <1>2, OpenStep

LEMMA WaiterStep ==
    ASSUME TypeInv, JobInv, BoxInv, NEW r \in Requests, Waiter(r), [Next]_vars
    PROVE  [Contract!Next]_(Contract!vars)
<1>1. /\ UNCHANGED <<stream, reply, proc, launcher>>
      /\ CleanupJob(stream[r].id, r) \/ UNCHANGED <<leaked, box>>
      /\ waiter[r] \in {"waiting", "cleaning", "posting"}
  BY DEF Waiter, Reap, CleanUp, Post, ioVars
<1>2. Open(r)
  BY <1>1 DEF JobInv, Stages, Stage, Open, Accepted
<1>3. r \in 1 .. Len(stream)
  BY <1>2 DEF Open, Accepted, TypeInv, InRange, TypeOK, IoType, Requests
<1>4. stream[r].id \in Ids
  BY <1>3, FrameFields DEF TypeInv, TypeOK, IoType
<1>5. \A q \in Requests : Accepted(q)' <=> Accepted(q)
  BY DEF Waiter, Reap, CleanUp, Post, Accepted, TypeInv, TypeOK, JobType
<1>6. QED
  BY <1>1, <1>2, <1>4, <1>5, CleanupStep

LEMMA DropStep ==
    ASSUME TypeInv, JobInv, BoxInv, NEW i \in Ids, DropJob(i)
    PROVE  [Contract!Next]_(Contract!vars)
<1>1. /\ UNCHANGED <<stream, reply, proc, launcher, waiter>>
      /\ active[i] # 0 /\ CleanupJob(i, active[i])
  BY DEF DropJob, ioVars
<1>2. active[i] \in Requests
  BY <1>1, ActiveJobsRequests DEF ActiveJobs, ActiveIds
<1>3. Open(active[i]) /\ stream[active[i]].id = i
  BY <1>1 DEF JobInv, TableInv, Open
<1>4. QED
  BY <1>1, <1>2, <1>3, CleanupStep DEF Accepted

\* A guest that dies was its job's last process, or its launcher still runs.
LEMMA GuestStep ==
    ASSUME TypeInv, JobInv, NEW i \in Ids, GuestDies(i)
    PROVE  [Contract!Next]_(Contract!vars)
<1>1. /\ UNCHANGED <<stream, reply, proc, launcher, waiter, leaked>>
      /\ box[i] = "live" /\ box' = [box EXCEPT ![i] = "dead"]
  BY DEF GuestDies, ProcessUnchanged, ioVars
<1>2. UNCHANGED <<Phase, Up>>
  BY <1>1, PhaseKept DEF Up, Accepted
<1>3. /\ \A r \in Requests : Accepted(r)' <=> Accepted(r)
      /\ \A r \in Requests : Running(r)' <=> Running(r)
  BY <1>1 DEF Accepted, Running
<1>4. \A r \in Requests : Accepted(r) => r \in 1 .. Len(stream) /\ stream[r].id \in Ids
  <2>1. SUFFICES ASSUME NEW r \in Requests, Accepted(r)
                 PROVE  r \in 1 .. Len(stream) /\ stream[r].id \in Ids
    OBVIOUS
  <2>2. r \in 1 .. Len(stream)
    BY <2>1 DEF Accepted, TypeInv, InRange, TypeOK, IoType, Requests
  <2>3. QED
    BY <2>2, FrameFields DEF TypeInv, TypeOK, IoType
<1>5. \A r \in Requests : \A x \in r + 1 .. Len(stream) : x \in Requests
  BY SupervisorAssumption DEF Requests, TypeInv, TypeOK, IoType
<1>6. \A j \in Ids : box'[j] = "live" <=> box[j] = "live" /\ j # i
  BY <1>1 DEF TypeInv, TypeOK, JobType
<1>7. ASSUME NEW r \in Requests PROVE Alive(r)' <=> Alive(r) /\ (Running(r) \/ stream[r].id # i)
  BY <1>1, <1>3, <1>4, <1>5, <1>6 DEF Alive
<1>8. CASE \E r \in Requests : Alive(r) /\ ~Running(r) /\ stream[r].id = i
  <2>1. PICK r \in Requests : Alive(r) /\ ~Running(r) /\ stream[r].id = i
    BY <1>8
  <2>2. ASSUME NEW q \in Requests, Alive(q), ~Running(q), stream[q].id = i PROVE q = r
    <3>1. Accepted(q) /\ Accepted(r) /\ q \in 1 .. Len(stream) /\ r \in 1 .. Len(stream)
      BY <1>4, <2>1, <2>2 DEF Alive
    <3>2. q \notin r + 1 .. Len(stream) /\ r \notin q + 1 .. Len(stream)
      BY <2>1, <2>2, <3>1 DEF Alive
    <3>3. QED
      BY <3>1, <3>2 DEF TypeInv, TypeOK, IoType
  <2>3. r \in AliveJobs /\ AliveJobs' = AliveJobs \ {r}
    BY <1>7, <2>1, <2>2 DEF AliveJobs
  <2>4. QED
    BY <1>2, <2>3, ContractExits
<1>9. CASE ~\E r \in Requests : Alive(r) /\ ~Running(r) /\ stream[r].id = i
  <2>1. UNCHANGED AliveJobs
    BY <1>7, <1>9 DEF AliveJobs
  <2>2. QED
    BY <1>2, <2>1, ContractStutters
<1>10. QED
  BY <1>8, <1>9

LEMMA ReadStep == ASSUME TypeInv, ReadFrame PROVE [Contract!Next]_(Contract!vars)
<1>1. /\ UNCHANGED <<reply, proc, launcher, waiter, leaked, box>>
      /\ \E f \in Frames : stream' = Append(stream, f)
  BY DEF ReadFrame, jobVars
<1>2. stream \in Seq(Frames)
  BY DEF TypeInv, TypeOK, IoType
<1> HIDE DEF Frames
<1>3. Len(stream) \in Nat /\ Len(stream') = Len(stream) + 1
      /\ \A r \in 1 .. Len(stream) : stream'[r] = stream[r]
  BY <1>1, <1>2
<1>4. \A r \in Requests : Accepted(r) => r \in 1 .. Len(stream)
  BY DEF Accepted, TypeInv, InRange, TypeOK, IoType, Requests
<1>5. ~Accepted(Len(stream'))
  <2>1. Len(stream') \in Requests
    BY <1>3, SupervisorAssumption DEF ReadFrame, Requests
  <2>2. QED
    BY <1>3, <1>4, <2>1
<1>6. UNCHANGED <<Phase, Up>>
  BY <1>1, PhaseKept DEF Up, Accepted
<1>7. ASSUME NEW r \in Requests PROVE Alive(r)' <=> Alive(r)
  <2>1. (Accepted(r)' <=> Accepted(r)) /\ (Running(r)' <=> Running(r))
    BY <1>1 DEF Accepted, Running
  <2>2. CASE Accepted(r)
    <3>1. r \in 1 .. Len(stream) /\ stream'[r] = stream[r]
      BY <1>3, <1>4, <2>2
    <3>2. (\E x \in r + 1 .. Len(stream') : stream'[x].id = stream'[r].id /\ Accepted(x)')
          <=> (\E x \in r + 1 .. Len(stream) : stream[x].id = stream[r].id /\ Accepted(x))
      <4>1. ASSUME NEW x \in r + 1 .. Len(stream'), Accepted(x)'
            PROVE  x \in r + 1 .. Len(stream) /\ stream'[x] = stream[x] /\ Accepted(x)
        BY <1>1, <1>3, <1>5, <3>1, <4>1 DEF Accepted
      <4>2. ASSUME NEW x \in r + 1 .. Len(stream), Accepted(x)
            PROVE  x \in r + 1 .. Len(stream') /\ stream'[x] = stream[x] /\ Accepted(x)'
        BY <1>1, <1>3, <3>1, <4>2 DEF Accepted
      <4>3. QED
        BY <3>1, <4>1, <4>2
    <3>3. QED
      BY <1>1, <2>1, <3>1, <3>2 DEF Alive
  <2>3. CASE ~Accepted(r)
    BY <2>1, <2>3 DEF Alive
  <2>4. QED
    BY <2>2, <2>3
<1>8. UNCHANGED AliveJobs
  BY <1>7 DEF AliveJobs
<1>9. QED
  BY <1>6, <1>8, ContractStutters

ContractInv == TypeInv /\ JobInv /\ BoxInv /\ LeakInv /\ ReservationsMatch /\ BoxOwned

LEMMA NextContract == ASSUME ContractInv, [Next]_vars PROVE [Contract!Next]_(Contract!vars)
<1> USE DEF ContractInv
<1>1. ASSUME UNCHANGED <<stream, launcher, waiter, leaked, box>>,
             \A r \in Requests : Accepted(r) => reply'[r] = reply[r],
             UNCHANGED Up \/ (Up = "up" /\ Up' = "lost")
      PROVE  [Contract!Next]_(Contract!vars)
  BY <1>1, PhaseKept, AliveKept, QuietStep DEF Accepted
<1>2. ASSUME NEW r \in Requests, HandleRequest(r) PROVE [Contract!Next]_(Contract!vars)
  <2>1. CASE AcceptRun(r)
    BY <2>1, AcceptStep
  <2>2. CASE SetupFails(r)
    BY <2>2, SetupStep
  <2>3. CASE HandleCancel(r) \/ HandleShutdown(r)
    <3>1. UNCHANGED <<stream, launcher, waiter, leaked, box, reply, proc>>
      BY <2>3 DEF HandleCancel, HandleShutdown, ioVars
    <3>2. QED
      BY <1>1, <3>1 DEF Up
  <2>4. CASE \/ RefuseClosing(r) \/ HandleHealth(r) \/ HandleUnknown(r)
             \/ RefuseRun(r) \/ StartFails(r) \/ HandleBadCancel(r)
    <3>1. OnlyReply(r) /\ Receive(RequestEvent(r))
      BY <2>4, OnlyReplies
    <3>2. UNCHANGED <<stream, launcher, waiter, leaked, box>>
      BY <3>1 DEF OnlyReply, ioVars, jobVars
    <3>3. ~Accepted(r) /\ ~Answered(r)
      BY <3>1, TakenFresh
    <3>4. \A q \in Requests : Accepted(q) => reply'[q] = reply[q]
      BY <3>1, <3>3, WriteOnce DEF OnlyReply, Answered
    <3>5. proc = "running" /\ proc' \in {"running", "dropping"}
      BY <3>1 DEF OnlyReply, Receive, Write
    <3>6. QED
      BY <1>1, <3>2, <3>4, <3>5 DEF Up, CleanEnds
  <2>5. QED
    BY <1>2, <2>1, <2>2, <2>3, <2>4 DEF HandleRequest
<1>3. ASSUME NEW r \in Requests, Finish(r) PROVE [Contract!Next]_(Contract!vars)
  BY <1>3, FinishStep
<1>4. CASE Close \/ Drain
  BY <1>4, EndStep
<1>5. CASE \/ ReadEnd \/ HandleEof \/ HandleStreamError \/ DropDone \/ Crash \/ ClientSide
           \/ UNCHANGED vars
  <2>1. UNCHANGED <<stream, launcher, waiter, leaked, box, reply>>
    BY <1>5 DEF ReadEnd, HandleEof, HandleStreamError, DropDone, Crash, ClientSide, PipeBreaks,
       PipeFills, PipeEmpties, OutUnchanged, vars,
       ioVars, jobVars
  <2>2. UNCHANGED Up \/ (Up = "up" /\ Up' = "lost")
    BY <1>5 DEF ReadEnd, HandleEof, HandleStreamError, Receive, DropDone, Crash, Ended, Ends,
       ClientSide, PipeBreaks, PipeFills, PipeEmpties, OutUnchanged, vars, Up, CleanEnds
  <2>3. QED
    BY <1>1, <2>1, <2>2
<1>6. ASSUME NEW r \in Requests, LauncherBoxes(r) \/ LauncherExits(r) \/ HostKills(r)
      PROVE  [Contract!Next]_(Contract!vars)
  BY <1>6, LauncherStep DEF LauncherExits, LauncherKilled, HostKills
<1>7. QED
  BY <1>2, <1>3, <1>4, <1>5, <1>6, ReadStep, WaiterStep, DropStep, GuestStep DEF Next, Loop, Terminated

LEMMA InitContract == Init => Contract!Init
<1> SUFFICES ASSUME Init PROVE Contract!Init
  OBVIOUS
<1>1. \A r \in Requests : ~Accepted(r) /\ ~Running(r)
  BY DEF Init, Accepted, Running
<1>2. Phase = [r \in Requests |-> "new"] /\ AliveJobs = {} /\ Up = "up"
  BY <1>1 DEF Phase, AliveJobs, Alive, Up, Init
<1>3. QED
  BY <1>2 DEF Contract!Init, Phase, AliveJobs, Up

\* Every behaviour of the supervisor's threads, of the processes they start and of the
\* faults between them is one of the contract's: a run is answered once and only after
\* everything it started is gone, nothing of it starts again, and an orderly end leaves
\* no started run unanswered.
THEOREM StepsImplementContract == Spec => Contract!Steps
<1>1. Spec => []ContractInv
  BY LeakInvariance, CleanInvariance, PTL DEF ContractInv
<1>2. ContractInv /\ [Next]_vars => [Contract!Next]_(Contract!vars)
  BY NextContract
<1>3. QED
  BY <1>1, <1>2, InitContract, PTL DEF Spec, Contract!Steps

=============================================================================
