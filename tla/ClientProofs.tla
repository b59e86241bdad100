----------------------------- MODULE ClientProofs -----------------------------
(* Proofs about SupervisorClient, for every value of its constants. *)
EXTENDS SupervisorClient, FiniteSetTheorems, TLAPS

-----------------------------------------------------------------------------
(* The inductive invariant.                                                 *)

\* A request takes one ID, and its cancel another.
Called == {r \in Runs : call[r] # "idle"}

IdInv ==
    /\ nextId <= 2 + Cardinality(Called) + Cardinality(aborted)
    /\ \A r \in Pending : idOf[r] # 0

\* The client closes with its transport or before, and not without close() unless the
\* transport did; once close() resolved nobody is pending.
ClosedInv ==
    /\ tClosed \/ closing # "no" => closed
    /\ closed => tClosed \/ closing # "no"
    /\ closing = "done" => Pending = {} /\ health # "pending"

\* The transport finishes after the exit of its process; a process that never ran said
\* nothing.
ExitInv ==
    /\ finished => proc = "exited"
    /\ proc = "unspawned" => inbound = <<>>

IInv == Bookkeeping /\ IdInv /\ ClosedInv /\ ExitInv /\ RejectedAfterExit

-----------------------------------------------------------------------------
(* IDs.                                                                     *)

LEMMA RunsFinite == Cardinality(Runs) \in Nat /\ MaxId \in Nat
BY ClientAssumption, FS_CardinalityType DEF MaxId

LEMMA SubsetBound ==
    ASSUME NEW S \in SUBSET Runs
    PROVE  /\ IsFiniteSet(S) /\ Cardinality(S) \in Nat /\ Cardinality(S) <= Cardinality(Runs)
           /\ \A r \in Runs \ S : /\ Cardinality(S \cup {r}) = Cardinality(S) + 1
                                  /\ Cardinality(S) < Cardinality(Runs)
<1>1. IsFiniteSet(S) /\ Cardinality(S) \in Nat /\ Cardinality(S) <= Cardinality(Runs)
  BY ClientAssumption, FS_Subset, FS_CardinalityType
<1>2. ASSUME NEW r \in Runs \ S
      PROVE  Cardinality(S \cup {r}) = Cardinality(S) + 1 /\ Cardinality(S) < Cardinality(Runs)
  <2>1. Cardinality(S \cup {r}) = Cardinality(S) + 1
    BY <1>1, FS_AddElement
  <2>2. Cardinality(S \cup {r}) <= Cardinality(Runs)
    <3>1. S \cup {r} \subseteq Runs
      OBVIOUS
    <3> QED BY <3>1, ClientAssumption, FS_Subset
  <2> QED BY <1>1, <2>1, <2>2, RunsFinite
<1> QED BY <1>1, <1>2

\* The next ID is free while a run has not been called, or not been aborted.
LEMMA IdFree ==
    ASSUME IInv, NEW r \in Runs, r \notin Called \/ r \notin aborted
    PROVE  nextId \in 1 .. MaxId
<1>1. Called \in SUBSET Runs /\ aborted \in SUBSET Runs /\ nextId \in 1 .. MaxId + 1
  BY DEF IInv, Bookkeeping, TypeOK, Called
<1> DEFINE c == Cardinality(Called)
           a == Cardinality(aborted)
           n == Cardinality(Runs)
<1>2. c \in Nat /\ a \in Nat /\ n \in Nat /\ c <= n /\ a <= n /\ (c < n \/ a < n)
  <2> HIDE DEF Called
  <2> QED BY <1>1, SubsetBound, RunsFinite
<1>3. nextId <= 2 + c + a
  BY DEF IInv, IdInv
<1> HIDE DEF c, a, n
<1>4. nextId <= 1 + 2 * n
  BY <1>1, <1>2, <1>3, RunsFinite
<1> QED BY <1>1, <1>4 DEF MaxId, n

\* A step that calls or aborts a run may take an ID.
LEMMA IdSteps ==
    ASSUME IInv,
           Called' = Called \/ \E r \in Runs \ Called : Called' = Called \cup {r},
           aborted' = aborted \/ \E r \in Runs \ aborted : aborted' = aborted \cup {r},
           nextId' = nextId \/ (nextId' = nextId + 1 /\ (Called' # Called \/ aborted' # aborted))
    PROVE  nextId' <= 2 + Cardinality(Called') + Cardinality(aborted')
<1>1. Called \in SUBSET Runs /\ aborted \in SUBSET Runs /\ nextId \in 1 .. MaxId + 1
  BY DEF IInv, Bookkeeping, TypeOK, Called
<1> DEFINE c == Cardinality(Called)
           a == Cardinality(aborted)
           c1 == Cardinality(Called')
           a1 == Cardinality(aborted')
<1>2. c \in Nat /\ a \in Nat /\ nextId <= 2 + c + a /\ nextId \in Int
  BY <1>1, SubsetBound, RunsFinite DEF IInv, IdInv
<1>3. c1 = c \/ c1 = c + 1
  BY <1>1, SubsetBound
<1>4. Called' # Called => c1 = c + 1
  BY <1>1, SubsetBound
<1>5. a1 = a \/ a1 = a + 1
  BY <1>1, SubsetBound
<1>6. aborted' # aborted => a1 = a + 1
  BY <1>1, SubsetBound
<1> HIDE DEF c, a, c1, a1
<1>7. nextId' <= 2 + c1 + a1
  BY <1>2, <1>3, <1>4, <1>5, <1>6
<1> QED BY <1>7 DEF c1, a1

-----------------------------------------------------------------------------
(* Types.                                                                   *)

\* The types but that of nextId, which counts.
TypeRest ==
    /\ startup \in {"waiting", "ready", "closing", "failed"}
    /\ health \in {"pending", "answered", "rejected"}
    /\ idOf \in [Runs -> 0 .. MaxId]
    /\ call \in [Runs -> {"idle", "pending"} \cup Settled]
    /\ aborted \subseteq Runs /\ listening \subseteq Runs /\ graced \subseteq Runs
    /\ closed \in BOOLEAN
    /\ closing \in {"no", "waiting", "done"}
    /\ tClosed \in BOOLEAN
    /\ stdin \in {"open", "ended", "broken"}
    /\ backlog \in Seq(Messages) /\ Len(backlog) <= MaxQueued
    /\ timers \in {"none", "term", "kill", "over"}
    /\ finished \in BOOLEAN
    /\ proc \in {"unspawned", "up", "dead", "exited"}
    /\ signal \in {"none", "term", "kill"}
    /\ jobs \subseteq 1 .. MaxId
    /\ inbound \in Seq(0 .. MaxId)

LEMMA Appended ==
    ASSUME backlog \in Seq(Messages), CanSend, NEW m \in Messages,
           backlog' = Append(backlog, m)
    PROVE  backlog' \in Seq(Messages) /\ Len(backlog') <= MaxQueued
<1>1. Len(backlog) < MaxQueued /\ MaxQueued \in Nat /\ Len(backlog) \in Nat
  BY ClientAssumption DEF CanSend
<1>2. backlog' \in Seq(Messages) /\ Len(backlog') = Len(backlog) + 1
  OBVIOUS
<1> QED BY <1>1, <1>2

LEMMA Prefix ==
    ASSUME NEW S, NEW q \in Seq(S), NEW n \in 0 .. Len(q)
    PROVE  SubSeq(q, 1, n) \in Seq(S) /\ Len(SubSeq(q, 1, n)) = n
OBVIOUS

\* What a close of the client or of the transport does to the types.
LEMMA CloseTypes ==
    ASSUME TypeOK, ClientClose
    PROVE  /\ closed' \in BOOLEAN /\ closing' \in {"no", "waiting", "done"}
           /\ stdin' \in {"open", "ended", "broken"}
           /\ timers' \in {"none", "term", "kill", "over"}
           /\ backlog' \in Seq(Messages) /\ Len(backlog') <= MaxQueued
<1>1. closed' \in BOOLEAN /\ closing' \in {"no", "waiting", "done"}
  BY DEF ClientClose, TypeOK
<1>2. /\ stdin' \in {"open", "ended", "broken"}
      /\ timers' \in {"none", "term", "kill", "over"}
  BY DEF ClientClose, TransportClose, TypeOK
<1>3. backlog' = backlog \/ \E n \in 0 .. Len(backlog) : backlog' = SubSeq(backlog, 1, n)
  BY DEF ClientClose, TransportClose
<1>4. /\ backlog \in Seq(Messages) /\ Len(backlog) <= MaxQueued
      /\ MaxQueued \in Nat /\ Len(backlog) \in Nat
  BY ClientAssumption DEF TypeOK
<1>5. backlog' \in Seq(Messages) /\ Len(backlog') <= MaxQueued
  <2>1. ASSUME NEW n \in 0 .. Len(backlog), backlog' = SubSeq(backlog, 1, n)
        PROVE  backlog' \in Seq(Messages) /\ Len(backlog') <= MaxQueued
    <3>1. backlog' \in Seq(Messages) /\ Len(backlog') = n
      BY <1>4, <2>1, Prefix
    <3> QED BY <1>4, <3>1
  <2> QED BY <1>3, <1>4, <2>1
<1> QED BY <1>1, <1>2, <1>5

LEMMA HandleTypes ==
    ASSUME TypeOK, HandleClose
    PROVE  /\ closed' \in BOOLEAN /\ tClosed' \in BOOLEAN
           /\ call' \in [Runs -> {"idle", "pending"} \cup Settled]
           /\ health' \in {"pending", "answered", "rejected"}
           /\ listening' \subseteq Runs /\ graced' \subseteq Runs
BY DEF HandleClose, RejectPending, TypeOK, Settled

LEMMA RequestType ==
    ASSUME IInv, NEW r \in Runs, Request(r)
    PROVE  TypeRest'
<1>0. TypeOK /\ call[r] = "idle"
  BY DEF IInv, Bookkeeping, Request
<1>1. nextId \in 1 .. MaxId
  BY <1>0, IdFree DEF Called
<1>2. backlog' \in Seq(Messages) /\ Len(backlog') <= MaxQueued
  <2>1. [type |-> "run", id |-> nextId, target |-> nextId] \in Messages
    BY <1>1 DEF Messages
  <2>2. CASE backlog' = backlog
    BY <1>0, <2>2 DEF TypeOK
  <2>3. CASE /\ CanSend
             /\ backlog' = Append(backlog, [type |-> "run", id |-> nextId, target |-> nextId])
    BY <1>0, <2>1, <2>3, Appended DEF TypeOK
  <2> QED BY <2>2, <2>3 DEF Request
<1>3. /\ idOf' \in [Runs -> 0 .. MaxId]
      /\ call' \in [Runs -> {"idle", "pending"} \cup Settled]
      /\ listening' \subseteq Runs
  <2>1. nextId \in 0 .. MaxId
    BY <1>1, RunsFinite
  <2>2. idOf' = idOf \/ idOf' = [idOf EXCEPT ![r] = nextId]
    BY DEF Request
  <2>3. \E s \in Settled \cup {"pending"} : call' = [call EXCEPT ![r] = s]
    BY DEF Request, Settled
  <2>4. listening' = listening \/ listening' = listening \cup {r}
    BY DEF Request
  <2> QED BY <1>0, <2>1, <2>2, <2>3, <2>4 DEF TypeOK
<1> QED BY <1>0, <1>2, <1>3 DEF Request, TypeOK, TypeRest, startVars, procVars

LEMMA AbortType ==
    ASSUME IInv, NEW r \in Runs, Abort(r)
    PROVE  TypeRest'
<1>0. TypeOK /\ r \notin aborted /\ NoTimerLeft /\ IdInv
  BY DEF IInv, Bookkeeping, Abort
<1>1. nextId \in 1 .. MaxId
  BY <1>0, IdFree
<1>2. CASE UNCHANGED <<nextId, graced, closed, closing, stdin, backlog, timers>>
  BY <1>0, <1>2 DEF Abort, TypeOK, TypeRest, startVars, procVars
<1>3. CASE r \in listening /\ CanSend /\ graced' = graced \cup {r}
           /\ backlog' = Append(backlog, [type |-> "cancel", id |-> nextId, target |-> idOf[r]])
           /\ UNCHANGED <<closed, closing, stdin, timers>>
  <2>1. idOf[r] \in 1 .. MaxId
    <3>1. r \in Pending /\ idOf[r] \in 0 .. MaxId
      BY <1>0, <1>3 DEF NoTimerLeft, TypeOK
    <3> QED BY <1>0, <3>1, RunsFinite DEF IdInv
  <2>2. [type |-> "cancel", id |-> nextId, target |-> idOf[r]] \in Messages
    BY <1>1, <2>1 DEF Messages
  <2>3. backlog' \in Seq(Messages) /\ Len(backlog') <= MaxQueued
    BY <1>0, <1>3, <2>2, Appended DEF TypeOK
  <2> QED BY <1>0, <1>3, <2>3 DEF Abort, TypeOK, TypeRest, startVars, procVars
<1>4. CASE ClientClose /\ UNCHANGED graced
  BY <1>0, <1>4, CloseTypes DEF Abort, TypeOK, TypeRest, startVars, procVars
<1> QED BY <1>2, <1>3, <1>4 DEF Abort

LEMMA HandleDataType ==
    ASSUME IInv, HandleData
    PROVE  TypeRest'
<1>0. TypeOK /\ inbound # <<>>
  BY DEF IInv, Bookkeeping, HandleData
<1>1. inbound' \in Seq(0 .. MaxId)
  <2>1. inbound' = <<>> \/ inbound' = Tail(inbound)
    BY DEF HandleData
  <2>2. ASSUME NEW S, NEW q \in Seq(S), q # <<>> PROVE Tail(q) \in Seq(S)
    BY <2>2
  <2>3. <<>> \in Seq(0 .. MaxId)
    OBVIOUS
  <2>4. inbound \in Seq(0 .. MaxId)
    BY <1>0 DEF TypeOK
  <2>5. Tail(inbound) \in Seq(0 .. MaxId)
    BY <1>0, <2>2, <2>4
  <2> QED BY <2>1, <2>3, <2>5
<1>2. UNCHANGED <<nextId, idOf, aborted, closing, stdin, backlog, timers, finished, proc, jobs>>
  BY DEF HandleData
<1>3. CASE UNCHANGED <<startVars, call, listening, graced, closed, tClosed, signal>>
  BY <1>0, <1>1, <1>2, <1>3 DEF TypeOK, TypeRest, startVars
<1>4. CASE Deliver(Head(inbound)) /\ UNCHANGED <<closed, tClosed, signal>>
  <2>1. /\ call' \in [Runs -> {"idle", "pending"} \cup Settled]
        /\ listening' \subseteq Runs /\ graced' \subseteq Runs
        /\ startup' \in {"waiting", "ready", "closing", "failed"}
        /\ health' \in {"pending", "answered", "rejected"}
    BY <1>0, <1>4 DEF Deliver, TypeOK, startVars, Settled
  <2> QED BY <1>0, <1>1, <1>2, <1>4, <2>1 DEF TypeOK, TypeRest
<1>5. CASE HandleClose /\ signal' = "kill" /\ UNCHANGED startup
  BY <1>0, <1>1, <1>2, <1>5, HandleTypes DEF TypeOK, TypeRest
<1> QED BY <1>3, <1>4, <1>5 DEF HandleData

LEMMA HeadTail ==
    ASSUME NEW S, NEW q \in Seq(S), q # <<>>
    PROVE  /\ Head(q) \in S /\ Tail(q) \in Seq(S)
           /\ Len(q) \in Nat /\ Len(Tail(q)) = Len(q) - 1
OBVIOUS

LEMMA ReadType ==
    ASSUME IInv, Read
    PROVE  TypeRest'
<1>0. TypeOK
  BY DEF IInv, Bookkeeping
<1>1. backlog \in Seq(Messages) /\ Len(backlog) <= MaxQueued /\ MaxQueued \in Nat
  BY <1>0, ClientAssumption DEF TypeOK
<1>2. backlog # <<>> /\ backlog' = Tail(backlog)
  BY DEF Read
<1>3. Head(backlog) \in Messages /\ backlog' \in Seq(Messages) /\ Len(backlog') <= MaxQueued
  BY <1>1, <1>2, HeadTail
<1>4. Head(backlog).id \in 1 .. MaxId
  BY <1>3 DEF Messages
<1>5. jobs' \subseteq 1 .. MaxId
  <2>1. jobs' = jobs \/ jobs' = jobs \cup {Head(backlog).id}
    BY DEF Read
  <2> QED BY <1>0, <1>4, <2>1 DEF TypeOK
<1>6. UNCHANGED <<startVars, clientVars, tClosed, stdin, timers, finished, proc, signal, inbound>>
  BY DEF Read
<1> QED BY <1>0, <1>3, <1>5, <1>6 DEF TypeOK, TypeRest, startVars, clientVars

LEMMA NextType ==
    ASSUME IInv, [Next]_vars
    PROVE  TypeRest'
<1>0. TypeOK
  BY DEF IInv, Bookkeeping
<1> USE DEF TypeOK, TypeRest, vars, startVars, clientVars, transportVars, procVars
<1>1. ASSUME NEW r \in Runs, GraceExpires(r) PROVE TypeRest'
  BY <1>0, <1>1, CloseTypes DEF GraceExpires
<1>2. CASE Close \/ StartupFails
  BY <1>0, <1>2, CloseTypes DEF Close, StartupFails
<1>3. CASE CloseDone
  BY <1>0, <1>3 DEF CloseDone, RejectPending, Settled
<1>4. CASE StartupRejects \/ TermTimer \/ KillTimer \/ ExitSeen \/ Dies
  BY ZenonT(40), <1>0, <1>4 DEF StartupRejects, TermTimer, KillTimer, ExitSeen, Dies
<1>5. CASE StdinFails
  BY <1>0, <1>5, ClientAssumption DEF StdinFails
<1>6. CASE SpawnFails \/ Finish \/ DrainTimer
  <2>1. CASE SpawnFails \/ Finish
    BY ZenonT(40), <1>0, <2>1, HandleTypes DEF SpawnFails, Finish, FinishTransport
  <2>2. CASE DrainTimer
    <3>1. inbound' \in Seq(0 .. MaxId)
      BY <2>2 DEF DrainTimer
    <3> QED BY ZenonT(40), <1>0, <2>2, <3>1, HandleTypes DEF DrainTimer, FinishTransport
  <2> QED BY <1>6, <2>1, <2>2
<1>7. CASE Garble
  <2>1. Bad \in 0 .. MaxId
    BY RunsFinite DEF Bad
  <2> QED BY <1>0, <1>7, <2>1 DEF Garble
<1>8. ASSUME NEW id \in 1 .. MaxId, Answer(id) PROVE TypeRest'
  <2>1. id \in 0 .. MaxId
    BY RunsFinite
  <2> QED BY <1>0, <1>8, <2>1 DEF Answer
<1>9. CASE UNCHANGED vars
  BY <1>0, <1>9
<1> QED
  BY <1>1, <1>2, <1>3, <1>4, <1>5, <1>6, <1>7, <1>8, <1>9,
     RequestType, AbortType, HandleDataType, ReadType DEF Next, Over

-----------------------------------------------------------------------------
(* What a step does to the promises.                                        *)

\* Any step but a call settles promises and sets none waiting; listeners and timers are
\* those of pending runs.
CallsSettle ==
    /\ idOf' = idOf
    /\ \A r \in Runs : call'[r] = call[r] \/ (call[r] = "pending" /\ call'[r] \in Settled)
    /\ health' = health \/ (health = "pending" /\ health' # "pending")
    /\ \A r \in listening' \cup graced' : r \in listening \cup graced /\ call'[r] = call[r]

LEMMA RejectSettles ==
    ASSUME TypeOK, NoTimerLeft, RejectPending
    PROVE  /\ \A r \in Runs : call'[r] = call[r] \/ (call[r] = "pending" /\ call'[r] \in Settled)
           /\ health' = health \/ (health = "pending" /\ health' # "pending")
           /\ \A r \in listening' \cup graced' : r \in listening \cup graced /\ call'[r] = call[r]
           /\ Pending' = {} /\ health' # "pending"
BY DEF RejectPending, TypeOK, NoTimerLeft, Pending, Settled

LEMMA HandleSettles ==
    ASSUME TypeOK, NoTimerLeft, HandleClose
    PROVE  /\ \A r \in Runs : call'[r] = call[r] \/ (call[r] = "pending" /\ call'[r] \in Settled)
           /\ health' = health \/ (health = "pending" /\ health' # "pending")
           /\ \A r \in listening' \cup graced' : r \in listening \cup graced /\ call'[r] = call[r]
<1>1. CASE UNCHANGED <<call, health, listening, graced>>
  BY <1>1
<1>2. CASE RejectPending
  BY <1>2, RejectSettles
<1> QED BY <1>1, <1>2 DEF HandleClose

LEMMA DeliverSettles ==
    ASSUME TypeOK, NoTimerLeft, NEW id, Deliver(id)
    PROVE  /\ \A r \in Runs : call'[r] = call[r] \/ (call[r] = "pending" /\ call'[r] \in Settled)
           /\ health' = health \/ (health = "pending" /\ health' # "pending")
           /\ \A r \in listening' \cup graced' : r \in listening \cup graced /\ call'[r] = call[r]
<1> DEFINE settles == IF closed THEN {} ELSE {r \in Pending : idOf[r] = id}
<1>1. /\ call' = [r \in Runs |-> IF r \in settles THEN "answered" ELSE call[r]]
      /\ listening' = listening \ settles /\ graced' = graced \ settles
      /\ health' = health \/ (health = "pending" /\ health' = "answered")
  BY DEF Deliver, startVars
<1>2. settles \subseteq Pending /\ listening \cup graced \subseteq Runs
  BY DEF TypeOK
<1> HIDE DEF settles
<1> QED BY <1>1, <1>2 DEF Pending, Settled

LEMMA OtherSteps ==
    ASSUME IInv, [Next]_vars
    PROVE  \/ \E r \in Runs : Request(r)
           \/ \E r \in Runs : Abort(r)
           \/ CallsSettle /\ nextId' = nextId /\ aborted' = aborted
<1>0. TypeOK /\ NoTimerLeft
  BY DEF IInv, Bookkeeping
<1> USE DEF vars, startVars, clientVars, transportVars, procVars
<1>1. ASSUME NEW r \in Runs, GraceExpires(r)
      PROVE  CallsSettle /\ nextId' = nextId /\ aborted' = aborted
  BY <1>0, <1>1 DEF GraceExpires, CallsSettle
<1>2. CASE Close \/ StartupFails \/ StartupRejects \/ TermTimer \/ KillTimer \/ ExitSeen \/ Dies
           \/ StdinFails \/ Read \/ Garble \/ UNCHANGED vars
  BY <1>2 DEF Close, StartupFails, StartupRejects, TermTimer, KillTimer, ExitSeen, Dies,
     StdinFails, Read, Garble, CallsSettle
<1>3. CASE CloseDone
  BY <1>0, <1>3, RejectSettles DEF CloseDone, CallsSettle
<1>4. CASE SpawnFails \/ Finish \/ DrainTimer
  BY <1>0, <1>4, HandleSettles DEF SpawnFails, Finish, DrainTimer, FinishTransport, CallsSettle
<1>5. CASE HandleData
  <2>1. UNCHANGED <<nextId, idOf, aborted>>
    BY <1>5 DEF HandleData
  <2>2. CASE UNCHANGED <<startVars, call, listening, graced>>
    BY <2>1, <2>2 DEF CallsSettle
  <2>3. CASE Deliver(Head(inbound))
    BY <1>0, <2>1, <2>3, DeliverSettles DEF CallsSettle
  <2>4. CASE HandleClose
    BY <1>0, <2>1, <2>4, HandleSettles DEF CallsSettle
  <2> QED BY <1>5, <2>2, <2>3, <2>4 DEF HandleData
<1>6. ASSUME NEW id \in 1 .. MaxId, Answer(id)
      PROVE  CallsSettle /\ nextId' = nextId /\ aborted' = aborted
  BY <1>6 DEF Answer, CallsSettle
<1> QED BY <1>1, <1>2, <1>3, <1>4, <1>5, <1>6 DEF Next, Over

-----------------------------------------------------------------------------
(* The invariant.                                                           *)

LEMMA NextIds ==
    ASSUME IInv, [Next]_vars
    PROVE  IdInv' /\ nextId' \in 1 .. MaxId + 1
<1>0. TypeOK /\ NoTimerLeft /\ IdInv
  BY DEF IInv, Bookkeeping
<1>1. ASSUME NEW r \in Runs, Request(r)
      PROVE  IdInv' /\ nextId' \in 1 .. MaxId + 1
  <2>1. r \notin Called /\ nextId \in 1 .. MaxId
    BY <1>1, IdFree DEF Request, Called
  <2>2. \E s \in Settled \cup {"pending"} : call' = [call EXCEPT ![r] = s]
    BY <1>1 DEF Request, Settled
  <2>3. Called' = Called \cup {r}
    BY <1>0, <2>2 DEF Called, TypeOK, Settled
  <2>4. aborted' = aborted /\ (nextId' = nextId \/ nextId' = nextId + 1)
    BY <1>1 DEF Request
  <2>5. nextId' <= 2 + Cardinality(Called') + Cardinality(aborted')
    BY <2>1, <2>3, <2>4, IdSteps DEF Called
  <2>6. \A i \in Pending' : idOf'[i] # 0
    <3>1. call'[r] = "pending" => idOf' = [idOf EXCEPT ![r] = nextId]
      BY <1>0, <1>1 DEF Request, TypeOK
    <3>2. idOf' = idOf \/ idOf' = [idOf EXCEPT ![r] = nextId]
      BY <1>1 DEF Request
    <3>3. \A i \in Pending' : i = r \/ i \in Pending
      BY <1>0, <2>2 DEF Pending, TypeOK
    <3>4. nextId # 0 /\ DOMAIN idOf = Runs /\ Pending' \subseteq Runs
      BY <1>0, <2>1 DEF TypeOK, Pending
    <3>5. r \in Pending' => call'[r] = "pending"
      BY DEF Pending
    <3> QED BY <1>0, <3>1, <3>2, <3>3, <3>4, <3>5 DEF IdInv
  <2>7. nextId' \in 1 .. MaxId + 1
    BY <2>1, <2>4, RunsFinite
  <2> QED BY <2>5, <2>6, <2>7 DEF IdInv
<1>2. ASSUME NEW r \in Runs, Abort(r)
      PROVE  IdInv' /\ nextId' \in 1 .. MaxId + 1
  <2>1. r \notin aborted /\ aborted' = aborted \cup {r} /\ call' = call /\ idOf' = idOf
    BY <1>2 DEF Abort
  <2>2. nextId \in 1 .. MaxId
    BY <2>1, IdFree
  <2>3. nextId' = nextId \/ nextId' = nextId + 1
    BY <1>2 DEF Abort
  <2>4. Called' = Called /\ Pending' = Pending
    BY <2>1 DEF Called, Pending
  <2>5. nextId' <= 2 + Cardinality(Called') + Cardinality(aborted')
    BY <2>1, <2>3, <2>4, IdSteps
  <2>6. nextId' \in 1 .. MaxId + 1
    BY <2>2, <2>3, RunsFinite
  <2> QED BY <1>0, <2>1, <2>4, <2>5, <2>6 DEF IdInv
<1>3. ASSUME CallsSettle, nextId' = nextId, aborted' = aborted
      PROVE  IdInv' /\ nextId' \in 1 .. MaxId + 1
  <2>1. Called' = Called /\ Pending' \subseteq Pending
    BY <1>3 DEF CallsSettle, Called, Pending, Settled
  <2>2. nextId' <= 2 + Cardinality(Called') + Cardinality(aborted')
    BY <1>0, <1>3, <2>1 DEF IdInv
  <2> QED BY <1>0, <1>3, <2>1, <2>2 DEF IdInv, CallsSettle, TypeOK
<1> QED BY <1>1, <1>2, <1>3, OtherSteps

LEMMA NextTimers ==
    ASSUME IInv, [Next]_vars
    PROVE  NoTimerLeft'
<1>0. TypeOK /\ NoTimerLeft
  BY DEF IInv, Bookkeeping
<1>1. ASSUME NEW r \in Runs, Request(r) PROVE NoTimerLeft'
  <2>1. graced' = graced /\ call[r] = "idle" /\ (\A i \in Runs \ {r} : call'[i] = call[i])
    BY <1>0, <1>1 DEF Request, TypeOK
  <2>2. listening' = listening \/ (listening' = listening \cup {r} /\ call'[r] = "pending")
    BY <1>0, <1>1 DEF Request, TypeOK
  <2> QED BY <1>0, <2>1, <2>2 DEF NoTimerLeft, Pending
<1>2. ASSUME NEW r \in Runs, Abort(r) PROVE NoTimerLeft'
  <2>1. /\ call' = call /\ listening' \subseteq listening
        /\ graced' = graced \/ (r \in listening /\ graced' = graced \cup {r})
    BY <1>2 DEF Abort
  <2> QED BY <1>0, <2>1 DEF NoTimerLeft, Pending
<1>3. CASE CallsSettle
  BY <1>0, <1>3 DEF CallsSettle, NoTimerLeft, Pending
<1> QED BY <1>1, <1>2, <1>3, OtherSteps

\* A closed client stays closed, and no call waits for one.
LEMMA ClosedSteps ==
    ASSUME IInv, [Next]_vars
    PROVE  /\ tClosed => tClosed' /\ closed'
           /\ closed => closed' /\ Pending' \subseteq Pending
           /\ health' = "pending" => health = "pending"
           /\ ~closed /\ closed' => tClosed' \/ closing' # "no"
           /\ closing # "no" => closing' # "no"
           /\ closing = "no" /\ closing' # "no" => closed' /\ closing' = "waiting"
           /\ closing = "done" => closing' = "done"
           /\ closing # "done" /\ closing' = "done" => Pending' = {} /\ health' # "pending"
           /\ ~tClosed /\ tClosed' => closed' /\ (~closed => Pending' = {} /\ health' # "pending")
<1>0. TypeOK /\ NoTimerLeft /\ ClosedInv
  BY DEF IInv, Bookkeeping
<1> USE DEF vars, startVars, clientVars, transportVars, procVars, ClosedInv
<1>1. closed => Pending' \subseteq Pending
  <2>1. ASSUME NEW r \in Runs, Request(r), closed PROVE Pending' \subseteq Pending
    BY <1>0, <2>1 DEF Request, Pending, TypeOK
  <2>2. ASSUME NEW r \in Runs, Abort(r) PROVE Pending' \subseteq Pending
    BY <2>2 DEF Abort, Pending
  <2>3. CallsSettle => Pending' \subseteq Pending
    BY DEF CallsSettle, Pending, Settled
  <2> QED BY <2>1, <2>2, <2>3, OtherSteps
<1>2. health' = "pending" => health = "pending"
  BY OtherSteps DEF CallsSettle, Request, Abort
<1>3. CASE UNCHANGED <<closed, closing, tClosed>>
  BY <1>0, <1>1, <1>2, <1>3
<1>4. CASE ClientClose /\ tClosed' = tClosed
  BY <1>0, <1>1, <1>2, <1>4 DEF ClientClose
<1>5. CASE CloseDone
  BY <1>0, <1>1, <1>2, <1>5, RejectSettles DEF CloseDone
<1>6. CASE HandleClose /\ closing' = closing
  <2>1. CASE tClosed
    BY <1>0, <1>1, <1>2, <1>6, <2>1 DEF HandleClose
  <2>2. CASE ~tClosed /\ closed
    BY <1>0, <1>1, <1>2, <1>6, <2>2 DEF HandleClose
  <2>3. CASE ~tClosed /\ ~closed
    <3>1. RejectPending /\ tClosed' = TRUE /\ closed' = TRUE
      BY <1>6, <2>3 DEF HandleClose
    <3> QED BY <1>0, <1>1, <1>2, <1>6, <2>3, <3>1, RejectSettles
  <2> QED BY <2>1, <2>2, <2>3
<1>7. \/ UNCHANGED <<closed, closing, tClosed>>
      \/ ClientClose /\ tClosed' = tClosed
      \/ CloseDone
      \/ HandleClose /\ closing' = closing
  BY DEF Next, Over, Request, Abort, GraceExpires, Close, HandleData, StartupFails,
     StartupRejects, TermTimer, KillTimer, StdinFails, SpawnFails, ExitSeen, Finish,
     DrainTimer, FinishTransport, Read, Dies, Garble, Answer
<1> QED BY <1>3, <1>4, <1>5, <1>6, <1>7

LEMMA NextClosed ==
    ASSUME IInv, [Next]_vars
    PROVE  ClosedInv' /\ NobodyLeftBehind'
<1>0. TypeOK /\ ClosedInv /\ NobodyLeftBehind
  BY DEF IInv, Bookkeeping
<1>1. ClosedInv'
  BY <1>0, ClosedSteps DEF ClosedInv, TypeOK
<1>2. ASSUME tClosed', closing' # "waiting"
      PROVE  Pending' = {} /\ health' # "pending"
  <2>1. closing \in {"no", "waiting", "done"} /\ closing' \in {"no", "waiting", "done"}
    BY <1>0, NextType DEF TypeOK, TypeRest
  <2>2. CASE closing = "waiting"
    BY <1>2, <2>1, <2>2, ClosedSteps
  <2>3. CASE closing # "waiting" /\ tClosed
    <3>1. Pending = {} /\ health # "pending" /\ closed
      BY <1>0, <2>3 DEF NobodyLeftBehind, ClosedInv
    <3> QED BY <3>1, ClosedSteps
  <2>4. CASE closing # "waiting" /\ ~tClosed /\ closed
    <3>1. closing = "done" /\ Pending = {} /\ health # "pending"
      BY <1>0, <2>1, <2>4 DEF ClosedInv
    <3> QED BY <2>4, <3>1, ClosedSteps
  <2>5. CASE ~tClosed /\ ~closed
    BY <1>2, <2>5, ClosedSteps
  <2> QED BY <2>2, <2>3, <2>4, <2>5
<1> QED BY <1>1, <1>2 DEF NobodyLeftBehind

LEMMA NextExit ==
    ASSUME IInv, [Next]_vars
    PROVE  ExitInv' /\ RejectedAfterExit'
<1>0. TypeOK /\ ExitInv /\ RejectedAfterExit
  BY DEF IInv, Bookkeeping
<1> USE DEF vars, startVars, clientVars, transportVars, procVars
<1>1. /\ proc = "exited" => proc' = "exited"
      /\ signal = "kill" => signal' = "kill"
      /\ finished' /\ ~finished => proc' = "exited"
      /\ proc' = "unspawned" => proc = "unspawned"
      /\ proc' = "unspawned" /\ inbound = <<>> => inbound' = <<>>
  <2>1. CASE HandleData
    BY <1>0, <2>1 DEF HandleData
  <2>2. CASE TermTimer \/ KillTimer
    BY <1>0, <2>2 DEF TermTimer, KillTimer
  <2>3. CASE StdinFails \/ SpawnFails \/ ExitSeen \/ Finish \/ DrainTimer
    BY <1>0, <2>3 DEF StdinFails, SpawnFails, ExitSeen, Finish, DrainTimer, FinishTransport
  <2>4. CASE Read \/ Dies \/ Garble \/ \E id \in 1 .. MaxId : Answer(id)
    BY <1>0, <2>4 DEF Read, Dies, Garble, Answer
  <2>5. CASE UNCHANGED <<proc, signal, finished, inbound>>
    BY <1>0, <2>5
  <2> QED BY <2>1, <2>2, <2>3, <2>4, <2>5 DEF Next, Over, Request, Abort, GraceExpires, Close,
     CloseDone, StartupFails, StartupRejects
<1>2. ExitInv'
  BY <1>0, <1>1 DEF ExitInv, TypeOK
<1>3. closing' = "done" => closing = "done" \/ proc' = "exited"
  BY <1>0 DEF Next, Over, Request, Abort, GraceExpires, Close, CloseDone, HandleData,
     StartupFails, StartupRejects, TermTimer, KillTimer, StdinFails, SpawnFails, ExitSeen,
     Finish, DrainTimer, FinishTransport, Read, Dies, Garble, Answer, ClientClose, ExitInv
<1>4. ASSUME NEW r \in Runs, call'[r] = "unavailable", call[r] # "unavailable"
      PROVE  proc' = "exited" \/ signal' = "kill"
  <2>1. ASSUME NEW i \in Runs, Request(i) PROVE FALSE
    BY <1>0, <1>4, <2>1 DEF Request, TypeOK
  <2>2. call' # call
    BY <1>4
  <2>3. CASE HandleData
    <3>1. CASE Deliver(Head(inbound))
      BY <1>4, <3>1 DEF Deliver
    <3> QED BY <2>2, <2>3, <3>1 DEF HandleData
  <2>4. CASE CloseDone \/ SpawnFails \/ Finish \/ DrainTimer
    BY <1>0, <2>4 DEF CloseDone, SpawnFails, Finish, DrainTimer, FinishTransport, ExitInv
  <2> QED BY <2>1, <2>2, <2>3, <2>4 DEF Next, Over, Abort, GraceExpires, Close, StartupFails,
     StartupRejects, TermTimer, KillTimer, StdinFails, ExitSeen, Read, Dies, Garble, Answer
<1> QED BY <1>0, <1>1, <1>2, <1>3, <1>4 DEF RejectedAfterExit

-----------------------------------------------------------------------------
(* The theorems.                                                            *)

LEMMA InitInv == Init => IInv
<1> SUFFICES ASSUME Init PROVE IInv
  OBVIOUS
<1> USE DEF Init
<1>1. Called = {} /\ Pending = {}
  BY DEF Called, Pending
<1>2. Cardinality(Called) = 0 /\ Cardinality(aborted) = 0
  BY <1>1, FS_EmptySet
<1>3. Cardinality(Runs) \in Nat /\ MaxId \in Nat /\ MaxId >= 1
  BY RunsFinite DEF MaxId
<1>4. TypeOK
  <2>1. /\ startup \in {"waiting", "ready", "closing", "failed"}
        /\ health \in {"pending", "answered", "rejected"}
        /\ closing \in {"no", "waiting", "done"}
        /\ stdin \in {"open", "ended", "broken"}
        /\ timers \in {"none", "term", "kill", "over"}
        /\ proc \in {"unspawned", "up", "dead", "exited"}
        /\ signal \in {"none", "term", "kill"}
    OBVIOUS
  <2>2. closed \in BOOLEAN /\ tClosed \in BOOLEAN /\ finished \in BOOLEAN
    BY Zenon
  <2>3. nextId \in 1 .. MaxId + 1
    BY <1>3 DEF HealthId
  <2>4. backlog \in Seq(Messages) /\ Len(backlog) <= MaxQueued
    <3>1. [type |-> "health", id |-> HealthId, target |-> HealthId] \in Messages
      BY <1>3 DEF Messages, HealthId
    <3> QED BY <3>1, ClientAssumption
  <2>5. idOf \in [Runs -> 0 .. MaxId] /\ inbound \in Seq(0 .. MaxId) /\ jobs \subseteq 1 .. MaxId
    BY <1>3
  <2>6. /\ call \in [Runs -> {"idle", "pending"} \cup Settled]
        /\ aborted \subseteq Runs /\ listening \subseteq Runs /\ graced \subseteq Runs
    OBVIOUS
  <2> HIDE DEF Init
  <2> QED BY <2>1, <2>2, <2>3, <2>4, <2>5, <2>6 DEF TypeOK
<1>5. NoTimerLeft /\ NobodyLeftBehind
  BY DEF NoTimerLeft, NobodyLeftBehind
<1>6. IdInv
  BY <1>1, <1>2 DEF IdInv, HealthId
<1>7. ClosedInv /\ ExitInv /\ RejectedAfterExit
  BY DEF ClosedInv, ExitInv, RejectedAfterExit
<1> QED BY <1>4, <1>5, <1>6, <1>7 DEF IInv, Bookkeeping

LEMMA NextInv == IInv /\ [Next]_vars => IInv'
<1> SUFFICES ASSUME IInv, [Next]_vars PROVE IInv'
  OBVIOUS
<1>1. TypeOK'
  BY NextType, NextIds DEF TypeRest, TypeOK
<1> QED BY <1>1, NextIds, NextTimers, NextClosed, NextExit DEF IInv, Bookkeeping

\* The inductive invariant holds in every state of the specification.
THEOREM ClientInvariant == Spec => []IInv
BY InitInv, NextInv, PTL DEF Spec

\* The client's tables stay consistent: only a pending request has a listener or a grace
\* timer, request IDs do not run out of what two per run allow, and once the transport has
\* closed nobody waits but for a close() under way (client.ts:75-113).
THEOREM BookkeepingHolds == Spec => []Bookkeeping
<1>1. IInv => Bookkeeping
  BY DEF IInv
<1> QED BY <1>1, ClientInvariant, PTL

\* No request is rejected for want of a supervisor, and no close() resolves, while the
\* process may still run its jobs: it exited, or was sent SIGKILL (transport.ts:198).
THEOREM RejectedAfterExitHolds == Spec => []RejectedAfterExit
<1>1. IInv => RejectedAfterExit
  BY DEF IInv
<1> QED BY <1>1, ClientInvariant, PTL

\* What becomes of a response that was written for a waiting request of an open client.
LEMMA KeptStep ==
    ASSUME IInv, [Next]_vars, NEW r \in Pending,
           ~closed, idOf[r] \in Written, Bad \notin Written
    PROVE  \/ call'[r] = "answered"
           \/ call'[r] = "pending" /\ idOf'[r] = idOf[r] /\ idOf[r] \in Written'
           \/ DrainTimer
<1> DEFINE Kept == call'[r] = "pending" /\ idOf'[r] = idOf[r] /\ idOf[r] \in Written'
<1>0. TypeOK /\ ExitInv /\ ClosedInv
  BY DEF IInv, Bookkeeping
<1>1. r \in Runs /\ call[r] = "pending" /\ inbound \in Seq(0 .. MaxId)
  BY <1>0 DEF Pending, TypeOK
<1>2. inbound # <<>>
  BY DEF Written
<1>3. ASSUME inbound' = inbound, call'[r] = call[r], idOf'[r] = idOf[r] PROVE Kept
  BY <1>1, <1>3 DEF Written
<1>4. ASSUME NEW e \in 0 .. MaxId, inbound' = Append(inbound, e), UNCHANGED <<call, idOf>>
      PROVE  Kept
  <2>1. PICK k \in 1 .. Len(inbound) : inbound[k] = idOf[r]
    BY DEF Written
  <2>2. k \in 1 .. Len(inbound') /\ inbound'[k] = inbound[k]
    BY <1>1, <1>4
  <2> QED BY <1>1, <1>4, <2>1, <2>2 DEF Written
<1>5. ASSUME NEW i \in Runs, Request(i) PROVE Kept
  <2>1. i # r
    BY <1>1, <1>5 DEF Request
  <2>2. inbound' = inbound /\ call'[r] = call[r] /\ idOf'[r] = idOf[r]
    BY <1>0, <1>1, <1>5, <2>1 DEF Request, TypeOK, procVars
  <2> QED BY <1>3, <2>2
<1>6. ASSUME HandleData PROVE call'[r] = "answered" \/ Kept
  <2>1. ~tClosed
    BY <1>0 DEF ClosedInv
  <2>2. Deliver(Head(inbound)) /\ inbound' = Tail(inbound) /\ UNCHANGED idOf
    BY <1>6, <2>1 DEF HandleData, Written
  <2>3. CASE idOf[r] = Head(inbound)
    BY <1>1, <2>2, <2>3 DEF Deliver
  <2>4. CASE idOf[r] # Head(inbound)
    <3>1. call'[r] = "pending"
      BY <1>1, <2>2, <2>4 DEF Deliver
    <3>2. PICK k \in 1 .. Len(inbound) : inbound[k] = idOf[r]
      BY DEF Written
    <3>3. k # 1
      BY <1>1, <1>2, <2>4, <3>2
    <3>4. k - 1 \in 1 .. Len(inbound') /\ inbound'[k - 1] = inbound[k]
      BY <1>1, <1>2, <2>2, <3>2, <3>3
    <3> QED BY <2>2, <3>1, <3>2, <3>4 DEF Written
  <2> QED BY <2>3, <2>4
<1>7. ~CloseDone
  BY <1>0 DEF CloseDone, ClosedInv
<1>8. ~SpawnFails /\ ~Finish
  BY <1>0, <1>2 DEF SpawnFails, Finish, ExitInv
<1>9. ASSUME Garble \/ \E id \in 1 .. MaxId : Answer(id) PROVE Kept
  <2>1. CASE Garble
    <3>1. Bad \in 0 .. MaxId
      BY RunsFinite DEF Bad
    <3> QED BY <1>4, <2>1, <3>1 DEF Garble, clientVars
  <2>2. ASSUME NEW id \in 1 .. MaxId, Answer(id) PROVE Kept
    <3>1. id \in 0 .. MaxId
      BY RunsFinite
    <3> QED BY <1>4, <2>2, <3>1 DEF Answer, clientVars
  <2> QED BY <1>9, <2>1, <2>2
<1>10. ASSUME \/ \E i \in Runs : Abort(i) \/ GraceExpires(i)
              \/ Close \/ StartupFails \/ StartupRejects \/ TermTimer \/ KillTimer
              \/ StdinFails \/ ExitSeen \/ Read \/ Dies \/ UNCHANGED vars
       PROVE  Kept
  <2>1. inbound' = inbound /\ call' = call /\ idOf' = idOf
    BY <1>10 DEF Abort, GraceExpires, Close, StartupFails, StartupRejects, TermTimer, KillTimer,
       StdinFails, ExitSeen, Read, Dies, vars, clientVars, procVars
  <2> QED BY <1>3, <2>1
<1> HIDE DEF Kept
<1>11. call'[r] = "answered" \/ Kept \/ DrainTimer
  BY <1>5, <1>6, <1>7, <1>8, <1>9, <1>10 DEF Next, Over
<1> QED BY <1>11 DEF Kept

\* The last response is not lost: whatever ends the process or the connection, what was
\* written for a waiting request of an open client settles it or stays to be read, but
\* for output that breaks the protocol and for the drain timer (transport.ts:122-135).
THEOREM LastResponseKeptHolds == Spec => LastResponseKept
<1>1. IInv /\ [Next]_vars =>
        [ \A r \in Pending :
            ~closed /\ idOf[r] \in Written /\ Bad \notin Written =>
                \/ call'[r] = "answered"
                \/ call'[r] = "pending" /\ idOf'[r] = idOf[r] /\ idOf[r] \in Written'
                \/ DrainTimer ]_vars
  BY KeptStep
<1> QED BY <1>1, ClientInvariant, PTL DEF Spec, LastResponseKept

=============================================================================
