---------------------------- MODULE SandboxProofs ----------------------------
(* Proofs about Sandbox, for every value of its constants. *)
EXTENDS Sandbox, SumProofs, TLAPS

-----------------------------------------------------------------------------
(* The inductive invariant.                                                 *)

\* The queue holds exactly the runs that wait, each once.
QueueInv ==
    /\ \A k \in 1 .. Len(queue) : pc[queue[k]] = "queued"
    /\ \A k, m \in 1 .. Len(queue) : queue[k] = queue[m] => k = m
    /\ \A j \in Jobs : pc[j] = "queued" => \E k \in 1 .. Len(queue) : queue[k] = j

\* Connections are numbered in the order they are opened, each by a run that uses it; a
\* run has one from the moment it starts to wait for it.
Used == {g \in Gens : client[g] # "none"}

GenInv ==
    /\ Used = 1 .. Cardinality(Used)
    /\ \A g \in Used : \E j \in Jobs : gen[j] = g
    /\ \A j \in Jobs : gen[j] # None => gen[j] \in Used
    /\ \A j \in Jobs : pc[j] \in {"idle", "queued", "measuring", "staging"} => gen[j] = None
    /\ \A j \in Jobs : pc[j] \in {"starting", "running", "recovering", "collecting"} =>
                           gen[j] # None
    /\ cached # None => cached \in Used

\* A connection that still takes runs, or will, is the one new runs are given.
OneInv == \A g \in Gens : client[g] \in {"starting", "up"} => cached = g

\* A run a supervisor may be executing waits for a supervisor that has not exited.
AliveInv ==
    \A j \in alive : /\ pc[j] \in {"running", "recovering"}
                     /\ client[gen[j]] \in {"up", "retiring", "broken"}

\* A process that has not exited is the cached one, or some run waits for its end.
Live == {g \in Gens : client[g] \in {"starting", "up", "retiring", "broken"}}

GoneInv ==
    \A g \in Live : cached = g \/ \E j \in Jobs : gen[j] = g /\ pc[j] = "recovering"

\* Once close() found the sandbox idle it stays idle, and what is left is closeOn.
CloseInv ==
    /\ closing \in {"closing", "done"} =>
           /\ \A j \in Jobs : pc[j] \in {"idle", "done"}
           /\ \A g \in Live : closeOn = g
    /\ closing = "done" => Live = {}

IInv == Accounting /\ QueueInv /\ GenInv /\ OneInv /\ AliveInv /\ GoneInv /\ CloseInv

-----------------------------------------------------------------------------
(* What starting a run and asking for a connection come to.                 *)

\* j is given the cached connection, or opens the next one.
Opens(j) ==
    \E c \in Gens :
        /\ cached' = c /\ gen' = [gen EXCEPT ![j] = c]
        /\ \/ cached = c /\ client' = client
           \/ /\ cached = None /\ c = 1 + Cardinality(Used) /\ c \notin Used
              /\ client' = [client EXCEPT ![c] = "starting"]

KeepsConn == UNCHANGED <<cached, gen, client>>

\* A run starts: it measures the space for its workspace, or asks for a connection.
First(j) == IF Need[j] = 0 THEN "starting" ELSE "measuring"
Begins(j) == IF Need[j] = 0 THEN Opens(j) ELSE KeepsConn

\* The next number is free: each connection in use has a run, and j has none.
LEMMA NextGen ==
    ASSUME TypeOK, GenInv, NEW j \in Jobs, gen[j] = None
    PROVE  1 + Cardinality(Used) \in Gens /\ 1 + Cardinality(Used) \notin Used
<1>1. /\ IsFiniteSet(Jobs) /\ Cardinality(Jobs) \in Nat
      /\ IsFiniteSet(Jobs \ {j}) /\ Cardinality(Jobs \ {j}) = Cardinality(Jobs) - 1
  BY SandboxAssumption, FS_CardinalityType, FS_RemoveElement
<1>2. Used \subseteq 1 .. Cardinality(Jobs)
  BY DEF Used, Gens
<1>3. IsFiniteSet(Used) /\ Cardinality(Used) \in Nat
  <2>1. IsFiniteSet(1 .. Cardinality(Jobs))
    BY <1>1, FS_Interval
  <2> QED BY <1>2, <2>1, FS_Subset, FS_CardinalityType
<1> DEFINE T == {gen[i] : i \in Jobs \ {j}}
           f == [i \in Jobs \ {j} |-> gen[i]]
<1>5. IsFiniteSet(T) /\ Cardinality(T) <= Cardinality(Jobs \ {j})
  <2>1. f \in Surjection(Jobs \ {j}, T)
    BY DEF Surjection
  <2> HIDE DEF T, f
  <2> QED BY <1>1, <2>1, FS_Surjection
<1>6. Used \subseteq T
  <2>1. SUFFICES ASSUME NEW g \in Used PROVE g \in T
    OBVIOUS
  <2>2. PICK i \in Jobs : gen[i] = g
    BY DEF GenInv
  <2>3. g # None
    BY DEF Used, Gens, None
  <2> QED BY <2>2, <2>3
<1>7. Cardinality(Used) <= Cardinality(T) /\ Cardinality(T) \in Nat
  BY <1>5, <1>6, FS_Subset, FS_CardinalityType
<1>8. 1 + Cardinality(Used) \in 1 .. Cardinality(Jobs)
  BY <1>1, <1>3, <1>5, <1>7
<1> QED BY <1>8, <1>3 DEF GenInv, Gens

LEMMA Connect ==
    ASSUME TypeOK, GenInv, NEW j \in Jobs, gen[j] = None, GetRequester({j})
    PROVE  Opens(j)
<1> DEFINE new == 1 + Cardinality(Used)
           conn == IF cached # None THEN cached ELSE new
<1>1. /\ cached' = conn
      /\ gen' = [i \in Jobs |-> IF i \in {j} THEN conn ELSE gen[i]]
      /\ client' = IF cached = None THEN [client EXCEPT ![new] = "starting"] ELSE client
  BY DEF GetRequester, Used
<1>2. conn \in Gens
  BY NextGen DEF TypeOK
<1>3. gen' = [gen EXCEPT ![j] = conn]
  BY <1>1 DEF TypeOK
<1>4. new \notin Used
  BY NextGen
<1> HIDE DEF new
<1>5. CASE cached # None
  BY <1>1, <1>2, <1>3, <1>5 DEF Opens
<1>6. CASE cached = None
  BY <1>1, <1>2, <1>3, <1>4, <1>6 DEF Opens, new
<1> QED BY <1>5, <1>6

\* A pump that can start at most one run.
LEMMA PumpOne ==
    ASSUME TypeOK, GenInv,
           NEW q \in Seq(Jobs), NEW act \in 0 .. MaxInFlight,
           Len(q) <= 1 \/ act >= MaxInFlight - 1,
           \A k \in 1 .. Len(q) : gen[q[k]] = None,
           NEW to, to = [j \in Jobs |-> to[j]],
           Pump(q, act, to)
    PROVE  \/ /\ q = <<>> \/ act = MaxInFlight
              /\ queue' = q /\ active' = act /\ pc' = to /\ KeepsConn
           \/ /\ Len(q) >= 1 /\ act < MaxInFlight
              /\ queue' = SubSeq(q, 2, Len(q)) /\ active' = act + 1
              /\ pc' = [to EXCEPT ![q[1]] = First(q[1])] /\ Begins(q[1])
<1> DEFINE S == {Len(q), MaxInFlight - act}
           n == Min(S)
           started == {q[k] : k \in 1 .. n}
<1>1. /\ queue' = SubSeq(q, n + 1, Len(q))
      /\ active' = act + n
      /\ pc' = [j \in Jobs |-> IF j \notin started THEN to[j]
                               ELSE IF Need[j] = 0 THEN "starting" ELSE "measuring"]
      /\ GetRequester({j \in started : Need[j] = 0})
  BY DEF Pump
<1>2. MaxInFlight \in Nat /\ Len(q) \in Nat /\ act \in Nat /\ act <= MaxInFlight
  BY SandboxAssumption
<1>3. /\ n <= Len(q) /\ n <= MaxInFlight - act /\ n \in Nat
      /\ n = Len(q) \/ n = MaxInFlight - act
  <2>1. \E x \in S : \A y \in S : x <= y
    BY <1>2
  <2>2. n \in S /\ \A y \in S : n <= y
    BY <2>1 DEF Min
  <2> QED BY <2>2, <1>2
<1>4. n = 0 \/ n = 1
  BY <1>2, <1>3
<1> HIDE DEF n
<1>5. CASE n = 0
  <2>1. started = {} /\ {j \in started : Need[j] = 0} = {}
    BY <1>5
  <2>2. KeepsConn
    <3> HIDE DEF started
    <3> QED BY <1>1, <2>1 DEF GetRequester, KeepsConn
  <2>3. queue' = q /\ active' = act
    BY <1>1, <1>2, <1>5
  <2>4. pc' = to
    BY <1>1, <2>1
  <2>5. q = <<>> \/ act = MaxInFlight
    BY <1>2, <1>3, <1>5
  <2> QED BY <2>2, <2>3, <2>4, <2>5
<1>6. CASE n = 1
  <2>1. started = {q[1]} /\ q[1] \in Jobs /\ Len(q) >= 1 /\ gen[q[1]] = None
    BY <1>2, <1>3, <1>6
  <2>2. act < MaxInFlight
    BY <1>2, <1>3, <1>6
  <2>3. queue' = SubSeq(q, 2, Len(q)) /\ active' = act + 1
    BY <1>1, <1>2, <1>6
  <2> HIDE DEF started
  <2>4. pc' = [to EXCEPT ![q[1]] = First(q[1])]
    BY <1>1, <2>1 DEF First
  <2>5. Begins(q[1])
    <3>1. CASE Need[q[1]] = 0
      <4>1. {j \in started : Need[j] = 0} = {q[1]}
        BY <2>1, <3>1
      <4> QED BY <1>1, <2>1, <3>1, <4>1, Connect DEF Begins
    <3>2. CASE Need[q[1]] # 0
      <4>1. {j \in started : Need[j] = 0} = {}
        BY <2>1, <3>2
      <4> QED BY <1>1, <3>2, <4>1 DEF Begins, KeepsConn, GetRequester
    <3> QED BY <3>1, <3>2
  <2> QED BY <2>1, <2>2, <2>3, <2>4, <2>5
<1> QED BY <1>4, <1>5, <1>6

\* A call of run(): refused, queued behind a full house, or started at once.
LEMMA RunSteps ==
    ASSUME IInv, NEW j \in Jobs, Run(j)
    PROVE  /\ pc[j] = "idle"
           /\ UNCHANGED <<aborted, reserved, workspaces, alive, closing, closeOn>>
           /\ \/ /\ pc' = [pc EXCEPT ![j] = "done"]
                 /\ \E o \in {"refused", "cancelled"} : outcome' = [outcome EXCEPT ![j] = o]
                 /\ UNCHANGED <<queue, active>> /\ KeepsConn
              \/ /\ pc' = [pc EXCEPT ![j] = "queued"]
                 /\ active = MaxInFlight /\ Len(queue) < MaxQueue /\ closing = "no"
                 /\ queue' = Append(queue, j)
                 /\ UNCHANGED <<outcome, active>> /\ KeepsConn
              \/ /\ pc' = [pc EXCEPT ![j] = First(j)] /\ Begins(j)
                 /\ active < MaxInFlight /\ closing = "no"
                 /\ queue = <<>> /\ queue' = queue
                 /\ active' = active + 1 /\ UNCHANGED outcome
<1> DEFINE refusal ==
             IF closing # "no" THEN "refused"
             ELSE IF j \in aborted THEN "cancelled"
             ELSE IF active >= MaxInFlight /\ (~Waits \/ Len(queue) >= MaxQueue) THEN "refused"
             ELSE "none"
           to == [pc EXCEPT ![j] = "queued"]
           q == Append(queue, j)
<1>1. /\ pc[j] = "idle"
      /\ UNCHANGED <<aborted, reserved, workspaces, alive, closing, closeOn>>
      /\ refusal # "none" => /\ pc' = [pc EXCEPT ![j] = "done"]
                             /\ outcome' = [outcome EXCEPT ![j] = refusal]
                             /\ UNCHANGED <<queue, active, cached, gen, client>>
      /\ refusal = "none" => Pump(q, active, to) /\ UNCHANGED outcome
  BY DEF Run, spaceVars, closeVars, queueVars
<1>2. CASE refusal # "none"
  BY <1>1, <1>2 DEF KeepsConn
<1>3. CASE refusal = "none"
  <2>1. /\ TypeOK /\ GenInv /\ QueueInv /\ SlotsInUse
        /\ queue \in Seq(Jobs) /\ active \in 0 .. MaxInFlight /\ MaxInFlight \in Nat
        /\ MaxQueue \in Nat /\ pc \in [Jobs -> {"idle", "queued", "done"} \cup InFlight]
    BY SandboxAssumption DEF IInv, Accounting, TypeOK
  <2>2. /\ closing = "no"
        /\ active = MaxInFlight => Len(queue) < MaxQueue
        /\ active < MaxInFlight => queue = <<>>
    BY <1>3, <2>1 DEF SlotsInUse
  <2>3. q \in Seq(Jobs) /\ Len(q) = Len(queue) + 1
        /\ \A k \in 1 .. Len(q) : q[k] = IF k <= Len(queue) THEN queue[k] ELSE j
    BY <2>1
  <2>4. Len(q) <= 1 \/ active >= MaxInFlight - 1
    BY <2>1, <2>2, <2>3
  <2>5. \A k \in 1 .. Len(q) : gen[q[k]] = None
    BY <2>1, <2>3, <1>1 DEF QueueInv, GenInv
  <2>6. to = [i \in Jobs |-> to[i]]
    BY <2>1
  <2>7. \/ /\ q = <<>> \/ active = MaxInFlight
           /\ queue' = q /\ active' = active /\ pc' = to /\ KeepsConn
        \/ /\ Len(q) >= 1 /\ active < MaxInFlight
           /\ queue' = SubSeq(q, 2, Len(q)) /\ active' = active + 1
           /\ pc' = [to EXCEPT ![q[1]] = First(q[1])] /\ Begins(q[1])
    <3>1. Pump(q, active, to)
      BY <1>1, <1>3
    <3> HIDE DEF q, to
    <3> QED BY <2>1, <2>3, <2>4, <2>5, <2>6, <3>1, PumpOne
  <2>8. CASE active = MaxInFlight
    <3>1. q # <<>>
      BY <2>1, <2>3
    <3> QED BY <1>1, <1>3, <2>1, <2>2, <2>7, <2>8, <3>1
  <2>9. CASE active < MaxInFlight
    <3>1. queue = <<>> /\ q = <<j>> /\ Len(q) = 1 /\ q[1] = j /\ SubSeq(q, 2, Len(q)) = <<>>
      BY <2>1, <2>2, <2>9
    <3>2. /\ queue' = SubSeq(q, 2, Len(q)) /\ active' = active + 1
          /\ pc' = [to EXCEPT ![j] = First(j)] /\ Begins(j)
      <4> HIDE DEF q, to
      <4> QED BY <2>1, <2>7, <2>9, <3>1
    <3>3. [to EXCEPT ![j] = First(j)] = [pc EXCEPT ![j] = First(j)]
      BY <2>1
    <3> QED BY <1>1, <1>3, <2>2, <2>9, <3>1, <3>2, <3>3
  <2> QED BY <2>1, <2>8, <2>9
<1> QED BY <1>2, <1>3

\* The end of a run: its slot is free, or the next run takes it.
LEMMA FinishSteps ==
    ASSUME IInv, NEW j \in Jobs, Finish(j)
    PROVE  /\ pc[j] = "ending" /\ active >= 1
           /\ UNCHANGED <<outcome, aborted, reserved, workspaces, alive>>
           /\ \/ /\ queue = <<>> /\ queue' = queue /\ active' = active - 1
                 /\ pc' = [pc EXCEPT ![j] = "done"] /\ KeepsConn
                 /\ FinishCloseIfIdle(closing, queue', active')
              \/ /\ queue # <<>> /\ queue' = SubSeq(queue, 2, Len(queue))
                 /\ active = MaxInFlight /\ active' = active
                 /\ pc' = [pc EXCEPT ![j] = "done", ![queue[1]] = First(queue[1])]
                 /\ Begins(queue[1]) /\ UNCHANGED <<closing, closeOn>>
<1> DEFINE to == [pc EXCEPT ![j] = "done"]
           act == active - 1
<1>1. /\ pc[j] = "ending"
      /\ UNCHANGED <<outcome, aborted, reserved, workspaces, alive>>
      /\ Pump(queue, act, to)
      /\ FinishCloseIfIdle(closing, queue', active')
  BY DEF Finish, spaceVars
<1>2. /\ TypeOK /\ GenInv /\ QueueInv /\ SlotsInUse
      /\ queue \in Seq(Jobs) /\ active \in 0 .. MaxInFlight /\ MaxInFlight \in Nat \ {0}
      /\ pc \in [Jobs -> {"idle", "queued", "done"} \cup InFlight]
  BY SandboxAssumption DEF IInv, Accounting, TypeOK
<1>3. active >= 1
  <2>1. j \in {i \in Jobs : pc[i] \in InFlight}
    BY <1>1 DEF InFlight
  <2> DEFINE R == {i \in Jobs : pc[i] \in InFlight}
  <2>2. IsFiniteSet(R) /\ active = Cardinality(R)
    BY <1>2, SandboxAssumption, FS_Subset DEF SlotsInUse
  <2> HIDE DEF R
  <2>3. Cardinality(R) # 0
    BY <2>1, <2>2, FS_EmptySet DEF R
  <2> QED BY <2>2, <2>3, <1>2
<1>4. /\ act \in 0 .. MaxInFlight
      /\ Len(queue) <= 1 \/ act >= MaxInFlight - 1
      /\ \A k \in 1 .. Len(queue) : gen[queue[k]] = None
      /\ to = [i \in Jobs |-> to[i]]
  <2>1. act \in 0 .. MaxInFlight
    BY <1>2, <1>3
  <2>2. Len(queue) <= 1 \/ act >= MaxInFlight - 1
    BY <1>2, <1>3 DEF SlotsInUse
  <2>3. \A k \in 1 .. Len(queue) : gen[queue[k]] = None
    BY <1>2 DEF QueueInv, GenInv
  <2>4. to = [i \in Jobs |-> to[i]]
    BY <1>2
  <2> QED BY <2>1, <2>2, <2>3, <2>4
<1>5. \/ /\ queue = <<>> \/ act = MaxInFlight
         /\ queue' = queue /\ active' = act /\ pc' = to /\ KeepsConn
      \/ /\ Len(queue) >= 1 /\ act < MaxInFlight
         /\ queue' = SubSeq(queue, 2, Len(queue)) /\ active' = act + 1
         /\ pc' = [to EXCEPT ![queue[1]] = First(queue[1])] /\ Begins(queue[1])
  <2> HIDE DEF to, act
  <2> QED BY <1>1, <1>2, <1>4, PumpOne
<1>6. CASE queue = <<>>
  <2>1. queue' = queue /\ active' = active - 1 /\ pc' = to /\ KeepsConn
    BY <1>2, <1>5, <1>6
  <2> QED BY <1>1, <1>3, <1>6, <2>1
<1>7. CASE queue # <<>>
  <2>1. active = MaxInFlight
    BY <1>2, <1>7 DEF SlotsInUse
  <2>2. /\ queue' = SubSeq(queue, 2, Len(queue)) /\ active' = active
        /\ pc' = [to EXCEPT ![queue[1]] = First(queue[1])] /\ Begins(queue[1])
    BY <1>2, <1>5, <1>7, <2>1
  <2>3. UNCHANGED <<closing, closeOn>>
    BY <1>1, <1>2, <2>1, <2>2 DEF FinishCloseIfIdle
  <2> QED BY <1>1, <1>3, <1>7, <2>1, <2>2, <2>3
<1> QED BY <1>6, <1>7

\* What removing an element leaves.
LEMMA RemovedAt ==
    ASSUME NEW S, NEW q \in Seq(S), NEW k \in 1 .. Len(q)
    PROVE  /\ RemoveAt(q, k) \in Seq(S) /\ Len(RemoveAt(q, k)) = Len(q) - 1
           /\ \A m \in 1 .. Len(q) - 1 :
                  RemoveAt(q, k)[m] = IF m < k THEN q[m] ELSE q[m + 1]
<1> DEFINE a == SubSeq(q, 1, k - 1)
           b == SubSeq(q, k + 1, Len(q))
<1>1. a \in Seq(S) /\ Len(a) = k - 1 /\ \A m \in 1 .. k - 1 : a[m] = q[m]
  OBVIOUS
<1>2. b \in Seq(S) /\ Len(b) = Len(q) - k /\ \A m \in 1 .. Len(q) - k : b[m] = q[k + m]
  OBVIOUS
<1> HIDE DEF a, b
<1>3. RemoveAt(q, k) = a \o b
  BY DEF RemoveAt, a, b
<1>4. a \o b \in Seq(S) /\ Len(a \o b) = Len(q) - 1
  <2>0. a \in Seq(S) /\ b \in Seq(S)
    BY <1>1, <1>2
  <2>1. a \o b \in Seq(S) /\ Len(a \o b) = Len(a) + Len(b)
    BY <2>0
  <2>2. Len(q) \in Nat
    OBVIOUS
  <2> QED BY <1>1, <1>2, <2>1, <2>2
<1>5. ASSUME NEW m \in 1 .. Len(q) - 1
      PROVE  (a \o b)[m] = IF m < k THEN q[m] ELSE q[m + 1]
  <2>1. (a \o b)[m] = IF m <= Len(a) THEN a[m] ELSE b[m - Len(a)]
    BY <1>1, <1>2
  <2>2. CASE m < k
    BY <1>1, <2>1, <2>2
  <2>3. CASE ~(m < k)
    <3>1. m - (k - 1) \in 1 .. Len(q) - k
      BY <2>3
    <3> QED BY <1>1, <1>2, <2>1, <2>3, <3>1
  <2> QED BY <2>2, <2>3
<1> QED BY <1>3, <1>4, <1>5

\* Abort: a queued run leaves the queue and settles.
LEMMA AbortSteps ==
    ASSUME IInv, NEW j \in Jobs, Abort(j)
    PROVE  /\ pc[j] # "done" /\ aborted' = aborted \cup {j}
           /\ UNCHANGED <<active, reserved, workspaces, alive>> /\ KeepsConn
           /\ \/ /\ pc[j] = "queued" /\ pc' = [pc EXCEPT ![j] = "done"]
                 /\ outcome' = [outcome EXCEPT ![j] = "cancelled"]
                 /\ \E k \in 1 .. Len(queue) : queue[k] = j /\ queue' = RemoveAt(queue, k)
                 /\ FinishCloseIfIdle(closing, queue', active)
              \/ pc[j] # "queued" /\ UNCHANGED <<queue, pc, outcome, closing, closeOn>>
BY DEF Abort, spaceVars, connVars, closeVars, KeepsConn

-----------------------------------------------------------------------------
(* Types.                                                                   *)

\* The types but that of reserved, which is a sum.
TypeRest ==
    /\ pc \in [Jobs -> {"idle", "queued", "done"} \cup InFlight]
    /\ outcome \in [Jobs -> {"none", "result", "error", "cancelled", "refused"}]
    /\ aborted \subseteq Jobs
    /\ queue \in Seq(Jobs) /\ Len(queue) <= MaxQueue
    /\ active \in 0 .. MaxInFlight
    /\ workspaces \subseteq Jobs
    /\ cached \in Gens \cup {None}
    /\ gen \in [Jobs -> Gens \cup {None}]
    /\ client \in [Gens -> {"none", "starting", "failed", "up", "retiring", "broken", "exited"}]
    /\ alive \subseteq Jobs
    /\ closing \in {"no", "asked", "closing", "done"}
    /\ closeOn \in Gens \cup {None}

LEMMA BeginsType ==
    ASSUME TypeOK, NEW j \in Jobs, Begins(j)
    PROVE  /\ cached' \in Gens \cup {None}
           /\ gen' \in [Jobs -> Gens \cup {None}]
           /\ client' \in [Gens -> {"none", "starting", "failed", "up", "retiring", "broken",
                                    "exited"}]
           /\ First(j) \in InFlight
<1>1. First(j) \in InFlight
  BY DEF First, InFlight
<1>2. CASE Need[j] = 0
  <2>1. Opens(j)
    BY <1>2 DEF Begins
  <2> QED BY <1>1, <2>1 DEF Opens, TypeOK
<1>3. CASE Need[j] # 0
  BY <1>1, <1>3 DEF Begins, KeepsConn, TypeOK
<1> QED BY <1>2, <1>3

LEMMA RunType ==
    ASSUME IInv, NEW j \in Jobs, Run(j)
    PROVE  TypeRest'
<1>1. TypeOK /\ MaxInFlight \in Nat /\ MaxQueue \in Nat
  BY SandboxAssumption DEF IInv, Accounting
<1>2. /\ UNCHANGED <<aborted, workspaces, alive, closing, closeOn>>
      /\ \/ /\ pc' = [pc EXCEPT ![j] = "done"]
            /\ \E o \in {"refused", "cancelled"} : outcome' = [outcome EXCEPT ![j] = o]
            /\ UNCHANGED <<queue, active>> /\ KeepsConn
         \/ /\ pc' = [pc EXCEPT ![j] = "queued"]
            /\ Len(queue) < MaxQueue /\ queue' = Append(queue, j)
            /\ UNCHANGED <<outcome, active>> /\ KeepsConn
         \/ /\ pc' = [pc EXCEPT ![j] = First(j)] /\ Begins(j)
            /\ active < MaxInFlight /\ queue' = queue
            /\ active' = active + 1 /\ UNCHANGED outcome
  BY RunSteps
<1>3. CASE /\ pc' = [pc EXCEPT ![j] = "done"]
           /\ \E o \in {"refused", "cancelled"} : outcome' = [outcome EXCEPT ![j] = o]
           /\ UNCHANGED <<queue, active>> /\ KeepsConn
  BY <1>1, <1>2, <1>3 DEF TypeOK, TypeRest, KeepsConn
<1>4. CASE /\ pc' = [pc EXCEPT ![j] = "queued"]
           /\ Len(queue) < MaxQueue /\ queue' = Append(queue, j)
           /\ UNCHANGED <<outcome, active>> /\ KeepsConn
  BY <1>1, <1>2, <1>4 DEF TypeOK, TypeRest, KeepsConn
<1>5. CASE /\ pc' = [pc EXCEPT ![j] = First(j)] /\ Begins(j)
           /\ active < MaxInFlight /\ queue' = queue
           /\ active' = active + 1 /\ UNCHANGED outcome
  BY <1>1, <1>2, <1>5, BeginsType DEF TypeOK, TypeRest
<1> QED BY <1>2, <1>3, <1>4, <1>5

LEMMA FinishType ==
    ASSUME IInv, NEW j \in Jobs, Finish(j)
    PROVE  TypeRest'
<1>1. TypeOK /\ MaxInFlight \in Nat /\ MaxQueue \in Nat
  BY SandboxAssumption DEF IInv, Accounting
<1>2. /\ active >= 1 /\ UNCHANGED <<outcome, aborted, workspaces, alive>>
      /\ \/ /\ queue' = queue /\ active' = active - 1
            /\ pc' = [pc EXCEPT ![j] = "done"] /\ KeepsConn
            /\ FinishCloseIfIdle(closing, queue', active')
         \/ /\ queue # <<>> /\ queue' = SubSeq(queue, 2, Len(queue)) /\ active' = active
            /\ pc' = [pc EXCEPT ![j] = "done", ![queue[1]] = First(queue[1])]
            /\ Begins(queue[1]) /\ UNCHANGED <<closing, closeOn>>
  BY FinishSteps
<1>3. CASE /\ queue' = queue /\ active' = active - 1
           /\ pc' = [pc EXCEPT ![j] = "done"] /\ KeepsConn
           /\ FinishCloseIfIdle(closing, queue', active')
  BY <1>1, <1>2, <1>3 DEF TypeOK, TypeRest, KeepsConn, FinishCloseIfIdle
<1>4. CASE /\ queue # <<>> /\ queue' = SubSeq(queue, 2, Len(queue)) /\ active' = active
           /\ pc' = [pc EXCEPT ![j] = "done", ![queue[1]] = First(queue[1])]
           /\ Begins(queue[1]) /\ UNCHANGED <<closing, closeOn>>
  <2>1. queue[1] \in Jobs /\ queue' \in Seq(Jobs) /\ Len(queue') <= MaxQueue
    BY <1>1, <1>4 DEF TypeOK
  <2> QED BY <1>1, <1>2, <1>4, <2>1, BeginsType DEF TypeOK, TypeRest
<1> QED BY <1>2, <1>3, <1>4

LEMMA AbortType ==
    ASSUME IInv, NEW j \in Jobs, Abort(j)
    PROVE  TypeRest'
<1>1. TypeOK /\ MaxInFlight \in Nat /\ MaxQueue \in Nat
  BY SandboxAssumption DEF IInv, Accounting
<1>2. queue' \in Seq(Jobs) /\ Len(queue') <= MaxQueue
  BY <1>1, AbortSteps, RemovedAt DEF TypeOK
<1>3. pc' \in [Jobs -> {"idle", "queued", "done"} \cup InFlight]
  BY <1>1, AbortSteps DEF TypeOK
<1>4. /\ closing' \in {"no", "asked", "closing", "done"}
      /\ closeOn' \in Gens \cup {None}
  BY <1>1, AbortSteps DEF TypeOK, FinishCloseIfIdle
<1>5. outcome' \in [Jobs -> {"none", "result", "error", "cancelled", "refused"}]
  BY <1>1, AbortSteps DEF TypeOK
<1> QED BY <1>1, <1>2, <1>3, <1>4, <1>5, AbortSteps DEF TypeOK, TypeRest, KeepsConn

LEMMA StagedSteps ==
    ASSUME IInv, NEW j \in Jobs, Staged(j)
    PROVE  /\ pc[j] = "staging" /\ pc' = [pc EXCEPT ![j] = "starting"] /\ Opens(j)
           /\ workspaces' = workspaces \cup {j}
           /\ UNCHANGED <<outcome, aborted, queue, active, reserved, alive, closing, closeOn>>
<1>1. TypeOK /\ GenInv /\ gen[j] = None
  BY DEF IInv, Accounting, GenInv, Staged
<1>2. Opens(j)
  BY <1>1, Connect DEF Staged
<1> QED BY <1>2 DEF Staged, queueVars, closeVars

LEMMA ContinueType ==
    ASSUME IInv, NEW j \in Jobs, Continue(j)
    PROVE  TypeRest'
<1>1. TypeOK
  BY DEF IInv, Accounting
<1> USE DEF TypeOK, TypeRest, InFlight, queueVars, spaceVars, connVars, closeVars, Leave
<1>2. CASE Measured(j)
  BY <1>1, <1>2 DEF Measured
<1>3. CASE Staged(j)
  BY <1>1, <1>3, StagedSteps DEF Opens
<1>4. CASE StageFails(j)
  BY <1>1, <1>4 DEF StageFails
<1>5. CASE AbortedWaiting(j)
  BY <1>1, <1>5 DEF AbortedWaiting
<1>6. CASE NoConnection(j)
  BY <1>1, <1>6 DEF NoConnection
<1>7. CASE Send(j)
  BY <1>1, <1>7 DEF Send, Recover
<1>8. CASE Answer(j)
  BY <1>1, <1>8 DEF Answer, Recover
<1>9. CASE Rejected(j)
  BY <1>1, <1>9 DEF Rejected, Recover
<1>10. CASE Recovered(j)
  BY <1>1, <1>10 DEF Recovered
<1>11. CASE Collected(j)
  BY <1>1, <1>11 DEF Collected
<1>12. CASE Removed(j)
  BY <1>1, <1>12 DEF Removed
<1>13. CASE Finish(j)
  BY <1>13, FinishType
<1> QED
  BY <1>2, <1>3, <1>4, <1>5, <1>6, <1>7, <1>8, <1>9, <1>10, <1>11, <1>12, <1>13 DEF Continue

LEMMA ConnectionType ==
    ASSUME IInv, NEW g \in Gens,
           Connected(g) \/ StartupFails(g) \/ Retire(g) \/ Breaks(g) \/ Exits(g)
    PROVE  TypeRest'
BY DEF IInv, Accounting, TypeOK, TypeRest, Connected, StartupFails, Retire, Breaks, Exits,
       jobVars, queueVars, spaceVars, closeVars

LEMMA CloseType ==
    ASSUME IInv, Close \/ CloseRetires \/ CloseDone \/ UNCHANGED vars
    PROVE  TypeRest'
BY DEF IInv, Accounting, TypeOK, TypeRest, Close, CloseRetires, CloseDone, FinishCloseIfIdle,
       vars, jobVars, queueVars, spaceVars, connVars, closeVars

LEMMA NextType == IInv /\ [Next]_vars => TypeRest'
BY RunType, AbortType, ContinueType, ConnectionType, CloseType DEF Next, Over

-----------------------------------------------------------------------------
(* Slots, space and the queue.                                              *)

\* The places in which a run holds workspace bytes.
Holding == InFlight \ {"measuring", "ending"}

\* A continuation other than the last keeps the run in flight; the bytes it holds are
\* those it reserved.
Inner(j) ==
    \/ Measured(j) \/ Staged(j) \/ StageFails(j)
    \/ AbortedWaiting(j) \/ NoConnection(j) \/ Send(j)
    \/ Answer(j) \/ Rejected(j) \/ Recovered(j) \/ Collected(j)
    \/ Removed(j)

InnerMove(j, x) ==
    /\ pc' = [pc EXCEPT ![j] = x]
    /\ \/ /\ pc[j] = "measuring" /\ x = "staging"
          /\ reserved' = reserved + Need[j] /\ reserved' <= Usable
       \/ pc[j] = "measuring" /\ x = "ending" /\ reserved' = reserved
       \/ pc[j] \in {"staging", "removing"} /\ x = "ending" /\ reserved' = reserved - Need[j]
       \/ pc[j] \in Holding /\ x \in Holding /\ reserved' = reserved

LEMMA InnerSteps ==
    ASSUME IInv, NEW j \in Jobs, Inner(j)
    PROVE  /\ UNCHANGED <<queue, active, closing, closeOn, aborted>>
           /\ \E x \in InFlight : InnerMove(j, x)
<1>1. UNCHANGED <<queue, active, closing, closeOn, aborted>>
  BY DEF Inner, Measured, Staged, StageFails, AbortedWaiting, NoConnection, Send, Answer,
         Rejected, Recovered, Collected, Removed, queueVars, closeVars
<1>0. DOMAIN pc = Jobs
  BY DEF IInv, Accounting, TypeOK
<1> SUFFICES pc'[j] \in InFlight /\ InnerMove(j, pc'[j])
  BY <1>1
<1> USE DEF InnerMove, InFlight, Holding, Leave, spaceVars
<1>2. CASE Measured(j)
  <2>1. ASSUME NEW usable \in 0 .. Usable, reserved + Need[j] <= usable
        PROVE  reserved + Need[j] <= Usable
    <3>1. Need[j] \in Nat /\ Usable \in Nat /\ reserved \in Nat
      BY SandboxAssumption DEF IInv, Accounting, TypeOK
    <3> QED BY <2>1, <3>1
  <2>2. CASE /\ \E usable \in 0 .. Usable : reserved + Need[j] <= usable
             /\ pc' = [pc EXCEPT ![j] = "staging"] /\ reserved' = reserved + Need[j]
    BY <1>0, <1>2, <2>1, <2>2 DEF Measured
  <2>3. CASE pc' = [pc EXCEPT ![j] = "ending"] /\ reserved' = reserved
    BY <1>0, <1>2, <2>3 DEF Measured
  <2> QED BY <1>2, <2>2, <2>3 DEF Measured
<1>3. CASE Staged(j)
  BY <1>0, <1>3 DEF Staged
<1>4. CASE StageFails(j)
  BY <1>0, <1>4 DEF StageFails
<1>5. CASE AbortedWaiting(j)
  BY <1>0, <1>5 DEF AbortedWaiting
<1>6. CASE NoConnection(j)
  BY <1>0, <1>6 DEF NoConnection
<1>7. CASE Send(j)
  BY <1>0, <1>7 DEF Send, Recover
<1>8. CASE Answer(j)
  BY <1>0, <1>8 DEF Answer, Recover
<1>9. CASE Rejected(j)
  BY <1>0, <1>9 DEF Rejected, Recover
<1>10. CASE Recovered(j)
  BY <1>0, <1>10 DEF Recovered
<1>11. CASE Collected(j)
  BY <1>0, <1>11 DEF Collected
<1>12. CASE Removed(j)
  BY <1>0, <1>12 DEF Removed
<1> QED
  BY <1>2, <1>3, <1>4, <1>5, <1>6, <1>7, <1>8, <1>9, <1>10, <1>11, <1>12 DEF Inner

\* The steps that move no run.
Outer ==
    \/ \E g \in Gens : Connected(g) \/ StartupFails(g) \/ Retire(g) \/ Breaks(g) \/ Exits(g)
    \/ Close \/ CloseRetires \/ CloseDone
    \/ UNCHANGED vars

LEMMA OuterSteps ==
    ASSUME Outer
    PROVE  UNCHANGED <<pc, queue, active, reserved, outcome, aborted, gen>>
BY DEF Outer, Connected, StartupFails, Retire, Breaks, Exits, Close, CloseRetires, CloseDone,
       vars, jobVars, queueVars, spaceVars, connVars, closeVars

LEMMA NextCases ==
    ASSUME [Next]_vars
    PROVE  \/ \E j \in Jobs : Run(j) \/ Abort(j) \/ Inner(j) \/ Finish(j)
           \/ Outer
BY DEF Next, Continue, Inner, Outer, Over

\* The runs in flight, and those that hold bytes.
Taken == {j \in Jobs : pc[j] \in InFlight}
Holders == {j \in Jobs : pc[j] \in Holding}

LEMMA SpaceIs == SpaceReserved <=> reserved = SumFunctionOnSet(Need, Holders) /\ reserved <= Usable
BY DEF SpaceReserved, Holders, Holding

LEMMA SlotsAre ==
    SlotsInUse <=> active = Cardinality(Taken) /\ (queue # <<>> => active = MaxInFlight)
BY DEF SlotsInUse, Taken

LEMMA NeedTerms ==
    ASSUME NEW S \in SUBSET Jobs
    PROVE  IsFiniteSet(S) /\ Terms(Need, S) /\ SumFunctionOnSet(Need, S) \in Nat
<1>1. IsFiniteSet(S) /\ \A s \in S : Need[s] \in Nat
  BY SandboxAssumption, FS_Subset
<1> QED BY <1>1, SumNat DEF Terms

LEMMA SpaceKept ==
    ASSUME IInv, Holders' = Holders, reserved' = reserved
    PROVE  SpaceReserved' /\ reserved' \in Nat
<1>1. SpaceReserved /\ reserved \in Nat
  BY DEF IInv, Accounting, TypeOK
<1> QED BY <1>1, SpaceIs DEF SpaceReserved, Holders, Holding

LEMMA SpaceTaken ==
    ASSUME IInv, NEW j \in Jobs, j \notin Holders, Holders' = Holders \cup {j},
           reserved' = reserved + Need[j], reserved' <= Usable
    PROVE  SpaceReserved' /\ reserved' \in Nat
<1>1. reserved = SumFunctionOnSet(Need, Holders)
  BY SpaceIs DEF IInv, Accounting
<1>2. Holders \subseteq Jobs /\ Holders \cup {j} \subseteq Jobs /\ Need[j] \in Nat
  BY SandboxAssumption DEF Holders
<1>3. SumFunctionOnSet(Need, Holders \cup {j}) = Need[j] + SumFunctionOnSet(Need, Holders)
  <2> HIDE DEF Holders
  <2>1. IsFiniteSet(Holders) /\ Terms(Need, Holders \cup {j})
    BY <1>2, NeedTerms
  <2> QED BY <2>1, SumAdd
<1>4. reserved' = SumFunctionOnSet(Need, Holders \cup {j}) /\ reserved' \in Nat
  BY <1>1, <1>2, <1>3, NeedTerms
<1>5. reserved' = SumFunctionOnSet(Need, Holders')
  BY <1>4
<1> QED BY <1>4, <1>5 DEF SpaceReserved, Holders, Holding

LEMMA SpaceGiven ==
    ASSUME IInv, NEW j \in Holders, Holders' = Holders \ {j}, reserved' = reserved - Need[j]
    PROVE  SpaceReserved' /\ reserved' \in Nat
<1>1. reserved = SumFunctionOnSet(Need, Holders) /\ reserved <= Usable /\ Usable \in Nat
  BY SpaceIs, SandboxAssumption DEF IInv, Accounting
<1>2. Holders \subseteq Jobs /\ Holders \ {j} \subseteq Jobs /\ Need[j] \in Nat
  BY SandboxAssumption DEF Holders
<1>3. SumFunctionOnSet(Need, Holders) = Need[j] + SumFunctionOnSet(Need, Holders \ {j})
  <2> HIDE DEF Holders
  <2>1. IsFiniteSet(Holders) /\ Terms(Need, Holders)
    BY <1>2, NeedTerms
  <2> QED BY <2>1, SumRemove
<1>4. SumFunctionOnSet(Need, Holders \ {j}) \in Nat
  <2> HIDE DEF Holders
  <2> QED BY <1>2, NeedTerms
<1>5. /\ reserved' = SumFunctionOnSet(Need, Holders \ {j}) /\ reserved' \in Nat
      /\ reserved' <= Usable
  <2> DEFINE a == SumFunctionOnSet(Need, Holders)
             b == SumFunctionOnSet(Need, Holders \ {j})
  <2>1. reserved = a /\ a = Need[j] + b /\ b \in Nat /\ reserved' = reserved - Need[j]
    BY <1>1, <1>3, <1>4
  <2> HIDE DEF a, b
  <2>2. reserved' = b /\ reserved' \in Nat /\ reserved' <= Usable
    BY <1>1, <1>2, <2>1
  <2> QED BY <2>2 DEF b
<1>6. reserved' = SumFunctionOnSet(Need, Holders')
  BY <1>5
<1> QED BY <1>5, <1>6 DEF SpaceReserved, Holders, Holding

\* A run that starts holds bytes at once when it needs none.
LEMMA SpaceBegins ==
    ASSUME IInv, NEW j \in Jobs, j \notin Holders, reserved' = reserved,
           Holders' = IF Need[j] = 0 THEN Holders \cup {j} ELSE Holders
    PROVE  SpaceReserved' /\ reserved' \in Nat
<1>1. reserved \in Nat /\ reserved <= Usable /\ Usable \in Nat
  BY SpaceIs, SandboxAssumption DEF IInv, Accounting, TypeOK
<1>2. CASE Need[j] = 0
  BY <1>1, <1>2, SpaceTaken
<1>3. CASE Need[j] # 0
  BY <1>3, SpaceKept
<1> QED BY <1>2, <1>3

LEMMA NextSpace ==
    ASSUME IInv, [Next]_vars
    PROVE  SpaceReserved' /\ reserved' \in Nat
<1>1. pc \in [Jobs -> {"idle", "queued", "done"} \cup InFlight] /\ queue \in Seq(Jobs)
  BY DEF IInv, Accounting, TypeOK
<1>2. ASSUME NEW j \in Jobs, Run(j) PROVE SpaceReserved' /\ reserved' \in Nat
  <2>1. pc[j] = "idle" /\ reserved' = reserved /\ j \notin Holders
    BY <1>2, RunSteps DEF Holders, Holding, InFlight
  <2>2. CASE pc' = [pc EXCEPT ![j] = "done"] \/ pc' = [pc EXCEPT ![j] = "queued"]
    <3>1. Holders' = Holders
      BY <1>1, <2>1, <2>2 DEF Holders, Holding, InFlight
    <3> QED BY <2>1, <3>1, SpaceKept
  <2>3. CASE pc' = [pc EXCEPT ![j] = First(j)]
    <3>1. Holders' = IF Need[j] = 0 THEN Holders \cup {j} ELSE Holders
      BY <1>1, <2>1, <2>3 DEF Holders, Holding, InFlight, First
    <3> QED BY <2>1, <3>1, SpaceBegins
  <2> QED BY <1>2, <2>2, <2>3, RunSteps
<1>3. ASSUME NEW j \in Jobs, Abort(j) PROVE SpaceReserved' /\ reserved' \in Nat
  <2>1. Holders' = Holders /\ reserved' = reserved
    BY <1>1, <1>3, AbortSteps DEF Holders, Holding, InFlight
  <2> QED BY <2>1, SpaceKept
<1>4. ASSUME NEW j \in Jobs, Inner(j) PROVE SpaceReserved' /\ reserved' \in Nat
  <2>1. PICK x \in InFlight : InnerMove(j, x)
    BY <1>4, InnerSteps
  <2>2. CASE /\ pc[j] = "measuring" /\ x = "staging"
             /\ reserved' = reserved + Need[j] /\ reserved' <= Usable
    <3>1. j \notin Holders /\ Holders' = Holders \cup {j}
      BY <1>1, <2>1, <2>2 DEF Holders, Holding, InFlight, InnerMove
    <3> QED BY <2>2, <3>1, SpaceTaken
  <2>3. CASE pc[j] = "measuring" /\ x = "ending" /\ reserved' = reserved
    <3>1. Holders' = Holders
      BY <1>1, <2>1, <2>3 DEF Holders, Holding, InFlight, InnerMove
    <3> QED BY <2>3, <3>1, SpaceKept
  <2>4. CASE pc[j] \in {"staging", "removing"} /\ x = "ending" /\ reserved' = reserved - Need[j]
    <3>1. j \in Holders /\ Holders' = Holders \ {j}
      BY <1>1, <2>1, <2>4 DEF Holders, Holding, InFlight, InnerMove
    <3> QED BY <2>4, <3>1, SpaceGiven
  <2>5. CASE pc[j] \in Holding /\ x \in Holding /\ reserved' = reserved
    <3>1. Holders' = Holders
      BY <1>1, <2>1, <2>5 DEF Holders, InnerMove
    <3> QED BY <2>5, <3>1, SpaceKept
  <2> QED BY <2>1, <2>2, <2>3, <2>4, <2>5 DEF InnerMove
<1>5. ASSUME NEW j \in Jobs, Finish(j) PROVE SpaceReserved' /\ reserved' \in Nat
  <2>1. reserved' = reserved
    BY <1>5, FinishSteps
  <2>2. CASE pc[j] = "ending" /\ pc' = [pc EXCEPT ![j] = "done"]
    <3>1. Holders' = Holders
      BY <1>1, <2>2 DEF Holders, Holding, InFlight
    <3> QED BY <2>1, <3>1, SpaceKept
  <2>3. CASE /\ pc[j] = "ending" /\ queue # <<>>
             /\ pc' = [pc EXCEPT ![j] = "done", ![queue[1]] = First(queue[1])]
    <3>1. queue[1] \in Jobs /\ pc[queue[1]] = "queued"
      BY <1>1, <2>3 DEF IInv, QueueInv
    <3>2. queue[1] \notin Holders
      BY <3>1 DEF Holders, Holding, InFlight
    <3>3. Holders' = IF Need[queue[1]] = 0 THEN Holders \cup {queue[1]} ELSE Holders
      BY <1>1, <2>3, <3>1 DEF Holders, Holding, InFlight, First
    <3> QED BY <2>1, <3>1, <3>2, <3>3, SpaceBegins
  <2> QED BY <1>5, <2>2, <2>3, FinishSteps
<1>6. CASE Outer
  <2>1. Holders' = Holders /\ reserved' = reserved
    BY <1>6, OuterSteps DEF Holders
  <2> QED BY <2>1, SpaceKept
<1> QED BY <1>2, <1>3, <1>4, <1>5, <1>6, NextCases

\* Slots are the runs in flight.
LEMMA TakenFinite ==
    /\ IsFiniteSet(Taken) /\ Cardinality(Taken) \in Nat
    /\ \A j \in Jobs : /\ Cardinality(Taken \cup {j})
                            = IF j \in Taken THEN Cardinality(Taken) ELSE Cardinality(Taken) + 1
                       /\ Cardinality(Taken \ {j})
                            = IF j \in Taken THEN Cardinality(Taken) - 1 ELSE Cardinality(Taken)
<1>1. Taken \subseteq Jobs
  BY DEF Taken
<1> HIDE DEF Taken
<1>2. IsFiniteSet(Taken)
  BY <1>1, SandboxAssumption, FS_Subset
<1> QED BY <1>2, FS_CardinalityType, FS_AddElement, FS_RemoveElement

LEMMA NextSlots ==
    ASSUME IInv, [Next]_vars
    PROVE  SlotsInUse'
<1>0. /\ pc \in [Jobs -> {"idle", "queued", "done"} \cup InFlight] /\ queue \in Seq(Jobs)
      /\ active = Cardinality(Taken) /\ (queue # <<>> => active = MaxInFlight)
      /\ active \in 0 .. MaxInFlight /\ MaxInFlight \in Nat \ {0}
  BY SlotsAre, SandboxAssumption DEF IInv, Accounting, TypeOK
<1>1. SUFFICES active' = Cardinality(Taken') /\ (queue' # <<>> => active' = MaxInFlight)
  BY DEF SlotsInUse, Taken
<1>2. ASSUME NEW j \in Jobs, Run(j)
      PROVE  active' = Cardinality(Taken') /\ (queue' # <<>> => active' = MaxInFlight)
  <2>1. CASE pc[j] = "idle" /\ pc' = [pc EXCEPT ![j] = "done"] /\ UNCHANGED <<queue, active>>
    <3>1. Taken' = Taken
      BY <1>0, <2>1 DEF Taken, InFlight
    <3> QED BY <1>0, <2>1, <3>1
  <2>2. CASE /\ pc[j] = "idle" /\ pc' = [pc EXCEPT ![j] = "queued"]
             /\ active = MaxInFlight /\ active' = active
    <3>1. Taken' = Taken
      BY <1>0, <2>2 DEF Taken, InFlight
    <3> QED BY <1>0, <2>2, <3>1
  <2>3. CASE /\ pc[j] = "idle" /\ pc' = [pc EXCEPT ![j] = First(j)]
             /\ queue = <<>> /\ queue' = queue /\ active' = active + 1
    <3>1. Taken' = Taken \cup {j} /\ j \notin Taken
      BY <1>0, <2>3 DEF Taken, InFlight, First
    <3>2. Cardinality(Taken \cup {j}) = Cardinality(Taken) + 1
      BY <3>1, TakenFinite
    <3> QED BY <1>0, <2>3, <3>1, <3>2
  <2> QED BY <1>2, <2>1, <2>2, <2>3, RunSteps
<1>3. ASSUME NEW j \in Jobs, Abort(j)
      PROVE  active' = Cardinality(Taken') /\ (queue' # <<>> => active' = MaxInFlight)
  <2>1. Taken' = Taken /\ active' = active
    BY <1>0, <1>3, AbortSteps DEF Taken, InFlight
  <2>2. queue' # <<>> => queue # <<>>
    <3>1. ASSUME NEW k \in 1 .. Len(queue) PROVE queue # <<>>
      BY <1>0, <3>1
    <3> QED BY <1>3, <3>1, AbortSteps
  <2> QED BY <1>0, <2>1, <2>2
<1>4. ASSUME NEW j \in Jobs, Inner(j)
      PROVE  active' = Cardinality(Taken') /\ (queue' # <<>> => active' = MaxInFlight)
  <2>1. PICK x \in InFlight : InnerMove(j, x)
    BY <1>4, InnerSteps
  <2>2. Taken' = Taken
    BY <1>0, <2>1 DEF Taken, InFlight, Holding, InnerMove
  <2> QED BY <1>0, <1>4, <2>2, InnerSteps
<1>5. ASSUME NEW j \in Jobs, Finish(j)
      PROVE  active' = Cardinality(Taken') /\ (queue' # <<>> => active' = MaxInFlight)
  <2>1. CASE /\ pc[j] = "ending" /\ queue = <<>> /\ queue' = queue /\ active' = active - 1
             /\ pc' = [pc EXCEPT ![j] = "done"]
    <3>1. Taken' = Taken \ {j} /\ j \in Taken
      BY <1>0, <2>1 DEF Taken, InFlight
    <3>2. Cardinality(Taken \ {j}) = Cardinality(Taken) - 1
      BY <3>1, TakenFinite
    <3> QED BY <1>0, <2>1, <3>1, <3>2
  <2>2. CASE /\ pc[j] = "ending" /\ queue # <<>> /\ active = MaxInFlight /\ active' = active
             /\ pc' = [pc EXCEPT ![j] = "done", ![queue[1]] = First(queue[1])]
    <3>1. queue[1] \in Jobs /\ pc[queue[1]] = "queued"
      BY <1>0, <2>2 DEF IInv, QueueInv
    <3>2. /\ Taken' = (Taken \ {j}) \cup {queue[1]} /\ j \in Taken
          /\ queue[1] \notin Taken \ {j}
      BY <1>0, <2>2, <3>1 DEF Taken, InFlight, First
    <3>3. Cardinality(Taken') = Cardinality(Taken)
      <4> DEFINE T == Taken \ {j}
      <4>1. IsFiniteSet(T) /\ Cardinality(T) = Cardinality(Taken) - 1
        BY <3>2, TakenFinite, FS_RemoveElement
      <4> HIDE DEF T
      <4>2. Taken' = T \cup {queue[1]} /\ queue[1] \notin T
        BY <3>2 DEF T
      <4>3. Cardinality(T \cup {queue[1]}) = Cardinality(T) + 1
        BY <4>1, <4>2, FS_AddElement
      <4> QED BY <4>1, <4>2, <4>3, TakenFinite
    <3> QED BY <1>0, <2>2, <3>3
  <2> QED BY <1>5, <2>1, <2>2, FinishSteps
<1>6. CASE Outer
  <2>1. Taken' = Taken /\ active' = active /\ queue' = queue
    BY <1>6, OuterSteps DEF Taken
  <2> QED BY <1>0, <2>1
<1> QED BY <1>2, <1>3, <1>4, <1>5, <1>6, NextCases

\* The queue holds the runs that wait.
LEMMA QueueKept ==
    ASSUME QueueInv, queue' = queue,
           \A j \in Jobs : pc'[j] = "queued" <=> pc[j] = "queued",
           queue \in Seq(Jobs)
    PROVE  QueueInv'
BY DEF QueueInv

\* What taking the first element leaves.
LEMMA RestOf ==
    ASSUME NEW S, NEW q \in Seq(S), Len(q) >= 1
    PROVE  LET r == SubSeq(q, 2, Len(q)) IN
           /\ Len(r) = Len(q) - 1
           /\ \A m \in 1 .. Len(q) - 1 : r[m] = q[m + 1]
<1> DEFINE r == SubSeq(q, 2, Len(q))
<1>1. Len(r) = Len(q) - 1
  <2>1. Len(q) \in Nat
    OBVIOUS
  <2>4. Len(q) = 1 \/ Len(q) >= 2
    <3>1. PICK n \in Nat : n = Len(q)
      BY <2>1
    <3>2. n >= 1
      BY <3>1
    <3>3. n = 1 \/ n >= 2
      BY <3>2
    <3> QED BY <3>1, <3>3
  <2>2. CASE Len(q) = 1
    BY <2>2
  <2>3. CASE Len(q) >= 2
    BY <2>1, <2>3
  <2> HIDE DEF r
  <2> QED BY <2>2, <2>3, <2>4
<1>2. \A m \in 1 .. Len(q) - 1 : r[m] = q[m + 1]
  OBVIOUS
<1> QED BY <1>1, <1>2

LEMMA NextQueue ==
    ASSUME IInv, [Next]_vars
    PROVE  QueueInv'
<1>0. /\ pc \in [Jobs -> {"idle", "queued", "done"} \cup InFlight] /\ queue \in Seq(Jobs)
      /\ QueueInv
  BY DEF IInv, Accounting, TypeOK
<1>1. \A i \in InFlight : i # "queued"
  BY DEF InFlight
<1>2. ASSUME NEW j \in Jobs, Run(j) PROVE QueueInv'
  <2>1. CASE pc[j] = "idle" /\ pc' = [pc EXCEPT ![j] = "done"] /\ UNCHANGED <<queue, active>>
    BY <1>0, <2>1, QueueKept
  <2>2. CASE /\ pc[j] = "idle" /\ pc' = [pc EXCEPT ![j] = "queued"]
             /\ queue' = Append(queue, j)
    <3>1. /\ Len(queue') = Len(queue) + 1 /\ Len(queue) \in Nat
          /\ \A k \in 1 .. Len(queue') : queue'[k] = IF k <= Len(queue) THEN queue[k] ELSE j
          /\ \A k \in 1 .. Len(queue) : queue[k] \in Jobs
      BY <1>0, <2>2
    <3>2. \A k \in 1 .. Len(queue) : queue[k] # j
      BY <1>0, <2>2 DEF QueueInv
    <3>3. \A k \in 1 .. Len(queue') : pc'[queue'[k]] = "queued"
      BY <1>0, <2>2, <3>1 DEF QueueInv
    <3>4. \A k, m \in 1 .. Len(queue') : queue'[k] = queue'[m] => k = m
      BY <1>0, <3>1, <3>2 DEF QueueInv
    <3>5. ASSUME NEW i \in Jobs, pc'[i] = "queued"
          PROVE  \E k \in 1 .. Len(queue') : queue'[k] = i
      <4>1. CASE i = j
        <5>1. Len(queue') \in 1 .. Len(queue') /\ queue'[Len(queue')] = j
          BY <3>1
        <5> QED BY <4>1, <5>1
      <4>2. CASE i # j
        <5>1. PICK k \in 1 .. Len(queue) : queue[k] = i
          BY <1>0, <2>2, <3>5, <4>2 DEF QueueInv
        <5> QED BY <3>1, <5>1
      <4> QED BY <4>1, <4>2
    <3> QED BY <3>3, <3>4, <3>5 DEF QueueInv
  <2>3. CASE pc[j] = "idle" /\ pc' = [pc EXCEPT ![j] = First(j)] /\ queue' = queue
    BY <1>0, <1>1, <2>3, QueueKept DEF First
  <2> QED BY <1>2, <2>1, <2>2, <2>3, RunSteps
<1>3. ASSUME NEW j \in Jobs, Abort(j) PROVE QueueInv'
  <2>1. CASE pc' = pc /\ queue' = queue
    BY <1>0, <2>1, QueueKept
  <2>2. CASE /\ pc' = [pc EXCEPT ![j] = "done"]
             /\ \E k \in 1 .. Len(queue) : queue[k] = j /\ queue' = RemoveAt(queue, k)
    <3>1. PICK n \in 1 .. Len(queue) : queue[n] = j /\ queue' = RemoveAt(queue, n)
      BY <2>2
    <3>2. /\ Len(queue') = Len(queue) - 1 /\ Len(queue) \in Nat
          /\ \A m \in 1 .. Len(queue) - 1 :
                 queue'[m] = IF m < n THEN queue[m] ELSE queue[m + 1]
      <4> HIDE DEF QueueInv
      <4>1. queue \in Seq(Jobs) /\ n \in 1 .. Len(queue) /\ Len(queue) \in Nat
        BY <1>0, <3>1
      <4>2. /\ Len(RemoveAt(queue, n)) = Len(queue) - 1
            /\ \A m \in 1 .. Len(queue) - 1 :
                   RemoveAt(queue, n)[m] = IF m < n THEN queue[m] ELSE queue[m + 1]
        BY <4>1, RemovedAt
      <4> QED BY <3>1, <4>1, <4>2, Zenon
    <3> DEFINE at(m) == IF m < n THEN m ELSE m + 1
    <3>3. \A m \in 1 .. Len(queue') : /\ at(m) \in 1 .. Len(queue) /\ at(m) # n
                                      /\ queue'[m] = queue[at(m)]
      BY <3>1, <3>2
    <3>4. \A k, m \in 1 .. Len(queue') : queue'[k] = queue'[m] => k = m
      <4>1. SUFFICES ASSUME NEW k \in 1 .. Len(queue'), NEW m \in 1 .. Len(queue'),
                            queue'[k] = queue'[m]
                     PROVE  k = m
        OBVIOUS
      <4>2. at(k) = at(m)
        <5>1. /\ at(k) \in 1 .. Len(queue) /\ at(m) \in 1 .. Len(queue)
              /\ queue[at(k)] = queue[at(m)]
          BY <3>3, <4>1
        <5> HIDE DEF at
        <5> QED BY <1>0, <5>1 DEF QueueInv
      <4> QED BY <3>1, <3>2, <4>2
    <3>5. ASSUME NEW m \in 1 .. Len(queue') PROVE pc'[queue'[m]] = "queued"
      <4>1. at(m) \in 1 .. Len(queue) /\ at(m) # n /\ queue'[m] = queue[at(m)]
        BY <3>3
      <4> HIDE DEF at
      <4>2. queue[at(m)] # j /\ pc[queue[at(m)]] = "queued" /\ queue[at(m)] \in Jobs
        BY <1>0, <3>1, <4>1 DEF QueueInv
      <4> QED BY <1>0, <2>2, <4>1, <4>2
    <3>6. ASSUME NEW i \in Jobs, pc'[i] = "queued"
          PROVE  \E m \in 1 .. Len(queue') : queue'[m] = i
      <4>1. i # j /\ pc[i] = "queued"
        BY <1>0, <2>2, <3>6
      <4>2. PICK k \in 1 .. Len(queue) : queue[k] = i
        BY <1>0, <4>1 DEF QueueInv
      <4>3. k # n
        BY <3>1, <4>1, <4>2
      <4>4. CASE k < n
        <5>1. k \in 1 .. Len(queue') /\ queue'[k] = i
          BY <3>1, <3>2, <4>2, <4>4
        <5> QED BY <5>1
      <4>5. CASE k > n
        <5>1. k - 1 \in 1 .. Len(queue') /\ queue'[k - 1] = i
          BY <3>1, <3>2, <4>2, <4>5
        <5> QED BY <5>1
      <4> QED BY <4>3, <4>4, <4>5
    <3> QED BY <3>4, <3>5, <3>6 DEF QueueInv
  <2> QED BY <1>3, <2>1, <2>2, AbortSteps
<1>4. ASSUME NEW j \in Jobs, Inner(j) PROVE QueueInv'
  <2>1. PICK x \in InFlight : InnerMove(j, x)
    BY <1>4, InnerSteps
  <2>2. \A i \in Jobs : pc'[i] = "queued" <=> pc[i] = "queued"
    BY <1>0, <2>1 DEF InFlight, Holding, InnerMove
  <2> QED BY <1>0, <1>4, <2>2, InnerSteps, QueueKept
<1>5. ASSUME NEW j \in Jobs, Finish(j) PROVE QueueInv'
  <2>1. CASE pc[j] = "ending" /\ queue' = queue /\ pc' = [pc EXCEPT ![j] = "done"]
    BY <1>0, <2>1, QueueKept
  <2>2. CASE /\ pc[j] = "ending" /\ queue # <<>> /\ queue' = SubSeq(queue, 2, Len(queue))
             /\ pc' = [pc EXCEPT ![j] = "done", ![queue[1]] = First(queue[1])]
    <3>1. /\ Len(queue) \in Nat /\ Len(queue) >= 1 /\ Len(queue') = Len(queue) - 1
          /\ \A m \in 1 .. Len(queue') : m + 1 \in 1 .. Len(queue) /\ queue'[m] = queue[m + 1]
          /\ 1 \in 1 .. Len(queue) /\ queue[1] \in Jobs
      <4>1. Len(queue) \in Nat /\ Len(queue) >= 1 /\ queue[1] \in Jobs
        BY <1>0, <2>2
      <4> QED BY <1>0, <2>2, <4>1, RestOf
    <3>2. \A k, m \in 1 .. Len(queue') : queue'[k] = queue'[m] => k = m
      <4>1. SUFFICES ASSUME NEW k \in 1 .. Len(queue'), NEW m \in 1 .. Len(queue'),
                            queue'[k] = queue'[m]
                     PROVE  k = m
        OBVIOUS
      <4>2. /\ k \in Nat /\ m \in Nat /\ k + 1 \in 1 .. Len(queue) /\ m + 1 \in 1 .. Len(queue)
            /\ queue[k + 1] = queue[m + 1]
        BY <3>1, <4>1
      <4>3. \A a, b \in 1 .. Len(queue) : queue[a] = queue[b] => a = b
        BY <1>0 DEF QueueInv
      <4>4. k + 1 = m + 1
        BY <4>2, <4>3, Zenon
      <4> QED BY <4>2, <4>4
    <3>3. ASSUME NEW m \in 1 .. Len(queue') PROVE pc'[queue'[m]] = "queued"
      <4>1. m + 1 \in 1 .. Len(queue) /\ queue'[m] = queue[m + 1] /\ m + 1 # 1
        BY <3>1
      <4>2. queue[m + 1] # queue[1] /\ pc[queue[m + 1]] = "queued" /\ queue[m + 1] \in Jobs
        BY <1>0, <3>1, <4>1 DEF QueueInv
      <4> QED BY <1>0, <2>2, <4>1, <4>2
    <3>4. ASSUME NEW i \in Jobs, pc'[i] = "queued"
          PROVE  \E m \in 1 .. Len(queue') : queue'[m] = i
      <4>1. i # queue[1] /\ pc[i] = "queued"
        BY <1>0, <1>1, <2>2, <3>1, <3>4 DEF First
      <4>2. PICK k \in 1 .. Len(queue) : queue[k] = i
        BY <1>0, <4>1 DEF QueueInv
      <4>3. k - 1 \in 1 .. Len(queue') /\ queue'[k - 1] = i
        BY <3>1, <4>1, <4>2
      <4> QED BY <4>3
    <3> QED BY <3>2, <3>3, <3>4 DEF QueueInv
  <2> QED BY <1>5, <2>1, <2>2, FinishSteps
<1>6. CASE Outer
  BY <1>0, <1>6, OuterSteps, QueueKept
<1> QED BY <1>2, <1>3, <1>4, <1>5, <1>6, NextCases

-----------------------------------------------------------------------------
(* Connections.                                                             *)

\* A continuation that leaves the connections as they are.
Quiet(j, x) ==
    /\ pc' = [pc EXCEPT ![j] = x] /\ KeepsConn
    /\ \/ /\ \/ pc[j] \in {"measuring", "staging"} /\ x \in {"staging", "ending"}
             \/ pc[j] \in {"starting", "collecting"} /\ x = "removing"
             \/ pc[j] = "removing" /\ x = "ending"
             \/ pc[j] = "recovering" /\ x = "removing" /\ client[gen[j]] = "exited"
          /\ alive' = alive
       \/ pc[j] = "starting" /\ x = "running" /\ client[gen[j]] = "up" /\ alive' = alive \cup {j}
       \/ pc[j] = "running" /\ x \in {"collecting", "removing"} /\ alive' = alive \ {j}

\* A run gives up its connection.
Recovers(j) ==
    /\ Recover(j) /\ gen' = gen
    /\ \/ /\ pc[j] = "starting" /\ client[gen[j]] \notin {"starting", "failed"}
          /\ alive' = alive
       \/ pc[j] = "running" /\ client[gen[j]] \in {"broken", "exited"} /\ alive' = alive
       \/ pc[j] = "running" /\ client[gen[j]] = "up" /\ alive' = alive \ {j}

LEMMA InnerConn ==
    ASSUME IInv, NEW j \in Jobs, Inner(j)
    PROVE  \/ /\ pc[j] = "staging" /\ pc' = [pc EXCEPT ![j] = "starting"] /\ Opens(j)
              /\ alive' = alive
           \/ \E x \in InFlight : Quiet(j, x)
           \/ Recovers(j)
<1>0. DOMAIN pc = Jobs
  BY DEF IInv, Accounting, TypeOK
<1> SUFFICES ASSUME ~Staged(j)
             PROVE  (pc'[j] \in InFlight /\ Quiet(j, pc'[j])) \/ Recovers(j)
  BY StagedSteps
<1> USE DEF Quiet, InFlight, Leave, KeepsConn, connVars
<1>2. CASE Measured(j)
  BY <1>0, <1>2 DEF Measured
<1>4. CASE StageFails(j)
  BY <1>0, <1>4 DEF StageFails
<1>5. CASE AbortedWaiting(j)
  BY <1>0, <1>5 DEF AbortedWaiting
<1>6. CASE NoConnection(j)
  BY <1>0, <1>6 DEF NoConnection
<1>7. CASE Send(j)
  BY <1>0, <1>7 DEF Send, Recovers
<1>8. CASE Answer(j)
  BY <1>0, <1>8 DEF Answer, Recovers
<1>9. CASE Rejected(j)
  BY <1>0, <1>9 DEF Rejected, Recovers
<1>10. CASE Recovered(j)
  BY <1>0, <1>10 DEF Recovered
<1>11. CASE Collected(j)
  BY <1>0, <1>11 DEF Collected
<1>12. CASE Removed(j)
  BY <1>0, <1>12 DEF Removed
<1> QED BY <1>2, <1>4, <1>5, <1>6, <1>7, <1>8, <1>9, <1>10, <1>11, <1>12 DEF Inner

LEMMA UsedFinite == IsFiniteSet(Used) /\ Cardinality(Used) \in Nat
<1>1. Used \subseteq 1 .. Cardinality(Jobs) /\ IsFiniteSet(1 .. Cardinality(Jobs))
  BY SandboxAssumption, FS_CardinalityType, FS_Interval DEF Used, Gens
<1> QED BY <1>1, FS_Subset, FS_CardinalityType

\* What a new or shared connection does to the numbering.
LEMMA GenOpens ==
    ASSUME IInv, NEW j \in Jobs, gen[j] = None, Opens(j),
           pc'[j] = "starting",
           \A i \in Jobs \ {j} : pc'[i] = pc[i] \/ pc'[i] = "done"
    PROVE  GenInv'
<1>0. TypeOK /\ GenInv
  BY DEF IInv, Accounting
<1>1. PICK c \in Gens :
        /\ cached' = c /\ gen' = [gen EXCEPT ![j] = c]
        /\ \/ cached = c /\ client' = client
           \/ /\ cached = None /\ c = 1 + Cardinality(Used) /\ c \notin Used
              /\ client' = [client EXCEPT ![c] = "starting"]
  BY DEF Opens
<1>2. c # None
  BY DEF Gens, None
<1>3. Used' = Used \cup {c} /\ (c \in Used \/ c = 1 + Cardinality(Used))
  <2>1. CASE cached = c /\ client' = client
    BY <1>0, <1>2, <2>1 DEF Used, GenInv
  <2>2. CASE c = 1 + Cardinality(Used) /\ client' = [client EXCEPT ![c] = "starting"]
    BY <1>0, <2>2 DEF Used, TypeOK
  <2> QED BY <1>1, <2>1, <2>2
<1>4. Used' = 1 .. Cardinality(Used')
  <2>1. Used = 1 .. Cardinality(Used) /\ IsFiniteSet(Used) /\ Cardinality(Used) \in Nat
    BY <1>0, UsedFinite DEF GenInv
  <2> DEFINE U == Used
             n == Cardinality(U)
  <2>2. Cardinality(Used') = IF c \in U THEN n ELSE n + 1
    <3>1. Cardinality(U \cup {c}) = IF c \in U THEN n ELSE n + 1
      <4> HIDE DEF U
      <4> QED BY <2>1, FS_AddElement DEF U
    <3> QED BY <1>3, <3>1
  <2>3. CASE c \in Used
    <3>1. Used' = Used
      BY <1>3, <2>3
    <3> QED BY <2>1, <3>1
  <2>4. CASE c \notin Used
    <3>1. Used' = U \cup {n + 1} /\ Cardinality(Used') = n + 1 /\ U = 1 .. n /\ n \in Nat
      BY <1>3, <2>1, <2>2, <2>4
    <3> HIDE DEF n, U
    <3>2. U \cup {n + 1} = 1 .. n + 1
      BY <3>1
    <3> QED BY <3>1, <3>2
  <2> QED BY <2>3, <2>4
<1>5. \A i \in Jobs : gen'[i] = IF i = j THEN c ELSE gen[i]
  BY <1>0, <1>1 DEF TypeOK
<1>6. \A g \in Used' : \E i \in Jobs : gen'[i] = g
  <2>1. SUFFICES ASSUME NEW g \in Used' PROVE \E i \in Jobs : gen'[i] = g
    OBVIOUS
  <2>2. CASE g = c
    BY <1>5, <2>2
  <2>3. CASE g \in Used
    <3>1. PICK i \in Jobs : gen[i] = g
      BY <1>0, <2>3 DEF GenInv
    <3>2. i # j
      BY <2>3, <3>1 DEF Used, Gens, None
    <3> QED BY <1>5, <3>1, <3>2
  <2> QED BY <1>3, <2>2, <2>3
<1>7. \A i \in Jobs : gen'[i] # None => gen'[i] \in Used'
  BY <1>0, <1>3, <1>5 DEF GenInv
<1>8. cached' # None => cached' \in Used'
  BY <1>1, <1>3
<1>9. /\ \A i \in Jobs : pc'[i] \in {"idle", "queued", "measuring", "staging"} => gen'[i] = None
      /\ \A i \in Jobs : pc'[i] \in {"starting", "running", "recovering", "collecting"} =>
                             gen'[i] # None
  BY <1>0, <1>2, <1>5 DEF GenInv
<1> QED BY <1>4, <1>6, <1>7, <1>8, <1>9 DEF GenInv

LEMMA GenKept ==
    ASSUME GenInv, gen' = gen, Used' = Used, cached' \in {cached, None},
           \A i \in Jobs : pc'[i] \in {"idle", "queued", "measuring", "staging"} => gen[i] = None,
           \A i \in Jobs : pc'[i] \in {"starting", "running", "recovering", "collecting"} =>
                               gen[i] # None
    PROVE  GenInv'
<1>1. Used' = 1 .. Cardinality(Used')
  BY DEF GenInv
<1> QED BY <1>1 DEF GenInv

\* A run that starts.
LEMMA GenBegins ==
    ASSUME IInv, NEW j \in Jobs, gen[j] = None, Begins(j), pc'[j] = First(j),
           \A i \in Jobs \ {j} : pc'[i] = pc[i] \/ pc'[i] = "done"
    PROVE  GenInv'
<1>1. CASE Need[j] = 0
  BY <1>1, GenOpens DEF Begins, First
<1>2. CASE Need[j] # 0
  <2>1. gen' = gen /\ Used' = Used /\ cached' = cached /\ pc'[j] = "measuring" /\ GenInv
    BY <1>2 DEF Begins, KeepsConn, Used, First, IInv
  <2> QED BY <2>1, GenKept DEF GenInv
<1> QED BY <1>1, <1>2

LEMMA NextGens ==
    ASSUME IInv, [Next]_vars
    PROVE  GenInv'
<1>0. TypeOK /\ GenInv /\ QueueInv /\ DOMAIN pc = Jobs /\ queue \in Seq(Jobs)
  BY DEF IInv, Accounting, TypeOK
<1>1. ASSUME NEW j \in Jobs, Run(j) PROVE GenInv'
  <2>1. pc[j] = "idle" /\ gen[j] = None
    BY <1>0, <1>1, RunSteps DEF GenInv
  <2>2. CASE (pc' = [pc EXCEPT ![j] = "done"] \/ pc' = [pc EXCEPT ![j] = "queued"]) /\ KeepsConn
    <3>1. Used' = Used
      BY <2>2 DEF KeepsConn, Used
    <3> QED BY <1>0, <2>1, <2>2, <3>1, GenKept DEF KeepsConn, GenInv
  <2>3. CASE pc' = [pc EXCEPT ![j] = First(j)] /\ Begins(j)
    BY <1>0, <2>1, <2>3, GenBegins
  <2> QED BY <1>1, <2>2, <2>3, RunSteps
<1>2. ASSUME NEW j \in Jobs, Abort(j) PROVE GenInv'
  <2>1. KeepsConn /\ (pc' = pc \/ pc' = [pc EXCEPT ![j] = "done"])
    BY <1>2, AbortSteps
  <2>2. Used' = Used
    BY <2>1 DEF KeepsConn, Used
  <2> QED BY <1>0, <2>1, <2>2, GenKept DEF KeepsConn, GenInv
<1>3. ASSUME NEW j \in Jobs, Inner(j) PROVE GenInv'
  <2>1. CASE pc[j] = "staging" /\ pc' = [pc EXCEPT ![j] = "starting"] /\ Opens(j)
    BY <1>0, <2>1, GenOpens DEF GenInv
  <2>2. ASSUME NEW x \in InFlight, Quiet(j, x) PROVE GenInv'
    <3>1. Used' = Used
      BY <2>2 DEF KeepsConn, Used, Quiet
    <3> QED BY <1>0, <2>2, <3>1, GenKept DEF KeepsConn, GenInv, Quiet
  <2>3. CASE Recovers(j)
    <3>1. Used' = Used
      BY <1>0, <2>3 DEF TypeOK, Used, Recovers, Recover
    <3> QED BY <1>0, <2>3, <3>1, GenKept DEF GenInv, Recovers, Recover
  <2> QED BY <1>3, <2>1, <2>2, <2>3, InnerConn
<1>4. ASSUME NEW j \in Jobs, Finish(j) PROVE GenInv'
  <2>1. CASE pc' = [pc EXCEPT ![j] = "done"] /\ KeepsConn
    <3>1. Used' = Used
      BY <2>1 DEF KeepsConn, Used
    <3> QED BY <1>0, <2>1, <3>1, GenKept DEF KeepsConn, GenInv
  <2>2. CASE /\ pc[j] = "ending" /\ queue # <<>>
             /\ pc' = [pc EXCEPT ![j] = "done", ![queue[1]] = First(queue[1])]
             /\ Begins(queue[1])
    <3>1. queue[1] \in Jobs /\ pc[queue[1]] = "queued" /\ gen[queue[1]] = None
      BY <1>0, <2>2 DEF QueueInv, GenInv
    <3>2. /\ pc'[queue[1]] = First(queue[1])
          /\ \A i \in Jobs \ {queue[1]} : pc'[i] = pc[i] \/ pc'[i] = "done"
      BY <1>0, <2>2, <3>1
    <3> QED BY <2>2, <3>1, <3>2, GenBegins
  <2> QED BY <1>4, <2>1, <2>2, FinishSteps
<1>5. CASE Outer
  <2>1. pc' = pc /\ gen' = gen
    BY <1>5, OuterSteps
  <2>2. Used' = Used /\ cached' \in {cached, None}
    BY <1>0, <1>5 DEF TypeOK, Used, Outer, Connected, StartupFails, Retire, Breaks, Exits,
       Close, CloseRetires, CloseDone, connVars, vars
  <2> QED BY <1>0, <2>1, <2>2, GenKept DEF GenInv
<1> QED BY <1>1, <1>2, <1>3, <1>4, <1>5, NextCases

\* The connections change in one of these ways, whatever else a step does.
LEMMA OuterConn ==
    ASSUME IInv, Outer
    PROVE  /\ pc' = pc /\ gen' = gen
           /\ \/ cached' = cached /\ client' = client /\ alive' = alive
              \/ \E g \in Gens :
                     \/ /\ client[g] = "starting" /\ client' = [client EXCEPT ![g] = "up"]
                        /\ cached' = cached /\ alive' = alive
                     \/ /\ client[g] = "starting" /\ client' = [client EXCEPT ![g] = "failed"]
                        /\ cached' = (IF cached = g THEN None ELSE cached) /\ alive' = alive
                     \/ /\ client[g] = "up" /\ cached' = cached /\ alive' = alive
                        /\ \E s \in {"retiring", "broken"} : client' = [client EXCEPT ![g] = s]
                     \/ /\ client[g] \in {"up", "retiring", "broken"} /\ cached' = cached
                        /\ client' = [client EXCEPT ![g] = "exited"]
                        /\ alive' = {j \in alive : gen[j] # g}
<1>1. pc' = pc /\ gen' = gen
  BY OuterSteps
<1>2. ASSUME NEW g \in Gens, Connected(g) \/ StartupFails(g) \/ Retire(g) \/ Breaks(g) \/ Exits(g)
      PROVE  \/ /\ client[g] = "starting" /\ client' = [client EXCEPT ![g] = "up"]
                /\ cached' = cached /\ alive' = alive
             \/ /\ client[g] = "starting" /\ client' = [client EXCEPT ![g] = "failed"]
                /\ cached' = (IF cached = g THEN None ELSE cached) /\ alive' = alive
             \/ /\ client[g] = "up" /\ cached' = cached /\ alive' = alive
                /\ \E s \in {"retiring", "broken"} : client' = [client EXCEPT ![g] = s]
             \/ /\ client[g] \in {"up", "retiring", "broken"} /\ cached' = cached
                /\ client' = [client EXCEPT ![g] = "exited"]
                /\ alive' = {j \in alive : gen[j] # g}
  BY <1>2 DEF Connected, StartupFails, Retire, Breaks, Exits
<1>3. CASE CloseRetires
  <2>1. /\ closeOn \in Gens /\ client[closeOn] = "up"
        /\ client' = [client EXCEPT ![closeOn] = "retiring"]
        /\ cached' = cached /\ alive' = alive
    BY <1>3 DEF CloseRetires
  <2> QED BY <1>1, <2>1
<1>4. CASE Close \/ CloseDone \/ UNCHANGED vars
  BY <1>1, <1>4 DEF Close, CloseDone, connVars, vars
<1> QED BY <1>1, <1>2, <1>3, <1>4 DEF Outer

LEMMA OneKept ==
    ASSUME OneInv, KeepsConn
    PROVE  OneInv'
BY DEF OneInv, KeepsConn

LEMMA OneOpens ==
    ASSUME TypeOK, OneInv, NEW j \in Jobs, Opens(j)
    PROVE  OneInv'
<1>1. PICK c \in Gens :
        /\ cached' = c
        /\ \/ cached = c /\ client' = client
           \/ cached = None /\ client' = [client EXCEPT ![c] = "starting"]
  BY DEF Opens
<1>2. CASE cached = c /\ client' = client
  BY <1>1, <1>2 DEF OneInv
<1>3. CASE cached = None /\ client' = [client EXCEPT ![c] = "starting"]
  <2>1. \A g \in Gens : g # None
    BY DEF Gens, None
  <2> QED BY <1>1, <1>3, <2>1 DEF OneInv, TypeOK
<1> QED BY <1>1, <1>2, <1>3

LEMMA NextOne ==
    ASSUME IInv, [Next]_vars
    PROVE  OneInv'
<1>0. TypeOK /\ OneInv
  BY DEF IInv, Accounting
<1>1. ASSUME NEW j \in Jobs, Run(j) PROVE OneInv'
  BY <1>0, <1>1, RunSteps, OneKept, OneOpens DEF Begins
<1>2. ASSUME NEW j \in Jobs, Abort(j) PROVE OneInv'
  BY <1>0, <1>2, AbortSteps, OneKept
<1>3. ASSUME NEW j \in Jobs, Inner(j) PROVE OneInv'
  <2>1. ASSUME NEW x \in InFlight, Quiet(j, x) PROVE OneInv'
    BY <1>0, <2>1, OneKept DEF Quiet
  <2>2. CASE Recovers(j)
    <3>1. client[gen[j]] # "starting"
      BY <2>2 DEF Recovers
    <3> QED BY <1>0, <2>2, <3>1 DEF Recovers, Recover, OneInv, TypeOK
  <2> QED BY <1>0, <1>3, <2>1, <2>2, InnerConn, OneOpens
<1>4. ASSUME NEW j \in Jobs, Finish(j) PROVE OneInv'
  <2>1. KeepsConn \/ (queue # <<>> /\ Begins(queue[1]))
    BY <1>4, FinishSteps
  <2>2. queue # <<>> => queue[1] \in Jobs
    BY <1>0 DEF TypeOK
  <2> QED BY <1>0, <2>1, <2>2, OneKept, OneOpens DEF Begins
<1>5. CASE Outer
  BY <1>0, <1>5, OuterConn DEF OneInv, TypeOK
<1> QED BY <1>1, <1>2, <1>3, <1>4, <1>5, NextCases

\* Who may be writing a workspace.
LEMMA AliveKept ==
    ASSUME AliveInv, alive' = alive, TypeOK,
           \A i \in alive : /\ pc'[i] \in {"running", "recovering"} /\ gen'[i] = gen[i]
                            /\ client'[gen[i]] \in {"up", "retiring", "broken"}
    PROVE  AliveInv'
BY DEF AliveInv

LEMMA AliveGens ==
    ASSUME TypeOK, AliveInv, GenInv
    PROVE  \A i \in alive : i \in Jobs /\ gen[i] \in Gens
BY DEF TypeOK, AliveInv, GenInv, Used

\* Moving a run no supervisor executes, or giving it a connection, changes nothing.
LEMMA AliveBegins ==
    ASSUME TypeOK, AliveInv, GenInv, NEW j \in Jobs, Begins(j), alive' = alive,
           \A i \in alive : pc'[i] = pc[i] /\ i # j
    PROVE  AliveInv'
<1>1. CASE KeepsConn
  BY <1>1, AliveKept DEF AliveInv, KeepsConn
<1>2. CASE Opens(j)
  <2>1. PICK c \in Gens :
          /\ gen' = [gen EXCEPT ![j] = c]
          /\ \/ client' = client
             \/ client[c] = "none" /\ client' = [client EXCEPT ![c] = "starting"]
    BY <1>2 DEF Opens, Used
  <2>2. \A i \in alive : i \in Jobs /\ gen'[i] = gen[i] /\ client'[gen[i]] = client[gen[i]]
    BY <2>1, AliveGens DEF AliveInv, TypeOK
  <2> QED BY <2>2, AliveKept DEF AliveInv
<1> QED BY <1>1, <1>2 DEF Begins

LEMMA NextAlive ==
    ASSUME IInv, [Next]_vars
    PROVE  AliveInv'
<1>0. TypeOK /\ AliveInv /\ GenInv /\ QueueInv /\ DOMAIN pc = Jobs /\ alive \subseteq Jobs
  BY DEF IInv, Accounting, TypeOK
<1>1. ASSUME NEW j \in Jobs, Run(j) PROVE AliveInv'
  <2>1. pc[j] = "idle" /\ alive' = alive /\ j \notin alive
    BY <1>0, <1>1, RunSteps DEF AliveInv
  <2>2. \A i \in alive : pc'[i] = pc[i] /\ i # j
    BY <1>0, <1>1, <2>1, RunSteps
  <2>3. CASE KeepsConn
    BY <1>0, <2>1, <2>2, <2>3, AliveKept DEF AliveInv, KeepsConn
  <2>4. CASE Begins(j)
    BY <1>0, <2>1, <2>2, <2>4, AliveBegins
  <2> QED BY <1>1, <2>3, <2>4, RunSteps
<1>2. ASSUME NEW j \in Jobs, Abort(j) PROVE AliveInv'
  <2>1. alive' = alive /\ KeepsConn /\ \A i \in alive : pc'[i] = pc[i]
    BY <1>0, <1>2, AbortSteps DEF AliveInv
  <2> QED BY <1>0, <2>1, AliveKept DEF AliveInv, KeepsConn
<1>3. ASSUME NEW j \in Jobs, Inner(j) PROVE AliveInv'
  <2>1. CASE pc[j] = "staging" /\ pc' = [pc EXCEPT ![j] = "starting"] /\ Opens(j) /\ alive' = alive
    <3>1. j \notin alive
      BY <2>1 DEF IInv, AliveInv
    <3>2. PICK c \in Gens :
            /\ gen' = [gen EXCEPT ![j] = c]
            /\ \/ client' = client
               \/ client[c] = "none" /\ client' = [client EXCEPT ![c] = "starting"]
      BY <2>1 DEF Opens, Used
    <3>3. \A i \in alive : /\ i \in Jobs /\ pc'[i] = pc[i] /\ gen'[i] = gen[i]
                           /\ client'[gen[i]] = client[gen[i]]
      BY <1>0, <2>1, <3>1, <3>2, AliveGens DEF AliveInv, TypeOK
    <3> QED BY <1>0, <2>1, <3>3, AliveKept DEF AliveInv
  <2>2. ASSUME NEW x \in InFlight, Quiet(j, x) PROVE AliveInv'
    <3>1. KeepsConn /\ pc' = [pc EXCEPT ![j] = x]
      BY <2>2 DEF Quiet
    <3>2. CASE alive' = alive /\ j \notin alive
      BY <1>0, <3>1, <3>2 DEF AliveInv, KeepsConn
    <3>3. CASE alive' = alive \cup {j} /\ x = "running" /\ client[gen[j]] = "up"
      BY <1>0, <3>1, <3>3 DEF AliveInv, KeepsConn
    <3>4. CASE alive' = alive \ {j}
      BY <1>0, <3>1, <3>4 DEF AliveInv, KeepsConn
    <3> QED BY <1>0, <2>2, <3>2, <3>3, <3>4 DEF Quiet, AliveInv
  <2>3. CASE Recovers(j)
    <3>1. /\ gen' = gen /\ pc' = [pc EXCEPT ![j] = "recovering"]
          /\ \A g \in Gens : client[g] \in {"up", "retiring", "broken"} =>
                                 client'[g] \in {"up", "retiring", "broken"}
          /\ alive' \subseteq alive
      BY <1>0, <2>3 DEF Recovers, Recover, TypeOK
    <3> QED BY <1>0, <3>1, AliveGens DEF AliveInv
  <2> QED BY <1>3, <2>1, <2>2, <2>3, InnerConn
<1>4. ASSUME NEW j \in Jobs, Finish(j) PROVE AliveInv'
  <2>1. pc[j] = "ending" /\ alive' = alive /\ j \notin alive
    BY <1>0, <1>4, FinishSteps DEF AliveInv
  <2>2. CASE pc' = [pc EXCEPT ![j] = "done"] /\ KeepsConn
    <3>1. \A i \in alive : pc'[i] = pc[i]
      BY <1>0, <2>1, <2>2
    <3> QED BY <1>0, <2>1, <2>2, <3>1, AliveKept DEF AliveInv, KeepsConn
  <2>3. CASE /\ queue # <<>>
             /\ pc' = [pc EXCEPT ![j] = "done", ![queue[1]] = First(queue[1])]
             /\ Begins(queue[1])
    <3>1. queue[1] \in Jobs /\ pc[queue[1]] = "queued"
      BY <1>0, <2>3 DEF QueueInv, TypeOK
    <3>2. \A i \in alive : pc'[i] = pc[i] /\ i # queue[1]
      BY <1>0, <2>1, <2>3, <3>1 DEF AliveInv
    <3> QED BY <1>0, <2>1, <2>3, <3>1, <3>2, AliveBegins
  <2> QED BY <1>4, <2>2, <2>3, FinishSteps
<1>5. CASE Outer
  <2> QED BY <1>0, <1>5, AliveGens, OuterConn DEF AliveInv, TypeOK
<1> QED BY <1>1, <1>2, <1>3, <1>4, <1>5, NextCases

\* Every process that has not exited is the cached one or awaited.
LEMMA GoneKept ==
    ASSUME GoneInv, KeepsConn,
           \A i \in Jobs : pc[i] = "recovering" => pc'[i] = "recovering"
    PROVE  GoneInv'
BY DEF GoneInv, Live, KeepsConn

LEMMA GoneOpens ==
    ASSUME TypeOK, GoneInv, NEW j \in Jobs, Opens(j), pc[j] # "recovering",
           \A i \in Jobs : pc[i] = "recovering" => pc'[i] = "recovering"
    PROVE  GoneInv'
<1>1. PICK c \in Gens :
        /\ cached' = c /\ gen' = [gen EXCEPT ![j] = c]
        /\ \/ cached = c /\ client' = client
           \/ cached = None /\ client' = [client EXCEPT ![c] = "starting"]
  BY DEF Opens
<1>2. SUFFICES ASSUME NEW g \in Live', cached' # g
               PROVE  \E i \in Jobs : gen'[i] = g /\ pc'[i] = "recovering"
  BY DEF GoneInv
<1>3. g \in Live /\ cached # g /\ g # c
  <2>1. g \in Gens /\ g # c /\ g # None
    BY <1>1, <1>2 DEF Live, Gens, None
  <2> QED BY <1>1, <1>2, <2>1 DEF Live, TypeOK
<1>4. PICK i \in Jobs : gen[i] = g /\ pc[i] = "recovering"
  BY <1>3 DEF GoneInv
<1>5. gen'[i] = g /\ pc'[i] = "recovering"
  BY <1>1, <1>4 DEF TypeOK
<1> QED BY <1>5

LEMMA GoneBegins ==
    ASSUME TypeOK, GoneInv, NEW j \in Jobs, Begins(j), pc[j] # "recovering",
           \A i \in Jobs : pc[i] = "recovering" => pc'[i] = "recovering"
    PROVE  GoneInv'
BY GoneKept, GoneOpens DEF Begins

LEMMA NextGone ==
    ASSUME IInv, [Next]_vars
    PROVE  GoneInv'
<1>0. TypeOK /\ GoneInv /\ GenInv /\ QueueInv /\ OneInv /\ DOMAIN pc = Jobs
  BY DEF IInv, Accounting, TypeOK
<1>1. ASSUME NEW j \in Jobs, Run(j) PROVE GoneInv'
  <2>1. pc[j] = "idle" /\ \A i \in Jobs : pc[i] = "recovering" => pc'[i] = "recovering"
    BY <1>0, <1>1, RunSteps
  <2> QED BY <1>0, <1>1, <2>1, RunSteps, GoneKept, GoneBegins
<1>2. ASSUME NEW j \in Jobs, Abort(j) PROVE GoneInv'
  <2>1. KeepsConn /\ \A i \in Jobs : pc[i] = "recovering" => pc'[i] = "recovering"
    BY <1>0, <1>2, AbortSteps
  <2> QED BY <1>0, <2>1, GoneKept
<1>3. ASSUME NEW j \in Jobs, Inner(j) PROVE GoneInv'
  <2>1. CASE pc[j] = "staging" /\ pc' = [pc EXCEPT ![j] = "starting"] /\ Opens(j)
    <3>1. \A i \in Jobs : pc[i] = "recovering" => pc'[i] = "recovering"
      BY <1>0, <2>1
    <3> QED BY <1>0, <2>1, <3>1, GoneOpens
  <2>2. ASSUME NEW x \in InFlight, Quiet(j, x) PROVE GoneInv'
    <3>1. pc' = [pc EXCEPT ![j] = x] /\ KeepsConn
      BY <2>2 DEF Quiet
    <3>2. CASE pc[j] # "recovering"
      <4>1. \A i \in Jobs : pc[i] = "recovering" => pc'[i] = "recovering"
        BY <1>0, <3>1, <3>2
      <4> QED BY <1>0, <3>1, <4>1, GoneKept
    <3>3. CASE pc[j] = "recovering"
      <4>1. client[gen[j]] = "exited" /\ gen[j] \in Gens
        BY <1>0, <2>2, <3>3 DEF Quiet, GenInv, Used
      <4>2. gen[j] \notin Live
        BY <4>1 DEF Live
      <4>3. \A i \in Jobs \ {j} : pc'[i] = pc[i]
        BY <1>0, <3>1
      <4> QED BY <1>0, <3>1, <4>2, <4>3 DEF GoneInv, Live, KeepsConn
    <3> QED BY <3>2, <3>3
  <2>3. CASE Recovers(j)
    <3>1. /\ gen' = gen /\ pc' = [pc EXCEPT ![j] = "recovering"]
          /\ cached' = IF cached = gen[j] THEN None ELSE cached
          /\ Live' = Live
      <4>1. client[gen[j]] # "starting" /\ gen[j] \in Gens
        BY <1>0, <2>3 DEF Recovers, GenInv, Used
      <4> QED BY <1>0, <2>3, <4>1 DEF Recovers, Recover, Live, TypeOK
    <3>2. pc'[j] = "recovering" /\ \A i \in Jobs : pc[i] = "recovering" => pc'[i] = "recovering"
      BY <1>0, <3>1
    <3> QED BY <1>0, <3>1, <3>2 DEF GoneInv
  <2> QED BY <1>3, <2>1, <2>2, <2>3, InnerConn
<1>4. ASSUME NEW j \in Jobs, Finish(j) PROVE GoneInv'
  <2>1. CASE pc[j] = "ending" /\ pc' = [pc EXCEPT ![j] = "done"] /\ KeepsConn
    <3>1. \A i \in Jobs : pc[i] = "recovering" => pc'[i] = "recovering"
      BY <1>0, <2>1
    <3> QED BY <1>0, <2>1, <3>1, GoneKept
  <2>2. CASE /\ pc[j] = "ending" /\ queue # <<>>
             /\ pc' = [pc EXCEPT ![j] = "done", ![queue[1]] = First(queue[1])]
             /\ Begins(queue[1])
    <3>1. queue[1] \in Jobs /\ pc[queue[1]] = "queued"
      BY <1>0, <2>2 DEF QueueInv, TypeOK
    <3>2. \A i \in Jobs : pc[i] = "recovering" => pc'[i] = "recovering"
      BY <1>0, <2>2, <3>1
    <3> QED BY <1>0, <2>2, <3>1, <3>2, GoneBegins
  <2> QED BY <1>4, <2>1, <2>2, FinishSteps
<1>5. CASE Outer
  <2>1. pc' = pc /\ gen' = gen /\ Live' \subseteq Live
    BY <1>0, <1>5, OuterConn DEF Live, TypeOK
  <2>2. \A g \in Live' : cached = g => cached' = g
    BY <1>0, <1>5, OuterConn DEF Live, TypeOK
  <2> QED BY <1>0, <2>1, <2>2 DEF GoneInv
<1> QED BY <1>1, <1>2, <1>3, <1>4, <1>5, NextCases

-----------------------------------------------------------------------------
(* close().                                                                 *)

\* Nobody is in flight and nobody waits: every run is idle or done.
LEMMA Deserted ==
    ASSUME TypeOK, SlotsInUse, QueueInv, active = 0, queue = <<>>
    PROVE  \A j \in Jobs : pc[j] \in {"idle", "done"}
<1>1. Taken = {}
  <2>1. IsFiniteSet(Taken) /\ Cardinality(Taken) = 0
    BY SlotsAre, TakenFinite
  <2> HIDE DEF Taken
  <2> QED BY <2>1, FS_EmptySet
<1>2. ASSUME NEW j \in Jobs PROVE pc[j] \in {"idle", "done"}
  <2>1. pc[j] # "queued"
    BY DEF QueueInv
  <2> QED BY <1>1, <2>1 DEF Taken, TypeOK
<1> QED BY <1>2

\* When close() goes on, every process that has not exited is the cached one, and that
\* is the one it closes.
LEMMA CloseStarts ==
    ASSUME IInv, TypeRest', SlotsInUse', QueueInv', GoneInv', KeepsConn,
           NEW phase \in {"no", "asked"}, FinishCloseIfIdle(phase, queue', active')
    PROVE  CloseInv'
<1>1. CASE phase = "asked" /\ active' = 0 /\ queue' = <<>>
  <2>1. closing' = "closing" /\ closeOn' = cached /\ cached' = cached
    BY <1>1 DEF FinishCloseIfIdle, KeepsConn
  <2>2. \A j \in Jobs : pc'[j] \in {"idle", "done"}
    <3>1. Taken' = {}
      <4>1. active' = Cardinality(Taken')
        BY DEF SlotsInUse, Taken
      <4>2. IsFiniteSet(Taken')
        <5>1. Taken' \subseteq Jobs
          BY DEF Taken
        <5> HIDE DEF Taken
        <5> QED BY <5>1, SandboxAssumption, FS_Subset
      <4> DEFINE T == Taken'
      <4>3. IsFiniteSet(T) /\ Cardinality(T) = 0
        BY <1>1, <4>1, <4>2
      <4> HIDE DEF T
      <4>4. T = {}
        BY <4>3, FS_EmptySet
      <4> QED BY <4>4 DEF T
    <3>2. ASSUME NEW j \in Jobs PROVE pc'[j] \in {"idle", "done"}
      <4>1. pc'[j] # "queued"
        BY <1>1 DEF QueueInv
      <4>2. pc'[j] \notin InFlight
        BY <3>1 DEF Taken
      <4> QED BY <4>1, <4>2 DEF TypeRest
    <3> QED BY <3>2
  <2>3. \A g \in Live' : closeOn' = g
    BY <2>1, <2>2 DEF GoneInv
  <2> QED BY <2>1, <2>2, <2>3 DEF CloseInv
<1>2. CASE ~(phase = "asked" /\ active' = 0 /\ queue' = <<>>)
  BY <1>2 DEF FinishCloseIfIdle, CloseInv
<1> QED BY <1>1, <1>2

\* A step that leaves close() alone before it has found the sandbox idle.
LEMMA CloseEarly ==
    ASSUME closing \in {"no", "asked"}, closing' = closing
    PROVE  CloseInv'
BY DEF CloseInv

LEMMA NextClose ==
    ASSUME IInv, [Next]_vars, TypeRest', SlotsInUse', QueueInv', GoneInv'
    PROVE  CloseInv'
<1>0. TypeOK /\ CloseInv /\ QueueInv /\ closing \in {"no", "asked", "closing", "done"}
      /\ DOMAIN pc = Jobs
  BY DEF IInv, Accounting, TypeOK
<1>1. ASSUME NEW j \in Jobs, Run(j) PROVE CloseInv'
  <2>1. /\ closing' = closing /\ closeOn' = closeOn
        /\ \/ pc' = [pc EXCEPT ![j] = "done"] /\ KeepsConn
           \/ closing = "no"
    BY <1>1, RunSteps
  <2>2. CASE pc' = [pc EXCEPT ![j] = "done"] /\ KeepsConn
    BY <1>0, <2>1, <2>2 DEF CloseInv, KeepsConn, Live
  <2> QED BY <2>1, <2>2, CloseEarly
<1>2. ASSUME NEW j \in Jobs, Abort(j) PROVE CloseInv'
  <2>1. /\ KeepsConn
        /\ \/ /\ pc[j] = "queued" /\ active' = active
              /\ FinishCloseIfIdle(closing, queue', active)
           \/ pc' = pc /\ closing' = closing /\ closeOn' = closeOn
    BY <1>2, AbortSteps
  <2>2. CASE pc[j] = "queued" /\ active' = active /\ FinishCloseIfIdle(closing, queue', active)
    <3>1. closing \in {"no", "asked"}
      BY <1>0, <2>2 DEF CloseInv
    <3>2. FinishCloseIfIdle(closing, queue', active')
      BY <2>2
    <3> QED BY <2>1, <3>1, <3>2, CloseStarts
  <2>3. CASE pc' = pc /\ closing' = closing /\ closeOn' = closeOn
    BY <1>0, <2>1, <2>3 DEF CloseInv, KeepsConn, Live
  <2> QED BY <2>1, <2>2, <2>3
<1>3. ASSUME NEW j \in Jobs, Inner(j) PROVE CloseInv'
  <2>1. closing' = closing /\ pc[j] \in InFlight
    BY <1>3, InnerSteps DEF InnerMove, InFlight, Holding
  <2>2. closing \in {"no", "asked"}
    BY <1>0, <2>1 DEF CloseInv, InFlight
  <2> QED BY <2>1, <2>2, CloseEarly
<1>4. ASSUME NEW j \in Jobs, Finish(j) PROVE CloseInv'
  <2>1. pc[j] = "ending"
    BY <1>4, FinishSteps
  <2>2. closing \in {"no", "asked"}
    BY <1>0, <2>1 DEF CloseInv
  <2>3. CASE KeepsConn /\ FinishCloseIfIdle(closing, queue', active')
    BY <2>2, <2>3, CloseStarts
  <2>4. CASE UNCHANGED <<closing, closeOn>>
    BY <2>2, <2>4, CloseEarly
  <2> QED BY <1>4, <2>3, <2>4, FinishSteps
<1>5. CASE Outer
  <2>1. pc' = pc /\ Live' \subseteq Live
    BY <1>0, <1>5, OuterConn DEF IInv, Live, TypeOK
  <2>2. CASE closing' = closing /\ closeOn' = closeOn
    BY <1>0, <2>1, <2>2 DEF CloseInv
  <2>3. CASE Close
    <3>1. FinishCloseIfIdle("asked", queue', active') /\ KeepsConn
      BY <2>3 DEF Close, queueVars, connVars, KeepsConn
    <3> QED BY <3>1, CloseStarts
  <2>4. CASE CloseDone
    <3>1. /\ closing = "closing" /\ closing' = "done" /\ closeOn' = closeOn /\ client' = client
          /\ closeOn \in {None} \cup {g \in Gens : client[g] \in {"failed", "exited"}}
      BY <2>4 DEF CloseDone, connVars
    <3>2. Live = {}
      BY <1>0, <3>1 DEF CloseInv, Live, Gens, None
    <3> QED BY <1>0, <2>1, <3>1, <3>2 DEF CloseInv
  <2> QED BY <1>5, <2>2, <2>3, <2>4 DEF Outer, Connected, StartupFails, Retire, Breaks, Exits,
       CloseRetires, closeVars, vars
<1> QED BY <1>1, <1>2, <1>3, <1>4, <1>5, NextCases

-----------------------------------------------------------------------------
(* The theorems.                                                            *)

LEMMA InitInv == Init => IInv
<1> SUFFICES ASSUME Init PROVE IInv
  OBVIOUS
<1> USE SandboxAssumption DEF Init
<1>1. Taken = {} /\ Holders = {} /\ Used = {} /\ Live = {}
  BY DEF Taken, Holders, Used, Live, InFlight, Holding
<1>2. TypeOK
  BY DEF TypeOK
<1>3. SpaceReserved
  <2>1. SumFunctionOnSet(Need, Holders) = 0
    BY <1>1, SumEmpty
  <2> QED BY <2>1, SpaceIs
<1>4. SlotsInUse
  BY <1>1, SlotsAre, FS_EmptySet
<1>5. QueueInv
  BY DEF QueueInv
<1>6. GenInv
  <2>1. Cardinality(Used) = 0
    BY <1>1, FS_EmptySet
  <2>2. Used = 1 .. Cardinality(Used)
    BY <1>1, <2>1
  <2> QED BY <1>1, <2>2 DEF GenInv
<1>7. OneInv /\ AliveInv /\ GoneInv /\ CloseInv
  BY <1>1 DEF OneInv, AliveInv, GoneInv, CloseInv
<1> QED BY <1>2, <1>3, <1>4, <1>5, <1>6, <1>7 DEF IInv, Accounting

LEMMA NextInv == IInv /\ [Next]_vars => IInv'
<1> SUFFICES ASSUME IInv, [Next]_vars PROVE IInv'
  OBVIOUS
<1>1. TypeRest' /\ SpaceReserved' /\ reserved' \in Nat /\ SlotsInUse' /\ QueueInv' /\ GenInv'
      /\ OneInv' /\ AliveInv' /\ GoneInv'
  BY NextType, NextSpace, NextSlots, NextQueue, NextGens, NextOne, NextAlive, NextGone
<1>2. TypeOK'
  BY <1>1 DEF TypeRest, TypeOK
<1>3. CloseInv'
  BY <1>1, NextClose
<1> QED BY <1>1, <1>2, <1>3 DEF IInv, Accounting

\* The invariant holds of every behaviour of the Sandbox class.
THEOREM SandboxInvariant == Spec => []IInv
<1>1. Init => IInv
  BY InitInv
<1>2. IInv /\ [Next]_vars => IInv'
  BY NextInv
<1> QED BY <1>1, <1>2, PTL DEF Spec

\* Slots and reserved workspace bytes are exactly those of the runs that hold them, for
\* any number of runs and any capacity (sandbox.ts, execute and reserveWorkspaceCapacity).
THEOREM AccountingHolds == Spec => []Accounting
<1>1. IInv => Accounting
  BY DEF IInv
<1> QED BY <1>1, SandboxInvariant, PTL

\* A workspace a supervisor may still write is neither collected nor removed.
THEOREM WriterIsAwaitedHolds == Spec => []WriterIsAwaited
<1>1. IInv => WriterIsAwaited
  BY DEF IInv, AliveInv, WriterIsAwaited
<1> QED BY <1>1, SandboxInvariant, PTL

\* Recovering from a failed connection never leaves two supervisors that take runs.
THEOREM OneSupervisorHolds == Spec => []OneSupervisor
<1>1. IInv => OneSupervisor
  <2>1. SUFFICES ASSUME IInv PROVE OneSupervisor
    OBVIOUS
  <2> DEFINE T == {g \in Gens : client[g] \in {"starting", "up"}}
  <2>2. T \subseteq {cached}
    BY <2>1 DEF IInv, OneInv
  <2>3. IsFiniteSet({cached}) /\ Cardinality({cached}) = 1
    BY FS_Singleton
  <2>4. Cardinality(T) <= 1
    <3> HIDE DEF T
    <3> QED BY <2>2, <2>3, FS_Subset
  <2> QED BY <2>4 DEF OneSupervisor
<1> QED BY <1>1, SandboxInvariant, PTL

\* close() resolves only when every run has settled and every supervisor that was ever
\* started has exited or never came up.
THEOREM ClosedIsGoneHolds == Spec => []ClosedIsGone
<1>1. IInv => ClosedIsGone
  <2>1. SUFFICES ASSUME IInv, closing = "done"
                 PROVE  /\ \A g \in Gens : client[g] \in {"none", "failed", "exited"}
                        /\ \A j \in Jobs : pc[j] \in {"idle", "done"}
    BY DEF ClosedIsGone
  <2>2. Live = {} /\ \A j \in Jobs : pc[j] \in {"idle", "done"}
    BY <2>1 DEF IInv, CloseInv
  <2> QED BY <2>1, <2>2 DEF Live, IInv, Accounting, TypeOK
<1> QED BY <1>1, SandboxInvariant, PTL

=============================================================================
