--------------------------- MODULE AdmissionProofs ---------------------------
(* Proofs about Admission, for every set of dimensions, jobs and demands. *)
EXTENDS Admission, SumProofs, TLAPS

LEMMA ZeroCapacity == Zero \in Capacity
<1>1. 0 \in 0 .. Width - 1
  BY AdmissionAssumption
<1>2. QED
  BY <1>1 DEF Zero, Capacity

-----------------------------------------------------------------------------
\* The detected capacity.

\* A set of naturals has a least member, which Min picks.
LEMMA MinIsLeast ==
    ASSUME NEW S \in SUBSET Nat, S # {}
    PROVE  Min(S) \in S /\ \A x \in S : Min(S) <= x
BY LeastNat DEF Min

\* The margin never gives out more than there is.
LEMMA MarginBound ==
    ASSUME NEW x \in 0 .. Width - 1
    PROVE  Margin(x) \in 0 .. x
<1> DEFINE y == IF x * MarginNum < Width THEN x * MarginNum ELSE Width - 1
<1>1. /\ x \in Nat /\ MarginNum \in Nat /\ MarginDen \in Nat /\ MarginDen > 0
      /\ MarginNum <= MarginDen /\ Width \in Nat
  BY AdmissionAssumption
<1>2. x * MarginNum \in Nat /\ x * MarginNum <= x * MarginDen
  BY <1>1
<1>3. y \in Nat /\ y <= x * MarginDen
  BY <1>1, <1>2
<1>4. y \div MarginDen \in Nat /\ y \div MarginDen <= x
  <2> HIDE DEF y
  <2>1. PICK q \in Nat : q = y \div MarginDen /\ MarginDen * q <= y
    BY <1>1, <1>3
  <2>2. MarginDen * q <= MarginDen * x
    BY <1>1, <1>3, <2>1
  <2>3. q <= x
    BY <1>1, <2>1, <2>2
  <2>4. QED
    BY <2>1, <2>3
<1>5. QED
  BY <1>1, <1>4 DEF Margin

\* What is detected is a capacity, and no more than any source leaves.
LEMMA EffectiveBound ==
    ASSUME others \in Outside, NEW u \in Capacity
    PROVE  /\ Effective(u) \in Capacity
           /\ \A d \in Dims :
                 /\ Effective(u)[d] <= Fallback(d, u)
                 /\ \A l \in Read : Effective(u)[d] <= Left(l, d, u)
<1> DEFINE S(d) == {Margin(Fallback(d, u))} \cup {Margin(Left(l, d, u)) : l \in Read}
<1> SUFFICES ASSUME NEW d \in Dims
             PROVE  /\ Min(S(d)) \in 0 .. Width - 1
                    /\ Min(S(d)) <= Fallback(d, u)
                    /\ \A l \in Read : Min(S(d)) <= Left(l, d, u)
  BY DEF Effective, Capacity
<1>1. Fallback(d, u) \in 0 .. Width - 1
  BY AdmissionAssumption DEF Fallback, Less, Capacity
<1>2. ASSUME NEW l \in Read PROVE Left(l, d, u) \in 0 .. Width - 1
  <2>1. /\ Bound[l][d] \in 0 .. Width /\ others[l][d] \in 0 .. Width - 1
        /\ u[d] \in 0 .. Width - 1
    BY AdmissionAssumption DEF Read, Capacity
  <2>2. QED
    BY SMTT(30), <1>1, <2>1, AdmissionAssumption DEF Left, Less, NoLimit
<1>3. Margin(Fallback(d, u)) \in 0 .. Fallback(d, u)
  BY <1>1, MarginBound
<1>4. \A l \in Read : Margin(Left(l, d, u)) \in 0 .. Left(l, d, u)
  BY <1>2, MarginBound
<1>5. S(d) \in SUBSET Nat /\ S(d) # {}
  BY <1>1, <1>2, <1>3, <1>4
<1>6. Min(S(d)) \in S(d) /\ \A x \in S(d) : Min(S(d)) <= x
  BY <1>5, MinIsLeast
<1> HIDE DEF S
<1>7. Min(S(d)) <= Margin(Fallback(d, u)) /\ \A l \in Read : Min(S(d)) <= Margin(Left(l, d, u))
  BY <1>6 DEF S
<1>8. Min(S(d)) \in Nat
  BY <1>5, <1>6
<1>9. Width \in Nat
  BY AdmissionAssumption
<1>10. Min(S(d)) <= Fallback(d, u)
  BY <1>1, <1>3, <1>7, <1>8, <1>9
<1>11. QED
  BY <1>1, <1>2, <1>4, <1>7, <1>8, <1>9, <1>10

-----------------------------------------------------------------------------
\* The counters keep their width (TypeOK).
LEMMA AdmissionType == Spec => []TypeOK
<1> USE AdmissionAssumption DEF Capacity
<1>1. Init => TypeOK
  <2> SUFFICES ASSUME Init PROVE TypeOK
    OBVIOUS
  <2>1. others \in Outside /\ Zero \in Capacity
    BY ZeroCapacity DEF Init
  <2>2. Effective(Zero) \in Capacity
    BY <2>1, EffectiveBound
  <2>3. QED
    BY <2>1, <2>2 DEF Init, TypeOK
<1>2. ASSUME TypeOK, [Next]_vars PROVE TypeOK'
  <2>1. CASE UNCHANGED vars
    BY <1>2, <2>1 DEF vars, TypeOK
  <2>2. ASSUME NEW j \in Jobs, MeasureHeadroom(j) PROVE TypeOK'
    <3>1. live' \in Capacity
      BY <1>2, <2>2, EffectiveBound DEF MeasureHeadroom, TypeOK
    <3>2. QED
      BY <1>2, <2>2, <3>1 DEF TypeOK, MeasureHeadroom
  <2>3. ASSUME NEW j \in Jobs, Reserve(j) PROVE TypeOK'
    <3>1. reserved \in Capacity /\ demand[j] \in Capacity
      BY <1>2, <2>3 DEF TypeOK
    <3>2. \A d \in Dims : reserved[d] + demand[j][d] \in Nat /\ reserved[d] + demand[j][d] < Width
      BY <2>3, <3>1 DEF Reserve, Admissible, Overflows
    <3>3. reserved' \in Capacity
      BY <2>3, <3>2 DEF Reserve, Plus
    <3>4. QED
      BY <1>2, <2>3, <3>3 DEF TypeOK, Reserve
  <2>4. ASSUME NEW j \in Jobs, Release(j) \/ Drop(j) PROVE TypeOK'
    <3>1. reserved \in Capacity /\ demand[j] \in Capacity
      BY <1>2, <2>4 DEF TypeOK
    <3>2. \A d \in Dims : SaturatingSub(reserved, demand[j])[d] \in 0 .. Width - 1
      BY <3>1 DEF SaturatingSub, Less
    <3>3. reserved' \in Capacity
      BY <2>4, <3>1, <3>2 DEF Release, Drop, SaturatingSub, Less
    <3>4. used' \in [Jobs -> Capacity]
      BY ZenonT(40), <1>2, <2>4, ZeroCapacity DEF TypeOK, Release, Drop
    <3>5. phase' \in [Jobs -> {"new", "measured", "held", "released"}]
      BY <1>2, <2>4 DEF TypeOK, Release, Drop
    <3>6. /\ demand' \in [Jobs -> Capacity] /\ live' \in Capacity /\ raced' \in BOOLEAN
          /\ limit' \in Capacity /\ others' \in Outside
      BY <1>2, <2>4 DEF TypeOK, Release, Drop
    <3>7. QED
      BY <3>3, <3>4, <3>5, <3>6 DEF TypeOK
  <2>5. ASSUME NEW j \in Jobs, Refuse(j) \/ Use(j) PROVE TypeOK'
    <3>1. UNCHANGED <<limit, reserved, others, demand, live>>
      BY <2>5 DEF Refuse, Use
    <3>2. phase' \in [Jobs -> {"new", "measured", "held", "released"}]
      BY <1>2, <2>5 DEF TypeOK, Refuse, Use
    <3>3. CASE Refuse(j)
      BY <1>2, <3>1, <3>2, <3>3 DEF TypeOK, Refuse
    <3>4. CASE Use(j)
      <4>0. PICK d \in Metered : \E n \in 0 .. demand[j][d] : used' = [used EXCEPT ![j][d] = n]
        BY <3>4 DEF Use
      <4>1. PICK n \in 0 .. demand[j][d] : used' = [used EXCEPT ![j][d] = n]
        BY <4>0
      <4>2. n \in 0 .. Width - 1
        BY <1>2, <4>1 DEF TypeOK
      <4>3. used' \in [Jobs -> Capacity]
        BY <1>2, <4>1, <4>2 DEF TypeOK
      <4>4. raced' \in BOOLEAN
        BY <1>2, <3>4 DEF TypeOK, Use
      <4>5. QED
        BY <1>2, <3>1, <3>2, <4>3, <4>4 DEF TypeOK
    <3>5. QED
      BY <2>5, <3>3, <3>4
  <2>6. CASE OthersMove
    BY <1>2, <2>6 DEF TypeOK, OthersMove
  <2>7. QED
    BY <1>2, <2>1, <2>2, <2>3, <2>4, <2>5, <2>6 DEF Next
<1>3. QED
  BY <1>1, <1>2, PTL DEF Spec

\* Giving back never raises the counter.
LEMMA SubBound ==
    ASSUME NEW a \in Capacity, NEW b \in Capacity, NEW c \in Capacity, FitsWithin(a, c)
    PROVE  FitsWithin(SaturatingSub(a, b), c)
BY AdmissionAssumption DEF Capacity, FitsWithin, SaturatingSub, Less

\* No sequence of admissions and releases takes the counter beyond the limit
\* detected at start-up (WithinLimit).
THEOREM WithinLimitHolds == Spec => []WithinLimit
<1>1. TypeOK /\ Init => WithinLimit
  <2> SUFFICES ASSUME TypeOK, Init PROVE WithinLimit
    OBVIOUS
  <2>1. limit \in [Dims -> 0 .. Width - 1] /\ reserved = Zero
    BY DEF TypeOK, Init, Capacity
  <2>2. QED
    BY <2>1, AdmissionAssumption DEF WithinLimit, FitsWithin, Zero
<1>2. ASSUME TypeOK, WithinLimit, [Next]_vars PROVE WithinLimit'
  <2>0. UNCHANGED limit
    BY <1>2 DEF Next, OthersMove, MeasureHeadroom, Reserve, Refuse, Release, Drop, Use, vars
  <2>1. CASE UNCHANGED reserved
    BY <1>2, <2>0, <2>1 DEF WithinLimit, FitsWithin
  <2>2. ASSUME NEW j \in Jobs, Reserve(j) PROVE WithinLimit'
    BY <2>0, <2>2 DEF Reserve, Admissible, WithinLimit
  <2>3. ASSUME NEW j \in Jobs, reserved' = SaturatingSub(reserved, demand[j]) PROVE WithinLimit'
    BY <1>2, <2>0, <2>3, SubBound DEF TypeOK, WithinLimit
  <2>4. UNCHANGED reserved \/ \E j \in Jobs :
           Reserve(j) \/ reserved' = SaturatingSub(reserved, demand[j])
    BY <1>2 DEF Next, OthersMove, MeasureHeadroom, Refuse, Release, Drop, Use, vars
  <2>5. QED
    BY <2>1, <2>2, <2>3, <2>4
<1>3. QED
  BY <1>1, <1>2, AdmissionType, PTL DEF Spec

-----------------------------------------------------------------------------
\* While a start_job is under way it is the only one, it asks for something, and
\* the headroom it measured is still right, unless usage changed.
Sole == \A i, j \in Jobs : phase[i] = "measured" /\ phase[j] = "measured" => i = j
Asked == \A j \in Jobs : phase[j] = "measured" => demand[j] \in Demands
Fresh ==
    ~raced => \A j \in Jobs : phase[j] = "measured" => Usage \in Capacity /\ live = Effective(Usage)
MeasuredRight == Sole /\ Asked /\ Fresh

LEMMA UsageKept == ASSUME UNCHANGED used, Held' = Held PROVE Usage' = Usage
BY DEF Usage

LEMMA EffectiveKept == ASSUME UNCHANGED <<others, used>>, Held' = Held
                       PROVE  Effective(Usage)' = Effective(Usage)
BY UsageKept DEF Effective, Left, Fallback

\* What the live check promises: with u in use, what is left of b beside o and u
\* covers the demand q and the unused part of r only if b beside o covers r and q.
LEMMA LiveCheck ==
    ASSUME NEW r \in Nat, NEW q \in Nat, NEW u \in Nat, NEW b \in Nat, NEW o \in Nat, q > 0,
           Less(r, u) + q <= Less(b, o + u)
    PROVE  r + q <= Less(b, o)
BY DEF Less

\* The measurement stays right up to the admission.
LEMMA MeasurementKept == Spec => []MeasuredRight
<1>1. Init => MeasuredRight
  BY DEF Init, MeasuredRight, Fresh, Sole, Asked
<1>2. ASSUME TypeOK, MeasuredRight, [Next]_vars PROVE MeasuredRight'
  <2>1. ASSUME NEW j \in Jobs, MeasureHeadroom(j) PROVE MeasuredRight'
    <3>1. Held' = Held /\ UNCHANGED <<others, used>>
      BY <1>2, <2>1 DEF MeasureHeadroom, Held, TypeOK
    <3>2. Effective(Usage)' = Effective(Usage) /\ Usage' = Usage
      BY <3>1, EffectiveKept, UsageKept
    <3>3. Fresh'
      BY <2>1, <3>2 DEF MeasureHeadroom, Fresh
    <3>4. Sole' /\ Asked'
      BY <1>2, <2>1 DEF MeasureHeadroom, Measuring, Sole, Asked, TypeOK
    <3>5. QED
      BY <3>3, <3>4 DEF MeasuredRight
  <2>2. ASSUME NEW j \in Jobs, Reserve(j) \/ Refuse(j) \/ Release(j) \/ Drop(j)
        PROVE  MeasuredRight'
    <3>1. \A i \in Jobs : phase'[i] # "measured"
      BY <1>2, <2>2 DEF Reserve, Refuse, Release, Drop, Measuring, MeasuredRight, Sole, TypeOK
    <3>2. QED
      BY <3>1 DEF MeasuredRight, Sole, Asked, Fresh
  <2>3. CASE (\E j \in Jobs : Use(j)) \/ OthersMove
    <3>1. (Measuring = {} \/ raced') /\ UNCHANGED <<phase, demand>>
      BY <2>3 DEF Use, OthersMove
    <3>2. QED
      BY <1>2, <3>1 DEF MeasuredRight, Sole, Asked, Fresh, Measuring
  <2>4. CASE UNCHANGED vars
    <3>1. Held' = Held /\ UNCHANGED <<others, used, live, phase, demand, raced>>
      BY <2>4 DEF vars, Held
    <3>2. Effective(Usage)' = Effective(Usage) /\ Usage' = Usage
      BY <3>1, EffectiveKept, UsageKept
    <3>3. QED
      BY <1>2, <3>1, <3>2 DEF MeasuredRight, Sole, Asked, Fresh
  <2>5. QED
    BY <1>2, <2>1, <2>2, <2>3, <2>4 DEF Next
<1>3. QED
  BY <1>1, <1>2, AdmissionType, PTL DEF Spec

\* An admission promises no more than every cgroup and the host have, whatever the
\* usage of the jobs and of others, provided it did not change between the
\* measurements (NoOvercommit).
THEOREM NoOvercommitHolds == Spec => NoOvercommit
<1>1. ASSUME TypeOK, MeasuredRight, [Next]_vars,
             NEW j \in Jobs, phase[j] = "measured", phase'[j] = "held", ~raced
      PROVE  Fits(reserved')
  <2>1. Reserve(j)
    <3>1. ASSUME NEW i \in Jobs, i # j,
                 MeasureHeadroom(i) \/ Reserve(i) \/ Refuse(i) \/ Release(i) \/ Drop(i)
          PROVE  FALSE
      BY <1>1, <3>1 DEF TypeOK, MeasureHeadroom, Reserve, Refuse, Release, Drop
    <3>2. ~(MeasureHeadroom(j) \/ Refuse(j) \/ Release(j) \/ Drop(j))
      BY <1>1 DEF TypeOK, MeasureHeadroom, Refuse, Release, Drop
    <3>3. ~UNCHANGED phase
      BY <1>1
    <3>4. QED
      BY <1>1, <3>1, <3>2, <3>3 DEF Next, OthersMove, Use, vars
  <2>2. Usage \in Capacity /\ live = Effective(Usage) /\ demand[j] \in Demands
    BY <1>1 DEF MeasuredRight, Fresh, Asked
  <2> DEFINE u == Usage
  <2>3. u \in Capacity /\ live = Effective(u)
    BY <2>2
  <2>4. FitsWithin(Plus(SaturatingSub(reserved, u), demand[j]), live)
    BY <2>1 DEF Reserve, Admissible
  <2> HIDE DEF u
  <2> SUFFICES ASSUME NEW d \in Dims
               PROVE  /\ \A l \in Files : Bound[l][d] # NoLimit =>
                             reserved'[d] <= Less(Bound[l][d], others[l][d])
                      /\ d \notin Scanned \/ (\E l \in Files : Bound[l][d] = NoLimit) =>
                             reserved'[d] <= Host[d]
    BY DEF Fits
  <2>5. /\ reserved[d] \in Nat /\ demand[j][d] \in Nat /\ demand[j][d] > 0 /\ u[d] \in Nat
        /\ live[d] \in Nat /\ Host[d] \in Nat
    BY <1>1, <2>2, <2>3, AdmissionAssumption DEF TypeOK, Capacity
  <2>6. Less(reserved[d], u[d]) + demand[j][d] <= live[d]
    BY <2>4 DEF FitsWithin, Plus, SaturatingSub
  <2>7. reserved'[d] = reserved[d] + demand[j][d]
    BY <2>1 DEF Reserve, Plus
  <2>8. others \in Outside /\ Read = Files
    BY <1>1, AdmissionAssumption DEF TypeOK, Read
  <2>9. live[d] <= Fallback(d, u) /\ \A l \in Files : live[d] <= Left(l, d, u)
    BY <2>3, <2>8, EffectiveBound
  <2>10. ASSUME NEW l \in Files, Bound[l][d] # NoLimit
         PROVE  reserved'[d] <= Less(Bound[l][d], others[l][d])
    <3>1. Bound[l][d] \in Nat /\ others[l][d] \in Nat
      BY <2>8, AdmissionAssumption DEF Capacity
    <3>2. live[d] <= Less(Bound[l][d], others[l][d] + u[d])
      BY <2>9, <2>10 DEF Left
    <3>3. Less(reserved[d], u[d]) + demand[j][d] <= Less(Bound[l][d], others[l][d] + u[d])
      BY <2>5, <2>6, <3>1, <3>2 DEF Less
    <3>4. reserved[d] + demand[j][d] <= Less(Bound[l][d], others[l][d])
      BY <2>5, <3>1, <3>3, LiveCheck
    <3>5. QED
      BY <2>7, <3>4
  <2>11. ASSUME d \notin Scanned \/ (\E l \in Files : Bound[l][d] = NoLimit)
         PROVE  reserved'[d] <= Host[d]
    <3>1. live[d] <= Less(Host[d], u[d])
      BY <2>8, <2>9, <2>11 DEF Fallback
    <3>2. QED
      BY <2>5, <2>6, <2>7, <3>1 DEF Less
  <2>12. QED
    BY <2>10, <2>11
<1>2. TypeOK /\ MeasuredRight /\ [Next]_vars =>
        [\A j \in Jobs : phase[j] = "measured" /\ phase'[j] = "held" /\ ~raced => Fits(reserved')]_vars
  BY <1>1
<1>3. QED
  BY <1>2, AdmissionType, MeasurementKept, PTL DEF Spec, NoOvercommit

-----------------------------------------------------------------------------
(* The counter and the reservations.                                        *)

DemandFor(d) == [j \in Jobs |-> demand[j][d]]

Sums == IsFiniteSet(Held) /\ ReservedIsHeld

\* What the held jobs demand is a natural number, in each dimension.
LEMMA DemandType ==
    ASSUME TypeOK
    PROVE  \A d \in Dims, j \in Jobs : DemandFor(d)[j] = demand[j][d] /\ DemandFor(d)[j] \in Nat
BY AdmissionAssumption DEF TypeOK, Capacity, DemandFor

\* A reservation enters the sum with what it adds to the counter.
LEMMA ReserveKeepsSums ==
    ASSUME TypeOK, Sums, NEW j \in Jobs, Reserve(j)
    PROVE  Sums'
<1>1. /\ j \notin Held /\ Held' = Held \cup {j} /\ UNCHANGED demand /\ reserved' = Plus(reserved, demand[j])
      /\ Held \subseteq Jobs
  BY DEF Reserve, Held, TypeOK
<1>2. IsFiniteSet(Held')
  BY <1>1, FS_AddElement DEF Sums
<1>3. ASSUME NEW d \in Dims
      PROVE  reserved'[d] = SumFunctionOnSet(DemandFor(d), Held \cup {j})
  <2>1. Terms(DemandFor(d), Held \cup {j})
    BY <1>1, DemandType DEF Terms
  <2>2. SumFunctionOnSet(DemandFor(d), Held \cup {j}) = DemandFor(d)[j] + SumFunctionOnSet(DemandFor(d), Held)
    BY <1>1, <2>1, SumAdd DEF Sums
  <2>3. reserved[d] = SumFunctionOnSet(DemandFor(d), Held)
    BY DEF Sums, ReservedIsHeld, DemandFor
  <2>4. DemandFor(d)[j] = demand[j][d] /\ demand[j][d] \in Nat /\ reserved[d] \in Nat
    BY DemandType, AdmissionAssumption DEF TypeOK, Capacity
  <2>5. QED
    BY <1>1, <2>2, <2>3, <2>4 DEF Plus
<1>4. QED
  BY <1>1, <1>2, <1>3 DEF Sums, ReservedIsHeld, DemandFor

\* What a job gives back was in the sum, so the saturating subtraction is exact.
LEMMA GiveBackKeepsSums ==
    ASSUME TypeOK, Sums, NEW j \in Held, Held' = Held \ {j}, UNCHANGED demand,
           reserved' = SaturatingSub(reserved, demand[j])
    PROVE  Sums'
<1>1. j \in Jobs /\ Held \subseteq Jobs
  BY DEF Held
<1>2. IsFiniteSet(Held')
  BY FS_RemoveElement DEF Sums
<1>3. ASSUME NEW d \in Dims
      PROVE  reserved'[d] = SumFunctionOnSet(DemandFor(d), Held \ {j})
  <2> DEFINE rest == SumFunctionOnSet(DemandFor(d), Held \ {j})
  <2>1. Terms(DemandFor(d), Held)
    BY <1>1, DemandType DEF Terms
  <2>2. SumFunctionOnSet(DemandFor(d), Held) = DemandFor(d)[j] + rest
    BY <2>1, SumRemove DEF Sums
  <2>3. rest \in Nat
    <3>1. IsFiniteSet(Held \ {j}) /\ \A i \in Held \ {j} : DemandFor(d)[i] \in Nat
      BY <1>1, DemandType, FS_RemoveElement DEF Sums
    <3>2. QED
      BY <3>1, SumNat
  <2>4. reserved[d] = SumFunctionOnSet(DemandFor(d), Held)
    BY DEF Sums, ReservedIsHeld, DemandFor
  <2>5. DemandFor(d)[j] = demand[j][d] /\ demand[j][d] \in Nat
    BY <1>1, DemandType
  <2> HIDE DEF rest
  <2>6. reserved'[d] = Less(demand[j][d] + rest, demand[j][d])
    BY <2>2, <2>4, <2>5 DEF SaturatingSub
  <2>7. QED
    BY <2>3, <2>5, <2>6 DEF Less, rest
<1>4. QED
  BY <1>2, <1>3 DEF Sums, ReservedIsHeld, DemandFor

\* The counter is the sum of what is held (ReservedIsHeld): no reservation is given
\* back twice or never, and the saturating subtraction never saturates.
THEOREM ReservedIsHeldHolds == Spec => []ReservedIsHeld
<1>1. Init => Sums
  <2> SUFFICES ASSUME Init PROVE Sums
    OBVIOUS
  <2>1. Held = {} /\ reserved = Zero
    BY DEF Init, Held
  <2>2. \A f : SumFunctionOnSet(f, Held) = 0
    BY <2>1, SumEmpty
  <2>3. QED
    BY <2>1, <2>2, FS_EmptySet DEF Sums, ReservedIsHeld, Zero
<1>2. ASSUME TypeOK, Sums, [Next]_vars PROVE Sums'
  <2>1. ASSUME UNCHANGED reserved, Held' = Held, \A j \in Held : demand'[j] = demand[j] PROVE Sums'
    <3>1. Held \subseteq Jobs
      BY DEF Held
    <3>2. ASSUME NEW d \in Dims
          PROVE  SumFunctionOnSet(DemandFor(d), Held) = SumFunctionOnSet(DemandFor(d)', Held)
      <4>1. /\ Terms(DemandFor(d), Held)
            /\ \A j \in Held : DemandFor(d)[j] = DemandFor(d)'[j]
        BY <1>2, <2>1, <3>1, DemandType DEF Terms, DemandFor
      <4>2. QED
        BY <1>2, <4>1, SumSame DEF Sums
    <3>3. QED
      BY <1>2, <2>1, <3>2 DEF Sums, ReservedIsHeld, DemandFor
  <2>2. ASSUME NEW j \in Jobs, MeasureHeadroom(j) PROVE Sums'
    <3>1. /\ UNCHANGED reserved /\ Held' = Held /\ j \notin Held
          /\ \A i \in Held : demand'[i] = demand[i]
      BY <1>2, <2>2 DEF MeasureHeadroom, Held, TypeOK
    <3>2. QED
      BY <2>1, <3>1
  <2>3. ASSUME NEW j \in Jobs, Reserve(j) PROVE Sums'
    BY <1>2, <2>3, ReserveKeepsSums
  <2>4. ASSUME NEW j \in Jobs, Release(j) \/ (Drop(j) /\ phase[j] = "held") PROVE Sums'
    <3>1. /\ j \in Held /\ Held' = Held \ {j} /\ UNCHANGED demand
          /\ reserved' = SaturatingSub(reserved, demand[j])
      BY <1>2, <2>4 DEF Release, Drop, Held, TypeOK
    <3>2. QED
      BY <1>2, <3>1, GiveBackKeepsSums
  <2>5. ASSUME NEW j \in Jobs, Refuse(j) \/ Use(j) \/ (Drop(j) /\ phase[j] # "held") PROVE Sums'
    <3>1. UNCHANGED <<reserved, demand>> /\ Held' = Held
      BY <1>2, <2>5 DEF Refuse, Use, Drop, Held, TypeOK
    <3>2. QED
      BY <2>1, <3>1
  <2>6. CASE OthersMove \/ UNCHANGED vars
    <3>1. UNCHANGED <<reserved, demand>> /\ Held' = Held
      BY <2>6 DEF OthersMove, vars, Held
    <3>2. QED
      BY <2>1, <3>1
  <2>7. QED
    BY <1>2, <2>2, <2>3, <2>4, <2>5, <2>6 DEF Next
<1>3. Sums => ReservedIsHeld
  BY DEF Sums
<1>4. QED
  BY <1>1, <1>2, <1>3, AdmissionType, PTL DEF Spec
=============================================================================
