------------------------------ MODULE Admission ------------------------------
(***************************************************************************)
(* Admission of a job by the supervisor: the counters of scheduler.rs, and *)
(* the two measurements start_job takes before it reserves, the headroom   *)
(* left by the cgroups above the jobs and by the host (resources.rs) and   *)
(* then the usage of its own running jobs, while these jobs go on using    *)
(* more or less of what they reserved.                                     *)
(***************************************************************************)
EXTENDS Integers, FiniteSets, FiniteSetsExt

CONSTANTS
    Dims,      \* memory_bytes, cpu_millis, pids
    Metered,   \* those whose usage is measured: cpu_millis comes from quotas
    Scanned,   \* those the host is asked about only if some cgroup has no limit: pids
    Width,     \* u64: sums from Width on overflow
    MarginNum, \* ADMISSION_PERCENT of MarginDen is given out, 80 of 100
    MarginDen,
    Jobs,      \* the jobs that may ask for admission
    Demands,   \* what they may ask for, launcher overhead included
    Depth,     \* cgroups with controllers: 1 is the root of the jobs, Depth the hierarchy's
    Files,     \* those that have the files with the limits
    Bound,     \* the limit of a cgroup, NoLimit for "max"
    Outside,   \* what may be in use in the cgroups beside the jobs, at one time or another
    Host       \* what the host could give if no job used anything

Capacity == [Dims -> 0 .. Width - 1]

\* parse_limit: "max" is no number.
NoLimit == Width

\* Mutant: only the cgroup of the jobs is read, no ancestor.
ReadOwnOnly == {1}

\* The walk of detect_admission_capacity: from the jobs' root up to the root of the
\* hierarchy, which is left out if it has no limits to read.
Read == {l \in 1 .. Depth : l = 1 \/ l < Depth \/ l \in Files}

ASSUME AdmissionAssumption ==
    /\ Metered \subseteq Dims /\ Scanned \subseteq Dims
    /\ Width \in Nat \ {0}
    /\ MarginNum \in Nat /\ MarginDen \in Nat \ {0} /\ MarginNum <= MarginDen
    /\ Demands \subseteq Capacity
    /\ \A r \in Demands, d \in Dims : r[d] > 0
    /\ Depth \in Nat \ {0}
    /\ Files \subseteq 1 .. Depth
    /\ Read \subseteq Files       \* else the supervisor does not start
    /\ Bound \in [1 .. Depth -> [Dims -> 0 .. Width]]
    /\ Outside \subseteq [1 .. Depth -> Capacity]
    /\ \A o \in Outside, l \in 1 .. Depth, d \in Dims \ Metered : o[l][d] = 0
    /\ Host \in Capacity

VARIABLES
    limit,     \* Scheduler::limit
    reserved,  \* State::reserved
    others,    \* what the cgroups hold beside the jobs now
    phase,     \* each job: "new", "measured" (its start_job is under way), "held",
               \* or "released" explicitly and not dropped yet
    demand,    \* what each job asked for
    used,      \* what each job uses
    live,      \* live_headroom of the start_job under way
    raced      \* history: usage changed between the measurements of the start_job under way

vars == <<limit, reserved, others, phase, demand, used, live, raced>>

Zero == [d \in Dims |-> 0]
FitsWithin(a, b) == \A d \in Dims : a[d] <= b[d]
Plus(a, b) == [d \in Dims |-> a[d] + b[d]]

\* checked_add gives None for a sum that does not fit.
Overflows(a, b) == \E d \in Dims : a[d] + b[d] >= Width

Less(x, y) == IF x > y THEN x - y ELSE 0
SaturatingSub(a, b) == [d \in Dims |-> Less(a[d], b[d])]

\* reserve_margin.
Margin(x) == (IF x * MarginNum < Width THEN x * MarginNum ELSE Width - 1) \div MarginDen

\* host_fallbacks, when the jobs use u.
Fallback(d, u) ==
    IF d \in Scanned /\ \A l \in Read : Bound[l][d] # NoLimit THEN Width - 1 ELSE Less(Host[d], u[d])

\* admission_capacity of the snapshot of one cgroup, before the margin: its usage
\* includes the one of the jobs.
Left(l, d, u) ==
    IF Bound[l][d] = NoLimit THEN Fallback(d, u) ELSE Less(Bound[l][d], others[l][d] + u[d])

\* effective_admission_capacity: the least of the host and of every cgroup.
Effective(u) ==
    [d \in Dims |-> Min({Margin(Fallback(d, u))} \cup {Margin(Left(l, d, u)) : l \in Read})]

\* What the jobs may use together: the room in every cgroup with a limit, and on
\* the host where it had to be asked.
Fits(a) ==
    \A d \in Dims :
        /\ \A l \in Files : Bound[l][d] # NoLimit => a[d] <= Less(Bound[l][d], others[l][d])
        /\ d \notin Scanned \/ (\E l \in Files : Bound[l][d] = NoLimit) => a[d] <= Host[d]

Held == {j \in Jobs : phase[j] = "held"}
Measuring == {j \in Jobs : phase[j] = "measured"}

\* jobs_usage, and the part of every cgroup's usage that stems from the jobs.
UsageOf(u, running) ==
    [d \in Dims |-> IF d \in Metered THEN MapThenSumSet(LAMBDA j : u[j][d], running) ELSE 0]
Usage == UsageOf(used, Held)

TypeOK ==
    /\ limit \in Capacity
    /\ others \in Outside
    /\ reserved \in Capacity
    /\ phase \in [Jobs -> {"new", "measured", "held", "released"}]
    /\ demand \in [Jobs -> Capacity]
    /\ used \in [Jobs -> Capacity]
    /\ live \in Capacity
    /\ raced \in BOOLEAN

\* Scheduler::new(detect_admission_capacity), before there are jobs.
Init ==
    /\ others \in Outside
    /\ limit = Effective(Zero)
    /\ reserved = Zero
    /\ phase = [j \in Jobs |-> "new"]
    /\ demand = [j \in Jobs |-> Zero]
    /\ used = [j \in Jobs |-> Zero]
    /\ live = Zero
    /\ raced = FALSE

\* detect_admission_capacity: the first measurement.  The protocol loop starts
\* one job at a time.
MeasureHeadroom(j) ==
    /\ Measuring = {} /\ phase[j] = "new"
    /\ phase' = [phase EXCEPT ![j] = "measured"]
    /\ \E r \in Demands : demand' = [demand EXCEPT ![j] = r]
    /\ Usage \in Capacity /\ live' = Effective(Usage)
    /\ raced' = FALSE
    /\ UNCHANGED <<limit, reserved, others, used>>

\* Mutant: the sum is wrapped instead of checked.
AdmissibleWrapping(r, own) ==
    /\ FitsWithin([d \in Dims |-> (reserved[d] + r[d]) % Width], limit)
    /\ FitsWithin([d \in Dims |-> (SaturatingSub(reserved, own)[d] + r[d]) % Width], live)

\* reserve_with_limit, for the own usage measured now.
Admissible(r, own) ==
    /\ ~Overflows(reserved, r)
    /\ ~Overflows(SaturatingSub(reserved, own), r)
    /\ FitsWithin(Plus(reserved, r), limit)
    /\ FitsWithin(Plus(SaturatingSub(reserved, own), r), live)

Reserve(j) ==
    /\ phase[j] = "measured"
    /\ Admissible(demand[j], Usage)
    /\ reserved' = Plus(reserved, demand[j])
    /\ phase' = [phase EXCEPT ![j] = "held"]
    /\ UNCHANGED <<limit, others, demand, used, live, raced>>

\* CapacityExceeded; the request may come again.
Refuse(j) ==
    /\ phase[j] = "measured"
    /\ ~Admissible(demand[j], Usage)
    /\ phase' = [phase EXCEPT ![j] = "new"]
    /\ UNCHANGED <<limit, reserved, others, demand, used, live, raced>>

\* The same loop drops a job once it finished, so never during a start_job.
\* Reservation::release: release_inner marks the reservation, and the value is
\* dropped next.
Release(j) ==
    /\ phase[j] = "held"
    /\ Measuring = {}
    /\ reserved' = SaturatingSub(reserved, demand[j])
    /\ phase' = [phase EXCEPT ![j] = "released"]
    /\ used' = [used EXCEPT ![j] = Zero]
    /\ UNCHANGED <<limit, others, demand, live, raced>>

\* Mutant: a released reservation gives its amount back again.
DropTwice(j) ==
    /\ phase[j] \in {"held", "released"} /\ Measuring = {}
    /\ reserved' = SaturatingSub(reserved, demand[j])
    /\ phase' = [phase EXCEPT ![j] = "new"]
    /\ used' = [used EXCEPT ![j] = Zero]
    /\ UNCHANGED <<limit, others, demand, live, raced>>

\* Drop for Reservation, which gives back what release did not; the job may ask anew.
Drop(j) ==
    /\ phase[j] \in {"held", "released"} /\ Measuring = {}
    /\ reserved' = IF phase[j] = "held" THEN SaturatingSub(reserved, demand[j]) ELSE reserved
    /\ phase' = [phase EXCEPT ![j] = "new"]
    /\ used' = [used EXCEPT ![j] = Zero]
    /\ UNCHANGED <<limit, others, demand, live, raced>>

\* A job's cgroup holds it within its limits, which its reservation covers.
Use(j) ==
    /\ phase[j] = "held"
    /\ \E d \in Metered : \E n \in 0 .. demand[j][d] : used' = [used EXCEPT ![j][d] = n]
    /\ raced' = (raced \/ Measuring # {})
    /\ UNCHANGED <<limit, reserved, others, phase, demand, live>>

\* Other processes come and go beside the jobs.
OthersMove ==
    /\ others' \in Outside
    /\ raced' = (raced \/ Measuring # {})
    /\ UNCHANGED <<limit, reserved, phase, demand, used, live>>

Next ==
    \/ OthersMove
    \/ \E j \in Jobs :
        \/ MeasureHeadroom(j)
        \/ Reserve(j)
        \/ Refuse(j)
        \/ Release(j)
        \/ Drop(j)
        \/ Use(j)

Spec == Init /\ [][Next]_vars

-----------------------------------------------------------------------------
\* What is reserved never exceeds the limit, in any dimension: no sum wraps.
WithinLimit == FitsWithin(reserved, limit)

\* The counter is the sum of what is held: the saturating subtraction never hides
\* a reservation that was given back twice.
ReservedIsHeld ==
    \A d \in Dims : reserved[d] = SumFunctionOnSet([j \in Jobs |-> demand[j][d]], Held)

\* When a job is admitted, all the running ones can grow to what they reserved:
\* together it is no more than what every cgroup above them and the host have for
\* them by then.  Counting only the unused part of the reservations is right
\* unless usage changed between the measurements (resources.rs:36, scheduler.rs:62).
NoOvercommit ==
    [][\A j \in Jobs : phase[j] = "measured" /\ phase'[j] = "held" /\ ~raced => Fits(reserved')]_vars

\* scheduler.rs: live_headroom "is measured from cgroup usage that already
\* includes own_live_usage", so when a job is admitted the headroom and the own
\* usage together are no more than what there is.
HeadroomIncludesOwn ==
    [][\A j \in Jobs : phase[j] = "measured" /\ phase'[j] = "held" =>
          Fits(Plus(live, Usage))]_vars
=============================================================================
