----------------------------- MODULE MCAdmission -----------------------------
(* Instances of Admission for TLC: dimensions that are measured, that come from *)
(* quotas and that the host is asked about only at need; three cgroups, of      *)
(* which each bounds something the others do not, and the root has no limits.   *)
EXTENDS Admission, TLC

CONSTANTS mem, cpu, pids

All(n) == [d \in Dims |-> n]
MCDemands == {All(1), All(2), All(Width - 1)}
MCBound == <<[All(NoLimit) EXCEPT ![pids] = 8],
             [All(7) EXCEPT ![mem] = 8, ![pids] = NoLimit],
             All(NoLimit)>>
Spread(n) == <<All(0), [All(0) EXCEPT ![mem] = n], [All(0) EXCEPT ![mem] = n]>>
MCOutside == {Spread(1), Spread(4)}
MCSteady == {Spread(1)}
MCHost == [All(9) EXCEPT ![pids] = 7]
JobSymmetry == Permutations(Jobs)
=============================================================================
