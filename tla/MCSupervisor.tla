---------------------------- MODULE MCSupervisor ----------------------------
(* Instances of Supervisor for TLC. *)
EXTENDS Supervisor, TLC

MCPayloads == {[need |-> 1, ws |-> 1], [need |-> 2, ws |-> 0]}
SmallPayload == {[need |-> 1, ws |-> 1]}
IdSymmetry == Permutations(Ids)
=============================================================================
