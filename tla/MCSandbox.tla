------------------------------ MODULE MCSandbox ------------------------------
(***************************************************************************)
(* Sandbox on instances TLC can explore.                                   *)
(***************************************************************************)
EXTENDS Sandbox, TLC

CONSTANTS WithFiles, NoFiles  \* the runs with and without artifacts

MCJobs == WithFiles \cup NoFiles
MCNeed == [j \in MCJobs |-> IF j \in WithFiles THEN 1 ELSE 0]
JobSymmetry == {p \in Permutations(MCJobs) : \A j \in WithFiles : p[j] \in WithFiles}
=============================================================================
