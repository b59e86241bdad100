---------------------------- MODULE RunContract -----------------------------
(***************************************************************************)
(* What the supervisor promises about runs, without its threads, channel   *)
(* and table: a run that was taken on is answered once, after everything   *)
(* it started is gone, unless the supervisor is lost as a whole; and an    *)
(* orderly end leaves no run unanswered.                                   *)
(***************************************************************************)
CONSTANT Runs

VARIABLES
    phase,  \* each run: "new", "accepted" or "answered"
    alive,  \* the runs that have a live launcher or guest
    up      \* the supervisor: "up", "ended" in order, or "lost"

vars == <<phase, alive, up>>

TypeOK ==
    /\ phase \in [Runs -> {"new", "accepted", "answered"}]
    /\ alive \subseteq Runs
    /\ up \in {"up", "ended", "lost"}

Init ==
    /\ phase = [r \in Runs |-> "new"]
    /\ alive = {}
    /\ up = "up"

Accept(r) ==
    /\ up = "up" /\ phase[r] = "new"
    /\ phase' = [phase EXCEPT ![r] = "accepted"]
    /\ alive' = alive \cup {r}
    /\ UNCHANGED up

\* The last process of the run is gone.
Exit(r) ==
    /\ r \in alive
    /\ alive' = alive \ {r}
    /\ UNCHANGED <<phase, up>>

Answer(r) ==
    /\ up = "up" /\ phase[r] = "accepted" /\ r \notin alive
    /\ phase' = [phase EXCEPT ![r] = "answered"]
    /\ UNCHANGED <<alive, up>>

End ==
    /\ up = "up"
    /\ \A r \in Runs : phase[r] # "accepted"
    /\ up' = "ended"
    /\ UNCHANGED <<phase, alive>>

Lose ==
    /\ up = "up"
    /\ up' = "lost"
    /\ UNCHANGED <<phase, alive>>

Next ==
    \/ \E r \in Runs : Accept(r) \/ Exit(r) \/ Answer(r)
    \/ End
    \/ Lose

Fairness == \A r \in Runs : WF_vars(Exit(r)) /\ WF_vars(Answer(r))

Steps == Init /\ [][Next]_vars

Spec == Steps /\ Fairness
=============================================================================
