--------------------------- MODULE ReconcileProofs ---------------------------
(* Proofs about Reconcile, for every value of its constants. *)
EXTENDS Reconcile, TLAPS

-----------------------------------------------------------------------------
(* The inductive invariant.                                                 *)

\* What a cleaner is at.  A waiter is at its own job, whose launcher is dead.  A
\* supervisor that reconciles is at a job whose owner is gone, or whose owner's record
\* it failed to read; one that drops its table is at a job of its own.
AtInv ==
    /\ \A j \in Jobs : at[j] # Idle =>
           at[j][1] = j /\ launcher[j] = "dead" /\ waiter[j] = "cleaning"
    /\ \A s \in Procs : at[Main(s)] # Idle =>
           \/ /\ life[s] = "groups" /\ at[Main(s)][2] = "group"
              /\ life[Owner(at[Main(s)][1])] = "gone" \/ at[Main(s)][1] \in misread
           \/ life[s] = "dropping" /\ Owner(at[Main(s)][1]) = s
    /\ \A s \in Procs : life[s] = "dropping" => \A j \in todo[s] : Owner(j) = s

\* Before its owner serves, a job has nothing.
FreshInv ==
    \A j \in Jobs : life[Owner(j)] \in {"unborn", "alien", "groups", "roots"} =>
        /\ launcher[j] = "none" /\ waiter[j] = "none"
        /\ j \notin groups \cup roots \cup guests

\* A launcher has a guest from clone3 to the wait for it, a dead one may have left one.
GuestInv ==
    \A j \in Jobs : /\ launcher[j] \notin {"running", "dead"} => j \notin guests
                    /\ waiter[j] \in {"cleaning", "done"} => launcher[j] = "dead"
                    /\ launcher[j] = "none" => waiter[j] = "none"

\* What a waiter has removed so far.
CleanInv ==
    \A j \in Jobs :
        /\ waiter[j] = "cleaning" => at[j] # Idle
        /\ waiter[j] = "cleaning" /\ at[j][2] = "root" =>
               j \in missed \/ j \notin groups \cup guests
        /\ waiter[j] = "done" => j \in missed \/ j \notin groups \cup roots \cup guests

\* What a supervisor has still to remove of what was abandoned when it started.
StaleInv ==
    \A s \in Procs : life[s] \in Reconciling => \A j \in stale[s] :
        /\ life[Owner(j)] = "gone" /\ launcher[j] \notin Started
        /\ life[s] = "groups" /\ j \in groups =>
               j \in missed \/ j \in todo[s] \/ (at[Main(s)] # Idle /\ at[Main(s)][1] = j)
        /\ life[s] = "roots" =>
               /\ j \in groups => j \in missed
               /\ j \in roots => j \in missed \/ j \in todo[s]

IInv ==
    /\ TypeOK /\ AtInv /\ FreshInv /\ GuestInv /\ RunningUndisturbed /\ CleanInv /\ StaleInv

-----------------------------------------------------------------------------
(* Jobs, cleaners and types.                                                *)

LEMMA JobFacts ==
    /\ \A j \in Jobs : Owner(j) \in Procs /\ j \in Cleaners
    /\ \A k \in Procs : Main(k) \in Cleaners /\ Main(k) \notin Jobs /\ Owner(Main(k)) = k
    /\ \A k, l \in Procs : Main(k) = Main(l) => k = l
    /\ \A c \in Cleaners : c \in Jobs \/ \E k \in Procs : c = Main(k)
BY ReconcileAssumption DEF Jobs, Owner, Procs, Main, Cleaners

LEMMA AtParts ==
    /\ \A j, t : <<j, t>> # Idle /\ <<j, t>>[1] = j /\ <<j, t>>[2] = t
    /\ TypeOK => \A c \in Cleaners : at[c] # Idle =>
                     at[c][1] \in Jobs /\ at[c][2] \in {"group", "root"}
BY DEF Idle, TypeOK, Things

\* The states of a process in which OwnerIsDead is true of its jobs.
LEMMA OwnerGone ==
    ASSUME NEW j \in Jobs
    PROVE  OwnerIsDead(j) <=> life[Owner(j)] \in {"unborn", "gone"}
BY JobFacts DEF OwnerIsDead, StartTimes

LEMMA TypeStep == TypeOK /\ [Next]_vars => TypeOK'
<1> SUFFICES ASSUME TypeOK, [Next]_vars PROVE TypeOK'
  OBVIOUS
<1> USE DEF TypeOK, Working, Reconciling, Started, Things, procVars, jobVars, Idle
<1>1. ASSUME NEW k \in Procs, NEW p \in Pids, Boot(k, p) PROVE TypeOK'
  <2>1. /\ pidOf' \in [Procs -> Pids] /\ life' \in [Procs -> {"unborn", "alien", "zombie", "gone"} \cup Working]
        /\ todo' \in [Procs -> SUBSET Jobs]
    BY <1>1 DEF Boot
  <2>2. stale' \in [Procs -> SUBSET Jobs]
    BY <1>1 DEF Boot
  <2> QED BY <1>1, <2>1, <2>2 DEF Boot
<1>2. ASSUME NEW k \in Procs, Ends(k) PROVE TypeOK'
  BY <1>2 DEF Ends
<1>3. ASSUME NEW k \in Procs, Reaped(k) PROVE TypeOK'
  BY <1>3 DEF Reaped
<1>4. ASSUME NEW k \in Procs, NEW j \in Jobs, VisitGroup(k, j) PROVE TypeOK'
  BY <1>4, JobFacts DEF VisitGroup, Abandoned, KillGroup
<1>5. ASSUME NEW k \in Procs, NEW j \in Jobs, VisitRoot(k, j) PROVE TypeOK'
  BY <1>5 DEF VisitRoot, Abandoned, RemoveRoot
<1>6. ASSUME NEW k \in Procs, RemoveStale(k) PROVE TypeOK'
  BY <1>6, AtParts, JobFacts DEF RemoveStale, RemoveDir
<1>7. ASSUME NEW k \in Procs, ListRoots(k) PROVE TypeOK'
  BY <1>7 DEF ListRoots
<1>8. ASSUME NEW k \in Procs, Reconciled(k) PROVE TypeOK'
  BY <1>8 DEF Reconciled
<1>9. ASSUME NEW k \in Procs, Fails(k) PROVE TypeOK'
  BY <1>9 DEF Fails
<1>10. ASSUME NEW k \in Procs, NEW j \in Jobs, DropJob(k, j) PROVE TypeOK'
  BY <1>10, JobFacts DEF DropJob, KillGroup
<1>11. ASSUME NEW j \in Jobs, StartJob(j) PROVE TypeOK'
  BY <1>11 DEF StartJob
<1>12. ASSUME NEW j \in Jobs, Launch(j) PROVE TypeOK'
  <2>1. CASE MakeRoot(j)
    BY <2>1 DEF MakeRoot, Calls
  <2>2. CASE MakeGroup(j)
    BY <2>2 DEF MakeGroup, Calls
  <2>3. CASE Clone(j)
    BY <2>3 DEF Clone, Calls
  <2>4. CASE StopGuest(j)
    BY <2>4 DEF StopGuest, Calls
  <2>5. CASE DropGroup(j)
    BY <2>5 DEF DropGroup, Calls
  <2>6. CASE DropRoot(j)
    BY <2>6 DEF DropRoot, Calls
  <2> QED BY <1>12, <2>1, <2>2, <2>3, <2>4, <2>5, <2>6 DEF Launch
<1>13. ASSUME NEW j \in Jobs, Cancel(j) \/ Dies(j) \/ GuestDies(j) PROVE TypeOK'
  BY <1>13 DEF Cancel, Dies, GuestDies
<1>14. ASSUME NEW j \in Jobs, WaiterStarts(j) PROVE TypeOK'
  BY <1>14, JobFacts DEF WaiterStarts, KillGroup
<1>15. ASSUME NEW c \in Cleaners, CleanGroup(c) PROVE TypeOK'
  BY <1>15, AtParts DEF CleanGroup, RemoveDir
<1>16. ASSUME NEW c \in Cleaners, CleanRoot(c) PROVE TypeOK'
  BY <1>16, AtParts DEF CleanRoot, RemoveRoot
<1>17. CASE UNCHANGED vars
  BY <1>17 DEF vars
<1> QED
  BY <1>1, <1>2, <1>3, <1>4, <1>5, <1>6, <1>7, <1>8, <1>9, <1>10, <1>11, <1>12, <1>13, <1>14,
     <1>15, <1>16, <1>17 DEF Next, Reconcile, CleanUp, Crash, Returns, Dropped

LEMMA NextFresh ==
    ASSUME IInv, [Next]_vars
    PROVE  FreshInv'
<1>0. IInv
  OBVIOUS
<1> USE DEF IInv, TypeOK, FreshInv, AtInv, Started, Working, Reconciling
<1>1. ASSUME NEW k \in Procs, NEW p \in Pids, Boot(k, p) PROVE FreshInv'
  BY <1>0, <1>1, JobFacts, AtParts DEF Boot, jobVars
<1>2. ASSUME NEW k \in Procs, life[k] \in Working, Ends(k) PROVE FreshInv'
  BY <1>0, <1>2, JobFacts, AtParts DEF Ends, Working
<1>3. ASSUME NEW k \in Procs, Reaped(k) PROVE FreshInv'
  BY <1>0, <1>3, JobFacts, AtParts DEF Reaped, jobVars
<1>4. ASSUME NEW k \in Procs, NEW i \in Jobs, VisitGroup(k, i) PROVE FreshInv'
  BY <1>0, <1>4, JobFacts, AtParts DEF VisitGroup, KillGroup, procVars, jobVars
<1>5. ASSUME NEW k \in Procs, NEW i \in Jobs, VisitRoot(k, i) PROVE FreshInv'
  BY <1>0, <1>5, JobFacts, AtParts DEF VisitRoot, RemoveRoot, procVars, jobVars
<1>6. ASSUME NEW k \in Procs, RemoveStale(k) PROVE FreshInv'
  BY <1>0, <1>6, JobFacts, AtParts DEF RemoveStale, RemoveDir, procVars, jobVars
<1>7. ASSUME NEW k \in Procs, ListRoots(k) PROVE FreshInv'
  BY <1>0, <1>7, JobFacts, AtParts DEF ListRoots, jobVars
<1>8. ASSUME NEW k \in Procs, Reconciled(k) PROVE FreshInv'
  BY <1>0, <1>8, JobFacts, AtParts DEF Reconciled, jobVars
<1>9. ASSUME NEW k \in Procs, Fails(k) PROVE FreshInv'
  BY <1>0, <1>9, JobFacts, AtParts DEF Fails, jobVars
<1>10. ASSUME NEW k \in Procs, NEW i \in Jobs, DropJob(k, i) PROVE FreshInv'
  BY <1>0, <1>10, JobFacts, AtParts DEF DropJob, KillGroup, procVars
<1>11. ASSUME NEW i \in Jobs, StartJob(i) PROVE FreshInv'
  BY <1>0, <1>11, JobFacts, AtParts DEF StartJob, procVars
<1>12. ASSUME NEW i \in Jobs, MakeRoot(i) PROVE FreshInv'
  BY <1>0, <1>12, JobFacts, AtParts DEF MakeRoot, Calls, procVars
<1>13. ASSUME NEW i \in Jobs, MakeGroup(i) PROVE FreshInv'
  BY <1>0, <1>13, JobFacts, AtParts DEF MakeGroup, Calls, procVars
<1>14. ASSUME NEW i \in Jobs, Clone(i) PROVE FreshInv'
  BY <1>0, <1>14, JobFacts, AtParts DEF Clone, Calls, procVars
<1>15. ASSUME NEW i \in Jobs, StopGuest(i) PROVE FreshInv'
  BY <1>0, <1>15, JobFacts, AtParts DEF StopGuest, Calls, procVars
<1>16. ASSUME NEW i \in Jobs, DropGroup(i) PROVE FreshInv'
  BY <1>0, <1>16, JobFacts, AtParts DEF DropGroup, Calls, procVars
<1>17. ASSUME NEW i \in Jobs, DropRoot(i) PROVE FreshInv'
  BY <1>0, <1>17, JobFacts, AtParts DEF DropRoot, Calls, procVars
<1>18. ASSUME NEW i \in Jobs, Cancel(i) PROVE FreshInv'
  BY <1>0, <1>18, JobFacts, AtParts DEF Cancel, procVars
<1>19. ASSUME NEW i \in Jobs, Dies(i) PROVE FreshInv'
  BY <1>0, <1>19, JobFacts, AtParts DEF Dies, procVars
<1>20. ASSUME NEW i \in Jobs, GuestDies(i) PROVE FreshInv'
  BY <1>0, <1>20, JobFacts, AtParts DEF GuestDies, procVars, jobVars
<1>21. ASSUME NEW i \in Jobs, WaiterStarts(i) PROVE FreshInv'
  BY <1>0, <1>21, JobFacts, AtParts DEF WaiterStarts, KillGroup, procVars, jobVars
<1>22. ASSUME NEW c \in Cleaners, CleanGroup(c) PROVE FreshInv'
  BY <1>0, <1>22, JobFacts, AtParts DEF CleanGroup, RemoveDir, procVars, jobVars
<1>23. ASSUME NEW c \in Cleaners, CleanRoot(c) PROVE FreshInv'
  BY <1>0, <1>23, JobFacts, AtParts DEF CleanRoot, RemoveRoot, procVars, jobVars
<1>24. CASE UNCHANGED vars
  BY <1>0, <1>24 DEF vars, procVars, jobVars
<1> QED
  BY <1>1, <1>2, <1>3, <1>4, <1>5, <1>6, <1>7, <1>8, <1>9, <1>10, <1>11, <1>12, <1>13,
     <1>14, <1>15, <1>16, <1>17, <1>18, <1>19, <1>20, <1>21, <1>22, <1>23, <1>24
     DEF Next, Reconcile, Launch, CleanUp, Crash, Returns, Dropped, Working

LEMMA NextGuest ==
    ASSUME IInv, [Next]_vars
    PROVE  GuestInv'
<1>0. IInv
  OBVIOUS
<1> USE DEF IInv, TypeOK, GuestInv, FreshInv, AtInv, Started
<1>1. ASSUME NEW k \in Procs, NEW p \in Pids, Boot(k, p) PROVE GuestInv'
  BY <1>0, <1>1, JobFacts, AtParts DEF Boot, jobVars
<1>2. ASSUME NEW k \in Procs, life[k] \in Working, Ends(k) PROVE GuestInv'
  BY <1>0, <1>2, JobFacts, AtParts DEF Ends, Working
<1>3. ASSUME NEW k \in Procs, Reaped(k) PROVE GuestInv'
  BY <1>0, <1>3, JobFacts, AtParts DEF Reaped, jobVars
<1>4. ASSUME NEW k \in Procs, NEW i \in Jobs, VisitGroup(k, i) PROVE GuestInv'
  BY <1>0, <1>4, JobFacts, AtParts DEF VisitGroup, KillGroup, procVars, jobVars
<1>5. ASSUME NEW k \in Procs, NEW i \in Jobs, VisitRoot(k, i) PROVE GuestInv'
  BY <1>0, <1>5, JobFacts, AtParts DEF VisitRoot, RemoveRoot, procVars, jobVars
<1>6. ASSUME NEW k \in Procs, RemoveStale(k) PROVE GuestInv'
  BY <1>0, <1>6, JobFacts, AtParts DEF RemoveStale, RemoveDir, procVars, jobVars
<1>7. ASSUME NEW k \in Procs, ListRoots(k) PROVE GuestInv'
  BY <1>0, <1>7, JobFacts, AtParts DEF ListRoots, jobVars
<1>8. ASSUME NEW k \in Procs, Reconciled(k) PROVE GuestInv'
  BY <1>0, <1>8, JobFacts, AtParts DEF Reconciled, jobVars
<1>9. ASSUME NEW k \in Procs, Fails(k) PROVE GuestInv'
  BY <1>0, <1>9, JobFacts, AtParts DEF Fails, jobVars
<1>10. ASSUME NEW k \in Procs, NEW i \in Jobs, DropJob(k, i) PROVE GuestInv'
  BY <1>0, <1>10, JobFacts, AtParts DEF DropJob, KillGroup, procVars
<1>11. ASSUME NEW i \in Jobs, StartJob(i) PROVE GuestInv'
  BY <1>0, <1>11, JobFacts, AtParts DEF StartJob, procVars
<1>12. ASSUME NEW i \in Jobs, MakeRoot(i) PROVE GuestInv'
  BY <1>0, <1>12, JobFacts, AtParts DEF MakeRoot, Calls, procVars
<1>13. ASSUME NEW i \in Jobs, MakeGroup(i) PROVE GuestInv'
  BY <1>0, <1>13, JobFacts, AtParts DEF MakeGroup, Calls, procVars
<1>14. ASSUME NEW i \in Jobs, Clone(i) PROVE GuestInv'
  BY <1>0, <1>14, JobFacts, AtParts DEF Clone, Calls, procVars
<1>15. ASSUME NEW i \in Jobs, StopGuest(i) PROVE GuestInv'
  BY <1>0, <1>15, JobFacts, AtParts DEF StopGuest, Calls, procVars
<1>16. ASSUME NEW i \in Jobs, DropGroup(i) PROVE GuestInv'
  BY <1>0, <1>16, JobFacts, AtParts DEF DropGroup, Calls, procVars
<1>17. ASSUME NEW i \in Jobs, DropRoot(i) PROVE GuestInv'
  BY <1>0, <1>17, JobFacts, AtParts DEF DropRoot, Calls, procVars
<1>18. ASSUME NEW i \in Jobs, Cancel(i) PROVE GuestInv'
  BY <1>0, <1>18, JobFacts, AtParts DEF Cancel, procVars
<1>19. ASSUME NEW i \in Jobs, Dies(i) PROVE GuestInv'
  BY <1>0, <1>19, JobFacts, AtParts DEF Dies, procVars
<1>20. ASSUME NEW i \in Jobs, GuestDies(i) PROVE GuestInv'
  BY <1>0, <1>20, JobFacts, AtParts DEF GuestDies, procVars, jobVars
<1>21. ASSUME NEW i \in Jobs, WaiterStarts(i) PROVE GuestInv'
  BY <1>0, <1>21, JobFacts, AtParts DEF WaiterStarts, KillGroup, procVars, jobVars
<1>22. ASSUME NEW c \in Cleaners, CleanGroup(c) PROVE GuestInv'
  BY <1>0, <1>22, JobFacts, AtParts DEF CleanGroup, RemoveDir, procVars, jobVars
<1>23. ASSUME NEW c \in Cleaners, CleanRoot(c) PROVE GuestInv'
  BY <1>0, <1>23, JobFacts, AtParts DEF CleanRoot, RemoveRoot, procVars, jobVars
<1>24. CASE UNCHANGED vars
  BY <1>0, <1>24 DEF vars, procVars, jobVars
<1> QED
  BY <1>1, <1>2, <1>3, <1>4, <1>5, <1>6, <1>7, <1>8, <1>9, <1>10, <1>11, <1>12, <1>13,
     <1>14, <1>15, <1>16, <1>17, <1>18, <1>19, <1>20, <1>21, <1>22, <1>23, <1>24
     DEF Next, Reconcile, Launch, CleanUp, Crash, Returns, Dropped, Working

LEMMA NextAt ==
    ASSUME IInv, [Next]_vars
    PROVE  AtInv'
<1>0. IInv
  OBVIOUS
<1> USE DEF IInv, TypeOK, AtInv, FreshInv, GuestInv, Started, Abandoned, Idle
<1>1. ASSUME NEW k \in Procs, NEW p \in Pids, Boot(k, p) PROVE AtInv'
  <2>1. /\ life[k] = "unborn" /\ at' = at /\ launcher' = launcher /\ waiter' = waiter
        /\ misread' = misread
        /\ \A s \in Procs \ {k} : life'[s] = life[s] /\ todo'[s] = todo[s]
        /\ life'[k] # "dropping"
    BY <1>0, <1>1 DEF Boot, jobVars
  <2>2. \A j \in Jobs : life[Owner(j)] = "gone" => life'[Owner(j)] = "gone"
    BY <2>1, JobFacts
  <2>3. at[Main(k)] = Idle
    BY <1>0, <2>1
  <2> QED BY <1>0, <2>1, <2>2, <2>3, JobFacts, AtParts
<1>2. ASSUME NEW k \in Procs, life[k] \in Working, Ends(k) PROVE AtInv'
  <2>1. /\ launcher' = launcher /\ misread' = misread
        /\ \A s \in Procs \ {k} : life'[s] = life[s] /\ todo'[s] = todo[s]
        /\ life'[k] = "zombie"
        /\ \A c \in Cleaners : at'[c] = IF Owner(c) = k THEN Idle ELSE at[c]
        /\ \A j \in Jobs : Owner(j) # k => waiter'[j] = waiter[j]
    BY <1>0, <1>2 DEF Ends
  <2>2. \A j \in Jobs : life[Owner(j)] = "gone" => life'[Owner(j)] = "gone"
    BY <2>1, <1>2, JobFacts DEF Working, Reconciling
  <2>3. at'[Main(k)] = Idle
    BY <2>1, JobFacts
  <2>4. \A c \in Cleaners : at'[c] # Idle => at'[c] = at[c] /\ Owner(c) # k
    BY <2>1
  <2> QED BY <1>0, <2>1, <2>2, <2>3, <2>4, JobFacts, AtParts
<1>3. ASSUME NEW k \in Procs, Reaped(k) PROVE AtInv'
  BY <1>0, <1>3, JobFacts, AtParts, OwnerGone DEF Reaped, jobVars
<1>4. ASSUME NEW k \in Procs, NEW i \in Jobs, VisitGroup(k, i) PROVE AtInv'
  BY <1>0, <1>4, JobFacts, AtParts, OwnerGone DEF VisitGroup, KillGroup, procVars, jobVars
<1>5. ASSUME NEW k \in Procs, NEW i \in Jobs, VisitRoot(k, i) PROVE AtInv'
  BY <1>0, <1>5, JobFacts, AtParts, OwnerGone DEF VisitRoot, RemoveRoot, procVars, jobVars
<1>6. ASSUME NEW k \in Procs, RemoveStale(k) PROVE AtInv'
  BY <1>0, <1>6, JobFacts, AtParts, OwnerGone DEF RemoveStale, RemoveDir, procVars, jobVars
<1>7. ASSUME NEW k \in Procs, ListRoots(k) PROVE AtInv'
  BY <1>0, <1>7, JobFacts, AtParts, OwnerGone DEF ListRoots, jobVars
<1>8. ASSUME NEW k \in Procs, Reconciled(k) PROVE AtInv'
  BY <1>0, <1>8, JobFacts, AtParts, OwnerGone DEF Reconciled, jobVars
<1>9. ASSUME NEW k \in Procs, Fails(k) PROVE AtInv'
  BY <1>0, <1>9, JobFacts, AtParts, OwnerGone DEF Fails, jobVars
<1>10. ASSUME NEW k \in Procs, NEW i \in Jobs, DropJob(k, i) PROVE AtInv'
  BY <1>0, <1>10, JobFacts, AtParts, OwnerGone DEF DropJob, KillGroup, procVars
<1>11. ASSUME NEW i \in Jobs, StartJob(i) PROVE AtInv'
  BY <1>0, <1>11, JobFacts, AtParts, OwnerGone DEF StartJob, procVars
<1>12. ASSUME NEW i \in Jobs, MakeRoot(i) PROVE AtInv'
  BY <1>0, <1>12, JobFacts, AtParts, OwnerGone DEF MakeRoot, Calls, procVars
<1>13. ASSUME NEW i \in Jobs, MakeGroup(i) PROVE AtInv'
  BY <1>0, <1>13, JobFacts, AtParts, OwnerGone DEF MakeGroup, Calls, procVars
<1>14. ASSUME NEW i \in Jobs, Clone(i) PROVE AtInv'
  BY <1>0, <1>14, JobFacts, AtParts, OwnerGone DEF Clone, Calls, procVars
<1>15. ASSUME NEW i \in Jobs, StopGuest(i) PROVE AtInv'
  BY <1>0, <1>15, JobFacts, AtParts, OwnerGone DEF StopGuest, Calls, procVars
<1>16. ASSUME NEW i \in Jobs, DropGroup(i) PROVE AtInv'
  BY <1>0, <1>16, JobFacts, AtParts, OwnerGone DEF DropGroup, Calls, procVars
<1>17. ASSUME NEW i \in Jobs, DropRoot(i) PROVE AtInv'
  BY <1>0, <1>17, JobFacts, AtParts, OwnerGone DEF DropRoot, Calls, procVars
<1>18. ASSUME NEW i \in Jobs, Cancel(i) PROVE AtInv'
  BY <1>0, <1>18, JobFacts, AtParts, OwnerGone DEF Cancel, procVars
<1>19. ASSUME NEW i \in Jobs, Dies(i) PROVE AtInv'
  BY <1>0, <1>19, JobFacts, AtParts, OwnerGone DEF Dies, procVars
<1>20. ASSUME NEW i \in Jobs, GuestDies(i) PROVE AtInv'
  BY <1>0, <1>20, JobFacts, AtParts, OwnerGone DEF GuestDies, procVars, jobVars
<1>21. ASSUME NEW i \in Jobs, WaiterStarts(i) PROVE AtInv'
  BY <1>0, <1>21, JobFacts, AtParts, OwnerGone DEF WaiterStarts, KillGroup, procVars, jobVars
<1>22. ASSUME NEW c \in Cleaners, CleanGroup(c) PROVE AtInv'
  BY <1>0, <1>22, JobFacts, AtParts, OwnerGone DEF CleanGroup, RemoveDir, procVars, jobVars
<1>23. ASSUME NEW c \in Cleaners, CleanRoot(c) PROVE AtInv'
  BY <1>0, <1>23, JobFacts, AtParts, OwnerGone DEF CleanRoot, RemoveRoot, procVars, jobVars
<1>24. CASE UNCHANGED vars
  BY <1>0, <1>24 DEF vars, procVars, jobVars
<1> QED
  BY <1>1, <1>2, <1>3, <1>4, <1>5, <1>6, <1>7, <1>8, <1>9, <1>10, <1>11, <1>12, <1>13,
     <1>14, <1>15, <1>16, <1>17, <1>18, <1>19, <1>20, <1>21, <1>22, <1>23, <1>24
     DEF Next, Reconcile, Launch, CleanUp, Crash, Returns, Dropped, Working

LEMMA NextUndisturbed ==
    ASSUME IInv, [Next]_vars
    PROVE  RunningUndisturbed'
<1>0. IInv
  OBVIOUS
<1> USE DEF IInv, TypeOK, RunningUndisturbed, AtInv, FreshInv, GuestInv, Started,
           Abandoned
<1>1. ASSUME NEW k \in Procs, NEW p \in Pids, Boot(k, p) PROVE RunningUndisturbed'
  BY <1>0, <1>1, JobFacts, AtParts, OwnerGone DEF Boot, jobVars
<1>2. ASSUME NEW k \in Procs, life[k] \in Working, Ends(k) PROVE RunningUndisturbed'
  BY <1>0, <1>2, JobFacts, AtParts, OwnerGone DEF Ends, Working
<1>3. ASSUME NEW k \in Procs, Reaped(k) PROVE RunningUndisturbed'
  BY <1>0, <1>3, JobFacts, AtParts, OwnerGone DEF Reaped, jobVars
<1>4. ASSUME NEW k \in Procs, NEW i \in Jobs, VisitGroup(k, i) PROVE RunningUndisturbed'
  BY <1>0, <1>4, JobFacts, AtParts, OwnerGone DEF VisitGroup, KillGroup, procVars, jobVars
<1>5. ASSUME NEW k \in Procs, NEW i \in Jobs, VisitRoot(k, i) PROVE RunningUndisturbed'
  BY <1>0, <1>5, JobFacts, AtParts, OwnerGone DEF VisitRoot, RemoveRoot, procVars, jobVars
<1>6. ASSUME NEW k \in Procs, RemoveStale(k) PROVE RunningUndisturbed'
  BY <1>0, <1>6, JobFacts, AtParts, OwnerGone DEF RemoveStale, RemoveDir, procVars, jobVars
<1>7. ASSUME NEW k \in Procs, ListRoots(k) PROVE RunningUndisturbed'
  BY <1>0, <1>7, JobFacts, AtParts, OwnerGone DEF ListRoots, jobVars
<1>8. ASSUME NEW k \in Procs, Reconciled(k) PROVE RunningUndisturbed'
  BY <1>0, <1>8, JobFacts, AtParts, OwnerGone DEF Reconciled, jobVars
<1>9. ASSUME NEW k \in Procs, Fails(k) PROVE RunningUndisturbed'
  BY <1>0, <1>9, JobFacts, AtParts, OwnerGone DEF Fails, jobVars
<1>10. ASSUME NEW k \in Procs, NEW i \in Jobs, DropJob(k, i) PROVE RunningUndisturbed'
  BY <1>0, <1>10, JobFacts, AtParts, OwnerGone DEF DropJob, KillGroup, procVars
<1>11. ASSUME NEW i \in Jobs, StartJob(i) PROVE RunningUndisturbed'
  BY <1>0, <1>11, JobFacts, AtParts, OwnerGone DEF StartJob, procVars
<1>12. ASSUME NEW i \in Jobs, MakeRoot(i) PROVE RunningUndisturbed'
  BY <1>0, <1>12, JobFacts, AtParts, OwnerGone DEF MakeRoot, Calls, procVars
<1>13. ASSUME NEW i \in Jobs, MakeGroup(i) PROVE RunningUndisturbed'
  BY <1>0, <1>13, JobFacts, AtParts, OwnerGone DEF MakeGroup, Calls, procVars
<1>14. ASSUME NEW i \in Jobs, Clone(i) PROVE RunningUndisturbed'
  BY <1>0, <1>14, JobFacts, AtParts, OwnerGone DEF Clone, Calls, procVars
<1>15. ASSUME NEW i \in Jobs, StopGuest(i) PROVE RunningUndisturbed'
  BY <1>0, <1>15, JobFacts, AtParts, OwnerGone DEF StopGuest, Calls, procVars
<1>16. ASSUME NEW i \in Jobs, DropGroup(i) PROVE RunningUndisturbed'
  BY <1>0, <1>16, JobFacts, AtParts, OwnerGone DEF DropGroup, Calls, procVars
<1>17. ASSUME NEW i \in Jobs, DropRoot(i) PROVE RunningUndisturbed'
  BY <1>0, <1>17, JobFacts, AtParts, OwnerGone DEF DropRoot, Calls, procVars
<1>18. ASSUME NEW i \in Jobs, Cancel(i) PROVE RunningUndisturbed'
  BY <1>0, <1>18, JobFacts, AtParts, OwnerGone DEF Cancel, procVars
<1>19. ASSUME NEW i \in Jobs, Dies(i) PROVE RunningUndisturbed'
  BY <1>0, <1>19, JobFacts, AtParts, OwnerGone DEF Dies, procVars
<1>20. ASSUME NEW i \in Jobs, GuestDies(i) PROVE RunningUndisturbed'
  BY <1>0, <1>20, JobFacts, AtParts, OwnerGone DEF GuestDies, procVars, jobVars
<1>21. ASSUME NEW i \in Jobs, WaiterStarts(i) PROVE RunningUndisturbed'
  BY <1>0, <1>21, JobFacts, AtParts, OwnerGone DEF WaiterStarts, KillGroup, procVars, jobVars
<1>22. ASSUME NEW c \in Cleaners, CleanGroup(c) PROVE RunningUndisturbed'
  BY <1>0, <1>22, JobFacts, AtParts, OwnerGone DEF CleanGroup, RemoveDir, procVars, jobVars
<1>23. ASSUME NEW c \in Cleaners, CleanRoot(c) PROVE RunningUndisturbed'
  BY <1>0, <1>23, JobFacts, AtParts, OwnerGone DEF CleanRoot, RemoveRoot, procVars, jobVars
<1>24. CASE UNCHANGED vars
  BY <1>0, <1>24 DEF vars, procVars, jobVars
<1> QED
  BY <1>1, <1>2, <1>3, <1>4, <1>5, <1>6, <1>7, <1>8, <1>9, <1>10, <1>11, <1>12, <1>13,
     <1>14, <1>15, <1>16, <1>17, <1>18, <1>19, <1>20, <1>21, <1>22, <1>23, <1>24
     DEF Next, Reconcile, Launch, CleanUp, Crash, Returns, Dropped, Working

LEMMA NextCleaned ==
    ASSUME IInv, [Next]_vars
    PROVE  CleanInv'
<1>0. IInv
  OBVIOUS
<1> USE DEF IInv, TypeOK, CleanInv, AtInv, FreshInv, GuestInv, Started
<1>1. ASSUME NEW k \in Procs, NEW p \in Pids, Boot(k, p) PROVE CleanInv'
  BY <1>0, <1>1, JobFacts, AtParts DEF Boot, jobVars
<1>2. ASSUME NEW k \in Procs, life[k] \in Working, Ends(k) PROVE CleanInv'
  BY <1>0, <1>2, JobFacts, AtParts DEF Ends, Working
<1>3. ASSUME NEW k \in Procs, Reaped(k) PROVE CleanInv'
  BY <1>0, <1>3, JobFacts, AtParts DEF Reaped, jobVars
<1>4. ASSUME NEW k \in Procs, NEW i \in Jobs, VisitGroup(k, i) PROVE CleanInv'
  BY <1>0, <1>4, JobFacts, AtParts DEF VisitGroup, KillGroup, procVars, jobVars
<1>5. ASSUME NEW k \in Procs, NEW i \in Jobs, VisitRoot(k, i) PROVE CleanInv'
  BY <1>0, <1>5, JobFacts, AtParts DEF VisitRoot, RemoveRoot, procVars, jobVars
<1>6. ASSUME NEW k \in Procs, RemoveStale(k) PROVE CleanInv'
  BY <1>0, <1>6, JobFacts, AtParts DEF RemoveStale, RemoveDir, procVars, jobVars
<1>7. ASSUME NEW k \in Procs, ListRoots(k) PROVE CleanInv'
  BY <1>0, <1>7, JobFacts, AtParts DEF ListRoots, jobVars
<1>8. ASSUME NEW k \in Procs, Reconciled(k) PROVE CleanInv'
  BY <1>0, <1>8, JobFacts, AtParts DEF Reconciled, jobVars
<1>9. ASSUME NEW k \in Procs, Fails(k) PROVE CleanInv'
  BY <1>0, <1>9, JobFacts, AtParts DEF Fails, jobVars
<1>10. ASSUME NEW k \in Procs, NEW i \in Jobs, DropJob(k, i) PROVE CleanInv'
  BY <1>0, <1>10, JobFacts, AtParts DEF DropJob, KillGroup, procVars
<1>11. ASSUME NEW i \in Jobs, StartJob(i) PROVE CleanInv'
  BY <1>0, <1>11, JobFacts, AtParts DEF StartJob, procVars
<1>12. ASSUME NEW i \in Jobs, MakeRoot(i) PROVE CleanInv'
  BY <1>0, <1>12, JobFacts, AtParts DEF MakeRoot, Calls, procVars
<1>13. ASSUME NEW i \in Jobs, MakeGroup(i) PROVE CleanInv'
  BY <1>0, <1>13, JobFacts, AtParts DEF MakeGroup, Calls, procVars
<1>14. ASSUME NEW i \in Jobs, Clone(i) PROVE CleanInv'
  BY <1>0, <1>14, JobFacts, AtParts DEF Clone, Calls, procVars
<1>15. ASSUME NEW i \in Jobs, StopGuest(i) PROVE CleanInv'
  BY <1>0, <1>15, JobFacts, AtParts DEF StopGuest, Calls, procVars
<1>16. ASSUME NEW i \in Jobs, DropGroup(i) PROVE CleanInv'
  BY <1>0, <1>16, JobFacts, AtParts DEF DropGroup, Calls, procVars
<1>17. ASSUME NEW i \in Jobs, DropRoot(i) PROVE CleanInv'
  BY <1>0, <1>17, JobFacts, AtParts DEF DropRoot, Calls, procVars
<1>18. ASSUME NEW i \in Jobs, Cancel(i) PROVE CleanInv'
  BY <1>0, <1>18, JobFacts, AtParts DEF Cancel, procVars
<1>19. ASSUME NEW i \in Jobs, Dies(i) PROVE CleanInv'
  BY <1>0, <1>19, JobFacts, AtParts DEF Dies, procVars
<1>20. ASSUME NEW i \in Jobs, GuestDies(i) PROVE CleanInv'
  BY <1>0, <1>20, JobFacts, AtParts DEF GuestDies, procVars, jobVars
<1>21. ASSUME NEW i \in Jobs, WaiterStarts(i) PROVE CleanInv'
  BY <1>0, <1>21, JobFacts, AtParts DEF WaiterStarts, KillGroup, procVars, jobVars
<1>22. ASSUME NEW c \in Cleaners, CleanGroup(c) PROVE CleanInv'
  BY <1>0, <1>22, JobFacts, AtParts DEF CleanGroup, RemoveDir, procVars, jobVars
<1>23. ASSUME NEW c \in Cleaners, CleanRoot(c) PROVE CleanInv'
  BY <1>0, <1>23, JobFacts, AtParts DEF CleanRoot, RemoveRoot, procVars, jobVars
<1>24. CASE UNCHANGED vars
  BY <1>0, <1>24 DEF vars, procVars, jobVars
<1> QED
  BY <1>1, <1>2, <1>3, <1>4, <1>5, <1>6, <1>7, <1>8, <1>9, <1>10, <1>11, <1>12, <1>13,
     <1>14, <1>15, <1>16, <1>17, <1>18, <1>19, <1>20, <1>21, <1>22, <1>23, <1>24
     DEF Next, Reconcile, Launch, CleanUp, Crash, Returns, Dropped, Working

LEMMA NextStale ==
    ASSUME IInv, [Next]_vars
    PROVE  StaleInv'
<1>0. IInv
  OBVIOUS
<1> USE DEF IInv, TypeOK, StaleInv, AtInv, FreshInv, GuestInv, Reconciling, Started,
           Abandoned
<1>1. ASSUME NEW k \in Procs, NEW p \in Pids, Boot(k, p) PROVE StaleInv'
  BY <1>0, <1>1, JobFacts, AtParts, OwnerGone DEF Boot, jobVars
<1>2. ASSUME NEW k \in Procs, life[k] \in Working, Ends(k) PROVE StaleInv'
  BY <1>0, <1>2, JobFacts, AtParts, OwnerGone DEF Ends, Working
<1>3. ASSUME NEW k \in Procs, Reaped(k) PROVE StaleInv'
  BY <1>0, <1>3, JobFacts, AtParts, OwnerGone DEF Reaped, jobVars
<1>4. ASSUME NEW k \in Procs, NEW i \in Jobs, VisitGroup(k, i) PROVE StaleInv'
  BY <1>0, <1>4, JobFacts, AtParts, OwnerGone DEF VisitGroup, KillGroup, procVars, jobVars
<1>5. ASSUME NEW k \in Procs, NEW i \in Jobs, VisitRoot(k, i) PROVE StaleInv'
  BY <1>0, <1>5, JobFacts, AtParts, OwnerGone DEF VisitRoot, RemoveRoot, procVars, jobVars
<1>6. ASSUME NEW k \in Procs, RemoveStale(k) PROVE StaleInv'
  BY <1>0, <1>6, JobFacts, AtParts, OwnerGone DEF RemoveStale, RemoveDir, procVars, jobVars
<1>7. ASSUME NEW k \in Procs, ListRoots(k) PROVE StaleInv'
  BY <1>0, <1>7, JobFacts, AtParts, OwnerGone DEF ListRoots, jobVars
<1>8. ASSUME NEW k \in Procs, Reconciled(k) PROVE StaleInv'
  BY <1>0, <1>8, JobFacts, AtParts, OwnerGone DEF Reconciled, jobVars
<1>9. ASSUME NEW k \in Procs, Fails(k) PROVE StaleInv'
  BY <1>0, <1>9, JobFacts, AtParts, OwnerGone DEF Fails, jobVars
<1>10. ASSUME NEW k \in Procs, NEW i \in Jobs, DropJob(k, i) PROVE StaleInv'
  BY <1>0, <1>10, JobFacts, AtParts, OwnerGone DEF DropJob, KillGroup, procVars
<1>11. ASSUME NEW i \in Jobs, StartJob(i) PROVE StaleInv'
  BY <1>0, <1>11, JobFacts, AtParts, OwnerGone DEF StartJob, procVars
<1>12. ASSUME NEW i \in Jobs, MakeRoot(i) PROVE StaleInv'
  BY <1>0, <1>12, JobFacts, AtParts, OwnerGone DEF MakeRoot, Calls, procVars
<1>13. ASSUME NEW i \in Jobs, MakeGroup(i) PROVE StaleInv'
  BY <1>0, <1>13, JobFacts, AtParts, OwnerGone DEF MakeGroup, Calls, procVars
<1>14. ASSUME NEW i \in Jobs, Clone(i) PROVE StaleInv'
  BY <1>0, <1>14, JobFacts, AtParts, OwnerGone DEF Clone, Calls, procVars
<1>15. ASSUME NEW i \in Jobs, StopGuest(i) PROVE StaleInv'
  BY <1>0, <1>15, JobFacts, AtParts, OwnerGone DEF StopGuest, Calls, procVars
<1>16. ASSUME NEW i \in Jobs, DropGroup(i) PROVE StaleInv'
  BY <1>0, <1>16, JobFacts, AtParts, OwnerGone DEF DropGroup, Calls, procVars
<1>17. ASSUME NEW i \in Jobs, DropRoot(i) PROVE StaleInv'
  BY <1>0, <1>17, JobFacts, AtParts, OwnerGone DEF DropRoot, Calls, procVars
<1>18. ASSUME NEW i \in Jobs, Cancel(i) PROVE StaleInv'
  BY <1>0, <1>18, JobFacts, AtParts, OwnerGone DEF Cancel, procVars
<1>19. ASSUME NEW i \in Jobs, Dies(i) PROVE StaleInv'
  BY <1>0, <1>19, JobFacts, AtParts, OwnerGone DEF Dies, procVars
<1>20. ASSUME NEW i \in Jobs, GuestDies(i) PROVE StaleInv'
  BY <1>0, <1>20, JobFacts, AtParts, OwnerGone DEF GuestDies, procVars, jobVars
<1>21. ASSUME NEW i \in Jobs, WaiterStarts(i) PROVE StaleInv'
  BY <1>0, <1>21, JobFacts, AtParts, OwnerGone DEF WaiterStarts, KillGroup, procVars, jobVars
<1>22. ASSUME NEW c \in Cleaners, CleanGroup(c) PROVE StaleInv'
  BY <1>0, <1>22, JobFacts, AtParts, OwnerGone DEF CleanGroup, RemoveDir, procVars, jobVars
<1>23. ASSUME NEW c \in Cleaners, CleanRoot(c) PROVE StaleInv'
  BY <1>0, <1>23, JobFacts, AtParts, OwnerGone DEF CleanRoot, RemoveRoot, procVars, jobVars
<1>24. CASE UNCHANGED vars
  BY <1>0, <1>24 DEF vars, procVars, jobVars
<1> QED
  BY <1>1, <1>2, <1>3, <1>4, <1>5, <1>6, <1>7, <1>8, <1>9, <1>10, <1>11, <1>12, <1>13,
     <1>14, <1>15, <1>16, <1>17, <1>18, <1>19, <1>20, <1>21, <1>22, <1>23, <1>24
     DEF Next, Reconcile, Launch, CleanUp, Crash, Returns, Dropped, Working

-----------------------------------------------------------------------------
(* The theorems.                                                            *)

LEMMA InitInv == Init => IInv
<1> SUFFICES ASSUME Init PROVE IInv
  OBVIOUS
<1>1. TypeOK
  <2>1. (CHOOSE p \in Pids : TRUE) \in Pids
    BY ReconcileAssumption
  <2> QED BY <2>1 DEF Init, TypeOK
<1>2. \A k \in Procs : Main(k) \in Cleaners
  BY JobFacts
<1>3. AtInv /\ FreshInv /\ GuestInv
  BY <1>2, JobFacts DEF Init, AtInv, FreshInv, GuestInv
<1>4. RunningUndisturbed /\ CleanInv /\ StaleInv
  BY JobFacts DEF Init, RunningUndisturbed, CleanInv, StaleInv, Reconciling
<1> QED BY <1>1, <1>3, <1>4 DEF IInv

LEMMA NextInv == IInv /\ [Next]_vars => IInv'
BY TypeStep, NextAt, NextFresh, NextGuest, NextUndisturbed, NextCleaned, NextStale DEF IInv

\* The invariant holds of every behaviour, for any number of processes, PIDs and jobs.
THEOREM ReconcileInvariant == Spec => []IInv
<1>1. Init => IInv
  BY InitInv
<1>2. IInv /\ [Next]_vars => IInv'
  BY NextInv
<1> QED BY <1>1, <1>2, PTL DEF Spec

\* Reconciliation never disturbs a job whose owner is alive and could be read, however
\* PIDs are used again (supervisor.rs, owner_is_dead and reconcile_stale_jobs).
THEOREM RunningUndisturbedHolds == Spec => []RunningUndisturbed
<1>1. IInv => RunningUndisturbed
  BY DEF IInv
<1> QED BY <1>1, ReconcileInvariant, PTL

\* What was abandoned when a supervisor started is gone when it serves.
THEOREM NothingStaleHolds == Spec => []NothingStale
<1>1. IInv => NothingStale
  BY DEF IInv, StaleInv, NothingStale, Reconciling
<1> QED BY <1>1, ReconcileInvariant, PTL

\* A job reported as finished has left nothing, unless a removal failed.
THEOREM ReportedIsCleanHolds == Spec => []ReportedIsClean
<1>1. IInv => ReportedIsClean
  BY DEF IInv, CleanInv, ReportedIsClean
<1> QED BY <1>1, ReconcileInvariant, PTL

=============================================================================
