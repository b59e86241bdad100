---------------------------- MODULE LauncherProofs ----------------------------
(* Proofs about Launcher, for every set of streams, budget and pipe size. *)
EXTENDS Launcher, SumProofs, TLAPS

-----------------------------------------------------------------------------
(* The inductive invariant.                                                 *)

\* Where launch() is tells what has become of the guest, of the readers and of the
\* directories.
Control ==
    /\ pc \in {"creating", "cloning"} => guest = "none"
    /\ pc \in {"creating", "cloning"} \cup Setup => \A s \in Streams : reader[s] = "none"
    /\ pc \in {"joining", "done"} => guest = "reaped"
    /\ pc \in {"dropping", "failed"} => guest \in Gone
    /\ pc \in {"creating", "cloning"} => ~stuck /\ (pc = "cloning" => box /\ staging)
    /\ guest \in Live => box /\ staging /\ ~stuck
    /\ pc \in Returned => (staging => stuck)
    /\ pc = "done" => ~box /\ (\A s \in Streams : reader[s] = "done")

\* A launcher that was killed left no guest that survives it.
Doom == pc = "killed" /\ guest \in Live \ {"cloned"} => doomed

\* The readers share one budget.
BudgetKept == Total(kept) + remaining = Budget

\* Bytes of a stream that are not lost: kept, in the reader's hands, or in the pipe.
Accounted(s) == kept[s] + pipe[s] + (IF reader[s] = "claiming" THEN chunk[s] ELSE 0)

\* A byte is lost exactly when overflow was raised, and none is left at the end.
Bytes ==
    /\ \A s \in Streams : Accounted(s) <= written[s]
    /\ overflow <=> \E s \in Streams : Accounted(s) < written[s]
    /\ \A s \in Streams : reader[s] = "done" => pipe[s] = 0 /\ guest \notin Live
    /\ pc = "done" => flagged = overflow

\* What the monitor remembers of its reason to kill is still so.
Reasons ==
    /\ late => expired
    /\ reason = "deadline" => timedOut /\ expired
    /\ reason = "overflow" => overflow
    /\ pc = "done" => reason # "artifact"

IInv == TypeOK /\ Control /\ Doom /\ BudgetKept /\ Bytes /\ Reasons

-----------------------------------------------------------------------------
(* The steps, grouped by what they leave alone.                             *)

\* Steps that touch neither the streams nor their readers.
Quiet ==
    \/ Create \/ Clone \/ Armed \/ Release \/ SetupFails \/ TryWait \/ Check \/ Poll \/ Wait
    \/ Join \/ MonitorFails \/ DropChild \/ DropHost \/ Killed \/ Expire
    \/ Arm \/ SetUp \/ Exec \/ Exits \/ IsKilled \/ Deserted \/ Inherited
    \/ WriterEnds \/ UNCHANGED vars

streamVars == <<pipe, written, remaining, overflow, reader, chunk, seen, kept>>

LEMMA NextCases ==
    ASSUME [Next]_vars
    PROVE  Quiet \/ Ready \/ \E s \in Streams : Prints(s) \/ ReadChunk(s) \/ Claim(s) \/ ReadEof(s)
BY DEF Next, Launch, GuestSetup, Reader, Quiet, Over

LEMMA QuietStreams ==
    ASSUME Quiet
    PROVE  UNCHANGED streamVars
BY DEF Quiet, streamVars, vars, readVars, runVars, guestVars, hostVars, Create, Clone, Armed, Release,
       SetupFails, TryWait, Check, Poll, Wait, Join, MonitorFails, DropChild, DropHost, Killed, Expire,
       Arm, SetUp, Exec, Exits, IsKilled, Deserted, Inherited, WriterEnds, Dies, GuestOnly, ThreadOnly

\* What those steps do to the rest of the state.
LEMMA QuietTypes ==
    ASSUME TypeOK, Quiet
    PROVE  /\ pc' \in {"creating", "cloning", "failing", "dropping"} \cup Setup \cup Monitoring \cup Ended
           /\ guest' \in Live \cup Gone \cup {"zombie"}
           /\ status' \in {"none", "exited", "failed", "killed"}
           /\ {expired', doomed', box', staging', stuck', late', timedOut', flagged'} \subseteq BOOLEAN
           /\ reason' \in {"none", "deadline", "overflow", "artifact"}
           /\ writer' \in {"none", "writing", "done"}
<1> USE LauncherAssumption DEF TypeOK, Setup, Monitoring, Ended, Returned, Live, Gone, runVars, guestVars,
                               hostVars, readVars
<1>1. CASE Create
  BY ZenonT(40), <1>1 DEF Create
<1>2. CASE Clone
  BY <1>2 DEF Clone
<1>3. CASE Armed
  BY <1>3 DEF Armed
<1>4. CASE Release
  BY <1>4 DEF Release
<1>5. CASE SetupFails
  BY <1>5 DEF SetupFails
<1>6. CASE TryWait
  BY <1>6 DEF TryWait
<1>7. CASE Check
  BY <1>7 DEF Check
<1>8. CASE Poll
  BY <1>8 DEF Poll
<1>9. CASE Wait
  BY <1>9 DEF Wait
<1>10. CASE Join
  BY <1>10 DEF Join, RemoveStaging
<1>11. CASE MonitorFails
  BY <1>11 DEF MonitorFails
<1>12. CASE DropChild
  BY <1>12 DEF DropChild
<1>13. CASE DropHost
  BY <1>13 DEF DropHost, RemoveStaging
<1>14. CASE Killed
  BY <1>14 DEF Killed
<1>15. CASE Expire
  BY <1>15 DEF Expire
<1>16. CASE Arm
  BY <1>16 DEF Arm, Dies, GuestOnly
<1>17. CASE SetUp
  BY <1>17 DEF SetUp, Dies, GuestOnly
<1>18. CASE Exec
  BY <1>18 DEF Exec, Dies, GuestOnly
<1>19. CASE Exits
  BY <1>19 DEF Exits, Dies, GuestOnly
<1>20. CASE IsKilled
  BY <1>20 DEF IsKilled, Dies, GuestOnly
<1>21. CASE Deserted
  BY <1>21 DEF Deserted, Dies, GuestOnly
<1>22. CASE Inherited
  BY <1>22 DEF Inherited, Dies, GuestOnly
<1>23. CASE WriterEnds
  BY <1>23 DEF WriterEnds, ThreadOnly
<1>24. CASE UNCHANGED vars
  BY <1>24 DEF vars
<1>25. QED
  BY <1>1, <1>2, <1>3, <1>4, <1>5, <1>6, <1>7, <1>8, <1>9, <1>10, <1>11, <1>12, <1>13, <1>14, <1>15, <1>16, <1>17, <1>18, <1>19, <1>20, <1>21, <1>22, <1>23, <1>24
     DEF Quiet

-----------------------------------------------------------------------------
(* The types.                                                               *)

LEMMA TypeStep ==
    ASSUME TypeOK, [Next]_vars
    PROVE  TypeOK'
<1> USE LauncherAssumption
<1>1. CASE Quiet
  <2>1. UNCHANGED streamVars
    BY <1>1, QuietStreams
  <2>2. QED
    BY <1>1, <2>1, QuietTypes DEF TypeOK, streamVars
<1>2. CASE Ready
  BY <1>2 DEF TypeOK, Ready, runVars, guestVars, hostVars, Setup, Monitoring
<1>3. ASSUME NEW s \in Streams, Prints(s) PROVE TypeOK'
  BY <1>3 DEF TypeOK, Prints, GuestOnly, readVars, runVars, guestVars, hostVars
<1>4. ASSUME NEW s \in Streams, ReadChunk(s) PROVE TypeOK'
  BY <1>4 DEF TypeOK, ReadChunk, ThreadOnly, runVars, guestVars, hostVars
<1>5. ASSUME NEW s \in Streams, Claim(s) PROVE TypeOK'
  <2>1. /\ pc' = pc /\ guest' = guest /\ status' = status /\ expired' = expired /\ doomed' = doomed
        /\ box' = box /\ staging' = staging /\ stuck' = stuck /\ late' = late /\ timedOut' = timedOut
        /\ reason' = reason /\ flagged' = flagged /\ pipe' = pipe /\ written' = written
        /\ chunk' = chunk /\ writer' = writer
    BY <1>5 DEF Claim, ThreadOnly, runVars, guestVars, hostVars
  <2>2. CASE seen[s] # remaining
    <3>1. /\ seen' = [seen EXCEPT ![s] = remaining]
          /\ remaining' = remaining /\ overflow' = overflow /\ kept' = kept /\ reader' = reader
      BY <1>5, <2>2 DEF Claim
    <3>2. QED
      BY <2>1, <3>1 DEF TypeOK
  <2>3. CASE seen[s] = remaining
    <3> DEFINE claimed == Lesser(chunk[s], remaining)
    <3>1. claimed \in Nat /\ claimed <= remaining /\ remaining - claimed \in 0 .. Budget
      BY DEF TypeOK, Lesser
    <3>2. /\ remaining' = remaining - claimed
          /\ kept' = [kept EXCEPT ![s] = @ + claimed]
          /\ overflow' = (overflow \/ claimed < chunk[s])
          /\ reader' = [reader EXCEPT ![s] = "reading"]
          /\ seen' = seen
      BY <1>5, <2>3 DEF Claim
    <3>3. overflow' \in BOOLEAN
      BY <3>2 DEF TypeOK
    <3> HIDE DEF claimed
    <3>4. kept' \in [Streams -> Nat]
      BY <3>1, <3>2 DEF TypeOK
    <3>5. reader' \in [Streams -> {"none", "reading", "claiming", "done"}]
      BY <3>2 DEF TypeOK
    <3>6. QED
      BY <2>1, <3>1, <3>2, <3>3, <3>4, <3>5 DEF TypeOK
  <2>4. QED
    BY <2>2, <2>3
<1>6. ASSUME NEW s \in Streams, ReadEof(s) PROVE TypeOK'
  BY <1>6 DEF TypeOK, ReadEof, ThreadOnly, runVars, guestVars, hostVars
<1>7. QED
  BY <1>1, <1>2, <1>3, <1>4, <1>5, <1>6, NextCases

-----------------------------------------------------------------------------
(* The control, and the guest of a launcher that was killed.                *)

\* Readers only move while the launcher lives, and stop for good.
LEMMA QuietControl ==
    ASSUME TypeOK, Control, Doom, Quiet
    PROVE  Control' /\ Doom'
<1>1. reader' = reader
  BY QuietStreams DEF streamVars
<1> USE DEF TypeOK, Control, Doom, Setup, Monitoring, Ended, Returned, Live, Gone, runVars, guestVars,
            hostVars, readVars
<1>2. CASE Create
  BY <1>1, <1>2 DEF Create
<1>3. CASE Clone
  BY <1>1, <1>3 DEF Clone
<1>4. CASE Armed
  BY <1>1, <1>4 DEF Armed
<1>5. CASE Release
  BY <1>1, <1>5 DEF Release
<1>6. CASE SetupFails
  BY <1>1, <1>6 DEF SetupFails
<1>7. CASE TryWait
  BY <1>1, <1>7 DEF TryWait
<1>8. CASE Check
  BY <1>1, <1>8 DEF Check
<1>9. CASE Poll
  BY <1>1, <1>9 DEF Poll
<1>10. CASE Wait
  BY <1>1, <1>10 DEF Wait
<1>11. CASE Join
  BY <1>1, <1>11 DEF Join, RemoveStaging
<1>12. CASE MonitorFails
  BY <1>1, <1>12 DEF MonitorFails
<1>13. CASE DropChild
  BY <1>1, <1>13 DEF DropChild
<1>14. CASE DropHost
  BY <1>1, <1>14 DEF DropHost, RemoveStaging
<1>15. CASE Killed
  BY <1>1, <1>15 DEF Killed
<1>16. CASE Expire
  BY <1>1, <1>16 DEF Expire
<1>17. CASE Arm
  BY <1>1, <1>17 DEF Arm, Dies, GuestOnly
<1>18. CASE SetUp
  <2>1. /\ guest = "setup" /\ guest' \in {"ready", "zombie"}
        /\ UNCHANGED <<pc, hostVars, doomed>>
    BY <1>18 DEF SetUp, Dies, GuestOnly
  <2>2. Control'
    BY <1>1, <2>1
  <2>3. Doom'
    BY <2>1
  <2>4. QED
    BY <2>2, <2>3
<1>19. CASE Exec
  BY <1>1, <1>19 DEF Exec, Dies, GuestOnly
<1>20. CASE Exits
  BY <1>1, <1>20 DEF Exits, Dies, GuestOnly
<1>21. CASE IsKilled
  BY <1>1, <1>21 DEF IsKilled, Dies, GuestOnly
<1>22. CASE Deserted
  BY <1>1, <1>22 DEF Deserted, Dies, GuestOnly
<1>23. CASE Inherited
  BY <1>1, <1>23 DEF Inherited, Dies, GuestOnly
<1>24. CASE WriterEnds
  BY <1>1, <1>24 DEF WriterEnds, ThreadOnly
<1>25. CASE UNCHANGED vars
  BY <1>1, <1>25 DEF vars
<1>26. QED
  BY <1>2, <1>3, <1>4, <1>5, <1>6, <1>7, <1>8, <1>9, <1>10, <1>11, <1>12, <1>13, <1>14, <1>15, <1>16, <1>17, <1>18, <1>19, <1>20, <1>21, <1>22, <1>23, <1>24, <1>25
     DEF Quiet

LEMMA ControlStep ==
    ASSUME TypeOK, Control, Doom, [Next]_vars
    PROVE  Control' /\ Doom'
<1>1. CASE Quiet
  BY <1>1, QuietControl
<1>2. CASE Ready
  BY <1>2 DEF Ready, TypeOK, Control, Doom, Setup, Returned, Live, Gone, guestVars, hostVars
<1>3. ASSUME NEW s \in Streams, Prints(s) PROVE Control' /\ Doom'
  BY <1>3 DEF Prints, GuestOnly, readVars, Control, Doom, Setup, Returned, Live, Gone, guestVars, hostVars
<1>4. ASSUME NEW s \in Streams, ReadChunk(s) \/ Claim(s) \/ ReadEof(s) PROVE Control' /\ Doom'
  <2>1. /\ pc' = pc /\ guest' = guest /\ doomed' = doomed /\ box' = box /\ staging' = staging /\ stuck' = stuck
        /\ pc \notin Ended /\ reader[s] # "none"
    BY <1>4 DEF ReadChunk, Claim, ReadEof, ThreadOnly, Threads, guestVars, hostVars
  <2>2. pc \notin {"creating", "cloning"} \cup Setup \cup Returned
    BY <2>1 DEF Control, Ended, Returned
  <2>3. QED
    BY <2>1, <2>2 DEF Control, Doom, Returned
<1>5. QED
  BY <1>1, <1>2, <1>3, <1>4, NextCases

-----------------------------------------------------------------------------
(* The bytes.                                                               *)

\* What Claim(s) does when the budget is the one its reader loaded.
LEMMA Claimed ==
    ASSUME TypeOK, NEW s \in Streams, Claim(s), seen[s] = remaining
    PROVE  \E claimed \in 0 .. remaining :
              /\ claimed <= chunk[s] /\ (claimed < chunk[s] => claimed = remaining)
              /\ remaining' = remaining - claimed
              /\ kept' = [kept EXCEPT ![s] = @ + claimed]
              /\ overflow' = (overflow \/ claimed < chunk[s])
              /\ reader' = [reader EXCEPT ![s] = "reading"]
<1>1. Lesser(chunk[s], remaining) \in 0 .. remaining
  BY LauncherAssumption DEF TypeOK, Lesser
<1>2. /\ Lesser(chunk[s], remaining) <= chunk[s]
      /\ Lesser(chunk[s], remaining) < chunk[s] => Lesser(chunk[s], remaining) = remaining
  BY LauncherAssumption DEF TypeOK, Lesser
<1>3. QED
  BY <1>1, <1>2 DEF Claim

LEMMA BudgetStep ==
    ASSUME TypeOK, BudgetKept, [Next]_vars
    PROVE  BudgetKept'
<1>1. Total(kept) = SumFunctionOnSet(kept, Streams) /\ Total(kept') = SumFunctionOnSet(kept', Streams)
  BY DEF Total, MapThenSumSet, SumFunctionOnSet, FoldFunctionOnSet
<1>2. IsFiniteSet(Streams) /\ Terms(kept, Streams)
  BY LauncherAssumption DEF TypeOK, Terms
<1>3. CASE kept' = kept /\ remaining' = remaining
  BY <1>3 DEF BudgetKept
<1>4. ASSUME NEW s \in Streams, Claim(s), seen[s] = remaining PROVE BudgetKept'
  <2>1. PICK claimed \in 0 .. remaining :
           remaining' = remaining - claimed /\ kept' = [kept EXCEPT ![s] = @ + claimed]
    BY <1>4, Claimed
  <2>2. kept \in [Streams -> Nat] /\ remaining \in Nat /\ Budget \in Nat
    BY LauncherAssumption DEF TypeOK
  <2>3. Terms(kept', Streams) /\ kept'[s] - kept[s] = claimed /\ \A t \in Streams \ {s} : kept'[t] = kept[t]
    BY <2>1, <2>2 DEF Terms
  <2>4. SumFunctionOnSet(kept', Streams) = SumFunctionOnSet(kept, Streams) + (kept'[s] - kept[s])
    BY <1>2, <2>3, SumUpdate
  <2>5. SumFunctionOnSet(kept, Streams) \in Int
    BY <1>2, SumType
  <2>6. QED
    BY <1>1, <2>1, <2>2, <2>3, <2>4, <2>5 DEF BudgetKept
<1>5. Quiet => kept' = kept /\ remaining' = remaining
  BY QuietStreams DEF streamVars
<1>6. QED
  BY <1>3, <1>4, <1>5, NextCases DEF Ready, Prints, ReadChunk, Claim, ReadEof, GuestOnly, readVars

\* Quiet steps: no byte moves, and a guest that is gone does not come back.
LEMMA QuietBytes ==
    ASSUME TypeOK, Control, Bytes, Quiet
    PROVE  Bytes'
<1>1. UNCHANGED streamVars
  BY QuietStreams
<1>2. \A s \in Streams : Accounted(s)' = Accounted(s)
  BY <1>1 DEF Accounted, streamVars
<1>3. pc \in {"creating", "cloning"} \cup Setup => \A s \in Streams : reader[s] # "done"
  BY DEF Control
<1>4. pc \notin {"creating", "cloning"} \cup Setup /\ guest \notin Live => guest' \notin Live
  BY DEF Quiet, Live, Gone, Setup, guestVars, vars, Create, Clone, Armed, Release, SetupFails, TryWait, Check, Poll, Wait, Join, MonitorFails,
         DropChild, DropHost, Killed, Expire, Arm, SetUp, Exec, Exits, IsKilled, Deserted, Inherited,
         WriterEnds, Dies, GuestOnly, ThreadOnly
<1>5. (pc' = "done" => flagged' = overflow') \/ (pc' = pc /\ flagged' = flagged)
  BY <1>1 DEF Quiet, streamVars, Setup, Monitoring, Ended, Returned, vars, runVars, guestVars, hostVars, readVars,
         Create, Clone, Armed, Release, SetupFails, TryWait, Check, Poll, Wait, Join, MonitorFails,
         DropChild, DropHost, Killed, Expire, Arm, SetUp, Exec, Exits, IsKilled, Deserted, Inherited,
         WriterEnds, Dies, GuestOnly, ThreadOnly
<1>6. QED
  BY <1>1, <1>2, <1>3, <1>4, <1>5 DEF Bytes, streamVars

\* One reader's step, told by what it does to the bytes of its stream.
LEMMA StreamBytes ==
    ASSUME TypeOK, TypeOK', Bytes, pc' = pc, guest' = guest, flagged' = flagged, pc # "done",
           NEW s \in Streams,
           \A t \in Streams \ {s} : /\ reader'[t] = reader[t] /\ pipe'[t] = pipe[t]
                                    /\ kept'[t] = kept[t] /\ chunk'[t] = chunk[t]
                                    /\ written'[t] = written[t],
           reader'[s] = "done" => pipe'[s] = 0 /\ guest \notin Live,
           NEW lost \in Nat, written'[s] - Accounted(s)' = (written[s] - Accounted(s)) + lost,
           overflow' = (overflow \/ lost > 0)
    PROVE  Bytes'
<1>1. \A t \in Streams : /\ Accounted(t) \in Int /\ Accounted(t)' \in Int
                         /\ written[t] \in Int /\ written'[t] \in Int
  BY LauncherAssumption DEF TypeOK, Accounted
<1>2. \A t \in Streams \ {s} : Accounted(t)' = Accounted(t)
  BY DEF Accounted
<1>3. /\ Accounted(s)' <= written'[s]
      /\ Accounted(s)' < written'[s] <=> lost > 0 \/ Accounted(s) < written[s]
  BY <1>1 DEF Bytes
<1>4. \A t \in Streams : Accounted(t)' <= written'[t]
  BY <1>1, <1>2, <1>3 DEF Bytes
<1>5. (\E t \in Streams : Accounted(t)' < written'[t])
        <=> lost > 0 \/ \E t \in Streams : Accounted(t) < written[t]
  BY <1>1, <1>2, <1>3
<1>6. overflow' <=> \E t \in Streams : Accounted(t)' < written'[t]
  BY <1>5 DEF Bytes
<1>7. \A t \in Streams : reader'[t] = "done" => pipe'[t] = 0 /\ guest' \notin Live
  BY DEF Bytes
<1>8. QED
  BY <1>4, <1>6, <1>7 DEF Bytes

LEMMA BytesStep ==
    ASSUME TypeOK, Control, Bytes, [Next]_vars
    PROVE  Bytes'
<1>0. TypeOK'
  BY TypeStep
<1>1. CASE Quiet
  BY <1>1, QuietBytes
<1>2. CASE Ready
  <2>1. /\ \A s \in Streams : reader[s] = "none" /\ reader'[s] = "reading"
        /\ guest' = guest /\ pc' = "monitor" /\ pipe' = pipe /\ written' = written /\ kept' = kept
        /\ overflow' = overflow
    BY <1>2 DEF Ready, Control, Setup, guestVars
  <2>2. \A s \in Streams : Accounted(s)' = Accounted(s)
    BY <2>1 DEF Accounted
  <2>3. QED
    BY <2>1, <2>2 DEF Bytes
<1>3. ASSUME NEW s \in Streams, Prints(s) PROVE Bytes'
  <2>1. /\ pc' = pc /\ guest' = guest /\ guest = "running" /\ flagged' = flagged /\ reader' = reader
        /\ kept' = kept /\ chunk' = chunk /\ overflow' = overflow
        /\ pipe' = [pipe EXCEPT ![s] = @ + 1] /\ written' = [written EXCEPT ![s] = @ + 1]
    BY <1>3 DEF Prints, GuestOnly, readVars, guestVars
  <2>2. pc # "done" /\ reader[s] # "done"
    BY <2>1 DEF Control, Bytes, Live
  <2>3. pipe'[s] = pipe[s] + 1 /\ written'[s] = written[s] + 1
    BY <2>1 DEF TypeOK
  <2>4. Accounted(s)' = Accounted(s) + 1 /\ Accounted(s) \in Int /\ written[s] \in Int
    BY <2>1, <2>3, LauncherAssumption DEF TypeOK, Accounted
  <2>5. written'[s] - Accounted(s)' = (written[s] - Accounted(s)) + 0
    BY <2>3, <2>4
  <2>6. \A t \in Streams \ {s} : /\ reader'[t] = reader[t] /\ pipe'[t] = pipe[t] /\ kept'[t] = kept[t]
                                 /\ chunk'[t] = chunk[t] /\ written'[t] = written[t]
    BY <2>1 DEF TypeOK
  <2>7. reader'[s] # "done" /\ overflow' = (overflow \/ 0 > 0)
    BY <2>1, <2>2 DEF TypeOK
  <2>8. QED
    BY <1>0, <2>1, <2>2, <2>5, <2>6, <2>7, StreamBytes
<1>4. ASSUME NEW s \in Streams, ReadChunk(s) PROVE Bytes'
  <2>1. /\ pc' = pc /\ pc \notin Ended /\ guest' = guest /\ flagged' = flagged /\ overflow' = overflow
        /\ kept' = kept /\ written' = written /\ reader[s] = "reading"
        /\ reader' = [reader EXCEPT ![s] = "claiming"] /\ chunk' = [chunk EXCEPT ![s] = pipe[s]]
        /\ pipe' = [pipe EXCEPT ![s] = 0]
    BY <1>4 DEF ReadChunk, Threads, ThreadOnly, guestVars
  <2>2. reader'[s] = "claiming" /\ chunk'[s] = pipe[s] /\ pipe'[s] = 0 /\ pc # "done"
    BY <2>1 DEF TypeOK, Ended, Returned
  <2>3. Accounted(s)' = Accounted(s)
    BY <2>1, <2>2, LauncherAssumption DEF TypeOK, Accounted
  <2>4. Accounted(s) \in Int /\ written[s] \in Int /\ written'[s] = written[s]
    BY <2>1, LauncherAssumption DEF TypeOK, Accounted
  <2>5. written'[s] - Accounted(s)' = (written[s] - Accounted(s)) + 0
    BY <2>3, <2>4
  <2>6. \A t \in Streams \ {s} : /\ reader'[t] = reader[t] /\ pipe'[t] = pipe[t] /\ kept'[t] = kept[t]
                                 /\ chunk'[t] = chunk[t] /\ written'[t] = written[t]
    BY <2>1 DEF TypeOK
  <2>7. overflow' = (overflow \/ 0 > 0)
    BY <2>1 DEF TypeOK
  <2>8. QED
    BY <1>0, <2>1, <2>2, <2>5, <2>6, <2>7, StreamBytes
<1>5. ASSUME NEW s \in Streams, Claim(s) PROVE Bytes'
  <2>1. /\ pc' = pc /\ pc \notin Ended /\ guest' = guest /\ flagged' = flagged /\ pipe' = pipe
        /\ chunk' = chunk /\ written' = written /\ reader[s] = "claiming"
    BY <1>5 DEF Claim, Threads, ThreadOnly, guestVars
  <2>2. pc # "done"
    BY <2>1 DEF Ended, Returned
  <2>3. CASE seen[s] # remaining
    <3>1. overflow' = overflow /\ kept' = kept /\ reader' = reader
      BY <1>5, <2>3 DEF Claim
    <3>2. \A t \in Streams : Accounted(t)' = Accounted(t)
      BY <2>1, <3>1 DEF Accounted
    <3>3. QED
      BY <2>1, <3>1, <3>2 DEF Bytes
  <2>4. CASE seen[s] = remaining
    <3>1. PICK claimed \in 0 .. remaining :
             /\ claimed <= chunk[s]
             /\ kept' = [kept EXCEPT ![s] = @ + claimed]
             /\ overflow' = (overflow \/ claimed < chunk[s])
             /\ reader' = [reader EXCEPT ![s] = "reading"]
      BY <1>5, <2>4, Claimed
    <3> DEFINE lost == chunk[s] - claimed
    <3>2. /\ kept'[s] = kept[s] + claimed /\ reader'[s] = "reading"
          /\ kept[s] \in Nat /\ chunk[s] \in Nat /\ pipe[s] \in Nat /\ written[s] \in Nat
          /\ claimed \in Nat
      BY <3>1, LauncherAssumption DEF TypeOK
    <3>3. lost \in Nat /\ (lost > 0 <=> claimed < chunk[s])
      BY <3>1, <3>2
    <3>4. Accounted(s) = kept[s] + pipe[s] + chunk[s] /\ Accounted(s)' = kept[s] + claimed + pipe[s] + 0
      BY <2>1, <3>2 DEF Accounted
    <3>5. written'[s] - Accounted(s)' = (written[s] - Accounted(s)) + lost
      BY <2>1, <3>2, <3>4
    <3>6. overflow' = (overflow \/ lost > 0)
      BY <3>1, <3>3
    <3>7. \A t \in Streams \ {s} : /\ reader'[t] = reader[t] /\ pipe'[t] = pipe[t] /\ kept'[t] = kept[t]
                                   /\ chunk'[t] = chunk[t] /\ written'[t] = written[t]
      BY <2>1, <3>1 DEF TypeOK
    <3> HIDE DEF lost
    <3>8. QED
      BY <1>0, <2>1, <2>2, <3>2, <3>3, <3>5, <3>6, <3>7, StreamBytes
  <2>5. QED
    BY <2>3, <2>4
<1>6. ASSUME NEW s \in Streams, ReadEof(s) PROVE Bytes'
  <2>1. /\ pc' = pc /\ pc \notin Ended /\ guest' = guest /\ flagged' = flagged /\ overflow' = overflow
        /\ kept' = kept /\ written' = written /\ pipe' = pipe /\ chunk' = chunk /\ reader[s] = "reading"
        /\ reader' = [reader EXCEPT ![s] = "done"] /\ pipe[s] = 0 /\ guest \notin Live
    BY <1>6 DEF ReadEof, Threads, ThreadOnly, guestVars
  <2>2. \A t \in Streams : Accounted(t)' = Accounted(t)
    BY <2>1 DEF Accounted, TypeOK
  <2>3. \A t \in Streams : reader'[t] = "done" => t = s \/ reader[t] = "done"
    BY <2>1 DEF TypeOK
  <2>4. QED
    BY <2>1, <2>2, <2>3 DEF Bytes, Ended, Returned
<1>7. QED
  BY <1>1, <1>2, <1>3, <1>4, <1>5, <1>6, NextCases

-----------------------------------------------------------------------------
(* The reasons.                                                             *)

LEMMA QuietReasons ==
    ASSUME TypeOK, Reasons, Quiet
    PROVE  Reasons'
<1>1. overflow' = overflow
  BY QuietStreams DEF streamVars
<1> USE DEF TypeOK, Reasons, Setup, Monitoring, Ended, Returned, runVars, guestVars, hostVars, readVars
<1>2. CASE Create
  BY <1>1, <1>2 DEF Create
<1>3. CASE Clone
  BY <1>1, <1>3 DEF Clone
<1>4. CASE Armed
  BY <1>1, <1>4 DEF Armed
<1>5. CASE Release
  BY <1>1, <1>5 DEF Release
<1>6. CASE SetupFails
  BY <1>1, <1>6 DEF SetupFails
<1>7. CASE TryWait
  BY <1>1, <1>7 DEF TryWait
<1>8. CASE Check
  BY <1>1, <1>8 DEF Check
<1>9. CASE Poll
  BY <1>1, <1>9 DEF Poll
<1>10. CASE Wait
  BY <1>1, <1>10 DEF Wait
<1>11. CASE Join
  BY <1>1, <1>11 DEF Join, RemoveStaging
<1>12. CASE MonitorFails
  BY <1>1, <1>12 DEF MonitorFails
<1>13. CASE DropChild
  BY <1>1, <1>13 DEF DropChild
<1>14. CASE DropHost
  BY <1>1, <1>14 DEF DropHost, RemoveStaging
<1>15. CASE Killed
  BY <1>1, <1>15 DEF Killed
<1>16. CASE Expire
  BY <1>1, <1>16 DEF Expire
<1>17. CASE Arm
  BY <1>1, <1>17 DEF Arm, Dies, GuestOnly
<1>18. CASE SetUp
  BY <1>1, <1>18 DEF SetUp, Dies, GuestOnly
<1>19. CASE Exec
  BY <1>1, <1>19 DEF Exec, Dies, GuestOnly
<1>20. CASE Exits
  BY <1>1, <1>20 DEF Exits, Dies, GuestOnly
<1>21. CASE IsKilled
  BY <1>1, <1>21 DEF IsKilled, Dies, GuestOnly
<1>22. CASE Deserted
  BY <1>1, <1>22 DEF Deserted, Dies, GuestOnly
<1>23. CASE Inherited
  BY <1>1, <1>23 DEF Inherited, Dies, GuestOnly
<1>24. CASE WriterEnds
  BY <1>1, <1>24 DEF WriterEnds, ThreadOnly
<1>25. CASE UNCHANGED vars
  BY <1>1, <1>25 DEF vars
<1>26. QED
  BY <1>2, <1>3, <1>4, <1>5, <1>6, <1>7, <1>8, <1>9, <1>10, <1>11, <1>12, <1>13, <1>14, <1>15, <1>16, <1>17, <1>18, <1>19, <1>20, <1>21, <1>22, <1>23, <1>24, <1>25
     DEF Quiet

LEMMA ReasonsStep ==
    ASSUME TypeOK, Reasons, [Next]_vars
    PROVE  Reasons'
<1>1. CASE Quiet
  BY <1>1, QuietReasons
<1>2. CASE Ready
  BY <1>2 DEF Ready, Reasons, runVars
<1>3. ASSUME NEW s \in Streams, Prints(s) \/ ReadChunk(s) \/ ReadEof(s) PROVE Reasons'
  BY <1>3 DEF Prints, ReadChunk, ReadEof, GuestOnly, ThreadOnly, Reasons, runVars, readVars
<1>4. ASSUME NEW s \in Streams, Claim(s) PROVE Reasons'
  <2>1. pc' = pc /\ late' = late /\ expired' = expired /\ timedOut' = timedOut /\ reason' = reason
    BY <1>4 DEF Claim, ThreadOnly, runVars
  <2>2. overflow => overflow'
    BY <1>4 DEF Claim
  <2>3. QED
    BY <2>1, <2>2 DEF Reasons
<1>5. QED
  BY <1>1, <1>2, <1>3, <1>4, NextCases

-----------------------------------------------------------------------------
(* The theorems.                                                            *)

LEMMA LauncherInit == Init => IInv
<1> SUFFICES ASSUME Init PROVE IInv
  OBVIOUS
<1> USE LauncherAssumption
<1>1. TypeOK
  <2>0. {expired, doomed, box, staging, stuck, late, timedOut, overflow, flagged} \subseteq BOOLEAN
    <3>1. {FALSE} \subseteq BOOLEAN
      OBVIOUS
    <3>2. {expired, doomed, box, staging, stuck, late, timedOut, overflow, flagged} = {FALSE}
      BY Zenon DEF Init
    <3>3. QED
      BY <3>1, <3>2
  <2>1. guest \in Gone /\ 0 \in 0 .. PipeCap /\ 0 \in 0 .. MaxWritten /\ 0 \in 0 .. Budget
    BY DEF Init, Gone
  <2>2. /\ pipe \in [Streams -> 0 .. PipeCap] /\ written \in [Streams -> 0 .. MaxWritten]
        /\ chunk \in [Streams -> 0 .. PipeCap] /\ seen \in [Streams -> 0 .. Budget]
        /\ kept \in [Streams -> Nat] /\ remaining \in 0 .. Budget
        /\ reader \in [Streams -> {"none", "reading", "claiming", "done"}]
    BY <2>1 DEF Init
  <2>3. QED
    BY <2>0, <2>1, <2>2 DEF Init, TypeOK
<1>2. Control /\ Doom /\ Reasons
  BY DEF Init, Control, Doom, Reasons, Setup, Returned, Live
<1>3. BudgetKept
  <2>1. Terms(kept, Streams) /\ \A s \in Streams : kept[s] = 0
    BY DEF Init, Terms
  <2>2. SumFunctionOnSet(kept, Streams) = 0
    BY <2>1, SumZero
  <2>3. Total(kept) = 0
    BY <2>2 DEF Total, MapThenSumSet, SumFunctionOnSet, FoldFunctionOnSet
  <2>4. QED
    BY <2>3 DEF Init, BudgetKept
<1>4. Bytes
  <2>1. \A s \in Streams : Accounted(s) = 0 /\ written[s] = 0
    BY DEF Init, Accounted
  <2>2. QED
    BY <2>1 DEF Init, Bytes
<1>5. QED
  BY <1>1, <1>2, <1>3, <1>4 DEF IInv

\* The inductive invariant holds of every run.
THEOREM LauncherInvariant == Spec => []IInv
<1>1. IInv /\ [Next]_vars => IInv'
  BY TypeStep, ControlStep, BudgetStep, BytesStep, ReasonsStep DEF IInv
<1>2. QED
  BY <1>1, LauncherInit, PTL DEF Spec

\* A result says what happened: the streams together are kept up to the budget
\* whatever the readers' race, output that was cut is flagged and only that is, and a
\* guest the monitor killed is not reported without the reason (job.rs:309-330).
THEOREM ResultHonestHolds == Spec => []ResultHonest
<1>1. IInv => ResultHonest
  <2> SUFFICES ASSUME IInv PROVE ResultHonest
    OBVIOUS
  <2>1. TypeOK /\ KillExplained
    BY DEF IInv, TypeOK, Reasons, Bytes, KillExplained
  <2>2. ASSUME pc = "done" PROVE flagged <=> \E s \in Streams : kept[s] < written[s]
    <3>1. \A s \in Streams : reader[s] = "done" /\ pipe[s] = 0
      BY <2>2 DEF IInv, Control, Bytes
    <3>2. \A s \in Streams : Accounted(s) = kept[s]
      BY <3>1 DEF IInv, TypeOK, Accounted
    <3>3. QED
      BY <2>2, <3>2 DEF IInv, Bytes
  <2>3. QED
    BY <2>1, <2>2 DEF IInv, BudgetKept, ResultHonest, OutputHonest
<1>2. QED
  BY <1>1, LauncherInvariant, PTL

\* The guards undo every setup that was begun, in the order that is safe: nothing of the
\* host is taken away under a live guest, launch() returns with the guest reaped and no
\* staging root but one whose removal failed, and with a result the cgroup is gone too.
THEOREM NothingLeftHolds == Spec => []NothingLeft
<1>1. IInv => NothingLeft
  BY DEF IInv, Control, NothingLeft, Returned, Gone, Live
<1>2. QED
  BY <1>1, LauncherInvariant, PTL

\* A launcher that died leaves no guest that runs on its own.
THEOREM GuestAttachedHolds == Spec => []GuestAttached
<1>1. IInv => GuestAttached
  BY DEF IInv, Control, Doom, GuestAttached, Ended, Returned, Gone, Live
<1>2. QED
  BY <1>1, LauncherInvariant, PTL
===============================================================================
