--------------------------- MODULE DailyUpdateProofs ---------------------------
(***************************************************************************)
(* Proofs about DailyUpdate for any number of nodes, days, runs and kills. *)
(*                                                                         *)
(* The invariants of the runs are not inductive: who is out of the pool    *)
(* follows from who holds the lock, and what a follower has waited for     *)
(* follows from what the record on the shared filesystem stands for. IInv  *)
(* says both.                                                              *)
(***************************************************************************)
EXTENDS DailyUpdate, TLAPS

\* Steps that a wrapper takes with the shared lock in hand.
Locked == {"drain"} \cup Working

\* Steps that a wrapper takes after the canary gate.
Admitted == {"lock"} \cup Locked

\* A wrapper under the lock holds it (two nodes cannot both), ...
LockHeld == \A n \in Nodes : pc[n] \in Locked => holder = n

\* ... the marker covers exactly the work, up to the ExecStopPost, except
\* that a run by hand may lose it or leave it behind, ...
MarkerCoversWork ==
  \A n \in Nodes :
    /\ pc[n] \in Working => n \in created /\ (n \notin manual => n \in drained)
    /\ n \in drained => pc[n] \in Working \cup {"stopping"} \/ n \in left

\* ... a run by hand is past the canary gate and ends without a unit, ...
ManualIsAdmitted == \A n \in manual : pc[n] \in Admitted

\* ... and a record stands for a healthy run of the canary on its date, so
\* that every admitted follower has one behind it.
RecordIsEarned ==
  /\ recDay # 0 => recDay \in passed
  /\ \A n \in Nodes \ ({Canary} \cup manual) :
       pc[n] \in Admitted => since[n] \in passed

\* What the end of a wrapper's process can do to its node's marker.
MarkerMoves(n) == Removes(n) \/ Keeps(n) \/ Writes(n)

IInv == TypeOK /\ LockHeld /\ MarkerCoversWork /\ ManualIsAdmitted /\ RecordIsEarned

-----------------------------------------------------------------------------

\* The inductive invariant holds at the start.
LEMMA InitSafe == Init => IInv
<1> SUFFICES ASSUME Init PROVE IInv
  OBVIOUS
<1>1. TypeOK
  <2>1. day \in 1..MaxDay /\ recDay \in 0..MaxDay /\ runs \in 0..MaxRuns /\ kills \in 0..MaxKills
    BY DailyConstantsOK DEF Init
  <2>2. health \in [Nodes -> Healths] /\ pc \in [Nodes -> Steps] /\ rc \in [Nodes -> BOOLEAN]
    BY DEF Init, Healths, Steps
  <2>3. since \in [Nodes -> 0..MaxDay]
    BY DailyConstantsOK DEF Init
  <2>4. QED
    BY <2>1, <2>2, <2>3 DEF Init, TypeOK
<1>2. LockHeld /\ MarkerCoversWork /\ ManualIsAdmitted /\ RecordIsEarned
  BY DEF Init, LockHeld, MarkerCoversWork, ManualIsAdmitted, RecordIsEarned, Locked, Working, Admitted
<1>3. QED
  BY <1>1, <1>2 DEF IInv

\* Whatever ends a wrapper's process keeps the invariant: it may keep the
\* marker, for the unit to remove, or remove it, but it leaves nobody working
\* and no lock of its own.
LEMMA StopSafe ==
  ASSUME IInv, NEW n \in Nodes, Stop(n),
         MarkerMoves(n),
         health' \in [Nodes -> Healths], UNCHANGED <<since, day>>,
         runs' \in 0..MaxRuns, kills' \in 0..MaxKills,
         settled' \in BOOLEAN, passed \subseteq passed', passed' \subseteq 1..MaxDay,
         recDay' \in 0..MaxDay, recDay' # 0 => recDay' \in passed'
  PROVE  IInv'
<1> USE DailyConstantsOK
<1>1. PICK s \in {"idle", "stopping"} :
        pc' = [pc EXCEPT ![n] = s] /\ (s = "idle" => n \in manual)
  BY DEF Stop, Goto
<1>steps. pc' \in [Nodes -> Steps]
  BY <1>1 DEF IInv, TypeOK, Steps
<1>cleared. created' = created \ {n} /\ manual' = manual \ {n}
  BY DEF Stop
<1>2. TypeOK'
  BY <1>steps DEF Stop, IInv, TypeOK, Healths, MarkerMoves, Removes, Keeps, Writes
<1>3. LockHeld'
  <2> SUFFICES ASSUME NEW m \in Nodes, pc'[m] \in Locked
               PROVE  holder' = m
    BY DEF LockHeld
  <2>1. m # n /\ pc[m] \in Locked
    BY <1>1 DEF IInv, TypeOK, Locked, Working
  <2> QED
    BY <2>1 DEF IInv, LockHeld, Stop
<1>4. MarkerCoversWork'
  BY <1>1, <1>cleared DEF IInv, TypeOK, MarkerCoversWork, Working, MarkerMoves,
                    Removes, Keeps, Writes
<1>5. ManualIsAdmitted' /\ RecordIsEarned'
  BY <1>1, <1>cleared DEF IInv, TypeOK, ManualIsAdmitted, RecordIsEarned, Admitted,
                    Locked, Working
<1> QED
  BY <1>2, <1>3, <1>4, <1>5 DEF IInv

\* A wrapper under the lock that goes on working keeps the invariant.
LEMMA WorkSafe ==
  ASSUME IInv, NEW n \in Nodes, NEW next \in Working, pc[n] \in Working,
         Goto(n, next), health' \in [Nodes -> Healths],
         rc' \in [Nodes -> BOOLEAN], UNCHANGED <<created, manual>>,
         retried' \in {retried, retried \cup {n}},
         UNCHANGED <<shared, marker, history, bounds>>
  PROVE  IInv'
<1>1. pc' = [pc EXCEPT ![n] = next] /\ pc' \in [Nodes -> Steps]
  BY DEF Goto, IInv, TypeOK, Steps
<1>2. TypeOK'
  BY <1>1 DEF marker, IInv, TypeOK, shared, history, bounds
<1>3. LockHeld'
  BY <1>1 DEF IInv, TypeOK, LockHeld, Locked, Working, shared
<1>4. MarkerCoversWork'
  BY <1>1 DEF marker, IInv, TypeOK, MarkerCoversWork, Working
<1>5. ManualIsAdmitted' /\ RecordIsEarned'
  BY <1>1 DEF IInv, TypeOK, ManualIsAdmitted, RecordIsEarned, Admitted, Locked,
              Working, shared, history
<1> QED
  BY <1>2, <1>3, <1>4, <1>5 DEF IInv

\* Every step of every wrapper, of systemd, of time and of the faults keeps
\* the invariant.
LEMMA StepSafe == IInv /\ [Next]_vars => IInv'
<1> SUFFICES ASSUME IInv, [Next]_vars PROVE IInv'
  OBVIOUS
<1> USE DailyConstantsOK
<1>1. TypeOK /\ LockHeld /\ MarkerCoversWork /\ ManualIsAdmitted /\ RecordIsEarned
  BY DEF IInv
<1>2. day \in 0..MaxDay /\ 0 \in 0..MaxDay /\ passed \cup {day} \subseteq 1..MaxDay
  BY <1>1 DEF TypeOK
<1>3. ASSUME NEW n \in Nodes, Trigger(n) PROVE IInv'
  <2>1. pc' = [pc EXCEPT ![n] = "gate"] /\ pc[n] = "idle" /\ runs' \in 0..MaxRuns
    BY <1>1, <1>3 DEF Trigger, Goto, TypeOK
  <2>2. TypeOK'
    BY <1>1, <1>3, <2>1 DEF marker, Trigger, TypeOK, Steps, shared, locals, history
  <2>3. LockHeld' /\ MarkerCoversWork'
    BY <1>1, <1>3, <2>1 DEF marker, Trigger, TypeOK, LockHeld, MarkerCoversWork, Locked,
                            Working, shared, locals
  <2>4. ManualIsAdmitted' /\ RecordIsEarned'
    BY <1>1, <1>3, <2>1 DEF Trigger, TypeOK, ManualIsAdmitted, RecordIsEarned, Admitted, Locked,
                            Working, shared, locals, history
  <2>5. QED
    BY <2>2, <2>3, <2>4 DEF IInv
<1>4. CASE CanaryStarts
  <2>1. pc' = [pc EXCEPT ![Canary] = "lock"] /\ pc[Canary] = "gate"
    BY <1>4 DEF CanaryStarts, Goto
  <2>2. TypeOK'
    BY <1>2, <1>1, <1>4, <2>1 DEF marker, CanaryStarts, TypeOK, Steps, locals, bounds
  <2>3. LockHeld' /\ MarkerCoversWork'
    BY <1>1, <1>4, <2>1 DEF marker, CanaryStarts, TypeOK, LockHeld, MarkerCoversWork, ManualIsAdmitted,
                            Locked, Working, locals
  <2>4. ManualIsAdmitted' /\ RecordIsEarned'
    BY <1>1, <1>4, <2>1 DEF CanaryStarts, TypeOK, ManualIsAdmitted, RecordIsEarned, Admitted, Locked,
                            Working, locals
  <2>5. QED
    BY <2>2, <2>3, <2>4 DEF IInv
<1>5. ASSUME NEW n \in Nodes, FollowerStarts(n) PROVE IInv'
  <2>1. pc' = [pc EXCEPT ![n] = "lock"] /\ pc[n] = "gate" /\ day \in passed
    BY <1>1, <1>5 DEF FollowerStarts, Goto, RecordReady, RecordIsEarned, TypeOK
  <2>2. TypeOK'
    BY <1>1, <1>5, <2>1 DEF marker, FollowerStarts, TypeOK, Steps, shared, locals, bounds
  <2>3. LockHeld' /\ MarkerCoversWork'
    BY <1>1, <1>5, <2>1 DEF marker, FollowerStarts, TypeOK, LockHeld, MarkerCoversWork, ManualIsAdmitted,
                            Locked, Working, shared, locals
  <2>4. ManualIsAdmitted' /\ RecordIsEarned'
    BY <1>1, <1>5, <2>1 DEF FollowerStarts, TypeOK, ManualIsAdmitted, RecordIsEarned, Admitted, Locked,
                            Working, shared, locals
  <2>5. QED
    BY <2>2, <2>3, <2>4 DEF IInv
<1>6. ASSUME NEW n \in Nodes, GateFails(n) \/ LockTimesOut(n) \/ DrainFails(n) \/ MarkNothing(n)
      PROVE IInv'
  <2>1. Stop(n) /\ MarkerMoves(n)
    BY <1>6 DEF GateFails, LockTimesOut, DrainFails, MarkNothing, Exit, MarkerMoves
  <2>2. UNCHANGED <<recDay, settled, health, history, bounds>>
    BY <1>6 DEF GateFails, LockTimesOut, DrainFails, MarkNothing
  <2>3. QED
    BY <1>1, <2>1, <2>2, StopSafe DEF TypeOK, RecordIsEarned, history, bounds
<1>7. ASSUME NEW n \in Nodes, AcquireLock(n) PROVE IInv'
  <2>1. pc' = [pc EXCEPT ![n] = "drain"] /\ pc[n] = "lock" /\ holder = NoNode
    BY <1>7 DEF AcquireLock, Goto
  <2>2. TypeOK'
    BY <1>1, <1>7, <2>1 DEF marker, AcquireLock, TypeOK, Steps, locals, history, bounds
  <2>3. LockHeld' /\ MarkerCoversWork'
    BY <1>1, <1>7, <2>1 DEF marker, AcquireLock, TypeOK, LockHeld, MarkerCoversWork, ManualIsAdmitted,
                            Locked, Working, locals
  <2>4. ManualIsAdmitted' /\ RecordIsEarned'
    BY <1>1, <1>7, <2>1 DEF AcquireLock, TypeOK, ManualIsAdmitted, RecordIsEarned, Admitted, Locked,
                            Working, locals, history
  <2>5. QED
    BY <2>2, <2>3, <2>4 DEF IInv
<1>8. ASSUME NEW n \in Nodes, Drain(n) PROVE IInv'
  <2>1. pc' = [pc EXCEPT ![n] = "git"] /\ pc[n] = "drain" /\ drained' = drained \cup {n}
    BY <1>8 DEF Drain, Goto
  <2>2. TypeOK'
    BY <1>1, <1>8, <2>1 DEF Drain, TypeOK, Steps, Working, shared, history, bounds
  <2>3. LockHeld' /\ MarkerCoversWork'
    BY <1>1, <1>8, <2>1 DEF Drain, TypeOK, LockHeld, MarkerCoversWork, Locked,
                            Working, shared, locals
  <2>4. ManualIsAdmitted' /\ RecordIsEarned'
    BY <1>1, <1>8, <2>1 DEF Drain, TypeOK, ManualIsAdmitted, RecordIsEarned, Admitted, Locked,
                            Working, shared, locals, history
  <2>5. QED
    BY <2>2, <2>3, <2>4 DEF IInv
<1>9. ASSUME NEW n \in Nodes, PrepareGit(n) PROVE IInv'
  <2>1. CASE Exit(n)
    BY <1>1, <1>9, <2>1, StopSafe
       DEF PrepareGit, Exit, MarkerMoves, TypeOK, RecordIsEarned, history, bounds
  <2>2. CASE Goto(n, "helper") /\ UNCHANGED <<holder, marker, locals>>
    BY <1>1, <1>9, <2>2, WorkSafe
       DEF PrepareGit, TypeOK, Working, shared, locals
  <2>3. QED
    BY <1>9, <2>1, <2>2 DEF PrepareGit
<1>10. ASSUME NEW n \in Nodes, RunHelper(n) PROVE IInv'
  <2>1. rc' \in [Nodes -> BOOLEAN]
    BY <1>1, <1>10 DEF RunHelper, TypeOK
  <2>2. PICK next \in Working : Goto(n, next)
    BY <1>10 DEF RunHelper, Working
  <2>3. QED
    BY <1>1, <1>10, <2>1, <2>2, WorkSafe DEF RunHelper, TypeOK, Working
<1>11. ASSUME NEW n \in Nodes, RunDaily(n) PROVE IInv'
  <2>1. rc' \in [Nodes -> BOOLEAN]
    <3>1. PICK ok \in BOOLEAN : rc' = [rc EXCEPT ![n] = ok]
      BY <1>11 DEF RunDaily
    <3>2. QED
      BY <1>1, <3>1 DEF TypeOK
  <2>2. health' \in [Nodes -> Healths]
    BY <1>1, <1>11 DEF RunDaily, TypeOK
  <2>3. PICK next \in Working : Goto(n, next)
    BY <1>11 DEF RunDaily, Working
  <2>4. QED
    BY <1>1, <1>11, <2>1, <2>2, <2>3, WorkSafe DEF RunDaily, TypeOK, Working
<1>12. ASSUME NEW n \in Nodes, NEW next \in Working \cup {"exit"}, pc[n] \in Working,
              WebRecovers(n, next) \/ WebStaysDown(n) \/ (Exit(n) /\ UNCHANGED health),
              UNCHANGED <<recDay, settled, history, bounds>>
       PROVE  IInv'
  <2>1. health' \in [Nodes -> Healths]
    BY <1>1, <1>12 DEF WebRecovers, WebStaysDown, TypeOK, Healths
  <2>2. CASE Exit(n)
    BY <1>1, <1>12, <2>1, <2>2, StopSafe
       DEF Exit, MarkerMoves, TypeOK, RecordIsEarned, history, bounds
  <2>3. CASE next \in Working /\ Goto(n, next) /\ UNCHANGED <<holder, marker, locals>>
    BY <1>1, <1>12, <2>1, <2>3, WorkSafe DEF TypeOK, shared, locals
  <2>4. QED
    BY <1>12, <2>2, <2>3 DEF WebRecovers, WebStaysDown
<1>13. ASSUME NEW n \in Nodes, Check(n) PROVE IInv'
  <2>1. CASE Goto(n, "heal") /\ UNCHANGED <<holder, marker, health, locals>>
    BY <1>1, <1>13, <2>1, WorkSafe DEF Check, TypeOK, Working, shared, locals
  <2>2. CASE WebRecovers(n, IF rc[n] THEN "mark" ELSE "exit") \/ WebStaysDown(n)
    BY <1>12, <1>13, <2>2 DEF Check, Working
  <2>3. QED
    BY <1>13, <2>1, <2>2 DEF Check
<1>14. ASSUME NEW n \in Nodes, Heal(n) PROVE IInv'
  BY <1>12, <1>14 DEF Heal, Working
<1>15. ASSUME NEW n \in Nodes, Mark(n) PROVE IInv'
  <2>1. Stop(n) /\ MarkerMoves(n)
    BY <1>15 DEF Mark, Exit, MarkerMoves
  <2>2. /\ recDay' \in 0..MaxDay /\ recDay' \in passed' /\ settled' \in BOOLEAN
        /\ passed \subseteq passed' /\ passed' \subseteq 1..MaxDay
    BY <1>2, <1>15 DEF Mark
  <2>3. /\ health' \in [Nodes -> Healths] /\ UNCHANGED <<since, day>>
        /\ runs' \in 0..MaxRuns /\ kills' \in 0..MaxKills
    BY <1>1, <1>15 DEF Mark, TypeOK, bounds
  <2>4. QED
    BY <2>1, <2>2, <2>3, StopSafe
<1>16. ASSUME NEW n \in Nodes, StopPost(n) PROVE IInv'
  <2>1. pc' = [pc EXCEPT ![n] = "idle"] /\ Removes(n)
    BY <1>16 DEF StopPost, Goto
  <2>2. TypeOK'
    BY <1>1, <1>16, <2>1 DEF marker, Removes, StopPost, TypeOK, Steps, shared, locals, history, bounds
  <2>3. LockHeld' /\ MarkerCoversWork'
    BY <1>1, <1>16, <2>1 DEF marker, Removes, StopPost, TypeOK, LockHeld, MarkerCoversWork, Locked,
                             Working, shared, locals
  <2>4. ManualIsAdmitted' /\ RecordIsEarned'
    BY <1>1, <1>16, <2>1 DEF StopPost, TypeOK, ManualIsAdmitted, RecordIsEarned, Admitted, Locked,
                             Working, shared, locals, history
  <2>5. QED
    BY <2>2, <2>3, <2>4 DEF IInv
<1>17. ASSUME NEW n \in Nodes, Kill(n) PROVE IInv'
  <2>1. health' \in [Nodes -> Healths] /\ kills' \in 0..MaxKills
    BY <1>1, <1>17 DEF Kill, TypeOK
  <2>2. QED
    BY <1>1, <1>17, <2>1, StopSafe DEF Kill, MarkerMoves, TypeOK, RecordIsEarned, history
<1>18. ASSUME NEW n \in Nodes, Reboot(n) PROVE IInv'
  <2>1. /\ pc' = [pc EXCEPT ![n] = "idle"] /\ drained' = drained \ {n}
        /\ health' \in [Nodes -> Healths] /\ kills' \in 0..MaxKills
    BY <1>1, <1>18 DEF marker, Removes, Reboot, Goto, TypeOK
  <2>2. TypeOK'
    BY <1>1, <1>18, <2>1 DEF marker, Removes, Reboot, TypeOK, Steps, shared, history
  <2>3. LockHeld' /\ MarkerCoversWork'
    BY <1>1, <1>18, <2>1 DEF marker, Removes, Reboot, TypeOK, LockHeld, MarkerCoversWork, Locked,
                             Working, shared, locals
  <2>4. ManualIsAdmitted' /\ RecordIsEarned'
    BY <1>1, <1>18, <2>1 DEF Reboot, TypeOK, ManualIsAdmitted, RecordIsEarned, Admitted, Locked,
                             Working, shared, locals, history
  <2>5. QED
    BY <2>2, <2>3, <2>4 DEF IInv
<1>19. ASSUME NEW n \in Nodes, LockExpires(n) PROVE IInv'
  <2>1. LockHeld'
    BY <1>1, <1>19 DEF LockExpires, TypeOK, LockHeld, Locked
  <2>2. QED
    BY <1>1, <1>19, <2>1 DEF marker, LockExpires, IInv, TypeOK, MarkerCoversWork, ManualIsAdmitted,
                             RecordIsEarned, locals, history, bounds
<1>20. CASE Settle
  BY <1>1, <1>20 DEF marker, Settle, IInv, TypeOK, LockHeld, MarkerCoversWork, ManualIsAdmitted,
                     RecordIsEarned, locals, history, bounds
<1>21. CASE Midnight
  <2>1. day' \in 1..MaxDay
    BY <1>1, <1>21 DEF Midnight, TypeOK
  <2>2. QED
    BY <1>1, <1>21, <2>1 DEF marker, Midnight, IInv, TypeOK, LockHeld, MarkerCoversWork, ManualIsAdmitted,
                             RecordIsEarned, shared, locals, history
<1>22. CASE UNCHANGED vars
  BY <1>1, <1>22 DEF vars, IInv, TypeOK, LockHeld, MarkerCoversWork, ManualIsAdmitted, RecordIsEarned
<1>23. ASSUME NEW n \in Nodes, Wrapper(n) PROVE IInv'
  BY <1>23, <1>4, <1>5, <1>6, <1>7, <1>8, <1>9, <1>10, <1>11, <1>13, <1>14, <1>15, <1>16
     DEF Wrapper
<1>24. ASSUME NEW n \in Nodes, RunByHand(n) PROVE IInv'
  <2>1. /\ pc' = [pc EXCEPT ![n] = "lock"] /\ pc[n] = "idle" /\ runs' \in 0..MaxRuns
        /\ manual' = manual \cup {n}
    BY <1>1, <1>24 DEF RunByHand, Goto, TypeOK
  <2>2. TypeOK'
    BY <1>1, <1>24, <2>1 DEF marker, RunByHand, TypeOK, Steps, shared, history
  <2>3. LockHeld' /\ MarkerCoversWork'
    BY <1>1, <1>24, <2>1 DEF marker, RunByHand, TypeOK, LockHeld, MarkerCoversWork, Locked,
                             Working, shared, locals
  <2>4. ManualIsAdmitted' /\ RecordIsEarned'
    BY <1>1, <1>24, <2>1 DEF RunByHand, TypeOK, ManualIsAdmitted, RecordIsEarned,
                             Admitted, Locked, Working, shared, history, locals
  <2>5. QED
    BY <2>2, <2>3, <2>4 DEF IInv
<1>25. ASSUME NEW n \in Nodes, TriggerSkipped(n) PROVE IInv'
  <2>1. n \in manual /\ drained' = drained \ {n} /\ runs' \in 0..MaxRuns
    BY <1>1, <1>25 DEF marker, Removes, TriggerSkipped, TypeOK
  <2>2. TypeOK'
    BY <1>1, <1>25, <2>1 DEF marker, Removes, TriggerSkipped, TypeOK, shared, locals, history
  <2>3. LockHeld' /\ MarkerCoversWork' /\ ManualIsAdmitted' /\ RecordIsEarned'
    BY <1>1, <1>25, <2>1 DEF marker, Removes, TriggerSkipped, LockHeld, MarkerCoversWork,
                             ManualIsAdmitted, RecordIsEarned, shared, locals, history
  <2>4. QED
    BY <2>2, <2>3 DEF IInv
<1>26. QED
  BY <1>3, <1>17, <1>18, <1>19, <1>20, <1>21, <1>22, <1>23, <1>24, <1>25 DEF Next

\* The inductive invariant holds in every reachable state.
THEOREM Invariant == Spec => []IInv
BY InitSafe, StepSafe, PTL DEF Spec

\* Every variable keeps its type.
THEOREM TypeCorrect == Spec => []TypeOK
<1>1. IInv => TypeOK
  BY DEF IInv
<1>2. QED
  BY <1>1, Invariant, PTL

\* One node at a time: two markers together mean two nodes under one lock,
\* unless a dead process has left its marker to ExecStopPost, or a run by hand
\* to nobody.
THEOREM OneAtATime == Spec => []OneNodeOut
<1>1. IInv => OneNodeOut
  <2> SUFFICES ASSUME IInv, NEW m \in drained \ left, NEW n \in drained \ left,
                      pc[m] # "stopping", pc[n] # "stopping"
               PROVE  m = n
    BY DEF OneNodeOut
  <2>1. m \in Nodes /\ n \in Nodes
    BY DEF IInv, TypeOK
  <2>2. pc[m] \in Working /\ pc[n] \in Working
    BY <2>1 DEF IInv, MarkerCoversWork
  <2>3. QED
    BY <2>1, <2>2 DEF IInv, LockHeld, Locked
<1>2. QED
  BY <1>1, Invariant, PTL

\* A node is out of the pool as long as the unit changes its code; a run by
\* hand may lose its marker.
THEOREM WorkIsDrained == Spec => []UpdatingNodeIsDrained
<1>1. IInv => UpdatingNodeIsDrained
  BY DEF IInv, MarkerCoversWork, UpdatingNodeIsDrained
<1>2. QED
  BY <1>1, Invariant, PTL

\* No follower works without a healthy run of the canary behind it, except by
\* hand.
THEOREM CanaryGoesFirst == Spec => []FollowersFollowCanary
<1>1. IInv => FollowersFollowCanary
  BY DEF IInv, RecordIsEarned, FollowersFollowCanary, Admitted, Locked
<1>2. QED
  BY <1>1, Invariant, PTL

-----------------------------------------------------------------------------
(* DailyUpdate implements Rollout.                                         *)

\* A wrapper that ends past the canary gate leaves the rollout.
LEMMA EndIsLeave ==
  ASSUME IInv, NEW n \in Nodes, pc[n] \in Admitted,
         NEW s \in {"idle", "stopping"}, Goto(n, s), manual' = manual \ {n},
         drained' \in {drained, drained \ {n}, drained \cup {n}}, UNCHANGED day,
         \/ UNCHANGED recDay
         \/ n = Canary /\ pc[n] \in Working /\ recDay' = day
  PROVE  R!Leave(n)
<1>1. pc' = [pc EXCEPT ![n] = s] /\ pc \in [Nodes -> Steps] /\ manual \subseteq Nodes
  BY DEF Goto, IInv, TypeOK
<1>2. n \in (PastGate \ manual) \cup manual
  BY DEF PastGate, Admitted, Locked
<1>3. /\ PastGate' \ manual' = (PastGate \ manual) \ {n}
      /\ {m \in Nodes : pc[m] \in Working}' = {m \in Nodes : pc[m] \in Working} \ {n}
  BY <1>1 DEF PastGate, Working
<1>4. (Nodes \ drained') \in {Nodes \ drained, (Nodes \ drained) \ {n}, (Nodes \ drained) \cup {n}}
  OBVIOUS
<1>5. QED
  BY <1>2, <1>3, <1>4 DEF R!Leave

\* One that ends before the gate changes at most its own place in the pool.
LEMMA EndIsReturn ==
  ASSUME IInv, NEW n \in Nodes, pc[n] \in {"gate", "stopping"},
         NEW s \in {"idle", "stopping"}, Goto(n, s), manual' = manual \ {n},
         drained' \in {drained, drained \ {n}}, UNCHANGED <<day, recDay>>
  PROVE  R!Return(n) \/ UNCHANGED R!rollout
<1>1. pc' = [pc EXCEPT ![n] = s] /\ pc \in [Nodes -> Steps] /\ n \notin manual
  BY DEF Goto, IInv, TypeOK, ManualIsAdmitted, Admitted, Locked, Working
<1>2. /\ PastGate' = PastGate /\ manual' = manual
      /\ {m \in Nodes : pc[m] \in Working}' = {m \in Nodes : pc[m] \in Working}
      /\ n \notin {m \in Nodes : pc[m] \in Working}
  BY <1>1 DEF PastGate, Working
<1>3. CASE drained' = drained
  BY <1>2, <1>3 DEF R!rollout
<1>4. CASE drained' = drained \ {n}
  <2>1. Nodes \ drained' = (Nodes \ drained) \cup {n}
    BY <1>4
  <2>2. QED
    BY <1>2, <2>1 DEF R!Return
<1>5. QED
  BY <1>3, <1>4

\* A step of a wrapper from work to work, or on its way to the lock, does not
\* show.
LEMMA GoingOnIsStutter ==
  ASSUME IInv, NEW n \in Nodes, NEW s \in Steps, Goto(n, s),
         \/ pc[n] \in Working /\ s \in Working
         \/ pc[n] = "lock" /\ s = "drain"
         \/ pc[n] = "idle" /\ s = "gate",
         UNCHANGED <<day, recDay, manual, drained>>
  PROVE  UNCHANGED R!rollout
<1>1. pc' = [pc EXCEPT ![n] = s] /\ pc \in [Nodes -> Steps]
  BY DEF Goto, IInv, TypeOK
<1>2. /\ PastGate' = PastGate
      /\ {m \in Nodes : pc[m] \in Working}' = {m \in Nodes : pc[m] \in Working}
  BY <1>1 DEF PastGate, Working
<1>3. QED
  BY <1>2 DEF R!rollout

\* Every step is a step of the rollout, or does not show.
LEMMA StepImplements == IInv /\ [Next]_vars => [R!Next]_(R!rollout)
<1> SUFFICES ASSUME IInv, [Next]_vars
             PROVE  \/ \E n \in Nodes : \/ R!Admit(n) \/ R!SendByHand(n) \/ R!TakeOut(n)
                                       \/ R!Leave(n) \/ R!Return(n)
                    \/ R!Tomorrow
                    \/ UNCHANGED R!rollout
  BY DEF R!Next
<1> DEFINE Shown(n) == \/ R!Admit(n) \/ R!SendByHand(n) \/ R!TakeOut(n)
                       \/ R!Leave(n) \/ R!Return(n)
                       \/ UNCHANGED R!rollout
<1> USE DailyConstantsOK
<1>1. TypeOK /\ LockHeld /\ MarkerCoversWork /\ ManualIsAdmitted
  BY DEF IInv
<1>idle. \A m \in Nodes : pc[m] \in {"idle", "gate", "stopping"} =>
           m \notin (PastGate \ manual) \cup manual
  BY <1>1 DEF ManualIsAdmitted, PastGate, Admitted, Locked, Working
<1>2. ASSUME NEW n \in Nodes, Trigger(n) PROVE Shown(n)
  BY <1>2, GoingOnIsStutter DEF marker, Trigger, Steps, shared, locals
<1>3. CASE CanaryStarts
  <2>1. pc' = [pc EXCEPT ![Canary] = "lock"] /\ pc \in [Nodes -> Steps] /\ pc[Canary] = "gate"
    BY <1>1, <1>3 DEF CanaryStarts, Goto, TypeOK
  <2>2. /\ PastGate' \ manual' = (PastGate \ manual) \cup {Canary} /\ manual' = manual
        /\ {m \in Nodes : pc[m] \in Working}' = {m \in Nodes : pc[m] \in Working}
    BY <1>3, <1>idle, <2>1 DEF CanaryStarts, locals, PastGate, Working
  <2>3. R!Admit(Canary)
    BY <1>3, <1>idle, <2>1, <2>2 DEF marker, CanaryStarts, R!Admit, bounds
  <2>4. QED
    BY <2>3
<1>4. ASSUME NEW n \in Nodes, FollowerStarts(n) PROVE Shown(n)
  <2>1. pc' = [pc EXCEPT ![n] = "lock"] /\ pc \in [Nodes -> Steps] /\ pc[n] = "gate"
    BY <1>1, <1>4 DEF FollowerStarts, Goto, TypeOK
  <2>2. /\ PastGate' \ manual' = (PastGate \ manual) \cup {n} /\ manual' = manual
        /\ {m \in Nodes : pc[m] \in Working}' = {m \in Nodes : pc[m] \in Working}
    BY <1>4, <1>idle, <2>1 DEF FollowerStarts, locals, PastGate, Working
  <2>3. R!Admit(n)
    BY <1>4, <1>idle, <2>1, <2>2
       DEF FollowerStarts, RecordReady, R!Admit, marker, bounds, shared
  <2>4. QED
    BY <2>3
<1>5. ASSUME NEW n \in Nodes, Exit(n), pc[n] \in Admitted, UNCHANGED day,
             UNCHANGED recDay \/ (n = Canary /\ pc[n] \in Working /\ recDay' = day)
      PROVE  R!Leave(n)
  BY <1>5, EndIsLeave DEF Exit, Stop, Removes, Keeps
<1>6. ASSUME NEW n \in Nodes, GateFails(n) PROVE Shown(n)
  <2>1. drained' \in {drained, drained \ {n}}
    BY <1>6 DEF marker, Removes, Keeps, Writes, GateFails, Exit
  <2>2. QED
    BY <1>6, <2>1, EndIsReturn DEF GateFails, Exit, Stop, bounds
<1>7. ASSUME NEW n \in Nodes, LockTimesOut(n) \/ MarkNothing(n) PROVE Shown(n)
  BY <1>5, <1>7 DEF LockTimesOut, MarkNothing, Admitted, Locked, Working, bounds
<1>8. ASSUME NEW n \in Nodes, AcquireLock(n) PROVE Shown(n)
  BY <1>8, GoingOnIsStutter DEF marker, AcquireLock, Steps, locals, bounds
<1>9. ASSUME NEW n \in Nodes, Drain(n) PROVE Shown(n)
  <2>1. pc' = [pc EXCEPT ![n] = "git"] /\ pc \in [Nodes -> Steps] /\ pc[n] = "drain"
    BY <1>1, <1>9 DEF Drain, Goto, TypeOK
  <2>2. {m \in Nodes : pc[m] \in Working} = {}
    BY <1>1, <2>1 DEF LockHeld, Locked, Working
  <2>3. /\ PastGate' = PastGate /\ manual' = manual /\ n \in PastGate
        /\ {m \in Nodes : pc[m] \in Working}' = {n}
        /\ Nodes \ drained' = (Nodes \ drained) \ {n}
    BY <1>9, <2>1, <2>2 DEF Drain, PastGate, Working
  <2>4. R!TakeOut(n)
    BY <1>9, <2>2, <2>3 DEF Drain, R!TakeOut, bounds, shared
  <2>5. QED
    BY <2>4
<1>10. ASSUME NEW n \in Nodes, DrainFails(n) PROVE Shown(n)
  <2>1. pc[n] \in Admitted /\ drained' \in {drained, drained \ {n}, drained \cup {n}}
    BY <1>10 DEF marker, Removes, Keeps, Writes, DrainFails, Admitted, Locked
  <2>2. QED
    BY <1>10, <2>1, EndIsLeave DEF DrainFails, Stop, bounds
<1>11. ASSUME NEW n \in Nodes, PrepareGit(n) PROVE Shown(n)
  BY <1>5, <1>11, GoingOnIsStutter DEF marker, PrepareGit, Admitted, Locked, Working, Steps, locals, bounds
<1>12. ASSUME NEW n \in Nodes, RunHelper(n) PROVE Shown(n)
  BY <1>12, GoingOnIsStutter DEF marker, RunHelper, Working, Steps, shared, bounds
<1>13. ASSUME NEW n \in Nodes, RunDaily(n) PROVE Shown(n)
  BY <1>13, GoingOnIsStutter DEF marker, RunDaily, Working, Steps, shared, bounds
<1>14. ASSUME NEW n \in Nodes, Check(n) \/ Heal(n) PROVE Shown(n)
  <2>1. pc[n] \in Working /\ UNCHANGED <<day, recDay>>
    BY <1>14 DEF Check, Heal, Working, bounds
  <2>2. CASE Exit(n)
    BY <1>5, <2>1, <2>2 DEF Admitted, Locked
  <2>3. CASE (\E next \in {"heal", "mark"} : Goto(n, next)) /\ UNCHANGED <<drained, locals>>
    BY <2>1, <2>3, GoingOnIsStutter DEF Working, Steps, locals
  <2>4. QED
    BY <1>14, <2>2, <2>3 DEF marker, Removes, Check, Heal, WebRecovers, WebStaysDown
<1>15. ASSUME NEW n \in Nodes, Mark(n) PROVE Shown(n)
  BY <1>5, <1>15 DEF Mark, Admitted, Locked, Working, bounds
<1>16. ASSUME NEW n \in Nodes, StopPost(n) PROVE Shown(n)
  <2>1. n \notin manual
    BY <1>idle, <1>16 DEF StopPost
  <2>2. manual' = manual \ {n} /\ UNCHANGED <<day, recDay>>
    BY <1>16, <2>1 DEF StopPost, locals, bounds, shared
  <2>3. QED
    BY <1>16, <2>2, EndIsReturn DEF marker, Removes, Keeps, Writes, StopPost
<1>17. ASSUME NEW n \in Nodes, Kill(n) \/ Reboot(n) PROVE Shown(n)
  <2>1. PICK s \in {"idle", "stopping"} : Goto(n, s)
    BY <1>17 DEF Kill, Reboot, Stop
  <2>2. /\ manual' = manual \ {n} /\ drained' \in {drained, drained \ {n}, drained \cup {n}}
        /\ pc[n] # "drain" => drained' \in {drained, drained \ {n}}
        /\ UNCHANGED <<day, recDay>> /\ pc[n] # "idle"
    BY <1>17 DEF marker, Removes, Keeps, Writes, Kill, Reboot, Stop, shared, bounds
  <2>3. CASE pc[n] \in Admitted
    BY <2>1, <2>2, <2>3, EndIsLeave
  <2>4. CASE pc[n] \in {"gate", "stopping"}
    BY <2>1, <2>2, <2>4, EndIsReturn
  <2>5. QED
    BY <1>1, <2>2, <2>3, <2>4 DEF TypeOK, Steps, Admitted, Locked
<1>18. ASSUME NEW n \in Nodes, RunByHand(n) PROVE Shown(n)
  <2>1. pc' = [pc EXCEPT ![n] = "lock"] /\ pc \in [Nodes -> Steps] /\ pc[n] = "idle"
    BY <1>1, <1>18 DEF RunByHand, Goto, TypeOK
  <2>2. /\ PastGate' \ manual' = PastGate \ manual /\ manual' = manual \cup {n}
        /\ {m \in Nodes : pc[m] \in Working}' = {m \in Nodes : pc[m] \in Working}
    BY <1>18, <2>1 DEF RunByHand, PastGate, Working
  <2>3. R!SendByHand(n)
    BY <1>18, <1>idle, <2>1, <2>2 DEF marker, Removes, RunByHand, R!SendByHand, shared
  <2>4. QED
    BY <2>3
<1>19. ASSUME NEW n \in Nodes, TriggerSkipped(n) PROVE Shown(n)
  <2>1. Nodes \ drained' = (Nodes \ drained) \cup {n} /\ n \in manual
    BY <1>19 DEF marker, Removes, TriggerSkipped
  <2>2. /\ PastGate' \ manual' = PastGate \ manual /\ manual' = manual
        /\ {m \in Nodes : pc[m] \in Working}' = {m \in Nodes : pc[m] \in Working}
    BY <1>19 DEF TriggerSkipped, PastGate, locals
  <2>3. QED
    BY <1>19, <2>1, <2>2 DEF TriggerSkipped, R!Return, shared
<1>20. ASSUME NEW n \in Nodes, LockExpires(n) PROVE Shown(n)
  BY <1>20 DEF marker, LockExpires, R!rollout, PastGate, locals, bounds
<1>21. CASE Settle
  BY <1>21 DEF marker, Settle, R!rollout, PastGate, locals, bounds
<1>22. CASE Midnight
  BY <1>22 DEF marker, Midnight, R!Tomorrow, PastGate, locals, shared
<1>23. CASE UNCHANGED vars
  BY <1>23 DEF vars, R!rollout, PastGate
<1>24. ASSUME NEW n \in Nodes, Wrapper(n), ~CanaryStarts PROVE Shown(n)
  BY <1>24, <1>4, <1>6, <1>7, <1>8, <1>9, <1>10, <1>11, <1>12, <1>13, <1>14, <1>15, <1>16
     DEF Wrapper
<1>25. QED
  BY <1>2, <1>3, <1>17, <1>18, <1>19, <1>20, <1>21, <1>22, <1>23, <1>24 DEF Next

\* The wrappers of all nodes together do what Rollout promises, for any number
\* of nodes, days, runs, kills and reboots.
THEOREM WrappersImplementRollout == Spec => ImplementsRollout
<1>1. Init => R!Init
  BY DEF Init, R!Init, PastGate, Working
<1>2. QED
  BY <1>1, Invariant, StepImplements, PTL DEF Spec, ImplementsRollout, R!Spec

=============================================================================
