------------------------ MODULE NodeDrainSystemProofs ------------------------
(* The composed system implements the open one and inherits its theorems; where
   the startup repair does not run, a site run finds the node the way its own
   drain has left it. *)
EXTENDS NodeDrainSystem, NodeDrainProofs

\* A step of either program, of the node or of a fault is a step of the open
\* specification or leaves its variables alone.
LEMMA StepImplements == TypeOK /\ [SystemNext]_sysVars => [Next]_vars
<1> SUFFICES ASSUME TypeOK, [SystemNext]_sysVars PROVE [Next]_vars
  OBVIOUS
<1> USE ConstantsOK, SystemConstantsOK
<1>1. ASSUME NEW c \in Callers, NEW req \in Requests, Request(c, req)
      PROVE  Next
  BY <1>1 DEF Next
<1>2. ASSUME NEW c \in Callers, Collect(c) PROVE Next
  BY <1>2 DEF Next
<1>3. ASSUME NEW s \in DbStates, DbChange(s) PROVE Next
  BY <1>3 DEF Next
<1>4. ASSUME RestartDb PROVE Next
  BY <1>4, <1>3 DEF RestartDb, DbChange, DbStates
<1>5. ASSUME NEW S \in SUBSET Units, OthersSetUnits(S) PROVE Next
  BY <1>5 DEF Next
<1>16. ASSUME NEW ready, SetUnits(ready) PROVE Next \/ UNCHANGED vars
  <2> DEFINE recovered == active \cup RecoveryUnits
             wanted == IF ready THEN recovered \cup RepairServices \cup RepairTimers
                                ELSE recovered \ RepairTimers
  <2>1. wanted \in SUBSET Units
    BY DEF TypeOK
  <2>2. OthersSetUnits(wanted) \/ UNCHANGED vars
    BY <1>16 DEF SetUnits
  <2>3. QED
    BY <2>1, <2>2, <1>5
<1>6. CASE RoleStart \/ RoleReenters
  BY <1>6, <1>1 DEF RoleStart, RoleReenters, Requests
<1>7. CASE RoleAborts
  BY <1>7 DEF RoleAborts
<1>8. CASE RoleRuns
  <2>1. CASE RoleEntered
    BY <2>1, <1>2 DEF RoleEntered
  <2>2. CASE RoleRestart
    BY <2>2, <1>4 DEF RoleRestart
  <2>3. CASE RoleJoined
    BY <2>3, <1>1 DEF RoleJoined, Requests
  <2>4. CASE RoleExited
    BY <2>4, <1>2 DEF RoleExited
  <2>5. QED
    BY <1>8, <2>1, <2>2, <2>3, <2>4 DEF RoleRuns
<1>9. CASE RepairRefuses \/ RepairHoldsUnits \/ CooldownExpires
  BY <1>9, <1>16 DEF RepairRefuses, RepairHoldsUnits, CooldownExpires
<1>10. CASE RepairRuns
  <2>1. CASE RepairClears
    BY <2>1, <1>1 DEF RepairClears, Requests
  <2>2. CASE RepairObserves
    BY <2>2, <1>1 DEF RepairObserves, Requests
  <2>3. CASE RepairEntered
    BY <2>3, <1>2 DEF RepairEntered
  <2>4. CASE RepairRestart
    BY <2>4, <1>4 DEF RepairRestart
  <2>5. CASE RepairJoined
    BY <2>5, <1>1 DEF RepairJoined, Requests
  <2>6. CASE RepairGivesUp
    BY <2>6 DEF RepairGivesUp
  <2>7. CASE RepairCleared
    BY <2>7, <1>2 DEF RepairCleared
  <2>8. CASE RepairUnits
    BY <2>8, <1>16 DEF RepairUnits
  <2>9. QED
    BY <1>10, <2>1, <2>2, <2>3, <2>4, <2>5, <2>6, <2>7, <2>8 DEF RepairRuns
<1>11. CASE HelperWorks \/ LockTimesOut \/ HelperFails
  BY <1>11 DEF HelperWorks, LockTimesOut, HelperFails, Next
<1>12. CASE DbJoins \/ DbLost \/ JobsRun \/ JobFails
  BY <1>12, <1>3 DEF DbJoins, DbLost, DbStates, JobsRun, JobFails, Next
<1>13. CASE DailyBegins \/ DailyWorks \/ Traffic \/ Polls \/ NodeReboots
  BY <1>13 DEF DailyBegins, DailyWorks, Traffic, Polls, NodeReboots, Next
<1>14. CASE UNCHANGED sysVars
  BY <1>14 DEF sysVars
<1>15. QED
  BY <1>6, <1>7, <1>8, <1>9, <1>10, <1>11, <1>12, <1>13, <1>14 DEF SystemNext

\* Refinement, for every number of faults and disruptions, with and without
\* the startup repair: the galera role and the repair use the helper only in
\* ways the open specification allows.
THEOREM SystemImplements == SystemSafety => ImplementsNodeDrain
<1>1. SystemInit => Init /\ TypeOK
  BY InitType DEF SystemInit
<1>2. TypeOK /\ [SystemNext]_sysVars => TypeOK'
  BY StepImplements, StepType
<1>3. QED
  BY <1>1, <1>2, StepImplements, PTL DEF SystemSafety, ImplementsNodeDrain, Spec

\* The programs' own variables keep their types: every budget and the failure
\* count of the repair stay within their bounds.
THEOREM SystemTypes == SystemSafety => []SystemTypeOK
<1> DEFINE Own == /\ roleStep \in RoleSteps /\ repairStep \in RepairSteps
                  /\ action \in {"restart", "start"}
                  /\ failures \in 0..FailureThreshold
                  /\ faults \in 0..MaxHelperFaults
                  /\ disruptions \in 0..MaxDisruptions
           Cool == cooldown \in BOOLEAN /\ recent \in BOOLEAN
<1> USE SystemConstantsOK DEF RoleSteps, RepairSteps
<1>1. SystemInit => TypeOK /\ Own /\ Cool
  <2>1. SystemInit => TypeOK /\ Own
    BY InitType DEF SystemInit, Own
  <2>2. SystemInit => Cool
    BY Zenon DEF SystemInit, Cool
  <2>3. QED
    BY <2>1, <2>2
<1>2. Own /\ [SystemNext]_sysVars => Own'
  <2> SUFFICES ASSUME Own, [SystemNext]_sysVars PROVE Own'
    OBVIOUS
  <2> USE DEF sysVars, repairVars, budgets, Disrupt, Callees
  <2>1. CASE RoleStart \/ RoleReenters \/ RoleAborts \/ RoleRuns
    BY <2>1 DEF RoleStart, RoleReenters, RoleAborts, RoleRuns, RoleEntered,
       RoleRestart, RoleJoined, RoleExited
  <2>2. CASE RepairRefuses \/ RepairHoldsUnits \/ CooldownExpires
    BY <2>2 DEF RepairRefuses, RepairHoldsUnits, SetUnits, CooldownExpires
  <2>3. CASE RepairObserves
    BY <2>3 DEF RepairObserves, Counted
  <2>4. CASE RepairRuns /\ ~RepairObserves
    BY <2>4 DEF RepairRuns, RepairClears, RepairEntered, RepairRestart,
       RepairJoined, RepairGivesUp, RepairCleared, RepairUnits, SetUnits
  <2>8. CASE JobsRun \/ JobFails
    <3>1. UNCHANGED <<roleStep, repairStep, action, failures, faults>>
      BY <2>8, Zenon DEF JobsRun, JobFails
    <3>2. UNCHANGED disruptions \/ Disrupt
      BY <2>8, Zenon DEF JobsRun, JobFails
    <3>3. QED
      BY <3>1, <3>2
  <2>5. CASE \/ HelperWorks \/ LockTimesOut \/ HelperFails \/ DbJoins \/ DbLost
             \/ DailyBegins \/ DailyWorks \/ Traffic \/ Polls \/ NodeReboots
    BY <2>5 DEF HelperWorks, LockTimesOut, HelperFails, DbJoins, DbLost,
       DailyBegins, DailyWorks, Traffic, Polls, NodeReboots
  <2>6. CASE UNCHANGED sysVars
    BY <2>6
  <2>7. QED
    BY <2>1, <2>2, <2>3, <2>4, <2>5, <2>6, <2>8 DEF SystemNext
<1>3. Cool /\ [SystemNext]_sysVars => Cool'
  BY Zenon DEF Cool, SystemNext, sysVars, repairVars, Callees, RoleStart,
     RoleReenters, RoleAborts, RoleRuns, RoleEntered, RoleRestart, RoleJoined,
     RoleExited, RepairRefuses, RepairHoldsUnits, CooldownExpires, RepairRuns,
     RepairClears, RepairObserves, RepairEntered, RepairRestart, RepairJoined,
     RepairGivesUp, RepairCleared, RepairUnits, SetUnits, HelperWorks,
     LockTimesOut, HelperFails, DbJoins, DbLost, JobsRun, JobFails, DailyBegins, DailyWorks, Traffic, Polls, NodeReboots
<1>4. TypeOK /\ [SystemNext]_sysVars => TypeOK'
  BY StepImplements, StepType
<1>5. TypeOK /\ Own /\ Cool => SystemTypeOK
  BY DEF SystemTypeOK
<1>6. QED
  BY <1>1, <1>2, <1>3, <1>4, <1>5, PTL DEF SystemSafety

\* What the two programs do to a node never loses a unit, never gives a member
\* back to HAProxy before systemd has accepted the starts of its workers, never
\* reopens in the wrong order and never leaves a marker without a record.
THEOREM SystemNeverForgets ==
  SystemSafety => /\ []OwedUnitsRecorded /\ []StartsBeforeTraffic
                  /\ []MarkersHaveRecord /\ ReopenInOrder
<1>1. QED
  BY SystemImplements, NothingForgotten, StartsPrecedeTraffic, RecordOutlivesMarkers,
     Reopening DEF ImplementsNodeDrain

\* Only the repair's own steps and a reboot touch what it remembers of its attempts.
LEMMA StormStep == StormInv /\ [SystemNext]_sysVars => StormInv'
<1> SUFFICES ASSUME StormInv, [SystemNext]_sysVars PROVE StormInv'
  OBVIOUS
<1> USE DEF StormInv
<1>1. CASE RepairObserves
  BY <1>1 DEF RepairObserves
<1>2. CASE RepairEntered
  BY <1>2 DEF RepairEntered
<1>3. CASE RepairRestart
  BY <1>3, Zenon DEF RepairRestart
<1>4. CASE CooldownExpires
  BY <1>4, Zenon DEF CooldownExpires
<1>5. CASE NodeReboots
  BY <1>5, Zenon DEF NodeReboots
<1>6. CASE RepairRefuses \/ RepairHoldsUnits \/ RepairClears \/ RepairJoined
           \/ RepairGivesUp \/ RepairCleared \/ RepairUnits
  BY <1>6 DEF RepairRefuses, RepairHoldsUnits, RepairClears, RepairJoined,
     RepairGivesUp, RepairCleared, RepairUnits, SetUnits
<1>7. CASE UNCHANGED repairVars
  BY <1>7 DEF repairVars
<1>8. QED
  <2>1. RoleStart \/ RoleReenters \/ RoleAborts \/ RoleRuns => UNCHANGED repairVars
    BY DEF RoleStart, RoleReenters, RoleAborts, RoleRuns, RoleEntered, RoleRestart,
       RoleJoined, RoleExited
  <2>2. \/ HelperWorks \/ LockTimesOut \/ HelperFails \/ JobsRun \/ JobFails
        \/ DbJoins \/ DbLost \/ DailyBegins \/ DailyWorks \/ Traffic \/ Polls
        => UNCHANGED repairVars
    BY Zenon DEF Callees, HelperWorks, LockTimesOut, HelperFails, JobsRun, JobFails,
       DbJoins, DbLost, DailyBegins, DailyWorks, Traffic, Polls
  <2>3. UNCHANGED sysVars => UNCHANGED repairVars
    BY DEF sysVars
  <2>4. QED
    BY <1>1, <1>2, <1>3, <1>4, <1>5, <1>6, <1>7, <2>1, <2>2, <2>3
       DEF SystemNext, RepairRuns

\* For every threshold and however often the helper, the member or the site run
\* fails: the repair attempts at most one restart per cooldown and boot.
THEOREM NoStorm == SystemSafety => NoRestartStorm
<1>1. SystemInit => StormInv
  BY DEF SystemInit, StormInv
<1>2. StormInv /\ [SystemNext]_sysVars => [NoSecondAttempt]_sysVars
  BY DEF StormInv, NoSecondAttempt
<1>3. QED
  BY <1>1, <1>2, StormStep, PTL DEF SystemSafety, NoRestartStorm

-----------------------------------------------------------------------------
(* Without the startup repair: who runs the helper, and what it is asked.   *)

\* A step of the helper goes on to the next one, or its process ends.
HelperGoesOn == UNCHANGED <<lock, call, op>> /\ pc' \notin {"free", "x_check"}
HelperEnds   == Finish("ok") \/ Finish("fail")

LEMMA HelperSteps ==
  ASSUME HelperStep \/ HelperFault, LockInv
  PROVE  lock # NoCaller /\ (HelperGoesOn \/ HelperEnds)
<1> USE DEF Goto, HelperGoesOn, HelperEnds, locals, KeepStaleClients
<1>1. CASE HelperStep
  <2>1. lock # NoCaller
    BY <1>1 DEF LockInv, HelperStep, CheckConflicts, RecordUnits, QuiesceTimer,
       AssertDailyInactive, UndoTimer, UndoRecord, MarkBackend, MarkWeb,
       MarkCompat, OwnCompat, WaitForHAProxy, StopRecorded, ClientsDrained,
       DrainTimesOut, Reap, ReapSucceeds, ReapFails, RollbackCheck, ExitCheck,
       StartRecorded, OpenBackend, OpenWeb, OpenCompat, DisownCompat, ForgetRecord
  <2>2. CASE CheckConflicts \/ RecordUnits \/ QuiesceTimer \/ AssertDailyInactive
             \/ UndoTimer \/ UndoRecord \/ MarkBackend \/ MarkWeb
    BY <2>1, <2>2 DEF CheckConflicts, RecordUnits, QuiesceTimer, AssertDailyInactive,
       UndoTimer, UndoRecord, MarkBackend, MarkWeb
  <2>3. CASE MarkCompat \/ OwnCompat \/ WaitForHAProxy \/ StopRecorded
             \/ ClientsDrained \/ DrainTimesOut \/ Reap \/ ReapSucceeds
    BY <2>1, <2>3 DEF MarkCompat, OwnCompat, WaitForHAProxy, StopRecorded,
       ClientsDrained, DrainTimesOut, Reap, ReapSucceeds
  <2>4. CASE ReapFails \/ RollbackCheck \/ ExitCheck \/ StartRecorded
             \/ OpenBackend \/ OpenWeb \/ OpenCompat \/ DisownCompat \/ ForgetRecord
    BY <2>1, <2>4 DEF ReapFails, RollbackCheck, ExitCheck, StartRecorded, OpenBackend,
       OpenWeb, OpenCompat, DisownCompat, ForgetRecord
  <2>5. QED
    BY <1>1, <2>2, <2>3, <2>4 DEF HelperStep
<1>2. CASE HelperFault
  <2>1. lock # NoCaller
    BY <1>2 DEF HelperFault, RecordMissesFpm, QuiesceTimerFails, StopRecordedFails,
       ReapTimesOut, StartRecordedFails, SystemdUnknown, Kill, LockInv
  <2>2. QED
    BY <1>2, <2>1 DEF HelperFault, RecordMissesFpm, QuiesceTimerFails, StopRecordedFails,
       ReapTimesOut, StartRecordedFails, SystemdUnknown, Kill
<1>3. QED
  BY <1>1, <1>2

\* What else happens on the node concerns neither the helper nor its callers.
NodeEvent ==
  \/ \E s \in DbStates : DbChange(s)
  \/ \E u \in Units, runs \in BOOLEAN : JobEnds(u, runs)
  \/ DailyStart \/ DailyDrain \/ DailyEnd
  \/ Connect \/ Disconnect \/ HaproxyPoll

\* Where the startup repair does not run, this is all that happens.
LEMMA RoleAloneNext ==
  ASSUME ~StartupRepair, RoleAlone, [SystemNext]_sysVars, faults \in Nat
  PROVE  \/ RoleStart \/ RoleReenters \/ RoleAborts \/ RoleRuns
         \/ /\ UNCHANGED <<roleStep, repairStep>>
            /\ \/ Acquire(Role) \/ HelperStep \/ NodeEvent \/ UNCHANGED vars
               \/ HelperFault /\ faults' # 0
         \/ Reboot /\ roleStep' = "idle" /\ repairStep' = "idle"
<1> USE SystemConstantsOK DEF RoleAlone, Callees, repairVars
<1>1. ~RepairRefuses /\ ~RepairHoldsUnits /\ ~RepairRuns
  BY DEF RepairRefuses, RepairHoldsUnits, SetUnits, RepairRuns, RepairStart, RepairClears, RepairObserves,
     RepairEntered, RepairRestart, RepairJoined, RepairGivesUp, RepairCleared,
     RepairUnits
<1>2. \A c \in Callers : Acquire(c) => c = Role
  BY DEF Acquire, Requests
<1>3. ~LockTimesOut
  BY DEF LockTimesOut, LockTimeout, Requests
<1>4. CASE HelperWorks
  BY <1>2, <1>4 DEF HelperWorks
<1>5. CASE HelperFails
  BY <1>5 DEF HelperFails
<1>6. CASE DbJoins \/ DbLost \/ JobsRun \/ JobFails
  BY <1>6 DEF DbJoins, DbLost, JobsRun, JobFails, NodeEvent, DbStates
<1>7. CASE DailyBegins \/ DailyWorks \/ Traffic \/ Polls
  BY <1>7 DEF DailyBegins, DailyWorks, Traffic, Polls, NodeEvent
<1>8. CASE CooldownExpires \/ UNCHANGED sysVars
  BY <1>8 DEF CooldownExpires, sysVars
<1>9. CASE NodeReboots
  BY <1>9 DEF NodeReboots
<1>10. QED
  BY <1>1, <1>3, <1>4, <1>5, <1>6, <1>7, <1>8, <1>9 DEF SystemNext

\* What the steps of a site run ask of the helper; the rest they leave alone.
LEMMA RoleStepEffects ==
  ASSUME TypeOK, RoleAlone, RoleCalls, RoleStart \/ RoleReenters \/ RoleAborts \/ RoleRuns
  PROVE  /\ UNCHANGED <<files, units, routed, daily, lock, pc, locals, repairStep, faults>>
         /\ UNCHANGED <<db, clients>> \/ RestartDb
         /\ \E r \in Requests \cup Results : call' = [call EXCEPT ![Role] = r]
         /\ \/ /\ roleStep \in {"idle", "joining"} /\ roleStep' = "entering"
               /\ HAProxySettled /\ call'[Role] \in {"enter", "enter-restart"}
            \/ roleStep = "entering" /\ call[Role] = "ok" /\ roleStep' = "drained" /\ call'[Role] = "none"
            \/ roleStep' = "idle" /\ call'[Role] = "none"
            \/ roleStep = "drained" /\ roleStep' = "joining" /\ call'[Role] = "none"
            \/ roleStep = "joining" /\ roleStep' = "exiting" /\ call'[Role] = "exit"
<1> USE SystemConstantsOK
    DEF TypeOK, RoleAlone, RoleCalls, files, units, node, locals, repairVars, budgets,
        Disrupt, Request, Collect, Requests, Results
<1>1. CASE RoleStart \/ RoleReenters
  BY <1>1 DEF RoleStart, RoleReenters
<1>2. CASE RoleAborts
  <2>1. call'[Role] = "none" /\ call' = [call EXCEPT ![Role] = "none"]
    BY <1>2 DEF RoleAborts, vars
  <2>2. QED
    BY <1>2, <2>1 DEF RoleAborts, vars
<1>3. CASE RoleEntered
  BY <1>3 DEF RoleEntered
<1>4. CASE RoleRestart
  <2>1. call'[Role] = "none" /\ call' = [call EXCEPT ![Role] = "none"]
    BY <1>4 DEF RoleRestart, RestartDb
  <2>2. QED
    BY <1>4, <2>1 DEF RoleRestart, RestartDb
<1>5. CASE RoleJoined
  BY <1>5 DEF RoleJoined
<1>6. CASE RoleExited
  BY <1>6 DEF RoleExited
<1>7. QED
  BY <1>1, <1>2, <1>3, <1>4, <1>5, <1>6 DEF RoleRuns

LEMMA RoleCallsStep ==
  ASSUME ~StartupRepair, IInv, RoleAlone, RoleCalls, faults \in Nat, [SystemNext]_sysVars
  PROVE  RoleAlone' /\ RoleCalls'
<1> USE SystemConstantsOK DEF RoleAlone, RoleCalls
<1>1. TypeOK /\ LockInv
  BY DEF IInv, Safe
<1>2. CASE RoleStart \/ RoleReenters \/ RoleAborts \/ RoleRuns
  <2>1. UNCHANGED <<lock, pc, op, repairStep>>
    BY <1>1, <1>2, RoleStepEffects DEF locals
  <2>2. PICK r \in Requests \cup Results : call' = [call EXCEPT ![Role] = r]
    BY <1>1, <1>2, RoleStepEffects
  <2>3. call'[Repair] = "none" /\ call'[Role] = r
    BY <1>1, <2>2 DEF TypeOK
  <2>4. lock = NoCaller
    <3>1. call[Role] \notin Requests => lock = NoCaller
      BY <1>1 DEF TypeOK
    <3>2. call[Role] \notin Requests \/ roleStep \notin {"entering", "exiting"}
      BY <1>2 DEF RoleStart, RoleReenters, RoleAborts, RoleRuns, RoleEntered,
         RoleRestart, RoleJoined, RoleExited, Collect, Requests
    <3>3. QED
      BY <1>2, <3>1, <3>2 DEF Requests, RoleStart, RoleReenters, RoleAborts, RoleRuns,
         RoleEntered, RoleRestart, RoleJoined, RoleExited
  <2>5. pc # "x_check"
    BY <1>1, <2>4 DEF LockInv
  <2>6. \/ roleStep' = "entering" /\ call'[Role] \in {"enter", "enter-restart"}
        \/ roleStep' \in {"idle", "drained", "joining"} /\ call'[Role] = "none"
        \/ roleStep' = "exiting" /\ call'[Role] = "exit"
    BY <1>1, <1>2, RoleStepEffects
  <2>7. QED
    BY <2>1, <2>3, <2>4, <2>5, <2>6
<1>3. CASE UNCHANGED <<roleStep, repairStep>> /\ Acquire(Role)
  <2>1. call'[Role] = call[Role] /\ op' = call[Role] /\ lock' = Role /\ call' = call
    BY <1>3 DEF Acquire
  <2>2. pc' = "x_check" => op' = "exit"
    BY <1>3 DEF Acquire
  <2>3. QED
    BY <1>3, <2>1, <2>2
<1>4. CASE UNCHANGED <<roleStep, repairStep>> /\ (HelperStep \/ HelperFault)
  <2>1. lock # NoCaller /\ lock = Role /\ (HelperGoesOn \/ HelperEnds)
    BY <1>1, <1>4, HelperSteps
  <2>2. call[Role] \in Requests
    BY <1>1, <2>1 DEF TypeOK
  <2>3. CASE HelperGoesOn
    BY <1>4, <2>1, <2>3 DEF HelperGoesOn
  <2>4. CASE HelperEnds
    <3>1. /\ lock' = NoCaller /\ pc' = "free"
          /\ call'[Role] \in {"ok", "fail"} /\ call'[Repair] = call[Repair]
      BY <1>1, <2>1, <2>4 DEF HelperEnds, Finish, TypeOK
    <3>2. roleStep \in {"entering", "exiting"} \/ roleStep \notin {"idle", "drained", "joining"}
      BY <2>2 DEF Requests
    <3>3. QED
      BY <1>4, <2>2, <3>1, <3>2 DEF Requests
  <2>5. QED
    BY <2>1, <2>3, <2>4
<1>5. CASE UNCHANGED <<roleStep, repairStep>> /\ (NodeEvent \/ UNCHANGED vars)
  <2>1. UNCHANGED <<lock, pc, op, call>>
    BY <1>5 DEF NodeEvent, DbChange, JobEnds, DailyStart, DailyDrain, DailyEnd, Connect,
       Disconnect, HaproxyPoll, locals, vars
  <2>2. QED
    BY <1>5, <2>1
<1>6. CASE Reboot /\ roleStep' = "idle" /\ repairStep' = "idle"
  BY <1>6 DEF Reboot
<1>7. QED
  BY <1>2, <1>3, <1>4, <1>5, <1>6, RoleAloneNext


\* Every step of the helper keeps what it has brought about so far.
LEMMA OnTheWayHelper ==
  ASSUME TypeOK, EnterInv, OnTheWay, HelperStep \/ HelperFault
  PROVE  OnTheWay'
<1> USE ConstantsOK
    DEF EnterInv, OnTheWay, files, markers, record, units, node, locals, Goto, Finish,
        StopUnit, StartUnits, Listings, KeepStaleClients, EnterPcs
<1>1. CASE HelperStep
  <2>1. CASE CheckConflicts \/ RecordUnits \/ QuiesceTimer \/ AssertDailyInactive
             \/ UndoTimer \/ UndoRecord
    BY <2>1 DEF CheckConflicts, RecordUnits, QuiesceTimer, AssertDailyInactive,
       UndoTimer, UndoRecord
  <2>2. CASE MarkBackend \/ MarkWeb \/ MarkCompat \/ OwnCompat
    BY <2>2 DEF MarkBackend, MarkWeb, MarkCompat, OwnCompat
  <2>3. CASE WaitForHAProxy
    BY <2>3 DEF WaitForHAProxy
  <2>4. CASE StopRecorded
    BY <2>4 DEF StopRecorded, TypeOK
  <2>5. CASE ClientsDrained \/ DrainTimesOut \/ Reap \/ ReapSucceeds \/ ReapFails
    BY <2>5 DEF ClientsDrained, DrainTimesOut, Reap, ReapSucceeds, ReapFails
  <2>6. CASE RollbackCheck \/ ExitCheck \/ StartRecorded
    BY <2>6 DEF RollbackCheck, ExitCheck, StartRecorded
  <2>7. CASE OpenBackend \/ OpenWeb \/ OpenCompat \/ DisownCompat \/ ForgetRecord
    BY <2>7 DEF OpenBackend, OpenWeb, OpenCompat, DisownCompat, ForgetRecord
  <2>8. QED
    BY <1>1, <2>1, <2>2, <2>3, <2>4, <2>5, <2>6, <2>7 DEF HelperStep
<1>2. CASE HelperFault
  <2>1. CASE RecordMissesFpm \/ QuiesceTimerFails \/ StopRecordedFails \/ ReapTimesOut
    BY <2>1 DEF RecordMissesFpm, QuiesceTimerFails, StopRecordedFails, ReapTimesOut
  <2>2. CASE StartRecordedFails \/ SystemdUnknown \/ Kill
    BY <2>2 DEF StartRecordedFails, SystemdUnknown, Kill
  <2>3. QED
    BY <1>2, <2>1, <2>2 DEF HelperFault
<1>3. QED
  BY <1>1, <1>2

\* enter succeeds only from its last two steps, which change nothing more.
LEMMA EnterSucceeds ==
  ASSUME TypeOK, RoleCalls, HelperStep \/ HelperFault, lock = Role,
         call'[Role] = "ok", op # "exit"
  PROVE  /\ pc \in {"e_drain", "e_force"} /\ UNCHANGED <<files, units, node>>
         /\ AllowStale \/ clients = 0 \/ db = "down"
<1> USE ConstantsOK, SystemConstantsOK
    DEF RoleCalls, Goto, Finish, KeepStaleClients, TypeOK, Requests, Results
<1>1. call[Role] # "ok" /\ lock # NoCaller
  OBVIOUS
<1>2. CASE HelperStep
  <2>1. CASE CheckConflicts \/ RecordUnits \/ QuiesceTimer \/ AssertDailyInactive
             \/ UndoTimer \/ UndoRecord
    BY <1>1, <2>1 DEF CheckConflicts, RecordUnits, QuiesceTimer, AssertDailyInactive,
       UndoTimer, UndoRecord
  <2>2. CASE MarkBackend \/ MarkWeb \/ MarkCompat \/ OwnCompat \/ WaitForHAProxy
             \/ StopRecorded \/ Reap
    BY <1>1, <2>2 DEF MarkBackend, MarkWeb, MarkCompat, OwnCompat, WaitForHAProxy,
       StopRecorded, Reap
  <2>3. CASE ClientsDrained
    BY <1>1, <2>3 DEF ClientsDrained
  <2>4. CASE DrainTimesOut
    BY <1>1, <2>4 DEF DrainTimesOut
  <2>5. CASE ReapSucceeds \/ ReapFails
    BY <1>1, <2>5 DEF ReapSucceeds, ReapFails
  <2>6. CASE RollbackCheck \/ ExitCheck \/ StartRecorded
    BY <1>1, <2>6 DEF RollbackCheck, ExitCheck, StartRecorded
  <2>7. CASE OpenBackend \/ OpenWeb \/ OpenCompat \/ DisownCompat \/ ForgetRecord
    BY <1>1, <2>7 DEF OpenBackend, OpenWeb, OpenCompat, DisownCompat, ForgetRecord
  <2>8. QED
    BY <1>2, <2>1, <2>2, <2>3, <2>4, <2>5, <2>6, <2>7 DEF HelperStep
<1>3. CASE HelperFault
  <2>1. CASE RecordMissesFpm \/ QuiesceTimerFails \/ StopRecordedFails
    BY <1>1, <2>1 DEF RecordMissesFpm, QuiesceTimerFails, StopRecordedFails
  <2>2. CASE ReapTimesOut
    BY <1>1, <2>2 DEF ReapTimesOut
  <2>3. CASE StartRecordedFails \/ SystemdUnknown \/ Kill
    BY <1>1, <2>3 DEF StartRecordedFails, SystemdUnknown, Kill
  <2>4. QED
    BY <1>3, <2>1, <2>2, <2>3 DEF HelperFault
<1>4. QED
  BY <1>2, <1>3

\* While the role waits for nothing, the helper does not run.
LEMMA HelperRunsForRole ==
  ASSUME TypeOK, LockInv, RoleAlone, RoleCalls, HelperStep \/ HelperFault
  PROVE  lock = Role /\ call[Role] \in Requests /\ ~Entered
<1>1. lock # NoCaller /\ lock = Role
  BY HelperSteps DEF RoleAlone
<1>2. call[Role] \in Requests
  BY <1>1 DEF RoleCalls, TypeOK
<1>3. QED
  BY <1>1, <1>2 DEF RoleCalls, Entered, Requests

\* A site run finds the node the way its own enter has left it.
LEMMA FenceStep ==
  ASSUME ~StartupRepair, IInv, RoleAlone, RoleCalls, FenceInv, faults \in Nat,
         roleStep \in RoleSteps, TypeOK', [SystemNext]_sysVars
  PROVE  FenceInv'
<1> USE ConstantsOK, SystemConstantsOK
    DEF FenceInv, Entered, OutOfTraffic, Settled, OnTheWay, files, units, node, locals
<1>1. TypeOK /\ LockInv /\ EnterInv
  BY DEF IInv, Safe
<1>2. CASE RoleStart \/ RoleReenters \/ RoleAborts \/ RoleRuns
  <2>1. /\ UNCHANGED <<files, units, routed, lock, pc, locals>>
        /\ UNCHANGED <<db, clients>> \/ RestartDb
        /\ \/ roleStep' = "entering" /\ HAProxySettled /\ call'[Role] \in {"enter", "enter-restart"}
           \/ Entered /\ roleStep' = "drained"
           \/ roleStep' \in {"idle", "joining", "exiting"}
    BY <1>1, <1>2, RoleStepEffects
  <2>2. UNCHANGED <<db, clients>> \/ clients' = 0
    BY <2>1 DEF RestartDb
  <2>3. OnTheWay'
    BY <2>1, <2>2
  <2>4. Settled'
    BY <2>1 DEF HAProxySettled
  <2>5. Entered' => OutOfTraffic'
    BY <2>1, <2>2
  <2>6. QED
    BY <2>3, <2>4, <2>5
<1>3. CASE UNCHANGED <<roleStep, repairStep>> /\ Acquire(Role)
  <2>1. already' => backend /\ ~routed
    BY <1>3 DEF Acquire, RoleCalls, RoleSteps, Requests
  <2>2. pc' \in {"e_check", "x_check"} /\ lock' # NoCaller
    BY <1>3 DEF Acquire
  <2>3. UNCHANGED <<files, units, node, call, roleStep>>
    BY <1>3 DEF Acquire
  <2>4. QED
    BY <2>1, <2>2, <2>3
<1>4. CASE UNCHANGED <<roleStep, repairStep>> /\ (HelperStep \/ HelperFault)
  <2>1. OnTheWay'
    BY <1>1, <1>4, OnTheWayHelper
  <2>2. lock = Role /\ call[Role] \in Requests /\ ~Entered
    BY <1>1, <1>4, HelperRunsForRole
  <2>3. HelperGoesOn \/ HelperEnds
    BY <1>1, <1>4, HelperSteps
  <2>4. Settled'
    BY <1>1, <2>2, <2>3 DEF HelperGoesOn, HelperEnds, Finish, TypeOK
  <2>5. ASSUME Entered' PROVE OutOfTraffic'
    <3>1. roleStep = "entering" /\ call'[Role] = "ok" /\ op # "exit"
      BY <1>4, <2>2, <2>5 DEF RoleCalls, Requests
    <3>2. /\ pc \in {"e_drain", "e_force"} /\ UNCHANGED <<files, units, node>>
          /\ AllowStale \/ clients = 0 \/ db = "down"
      BY <1>1, <1>4, <2>2, <3>1, EnterSucceeds
    <3>3. backend /\ stateFile
      BY <1>1, <3>2 DEF EnterInv, Pcs, EnterPcs, ExitPcs, RestorePcs
    <3>4. QED
      BY <3>2, <3>3
  <2>6. QED
    BY <2>1, <2>4, <2>5
<1>5. CASE UNCHANGED <<roleStep, repairStep>> /\ (NodeEvent \/ UNCHANGED vars)
  <2> DEFINE away == backend /\ ~routed
  <2>1. /\ UNCHANGED <<backend, web, stateFile, recorded, lock, pc, locals, call, roleStep>>
        /\ active' \cup queued' \subseteq active \cup queued
        /\ away => ~routed' /\ (clients = 0 => clients' = 0)
        /\ db' \in {"down", "joining"} => clients' = 0
    BY <1>1, <1>5 DEF NodeEvent, DbChange, JobEnds, DbStates, DailyStart, DailyDrain, DailyEnd,
       Connect, Disconnect, HaproxyPoll, Answers, Ready, TypeOK, vars, record
  <2>2. OnTheWay'
    BY <1>1, <2>1 DEF EnterInv
  <2>3. Settled'
    BY <2>1
  <2>4. Entered' => OutOfTraffic'
    BY <2>1
  <2>5. QED
    BY <2>2, <2>3, <2>4
<1>6. CASE Reboot /\ roleStep' = "idle"
  BY <1>6 DEF Reboot
<1>7. QED
  BY <1>2, <1>3, <1>4, <1>5, <1>6, RoleAloneNext

-----------------------------------------------------------------------------
(* Without the startup repair: the daily timer of a web member.             *)

\* The helper starts only what the record lists, and takes the record when the
\* timer is as it was found.
LEMMA TimerHelper ==
  ASSUME TypeOK, LocalWeb, TimerInv, HelperStep \/ HelperFault
  PROVE  TimerInv'
<1> USE ConstantsOK
    DEF TimerInv, files, markers, record, units, node, locals, Goto, Finish, StopUnit,
        StartUnits, Listings, KeepStaleClients, TypeOK
<1>1. CASE HelperStep
  <2>1. CASE CheckConflicts \/ RecordUnits \/ QuiesceTimer \/ AssertDailyInactive
    BY <2>1 DEF CheckConflicts, RecordUnits, QuiesceTimer, AssertDailyInactive
  <2>2. CASE UndoTimer \/ UndoRecord
    BY <2>2 DEF UndoTimer, UndoRecord
  <2>3. CASE MarkBackend \/ MarkWeb \/ MarkCompat \/ OwnCompat \/ WaitForHAProxy
    BY <2>3 DEF MarkBackend, MarkWeb, MarkCompat, OwnCompat, WaitForHAProxy
  <2>4. CASE StopRecorded
    BY <2>4 DEF StopRecorded
  <2>5. CASE ClientsDrained \/ DrainTimesOut \/ Reap \/ ReapSucceeds \/ ReapFails
    BY <2>5 DEF ClientsDrained, DrainTimesOut, Reap, ReapSucceeds, ReapFails
  <2>6. CASE RollbackCheck \/ ExitCheck
    BY <2>6 DEF RollbackCheck, ExitCheck
  <2>7. CASE StartRecorded
    BY <2>7 DEF StartRecorded
  <2>8. CASE OpenBackend \/ OpenWeb \/ OpenCompat \/ DisownCompat \/ ForgetRecord
    BY <2>8 DEF OpenBackend, OpenWeb, OpenCompat, DisownCompat, ForgetRecord
  <2>9. QED
    BY <1>1, <2>1, <2>2, <2>3, <2>4, <2>5, <2>6, <2>7, <2>8 DEF HelperStep
<1>2. CASE HelperFault
  <2>1. CASE RecordMissesFpm \/ QuiesceTimerFails \/ StopRecordedFails \/ ReapTimesOut
    BY <2>1 DEF RecordMissesFpm, QuiesceTimerFails, StopRecordedFails, ReapTimesOut
  <2>2. CASE StartRecordedFails
    BY <2>2 DEF StartRecordedFails
  <2>3. CASE SystemdUnknown \/ Kill
    BY <2>3 DEF SystemdUnknown, Kill
  <2>4. QED
    BY <1>2, <2>1, <2>2, <2>3 DEF HelperFault
<1>3. QED
  BY <1>1, <1>2

\* On the way to success the helper has stopped the timer before it looks at
\* the daily update, and nothing starts either of them again.
LEMMA QuietHelper ==
  ASSUME TypeOK, EnterInv, LocalWeb, TimerInv, QuietInv, HelperStep
  PROVE  /\ pc' \in QuietPcs \cup {"e_assert"} => DailyTimer \notin active'
         /\ pc' \in QuietPcs => daily' = "idle"
<1> USE ConstantsOK
    DEF EnterInv, TimerInv, QuietInv, QuietPcs, files, markers, record, units, node,
        locals, Goto, Finish, StopUnit, StartUnits, Listings, KeepStaleClients, Pcs, EnterPcs,
        ExitPcs, RestorePcs
<1>1. CASE CheckConflicts \/ RecordUnits \/ AssertDailyInactive \/ UndoTimer \/ UndoRecord
  BY <1>1 DEF CheckConflicts, RecordUnits, AssertDailyInactive, UndoTimer, UndoRecord
<1>2. CASE QuiesceTimer
  BY <1>2 DEF QuiesceTimer
<1>3. CASE MarkBackend \/ MarkWeb \/ MarkCompat \/ OwnCompat \/ WaitForHAProxy
  BY <1>3 DEF MarkBackend, MarkWeb, MarkCompat, OwnCompat, WaitForHAProxy
<1>4. CASE StopRecorded
  BY <1>4 DEF StopRecorded
<1>5. CASE ClientsDrained \/ DrainTimesOut \/ Reap \/ ReapSucceeds \/ ReapFails
  BY <1>5 DEF ClientsDrained, DrainTimesOut, Reap, ReapSucceeds, ReapFails
<1>6. CASE RollbackCheck \/ ExitCheck \/ StartRecorded
  BY <1>6 DEF RollbackCheck, ExitCheck, StartRecorded
<1>7. CASE OpenBackend \/ OpenWeb \/ OpenCompat \/ DisownCompat \/ ForgetRecord
  BY <1>7 DEF OpenBackend, OpenWeb, OpenCompat, DisownCompat, ForgetRecord
<1>8. QED
  BY <1>1, <1>2, <1>3, <1>4, <1>5, <1>6, <1>7 DEF HelperStep

\* The timer of a node in a drain stays stopped, and a drain that meets no
\* fault ends with no daily update running.
LEMMA QuietStep ==
  ASSUME ~StartupRepair, LocalWeb, IInv, RoleAlone, RoleCalls, TimerInv,
         faults = 0 => QuietInv, faults \in Nat, [SystemNext]_sysVars
  PROVE  TimerInv' /\ (faults' = 0 => QuietInv')
<1> USE ConstantsOK, SystemConstantsOK
    DEF TimerInv, QuietInv, Entered, files, units, node, locals
<1>1. TypeOK /\ LockInv /\ EnterInv
  BY DEF IInv, Safe
<1>2. faults' = 0 => faults = 0
  <2> USE DEF sysVars, budgets, Disrupt
  <2>1. CASE RoleStart \/ RoleReenters \/ RoleAborts \/ RoleRuns
    BY <2>1 DEF RoleStart, RoleReenters, RoleAborts, RoleRuns, RoleEntered,
       RoleRestart, RoleJoined, RoleExited
  <2>2. CASE RepairRefuses \/ RepairHoldsUnits \/ RepairRuns \/ CooldownExpires
    BY <2>2 DEF RepairRefuses, RepairHoldsUnits, CooldownExpires, RepairRuns,
       RepairClears, RepairObserves, RepairEntered, RepairRestart, RepairJoined,
       RepairGivesUp, RepairCleared, RepairUnits
  <2>3. CASE HelperFails
    BY <2>3 DEF HelperFails
  <2>4. CASE \/ HelperWorks \/ LockTimesOut \/ JobsRun \/ JobFails \/ DbJoins \/ DbLost
             \/ DailyBegins \/ DailyWorks \/ Traffic \/ Polls \/ NodeReboots
    BY <2>4 DEF HelperWorks, LockTimesOut, JobsRun, JobFails, DbJoins, DbLost,
       DailyBegins, DailyWorks, Traffic, Polls, NodeReboots
  <2>5. CASE UNCHANGED sysVars
    BY <2>5
  <2>6. QED
    BY <2>1, <2>2, <2>3, <2>4, <2>5 DEF SystemNext
<1>3. CASE RoleStart \/ RoleReenters \/ RoleAborts \/ RoleRuns
  <2>1. /\ UNCHANGED <<files, units, daily, pc, locals>>
        /\ \/ roleStep' = "entering" /\ call'[Role] \in {"enter", "enter-restart"}
           \/ Entered /\ roleStep' = "drained"
           \/ roleStep' \in {"idle", "joining", "exiting"}
    BY <1>1, <1>3, RoleStepEffects
  <2>2. QED
    BY <1>2, <2>1
<1>4. CASE UNCHANGED <<roleStep, repairStep>> /\ Acquire(Role)
  <2>1. UNCHANGED <<files, units, node, call, roleStep>> /\ pc' \in {"e_check", "x_check"}
    BY <1>4 DEF Acquire
  <2>2. QED
    BY <1>2, <2>1 DEF QuietPcs
<1>5. CASE UNCHANGED <<roleStep, repairStep>> /\ HelperStep
  <2>1. TimerInv'
    BY <1>1, <1>5, TimerHelper
  <2>2. lock = Role /\ call[Role] \in Requests
    BY <1>1, <1>5, HelperRunsForRole
  <2>3. ASSUME faults' = 0 PROVE QuietInv'
    <3>1. /\ pc' \in QuietPcs \cup {"e_assert"} => DailyTimer \notin active'
          /\ pc' \in QuietPcs => daily' = "idle"
      BY <1>1, <1>2, <1>5, <2>3, QuietHelper
    <3>2. ASSUME Entered' PROVE DailyTimer \notin active' /\ daily' = "idle"
      <4>1. call'[Role] = "ok" /\ op # "exit"
        BY <1>5, <2>2, <3>2 DEF RoleCalls, Requests
      <4>2. pc \in {"e_drain", "e_force"} /\ UNCHANGED <<files, units, node>>
        BY <1>1, <1>5, <2>2, <4>1, EnterSucceeds
      <4>3. QED
        BY <1>2, <2>3, <4>2 DEF QuietPcs
    <3>3. QED
      BY <3>1, <3>2
  <2>4. QED
    BY <2>1, <2>3
<1>6. CASE HelperFault /\ faults' # 0
  BY <1>1, <1>6, TimerHelper
<1>7. CASE UNCHANGED <<roleStep, repairStep>> /\ (NodeEvent \/ UNCHANGED vars)
  <2>1. /\ UNCHANGED <<stateFile, recorded, pc, todo, call, roleStep>>
        /\ DailyTimer \in active' <=> DailyTimer \in active
        /\ DailyTimer \notin active /\ daily = "idle" => daily' = "idle"
    BY <1>1, <1>7 DEF NodeEvent, DbChange, JobEnds, DailyStart, DailyDrain, DailyEnd,
       Connect, Disconnect, HaproxyPoll, vars, record, TypeOK
  <2>2. QED
    BY <1>2, <2>1
<1>8. CASE Reboot /\ roleStep' = "idle"
  BY <1>8 DEF Reboot, QuietPcs
<1>9. QED
  BY <1>3, <1>4, <1>5, <1>6, <1>7, <1>8, RoleAloneNext

-----------------------------------------------------------------------------
(* Without the startup repair: the theorems.                                *)

LEMMA SystemInvInit == SystemInit => SystemInv
<1> SUFFICES ASSUME SystemInit PROVE SystemInv
  OBVIOUS
<1> USE ConstantsOK, SystemConstantsOK DEF SystemInit, Init
<1>1. IInv
  BY InitInv
<1>2. RoleAlone /\ RoleCalls
  BY DEF RoleAlone, RoleCalls
<1>3. FenceInv
  BY DEF FenceInv, Entered, Settled, OnTheWay, EnterPcs
<1>4. TimerInv /\ QuietInv
  BY DEF TimerInv, QuietInv, QuietPcs, Entered
<1>5. QED
  BY <1>1, <1>2, <1>3, <1>4 DEF SystemInv

LEMMA SystemInvStep ==
  ASSUME ~StartupRepair, SystemInv, SystemTypeOK, SystemTypeOK', [SystemNext]_sysVars
  PROVE  SystemInv'
<1> USE SystemConstantsOK
<1>1. faults \in Nat /\ roleStep \in RoleSteps /\ TypeOK' /\ LocalWeb \in BOOLEAN
  BY ConstantsOK DEF SystemTypeOK
<1>2. IInv /\ RoleAlone /\ RoleCalls /\ FenceInv
      /\ (LocalWeb => TimerInv /\ (faults = 0 => QuietInv))
  BY DEF SystemInv
<1>3. IInv'
  BY <1>2, StepImplements, StepSafe, StepType DEF IInv
<1>4. RoleAlone' /\ RoleCalls'
  BY <1>1, <1>2, RoleCallsStep
<1>5. FenceInv'
  BY <1>1, <1>2, FenceStep
<1>6. LocalWeb => TimerInv' /\ (faults' = 0 => QuietInv')
  BY <1>1, <1>2, QuietStep
<1>7. QED
  BY <1>3, <1>4, <1>5, <1>6 DEF SystemInv

LEMMA SystemInvariant ==
  ASSUME ~StartupRepair
  PROVE  SystemSafety => []SystemInv
<1>1. SystemInv /\ SystemTypeOK /\ SystemTypeOK' /\ [SystemNext]_sysVars => SystemInv'
  BY SystemInvStep
<1>2. QED
  BY <1>1, SystemInvInit, SystemTypes, PTL DEF SystemSafety

\* Where the startup repair does not run, a site run restarts MariaDB only on a
\* node that is out of traffic and quiet, whatever is killed, fails or times out.
THEOREM RestartsFenced ==
  ASSUME ~StartupRepair
  PROVE  SystemSafety => PlannedRestartIsFenced
<1>1. SystemInv /\ [SystemNext]_sysVars => [Fenced]_sysVars
  BY DEF SystemInv, FenceInv, Entered, OutOfTraffic, Fenced
<1>2. QED
  BY <1>1, SystemInvariant, PTL DEF SystemSafety, PlannedRestartIsFenced

\* Where the startup repair does not run and no systemd call of the helper has
\* failed, no daily update runs on a web member that waits for its restart.
THEOREM DrainIsQuiet ==
  ASSUME ~StartupRepair, LocalWeb
  PROVE  SystemSafety => []DrainQuietUnlessFault
<1>1. SystemInv => DrainQuietUnlessFault
  BY DEF SystemInv, QuietInv, Entered, DrainQuietUnlessFault, DrainExcludesDaily
<1>2. QED
  BY <1>1, SystemInvariant, PTL

=============================================================================
