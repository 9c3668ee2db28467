-------------------------- MODULE NodeDrainProofs --------------------------
(* Proofs about the node-drain helper for any set of callers and units.    *)
EXTENDS NodeDrain, TLAPS

\* TypeOK in two parts: SMT reads an assignment of FALSE as a negation and so
\* loses the type of a flag, which Zenon keeps.
Flags ==
  /\ backend \in BOOLEAN /\ web \in BOOLEAN
  /\ compat \in BOOLEAN /\ compatOwned \in BOOLEAN
  /\ stateFile \in BOOLEAN /\ routed \in BOOLEAN
  /\ already \in BOOLEAN /\ created \in BOOLEAN

Rest ==
  /\ recorded \in SUBSET Units
  /\ active \in SUBSET Units /\ queued \in SUBSET (Units \ {DailyTimer})
  /\ owed \in SUBSET Units
  /\ db \in DbStates
  /\ clients \in 0..MaxClients
  /\ daily \in {"idle", "starting", "updating"}
  /\ lock \in Callers \cup {NoCaller}
  /\ pc \in Pcs
  /\ op \in Requests
  /\ todo \in SUBSET Units
  /\ call \in [Callers -> Requests \cup Results]

\* The initial states have the right types.
LEMMA InitType == Init => TypeOK
<1>1. Init => Flags
  BY Zenon DEF Init, Flags
<1>2. Init => Rest
  BY ConstantsOK DEF Init, Rest, DbStates, Requests, Results, Pcs
<1>3. QED
  BY <1>1, <1>2 DEF TypeOK, Flags, Rest

\* Every step keeps them: one step of the proof per action.
LEMMA StepType == TypeOK /\ [Next]_vars => TypeOK'
<1> SUFFICES ASSUME TypeOK, [Next]_vars PROVE TypeOK'
  OBVIOUS
<1> USE ConstantsOK
    DEF TypeOK, DbStates, Requests, Results, Pcs, EnterPcs, ExitPcs,
        RestorePcs, Goto, Finish, StopUnit, StartUnits, Listings,
        KeepStaleClients, files, markers, record, units, node, locals
<1>1. ASSUME NEW c \in Callers, NEW req \in Requests, Request(c, req)
      PROVE  TypeOK'
  BY <1>1 DEF Request
<1>2. ASSUME NEW c \in Callers, Collect(c) PROVE TypeOK'
  BY <1>2 DEF Collect
<1>3. ASSUME NEW c \in Callers, Acquire(c) PROVE TypeOK'
  BY <1>3 DEF Acquire
<1>4. ASSUME NEW c \in Callers, LockTimeout(c) PROVE TypeOK'
  BY <1>4 DEF LockTimeout
<1>5. ASSUME CheckConflicts PROVE TypeOK'
  <2>1. Flags'
    BY <1>5, Zenon DEF CheckConflicts, Flags
  <2>2. Rest'
    BY <1>5 DEF CheckConflicts, Rest
  <2>3. QED
    BY <2>1, <2>2 DEF Flags, Rest
<1>6. ASSUME RecordUnits PROVE TypeOK'
  BY <1>6 DEF RecordUnits
<1>7. ASSUME QuiesceTimer PROVE TypeOK'
  BY <1>7 DEF QuiesceTimer
<1>8. ASSUME AssertDailyInactive PROVE TypeOK'
  BY <1>8 DEF AssertDailyInactive
<1>9. ASSUME UndoTimer PROVE TypeOK'
  <2>1. Flags'
    BY <1>9, Zenon DEF UndoTimer, Flags
  <2>2. Rest'
    BY <1>9 DEF UndoTimer, Rest
  <2>3. QED
    BY <2>1, <2>2 DEF Flags, Rest
<1>10. ASSUME UndoRecord PROVE TypeOK'
  BY <1>10 DEF UndoRecord
<1>11. ASSUME MarkBackend PROVE TypeOK'
  BY <1>11 DEF MarkBackend
<1>12. ASSUME MarkWeb PROVE TypeOK'
  BY <1>12 DEF MarkWeb
<1>13. ASSUME MarkCompat PROVE TypeOK'
  BY <1>13 DEF MarkCompat
<1>14. ASSUME OwnCompat PROVE TypeOK'
  BY <1>14 DEF OwnCompat
<1>15. ASSUME WaitForHAProxy PROVE TypeOK'
  BY <1>15 DEF WaitForHAProxy
<1>16. ASSUME StopRecorded PROVE TypeOK'
  BY <1>16 DEF StopRecorded
<1>17. ASSUME ClientsDrained PROVE TypeOK'
  BY <1>17 DEF ClientsDrained
<1>18. ASSUME DrainTimesOut PROVE TypeOK'
  <2>1. Flags'
    BY <1>18, Zenon DEF DrainTimesOut, Flags
  <2>2. Rest'
    BY <1>18 DEF DrainTimesOut, Rest
  <2>3. QED
    BY <2>1, <2>2 DEF Flags, Rest
<1>19. ASSUME Reap PROVE TypeOK'
  BY <1>19 DEF Reap
<1>20. ASSUME ReapSucceeds PROVE TypeOK'
  BY <1>20 DEF ReapSucceeds
<1>21. ASSUME RollbackCheck PROVE TypeOK'
  <2>1. Flags'
    BY <1>21, Zenon DEF RollbackCheck, Flags
  <2>2. Rest'
    BY <1>21 DEF RollbackCheck, Rest
  <2>3. QED
    BY <2>1, <2>2 DEF Flags, Rest
<1>22. ASSUME ExitCheck PROVE TypeOK'
  <2>1. Flags'
    BY <1>22, Zenon DEF ExitCheck, Flags
  <2>2. Rest'
    BY <1>22 DEF ExitCheck, Rest
  <2>3. QED
    BY <2>1, <2>2 DEF Flags, Rest
<1>23. ASSUME StartRecorded PROVE TypeOK'
  BY <1>23 DEF StartRecorded
<1>24. ASSUME OpenBackend PROVE TypeOK'
  <2>1. Flags'
    BY <1>24, Zenon DEF OpenBackend, Flags
  <2>2. Rest'
    BY <1>24 DEF OpenBackend, Rest
  <2>3. QED
    BY <2>1, <2>2 DEF Flags, Rest
<1>25. ASSUME OpenWeb PROVE TypeOK'
  <2>1. Flags'
    BY <1>25, Zenon DEF OpenWeb, Flags
  <2>2. Rest'
    BY <1>25 DEF OpenWeb, Rest
  <2>3. QED
    BY <2>1, <2>2 DEF Flags, Rest
<1>26. ASSUME ForgetRecord PROVE TypeOK'
  BY <1>26 DEF ForgetRecord
<1>27. ASSUME QuiesceTimerFails PROVE TypeOK'
  BY <1>27 DEF QuiesceTimerFails
<1>28. ASSUME StopRecordedFails PROVE TypeOK'
  BY <1>28 DEF StopRecordedFails
<1>29. ASSUME ReapFails PROVE TypeOK'
  <2>1. Flags'
    BY <1>29, Zenon DEF ReapFails, Flags
  <2>2. Rest'
    BY <1>29 DEF ReapFails, Rest
  <2>3. QED
    BY <2>1, <2>2 DEF Flags, Rest
<1>30. ASSUME ReapTimesOut PROVE TypeOK'
  <2>1. Flags'
    BY <1>30, Zenon DEF ReapTimesOut, Flags
  <2>2. Rest'
    BY <1>30 DEF ReapTimesOut, Rest
  <2>3. QED
    BY <2>1, <2>2 DEF Flags, Rest
<1>31. ASSUME StartRecordedFails PROVE TypeOK'
  BY <1>31 DEF StartRecordedFails
<1>32. ASSUME SystemdUnknown PROVE TypeOK'
  <2>1. Flags'
    BY <1>32, Zenon DEF SystemdUnknown, Flags
  <2>2. Rest'
    BY <1>32 DEF SystemdUnknown, Rest
  <2>3. QED
    BY <2>1, <2>2 DEF Flags, Rest
<1>33. ASSUME Kill PROVE TypeOK'
  BY <1>33 DEF Kill
<1>34. ASSUME DailyStart PROVE TypeOK'
  BY <1>34 DEF DailyStart
<1>35. ASSUME DailyDrain PROVE TypeOK'
  BY <1>35 DEF DailyDrain
<1>36. ASSUME DailyEnd PROVE TypeOK'
  <2>1. Flags'
    BY <1>36, Zenon DEF DailyEnd, Flags
  <2>2. Rest'
    BY <1>36 DEF DailyEnd, Rest
  <2>3. QED
    BY <2>1, <2>2 DEF Flags, Rest
<1>37. ASSUME HaproxyPoll PROVE TypeOK'
  BY <1>37 DEF HaproxyPoll
<1>38. ASSUME Connect PROVE TypeOK'
  BY <1>38 DEF Connect
<1>39. ASSUME Disconnect PROVE TypeOK'
  BY <1>39 DEF Disconnect
<1>40. ASSUME Reboot PROVE TypeOK'
  <2>1. Flags'
    BY <1>40, Zenon DEF Reboot, Flags
  <2>2. Rest'
    BY <1>40 DEF Reboot, Rest
  <2>3. QED
    BY <2>1, <2>2 DEF Flags, Rest
<1>41. ASSUME NEW S \in SUBSET Units, OthersSetUnits(S) PROVE TypeOK'
  BY <1>41 DEF OthersSetUnits
<1>42. ASSUME NEW s \in DbStates, DbChange(s) PROVE TypeOK'
  BY <1>42 DEF DbChange
<1>43. CASE UNCHANGED vars
  BY <1>43 DEF vars
<1>44. ASSUME OpenCompat PROVE TypeOK'
  <2>1. Flags'
    BY <1>44, Zenon DEF OpenCompat, Flags
  <2>2. Rest'
    BY <1>44 DEF OpenCompat, Rest
  <2>3. QED
    BY <2>1, <2>2 DEF Flags, Rest
<1>45. ASSUME DisownCompat PROVE TypeOK'
  <2>1. Flags'
    BY <1>45, Zenon DEF DisownCompat, Flags
  <2>2. Rest'
    BY <1>45 DEF DisownCompat, Rest
  <2>3. QED
    BY <2>1, <2>2 DEF Flags, Rest
<1>46. ASSUME RecordMissesFpm PROVE TypeOK'
  BY <1>46 DEF RecordMissesFpm
<1>47. ASSUME NEW u \in Units, NEW runs \in BOOLEAN, JobEnds(u, runs) PROVE TypeOK'
  BY <1>47 DEF JobEnds
<1>48. QED
  BY <1>1, <1>2, <1>3, <1>4, <1>5, <1>6, <1>7, <1>8, <1>9, <1>10, <1>11,
     <1>12, <1>13, <1>14, <1>15, <1>16, <1>17, <1>18, <1>19, <1>20, <1>21,
     <1>22, <1>23, <1>24, <1>25, <1>26, <1>27, <1>28, <1>29, <1>30, <1>31,
     <1>32, <1>33, <1>34, <1>35, <1>36, <1>37, <1>38, <1>39, <1>40, <1>41,
     <1>42, <1>43, <1>44, <1>45, <1>46, <1>47 DEF Next, HelperStep, HelperFault

\* The strengthened invariant holds initially: nothing is recorded or marked.
LEMMA InitInv == Init => IInv
<1>1. Init => Safe
  BY ConstantsOK DEF Init, Safe, LockInv, WebInv, EnterInv, RestoreInv,
     OwedUnitsRecorded, StartsBeforeTraffic, MarkersHaveRecord, Pcs, EnterPcs,
     ExitPcs, RestorePcs
<1>2. QED
  BY <1>1, InitType DEF IInv

\* Every step of the helper and of its environment keeps it; where an action
\* ends the helper or branches, one step per part.
LEMMA StepSafe == IInv /\ TypeOK' /\ [Next]_vars => Safe'
<1> SUFFICES ASSUME IInv, TypeOK', [Next]_vars PROVE Safe'
  OBVIOUS
<1> USE ConstantsOK
    DEF IInv, Safe, TypeOK, LockInv, WebInv, EnterInv, RestoreInv,
        OwedUnitsRecorded, StartsBeforeTraffic, MarkersHaveRecord, Pcs, EnterPcs, ExitPcs,
        RestorePcs, Goto, Finish, StopUnit, StartUnits, Listings,
        Ready, Answers, KeepStaleClients, files, markers, record, units, node,
        locals
<1>1. ASSUME NEW c \in Callers, NEW req \in Requests, Request(c, req)
      PROVE  Safe'
  BY <1>1 DEF Request
<1>2. ASSUME NEW c \in Callers, Collect(c) PROVE Safe'
  BY <1>2 DEF Collect
<1>3. ASSUME NEW c \in Callers, Acquire(c) PROVE Safe'
  BY <1>3 DEF Acquire
<1>4. ASSUME NEW c \in Callers, LockTimeout(c) PROVE Safe'
  BY <1>4 DEF LockTimeout
<1>5. ASSUME CheckConflicts PROVE Safe'
  <2>1. LockInv' /\ WebInv'
    BY <1>5 DEF CheckConflicts
  <2>2. EnterInv'
    BY <1>5 DEF CheckConflicts
  <2>3. RestoreInv'
    BY <1>5 DEF CheckConflicts
  <2>4. OwedUnitsRecorded' /\ StartsBeforeTraffic'
    BY <1>5 DEF CheckConflicts
  <2>5. MarkersHaveRecord'
    BY <1>5 DEF CheckConflicts
  <2>6. QED
    BY <2>1, <2>2, <2>3, <2>4, <2>5
<1>6. ASSUME RecordUnits PROVE Safe'
  <2>1. LockInv' /\ WebInv'
    BY <1>6 DEF RecordUnits
  <2>2. EnterInv'
    BY <1>6 DEF RecordUnits
  <2>3. RestoreInv'
    BY <1>6 DEF RecordUnits
  <2>4. OwedUnitsRecorded' /\ StartsBeforeTraffic'
    BY <1>6 DEF RecordUnits
  <2>5. MarkersHaveRecord'
    BY <1>6 DEF RecordUnits
  <2>6. QED
    BY <2>1, <2>2, <2>3, <2>4, <2>5
<1>7. ASSUME QuiesceTimer PROVE Safe'
  BY <1>7 DEF QuiesceTimer
<1>8. ASSUME AssertDailyInactive PROVE Safe'
  BY <1>8 DEF AssertDailyInactive
<1>9. ASSUME UndoTimer PROVE Safe'
  <2>1. LockInv' /\ WebInv'
    BY <1>9 DEF UndoTimer
  <2>2. EnterInv'
    BY <1>9 DEF UndoTimer
  <2>3. RestoreInv'
    BY <1>9 DEF UndoTimer
  <2>4. OwedUnitsRecorded' /\ StartsBeforeTraffic'
    BY <1>9 DEF UndoTimer
  <2>5. MarkersHaveRecord'
    BY <1>9 DEF UndoTimer
  <2>6. QED
    BY <2>1, <2>2, <2>3, <2>4, <2>5
<1>10. ASSUME UndoRecord PROVE Safe'
  BY <1>10 DEF UndoRecord
<1>11. ASSUME MarkBackend PROVE Safe'
  BY <1>11 DEF MarkBackend
<1>12. ASSUME MarkWeb PROVE Safe'
  BY <1>12 DEF MarkWeb
<1>13. ASSUME MarkCompat PROVE Safe'
  BY <1>13 DEF MarkCompat
<1>14. ASSUME OwnCompat PROVE Safe'
  BY <1>14 DEF OwnCompat
<1>15. ASSUME WaitForHAProxy PROVE Safe'
  BY <1>15 DEF WaitForHAProxy
<1>16. ASSUME StopRecorded PROVE Safe'
  BY <1>16 DEF StopRecorded
<1>17. ASSUME ClientsDrained PROVE Safe'
  BY <1>17 DEF ClientsDrained
<1>18. ASSUME DrainTimesOut PROVE Safe'
  <2>1. LockInv' /\ WebInv'
    BY <1>18 DEF DrainTimesOut
  <2>2. EnterInv'
    BY <1>18 DEF DrainTimesOut
  <2>3. RestoreInv'
    BY <1>18 DEF DrainTimesOut
  <2>4. OwedUnitsRecorded' /\ StartsBeforeTraffic'
    BY <1>18 DEF DrainTimesOut
  <2>5. MarkersHaveRecord'
    BY <1>18 DEF DrainTimesOut
  <2>6. QED
    BY <2>1, <2>2, <2>3, <2>4, <2>5
<1>19. ASSUME Reap PROVE Safe'
  BY <1>19 DEF Reap
<1>20. ASSUME ReapSucceeds PROVE Safe'
  BY <1>20 DEF ReapSucceeds
<1>21. ASSUME RollbackCheck PROVE Safe'
  <2>1. LockInv' /\ WebInv'
    BY <1>21 DEF RollbackCheck
  <2>2. EnterInv'
    BY <1>21 DEF RollbackCheck
  <2>3. RestoreInv'
    BY <1>21 DEF RollbackCheck
  <2>4. OwedUnitsRecorded' /\ StartsBeforeTraffic'
    BY <1>21 DEF RollbackCheck
  <2>5. MarkersHaveRecord'
    BY <1>21 DEF RollbackCheck
  <2>6. QED
    BY <2>1, <2>2, <2>3, <2>4, <2>5
<1>22. ASSUME ExitCheck PROVE Safe'
  <2>1. LockInv' /\ WebInv'
    BY <1>22 DEF ExitCheck
  <2>2. EnterInv'
    BY <1>22 DEF ExitCheck
  <2>3. RestoreInv'
    BY <1>22 DEF ExitCheck
  <2>4. OwedUnitsRecorded' /\ StartsBeforeTraffic'
    BY <1>22 DEF ExitCheck
  <2>5. MarkersHaveRecord'
    BY <1>22 DEF ExitCheck
  <2>6. QED
    BY <2>1, <2>2, <2>3, <2>4, <2>5
<1>23. ASSUME StartRecorded PROVE Safe'
  BY <1>23 DEF StartRecorded
<1>24. ASSUME OpenBackend PROVE Safe'
  <2>1. LockInv' /\ WebInv'
    BY <1>24 DEF OpenBackend
  <2>2. EnterInv'
    BY <1>24 DEF OpenBackend
  <2>3. RestoreInv'
    BY <1>24 DEF OpenBackend
  <2>4. OwedUnitsRecorded' /\ StartsBeforeTraffic'
    BY <1>24 DEF OpenBackend
  <2>5. MarkersHaveRecord'
    BY <1>24 DEF OpenBackend
  <2>6. QED
    BY <2>1, <2>2, <2>3, <2>4, <2>5
<1>25. ASSUME OpenWeb PROVE Safe'
  BY <1>25 DEF OpenWeb
<1>26. ASSUME ForgetRecord PROVE Safe'
  BY <1>26 DEF ForgetRecord
<1>27. ASSUME QuiesceTimerFails PROVE Safe'
  BY <1>27 DEF QuiesceTimerFails
<1>28. ASSUME StopRecordedFails PROVE Safe'
  BY <1>28 DEF StopRecordedFails
<1>29. ASSUME ReapFails PROVE Safe'
  <2>1. LockInv' /\ WebInv'
    BY <1>29 DEF ReapFails
  <2>2. EnterInv'
    BY <1>29 DEF ReapFails
  <2>3. RestoreInv'
    BY <1>29 DEF ReapFails
  <2>4. OwedUnitsRecorded' /\ StartsBeforeTraffic'
    BY <1>29 DEF ReapFails
  <2>5. MarkersHaveRecord'
    BY <1>29 DEF ReapFails
  <2>6. QED
    BY <2>1, <2>2, <2>3, <2>4, <2>5
<1>30. ASSUME ReapTimesOut PROVE Safe'
  <2>1. LockInv' /\ WebInv'
    BY <1>30 DEF ReapTimesOut
  <2>2. EnterInv'
    BY <1>30 DEF ReapTimesOut
  <2>3. RestoreInv'
    BY <1>30 DEF ReapTimesOut
  <2>4. OwedUnitsRecorded' /\ StartsBeforeTraffic'
    BY <1>30 DEF ReapTimesOut
  <2>5. MarkersHaveRecord'
    BY <1>30 DEF ReapTimesOut
  <2>6. QED
    BY <2>1, <2>2, <2>3, <2>4, <2>5
<1>31. ASSUME StartRecordedFails PROVE Safe'
  BY <1>31 DEF StartRecordedFails
<1>32. ASSUME SystemdUnknown PROVE Safe'
  <2>1. LockInv' /\ WebInv'
    BY <1>32 DEF SystemdUnknown
  <2>2. EnterInv'
    BY <1>32 DEF SystemdUnknown
  <2>3. RestoreInv'
    BY <1>32 DEF SystemdUnknown
  <2>4. OwedUnitsRecorded' /\ StartsBeforeTraffic'
    BY <1>32 DEF SystemdUnknown
  <2>5. MarkersHaveRecord'
    BY <1>32 DEF SystemdUnknown
  <2>6. QED
    BY <2>1, <2>2, <2>3, <2>4, <2>5
<1>33. ASSUME Kill PROVE Safe'
  BY <1>33 DEF Kill
<1>34. ASSUME DailyStart PROVE Safe'
  BY <1>34 DEF DailyStart
<1>35. ASSUME DailyDrain PROVE Safe'
  BY <1>35 DEF DailyDrain
<1>36. ASSUME DailyEnd PROVE Safe'
  <2>1. LockInv' /\ WebInv'
    BY <1>36 DEF DailyEnd
  <2>2. EnterInv'
    BY <1>36 DEF DailyEnd
  <2>3. RestoreInv'
    BY <1>36 DEF DailyEnd
  <2>4. OwedUnitsRecorded' /\ StartsBeforeTraffic'
    BY <1>36 DEF DailyEnd
  <2>5. MarkersHaveRecord'
    BY <1>36 DEF DailyEnd
  <2>6. QED
    BY <2>1, <2>2, <2>3, <2>4, <2>5
<1>37. ASSUME HaproxyPoll PROVE Safe'
  BY <1>37 DEF HaproxyPoll
<1>38. ASSUME Connect PROVE Safe'
  BY <1>38 DEF Connect
<1>39. ASSUME Disconnect PROVE Safe'
  BY <1>39 DEF Disconnect
<1>40. ASSUME Reboot PROVE Safe'
  <2>1. LockInv' /\ WebInv'
    BY <1>40 DEF Reboot
  <2>2. EnterInv'
    BY <1>40 DEF Reboot
  <2>3. RestoreInv'
    BY <1>40 DEF Reboot
  <2>4. OwedUnitsRecorded' /\ StartsBeforeTraffic'
    BY <1>40 DEF Reboot
  <2>5. MarkersHaveRecord'
    BY <1>40 DEF Reboot
  <2>6. QED
    BY <2>1, <2>2, <2>3, <2>4, <2>5
<1>41. ASSUME NEW S \in SUBSET Units, OthersSetUnits(S) PROVE Safe'
  BY <1>41 DEF OthersSetUnits
<1>42. ASSUME NEW s \in DbStates, DbChange(s) PROVE Safe'
  BY <1>42 DEF DbChange
<1>43. CASE UNCHANGED vars
  BY <1>43 DEF vars
<1>44. ASSUME OpenCompat PROVE Safe'
  BY <1>44 DEF OpenCompat
<1>45. ASSUME DisownCompat PROVE Safe'
  BY <1>45 DEF DisownCompat
<1>46. ASSUME RecordMissesFpm PROVE Safe'
  BY <1>46 DEF RecordMissesFpm
<1>47. ASSUME NEW u \in Units, NEW runs \in BOOLEAN, JobEnds(u, runs) PROVE Safe'
  BY <1>47 DEF JobEnds
<1>48. QED
  BY <1>1, <1>2, <1>3, <1>4, <1>5, <1>6, <1>7, <1>8, <1>9, <1>10, <1>11,
     <1>12, <1>13, <1>14, <1>15, <1>16, <1>17, <1>18, <1>19, <1>20, <1>21,
     <1>22, <1>23, <1>24, <1>25, <1>26, <1>27, <1>28, <1>29, <1>30, <1>31,
     <1>32, <1>33, <1>34, <1>35, <1>36, <1>37, <1>38, <1>39, <1>40, <1>41,
     <1>42, <1>43, <1>44, <1>45, <1>46, <1>47 DEF Next, HelperStep, HelperFault

\* Types are preserved by every step of the helper and of its environment.
THEOREM TypeCorrect == Spec => []TypeOK
<1>1. QED
  BY InitType, StepType, PTL DEF Spec

\* The inductive invariant holds in every reachable state.
THEOREM Invariance == Spec => []IInv
<1>1. IInv /\ [Next]_vars => IInv'
  BY StepType, StepSafe DEF IInv
<1>2. QED
  BY InitInv, <1>1, PTL DEF Spec

\* For every set of callers and units and however often the helper is killed:
\* a unit the helper stopped is on record until systemd is asked to start it again.
THEOREM NothingForgotten == Spec => []OwedUnitsRecorded
<1>1. IInv => OwedUnitsRecorded
  BY DEF IInv, Safe
<1>2. QED
  BY Invariance, <1>1, PTL

\* However enter, rollback and exit are cut short, a member loses its marker only
\* once systemd has accepted the start of every worker the helper has stopped.
THEOREM StartsPrecedeTraffic == Spec => []StartsBeforeTraffic
<1>1. IInv => StartsBeforeTraffic
  BY DEF IInv, Safe
<1>2. QED
  BY Invariance, <1>1, PTL

\* The state file outlives the markers.
THEOREM RecordOutlivesMarkers == Spec => []MarkersHaveRecord
<1>1. IInv => MarkersHaveRecord
  BY DEF IInv, Safe
<1>2. QED
  BY Invariance, <1>1, PTL

\* Traffic comes back backend first, then web, and the record goes last.
THEOREM Reopening == Spec => ReopenInOrder
<1>1. IInv /\ [Next]_vars => [Reopen]_vars
  <2> SUFFICES ASSUME IInv, [Next]_vars PROVE Reopen
    OBVIOUS
  <2> USE DEF IInv, Safe, TypeOK, EnterInv, RestoreInv, MarkersHaveRecord,
              Reopen, files, markers, record, units, StartUnits
  <2>1. CASE OpenWeb
    BY <2>1 DEF OpenWeb
  <2>2. CASE UndoRecord
    BY <2>2 DEF UndoRecord
  <2>3. CASE ForgetRecord
    BY <2>3 DEF ForgetRecord, RestorePcs
  <2>4. CASE Reboot
    BY <2>4 DEF Reboot
  <2>5. CASE RecordUnits \/ RecordMissesFpm
    BY <2>5 DEF RecordUnits, RecordMissesFpm
  <2>6. CASE MarkWeb
    BY <2>6 DEF MarkWeb
  <2>7. CASE \/ MarkBackend \/ MarkCompat \/ OwnCompat \/ OpenBackend
             \/ OpenCompat \/ DisownCompat \/ DailyDrain \/ DailyEnd
    BY <2>7 DEF MarkBackend, MarkCompat, OwnCompat, OpenBackend, OpenCompat,
       DisownCompat, DailyDrain, DailyEnd
  <2>8. CASE UNCHANGED files
    BY <2>8
  <2>9. QED
    <3>1. \/ OpenWeb \/ UndoRecord \/ ForgetRecord \/ Reboot \/ RecordUnits
          \/ RecordMissesFpm \/ OpenCompat \/ DisownCompat
          \/ MarkWeb \/ MarkBackend \/ MarkCompat \/ OwnCompat \/ OpenBackend
          \/ DailyDrain \/ DailyEnd \/ UNCHANGED files
      BY DEF Next, HelperStep, HelperFault, vars, Request, Collect, Acquire,
         LockTimeout, CheckConflicts, QuiesceTimer, AssertDailyInactive,
         UndoTimer, WaitForHAProxy, StopRecorded, ClientsDrained,
         DrainTimesOut, Reap, ReapSucceeds, RollbackCheck, ExitCheck,
         StartRecorded, QuiesceTimerFails, StopRecordedFails, ReapFails,
         ReapTimesOut, StartRecordedFails, SystemdUnknown, Kill, DailyStart,
         HaproxyPoll, Connect, Disconnect, OthersSetUnits, JobEnds, DbChange
    <3>2. QED
      BY <3>1, <2>1, <2>2, <2>3, <2>4, <2>5, <2>6, <2>7, <2>8
<1>2. QED
  BY Invariance, <1>1, PTL DEF Spec, ReopenInOrder

=============================================================================
