-------------------------- MODULE MaintenanceProofs --------------------------
(***************************************************************************)
(* Proofs about the maintenance role: for any number of nodes, drains and  *)
(* faults, what a play has stopped and nobody has started is on a node     *)
(* that carries the maintenance marker.                                    *)
(***************************************************************************)
EXTENDS Maintenance, FiniteSetTheorems, TLAPS

\* The order of the two workflows, as far as the invariant needs it.
LEMMA EnterOrder ==
  /\ DOMAIN EnterTasks = 1..16 /\ Len(EnterTasks) = 16
  /\ EnterTasks[1] = "mark"
  /\ \A k \in 1..16 : EnterTasks[k] # "unmark"
BY DEF EnterTasks

LEMMA ExitOrder ==
  /\ DOMAIN ExitTasks = 1..15 /\ Len(ExitTasks) = 15
  /\ \A k \in 1..15 : ExitTasks[k] # "mark" /\ (ExitTasks[k] = "unmark" => k = 15)
  /\ \A u \in Services : \E k \in 1..14 : ExitTasks[k] = u
BY DEF ExitTasks, Services

\* Every workflow is a finite list of tasks.
LEMMA TasksAreNumbered ==
  ASSUME play.action \in {"none", "enter", "hold", "exit", "upgrade"}
  PROVE  Len(Tasks) \in Nat \ {0} /\ DOMAIN Tasks = 1..Len(Tasks)
<1>1. CASE play.action = "exit"
  <2>1. Tasks = ExitTasks
    BY <1>1 DEF Tasks
  <2> QED
    BY <2>1, ExitOrder
<1>2. CASE play.action = "upgrade"
  BY <1>2 DEF Tasks
<1>3. CASE play.action \notin {"exit", "upgrade"}
  <2>1. Tasks = EnterTasks
    BY <1>3 DEF Tasks
  <2> QED
    BY <2>1, EnterOrder
<1> QED
  BY <1>1, <1>2, <1>3

\* There is a first node, and there are nodes.
LEMMA FirstIsNode == First(Nodes) \in Nodes /\ NoPlay.target \in Nodes
<1>1. PICK n \in Nodes : \A m \in Nodes : n <= m
  BY MaintenanceConstantsOK
<1>2. First(Nodes) \in Nodes
  BY <1>1 DEF First
<1>3. NoPlay.target \in Nodes
  BY <1>1 DEF NoPlay
<1> QED
  BY <1>2, <1>3

\* Only the plays change the play, and they go on, end, or begin.
LEMMA PlayTypes ==
  ASSUME TypeOK, Next
  PROVE  /\ play' \in [action : {"none", "enter", "hold", "exit", "upgrade"},
                       target : Nodes, task : Nat, others : SUBSET Nodes]
         /\ ~Idle' => play'.task \in DOMAIN Tasks'
<1> DEFINE Plays == [action : {"none", "enter", "hold", "exit", "upgrade"},
                     target : Nodes, task : Nat, others : SUBSET Nodes]
<1> USE DEF TypeOK
<1>1. CASE UNCHANGED play
  BY <1>1 DEF Idle, Tasks
<1>2. CASE play' = NoPlay
  BY <1>2, FirstIsNode DEF Idle, NoPlay
<1>3. ASSUME NEW action \in {"enter", "hold", "exit", "upgrade"}, NEW n \in Nodes,
             Start(action, n)
      PROVE  play' \in Plays /\ (~Idle' => play'.task \in DOMAIN Tasks')
  <2>1. play' \in Plays /\ play'.task = 1
    BY <1>3 DEF Start, Remaining
  <2>2. DOMAIN Tasks' = 1..16 \/ DOMAIN Tasks' = 1..15 \/ DOMAIN Tasks' = {1}
    <3>1. Tasks' = ExitTasks \/ Tasks' = EnterTasks \/ Tasks' = <<"packages">>
      BY DEF Tasks
    <3> QED
      BY <3>1, EnterOrder, ExitOrder
  <2> QED
    BY <2>1, <2>2
<1>4. CASE Proceed /\ ~Idle
  <2>1. CASE play.task < Len(Tasks)
    <3>1. play' = [play EXCEPT !.task = @ + 1]
      BY <1>4, <2>1 DEF Proceed
    <3>2. Tasks' = Tasks
      BY <3>1 DEF Tasks
    <3>3. play.task + 1 \in DOMAIN Tasks
      BY <2>1, TasksAreNumbered
    <3> QED
      BY <3>1, <3>2, <3>3
  <2>2. CASE ~(play.task < Len(Tasks))
    BY <1>2, <1>4, <2>2 DEF Proceed
  <2> QED
    BY <2>1, <2>2
<1>5. PlayStep => play' = NoPlay \/ (Proceed /\ ~Idle)
  BY DEF PlayStep, Mark, Unmark, StopUnit, StartUnit, Check, Packages, GiveUp, Idle
<1>6. Interrupt => play' = NoPlay
  BY DEF Interrupt
<1>7. ASSUME NEW n \in Nodes, Node(n)
      PROVE  \/ UNCHANGED play
             \/ \E action \in {"enter", "hold", "exit", "upgrade"} : Start(action, n)
  BY <1>7 DEF Node, Drain, Rejoin, List, Unlist, TimerFires, RepairEnds, RepairStarts,
     Upgrade, Shutdown, Crash, PowerOff, Boot, Join, Recover, Failover
<1> QED
  BY <1>1, <1>2, <1>3, <1>4, <1>5, <1>6, <1>7 DEF Next

\* The other types, one part of the state after the other.
LEMMA StepKeepsTypes ==
  ASSUME TypeOK, Next
  PROVE  TypeOK'
<1> USE DEF TypeOK
<1>1. on' \subseteq Nodes /\ marker' \subseteq Nodes /\ listed' \subseteq Nodes
  BY DEF Next, PlayStep, Mark, Unmark, StopUnit, StartUnit, Check, Packages, GiveUp,
     Interrupt, Node, Drain, Rejoin, List, Unlist, TimerFires, RepairEnds,
     RepairStarts, Upgrade, Shutdown, Crash, PowerOff, Boot, Join, Recover,
     Failover, nodeVars
<1>2. component' \subseteq Nodes /\ master' \in Nodes
  BY DEF Next, PlayStep, Mark, Unmark, StopUnit, StartUnit, Check, Packages, GiveUp,
     Interrupt, Node, Drain, Rejoin, List, Unlist, TimerFires, RepairEnds,
     RepairStarts, Upgrade, Shutdown, Crash, PowerOff, Boot, Join, Recover,
     Failover, dataVars, Lost
<1>3. up' \in [Nodes -> SUBSET Units] /\ owed' \in [Nodes -> SUBSET Services]
  <2> USE DEF Units
  <2>1. CASE UNCHANGED <<up, owed>>
    BY <2>1
  <2>2. CASE StopUnit
    BY <2>2 DEF StopUnit
  <2>3. CASE StartUnit
    BY <2>3 DEF StartUnit
  <2>4. CASE Packages
    BY <2>4 DEF Packages, Services
  <2>5. ASSUME NEW n \in Nodes,
               TimerFires(n) \/ RepairEnds(n) \/ \E u \in Services : RepairStarts(n, u)
        PROVE  up' \in [Nodes -> SUBSET Units] /\ owed' \in [Nodes -> SUBSET Services]
    BY <2>5 DEF TimerFires, RepairEnds, RepairStarts
  <2>6. ASSUME NEW n \in Nodes, PowerOff(n) \/ Boot(n)
        PROVE  up' \in [Nodes -> SUBSET Units] /\ owed' \in [Nodes -> SUBSET Services]
    BY <2>6 DEF PowerOff, Boot
  <2> QED
    BY <2>1, <2>2, <2>3, <2>4, <2>5, <2>6 DEF Next, PlayStep, Mark, Unmark, Check,
       GiveUp, Interrupt, Node, Drain, Rejoin, List, Unlist, Upgrade, Shutdown,
       Crash, Join, Recover, Failover, nodeVars
<1>4. reported' \subseteq Nodes
  BY DEF Next, PlayStep, Mark, Unmark, StopUnit, StartUnit, Check, Packages, GiveUp,
     Interrupt, Node, Drain, Rejoin, List, Unlist, TimerFires, RepairEnds,
     RepairStarts, Upgrade, Shutdown, Crash, PowerOff, Boot, Join, Recover,
     Failover, Proceed
<1>5. drains' \in 0..MaxDrains
  BY MaintenanceConstantsOK DEF Next, PlayStep, Mark, Unmark, StopUnit, StartUnit,
     Check, Packages, GiveUp, Interrupt, Node, Drain, Rejoin, List, Unlist,
     TimerFires, RepairEnds, RepairStarts, Upgrade, Shutdown, Crash, PowerOff, Boot,
     Join, Recover, Failover, bounds
<1>6. interrupts' \in 0..MaxFaults /\ crashes' \in 0..MaxFaults
  BY MaintenanceConstantsOK DEF Next, PlayStep, Mark, Unmark, StopUnit, StartUnit,
     Check, Packages, GiveUp, Interrupt, Node, Drain, Rejoin, List, Unlist,
     TimerFires, RepairEnds, RepairStarts, Upgrade, Shutdown, Crash, PowerOff, Boot,
     Join, Recover, Failover, bounds
<1> QED
  BY <1>1, <1>2, <1>3, <1>4, <1>5, <1>6, PlayTypes

\* What the nodes, the operator and the end of a play do: nothing more is
\* owed, no marker goes, and the play is left alone, ended or begun.
LEMMA OthersKeepInv ==
  ASSUME MaintenanceInv, TypeOK', marker' = marker,
         \A n \in Nodes : owed'[n] \subseteq owed[n],
         UNCHANGED play \/ play' = NoPlay \/ play'.task = 1
  PROVE  MaintenanceInv'
<1>1. StoppedIsMarked'
  BY DEF MaintenanceInv, StoppedIsMarked
<1>2. CASE UNCHANGED play
  BY <1>1, <1>2 DEF MaintenanceInv, TypeOK, MarkedFirst, StartedInOrder
<1>3. CASE play' = NoPlay
  BY <1>1, <1>3 DEF MaintenanceInv, MarkedFirst, StartedInOrder, NoPlay
<1>4. CASE play'.task = 1
  BY <1>1, <1>4 DEF MaintenanceInv, MarkedFirst, StartedInOrder
<1> QED
  BY <1>2, <1>3, <1>4

\* A play that goes on keeps its workflow and its target.
LEMMA ProceedGoesOn ==
  ASSUME TypeOK, Proceed
  PROVE  \/ play' = NoPlay
         \/ /\ play'.action = play.action /\ play'.target = play.target
            /\ play'.task = play.task + 1 /\ play'.others = play.others
BY DEF TypeOK, Proceed

\* What a drain stops is stopped after its target is marked.
LEMMA StopKeepsInv ==
  ASSUME MaintenanceInv, TypeOK', StopUnit
  PROVE  MaintenanceInv'
<1> USE DEF MaintenanceInv
<1>1. play.task # 1
  <2>1. Tasks = EnterTasks
    BY DEF StopUnit, Tasks
  <2> QED
    BY <2>1, EnterOrder DEF StopUnit, Task, Units, Services
<1>2. play.task > 1 /\ play.target \in marker /\ marker' = marker
  <2>1. play.task \in 1..Len(Tasks)
    BY TasksAreNumbered DEF TypeOK, StopUnit, Idle
  <2> QED
    BY <1>1, <2>1, TasksAreNumbered DEF TypeOK, StopUnit, MarkedFirst
<1>3. StoppedIsMarked'
  BY <1>2 DEF StopUnit, StoppedIsMarked, TypeOK
<1>4. MarkedFirst' /\ StartedInOrder'
  BY <1>2, ProceedGoesOn DEF StopUnit, MarkedFirst, StartedInOrder, NoPlay
<1> QED
  BY <1>3, <1>4

\* What a rejoin starts is not owed any more.
LEMMA StartKeepsInv ==
  ASSUME MaintenanceInv, TypeOK', StartUnit
  PROVE  MaintenanceInv'
<1> USE DEF MaintenanceInv
<1>1. /\ marker' = marker
      /\ owed' = [owed EXCEPT ![play.target] = @ \ {Task}]
      /\ Task = ExitTasks[play.task]
  BY DEF StartUnit, Tasks, Task
<1>2. StoppedIsMarked'
  BY <1>1 DEF StoppedIsMarked, TypeOK
<1>3. MarkedFirst'
  BY ProceedGoesOn DEF StartUnit, MarkedFirst, NoPlay
<1>4. StartedInOrder'
  <2>1. CASE play' = NoPlay
    BY <2>1 DEF StartedInOrder, NoPlay
  <2>2. CASE /\ play'.action = play.action /\ play'.target = play.target
             /\ play'.task = play.task + 1
    <3>1. \A k \in 1..play.task : ExitTasks[k] \notin owed'[play.target]
      BY <1>1 DEF StartUnit, StartedInOrder, TypeOK
    <3> QED
      BY <2>2, <3>1 DEF StartedInOrder, TypeOK
  <2> QED
    BY <2>1, <2>2, ProceedGoesOn DEF StartUnit
<1> QED
  BY <1>2, <1>3, <1>4

\* A check or a mark in a rejoin is about no unit.
LEMMA CheckKeepsInv ==
  ASSUME MaintenanceInv, TypeOK', Check \/ Mark
  PROVE  MaintenanceInv'
<1> USE DEF MaintenanceInv
<1>1. owed' = owed /\ marker \subseteq marker' /\ Proceed
  BY DEF Check, Mark, nodeVars
<1>2. StoppedIsMarked'
  BY <1>1 DEF StoppedIsMarked
<1>3. MarkedFirst'
  <2>1. CASE play' = NoPlay
    BY <2>1 DEF MarkedFirst, NoPlay
  <2>2. CASE Mark /\ play' # NoPlay
    BY <1>1, <2>2, ProceedGoesOn DEF MarkedFirst, Mark
  <2>3. CASE Check /\ play' # NoPlay
    <3>1. CASE play.action \in {"enter", "hold"}
      <4>1. Tasks = EnterTasks
        BY <3>1 DEF Tasks
      <4>2. play.task # 1
        BY <2>3, <4>1, EnterOrder DEF Check, Task, Checks
      <4>3. play.task \in Nat /\ play.task \in DOMAIN Tasks
        BY <2>3 DEF TypeOK, Check
      <4> QED
        BY <1>1, <2>3, <3>1, <4>1, <4>2, <4>3, EnterOrder, ProceedGoesOn DEF MarkedFirst
    <3>2. CASE play.action \notin {"enter", "hold"}
      BY <1>1, <2>3, <3>2, ProceedGoesOn DEF MarkedFirst
    <3> QED
      BY <3>1, <3>2
  <2> QED
    BY <2>1, <2>2, <2>3
<1>4. StartedInOrder'
  <2>1. CASE play' = NoPlay
    BY <2>1 DEF StartedInOrder, NoPlay
  <2>2. CASE play' # NoPlay /\ play.action = "exit"
    <3>1. Task = ExitTasks[play.task] /\ Task \in Checks \cup {"mark"}
      BY <2>2 DEF Task, Tasks, Check, Mark
    <3>2. Task \notin owed[play.target]
      BY <3>1 DEF Checks, Services, TypeOK
    <3> QED
      BY <1>1, <2>2, <3>1, <3>2, ProceedGoesOn DEF StartedInOrder, TypeOK
  <2>3. CASE play' # NoPlay /\ play.action # "exit"
    BY <1>1, <2>3, ProceedGoesOn DEF StartedInOrder
  <2> QED
    BY <2>1, <2>2, <2>3
<1> QED
  BY <1>2, <1>3, <1>4

\* The marker goes when every unit of the target has been started.
LEMMA UnmarkKeepsInv ==
  ASSUME MaintenanceInv, TypeOK', Unmark
  PROVE  MaintenanceInv'
<1> USE DEF MaintenanceInv
<1>1. play.action = "exit" /\ play.task = 15
  <2>1. play.task \in DOMAIN Tasks /\ Tasks[play.task] = "unmark"
    BY DEF Unmark, Task, TypeOK
  <2>2. CASE play.action = "exit"
    <3>1. Tasks = ExitTasks
      BY <2>2 DEF Tasks
    <3> QED
      BY <2>1, <2>2, <3>1, ExitOrder
  <2>3. CASE play.action = "upgrade"
    <3>1. Tasks = <<"packages">>
      BY <2>3 DEF Tasks
    <3>2. play.task = 1
      BY <2>1, <3>1
    <3> QED
      BY <2>1, <3>1, <3>2
  <2>4. CASE play.action \notin {"exit", "upgrade"}
    <3>1. Tasks = EnterTasks
      BY <2>4 DEF Tasks
    <3> QED
      BY <2>1, <3>1, EnterOrder
  <2> QED
    BY <2>2, <2>3, <2>4
<1>2. owed[play.target] = {}
  <2>1. \A k \in 1..14 : ExitTasks[k] \notin owed[play.target]
    BY <1>1 DEF StartedInOrder
  <2>2. owed[play.target] \subseteq Services
    BY DEF TypeOK
  <2> QED
    BY <2>1, <2>2, ExitOrder
<1>3. play' = NoPlay
  <2>1. Len(Tasks) = 15
    <3>1. Tasks = ExitTasks
      BY <1>1 DEF Tasks
    <3> QED
      BY <3>1, ExitOrder
  <2> QED
    BY <1>1, <2>1 DEF Unmark, Proceed
<1>4. StoppedIsMarked'
  BY <1>2 DEF StoppedIsMarked, Unmark, nodeVars
<1>5. MarkedFirst' /\ StartedInOrder'
  BY <1>3 DEF MarkedFirst, StartedInOrder, NoPlay
<1> QED
  BY <1>4, <1>5

-----------------------------------------------------------------------------

LEMMA InitInv == Init => MaintenanceInv
<1> SUFFICES ASSUME Init
             PROVE  MaintenanceInv
  OBVIOUS
<1>1. TypeOK
  BY FirstIsNode, MaintenanceConstantsOK DEF Init, TypeOK, Idle, NoPlay, Units
<1>2. StoppedIsMarked /\ MarkedFirst /\ StartedInOrder
  BY DEF Init, StoppedIsMarked, MarkedFirst, StartedInOrder, NoPlay
<1> QED
  BY <1>1, <1>2 DEF MaintenanceInv

LEMMA StepKeepsInv == MaintenanceInv /\ [Next]_vars => MaintenanceInv'
<1> SUFFICES ASSUME MaintenanceInv, [Next]_vars
             PROVE  MaintenanceInv'
  OBVIOUS
<1>1. CASE UNCHANGED vars
  BY <1>1 DEF vars, nodeVars, dataVars, bounds, MaintenanceInv, TypeOK, Idle, Tasks,
     StoppedIsMarked, MarkedFirst, StartedInOrder
<1>2. ASSUME Next PROVE TypeOK'
  BY <1>2, StepKeepsTypes DEF MaintenanceInv
<1>3. CASE StopUnit
  BY <1>2, <1>3, StopKeepsInv DEF Next, PlayStep
<1>4. CASE StartUnit
  BY <1>2, <1>4, StartKeepsInv DEF Next, PlayStep
<1>5. CASE Check \/ Mark
  BY <1>2, <1>5, CheckKeepsInv DEF Next, PlayStep
<1>6. CASE Unmark
  BY <1>2, <1>6, UnmarkKeepsInv DEF Next, PlayStep
<1>7. CASE Packages \/ GiveUp \/ Interrupt
  <2>1. marker' = marker /\ play' = NoPlay
    BY <1>7 DEF Packages, GiveUp, Interrupt
  <2>2. \A n \in Nodes : owed'[n] \subseteq owed[n]
    BY <1>7 DEF Packages, GiveUp, Interrupt, nodeVars, MaintenanceInv, TypeOK
  <2> QED
    BY <1>2, <1>7, <2>1, <2>2, OthersKeepInv DEF Next, PlayStep
<1>8. ASSUME NEW n \in Nodes, Node(n)
      PROVE  MaintenanceInv'
  <2>1. marker' = marker
    BY <1>8 DEF Node, Drain, Rejoin, List, Unlist, TimerFires, RepairEnds,
       RepairStarts, Upgrade, Shutdown, Crash, PowerOff, Boot, Join, Recover, Failover
  <2>2. UNCHANGED play \/ play'.task = 1
    BY <1>8 DEF Node, Drain, Rejoin, List, Unlist, TimerFires, RepairEnds,
       RepairStarts, Upgrade, Shutdown, Crash, PowerOff, Boot, Join, Recover,
       Failover, Start
  <2>3. \A m \in Nodes : owed'[m] \subseteq owed[m]
    BY <1>8 DEF Node, Drain, Rejoin, List, Unlist, TimerFires, RepairEnds,
       RepairStarts, Upgrade, Shutdown, Crash, PowerOff, Boot, Join, Recover,
       Failover, nodeVars, MaintenanceInv, TypeOK
  <2> QED
    BY <1>2, <1>8, <2>1, <2>2, <2>3, OthersKeepInv DEF Next
<1> QED
  BY <1>1, <1>3, <1>4, <1>5, <1>6, <1>7, <1>8 DEF Next, PlayStep

THEOREM InductiveInvariant == Safety => []MaintenanceInv
BY InitInv, StepKeepsInv, PTL DEF Safety

\* The variables of the maintenance role keep their types; a play is never
\* past the end of its workflow.
THEOREM MaintenanceTypeCorrect == Safety => []TypeOK
<1>1. MaintenanceInv => TypeOK
  BY DEF MaintenanceInv
<1> QED
  BY <1>1, InductiveInvariant, PTL

\* An unmarked node is whole: whatever plays were cut short, refused or
\* repeated, what they stopped and nobody started is on a marked node, so the
\* marker tells an operator where to run maintenance-exit.yml.
THEOREM StoppedNodesAreMarked == Safety => []StoppedIsMarked
<1>1. MaintenanceInv => StoppedIsMarked
  BY DEF MaintenanceInv
<1> QED
  BY <1>1, InductiveInvariant, PTL

-----------------------------------------------------------------------------
(* A drained node stays quiet.                                             *)

LEMMA DrainOrder ==
  /\ EnterTasks[6] = "timer" /\ EnterTasks[7] = "repair"
  /\ \A u \in QuietUnits : \E k \in 6..16 : EnterTasks[k] = u
BY DEF EnterTasks, QuietUnits

\* Beside the plays, only the startup repair and a boot start units, and the
\* repair only where it runs or is about to.
LEMMA NodesStayQuiet ==
  ASSUME DrainInv, Next, NEW n \in Nodes, Node(n), crashes' = 0
  PROVE  DrainedStaysQuiet'
<1> USE DEF DrainInv, DrainedStaysQuiet, QuietUnits
<1>1. crashes = 0 /\ ~Crash(n)
  BY DEF TypeOK, Node, Drain, Rejoin, List, Unlist, TimerFires, RepairEnds,
     RepairStarts, Upgrade, Shutdown, Crash, PowerOff, Boot, Join, Recover, Failover,
     bounds
<1>2. CASE TimerFires(n)
  BY <1>1, <1>2 DEF TimerFires, TypeOK
<1>3. CASE \E u \in Services : RepairStarts(n, u)
  BY <1>1, <1>3 DEF RepairStarts, TypeOK
<1>4. CASE RepairEnds(n)
  BY <1>1, <1>4 DEF RepairEnds, TypeOK
<1>5. CASE Shutdown(n)
  BY <1>1, <1>5 DEF Shutdown, PowerOff, TypeOK
<1>6. CASE Boot(n)
  BY <1>1, <1>6 DEF Boot, TypeOK
<1>7. CASE UNCHANGED up /\ reported' \subseteq reported
  BY <1>1, <1>7
<1> QED
  BY <1>1, <1>2, <1>3, <1>4, <1>5, <1>6, <1>7 DEF Node, Drain, Rejoin, List, Unlist,
     Upgrade, Join, Recover, Failover, nodeVars

\* They do not undo what a drain has done so far either.
LEMMA NodesKeepOrder ==
  ASSUME DrainInv, TypeOK', Next, NEW n \in Nodes, Node(n), crashes' = 0
  PROVE  StoppedInOrder' /\ TargetStaysOn' /\ RejoiningIsUnreported'
<1> USE DEF DrainInv, StoppedInOrder, TargetStaysOn, RejoiningIsUnreported, Draining
<1>1. crashes = 0 /\ ~Crash(n)
  BY DEF TypeOK, Node, Drain, Rejoin, List, Unlist, TimerFires, RepairEnds,
     RepairStarts, Upgrade, Shutdown, Crash, PowerOff, Boot, Join, Recover, Failover,
     bounds
<1>2. play.task \in Nat /\ play.target \in Nodes
  BY DEF TypeOK
<1>3. CASE TimerFires(n)
  <2>1. UNCHANGED <<play, on, reported>>
    BY <1>3 DEF TimerFires
  <2>2. StoppedInOrder'
    <3>1. CASE n # play.target
      BY <1>1, <1>2, <1>3, <2>1, <3>1 DEF TimerFires, TypeOK
    <3>2. CASE n = play.target
      BY <1>1, <1>2, <1>3, <2>1, <3>2, DrainOrder DEF TimerFires, TypeOK
    <3> QED
      BY <3>1, <3>2
  <2> QED
    BY <1>1, <2>1, <2>2
<1>4. CASE \E u \in Services : RepairStarts(n, u)
  <2>1. UNCHANGED <<play, on, reported>>
    BY <1>4 DEF RepairStarts
  <2>2. PICK u \in Services : RepairStarts(n, u)
    BY <1>4
  <2>3. "repair" \in up[n] /\ u # "timer" /\ up' = [up EXCEPT ![n] = @ \cup {u}]
    BY <2>2 DEF RepairStarts, Startable
  <2>4. StoppedInOrder'
    <3>1. CASE n # play.target
      BY <1>1, <1>2, <2>1, <2>3, <3>1 DEF TypeOK
    <3>2. CASE n = play.target
      <4> SUFFICES ASSUME Draining', NEW k \in 6..(play.task - 1)
                   PROVE  EnterTasks[k] \notin up'[play.target]
        BY <2>1
      <4>1. Draining
        BY <1>1, <2>1
      <4>2. k = 6
        BY <1>2, <2>3, <3>2, <4>1, DrainOrder
      <4> QED
        BY <1>2, <2>3, <3>2, <4>1, <4>2, DrainOrder DEF TypeOK
    <3> QED
      BY <3>1, <3>2
  <2> QED
    BY <1>1, <2>1, <2>4
<1>5. CASE RepairEnds(n)
  BY <1>1, <1>2, <1>5 DEF RepairEnds, TypeOK
<1>6. CASE Shutdown(n)
  BY <1>1, <1>6 DEF Shutdown, PowerOff, Idle
<1>7. CASE Boot(n)
  BY <1>1, <1>2, <1>7 DEF Boot, TypeOK
<1>8. CASE UNCHANGED <<up, on, play, reported>>
  BY <1>1, <1>8
<1>9. CASE Drain("enter", n) \/ Drain("hold", n) \/ Upgrade(n)
  BY <1>9 DEF Drain, Upgrade, Start
<1>10. CASE Rejoin(n)
  BY <1>10 DEF Rejoin, Start
<1> QED
  BY <1>1, <1>3, <1>4, <1>5, <1>6, <1>7, <1>8, <1>9, <1>10 DEF Node, List, Unlist,
     Join, Recover, Failover, nodeVars

\* One more task of a drain: what it is about is not running afterwards, so
\* at the last one nothing is that could start again.
LEMMA DrainGoesOn ==
  ASSUME DrainInv, TypeOK', Proceed, ~Idle, crashes' = crashes, on' = on,
         play.action \in {"enter", "hold"}, play.target \in on,
         \A n \in Nodes : up'[n] \subseteq up[n],
         Task \notin up'[play.target]
  PROVE  DrainInv'
<1> USE DEF DrainInv
<1>1. Tasks = EnterTasks /\ Task = EnterTasks[play.task]
  BY DEF Tasks, Task
<1>2. play.task \in 1..16 /\ play.target \in Nodes
  BY <1>1, EnterOrder DEF TypeOK
<1>3. crashes = 0 => \A k \in 6..play.task : EnterTasks[k] \notin up'[play.target]
  BY <1>1, <1>2 DEF StoppedInOrder, Draining
<1>4. CASE play.task < 16
  <2>1. play' = [play EXCEPT !.task = @ + 1] /\ reported' = reported
    BY <1>1, <1>4, EnterOrder DEF Proceed
  <2>2. /\ play'.action = play.action /\ play'.target = play.target
        /\ play'.task = play.task + 1
    BY <2>1 DEF TypeOK
  <2>3. DrainedStaysQuiet'
    BY <2>1 DEF DrainedStaysQuiet, TypeOK
  <2>4. StoppedInOrder'
    BY <1>2, <1>3, <2>2 DEF StoppedInOrder, Draining
  <2>5. TargetStaysOn' /\ RejoiningIsUnreported'
    BY <2>2 DEF TargetStaysOn, RejoiningIsUnreported
  <2> QED
    BY <2>3, <2>4, <2>5
<1>5. CASE ~(play.task < 16)
  <2>1. play' = NoPlay /\ reported' = reported \cup {play.target}
    BY <1>1, <1>5, EnterOrder DEF Proceed
  <2>2. crashes = 0 => up'[play.target] \cap QuietUnits = {}
    BY <1>2, <1>3, <1>5, DrainOrder
  <2>3. DrainedStaysQuiet'
    BY <2>1, <2>2 DEF DrainedStaysQuiet, TypeOK
  <2>4. StoppedInOrder' /\ TargetStaysOn' /\ RejoiningIsUnreported'
    BY <2>1 DEF StoppedInOrder, TargetStaysOn, RejoiningIsUnreported, Draining, NoPlay
  <2> QED
    BY <2>3, <2>4
<1> QED
  BY <1>4, <1>5

\* One more task of a rejoin: its target is not counted as drained.
LEMMA RejoinGoesOn ==
  ASSUME DrainInv, TypeOK', Proceed, crashes' = crashes, play.action = "exit",
         \A n \in Nodes \ {play.target} : up'[n] \subseteq up[n]
  PROVE  DrainInv'
<1> USE DEF DrainInv
<1>1. reported' = reported /\ play.target \notin reported
  BY DEF Proceed, RejoiningIsUnreported
<1>2. DrainedStaysQuiet'
  BY <1>1 DEF DrainedStaysQuiet, TypeOK
<1>3. StoppedInOrder' /\ TargetStaysOn' /\ RejoiningIsUnreported'
  BY <1>1, ProceedGoesOn DEF StoppedInOrder, TargetStaysOn, RejoiningIsUnreported,
     Draining, NoPlay
<1> QED
  BY <1>2, <1>3

LEMMA PlayKeepsDrainInv ==
  ASSUME DrainInv, TypeOK', PlayStep \/ Interrupt
  PROVE  DrainInv'
<1> USE DEF DrainInv
<1>1. CASE Packages \/ GiveUp \/ Interrupt
  <2>1. play' = NoPlay /\ reported' = reported /\ crashes' = crashes
    BY <1>1 DEF Packages, GiveUp, Interrupt, bounds
  <2>2. \A n \in Nodes : up'[n] \subseteq up[n] \cup {"nginx"}
    BY <1>1 DEF Packages, GiveUp, Interrupt, nodeVars, TypeOK
  <2>3. DrainedStaysQuiet'
    BY <2>1, <2>2 DEF DrainedStaysQuiet, QuietUnits, TypeOK
  <2>4. StoppedInOrder' /\ TargetStaysOn' /\ RejoiningIsUnreported'
    BY <2>1 DEF StoppedInOrder, TargetStaysOn, RejoiningIsUnreported, Draining, NoPlay
  <2> QED
    BY <2>3, <2>4
<1>2. CASE StopUnit
  <2>1. \A n \in Nodes : up'[n] \subseteq up[n]
    BY <1>2 DEF StopUnit, TypeOK
  <2>2. Task \notin up'[play.target]
    BY <1>2 DEF StopUnit, TypeOK
  <2> QED
    BY <1>2, <2>1, <2>2, DrainGoesOn DEF StopUnit, Idle, bounds
<1>3. CASE StartUnit \/ Unmark \/ (Check /\ play.action = "exit")
  <2>1. Proceed /\ crashes' = crashes
    BY <1>3 DEF StartUnit, Unmark, Check, bounds
  <2>2. play.action = "exit"
    <3>1. CASE Unmark
      <4>1. play.task \in DOMAIN Tasks /\ Tasks[play.task] = "unmark"
        BY <3>1 DEF Unmark, Task, TypeOK
      <4>2. Tasks # EnterTasks
        BY <4>1, EnterOrder
      <4>3. Tasks # <<"packages">>
        BY <4>1
      <4> QED
        BY <4>2, <4>3 DEF Tasks
    <3> QED
      BY <1>3, <3>1 DEF StartUnit
  <2>3. \A n \in Nodes \ {play.target} : up'[n] \subseteq up[n]
    BY <1>3 DEF StartUnit, Unmark, Check, nodeVars, TypeOK
  <2> QED
    BY <2>1, <2>2, <2>3, RejoinGoesOn
<1>4. CASE Mark \/ (Check /\ play.action # "exit")
  <2>1. /\ Proceed /\ ~Idle /\ crashes' = crashes /\ on' = on /\ up' = up
    BY <1>4 DEF Mark, Check, bounds, nodeVars
  <2>2. play.task \in DOMAIN Tasks /\ Task = Tasks[play.task] /\ Task \in Checks \cup {"mark"}
    BY <1>4, <2>1 DEF Mark, Check, Task, TypeOK
  <2>3. play.action \in {"enter", "hold"}
    <3>1. Tasks # <<"packages">>
      BY <2>2 DEF Checks
    <3>2. play.action # "exit"
      BY <1>4, <2>2, ExitOrder DEF Mark, Tasks
    <3> QED
      BY <2>1, <3>1, <3>2 DEF Tasks, TypeOK, Idle
  <2>4. Task \notin up'[play.target]
    BY <2>1, <2>2 DEF TypeOK, Checks, Units, Services
  <2>5. CASE play.target \in on
    BY <2>1, <2>3, <2>4, <2>5, DrainGoesOn
  <2>6. CASE play.target \notin on
    <3>1. Tasks = EnterTasks /\ play.task # 1 /\ play.task > 1
      BY <1>4, <2>2, <2>3, <2>6, EnterOrder DEF Mark, Check, Checks, Tasks
    <3>2. crashes' # 0 /\ crashes # 0
      BY <2>1, <2>3, <2>6, <3>1 DEF TargetStaysOn, Draining
    <3>3. RejoiningIsUnreported'
      BY <2>1, <2>3, ProceedGoesOn DEF RejoiningIsUnreported, NoPlay
    <3> QED
      BY <3>2, <3>3 DEF DrainedStaysQuiet, StoppedInOrder, TargetStaysOn, Draining
  <2> QED
    BY <2>5, <2>6
<1> QED
  BY <1>1, <1>2, <1>3, <1>4 DEF PlayStep

LEMMA StepKeepsDrainInv == DrainInv /\ [Next]_vars => DrainInv'
<1> SUFFICES ASSUME DrainInv, [Next]_vars
             PROVE  DrainInv'
  OBVIOUS
<1>1. CASE UNCHANGED vars
  BY <1>1 DEF vars, nodeVars, dataVars, bounds, DrainInv, TypeOK, Idle, Tasks, Draining,
     DrainedStaysQuiet, StoppedInOrder, TargetStaysOn, RejoiningIsUnreported
<1>2. ASSUME Next PROVE TypeOK'
  BY <1>2, StepKeepsTypes DEF DrainInv
<1>3. CASE PlayStep \/ Interrupt
  BY <1>2, <1>3, PlayKeepsDrainInv DEF Next
<1>4. ASSUME NEW n \in Nodes, Node(n)
      PROVE  DrainInv'
  <2>1. CASE crashes' = 0
    BY <1>2, <1>4, <2>1, NodesStayQuiet, NodesKeepOrder DEF Next, DrainInv
  <2>2. CASE crashes' # 0
    <3>1. RejoiningIsUnreported'
      BY <1>4 DEF DrainInv, RejoiningIsUnreported, Node, Drain, Rejoin, List, Unlist,
         TimerFires, RepairEnds, RepairStarts, Upgrade, Shutdown, Crash, PowerOff,
         Boot, Join, Recover, Failover, Start
    <3> QED
      BY <1>2, <1>4, <2>2, <3>1 DEF Next, DrainInv, DrainedStaysQuiet, StoppedInOrder,
         TargetStaysOn, Draining
  <2> QED
    BY <2>1, <2>2
<1> QED
  BY <1>1, <1>3, <1>4 DEF Next

LEMMA DrainInvInit == Init => DrainInv
<1>1. Init => TypeOK
  BY InitInv DEF MaintenanceInv
<1> QED
  BY <1>1 DEF Init, DrainInv, DrainedStaysQuiet, StoppedInOrder, TargetStaysOn,
     RejoiningIsUnreported, Draining, NoPlay

\* A drained node that is neither booted nor rejoined runs no worker, no data
\* service and nothing that would start one, as long as no node crashes in a
\* drain: the repair timer is stopped before the repair and both before the rest.
THEOREM DrainedNodesStayQuiet == Safety => []DrainedStaysQuiet
<1>1. DrainInv => DrainedStaysQuiet
  BY DEF DrainInv
<1> QED
  BY <1>1, DrainInvInit, StepKeepsDrainInv, PTL DEF Safety

-----------------------------------------------------------------------------
(* Planned work leaves two members of every tier.                          *)

\* Which task a play is at, and what that says of the play.
LEMMA TaskPlace ==
  ASSUME TypeOK, ~Idle
  PROVE  /\ play.action = "exit" =>
              /\ play.task \in 1..15 /\ Task = ExitTasks[play.task] /\ Len(Tasks) = 15
         /\ play.action \in {"enter", "hold"} =>
              /\ play.task \in 1..16 /\ Task = EnterTasks[play.task] /\ Len(Tasks) = 16
              /\ play.task > 1 \/ Task = "mark"
         /\ Task = "unmark" => play.action = "exit" /\ play.task = 15
         /\ Task = "mark" => play.action \in {"enter", "hold"}
<1>1. play.task \in DOMAIN Tasks /\ Task = Tasks[play.task]
  BY DEF TypeOK, Task
<1>2. CASE play.action = "exit"
  <2>1. Tasks = ExitTasks
    BY <1>2 DEF Tasks
  <2>2. QED
    BY <1>1, <1>2, <2>1, ExitOrder
<1>3. CASE play.action \in {"enter", "hold"}
  <2>1. Tasks = EnterTasks
    BY <1>3 DEF Tasks
  <2>2. QED
    BY <1>1, <1>3, <2>1, EnterOrder
<1>4. CASE play.action = "upgrade"
  <2>1. Tasks = <<"packages">>
    BY <1>4 DEF Tasks
  <2>2. play.task = 1 /\ Task = "packages"
    BY <1>1, <2>1
  <2>3. QED
    BY <1>4, <2>2
<1>5. QED
  BY <1>2, <1>3, <1>4 DEF TypeOK, Idle

\* A rejoin waits for its target to join and starts nothing but services.
LEMMA RejoinOrder ==
  /\ ExitTasks[2] = "joined"
  /\ \A k \in 1..15 : ExitTasks[k] # "repair"
BY DEF ExitTasks

\* Only marked nodes are reported as drained.
LEMMA ReportedStaysMarked ==
  ASSUME CapacityInv, Next
  PROVE  ReportedIsMarked'
<1> USE DEF CapacityInv, ReportedIsMarked
<1>1. CASE Mark \/ StopUnit \/ Check \/ StartUnit
  <2>1. ~Idle /\ Proceed /\ marker \subseteq marker'
    BY <1>1 DEF Mark, StopUnit, Check, StartUnit, Idle
  <2>2. reported' = reported \/ (play.action # "exit" /\ reported' = reported \cup {play.target})
    BY <2>1 DEF Proceed
  <2>3. CASE Mark
    BY <2>1, <2>2, <2>3 DEF Mark
  <2>4. CASE StartUnit
    BY <2>1, <2>2, <2>4 DEF StartUnit
  <2>5. CASE (StopUnit \/ Check) /\ play.action \in {"enter", "hold"}
    <3>1. Task # "mark"
      BY <2>5 DEF StopUnit, Check, Checks, Units, Services
    <3>2. play.target \in marker
      BY <2>1, <2>5, <3>1, TaskPlace DEF MarkedFirst
    <3>3. QED
      BY <2>1, <2>2, <3>2
  <2>6. CASE (StopUnit \/ Check) /\ play.action = "upgrade"
    <3>1. Tasks = <<"packages">> /\ play.task \in DOMAIN Tasks
      BY <2>1, <2>6 DEF Tasks, TypeOK
    <3>2. Task = "packages"
      BY <3>1 DEF Task
    <3>3. QED
      BY <2>6, <3>2 DEF StopUnit, Check, Checks
  <2>7. QED
    BY <1>1, <2>1, <2>2, <2>3, <2>4, <2>5, <2>6 DEF TypeOK, Idle
<1>2. CASE Unmark
  <2>1. play.action = "exit"
    BY <1>2, TaskPlace DEF Unmark
  <2>2. QED
    BY <1>2, <2>1 DEF Unmark, Proceed, RejoiningIsUnreported
<1>3. CASE Packages \/ GiveUp \/ Interrupt
  BY <1>3 DEF Packages, GiveUp, Interrupt
<1>4. ASSUME NEW n \in Nodes, Node(n) PROVE ReportedIsMarked'
  BY <1>4 DEF Node, Drain, Rejoin, List, Unlist, TimerFires, RepairEnds, RepairStarts,
     Upgrade, Shutdown, Crash, PowerOff, Boot, Join, Recover, Failover
<1>5. QED
  BY <1>1, <1>2, <1>3, <1>4 DEF Next, PlayStep

\* Unmarked nodes stay two: a drain marks one node and has counted the others.
LEMMA EnoughStays ==
  ASSUME CapacityInv, Next
  PROVE  EnoughUnmarked'
<1> USE DEF CapacityInv, EnoughUnmarked
<1>1. ASSUME NEW S, NEW T, S \subseteq T, T \subseteq Nodes, Cardinality(S) >= 2
      PROVE  Cardinality(T) >= 2
  <2>1. IsFiniteSet(T) /\ IsFiniteSet(S)
    BY <1>1, MaintenanceConstantsOK, FS_Subset
  <2>2. Cardinality(S) \in Nat /\ Cardinality(T) \in Nat /\ Cardinality(S) <= Cardinality(T)
    BY <1>1, <2>1, FS_CardinalityType, FS_Subset
  <2>3. QED
    BY <1>1, <2>2
<1>2. ASSUME Proceed
      PROVE  \/ play' = NoPlay
             \/ /\ play'.action = play.action /\ play'.target = play.target
                /\ play'.others = play.others
  BY <1>2, ProceedGoesOn
<1>3. CASE Mark
  <2>1. play.action \in {"enter", "hold"} /\ play.others \subseteq Nodes
    BY <1>3, TaskPlace DEF Mark, TypeOK
  <2>2. marker' = marker \cup {play.target} /\ play.others \subseteq Nodes \ marker'
    BY <1>3, <2>1 DEF Mark
  <2>3. Cardinality(Nodes \ marker') >= 2
    BY <1>1, <2>1, <2>2
  <2>4. QED
    BY <1>2, <1>3, <2>1, <2>2, <2>3 DEF Mark, NoPlay
<1>4. CASE Unmark
  <2>1. play.action = "exit" /\ Proceed
    BY <1>4, TaskPlace DEF Unmark
  <2>2. Nodes \ marker \subseteq Nodes \ marker'
    BY <1>4 DEF Unmark
  <2>3. QED
    BY <1>1, <1>2, <2>1, <2>2 DEF NoPlay
<1>5. CASE StopUnit \/ StartUnit \/ Check
  BY <1>2, <1>5 DEF StopUnit, StartUnit, Check, NoPlay
<1>6. CASE Packages \/ GiveUp \/ Interrupt
  BY <1>6 DEF Packages, GiveUp, Interrupt, NoPlay
<1>7. ASSUME NEW n \in Nodes, NEW action \in {"enter", "hold"}, Drain(action, n)
      PROVE  EnoughUnmarked'
  BY <1>7 DEF Drain, Start, Remaining, Capacity, Disciplined
<1>8. ASSUME NEW n \in Nodes, Rejoin(n) \/ Upgrade(n) PROVE EnoughUnmarked'
  BY <1>8 DEF Rejoin, Upgrade, Start
<1>9. CASE UNCHANGED <<marker, play>>
  BY <1>9
<1>10. QED
  BY <1>3, <1>4, <1>5, <1>6, <1>7, <1>8, <1>9 DEF Next, PlayStep, Node, List, Unlist,
     TimerFires, RepairEnds, RepairStarts, Shutdown, Crash, PowerOff, Boot, Join,
     Recover, Failover

\* The nodes, the operator and the repair take nothing from an unmarked node or
\* from the target of a rejoin.
LEMMA NodesKeepWhole ==
  ASSUME CapacityInv, TypeOK', Next, NEW n \in Nodes, Node(n), crashes' = 0
  PROVE  UnmarkedIsWhole' /\ RejoinedInOrder'
<1> USE DEF CapacityInv, UnmarkedIsWhole, RejoinedInOrder, Whole
<1>1. crashes = 0 /\ ~Crash(n) /\ play.target \in Nodes /\ marker' = marker
  BY DEF TypeOK, Node, Drain, Rejoin, List, Unlist, TimerFires, RepairEnds,
     RepairStarts, Upgrade, Shutdown, Crash, PowerOff, Boot, Join, Recover, Failover,
     bounds
<1>2. CASE TimerFires(n) \/ \E u \in Services : RepairStarts(n, u)
  <2>1. UNCHANGED <<on, component, play>> /\ \A m \in Nodes : up[m] \subseteq up'[m]
    BY <1>2 DEF TimerFires, RepairStarts, dataVars, TypeOK
  <2>2. QED
    BY <1>1, <2>1
<1>3. CASE RepairEnds(n)
  <2>1. UNCHANGED <<on, component, play>> /\ \A m \in Nodes : up[m] \ {"repair"} \subseteq up'[m]
    BY <1>3 DEF RepairEnds, dataVars, TypeOK
  <2>2. "repair" \notin Services
    BY DEF Services
  <2>3. UnmarkedIsWhole'
    BY <1>1, <2>1, <2>2
  <2>4. play.action = "exit" => play.task \in 1..15
    BY TaskPlace DEF Idle
  <2>5. RejoinedInOrder'
    BY <1>1, <2>1, <2>4, RejoinOrder
  <2>6. QED
    BY <2>3, <2>5
<1>4. CASE Shutdown(n)
  <2>1. n \in marker /\ play' = play /\ play.action = "none"
    BY <1>4 DEF Shutdown, PowerOff, Idle, ReportedIsMarked
  <2>2. \A m \in Nodes \ {n} : /\ m \in on => m \in on'
                               /\ m \in component => m \in component'
                               /\ up'[m] = up[m]
    BY <1>4 DEF Shutdown, PowerOff, TypeOK
  <2>3. QED
    BY <1>1, <2>1, <2>2
<1>5. CASE Boot(n)
  <2>1. /\ n \notin on /\ UNCHANGED <<component, play>> /\ on' = on \cup {n}
        /\ \A m \in Nodes \ {n} : up'[m] = up[m]
    BY <1>5 DEF Boot, dataVars, TypeOK
  <2>2. QED
    BY <1>1, <2>1
<1>6. CASE Join(n)
  BY <1>1, <1>6 DEF Join, nodeVars
<1>7. ~Recover(n)
  <2>1. Nodes \ marker # {}
    BY FS_EmptySet DEF EnoughUnmarked
  <2>2. QED
    BY <1>1, <2>1 DEF Recover
<1>8. CASE List(n) \/ Unlist(n) \/ Failover(n)
  BY <1>1, <1>8 DEF List, Unlist, Failover, nodeVars, dataVars
<1>9. CASE Rejoin(n)
  BY <1>1, <1>9 DEF Rejoin, Start, nodeVars, dataVars
<1>10. CASE Upgrade(n) \/ \E action \in {"enter", "hold"} : Drain(action, n)
  BY <1>1, <1>10 DEF Upgrade, Drain, Start, nodeVars, dataVars
<1>11. QED
  BY <1>1, <1>2, <1>3, <1>4, <1>5, <1>6, <1>7, <1>8, <1>9, <1>10 DEF Node

\* A drain takes units from its marked target, and a rejoin has brought back all
\* of them when it removes the marker.
LEMMA PlaysKeepWhole ==
  ASSUME CapacityInv, TypeOK', PlayStep \/ Interrupt, crashes' = 0
  PROVE  UnmarkedIsWhole' /\ RejoinedInOrder'
<1> USE DEF CapacityInv, UnmarkedIsWhole, RejoinedInOrder, Whole
<1>1. crashes = 0 /\ on' = on /\ play.target \in Nodes
  BY DEF TypeOK, PlayStep, Mark, Unmark, StopUnit, StartUnit, Check, Packages, GiveUp,
     Interrupt, bounds, nodeVars
<1>2. CASE StopUnit
  <2>1. ~Idle /\ play.action \in {"enter", "hold"} /\ Task # "mark" /\ Proceed /\ marker' = marker
    BY <1>2 DEF StopUnit, Idle, Units, Services
  <2>2. play.target \in marker
    BY <2>1, TaskPlace DEF MarkedFirst
  <2>3. \A m \in Nodes \ {play.target} : /\ m \in component => m \in component'
                                         /\ up'[m] = up[m]
    BY <1>2 DEF StopUnit, TypeOK
  <2>4. QED
    BY <1>1, <2>1, <2>2, <2>3, ProceedGoesOn DEF NoPlay
<1>3. CASE StartUnit
  <2>1. ~Idle /\ play.action = "exit" /\ Task \in Units /\ Proceed
    BY <1>3 DEF StartUnit, Idle
  <2>2. play.task \in 1..15 /\ Task = ExitTasks[play.task] /\ play.task # 2
    BY <2>1, TaskPlace, RejoinOrder DEF Units, Services
  <2>3. /\ UNCHANGED <<marker, component>> /\ \A m \in Nodes : up[m] \subseteq up'[m]
        /\ Task \in up'[play.target]
    BY <1>3 DEF StartUnit, TypeOK, dataVars
  <2>4. UnmarkedIsWhole'
    BY <1>1, <2>3
  <2>5. RejoinedInOrder'
    <3>1. CASE play' = NoPlay
      BY <3>1 DEF NoPlay
    <3>2. CASE /\ play'.action = play.action /\ play'.target = play.target
               /\ play'.task = play.task + 1
      BY <1>1, <2>1, <2>2, <2>3, <3>2
    <3>3. QED
      BY <2>1, <3>1, <3>2, ProceedGoesOn
  <2>6. QED
    BY <2>4, <2>5
<1>4. CASE Check
  <2>1. ~Idle /\ Task \in Checks /\ Proceed /\ UNCHANGED <<marker, component, up>>
    BY <1>4 DEF Check, nodeVars, dataVars
  <2>2. UnmarkedIsWhole'
    BY <1>1, <2>1
  <2>3. CASE play' = NoPlay \/ play.action # "exit"
    BY <2>1, <2>2, <2>3, ProceedGoesOn DEF NoPlay
  <2>4. CASE play' # NoPlay /\ play.action = "exit"
    <3>1. play.task \in 1..15 /\ Task = ExitTasks[play.task] /\ ExitTasks[play.task] \notin Units
      BY <2>1, <2>4, TaskPlace DEF Units, Services, Checks
    <3>2. play.task = 2 => play.target \in component
      BY <1>4, <3>1, RejoinOrder DEF Check, Holds
    <3>3. /\ play'.action = play.action /\ play'.target = play.target
          /\ play'.task = play.task + 1
      BY <2>1, <2>4, ProceedGoesOn
    <3>4. QED
      BY <1>1, <2>1, <2>2, <2>4, <3>1, <3>2, <3>3
  <2>5. QED
    BY <2>3, <2>4
<1>5. CASE Mark
  <2>1. play.action \in {"enter", "hold"}
    BY <1>5, TaskPlace DEF Mark
  <2>2. QED
    BY <1>1, <1>5, <2>1, ProceedGoesOn DEF Mark, nodeVars, dataVars, NoPlay
<1>6. CASE Unmark
  <2>1. play.action = "exit" /\ play.task = 15 /\ Len(Tasks) = 15
    BY <1>6, TaskPlace DEF Unmark
  <2>2. play' = NoPlay /\ UNCHANGED <<component, up>> /\ marker' = marker \ {play.target}
    BY <1>6, <2>1 DEF Unmark, Proceed, nodeVars, dataVars
  <2>3. Whole(play.target)
    BY <1>1, <2>1, ExitOrder DEF Units
  <2>4. QED
    BY <1>1, <2>2, <2>3 DEF NoPlay
<1>7. CASE Packages
  <2>1. UNCHANGED <<marker, component>> /\ \A m \in Nodes : up[m] \subseteq up'[m]
    BY <1>7 DEF Packages, TypeOK, dataVars
  <2>2. QED
    BY <1>1, <1>7, <2>1 DEF Packages, NoPlay
<1>8. CASE GiveUp \/ Interrupt
  BY <1>1, <1>8 DEF GiveUp, Interrupt, NoPlay, nodeVars, dataVars
<1>9. QED
  BY <1>2, <1>3, <1>4, <1>5, <1>6, <1>7, <1>8 DEF PlayStep

LEMMA StepKeepsCapacityInv ==
  ASSUME CapacityInv, TypeOK', MarkedFirst', RejoiningIsUnreported', [Next]_vars
  PROVE  CapacityInv'
<1> USE DEF CapacityInv
<1>1. CASE UNCHANGED vars
  BY <1>1 DEF vars, nodeVars, dataVars, bounds, ReportedIsMarked, EnoughUnmarked,
     UnmarkedIsWhole, Whole, RejoinedInOrder
<1>2. CASE Next
  <2>1. ReportedIsMarked' /\ EnoughUnmarked'
    BY <1>2, ReportedStaysMarked, EnoughStays
  <2>2. UnmarkedIsWhole' /\ RejoinedInOrder'
    <3>1. CASE crashes' # 0
      BY <3>1 DEF UnmarkedIsWhole, RejoinedInOrder
    <3>2. CASE crashes' = 0
      BY <1>2, <3>2, NodesKeepWhole, PlaysKeepWhole DEF Next
    <3>3. QED
      BY <3>1, <3>2
  <2>3. QED
    BY <2>1, <2>2
<1>3. QED
  BY <1>1, <1>2

\* Two whole nodes are two of every tier, and one of them serves.
LEMMA CapacityFollows == CapacityInv => CapacityStays
<1> SUFFICES ASSUME CapacityInv, crashes = 0
             PROVE  /\ Serves
                    /\ \A u \in Services \ {"timer"} : Cardinality(Running(u)) >= 2
                    /\ Cardinality(component) >= 2
  BY DEF CapacityStays
<1> DEFINE W == Nodes \ marker
<1>1. Cardinality(W) >= 2 /\ \A n \in W : Whole(n)
  BY DEF CapacityInv, EnoughUnmarked, UnmarkedIsWhole
<1>2. ASSUME NEW T, W \subseteq T, T \subseteq Nodes
      PROVE  Cardinality(T) >= 2
  <2>1. IsFiniteSet(T) /\ IsFiniteSet(W)
    BY <1>2, MaintenanceConstantsOK, FS_Subset
  <2>2. Cardinality(W) \in Nat /\ Cardinality(T) \in Nat /\ Cardinality(W) <= Cardinality(T)
    BY <1>2, <2>1, FS_CardinalityType, FS_Subset
  <2>3. QED
    BY <1>1, <2>2
<1>3. W \subseteq component /\ component \subseteq Nodes
  BY <1>1 DEF Whole, CapacityInv, TypeOK
<1>4. \A u \in Services : W \subseteq Running(u) /\ Running(u) \subseteq Nodes
  BY <1>1 DEF Whole, Running
<1>5. Serves
  <2>1. W # {}
    BY <1>1, FS_EmptySet
  <2>2. PICK n \in W : Whole(n)
    BY <1>1, <2>1
  <2>3. n \in Running("nginx") /\ Balances(n) /\ n \in component
    BY <2>2 DEF Whole, Running, Balances, Services
  <2>4. QED
    BY <2>3 DEF Serves, DatabaseServes
<1>6. QED
  BY <1>2, <1>3, <1>4, <1>5

\* On a cluster of two nodes or more, drains and rejoins, wherever they are cut
\* short, leave two members of every tier and a node that can hold the VIP, as
\* long as no node crashes: the capacity check of the role is enough.
THEOREM CapacityIsKept ==
  ASSUME Cardinality(Nodes) >= 2
  PROVE  Safety => []CapacityStays
<1>1. Init => CapacityInv
  <2> SUFFICES ASSUME Init PROVE CapacityInv
    OBVIOUS
  <2>1. TypeOK /\ MarkedFirst
    BY InitInv DEF MaintenanceInv
  <2>2. Nodes \ marker = Nodes
    BY DEF Init
  <2>3. QED
    BY <2>1, <2>2 DEF Init, CapacityInv, ReportedIsMarked, EnoughUnmarked,
       UnmarkedIsWhole, Whole, RejoinedInOrder, RejoiningIsUnreported, NoPlay
<1>2. MaintenanceInv => TypeOK /\ MarkedFirst
  BY DEF MaintenanceInv
<1>3. DrainInv => RejoiningIsUnreported
  BY DEF DrainInv
<1>4. Safety => []DrainInv
  BY DrainInvInit, StepKeepsDrainInv, PTL DEF Safety
<1>5. CapacityInv /\ TypeOK' /\ MarkedFirst' /\ RejoiningIsUnreported' /\ [Next]_vars
        => CapacityInv'
  BY StepKeepsCapacityInv
<1>6. QED
  BY <1>1, <1>2, <1>3, <1>4, <1>5, InductiveInvariant, CapacityFollows, PTL DEF Safety

=============================================================================
