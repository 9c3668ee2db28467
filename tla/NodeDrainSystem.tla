--------------------------- MODULE NodeDrainSystem ---------------------------
(***************************************************************************)
(* The two programs that run the node-drain helper on one database node,   *)
(* with the MariaDB member, HAProxy, the daily update and the faults of    *)
(* NodeDrain around them:                                                  *)
(*   - the galera role of a site run drains the node, restarts MariaDB     *)
(*     and puts the node back;                                             *)
(*   - the startup repair, started by a timer every 30 seconds, clears a   *)
(*     drain left on a ready member, restarts a member that stays unready  *)
(*     inside a drain of its own, and starts the application units when    *)
(*     the node's dependencies are ready.                                  *)
(* Disruptions (operator runs, outages, kills, failed systemd calls, daily *)
(* runs) are drawn from two budgets so that they end.                      *)
(***************************************************************************)
EXTENDS NodeDrain

CONSTANTS
  Role,              \* the galera role, as a caller of the helper
  Repair,            \* the startup repair, as a caller of the helper
  StartupRepair,     \* librenms_startup_repair_enabled
  RepairTimers,      \* timers that ensure_systemd_units starts and stops
  RepairServices,    \* librenms.service
  RecoveryUnits,     \* SERVICE_RECOVERY_UNITS among Units: PHP-FPM
  FailureThreshold,  \* GALERA_SELF_HEAL_FAILURE_THRESHOLD
  MaxHelperFaults,   \* bound on the faults of the helper itself
  MaxDisruptions     \* bound on what the rest of the world does to the node

ASSUME SystemConstantsOK ==
  /\ Callers = {Role, Repair} /\ Role # Repair
  /\ StartupRepair \in BOOLEAN
  /\ RepairTimers \subseteq Units /\ RepairServices \subseteq Units
  /\ RecoveryUnits \subseteq Units \ {DailyTimer}
  /\ FailureThreshold \in Nat \ {0}
  /\ MaxHelperFaults \in Nat /\ MaxDisruptions \in Nat

VARIABLES
  roleStep,    \* where the site run is on this node
  repairStep,  \* where the startup-repair run is
  action,      \* service_action of that run
  failures,    \* galera-not-ready.count, as far as the repair looks at it
  cooldown,    \* galera-restarted-at is younger than the cooldown
  recent,      \* history: the last attempt of the repair is younger than that
  faults,      \* helper faults so far
  disruptions  \* other disruptions so far

repairVars == <<repairStep, action, failures, cooldown, recent>>
budgets    == <<faults, disruptions>>
sysVars    == <<vars, roleStep, repairVars, budgets>>

RoleSteps   == {"idle", "entering", "drained", "joining", "exiting"}
RepairSteps == {"idle", "entering", "restarting", "joining", "clearing", "units"}

SystemTypeOK ==
  /\ TypeOK
  /\ roleStep \in RoleSteps
  /\ repairStep \in RepairSteps
  /\ action \in {"restart", "start"}
  /\ failures \in 0..FailureThreshold
  /\ cooldown \in BOOLEAN /\ recent \in BOOLEAN
  /\ faults \in 0..MaxHelperFaults
  /\ disruptions \in 0..MaxDisruptions

SystemInit ==
  /\ Init
  /\ roleStep = "idle"
  /\ repairStep = "idle" /\ action = "restart" /\ failures = 0
  /\ cooldown = FALSE /\ recent = FALSE
  /\ faults = 0 /\ disruptions = 0

Disrupt ==
  /\ disruptions < MaxDisruptions
  /\ disruptions' = disruptions + 1
  /\ UNCHANGED faults

\* A run of either program starts long after the last one: HAProxy, which
\* polls every few seconds, has seen every marker by then.
HAProxySettled == backend => ~routed

RestartDb ==
  /\ db' = "joining" /\ clients' = 0
  /\ UNCHANGED <<files, units, routed, daily, lock, pc, locals, call>>

-----------------------------------------------------------------------------
(* Wrong variants of some of the steps below, to show that the properties  *)
(* fail for them. No specification uses them.                              *)

\* a failed enter is not looked at
RoleEnteredAnyway ==
  /\ roleStep = "entering" /\ roleStep' = "drained"
  /\ Collect(Role)
  /\ UNCHANGED <<repairVars, budgets>>

\* a ready member's drain is left to whoever entered it
RepairClearsNothing ==
  /\ StartupRepair /\ repairStep = "idle" /\ HAProxySettled /\ Ready
  /\ failures' = 0 /\ repairStep' = "units"
  /\ UNCHANGED <<vars, roleStep, action, cooldown, recent, budgets>>

\* a service that is down is counted and never started
RepairObservesUnready ==
  /\ StartupRepair /\ repairStep = "idle" /\ HAProxySettled /\ ~Ready
  /\ failures' = FailureThreshold
  /\ IF db = "unready" /\ failures = FailureThreshold /\ ~cooldown
       THEN Request(Repair, "enter") /\ repairStep' = "entering"
       ELSE repairStep' = "units" /\ UNCHANGED vars
  /\ UNCHANGED <<roleStep, action, cooldown, recent, budgets>>

\* an attempt is recorded only if systemd could restart the member
RepairRecordsSuccess ==
  /\ repairStep = "restarting"
  /\ recent' = TRUE /\ repairStep' = "joining"
  /\ \/ RestartDb /\ cooldown' = TRUE
     \/ UNCHANGED <<vars, cooldown>>
  /\ UNCHANGED <<roleStep, action, failures, budgets>>

\* units that have failed are left to the helper and its record
SetUnitsRunning(dependenciesReady) ==
  /\ repairStep = "units" /\ repairStep' = "idle"
  /\ LET wanted == IF dependenciesReady
                     THEN active \cup RepairServices \cup RepairTimers
                     ELSE active \ RepairTimers
     IN OthersSetUnits(wanted) \/ (wanted = active /\ UNCHANGED vars)
  /\ action' = "restart"
  /\ UNCHANGED <<roleStep, failures, cooldown, recent>>

\* a member that did not join is put back into traffic all the same
RepairGivesUpOpen ==
  /\ repairStep = "joining" /\ ~Ready
  /\ repairStep' = "units" /\ backend' = FALSE
  /\ UNCHANGED <<web, compat, compatOwned, record, units, node, lock, pc, locals,
                 call, roleStep, action, failures, cooldown, recent, budgets>>

-----------------------------------------------------------------------------
(* The galera role of a site run.                                          *)

\* The helper is told to expect a restart whenever the cluster has a live
\* member; without one the node is not ready either.
RoleStart ==
  /\ roleStep = "idle" /\ HAProxySettled /\ Disrupt
  /\ \/ Request(Role, "enter-restart")
     \/ ~Ready /\ Request(Role, "enter")
  /\ roleStep' = "entering"
  /\ UNCHANGED repairVars

RoleEntered ==
  /\ roleStep = "entering"
  /\ roleStep' = IF call[Role] = "ok" THEN "drained" ELSE "idle"
  /\ Collect(Role)
  /\ UNCHANGED <<repairVars, budgets>>

RoleRestart ==
  /\ roleStep = "drained" /\ RestartDb
  /\ roleStep' = "joining"
  /\ UNCHANGED <<repairVars, budgets>>

\* No TCP listener within the timeout: drain the node again and restart it again.
RoleReenters ==
  /\ roleStep = "joining" /\ ~Answers /\ HAProxySettled /\ Disrupt
  /\ Request(Role, "enter-restart")
  /\ roleStep' = "entering"
  /\ UNCHANGED repairVars

\* The role waits for a primary component and wsrep_ready, not for a synced
\* member, which the helper's exit asks for.
RoleJoined ==
  /\ roleStep = "joining" /\ Answers
  /\ Request(Role, "exit")
  /\ roleStep' = "exiting"
  /\ UNCHANGED <<repairVars, budgets>>

\* A failed task or a lost connection ends the play on this host; nothing
\* undoes the drain.
RoleAborts ==
  /\ roleStep \in {"drained", "joining"} /\ Disrupt
  /\ roleStep' = "idle"
  /\ UNCHANGED <<vars, repairVars>>

RoleExited ==
  /\ roleStep = "exiting"
  /\ roleStep' = "idle" /\ Collect(Role)
  /\ UNCHANGED <<repairVars, budgets>>

-----------------------------------------------------------------------------
(* The startup repair.                                                     *)

RepairStart ==
  /\ StartupRepair /\ repairStep = "idle" /\ HAProxySettled

\* The member is ready: whatever drain is found is cleared.
RepairClears ==
  /\ RepairStart /\ Ready
  /\ failures' = 0
  /\ Request(Repair, "exit") /\ repairStep' = "clearing"
  /\ UNCHANGED <<roleStep, action, cooldown, recent, budgets>>

\* Too few synced peers: never restart, forget the count.
RepairRefuses ==
  /\ RepairStart /\ ~Ready /\ Disrupt
  /\ failures' = 0 /\ repairStep' = "units"
  /\ UNCHANGED <<vars, roleStep, action, cooldown, recent>>

\* The file counts on past the threshold. The count is only ever compared with
\* thresholds up to this one or reset, so every number from here on is one.
Counted == IF failures = FailureThreshold THEN failures ELSE failures + 1

\* Enough synced peers: count, and act once the count is reached and the
\* cooldown is over. A stopped service needs no second observation.
RepairObserves ==
  /\ RepairStart /\ ~Ready
  /\ LET threshold == IF db = "unready" THEN FailureThreshold ELSE 1
         due       == Counted >= threshold /\ ~cooldown
     IN /\ failures' = Counted
        /\ action' = IF db = "unready" THEN "restart" ELSE "start"
        /\ \/ /\ due /\ Request(Repair, "enter")
              /\ repairStep' = "entering"
           \/ ~due /\ repairStep' = "units" /\ UNCHANGED vars
  /\ UNCHANGED <<roleStep, cooldown, recent, budgets>>

RepairEntered ==
  /\ repairStep = "entering"
  /\ repairStep' = IF call[Repair] = "ok" THEN "restarting" ELSE "units"
  /\ Collect(Repair)
  /\ UNCHANGED <<roleStep, action, failures, cooldown, recent, budgets>>

\* The attempt is recorded before systemd is asked; starting a service that
\* runs changes nothing.
RepairRestart ==
  /\ repairStep = "restarting"
  /\ cooldown' = TRUE /\ recent' = TRUE
  /\ IF action = "restart" \/ db = "down" THEN RestartDb ELSE UNCHANGED vars
  /\ repairStep' = "joining"
  /\ UNCHANGED <<roleStep, action, failures, budgets>>

RepairJoined ==
  /\ repairStep = "joining" /\ Ready
  /\ failures' = 0
  /\ Request(Repair, "exit") /\ repairStep' = "clearing"
  /\ UNCHANGED <<roleStep, action, cooldown, recent, budgets>>

RepairGivesUp ==
  /\ repairStep = "joining" /\ ~Ready
  /\ repairStep' = "units"
  /\ UNCHANGED <<vars, roleStep, action, failures, cooldown, recent, budgets>>

RepairCleared ==
  /\ repairStep = "clearing"
  /\ repairStep' = "units" /\ Collect(Repair)
  /\ UNCHANGED <<roleStep, action, failures, cooldown, recent, budgets>>

\* recover_systemd_units starts PHP-FPM in every run. ensure_systemd_units then
\* looks at the runtime dependencies. Neither looks at a marker.
SetUnits(dependenciesReady) ==
  /\ repairStep = "units" /\ repairStep' = "idle"
  /\ LET recovered == active \cup RecoveryUnits
         wanted == IF dependenciesReady
                     THEN recovered \cup RepairServices \cup RepairTimers
                     ELSE recovered \ RepairTimers
     IN OthersSetUnits(wanted) \/ (wanted = active /\ UNCHANGED vars)
  /\ action' = "restart"
  /\ UNCHANGED <<roleStep, failures, cooldown, recent>>

RepairUnits == SetUnits(Ready) /\ UNCHANGED budgets

\* The member is ready, but another dependency is not (RRD mount, database VIP).
RepairHoldsUnits == Ready /\ SetUnits(FALSE) /\ Disrupt

CooldownExpires ==
  /\ cooldown \/ recent
  /\ cooldown' = FALSE /\ recent' = FALSE
  /\ UNCHANGED <<vars, roleStep, repairStep, action, failures, budgets>>

-----------------------------------------------------------------------------
(* The helper and the node inside the composed system.                     *)

Callees == UNCHANGED <<roleStep, repairVars>>

HelperWorks ==
  /\ HelperStep \/ \E c \in Callers : Acquire(c)
  /\ Callees /\ UNCHANGED budgets

LockTimesOut ==
  /\ \E c \in Callers : LockTimeout(c)
  /\ Callees /\ UNCHANGED budgets

HelperFails ==
  /\ HelperFault
  /\ faults < MaxHelperFaults /\ faults' = faults + 1
  /\ Callees /\ UNCHANGED disruptions

\* A start that systemd has accepted succeeds, or fails as one of the disruptions.
JobsRun ==
  /\ \E u \in Units : JobEnds(u, TRUE)
  /\ Callees /\ UNCHANGED budgets

JobFails ==
  /\ \E u \in Units : JobEnds(u, FALSE)
  /\ Disrupt /\ Callees

DbJoins ==
  /\ db = "joining" /\ DbChange("ready")
  /\ Callees /\ UNCHANGED budgets

DbLost ==
  /\ db \in {"ready", "joining"} /\ Disrupt
  /\ \E s \in {"unready", "down"} : DbChange(s)
  /\ Callees

DailyBegins == DailyStart /\ Disrupt /\ Callees

DailyWorks ==
  /\ DailyDrain \/ DailyEnd
  /\ Callees /\ UNCHANGED budgets

Traffic ==
  /\ Connect \/ Disconnect
  /\ Callees /\ UNCHANGED budgets

Polls == HaproxyPoll /\ Callees /\ UNCHANGED budgets

NodeReboots ==
  /\ Reboot /\ Disrupt
  /\ roleStep' = "idle"
  /\ repairStep' = "idle" /\ action' = "restart" /\ failures' = 0
  /\ cooldown' = FALSE /\ recent' = FALSE

RoleRuns   == RoleEntered \/ RoleRestart \/ RoleJoined \/ RoleExited
RepairRuns ==
  \/ RepairClears \/ RepairObserves \/ RepairEntered \/ RepairRestart
  \/ RepairJoined \/ RepairGivesUp \/ RepairCleared \/ RepairUnits

SystemNext ==
  \/ RoleStart \/ RoleReenters \/ RoleAborts \/ RoleRuns
  \/ RepairRefuses \/ RepairHoldsUnits \/ RepairRuns \/ CooldownExpires
  \/ HelperWorks \/ LockTimesOut \/ HelperFails
  \/ JobsRun \/ JobFails \/ DbJoins \/ DbLost \/ DailyBegins \/ DailyWorks \/ Traffic \/ Polls
  \/ NodeReboots

\* The helper, a play and a repair run go on while nothing disrupts them; the
\* repair timer fires again and again; a started member joins and start jobs run,
\* but for the disruptions; HAProxy polls; a daily run ends (TimeoutStartSec); the
\* cooldown passes.
Fairness ==
  /\ WF_sysVars(HelperWorks) /\ WF_sysVars(RoleRuns) /\ WF_sysVars(RepairRuns)
  /\ WF_sysVars(CooldownExpires) /\ WF_sysVars(DbJoins) /\ WF_sysVars(JobsRun)
  /\ WF_sysVars(Polls) /\ WF_sysVars(DailyWorks)

SystemSafety == SystemInit /\ [][SystemNext]_sysVars
SystemSpec   == SystemSafety /\ Fairness

-----------------------------------------------------------------------------
(* Properties.                                                             *)

\* The composed system is an instance of the open one, so every theorem about
\* the helper holds here too.
ImplementsNodeDrain == Spec

Fenced ==
  roleStep = "drained" /\ roleStep' = "joining" =>
    /\ backend /\ (LocalWeb => web)
    /\ stateFile /\ recorded \cap active = {}
    /\ AllowStale \/ clients = 0

\* MariaDB is restarted by a site run only on a node that is out of traffic,
\* whose recorded units are stopped and whose database clients are gone.
PlannedRestartIsFenced == [][Fenced]_sysVars

\* A node that a site run has drained and is about to restart has no daily
\* update running, and none has started since the helper checked ...
DrainExcludesDaily == roleStep = "drained" => daily = "idle"

\* ... as long as no systemd call of the helper has failed.
DrainQuietUnlessFault == faults = 0 => DrainExcludesDaily

\* While the daily update works on the node, the marker that keeps web
\* traffic away from it is in place.
DailyKeepsItsDrain == daily = "updating" => compat

\* A drain is never left behind, whoever started it and however it ended, nor is
\* a unit that it has stopped and nobody has asked systemd to start again.
DrainEnds == backend \/ owed # {} ~> ~backend /\ owed = {}

\* The service units that the helper has stopped run again, also when the start
\* that systemd has accepted fails afterwards: the startup repair starts them anew.
UnitsComeBack == \A u \in Units \ {DailyTimer} : u \in owed ~> u \in active

\* A member that does not join is not restarted in a loop: whatever became of its
\* last attempt, the repair makes another one only after the cooldown or a reboot,
\* which empties its directory under /run.
NoSecondAttempt == repairStep = "restarting" /\ repairStep' = "joining" => ~recent
NoRestartStorm == [][NoSecondAttempt]_sysVars

\* A member that lost the cluster is brought back without an operator.
MemberRecovers == ~Ready ~> Ready

\* Why it is not: a young attempt is on record, and the repair gets to the restart
\* only past the test of that record.
StormInv ==
  /\ recent => cooldown
  /\ repairStep \in {"entering", "restarting"} => ~cooldown

-----------------------------------------------------------------------------
(* Why a site run finds the node as its drain has left it, when nothing else *)
(* runs the helper: the inductive strengthening of the two properties above. *)

\* Without the startup repair only the galera role runs the helper.
RoleAlone ==
  /\ repairStep = "idle" /\ call[Repair] = "none"
  /\ lock \in {NoCaller, Role}

\* The helper serves what the role has asked for, and nobody else.
RoleCalls ==
  /\ roleStep \in {"idle", "drained", "joining"} => call[Role] = "none"
  /\ roleStep = "entering" => call[Role] \in {"enter", "enter-restart", "ok", "fail"}
  /\ roleStep = "exiting" => call[Role] \in {"exit", "ok", "fail"}
  /\ lock # NoCaller => call[Role] = op
  /\ pc = "x_check" => op = "exit"

\* What enter has brought about once it succeeds.
OutOfTraffic ==
  /\ backend /\ (LocalWeb => web) /\ ~routed
  /\ stateFile /\ recorded \cap (active \cup queued) = {}
  /\ AllowStale \/ clients = 0

\* enter succeeded and the role has not gone on yet.
Entered ==
  roleStep = "drained" \/ (roleStep = "entering" /\ call[Role] = "ok")

\* HAProxy has seen every marker that a run of the helper finds in place.
Settled ==
  /\ roleStep = "entering" /\ call[Role] \in {"enter", "enter-restart"}
  /\ lock = NoCaller /\ backend
  => ~routed

\* On the way to success each condition holds from the step that brings it on.
OnTheWay ==
  /\ already /\ pc \in EnterPcs \ {"e_undo", "e_forget"} => backend /\ ~routed
  /\ pc \in {"e_compat", "e_own", "e_wait", "e_stop", "e_drain", "e_force"}
       => (LocalWeb => web)
  /\ pc \in {"e_stop", "e_drain", "e_force"} => ~routed
  /\ pc = "e_stop" => recorded \cap (active \cup queued) \subseteq todo
  /\ pc \in {"e_drain", "e_force"} => recorded \cap (active \cup queued) = {}
  /\ db \in {"down", "joining"} => clients = 0

FenceInv == (Entered => OutOfTraffic) /\ Settled /\ OnTheWay

\* No unit starts on a node with a record unless the record lists it, so a timer
\* that has been stopped stays stopped until the helper restores the node.
TimerInv ==
  /\ stateFile /\ DailyTimer \in active => DailyTimer \in recorded
  /\ pc = "s_start" => todo \subseteq recorded

QuietPcs == {"e_backend", "e_web", "e_compat", "e_own", "e_wait", "e_stop",
             "e_drain", "e_force"}
QuietInv ==
  /\ pc \in QuietPcs \cup {"e_assert"} \/ Entered => DailyTimer \notin active
  /\ pc \in QuietPcs \/ Entered => daily = "idle"

SystemInv ==
  /\ IInv /\ RoleAlone /\ RoleCalls /\ FenceInv
  /\ LocalWeb => TimerInv /\ (faults = 0 => QuietInv)

=============================================================================
