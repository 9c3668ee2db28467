----------------------------- MODULE DailyUpdate -----------------------------
(***************************************************************************)
(* The unattended daily update of all web nodes: the wrapper that          *)
(* librenms-daily.service runs on every node, the PHP helper and the       *)
(* daily.sh under it, and what the nodes share: the maintenance lock (a    *)
(* flock) and the canary record, both files of the shared RRD filesystem.  *)
(*                                                                         *)
(* One node, the canary, removes the record, updates itself and writes the *)
(* record again when it is healthy. The others wait for a record of the    *)
(* same day that has settled, then for the lock. The node that holds the   *)
(* lock drains itself, updates, repairs what it can and rejoins. An        *)
(* operator may run the wrapper from a shell as well, past the canary.     *)
(* Runs, kills and days are bounded by MaxRuns, MaxKills and MaxDay.       *)
(***************************************************************************)
EXTENDS FiniteSets, Naturals

CONSTANTS
  Nodes,     \* librenms_active_web_nodes
  Canary,    \* librenms_daily_canary_host
  NoNode,    \* "nobody holds the lock"
  MaxDay, MaxRuns, MaxKills

ASSUME DailyConstantsOK ==
  /\ Canary \in Nodes /\ NoNode \notin Nodes
  /\ MaxDay \in Nat \ {0} /\ MaxRuns \in Nat /\ MaxKills \in Nat

VARIABLES
  day,      \* the date
  recDay,   \* date= of the canary record, 0 when there is none
  settled,  \* the record is older than the stabilization time
  holder,   \* the node whose wrapper has the shared lock
  drained,  \* nodes with the HA drain marker
  left,     \* history: those whose marker a run by hand has left behind
  health,   \* what the checks of a node find: autoload, web application
  pc,       \* the step of each node's wrapper
  rc,       \* daily_rc is 0
  created,  \* DRAIN_MARKER_CREATED
  manual,   \* nodes whose wrapper runs from a shell, not from the unit
  retried,  \* daily.sh has been run for the second time
  since,    \* history: the day on which the run passed the canary gate
  passed,   \* history: the days on which the canary ended a run healthy
  runs, kills

shared  == <<recDay, settled, holder>>
locals  == <<rc, created, retried, manual>>
marker  == <<drained, left>>
history == <<since, passed>>
bounds  == <<day, runs, kills>>
vars    == <<day, recDay, settled, holder, drained, left, health, pc, rc, created,
             retried, manual, since, passed, runs, kills>>

Working == {"git", "helper", "daily", "check", "heal", "mark"}
Steps   == {"idle", "gate", "lock", "drain", "stopping"} \cup Working
Healths == {"ok", "no web", "no autoload"}

TypeOK ==
  /\ day \in 1..MaxDay /\ recDay \in 0..MaxDay /\ settled \in BOOLEAN
  /\ holder \in Nodes \cup {NoNode}
  /\ drained \subseteq Nodes /\ left \subseteq Nodes /\ created \subseteq Nodes
  /\ retried \subseteq Nodes /\ manual \subseteq Nodes
  /\ health \in [Nodes -> Healths]
  /\ pc \in [Nodes -> Steps]
  /\ rc \in [Nodes -> BOOLEAN]
  /\ since \in [Nodes -> 0..MaxDay] /\ passed \subseteq 1..MaxDay
  /\ runs \in 0..MaxRuns /\ kills \in 0..MaxKills

Init ==
  /\ day = 1 /\ recDay = 0 /\ settled = FALSE /\ holder = NoNode
  /\ drained = {} /\ left = {} /\ created = {} /\ retried = {} /\ manual = {}
  /\ health = [n \in Nodes |-> "ok"]
  /\ pc = [n \in Nodes |-> "idle"]
  /\ rc = [n \in Nodes |-> TRUE]
  /\ since = [n \in Nodes |-> 0] /\ passed = {}
  /\ runs = 0 /\ kills = 0

-----------------------------------------------------------------------------

Goto(n, step) == pc' = [pc EXCEPT ![n] = step]

\* The process is gone: its flock and its shell variables go with it. systemd
\* has the unit's ExecStopPost to run.
Stop(n) ==
  /\ Goto(n, IF n \in manual THEN "idle" ELSE "stopping")
  /\ holder' = IF holder = n THEN NoNode ELSE holder
  /\ rc' = [rc EXCEPT ![n] = TRUE]
  /\ created' = created \ {n} /\ retried' = retried \ {n} /\ manual' = manual \ {n}

Removes(n) == drained' = drained \ {n} /\ left' = left \ {n}

\* A marker that stays when a run by hand ends has no ExecStopPost to come.
Keeps(n) == drained' = drained /\ left' = left \cup (drained \cap manual \cap {n})

Writes(n) == drained' = drained \cup {n} /\ left' = left \cup (manual \cap {n})

\* The wrapper exits: its trap removes a marker that it has created, if rm
\* succeeds.
Exit(n) ==
  /\ Stop(n)
  /\ (n \in created /\ Removes(n)) \/ Keeps(n)

\* Wrong: the date in the record is not compared.
RecordOfAnyDay == recDay > 0 /\ settled

RecordReady == recDay = day /\ settled

-----------------------------------------------------------------------------
(* Wrong variants of some of the definitions, to show that the properties  *)
(* fail for them. No specification uses them.                              *)

\* flock's exit code is not looked at
LockTimesOutAnyway(n) ==
  /\ pc[n] = "lock" /\ Goto(n, "drain")
  /\ UNCHANGED <<shared, marker, health, locals, history, bounds>>

\* the record of the canary's last run stays while it runs again
CanaryKeepsRecord ==
  /\ pc[Canary] = "gate" /\ Goto(Canary, "lock")
  /\ since' = [since EXCEPT ![Canary] = day]
  /\ UNCHANGED <<shared, marker, health, locals, passed, bounds>>

\* the record carries the date after the run's
MarkTomorrow(n) ==
  /\ pc[n] = "mark" /\ n = Canary
  /\ recDay' = day + 1 /\ settled' = FALSE /\ passed' = passed \cup {day}
  /\ Exit(n)
  /\ UNCHANGED <<health, since, bounds>>

\* the helper owns the drain marker and removes it when daily.sh ends
RunDailyRejoins(n) ==
  /\ pc[n] = "daily" /\ Goto(n, "check")
  /\ Removes(n)
  /\ UNCHANGED <<shared, health, locals, history, bounds>>

\* the unit has no ExecStopPost
StopPostNothing(n) ==
  /\ pc[n] = "stopping" /\ Goto(n, "idle")
  /\ UNCHANGED <<shared, marker, health, locals, history, bounds>>

-----------------------------------------------------------------------------
(* The wrapper, from its start to the lock.                                *)

\* The timer fires or an operator starts the service, and neither a wrapper
\* nor git, Composer or daily.sh runs on the node.
Trigger(n) ==
  /\ pc[n] = "idle" /\ runs < MaxRuns
  /\ runs' = runs + 1 /\ Goto(n, "gate")
  /\ UNCHANGED <<day, kills, shared, marker, health, locals, history>>

\* LIBRENMS_DAILY_CANARY_BYPASS=true, from a shell.
RunByHand(n) ==
  /\ pc[n] = "idle" /\ runs < MaxRuns
  /\ runs' = runs + 1 /\ Goto(n, "lock") /\ manual' = manual \cup {n}
  /\ UNCHANGED <<day, kills, shared, marker, health, rc, created, retried, history>>

\* The timer fires on that node: the unit's wrapper does not get the local
\* flock and exits, and the unit stops.
TriggerSkipped(n) ==
  /\ n \in manual /\ runs < MaxRuns
  /\ runs' = runs + 1 /\ Removes(n)
  /\ UNCHANGED <<day, kills, shared, health, pc, locals, history>>

CanaryStarts ==
  /\ pc[Canary] = "gate" /\ Goto(Canary, "lock")
  /\ recDay' = 0 /\ settled' = FALSE
  /\ since' = [since EXCEPT ![Canary] = day]
  /\ UNCHANGED <<holder, marker, health, locals, passed, bounds>>

FollowerStarts(n) ==
  /\ pc[n] = "gate" /\ n # Canary /\ RecordReady
  /\ Goto(n, "lock")
  /\ since' = [since EXCEPT ![n] = day]
  /\ UNCHANGED <<shared, marker, health, locals, passed, bounds>>

\* The state directory is unavailable to the canary, or a follower waits in
\* vain.
GateFails(n) ==
  /\ pc[n] = "gate" /\ Exit(n)
  /\ UNCHANGED <<recDay, settled, health, history, bounds>>

AcquireLock(n) ==
  /\ pc[n] = "lock" /\ holder = NoNode
  /\ holder' = n /\ Goto(n, "drain")
  /\ UNCHANGED <<recDay, settled, marker, health, locals, history, bounds>>

\* Another node maintains LibreNMS, or the lock cannot be taken.
LockTimesOut(n) ==
  /\ pc[n] = "lock" /\ Exit(n)
  /\ UNCHANGED <<recDay, settled, health, history, bounds>>

-----------------------------------------------------------------------------
(* The wrapper under the lock.                                             *)

Drain(n) ==
  /\ pc[n] = "drain" /\ Goto(n, "git")
  /\ drained' = drained \cup {n} /\ left' = left \ {n} /\ created' = created \cup {n}
  /\ UNCHANGED <<shared, health, rc, retried, manual, history, bounds>>

\* A git process has shown up, or the marker cannot be written; or it is
\* there, and writing its text or chmod fails: the trap does not know of it.
DrainFails(n) ==
  /\ pc[n] = "drain" /\ Stop(n)
  /\ Keeps(n) \/ Writes(n)
  /\ UNCHANGED <<recDay, settled, health, history, bounds>>

\* cleanup_stale_git_locks; a failure of repair_git_metadata is only logged.
PrepareGit(n) ==
  /\ pc[n] = "git"
  /\ \/ Goto(n, "helper") /\ UNCHANGED <<holder, marker, locals>>
     \/ Exit(n)
  /\ UNCHANGED <<recDay, settled, health, history, bounds>>

\* The helper runs daily.sh under the database's own lock and after a backup.
\* When the lock is taken it returns 0, when the database or a required
\* backup fails 1, without having run daily.sh.
RunHelper(n) ==
  /\ pc[n] = "helper"
  /\ \/ Goto(n, "daily") /\ UNCHANGED rc
     \/ /\ Goto(n, "check")
        /\ \E ok \in BOOLEAN : rc' = [rc EXCEPT ![n] = ok]
  /\ UNCHANGED <<shared, marker, health, created, retried, manual, history,
                 bounds>>

\* daily.sh ends, whatever it leaves behind. After a failure that repaired
\* git metadata may cure it is run once more, with its lock and its backup.
RunDaily(n) ==
  /\ pc[n] = "daily"
  /\ \E h \in Healths : health' = [health EXCEPT ![n] = h]
  /\ \/ /\ Goto(n, "check")
        /\ \E ok \in BOOLEAN : rc' = [rc EXCEPT ![n] = ok]
        /\ UNCHANGED retried
     \/ /\ n \notin retried /\ retried' = retried \cup {n}
        /\ rc' = [rc EXCEPT ![n] = TRUE] /\ Goto(n, "helper")
  /\ UNCHANGED <<shared, marker, created, manual, history, bounds>>

\* recover_web_health: clearing caches and restarting services may help.
WebRecovers(n, next) ==
  /\ health' = [health EXCEPT ![n] = "ok"]
  /\ IF next = "exit" THEN Exit(n)
     ELSE Goto(n, next) /\ UNCHANGED <<holder, marker, locals>>

WebStaysDown(n) == health' = [health EXCEPT ![n] = "no web"] /\ Exit(n)

Check(n) ==
  /\ pc[n] = "check"
  /\ \/ /\ health[n] = "no autoload" /\ Goto(n, "heal")
        /\ UNCHANGED <<holder, marker, health, locals>>
     \/ /\ health[n] # "no autoload"
        /\ WebRecovers(n, IF rc[n] THEN "mark" ELSE "exit")
     \/ health[n] = "no web" /\ WebStaysDown(n)
  /\ UNCHANGED <<recDay, settled, history, bounds>>

\* Composer repair. It does not ask what daily.sh has returned.
Heal(n) ==
  /\ pc[n] = "heal"
  /\ \/ WebRecovers(n, "mark")
     \/ WebStaysDown(n)
     \/ Exit(n) /\ UNCHANGED health
  /\ UNCHANGED <<recDay, settled, history, bounds>>

\* The record is written to a temporary file and renamed.
Mark(n) ==
  /\ pc[n] = "mark" /\ n = Canary
  /\ recDay' = day /\ settled' = FALSE /\ passed' = passed \cup {day}
  /\ Exit(n)
  /\ UNCHANGED <<health, since, bounds>>

\* A follower has nothing to record; the canary may fail to.
MarkNothing(n) ==
  /\ pc[n] = "mark" /\ Exit(n)
  /\ UNCHANGED <<recDay, settled, health, history, bounds>>

-----------------------------------------------------------------------------
(* systemd, time and faults.                                               *)

StopPost(n) ==
  /\ pc[n] = "stopping" /\ Goto(n, "idle")
  /\ Removes(n)
  /\ UNCHANGED <<shared, health, locals, history, bounds>>

\* TimeoutStartSec or an operator: the trap may or may not run, may not know
\* of a marker just written, and an interrupted daily.sh leaves anything behind.
Kill(n) ==
  /\ pc[n] \notin {"idle", "stopping"} /\ kills < MaxKills
  /\ kills' = kills + 1
  /\ Stop(n)
  /\ \/ n \in created /\ Removes(n)
     \/ pc[n] = "drain" /\ Writes(n)
     \/ Keeps(n)
  /\ \E h \in Healths :
       health' = IF pc[n] \in {"daily", "heal"} THEN [health EXCEPT ![n] = h]
                 ELSE health
  /\ UNCHANGED <<recDay, settled, history, day, runs>>

\* /run is empty after a reboot. The filesystem frees the dead node's lock
\* only later.
Reboot(n) ==
  /\ pc[n] # "idle" /\ kills < MaxKills
  /\ kills' = kills + 1 /\ Goto(n, "idle")
  /\ Removes(n)
  /\ rc' = [rc EXCEPT ![n] = TRUE]
  /\ created' = created \ {n} /\ retried' = retried \ {n} /\ manual' = manual \ {n}
  /\ \E h \in Healths :
       health' = IF pc[n] \in {"daily", "heal"} THEN [health EXCEPT ![n] = h]
                 ELSE health
  /\ UNCHANGED <<shared, history, day, runs>>

LockExpires(n) ==
  /\ holder = n /\ pc[n] \notin {"drain"} \cup Working
  /\ holder' = NoNode
  /\ UNCHANGED <<recDay, settled, marker, health, pc, locals, history, bounds>>

Settle ==
  /\ recDay > 0 /\ ~settled /\ settled' = TRUE
  /\ UNCHANGED <<recDay, holder, marker, health, pc, locals, history, bounds>>

Midnight ==
  /\ day < MaxDay /\ day' = day + 1
  /\ UNCHANGED <<shared, marker, health, pc, locals, history, runs, kills>>

Wrapper(n) ==
  \/ n = Canary /\ CanaryStarts
  \/ FollowerStarts(n) \/ GateFails(n) \/ AcquireLock(n) \/ LockTimesOut(n)
  \/ Drain(n) \/ DrainFails(n) \/ PrepareGit(n) \/ RunHelper(n) \/ RunDaily(n)
  \/ Check(n) \/ Heal(n) \/ Mark(n) \/ MarkNothing(n) \/ StopPost(n)

Next ==
  \/ \E n \in Nodes : \/ Wrapper(n) \/ Trigger(n) \/ RunByHand(n) \/ TriggerSkipped(n)
                     \/ Kill(n) \/ Reboot(n) \/ LockExpires(n)
  \/ Settle \/ Midnight

\* Every step of the wrapper has a time limit (TimeoutStartSec at the latest).
Fairness == \A n \in Nodes : WF_vars(Wrapper(n)) /\ WF_vars(LockExpires(n))

Spec == Init /\ [][Next]_vars /\ Fairness

-----------------------------------------------------------------------------
(* Properties.                                                             *)

\* Two nodes are never out of the web pool at once because of the update,
\* unless the process of one of them has just died and its ExecStopPost is
\* still to come, or a run by hand has left a marker that nothing removes.
OneNodeOut ==
  \A m, n \in drained \ left : m = n \/ "stopping" \in {pc[m], pc[n]}

\* From the git repair to the last health check the node is out of the pool,
\* unless an operator runs the wrapper by hand.
UpdatingNodeIsDrained ==
  \A n \in Nodes \ manual : pc[n] \in Working => n \in drained

\* A follower updates only when the canary has come through the same day's
\* update healthy, whatever runs are repeated, killed or cross midnight.
FollowersFollowCanary ==
  \A n \in Nodes \ ({Canary} \cup manual) : pc[n] \in Working => since[n] \in passed

\* A node that was taken out of the pool comes back, whatever step fails or
\* is cut short. Only a run by hand may leave it out (its wrapper does not
\* know of a marker whose chmod failed, or is killed), until the unit runs
\* there once more.
NodeRejoins ==
  \A n \in Nodes :
    /\ n \in drained ~> n \notin drained \/ n \in left
    /\ n \in left /\ pc[n] = "gate" ~> n \notin drained

PastGate == {n \in Nodes : pc[n] \in {"lock", "drain"} \cup Working}

R == INSTANCE Rollout WITH
  today <- day, approval <- recDay,
  admitted <- PastGate \ manual, byHand <- manual,
  working <- {n \in Nodes : pc[n] \in Working}, pool <- Nodes \ drained

\* Seen from the cluster, the wrappers of all nodes together do what Rollout
\* promises: approval by the canary, one node at a time, out of the pool.
ImplementsRollout == R!Spec

=============================================================================
