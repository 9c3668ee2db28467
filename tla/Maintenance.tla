----------------------------- MODULE Maintenance -----------------------------
(***************************************************************************)
(* The maintenance role and what goes on around it. maintenance-enter.yml  *)
(* stops the services of one node in a fixed order, maintenance-hold.yml   *)
(* does it again, maintenance-exit.yml starts them in another one. A play  *)
(* may end at any task. Meanwhile the startup repair of each node starts   *)
(* what it finds stopped, nodes are powered off and on or crash, Sentinels *)
(* elect a new master and MariaDB members join and leave. The inventory    *)
(* group maintenance_nodes is edited by the operator between two plays.    *)
(* Every node is in all groups; the RRD files are external.                *)
(***************************************************************************)
EXTENDS Naturals, Sequences, FiniteSets

CONSTANTS
  Nodes,          \* the hosts, numbered in inventory order
  RedisQuorum,    \* librenms_redis_quorum
  MaxDrains,      \* bound on the runs of enter and hold
  MaxFaults       \* bound on plays that are cut short and targets that crash

ASSUME MaintenanceConstantsOK ==
  /\ Nodes \subseteq Nat /\ IsFiniteSet(Nodes)
  /\ \E n \in Nodes : \A m \in Nodes : n <= m
  /\ RedisQuorum \in Nat /\ MaxDrains \in Nat
  /\ MaxFaults \in Nat

VARIABLES
  on,         \* nodes that have power
  up,         \* up[n]: units that are active on n
  marker,     \* nodes with /var/lib/librenms-ha-ansible/maintenance
  listed,     \* maintenance_nodes of the inventory
  component,  \* members of the Galera primary component
  master,     \* the Redis master that the Sentinels report
  play,       \* the play that runs, its target, task and facts
  reported,   \* nodes whose drain was reported and that have not booted since
  owed,       \* owed[n]: units that a play has stopped and nobody started
  drains, interrupts, crashes

nodeVars == <<on, up, owed>>
dataVars == <<component, master>>
bounds   == <<drains, interrupts, crashes>>
vars == <<nodeVars, marker, listed, dataVars, play, reported, bounds>>

\* "timer" and "repair" are the timer and the service of the startup repair,
\* "workers" the dispatcher, the scheduler and the daily update.
Services == {"keepalived", "haproxy", "nginx", "timer", "workers", "rrdcached",
             "redis", "sentinel", "mariadb"}
Units == Services \cup {"repair"}

-----------------------------------------------------------------------------
(* The tasks of the two workflows, in order. A task named like a unit stops *)
(* or starts it.                                                            *)

\* Wrong orders, to show that the properties fail for them: the units of the
\* startup repair are stopped after what they start ...
RepairStoppedLast == <<"mark", "vip", "keepalived", "haproxy", "nginx",
                       "workers", "rrdcached", "redis", "writable", "sentinel",
                       "mariadb", "timer", "repair", "primary", "vip",
                       "dispatchers">>

\* ... the marker is removed before the timer is started ...
UnmarkedEarly == <<"mariadb", "joined", "primary", "redis", "sentinel",
                   "writable", "rrdcached", "nginx", "workers", "haproxy",
                   "keepalived", "registered", "unmark", "timer", "vip">>

\* ... and the member is waited for before its service is started.
JoinedFirst == <<"joined", "mariadb", "primary", "redis", "sentinel",
                 "writable", "rrdcached", "nginx", "workers", "haproxy",
                 "keepalived", "registered", "timer", "vip", "unmark">>

EnterTasks == <<"mark", "vip", "keepalived", "haproxy", "nginx", "timer",
                "repair", "workers", "rrdcached", "redis", "writable",
                "sentinel", "mariadb", "primary", "vip", "dispatchers">>

ExitTasks == <<"mariadb", "joined", "primary", "redis", "sentinel", "writable",
               "rrdcached", "nginx", "workers", "haproxy", "keepalived",
               "registered", "timer", "vip", "unmark">>

Tasks == IF play.action = "exit" THEN ExitTasks
         ELSE IF play.action = "upgrade" THEN <<"packages">> ELSE EnterTasks
Task  == Tasks[play.task]

NoPlay == [action |-> "none", target |-> CHOOSE n \in Nodes : TRUE, task |-> 1,
           others |-> {}]
Idle   == play.action = "none"

\* (wrong) nodes that are in maintenance already are counted
AllOthers(n) == Nodes \ {n}

\* librenms_maintenance_remaining_*: the nodes that are to carry the service
Remaining(n) == Nodes \ ({n} \cup listed)

First(S) == CHOOSE n \in S : \A m \in S : n <= m

-----------------------------------------------------------------------------
(* What the nodes give together.                                           *)

Balances(n) == {"keepalived", "haproxy"} \subseteq up[n]
Running(u)  == {n \in Nodes : u \in up[n]}

\* The VIP answers: some node holds it and the database behind it is there;
\* for the web, some frontend too.
DatabaseServes == component # {} /\ \E n \in Nodes : Balances(n)
Serves         == DatabaseServes /\ Running("nginx") # {}

\* Sentinels elect by a majority of all of them, and at least the quorum.
CanElect == /\ 2 * Cardinality(Running("sentinel")) > Cardinality(Nodes)
            /\ Cardinality(Running("sentinel")) >= RedisQuorum

Writable(delegate) == "sentinel" \in up[delegate] /\ "redis" \in up[master]

\* A member that stops properly leaves a smaller component; one that is lost
\* takes the component with it unless a majority is left.
Lost(n) == IF n \in component /\ 2 * Cardinality(component \ {n}) <= Cardinality(component)
             THEN {} ELSE component \ {n}

Checks == {"vip", "writable", "primary", "dispatchers", "joined", "registered"}

Holds(check) ==
  CASE check = "vip" ->
         play.others # {} => First(play.others) \in on /\ Serves
    [] check = "writable" ->
         Writable(First(IF play.action = "exit" THEN Nodes ELSE play.others))
    [] check = "primary" ->
         (IF play.action = "exit" THEN Nodes ELSE play.others) \subseteq component
    [] check = "dispatchers" -> play.others \cap Running("workers") # {}
    [] check = "joined" -> play.target \in component
    [] check = "registered" -> "workers" \in up[play.target] /\ DatabaseServes

-----------------------------------------------------------------------------
TypeOK ==
  /\ on \subseteq Nodes /\ marker \subseteq Nodes /\ listed \subseteq Nodes
  /\ up \in [Nodes -> SUBSET Units] /\ owed \in [Nodes -> SUBSET Services]
  /\ component \subseteq Nodes /\ master \in Nodes
  /\ play \in [action : {"none", "enter", "hold", "exit", "upgrade"}, target : Nodes,
               task : Nat, others : SUBSET Nodes]
  /\ ~Idle => play.task \in DOMAIN Tasks
  /\ reported \subseteq Nodes
  /\ drains \in 0..MaxDrains
  /\ interrupts \in 0..MaxFaults /\ crashes \in 0..MaxFaults

Init ==
  /\ on = Nodes /\ up = [n \in Nodes |-> Services]
  /\ owed = [n \in Nodes |-> {}]
  /\ marker = {} /\ listed = {}
  /\ component = Nodes /\ master = First(Nodes)
  /\ play = NoPlay
  /\ reported = {}
  /\ drains = 0 /\ interrupts = 0 /\ crashes = 0

-----------------------------------------------------------------------------
(* The plays. An operator starts one at a time.                            *)

Start(action, n) ==
  play' = [action |-> action, target |-> n, task |-> 1, others |-> Remaining(n)]

\* "Validate remaining HA capacity before entering maintenance"
Capacity(n) == /\ Cardinality(Remaining(n)) >= 2
               /\ Cardinality(Remaining(n)) >= RedisQuorum

\* The operator lists what is in maintenance before the next node is drained.
Disciplined(n) == marker \ {n} \subseteq listed

Drain(action, n) ==
  /\ Idle
  /\ action = "hold" => n \in listed
  /\ Capacity(n) /\ Disciplined(n)
  /\ drains < MaxDrains /\ drains' = drains + 1
  /\ Start(action, n)
  /\ UNCHANGED <<nodeVars, marker, listed, dataVars, reported, interrupts,
                 crashes>>

Rejoin(n) ==
  /\ Idle
  /\ n \in marker \ listed /\ n \in on
  /\ Start("exit", n) /\ reported' = reported \ {n}
  /\ UNCHANGED <<nodeVars, marker, listed, dataVars, bounds>>

\* (wrong) one task too many
RunsOn ==
  IF play.task <= Len(Tasks)
    THEN play' = [play EXCEPT !.task = @ + 1] /\ UNCHANGED reported
    ELSE play' = NoPlay /\ UNCHANGED reported

\* The next task, or the end of the play and its report.
Proceed ==
  IF play.task < Len(Tasks)
    THEN play' = [play EXCEPT !.task = @ + 1] /\ UNCHANGED reported
    ELSE /\ play' = NoPlay
         /\ reported' = IF play.action = "exit" THEN reported
                                                ELSE reported \cup {play.target}

Mark ==
  /\ ~Idle /\ Task = "mark" /\ play.target \in on
  /\ marker' = marker \cup {play.target}
  /\ Proceed
  /\ UNCHANGED <<nodeVars, listed, dataVars, bounds>>

Unmark ==
  /\ ~Idle /\ Task = "unmark" /\ play.target \in on
  /\ marker' = marker \ {play.target}
  /\ Proceed
  /\ UNCHANGED <<nodeVars, listed, dataVars, bounds>>

\* A member that is stopped leaves the component, and the rest goes on.
StopUnit ==
  /\ play.action \in {"enter", "hold"} /\ Task \in Units /\ play.target \in on
  /\ up' = [up EXCEPT ![play.target] = @ \ {Task}]
  /\ owed' = [owed EXCEPT ![play.target] = @ \cup ({Task} \cap up[play.target] \cap Services)]
  /\ component' = IF Task = "mariadb" THEN component \ {play.target} ELSE component
  /\ Proceed
  /\ UNCHANGED <<on, marker, listed, master, bounds>>

StartUnit ==
  /\ play.action = "exit" /\ Task \in Units /\ play.target \in on
  /\ up' = [up EXCEPT ![play.target] = @ \cup {Task}]
  /\ owed' = [owed EXCEPT ![play.target] = @ \ {Task}]
  /\ Proceed
  /\ UNCHANGED <<on, marker, listed, dataVars, bounds>>

Check ==
  /\ ~Idle /\ Task \in Checks /\ Holds(Task)
  /\ Proceed
  /\ UNCHANGED <<nodeVars, marker, listed, dataVars, bounds>>

\* A runtime upgrade asks for the marker, and for a node that is not listed.
Upgrade(n) ==
  /\ Idle /\ n \in (on \cap marker) \ listed
  /\ Start("upgrade", n)
  /\ UNCHANGED <<nodeVars, marker, listed, dataVars, reported, bounds>>

\* Its Nginx task reloads or starts the service, if that component is selected.
Packages ==
  /\ play.action = "upgrade" /\ play.target \in on
  /\ play' = NoPlay
  /\ \/ UNCHANGED <<up, owed>>
     \/ /\ up' = [up EXCEPT ![play.target] = @ \cup {"nginx"}]
        /\ owed' = [owed EXCEPT ![play.target] = @ \ {"nginx"}]
  /\ UNCHANGED <<on, marker, listed, dataVars, reported, bounds>>

\* The retries are used up, or the target cannot be reached.
GiveUp ==
  /\ ~Idle
  /\ IF Task \in Checks THEN ~Holds(Task) ELSE play.target \notin on
  /\ play' = NoPlay
  /\ UNCHANGED <<nodeVars, marker, listed, dataVars, reported, bounds>>

\* Any other error, or a controller that is lost, ends the play where it is.
Interrupt ==
  /\ ~Idle
  /\ interrupts + crashes < MaxFaults /\ interrupts' = interrupts + 1
  /\ play' = NoPlay
  /\ UNCHANGED <<nodeVars, marker, listed, dataVars, reported, drains, crashes>>

PlayStep == Mark \/ Unmark \/ StopUnit \/ StartUnit \/ Check \/ Packages \/ GiveUp

-----------------------------------------------------------------------------
(* The startup repair of node n. The order of its steps is left out: a run  *)
(* may start any unit whose condition holds. That it stops the timers of    *)
(* the workers while their dependencies are down is left out as well.       *)

RuntimeReady(n) == "rrdcached" \in up[n] /\ DatabaseServes /\ n \in component

Startable(n) ==
  ({"keepalived", "haproxy", "redis", "sentinel", "rrdcached"}
     \cup (IF component \ {n} # {} THEN {"mariadb"} ELSE {})
     \cup (IF RuntimeReady(n) THEN {"workers"} ELSE {})) \ up[n]

TimerFires(n) ==
  /\ n \in on /\ "timer" \in up[n] /\ "repair" \notin up[n] /\ Startable(n) # {}
  /\ up' = [up EXCEPT ![n] = @ \cup {"repair"}]
  /\ UNCHANGED <<on, marker, listed, dataVars, play, reported, owed, bounds>>

RepairStarts(n, u) ==
  /\ "repair" \in up[n] /\ u \in Startable(n)
  /\ up' = [up EXCEPT ![n] = @ \cup {u}]
  /\ owed' = [owed EXCEPT ![n] = @ \ {u}]
  /\ UNCHANGED <<on, marker, listed, dataVars, play, reported, bounds>>

RepairEnds(n) ==
  /\ "repair" \in up[n]
  /\ up' = [up EXCEPT ![n] = @ \ {"repair"}]
  /\ UNCHANGED <<on, marker, listed, dataVars, play, reported, owed, bounds>>

-----------------------------------------------------------------------------
(* Operators, power, Galera and Sentinel.                                  *)

List(n) ==
  /\ Idle /\ n \in reported \ listed /\ drains < MaxDrains
  /\ listed' = listed \cup {n}
  /\ UNCHANGED <<nodeVars, marker, dataVars, play, reported, bounds>>

Unlist(n) ==
  /\ Idle /\ n \in listed
  /\ listed' = listed \ {n}
  /\ UNCHANGED <<nodeVars, marker, dataVars, play, reported, bounds>>

PowerOff(n) ==
  /\ on' = on \ {n} /\ up' = [up EXCEPT ![n] = {}] /\ owed' = [owed EXCEPT ![n] = {}]
  /\ UNCHANGED <<marker, listed, master, play, reported, drains, interrupts>>

\* The operator powers off a node whose drain was reported.
Shutdown(n) ==
  /\ Idle /\ n \in on \cap reported
  /\ component' = component \ {n}
  /\ PowerOff(n) /\ UNCHANGED crashes

\* A node crashes while a play works on it.
Crash(n) ==
  /\ ~Idle /\ n = play.target /\ n \in on
  /\ interrupts + crashes < MaxFaults /\ crashes' = crashes + 1
  /\ component' = Lost(n)
  /\ PowerOff(n)

\* systemd starts every enabled unit; a stop does not disable one.
Boot(n) ==
  /\ n \in Nodes \ on
  /\ on' = on \cup {n}
  /\ up' = [up EXCEPT ![n] = Services]
  /\ reported' = reported \ {n}
  /\ UNCHANGED <<marker, listed, dataVars, play, owed, bounds>>

Join(n) ==
  /\ "mariadb" \in up[n] /\ n \notin component /\ component # {}
  /\ component' = component \cup {n}
  /\ UNCHANGED <<nodeVars, marker, listed, master, play, reported, bounds>>

\* galera-recover.yml, when no component is left
Recover(n) ==
  /\ component = {} /\ "mariadb" \in up[n]
  /\ component' = {n}
  /\ UNCHANGED <<nodeVars, marker, listed, master, play, reported, bounds>>

Failover(n) ==
  /\ "redis" \notin up[master] /\ CanElect /\ "redis" \in up[n]
  /\ master' = n
  /\ UNCHANGED <<nodeVars, marker, listed, component, play, reported, bounds>>

-----------------------------------------------------------------------------
Node(n) ==
  \/ \E action \in {"enter", "hold"} : Drain(action, n)
  \/ Rejoin(n) \/ List(n) \/ Unlist(n)
  \/ TimerFires(n) \/ RepairEnds(n) \/ \E u \in Services : RepairStarts(n, u)
  \/ Upgrade(n)
  \/ Shutdown(n) \/ Crash(n) \/ Boot(n)
  \/ Join(n) \/ Recover(n) \/ Failover(n)

Next == PlayStep \/ Interrupt \/ \E n \in Nodes : Node(n)

Safety == Init /\ [][Next]_vars

\* A play has retries and timeouts; a node that is off is powered on again, a
\* server joins, Sentinels elect; the operator ends what was begun: the group
\* is emptied, and an exit that failed is repeated between other plays.
Environment == \E n \in Nodes : Boot(n) \/ Join(n) \/ Recover(n) \/ Failover(n)

Fairness ==
  /\ WF_vars(PlayStep) /\ WF_vars(Environment)
  /\ SF_vars(\E n \in Nodes : Unlist(n))
  /\ \A n \in Nodes : SF_vars(Rejoin(n))

Spec == Safety /\ Fairness

-----------------------------------------------------------------------------
(* Properties.                                                             *)

\* What a play has stopped and nobody has started since is on a node with the
\* marker, whatever plays ended where: an unmarked node is whole.
StoppedIsMarked == \A n \in Nodes : owed[n] # {} => n \in marker

\* As long as no node crashes, planned work leaves the cluster a node that can
\* hold the VIP, and two members of every tier: web, dispatcher, RRD cache,
\* Redis, Sentinel and database.
CapacityStays == crashes = 0 =>
  /\ Serves
  /\ \A u \in Services \ {"timer"} : Cardinality(Running(u)) >= 2
  /\ Cardinality(component) >= 2

\* Until a drained node boots or is rejoined, nobody starts its workers, its
\* data services or what would start them (unless it crashed in the drain).
QuietUnits == {"timer", "repair", "workers", "rrdcached", "redis", "sentinel",
               "mariadb"}

DrainedStaysQuiet == crashes = 0 => \A n \in reported : up[n] \cap QuietUnits = {}

\* Every node that went into maintenance comes out again, wherever a drain or
\* a rejoin was cut short and whatever the startup repair did meanwhile.
EveryNodeReturns == marker # {} ~> marker = {}

-----------------------------------------------------------------------------
(* Why an unmarked node is whole: a drain stops nothing before it has marked *)
(* its target, and a rejoin has started what its tasks so far are about.     *)

MarkedFirst ==
  play.action \in {"enter", "hold"} /\ play.task > 1 => play.target \in marker

StartedInOrder ==
  play.action = "exit" =>
    \A k \in 1..(play.task - 1) : ExitTasks[k] \notin owed[play.target]

MaintenanceInv == TypeOK /\ StoppedIsMarked /\ MarkedFirst /\ StartedInOrder

-----------------------------------------------------------------------------
(* Why a drained node is quiet: from the timer of the startup repair on, a   *)
(* drain stops what starts a unit before the unit, and its target stays on.  *)

Draining == crashes = 0 /\ play.action \in {"enter", "hold"}

StoppedInOrder ==
  Draining => \A k \in 6..(play.task - 1) : EnterTasks[k] \notin up[play.target]

TargetStaysOn == Draining /\ play.task > 1 => play.target \in on

RejoiningIsUnreported == play.action = "exit" => play.target \notin reported

DrainInv ==
  /\ TypeOK /\ DrainedStaysQuiet
  /\ StoppedInOrder /\ TargetStaysOn /\ RejoiningIsUnreported

-----------------------------------------------------------------------------
(* Why planned work leaves enough: two nodes are unmarked at any time, since  *)
(* a drain goes on only with two that are not listed; an unmarked node is     *)
(* whole, since a rejoin has seen its target join and has started its units.  *)

Whole(n) == n \in on \cap component /\ Services \subseteq up[n]

UnmarkedIsWhole == crashes = 0 => \A n \in Nodes \ marker : Whole(n)

EnoughUnmarked ==
  /\ Cardinality(Nodes \ marker) >= 2
  /\ play.action \in {"enter", "hold"} =>
       /\ Cardinality(play.others) >= 2
       /\ play.others \cap (marker \cup {play.target}) = {}

ReportedIsMarked == reported \subseteq marker

RejoinedInOrder ==
  crashes = 0 /\ play.action = "exit" =>
    /\ play.target \in on
    /\ play.task > 2 => play.target \in component
    /\ \A k \in 1..(play.task - 1) :
         ExitTasks[k] \in Units => ExitTasks[k] \in up[play.target]

CapacityInv ==
  /\ TypeOK /\ MarkedFirst /\ RejoiningIsUnreported /\ ReportedIsMarked
  /\ EnoughUnmarked /\ UnmarkedIsWhole /\ RejoinedInOrder

=============================================================================
