# A verification of librenms-ha-ansible

The repository installs LibreNMS as a highly available cluster and keeps it
running: Ansible roles converge the nodes, and the scripts they install
(node drain, startup repair, daily update, readiness agent, backup, dispatcher
recovery) go on working on every node when no play runs. Other scripts guard
the project itself: they build the controller, check inventories, and certify
an installation. This directory models the parts that coordinate something or
decide on evidence, checks them with TLC and proves what matters most with
TLAPS.

    tlc -config MCNodeDrain.cfg MCNodeDrain       # one of the runs below
    tlapm NodeDrainProofs.tla                     # one of the proof modules

## The system

A cluster has three or more nodes. Each usually runs a MariaDB Galera member,
the LibreNMS web application, a dispatcher, Redis with a Sentinel, HAProxy and
Keepalived, and mounts the RRD files (Gluster or NFS). An operator works from a
controller with a checkout of the repository.

| component | state it keeps | operations | interacts through |
|---|---|---|---|
| node-drain helper (`librenms-galera-node-drain`) | four markers and a record of stopped units under /run, a flock | `enter`, `exit` | HAProxy and nginx read the markers; systemd units, whose starts it only queues; the daily wrapper's marker |
| galera role, per batch | the play's facts; MariaDB | drain, restart, join, exit | the helper; the startup repair runs beside it |
| galera role, bootstrap | `grastate.dat`, a bootstrap marker, facts about all nodes | probe, rank, mark safe, bootstrap, join | SSH to any subset of the nodes; Galera |
| galera_recover | the same | probe, read, stop, rank, mark, bootstrap, start joiners | an operator, SSH, Galera |
| startup repair (timer, 30 s) | failure counter, restart time | self-heal of the member, units, readiness agent, HAProxy, PHP-FPM, paths | the helper, systemd, the peers |
| daily update wrapper (timer) | local flock, drain marker, shared lock, canary record | canary gate, lock, drain, git, `daily.sh`, repair, record | the shared RRD file system; systemd's ExecStopPost |
| maintenance | a marker, the services of a node, the inventory group `maintenance_nodes` | enter, hold, exit | every service of the cluster; the startup repair of the target; the runtime upgrade |
| readiness gate and evidence verifier | a record with checksum and HMAC, verdicts | doctor, gate, live checks, write, verify | nodes that go on being updated; the automation checkout; the operator's files |
| inventory check, generated secrets | none | a list of rules over the inventory file and `all.yml` | the rules of the doctor and of the gate |
| GitHub governance check | none | six reads with retry and fallback, verdict | administrators who change settings meanwhile |
| controller scripts | virtual environment, collections directory | bootstrap, launch, CI's lock and image checks | pip, ansible-galaxy, a checkout that is pulled |
| readiness agent, HAProxy, Keepalived | rise and fall counters, VIP | poll, move the VIP | markers, Galera status |
| dispatcher recovery | rows of `poller_cluster` | refresh own row, prune others | the database |
| backup | directories, a flock | dump, archive, prune, copy | the database, the daily wrapper |
| Redis and Sentinel | who is master | enforce the configured master | Sentinels elect beside the play |
| the rest (installers, upgrades, platforms, reports) | configuration | convergence | none of its own |

What is hard in it: two programs use the helper on one node and neither knows
of the other's intent; a helper, play or wrapper may die between any two of
its steps and what it leaves is found by another program; plays decide on
evidence that they collect node by node, ignore the nodes they cannot reach
and act on it later; the nodes' timers fire at about the same time; one file
is sometimes the signal of two programs; a repair starts what a maintenance
play stops; a start that systemd has accepted may still fail; one rule is
stated in several scripts, and not quite alike; a record outlives what it
was true of; several processes replace files that others run from.

What makes each part correct: the helper forgets no unit it has stopped and
readmits traffic in order, after systemd has accepted the starts; a planned
restart happens on a quiet node; every drain ends, every unit runs again and no
member is restarted in a loop; no play starts a second primary component or one
that has lost committed data, and the highest position that could be read wins;
the daily update takes out one node at a time, the canary first, and each comes
back; maintenance leaves two members of every tier, leaves nothing stopped on
an unmarked node, and ends; an accepted record is the one that was written and
was earned in its run; a governance verdict reflects settings that were in
force; a controller that CI lets through can be built and launched, and a play
keeps the collections it started with.

## Modules

- **`NodeDrain`** models the helper step by step in the most general
  environment: any caller, kills, failed systemd calls, other users of the same
  units, MariaDB changing state, HAProxy noticing late, the daily update beside
  it. `pc` is the helper's next step (`e_` enter, `x_` exit, `r_` rollback,
  `s_` the restore sequence which rollback and exit share), `lock` the flock's
  holder, `call` what each caller asked for and got. The files under /run are
  the variables `backend`, `web`, `compat`, `compatOwned`, `stateFile` and
  `recorded`. `queued` are units whose start systemd has accepted (`systemctl
  start --no-block`) and not yet done: the job succeeds or fails later
  (`JobEnds`), and the helper does not learn of it. `owed` is a history
  variable: units that the helper has stopped and nobody has asked systemd to
  start since. `IInv` is its inductive invariant. `MCNodeDrain` adds the
  symmetry of the callers.
- **`NodeDrainSystem`** extends it with the two callers: the galera role of a
  site run and the startup repair (self-heal and `ensure_systemd_units`). It
  restricts the environment to what one node really sees, with two budgets
  (`MaxHelperFaults`, `MaxDisruptions`) that make disruptions end. Accepted
  starts succeed (`JobsRun`) or, as a disruption, fail (`JobFails`). A role
  that sees no TCP listener drains and restarts again (`RoleReenters`).
  `failures` is the repair's counter up to the threshold, above which all
  numbers are compared alike (`Counted`); `recent` remembers an attempt to
  restart until the cooldown or a reboot. The module implements `NodeDrain`'s
  `Spec` (`ImplementsNodeDrain`), so what holds of the helper alone holds in
  the system.
- **`GaleraCluster`** is external: the rules of Galera that the roles rely on.
  A component keeps its majority or lets members leave cleanly; the last to
  leave is marked safe; a joiner takes over the data; a complete old view
  re-forms. A datadir is the set of transactions in it, and a seqno its size.
- **`GaleraBootstrap`** extends it with the two playbooks that may start a new
  component, one action per task that reads or changes state. `step` is the
  next task; `initial`, `targets`, `marked`, `ranked` and `host` are the facts
  the roles set. Between two tasks the cluster goes its own way
  (`ClusterEvent`), each task reaches a set of nodes out of `Reaches`, and a
  play may end anywhere. The options of an installation are a record, and
  `Sites` the installations to consider: one run checks them all. With
  `readsFail` galera_recovery may fail on a stopped node, and without
  `forceKill` a server may go on running; the roles leave such nodes out of the
  comparison. Without `startJoiners` a recovery leaves the others stopped.
  `partial` is a history variable that says that a recovery has gone on in one
  of these ways. `MCGaleraBootstrap` defines them.
- **`DailyUpdate`** models the wrapper on all web nodes with what they share.
  `pc[n]` is the step of n's wrapper, `holder` the owner of the flock on the
  shared file system, `recDay` and `settled` the canary record, `created` the
  shell variable that tells the trap to remove the marker, `manual` the
  wrappers that an operator runs from a shell, past the canary, and `left` (a
  history variable) the nodes whose marker such a run has left behind, since no
  ExecStopPost follows it.
- **`Rollout`** is what the daily update promises of the cluster, with no
  wrapper in it: a canary approves the day, then one admitted node after
  another is taken out of the pool, works alone and comes back. `DailyUpdate`
  implements it (`ImplementsRollout`), by a mapping that reads the approval
  from the record, and who is admitted or at work from the wrappers' steps.
- **`Maintenance`** models both workflows of the maintenance role task by task
  (`EnterTasks`, `ExitTasks`; hold runs the first one again) on nodes that are
  in every group. `play` is the running play with the facts it starts from,
  `up[n]` the units of a node, `listed` the inventory group, `marker` the
  marker files, `reported` the nodes whose drain was reported, `owed` a history
  variable as above. Beside the play run the startup repair of each node (which
  units it may start, not its order), power cuts and boots, Galera's joins,
  Sentinel's elections, and the runtime upgrade that asks for the marker.
- **`Inventory`** has the rules of `validate-inventory.py` and the host lists,
  with the script's own marks of the examples and its defaults for what is no
  number; **`Evidence`** what the installed verifier accepts.
  **`Certification`** is the readiness play over both: the doctor's rules, SNMP
  included (`DoctorAccepts`), the gate, the checks that run one after the
  other, the record and its two sidecars, the verdict. Updates, pulls, time,
  lost and edited files and changes of the inventory go on beside it. A setup
  has the inventory twice: as Ansible resolves it (`inv`) and as the script
  reads it (`file`). `Overlooked` lists how the script may be content where the
  doctor is not. `origin` remembers the run that a record comes from, with the
  commits that each node had at each moment. `MCCertification` has a good HA
  installation, a standalone one, and neighbours with one value changed.
- **`Governance`** is `ci-github-governance-check.py`: six reads one after the
  other, each with one retry after a 401 and one fallback, and the verdict. An
  answer may withhold what the token must not see (`Withheld`), which the check
  counts as off; `hidden` remembers the resources where that has happened.
  `moments` remembers the settings in force during the check.
- **`Toolchain`** states the rules for Python and ansible-core as each of six
  places states them, and the comparison of collections with their pins. A lock
  is a sequence of lines: the lock check keeps its last pin of ansible-core
  (`Pinned`), the image check the first plainly written one (`ImageReads`), the
  bootstrap the first line that begins so (`BootReads`), and pip takes all that
  apply, with its own idea of names, hashes and conflicts (`PipAccepts`).
  `Overlooked` lists what the lock check lets through although bootstrap or pip
  may refuse it. **`Controller`** runs `bootstrap-controller.sh` and several
  launchers (`ansible-playbook.sh`, with the commands that the environment may
  name instead) over them. `ready` and `undisturbed` are history: the script
  calls every environment ready that pip has filled, and `ready` says whether
  it is `"sound"`, was `"pulled"` (the lock changed between the check and pip)
  or `"misread"` (pip installed another line than the script had read).
  `MCController` has good and bad locks, Pythons and collection directories.
- **`NodeDrainProofs`**, **`NodeDrainSystemProofs`**,
  **`GaleraBootstrapProofs`**, **`DailyUpdateProofs`**,
  **`MaintenanceProofs`**, **`CertificationProofs`**, **`GovernanceProofs`**,
  **`ControllerProofs`** hold the theorems.

Next to the steps each module has wrong variants of some of them (a dropped
guard, a missing reset, a swapped choice). No specification uses them. Put in
place of the step they belong to, each makes a property fail, which shows that
the property speaks about the code.

## Runs

| run | configuration | shows |
|---|---|---|
| `node_drain` | `MCNodeDrain.cfg` | two callers, the daily timer and a worker: no stopped unit is forgotten (`OwedUnitsRecorded`), systemd has accepted every start before a member is back in traffic (`StartsBeforeTraffic`), the record outlives the markers (`MarkersHaveRecord`), traffic returns in order (`ReopenInOrder`) |
| `drain_fenced` | `DrainFenced.cfg` | without the startup repair a site run restarts MariaDB only on a fenced node (`PlannedRestartIsFenced`); no daily update runs there unless a systemd call of the helper failed |
| `drain_heals` | `DrainHeals.cfg` | with it, there is no restart storm (`NoRestartStorm`), drains end, service units run again even when an accepted start fails (`UnitsComeBack`), members recover; the system implements the open model |
| `galera_bootstrap` | `GaleraBootstrap.cfg` | four installations: one component, nothing committed is lost by a bootstrap, no position wins that is lower than one that could be read (`HighestOfRead`) |
| `daily_update` | `DailyUpdate.cfg` | a canary and two followers: one node out, drained while it works, canary first, everybody rejoins; the wrappers implement `Rollout` |
| `maintenance` | `Maintenance.cfg` | two drains of three nodes, two faults: an unmarked node is whole (`StoppedIsMarked`), two members of every tier run (`CapacityStays`), a drained node stays quiet (`DrainedStaysQuiet`), each node comes out again (`EveryNodeReturns`) |
| `certification` | `Certification.cfg` | an accepted record is original, its HA claims were checked in its run, its commit was on all nodes at one moment, it is not reused in maintenance; the gate implies the verdict; the local inventory check predicts the doctor but for listed differences |
| `governance` | `Governance.cfg` | a passed check saw controls that were in force together per resource; a failed one names a control that was off or that an answer withheld |
| `controller` | `Controller.cfg` | a lock that CI accepts is installed but for listed differences between the scripts, a sound environment launches, an undisturbed launcher converges, a play keeps its collections |
| `drain_undone` | `DrainUndone.cfg` | finding: the startup repair undoes the role's drain |
| `daily_marker` | `DailyMarker.cfg` | finding: the helper removes the daily update's marker |
| `site_replaced` | `SiteReplaced.cfg` | finding: a replaced node is bootstrapped beside the cluster |

**Bounds.** `Units` has the daily timer and one more unit: a loop over units
needs a first and a last, and the timer is the only unit the helper treats on
its own. `MaxClients` is 1: the code asks whether sessions are left; it is 0 in
`drain_heals`, where sessions only add ways for an enter to fail, which a fault
of the helper stands for. The second unit is a PHP-FPM service in `node_drain`
and `drain_heals`, since the record treats it on its own too.
`FailureThreshold` is 2, the smallest that makes a first observation differ
from the last. `MaxDisruptions` lets one fault interrupt the handling of
another. Three database nodes are the smallest cluster in which a majority
differs from all and from one. In `galera_bootstrap` the cautious site reaches,
task by task, any set with the configured host or all the others; the recovered
one reaches all three, where galera_recovery may fail and servers may go on
running; the single one is the same with two nodes and joiners left stopped;
the site that recovers unsafe nodes has two, one of which may be replaced,
because the rank compares a fresh datadir with a used one. One write makes two
positions (`maxWrites`). `MaxDay` is 2 so that yesterday's record exists; three
runs are one for each node, or two of one node and one of another, with a kill
or a reboot in any of them. `maintenance` has three nodes, the smallest cluster
that the capacity check lets into maintenance, two drains, so that an error in
counting what remains could take the second node, and two faults, plays cut
short or targets that crash: the second crash is what can take the majority of
the Galera component. `certification` has one readiness play, three commits,
one pull and two ticks with a maximum age of one: what is fresh, stale and of
another time exist. Each installation there differs from a good one in one
value: every rule is broken alone, and each difference between script and
doctor occurs. `governance` has two changes of any settings, enough to turn one
off and another on between two reads. `controller` has a lock for each way in
which two of its readers differ, and either one bootstrap beside one launcher
or two launchers, the smallest that disturb each other.

**Assumptions on the environment.** A run of the role or of the repair starts
after HAProxy has seen earlier markers (`HAProxySettled`), and `DRAIN_DELAY`
and `BACKEND_REJOIN_DELAY` are long enough for HAProxy's poll
(`WaitForHAProxy`, `OpenWeb`): both are configured as many times its interval.
`Calm`, in the recovered site: while galera-recover.yml runs nothing else
starts or stops database servers, the nodes see each other, and nobody
interrupts the play after it has marked a host; the playbook asks its operator
for that and cannot enforce it. It asks for one reachable node only, while the
recovered site reaches all: with a node out of reach it may start a component
beside one that it does not see. `OnePrimary` and `BootstrapKeepsCommitted`
hold of sites that have not opted into the recovery of unsafe nodes, and until
a recovery goes on without the position of a node or leaves the joiners stopped
(`Ordinary`): the node left out may have had the highest position, and a
stopped one may be bootstrapped by a later play. `HighestOfRead` says what is
left then. In `DailyUpdate` all nodes have one date, the lock backend is
`shared_file` (the other one is refused by production_readiness), a flock is
lost only with its process, and the rm of ExecStopPost succeeds. The wrapper's
own rm may fail, and a failed chmod leaves a marker that its trap does not
know: the unit's ExecStopPost removes both; after a run by hand they stay,
which is why `OneNodeOut` and `NodeRejoins` except such nodes (`left`). In
`Maintenance` the operator lists a drained node before the next drain
(`Disciplined`, what the report of enter asks for), one play runs at a time,
only the target of a play crashes, the RRD files are external, and Galera and
Sentinel follow their rules. In `Certification` updates never go back to an
older commit, a stored file is edited once and only while no play runs, the
inventory and its maintenance group (`Maintainable` bounds it) change only
between plays, a live probe that fails stops the play, the maintenance marker
does not change the inventory, and a digest or HMAC does not collide. In
`Controller` pip installs what it is asked for, and fails over nothing but what
`PipAccepts` says: a lock that misses a dependency, a hash of the wrong value
and further forms of versions are not modelled. No hash line continues into a
requirement. A killed ansible-galaxy leaves a directory absent, unreadable or
at its pin, the pins of collections are exact, and the image was let through by
CI and has what pip installed from its lock.

**Fairness.** `drain_heals`: the helper is a bounded script, so its steps are
fair while no fault interrupts it; plays and repair runs have a timeout on
every task; the repair timer fires again and again; systemd runs the jobs it
has accepted (`JobsRun`), MariaDB joins when it is started and nothing takes it
down (`DbJoins`); HAProxy polls; TimeoutStartSec ends a daily run; the cooldown
passes. The starts of site runs, faults and outages are not fair and are
bounded, since no drain ends while somebody breaks the node for ever; a start
job that fails is one of these outages, and the repair starts the unit anew in
one of its next runs. `daily_update`: every step of the wrapper has a time
limit and in the last resort the unit has one; the file system frees a dead
node's lock. `maintenance`: a task of a play ends or its retries do; a node
that is off is powered on, a started server joins, a component is recovered,
Sentinels elect; an operator ends what was begun, so the inventory group is
emptied and an exit that failed is repeated, both strongly fair because other
plays come between. No drain, fault or upgrade is fair. Deadlock is checked
where the system cannot stop (`node_drain`, `drain_heals`, `governance`,
`controller`, `drain_undone`). The others may end when a budget is spent.

## Proofs

For every value of the constants, under the named assumptions of the modules
(`ConstantsOK`, `SystemConstantsOK`, `DailyConstantsOK` and their like), TLAPS
checks:

- `NodeDrainProofs`: `TypeCorrect`, `NothingForgotten`, `StartsPrecedeTraffic`,
  `RecordOutlivesMarkers`, `Reopening`. None of these is inductive alone:
  that no start is owed when the backend marker goes depends on what the
  restore loop has still to do, and that the record is not dropped too early
  on who created it. `IInv` says for each group of steps what is already in
  place (`EnterInv`) and what is still to be done (`RestoreInv`), ties the
  flock to `pc` (`LockInv`) and the web markers to the node's role (`WebInv`).
  `ReopenInOrder` is an action property and follows from `IInv` in the step's
  first state.
- `NodeDrainSystemProofs`: `SystemImplements` (every step of the system is a
  step or a stutter of `NodeDrain`), hence `SystemNeverForgets`, and
  `SystemTypes`. `NoStorm` follows from `StormInv`: a young attempt is on record,
  and the repair comes to its restart only past the test of that record.
  `RestartsFenced` and `DrainIsQuiet` state the two properties of
  `drain_fenced` without a bound on faults and disruptions. They assume that
  the startup repair does not run, since with it `drain_undone` refutes the
  first, and the second that the node is a web member (`LocalWeb`): only such a
  node has the marker that holds the daily update back. Their invariants say
  whose helper runs at each step of the role (`RoleAlone`, `RoleCalls`); that a
  node the role has entered is out of traffic, has its recorded units stopped,
  and no sessions unless the play allows stale ones (`FenceInv`); that a unit
  which runs on a node with a record is in that record, so a stopped timer stays
  stopped until the helper restores the node (`TimerInv`); and that from the
  enter on the timer is stopped and no daily run is going on, unless a systemd
  call of the helper failed (`QuietInv`).
- `GaleraBootstrapProofs`: `TypeCorrect` for every set of installations;
  `OnePrimaryComponent`, `BootstrapLosesNothing` and `ChosenIsHighest` for
  installations that are run with care (`Careful`): nodes are replaced only
  with the option for unsafe nodes (`site_replaced` shows what happens without
  it), and galera-recover.yml is run on a quiet site that it reaches as a whole.
  A site run without recovery may reach any nodes and be cut short anywhere.
  The first two are about `Ordinary` sites, see the assumptions.
  The argument is one lineage (`OneLineage`): of all last views at most one is
  whole, that is, its component runs or may re-form; it has the whole history;
  and a node that is marked safe has it too, and then no view is whole. So
  whoever may start a component has everything, and excludes the others. What a
  play has read remains true until it acts on it: a site run starts a node that
  is marked, or the first one ever (`SiteFacts`, `FirstIsConfigured`), and the
  recovery playbook has stopped all nodes before it compares them
  (`RecoverFacts`). While a play rewrites the marks, lineage is suspended
  (`MarkedSteps`) and `RecoverFacts` carries what is needed. With one history
  (`OneHistory`) the highest position is the whole history, if every node was
  read.
- `DailyUpdateProofs`: `TypeCorrect`, `OneAtATime`, `WorkIsDrained`,
  `CanaryGoesFirst`, `WrappersImplementRollout`. Their invariant adds that a
  wrapper under the lock holds it (`LockHeld`), that markers and work go
  together (`MarkerCoversWork`), that a run by hand is past the gate
  (`ManualIsAdmitted`) and that a record stands for a healthy run of the canary
  on its date (`RecordIsEarned`). The refinement maps each of the wrapper's
  steps, each kill and each reboot to a step of `Rollout` or to none, from that
  invariant.
- `MaintenanceProofs`: `MaintenanceTypeCorrect`, `StoppedNodesAreMarked`,
  `DrainedNodesStayQuiet`. An unmarked node is whole because a drain stops
  nothing before it marks (`MarkedFirst`) and a rejoin that reaches the marker
  has started every unit (`StartedInOrder`). A drained node stays quiet because
  the timer of the repair is stopped before the repair and both before all
  else (`StoppedInOrder`), the target of a drain keeps its power
  (`TargetStaysOn`) and a rejoin first withdraws the report
  (`RejoiningIsUnreported`). Neither needs the capacity check. `CapacityIsKept`
  does, and states for every cluster of two nodes or more that the check is
  enough while no node crashes: two nodes are always unmarked, at a drain even
  without its target (`EnoughUnmarked`), and an unmarked node runs everything
  in the component (`UnmarkedIsWhole`), because a rejoin removes the marker only
  behind its checks (`RejoinedInOrder`).
- `CertificationProofs`: `TypeCorrect`, `AcceptedOriginal`, `ClaimsChecked`,
  `CertifiedAtOnce`, `NotReused`. The invariant follows the play: what its
  facts say of the step it is at, that a commit read on a node was there then
  and that a node only moves forward (`ReadingInv`), so equal readings have a
  moment at which all nodes ran that commit; that files of a record come from
  its run or cannot satisfy the verifier; and that the gate leaves no condition
  under which a claimed scope's tasks are skipped. `GatesAndVerdictAgree`
  states `GatesImplyVerdict` if records may have an age (the gate asks that only
  of HA and of the production profile) and the doctor requires its default
  numbers of hosts: `VerdictInv` fixes the record from the
  revision check on and relates the two sidecars to it, and every clause of the
  verifier follows from a clause of the doctor or the gate.
  `CheckForetellsDoctor` states `CheckPredictsDoctor`: outside `Overlooked` each
  of the doctor's rules follows from one of the script's. It needs that no address
  is empty (`InventoriesOK`): the check
  compares the VIP with the addresses only when there is one, the doctor when
  it is enabled.
- `GovernanceProofs`: `TypeCorrect`, `PassIsEarned`, `FailHasCause`. What has
  been read of a resource was in force at some moment since the start, unless the
  answer withheld it.
- `ControllerProofs`: `ControllerTypes`, `UndisturbedConverges`,
  `PlayKeepsItsCollections`. `UndisturbedInv`: an undisturbed launcher is alone
  while it works on the collections, what it will not install is at its pin,
  and once it plays the others are harmless. `HashesAreComplete`: for a lock of
  any length, the loop of the lock check (`Scan`) finds a hash after every pin,
  also the last one, before the next pin; this is an induction over the lines
  (`SetInduction`, `ScanExists`, `ScanFinds`). `AcceptedLockIsInstalled` and
  `BuiltControllerIsUsable` follow with `ToolsInv`: a bootstrap that goes on
  has checked the line that it has read and works in an environment of its
  Python; what it calls ready is `"sound"` only if pip then installed that line
  from the same lock; and a launcher without overridden commands reads version,
  Python and `ready` together. After a pull between the check and pip the script
  says ready as well, and nothing is proved of that environment. They assume
  that locks are sequences, that the pins of ansible-core are versions, that no
  hash line continues into a requirement, and that an image was let through by CI
  and built by pip (`CheckoutsOK`).

The invariants that the proofs use were checked with TLC on the runs' instances
(`CapacityInv` also on four nodes) before they were proved. The type invariants
of `NodeDrain`, `NodeDrainSystem`, `Certification`, `Governance` and `Controller`
are proved only.

Only model-checked: the liveness properties (`DrainEnds`, `UnitsComeBack`,
`MemberRecovers`, `NodeRejoins`, `EveryNodeReturns`), which rest on fairness and
ENABLED and are out of the prover's reach. Every safety property that a passing
run checks is a theorem. Those that have a hypothesis of their own
(`RestartsFenced`, `DrainIsQuiet`, the three about the bootstrap,
`CapacityIsKept`, `GatesAndVerdictAgree`) are proved for the instances that
satisfy it, which those of the runs do.

## Findings

1. **The repair undoes the role's drain** (`drain_undone`). A site run drains
   a node whose member is still ready. The repair timer is not stopped by the
   role; the next repair run finds a ready member and calls `exit`. The helper
   serialises the two and does not know who entered. MariaDB is then restarted
   in traffic, which README.md:1793-1796 excludes.
2. **The helper removes the daily update's marker** (`daily_marker`). It
   remembers in one file that it owns another, starts the daily timer before
   it removes both, and the update that starts then uses the same file.
3. **A replaced node is bootstrapped** (`site_replaced`) when the others
   cannot be reached: they count as having no data, and
   `librenms_bootstrap_completed` is false by default.

Each is quoted with its documentation in PROJECT.json. Noted while modelling,
without a run of their own:

- *Node drain.* docs/operations.md:312-314 says that the helper "restores
  recorded units before reopening traffic, or leaves the node drained when
  restoration cannot be confirmed". It queues the starts with --no-block, asks
  only whether the manager answers, and removes markers and record: a worker
  that fails after its start was accepted is missing from a node in traffic
  until the startup repair starts it (`JobFails`, `UnitsComeBack`).
- *Maintenance.* `runtime_upgrade` refuses a node without the marker so that no
  "package handoff" occurs "while the node is serving traffic"
  (roles/runtime_upgrade/tasks/main.yml:108-112), but enter writes the marker
  before it stops anything and an exit that fails leaves it: the step `Upgrade`
  of the model is reached on a node in traffic. Its Nginx task starts Nginx on
  a drained node. Between the stop of Keepalived and HAProxy and the stop of
  the repair timer (enter.yml:50-80, 206-234) the startup repair may start both
  again, so a node whose drain is reported may hold the VIP; `QuietUnits`
  leaves them out for that reason. The capacity check counts drained nodes that
  are not listed, and compares with the Redis quorum where Sentinels also need
  a majority. The database check of exit waits for all database nodes, also for
  those that are in maintenance themselves.
- *Certification.* README.md:1627 offers a third mode, `cluster`: the doctor
  and the gate let it through, and the verifier refuses its record ("mode must
  be ha or standalone"), so a play that authenticates its record, the default,
  cannot succeed there. `GatesImplyVerdict` names the two modes that agree, and
  one setup of the run has the third. The record of a standalone installation
  without a production profile may claim scopes whose tasks did not run
  (`*_verified` repeats the flags of the inventory); `HaClaimsWereChecked` is
  therefore about HA records. `generate-secrets` writes a VRRP password of 16
  characters, which the inventory check (at most 8) refuses. The validator
  falls back to the nodes when no web host is active, the doctor and the play
  only when the group is not declared. The script reads the inventory file and
  `all.yml` only and does not look at SNMP: with SNMPv3 enabled and no users it
  passes and the doctor refuses. They also have different marks of the examples
  and treat numbers and the case of names differently (`Overlooked`).
  docs/operations.md:457-459 leaves out arguments that the verifier requires.
  The automation HEAD is read in the middle of the play (main.yml:1272), and
  `ls -1t | head -1` may pick a record that is still being written. Secrets go
  to `vault.yml`, which the validator does not read. A lowered
  librenms_doctor_ha_required_app_nodes lets through what the verifier refuses.
- *Controller.* A suffix `.rcN` is accepted by the shell scripts and not by CI.
  The lock check takes the last pin of ansible-core under a normalised name,
  the bootstrap the first line written plainly, the image check the first pin,
  and pip all of them: a lock with two pins, with a requirement that is no pin,
  or with a hash that no backslash joins to its requirement passes CI and may
  be refused later. The bootstrap checks the lock and lets pip read it again:
  after a pull in between it prints ready for a version that it has not
  checked, and the launcher may refuse it. Two launchers that have both seen a
  mismatch replace collections under the play of the first. A bootstrap that is
  killed while pip replaces ansible-core makes the launcher fall back to the
  ansible of PATH.
- *Daily update and recovery.* A run of the unit that is skipped drops the
  marker of a run by hand (ExecStopPost). A run by hand whose chmod or rm fails
  leaves its node out of the pool until the unit runs next. A node whose
  galera_recovery fails is left out of the comparison without a word in the
  choice, also when it has the highest position. A host that is marked safe is
  chosen over a host with a higher position when its mark is older than the
  others' data.

## Not modelled

Installers, configuration, reports and container platforms have no protocol of
their own. What git, Composer, `daily.sh`, MariaDB, Gluster, pip,
ansible-galaxy and GitHub do is external. Cluster uuids are not compared by the
code. The `database` lock backend, clocks that differ, and a shared file system
that loses locks are left out of `DailyUpdate`. The text checks of
`ci-production-safety-check.py`, the link, YAML, syntax and secret checks of CI
read files and compare strings: there is no state to explore. So are
ANSIBLE_GALAXY_BIN and the forms of versions beyond those of `CoreVersions`. Of
the readiness role, the failover drill's own record, the secret provider and
file modes are left out; of maintenance, glusterd and the diagnostics.

## Plan

1. Done: the modules and proofs above.
2. `StartupRepair`: the whole main sequence of the repair with its counters,
   the readiness-agent and load-balancer repairs and the PHP-FPM recovery;
   composed with galera-recover.yml to drop `Calm`, and with `Maintenance` in
   place of its unordered repair.
3. `Traffic`: readiness agent, HAProxy's rise and fall, Keepalived's check and
   the VIP; properties: a drained node gives up the VIP, some ready node gets
   it, the web pool never routes to a drained node for longer than a poll.
4. `Dispatcher`, `Backup` and `RedisMaster`: small modules for registration
   and pruning, retention with interrupted runs, and the enforced master.
5. Proofs: `BootstrapLosesNothing` and its companions without `Calm`, on the
   composed model of point 2; the site run and the recovery playbook as two
   implementations of one abstract specification of who may found a component;
   theorems about the modules of points 2 to 4 as they come.
