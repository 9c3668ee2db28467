--------------------------- MODULE GaleraBootstrap ---------------------------
(***************************************************************************)
(* How the playbooks choose the node that starts a new primary component:  *)
(*   - the galera role of a site run, which bootstraps a fresh cluster or  *)
(*     a node that is marked safe, and otherwise fails closed (or, with    *)
(*     librenms_galera_auto_recover_unsafe_bootstrap, recovers positions); *)
(*   - the galera_recover role, run and confirmed by an operator.          *)
(* One play runs at a time. Every task is a step, between two tasks the    *)
(* cluster goes its own way, and each task reaches an arbitrary set of     *)
(* nodes over SSH: the roles ignore unreachable nodes and failed commands. *)
(***************************************************************************)
EXTENDS GaleraCluster

CONSTANTS
  Configured,  \* librenms_db_bootstrap_host
  NoHost,      \* no bootstrap host is selected
  Sites        \* the sites to consider, by name; see below

ASSUME BootstrapConstantsOK ==
  /\ Configured \in Nodes /\ NoHost \notin Nodes
  /\ \A s \in {Sites[i] : i \in DOMAIN Sites} :
       /\ {s.completed, s.autoRecover, s.forceKill, s.recovery, s.calm,
           s.readsFail, s.startJoiners} \subseteq BOOLEAN
       /\ s.tieBreaker \in {"manual", "first", "configured_bootstrap"}
       /\ s.hosts \subseteq Nodes /\ Configured \in s.hosts
       /\ s.reaches \subseteq SUBSET s.hosts
       /\ {s.maxReplaced, s.maxWrites} \subseteq Nat

VARIABLES
  site,      \* the name of the site
  marker,    \* nodes with librenms_galera_bootstrap_marker
  step,      \* the next task of the play
  me,        \* inventory_hostname: the batch (serial: 1) of the site run
  initial,   \* librenms_galera_initial_bootstrap_required
  targets,   \* librenms_galera_recovery_target_nodes / the reachable nodes
  marked,    \* librenms_galera_recover_safe_hosts
  ranked,    \* the nodes with a recovered position
  host,      \* the effective bootstrap host, NoHost when there is none
  todo,      \* nodes still to be stopped or started in the current loop
  partial,   \* history: a recovery has gone on without some position or joiner
  replaced   \* how many nodes have been replaced

facts == <<me, initial, targets, marked, ranked, host, todo>>
play  == <<step, facts>>
vars  == <<site, cluster, marker, play, partial, replaced>>

Hosts       == Sites[site].hosts       \* librenms_active_db_nodes
Completed   == Sites[site].completed   \* librenms_bootstrap_completed
AutoRecover == Sites[site].autoRecover \* librenms_galera_auto_recover_unsafe_bootstrap
TieBreaker  == Sites[site].tieBreaker  \* "manual", "first", "configured_bootstrap"

\* librenms_galera_force_kill_stale_mariadb and its namesake of the recovery:
\* a server that takes too long to stop is killed.
ForceKill   == Sites[site].forceKill

\* librenms_galera_recover_start_joiners
StartJoiners == Sites[site].startJoiners

\* galera_recovery may fail on a stopped node.
ReadsFail   == Sites[site].readsFail

\* An operator may run galera-recover.yml.
Recovery    == Sites[site].recovery

\* The database nodes see each other when it runs, nobody else disturbs them
\* then, and it is not interrupted once it has marked a host.
Calm        == Sites[site].calm

\* The sets of nodes SSH may reach in one task.
Reaches     == Sites[site].reaches

\* Bounds on the nodes replaced by fresh ones and on the transactions.
MaxReplaced == Sites[site].maxReplaced
Transactions == Sites[site].maxWrites

SiteSteps == {"probe", "read", "stop", "rank", "quiet", "flag", "verify",
              "start", "record", "converge", "settle", "again", "rejoin",
              "restart", "await", "create"}
RecoverSteps == {"r_read", "r_stop", "r_rank", "r_unflag", "r_flag", "r_start",
                 "r_join"}
MarkedSteps == {"r_start", "r_join"}

FirstOf(S) == CHOOSE n \in S : \A m \in S : n <= m

\* The bootstrap tasks run in the batch of the first database node.
Decider == FirstOf(Hosts)

TypeOK ==
  /\ ClusterTypeOK
  /\ marker \in SUBSET Nodes
  /\ step \in {"idle"} \cup SiteSteps \cup RecoverSteps
  /\ me \in Nodes
  /\ initial \in BOOLEAN
  /\ targets \in SUBSET Nodes /\ marked \in SUBSET Nodes
  /\ ranked \in SUBSET Nodes /\ todo \in SUBSET Nodes
  /\ host \in Nodes \cup {NoHost}
  /\ partial \in BOOLEAN
  /\ replaced \in 0..MaxReplaced

Init ==
  /\ site \in DOMAIN Sites
  /\ ClusterInit(Hosts) /\ (Completed => schema # {})
  /\ marker = IF schema = {} THEN {} ELSE {Configured}
  /\ step = "idle" /\ me = Decider /\ initial = FALSE
  /\ targets = {} /\ marked = {} /\ ranked = {} /\ host = NoHost /\ todo = {}
  /\ partial = FALSE /\ replaced = 0

-----------------------------------------------------------------------------

Highest(S) == {n \in S : \A m \in S : Seqno(m) <= Seqno(n)}

\* One host of the highest candidates c, or none when they tie.
Untied(c) ==
  IF Cardinality(c) = 1 THEN FirstOf(c)
  ELSE IF TieBreaker = "configured_bootstrap" /\ Configured \in c THEN Configured
  ELSE IF TieBreaker = "first" /\ c # {} THEN FirstOf(c)
  ELSE NoHost

\* The positions that are read: a node whose galera_recovery fails is left out.
Readings(S) == IF ReadsFail THEN SUBSET S ELSE {S}

Goto(next) == step' = next /\ UNCHANGED <<site, partial, replaced>>
GotoPartly(next, missing) ==
  step' = next /\ partial' = (partial \/ missing) /\ UNCHANGED <<site, replaced>>
Quit ==
  /\ step' = "idle" /\ UNCHANGED <<site, partial, replaced>>
  /\ me' = Decider /\ initial' = FALSE /\ targets' = {} /\ marked' = {}
  /\ ranked' = {} /\ host' = NoHost /\ todo' = {}

\* systemctl stop, and pkill -KILL when the server takes too long to stop, if
\* that is allowed. A node out of the task's reach stays as it is.
StopServer(n, R) ==
  \/ /\ n \in R /\ server[n] # "stopped"
     /\ Leave(n) \/ Lose(n, "stopped") \/ CrashWaiting(n)
  \/ (n \notin R \/ server[n] = "stopped" \/ ~ForceKill) /\ UNCHANGED cluster

StartServer(n) == IF server[n] = "stopped" THEN Start(n) ELSE UNCHANGED cluster

\* The service task stops the nodes of todo one by one.
StopTodo(R) == \E n \in todo : StopServer(n, R) /\ todo' = todo \ {n}

\* systemd starts a new cluster, or nothing when the server runs already.
StartCluster ==
  NewCluster(host) \/ (server[host] = "primary" /\ UNCHANGED cluster)

-----------------------------------------------------------------------------
(* Wrong variants of some of the steps below, to show that the properties  *)
(* fail for them. No specification uses them.                              *)

\* the list of candidates holds their positions
SiteRankPositions(R) ==
  /\ step = "rank" /\ Goto("quiet")
  /\ ranked' = {Seqno(n) : n \in targets \cap R}
  /\ host' = Untied(Highest(targets)) /\ todo' = targets
  /\ UNCHANGED <<cluster, marker, me, initial, targets, marked>>

\* every host is marked safe, recovered or not
SiteFlagAlways(R) ==
  /\ step = "flag" /\ host \in R
  /\ safe' = [safe EXCEPT ![host] = "1"]
  /\ Goto("verify")
  /\ UNCHANGED <<server, view, data, schema, committed, marker, facts>>

\* whatever host the operator names is selected
SelectedNamed(named, c) == IF marked = {} THEN named ELSE NoHost

\* the joiners are left alone
RecoverJoinNobody ==
  /\ step = "r_join" /\ Quit
  /\ UNCHANGED <<cluster, marker>>

-----------------------------------------------------------------------------
(* The galera role in the batch of node b, up to the bootstrap.            *)

SiteStart(b, R) ==
  /\ step = "idle" /\ Goto("probe")
  /\ me' = b
  /\ initial' = (b \notin marker /\ schema \cap R = {} /\ ~Completed)
  /\ UNCHANGED <<cluster, marker, targets, marked, ranked, host, todo>>

\* A member of a primary component answers the probe; a waiting server may not.
SiteProbe(R) ==
  /\ step = "probe"
  /\ \/ /\ R \cap Primaries # {}
        /\ host' = FirstOf(R \cap Primaries)
        /\ Goto("rejoin") /\ UNCHANGED targets
     \/ /\ R \cap Primaries = {}
        /\ \E answered \in SUBSET {n \in R : server[n] = "waiting"} :
             targets' = IF answered = {} THEN Hosts ELSE answered
        /\ Goto("read") /\ UNCHANGED host
  /\ UNCHANGED <<cluster, marker, me, initial, marked, ranked, todo>>

\* Nodes outside the targets are not looked at. Without a marked node only a
\* first deployment has a bootstrap host. The other batches follow it.
SiteRead(R) ==
  /\ step = "read"
  /\ LET found   == {n \in targets \cap R : safe[n] = "1"}
         chosen  == IF found # {} THEN FirstOf(found)
                    ELSE IF initial THEN Configured ELSE NoHost
         recover == me = Decider /\ found = {} /\ AutoRecover
     IN
       \/ /\ recover /\ Goto("stop")
          /\ todo' = targets /\ UNCHANGED <<me, initial, targets, marked, ranked, host>>
       \/ /\ me = Decider /\ ~recover /\ chosen # NoHost /\ Goto("quiet")
          /\ host' = chosen /\ todo' = targets \cup {chosen}
          /\ UNCHANGED <<me, initial, targets, marked, ranked>>
       \/ me = Decider /\ ~recover /\ chosen = NoHost /\ Quit
       \/ /\ me # Decider /\ chosen \notin {NoHost, me} /\ Goto("converge")
          /\ host' = chosen /\ targets' = {}
          /\ UNCHANGED <<me, initial, marked, ranked, todo>>
       \/ me # Decider /\ chosen \in {NoHost, me} /\ Quit
  /\ UNCHANGED <<cluster, marker>>

SiteStop(R) ==
  /\ step = "stop"
  /\ \/ StopTodo(R) /\ Goto(step)
     \/ todo = {} /\ Goto("rank") /\ UNCHANGED <<cluster, todo>>
  /\ UNCHANGED <<marker, me, initial, targets, marked, ranked, host>>

\* A node that is out of reach, still runs or gives no position is left out.
\* A server that still runs ends the play where none may be killed.
SiteRank(R) ==
  /\ step = "rank"
  /\ \E c \in Readings({n \in targets \cap R : server[n] = "stopped" /\ HasPosition(n)}) :
       IF /\ ForceKill \/ \A n \in targets \cap R : server[n] = "stopped"
          /\ Untied(Highest(c)) # NoHost
         THEN /\ ranked' = c /\ host' = Untied(Highest(c))
              /\ todo' = targets
              /\ Goto("quiet") /\ UNCHANGED <<me, initial, targets, marked>>
         ELSE Quit
  /\ UNCHANGED <<cluster, marker>>

\* The bootstrap host is stopped last. Whatever still runs on a target that
\* can be seen ends the play.
SiteQuiet(R) ==
  /\ step = "quiet"
  /\ \/ /\ \E n \in todo :
             /\ n = host => todo = {host}
             /\ todo' = todo \ {n}
             /\ StopServer(n, R)
        /\ Goto(step) /\ UNCHANGED <<me, initial, targets, marked, ranked, host>>
     \/ /\ todo = {} /\ UNCHANGED cluster
        /\ IF \A n \in targets \cap R : server[n] = "stopped"
             THEN Goto("flag") /\ UNCHANGED facts
             ELSE Quit
  /\ UNCHANGED marker

\* Only a recovered host is marked; the tasks on the host need it reachable.
SiteFlag(R) ==
  /\ step = "flag"
  /\ IF host \in R
       THEN /\ safe' = IF ranked # {} THEN [safe EXCEPT ![host] = "1"] ELSE safe
            /\ Goto("verify") /\ UNCHANGED <<server, view, data, schema, committed, facts>>
       ELSE Quit /\ UNCHANGED cluster
  /\ UNCHANGED marker

SiteVerify(R) ==
  /\ step = "verify"
  /\ IF host \in R /\ (safe[host] = "1" \/ (initial /\ safe[host] = "missing"))
       THEN Goto("start") /\ UNCHANGED facts
       ELSE Quit
  /\ UNCHANGED <<cluster, marker>>

SiteBootstrap ==
  /\ step = "start" /\ StartCluster
  /\ Goto("record") /\ UNCHANGED <<marker, facts>>

\* The rest of the batch needs only the host.
SiteMarker ==
  /\ step = "record"
  /\ marker' = marker \cup {host}
  /\ IF me = host THEN Goto("settle") ELSE Goto("converge")
  /\ initial' = FALSE /\ targets' = {} /\ ranked' = {}
  /\ UNCHANGED <<cluster, me, marked, host, todo>>

-----------------------------------------------------------------------------
(* The galera role in the batch of node me, from the start of its server.  *)

SiteConverge ==
  /\ step = "converge" /\ StartServer(me)
  /\ Goto("await") /\ UNCHANGED <<marker, facts>>

\* The new cluster's own host is bootstrapped again if it is not primary.
SiteSettle ==
  /\ step = "settle"
  /\ \/ server[me] = "primary" /\ UNCHANGED cluster /\ Goto("create")
     \/ server[me] # "primary" /\ StopServer(me, {me}) /\ Goto("again")
  /\ UNCHANGED <<marker, facts>>

SiteBootstrapAgain ==
  /\ step = "again" /\ StartCluster
  /\ Goto("create") /\ UNCHANGED <<marker, facts>>

\* With a live member: a member that is not ready, or whose configuration has
\* changed, is stopped,
SiteRejoin ==
  /\ step = "rejoin"
  /\ \/ server[me] = "primary" /\ UNCHANGED cluster /\ Goto("create")
     \/ StopServer(me, {me}) /\ Goto("restart")
  /\ UNCHANGED <<marker, facts>>

\* its saved view is removed unless it is the live member, and it is started.
SiteRestart ==
  /\ step = "restart"
  /\ view' = IF server[me] = "stopped" /\ me # host THEN [view EXCEPT ![me] = {}] ELSE view
  /\ server' = [server EXCEPT ![me] = IF @ = "stopped" THEN "waiting" ELSE @]
  /\ Goto("await") /\ UNCHANGED <<data, safe, schema, committed, marker, facts>>

\* A joiner that does not get into the component is stopped, cleaned and
\* started again, at most twice in the code.
SiteAwait ==
  /\ step = "await"
  /\ \/ server[me] = "primary" /\ UNCHANGED cluster /\ Goto("create")
     \/ server[me] # "primary" /\ StopServer(me, {me}) /\ Goto("restart")
  /\ UNCHANGED <<marker, facts>>

\* The LibreNMS database is created in the batch of the effective host.
SiteCreateDatabase ==
  /\ step = "create" /\ Quit
  /\ schema' = IF server[me] = "primary" /\ me = host THEN schema \cup view[me] ELSE schema
  /\ UNCHANGED <<server, view, data, safe, committed, marker>>

-----------------------------------------------------------------------------
(* The galera_recover role, confirmed by an operator.                      *)

\* A live member aborts the play; the nodes it reaches are its evidence.
RecoverProbe(R) ==
  /\ Recovery /\ step = "idle" /\ R # {} /\ R \cap Primaries = {}
  /\ targets' = R
  /\ Goto("r_read") /\ UNCHANGED <<cluster, marker, me, initial, marked, ranked, host, todo>>

\* grastate.dat is read before the servers are stopped.
RecoverRead ==
  /\ step = "r_read"
  /\ marked' = {n \in targets : safe[n] = "1"}
  /\ todo' = targets
  /\ Goto("r_stop") /\ UNCHANGED <<cluster, marker, me, initial, targets, ranked, host>>

RecoverStop ==
  /\ step = "r_stop"
  /\ \/ StopTodo(targets) /\ Goto(step) /\ UNCHANGED <<me, initial, targets, marked, ranked, host>>
     \/ /\ todo = {} /\ UNCHANGED cluster
        /\ IF \A n \in targets : server[n] = "stopped"
             THEN Goto("r_rank") /\ UNCHANGED facts
             ELSE Quit
  /\ UNCHANGED marker

\* One marked host wins whatever its position; without one the highest
\* position does, the operator's choice resolving a tie. The play goes on only
\* if the operator named the selected host.
Selected(named, c) ==
  IF Cardinality(marked) = 1 THEN FirstOf(marked)
  ELSE IF marked # {} THEN NoHost
  ELSE IF Cardinality(Highest(c)) > 1 /\ named \in Highest(c) THEN named
  ELSE Untied(Highest(c))

\* A node whose galera_recovery fails is not compared.
RecoverRank ==
  /\ step = "r_rank"
  /\ \/ \E c \in Readings({n \in targets : HasPosition(n)}), named \in targets :
          /\ Selected(named, c) = named
          /\ ranked' = c /\ host' = named
          /\ GotoPartly("r_unflag", marked = {} /\ c # {n \in targets : HasPosition(n)})
          /\ UNCHANGED <<me, initial, targets, marked, todo>>
     \/ Quit
  /\ UNCHANGED <<cluster, marker>>

RecoverMarkUnsafe ==
  /\ step = "r_unflag" /\ Goto("r_flag")
  /\ safe' = [n \in Nodes |-> IF n \in targets \ {host} /\ safe[n] = "1"
                              THEN "0" ELSE safe[n]]
  /\ UNCHANGED <<server, view, data, schema, committed, marker, facts>>

RecoverMarkSafe ==
  /\ step = "r_flag" /\ Goto("r_start")
  /\ safe' = [safe EXCEPT ![host] = "1"]
  /\ UNCHANGED <<server, view, data, schema, committed, marker, facts>>

RecoverBootstrap ==
  /\ step = "r_start" /\ StartCluster
  /\ marker' = marker \cup {host}
  /\ todo' = targets \ {host}
  /\ GotoPartly("r_join", ~StartJoiners) /\ UNCHANGED <<me, initial, targets, marked, ranked, host>>

\* The other nodes are started and have to join, or are left stopped.
RecoverJoin ==
  /\ step = "r_join"
  /\ \/ \E n \in todo :
          /\ StartJoiners /\ StartServer(n)
          /\ todo' = todo \ {n}
          /\ Goto(step) /\ UNCHANGED <<me, initial, targets, marked, ranked, host>>
     \/ /\ ~StartJoiners \/ (todo = {} /\ targets \subseteq Primaries)
        /\ Quit /\ UNCHANGED cluster
  /\ UNCHANGED marker

-----------------------------------------------------------------------------

\* The play fails or is interrupted between two tasks.
PlayEnds ==
  /\ step # "idle" /\ Quit
  /\ Calm => step \notin MarkedSteps
  /\ UNCHANGED <<cluster, marker>>

ClusterEvent ==
  /\ \E n \in Hosts :
       \/ NodeStep(n)
       \/ /\ Calm => step \notin RecoverSteps
          /\ \/ Start(n) \/ Leave(n) \/ NodeFails(n)
             \/ Reform(n) /\ (Calm => Primaries = {})
  /\ Cardinality(committed') <= Transactions
  /\ UNCHANGED <<site, marker, play, partial, replaced>>

\* An operator replaces a node between two plays.
NodeReplaced ==
  /\ step = "idle"
  /\ replaced < MaxReplaced /\ replaced' = replaced + 1
  /\ \E n \in Hosts : Replace(n) /\ marker' = marker \ {n}
  /\ UNCHANGED <<site, play, partial>>

Site ==
  \/ \E R \in Reaches :
       \/ \E b \in Hosts : SiteStart(b, R)
       \/ SiteProbe(R) \/ SiteRead(R) \/ SiteStop(R) \/ SiteRank(R)
       \/ SiteQuiet(R) \/ SiteFlag(R) \/ SiteVerify(R)
  \/ SiteBootstrap \/ SiteMarker \/ SiteConverge \/ SiteSettle
  \/ SiteBootstrapAgain \/ SiteRejoin \/ SiteRestart \/ SiteAwait
  \/ SiteCreateDatabase

Recover ==
  \/ \E R \in Reaches : RecoverProbe(R)
  \/ RecoverRead \/ RecoverStop \/ RecoverRank \/ RecoverMarkUnsafe
  \/ RecoverMarkSafe \/ RecoverBootstrap \/ RecoverJoin

Next == Site \/ Recover \/ PlayEnds \/ ClusterEvent \/ NodeReplaced

Spec == Init /\ [][Next]_vars

-----------------------------------------------------------------------------
(* Properties.                                                             *)

\* A site that has not opted into the recovery of unsafe nodes, and where no
\* recovery has gone on without the position of a stopped node that could not
\* be read, or has left the other nodes stopped.
Ordinary == ~AutoRecover /\ ~partial

\* There is one primary component on such a site: no play starts a second one
\* beside it.
OnePrimary == Ordinary => \A m, n \in Primaries : view[m] = view[n]

Bootstraps(n) == server[n] = "stopped" /\ server'[n] = "primary"

NothingLost == Ordinary => \A n \in Nodes : Bootstraps(n) => committed \subseteq data[n]

\* On such a site a play starts a new primary component only on a node that
\* holds every transaction that was ever committed.
BootstrapKeepsCommitted == [][NothingLost]_vars

\* After a cluster has been bootstrapped once, a site run does not bootstrap
\* a node that is not marked safe: it fails closed.
FreshOnlyOnce ==
  [][\A n \in Nodes : Bootstraps(n) /\ safe[n] = "missing" => committed = {}]_vars

Decides(task) == step = task /\ host = NoHost /\ host' # NoHost

HighestOf(S) == \A n \in S : Seqno(n) <= Seqno(host')

\* A host that a play chooses after it has stopped the nodes has the highest
\* position of all that it could read: the node that a site run ranks first, and
\* the one that a recovery selects, also where the only node that is marked safe
\* wins whatever its position, unless an earlier recovery was a partial one. A
\* node that is left out because its position could not be read may be higher.
HighestOfRead ==
  [][/\ Decides("rank") => HighestOf(ranked')
     /\ Decides("r_rank") => partial \/ HighestOf(ranked')]_vars

-----------------------------------------------------------------------------
(* What an operator sees to, and the inductive invariant behind it all: why *)
(* a decision that was right when the facts were read is right when it is   *)
(* carried out.                                                             *)

\* Nodes are not replaced without the option for unsafe nodes, and the
\* recovery playbook is run on a quiet site whose nodes are all reached.
CarefulSite(s) ==
  /\ s.autoRecover \/ s.maxReplaced = 0
  /\ s.recovery => ~s.autoRecover /\ s.calm /\ s.reaches \subseteq {s.hosts}

Careful(sites) == \A i \in DOMAIN sites : CarefulSite(sites[i])

\* All members of the last view of n know it as theirs: that component runs,
\* or it may re-form.
Whole(n) == n \in view[n] /\ \A m \in view[n] : view[m] = view[n]

\* The members of a component that runs all run, and agree who they are.
ComponentsRun == \A n \in Primaries : Whole(n) /\ view[n] \subseteq Primaries

\* Whoever has been in a component has a position since.
MembersHavePosition == \A n \in Nodes : view[n] # {} => HasPosition(n)

\* Nothing happens on nodes that are not database hosts.
OthersUntouched ==
  \A n \in Nodes : /\ view[n] \subseteq Hosts
                   /\ n \notin Hosts => /\ server[n] = "stopped" /\ view[n] = {}
                                        /\ safe[n] = "missing"

\* There is one history: every node has a part of it from its beginning, and
\* one node, or a running component, has it all.
OneHistory ==
  /\ \E c \in 0..MaxWrites : /\ committed = 1..c
                             /\ \A n \in Nodes : \E k \in 0..c : data[n] = 1..k
  /\ \A n \in Primaries : data[n] = committed
  /\ committed # {} => \E n \in Hosts : HasPosition(n) /\ data[n] = committed

\* The configured host takes part in the first cluster.
FirstIsConfigured ==
  safe[Configured] = "missing" =>
    /\ committed = {} /\ Primaries = {}
    /\ \A n \in Nodes : safe[n] = "missing" /\ view[n] = {}

\* One component at most runs or may re-form, and it has the whole history;
\* a node that is marked safe has it too, and then there is no component.
OneLineage ==
  /\ \A m, n \in Nodes : Whole(m) /\ Whole(n) => view[m] = view[n]
  /\ \A n \in Nodes : Whole(n) => data[n] = committed
  /\ \A n \in Nodes : safe[n] = "1" =>
       /\ data[n] = committed
       /\ \A m \in Nodes : ~Whole(m) /\ (safe[m] = "1" => m = n)

\* A site run has chosen a host that is marked safe or is the first one ever.
SiteFacts ==
  /\ step \notin {"stop", "rank"}
  /\ step \notin RecoverSteps => ranked = {}
  /\ step \in {"quiet", "flag", "verify", "start"} =>
       host = Configured \/ safe[host] # "missing"
  /\ step \in {"record", "settle", "again"} => safe[host] # "missing"

\* The recovery playbook has stopped every host, the one that it marks has the
\* whole history, and what joins does so while nothing else runs.
StoppedSteps == {"r_rank", "r_unflag", "r_flag", "r_start"}
SelectedSteps == {"r_unflag", "r_flag", "r_start"}
RecoverFacts ==
  /\ step \in RecoverSteps => Recovery /\ targets = Hosts
  /\ step \in RecoverSteps \ {"r_join"} => Primaries = {}
  /\ step \in StoppedSteps => \A n \in Nodes : server[n] = "stopped"
  /\ step \in {"r_stop", "r_rank"} => marked = {n \in Hosts : safe[n] = "1"}
  /\ step \in SelectedSteps =>
       /\ HasPosition(host) /\ data[host] = committed
       /\ \A n \in Nodes : safe[n] = "1" => n = host
  /\ step = "r_start" => safe[host] = "1"
  /\ step = "r_join" =>
       /\ StartJoiners
       /\ host \in Primaries /\ \A n \in Primaries : view[n] = view[host]
       /\ \A n \in Nodes : safe[n] # "1"

\* The tasks work on database hosts; those on the bootstrap host have one.
BootstrapSteps == {"quiet", "flag", "verify", "start", "record", "settle",
                   "again", "r_unflag", "r_flag", "r_start", "r_join"}
HostsOnly ==
  /\ site \in DOMAIN Sites
  /\ me \in Hosts /\ targets \subseteq Hosts /\ todo \subseteq Hosts
  /\ step \in BootstrapSteps => host \in Hosts

CarefulInv ==
  /\ ComponentsRun /\ MembersHavePosition /\ OthersUntouched
  /\ OneHistory /\ FirstIsConfigured
  /\ step \notin MarkedSteps => OneLineage
  /\ SiteFacts /\ RecoverFacts

IInv == TypeOK /\ HostsOnly /\ (Ordinary => CarefulInv)

=============================================================================
