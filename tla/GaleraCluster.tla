---------------------------- MODULE GaleraCluster ----------------------------
(***************************************************************************)
(* The MariaDB Galera cluster as the playbooks meet it: what each node     *)
(* holds on disk and whether its server belongs to a primary component.    *)
(* Galera itself is not part of the repository; these are the rules of it  *)
(* that the galera and galera_recover roles rely on: primary components    *)
(* need a majority of their last view unless members leave cleanly, the    *)
(* last member to leave cleanly is marked safe_to_bootstrap, a joiner      *)
(* takes over the data of the component, and a component whose members     *)
(* all come back re-forms from its saved view.                             *)
(***************************************************************************)
EXTENDS FiniteSets, Naturals

CONSTANTS
  Nodes,      \* the database nodes, numbered in inventory order
  MaxWrites   \* bound on the transactions committed

ASSUME ClusterConstantsOK ==
  /\ Nodes \subseteq Nat /\ Nodes # {} /\ IsFiniteSet(Nodes)
  /\ MaxWrites \in Nat

VARIABLES
  server,     \* "stopped", "waiting" (no component), "primary"
  view,       \* the last primary view a node knows ({}: no gvwstate.dat)
  data,       \* the transactions in the datadir
  safe,       \* safe_to_bootstrap in grastate.dat, or "missing"
  schema,     \* nodes whose datadir holds the LibreNMS database
  committed   \* history: transactions a client was told are committed

cluster == <<server, view, data, safe, schema, committed>>

ClusterTypeOK ==
  /\ server \in [Nodes -> {"stopped", "waiting", "primary"}]
  /\ view \in [Nodes -> SUBSET Nodes]
  /\ data \in [Nodes -> SUBSET (1..MaxWrites)]
  /\ safe \in [Nodes -> {"missing", "0", "1"}]
  /\ schema \in SUBSET Nodes
  /\ committed \in SUBSET (1..MaxWrites)

\* Freshly installed nodes: servers of the package's default configuration.
FreshCluster(hosts) ==
  /\ server = [n \in Nodes |-> IF n \in hosts THEN "waiting" ELSE "stopped"]
  /\ view = [n \in Nodes |-> {}]
  /\ safe = [n \in Nodes |-> "missing"]
  /\ schema = {}

\* A cluster in service.
RunningCluster(hosts) ==
  /\ server = [n \in Nodes |-> IF n \in hosts THEN "primary" ELSE "stopped"]
  /\ view = [n \in Nodes |-> IF n \in hosts THEN hosts ELSE {}]
  /\ safe = [n \in Nodes |-> IF n \in hosts THEN "0" ELSE "missing"]
  /\ schema = hosts

ClusterInit(hosts) ==
  /\ FreshCluster(hosts) \/ RunningCluster(hosts)
  /\ data = [n \in Nodes |-> {}] /\ committed = {}

-----------------------------------------------------------------------------

Primaries == {n \in Nodes : server[n] = "primary"}

\* The transactions are numbered along one history, so the seqno counts them.
Seqno(n) == Cardinality(data[n])

\* galera_recovery reports a position for a datadir that belonged to a cluster.
HasPosition(n) == safe[n] # "missing"

\* n leaves its view cleanly: the rest goes on, however few they are.
Leave(n) ==
  LET rest == view[n] \ {n} IN
  /\ server[n] # "stopped"
  /\ server' = [server EXCEPT ![n] = "stopped"]
  /\ IF server[n] = "primary"
       THEN /\ view' = [m \in Nodes |-> IF m = n THEN {}
                                        ELSE IF m \in rest THEN rest
                                        ELSE view[m]]
            /\ safe' = [safe EXCEPT ![n] = IF rest = {} THEN "1" ELSE "0"]
       ELSE view' = [view EXCEPT ![n] = {}] /\ UNCHANGED safe
  /\ UNCHANGED <<data, schema, committed>>

\* n is lost to the others without a word, because it crashed ("stopped") or
\* because the network cut it off ("waiting"): the rest needs a majority.
Lose(n, fate) ==
  LET rest == view[n] \ {n}
      goesOn == 2 * Cardinality(rest) > Cardinality(view[n])
  IN
  /\ server[n] = "primary"
  /\ server' = [m \in Nodes |-> IF m = n THEN fate
                                ELSE IF m \in rest /\ ~goesOn THEN "waiting"
                                ELSE server[m]]
  /\ view' = [m \in Nodes |-> IF m \in rest /\ goesOn THEN rest ELSE view[m]]
  /\ UNCHANGED <<data, safe, schema, committed>>

\* A server that is in no component crashes.
CrashWaiting(n) ==
  /\ server[n] = "waiting"
  /\ server' = [server EXCEPT ![n] = "stopped"]
  /\ UNCHANGED <<view, data, safe, schema, committed>>

\* systemd (at boot), the startup repair or an operator starts the server.
Start(n) ==
  /\ server[n] = "stopped"
  /\ server' = [server EXCEPT ![n] = "waiting"]
  /\ UNCHANGED <<view, data, safe, schema, committed>>

\* A waiting server finds the component of p and takes over its data.
Join(n, p) ==
  /\ server[n] = "waiting" /\ server[p] = "primary"
  /\ server' = [server EXCEPT ![n] = "primary"]
  /\ view' = [m \in Nodes |-> IF m \in view[p] \cup {n} THEN view[p] \cup {n}
                              ELSE view[m]]
  /\ data' = [data EXCEPT ![n] = data[p]]
  /\ safe' = [safe EXCEPT ![n] = "0"]
  /\ schema' = IF p \in schema THEN schema \cup {n} ELSE schema \ {n}
  /\ UNCHANGED committed

\* pc.recovery: all members of a lost component are back, with d the most
\* advanced of them.
Reform(d) ==
  LET S == view[d] IN
  /\ d \in S
  /\ \A n \in S : /\ server[n] = "waiting" /\ view[n] = S
                  /\ data[n] \subseteq data[d]
  /\ server' = [n \in Nodes |-> IF n \in S THEN "primary" ELSE server[n]]
  /\ data' = [n \in Nodes |-> IF n \in S THEN data[d] ELSE data[n]]
  /\ UNCHANGED <<view, safe, schema, committed>>

\* systemctl start with --wsrep-new-cluster: Galera refuses a node that is
\* marked unsafe, and systemd starts nothing that runs already.
NewCluster(n) ==
  /\ server[n] = "stopped" /\ safe[n] # "0"
  /\ server' = [server EXCEPT ![n] = "primary"]
  /\ view' = [view EXCEPT ![n] = {n}]
  /\ safe' = [safe EXCEPT ![n] = "0"]
  /\ UNCHANGED <<data, schema, committed>>

\* A transaction commits on all members of p's component.
Write(p) ==
  LET w == Cardinality(committed) + 1 IN
  /\ server[p] = "primary" /\ p \in schema /\ w <= MaxWrites
  /\ data' = [n \in Nodes |-> IF n \in view[p] THEN data[n] \cup {w} ELSE data[n]]
  /\ committed' = committed \cup {w}
  /\ UNCHANGED <<server, view, safe, schema>>

\* The node is replaced by a freshly installed one.
Replace(n) ==
  /\ server[n] = "stopped"
  /\ server' = [server EXCEPT ![n] = "waiting"]
  /\ view' = [view EXCEPT ![n] = {}]
  /\ data' = [data EXCEPT ![n] = {}]
  /\ safe' = [safe EXCEPT ![n] = "missing"]
  /\ schema' = schema \ {n}
  /\ UNCHANGED committed

\* What goes on in a cluster by itself,
NodeStep(n) == Write(n) \/ \E p \in Nodes : Join(n, p)

\* and what fails.
NodeFails(n) ==
  \/ \E fate \in {"stopped", "waiting"} : Lose(n, fate)
  \/ CrashWaiting(n)

=============================================================================
