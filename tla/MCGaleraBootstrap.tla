-------------------------- MODULE MCGaleraBootstrap --------------------------
(* Sites for the bootstrap decisions.                                      *)
EXTENDS GaleraBootstrap

\* Three nodes; each task reaches some of them; nobody runs galera-recover.yml.
Cautious ==
  [hosts |-> Nodes, completed |-> FALSE, autoRecover |-> FALSE,
   tieBreaker |-> "manual", forceKill |-> TRUE, readsFail |-> FALSE,
   recovery |-> FALSE, calm |-> FALSE, startJoiners |-> TRUE,
   reaches |-> {R \in SUBSET Nodes : Configured \in R \/ R = Nodes \ {Configured}},
   maxReplaced |-> 0, maxWrites |-> 1]

\* Three nodes of a cluster in service that are all reached; an operator runs
\* galera-recover.yml, whose galera_recovery may fail.
Recovered ==
  [Cautious EXCEPT !.completed = TRUE, !.recovery = TRUE, !.calm = TRUE,
                   !.reaches = {Nodes}, !.forceKill = FALSE, !.readsFail = TRUE]

\* The same with two nodes, and the other one is left stopped.
Single ==
  [Recovered EXCEPT !.completed = FALSE, !.hosts = {1, 2}, !.reaches = {{1, 2}},
                    !.startJoiners = FALSE]

\* Two nodes of a site that has opted into the recovery of unsafe nodes; one
\* of them is replaced, and positions may be missing.
Unsafe ==
  [Cautious EXCEPT !.hosts = {1, 2}, !.autoRecover = TRUE,
                   !.tieBreaker = "configured_bootstrap",
                   !.reaches = {{1, 2}, {1}, {2}}, !.maxReplaced = 1, !.readsFail = TRUE]

\* A node is replaced at any time of a site without that option.
Replaced == [Cautious EXCEPT !.maxReplaced = 1]

AllSites == [cautious |-> Cautious, recovered |-> Recovered,
             single |-> Single, unsafe |-> Unsafe]
OnlyReplaced == [replaced |-> Replaced]

\* The theorems suppose careful sites; these are, the replaced one is not.
ASSUME SitesAreCareful == Careful(AllSites) /\ ~Careful(OnlyReplaced)

=============================================================================
