------------------------ MODULE GaleraBootstrapProofs ------------------------
(* The playbooks start no second component and lose no transaction, however *)
(* many nodes there are and wherever a play and the cluster are interleaved. *)
EXTENDS GaleraBootstrap, FiniteSetTheorems, WellFoundedInduction, TLAPS

\* A nonempty set of nodes has a first one.
LEMMA FirstIsMember ==
  ASSUME NEW S \in SUBSET Nodes, S # {}
  PROVE  FirstOf(S) \in S
<1> DEFINE Upto(x) == {y \in S : y <= x}
           Family  == {Upto(x) : x \in S}
<1>1. IsFiniteSet(S) /\ S \subseteq Nat
  BY FS_Subset, ClusterConstantsOK
<1>2. \A x \in S : IsFiniteSet(Upto(x))
  BY <1>1, FS_Subset
<1>3. Family \subseteq FiniteSubsetsOf(S) /\ Family # {}
  BY <1>2 DEF FiniteSubsetsOf
<1>4. PICK U \in Family : \A V \in Family : ~(<<V, U>> \in StrictSubsetOrdering(S))
  BY <1>3, FS_StrictSubsetOrderingWellFounded, WFMin
<1>5. PICK x \in S : U = Upto(x)
  BY <1>4
<1>6. ASSUME NEW y \in S, y < x PROVE FALSE
  <2>1. Upto(y) \in Family
    OBVIOUS
  <2>2. Upto(y) \subseteq Upto(x)
    <3>1. ASSUME NEW z \in S, z <= y PROVE z <= x
      <4>1. z \in Nat /\ y \in Nat /\ x \in Nat
        BY <1>1
      <4>2. QED
        BY <4>1, <1>6, <3>1
    <3>2. QED
      BY <3>1
  <2>3. x \in Upto(x) /\ x \notin Upto(y)
    <3>1. x \in Nat /\ y \in Nat
      BY <1>1
    <3>2. QED
      BY <3>1, <1>6
  <2>4. <<Upto(y), Upto(x)>> \in StrictSubsetOrdering(S)
    BY <2>2, <2>3 DEF StrictSubsetOrdering
  <2>5. QED
    BY <1>4, <1>5, <2>1, <2>4
<1>7. \A y \in S : x <= y
  <2>1. x \in Nat /\ \A y \in S : y \in Nat
    BY <1>1
  <2>2. QED
    BY <2>1, <1>6
<1>8. QED
  BY <1>7 DEF FirstOf

-----------------------------------------------------------------------------
(* What the operations of the cluster preserve, whoever carries them out.   *)

Basics == /\ site \in DOMAIN Sites
          /\ ComponentsRun /\ MembersHavePosition /\ OthersUntouched
          /\ OneHistory /\ FirstIsConfigured

LEMMA SiteType ==
  ASSUME site \in DOMAIN Sites
  PROVE  /\ Hosts \subseteq Nodes /\ Configured \in Hosts
         /\ Reaches \subseteq SUBSET Hosts
<1>1. Sites[site] \in {Sites[i] : i \in DOMAIN Sites}
  OBVIOUS
<1>2. QED
  BY <1>1, BootstrapConstantsOK DEF Hosts, Reaches

\* While no data change and no server gets into a component, the history stays.
LEMMA HistoryKept ==
  ASSUME site \in DOMAIN Sites, OneHistory, UNCHANGED <<site, data, committed>>,
         Primaries' \subseteq Primaries,
         \A n \in Nodes : HasPosition(n) => HasPosition(n)'
  PROVE  OneHistory'
<1>1. OneHistory!1' /\ OneHistory!2'
  BY DEF OneHistory
<1>2. OneHistory!3'
  BY SiteType DEF OneHistory, Hosts
<1>3. QED
  BY <1>1, <1>2 DEF OneHistory

\* A server that starts or stops outside a component changes no component, and
\* neither does a saved view that is dropped with it.
LEMMA OutsideKeeps ==
  ASSUME ClusterTypeOK, Basics, UNCHANGED <<site, data, safe, committed>>,
         NEW n \in Hosts, server[n] # "primary",
         NEW state \in {"waiting", "stopped"},
         server' = [server EXCEPT ![n] = state],
         view' = view \/ view' = [view EXCEPT ![n] = {}]
  PROVE  Basics' /\ (OneLineage => OneLineage') /\ Primaries' = Primaries
<1> USE DEF ClusterTypeOK
<1>1. n \in Nodes
  BY SiteType DEF Basics
<1>2. Primaries' = Primaries /\ n \notin Primaries
  BY <1>1 DEF Primaries
<1>3. \A m \in Nodes : Whole(m)' => Whole(m) /\ view'[m] = view[m]
  BY <1>1 DEF Whole
<1>4. ComponentsRun'
  BY <1>1, <1>2 DEF Basics, ComponentsRun, Whole, Primaries
<1>5. MembersHavePosition'
  BY DEF Basics, MembersHavePosition, HasPosition
<1>6. OthersUntouched'
  BY DEF Basics, OthersUntouched, Hosts
<1>7. OneHistory'
  BY <1>2, HistoryKept DEF Basics, HasPosition
<1>8. FirstIsConfigured'
  BY <1>2 DEF Basics, FirstIsConfigured
<1>9. OneLineage => OneLineage'
  BY <1>3 DEF OneLineage
<1>10. QED
  BY <1>2, <1>4, <1>5, <1>6, <1>7, <1>8, <1>9 DEF Basics

\* The same for a flag that is written into grastate.dat where there is one; an
\* old flag may also be taken back.
LEMMA FlagKeeps ==
  ASSUME ClusterTypeOK, ClusterTypeOK', Basics,
         UNCHANGED <<site, server, view, data, committed>>,
         \A n \in Nodes : HasPosition(n)' = HasPosition(n)
  PROVE  /\ Basics' /\ Primaries' = Primaries
         /\ OneLineage /\ (\A n \in Nodes : safe'[n] = "1" => safe[n] = "1") => OneLineage'
<1> USE DEF ClusterTypeOK
<1>1. Primaries' = Primaries
  BY DEF Primaries
<1>2. ComponentsRun' /\ MembersHavePosition'
  BY <1>1 DEF Basics, ComponentsRun, MembersHavePosition, Whole
<1>3. OthersUntouched'
  BY DEF Basics, OthersUntouched, Hosts, HasPosition
<1>4. OneHistory'
  BY <1>1, HistoryKept DEF Basics
<1>5. FirstIsConfigured'
  BY <1>1, BootstrapConstantsOK DEF Basics, FirstIsConfigured, HasPosition
<1>6. OneLineage /\ (\A n \in Nodes : safe'[n] = "1" => safe[n] = "1") => OneLineage'
  BY DEF OneLineage, Whole
<1>7. QED
  BY <1>1, <1>2, <1>3, <1>4, <1>5, <1>6 DEF Basics

\* A member that leaves takes itself out of every view that is in force.
LEMMA LeaveKeeps ==
  ASSUME ClusterTypeOK, Basics, OneLineage, UNCHANGED site,
         NEW n \in Nodes, Leave(n)
  PROVE  Basics' /\ OneLineage'
<1> DEFINE rest == view[n] \ {n}
<1> USE DEF ClusterTypeOK
<1>1. CASE server[n] # "primary"
  <2>1. n \in Hosts
    BY DEF Leave, Basics, OthersUntouched
  <2>2. QED
    BY <1>1, <2>1, OutsideKeeps DEF Leave
<1>2. CASE server[n] = "primary"
  <2>1. /\ view' = [m \in Nodes |-> IF m = n THEN {} ELSE IF m \in rest THEN rest ELSE view[m]]
        /\ safe' = [safe EXCEPT ![n] = IF rest = {} THEN "1" ELSE "0"]
        /\ server' = [server EXCEPT ![n] = "stopped"]
        /\ UNCHANGED <<data, schema, committed>>
    BY <1>2 DEF Leave
  <2>2. /\ Whole(n) /\ view[n] \subseteq Primaries
        /\ Primaries' = Primaries \ {n}
        /\ data[n] = committed
    BY <1>2, <2>1 DEF Basics, ComponentsRun, Primaries, OneHistory
  <2>3. \A m \in Nodes : Whole(m) => view[m] = view[n]
    BY <2>2 DEF OneLineage
  <2>4. \A m \in Nodes : Whole(m)' => m \in rest
    <3> SUFFICES ASSUME NEW m \in Nodes, Whole(m)', m \notin rest PROVE FALSE
      OBVIOUS
    <3>1. m # n
      BY <2>1 DEF Whole
    <3>2. view'[m] = view[m] /\ m \in view[m] /\ view[m] \subseteq Nodes
      BY <2>1, <3>1 DEF Whole
    <3>3. \A k \in view[m] : k # n /\ k \notin rest
      BY <2>1, <3>2 DEF Whole
    <3>4. Whole(m)
      BY <2>1, <3>2, <3>3 DEF Whole
    <3>5. QED
      BY <2>3, <3>1, <3>2, <3>4
  <2>5. \A m \in rest : Whole(m) /\ view'[m] = rest /\ m \in Nodes
    BY <2>1, <2>2 DEF Whole
  <2>6. ComponentsRun'
    <3> SUFFICES ASSUME NEW m \in Primaries' PROVE Whole(m)' /\ view'[m] \subseteq Primaries'
      BY DEF ComponentsRun
    <3>1. m \in Nodes /\ m # n /\ Whole(m)
      BY <2>2 DEF Basics, ComponentsRun, Primaries
    <3>2. m \in rest
      BY <2>3, <3>1 DEF Whole
    <3>3. QED
      BY <2>1, <2>2, <2>5, <3>2 DEF Whole
  <2>7. OthersUntouched'
    BY <1>2, <2>1, <2>2 DEF Basics, OthersUntouched, Hosts
  <2>8. \A m \in Nodes : HasPosition(m) => HasPosition(m)'
    BY <2>1 DEF HasPosition
  <2>9. OneHistory'
    BY <2>1, <2>2, <2>8, HistoryKept DEF Basics
  <2>10. FirstIsConfigured'
    BY <1>2, <2>1, BootstrapConstantsOK DEF Basics, FirstIsConfigured, Primaries
  <2>11. \A m \in Nodes : Whole(m)' => data'[m] = committed'
    BY <2>1, <2>4, <2>5 DEF OneLineage
  <2>12. \A m \in Nodes : safe'[m] = "1" => m = n /\ rest = {}
    BY <2>1, <2>2 DEF OneLineage
  <2>13. OneLineage'
    BY <2>1, <2>2, <2>4, <2>5, <2>11, <2>12 DEF OneLineage
  <2>14. MembersHavePosition'
    BY <2>1, <2>2 DEF Basics, MembersHavePosition, HasPosition, Whole
  <2>15. QED
    BY <2>6, <2>7, <2>9, <2>10, <2>13, <2>14 DEF Basics
<1>3. QED
  BY <1>1, <1>2

\* A member that is lost leaves its component to a majority, or nobody runs.
LEMMA LoseKeeps ==
  ASSUME ClusterTypeOK, Basics, OneLineage, UNCHANGED site,
         NEW n \in Nodes, NEW fate \in {"stopped", "waiting"}, Lose(n, fate)
  PROVE  Basics' /\ OneLineage'
<1> DEFINE rest == view[n] \ {n}
           goesOn == 2 * Cardinality(rest) > Cardinality(view[n])
<1> USE DEF ClusterTypeOK
<1>1. /\ server[n] = "primary" /\ UNCHANGED <<data, safe, schema, committed>>
      /\ server' = [m \in Nodes |-> IF m = n THEN fate
                                    ELSE IF m \in rest /\ ~goesOn THEN "waiting"
                                    ELSE server[m]]
      /\ view' = [m \in Nodes |-> IF m \in rest /\ goesOn THEN rest ELSE view[m]]
  BY DEF Lose
<1>2. /\ Whole(n) /\ view[n] \subseteq Primaries /\ data[n] = committed
      /\ Primaries' \subseteq Primaries \ {n}
  BY <1>1 DEF Basics, ComponentsRun, Primaries, OneHistory
<1>3. \A m \in Nodes : Whole(m) => view[m] = view[n] /\ m \in view[n]
  BY <1>2 DEF OneLineage, Whole
<1>4. OneHistory'
  BY <1>1, <1>2, HistoryKept DEF Basics, HasPosition
<1>5. FirstIsConfigured'
  BY <1>1, <1>2 DEF Basics, FirstIsConfigured, Primaries
<1>6. \A m \in Nodes : safe'[m] # "1"
  BY <1>1, <1>2 DEF OneLineage
<1>7. n \in Hosts /\ view[n] \subseteq Hosts
  BY <1>1 DEF Basics, OthersUntouched
<1>8. OthersUntouched'
  BY <1>1, <1>7 DEF Basics, OthersUntouched, Hosts
<1>9. MembersHavePosition'
  BY <1>1, <1>2 DEF Basics, MembersHavePosition, HasPosition, Whole
<1>10. CASE ~goesOn \/ rest = {}
  <2>1. view' = view
    BY <1>1, <1>10
  <2>2. \A m \in Primaries : m \in view[n]
    BY <1>3 DEF Basics, ComponentsRun, Primaries
  <2>3. Primaries' = {}
    BY <1>1, <1>2, <1>10, <2>2 DEF Primaries
  <2>4. ComponentsRun'
    BY <2>3 DEF ComponentsRun
  <2>5. UNCHANGED <<view, data, safe, committed>>
    BY <1>1, <2>1
  <2>6. OneLineage'
    BY <2>5 DEF OneLineage, Whole
  <2>7. QED
    BY <1>1, <1>4, <1>5, <1>8, <1>9, <2>4, <2>6 DEF Basics
<1>11. CASE goesOn /\ rest # {}
  <2>1. /\ view' = [m \in Nodes |-> IF m \in rest THEN rest ELSE view[m]]
        /\ server' = [server EXCEPT ![n] = fate]
        /\ Primaries' = Primaries \ {n}
    BY <1>1, <1>11 DEF Primaries
  <2>2. \A m \in rest : Whole(m) /\ view'[m] = rest /\ m \in Nodes
    BY <1>2, <2>1 DEF Whole
  <2>3. \A m \in Nodes : Whole(m)' => m \in rest
    <3> SUFFICES ASSUME NEW m \in Nodes, Whole(m)', m \notin rest PROVE FALSE
      OBVIOUS
    <3>1. view'[m] = view[m] /\ m \in view[m] /\ view[m] \subseteq Nodes
      BY <2>1 DEF Whole
    <3>2. \A k \in view[m] : k \notin rest
      BY <2>1, <3>1 DEF Whole
    <3>3. Whole(m)
      BY <2>1, <3>1, <3>2 DEF Whole
    <3>4. view[m] = view[n]
      BY <1>3, <3>3
    <3>5. QED
      BY <1>11, <3>2, <3>4
  <2>4. ComponentsRun'
    <3> SUFFICES ASSUME NEW m \in Primaries' PROVE Whole(m)' /\ view'[m] \subseteq Primaries'
      BY DEF ComponentsRun
    <3>1. m \in Nodes /\ m # n /\ Whole(m)
      BY <2>1 DEF Basics, ComponentsRun, Primaries
    <3>2. m \in rest
      BY <1>3, <3>1
    <3>3. QED
      BY <1>2, <2>1, <2>2, <3>2 DEF Whole
  <2>5. \A m \in Nodes : Whole(m)' => data'[m] = committed'
    BY <1>1, <2>2, <2>3 DEF OneLineage
  <2>6. OneLineage'
    BY <1>6, <2>2, <2>3, <2>5 DEF OneLineage
  <2>7. QED
    BY <1>1, <1>4, <1>5, <1>8, <1>9, <2>4, <2>6 DEF Basics
<1>12. QED
  BY <1>10, <1>11

\* However a task or an accident stops a server, what is left is one component
\* or none; where none runs, nobody is marked.
LEMMA StopKeeps ==
  ASSUME ClusterTypeOK, Basics, OneLineage, UNCHANGED site,
         NEW n \in Hosts, NEW R, StopServer(n, R)
  PROVE  /\ Basics' /\ OneLineage'
         /\ \A m \in Nodes : HasPosition(m) => HasPosition(m)'
         /\ Primaries = {} => Primaries' = {} /\ UNCHANGED safe
<1> USE DEF ClusterTypeOK
<1>1. n \in Nodes
  BY SiteType DEF Basics
<1>2. CASE Leave(n)
  <2>1. Basics' /\ OneLineage'
    BY <1>1, <1>2, LeaveKeeps
  <2>2. \A m \in Nodes : HasPosition(m) => HasPosition(m)'
    BY <1>1, <1>2 DEF Leave, HasPosition
  <2>3. Primaries = {} => Primaries' = {} /\ UNCHANGED safe
    BY <1>1, <1>2 DEF Leave, Primaries
  <2>4. QED
    BY <2>1, <2>2, <2>3
<1>3. CASE Lose(n, "stopped")
  <2>1. Basics' /\ OneLineage'
    BY <1>1, <1>3, LoseKeeps
  <2>2. UNCHANGED safe /\ n \in Primaries
    BY <1>1, <1>3 DEF Lose, Primaries
  <2>3. QED
    BY <2>1, <2>2 DEF HasPosition
<1>4. CASE CrashWaiting(n)
  <2>1. Basics' /\ OneLineage' /\ Primaries' = Primaries /\ UNCHANGED safe
    BY <1>4, OutsideKeeps DEF CrashWaiting
  <2>2. QED
    BY <2>1 DEF HasPosition
<1>5. CASE UNCHANGED cluster
  <2>1. UNCHANGED <<server, view, data, safe, committed>> /\ ClusterTypeOK'
    BY <1>5 DEF cluster
  <2>2. \A m \in Nodes : HasPosition(m)' = HasPosition(m)
    BY <2>1 DEF HasPosition
  <2>3. QED
    BY <2>1, <2>2, FlagKeeps
<1>6. QED
  BY <1>2, <1>3, <1>4, <1>5 DEF StopServer

-----------------------------------------------------------------------------
(* What happens inside the one component.                                   *)

OneView(V) == Primaries = V /\ \A m \in V : view[m] = V

\* The members of a running component that all have one view are that view.
LEMMA OneViewOf ==
  ASSUME ClusterTypeOK, Basics, NEW p \in Primaries,
         \A m \in Primaries : view[m] = view[p]
  PROVE  /\ OneView(view[p]) /\ p \in view[p] /\ view[p] \in SUBSET Nodes
         /\ safe[Configured] # "missing"
<1>1. \A m \in Primaries : Whole(m) /\ m \in Nodes
  BY DEF Basics, ComponentsRun, Primaries
<1>2. view[p] \subseteq Primaries /\ \A m \in Primaries : m \in view[p]
  BY <1>1 DEF Basics, ComponentsRun, Whole
<1>3. safe[Configured] # "missing"
  BY DEF Basics, FirstIsConfigured
<1>4. QED
  BY <1>1, <1>2, <1>3 DEF OneView, Whole, ClusterTypeOK

\* When there is one lineage, all members that run have one view.
LEMMA LineageHasOneView ==
  ASSUME Basics, OneLineage, NEW p \in Primaries
  PROVE  \A m \in Primaries : view[m] = view[p]
BY DEF Basics, ComponentsRun, OneLineage, Primaries

\* A joiner becomes a member like the others.
LEMMA JoinKeeps ==
  ASSUME ClusterTypeOK, Basics, UNCHANGED site,
         NEW n \in Hosts, NEW p \in Nodes, Join(n, p),
         \A m \in Primaries : view[m] = view[p]
  PROVE  /\ Basics' /\ (OneLineage => OneLineage')
         /\ OneView(view[p] \cup {n})'
         /\ \A m \in Nodes : HasPosition(m) => HasPosition(m)'
<1> DEFINE V == view[p] \cup {n}
<1> USE DEF ClusterTypeOK
<1>1. n \in Nodes /\ p \in Primaries /\ n \notin Primaries
  BY SiteType DEF Basics, Join, Primaries
<1>2. /\ Primaries = view[p] /\ p \in view[p] /\ view[p] \subseteq Nodes
      /\ \A m \in view[p] : view[m] = view[p]
      /\ safe[Configured] # "missing"
  BY <1>1, OneViewOf DEF OneView
<1>3. /\ server' = [server EXCEPT ![n] = "primary"]
      /\ view' = [m \in Nodes |-> IF m \in V THEN V ELSE view[m]]
      /\ data' = [data EXCEPT ![n] = data[p]]
      /\ safe' = [safe EXCEPT ![n] = "0"]
      /\ UNCHANGED committed
  BY DEF Join
<1>4. Primaries' = V
  BY <1>1, <1>2, <1>3 DEF Primaries
<1>5. OneView(V)'
  BY <1>1, <1>2, <1>3, <1>4 DEF OneView
<1>6. ComponentsRun'
  BY <1>1, <1>2, <1>3, <1>4 DEF ComponentsRun, Whole
<1>7. \A m \in Nodes : HasPosition(m) => HasPosition(m)'
  BY <1>3 DEF HasPosition
<1>8. MembersHavePosition'
  BY <1>1, <1>2, <1>3 DEF Basics, MembersHavePosition, HasPosition
<1>9. OthersUntouched'
  <2>1. V \subseteq Hosts
    BY <1>1 DEF Basics, OthersUntouched
  <2>2. QED
    BY <1>3, <2>1 DEF Basics, OthersUntouched, Hosts
<1>10. data[p] = committed /\ \A m \in V : data'[m] = committed
  BY <1>1, <1>2, <1>3 DEF Basics, OneHistory
<1>11. OneHistory'
  <2>1. OneHistory!1'
    BY <1>1, <1>3 DEF Basics, OneHistory
  <2>2. OneHistory!2'
    BY <1>3, <1>4, <1>10
  <2>3. OneHistory!3'
    BY <1>3, <1>7, <1>10, SiteType DEF Basics, OneHistory, Hosts
  <2>4. QED
    BY <2>1, <2>2, <2>3 DEF OneHistory
<1>12. FirstIsConfigured'
  BY <1>1, <1>2, <1>3 DEF FirstIsConfigured
<1>13. ASSUME OneLineage PROVE OneLineage'
  <2>1. Whole(p) /\ p \in Nodes
    BY <1>1 DEF Basics, ComponentsRun
  <2>2. \A m \in Nodes : Whole(m)' => m \in V
    <3> SUFFICES ASSUME NEW m \in Nodes, Whole(m)', m \notin V PROVE FALSE
      OBVIOUS
    <3>1. view'[m] = view[m] /\ m \in view[m] /\ view[m] \subseteq Nodes
      BY <1>3 DEF Whole
    <3>2. \A k \in view[m] : k \notin V
      BY <1>3, <3>1 DEF Whole
    <3>3. Whole(m)
      BY <1>3, <3>1, <3>2 DEF Whole
    <3>4. QED
      BY <1>13, <2>1, <3>2, <3>3, <1>2 DEF OneLineage, Whole
  <2>3. \A m \in Nodes : safe'[m] # "1"
    BY <1>1, <1>3, <1>13, <2>1 DEF OneLineage
  <2>4. QED
    BY <1>3, <1>10, <2>2, <2>3 DEF OneLineage
<1>14. QED
  BY <1>3, <1>5, <1>6, <1>7, <1>8, <1>9, <1>11, <1>12, <1>13 DEF Basics, OneView

\* A transaction reaches all members of the one component.
LEMMA WriteKeeps ==
  ASSUME ClusterTypeOK, Basics, UNCHANGED site,
         NEW p \in Nodes, Write(p),
         \A m \in Primaries : view[m] = view[p]
  PROVE  /\ Basics' /\ (OneLineage => OneLineage')
         /\ UNCHANGED <<server, view, safe>>
<1> DEFINE w == Cardinality(committed) + 1
<1> USE DEF ClusterTypeOK
<1>1. p \in Primaries
  BY DEF Write, Primaries
<1>2. /\ Primaries = view[p] /\ p \in view[p] /\ view[p] \subseteq Nodes
      /\ safe[Configured] # "missing"
  BY <1>1, OneViewOf DEF OneView
<1>3. /\ data' = [n \in Nodes |-> IF n \in view[p] THEN data[n] \cup {w} ELSE data[n]]
      /\ committed' = committed \cup {w} /\ w <= MaxWrites
      /\ UNCHANGED <<server, view, safe>>
  BY DEF Write
<1>4. UNCHANGED Primaries
  BY <1>3 DEF Primaries
<1>5. ComponentsRun' /\ MembersHavePosition' /\ OthersUntouched'
  BY <1>3, <1>4 DEF Basics, ComponentsRun, MembersHavePosition, OthersUntouched,
     Whole, HasPosition, Hosts
<1>6. PICK c \in 0..MaxWrites :
        committed = 1..c /\ \A n \in Nodes : \E k \in 0..c : data[n] = 1..k
  BY DEF Basics, OneHistory
<1>7. c \in Nat /\ w = c + 1
  <2>1. c \in Nat /\ c \in Int /\ 1 \in Int
    BY <1>6
  <2>2. Cardinality(1..c) = IF 1 > c THEN 0 ELSE c - 1 + 1
    BY <2>1, FS_Interval
  <2>3. Cardinality(1..c) = c
    BY <2>1, <2>2
  <2>4. QED
    BY <1>6, <2>1, <2>3
<1>8. c + 1 \in 0..MaxWrites /\ committed' = 1..(c + 1)
  BY <1>3, <1>6, <1>7, ClusterConstantsOK
<1>9. \A n \in view[p] : data'[n] = committed'
  BY <1>2, <1>3 DEF Basics, OneHistory
<1>10. OneHistory'
  <2>1. \A n \in Nodes : \E k \in 0..(c + 1) : data'[n] = 1..k
    <3> TAKE n \in Nodes
    <3>1. CASE n \in view[p]
      BY <1>7, <1>8, <1>9, <3>1
    <3>2. CASE n \notin view[p]
      BY <1>3, <1>6, <1>7, <3>2
    <3>3. QED
      BY <3>1, <3>2
  <2>2. p \in Hosts /\ HasPosition(p)' /\ UNCHANGED Hosts
    BY <1>1, <1>2, <1>3, SiteType DEF Basics, MembersHavePosition, HasPosition,
       OthersUntouched, Hosts, Primaries
  <2>3. OneHistory!1'
    BY <1>8, <2>1
  <2>4. OneHistory!2'
    BY <1>2, <1>4, <1>9
  <2>5. OneHistory!3'
    BY <1>2, <1>9, <2>2
  <2>6. QED
    BY <2>3, <2>4, <2>5 DEF OneHistory
<1>11. FirstIsConfigured'
  BY <1>2, <1>3 DEF FirstIsConfigured
<1>12. ASSUME OneLineage PROVE OneLineage'
  <2>1. Whole(p) /\ \A m \in Nodes : Whole(m) => m \in view[p]
    BY <1>1, <1>12 DEF Basics, ComponentsRun, OneLineage, Whole
  <2>2. \A m \in Nodes : Whole(m)' = Whole(m)
    BY <1>3 DEF Whole
  <2>3. \A m \in Nodes : safe[m] # "1"
    BY <1>12, <2>1 DEF OneLineage
  <2>4. QED
    BY <1>3, <1>9, <1>12, <2>1, <2>2, <2>3 DEF OneLineage
<1>13. QED
  BY <1>3, <1>5, <1>10, <1>11, <1>12 DEF Basics

\* The lost component that may re-form is the only one, and it loses nothing.
LEMMA ReformKeeps ==
  ASSUME ClusterTypeOK, Basics, OneLineage, UNCHANGED site,
         NEW d \in Nodes, Reform(d)
  PROVE  Basics' /\ OneLineage' /\ UNCHANGED safe
<1> DEFINE S == view[d]
<1> USE DEF ClusterTypeOK
<1>1. /\ d \in S /\ S \subseteq Nodes
      /\ \A n \in S : server[n] = "waiting" /\ view[n] = S
      /\ server' = [n \in Nodes |-> IF n \in S THEN "primary" ELSE server[n]]
      /\ data' = [n \in Nodes |-> IF n \in S THEN data[d] ELSE data[n]]
      /\ UNCHANGED <<view, safe, schema, committed>>
  BY DEF Reform
<1>2. Whole(d)
  BY <1>1 DEF Whole
<1>3. \A m \in Nodes : Whole(m) => m \in S
  BY <1>2 DEF OneLineage, Whole
<1>4. Primaries = {}
  BY <1>1, <1>3 DEF Basics, ComponentsRun, Primaries
<1>5. Primaries' = S
  BY <1>1, <1>4 DEF Primaries
<1>6. data[d] = committed /\ \A n \in S : data'[n] = committed'
  BY <1>1, <1>2 DEF OneLineage
<1>7. ComponentsRun'
  BY <1>1, <1>5 DEF ComponentsRun, Whole
<1>8. MembersHavePosition' /\ \A n \in Nodes : HasPosition(n)' = HasPosition(n)
  BY <1>1 DEF Basics, MembersHavePosition, HasPosition
<1>9. OthersUntouched'
  BY <1>1 DEF Basics, OthersUntouched, Hosts
<1>10. OneHistory'
  <2>1. OneHistory!1'
    BY <1>1, <1>6 DEF Basics, OneHistory
  <2>2. OneHistory!2'
    BY <1>5, <1>6
  <2>3. OneHistory!3'
    BY <1>1, <1>6, <1>8, SiteType DEF Basics, OneHistory, Hosts
  <2>4. QED
    BY <2>1, <2>2, <2>3 DEF OneHistory
<1>11. FirstIsConfigured'
  BY <1>1 DEF Basics, FirstIsConfigured
<1>12. OneLineage'
  <2>1. \A m \in Nodes : Whole(m)' = Whole(m)
    BY <1>1 DEF Whole
  <2>2. \A m \in Nodes : Whole(m) => data'[m] = committed'
    BY <1>3, <1>6
  <2>3. \A m \in Nodes : safe'[m] # "1"
    BY <1>1, <1>2 DEF OneLineage
  <2>4. QED
    BY <1>1, <2>1, <2>2, <2>3 DEF OneLineage
<1>13. QED
  BY <1>1, <1>7, <1>8, <1>9, <1>10, <1>11, <1>12 DEF Basics

\* A new component of a node that has everything, where nothing runs, is the
\* only one; it keeps the one lineage if no other might come back.
LEMMA NewClusterKeeps ==
  ASSUME ClusterTypeOK, Basics, UNCHANGED site,
         NEW n \in Hosts, NewCluster(n), Primaries = {}, data[n] = committed,
         safe[Configured] = "missing" => n = Configured
  PROVE  /\ Basics' /\ OneView({n})' /\ safe'[n] = "0"
         /\ \A m \in Nodes : HasPosition(m) => HasPosition(m)'
         /\ (\A m \in Nodes : ~Whole(m) /\ (safe[m] = "1" => m = n)) => OneLineage'
<1> USE DEF ClusterTypeOK
<1>1. /\ n \in Nodes
      /\ server' = [server EXCEPT ![n] = "primary"]
      /\ view' = [view EXCEPT ![n] = {n}]
      /\ safe' = [safe EXCEPT ![n] = "0"]
      /\ UNCHANGED <<data, schema, committed>>
  BY SiteType DEF Basics, NewCluster
<1>2. Primaries' = {n}
  BY <1>1 DEF Primaries
<1>3. OneView({n})'
  BY <1>1, <1>2 DEF OneView
<1>4. ComponentsRun'
  BY <1>1, <1>2 DEF ComponentsRun, Whole
<1>5. \A m \in Nodes : HasPosition(m) => HasPosition(m)'
  BY <1>1 DEF HasPosition
<1>6. MembersHavePosition'
  BY <1>1 DEF Basics, MembersHavePosition, HasPosition
<1>7. OthersUntouched'
  BY <1>1 DEF Basics, OthersUntouched, Hosts
<1>8. OneHistory'
  <2>1. OneHistory!1'
    BY <1>1 DEF Basics, OneHistory
  <2>2. OneHistory!2'
    BY <1>1, <1>2
  <2>3. OneHistory!3'
    BY <1>1, <1>5, SiteType DEF Basics, OneHistory, Hosts
  <2>4. QED
    BY <2>1, <2>2, <2>3 DEF OneHistory
<1>9. FirstIsConfigured'
  BY <1>1 DEF FirstIsConfigured
<1>10. ASSUME \A m \in Nodes : ~Whole(m) /\ (safe[m] = "1" => m = n)
       PROVE  OneLineage'
  <2>1. \A m \in Nodes : Whole(m)' => m = n
    <3> SUFFICES ASSUME NEW m \in Nodes, Whole(m)', m # n PROVE FALSE
      OBVIOUS
    <3>1. view'[m] = view[m] /\ m \in view[m] /\ view[m] \subseteq Nodes
      BY <1>1 DEF Whole
    <3>2. n \notin view[m]
      BY <1>1, <3>1 DEF Whole
    <3>3. Whole(m)
      BY <1>1, <3>1, <3>2 DEF Whole
    <3>4. QED
      BY <1>10, <3>3
  <2>2. QED
    BY <1>1, <1>10, <2>1 DEF OneLineage
<1>11. QED
  BY <1>1, <1>3, <1>4, <1>5, <1>6, <1>7, <1>8, <1>9, <1>10 DEF Basics

-----------------------------------------------------------------------------
(* The types.                                                               *)

LEMMA DeciderIsHost ==
  ASSUME site \in DOMAIN Sites
  PROVE  Decider \in Hosts
BY SiteType, FirstIsMember DEF Decider

\* What wins a ranking is one of the candidates.
LEMMA UntiedIsMember ==
  ASSUME NEW c \in SUBSET Nodes
  PROVE  Untied(c) \in c \cup {NoHost}
<1>1. Cardinality(c) = 1 => c # {}
  BY FS_EmptySet
<1>2. c # {} => FirstOf(c) \in c
  BY FirstIsMember
<1>3. QED
  BY <1>1, <1>2 DEF Untied

LEMMA SelectedIsMember ==
  ASSUME NEW named, NEW c \in SUBSET Nodes, marked \in SUBSET Nodes,
         Selected(named, c) = named, named # NoHost
  PROVE  \/ marked # {} /\ Cardinality(marked) = 1 /\ named = FirstOf(marked)
         \/ marked = {} /\ named \in Highest(c)
<1>1. Cardinality(marked) = 1 => marked # {}
  BY FS_EmptySet
<1>2. Untied(Highest(c)) \in Highest(c) \cup {NoHost}
  BY UntiedIsMember DEF Highest
<1>3. QED
  BY <1>1, <1>2 DEF Selected

\* Every step of a node keeps the cluster's types.
LEMMA ClusterTypeKept ==
  ASSUME ClusterTypeOK, NEW n \in Nodes,
         \/ Leave(n) \/ CrashWaiting(n) \/ Start(n) \/ Reform(n)
         \/ NewCluster(n) \/ Write(n) \/ Replace(n)
         \/ \E fate \in {"stopped", "waiting"} : Lose(n, fate)
         \/ \E p \in Nodes : Join(n, p)
  PROVE  ClusterTypeOK'
<1> USE DEF ClusterTypeOK
<1>1. CASE Leave(n)
  <2>1. view' \in [Nodes -> SUBSET Nodes] /\ safe' \in [Nodes -> {"missing", "0", "1"}]
    BY <1>1 DEF Leave
  <2>2. QED
    BY <1>1, <2>1 DEF Leave
<1>2. CASE CrashWaiting(n) \/ Start(n)
  BY <1>2 DEF CrashWaiting, Start
<1>3. CASE Reform(n)
  <2>1. /\ server' = [m \in Nodes |-> IF m \in view[n] THEN "primary" ELSE server[m]]
        /\ data' = [m \in Nodes |-> IF m \in view[n] THEN data[n] ELSE data[m]]
        /\ UNCHANGED <<view, safe, schema, committed>>
    BY <1>3 DEF Reform
  <2>2. server' \in [Nodes -> {"stopped", "waiting", "primary"}]
    BY <2>1
  <2>3. data' \in [Nodes -> SUBSET (1..MaxWrites)]
    BY <2>1
  <2>4. QED
    BY <2>1, <2>2, <2>3
<1>4. CASE NewCluster(n) \/ Replace(n)
  <2>1. CASE NewCluster(n)
    BY <2>1 DEF NewCluster
  <2>2. CASE Replace(n)
    BY <2>2 DEF Replace
  <2>3. QED
    BY <1>4, <2>1, <2>2
<1>5. CASE Write(n)
  <2>1. IsFiniteSet(1..MaxWrites)
    BY FS_Interval, ClusterConstantsOK
  <2>2. Cardinality(committed) \in Nat
    BY <2>1, FS_Subset, FS_CardinalityType
  <2>3. Cardinality(committed) + 1 \in 1..MaxWrites
    BY <1>5, <2>2, ClusterConstantsOK DEF Write
  <2>4. QED
    BY <1>5, <2>3 DEF Write
<1>6. CASE \E fate \in {"stopped", "waiting"} : Lose(n, fate)
  <2>1. PICK fate \in {"stopped", "waiting"} : Lose(n, fate)
    BY <1>6
  <2>2. view[n] \ {n} \in SUBSET Nodes
    OBVIOUS
  <2>3. server' \in [Nodes -> {"stopped", "waiting", "primary"}]
    BY <2>1 DEF Lose
  <2>4. view' \in [Nodes -> SUBSET Nodes]
    BY <2>1, <2>2 DEF Lose
  <2>5. QED
    BY <2>1, <2>3, <2>4 DEF Lose
<1>7. CASE \E p \in Nodes : Join(n, p)
  BY <1>7 DEF Join
<1>8. QED
  BY <1>1, <1>2, <1>3, <1>4, <1>5, <1>6, <1>7

LEMMA StopKeepsType ==
  ASSUME ClusterTypeOK, NEW n \in Nodes, NEW R, StopServer(n, R)
  PROVE  ClusterTypeOK'
<1>1. CASE UNCHANGED cluster
  BY <1>1 DEF cluster, ClusterTypeOK
<1>2. CASE ~UNCHANGED cluster
  BY <1>2, ClusterTypeKept DEF StopServer
<1>3. QED
  BY <1>1, <1>2

LEMMA StartKeepsType ==
  ASSUME ClusterTypeOK, host \in Nodes, StartCluster
  PROVE  ClusterTypeOK'
<1>1. CASE UNCHANGED cluster
  BY <1>1 DEF cluster, ClusterTypeOK
<1>2. CASE NewCluster(host)
  BY <1>2, ClusterTypeKept
<1>3. QED
  BY <1>1, <1>2 DEF StartCluster

FactsTypeOK ==
  /\ marker \in SUBSET Nodes
  /\ step \in {"idle"} \cup SiteSteps \cup RecoverSteps
  /\ initial \in BOOLEAN
  /\ marked \in SUBSET Nodes /\ ranked \in SUBSET Nodes
  /\ host \in Nodes \cup {NoHost}
  /\ partial \in BOOLEAN
  /\ replaced \in 0..MaxReplaced

\* What the tasks note down are hosts of the site.
Typed == ClusterTypeOK /\ FactsTypeOK /\ HostsOnly

LEMMA TypedIsTypeOK == Typed <=> TypeOK /\ HostsOnly
<1>1. HostsOnly => me \in Nodes /\ targets \in SUBSET Nodes /\ todo \in SUBSET Nodes
  BY SiteType DEF HostsOnly
<1>2. QED
  BY <1>1 DEF Typed, FactsTypeOK, TypeOK

LEMMA TypedInit == Init => Typed
<1> SUFFICES ASSUME Init PROVE Typed
  OBVIOUS
<1>1. site \in DOMAIN Sites /\ Hosts \subseteq Nodes /\ Configured \in Hosts
  BY SiteType DEF Init
<1>2. ClusterTypeOK
  BY <1>1 DEF Init, ClusterInit, FreshCluster, RunningCluster, ClusterTypeOK
<1>3. MaxReplaced \in Nat
  <2>1. Sites[site] \in {Sites[i] : i \in DOMAIN Sites}
    BY <1>1
  <2>2. QED
    BY <2>1, BootstrapConstantsOK DEF MaxReplaced
<1>4. FactsTypeOK
  <2>1. marker \in SUBSET Nodes
    BY <1>1 DEF Init
  <2>2. replaced \in 0..MaxReplaced
    BY <1>3 DEF Init
  <2>3. QED
    BY <2>1, <2>2 DEF Init, FactsTypeOK
<1>5. QED
  BY <1>1, <1>2, <1>4, DeciderIsHost DEF Init, Typed, HostsOnly, BootstrapSteps

LEMMA QuitTyped ==
  ASSUME Typed, Quit, ClusterTypeOK', marker' \in SUBSET Nodes
  PROVE  Typed'
<1>1. Decider \in Hosts
  BY DeciderIsHost DEF Typed, HostsOnly
<1>2. UNCHANGED <<Hosts, MaxReplaced, Decider>> /\ UNCHANGED <<site, replaced>>
  BY DEF Quit, Hosts, MaxReplaced, Decider
<1>3. FactsTypeOK'
  BY <1>2 DEF Quit, Typed, FactsTypeOK
<1>4. HostsOnly'
  BY <1>1, <1>2 DEF Quit, Typed, HostsOnly, BootstrapSteps
<1>5. QED
  BY <1>3, <1>4 DEF Typed

\* A task that goes on to the next one notes down what it has found out.
LEMMA GotoPartlyTyped ==
  ASSUME Typed, NEW next \in SiteSteps \cup RecoverSteps, NEW missing,
         GotoPartly(next, missing), partial' \in BOOLEAN,
         ClusterTypeOK', marker' \in SUBSET Nodes, initial' \in BOOLEAN,
         me' \in Hosts, targets' \subseteq Hosts, todo' \subseteq Hosts,
         marked' \in SUBSET Nodes, ranked' \in SUBSET Nodes,
         host' \in Nodes \cup {NoHost}, next \in BootstrapSteps => host' \in Hosts
  PROVE  Typed'
<1>1. UNCHANGED <<Hosts, MaxReplaced, site, replaced>> /\ step' = next
  BY DEF GotoPartly, Hosts, MaxReplaced
<1>2. FactsTypeOK'
  BY <1>1 DEF Typed, FactsTypeOK
<1>3. HostsOnly'
  BY <1>1 DEF Typed, HostsOnly
<1>4. QED
  BY <1>2, <1>3 DEF Typed

LEMMA GotoTyped ==
  ASSUME Typed, NEW next \in SiteSteps \cup RecoverSteps, Goto(next),
         ClusterTypeOK', marker' \in SUBSET Nodes, initial' \in BOOLEAN,
         me' \in Hosts, targets' \subseteq Hosts, todo' \subseteq Hosts,
         marked' \in SUBSET Nodes, ranked' \in SUBSET Nodes,
         host' \in Nodes \cup {NoHost}, next \in BootstrapSteps => host' \in Hosts
  PROVE  Typed'
<1>1. partial \in BOOLEAN /\ partial' = partial
  BY DEF Goto, Typed, FactsTypeOK
<1>2. GotoPartly(next, FALSE)
  BY <1>1 DEF Goto, GotoPartly
<1>3. QED
  BY <1>1, <1>2, GotoPartlyTyped

LEMMA SiteTyped ==
  ASSUME Typed, Site
  PROVE  Typed'
<1>1. /\ site \in DOMAIN Sites /\ Hosts \subseteq Nodes /\ Configured \in Hosts
      /\ Reaches \subseteq SUBSET Hosts
  BY SiteType DEF Typed, HostsOnly
<1>2. /\ me \in Hosts /\ targets \subseteq Hosts /\ todo \subseteq Hosts
      /\ marker \in SUBSET Nodes /\ initial \in BOOLEAN /\ marked \in SUBSET Nodes
      /\ ranked \in SUBSET Nodes /\ host \in Nodes \cup {NoHost}
      /\ step \in {"idle"} \cup SiteSteps \cup RecoverSteps
      /\ step \in BootstrapSteps => host \in Hosts
  BY DEF Typed, HostsOnly, FactsTypeOK
<1>3. UNCHANGED cluster => ClusterTypeOK'
  BY DEF Typed, ClusterTypeOK, cluster
<1>4. \A n \in Nodes : \A R : StopServer(n, R) => ClusterTypeOK'
  BY StopKeepsType DEF Typed
<1>5. \A n \in Nodes : StartServer(n) => ClusterTypeOK'
  BY <1>3, ClusterTypeKept DEF Typed, StartServer
<1>6. \A R : StopTodo(R) => ClusterTypeOK' /\ todo' \subseteq todo
  BY <1>1, <1>2, <1>4 DEF StopTodo
<1>7. me \in Nodes
  BY <1>1, <1>2
<1>8. ASSUME NEW R \in Reaches, NEW b \in Hosts, SiteStart(b, R) PROVE Typed'
  BY <1>1, <1>2, <1>3, <1>8, GotoTyped DEF SiteStart, BootstrapSteps, SiteSteps
<1>9. ASSUME NEW R \in Reaches, SiteProbe(R) PROVE Typed'
  <2>1. R \cap Primaries # {} => FirstOf(R \cap Primaries) \in Nodes
    BY <1>1, FirstIsMember DEF Primaries
  <2>2. CASE R \cap Primaries # {}
    BY <1>2, <1>3, <1>9, <2>1, <2>2, GotoTyped DEF SiteProbe, BootstrapSteps, SiteSteps
  <2>3. CASE R \cap Primaries = {}
    <3>1. targets' \subseteq Hosts
      BY <1>1, <1>9, <2>3 DEF SiteProbe
    <3>2. QED
      BY <1>2, <1>3, <1>9, <2>3, <3>1, GotoTyped DEF SiteProbe, BootstrapSteps, SiteSteps
  <2>4. QED
    BY <2>2, <2>3
<1>10. ASSUME NEW R \in Reaches, SiteRead(R) PROVE Typed'
  <2> DEFINE found  == {n \in targets \cap R : safe[n] = "1"}
             chosen == IF found # {} THEN FirstOf(found)
                       ELSE IF initial THEN Configured ELSE NoHost
  <2>1. chosen \in Hosts \cup {NoHost}
    BY <1>1, <1>2, FirstIsMember
  <2>2. UNCHANGED <<cluster, marker>>
    BY <1>10 DEF SiteRead
  <2>3. ClusterTypeOK' /\ marker' \in SUBSET Nodes
    BY <1>2, <1>3, <2>2
  <2>4. CASE Goto("stop") /\ todo' = targets /\ UNCHANGED <<me, initial, targets, marked, ranked, host>>
    BY <1>2, <2>3, <2>4, GotoTyped DEF BootstrapSteps, SiteSteps
  <2>5. CASE /\ Goto("quiet") /\ chosen # NoHost
             /\ host' = chosen /\ todo' = targets \cup {chosen}
             /\ UNCHANGED <<me, initial, targets, marked, ranked>>
    <3>1. host' \in Hosts /\ host' \in Nodes /\ todo' \subseteq Hosts
      BY <1>1, <1>2, <2>1, <2>5
    <3>2. QED
      BY <1>2, <2>3, <2>5, <3>1, GotoTyped DEF BootstrapSteps, SiteSteps
  <2>6. CASE Quit
    BY <2>3, <2>6, QuitTyped
  <2>7. CASE /\ Goto("converge") /\ chosen # NoHost
             /\ host' = chosen /\ targets' = {}
             /\ UNCHANGED <<me, initial, marked, ranked, todo>>
    BY <1>1, <1>2, <2>1, <2>3, <2>7, GotoTyped DEF BootstrapSteps, SiteSteps
  <2>8. QED
    BY <1>10, <2>4, <2>5, <2>6, <2>7 DEF SiteRead
<1>11. ASSUME NEW R \in Reaches, SiteStop(R) PROVE Typed'
  <2>1. ClusterTypeOK' /\ todo' \subseteq todo
    BY <1>3, <1>6, <1>11 DEF SiteStop
  <2>2. Goto("stop") \/ Goto("rank")
    BY <1>11 DEF SiteStop
  <2>3. QED
    BY <1>2, <1>11, <2>1, <2>2, GotoTyped DEF SiteStop, BootstrapSteps, SiteSteps
<1>12. ASSUME NEW R \in Reaches, SiteRank(R) PROVE Typed'
  <2>1. ClusterTypeOK' /\ marker' \in SUBSET Nodes
    BY <1>2, <1>3, <1>12 DEF SiteRank
  <2>2. CASE Quit
    BY <2>1, <2>2, QuitTyped
  <2>3. ASSUME NEW c \in SUBSET Nodes, c \subseteq targets, Untied(Highest(c)) # NoHost,
               Goto("quiet"), ranked' = c, host' = Untied(Highest(c)),
               todo' = targets, UNCHANGED <<me, initial, targets, marked>>
        PROVE  Typed'
    <3>1. Untied(Highest(c)) \in Hosts
      BY <1>1, <1>2, <2>3, UntiedIsMember DEF Highest
    <3>2. QED
      BY <1>1, <1>2, <2>1, <2>3, <3>1, GotoTyped DEF BootstrapSteps, SiteSteps
  <2>4. \A c \in Readings({n \in targets \cap R : server[n] = "stopped" /\ HasPosition(n)}) :
          c \in SUBSET Nodes /\ c \subseteq targets
    BY <1>1, <1>2 DEF Readings
  <2>5. QED
    BY <1>12, <2>2, <2>3, <2>4 DEF SiteRank
<1>13. ASSUME NEW R \in Reaches, SiteQuiet(R) PROVE Typed'
  <2>1. UNCHANGED marker /\ step = "quiet"
    BY <1>13 DEF SiteQuiet
  <2>2. CASE /\ \E n \in todo : todo' = todo \ {n} /\ StopServer(n, R)
             /\ Goto(step) /\ UNCHANGED <<me, initial, targets, marked, ranked, host>>
    BY <1>1, <1>2, <1>4, <2>1, <2>2, GotoTyped DEF BootstrapSteps, SiteSteps
  <2>3. CASE UNCHANGED cluster /\ Goto("flag") /\ UNCHANGED facts
    BY <1>2, <1>3, <2>1, <2>3, GotoTyped DEF BootstrapSteps, SiteSteps, facts
  <2>4. CASE UNCHANGED cluster /\ Quit
    BY <1>2, <1>3, <2>1, <2>4, QuitTyped
  <2>5. QED
    BY <1>13, <2>2, <2>3, <2>4 DEF SiteQuiet
<1>14. ASSUME NEW R \in Reaches, SiteFlag(R) PROVE Typed'
  <2>1. ClusterTypeOK' /\ UNCHANGED marker /\ step = "flag"
    BY <1>3, <1>14 DEF SiteFlag, Typed, ClusterTypeOK
  <2>2. (Goto("verify") /\ UNCHANGED facts) \/ Quit
    BY <1>14 DEF SiteFlag
  <2>3. QED
    BY <1>2, <2>1, <2>2, GotoTyped, QuitTyped DEF BootstrapSteps, SiteSteps, facts
<1>15. ASSUME NEW R \in Reaches, SiteVerify(R) PROVE Typed'
  <2>1. ClusterTypeOK' /\ UNCHANGED marker /\ step = "verify"
    BY <1>3, <1>15 DEF SiteVerify
  <2>2. (Goto("start") /\ UNCHANGED facts) \/ Quit
    BY <1>15 DEF SiteVerify
  <2>3. QED
    BY <1>2, <2>1, <2>2, GotoTyped, QuitTyped DEF BootstrapSteps, SiteSteps, facts
<1>16. CASE SiteConverge \/ SiteRejoin \/ SiteAwait \/ SiteSettle
  <2>1. ClusterTypeOK' /\ UNCHANGED <<marker, facts>>
    BY <1>3, <1>4, <1>5, <1>7, <1>16 DEF SiteConverge, SiteRejoin, SiteAwait, SiteSettle
  <2>2. \/ Goto("await") \/ Goto("create") \/ Goto("restart")
        \/ Goto("again") /\ step = "settle"
    BY <1>16 DEF SiteConverge, SiteRejoin, SiteAwait, SiteSettle
  <2>3. QED
    BY <1>2, <2>1, <2>2, GotoTyped DEF BootstrapSteps, SiteSteps, facts
<1>17. CASE SiteMarker
  <2>1. step = "record" /\ ClusterTypeOK' /\ UNCHANGED <<me, marked, host, todo>> /\ initial' = FALSE
        /\ targets' = {} /\ ranked' = {} /\ (Goto("settle") \/ Goto("converge"))
    BY <1>3, <1>17 DEF SiteMarker
  <2>2. marker' \in SUBSET Nodes
    BY <1>1, <1>2, <1>17 DEF SiteMarker, BootstrapSteps
  <2>3. QED
    BY <1>2, <2>1, <2>2, GotoTyped DEF BootstrapSteps, SiteSteps
<1>18. CASE SiteRestart
  <2>1. ClusterTypeOK' /\ UNCHANGED <<marker, facts>> /\ Goto("await")
    BY <1>18 DEF SiteRestart, Typed, ClusterTypeOK
  <2>2. QED
    BY <1>2, <2>1, GotoTyped DEF BootstrapSteps, SiteSteps, facts
<1>19. CASE SiteCreateDatabase
  <2>1. ClusterTypeOK' /\ UNCHANGED marker /\ Quit
    BY <1>7, <1>19 DEF SiteCreateDatabase, Typed, ClusterTypeOK
  <2>2. QED
    BY <1>2, <2>1, QuitTyped
<1>20. CASE SiteBootstrap \/ SiteBootstrapAgain
  <2>1. /\ UNCHANGED <<marker, facts>> /\ StartCluster /\ step \in {"start", "again"}
        /\ Goto("record") \/ Goto("create")
    BY <1>20 DEF SiteBootstrap, SiteBootstrapAgain
  <2>2. QED
    BY <1>1, <1>2, <2>1, GotoTyped, StartKeepsType DEF BootstrapSteps, SiteSteps, facts, Typed
<1>21. QED
  BY <1>8, <1>9, <1>10, <1>11, <1>12, <1>13, <1>14, <1>15, <1>16, <1>17, <1>18,
     <1>19, <1>20 DEF Site

LEMMA RecoverTyped ==
  ASSUME Typed, Recover
  PROVE  Typed'
<1>1. /\ site \in DOMAIN Sites /\ Hosts \subseteq Nodes /\ Configured \in Hosts
      /\ Reaches \subseteq SUBSET Hosts
  BY SiteType DEF Typed, HostsOnly
<1>2. /\ me \in Hosts /\ targets \subseteq Hosts /\ todo \subseteq Hosts
      /\ marker \in SUBSET Nodes /\ initial \in BOOLEAN /\ marked \in SUBSET Nodes
      /\ ranked \in SUBSET Nodes /\ host \in Nodes \cup {NoHost}
      /\ step \in {"idle"} \cup SiteSteps \cup RecoverSteps
      /\ step \in BootstrapSteps => host \in Hosts
  BY DEF Typed, HostsOnly, FactsTypeOK
<1>3. UNCHANGED cluster => ClusterTypeOK'
  BY DEF Typed, ClusterTypeOK, cluster
<1>4. \A n \in Nodes : StartServer(n) => ClusterTypeOK'
  BY <1>3, ClusterTypeKept DEF Typed, StartServer
<1>5. \A R : StopTodo(R) => ClusterTypeOK' /\ todo' \subseteq todo
  BY <1>1, <1>2, StopKeepsType DEF StopTodo, Typed
<1>6. ASSUME NEW R \in Reaches, RecoverProbe(R) PROVE Typed'
  BY <1>1, <1>2, <1>3, <1>6, GotoTyped DEF RecoverProbe, BootstrapSteps, RecoverSteps
<1>7. CASE RecoverRead
  <2>1. marked' \in SUBSET Nodes
    BY <1>1, <1>2, <1>7 DEF RecoverRead
  <2>2. QED
    BY <1>2, <1>3, <1>7, <2>1, GotoTyped DEF RecoverRead, BootstrapSteps, RecoverSteps
<1>8. CASE RecoverStop
  <2>1. ClusterTypeOK' /\ UNCHANGED marker /\ step = "r_stop"
    BY <1>3, <1>5, <1>8 DEF RecoverStop
  <2>2. \/ Quit
        \/ Goto("r_rank") /\ UNCHANGED facts
        \/ /\ Goto("r_stop") /\ todo' \subseteq todo
           /\ UNCHANGED <<me, initial, targets, marked, ranked, host>>
    BY <1>5, <1>8 DEF RecoverStop
  <2>3. QED
    BY <1>2, <2>1, <2>2, GotoTyped, QuitTyped DEF BootstrapSteps, RecoverSteps, facts
<1>9. CASE RecoverRank
  <2>1. ClusterTypeOK' /\ UNCHANGED marker
    BY <1>3, <1>9 DEF RecoverRank
  <2>2. \A c \in Readings({n \in targets : HasPosition(n)}) : c \in SUBSET Nodes
    BY <1>1, <1>2 DEF Readings
  <2>3. \/ Quit
        \/ /\ \E missing \in BOOLEAN : GotoPartly("r_unflag", missing)
           /\ host' \in targets /\ ranked' \in SUBSET Nodes
           /\ UNCHANGED <<me, initial, targets, marked, todo>>
    BY <1>9, <2>2 DEF RecoverRank
  <2>4. \A missing \in BOOLEAN : \A next : GotoPartly(next, missing) => partial' \in BOOLEAN
    BY DEF GotoPartly, Typed, FactsTypeOK
  <2>5. QED
    BY <1>1, <1>2, <2>1, <2>3, <2>4, GotoPartlyTyped, QuitTyped DEF BootstrapSteps, RecoverSteps
<1>10. CASE RecoverMarkUnsafe \/ RecoverMarkSafe
  <2>1. /\ safe' \in [Nodes -> {"missing", "0", "1"}]
        /\ UNCHANGED <<server, view, data, schema, committed>>
    BY <1>10 DEF RecoverMarkUnsafe, RecoverMarkSafe, Typed, ClusterTypeOK
  <2>2. ClusterTypeOK'
    BY <2>1 DEF Typed, ClusterTypeOK
  <2>3. /\ UNCHANGED <<marker, facts>> /\ step \in {"r_unflag", "r_flag"}
        /\ Goto("r_flag") \/ Goto("r_start")
    BY <1>10 DEF RecoverMarkUnsafe, RecoverMarkSafe
  <2>4. QED
    BY <1>2, <2>2, <2>3, GotoTyped DEF BootstrapSteps, RecoverSteps, facts
<1>11. CASE RecoverBootstrap
  <2>1. /\ StartCluster /\ GotoPartly("r_join", ~StartJoiners) /\ host \in Hosts
        /\ partial' \in BOOLEAN
        /\ marker' = marker \cup {host} /\ todo' = targets \ {host}
        /\ UNCHANGED <<me, initial, targets, marked, ranked, host>>
    BY <1>2, <1>11 DEF RecoverBootstrap, BootstrapSteps, GotoPartly, Typed, FactsTypeOK
  <2>2. ClusterTypeOK'
    BY <1>1, <2>1, StartKeepsType DEF Typed
  <2>3. QED
    BY <1>1, <1>2, <2>1, <2>2, GotoPartlyTyped DEF RecoverSteps
<1>12. CASE RecoverJoin
  <2>1. ClusterTypeOK' /\ UNCHANGED marker /\ step = "r_join"
    BY <1>1, <1>2, <1>3, <1>4, <1>12 DEF RecoverJoin
  <2>2. \/ Quit
        \/ /\ Goto("r_join") /\ todo' \subseteq todo
           /\ UNCHANGED <<me, initial, targets, marked, ranked, host>>
    BY <1>12 DEF RecoverJoin
  <2>3. QED
    BY <1>2, <2>1, <2>2, GotoTyped, QuitTyped DEF BootstrapSteps, RecoverSteps
<1>13. QED
  BY <1>6, <1>7, <1>8, <1>9, <1>10, <1>11, <1>12 DEF Recover

LEMMA TypedStep ==
  ASSUME Typed, [Next]_vars
  PROVE  Typed'
<1>1. site \in DOMAIN Sites /\ Hosts \subseteq Nodes
  BY SiteType DEF Typed, HostsOnly
<1>2. CASE PlayEnds
  <2>1. ClusterTypeOK' /\ marker' \in SUBSET Nodes /\ Quit
    BY <1>2 DEF PlayEnds, cluster, Typed, ClusterTypeOK, FactsTypeOK
  <2>2. QED
    BY <2>1, QuitTyped
<1>3. CASE ClusterEvent
  <2>1. PICK n \in Hosts :
          \/ Write(n) \/ (\E p \in Nodes : Join(n, p)) \/ Start(n) \/ Leave(n)
          \/ (\E fate \in {"stopped", "waiting"} : Lose(n, fate))
          \/ CrashWaiting(n) \/ Reform(n)
    BY <1>3 DEF ClusterEvent, NodeStep, NodeFails
  <2>2. ClusterTypeOK'
    BY <1>1, <2>1, ClusterTypeKept DEF Typed
  <2>3. UNCHANGED <<site, marker, play, partial, replaced>>
    BY <1>3 DEF ClusterEvent
  <2>4. FactsTypeOK' /\ HostsOnly'
    BY <2>3 DEF Typed, FactsTypeOK, HostsOnly, play, facts, Hosts, MaxReplaced
  <2>5. QED
    BY <2>2, <2>4 DEF Typed
<1>4. CASE NodeReplaced
  <2>1. PICK n \in Hosts : Replace(n) /\ marker' = marker \ {n}
    BY <1>4 DEF NodeReplaced
  <2>2. ClusterTypeOK'
    BY <1>1, <2>1, ClusterTypeKept DEF Typed
  <2>3. replaced' \in 0..MaxReplaced
    <3>1. Sites[site] \in {Sites[i] : i \in DOMAIN Sites}
      BY <1>1
    <3>2. MaxReplaced \in Nat
      BY <3>1, BootstrapConstantsOK DEF MaxReplaced
    <3>3. QED
      BY <1>4, <3>2 DEF NodeReplaced, Typed, FactsTypeOK
  <2>4. UNCHANGED <<site, play, partial>>
    BY <1>4 DEF NodeReplaced
  <2>5. FactsTypeOK' /\ HostsOnly'
    BY <2>1, <2>3, <2>4 DEF Typed, FactsTypeOK, HostsOnly, play, facts, Hosts, MaxReplaced
  <2>6. QED
    BY <2>2, <2>5 DEF Typed
<1>5. CASE UNCHANGED vars
  BY <1>5 DEF vars, play, facts, cluster, Typed, ClusterTypeOK, FactsTypeOK,
     HostsOnly, Hosts, MaxReplaced
<1>6. QED
  BY <1>2, <1>3, <1>4, <1>5, SiteTyped, RecoverTyped DEF Next

\* Every variable keeps its type, for every site there is: the tasks that act on
\* a bootstrap host have selected one, and only hosts of the site are handled.
THEOREM TypeCorrect == Spec => []TypeOK
<1>1. Init => Typed
  BY TypedInit
<1>2. Typed /\ [Next]_vars => Typed'
  BY TypedStep
<1>3. Typed => TypeOK
  BY TypedIsTypeOK
<1>4. QED
  BY <1>1, <1>2, <1>3, PTL DEF Spec

-----------------------------------------------------------------------------
(* The steps of the plays.                                                  *)

Guarded == Typed /\ CarefulInv /\ ~AutoRecover /\ CarefulSite(Sites[site])

LEMMA GuardedFacts ==
  ASSUME Guarded
  PROVE  /\ site \in DOMAIN Sites /\ Hosts \subseteq Nodes /\ Configured \in Hosts
         /\ ClusterTypeOK /\ HostsOnly /\ Basics
         /\ step \in MarkedSteps \/ OneLineage
         /\ Reaches \subseteq SUBSET Hosts /\ MaxReplaced = 0
         /\ Recovery => Calm /\ Reaches \subseteq {Hosts}
BY SiteType DEF Guarded, Typed, HostsOnly, CarefulInv, Basics, CarefulSite,
   AutoRecover, Recovery, Calm, Reaches, Hosts, MaxReplaced

LEMMA UnchangedKeeps ==
  ASSUME ClusterTypeOK, Basics, UNCHANGED <<site, cluster>>
  PROVE  /\ Basics' /\ (OneLineage => OneLineage') /\ Primaries' = Primaries
         /\ \A m \in Nodes : HasPosition(m)' = HasPosition(m)
<1>1. UNCHANGED <<server, view, data, safe, committed>> /\ ClusterTypeOK'
  BY DEF cluster, ClusterTypeOK
<1>2. \A m \in Nodes : HasPosition(m)' = HasPosition(m)
  BY <1>1 DEF HasPosition
<1>3. QED
  BY <1>1, <1>2, FlagKeeps

LEMMA SiteKeepsUnchanged ==
  ASSUME Site
  PROVE  UNCHANGED site
<1>1. Quit \/ (\E next : Goto(next)) => UNCHANGED site
  BY DEF Quit, Goto
<1>2. Quit \/ \E next : Goto(next)
  BY DEF Site, SiteStart, SiteProbe, SiteRead, SiteStop, SiteRank, SiteQuiet,
     SiteFlag, SiteVerify, SiteBootstrap, SiteMarker, SiteConverge, SiteSettle,
     SiteBootstrapAgain, SiteRejoin, SiteRestart, SiteAwait, SiteCreateDatabase
<1>3. QED
  BY <1>1, <1>2

\* A host that is not marked safe is bootstrapped only as the very first one:
\* in both cases it has the whole history and nothing else may come back.
LEMMA BootstrapIsFounded ==
  ASSUME ClusterTypeOK, Basics, OneLineage, host \in Hosts,
         host = Configured \/ HasPosition(host),
         NewCluster(host)
  PROVE  /\ Primaries = {} /\ data[host] = committed
         /\ safe[Configured] = "missing" => host = Configured
         /\ \A m \in Nodes : ~Whole(m) /\ (safe[m] = "1" => m = host)
<1> USE DEF ClusterTypeOK
<1>1. host \in Nodes /\ safe[host] \in {"missing", "1"}
  BY SiteType DEF Basics, NewCluster
<1>2. CASE safe[host] = "1"
  <2>1. /\ data[host] = committed
        /\ \A m \in Nodes : ~Whole(m) /\ (safe[m] = "1" => m = host)
    BY <1>1, <1>2 DEF OneLineage
  <2>2. Primaries = {}
    BY <2>1 DEF Basics, ComponentsRun, Primaries
  <2>3. safe[Configured] = "missing" => host = Configured
    BY <1>1, <1>2 DEF Basics, FirstIsConfigured
  <2>4. QED
    BY <2>1, <2>2, <2>3
<1>3. CASE safe[host] = "missing"
  <2>1. host = Configured
    BY <1>3 DEF HasPosition
  <2>2. /\ committed = {} /\ Primaries = {}
        /\ \A n \in Nodes : safe[n] = "missing" /\ view[n] = {}
    BY <1>3, <2>1 DEF Basics, FirstIsConfigured
  <2>3. data[host] = {}
    <3>1. PICK c \in 0..MaxWrites :
            committed = 1..c /\ \A n \in Nodes : \E k \in 0..c : data[n] = 1..k
      BY DEF Basics, OneHistory
    <3>2. c \in Nat
      BY <3>1
    <3>3. c = 0
      <4>1. c >= 1 => 1 \in 1..c
        BY <3>2
      <4>2. QED
        BY <2>2, <3>1, <3>2, <4>1
    <3>4. QED
      BY <1>1, <3>1, <3>3
  <2>4. QED
    BY <2>1, <2>2, <2>3 DEF Whole
<1>4. QED
  BY <1>1, <1>2, <1>3

\* What the cluster keeps in a step, and where the play is then.
Kept == /\ Basics' /\ OneLineage'
        /\ \A m \in Nodes : HasPosition(m) => HasPosition(m)'

LEMMA CarefulKept ==
  ASSUME Kept, SiteFacts', step' \notin RecoverSteps
  PROVE  CarefulInv'
BY DEF Kept, Basics, CarefulInv, RecoverFacts, RecoverSteps, StoppedSteps, SelectedSteps

\* The tasks before the bootstrap choose a host that has what they look for.
LEMMA SiteDecides ==
  ASSUME Guarded, Typed', NEW R \in Reaches,
         \/ \E b \in Hosts : SiteStart(b, R)
         \/ SiteProbe(R) \/ SiteRead(R) \/ SiteStop(R) \/ SiteRank(R)
         \/ SiteQuiet(R) \/ SiteFlag(R) \/ SiteVerify(R)
  PROVE  CarefulInv'
<1>1. /\ ClusterTypeOK /\ Basics /\ Hosts \subseteq Nodes /\ Configured \in Hosts
      /\ targets \subseteq Hosts /\ todo \subseteq Hosts /\ R \subseteq Hosts
      /\ step \in BootstrapSteps => host \in Hosts
  BY GuardedFacts DEF HostsOnly
<1>2. step \notin RecoverSteps /\ OneLineage
  BY GuardedFacts DEF SiteStart, SiteProbe, SiteRead, SiteStop, SiteRank, SiteQuiet,
     SiteFlag, SiteVerify, RecoverSteps, MarkedSteps
<1>3. SiteFacts /\ ranked = {} /\ ~AutoRecover /\ step \notin {"stop", "rank"}
  BY <1>2 DEF Guarded, CarefulInv, SiteFacts
<1>4. UNCHANGED site
  BY SiteKeepsUnchanged DEF Site
<1>5. UNCHANGED cluster => Kept
  BY <1>1, <1>2, <1>4, UnchangedKeeps DEF Kept
<1>6. CASE UNCHANGED cluster /\ Quit
  <2>1. SiteFacts' /\ step' \notin RecoverSteps
    BY <1>6 DEF Quit, SiteFacts, RecoverSteps
  <2>2. QED
    BY <1>5, <1>6, <2>1, CarefulKept
<1>7. ASSUME NEW b \in Hosts, SiteStart(b, R) PROVE CarefulInv'
  <2>1. SiteFacts' /\ step' \notin RecoverSteps
    BY <1>3, <1>7 DEF SiteStart, Goto, SiteFacts, RecoverSteps
  <2>2. QED
    BY <1>5, <1>7, <2>1, CarefulKept DEF SiteStart
<1>8. CASE SiteProbe(R)
  <2>1. SiteFacts' /\ step' \notin RecoverSteps
    BY <1>3, <1>8 DEF SiteProbe, Goto, SiteFacts, RecoverSteps
  <2>2. QED
    BY <1>5, <1>8, <2>1, CarefulKept DEF SiteProbe
<1>9. CASE SiteRead(R)
  <2> DEFINE found  == {n \in targets \cap R : safe[n] = "1"}
             chosen == IF found # {} THEN FirstOf(found)
                       ELSE IF initial THEN Configured ELSE NoHost
  <2>1. found \subseteq Nodes
    BY <1>1
  <2>2. chosen # NoHost => chosen = Configured \/ safe[chosen] = "1"
    BY <2>1, FirstIsMember
  <2>3. UNCHANGED cluster
    BY <1>9 DEF SiteRead
  <2>4. CASE /\ Goto("quiet") /\ chosen # NoHost
             /\ host' = chosen /\ todo' = targets \cup {chosen}
             /\ UNCHANGED <<me, initial, targets, marked, ranked>>
    <3>1. host' = Configured \/ safe'[host'] # "missing"
      BY <2>2, <2>3, <2>4 DEF cluster
    <3>2. SiteFacts' /\ step' \notin RecoverSteps
      BY <1>3, <2>4, <3>1 DEF Goto, SiteFacts, RecoverSteps
    <3>3. QED
      BY <1>5, <2>3, <3>2, CarefulKept
  <2>5. CASE Goto("converge") /\ UNCHANGED ranked
    <3>1. SiteFacts' /\ step' \notin RecoverSteps
      BY <1>3, <2>5 DEF Goto, SiteFacts, RecoverSteps
    <3>2. QED
      BY <1>5, <2>3, <3>1, CarefulKept
  <2>6. QED
    BY <1>3, <1>6, <1>9, <2>3, <2>4, <2>5 DEF SiteRead
<1>10. CASE SiteQuiet(R)
  <2>1. step = "quiet" /\ (host = Configured \/ HasPosition(host)) /\ host \in Hosts
    BY <1>1, <1>3, <1>10 DEF SiteQuiet, SiteFacts, HasPosition, BootstrapSteps
  <2>2. CASE /\ \E n \in todo : StopServer(n, R)
             /\ Goto(step) /\ UNCHANGED <<me, initial, targets, marked, ranked, host>>
    <3>1. Kept
      BY <1>1, <1>2, <1>4, <2>2, StopKeeps DEF Kept
    <3>2. host' = Configured \/ safe'[host'] # "missing"
      BY <1>1, <2>1, <2>2, <3>1 DEF Kept, HasPosition
    <3>3. SiteFacts' /\ step' \notin RecoverSteps
      BY <1>3, <2>1, <2>2, <3>2 DEF Goto, SiteFacts, RecoverSteps
    <3>4. QED
      BY <3>1, <3>3, CarefulKept
  <2>3. CASE UNCHANGED cluster /\ Goto("flag") /\ UNCHANGED facts
    <3>1. host' = Configured \/ safe'[host'] # "missing"
      BY <2>1, <2>3 DEF cluster, facts, HasPosition
    <3>2. SiteFacts' /\ step' \notin RecoverSteps
      BY <1>3, <2>3, <3>1 DEF Goto, SiteFacts, RecoverSteps, facts
    <3>3. QED
      BY <1>5, <2>3, <3>2, CarefulKept
  <2>4. QED
    BY <1>6, <1>10, <2>2, <2>3 DEF SiteQuiet
<1>11. CASE SiteFlag(R) \/ SiteVerify(R)
  <2>1. UNCHANGED cluster
    BY <1>3, <1>11 DEF SiteFlag, SiteVerify, cluster
  <2>2. CASE (Goto("verify") \/ Goto("start")) /\ UNCHANGED facts
    <3>1. step \in {"flag", "verify"} /\ (host = Configured \/ HasPosition(host))
      BY <1>3, <1>11 DEF SiteFlag, SiteVerify, SiteFacts, HasPosition
    <3>2. host' = Configured \/ safe'[host'] # "missing"
      BY <2>1, <2>2, <3>1 DEF cluster, facts, HasPosition
    <3>3. SiteFacts' /\ step' \notin RecoverSteps
      BY <1>3, <2>2, <3>2 DEF Goto, SiteFacts, RecoverSteps, facts
    <3>4. QED
      BY <1>5, <2>1, <3>3, CarefulKept
  <2>3. QED
    BY <1>6, <1>11, <2>1, <2>2 DEF SiteFlag, SiteVerify
<1>12. ~SiteStop(R) /\ ~SiteRank(R)
  BY <1>3 DEF SiteStop, SiteRank
<1>13. QED
  BY <1>7, <1>8, <1>9, <1>10, <1>11, <1>12

\* A task that bootstraps does so on a host that has the whole history.
LEMMA SiteBootstraps ==
  ASSUME Guarded, Typed', SiteBootstrap \/ SiteBootstrapAgain
  PROVE  /\ CarefulInv'
         /\ NewCluster(host) => Primaries = {} /\ data[host] = committed
<1>1. ClusterTypeOK /\ Basics /\ host \in Hosts /\ Hosts \subseteq Nodes
  BY GuardedFacts DEF HostsOnly, BootstrapSteps, SiteBootstrap, SiteBootstrapAgain
<1>2. step \in {"start", "again"} /\ OneLineage
  BY GuardedFacts DEF MarkedSteps, SiteBootstrap, SiteBootstrapAgain
<1>3. /\ ranked = {} /\ (host = Configured \/ HasPosition(host))
      /\ step = "again" => HasPosition(host)
  BY <1>2 DEF Guarded, CarefulInv, SiteFacts, RecoverSteps, HasPosition
<1>4. UNCHANGED site /\ UNCHANGED facts /\ StartCluster /\ step' \in {"record", "create"}
  BY DEF SiteBootstrap, SiteBootstrapAgain, Goto
<1>5. /\ NewCluster(host) => Primaries = {} /\ data[host] = committed
      /\ NewCluster(host) => Kept
  BY <1>1, <1>2, <1>3, <1>4, BootstrapIsFounded, NewClusterKeeps DEF Kept
<1>6. UNCHANGED cluster => Kept
  BY <1>1, <1>2, <1>4, UnchangedKeeps DEF Kept
<1>7. safe'[host] # "missing"
  <2>1. CASE NewCluster(host)
    BY <1>1, <2>1 DEF NewCluster, ClusterTypeOK
  <2>2. CASE server[host] = "primary" /\ UNCHANGED cluster
    BY <1>1, <2>2 DEF Basics, ComponentsRun, MembersHavePosition, Primaries, Whole,
       HasPosition, cluster
  <2>3. QED
    BY <1>4, <2>1, <2>2 DEF StartCluster
<1>8. SiteFacts' /\ step' \notin RecoverSteps
  BY <1>3, <1>4, <1>7 DEF SiteFacts, RecoverSteps, facts
<1>9. QED
  BY <1>4, <1>5, <1>6, <1>8, CarefulKept DEF StartCluster

\* The rest of a batch may stop and start its own server at any time.
LEMMA SiteConverges ==
  ASSUME Guarded, Typed',
         \/ SiteMarker \/ SiteConverge \/ SiteSettle \/ SiteRejoin
         \/ SiteRestart \/ SiteAwait \/ SiteCreateDatabase
  PROVE  CarefulInv'
<1>1. ClusterTypeOK /\ ClusterTypeOK' /\ Basics /\ Hosts \subseteq Nodes /\ me \in Hosts
  BY GuardedFacts DEF HostsOnly, Typed
<1>2. step \notin RecoverSteps /\ OneLineage
  BY GuardedFacts DEF SiteMarker, SiteConverge, SiteSettle, SiteRejoin, SiteRestart,
     SiteAwait, SiteCreateDatabase, RecoverSteps, MarkedSteps
<1>3. SiteFacts /\ ranked = {}
  BY <1>2 DEF Guarded, CarefulInv, SiteFacts
<1>4. UNCHANGED site
  BY SiteKeepsUnchanged DEF Site
<1>5. UNCHANGED cluster => Kept
  BY <1>1, <1>2, <1>4, UnchangedKeeps DEF Kept
<1>6. \A R : StopServer(me, R) => Kept
  BY <1>1, <1>2, <1>4, StopKeeps DEF Kept
<1>7. ASSUME NEW state \in {"waiting", "stopped"}, server[me] # "primary",
             server' = [server EXCEPT ![me] = state],
             view' = view \/ view' = [view EXCEPT ![me] = {}],
             UNCHANGED <<data, safe, committed>>
      PROVE  Kept
  BY <1>1, <1>2, <1>4, <1>7, OutsideKeeps DEF Kept, HasPosition
<1>8. StartServer(me) => Kept
  BY <1>5, <1>7 DEF StartServer, Start
<1>9. SiteRestart => Kept
  <2> SUFFICES ASSUME SiteRestart PROVE Kept
    OBVIOUS
  <2>1. CASE server[me] = "stopped"
    <3>1. server' = [server EXCEPT ![me] = "waiting"]
      BY <2>1 DEF SiteRestart
    <3>2. QED
      BY <1>7, <2>1, <3>1 DEF SiteRestart
  <2>2. CASE server[me] # "stopped"
    <3>1. UNCHANGED cluster
      BY <1>1, <2>2 DEF SiteRestart, ClusterTypeOK, cluster
    <3>2. QED
      BY <1>5, <3>1
  <2>3. QED
    BY <2>1, <2>2
<1>10. SiteCreateDatabase => Kept
  BY <1>1, <1>2, <1>4, FlagKeeps DEF SiteCreateDatabase, Kept, HasPosition
<1>11. Kept
  BY <1>5, <1>6, <1>8, <1>9, <1>10 DEF SiteMarker, SiteConverge, SiteSettle,
     SiteRejoin, SiteAwait
<1>12. SiteFacts' /\ step' \notin RecoverSteps
  <2>1. CASE SiteCreateDatabase
    BY <2>1 DEF SiteCreateDatabase, Quit, SiteFacts, RecoverSteps
  <2>2. CASE SiteMarker \/ SiteSettle
    <3>1. host \in Nodes /\ HasPosition(host)
      BY <1>1, <1>3, <2>2, GuardedFacts DEF SiteFacts, SiteMarker, SiteSettle,
         HasPosition, HostsOnly, BootstrapSteps
    <3>2. safe'[host] # "missing"
      BY <1>11, <3>1 DEF Kept, HasPosition
    <3>3. QED
      BY <1>3, <2>2, <3>2 DEF SiteMarker, SiteSettle, Goto, SiteFacts, RecoverSteps, facts
  <2>3. CASE SiteConverge \/ SiteRejoin \/ SiteRestart \/ SiteAwait
    BY <1>3, <2>3 DEF SiteConverge, SiteRejoin, SiteRestart, SiteAwait, Goto,
       SiteFacts, RecoverSteps, facts
  <2>4. QED
    BY <2>1, <2>2, <2>3
<1>13. QED
  BY <1>11, <1>12, CarefulKept

-----------------------------------------------------------------------------
(* The recovery playbook.                                                   *)

\* Of the hosts of one history, the highest ones have all of it.
LEMMA HighestHasAll ==
  ASSUME ClusterTypeOK, Basics, NEW n \in Highest({m \in Hosts : HasPosition(m)})
  PROVE  data[n] = committed
<1>1. PICK c \in 0..MaxWrites :
        committed = 1..c /\ \A m \in Nodes : \E k \in 0..c : data[m] = 1..k
  BY DEF Basics, OneHistory
<1>2. n \in Nodes /\ c \in Nat
  BY <1>1, SiteType DEF Basics, Highest
<1>3. PICK k \in 0..c : data[n] = 1..k
  BY <1>1, <1>2
<1>4. k \in Nat /\ k <= c
  BY <1>2, <1>3
<1>5. CASE c = 0
  BY <1>1, <1>3, <1>4, <1>5
<1>6. CASE c # 0
  <2>1. 1 \in 1..c
    BY <1>2, <1>6
  <2>2. PICK m \in Hosts : HasPosition(m) /\ data[m] = committed
    BY <1>1, <2>1 DEF Basics, OneHistory
  <2>3. Seqno(m) <= Seqno(n)
    BY <2>2 DEF Highest
  <2>4. Seqno(m) = c
    <3>1. Cardinality(1..c) = IF 1 > c THEN 0 ELSE c - 1 + 1
      BY <1>2, FS_Interval
    <3>2. QED
      BY <1>1, <1>2, <1>6, <2>2, <3>1 DEF Seqno
  <2>5. Seqno(n) = k
    <3>1. Cardinality(1..k) = IF 1 > k THEN 0 ELSE k - 1 + 1
      BY <1>4, FS_Interval
    <3>2. QED
      BY <1>3, <1>4, <3>1 DEF Seqno
  <2>6. k = c
    BY <1>2, <1>4, <2>3, <2>4, <2>5
  <2>7. QED
    BY <1>1, <1>3, <2>6
<1>7. QED
  BY <1>5, <1>6

\* The host that the play selects has the whole history, and no other is
\* marked safe, unless it is selected by positions of which some are missing.
LEMMA SelectionIsFounded ==
  ASSUME ClusterTypeOK, Basics, OneLineage,
         marked = {n \in Hosts : safe[n] = "1"},
         NEW named \in Hosts, NEW c \in SUBSET {n \in Hosts : HasPosition(n)},
         Selected(named, c) = named,
         marked # {} \/ c = {n \in Hosts : HasPosition(n)}
  PROVE  /\ HasPosition(named) /\ data[named] = committed
         /\ \A n \in Nodes : safe[n] = "1" => n = named
<1>1. /\ Hosts \subseteq Nodes /\ named \in Nodes /\ named # NoHost
      /\ c \in SUBSET Nodes /\ marked \in SUBSET Nodes
  BY SiteType, BootstrapConstantsOK DEF Basics
<1>2. \A n \in Nodes : safe[n] = "1" => n \in marked
  BY DEF Basics, OthersUntouched
<1>3. CASE marked # {} /\ Cardinality(marked) = 1 /\ named = FirstOf(marked)
  <2>1. safe[named] = "1"
    BY <1>1, <1>3, FirstIsMember
  <2>2. QED
    BY <1>1, <2>1 DEF OneLineage, HasPosition
<1>4. CASE marked = {} /\ named \in Highest(c)
  <2>1. HasPosition(named)
    BY <1>4 DEF Highest
  <2>2. QED
    BY <1>2, <1>4, <2>1, HighestHasAll
<1>5. QED
  BY <1>1, <1>3, <1>4, SelectedIsMember

\* Reading, stopping and selecting: when a host has been selected, everything
\* has been stopped, and what was read of grastate.dat is still so.
LEMMA RecoverDecides ==
  ASSUME Guarded, Typed',
         \/ \E R \in Reaches : RecoverProbe(R)
         \/ RecoverRead \/ RecoverStop \/ RecoverRank
  PROVE  partial' \/ CarefulInv'
<1>1. /\ ClusterTypeOK /\ Basics /\ Hosts \subseteq Nodes /\ targets \subseteq Hosts
      /\ todo \subseteq Hosts /\ OneLineage /\ RecoverFacts
  BY GuardedFacts DEF HostsOnly, Guarded, CarefulInv, RecoverProbe, RecoverRead,
     RecoverStop, RecoverRank, MarkedSteps
<1>2. UNCHANGED site /\ Hosts' = Hosts /\ Recovery' = Recovery
  BY DEF RecoverProbe, RecoverRead, RecoverStop, RecoverRank, Goto, GotoPartly, Quit,
     Hosts, Recovery
<1>3. UNCHANGED cluster => Kept /\ Primaries' = Primaries
  BY <1>1, <1>2, UnchangedKeeps DEF Kept
<1>4. CASE UNCHANGED cluster /\ Quit
  <2>1. SiteFacts' /\ step' \notin RecoverSteps
    BY <1>4 DEF Quit, SiteFacts, RecoverSteps
  <2>2. QED
    BY <1>3, <1>4, <2>1, CarefulKept
<1>5. ASSUME step' \in {"r_read", "r_stop", "r_rank", "r_unflag"}
      PROVE  SiteFacts'
  BY <1>5 DEF SiteFacts, RecoverSteps
<1>6. ASSUME Kept, RecoverFacts', SiteFacts'
      PROVE  CarefulInv'
  BY <1>6 DEF Kept, Basics, CarefulInv
<1>7. ASSUME NEW R \in Reaches, RecoverProbe(R) PROVE CarefulInv'
  <2>1. R = Hosts /\ Recovery
    BY <1>7, GuardedFacts DEF RecoverProbe
  <2>2. Primaries \subseteq Hosts
    BY <1>1 DEF Basics, OthersUntouched, Primaries
  <2>3. Primaries = {}
    BY <1>7, <2>1, <2>2 DEF RecoverProbe
  <2>4. step' = "r_read" /\ targets' = Hosts /\ UNCHANGED cluster
    BY <1>7, <2>1 DEF RecoverProbe, Goto
  <2>5. RecoverFacts'
    BY <1>2, <1>3, <2>1, <2>3, <2>4 DEF RecoverFacts, RecoverSteps, StoppedSteps, SelectedSteps
  <2>6. QED
    BY <1>3, <1>5, <1>6, <2>4, <2>5
<1>8. CASE RecoverRead
  <2>1. Recovery /\ targets = Hosts /\ Primaries = {}
    BY <1>1, <1>8 DEF RecoverRead, RecoverFacts, RecoverSteps
  <2>2. /\ step' = "r_stop" /\ targets' = Hosts /\ UNCHANGED cluster
        /\ marked' = {n \in Hosts : safe[n] = "1"}
    BY <1>8, <2>1 DEF RecoverRead, Goto
  <2>3. RecoverFacts'
    BY <1>2, <1>3, <2>1, <2>2 DEF RecoverFacts, RecoverSteps, StoppedSteps,
       SelectedSteps, cluster
  <2>4. QED
    BY <1>3, <1>5, <1>6, <2>2, <2>3
<1>9. CASE RecoverStop
  <2>1. /\ Recovery /\ targets = Hosts /\ Primaries = {}
        /\ marked = {n \in Hosts : safe[n] = "1"}
    BY <1>1, <1>9 DEF RecoverStop, RecoverFacts, RecoverSteps
  <2>2. ASSUME NEW n \in todo, StopServer(n, targets), step' = "r_stop",
               UNCHANGED <<targets, marked>>
        PROVE  CarefulInv'
    <3>1. Kept /\ Primaries' = {} /\ UNCHANGED safe
      BY <1>1, <1>2, <2>1, <2>2, StopKeeps DEF Kept
    <3>2. RecoverFacts'
      BY <1>2, <2>1, <2>2, <3>1 DEF RecoverFacts, RecoverSteps, StoppedSteps, SelectedSteps
    <3>3. QED
      BY <1>5, <1>6, <2>2, <3>1, <3>2
  <2>3. ASSUME UNCHANGED cluster, \A n \in targets : server[n] = "stopped",
               step' = "r_rank", UNCHANGED facts
        PROVE  CarefulInv'
    <3>1. \A n \in Nodes : server[n] = "stopped"
      BY <1>1, <2>1, <2>3 DEF Basics, OthersUntouched
    <3>2. UNCHANGED <<targets, marked, server, safe>>
      BY <2>3 DEF facts, cluster
    <3>3. RecoverFacts'
      BY <1>2, <1>3, <2>1, <2>3, <3>1, <3>2 DEF RecoverFacts, RecoverSteps,
         StoppedSteps, SelectedSteps
    <3>4. QED
      BY <1>3, <1>5, <1>6, <2>3, <3>3
  <2>4. QED
    BY <1>4, <1>9, <2>2, <2>3 DEF RecoverStop, StopTodo, Goto
<1>10. CASE RecoverRank
  <2>1. /\ Recovery /\ targets = Hosts /\ Primaries = {}
        /\ \A n \in Nodes : server[n] = "stopped"
        /\ marked = {n \in Hosts : safe[n] = "1"}
    BY <1>1, <1>10 DEF RecoverRank, RecoverFacts, RecoverSteps, StoppedSteps
  <2>2. UNCHANGED cluster
    BY <1>10 DEF RecoverRank
  <2>3. ASSUME NEW named \in targets, NEW c \in SUBSET {n \in targets : HasPosition(n)},
               marked # {} \/ c = {n \in targets : HasPosition(n)},
               Selected(named, c) = named,
               host' = named, step' = "r_unflag", UNCHANGED targets
        PROVE  CarefulInv'
    <3>1. /\ HasPosition(named) /\ data[named] = committed
          /\ \A n \in Nodes : safe[n] = "1" => n = named
      BY <1>1, <2>1, <2>3, SelectionIsFounded
    <3>2. RecoverFacts'
      BY <1>2, <1>3, <2>1, <2>2, <2>3, <3>1 DEF RecoverFacts, RecoverSteps,
         StoppedSteps, SelectedSteps, cluster, HasPosition
    <3>3. QED
      BY <1>3, <1>5, <1>6, <2>2, <2>3, <3>2
  <2>4. CASE Quit
    BY <1>4, <2>2, <2>4
  <2>5. CASE ~Quit
    <3>1. PICK c \in Readings({n \in targets : HasPosition(n)}), named \in targets :
            /\ Selected(named, c) = named /\ host' = named /\ UNCHANGED targets
            /\ GotoPartly("r_unflag", marked = {} /\ c # {n \in targets : HasPosition(n)})
      BY <1>10, <2>5 DEF RecoverRank
    <3>2. c \in SUBSET {n \in targets : HasPosition(n)} /\ step' = "r_unflag"
      BY <3>1 DEF Readings, GotoPartly
    <3>3. partial' \/ marked # {} \/ c = {n \in targets : HasPosition(n)}
      BY <3>1 DEF GotoPartly
    <3>4. QED
      BY <2>3, <3>1, <3>2, <3>3
  <2>6. QED
    BY <2>4, <2>5
<1>11. QED
  BY <1>7, <1>8, <1>9, <1>10

\* Marking: only the selected host is marked safe when a host is bootstrapped.
LEMMA RecoverMarks ==
  ASSUME Guarded, Typed', RecoverMarkUnsafe \/ RecoverMarkSafe
  PROVE  CarefulInv'
<1>1. /\ ClusterTypeOK /\ ClusterTypeOK' /\ Basics /\ host \in Nodes
      /\ step \in {"r_unflag", "r_flag"} /\ OneLineage
  BY GuardedFacts DEF HostsOnly, BootstrapSteps, RecoverMarkUnsafe, RecoverMarkSafe,
     MarkedSteps, Typed
<1>2. /\ Recovery /\ targets = Hosts /\ Primaries = {}
      /\ \A n \in Nodes : server[n] = "stopped"
      /\ HasPosition(host) /\ data[host] = committed
      /\ \A n \in Nodes : safe[n] = "1" => n = host
  BY <1>1 DEF Guarded, CarefulInv, RecoverFacts, RecoverSteps, StoppedSteps, SelectedSteps
<1>3. UNCHANGED <<site, server, view, data, committed, targets, host>>
  BY DEF RecoverMarkUnsafe, RecoverMarkSafe, Goto, facts
<1>4. Hosts' = Hosts /\ Recovery' = Recovery
  BY <1>3 DEF Hosts, Recovery
<1>5. \A n \in Nodes : HasPosition(n)' = HasPosition(n)
  BY <1>1, <1>2 DEF RecoverMarkUnsafe, RecoverMarkSafe, HasPosition, ClusterTypeOK
<1>6. Basics' /\ Primaries' = Primaries
  BY <1>1, <1>3, <1>5, FlagKeeps
<1>7. \A n \in Nodes : safe'[n] = "1" => n = host
  BY <1>1, <1>2 DEF RecoverMarkUnsafe, RecoverMarkSafe, ClusterTypeOK
<1>8. CASE RecoverMarkUnsafe
  <2>1. \A n \in Nodes : safe'[n] = "1" => safe[n] = "1"
    BY <1>8 DEF RecoverMarkUnsafe
  <2>2. OneLineage'
    BY <1>1, <1>3, <1>5, <2>1, FlagKeeps
  <2>3. step' = "r_flag"
    BY <1>8 DEF RecoverMarkUnsafe, Goto
  <2>4. SiteFacts'
    BY <2>3 DEF SiteFacts, RecoverSteps
  <2>5. RecoverFacts'
    BY <1>1, <1>2, <1>3, <1>4, <1>5, <1>6, <1>7, <2>3
       DEF RecoverFacts, RecoverSteps, StoppedSteps, SelectedSteps
  <2>6. QED
    BY <1>6, <2>2, <2>4, <2>5 DEF CarefulInv, Basics
<1>9. CASE RecoverMarkSafe
  <2>1. step' = "r_start" /\ safe'[host] = "1"
    BY <1>1, <1>9 DEF RecoverMarkSafe, Goto, ClusterTypeOK
  <2>2. SiteFacts'
    BY <2>1 DEF SiteFacts, RecoverSteps
  <2>3. RecoverFacts'
    BY <1>1, <1>2, <1>3, <1>4, <1>5, <1>6, <1>7, <2>1
       DEF RecoverFacts, RecoverSteps, StoppedSteps, SelectedSteps
  <2>4. QED
    BY <1>6, <2>1, <2>2, <2>3 DEF CarefulInv, Basics, MarkedSteps
<1>10. QED
  BY <1>8, <1>9

\* The marked host is bootstrapped where nothing runs.
LEMMA RecoverBootstraps ==
  ASSUME Guarded, Typed', RecoverBootstrap
  PROVE  (partial' \/ CarefulInv') /\ NewCluster(host) /\ Primaries = {} /\ data[host] = committed
<1>1. ClusterTypeOK /\ Basics /\ host \in Hosts /\ host \in Nodes /\ step = "r_start"
  BY GuardedFacts DEF HostsOnly, BootstrapSteps, RecoverBootstrap
<1>2. /\ Recovery /\ targets = Hosts /\ Primaries = {}
      /\ \A n \in Nodes : server[n] = "stopped"
      /\ data[host] = committed /\ safe[host] = "1"
      /\ \A n \in Nodes : safe[n] = "1" => n = host
  BY <1>1 DEF Guarded, CarefulInv, RecoverFacts, RecoverSteps, StoppedSteps, SelectedSteps
<1>3. NewCluster(host)
  BY <1>1, <1>2 DEF RecoverBootstrap, StartCluster
<1>4. UNCHANGED <<site, targets, host>> /\ step' = "r_join"
  BY DEF RecoverBootstrap, GotoPartly
<1>5. /\ Hosts' = Hosts /\ Recovery' = Recovery /\ StartJoiners' = StartJoiners
      /\ partial' \/ StartJoiners
  BY <1>4 DEF Hosts, Recovery, StartJoiners, RecoverBootstrap, GotoPartly
<1>6. safe[Configured] = "missing" => host = Configured
  BY <1>1, <1>2 DEF Basics, FirstIsConfigured
<1>7. Basics' /\ OneView({host})'
  BY <1>1, <1>2, <1>3, <1>4, <1>6, NewClusterKeeps
<1>8. \A n \in Nodes : safe'[n] # "1"
  BY <1>1, <1>2, <1>3 DEF NewCluster, ClusterTypeOK
<1>9. SiteFacts'
  BY <1>4 DEF SiteFacts, RecoverSteps
<1>10. partial' \/ RecoverFacts'
  BY <1>2, <1>4, <1>5, <1>7, <1>8 DEF RecoverFacts, RecoverSteps, StoppedSteps,
     SelectedSteps, OneView
<1>11. QED
  BY <1>2, <1>3, <1>4, <1>7, <1>9, <1>10 DEF CarefulInv, Basics, MarkedSteps

\* The play ends with all hosts in the one component.
LEMMA RecoverJoins ==
  ASSUME Guarded, Typed', RecoverJoin
  PROVE  CarefulInv'
<1>1. ClusterTypeOK /\ Basics /\ todo \subseteq Hosts /\ Hosts \subseteq Nodes
  BY GuardedFacts DEF HostsOnly
<1>2. /\ step = "r_join" /\ Recovery /\ targets = Hosts /\ host \in Primaries
      /\ StartJoiners
      /\ \A n \in Primaries : view[n] = view[host]
      /\ \A n \in Nodes : safe[n] # "1"
  BY DEF RecoverJoin, Guarded, CarefulInv, RecoverFacts, RecoverSteps
<1>3. /\ UNCHANGED site /\ Hosts' = Hosts /\ Recovery' = Recovery
      /\ StartJoiners' = StartJoiners
  BY DEF RecoverJoin, Goto, Quit, Hosts, Recovery, StartJoiners
<1>4. UNCHANGED cluster => Basics' /\ Primaries' = Primaries
  BY <1>1, <1>3, UnchangedKeeps
<1>5. ASSUME NEW n \in todo, StartServer(n), Goto(step), UNCHANGED <<targets, host>>
      PROVE  CarefulInv'
  <2>1. Basics' /\ Primaries' = Primaries
    BY <1>1, <1>3, <1>4, <1>5, OutsideKeeps DEF StartServer, Start
  <2>2. UNCHANGED <<view, safe>> /\ step' = "r_join"
    BY <1>2, <1>5 DEF StartServer, Start, cluster, Goto
  <2>3. RecoverFacts'
    BY <1>2, <1>3, <1>5, <2>1, <2>2 DEF RecoverFacts, RecoverSteps, StoppedSteps, SelectedSteps
  <2>4. SiteFacts'
    BY <2>2 DEF SiteFacts, RecoverSteps
  <2>5. QED
    BY <2>1, <2>2, <2>3, <2>4 DEF CarefulInv, Basics, MarkedSteps
<1>6. ASSUME targets \subseteq Primaries, Quit, UNCHANGED cluster
      PROVE  CarefulInv'
  <2>1. \A m \in Nodes : Whole(m) => m \in view[m] /\ m \in Hosts
    BY <1>1 DEF Basics, OthersUntouched, Whole
  <2>2. \A m \in Nodes : Whole(m) => m \in Primaries
    BY <1>2, <1>6, <2>1
  <2>3. OneLineage
    BY <1>1, <1>2, <2>2 DEF OneLineage, Basics, OneHistory
  <2>4. Kept
    BY <1>1, <1>3, <1>6, <2>3, UnchangedKeeps DEF Kept
  <2>5. SiteFacts' /\ step' \notin RecoverSteps
    BY <1>6 DEF Quit, SiteFacts, RecoverSteps
  <2>6. QED
    BY <2>4, <2>5, CarefulKept
<1>7. QED
  BY <1>2, <1>5, <1>6 DEF RecoverJoin

-----------------------------------------------------------------------------
(* What goes on meanwhile.                                                  *)

\* When a transaction commits or a server joins, there is one component.
LEMMA OneViewWhenRunning ==
  ASSUME Guarded, NEW p \in Primaries
  PROVE  \A m \in Primaries : view[m] = view[p]
<1>1. CASE OneLineage
  BY <1>1, GuardedFacts, LineageHasOneView
<1>2. CASE step \in MarkedSteps
  BY <1>2 DEF Guarded, CarefulInv, RecoverFacts, MarkedSteps, RecoverSteps
<1>3. QED
  BY <1>1, <1>2, GuardedFacts

\* The cluster's own steps change no fact that the plays have found out.
LEMMA NodeStepCareful ==
  ASSUME Guarded, UNCHANGED <<site, play>>, NEW n \in Hosts, NodeStep(n)
  PROVE  CarefulInv'
<1>1. /\ ClusterTypeOK /\ Basics /\ Hosts \subseteq Nodes /\ n \in Nodes
      /\ step \in MarkedSteps \/ OneLineage
  BY GuardedFacts
<1>2. UNCHANGED <<site, step, targets, marked, ranked, host>>
  BY DEF play, facts
<1>3. Hosts' = Hosts /\ Recovery' = Recovery /\ StartJoiners' = StartJoiners
  BY <1>2 DEF Hosts, Recovery, StartJoiners
<1>4. \E p \in Primaries : (Write(n) /\ p = n) \/ Join(n, p)
  <2>1. CASE Write(n)
    BY <1>1, <2>1 DEF Write, Primaries
  <2>2. CASE \E p \in Nodes : Join(n, p)
    <3>1. PICK p \in Nodes : Join(n, p)
      BY <2>2
    <3>2. p \in Primaries
      BY <3>1 DEF Join, Primaries
    <3>3. QED
      BY <3>1, <3>2
  <2>3. QED
    BY <2>1, <2>2 DEF NodeStep
<1>5. PICK p \in Primaries : (Write(n) /\ p = n) \/ Join(n, p)
  BY <1>4
<1>6. p \in Nodes /\ \A m \in Primaries : view[m] = view[p]
  BY OneViewWhenRunning DEF Primaries
<1>7. /\ Basics' /\ (OneLineage => OneLineage')
      /\ \A m \in Nodes : HasPosition(m) => HasPosition(m)'
  <2>1. CASE Write(n) /\ p = n
    BY <1>1, <1>2, <1>6, <2>1, WriteKeeps DEF HasPosition
  <2>2. CASE Join(n, p)
    BY <1>1, <1>2, <1>6, <2>2, JoinKeeps
  <2>3. QED
    BY <1>5, <2>1, <2>2
<1>8. SiteFacts'
  <2>1. SiteFacts /\ (step \in BootstrapSteps => host \in Nodes)
    BY <1>1, GuardedFacts DEF Guarded, CarefulInv, HostsOnly
  <2>2. QED
    BY <1>2, <1>7, <2>1 DEF SiteFacts, HasPosition, BootstrapSteps
<1>9. step \in RecoverSteps => step = "r_join"
  BY <1>5 DEF Guarded, CarefulInv, RecoverFacts
<1>10. RecoverFacts'
  <2>1. CASE step \notin RecoverSteps
    BY <1>2, <2>1 DEF RecoverFacts, RecoverSteps, StoppedSteps, SelectedSteps
  <2>2. CASE step = "r_join"
    <3>1. /\ Recovery /\ targets = Hosts /\ host \in Primaries /\ StartJoiners
          /\ \A m \in Nodes : safe[m] # "1"
      BY <2>2 DEF Guarded, CarefulInv, RecoverFacts, RecoverSteps
    <3>2. \A m \in Nodes : safe'[m] # "1"
      BY <1>1, <1>5, <3>1 DEF Write, Join, ClusterTypeOK
    <3>3. host \in Primaries' /\ \A m \in Primaries' : view'[m] = view'[host]
      <4>1. CASE Write(n)
        BY <1>6, <3>1, <4>1 DEF Write, Primaries
      <4>2. CASE Join(n, p)
        <5>1. OneView(view[p] \cup {n})'
          BY <1>1, <1>2, <1>6, <4>2, JoinKeeps
        <5>2. host \in Primaries'
          BY <1>1, <3>1, <4>2 DEF Join, Primaries, ClusterTypeOK
        <5>3. QED
          BY <5>1, <5>2 DEF OneView
      <4>3. QED
        BY <1>5, <4>1, <4>2
    <3>4. QED
      BY <1>2, <1>3, <2>2, <3>1, <3>2, <3>3 DEF RecoverFacts, RecoverSteps,
         StoppedSteps, SelectedSteps
  <2>3. QED
    BY <1>9, <2>1, <2>2
<1>11. QED
  BY <1>1, <1>2, <1>7, <1>8, <1>10 DEF CarefulInv, Basics

\* What disturbs the cluster does not happen in a calm recovery.
LEMMA ClusterEventCareful ==
  ASSUME Guarded, Typed', ClusterEvent
  PROVE  CarefulInv'
<1>1. /\ ClusterTypeOK /\ Basics /\ Hosts \subseteq Nodes
      /\ step \in MarkedSteps \/ OneLineage
  BY GuardedFacts
<1>2. UNCHANGED <<site, marker, play>>
  BY DEF ClusterEvent
<1>3. PICK n \in Hosts :
        \/ NodeStep(n)
        \/ /\ Calm => step \notin RecoverSteps
           /\ Start(n) \/ Leave(n) \/ NodeFails(n) \/ Reform(n)
  BY DEF ClusterEvent
<1>4. n \in Nodes
  BY <1>1
<1>5. CASE NodeStep(n)
  BY <1>2, <1>5, NodeStepCareful
<1>6. CASE /\ Calm => step \notin RecoverSteps
           /\ Start(n) \/ Leave(n) \/ NodeFails(n) \/ Reform(n)
  <2>1. step \notin RecoverSteps
    BY <1>6, GuardedFacts DEF Guarded, CarefulInv, RecoverFacts
  <2>2. OneLineage
    BY <1>1, <2>1 DEF MarkedSteps, RecoverSteps
  <2>3. ASSUME Start(n) \/ CrashWaiting(n) PROVE Kept
    <3>1. /\ UNCHANGED <<data, safe, committed, view>> /\ server[n] # "primary"
          /\ \E state \in {"waiting", "stopped"} : server' = [server EXCEPT ![n] = state]
      BY <2>3 DEF Start, CrashWaiting
    <3>2. QED
      BY <1>1, <1>2, <2>2, <3>1, OutsideKeeps DEF Kept, HasPosition
  <2>4. ASSUME Leave(n) PROVE Kept
    <3>1. Basics' /\ OneLineage'
      BY <1>1, <1>2, <1>4, <2>2, <2>4, LeaveKeeps
    <3>2. \A m \in Nodes : HasPosition(m) => HasPosition(m)'
      BY <1>1, <2>4 DEF Leave, HasPosition, ClusterTypeOK
    <3>3. QED
      BY <3>1, <3>2 DEF Kept
  <2>5. ASSUME NEW fate \in {"stopped", "waiting"}, Lose(n, fate) PROVE Kept
    <3>1. Basics' /\ OneLineage'
      BY <1>1, <1>2, <1>4, <2>2, <2>5, LoseKeeps
    <3>2. QED
      BY <2>5, <3>1 DEF Lose, Kept, HasPosition
  <2>6. ASSUME Reform(n) PROVE Kept
    BY <1>1, <1>2, <1>4, <2>2, <2>6, ReformKeeps DEF Kept, HasPosition
  <2>7. Kept
    BY <1>6, <2>3, <2>4, <2>5, <2>6 DEF NodeFails
  <2>8. SiteFacts /\ (step \in BootstrapSteps => host \in Nodes)
    BY <1>1, GuardedFacts DEF Guarded, CarefulInv, HostsOnly
  <2>9. SiteFacts' /\ step' \notin RecoverSteps
    BY <1>2, <2>1, <2>7, <2>8 DEF SiteFacts, HasPosition, BootstrapSteps, Kept, play, facts
  <2>10. QED
    BY <2>7, <2>9, CarefulKept
<1>7. QED
  BY <1>3, <1>5, <1>6

-----------------------------------------------------------------------------
(* The theorems.                                                            *)

LEMMA CarefulInit ==
  ASSUME Init
  PROVE  CarefulInv
<1>1. site \in DOMAIN Sites /\ Hosts \subseteq Nodes /\ Configured \in Hosts
  BY SiteType DEF Init
<1>2. /\ ClusterInit(Hosts) /\ step = "idle" /\ ranked = {}
  BY DEF Init
<1>3. SiteFacts /\ RecoverFacts
  BY <1>2 DEF SiteFacts, RecoverFacts, RecoverSteps, StoppedSteps, SelectedSteps
<1>4. OneHistory!1 /\ committed = {} /\ \A n \in Nodes : data[n] = {}
  <2>1. 0 \in 0..MaxWrites /\ 0 \in 0..0 /\ 1..0 = {}
    BY ClusterConstantsOK
  <2>2. QED
    BY <1>2, <2>1 DEF ClusterInit
<1>5. CASE FreshCluster(Hosts)
  <2>1. /\ Primaries = {} /\ \A n \in Nodes : view[n] = {} /\ safe[n] = "missing"
        /\ \A n \in Nodes : n \notin Hosts => server[n] = "stopped"
    BY <1>5 DEF FreshCluster, Primaries
  <2>2. ComponentsRun /\ MembersHavePosition /\ OthersUntouched
    BY <2>1 DEF ComponentsRun, MembersHavePosition, OthersUntouched
  <2>3. OneHistory
    BY <1>4, <2>1 DEF OneHistory
  <2>4. FirstIsConfigured /\ OneLineage
    BY <1>4, <2>1 DEF FirstIsConfigured, OneLineage, Whole
  <2>5. QED
    BY <1>3, <2>2, <2>3, <2>4 DEF CarefulInv
<1>6. CASE RunningCluster(Hosts)
  <2>1. /\ \A n \in Hosts : server[n] = "primary" /\ view[n] = Hosts /\ safe[n] = "0"
        /\ \A n \in Nodes : n \notin Hosts =>
             server[n] = "stopped" /\ view[n] = {} /\ safe[n] = "missing"
    BY <1>1, <1>6 DEF RunningCluster
  <2>2. Primaries = Hosts /\ \A n \in Nodes : Whole(n) => n \in Hosts
    BY <1>1, <2>1 DEF Primaries, Whole
  <2>3. ComponentsRun
    BY <2>1, <2>2 DEF ComponentsRun, Whole
  <2>4. MembersHavePosition /\ OthersUntouched
    BY <1>1, <2>1 DEF MembersHavePosition, OthersUntouched, HasPosition
  <2>5. OneHistory
    BY <1>1, <1>4, <2>2 DEF OneHistory
  <2>6. FirstIsConfigured
    BY <1>1, <2>1 DEF FirstIsConfigured
  <2>7. \A n \in Nodes : safe[n] # "1"
    BY <2>1
  <2>8. OneLineage
    BY <1>4, <2>1, <2>2, <2>7 DEF OneLineage
  <2>9. QED
    BY <1>3, <2>3, <2>4, <2>5, <2>6, <2>8 DEF CarefulInv
<1>7. QED
  BY <1>2, <1>5, <1>6 DEF ClusterInit

LEMMA CarefulStep ==
  ASSUME Guarded, [Next]_vars
  PROVE  partial' \/ CarefulInv'
<1>1. Typed'
  BY TypedStep DEF Guarded
<1>2. CASE Site
  BY <1>1, <1>2, SiteDecides, SiteBootstraps, SiteConverges DEF Site
<1>3. CASE Recover
  BY <1>1, <1>3, RecoverDecides, RecoverMarks, RecoverBootstraps, RecoverJoins DEF Recover
<1>4. CASE PlayEnds
  <2>1. step \notin MarkedSteps
    BY <1>4, GuardedFacts DEF PlayEnds, Guarded, CarefulInv, RecoverFacts,
       MarkedSteps, RecoverSteps
  <2>2. UNCHANGED <<site, cluster>> /\ Quit
    BY <1>4 DEF PlayEnds, Quit
  <2>3. Kept
    BY <2>1, <2>2, GuardedFacts, UnchangedKeeps DEF Kept
  <2>4. SiteFacts' /\ step' \notin RecoverSteps
    BY <2>2 DEF Quit, SiteFacts, RecoverSteps
  <2>5. QED
    BY <2>3, <2>4, CarefulKept
<1>5. CASE ClusterEvent
  BY <1>1, <1>5, ClusterEventCareful
<1>6. CASE NodeReplaced
  <2>1. replaced \in 0..MaxReplaced /\ MaxReplaced = 0 /\ replaced < MaxReplaced
    BY <1>6, GuardedFacts DEF NodeReplaced, Guarded, Typed, FactsTypeOK
  <2>2. QED
    BY <2>1
<1>7. CASE UNCHANGED vars
  <2>1. UNCHANGED <<site, cluster, step, targets, marked, ranked, host>>
    BY <1>7 DEF vars, play, facts
  <2>2. Basics' /\ (OneLineage => OneLineage') /\ Primaries' = Primaries
    BY <2>1, GuardedFacts, UnchangedKeeps
  <2>3. SiteFacts' /\ RecoverFacts'
    BY <2>1, <2>2 DEF Guarded, CarefulInv, SiteFacts, RecoverFacts, Hosts, Recovery,
       StartJoiners, HasPosition, cluster
  <2>4. QED
    BY <2>1, <2>2, <2>3, GuardedFacts DEF CarefulInv, Basics
<1>8. QED
  BY <1>2, <1>3, <1>4, <1>5, <1>6, <1>7 DEF Next

\* The inductive invariant, with the types as the steps above use them.
Inv == Typed /\ (Ordinary => CarefulInv)

LEMMA InvIsIInv == Inv <=> IInv
BY TypedIsTypeOK DEF Inv, IInv

\* A site keeps its settings, and what a partial recovery has done stays done.
LEMMA PartialStays ==
  ASSUME Typed, [Next]_vars
  PROVE  UNCHANGED site /\ partial' \in BOOLEAN /\ (partial => partial')
<1>1. partial \in BOOLEAN /\ partial' \in BOOLEAN
  BY TypedStep DEF Typed, FactsTypeOK
<1>2. Quit \/ (\E next : Goto(next)) => UNCHANGED <<site, partial>>
  BY DEF Goto, Quit
<1>3. (\E next, missing : GotoPartly(next, missing)) => UNCHANGED site /\ (partial => partial')
  BY <1>1 DEF GotoPartly
<1>4. Site => Quit \/ \E next : Goto(next)
  BY DEF Site, SiteStart, SiteProbe, SiteRead, SiteStop, SiteRank, SiteQuiet,
     SiteFlag, SiteVerify, SiteBootstrap, SiteMarker, SiteConverge, SiteSettle,
     SiteBootstrapAgain, SiteRejoin, SiteRestart, SiteAwait, SiteCreateDatabase
<1>5. Recover => Quit \/ (\E next : Goto(next)) \/ \E next, missing : GotoPartly(next, missing)
  <2>1. RecoverRank => Quit \/ \E next, missing : GotoPartly(next, missing)
    BY DEF RecoverRank
  <2>2. RecoverBootstrap => \E next, missing : GotoPartly(next, missing)
    BY DEF RecoverBootstrap
  <2>3. QED
    BY <2>1, <2>2 DEF Recover, RecoverProbe, RecoverRead, RecoverStop,
       RecoverMarkUnsafe, RecoverMarkSafe, RecoverJoin
<1>6. PlayEnds \/ ClusterEvent \/ NodeReplaced \/ UNCHANGED vars => UNCHANGED <<site, partial>>
  BY DEF PlayEnds, ClusterEvent, NodeReplaced, vars, Quit
<1>7. QED
  BY <1>1, <1>2, <1>3, <1>4, <1>5, <1>6 DEF Next

LEMMA InvStep ==
  ASSUME Careful(Sites), Inv, [Next]_vars
  PROVE  Inv'
<1>1. Typed'
  BY TypedStep DEF Inv
<1>2. UNCHANGED site /\ (partial => partial')
  BY PartialStays DEF Inv
<1>3. AutoRecover' = AutoRecover
  BY <1>2 DEF AutoRecover
<1>4. CarefulSite(Sites[site])
  BY DEF Careful, Inv, Typed, HostsOnly
<1>5. Ordinary => partial' \/ CarefulInv'
  BY <1>4, CarefulStep DEF Inv, Guarded, Ordinary
<1>6. QED
  BY <1>1, <1>2, <1>3, <1>5 DEF Inv, Ordinary

LEMMA InvCorrect ==
  ASSUME Careful(Sites)
  PROVE  Spec => []Inv
<1>1. Init => Inv
  BY TypedInit, CarefulInit DEF Inv
<1>2. Inv /\ [Next]_vars => Inv'
  BY InvStep
<1>3. QED
  BY <1>1, <1>2, PTL DEF Spec

\* A site that is run with care has one primary component at most, however the
\* plays, the joins and the failures are interleaved: a play neither starts a
\* second component beside one that runs nor one beside a lost component that
\* could still re-form.
THEOREM OnePrimaryComponent ==
  ASSUME Careful(Sites)
  PROVE  Spec => []OnePrimary
<1>1. Inv => OnePrimary
  <2>1. CASE ~Ordinary
    BY <2>1 DEF OnePrimary
  <2>2. CASE Ordinary /\ Inv
    <3>1. Guarded
      BY <2>2 DEF Inv, Guarded, Ordinary, Careful, Typed, HostsOnly
    <3>2. QED
      BY <3>1, OneViewWhenRunning DEF OnePrimary
  <2>3. QED
    BY <2>1, <2>2
<1>2. QED
  BY <1>1, InvCorrect, PTL

\* Only the three tasks that bootstrap bring a stopped server into a component.
LEMMA BootstrapSources ==
  ASSUME Typed, Next, NEW n \in Nodes, Bootstraps(n)
  PROVE  /\ SiteBootstrap \/ SiteBootstrapAgain \/ RecoverBootstrap
         /\ NewCluster(host) /\ n = host
<1>1. ClusterTypeOK /\ server[n] = "stopped" /\ server'[n] = "primary"
  BY DEF Typed, Bootstraps
<1>2. ~UNCHANGED cluster /\ ~UNCHANGED server
  BY <1>1 DEF cluster
<1>3. \A m, R : ~StopServer(m, R)
  BY <1>1, <1>2 DEF StopServer, Leave, Lose, CrashWaiting, ClusterTypeOK
<1>4. \A m : ~StartServer(m) /\ ~Start(m) /\ ~Replace(m)
  BY <1>1, <1>2 DEF StartServer, Start, Replace, ClusterTypeOK
<1>5. \A m : ~NodeStep(m) /\ ~NodeFails(m) /\ ~Leave(m) /\ ~Reform(m)
  <2>1. \A m : ~Leave(m) /\ ~CrashWaiting(m) /\ ~Write(m)
    BY <1>1 DEF Leave, CrashWaiting, Write, ClusterTypeOK
  <2>2. \A m, fate : fate \in {"stopped", "waiting"} => ~Lose(m, fate)
    BY <1>1 DEF Lose, ClusterTypeOK
  <2>3. \A m, p : ~Join(m, p)
    BY <1>1 DEF Join, ClusterTypeOK
  <2>4. \A m : ~Reform(m)
    BY <1>1 DEF Reform, ClusterTypeOK
  <2>5. QED
    BY <2>1, <2>2, <2>3, <2>4 DEF NodeStep, NodeFails
<1>6. ~ClusterEvent /\ ~NodeReplaced /\ ~PlayEnds
  BY <1>2, <1>4, <1>5 DEF ClusterEvent, NodeReplaced, PlayEnds
<1>7. ~SiteRestart
  BY <1>1 DEF SiteRestart, ClusterTypeOK
<1>8. Site => SiteBootstrap \/ SiteBootstrapAgain
  BY <1>2, <1>3, <1>4, <1>7 DEF Site, SiteStart, SiteProbe, SiteRead, SiteStop, StopTodo,
     SiteRank, SiteQuiet, SiteFlag, SiteVerify, SiteMarker, SiteConverge, SiteSettle,
     SiteRejoin, SiteAwait, SiteCreateDatabase, cluster
<1>9. Recover => RecoverBootstrap
  BY <1>2, <1>3, <1>4 DEF Recover, RecoverProbe, RecoverRead, RecoverStop, StopTodo,
     RecoverRank, RecoverMarkUnsafe, RecoverMarkSafe, RecoverJoin, cluster
<1>10. SiteBootstrap \/ SiteBootstrapAgain \/ RecoverBootstrap
  BY <1>6, <1>8, <1>9 DEF Next
<1>11. NewCluster(host)
  BY <1>2, <1>10 DEF SiteBootstrap, SiteBootstrapAgain, RecoverBootstrap, StartCluster
<1>12. n = host
  BY <1>1, <1>11 DEF NewCluster, ClusterTypeOK
<1>13. QED
  BY <1>10, <1>11, <1>12

\* On such a site a play starts a new component only where nothing committed is
\* missing, as long as no recovery has gone on without the position of a node:
\* what it has read of the nodes is still so when it bootstraps one.
THEOREM BootstrapLosesNothing ==
  ASSUME Careful(Sites)
  PROVE  Spec => BootstrapKeepsCommitted
<1>1. Inv /\ [Next]_vars => [NothingLost]_vars
  <2> SUFFICES ASSUME Inv, Next, Ordinary, NEW n \in Nodes, Bootstraps(n)
               PROVE  committed \subseteq data[n]
    BY DEF NothingLost
  <2>1. Guarded /\ Typed /\ Typed'
    BY TypedStep DEF Inv, Guarded, Ordinary, Careful, Typed, HostsOnly
  <2>2. /\ SiteBootstrap \/ SiteBootstrapAgain \/ RecoverBootstrap
        /\ NewCluster(host) /\ n = host
    BY <2>1, BootstrapSources
  <2>3. data[host] = committed
    BY <2>1, <2>2, SiteBootstraps, RecoverBootstraps
  <2>4. QED
    BY <2>2, <2>3
<1>2. QED
  BY <1>1, InvCorrect, PTL DEF BootstrapKeepsCommitted, Spec

-----------------------------------------------------------------------------

\* Only a recovery that an operator may run gets to its tasks.
RecoveryOnly == step \in RecoverSteps => Recovery

LEMMA RecoveryOnlyStep ==
  ASSUME RecoveryOnly, [Next]_vars
  PROVE  RecoveryOnly'
<1>1. CASE Site
  BY <1>1 DEF Site, SiteStart, SiteProbe, SiteRead, SiteStop, SiteRank, SiteQuiet,
     SiteFlag, SiteVerify, SiteBootstrap, SiteMarker, SiteConverge, SiteSettle,
     SiteBootstrapAgain, SiteRejoin, SiteRestart, SiteAwait, SiteCreateDatabase,
     Goto, Quit, RecoveryOnly, RecoverSteps
<1>2. CASE Recover
  <2>1. Recovery
    BY <1>2 DEF Recover, RecoverProbe, RecoverRead, RecoverStop, RecoverRank,
       RecoverMarkUnsafe, RecoverMarkSafe, RecoverBootstrap, RecoverJoin,
       RecoveryOnly, RecoverSteps
  <2>2. UNCHANGED site
    BY <1>2 DEF Recover, RecoverProbe, RecoverRead, RecoverStop, RecoverRank,
       RecoverMarkUnsafe, RecoverMarkSafe, RecoverBootstrap, RecoverJoin, Goto,
       GotoPartly, Quit
  <2>3. QED
    BY <2>1, <2>2 DEF RecoveryOnly, Recovery
<1>3. CASE PlayEnds
  BY <1>3 DEF PlayEnds, Quit, RecoveryOnly, RecoverSteps
<1>4. CASE ClusterEvent \/ NodeReplaced \/ UNCHANGED vars
  BY <1>4 DEF ClusterEvent, NodeReplaced, vars, play, RecoveryOnly, Recovery
<1>5. QED
  BY <1>1, <1>2, <1>3, <1>4 DEF Next

\* No node has more than all of the history.
LEMMA HistoryIsHighest ==
  ASSUME ClusterTypeOK, Basics, NEW n \in Nodes, NEW m \in Nodes, data[m] = committed
  PROVE  Seqno(n) <= Seqno(m)
<1>1. PICK c \in 0..MaxWrites :
        committed = 1..c /\ \A k \in Nodes : \E i \in 0..c : data[k] = 1..i
  BY DEF Basics, OneHistory
<1>2. PICK i \in 0..c : data[n] = 1..i
  BY <1>1
<1>3. c \in Int /\ 1 \in Int /\ data[n] \subseteq 1..c
  BY <1>1, <1>2
<1>4. IsFiniteSet(1..c)
  BY <1>3, FS_Interval
<1>5. Cardinality(data[n]) <= Cardinality(1..c)
  BY <1>3, <1>4, FS_Subset
<1>6. QED
  BY <1>1, <1>5 DEF Seqno

\* The host that a play chooses has the highest of the positions that it could
\* read: of a site run on whatever site, and of a recovery also where one that is
\* marked safe wins without a comparison, if no earlier recovery was a partial one.
THEOREM ChosenIsHighest ==
  ASSUME Careful(Sites)
  PROVE  Spec => HighestOfRead
<1> DEFINE Chosen == /\ Decides("rank") => HighestOf(ranked')
                     /\ Decides("r_rank") => partial \/ HighestOf(ranked')
<1>1. Inv /\ RecoveryOnly /\ [Next]_vars => [Chosen]_vars
  <2> SUFFICES ASSUME Inv, RecoveryOnly, Next, Decides("rank") \/ Decides("r_rank"),
                      step = "r_rank" => ~partial, NEW n \in ranked'
               PROVE  Seqno(n) <= Seqno(host')
    BY DEF HighestOf, Decides
  <2>1. /\ site \in DOMAIN Sites /\ Hosts \subseteq Nodes /\ targets \subseteq Hosts
        /\ ClusterTypeOK /\ CarefulSite(Sites[site])
    BY SiteType DEF Inv, Typed, HostsOnly, Careful
  <2>2. step \in {"rank", "r_rank"} /\ host' # host /\ host' # NoHost
    BY DEF Decides
  <2>3. (\E R \in Reaches : SiteRank(R)) \/ RecoverRank
    BY <2>2 DEF Next, Site, Recover, SiteStart, SiteProbe, SiteRead, SiteStop, SiteQuiet,
       SiteFlag, SiteVerify, SiteBootstrap, SiteMarker, SiteConverge, SiteSettle,
       SiteBootstrapAgain, SiteRejoin, SiteRestart, SiteAwait, SiteCreateDatabase,
       RecoverProbe, RecoverRead, RecoverStop, RecoverMarkUnsafe, RecoverMarkSafe,
       RecoverBootstrap, RecoverJoin, PlayEnds, ClusterEvent, NodeReplaced, Quit,
       play, facts
  <2>4. ASSUME NEW R \in Reaches, SiteRank(R) PROVE Seqno(n) <= Seqno(host')
    <3>1. PICK c \in Readings({m \in targets \cap R : server[m] = "stopped" /\ HasPosition(m)}) :
            ranked' = c /\ host' = Untied(Highest(c))
      BY <2>2, <2>4 DEF SiteRank, Quit
    <3>2. c \in SUBSET Nodes
      BY <2>1 DEF Readings
    <3>3. Untied(Highest(c)) \in Highest(c)
      BY <2>2, <3>1, <3>2, UntiedIsMember DEF Highest
    <3>4. QED
      BY <3>1, <3>3 DEF Highest
  <2>5. ASSUME RecoverRank PROVE Seqno(n) <= Seqno(host')
    <3>1. Recovery /\ step = "r_rank"
      BY <2>5 DEF RecoverRank, RecoveryOnly, RecoverSteps
    <3>2. Ordinary
      BY <2>1, <3>1 DEF CarefulSite, AutoRecover, Recovery, Ordinary
    <3>3. /\ Basics /\ OneLineage /\ targets = Hosts
          /\ marked = {m \in Hosts : safe[m] = "1"}
      BY <2>1, <2>5, <3>2 DEF RecoverRank, Inv, CarefulInv, RecoverFacts, RecoverSteps,
         MarkedSteps, Basics
    <3>4. PICK c \in Readings({m \in targets : HasPosition(m)}) :
            host' \in targets /\ Selected(host', c) = host' /\ ranked' = c
      BY <2>2, <2>5 DEF RecoverRank, Quit
    <3>5. c \in SUBSET Nodes /\ marked \in SUBSET Nodes
      BY <2>1, <3>3, <3>4 DEF Readings
    <3>6. CASE marked # {}
      <4>1. data[host'] = committed
        BY <2>1, <3>3, <3>4, <3>6, SelectionIsFounded DEF Readings
      <4>2. QED
        BY <2>1, <3>3, <3>4, <3>5, <4>1, HistoryIsHighest
    <3>7. CASE marked = {}
      <4>1. host' \in Highest(c)
        BY <2>1, <2>2, <3>3, <3>4, <3>5, <3>7, SelectedIsMember
      <4>2. QED
        BY <3>4, <4>1 DEF Highest
    <3>8. QED
      BY <3>6, <3>7
  <2>6. QED
    BY <2>3, <2>4, <2>5
<1>2. Init => RecoveryOnly
  BY DEF Init, RecoveryOnly, RecoverSteps
<1>3. QED
  BY <1>1, <1>2, InvCorrect, RecoveryOnlyStep, PTL DEF HighestOfRead, Spec

=============================================================================
