-------------------------- MODULE CertificationProofs --------------------------
(***************************************************************************)
(* Proofs about the readiness play.  The invariant CertificationInv is     *)
(* shown part by part; each part has one lemma about the steps.            *)
(***************************************************************************)
EXTENDS Certification, FiniteSetTheorems, TLAPS

\* The steps beside the play that leave the play and its rules alone.
Environment ==
    \/ \E n \in Hosts : Update(n)
    \/ Release \/ Pull \/ Tick \/ Lose \/ Edit

LEMMA NodesAreHosts ==
    ASSUME setup \in Setups
    PROVE  Nodes \subseteq Hosts
<1>1. "group" \in DOMAIN setup.inv /\ setup.inv.group["nodes"] \subseteq Hosts
  BY CertificationConstantsOK
<1>2. Inv.group = setup.inv.group
  BY <1>1 DEF Inv, InvOf
<1> QED
  BY <1>1, <1>2 DEF Nodes, Active, GroupHosts

LEMMA TypeInit == Init => TypeOK
BY CertificationConstantsOK, SMT
   DEF Init, TypeOK, Revisions, NoIdentity, Steps

LEMMA TypeStep == TypeOK /\ [Next]_vars => TypeOK'
<1> SUFFICES ASSUME TypeOK, [Next]_vars PROVE TypeOK'
  OBVIOUS
<1> USE CertificationConstantsOK DEF TypeOK, Revisions, Steps
<1>1. CASE StartPlay
  <2>1. {s \in DoctorScopes : Checked(s)} \subseteq Scopes
    BY DEF DoctorScopes, Scopes
  <2> QED
    BY <1>1, <2>1 DEF StartPlay, Step, OnAllNodes, installation
<1>2. CASE PassGate \/ RequireOneRevision \/ ReadAutomationRevision
           \/ StampCompletion \/ WriteRecord \/ WriteSha \/ WriteHmac
           \/ VerifyOwnRecord
  BY <1>2, Zenon DEF PassGate, RequireOneRevision, ReadAutomationRevision,
     StampCompletion, WriteRecord, WriteSha, WriteHmac, VerifyOwnRecord, Step,
     installation
<1>3. CASE RunEarlyChecks
  <2>1. {s \in EarlyScopes : Checked(s)} \subseteq Scopes
    BY DEF EarlyScopes, Scopes
  <2> QED
    BY <1>3, <2>1 DEF RunEarlyChecks, Step, installation
<1>4. CASE RunLateChecks
  <2>1. {s \in LateScopes : Checked(s)} \subseteq Scopes
    BY DEF LateScopes, Scopes
  <2> QED
    BY <1>4, <2>1 DEF RunLateChecks, Step, installation
<1>5. CASE \E n \in Hosts : ReadRevision(n)
  BY <1>5 DEF ReadRevision, installation
<1>6. CASE Publish \/ Abort
  BY <1>6 DEF Publish, Abort, Forget, installation
<1>7. CASE \E n \in Hosts : Update(n)
  BY <1>7 DEF Update, OnAllNodes
<1>8. CASE Release \/ Pull \/ Tick
  <2>1. MaxRevision \in Nat /\ MaxHead \in Nat /\ MaxClock \in Nat
    OBVIOUS
  <2>2. latest' \in 1..MaxRevision /\ head' \in 1..MaxHead /\ clock' \in 0..MaxClock
    BY <1>8, <2>1 DEF Release, Pull, Tick, installation
  <2> QED
    BY <1>8, <2>2, Zenon DEF Release, Pull, Tick, play
<1>9. CASE Lose \/ Edit \/ \E h \in Maintainable : ToggleMaintenance(h)
  BY <1>9 DEF Lose, Edit, ToggleMaintenance, play, installation
<1>10. CASE UNCHANGED vars
  BY <1>10 DEF vars, play, installation
<1> QED
  BY <1>1, <1>2, <1>3, <1>4, <1>5, <1>6, <1>7, <1>8, <1>9, <1>10 DEF Next

--------------------------------------------------------------------------------
\* A configuration that passed the gate skips no scope of an HA installation.
LEMMA GateCoversScopes ==
    ASSUME ProductionSafe, Ha
    PROVE  \A s \in Scopes : Checked(s)
BY DEF ProductionSafe, MustBeStrict, HaGate, StrictGate, Requires, Checked, Ha, Scopes

\* Which conditions hold does not change during a play.
LEMMA RulesAreFixed ==
    ASSUME UNCHANGED <<setup, maintained>>
    PROVE  /\ Inv' = Inv
           /\ Nodes' = Nodes
           /\ ProductionSafe' <=> ProductionSafe
           /\ \A S : CheckedOf(S)' = CheckedOf(S)
<1>1. Inv' = Inv
  BY DEF Inv
<1>2. Nodes' = Nodes
  BY <1>1 DEF Nodes
<1>3. Ha' <=> Ha
  BY <1>1 DEF Ha
<1>4. \A s : Requires(s)' <=> Requires(s)
  BY DEF Requires
<1>5. HaGate' <=> HaGate
  BY <1>1, <1>4, Zenon DEF HaGate
<1>6. StrictGate' <=> StrictGate
  BY <1>1, Zenon DEF StrictGate
<1>7. ProductionSafe' <=> ProductionSafe
  BY <1>3, <1>5, <1>6, Zenon DEF ProductionSafe, MustBeStrict
<1>8. \A s : Checked(s)' <=> Checked(s)
  BY <1>1, <1>3, <1>4, Zenon DEF Checked
<1> QED
  BY <1>1, <1>2, <1>7, <1>8 DEF CheckedOf

\* What a step beside the play leaves alone.
LEMMA EnvironmentKeepsPlay ==
    ASSUME Environment
    PROVE  UNCHANGED <<setup, maintained, plays, pc, seen, ran, identity>>
BY DEF Environment, Update, Release, Pull, Tick, Lose, Edit, play, installation

LEMMA ProgressStep ==
    TypeOK /\ ProgressInv /\ [Next]_vars => ProgressInv'
<1> SUFFICES ASSUME TypeOK, ProgressInv, [Next]_vars PROVE ProgressInv'
  OBVIOUS
<1> USE DEF ProgressInv, InPlay, GatePassed, EarlyDone, RevisionKnown, LateDone
<1>1. CASE UNCHANGED <<setup, maintained>> /\ pc' # "idle" /\ ~ StartPlay
  <2> USE <1>1, RulesAreFixed
  <2>1. CASE PassGate
    BY <2>1 DEF PassGate, Step
  <2>2. CASE RunEarlyChecks
    BY <2>2 DEF RunEarlyChecks, Step, CheckedOf
  <2>3. CASE RunLateChecks
    BY <2>3 DEF RunLateChecks, Step, CheckedOf
  <2>4. CASE \E n \in Hosts : ReadRevision(n)
    BY <2>4 DEF ReadRevision
  <2>5. CASE RequireOneRevision \/ ReadAutomationRevision \/ StampCompletion
    BY <2>5 DEF RequireOneRevision, ReadAutomationRevision, StampCompletion, Step
  <2>6. CASE WriteRecord \/ WriteSha \/ WriteHmac \/ VerifyOwnRecord
    BY <2>6 DEF WriteRecord, WriteSha, WriteHmac, VerifyOwnRecord, Step
  <2>7. CASE Publish \/ Abort \/ \E h \in Maintainable : ToggleMaintenance(h)
    BY <2>7 DEF Publish, Abort, Forget, ToggleMaintenance, play
  <2>8. CASE Environment \/ UNCHANGED vars
    BY <2>8, EnvironmentKeepsPlay DEF vars, play
  <2> QED
    BY <2>1, <2>2, <2>3, <2>4, <2>5, <2>6, <2>7, <2>8 DEF Next, Environment
<1>2. CASE StartPlay
  <2>1. plays' > 0
    BY <1>2 DEF StartPlay, TypeOK
  <2>2. CheckedOf(DoctorScopes)' = CheckedOf(DoctorScopes)
    BY <1>2, RulesAreFixed DEF StartPlay
  <2> QED
    BY <1>2, <2>1, <2>2 DEF StartPlay, Step, CheckedOf
<1>3. CASE pc' = "idle"
  BY <1>3
<1>4. UNCHANGED <<setup, maintained>> \/ pc' = "idle"
  BY DEF Next, StartPlay, PassGate, RunEarlyChecks, RunLateChecks, ReadRevision,
     RequireOneRevision, ReadAutomationRevision, StampCompletion, WriteRecord,
     WriteSha, WriteHmac, VerifyOwnRecord, Publish, Abort, Forget,
     ToggleMaintenance, Update, Release, Pull, Tick, Lose, Edit, vars, play
<1> QED
  BY <1>1, <1>2, <1>3, <1>4
--------------------------------------------------------------------------------
LEMMA VersionsStep ==
    TypeOK /\ VersionsInv /\ [Next]_vars => VersionsInv'
<1> SUFFICES ASSUME TypeOK, VersionsInv, [Next]_vars PROVE VersionsInv'
  OBVIOUS
<1> USE DEF VersionsInv, InPlay
<1>1. CASE StartPlay
  BY <1>1, RulesAreFixed DEF StartPlay, installation, OnAllNodes
<1>2. CASE \E n \in Hosts : Update(n)
  <2>1. PICK n \in Hosts : Update(n)
    BY <1>2
  <2>2. \A h \in Hosts : rev'[h] <= latest'
    BY <2>1 DEF Update, TypeOK, Revisions
  <2>3. Nodes' = Nodes
    BY <2>1, RulesAreFixed DEF Update
  <2> QED
    BY <2>1, <2>2, <2>3 DEF Update, OnAllNodes
<1>3. CASE Release
  <2>1. Nodes' = Nodes
    BY <1>3, RulesAreFixed DEF Release
  <2>2. \A h \in Hosts : rev'[h] <= latest'
    BY <1>3 DEF Release, TypeOK, Revisions
  <2> QED
    BY <1>3, <2>1, <2>2 DEF Release, play, OnAllNodes
<1>4. CASE Publish \/ Abort
  BY <1>4 DEF Publish, Abort, Forget, installation
<1>5. CASE \E h \in Maintainable : ToggleMaintenance(h)
  BY <1>5 DEF ToggleMaintenance, installation, play
<1>6. CASE /\ ~ StartPlay /\ ~ Publish /\ ~ Abort /\ ~ Release
           /\ ~ \E n \in Hosts : Update(n)
           /\ ~ \E h \in Maintainable : ToggleMaintenance(h)
  <2>1. UNCHANGED <<setup, maintained, rev, latest, together>>
    BY <1>6 DEF Next, PassGate, RunEarlyChecks, RunLateChecks, ReadRevision,
       RequireOneRevision, ReadAutomationRevision, StampCompletion,
       WriteRecord, WriteSha, WriteHmac, VerifyOwnRecord, Pull, Tick, Lose,
       Edit, vars, play, installation
  <2>2. pc' # "idle" => pc # "idle"
    BY <1>6 DEF Next, PassGate, RunEarlyChecks, RunLateChecks, ReadRevision,
       RequireOneRevision, ReadAutomationRevision, StampCompletion,
       WriteRecord, WriteSha, WriteHmac, VerifyOwnRecord, Pull, Tick, Lose,
       Edit, vars, play, Step
  <2> QED
    BY <2>1, <2>2, RulesAreFixed DEF OnAllNodes
<1> QED
  BY <1>1, <1>2, <1>3, <1>4, <1>5, <1>6

--------------------------------------------------------------------------------
\* What ReadingInv says of one commit.
SettledAt(c) ==
    \/ c \in together
    \/ \A n \in Visited : rev[n] = c
    \/ latest > c /\ \E m \in Nodes \ Visited : rev[m] # c

\* Reading the commit of one more node.
LEMMA ReadingOneMore ==
    ASSUME TypeOK, ReadingInv, NEW k \in Hosts, ReadRevision(k)
    PROVE  ReadingInv'
<1>1. /\ pc = "revisions" /\ pc' = pc
      /\ k \in Nodes /\ seen[k] = 0
      /\ seen' = [seen EXCEPT ![k] = rev[k]]
      /\ UNCHANGED <<setup, maintained, rev, latest, together>>
  BY DEF ReadRevision, installation
<1>2. Nodes' = Nodes /\ Nodes \subseteq Hosts
  BY <1>1, RulesAreFixed, NodesAreHosts DEF TypeOK
<1>3. Visited' = Visited \cup {k}
  BY <1>1, <1>2 DEF Visited, TypeOK, Revisions
<1>4. ~ RevisionKnown'
  BY <1>1 DEF RevisionKnown, EarlyDone
<1>5. ASSUME NEW c \in Revisions, \A n \in Visited' : seen'[n] = c
      PROVE  SettledAt(c)'
  <2>1. rev[k] = c
    BY <1>1, <1>3, <1>5 DEF TypeOK
  <2>2. \A n \in Visited : n # k /\ seen[n] = c
    BY <1>1, <1>2, <1>3, <1>5 DEF Visited, TypeOK
  <2>3. CASE Visited = {}
    BY <2>1, <2>3, <1>1, <1>3 DEF SettledAt
  <2>4. CASE Visited # {}
    <3>1. SettledAt(c)
      BY <2>2, <2>4, <1>1 DEF ReadingInv, InPlay, RevisionKnown, EarlyDone,
         GatePassed, SettledAt
    <3>2. CASE c \in together
      BY <3>2, <1>1 DEF SettledAt
    <3>3. CASE \A n \in Visited : rev[n] = c
      BY <3>3, <2>1, <1>1, <1>3 DEF SettledAt
    <3>4. CASE latest > c /\ \E m \in Nodes \ Visited : rev[m] # c
      BY <3>4, <2>1, <1>1, <1>2, <1>3 DEF SettledAt
    <3> QED
      BY <3>1, <3>2, <3>3, <3>4 DEF SettledAt
  <2> QED
    BY <2>3, <2>4
<1> QED
  BY <1>1, <1>4, <1>5 DEF ReadingInv, SettledAt, Revisions

\* An update beside the loop: a node that leaves the commit just read was at it
\* together with all others, or there is one that cannot have it any more.
LEMMA ReadingBesideUpdate ==
    ASSUME TypeOK, VersionsInv, ReadingInv, NEW k \in Hosts, Update(k)
    PROVE  ReadingInv'
<1>1. /\ rev[k] < latest /\ rev' = [rev EXCEPT ![k] = latest]
      /\ UNCHANGED <<setup, maintained, latest, pc, seen>>
  BY DEF Update
<1>2. Nodes' = Nodes /\ Nodes \subseteq Hosts
  BY <1>1, RulesAreFixed, NodesAreHosts DEF TypeOK
<1>3. Visited' = Visited
  BY <1>1, <1>2 DEF Visited
<1>4. CASE pc = "idle"
  BY <1>1, <1>4 DEF ReadingInv, InPlay, RevisionKnown, EarlyDone, GatePassed
<1>5. CASE pc # "idle"
  <2>1. together \subseteq together' /\ OnAllNodes(rev) \subseteq together
    BY <1>5 DEF Update, VersionsInv, InPlay
  <2>2. SourceRevision' = SourceRevision
    BY <1>1, <1>2 DEF SourceRevision
  <2>3. ASSUME NEW c \in Revisions, SettledAt(c)
        PROVE  SettledAt(c)'
    <3>1. CASE c \in together
      BY <3>1, <2>1 DEF SettledAt
    <3>2. CASE (\A n \in Visited : rev[n] = c) /\ k \notin Visited
      BY <3>2, <1>1, <1>2, <1>3 DEF SettledAt, TypeOK, Visited
    <3>3. CASE (\A n \in Visited : rev[n] = c) /\ k \in Visited
      <4>1. latest > c
        BY <3>3, <1>1 DEF TypeOK, Revisions
      <4>2. CASE \A n \in Nodes : rev[n] = c
        BY <4>2, <2>1 DEF OnAllNodes, SettledAt
      <4>3. CASE \E m \in Nodes \ Visited : rev[m] # c
        BY <4>1, <4>3, <3>3, <1>1, <1>2, <1>3 DEF SettledAt, TypeOK
      <4> QED
        BY <4>2, <4>3, <3>3
    <3>4. CASE latest > c /\ \E m \in Nodes \ Visited : rev[m] # c
      BY <3>4, <1>1, <1>2, <1>3 DEF SettledAt, TypeOK, Revisions
    <3> QED
      BY <2>3, <3>1, <3>2, <3>3, <3>4 DEF SettledAt
  <2> QED
    BY <1>1, <1>3, <2>1, <2>2, <2>3 DEF ReadingInv, SettledAt, InPlay,
       RevisionKnown, EarlyDone, GatePassed, Revisions
<1> QED
  BY <1>4, <1>5

\* When all nodes are read and agree, their commit was on all of them at once.
LEMMA OneRevisionIsShared ==
    ASSUME TypeOK, VersionsInv, ReadingInv, RequireOneRevision
    PROVE  SourceRevision \in together
<1>1. Nodes \subseteq Hosts
  BY NodesAreHosts DEF TypeOK
<1>2. PICK c : {seen[n] : n \in Nodes} = {c}
  <2>1. IsFiniteSet(0..MaxRevision)
    <3>1. MaxRevision \in Int
      BY CertificationConstantsOK
    <3> QED
      BY <3>1, FS_Interval
  <2> DEFINE S == {seen[n] : n \in Nodes}
  <2>2. S \subseteq 0..MaxRevision
    BY <1>1 DEF TypeOK
  <2>3. Cardinality(S) = 1
    BY DEF RequireOneRevision
  <2>4. \E c : S = {c}
    <3> HIDE DEF S
    <3>1. IsFiniteSet(S)
      BY <2>1, <2>2, FS_Subset
    <3> QED
      BY <2>3, <3>1, FS_Singleton
  <2> QED
    BY <2>4
<1>3. SourceRevision = c
  BY <1>2 DEF SourceRevision
<1>4. Visited = Nodes /\ Nodes # {} /\ \A n \in Nodes : seen[n] = c
  BY <1>2 DEF RequireOneRevision, Visited
<1>5. c \in Revisions
  BY <1>1, <1>4 DEF TypeOK, Revisions, Visited
<1>6. pc = "revisions"
  BY DEF RequireOneRevision, Step
<1>7. SettledAt(c)
  BY <1>4, <1>5, <1>6 DEF ReadingInv, SettledAt, InPlay, RevisionKnown, EarlyDone,
     GatePassed
<1> QED
  BY <1>3, <1>4, <1>5, <1>6, <1>7 DEF SettledAt, VersionsInv, InPlay, OnAllNodes

LEMMA ReadingStep ==
    TypeOK /\ VersionsInv /\ ReadingInv /\ [Next]_vars => ReadingInv'
<1> SUFFICES ASSUME TypeOK, VersionsInv, ReadingInv, [Next]_vars
             PROVE  ReadingInv'
  OBVIOUS
<1> USE DEF InPlay, RevisionKnown, EarlyDone, GatePassed
<1>1. CASE \E n \in Hosts : ReadRevision(n)
  BY <1>1, ReadingOneMore
<1>2. CASE \E n \in Hosts : Update(n)
  BY <1>2, ReadingBesideUpdate
<1>3. CASE RequireOneRevision
  <2>1. SourceRevision' = SourceRevision
    BY <1>3, RulesAreFixed DEF RequireOneRevision, SourceRevision
  <2> QED
    BY <1>3, <2>1, OneRevisionIsShared DEF RequireOneRevision, ReadingInv, Step
<1>4. CASE StartPlay
  <2>1. Nodes' \subseteq Hosts
    BY <1>4, NodesAreHosts, RulesAreFixed DEF StartPlay, TypeOK
  <2>2. Visited' = {}
    BY <1>4, <2>1 DEF StartPlay, Visited
  <2> QED
    BY <1>4, <2>2 DEF StartPlay, Step, ReadingInv
<1>5. CASE Release
  <2>1. UNCHANGED <<setup, maintained, rev, pc, seen, together>>
    BY <1>5 DEF Release, play
  <2>2. UNCHANGED <<Nodes, Visited, SourceRevision>>
    BY <2>1, RulesAreFixed DEF Visited, SourceRevision
  <2>3. \A c \in Revisions : latest > c => latest' > c
    BY <1>5 DEF Release, TypeOK, Revisions
  <2> QED
    BY <2>1, <2>2, <2>3 DEF ReadingInv, Revisions
<1>6. CASE Publish \/ Abort \/ \E h \in Maintainable : ToggleMaintenance(h)
  BY <1>6 DEF Publish, Abort, Forget, ToggleMaintenance, play, ReadingInv
<1>7. CASE /\ ~ StartPlay /\ ~ RequireOneRevision /\ ~ Publish /\ ~ Abort
           /\ ~ Release /\ ~ \E n \in Hosts : Update(n) \/ ReadRevision(n)
           /\ ~ \E h \in Maintainable : ToggleMaintenance(h)
  <2>1. UNCHANGED <<setup, maintained, rev, latest, seen, together>>
    BY <1>7 DEF Next, PassGate, RunEarlyChecks, RunLateChecks,
       ReadAutomationRevision, StampCompletion, WriteRecord, WriteSha,
       WriteHmac, VerifyOwnRecord, Pull, Tick, Lose, Edit, vars, play,
       installation
  <2>2. (InPlay' <=> InPlay) /\ (RevisionKnown' <=> RevisionKnown)
    BY <1>7 DEF Next, PassGate, RunEarlyChecks, RunLateChecks,
       ReadAutomationRevision, StampCompletion, WriteRecord, WriteSha,
       WriteHmac, VerifyOwnRecord, Pull, Tick, Lose, Edit, vars, play, Step
  <2>3. UNCHANGED <<Nodes, Visited, SourceRevision>>
    BY <2>1, RulesAreFixed DEF Visited, SourceRevision
  <2> QED
    BY <2>1, <2>2, <2>3 DEF ReadingInv
<1> QED
  BY <1>1, <1>2, <1>3, <1>4, <1>5, <1>6, <1>7

--------------------------------------------------------------------------------
LEMMA FilesStep ==
    TypeOK /\ ProgressInv /\ FilesInv /\ [Next]_vars => FilesInv'
<1> SUFFICES ASSUME TypeOK, ProgressInv, FilesInv, [Next]_vars
             PROVE  FilesInv'
  OBVIOUS
<1> USE DEF FilesInv, Written, Hmac
<1>1. CASE WriteRecord
  BY <1>1 DEF WriteRecord, Step, NoFiles, ProgressInv, InPlay
<1>2. CASE WriteSha
  BY <1>2 DEF WriteSha, Step
<1>3. CASE WriteHmac
  BY <1>3 DEF WriteHmac, Step, Sidecar
<1>4. CASE Lose
  BY <1>4 DEF Lose, play
<1>5. CASE Edit
  BY <1>5 DEF Edit, play, Edits, TypeOK
<1>6. CASE ~ WriteRecord /\ ~ WriteSha /\ ~ WriteHmac /\ ~ Lose /\ ~ Edit
  <2>1. UNCHANGED <<setup, files, origin>>
    BY <1>6 DEF Next, StartPlay, PassGate, RunEarlyChecks, RunLateChecks,
       ReadRevision, RequireOneRevision, ReadAutomationRevision,
       StampCompletion, VerifyOwnRecord, Publish, Abort, Forget,
       ToggleMaintenance, Update, Release, Pull, Tick, vars
  <2>2. Written' => Written
    BY <1>6 DEF Next, StartPlay, PassGate, RunEarlyChecks, RunLateChecks,
       ReadRevision, RequireOneRevision, ReadAutomationRevision,
       StampCompletion, VerifyOwnRecord, Publish, Abort, Forget,
       ToggleMaintenance, Update, Release, Pull, Tick, vars, play, Step
  <2> QED
    BY <2>1, <2>2
<1> QED
  BY <1>1, <1>2, <1>3, <1>4, <1>5, <1>6

\* The play claims only what it has checked, once it is through its checks.
LEMMA AllChecksBehind ==
    ASSUME ProgressInv, LateDone, Ha
    PROVE  Scopes \subseteq ran
<1>1. \A s \in Scopes : Checked(s)
  BY GateCoversScopes DEF ProgressInv, LateDone, RevisionKnown, EarlyDone
<1>2. CheckedOf(DoctorScopes) \cup CheckedOf(EarlyScopes) \cup CheckedOf(LateScopes)
        \subseteq ran
  BY DEF ProgressInv, InPlay, LateDone, RevisionKnown, EarlyDone, GatePassed
<1>3. Scopes = DoctorScopes \cup EarlyScopes \cup LateScopes
  BY DEF Scopes, DoctorScopes, EarlyScopes, LateScopes
<1> QED
  BY <1>1, <1>2, <1>3 DEF CheckedOf

LEMMA OriginStep ==
    ProgressInv /\ ReadingInv /\ FilesInv /\ OriginInv /\ [Next]_vars => OriginInv'
<1> SUFFICES ASSUME ProgressInv, ReadingInv, FilesInv, OriginInv, [Next]_vars
             PROVE  OriginInv'
  OBVIOUS
<1>1. CASE WriteRecord
  <2>1. RevisionKnown /\ LateDone
    BY <1>1 DEF WriteRecord, Step, LateDone, RevisionKnown, EarlyDone, GatePassed
  <2>2. origin' = [record |-> Record, ran |-> ran, together |-> together]
    BY <1>1 DEF WriteRecord
  <2>3. Record.source \in together
    BY <2>1 DEF Record, ReadingInv
  <2>4. Record.mode = "ha" => Record.claims \subseteq ran
    <3>1. ASSUME Ha PROVE setup.flags = Scopes
      BY <2>1, <3>1 DEF ProgressInv, ProductionSafe, MustBeStrict, StrictGate,
         LateDone, RevisionKnown, EarlyDone
    <3> QED
      BY <2>1, <3>1, AllChecksBehind DEF Record, Claims, Ha
  <2>5. Record.fingerprint.inactive = Record.inactive
    BY DEF Record, Fingerprint, FingerprintOf, Inv
  <2> QED
    BY <2>2, <2>3, <2>4, <2>5 DEF OriginInv
<1>2. CASE ~ WriteRecord
  <2>1. UNCHANGED origin /\ files'.name = files.name
    BY <1>2 DEF Next, StartPlay, PassGate, RunEarlyChecks, RunLateChecks,
       ReadRevision, RequireOneRevision, ReadAutomationRevision,
       StampCompletion, WriteSha, WriteHmac, VerifyOwnRecord, Publish, Abort,
       Forget, ToggleMaintenance, Update, Release, Pull, Tick, Lose, Edit,
       vars, FilesInv
  <2> QED
    BY <2>1 DEF OriginInv
<1> QED
  BY <1>1, <1>2

LEMMA CertificationInit == Init => CertificationInv
<1> SUFFICES ASSUME Init PROVE CertificationInv
  OBVIOUS
<1>1. TypeOK
  BY TypeInit
<1>2. ProgressInv
  BY DEF Init, ProgressInv, InPlay, GatePassed, EarlyDone, RevisionKnown, LateDone
<1>3. VersionsInv
  BY DEF Init, VersionsInv, InPlay
<1>4. ReadingInv
  BY DEF Init, ReadingInv, InPlay, RevisionKnown, EarlyDone, GatePassed
<1>5. FilesInv /\ OriginInv
  BY DEF Init, FilesInv, OriginInv, NoFiles, Written
<1> QED
  BY <1>1, <1>2, <1>3, <1>4, <1>5 DEF CertificationInv

THEOREM CertificationInvariant == Spec => []CertificationInv
<1>1. CertificationInv /\ [Next]_vars => CertificationInv'
  BY TypeStep, ProgressStep, VersionsStep, ReadingStep, FilesStep, OriginStep
     DEF CertificationInv
<1> QED
  BY CertificationInit, <1>1, PTL DEF Spec

--------------------------------------------------------------------------------
\* What the verifier accepts carries the HMAC of what the play wrote.
LEMMA AuthenticIsOriginal ==
    ASSUME FilesInv, NEW expected, Accepts(expected)
    PROVE  files.record = origin.record /\ files.name > 0
<1>1. KeyFrom(Stdin) = setup.key
  BY DEF KeyFrom, Stdin
<1>2. KeyFrom(NodeEnvironment) = setup.key
  BY DEF KeyFrom, NodeEnvironment, KeyOfEnvironment
<1>3. PICK source \in {Stdin, NodeEnvironment} : AcceptsWith(source, expected)
  BY DEF Accepts
<1>4. SidecarIs(files.hmac, files.name, Hmac(setup.key, files.record))
  BY <1>1, <1>2, <1>3 DEF AcceptsWith, Verified, Authentic
<1>5. files.record # Missing
  BY <1>3 DEF AcceptsWith, Verified
<1> QED
  BY <1>4, <1>5 DEF FilesInv, SidecarIs, Hmac

\* The variables of the readiness play keep to their types.
THEOREM TypeCorrect == Spec => []TypeOK
BY CertificationInvariant, PTL DEF CertificationInv

\* An accepted record is what a play wrote.
THEOREM AcceptedOriginal == Spec => []AcceptedIsOriginal
<1>1. CertificationInv => AcceptedIsOriginal
  BY AuthenticIsOriginal DEF CertificationInv, AcceptedIsOriginal, Accepted
<1> QED
  BY CertificationInvariant, <1>1, PTL

\* An accepted HA record claims nothing that its run did not check.
THEOREM ClaimsChecked == Spec => []HaClaimsWereChecked
<1>1. CertificationInv => HaClaimsWereChecked
  BY AuthenticIsOriginal DEF CertificationInv, HaClaimsWereChecked, Accepted, OriginInv
<1> QED
  BY CertificationInvariant, <1>1, PTL

\* The commit of an accepted record was on all nodes at one moment.
THEOREM CertifiedAtOnce == Spec => []CertifiedTogether
<1>1. CertificationInv => CertifiedTogether
  BY AuthenticIsOriginal DEF CertificationInv, CertifiedTogether, Accepted, OriginInv
<1> QED
  BY CertificationInvariant, <1>1, PTL

\* With today's fingerprint no HA record is accepted while a host is in
\* maintenance or decommissioned.
THEOREM NotReused == Spec => []NoReuseInMaintenance
<1>1. CertificationInv => NoReuseInMaintenance
  <2> SUFFICES ASSUME FilesInv, OriginInv,
                      Accepts([IdentityOf(files.record) EXCEPT
                                  !.fingerprint = Fingerprint]),
                      files.record.mode = "ha"
               PROVE  Inactive(Inv) = {}
    BY DEF CertificationInv, NoReuseInMaintenance
  <2>1. files.record = origin.record /\ files.name > 0
    BY AuthenticIsOriginal
  <2>2. files.record.inactive = {}
    BY DEF Accepts, AcceptsWith, Verified, Strict, TopologyComplete
  <2>3. files.record.fingerprint = Fingerprint
    BY DEF Accepts, AcceptsWith, Verified, AsExpected, IdentityOf
  <2> QED
    BY <2>1, <2>2, <2>3 DEF OriginInv, Fingerprint, FingerprintOf, Inv
<1> QED
  BY CertificationInvariant, <1>1, PTL

--------------------------------------------------------------------------------
(***************************************************************************)
(* The verdict of the play on its own record.  What the record says is     *)
(* fixed from `late' on, and WriteRecord, WriteSha and WriteHmac make the  *)
(* three files agree.                                                      *)
(***************************************************************************)

\* Where the play stands when the parts of the invariant speak of it.
LEMMA PlayPositions ==
    /\ RevisionKnown <=> pc \notin {"idle", "gate", "early", "revisions"}
    /\ InPlay <=> pc # "idle"
BY DEF RevisionKnown, EarlyDone, GatePassed, InPlay

\* The record is a function of what the play has read and of the inventory.
LEMMA RecordIsFixed ==
    ASSUME UNCHANGED <<setup, maintained, seen, ran, identity>>
    PROVE  Record' = Record
<1>1. Inv' = Inv /\ Nodes' = Nodes
  BY RulesAreFixed
<1>2. Fingerprint' = Fingerprint
  BY DEF Fingerprint
<1>3. SourceRevision' = SourceRevision
  BY <1>1 DEF SourceRevision
<1> QED
  BY <1>1, <1>2, <1>3 DEF Record, Claims

LEMMA NoIdentityOK ==
    TypeOK => NoIdentity \in [automation : 0..MaxHead, completed : 0..clock]
BY CertificationConstantsOK DEF TypeOK, NoIdentity

\* Time does not go back.
LEMMA TimeGoesOn ==
    TypeOK /\ [Next]_vars => clock' \in Nat /\ clock <= clock'
<1> SUFFICES ASSUME TypeOK, [Next]_vars PROVE clock' \in Nat /\ clock <= clock'
  OBVIOUS
<1>1. clock \in Nat
  BY DEF TypeOK
<1>2. CASE Tick
  BY <1>1, <1>2 DEF Tick
<1>3. CASE ~ Tick
  <2>1. clock' = clock
    BY <1>3 DEF Next, StartPlay, PassGate, RunEarlyChecks, RunLateChecks, ReadRevision,
       RequireOneRevision, ReadAutomationRevision, StampCompletion, WriteRecord,
       WriteSha, WriteHmac, VerifyOwnRecord, Publish, Abort, Forget,
       ToggleMaintenance, Update, Release, Pull, Lose, Edit, vars, installation
  <2> QED
    BY <1>1, <2>1
<1> QED
  BY <1>2, <1>3

LEMMA VerdictInit == Init => VerdictInv
<1> SUFFICES ASSUME Init PROVE VerdictInv
  OBVIOUS
<1>1. maintained \in Maintained
  BY DEF Init, Maintained
<1>2. pc = "idle" /\ identity \in [automation : 0..MaxHead, completed : 0..clock]
  BY CertificationConstantsOK DEF Init, NoIdentity
<1> QED
  BY <1>1, <1>2, PlayPositions DEF VerdictInv, Written

LEMMA VerdictStep ==
    TypeOK /\ FilesInv /\ VerdictInv /\ [Next]_vars => VerdictInv'
<1> SUFFICES ASSUME TypeOK, FilesInv, VerdictInv, [Next]_vars PROVE VerdictInv'
  OBVIOUS
<1> USE DEF VerdictInv
<1>1. CASE pc' = "idle"
  <2>1. maintained' \in Maintained
    BY <1>1 DEF Next, StartPlay, PassGate, RunEarlyChecks, RunLateChecks, ReadRevision,
       RequireOneRevision, ReadAutomationRevision, StampCompletion, WriteRecord,
       WriteSha, WriteHmac, VerifyOwnRecord, Publish, Abort, Forget,
       ToggleMaintenance, Update, Release, Pull, Tick, Lose, Edit, vars, play, Maintained
  <2>2. identity' \in {identity, NoIdentity}
    BY <1>1 DEF Next, StartPlay, PassGate, RunEarlyChecks, RunLateChecks, ReadRevision,
       RequireOneRevision, ReadAutomationRevision, StampCompletion, WriteRecord,
       WriteSha, WriteHmac, VerifyOwnRecord, Publish, Abort, Forget, Step,
       ToggleMaintenance, Update, Release, Pull, Tick, Lose, Edit, vars, play
  <2>3. identity' \in [automation : 0..MaxHead, completed : 0..clock]
    BY <2>2, NoIdentityOK
  <2>4. identity' \in [automation : 0..MaxHead, completed : 0..clock']
    BY <2>3, TimeGoesOn DEF TypeOK
  <2> QED
    BY <1>1, <2>1, <2>4 DEF InPlay, RevisionKnown, EarlyDone, GatePassed, Written
<1>2. CASE pc' # "idle" /\ StartPlay
  <2>1. /\ UNCHANGED <<setup, maintained, clock>>
        /\ DoctorAccepts(Inv) /\ pc' = "gate"
        /\ identity' = NoIdentity
    BY <1>2 DEF StartPlay, Step, installation
  <2>2. Inv' = Inv
    BY <2>1, RulesAreFixed
  <2>3. identity' \in [automation : 0..MaxHead, completed : 0..clock']
    BY <2>1, NoIdentityOK
  <2> QED
    BY <2>1, <2>2, <2>3 DEF InPlay, RevisionKnown, EarlyDone, GatePassed, Written
<1>3. CASE pc' # "idle" /\ ~ StartPlay
  <2>1. /\ UNCHANGED <<setup, maintained>> /\ pc # "idle"
    BY <1>3 DEF Next, PassGate, RunEarlyChecks, RunLateChecks, ReadRevision,
       RequireOneRevision, ReadAutomationRevision, StampCompletion, WriteRecord,
       WriteSha, WriteHmac, VerifyOwnRecord, Publish, Abort, Forget,
       ToggleMaintenance, Update, Release, Pull, Tick, Lose, Edit, vars, play, Step
  <2>2. Inv' = Inv /\ DoctorAccepts(Inv)
    BY <2>1, RulesAreFixed DEF InPlay
  <2>3. CASE WriteRecord
    <3>1. UNCHANGED <<setup, maintained, seen, ran, identity, clock>>
      BY <2>3 DEF WriteRecord, installation
    <3>2. files'.record = Record'
      BY <2>3, <3>1, RecordIsFixed DEF WriteRecord, NoFiles
    <3>3. pc = "write" /\ pc' \in {"sha", "publish"}
      BY <2>3 DEF WriteRecord, Step
    <3> QED
      BY <3>1, <3>2, <3>3, <2>1, <2>2 DEF RevisionKnown, EarlyDone, GatePassed
  <2>4. CASE WriteSha
    <3>1. UNCHANGED <<setup, maintained, seen, ran, identity, clock>>
      BY <2>4 DEF WriteSha, installation
    <3>2. pc = "sha" /\ pc' \in {"hmac", "publish"}
      BY <2>4 DEF WriteSha, Step
    <3>3. files.record = Record /\ Record' = Record
      BY <3>1, <3>2, RecordIsFixed DEF Written
    <3>4. files' = [files EXCEPT !.sha = Sidecar(files.name, Digest(files.record))]
      BY <2>4 DEF WriteSha
    <3>5. /\ files'.sha = Sidecar(files'.name, Digest(files'.record))
          /\ files'.record = Record'
      BY <3>3, <3>4 DEF FilesInv
    <3> QED
      BY <3>1, <3>2, <3>5, <2>1, <2>2 DEF RevisionKnown, EarlyDone, GatePassed
  <2>5. CASE WriteHmac
    <3>1. UNCHANGED <<setup, maintained, seen, ran, identity, clock>>
      BY <2>5 DEF WriteHmac, installation
    <3>2. pc = "hmac" /\ pc' = "verify"
      BY <2>5 DEF WriteHmac, Step
    <3>3. files.record = Record /\ Record' = Record
      BY <3>1, <3>2, RecordIsFixed DEF Written
    <3>4. files' = [files EXCEPT !.hmac =
                       Sidecar(files.name, Hmac(setup.key, files.record))]
      BY <2>5 DEF WriteHmac
    <3>5. /\ files'.hmac = Sidecar(files'.name, Hmac(setup'.key, files'.record))
          /\ files'.record = Record' /\ files'.sha = files.sha
          /\ files'.name = files.name
      BY <3>1, <3>3, <3>4 DEF FilesInv
    <3> QED
      BY <3>1, <3>2, <3>3, <3>5, <2>1, <2>2 DEF RevisionKnown, EarlyDone, GatePassed
  <2>6. CASE Lose
    <3>1. UNCHANGED <<setup, maintained, seen, ran, identity, clock, pc>>
      BY <2>6 DEF Lose, play, installation
    <3>2. /\ files'.record = files.record /\ files'.name = files.name
          /\ files'.sha \in {files.sha, Missing}
          /\ files'.hmac \in {files.hmac, Missing}
      BY <2>6 DEF Lose, FilesInv
    <3>3. Record' = Record
      BY <3>1, RecordIsFixed
    <3> QED
      BY <3>1, <3>2, <3>3, <2>2 DEF RevisionKnown, EarlyDone, GatePassed, Written, InPlay
  <2>7. CASE PassGate \/ RunEarlyChecks \/ RequireOneRevision \/ RunLateChecks
             \/ (\E n \in Hosts : ReadRevision(n)) \/ VerifyOwnRecord
    <3>1. UNCHANGED <<files, identity, clock>>
      BY <2>7 DEF PassGate, RunEarlyChecks, RequireOneRevision, RunLateChecks,
         ReadRevision, VerifyOwnRecord, installation
    <3>2. pc' \notin {"sha", "hmac", "verify"}
      BY <2>7 DEF PassGate, RunEarlyChecks, RequireOneRevision, RunLateChecks,
         ReadRevision, VerifyOwnRecord, Step
    <3>3. RevisionKnown' /\ pc' # "automation" => RevisionKnown /\ pc # "automation"
      BY <2>7 DEF PassGate, RunEarlyChecks, RequireOneRevision, RunLateChecks,
         ReadRevision, VerifyOwnRecord, Step, RevisionKnown, EarlyDone, GatePassed
    <3> QED
      BY <3>1, <3>2, <3>3, <2>1, <2>2 DEF Written
  <2>8. CASE ReadAutomationRevision
    <3>1. pc' = "late" /\ identity' = [identity EXCEPT !.automation = head]
          /\ clock' = clock
      BY <2>8 DEF ReadAutomationRevision, Step, installation
    <3>2. /\ identity' \in [automation : 0..MaxHead, completed : 0..clock]
          /\ identity'.automation > 0
      BY <3>1 DEF TypeOK
    <3> QED
      BY <3>1, <3>2, <2>1, <2>2 DEF Written
  <2>9. CASE StampCompletion
    <3>1. /\ pc = "stamp" /\ pc' \in {"write", "publish"} /\ clock' = clock
          /\ identity' = [identity EXCEPT !.completed = clock]
      BY <2>9 DEF StampCompletion, Step, installation
    <3>2. /\ identity' \in [automation : 0..MaxHead, completed : 0..clock]
          /\ identity'.automation = identity.automation
      BY <3>1 DEF TypeOK
    <3> QED
      BY <3>1, <3>2, <2>1, <2>2 DEF Written, RevisionKnown, EarlyDone, GatePassed
  <2>10. CASE (Environment /\ ~ Lose) \/ UNCHANGED vars
    <3>1. UNCHANGED <<setup, maintained, pc, seen, ran, identity, files>>
      BY <2>10, <2>1 DEF Environment, Update, Release, Pull, Tick, Edit, play, vars
    <3>2. Record' = Record
      BY <3>1, RecordIsFixed
    <3>3. clock' \in Nat /\ clock <= clock'
      BY <2>10, TimeGoesOn
    <3>4. identity' \in [automation : 0..MaxHead, completed : 0..clock']
      BY <3>1, <3>3 DEF TypeOK
    <3> QED
      BY <3>1, <3>2, <3>4, <2>2 DEF RevisionKnown, EarlyDone, GatePassed, Written, InPlay
  <2> QED
    BY <1>3, <2>3, <2>4, <2>5, <2>6, <2>7, <2>8, <2>9, <2>10
       DEF Next, Environment, Publish, Abort, Forget, ToggleMaintenance, play
<1> QED
  BY <1>1, <1>2, <1>3

--------------------------------------------------------------------------------
\* A play that is through its checks keeps the topology that an HA record needs.
LEMMA HaTopology ==
    ASSUME ProductionSafe, DoctorAccepts(Inv), Ha, Inv.required = MinimumHosts
    PROVE  TopologyComplete(Record)
<1>1. /\ Cardinality(Active(Inv, "db")) >= 3
      /\ Cardinality(Active(Inv, "redis")) >= 3
      /\ Cardinality(Active(Inv, "lb")) >= 2
      /\ Cardinality(PlayWeb(Inv)) >= 2
      /\ Inactive(Inv) = {}
  BY DEF ProductionSafe, MustBeStrict, HaGate, StrictGate
<1>2. Cardinality(Nodes) >= 2
  <2>1. Inv.required.nodes = 2
    BY DEF MinimumHosts
  <2>2. Cardinality(Nodes) >= Inv.required.nodes
    BY Zenon DEF DoctorAccepts, Ha, Nodes
  <2>3. QED
    BY <2>1, <2>2, Zenon
<1> QED
  BY <1>1, <1>2 DEF TopologyComplete, MinimumNodes, Record

\* The verifier of the play accepts the record, where the files are all there
\* and the record is not too old.
LEMMA VerdictFollows ==
    ASSUME CertificationInv, VerdictInv, MaxAge >= 1
    PROVE  GatesImplyVerdict
<1> SUFFICES ASSUME pc = "verify", Inv.mode \in {"ha", "standalone"}, Inv.required = MinimumHosts,
                    files.record # Missing, files.sha # Missing,
                    files.hmac # Missing, clock - identity.completed <= MaxAge
             PROVE  AcceptsWith(Stdin, OwnIdentity)
  BY DEF GatesImplyVerdict
<1>1. LateDone /\ RevisionKnown /\ GatePassed /\ InPlay /\ Written
  BY DEF LateDone, RevisionKnown, EarlyDone, GatePassed, InPlay, Written
<1>2. ProductionSafe /\ DoctorAccepts(Inv)
  BY <1>1 DEF CertificationInv, ProgressInv, VerdictInv
<1>3. files.record = Record
  BY <1>1 DEF VerdictInv
<1>4. /\ SidecarIs(files.sha, files.name, Digest(Record))
      /\ SidecarIs(files.hmac, files.name, Hmac(setup.key, Record))
  BY <1>3 DEF VerdictInv, SidecarIs, Sidecar
<1>5. Passing(Record)
  BY DEF Passing, Record
<1>6. Named(Record)
  BY <1>2 DEF Named, Record, ProductionSafe, Ha, HaGate
<1>7. SourceRevision > 0
  <2>1. SourceRevision \in together /\ together \subseteq Revisions
    BY <1>1 DEF CertificationInv, ReadingInv, TypeOK
  <2> QED
    BY <2>1 DEF Revisions
<1>8. identity.automation > 0
  BY <1>1 DEF VerdictInv
<1>9. Fingerprint # Missing
  BY InventoriesOK DEF CertificationInv, TypeOK, VerdictInv, Fingerprint
<1>10. Identified(Record)
  BY <1>7, <1>8, <1>9 DEF Identified, Record
<1>11. Strict(Record)
  <2> SUFFICES ASSUME Ha
               PROVE  /\ \A s \in Scopes : Claimed(Record, s)
                      /\ TopologyComplete(Record)
                      /\ Measured(Record)
    BY DEF Strict, Record, Ha
  <2>1. \A s \in Scopes : Claimed(Record, s)
    BY <1>2 DEF ProductionSafe, MustBeStrict, StrictGate, Claimed, Record, Claims
  <2>2. TopologyComplete(Record)
    BY <1>2, HaTopology
  <2>3. Scopes \subseteq ran
    BY <1>1, AllChecksBehind DEF CertificationInv
  <2>4. Measured(Record)
    BY <2>3 DEF Measured, Nonnegative, Record, Durations, Scopes
  <2> QED
    BY <2>1, <2>2, <2>4
<1>12. Fresh(Record, MaxAge, clock)
  BY CertificationConstantsOK DEF Fresh, Record, CertificationInv, VerdictInv, TypeOK
<1>13. AsExpected(Record, OwnIdentity)
  BY <1>7, <1>8 DEF AsExpected, OwnIdentity, Record
<1>14. KeyFrom(Stdin) = setup.key /\ Usable(setup.key)
  BY <1>2 DEF KeyFrom, Stdin, ProductionSafe
<1>15. Authentic(files, Stdin)
  BY <1>3, <1>4, <1>14 DEF Authentic
<1> QED
  BY <1>3, <1>4, <1>5, <1>6, <1>10, <1>11, <1>12, <1>13, <1>15
     DEF AcceptsWith, Verified

\* The rules of the doctor, of the gate and of the verifier agree: a play whose
\* configuration passes the first two does not refuse its own record, if records
\* may have an age at all.
THEOREM GatesAndVerdictAgree ==
    ASSUME MaxAge >= 1
    PROVE  Spec => []GatesImplyVerdict
<1>1. CertificationInv /\ VerdictInv /\ [Next]_vars => VerdictInv'
  BY VerdictStep DEF CertificationInv
<1>2. CertificationInv /\ VerdictInv => GatesImplyVerdict
  BY VerdictFollows
<1>3. Init => VerdictInv
  BY VerdictInit
<1> QED
  BY CertificationInvariant, <1>1, <1>2, <1>3, PTL DEF Spec

--------------------------------------------------------------------------------
\* What the inventory check lets through, rule by rule.
LEMMA ValidMeansRules ==
    ASSUME NEW inv, Valid(inv, FALSE)
    PROVE  /\ NodesDeclared(inv) /\ AddressesDistinct(inv)
           /\ NodeIdsDistinct(inv) /\ HaRule(inv) /\ VipRule(inv)
           /\ GaleraRule(inv) /\ SentinelRule(inv) /\ GlusterRule(inv)
           /\ NumbersRule(inv) /\ AuthPassRule(inv, FALSE)
           /\ PlaceholderRule(inv, FALSE)
<1>1. \A e : e \notin Errors(inv, FALSE)
  BY DEF Valid
<1> QED
  BY <1>1, Zenon DEF Errors

\* Names that the script tells apart are apart for the doctor, if they differ in
\* more than case.
LEMMA UniqueForDoctor ==
    ASSUME NEW name, NEW S \in SUBSET Managed(Inv), Injective(name, S),
           ~ DifferInCase(name)
    PROVE  DoctorUnique(name, S)
BY DEF DoctorUnique, Injective, DifferInCase

\* The doctor accepts what the inventory check accepts, for every inventory of
\* which both know the same and which has none of the things that only the
\* doctor looks for.
LEMMA CheckImpliesDoctor ==
    ASSUME Valid(File, FALSE), ~ Overlooked,
           \A h \in DoctorManaged(Inv) : Inv.address[h] # ""
    PROVE  DoctorAccepts(Inv)
<1> DEFINE file == File
           inv == Inv
<1>1. /\ file.group = inv.group /\ file.maintenance = inv.maintenance
      /\ file.decommission = inv.decommission /\ file.address = inv.address
      /\ file.id = inv.id /\ file.mode = inv.mode /\ file.vipEnabled = inv.vipEnabled
      /\ file.vip = inv.vip /\ file.dbMode = inv.dbMode /\ file.redisMode = inv.redisMode
      /\ file.rrdMode = inv.rrdMode /\ file.cidr = inv.cidr /\ file.vrid = inv.vrid
      /\ file.authPass = inv.authPass /\ file.placeholders = inv.placeholders
  BY DEF Overlooked, AsRead
<1>2. /\ WebCapable(file) = PlayWeb(inv) /\ Text \notin {inv.cidr, inv.vrid}
      /\ inv.authPassText /\ Placeholders(inv, DoctorMarks \ ScriptMarks) = {}
      /\ SnmpUsable(inv) /\ ~ DifferInCase(inv.address) /\ ~ DifferInCase(inv.id)
      /\ inv.required = MinimumHosts
  BY DEF Overlooked
<1>3. \A g : Active(file, g) = Active(inv, g)
  BY <1>1 DEF Active, GroupHosts, Inactive
<1>4. Managed(file) = Managed(inv)
  BY <1>3 DEF Managed
<1> USE ValidMeansRules
<1>5. DoctorManaged(inv) \subseteq Managed(inv) /\ Active(inv, "nodes") \subseteq Managed(inv)
  BY DEF DoctorManaged, Managed, Groups
<1> HIDE DEF file, inv
<1>6. Injective(inv.address, DoctorManaged(inv)) /\ Injective(inv.id, Active(inv, "nodes"))
  <2>1. AddressesDistinct(file) /\ NodeIdsDistinct(file)
    BY DEF file
  <2>2. QED
    BY <1>1, <1>3, <1>4, <1>5, <2>1 DEF AddressesDistinct, NodeIdsDistinct, HostAddress, Injective
<1>7. DoctorUnique(inv.address, DoctorManaged(inv)) /\ DoctorUnique(inv.id, Active(inv, "nodes"))
  BY <1>2, <1>5, <1>6, UniqueForDoctor DEF inv
<1>8. /\ HaRule(file) /\ VipRule(file) /\ GaleraRule(file) /\ SentinelRule(file)
      /\ GlusterRule(file) /\ NumbersRule(file) /\ AuthPassRule(file, FALSE)
      /\ PlaceholderRule(file, FALSE) /\ NodesDeclared(file)
  BY DEF file
<1>9. /\ inv.required.nodes = 2 /\ inv.required.lb = 2 /\ inv.required.db = 3
      /\ inv.required.redis = 3 /\ inv.required.gluster = 3
  <2>1. /\ MinimumHosts.nodes = 2 /\ MinimumHosts.lb = 2 /\ MinimumHosts.db = 3
        /\ MinimumHosts.redis = 3 /\ MinimumHosts.gluster = 3
    BY DEF MinimumHosts
  <2>2. inv.required = MinimumHosts
    BY <1>2
  <2>3. QED
    BY <2>1, <2>2, Zenon
<1>10. inv.mode = "ha" =>
          /\ Cardinality(Active(inv, "nodes")) >= inv.required.nodes
          /\ Cardinality(PlayWeb(inv)) >= inv.required.nodes
          /\ Cardinality(Active(inv, "lb")) >= inv.required.lb
          /\ inv.vipEnabled /\ inv.vip # ""
  <2>1. inv.mode = "ha" =>
          /\ Cardinality(Active(file, "nodes")) >= 2 /\ Cardinality(WebCapable(file)) >= 2
          /\ Cardinality(Active(file, "lb")) >= 2
          /\ inv.vipEnabled /\ inv.vip # ""
    BY <1>1, <1>8, Zenon DEF HaRule
  <2>2. inv.mode = "ha" =>
          /\ Cardinality(Active(inv, "nodes")) >= 2 /\ Cardinality(PlayWeb(inv)) >= 2
          /\ Cardinality(Active(inv, "lb")) >= 2
    <3>1. Active(file, "nodes") = Active(inv, "nodes") /\ Active(file, "lb") = Active(inv, "lb")
      BY <1>3
    <3>2. QED
      BY <1>2, <2>1, <3>1, Zenon
  <2>3. QED
    BY <1>9, <2>1, <2>2, Zenon
<1>11. /\ NodesDeclared(inv)
       /\ inv.dbMode = "galera" => Cardinality(Active(inv, "db")) >= inv.required.db
       /\ inv.redisMode = "sentinel" => Cardinality(Active(inv, "redis")) >= inv.required.redis
       /\ inv.rrdMode = "glusterfs" => Cardinality(Active(inv, "gluster")) >= inv.required.gluster
  BY <1>1, <1>3, <1>8, <1>9 DEF NodesDeclared, GaleraRule, SentinelRule, GlusterRule
<1>12. \A h \in DoctorManaged(inv) : inv.vip # inv.address[h]
  BY <1>1, <1>4, <1>5, <1>8 DEF VipRule, inv
<1>13. DoctorInt(inv.cidr) \in 1..32 /\ DoctorInt(inv.vrid) \in 1..255
  BY <1>1, <1>2, <1>8 DEF NumbersRule, ScriptInt, DoctorInt
<1>14. inv.vipEnabled => inv.authPass \in 1..8
  BY <1>1, <1>8 DEF AuthPassRule
<1>15. Placeholders(inv, DoctorMarks) = {}
  BY <1>1, <1>2, <1>8 DEF PlaceholderRule, Placeholders
<1>16. DoctorAccepts(inv)
  BY <1>2, <1>7, <1>10, <1>11, <1>12, <1>13, <1>14, <1>15, Zenon DEF DoctorAccepts
<1> QED
  BY <1>16 DEF inv

\* A configuration that the local check lets through is refused by the doctor
\* for nothing but the differences that Overlooked lists.
THEOREM CheckForetellsDoctor == Spec => []CheckPredictsDoctor
<1>1. TypeOK => CheckPredictsDoctor
  <2> SUFFICES ASSUME TypeOK, Valid(File, FALSE), ~ Overlooked
               PROVE  DoctorAccepts(Inv)
    BY DEF CheckPredictsDoctor
  <2>1. Inv.group = setup.inv.group /\ Inv.address = setup.inv.address
    BY CertificationConstantsOK, InventoriesOK DEF TypeOK, Inv, InvOf
  <2>2. \A h \in DoctorManaged(Inv) : Inv.address[h] # ""
    BY <2>1, InventoriesOK DEF DoctorManaged, Active, GroupHosts, TypeOK
  <2> QED
    BY <2>2, CheckImpliesDoctor
<1> QED
  BY TypeCorrect, <1>1, PTL
=============================================================================
