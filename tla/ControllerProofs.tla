--------------------------- MODULE ControllerProofs ---------------------------
(***************************************************************************)
(* Proofs about the controller: for any launchers, checkouts and pins, a   *)
(* launcher that nobody disturbs reaches its pins, and the play that it    *)
(* starts keeps them.                                                      *)
(***************************************************************************)
EXTENDS Controller, WellFoundedInduction, TLAPS

\* What changes neither the collections nor the steps of the launchers.
LEMMA InvIsLocal ==
  ASSUME UndisturbedInv,
         UNCHANGED <<repo, pc, collections>>
  PROVE  UndisturbedInv'
BY DEF UndisturbedInv, Syncing, Settled, Harmless, collections

\* The steps of bootstrap-controller.sh leave the launchers alone.
LEMMA BootstrapKeepsInv ==
  ASSUME ControllerInv, Bootstrap
  PROVE  ControllerInv'
<1> USE DEF ControllerInv
<1>1. setup' = setup /\ UNCHANGED <<repo, pc, collections>>
  BY DEF Bootstrap, BootCheck, BootVenv, BootPip, BootInstall, BootReady, BootEnds, collections
<1>2. UndisturbedInv'
  BY <1>1, InvIsLocal
<1>3. /\ boot' \in [step : BootSteps, repo : setup.repos, last : setup.repos]
      /\ ready' \in {"no", "pulled", "misread", "sound"}
  <2> USE DEF TypeOK, BootSteps
  <2>1. CASE BootCheck
    BY <2>1 DEF BootCheck
  <2>2. CASE BootVenv
    BY <2>2 DEF BootVenv, BootStep
  <2>3. CASE BootPip
    BY <2>3 DEF BootPip, BootStep
  <2>4. CASE BootInstall
    BY <2>4 DEF BootInstall
  <2>5. CASE BootReady
    BY <2>5 DEF BootReady, BootStep
  <2>6. CASE BootEnds
    BY <2>6 DEF BootEnds
  <2> QED
    BY <2>1, <2>2, <2>3, <2>4, <2>5, <2>6 DEF Bootstrap
<1>4. TypeOK'
  BY <1>1, <1>3 DEF TypeOK, Collections, Versions, collections
<1> QED
  BY <1>2, <1>4

\* A pull makes every launcher a disturbed one.
LEMMA PullKeepsInv ==
  ASSUME ControllerInv, Pull
  PROVE  ControllerInv'
<1>1. TypeOK'
  BY DEF ControllerInv, TypeOK, Pull, Collections, Versions, environment
<1>2. UndisturbedInv'
  BY DEF ControllerInv, UndisturbedInv, Pull
<1> QED
  BY <1>1, <1>2 DEF ControllerInv

\* The pinned collections of the checkout are among those considered.
LEMMA PinsAreCollections ==
  ASSUME TypeOK
  PROVE  /\ DOMAIN repo.pins \subseteq Collections
         /\ \A c \in DOMAIN repo.pins : repo.pins[c] \in Versions
BY DEF TypeOK, Collections, Versions

\* A launcher's step keeps the types.
LEMMA LaunchKeepsTypes ==
  ASSUME TypeOK, NEW l \in Launchers, Launch(l)
  PROVE  TypeOK'
<1> USE DEF TypeOK
<1>1. setup' = setup /\ UNCHANGED <<repo, boot, ready>>
  BY DEF Launch, Choose, ReadVersions, ApplyRules, CheckState, Gather, Replace,
         Complete, Recheck, Play, LauncherEnds, environment
<1>2. Collections' = Collections /\ Versions' = Versions
  BY <1>1 DEF Collections, Versions
<1>3. pc' \in [Launchers -> LaunchSteps]
  <2> USE DEF LaunchSteps, SyncSteps
  <2>1. CASE Choose(l) \/ ReadVersions(l) \/ ApplyRules(l)
    BY <2>1 DEF Choose, ReadVersions, ApplyRules, Goto
  <2>2. CASE CheckState(l) \/ Gather(l)
    BY <2>2 DEF CheckState, Gather, Goto
  <2>3. CASE \E c \in Collections : Replace(l, c) \/ Complete(l, c)
    BY <2>3 DEF Replace, Complete
  <2>4. CASE Recheck(l) \/ Play(l) \/ LauncherEnds(l)
    BY <2>4 DEF Recheck, Play, LauncherEnds, Goto
  <2> QED
    BY <2>1, <2>2, <2>3, <2>4 DEF Launch
<1>4. dir' \in [Collections -> setup.dirs \cup Versions \cup {Absent, Invalid}]
  <2>1. CASE UNCHANGED dir
    BY <2>1
  <2>2. ASSUME NEW c \in Collections, Replace(l, c)
        PROVE  dir' \in [Collections -> setup.dirs \cup Versions \cup {Absent, Invalid}]
    BY <2>2 DEF Replace
  <2>3. ASSUME NEW c \in Collections, Complete(l, c)
        PROVE  dir' \in [Collections -> setup.dirs \cup Versions \cup {Absent, Invalid}]
    <3>1. todo[l][c] \in Versions
      BY <2>3 DEF Complete
    <3> QED
      BY <2>3, <3>1 DEF Complete
  <2> QED
    BY <2>1, <2>2, <2>3 DEF Launch, Choose, ReadVersions, ApplyRules, CheckState,
       Gather, Recheck, Play, LauncherEnds, collections
<1>5. /\ DOMAIN todo' = Launchers
      /\ \A k \in Launchers : /\ DOMAIN todo'[k] \subseteq Collections
                              /\ \A c \in DOMAIN todo'[k] : todo'[k][c] \in Versions
  <2> DEFINE Owns(f) == /\ DOMAIN f \subseteq Collections
                        /\ \A c \in DOMAIN f : f[c] \in Versions
  <2>1. (\E f : Owns(f) /\ todo' = [todo EXCEPT ![l] = f]) \/ UNCHANGED todo
    <3>1. CASE Gather(l)
      <4>1. PICK S \in SUBSET DOMAIN repo.pins :
              todo' = [todo EXCEPT ![l] = [c \in S |-> repo.pins[c]]]
        BY <3>1 DEF Gather
      <4>2. Owns([c \in S |-> repo.pins[c]])
        BY PinsAreCollections
      <4> QED
        BY <4>1, <4>2
    <3>2. ASSUME NEW c \in Collections, Complete(l, c)
          PROVE  \E f : Owns(f) /\ todo' = [todo EXCEPT ![l] = f]
      <4>1. todo' = [todo EXCEPT ![l] = [d \in DOMAIN todo[l] \ {c} |-> todo[l][d]]]
        BY <3>2 DEF Complete
      <4>2. Owns([d \in DOMAIN todo[l] \ {c} |-> todo[l][d]])
        OBVIOUS
      <4> QED
        BY <4>1, <4>2
    <3>3. CASE LauncherEnds(l)
      <4>1. todo' = [todo EXCEPT ![l] = [c \in {} |-> Absent]]
        BY <3>3 DEF LauncherEnds
      <4>2. Owns([c \in {} |-> Absent])
        OBVIOUS
      <4> QED
        BY <4>1, <4>2
    <3> HIDE DEF Owns
    <3> QED
      BY <3>1, <3>2, <3>3 DEF Launch, Choose, ReadVersions, ApplyRules,
         CheckState, Replace, Recheck, Play, collections
  <2> QED
    BY <2>1
<1>6. undisturbed' \in [Launchers -> BOOLEAN]
  <2>1. CASE UNCHANGED undisturbed
    BY <2>1
  <2>2. CASE CheckState(l)
    <3> DEFINE now(m) == IF m = l THEN \A k \in Launchers \ {l} : ~ Syncing(k)
                         ELSE undisturbed[m] /\ ~ Syncing(m)
    <3>1. undisturbed' = [m \in Launchers |-> now(m)]
      BY <2>2 DEF CheckState
    <3>2. \A m \in Launchers : now(m) \in BOOLEAN
      BY Zenon DEF Syncing
    <3> QED
      BY <3>1, <3>2
  <2>3. CASE LauncherEnds(l)
    BY <2>3 DEF LauncherEnds
  <2> QED
    BY <2>1, <2>2, <2>3 DEF Launch, Choose, ReadVersions, ApplyRules, Gather,
       Replace, Complete, Recheck, Play, collections
<1> QED
  BY <1>1, <1>2, <1>3, <1>4, <1>5, <1>6

\* A step of the launcher that leaves the collections alone and enters or
\* leaves no step of their synchronization keeps the invariant.
LEMMA OutsideKeepsInv ==
  ASSUME TypeOK, UndisturbedInv, NEW l \in Launchers, Launch(l),
         UNCHANGED <<repo, collections>>,
         pc[l] \notin SyncSteps \cup {"playing"},
         pc' = [pc EXCEPT ![l] = pc'[l]], pc'[l] \notin SyncSteps \cup {"playing"}
  PROVE  UndisturbedInv'
BY DEF TypeOK, UndisturbedInv, Syncing, Settled, Harmless, collections, SyncSteps

\* The check of the state: whoever synchronizes is disturbed from now on, and
\* beside a settled play there is nothing to force.
LEMMA CheckKeepsInv ==
  ASSUME TypeOK, UndisturbedInv, NEW l \in Launchers, CheckState(l)
  PROVE  UndisturbedInv'
<1> USE DEF TypeOK, Syncing, SyncSteps
<1>1. /\ UNCHANGED <<repo, dir, todo>>
      /\ pc[l] = "check" /\ pc' = [pc EXCEPT ![l] = pc'[l]] /\ pc'[l] \in {"plain", "force"}
      /\ pc'[l] = "plain" <=> Mismatches(repo.pins, dir, FALSE) = {}
  BY DEF CheckState, Goto
<1>2. \A m \in Launchers \ {l} : undisturbed'[m] => undisturbed[m] /\ ~ Syncing(m)
  BY DEF CheckState
<1>3. undisturbed'[l] => \A k \in Launchers \ {l} : ~ Syncing(k)
  BY DEF CheckState
<1>4. pc'[l] = "plain" => \A c \in DOMAIN repo.pins : dir[c] \in {Absent, repo.pins[c]}
  BY <1>1 DEF Mismatches, IsInstalled
<1>5. Settled => pc'[l] = "plain"
  BY <1>1 DEF Settled, Mismatches, IsInstalled
<1> SUFFICES ASSUME NEW m \in Launchers, undisturbed'[m]
             PROVE  UndisturbedInv!(m)!2'
  BY DEF UndisturbedInv
<1>6. CASE m = l
  BY <1>1, <1>3, <1>4, <1>6
<1>7. CASE m # l
  <2>1. pc[m] = "playing" /\ pc'[m] = "playing" /\ Settled
    BY <1>1, <1>2, <1>7 DEF UndisturbedInv
  <2>2. \A k \in Launchers : Harmless(k)'
    BY <1>1, <1>2, <1>5, <1>7, <2>1 DEF UndisturbedInv, Harmless
  <2> QED
    BY <1>1, <2>1, <2>2 DEF Settled
<1> QED
  BY <1>6, <1>7

\* ansible-galaxy plans what is missing: nothing beside a settled play.
LEMMA GatherKeepsInv ==
  ASSUME TypeOK, UndisturbedInv, NEW l \in Launchers, Gather(l)
  PROVE  UndisturbedInv'
<1> USE DEF TypeOK, Syncing, SyncSteps
<1>1. /\ UNCHANGED <<repo, dir, undisturbed>>
      /\ pc[l] \in {"plain", "force"} /\ pc' = [pc EXCEPT ![l] = "install"]
  BY DEF Gather, Goto
<1>2. PICK S \in SUBSET DOMAIN repo.pins :
        /\ {c \in DOMAIN repo.pins : pc[l] = "force" \/ dir[c] = Absent} \subseteq S
        /\ \A c \in S : pc[l] = "force" \/ dir[c] # repo.pins[c]
        /\ todo' = [todo EXCEPT ![l] = [c \in S |-> repo.pins[c]]]
  BY DEF Gather
<1>3. todo'[l] = [c \in S |-> repo.pins[c]] /\ \A k \in Launchers \ {l} : todo'[k] = todo[k]
  BY <1>2
<1> SUFFICES ASSUME NEW m \in Launchers, undisturbed'[m]
             PROVE  UndisturbedInv!(m)!2'
  BY DEF UndisturbedInv
<1>4. CASE m = l
  <2>1. \A k \in Launchers \ {l} : ~ Syncing(k)'
    BY <1>1, <1>4 DEF UndisturbedInv
  <2>2. \A c \in DOMAIN repo.pins \ S : dir[c] = repo.pins[c]
    BY <1>1, <1>2, <1>4 DEF UndisturbedInv
  <2> QED
    BY <1>1, <1>3, <1>4, <2>1, <2>2
<1>5. CASE m # l
  <2>1. pc[m] = "playing" /\ pc'[m] = "playing" /\ Settled
    BY <1>1, <1>5 DEF UndisturbedInv
  <2>2. S = {}
    BY <1>1, <1>2, <1>5, <2>1 DEF UndisturbedInv, Harmless, Settled
  <2>3. \A k \in Launchers : Harmless(k)'
    BY <1>1, <1>3, <1>5, <2>1, <2>2 DEF UndisturbedInv, Harmless
  <2> QED
    BY <1>1, <2>1, <2>3 DEF Settled
<1> QED
  BY <1>4, <1>5

\* A collection is replaced or completed only by a launcher that has it to do:
\* no other launcher is then undisturbed.
LEMMA InstallKeepsInv ==
  ASSUME TypeOK, UndisturbedInv, NEW l \in Launchers, NEW c \in Collections,
         Replace(l, c) \/ Complete(l, c)
  PROVE  UndisturbedInv'
<1> USE DEF TypeOK, Syncing, SyncSteps
<1>1. /\ UNCHANGED <<repo, pc, undisturbed>>
      /\ pc[l] = "install" /\ c \in DOMAIN todo[l]
  BY DEF Replace, Complete
<1>2. \A d \in Collections \ {c} : dir'[d] = dir[d]
  BY DEF Replace, Complete
<1>3. \/ todo' = todo
      \/ /\ dir'[c] = todo[l][c]
         /\ todo' = [todo EXCEPT ![l] = [d \in DOMAIN todo[l] \ {c} |-> todo[l][d]]]
  BY DEF Replace, Complete
<1> SUFFICES ASSUME NEW m \in Launchers, undisturbed'[m]
             PROVE  UndisturbedInv!(m)!2'
  BY DEF UndisturbedInv
<1>4. m = l
  BY <1>1 DEF UndisturbedInv, Harmless
<1>5. \A d \in DOMAIN repo.pins :
        IF d \in DOMAIN todo'[l] THEN todo'[l][d] = repo.pins[d] ELSE dir'[d] = repo.pins[d]
  <2>1. DOMAIN repo.pins \subseteq Collections
    BY PinsAreCollections
  <2>2. \A d \in DOMAIN repo.pins :
          IF d \in DOMAIN todo[l] THEN todo[l][d] = repo.pins[d] ELSE dir[d] = repo.pins[d]
    BY <1>1, <1>4 DEF UndisturbedInv
  <2>3. CASE todo' = todo
    BY <1>1, <1>2, <2>1, <2>2, <2>3
  <2>4. CASE /\ dir'[c] = todo[l][c]
             /\ todo' = [todo EXCEPT ![l] = [d \in DOMAIN todo[l] \ {c} |-> todo[l][d]]]
    BY <1>1, <1>2, <2>1, <2>2, <2>4
  <2> QED
    BY <1>3, <2>3, <2>4
<1> QED
  BY <1>1, <1>4, <1>5 DEF UndisturbedInv

\* The second check lets an undisturbed launcher through.
LEMMA RecheckKeepsInv ==
  ASSUME TypeOK, UndisturbedInv, NEW l \in Launchers, Recheck(l)
  PROVE  UndisturbedInv'
<1> USE DEF TypeOK, Syncing, SyncSteps
<1>1. /\ UNCHANGED <<repo, dir, todo, undisturbed>>
      /\ pc[l] = "install" /\ pc' = [pc EXCEPT ![l] = pc'[l]]
      /\ pc'[l] = IF Mismatches(repo.pins, dir, TRUE) = {} THEN "exec" ELSE "diverged"
      /\ DOMAIN todo[l] = {}
  BY DEF Recheck, Goto, collections
<1>2. undisturbed[l] => Settled
  BY <1>1 DEF UndisturbedInv, Settled
<1>3. undisturbed[l] => pc'[l] = "exec"
  BY <1>1, <1>2 DEF Settled, Mismatches, IsInstalled
<1> SUFFICES ASSUME NEW m \in Launchers, undisturbed'[m]
             PROVE  UndisturbedInv!(m)!2'
  BY DEF UndisturbedInv
<1>4. CASE m = l
  <2>1. \A k \in Launchers \ {l} : ~ Syncing(k)'
    BY <1>1, <1>4 DEF UndisturbedInv
  <2> QED
    BY <1>1, <1>2, <1>3, <1>4, <2>1 DEF Settled
<1>5. CASE m # l
  BY <1>1, <1>5 DEF UndisturbedInv, Harmless, Settled
<1> QED
  BY <1>4, <1>5

\* A play starts while nobody synchronizes.
LEMMA PlayKeepsInv ==
  ASSUME TypeOK, UndisturbedInv, NEW l \in Launchers, Play(l)
  PROVE  UndisturbedInv'
<1> USE DEF TypeOK, Syncing, SyncSteps
<1>1. /\ UNCHANGED <<repo, dir, todo, undisturbed>>
      /\ pc[l] = "exec" /\ pc' = [pc EXCEPT ![l] = "playing"]
  BY DEF Play, Goto, collections
<1> SUFFICES ASSUME NEW m \in Launchers, undisturbed'[m]
             PROVE  UndisturbedInv!(m)!2'
  BY DEF UndisturbedInv
<1>2. CASE m = l
  <2>1. \A k \in Launchers : Harmless(k)'
    BY <1>1, <1>2 DEF UndisturbedInv, Harmless
  <2> QED
    BY <1>1, <1>2, <2>1 DEF UndisturbedInv, Settled
<1>3. CASE m # l
  BY <1>1, <1>3 DEF UndisturbedInv, Harmless, Settled
<1> QED
  BY <1>2, <1>3

\* A launcher that ends is nobody's concern.
LEMMA EndKeepsInv ==
  ASSUME TypeOK, UndisturbedInv, NEW l \in Launchers, LauncherEnds(l)
  PROVE  UndisturbedInv'
<1> USE DEF TypeOK, Syncing, SyncSteps
<1>1. /\ UNCHANGED <<repo, dir>>
      /\ pc' = [pc EXCEPT ![l] = "idle"] /\ undisturbed'[l] = FALSE
      /\ \A k \in Launchers \ {l} : undisturbed'[k] = undisturbed[k] /\ todo'[k] = todo[k]
  BY DEF LauncherEnds
<1> QED
  BY <1>1 DEF UndisturbedInv, Harmless, Settled

LEMMA LaunchKeepsInv ==
  ASSUME ControllerInv, NEW l \in Launchers, Launch(l)
  PROVE  ControllerInv'
<1> USE DEF ControllerInv
<1>1. TypeOK'
  BY LaunchKeepsTypes
<1>2. CASE Choose(l) \/ ReadVersions(l) \/ ApplyRules(l)
  <2>1. /\ UNCHANGED <<repo, collections>>
        /\ pc[l] \in {"idle", "versions", "rules"}
        /\ pc'[l] \in {"versions", "rules", "check", "refused"}
        /\ pc' = [pc EXCEPT ![l] = pc'[l]]
    BY <1>2 DEF Choose, ReadVersions, ApplyRules, Goto, TypeOK
  <2>2. UndisturbedInv'
    BY <2>1, OutsideKeepsInv DEF SyncSteps
  <2> QED
    BY <1>1, <2>2
<1>3. CASE CheckState(l) \/ Gather(l) \/ Recheck(l) \/ Play(l) \/ LauncherEnds(l)
  BY <1>1, <1>3, CheckKeepsInv, GatherKeepsInv, RecheckKeepsInv, PlayKeepsInv, EndKeepsInv
<1>4. CASE \E c \in Collections : Replace(l, c) \/ Complete(l, c)
  BY <1>1, <1>4, InstallKeepsInv
<1> QED
  BY <1>2, <1>3, <1>4 DEF Launch

\* The invariant holds in every state.
THEOREM ControllerInvHolds == Spec => []ControllerInv
<1>1. Init => ControllerInv
  <2> SUFFICES ASSUME Init PROVE ControllerInv
    OBVIOUS
  <2>1. UndisturbedInv
    BY DEF Init, UndisturbedInv
  <2>2. dir \in [Collections -> setup.dirs \cup Versions \cup {Absent, Invalid}]
    <3>1. dir \in [Collections -> setup.dirs]
      BY DEF Init
    <3> QED
      BY <3>1
  <2>3. boot \in [step : BootSteps, repo : setup.repos, last : setup.repos]
    BY DEF Init, BootSteps
  <2>4. /\ pc \in [Launchers -> LaunchSteps]
        /\ undisturbed \in [Launchers -> BOOLEAN]
    BY DEF Init, LaunchSteps
  <2>5. /\ DOMAIN todo = Launchers
        /\ \A l \in Launchers : /\ DOMAIN todo[l] \subseteq Collections
                                /\ \A c \in DOMAIN todo[l] : todo[l][c] \in Versions
    <3>1. todo = [l \in Launchers |-> [c \in {} |-> Absent]]
      BY DEF Init
    <3> QED
      BY <3>1
  <2>6. setup \in Setups /\ repo \in setup.repos /\ ready = "no"
    BY DEF Init
  <2> QED
    BY <2>1, <2>2, <2>3, <2>4, <2>5, <2>6 DEF ControllerInv, TypeOK
<1>2. ControllerInv /\ [Next]_vars => ControllerInv'
  <2> SUFFICES ASSUME ControllerInv, [Next]_vars PROVE ControllerInv'
    OBVIOUS
  <2>1. CASE Bootstrap
    BY <2>1, BootstrapKeepsInv
  <2>2. CASE Pull
    BY <2>2, PullKeepsInv
  <2>3. ASSUME NEW l \in setup.launchers, Launch(l)
        PROVE  ControllerInv'
    <3>1. l \in Launchers
      BY ControllerConstantsOK DEF ControllerInv, TypeOK
    <3> QED
      BY <2>3, <3>1, LaunchKeepsInv
  <2>4. CASE UNCHANGED vars
    BY <2>4 DEF vars, environment, collections, ControllerInv, TypeOK, Collections, Versions,
       UndisturbedInv, Syncing, Settled, Harmless
  <2> QED
    BY <2>1, <2>2, <2>3, <2>4 DEF Next
<1> QED
  BY <1>1, <1>2, PTL DEF Spec

\* The variables keep to their types.
THEOREM ControllerTypes == Spec => []TypeOK
BY ControllerInvHolds, PTL DEF ControllerInv

\* A launcher that nobody disturbs ends up with the pinned collections, in
\* whatever state it has found the directory (ansible-playbook.sh).
THEOREM UndisturbedConverges == Spec => []AloneConverges
<1>1. ControllerInv => AloneConverges
  BY DEF ControllerInv, UndisturbedInv, AloneConverges, SyncSteps
<1> QED
  BY <1>1, ControllerInvHolds, PTL

\* A play that has started undisturbed keeps its collections until it ends or
\* the checkout is pulled, however many launchers start beside it.
THEOREM PlayKeepsItsCollections == Spec => []PlayKeepsCollections
<1>1. ControllerInv => PlayKeepsCollections
  BY DEF ControllerInv, UndisturbedInv, PlayKeepsCollections
<1> QED
  BY <1>1, ControllerInvHolds, PTL

--------------------------------------------------------------------------------
(***************************************************************************)
(* The loop of the lock check.  The library's induction theorems cannot be *)
(* used here, so induction is done on a set of numbers: what is not in it  *)
(* has a least element.                                                    *)
(***************************************************************************)

LEMMA SetInduction ==
  ASSUME NEW n \in Nat, NEW S, 0 \in S,
         \A i \in 1..n : i - 1 \in S => i \in S
  PROVE  0..n \subseteq S
<1> DEFINE T == 0..n \ S
           R == OpToRel(<, Nat)
<1> SUFFICES ASSUME T # {} PROVE FALSE
  OBVIOUS
<1>1. T \subseteq Nat
  OBVIOUS
<1>2. IsWellFoundedOn(R, Nat)
  BY NatLessThanWellFounded
<1>3. PICK x \in T : \A y \in T : ~ (<<y, x>> \in R)
  <2> HIDE DEF T, R
  <2> QED
    BY <1>1, <1>2, WFMin
<1>4. \A y \in T : ~ (y < x)
  BY <1>1, <1>3 DEF OpToRel
<1>5. x \in 1..n
  OBVIOUS
<1>6. x - 1 \notin T
  BY <1>4, <1>5
<1> QED
  BY <1>5, <1>6

\* A set of line numbers has a last one.
LEMMA LastExists ==
  ASSUME NEW n \in Nat, NEW P, P \subseteq 1..n, P # {}
  PROVE  \E i \in P : \A j \in P : j <= i
<1> DEFINE S == {m \in 0..n : P \cap 1..m = {} \/ \E i \in P : \A j \in P \cap 1..m : j <= i}
<1>1. 0 \in S
  OBVIOUS
<1>2. ASSUME NEW m \in 1..n, m - 1 \in S
      PROVE  m \in S
  <2>1. CASE m \in P
    <3>1. \A j \in P \cap 1..m : j <= m
      OBVIOUS
    <3> QED
      BY <2>1, <3>1
  <2>2. CASE m \notin P
    <3>1. P \cap 1..m = P \cap 1..(m - 1)
      BY <2>2
    <3> QED
      BY <1>2, <3>1
  <2> QED
    BY <2>1, <2>2
<1>3. n \in S
  <2> HIDE DEF S
  <2> QED
    BY <1>1, <1>2, SetInduction
<1> QED
  BY <1>3

\* One line of the loop.
ScanStep(lines, s, i) ==
  IF IsPin(lines, i)
  THEN [open |-> TRUE, hashed |-> FALSE, failed |-> s.failed \/ (s.open /\ ~ s.hashed)]
  ELSE [s EXCEPT !.hashed = @ \/ (s.open /\ lines[i].kind = "hash")]

ScanStart == [open |-> FALSE, hashed |-> FALSE, failed |-> FALSE]

\* f is the loop over the lines up to n.
IsScan(lines, n, f) ==
  f = [i \in 0..n |-> IF i = 0 THEN ScanStart ELSE ScanStep(lines, f[i - 1], i)]

\* There is such a function: it is extended line by line.
LEMMA ScanExists ==
  ASSUME NEW lines, NEW n \in Nat
  PROVE  \E f : IsScan(lines, n, f)
<1> DEFINE S == {m \in 0..n : \E f : IsScan(lines, m, f)}
<1>1. 0 \in S
  <2> DEFINE f == [i \in 0..0 |-> ScanStart]
  <2>1. f = [i \in 0..0 |-> IF i = 0 THEN ScanStart ELSE ScanStep(lines, f[i - 1], i)]
    OBVIOUS
  <2>2. IsScan(lines, 0, f)
    BY <2>1 DEF IsScan
  <2>3. \E ff : IsScan(lines, 0, ff)
    <3> HIDE DEF f
    <3> QED
      BY <2>2
  <2> QED
    BY <2>3
<1>2. ASSUME NEW i \in 1..n, i - 1 \in S
      PROVE  i \in S
  <2>1. PICK f : IsScan(lines, i - 1, f)
    BY <1>2
  <2> DEFINE g == [j \in 0..i |-> IF j = i THEN ScanStep(lines, f[i - 1], i) ELSE f[j]]
  <2>2. \A j \in 0..(i - 1) :
          f[j] = IF j = 0 THEN ScanStart ELSE ScanStep(lines, f[j - 1], j)
    <3> DEFINE h == [j \in 0..(i - 1) |-> IF j = 0 THEN ScanStart
                                          ELSE ScanStep(lines, f[j - 1], j)]
    <3>1. f = h
      BY <2>1 DEF IsScan
    <3>2. \A j \in 0..(i - 1) :
            h[j] = IF j = 0 THEN ScanStart ELSE ScanStep(lines, f[j - 1], j)
      OBVIOUS
    <3> QED
      BY <3>1, <3>2, Zenon
  <2>3. ASSUME NEW j \in 0..i
        PROVE  g[j] = IF j = 0 THEN ScanStart ELSE ScanStep(lines, g[j - 1], j)
    <3>1. CASE j = i
      <4>1. g[j - 1] = f[i - 1] /\ j # 0
        BY <3>1
      <4> QED
        BY <3>1, <4>1
    <3>2. CASE j # i
      <4>1. g[j] = f[j] /\ (j # 0 => g[j - 1] = f[j - 1])
        BY <3>2
      <4>2. j \in 0..(i - 1)
        BY <3>2
      <4> QED
        BY <2>2, <4>1, <4>2
    <3> QED
      BY <3>1, <3>2
  <2>4. g = [j \in 0..i |-> IF j = 0 THEN ScanStart ELSE ScanStep(lines, g[j - 1], j)]
    <3>1. g = [j \in 0..i |-> g[j]]
      OBVIOUS
    <3> HIDE DEF g
    <3> QED
      BY <2>3, <3>1
  <2>5. IsScan(lines, i, g)
    BY <2>4 DEF IsScan
  <2> QED
    BY <2>5
<1>3. n \in S
  <2> HIDE DEF S
  <2> QED
    BY <1>1, <1>2, SetInduction
<1> QED
  BY <1>3

\* The loop, line by line.
LEMMA ScanUnfolds ==
  ASSUME NEW lines, Len(lines) \in Nat
  PROVE  /\ Scan(lines)[0] = ScanStart
         /\ \A i \in 1..Len(lines) :
              Scan(lines)[i] = ScanStep(lines, Scan(lines)[i - 1], i)
<1>1. Scan(lines) = CHOOSE f : IsScan(lines, Len(lines), f)
  BY DEF Scan, IsScan, ScanStep, ScanStart
<1>2. IsScan(lines, Len(lines), Scan(lines))
  BY <1>1, ScanExists
<1> DEFINE f == Scan(lines)
           h == [i \in 0..Len(lines) |-> IF i = 0 THEN ScanStart
                                         ELSE ScanStep(lines, f[i - 1], i)]
<1>3. f = h
  BY <1>2 DEF IsScan
<1>4. \A i \in 0..Len(lines) :
        h[i] = IF i = 0 THEN ScanStart ELSE ScanStep(lines, f[i - 1], i)
  OBVIOUS
<1>5. \A i \in 0..Len(lines) :
        f[i] = IF i = 0 THEN ScanStart ELSE ScanStep(lines, f[i - 1], i)
  BY <1>3, <1>4, Zenon
<1> QED
  BY <1>5

\* What the loop knows after n lines: of the last pin, whether it has a hash; of
\* the earlier ones, that each has one unless the loop has failed.
LEMMA ScanFinds ==
  ASSUME NEW lines, Len(lines) \in Nat, NEW n \in 0..Len(lines)
  PROVE  LET s == Scan(lines)[n]
         IN  /\ s \in [open : BOOLEAN, hashed : BOOLEAN, failed : BOOLEAN]
             /\ \A i \in 1..n : IsPin(lines, i) =>
                  \/ HashedUpTo(lines, i, n)
                  \/ s.failed
                  \/ /\ \A k \in (i + 1)..n : ~ IsPin(lines, k)
                     /\ s.open /\ ~ s.hashed
<1> DEFINE
      States == [open : BOOLEAN, hashed : BOOLEAN, failed : BOOLEAN]
      Knows(s, m) ==
        /\ s \in States
        /\ \A i \in 1..m : IsPin(lines, i) =>
             \/ HashedUpTo(lines, i, m)
             \/ s.failed
             \/ /\ \A k \in (i + 1)..m : ~ IsPin(lines, k)
                /\ s.open /\ ~ s.hashed
      S == {m \in 0..Len(lines) : Knows(Scan(lines)[m], m)}
<1>1. 0 \in S
  <2>1. Scan(lines)[0] = ScanStart
    BY ScanUnfolds
  <2>2. Knows(ScanStart, 0)
    BY DEF ScanStart
  <2>3. Knows(Scan(lines)[0], 0)
    <3> HIDE DEF Knows
    <3> QED
      BY <2>1, <2>2
  <2> HIDE DEF Knows
  <2> QED
    BY <2>3
<1>2. ASSUME NEW m \in 1..Len(lines), m - 1 \in S
      PROVE  m \in S
  <2> DEFINE s == Scan(lines)[m - 1]
             t == Scan(lines)[m]
  <2>1. t = ScanStep(lines, s, m)
    BY ScanUnfolds
  <2>2. Knows(s, m - 1)
    BY <1>2
  <2>3. \A i \in 1..(m - 1) :
           HashedUpTo(lines, i, m - 1) => HashedUpTo(lines, i, m)
    BY DEF HashedUpTo
  <2> HIDE DEF s, t
  <2>4. CASE IsPin(lines, m)
    <3>1. t = [open |-> TRUE, hashed |-> FALSE,
               failed |-> s.failed \/ (s.open /\ ~ s.hashed)]
      BY <2>1, <2>4 DEF ScanStep
    <3>2. t \in States
      BY <3>1, <2>2
    <3>3. ASSUME NEW i \in 1..(m - 1), IsPin(lines, i)
          PROVE  HashedUpTo(lines, i, m) \/ t.failed
      BY <2>2, <2>3, <3>1, <3>3
    <3>4. (\A k \in (m + 1)..m : ~ IsPin(lines, k)) /\ t.open /\ ~ t.hashed
      BY <3>1
    <3>5. \A i \in 1..m : i = m \/ i \in 1..(m - 1)
      OBVIOUS
    <3> QED
      BY <3>2, <3>3, <3>4, <3>5 DEF t
  <2>5. CASE ~ IsPin(lines, m)
    <3>1. t = [s EXCEPT !.hashed = @ \/ (s.open /\ lines[m].kind = "hash")]
      BY <2>1, <2>5 DEF ScanStep
    <3>2. /\ t \in States /\ t.open = s.open /\ t.failed = s.failed
          /\ t.hashed <=> (s.hashed \/ (s.open /\ lines[m].kind = "hash"))
      BY <3>1, <2>2
    <3>3. ASSUME NEW i \in 1..(m - 1), IsPin(lines, i),
                 \A k \in (i + 1)..(m - 1) : ~ IsPin(lines, k)
          PROVE  \A k \in (i + 1)..m : ~ IsPin(lines, k)
      BY <2>5, <3>3
    <3>4. ASSUME NEW i \in 1..(m - 1), IsPin(lines, i), lines[m].kind = "hash",
                 \A k \in (i + 1)..m : ~ IsPin(lines, k)
          PROVE  HashedUpTo(lines, i, m)
      BY <3>4 DEF HashedUpTo
    <3>5. \A i \in 1..m : IsPin(lines, i) => i \in 1..(m - 1)
      BY <2>5
    <3>6. ASSUME NEW i \in 1..(m - 1), IsPin(lines, i)
          PROVE  \/ HashedUpTo(lines, i, m)
                 \/ t.failed
                 \/ /\ \A k \in (i + 1)..m : ~ IsPin(lines, k)
                    /\ t.open /\ ~ t.hashed
      <4>1. CASE HashedUpTo(lines, i, m - 1)
        BY <4>1, <2>3
      <4>2. CASE s.failed
        BY <4>2, <3>2
      <4>3. CASE /\ \A k \in (i + 1)..(m - 1) : ~ IsPin(lines, k)
                 /\ s.open /\ ~ s.hashed
        BY <4>3, <3>2, <3>3, <3>4, <3>6
      <4> QED
        BY <4>1, <4>2, <4>3, <2>2, <3>6
    <3> QED
      BY <3>2, <3>5, <3>6 DEF t
  <2> QED
    BY <2>4, <2>5
<1>3. 0..Len(lines) \subseteq S
  <2> HIDE DEF S
  <2> QED
    BY <1>1, <1>2, SetInduction
<1> QED
  BY <1>3

\* A lock that the lock check takes has what pip --require-hashes asks of it:
\* every pin, also the last one, is followed by a hash before the next pin.
THEOREM HashesAreComplete ==
  ASSUME NEW lines, Len(lines) \in Nat, AllHashed(lines)
  PROVE  \A i \in 1..Len(lines) :
            IsPin(lines, i) => HashedUpTo(lines, i, Len(lines))
<1> DEFINE s == Scan(lines)[Len(lines)]
<1>1. ~ s.failed /\ (s.open => s.hashed)
  BY DEF AllHashed
<1>2. \A i \in 1..Len(lines) : IsPin(lines, i) =>
         \/ HashedUpTo(lines, i, Len(lines)) \/ s.failed \/ (s.open /\ ~ s.hashed)
  BY ScanFinds, Len(lines) \in 0..Len(lines)
<1> HIDE DEF s
<1> QED
  BY <1>1, <1>2

--------------------------------------------------------------------------------
(***************************************************************************)
(* The rules of the lock check, the bootstrap, pip and the launcher agree. *)
(***************************************************************************)

\* A set of line numbers has a first one as well.
LEMMA FirstExists ==
  ASSUME NEW n \in Nat, NEW P, P \subseteq 1..n, P # {}
  PROVE  \E i \in P : \A j \in P : i <= j
<1> DEFINE Q == {n + 1 - i : i \in P}
<1>1. Q \subseteq 1..n /\ Q # {}
  <2>1. PICK i \in P : TRUE
    OBVIOUS
  <2>2. n + 1 - i \in Q
    OBVIOUS
  <2>3. Q \subseteq 1..n
    OBVIOUS
  <2> QED
    BY <2>2, <2>3
<1>2. PICK k \in Q : \A j \in Q : j <= k
  <2> HIDE DEF Q
  <2> QED
    BY <1>1, LastExists
<1>3. PICK i \in P : k = n + 1 - i
  OBVIOUS
<1>4. ASSUME NEW j \in P
      PROVE  i <= j
  <2>1. n + 1 - j \in Q
    OBVIOUS
  <2>2. n + 1 - j <= n + 1 - i
    BY <1>2, <1>3, <2>1
  <2>3. i \in Nat /\ j \in Nat
    OBVIOUS
  <2> QED
    BY <2>2, <2>3
<1> QED
  BY <1>4

\* The lock of a checkout is a sequence of lines.
LEMMA LockIsSequence ==
  ASSUME NEW s \in Setups, NEW r \in s.repos
  PROVE  /\ Len(r.lock) \in Nat /\ DOMAIN r.lock = 1..Len(r.lock)
         /\ \A i \in DOMAIN r.lock : r.lock[i].kind \in {"pin", "other"} =>
                r.lock[i].version \in CoreVersions \cup {Range}
BY CheckoutsOK

\* What the lock check reads is a pin of ansible-core for pip too.
LEMMA PinnedIsLine ==
  ASSUME NEW s \in Setups, NEW r \in s.repos, Core \in Packages(r.lock), NEW python
  PROVE  \E i \in CoreLines(r.lock, python) :
            IsPin(r.lock, i) /\ Pinned(r.lock, Core) = r.lock[i].version
<1> DEFINE P == PinsOf(r.lock, Core)
<1>1. P # {} /\ P \subseteq 1..Len(r.lock)
  BY LockIsSequence DEF Packages, PinsOf
<1>2. \E i \in P : \A j \in P : j <= i
  <2> HIDE DEF P
  <2> QED
    BY <1>1, LockIsSequence, LastExists
<1>3. Last(P) \in P
  BY <1>2 DEF Last
<1>4. \A i \in P : i \in CoreLines(r.lock, python) /\ IsPin(r.lock, i)
  <2>1. \A name : CheckName(name) = Core => PipName(name) = Core
    BY DEF CheckName, PipName
  <2> QED
    BY <2>1 DEF PinsOf, CoreLines, Applied
<1> QED
  BY <1>3, <1>4 DEF Pinned

\* So is what the image check reads.
LEMMA ImageReadsLine ==
  ASSUME NEW s \in Setups, NEW r \in s.repos, ImagePins(r.lock) # {}, NEW python
  PROVE  \E i \in CoreLines(r.lock, python) :
            IsPin(r.lock, i) /\ ImageReads(r.lock) = r.lock[i].version
<1> DEFINE P == ImagePins(r.lock)
<1>1. P # {} /\ P \subseteq 1..Len(r.lock)
  BY LockIsSequence DEF ImagePins
<1>2. \E i \in P : \A j \in P : i <= j
  <2> HIDE DEF P
  <2> QED
    BY <1>1, LockIsSequence, FirstExists
<1>3. First(P) \in P
  BY <1>2 DEF First
<1>4. \A i \in P : i \in CoreLines(r.lock, python) /\ IsPin(r.lock, i)
  BY DEF ImagePins, CoreLines, Applied, PipName
<1> QED
  BY <1>3, <1>4 DEF ImageReads

\* What the bootstrap reads is a version, if it reads any.
LEMMA BootReadsVersion ==
  ASSUME NEW s \in Setups, NEW r \in s.repos, BootReads(r.lock) # Range
  PROVE  BootReads(r.lock) \in CoreVersions
<1> DEFINE P == BootLines(r.lock)
<1>1. P # {} /\ P \subseteq 1..Len(r.lock) /\ BootReads(r.lock) = r.lock[First(P)].version
  BY LockIsSequence DEF BootLines, BootReads
<1>2. \E i \in P : \A j \in P : i <= j
  <2> HIDE DEF P
  <2> QED
    BY <1>1, LockIsSequence, FirstExists
<1>3. First(P) \in P
  BY <1>2 DEF First
<1> QED
  BY <1>1, <1>3, LockIsSequence DEF BootLines

\* Two versions that pip installs alike are of one release line.
LEMMA InstalledKeepsRelease ==
  ASSUME NEW v \in CoreVersions
  PROVE  /\ Installed(v) \in CoreVersions /\ Installed(v).release = v.release
         /\ Prerelease(Installed(v)) <=> Prerelease(v)
BY DEF Installed, CoreVersions, Prerelease

\* What pip accepts, it installs of any of the lines for ansible-core.
LEMMA PipInstallsAny ==
  ASSUME NEW s \in Setups, NEW r \in s.repos, NEW python, PipAccepts(r.lock, python),
         NEW i \in CoreLines(r.lock, python)
  PROVE  /\ r.lock[i].version \in CoreVersions
         /\ PipCore(r.lock, python) = Installed(r.lock[i].version)
<1> DEFINE c == CHOOSE k \in CoreLines(r.lock, python) : TRUE
<1>1. c \in CoreLines(r.lock, python)
  OBVIOUS
<1>2. \A k \in CoreLines(r.lock, python) :
         k \in Applied(r.lock, python) /\ k \in DOMAIN r.lock
         /\ r.lock[k].kind \in {"pin", "other"} /\ PipName(r.lock[k].name) = Core
  BY DEF CoreLines, Applied, IsPin
<1>3. r.lock[i].version # Range
  BY <1>2 DEF PipAccepts
<1>4. ~ Conflict(r.lock, c, i)
  BY <1>1, <1>2 DEF PipAccepts
<1>5. PipCore(r.lock, python) = Installed(r.lock[c].version)
  BY DEF PipCore
<1> HIDE DEF c
<1>6. Installed(r.lock[c].version) = Installed(r.lock[i].version)
  BY <1>1, <1>2, <1>4 DEF Conflict
<1> QED
  BY <1>2, <1>3, <1>5, <1>6, LockIsSequence

\* The Python of the lock's header satisfies the rules of the bootstrap ...
LEMMA HeaderIsAllowed ==
  ASSUME NEW version \in CoreVersions, NEW preview
  PROVE  BootstrapAllows(ControllerPython(version), version, preview)
<1>1. version.release \in Nat
  BY DEF CoreVersions
<1>2. /\ ControllerPython(version) \in {312, 313}
      /\ ControllerPython(version) = 312 => version.release < 222
  BY <1>1 DEF ControllerPython
<1> QED
  BY <1>2 DEF BootstrapAllows

\* ... and pip, with the hashes that the lock check has found.
LEMMA AcceptedLockIsPips ==
  ASSUME NEW s \in Setups, NEW r \in s.repos, LockAccepted(r), ~ Overlooked(r.lock, r.header)
  PROVE  PipAccepts(r.lock, r.header)
<1> DEFINE A == Applied(r.lock, r.header)
<1>1. /\ Core \in Packages(r.lock) /\ AllHashed(r.lock)
      /\ r.header = ControllerPython(Pinned(r.lock, Core))
  BY DEF LockAccepted
<1>2. \A i \in DOMAIN r.lock : IsPin(r.lock, i) => HashedUpTo(r.lock, i, Len(r.lock))
  BY <1>1, LockIsSequence, HashesAreComplete
<1>3. A \subseteq DOMAIN r.lock /\ \A i \in A : r.lock[i].kind \in {"pin", "other"}
  BY DEF Applied, IsPin
<1>4. \A i \in A : r.lock[i].version # Range /\ Joined(r.lock, i)
  <2> SUFFICES ASSUME NEW i \in A PROVE r.lock[i].version # Range /\ Joined(r.lock, i)
    OBVIOUS
  <2>1. r.lock[i].version # Range
    BY DEF Overlooked
  <2>2. Joined(r.lock, i) \/ (IsPin(r.lock, i) /\ ~ HashedUpTo(r.lock, i, Len(r.lock)))
    BY DEF Overlooked
  <2> QED
    BY <1>2, <1>3, <2>1, <2>2
<1>5. \A i, j \in A : ~ Conflict(r.lock, i, j)
  BY DEF Overlooked
<1>6. ASSUME NEW i \in CoreLines(r.lock, r.header)
      PROVE  r.header >= ControllerPython(r.lock[i].version)
  <2>1. PICK p \in CoreLines(r.lock, r.header) : Pinned(r.lock, Core) = r.lock[p].version
    BY <1>1, PinnedIsLine
  <2>2. \A k \in CoreLines(r.lock, r.header) : k \in A /\ PipName(r.lock[k].name) = Core
    BY DEF CoreLines
  <2>3. Installed(r.lock[i].version) = Installed(r.lock[p].version)
    BY <1>5, <2>2 DEF Conflict
  <2>4. r.lock[i].version \in CoreVersions /\ r.lock[p].version \in CoreVersions
    BY <1>3, <1>4, <2>2, LockIsSequence
  <2>5. r.lock[i].version.release = r.lock[p].version.release
    BY <2>3, <2>4, InstalledKeepsRelease
  <2>6. ControllerPython(r.lock[i].version) = r.header /\ r.header \in {312, 313}
    BY <1>1, <2>1, <2>5 DEF ControllerPython
  <2> QED
    BY <2>6
<1> QED
  BY <1>4, <1>5, <1>6 DEF PipAccepts

\* What the rules of the bootstrap allow, the launcher takes once it is
\* installed, from the minimum version on.
LEMMA AllowedIsLaunchable ==
  ASSUME NEW python, NEW version \in CoreVersions, NEW preview, NEW minimum,
         BootstrapAllows(python, version, preview)
  PROVE  Installed(version).release >= minimum =>
            LauncherAllows(python, Installed(version), preview, minimum)
<1>1. /\ Installed(version).release = version.release
      /\ Prerelease(Installed(version)) <=> Prerelease(version)
  BY InstalledKeepsRelease
<1>2. version.release \in Nat
  BY DEF CoreVersions
<1>3. python = 312 => version.release < 222
  BY DEF BootstrapAllows
<1>4. python = 315 =>
        /\ version.release >= 222 /\ preview \in {"true", "false"}
        /\ Prerelease(version) => preview = "true" /\ version.release = 222
  BY DEF BootstrapAllows
<1>5. ~ (python = 312 /\ version.release >= 222)
  BY <1>2, <1>3
<1> QED
  BY <1>1, <1>4, <1>5 DEF LauncherAllows

\* So it does with the image that CI lets through.
LEMMA ImageIsLaunchable ==
  ASSUME NEW s \in Setups, s.image
  PROVE  LauncherAllows(s.path.python, s.path.core, s.preview, s.minimum)
<1>1. PICK r \in s.repos :
        /\ SmokePasses(r) /\ PipAccepts(r.lock, r.image) /\ s.path = Image(r)
        /\ PipCore(r.lock, r.image).release >= s.minimum
  BY CheckoutsOK
<1> DEFINE v == ImageReads(r.lock)
<1>2. ImageAccepted(r)
  BY <1>1 DEF SmokePasses, SmokeChecks
<1>3. PICK i \in CoreLines(r.lock, r.image) : v = r.lock[i].version
  BY <1>2, ImageReadsLine DEF ImageAccepted
<1>4. v \in CoreVersions /\ PipCore(r.lock, r.image) = Installed(v)
  BY <1>1, <1>3, PipInstallsAny
<1>5. s.path.core = Installed(v) /\ s.path.python = ControllerPython(v)
  BY <1>1, <1>2, <1>4 DEF Image, ImageAccepted
<1> HIDE DEF v
<1> QED
  BY <1>1, <1>4, <1>5, HeaderIsAllowed, AllowedIsLaunchable

--------------------------------------------------------------------------------
\* The scripts of the launchers and a pull leave the bootstrap alone.
LEMMA BootInvIsLocal ==
  ASSUME BootInv, UNCHANGED <<setup, venv, boot>>
  PROVE  BootInv'
BY DEF BootInv, AcceptedLockInstalls

\* Each step of the bootstrap keeps what it relies on.
LEMMA BootstrapKeepsTools ==
  ASSUME TypeOK, BootInv, LaunchInv, Bootstrap
  PROVE  BootInv' /\ LaunchInv'
<1> USE DEF BootInv, LaunchInv, AcceptedLockInstalls
<1>1. /\ UNCHANGED <<setup, repo, pc, tool>>
      /\ \A core, python : Launchable(core, python)' <=> Launchable(core, python)
      /\ Overridden' = Overridden
  BY DEF Bootstrap, BootCheck, BootVenv, BootPip, BootInstall, BootReady, BootEnds, Launchable, Overridden
<1>2. setup \in Setups /\ setup.python \in Nat /\ repo \in setup.repos
      /\ boot.last \in setup.repos /\ boot.repo \in setup.repos
      /\ DOMAIN boot = {"step", "repo", "last"}
  BY CheckoutsOK DEF TypeOK
<1>3. CASE BootCheck
  <2> DEFINE core == BootReads(repo.lock)
             allowed == core # Range /\ BootstrapAllows(setup.python, core, setup.preview)
  <2>1. /\ UNCHANGED <<venv, ready>>
        /\ boot' = [step |-> IF allowed THEN "venv" ELSE "refused",
                    repo |-> repo, last |-> repo]
    BY <1>3 DEF BootCheck
  <2>2. ASSUME LockAccepted(repo), setup.python = repo.header,
               ~ Overlooked(repo.lock, setup.python)
        PROVE  allowed
    <3>1. /\ Core \in Packages(repo.lock)
          /\ repo.header = ControllerPython(Pinned(repo.lock, Core))
      BY <2>2 DEF LockAccepted
    <3>2. core = Pinned(repo.lock, Core)
      BY <2>2 DEF Overlooked
    <3>3. Known(Pinned(repo.lock, Core))
      BY <2>2 DEF LockAccepted
    <3>4. core # Range
      BY <3>2, <3>3 DEF Known
    <3>5. core \in CoreVersions
      BY <1>2, <3>4, BootReadsVersion
    <3> HIDE DEF core
    <3>6. BootstrapAllows(setup.python, core, setup.preview)
      BY <2>2, <3>1, <3>2, <3>5, HeaderIsAllowed
    <3> QED
      BY <3>4, <3>6
  <2>3. /\ boot'.repo = repo /\ boot'.last = repo
        /\ boot'.step = IF allowed THEN "venv" ELSE "refused"
    BY <2>1
  <2>4. /\ boot'.step \in {"venv", "refused"}
        /\ boot'.step = "venv" =>
              /\ BootReads(repo.lock) # Range
              /\ BootstrapAllows(setup.python, BootReads(repo.lock), setup.preview)
        /\ boot'.step = "refused" => ~ allowed
    BY <2>3
  <2> HIDE DEF allowed
  <2>5. BootInv'
    BY <1>1, <2>1, <2>2, <2>3, <2>4
  <2>6. LaunchInv'
    BY <1>1, <2>1
  <2> QED
    BY <2>5, <2>6
<1>4. CASE BootVenv
  <2>1. /\ boot' = [boot EXCEPT !.step = "pip"] /\ boot.step = "venv" /\ UNCHANGED ready
        /\ \/ venv = None /\ venv' = [python |-> setup.python, pip |-> FALSE, core |-> None]
           \/ venv # None /\ venv.python = setup.python /\ UNCHANGED venv
    BY <1>4 DEF BootVenv, BootStep
  <2>2. boot'.step = "pip" /\ boot'.repo = boot.repo /\ boot'.last = boot.last
    BY <1>2, <2>1
  <2>3. /\ venv' \in Environments /\ venv' # None /\ venv'.python = setup.python
        /\ ready = "sound" => venv' = venv
    <3>1. CASE venv = None
      <4>1. venv' = [python |-> setup.python, pip |-> FALSE, core |-> None]
        BY <2>1, <3>1
      <4>2. venv' \in Environments /\ venv'.python = setup.python
        BY <1>2, <4>1 DEF Environments
      <4>3. ready # "sound"
        BY <3>1
      <4> QED
        BY <4>2, <4>3, CheckoutsOK
    <3>2. CASE venv # None
      BY <2>1, <3>2
    <3> QED
      BY <3>1, <3>2
  <2>4. BootInv'
    BY <1>1, <2>1, <2>2, <2>3
  <2>5. LaunchInv'
    BY <1>1, <2>1, <2>3
  <2> QED
    BY <2>4, <2>5
<1>5. CASE BootPip
  <2>1. /\ boot' = [boot EXCEPT !.step = "install"] /\ boot.step = "pip" /\ UNCHANGED ready
        /\ venv' = [venv EXCEPT !.pip = TRUE]
    BY <1>5 DEF BootPip, BootStep
  <2>2. boot'.step = "install" /\ boot'.repo = boot.repo /\ boot'.last = boot.last
    BY <1>2, <2>1
  <2>3. venv \in Environments
    BY <2>1
  <2>4. /\ venv' \in Environments /\ venv'.python = venv.python /\ venv'.core = venv.core
    BY <2>1, <2>3 DEF Environments
  <2>5. BootInv'
    BY <1>1, <2>1, <2>2, <2>4, CheckoutsOK
  <2>6. LaunchInv'
    BY <1>1, <2>1, <2>4, CheckoutsOK
  <2> QED
    BY <2>5, <2>6
<1>6. CASE BootInstall
  <2> DEFINE accepted == PipAccepts(repo.lock, venv.python)
             replaces == accepted /\ CoreLines(repo.lock, venv.python) # {}
  <2>1. /\ boot.step = "install"
        /\ boot' = [boot EXCEPT !.step = IF accepted THEN "installing" ELSE "refused",
                                !.last = repo]
        /\ venv' = [venv EXCEPT !.core = IF replaces THEN None ELSE @]
        /\ ready' = IF accepted THEN "no" ELSE ready
    BY <1>6 DEF BootInstall
  <2>2. venv \in Environments /\ venv.python = setup.python
    BY <2>1
  <2>3. accepted <=> PipAccepts(repo.lock, setup.python)
    BY <2>2
  <2> HIDE DEF accepted
  <2>4. /\ boot'.step = IF accepted THEN "installing" ELSE "refused"
        /\ boot'.repo = boot.repo /\ boot'.last = repo
    BY <1>2, <2>1
  <2>5. ~ accepted => ~ replaces
    OBVIOUS
  <2> HIDE DEF replaces
  <2>6. /\ venv' \in Environments /\ venv'.python = venv.python
        /\ ~ replaces => venv'.core = venv.core
    BY <2>1, <2>2 DEF Environments
  <2>7. ASSUME LockAccepted(repo), setup.python = repo.header,
               ~ Overlooked(repo.lock, setup.python)
        PROVE  accepted
    BY <1>2, <2>3, <2>7, AcceptedLockIsPips
  <2>8. BootInv'
    BY <1>1, <2>1, <2>2, <2>3, <2>4, <2>6, <2>7, CheckoutsOK
  <2>9. LaunchInv'
    BY <1>1, <2>1, <2>5, <2>6, CheckoutsOK
  <2> QED
    BY <2>8, <2>9
<1>7. CASE BootReady
  <2> DEFINE lock == boot.last.lock
             core == IF CoreLines(lock, venv.python) = {} THEN venv.core
                     ELSE PipCore(lock, venv.python)
  <2>1. /\ boot.step = "installing" /\ boot' = [boot EXCEPT !.step = "idle"]
        /\ venv' = [venv EXCEPT !.core = core]
        /\ ready' = IF boot.last # boot.repo THEN "pulled"
                    ELSE IF core # Installed(BootReads(lock)) THEN "misread" ELSE "sound"
    BY <1>7 DEF BootReady, BootStep
  <2>2. venv \in Environments /\ venv.python = setup.python
    BY <2>1
  <2>3. core \in CoreVersions \cup {None}
    <3>1. CASE CoreLines(lock, venv.python) = {}
      BY <2>2, <3>1 DEF Environments
    <3>2. CASE CoreLines(lock, venv.python) # {}
      <4>1. PICK i \in CoreLines(lock, venv.python) : TRUE
        BY <3>2
      <4>2. PipAccepts(lock, venv.python)
        BY <2>1, <2>2
      <4>3. /\ lock[i].version \in CoreVersions
            /\ PipCore(lock, venv.python) = Installed(lock[i].version)
        BY <1>2, <4>1, <4>2, PipInstallsAny
      <4> HIDE DEF lock
      <4> QED
        BY <3>2, <4>3, InstalledKeepsRelease
    <3> QED
      BY <3>1, <3>2
  <2>4. ready' = "sound" =>
          /\ core = Installed(BootReads(lock)) /\ BootReads(lock) # Range
          /\ BootstrapAllows(setup.python, BootReads(lock), setup.preview)
    BY <2>1
  <2>5. ready' = "sound" => BootReads(lock) \in CoreVersions
    BY <1>2, <2>4, BootReadsVersion
  <2> HIDE DEF core, lock
  <2>6. /\ venv' \in Environments /\ venv'.python = setup.python /\ venv'.core = core
    BY <2>1, <2>2, <2>3 DEF Environments
  <2>7. ready' = "sound" => Launchable(venv'.core, venv'.python)
    <3>1. ready' = "sound" => Launchable(core, setup.python)
      BY <2>4, <2>5, AllowedIsLaunchable DEF Launchable
    <3> QED
      BY <2>6, <3>1
  <2>8. boot'.step = "idle" /\ boot'.repo = boot.repo /\ boot'.last = boot.last
    BY <1>2, <2>1
  <2>9. BootInv'
    BY <1>1, <2>6, <2>8
  <2>10. LaunchInv'
    BY <1>1, <2>6, <2>7, CheckoutsOK
  <2> QED
    BY <2>9, <2>10
<1>8. CASE BootEnds
  <2>1. boot' = [boot EXCEPT !.step = "idle"] /\ UNCHANGED <<venv, ready>>
    BY <1>8 DEF BootEnds
  <2>2. boot'.step = "idle"
    BY <1>2, <2>1
  <2> QED
    BY <1>1, <2>1, <2>2
<1> QED
  BY <1>3, <1>4, <1>5, <1>6, <1>7, <1>8 DEF Bootstrap

\* A launcher reads a tool as a whole, and applies its rules to what it has read.
LEMMA LaunchKeepsTools ==
  ASSUME TypeOK, BootInv, LaunchInv, NEW l \in Launchers, Launch(l)
  PROVE  BootInv' /\ LaunchInv'
<1>1. /\ UNCHANGED <<setup, repo, venv, boot, ready>>
      /\ \A core, python : Launchable(core, python)' <=> Launchable(core, python)
      /\ Overridden' = Overridden
  BY DEF Launch, Choose, ReadVersions, ApplyRules, CheckState, Gather, Replace,
     Complete, Recheck, Play, LauncherEnds, environment, Launchable, Overridden
<1>2. BootInv'
  BY <1>1, BootInvIsLocal
<1>3. DOMAIN tool = Launchers /\ DOMAIN tool[l] = {"from", "core", "python", "ready"}
      /\ pc \in [Launchers -> LaunchSteps]
  BY DEF LaunchInv, TypeOK
<1>4. CASE Choose(l)
  <2>1. PICK where \in {"venv", "path"} : tool' = [tool EXCEPT ![l] = [NoTool EXCEPT !.from = where]]
    BY <1>4 DEF Choose
  <2>2. /\ tool'[l] = [from |-> where, core |-> None, python |-> 0, ready |-> "no"]
        /\ DOMAIN tool' = Launchers /\ \A k \in Launchers \ {l} : tool'[k] = tool[k]
    BY <1>3, <2>1 DEF NoTool
  <2>3. pc' = [pc EXCEPT ![l] = "versions"]
    BY <1>4 DEF Choose, Goto
  <2> QED
    BY <1>1, <1>2, <1>3, <2>2, <2>3 DEF LaunchInv
<1>5. CASE ReadVersions(l)
  <2> DEFINE found == IF tool[l].from = "venv" THEN venv ELSE setup.path
  <2>1. /\ pc[l] = "versions" /\ pc' = [pc EXCEPT ![l] = "rules"]
        /\ tool' = [tool EXCEPT ![l] =
              [tool[l] EXCEPT !.core = IF setup.playbookBin = None THEN found.core
                                       ELSE setup.playbookBin,
                              !.python = IF setup.pythonBin = None THEN found.python
                                         ELSE setup.pythonBin,
                              !.ready = IF tool[l].from = "venv" THEN ready ELSE "no"]]
    BY <1>5 DEF ReadVersions, Goto
  <2>2. DOMAIN tool' = Launchers /\ \A k \in Launchers \ {l} : tool'[k] = tool[k]
    BY <1>3, <2>1
  <2>3. /\ DOMAIN tool'[l] = {"from", "core", "python", "ready"}
        /\ tool'[l].from = tool[l].from
        /\ tool'[l].ready = IF tool[l].from = "venv" THEN ready ELSE "no"
        /\ ~ Overridden => tool'[l].core = found.core /\ tool'[l].python = found.python
    BY <1>3, <2>1 DEF Overridden
  <2>4. /\ tool'[l].ready = "sound" /\ ~ Overridden =>
             tool'[l].core = venv.core /\ tool'[l].python = venv.python /\ ready = "sound"
        /\ tool'[l].from = "path" /\ ~ Overridden =>
             tool'[l].core = setup.path.core /\ tool'[l].python = setup.path.python
    BY <2>3
  <2>5. pc'[l] = "rules" /\ \A k \in Launchers \ {l} : pc'[k] = pc[k]
    BY <1>3, <2>1
  <2>6. tool'[l].ready = "sound" /\ ~ Overridden => Launchable(tool'[l].core, tool'[l].python)
    BY <2>4 DEF LaunchInv
  <2> HIDE DEF found
  <2>7. LaunchInv'
    BY <1>1, <2>2, <2>3, <2>4, <2>5, <2>6 DEF LaunchInv
  <2> QED
    BY <1>2, <2>7
<1>6. CASE ApplyRules(l)
  <2>1. /\ UNCHANGED tool /\ pc[l] = "rules" /\ \A k \in Launchers \ {l} : pc'[k] = pc[k]
        /\ pc'[l] \in {"check", "refused"}
        /\ pc'[l] = "refused" =>
             ~ LauncherAllows(tool[l].python, tool[l].core, setup.preview, setup.minimum)
    BY <1>3, <1>6 DEF ApplyRules, Goto
  <2> QED
    BY <1>1, <1>2, <2>1 DEF LaunchInv
<1>7. CASE CheckState(l) \/ Gather(l) \/ Recheck(l) \/ Play(l)
           \/ \E c \in Collections : Replace(l, c) \/ Complete(l, c)
  <2>1. /\ UNCHANGED tool /\ \A k \in Launchers \ {l} : pc'[k] = pc[k]
        /\ pc[l] \notin {"idle", "versions", "refused"}
        /\ pc'[l] \notin {"idle", "versions", "refused"}
    BY <1>3, <1>7 DEF CheckState, Gather, Recheck, Play, Replace, Complete, Goto
  <2> QED
    BY <1>1, <1>2, <2>1 DEF LaunchInv
<1>8. CASE LauncherEnds(l)
  <2>1. /\ tool'[l] = NoTool /\ DOMAIN tool' = Launchers
        /\ \A k \in Launchers \ {l} : tool'[k] = tool[k] /\ pc'[k] = pc[k]
        /\ pc'[l] = "idle"
    BY <1>3, <1>8 DEF LauncherEnds
  <2> QED
    BY <1>1, <1>2, <2>1 DEF LaunchInv, NoTool
<1> QED
  BY <1>4, <1>5, <1>6, <1>7, <1>8 DEF Launch

LEMMA ToolsInit == Init => ToolsInv
<1> SUFFICES ASSUME Init PROVE ToolsInv
  OBVIOUS
<1>1. BootInv
  BY CheckoutsOK DEF Init, BootInv, AcceptedLockInstalls
<1>2. LaunchInv
  BY DEF Init, LaunchInv, NoTool
<1> QED
  BY <1>1, <1>2 DEF ToolsInv

LEMMA ToolsStep == ControllerInv /\ ToolsInv /\ [Next]_vars => ToolsInv'
<1> SUFFICES ASSUME TypeOK, BootInv, LaunchInv, [Next]_vars PROVE BootInv' /\ LaunchInv'
  BY DEF ControllerInv, ToolsInv
<1>1. CASE Bootstrap
  BY <1>1, BootstrapKeepsTools
<1>2. ASSUME NEW l \in setup.launchers, Launch(l)
      PROVE  BootInv' /\ LaunchInv'
  <2>1. l \in Launchers
    BY ControllerConstantsOK DEF TypeOK
  <2> QED
    BY <1>2, <2>1, LaunchKeepsTools
<1>3. CASE Pull \/ UNCHANGED vars
  <2>1. UNCHANGED <<setup, venv, boot, ready, pc, tool>>
    BY <1>3 DEF Pull, vars, environment
  <2>2. /\ \A core, python : Launchable(core, python)' <=> Launchable(core, python)
        /\ Overridden' = Overridden
    BY <2>1 DEF Launchable, Overridden
  <2> QED
    BY <2>1, <2>2, BootInvIsLocal DEF LaunchInv
<1> QED
  BY <1>1, <1>2, <1>3 DEF Next

LEMMA ToolsInvHolds == Spec => []ToolsInv
BY ToolsInit, ToolsStep, ControllerInvHolds, PTL DEF Spec

\* A lock that CI accepts is refused neither by the bootstrap nor by pip under
\* the Python that its header names, but for what Overlooked lists: the loop of
\* the lock check finds the hash of every pin, the last one included.
THEOREM AcceptedLockIsInstalled == Spec => []AcceptedLockInstalls
<1>1. ToolsInv => AcceptedLockInstalls
  BY DEF ToolsInv, BootInv
<1> QED
  BY <1>1, ToolsInvHolds, PTL

\* A launcher without other commands refuses neither an environment that the
\* bootstrap calls ready nor the image that CI lets through, unless the checkout
\* was pulled between the bootstrap's check and its pip or the script had read
\* another line than pip.
THEOREM BuiltControllerIsUsable == Spec => []BuiltControllerLaunches
<1>1. ControllerInv /\ ToolsInv => BuiltControllerLaunches
  <2> SUFFICES ASSUME TypeOK, LaunchInv, NEW l \in Launchers, pc[l] = "refused", ~ Overridden
               PROVE  /\ tool[l].core.release >= setup.minimum => tool[l].ready # "sound"
                      /\ tool[l].from = "path" => ~ setup.image
    BY DEF ControllerInv, ToolsInv, BuiltControllerLaunches
  <2>1. ~ LauncherAllows(tool[l].python, tool[l].core, setup.preview, setup.minimum)
    BY DEF LaunchInv
  <2>2. tool[l].core.release >= setup.minimum => tool[l].ready # "sound"
    BY <2>1 DEF LaunchInv, Launchable
  <2>3. tool[l].from = "path" => ~ setup.image
    BY <2>1, ImageIsLaunchable DEF LaunchInv, TypeOK
  <2> QED
    BY <2>2, <2>3
<1> QED
  BY <1>1, ControllerInvHolds, ToolsInvHolds, PTL
===============================================================================
