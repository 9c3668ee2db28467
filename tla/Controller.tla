------------------------------- MODULE Controller -------------------------------
(***************************************************************************)
(* The Ansible controller: bootstrap-controller.sh, which builds its       *)
(* virtual environment from the lock, and ansible-playbook.sh, which       *)
(* brings the project's collections to their pins before it starts a play. *)
(* Several launchers may run at once beside one bootstrap; they share the  *)
(* checkout, the environment and the directory of the collections, and no  *)
(* lock.  The checkout may be pulled and any script killed at any moment.  *)
(***************************************************************************)
EXTENDS Toolchain

CONSTANTS
    Launchers,  \* bound: the launchers that run at once
    None,       \* no environment, no ansible-core in it
    Setups      \* the checkouts that a pull can bring, and what the shell of
                \* the operator offers: Python, preview, the ansible of PATH,
                \* PYTHON_BIN, ANSIBLE_PLAYBOOK_BIN and the minimum version

\* An environment is a directory with a Python, and maybe pip and ansible-core.
Environments ==
    [python : Nat, pip : BOOLEAN, core : CoreVersions \cup {None}]

\* What pip makes of the lock under the Python of the Dockerfile.
Image(r) == [core |-> PipCore(r.lock, r.image), python |-> r.image]

\* A lock is a sequence of lines, where no hash is joined to a requirement below
\* it; `image' says that the ansible of PATH is that of an image that CI has let
\* through and that pip has built.
ASSUME CheckoutsOK ==
    /\ None \notin Environments /\ None \notin CoreVersions /\ None \notin Nat
    /\ Range \notin CoreVersions
    /\ \A s \in Setups :
          /\ s.python \in Nat /\ s.minimum \in Nat
          /\ s.pythonBin \in Nat \cup {None} /\ s.playbookBin \in CoreVersions \cup {None}
          /\ s.venvs \subseteq Environments \cup {None}
          /\ \A r \in s.repos :
                /\ Len(r.lock) \in Nat /\ DOMAIN r.lock = 1..Len(r.lock)
                /\ \A i \in DOMAIN r.lock : r.lock[i].kind \in {"pin", "other"} =>
                      /\ r.lock[i].version \in CoreVersions \cup {Range}
                      /\ i > 1 => ~ r.lock[i - 1].more
          /\ s.image => \E r \in s.repos :
                /\ SmokePasses(r) /\ PipAccepts(r.lock, r.image) /\ s.path = Image(r)
                /\ PipCore(r.lock, r.image).release >= s.minimum

ASSUME ControllerConstantsOK ==
    \A s \in Setups :
        /\ s.launchers \subseteq Launchers
        /\ \A r \in s.repos : ExactPins(r.pins) =>
              \A c \in DOMAIN r.pins : r.pins[c] \notin {Absent, Invalid}

VARIABLES
    setup,
    repo,     \* the checkout
    venv,     \* the environment: its Python, whether it has pip, its ansible-core
    boot,     \* the bootstrap: its next step, the checkout whose pin it has
              \* checked, and the checkout it has read last
    ready,    \* history: how the environment was made that the bootstrap has
              \* called ready
    dir,      \* the collections directory
    pc,       \* pc[l]: the next step of launcher l
    tool,     \* tool[l]: the ansible it has chosen and found
    todo,     \* todo[l]: what its ansible-galaxy will install, with the versions
    undisturbed \* history: since l looked at the collections, no other launcher
                \* has synchronized them and nobody has pulled

environment == <<venv, boot, ready>>
collections == <<dir, todo, undisturbed>>
vars == <<setup, repo, environment, pc, tool, collections>>

NoTool == [from |-> "none", core |-> None, python |-> 0, ready |-> "no"]

\* The shell names another ansible-playbook or Python than the script would take.
Overridden == setup.playbookBin # None \/ setup.pythonBin # None

Collections == UNION {DOMAIN r.pins : r \in setup.repos}

SyncSteps == {"plain", "force", "install", "exec"}
Syncing(l) == pc[l] \in SyncSteps

Init ==
    /\ setup \in Setups
    /\ repo \in setup.repos
    /\ venv \in setup.venvs
    /\ boot = [step |-> "idle", repo |-> repo, last |-> repo]
    /\ ready = "no"
    /\ dir \in [Collections -> setup.dirs]
    /\ pc = [l \in Launchers |-> "idle"]
    /\ tool = [l \in Launchers |-> NoTool]
    /\ todo = [l \in Launchers |-> [c \in {} |-> Absent]]
    /\ undisturbed = [l \in Launchers |-> FALSE]

--------------------------------------------------------------------------------
(***************************************************************************)
(* bootstrap-controller.sh.                                                *)
(***************************************************************************)
BootStep(from, to) == boot.step = from /\ boot' = [boot EXCEPT !.step = to]

\* The rules are applied to the pin that the script reads now.
BootCheck ==
    /\ boot.step = "idle" /\ setup.bootstraps
    /\ LET core == BootReads(repo.lock)
           allowed == core # Range /\ BootstrapAllows(setup.python, core, setup.preview)
       IN  boot' = [step |-> IF allowed THEN "venv" ELSE "refused", repo |-> repo, last |-> repo]
    /\ UNCHANGED <<setup, repo, venv, ready, pc, tool, collections>>

\* An environment of another Python ends the run; `python -m venv' adds pip last.
BootVenv ==
    /\ \/ venv = None /\ venv' = [python |-> setup.python, pip |-> FALSE, core |-> None]
       \/ venv # None /\ venv.python = setup.python /\ UNCHANGED venv
    /\ BootStep("venv", "pip")
    /\ UNCHANGED <<setup, repo, ready, pc, tool, collections>>

BootPip ==
    /\ BootStep("pip", "install")
    /\ venv' = [venv EXCEPT !.pip = TRUE]
    /\ UNCHANGED <<setup, repo, ready, pc, tool, collections>>

\* pip reads the requirements as they are now, and removes what it replaces.
BootInstall ==
    /\ boot.step = "install"
    /\ LET accepted == PipAccepts(repo.lock, venv.python)
           replaces == accepted /\ CoreLines(repo.lock, venv.python) # {}
       IN  /\ boot' = [boot EXCEPT !.step = IF accepted THEN "installing" ELSE "refused",
                                   !.last = repo]
           /\ venv' = [venv EXCEPT !.core = IF replaces THEN None ELSE @]
           /\ ready' = IF accepted THEN "no" ELSE ready
    /\ UNCHANGED <<setup, repo, pc, tool, collections>>

\* The script calls the environment ready, whichever checkout pip has read and
\* whichever of its lines it has installed.
BootReady ==
    /\ BootStep("installing", "idle")
    /\ LET lock == boot.last.lock
           core == IF CoreLines(lock, venv.python) = {} THEN venv.core
                   ELSE PipCore(lock, venv.python)
       IN  /\ venv' = [venv EXCEPT !.core = core]
           /\ ready' = IF boot.last # boot.repo THEN "pulled"
                       ELSE IF core # Installed(BootReads(lock)) THEN "misread"
                       ELSE "sound"
    /\ UNCHANGED <<setup, repo, pc, tool, collections>>

\* A command fails, or the script is killed, or ends after its message.
BootEnds ==
    /\ boot.step # "idle"
    /\ boot' = [boot EXCEPT !.step = "idle"]
    /\ UNCHANGED <<setup, repo, venv, ready, pc, tool, collections>>

--------------------------------------------------------------------------------
(***************************************************************************)
(* ansible-playbook.sh, run by launcher l.                                 *)
(***************************************************************************)
Goto(l, from, to) == pc[l] = from /\ pc' = [pc EXCEPT ![l] = to]

\* The environment is used when it has an ansible-playbook.
Choose(l) ==
    /\ Goto(l, "idle", "versions")
    /\ tool' = [tool EXCEPT ![l] =
                   [NoTool EXCEPT !.from = IF venv # None /\ venv.core # None
                                           THEN "venv" ELSE "path"]]
    /\ UNCHANGED <<setup, repo, environment, collections>>

\* A command that is gone by now ends the script.  PYTHON_BIN and
\* ANSIBLE_PLAYBOOK_BIN take precedence over what was chosen.
ReadVersions(l) ==
    /\ Goto(l, "versions", "rules")
    /\ tool[l].from = "venv" => venv.core # None
    /\ LET found == IF tool[l].from = "venv" THEN venv ELSE setup.path
       IN  tool' = [tool EXCEPT ![l] =
               [@ EXCEPT !.core = IF setup.playbookBin = None THEN found.core
                                  ELSE setup.playbookBin,
                         !.python = IF setup.pythonBin = None THEN found.python
                                    ELSE setup.pythonBin,
                         !.ready = IF tool[l].from = "venv" THEN ready ELSE "no"]]
    /\ UNCHANGED <<setup, repo, environment, collections>>

ApplyRules(l) ==
    /\ Goto(l, "rules", IF LauncherAllows(tool[l].python, tool[l].core,
                                       setup.preview, setup.minimum)
                        THEN "check" ELSE "refused")
    /\ UNCHANGED <<setup, repo, environment, tool, collections>>

\* The state check says whether --force is needed; a requirement that is not
\* exact ends the script.
CheckState(l) ==
    /\ ExactPins(repo.pins)
    /\ Goto(l, "check", IF Mismatches(repo.pins, dir, FALSE) = {} THEN "plain" ELSE "force")
    /\ undisturbed' = [m \in Launchers |->
                          IF m = l THEN \A k \in Launchers \ {l} : ~ Syncing(k)
                                   ELSE undisturbed[m] /\ ~ Syncing(m)]
    /\ UNCHANGED <<setup, repo, environment, tool, dir, todo>>

\* Wrong: --force is always given.
GatherForced(l) ==
    /\ Goto(l, IF pc[l] = "force" THEN "force" ELSE "plain", "install")
    /\ todo' = [todo EXCEPT ![l] = repo.pins]
    /\ UNCHANGED <<setup, repo, environment, tool, dir, undisturbed>>

\* ansible-galaxy reads the requirements itself.  With --force it installs all
\* of them, without it what is not installed and maybe what has changed.
Gather(l) ==
    /\ Goto(l, IF pc[l] = "force" THEN "force" ELSE "plain", "install")
    /\ \E S \in SUBSET DOMAIN repo.pins :
          /\ {c \in DOMAIN repo.pins : pc[l] = "force" \/ dir[c] = Absent} \subseteq S
          /\ \A c \in S : pc[l] = "force" \/ dir[c] # repo.pins[c]
          /\ todo' = [todo EXCEPT ![l] = [c \in S |-> repo.pins[c]]]
    /\ UNCHANGED <<setup, repo, environment, tool, dir, undisturbed>>

\* It replaces a collection in steps: the directory is removed, filled, and
\* complete at last.
Replace(l, c) ==
    /\ pc[l] = "install" /\ c \in DOMAIN todo[l]
    /\ \E now \in {Absent, Invalid} : dir' = [dir EXCEPT ![c] = now]
    /\ UNCHANGED <<setup, repo, environment, pc, tool, todo, undisturbed>>

Complete(l, c) ==
    /\ pc[l] = "install" /\ c \in DOMAIN todo[l]
    /\ dir' = [dir EXCEPT ![c] = todo[l][c]]
    /\ todo' = [todo EXCEPT ![l] = [d \in DOMAIN @ \ {c} |-> @[d]]]
    /\ UNCHANGED <<setup, repo, environment, pc, tool, undisturbed>>

\* Every pin has to be installed now.
Recheck(l) ==
    /\ DOMAIN todo[l] = {} /\ ExactPins(repo.pins)
    /\ Goto(l, "install", IF Mismatches(repo.pins, dir, TRUE) = {} THEN "exec" ELSE "diverged")
    /\ UNCHANGED <<setup, repo, environment, tool, collections>>

Play(l) ==
    /\ Goto(l, "exec", "playing")
    /\ UNCHANGED <<setup, repo, environment, tool, collections>>

\* The play ends, a command fails, the script is killed or has given up.
LauncherEnds(l) ==
    /\ pc[l] # "idle"
    /\ pc' = [pc EXCEPT ![l] = "idle"]
    /\ tool' = [tool EXCEPT ![l] = NoTool]
    /\ todo' = [todo EXCEPT ![l] = [c \in {} |-> Absent]]
    /\ undisturbed' = [undisturbed EXCEPT ![l] = FALSE]
    /\ UNCHANGED <<setup, repo, environment, dir>>

\* The checkout is pulled, or switched to another branch.
Pull ==
    /\ repo' \in setup.repos \ {repo}
    /\ undisturbed' = [l \in Launchers |-> FALSE]
    /\ UNCHANGED <<setup, environment, pc, tool, dir, todo>>

Bootstrap ==
    \/ BootCheck \/ BootVenv \/ BootPip \/ BootInstall \/ BootReady \/ BootEnds

Launch(l) ==
    \/ Choose(l) \/ ReadVersions(l) \/ ApplyRules(l) \/ CheckState(l) \/ Gather(l)
    \/ \E c \in Collections : Replace(l, c) \/ Complete(l, c)
    \/ Recheck(l) \/ Play(l) \/ LauncherEnds(l)

Next == Bootstrap \/ Pull \/ \E l \in setup.launchers : Launch(l)

Spec == Init /\ [][Next]_vars

--------------------------------------------------------------------------------
(***************************************************************************)
(* Properties.                                                             *)
(***************************************************************************)
Versions == UNION {{r.pins[c] : c \in DOMAIN r.pins} : r \in setup.repos}

BootSteps == {"idle", "venv", "pip", "install", "installing", "refused"}
LaunchSteps == SyncSteps \cup
    {"idle", "versions", "rules", "refused", "check", "diverged", "playing"}

\* The variables keep to their types.
TypeOK ==
    /\ setup \in Setups /\ repo \in setup.repos
    /\ boot \in [step : BootSteps, repo : setup.repos, last : setup.repos]
    /\ ready \in {"no", "pulled", "misread", "sound"}
    /\ dir \in [Collections -> setup.dirs \cup Versions \cup {Absent, Invalid}]
    /\ pc \in [Launchers -> LaunchSteps]
    /\ DOMAIN todo = Launchers
    /\ \A l \in Launchers : /\ DOMAIN todo[l] \subseteq Collections
                            /\ \A c \in DOMAIN todo[l] : todo[l][c] \in Versions
    /\ undisturbed \in [Launchers -> BOOLEAN]

Settled == \A c \in DOMAIN repo.pins : dir[c] = repo.pins[c]

\* A lock that CI accepts is installed by a bootstrap with the Python that CI
\* demands of its generator: the script's rules and pip refuse it only for what
\* is listed as overlooked by the lock check, although each of the three states
\* its rules in its own words.
AcceptedLockInstalls ==
    boot.step = "refused" /\ LockAccepted(boot.last) =>
        \/ setup.python # boot.last.header
        \/ Overlooked(boot.last.lock, setup.python)

\* A launcher that is given no other command does not refuse an environment that
\* the bootstrap calls ready, nor the image that CI lets through, from the
\* minimum version on, whatever was pulled since, killed or installed between its
\* steps.  It may refuse one that was called ready although the checkout was
\* pulled between the bootstrap's check and its pip, or although the script had
\* read another line of the lock than pip.
BuiltControllerLaunches ==
    \A l \in Launchers : pc[l] = "refused" /\ ~ Overridden =>
        /\ tool[l].core.release >= setup.minimum => tool[l].ready # "sound"
        /\ tool[l].from = "path" => ~ setup.image

\* A launcher that nobody disturbs ends up with the pinned collections, whatever
\* a launcher that was killed has left behind.
AloneConverges == \A l \in Launchers : pc[l] = "diverged" => ~ undisturbed[l]

\* A play that has started undisturbed keeps its collections until its end:
\* a launcher that comes later on the same pins replaces none of them.
PlayKeepsCollections ==
    \A l \in Launchers : pc[l] = "playing" /\ undisturbed[l] => Settled

--------------------------------------------------------------------------------
(***************************************************************************)
(* The inductive invariants: ControllerInv behind the last two properties, *)
(* ToolsInv behind the first two.                                          *)
(***************************************************************************)
\* What a launcher does that came later than a settled play.
Harmless(k) ==
    /\ pc[k] # "force"
    /\ pc[k] = "install" => DOMAIN todo[k] = {}

\* An undisturbed launcher is alone while it works on the collections, what it
\* will not install is at its pin, and once it plays the others are harmless.
UndisturbedInv ==
    \A l \in Launchers : undisturbed[l] =>
        /\ pc[l] \in SyncSteps \cup {"playing"}
        /\ Syncing(l) => \A k \in Launchers \ {l} : ~ Syncing(k)
        /\ pc[l] = "plain" =>
              \A c \in DOMAIN repo.pins : dir[c] \in {Absent, repo.pins[c]}
        /\ pc[l] = "install" =>
              \A c \in DOMAIN repo.pins :
                  IF c \in DOMAIN todo[l] THEN todo[l][c] = repo.pins[c]
                                          ELSE dir[c] = repo.pins[c]
        /\ pc[l] \in {"exec", "playing"} => Settled
        /\ pc[l] = "playing" => \A k \in Launchers : Harmless(k)

ControllerInv == TypeOK /\ UndisturbedInv

\* A bootstrap goes on only with a pin that its rules allow, and in an
\* environment of its Python.
BootInv ==
    /\ venv \in Environments \cup {None}
    /\ boot.step \in {"venv", "pip", "install", "installing"} =>
          /\ BootReads(boot.repo.lock) # Range
          /\ BootstrapAllows(setup.python, BootReads(boot.repo.lock), setup.preview)
    /\ boot.step \in {"pip", "install", "installing"} =>
          venv # None /\ venv.python = setup.python
    /\ boot.step = "installing" => PipAccepts(boot.last.lock, setup.python)
    /\ AcceptedLockInstalls

Launchable(core, python) ==
    core.release >= setup.minimum =>
        LauncherAllows(python, core, setup.preview, setup.minimum)

\* A sound environment satisfies the launcher's rules, and so does what a
\* launcher has read of it before it is completed anew or replaced.
LaunchInv ==
    /\ ready = "sound" => venv # None /\ Launchable(venv.core, venv.python)
    /\ DOMAIN tool = Launchers
    /\ \A l \in Launchers :
          /\ DOMAIN tool[l] = {"from", "core", "python", "ready"}
          /\ pc[l] \in {"idle", "versions"} => tool[l].ready = "no"
          /\ tool[l].ready = "sound" /\ ~ Overridden =>
                Launchable(tool[l].core, tool[l].python)
          /\ tool[l].from = "path" /\ pc[l] \notin {"idle", "versions"} /\ ~ Overridden =>
                tool[l].core = setup.path.core /\ tool[l].python = setup.path.python
          /\ pc[l] = "refused" =>
                ~ LauncherAllows(tool[l].python, tool[l].core, setup.preview, setup.minimum)

ToolsInv == BootInv /\ LaunchInv
=============================================================================
