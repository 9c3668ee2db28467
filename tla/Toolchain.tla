-------------------------------- MODULE Toolchain -------------------------------
(***************************************************************************)
(* The rules that tie the pinned ansible-core to a Python, as they are     *)
(* stated in six places: CI's lock check (ci-check-ci-lock.py with         *)
(* ci_ansible_version.py), CI's check of the controller image              *)
(* (ci-production-safety-check.py), bootstrap-controller.sh,               *)
(* ansible-playbook.sh, and pip; and the comparison of the installed       *)
(* collections with their pins (ansible-collection-state.py).              *)
(*                                                                         *)
(* A Python X.Y is the number 100 X + Y, and so is the release line of     *)
(* ansible-core; `pre' is the form of its suffix, "" for a stable release. *)
(*                                                                         *)
(* A requirements file is a sequence of lines: a pin, which is what the    *)
(* lock check takes for one, another requirement, a hash, or a comment.    *)
(* `more' says that a line ends with a backslash.  A requirement has the   *)
(* name and the version that are written there; one that is no pin may     *)
(* have a marker: it applies under `pythons'.                              *)
(***************************************************************************)
EXTENDS Integers, Sequences

CONSTANTS
    Absent,   \* no directory of the collection
    Invalid,  \* its directory has no readable MANIFEST.json
    Range     \* a requirement that is not one exact version

Core == "ansible-core"

\* Other ways to write it: one that the lock check and pip take for the same
\* name (case, underscores), and one that only pip does (dots).
CheckName(name) == IF name = "Ansible_Core" THEN Core ELSE name
PipName(name) == IF name \in {"Ansible_Core", "ansible.core"} THEN Core ELSE name

First(S) == CHOOSE i \in S : \A j \in S : i <= j
Last(S) == CHOOSE i \in S : \A j \in S : j <= i

--------------------------------------------------------------------------------
(* Versions.                                                                  *)

CoreVersions == [release : Nat, pre : {"", ".dev", "a", "b", "rc", ".rc"}]

\* The suffixes .devN, aN, bN and rcN; the shell scripts take .rcN as well.
Known(version) == version # Range /\ version.pre # ".rc"

\* The Python of the controller for a release line of ansible-core.
ControllerPython(version) == IF version.release >= 222 THEN 313 ELSE 312

\* pip writes the suffix .rcN as rcN.
Installed(version) ==
    [version EXCEPT !.pre = IF @ = ".rc" THEN "rc" ELSE @]

Prerelease(version) == version.pre # ""

\* Wrong: Python 3.12 is taken with every ansible-core.
BootstrapAllowsAny(python, version, preview) ==
    /\ python \in 312..315
    /\ python = 315 => version.release >= 222

\* The rules of bootstrap-controller.sh ...
BootstrapAllows(python, version, preview) ==
    /\ python \in 312..315
    /\ python = 315 =>
          /\ version.release >= 222
          /\ preview \in {"true", "false"}
          /\ Prerelease(version) => preview = "true" /\ version.release = 222
    /\ python = 312 => version.release < 222

\* ... and of ansible-playbook.sh, for what it finds installed.
LauncherAllows(python, version, preview, minimum) ==
    LET preview315 == preview = "true" /\ version.release = 222
    IN  /\ version.release >= minimum
        /\ python = 315 => version.release >= 222 /\ preview \in {"true", "false"}
        /\ python = 315 /\ Prerelease(version) => preview315
        /\ ~ (python = 312 /\ version.release >= 222)

--------------------------------------------------------------------------------
(* The lock of CI's Python tools.                                             *)

IsPin(lines, i) == lines[i].kind = "pin"

Packages(lines) == {CheckName(lines[i].name) : i \in {j \in DOMAIN lines : IsPin(lines, j)}}

PinsOf(lines, package) ==
    {i \in DOMAIN lines : IsPin(lines, i) /\ CheckName(lines[i].name) = package}

\* The lock check keeps the last pin of a package, ...
Pinned(lines, package) == lines[Last(PinsOf(lines, package))].version

\* ... the image check searches for the first that is written plainly, ...
ImagePins(lines) == {i \in DOMAIN lines : IsPin(lines, i) /\ lines[i].name = Core}
ImageReads(lines) == lines[First(ImagePins(lines))].version

\* ... and the bootstrap for the first line that begins so, with a version,
\* whatever else is on it; Range when there is none.
BootLines(lines) ==
    {i \in DOMAIN lines : /\ lines[i].kind \in {"pin", "other"}
                          /\ lines[i].name = Core /\ lines[i].version # Range}
BootReads(lines) ==
    IF BootLines(lines) = {} THEN Range ELSE lines[First(BootLines(lines))].version

\* The loop that looks for a hash after each pin, i lines later: a requirement
\* is open, it has a hash, an earlier one had none.
Scan(lines) ==
    LET scan[i \in 0..Len(lines)] ==
            IF i = 0 THEN [open |-> FALSE, hashed |-> FALSE, failed |-> FALSE]
            ELSE LET s == scan[i - 1] IN
                 IF IsPin(lines, i)
                 THEN [open |-> TRUE, hashed |-> FALSE,
                       failed |-> s.failed \/ (s.open /\ ~ s.hashed)]
                 ELSE [s EXCEPT !.hashed = @ \/ (s.open /\ lines[i].kind = "hash")]
    IN  scan

\* Wrong: the last requirement of the file is not looked at.
AllHashedButLast(lines) == ~ Scan(lines)[Len(lines)].failed

AllHashed(lines) ==
    LET end == Scan(lines)[Len(lines)]
    IN  ~ end.failed /\ (end.open => end.hashed)

\* The lock check passes: `input' is requirements-ci.in, `lock' is
\* requirements-ci.txt, and `header' the Python that its first lines name.
LockAccepted(repo) ==
    /\ Core \in Packages(repo.input)
    /\ Known(Pinned(repo.input, Core))
    /\ repo.header = ControllerPython(Pinned(repo.input, Core))
    /\ AllHashed(repo.lock)
    /\ \A p \in Packages(repo.input) :
          /\ p \in Packages(repo.lock)
          /\ Pinned(repo.lock, p) = Pinned(repo.input, p)

\* The Dockerfile starts from the Python of the locked ansible-core.
ImageAccepted(repo) ==
    /\ ImagePins(repo.lock) # {}
    /\ Known(ImageReads(repo.lock))
    /\ repo.image = ControllerPython(ImageReads(repo.lock))

\* Both are checks of the smoke run, which runs them all and fails when one of
\* them does.
SmokeChecks(repo) ==
    [lock |-> LockAccepted(repo), safety |-> ImageAccepted(repo)]

SmokePasses(repo) == \A c \in DOMAIN SmokeChecks(repo) : SmokeChecks(repo)[c]

--------------------------------------------------------------------------------
(* pip --require-hashes.                                                      *)

\* Line i has a hash below it before the next pin ...
HashedUpTo(lines, i, n) ==
    \E j \in (i + 1)..n :
        lines[j].kind = "hash" /\ \A k \in (i + 1)..j : ~ IsPin(lines, k)

\* ... and one that the backslashes join to it.
Joined(lines, i) ==
    \E j \in (i + 1)..Len(lines) :
        \A k \in (i + 1)..j : lines[k].kind = "hash" /\ lines[k - 1].more

\* The requirements that apply, and those of ansible-core among them.
Applied(lines, python) ==
    {i \in DOMAIN lines : \/ IsPin(lines, i)
                          \/ lines[i].kind = "other" /\ python \in lines[i].pythons}

CoreLines(lines, python) ==
    {i \in Applied(lines, python) : PipName(lines[i].name) = Core}

\* Two requirements of one package that no version satisfies.
Conflict(lines, i, j) ==
    /\ PipName(lines[i].name) = PipName(lines[j].name)
    /\ Installed(lines[i].version) # Installed(lines[j].version)

\* Each requirement is exact and has a hash, no two of them conflict, and
\* ansible-core has its Python.
PipAccepts(lines, python) ==
    /\ \A i \in Applied(lines, python) : lines[i].version # Range /\ Joined(lines, i)
    /\ \A i, j \in Applied(lines, python) : ~ Conflict(lines, i, j)
    /\ \A i \in CoreLines(lines, python) : python >= ControllerPython(lines[i].version)

\* The ansible-core that it installs then.
PipCore(lines, python) ==
    Installed(lines[CHOOSE i \in CoreLines(lines, python) : TRUE].version)

\* What the lock check lets through although the bootstrap or pip may not: an
\* ansible-core whose last pin is not the line that the bootstrap reads, a
\* requirement that is not exact, one that is no pin or is not joined to the
\* hash below it and so has none, and two that conflict.
Overlooked(lines, python) ==
    \/ BootReads(lines) # Pinned(lines, Core)
    \/ \E i \in Applied(lines, python) :
          \/ lines[i].version = Range
          \/ ~ Joined(lines, i) /\ (~ IsPin(lines, i) \/ HashedUpTo(lines, i, Len(lines)))
    \/ \E i, j \in Applied(lines, python) : Conflict(lines, i, j)

--------------------------------------------------------------------------------
(* The collections.                                                           *)

\* The requirements name collections, each with one exact version.
ExactPins(pins) == DOMAIN pins # {} /\ \A c \in DOMAIN pins : pins[c] # Range

\* Wrong: a collection without metadata counts as not installed.
IsInstalledValid(dir, c) == dir[c] \notin {Absent, Invalid}

\* A directory without readable metadata is an installed collection, whose
\* version is that of no pin.
IsInstalled(dir, c) == dir[c] # Absent

\* A collection that is not installed is a mismatch only when it is required.
Mismatches(pins, dir, required) ==
    {c \in DOMAIN pins : (required \/ IsInstalled(dir, c)) /\ dir[c] # pins[c]}
=============================================================================
