----------------------------- MODULE MCController -----------------------------
(* Checkouts with an ansible-core of 2.21 and 2.22, good and bad locks, and   *)
(* either a bootstrap beside one launcher or two launchers.                   *)
EXTENDS Controller, TLC

V(release, pre) == [release |-> release, pre |-> pre]
Pin(name, version) == [kind |-> "pin", name |-> name, version |-> version, more |-> TRUE]
Other(name, version, pythons) ==
    [kind |-> "other", name |-> name, version |-> version, pythons |-> pythons, more |-> TRUE]
Hash == [kind |-> "hash", more |-> FALSE]
Comment == [kind |-> "comment", more |-> FALSE]

Lint == <<Pin("lint", V(2608, "")), [Hash EXCEPT !.more = TRUE], Hash>>

Repo(core, pins) ==
    [input |-> <<Pin(Core, core)>>,
     lock |-> <<Comment, Pin(Core, core), Hash, Comment>> \o Lint,
     header |-> ControllerPython(core), image |-> ControllerPython(core),
     pins |-> pins]

Pins == "posix" :> "2.2" @@ "general" :> "11.4"
OldPins == [Pins EXCEPT !["general"] = "10.0"]
LoosePins == [Pins EXCEPT !["posix"] = Range]

Good == Repo(V(221, ""), Pins)
GoodCore == <<Pin(Core, V(221, "")), Hash>>
Bald == [Pin(Core, V(221, "")) EXCEPT !.more = FALSE]
Lock(lines) == [Good EXCEPT !.lock = lines]

\* What may be wrong with a lock: no hash, another version or none, another
\* header, two pins, another spelling, no hash that is joined, a requirement that
\* is no pin or that applies under one Python only.
Repos ==
    {Repo(V(release, pre), Pins) : release \in {219, 221, 222, 223}, pre \in {"", "rc", ".rc"}}
    \cup {[Good EXCEPT !.header = 313]}
    \cup {Lock(lines) : lines \in
            {<<Bald>> \o Lint, Lint \o <<Bald>>,
             <<Pin(Core, V(222, "")), Hash>>, Lint,
             <<Pin(Core, V(222, "")), Hash>> \o GoodCore,
             <<Pin("ansible.core", V(222, "")), Hash>> \o GoodCore,
             <<Pin("Ansible_Core", V(221, "")), Hash>>,
             <<Bald, Hash>>,
             <<Pin(Core, V(221, "")), Comment, Hash>>,
             GoodCore \o <<Pin("lint", Range), Hash>>,
             GoodCore \o <<Other("lint", V(2608, ""), {312}), Comment>>,
             <<Other(Core, V(222, ""), {315}), Hash>> \o GoodCore,
             <<Other(Core, V(222, ""), {}), Hash, Pin("Ansible_Core", V(221, "")), Hash>>}}

Tool(release, python) == [core |-> V(release, ""), python |-> python]

BootSetup(python, preview, rs) ==
    [python |-> python, preview |-> preview, bootstraps |-> TRUE, launchers |-> {"l1"},
     venvs |-> {None, [python |-> 312, pip |-> FALSE, core |-> V(219, "")]},
     path |-> Tool(216, 312), image |-> FALSE, repos |-> rs, dirs |-> {Absent},
     pythonBin |-> None, playbookBin |-> None, minimum |-> 220]

\* The state of the collections does not matter there.
Bare(r) == [r EXCEPT !.pins = "posix" :> "2.2"]
Boot(python, preview, r) == BootSetup(python, preview, {Bare(Good), Bare(r)})

ImageRepos ==
    {r \in Repos : SmokePasses(r) /\ PipAccepts(r.lock, r.image)
                   /\ PipCore(r.lock, r.image).release >= 220}

MCSetups ==
    {Boot(python, "false", r) : python \in {312, 313}, r \in Repos}
    \cup {Boot(315, preview, r) : preview \in {"false", "true", "yes"}, r \in Repos}
    \cup {Boot(311, "false", Good), [Boot(312, "false", Good) EXCEPT !.pythonBin = 315],
          [Boot(312, "false", Good) EXCEPT !.playbookBin = V(222, "")],
          [Boot(313, "false", Repo(V(222, ""), Pins)) EXCEPT !.minimum = 222]}
    \cup {[BootSetup(312, "false", {Bare(r)}) EXCEPT !.bootstraps = FALSE, !.venvs = {None},
              !.path = Image(r), !.image = TRUE] : r \in ImageRepos}
    \cup {[BootSetup(312, "false", rs) EXCEPT !.bootstraps = FALSE,
              !.venvs = {[python |-> 312, pip |-> TRUE, core |-> V(221, "")]},
              !.launchers = {"l1", "l2"}, !.dirs = {Absent, Invalid, "10.0", "11.4"}] :
            rs \in {{Good, [Good EXCEPT !.pins = OldPins]},
                    {Good, [Good EXCEPT !.pins = LoosePins]}}}
=============================================================================
