----------------------------- MODULE Certification -----------------------------
(***************************************************************************)
(* playbooks/production-readiness.yml: the doctor's rules for the          *)
(* inventory, the readiness role with its configuration gate, the checks   *)
(* it runs one after the other on a live installation, the record that it  *)
(* writes on the controller with its two sidecars, and the verifier that   *)
(* judges the record at once and whenever somebody asks again.             *)
(*                                                                         *)
(* Beside the play the nodes go on being updated, the automation checkout  *)
(* is pulled, time passes, stored files decay or are edited, and the play  *)
(* itself may stop at any task.  Each task of the play that only asserts   *)
(* is part of the step before or after it; whether a live probe succeeds   *)
(* is up to the installation, so a probe that fails is an Abort.           *)
(***************************************************************************)
EXTENDS Inventory, Evidence

CONSTANTS
    Hosts,        \* the hosts that an inventory may name
    Maintainable, \* bound: the hosts that are put into maintenance_nodes
    Setups,       \* the inventories with their variables to consider
    LowerCase,    \* the names of hosts, and their addresses, in lower case
    MaxRevision,  \* bound: commits of LibreNMS
    MaxHead,      \* bound: commits of the automation project
    MaxClock,     \* bound: time
    MaxAge,       \* evidence_max_age_seconds
    MaxPlays      \* bound: readiness runs

\* The inventory of a setup with m as its maintenance_nodes, as Ansible resolves
\* it and as the local check reads it.
InvOf(s, m) == [s.inv EXCEPT !.maintenance = m]
FileOf(s, m) == [s.file EXCEPT !.maintenance = m]

\* The verified fields of the identity of an inventory, see `Fingerprint'.
FingerprintOf(s, m) ==
    LET inv == InvOf(s, m)
    IN  [mode |-> inv.mode, profile |-> s.profile,
         dbMode |-> inv.dbMode, redisMode |-> inv.redisMode,
         rrdMode |-> inv.rrdMode, vip |-> inv.vip, tls |-> s.tls,
         daily |-> s.daily, offsite |-> s.offsite, alerts |-> s.alerts,
         active |-> [g \in Groups |-> Active(inv, g)],
         inactive |-> Inactive(inv)]

\* What maintenance_nodes may be.
Maintained ==
    {s.inv.maintenance : s \in Setups} \cup {{}} \cup {{h} : h \in Maintainable}

\* A host has an address, its name unless the inventory gives one, and a digest
\* is not Missing.
ASSUME InventoriesOK ==
    \A s \in Setups :
        /\ {"address", "maintenance"} \subseteq DOMAIN s.inv
        /\ "maintenance" \in DOMAIN s.file
        /\ \A g \in Groups : \A h \in s.inv.group[g] : s.inv.address[h] # ""
        /\ \A m \in Maintained : FingerprintOf(s, m) # Missing

ASSUME CertificationConstantsOK ==
    /\ \A s \in Setups :
          "group" \in DOMAIN s.inv /\ s.inv.group["nodes"] \subseteq Hosts
    /\ {MaxRevision, MaxHead} \subseteq Nat \ {0}
    /\ {MaxClock, MaxAge, MaxPlays} \subseteq Nat

VARIABLES
    setup,     \* the inventory and its variables, see below
    maintained,\* the hosts that the inventory has in maintenance_nodes now
    rev,       \* rev[h]: the LibreNMS commit checked out on h
    latest,    \* the newest commit that an update would fetch
    head,      \* HEAD of the automation checkout
    clock,
    plays,
    pc,        \* the play's next step
    seen,      \* seen[h]: the commit the play has read on h, 0 before it
    ran,       \* the scopes whose tasks have run in this play
    identity,  \* the automation revision as read, and the completion time
    files,     \* the newest record's files
    together,  \* history: commits that all nodes had at one time in this play
    origin     \* history: what was true of the play that wrote `files'

\* A setup abstracts the variables to what the gate tells apart:
\*   inv       the inventory and the variables that the doctor looks at
\*   file      the same as scripts/validate-inventory.py reads it
\*   profile   librenms_production_profile
\*   lock      the backend of the global lock, which is enabled
\*   canary    the canary is enabled with a file and a timeout, its host and
\*             the host of the scheduled backup are active ones, and the
\*             readiness agent of Galera is on
\*   offsite   copies go off the site, with the database and the configuration
\*   offsiteRequired, daily   ... must succeed; the backup is scheduled
\*   alerts    alerts go to a webhook over HTTPS
\*   tls       HAProxy terminates TLS
\*   flags     the scopes whose checks are switched on
\*   write, integrity, hmac   the record and its sidecars are written
\*   key       the application key
play == <<pc, seen, ran, identity, together>>
installation == <<rev, latest, head, clock>>
vars == <<setup, maintained, installation, plays, play, files, origin>>

Revisions == 1..MaxRevision

Inv == InvOf(setup, maintained)
File == FileOf(setup, maintained)
Nodes == Active(Inv, "nodes")
Ha == Inv.mode = "ha"
MustBeStrict == Ha \/ setup.profile
Requires(scope) == scope \in setup.flags

OnAllNodes(r) == {c \in Revisions : \A n \in Nodes : r[n] = c}

NoFiles == [name |-> 0, record |-> Missing, sha |-> Missing, hmac |-> Missing]
NoOrigin == [record |-> Missing, ran |-> {}, together |-> {}]
NoIdentity == [automation |-> 0, completed |-> 0]

--------------------------------------------------------------------------------
(***************************************************************************)
(* The gates on the configuration.                                         *)
(***************************************************************************)

\* The doctor leaves the hosts that are only in librenms_web aside.
DoctorManaged(inv) == UNION {Active(inv, g) : g \in Groups \ {"web"}}

\* librenms_doctor_ha_required_*, unless they are changed.
MinimumHosts == [nodes |-> 2, lb |-> 2, db |-> 3, redis |-> 3, gluster |-> 3]

\* What the doctor takes for a placeholder: its patterns are regular expressions,
\* of which one leaves a character open.
DoctorMarks == {"CHANGE_ME", "CHANGEME", "example.com", "example?com"}

\* The filter `int' makes zero of what is not a number.
DoctorInt(value) == IF value = Text THEN 0 ELSE value

\* The filter `unique' does not tell upper from lower case.
DoctorUnique(name, S) == Injective([h \in S |-> LowerCase[name[h]]], S)

\* `snmpVersions' is librenms_snmp_versions_enabled, `community' and `v3User' say
\* whether there is a community and a first user with a name and a password.
SnmpUsable(inv) ==
    /\ "v2c" \in inv.snmpVersions => inv.community
    /\ "v3" \in inv.snmpVersions => inv.v3User

\* The role `doctor', which opens the play, asserts this of the inventory.  The
\* numbers of hosts that it requires are variables; YAML may have taken the
\* password of VRRP for a number, which has no length.
DoctorAccepts(inv) ==
    /\ NodesDeclared(inv)
    /\ DoctorUnique(inv.address, DoctorManaged(inv))
    /\ DoctorUnique(inv.id, Active(inv, "nodes"))
    /\ inv.mode = "ha" =>
          /\ Cardinality(Active(inv, "nodes")) >= inv.required.nodes
          /\ Cardinality(PlayWeb(inv)) >= inv.required.nodes
          /\ Cardinality(Active(inv, "lb")) >= inv.required.lb
          /\ inv.vipEnabled /\ inv.vip # ""
    /\ inv.dbMode = "galera" => Cardinality(Active(inv, "db")) >= inv.required.db
    /\ inv.redisMode = "sentinel" => Cardinality(Active(inv, "redis")) >= inv.required.redis
    /\ inv.rrdMode = "glusterfs" => Cardinality(Active(inv, "gluster")) >= inv.required.gluster
    /\ inv.vipEnabled =>
          /\ \A h \in DoctorManaged(inv) : inv.vip # inv.address[h]
          /\ DoctorInt(inv.cidr) \in 1..32 /\ DoctorInt(inv.vrid) \in 1..255
          /\ inv.authPassText /\ inv.authPass \in 1..8
    /\ Placeholders(inv, DoctorMarks) = {}
    /\ SnmpUsable(inv)

\* Wrong: any lock backend will do.
HaGateAnyLock ==
    LET inv == Inv
    IN  /\ setup.canary /\ setup.offsite /\ setup.offsiteRequired
        /\ inv.dbMode = "galera" /\ inv.redisMode = "sentinel"
        /\ inv.rrdMode \in {"glusterfs", "external"}
        /\ Cardinality(PlayWeb(inv)) >= 2

\* Wrong: the copy may be configured without being required.
HaGateOptionalCopy ==
    LET inv == Inv
    IN  /\ setup.lock = "shared_file" /\ setup.canary /\ setup.offsite
        /\ inv.dbMode = "galera" /\ inv.redisMode = "sentinel"
        /\ inv.rrdMode \in {"glusterfs", "external"}
        /\ Cardinality(PlayWeb(inv)) >= 2

HaGate ==
    LET inv == Inv
    IN  /\ setup.lock = "shared_file" /\ setup.canary
        /\ setup.offsite /\ setup.offsiteRequired
        /\ Requires("daily_backup") => setup.daily
        /\ inv.dbMode = "galera" /\ inv.redisMode = "sentinel"
        /\ inv.rrdMode \in {"glusterfs", "external"}
        /\ inv.vipEnabled /\ inv.vip # ""
        /\ Cardinality(Active(inv, "db")) >= 3
        /\ Cardinality(Active(inv, "redis")) >= 3
        /\ Cardinality(Active(inv, "lb")) >= 2
        /\ Cardinality(PlayWeb(inv)) >= 2
        /\ Requires("alert_routing") => setup.alerts

StrictGate ==
    /\ Inactive(Inv) = {}
    /\ setup.flags = Scopes
    /\ setup.tls
    /\ setup.write /\ setup.integrity /\ setup.hmac
    /\ MaxAge > 0

\* "Require production-safe HA configuration"
ProductionSafe ==
    /\ Usable(setup.key)
    /\ Ha => HaGate
    /\ MustBeStrict => StrictGate
    /\ setup.integrity => setup.write
    /\ setup.hmac => setup.integrity

(***************************************************************************)
(* The conditions under which the tasks of a scope run.                    *)
(***************************************************************************)
Checked(scope) ==
    /\ Requires(scope)
    /\ scope \notin {"network_tcp", "host_firewall"} => Ha
    /\ scope = "vip_tls" => Inv.vipEnabled /\ setup.tls
    /\ scope = "shared_lock" => setup.lock = "shared_file"
    /\ scope \in {"offsite_backup", "database_restore"} =>
          Requires("offsite_backup") /\ setup.offsite /\ setup.offsiteRequired

DoctorScopes == {"network_tcp"}
EarlyScopes == {"host_firewall", "alert_routing", "shared_lock",
                "daily_backup", "failover"}
LateScopes == {"vip_tls", "web_health", "offsite_backup", "database_restore"}

--------------------------------------------------------------------------------
Init ==
    /\ setup \in Setups /\ maintained = setup.inv.maintenance
    /\ rev \in [Hosts -> {1}]
    /\ latest = 1 /\ head = 1 /\ clock = 0 /\ plays = 0
    /\ pc = "idle"
    /\ seen = [h \in Hosts |-> 0]
    /\ ran = {} /\ together = {}
    /\ identity = NoIdentity
    /\ files = NoFiles
    /\ origin = NoOrigin

(***************************************************************************)
(* The play.                                                               *)
(***************************************************************************)
Step(from, to) == pc = from /\ pc' = to

\* The playbook starts; the first role is the doctor.
StartPlay ==
    /\ plays < MaxPlays
    /\ DoctorAccepts(Inv)
    /\ Step("idle", "gate")
    /\ plays' = plays + 1
    /\ seen' = [h \in Hosts |-> 0]
    /\ ran' = {s \in DoctorScopes : Checked(s)}
    /\ identity' = NoIdentity
    /\ together' = OnAllNodes(rev)
    /\ UNCHANGED <<setup, maintained, installation, files, origin>>

PassGate ==
    /\ Step("gate", "early")
    /\ ProductionSafe
    /\ UNCHANGED <<setup, maintained, installation, plays, seen, ran, identity, together, files, origin>>

RunEarlyChecks ==
    /\ Step("early", "revisions")
    /\ ran' = ran \cup {s \in EarlyScopes : Checked(s)}
    /\ UNCHANGED <<setup, maintained, installation, plays, seen, identity, together, files, origin>>

\* The loop goes from node to node; their order does not matter.
ReadRevision(n) ==
    /\ pc = "revisions"
    /\ n \in Nodes /\ seen[n] = 0
    /\ seen' = [seen EXCEPT ![n] = rev[n]]
    /\ UNCHANGED <<setup, maintained, installation, plays, pc, ran, identity, together, files, origin>>

\* Wrong: complete results are enough.
RequireResults ==
    /\ Step("revisions", "automation")
    /\ Nodes # {} /\ \A n \in Nodes : seen[n] # 0
    /\ UNCHANGED <<setup, maintained, installation, plays, seen, ran, identity, together, files, origin>>

\* Complete results, and one revision among them.
RequireOneRevision ==
    /\ Step("revisions", "automation")
    /\ \A n \in Nodes : seen[n] # 0
    /\ Cardinality({seen[n] : n \in Nodes}) = 1
    /\ UNCHANGED <<setup, maintained, installation, plays, seen, ran, identity, together, files, origin>>

ReadAutomationRevision ==
    /\ Step("automation", "late")
    /\ identity' = [identity EXCEPT !.automation = head]
    /\ UNCHANGED <<setup, maintained, installation, plays, seen, ran, together, files, origin>>

RunLateChecks ==
    /\ Step("late", "stamp")
    /\ ran' = ran \cup {s \in LateScopes : Checked(s)}
    /\ UNCHANGED <<setup, maintained, installation, plays, seen, identity, together, files, origin>>

StampCompletion ==
    /\ Step("stamp", IF setup.write THEN "write" ELSE "publish")
    /\ identity' = [identity EXCEPT !.completed = clock]
    /\ UNCHANGED <<setup, maintained, installation, plays, seen, ran, together, files, origin>>

SourceRevision == CHOOSE c \in {seen[n] : n \in Nodes} : TRUE

\* Wrong: the groups as they are declared, maintained hosts included.
FingerprintOfGroups ==
    [mode |-> Inv.mode, profile |-> setup.profile, vip |-> Inv.vip,
     groups |-> Inv.group]

\* The digest of these fields, which stands for them.
Fingerprint == FingerprintOf(setup, maintained)

\* The fields <scope>_verified repeat the flags of the inventory.
Claims == setup.flags

Record ==
    [result |-> "passed", schema |-> 1, completed |-> identity.completed,
     mode |-> Inv.mode, vip |-> Inv.vip,
     source |-> SourceRevision, automation |-> identity.automation,
     fingerprint |-> Fingerprint, claims |-> Claims,
     elapsed |-> [d \in Durations |-> IF d \in ran THEN 0 ELSE -1],
     active |-> [db |-> Active(Inv, "db"),
                 redis |-> Active(Inv, "redis"),
                 lb |-> Active(Inv, "lb"), nodes |-> Nodes,
                 web |-> PlayWeb(Inv)],
     inactive |-> Inactive(Inv)]

\* The name carries the time of the run: a new file every time.
WriteRecord ==
    /\ Step("write", IF setup.integrity THEN "sha" ELSE "publish")
    /\ files' = [NoFiles EXCEPT !.name = plays, !.record = Record]
    /\ origin' = [record |-> Record, ran |-> ran, together |-> together]
    /\ UNCHANGED <<setup, maintained, installation, plays, seen, ran, identity, together>>

\* The digest is calculated from the file as it is now.
WriteSha ==
    /\ Step("sha", IF setup.hmac THEN "hmac" ELSE "publish")
    /\ files' = [files EXCEPT !.sha = Sidecar(files.name, Digest(files.record))]
    /\ UNCHANGED <<setup, maintained, installation, plays, seen, ran, identity, together, origin>>

\* The HMAC is calculated from the file as it is now, read back and compared.
WriteHmac ==
    /\ Step("hmac", "verify")
    /\ files' = [files EXCEPT !.hmac =
                    Sidecar(files.name, Hmac(setup.key, files.record))]
    /\ UNCHANGED <<setup, maintained, installation, plays, seen, ran, identity, together, origin>>

\* The play hands the key over on standard input; on a node it is in the
\* environment file that the application role has written.
Stdin == [kind |-> "stdin", key |-> setup.key]
NodeEnvironment ==
    [kind |-> "env", lines |-> <<[name |-> "APP_URL", value |-> Missing],
                                 [name |-> "APP_KEY", value |-> setup.key]>>]

AcceptsWith(source, expected) == Verified(files, expected, source, MaxAge, clock)
Accepts(expected) ==
    AcceptsWith(Stdin, expected) \/ AcceptsWith(NodeEnvironment, expected)

\* What the play expects of its own record.
OwnIdentity ==
    [source |-> SourceRevision, automation |-> identity.automation,
     fingerprint |-> Fingerprint]

VerifyOwnRecord ==
    /\ Step("verify", "publish")
    /\ AcceptsWith(Stdin, OwnIdentity)
    /\ UNCHANGED <<setup, maintained, installation, plays, seen, ran, identity, together, files, origin>>

Forget ==
    /\ pc' = "idle"
    /\ seen' = [h \in Hosts |-> 0]
    /\ ran' = {} /\ together' = {} /\ identity' = NoIdentity
    /\ UNCHANGED <<setup, maintained, installation, plays, files, origin>>

Publish == pc = "publish" /\ Forget

\* A task fails or the play is interrupted.
Abort == pc # "idle" /\ Forget

(***************************************************************************)
(* What goes on beside the play.                                           *)
(***************************************************************************)
\* Updates fetch the newest commit and never go back to an older one.
Update(n) ==
    /\ rev[n] < latest
    /\ rev' = [rev EXCEPT ![n] = latest]
    /\ together' = IF pc = "idle" THEN {} ELSE together \cup OnAllNodes(rev')
    /\ UNCHANGED <<setup, maintained, latest, head, clock, plays, pc, seen, ran, identity, files, origin>>

Release ==
    /\ latest < MaxRevision
    /\ latest' = latest + 1
    /\ UNCHANGED <<setup, maintained, rev, head, clock, plays, play, files, origin>>

\* The checkout is pulled.  Between two plays nothing looks at it.
Pull ==
    /\ pc # "idle" /\ head < MaxHead
    /\ head' = head + 1
    /\ UNCHANGED <<setup, maintained, rev, latest, clock, plays, play, files, origin>>

Tick ==
    /\ clock < MaxClock
    /\ clock' = clock + 1
    /\ UNCHANGED <<setup, maintained, rev, latest, head, plays, play, files, origin>>

\* A sidecar is lost, or the record is edited (once), and whoever edits it may
\* calculate the plain checksum again.  Nobody edits it while the play works
\* on it, since the play would authenticate what it finds.
Lose ==
    /\ files.record # Missing
    /\ files' \in {[files EXCEPT !.sha = Missing], [files EXCEPT !.hmac = Missing]}
    /\ UNCHANGED <<setup, maintained, installation, plays, play, origin>>

Edits(record) ==
    {[record EXCEPT !.completed = MaxClock],
     [record EXCEPT !.claims = Scopes],
     [record EXCEPT !.result = "failed"]}

Edit ==
    /\ pc = "idle" /\ files.record # Missing /\ files.record = origin.record
    /\ \E record \in Edits(files.record), sha \in {TRUE, FALSE} :
          files' = [files EXCEPT !.record = record,
                        !.sha = IF sha THEN Sidecar(files.name, Digest(record))
                                ELSE @]
    /\ UNCHANGED <<setup, maintained, installation, plays, play, origin>>

\* A host is put into the group of maintained nodes, or taken out of it.  A
\* play works on the inventory that it has loaded.
ToggleMaintenance(h) ==
    /\ pc = "idle"
    /\ maintained' \in {{}, {h}}
    /\ UNCHANGED <<setup, installation, plays, play, files, origin>>

Next ==
    \/ StartPlay \/ PassGate \/ RunEarlyChecks
    \/ \E n \in Hosts : ReadRevision(n)
    \/ RequireOneRevision \/ ReadAutomationRevision \/ RunLateChecks
    \/ StampCompletion \/ WriteRecord \/ WriteSha \/ WriteHmac
    \/ VerifyOwnRecord \/ Publish \/ Abort
    \/ \E n \in Hosts : Update(n)
    \/ \E h \in Maintainable : ToggleMaintenance(h)
    \/ Release \/ Pull \/ Tick \/ Lose \/ Edit

Spec == Init /\ [][Next]_vars

--------------------------------------------------------------------------------
(***************************************************************************)
(* Properties.                                                             *)
(***************************************************************************)
Steps == {"idle", "gate", "early", "revisions", "automation", "late", "stamp",
          "write", "sha", "hmac", "verify", "publish"}

\* The variables keep to their types.
TypeOK ==
    /\ setup \in Setups
    /\ rev \in [Hosts -> Revisions]
    /\ latest \in Revisions
    /\ head \in 1..MaxHead
    /\ clock \in 0..MaxClock
    /\ plays \in 0..MaxPlays
    /\ pc \in Steps
    /\ seen \in [Hosts -> 0..MaxRevision]
    /\ ran \subseteq Scopes
    /\ together \subseteq Revisions

\* The stored record passes for a caller who expects what it says of itself.
Accepted == files.record # Missing /\ Accepts(IdentityOf(files.record))

\* What the verifier accepts is what a play wrote, byte for byte: an edited
\* record is refused, with its checksum calculated again or without.
AcceptedIsOriginal == Accepted => files.record = origin.record

\* An accepted HA record claims no scope whose tasks were skipped in its run,
\* although the fields only repeat the flags of the inventory: the gate on the
\* configuration excludes every other condition under which a task is skipped.
HaClaimsWereChecked ==
    Accepted /\ files.record.mode = "ha" => files.record.claims \subseteq origin.ran

\* The commit that an accepted record names was on all application nodes at
\* one moment of the run, although they are read one after the other while
\* updates go on.
CertifiedTogether == Accepted => files.record.source \in origin.together

\* "a passing certificate cannot be reused while a declared node is in
\* maintenance or decommissioning" (docs/operations.md:437-439): with the
\* fingerprint of today's inventory no HA record is accepted then.
NoReuseInMaintenance ==
    /\ files.record # Missing
    /\ Accepts([IdentityOf(files.record) EXCEPT !.fingerprint = Fingerprint])
    /\ files.record.mode = "ha"
    => Inactive(Inv) = {}

\* A configuration that the doctor and the gate let through never ends in a
\* record that the verifier of the same play refuses, unless a file was lost
\* or the record is too old: the three sets of rules agree.  They do not for the
\* mode `cluster', which README.md:1627 offers too: only the verifier objects.
\* Nor when librenms_doctor_ha_required_app_nodes is lowered: only the doctor and
\* the verifier count the application nodes.
GatesImplyVerdict ==
    /\ pc = "verify" /\ Inv.mode \in {"ha", "standalone"} /\ Inv.required = MinimumHosts
    /\ files.record # Missing /\ files.sha # Missing /\ files.hmac # Missing
    /\ clock - identity.completed <= MaxAge
    => AcceptsWith(Stdin, OwnIdentity)

\* The values by which the script judges.
AsRead(inv) ==
    <<inv.group, inv.maintenance, inv.decommission, inv.address, inv.id, inv.mode,
      inv.vipEnabled, inv.vip, inv.dbMode, inv.redisMode, inv.rrdMode, inv.cidr,
      inv.vrid, inv.authPass, inv.placeholders>>

DifferInCase(name) ==
    \E a, b \in Managed(Inv) :
        name[a] # name[b] /\ LowerCase[name[a]] = LowerCase[name[b]]

\* Where the script and the doctor differ: ...
Overlooked ==
    \* a value comes from elsewhere than the two files, or from a role's default,
    \/ AsRead(File) # AsRead(Inv)
    \* the script takes the nodes for the web hosts,
    \/ WebCapable(File) # PlayWeb(Inv)
    \* a number is none, or the password is one,
    \/ Text \in {Inv.cidr, Inv.vrid} \/ ~ Inv.authPassText
    \* a mark of the examples, or an SNMP setting, is only looked for by the doctor,
    \/ Placeholders(Inv, DoctorMarks \ ScriptMarks) # {} \/ ~ SnmpUsable(Inv)
    \* two names differ in case only,
    \/ DifferInCase(Inv.address) \/ DifferInCase(Inv.id)
    \* or the doctor is told to require more hosts than the script does.
    \/ Inv.required # MinimumHosts

\* A configuration that passes the local check, run before any play, is refused
\* by the doctor for nothing but one of these differences: every other rule of
\* the doctor's is one of the script's.
CheckPredictsDoctor == Valid(File, FALSE) => DoctorAccepts(Inv) \/ Overlooked

--------------------------------------------------------------------------------
(***************************************************************************)
(* The inductive invariant behind the safety properties.                   *)
(***************************************************************************)
InPlay == pc # "idle"
GatePassed == pc \notin {"idle", "gate"}
EarlyDone == GatePassed /\ pc # "early"
RevisionKnown == EarlyDone /\ pc # "revisions"
LateDone == RevisionKnown /\ pc \notin {"automation", "late"}
Written == pc \in {"sha", "hmac", "verify"}

CheckedOf(S) == {s \in S : Checked(s)}

\* How far the play has come says which checks are behind it.
ProgressInv ==
    /\ InPlay => plays > 0 /\ CheckedOf(DoctorScopes) \subseteq ran
    /\ GatePassed => ProductionSafe
    /\ EarlyDone => CheckedOf(EarlyScopes) \subseteq ran
    /\ LateDone => CheckedOf(LateScopes) \subseteq ran

\* No node is ahead of the newest commit, and a commit that all nodes have
\* during a play is remembered.
VersionsInv ==
    /\ \A h \in Hosts : rev[h] <= latest
    /\ InPlay => OnAllNodes(rev) \subseteq together

Visited == {n \in Nodes : seen[n] # 0}

\* If all nodes read so far had commit c, then all nodes had it at one time, or
\* those still have it, or a node not yet read cannot have it any more.
ReadingInv ==
    /\ InPlay /\ ~ RevisionKnown =>
          \A c \in Revisions :
              Visited # {} /\ (\A n \in Visited : seen[n] = c) =>
                  \/ c \in together
                  \/ \A n \in Visited : rev[n] = c
                  \/ latest > c /\ \E m \in Nodes \ Visited : rev[m] # c
    /\ RevisionKnown => SourceRevision \in together

\* A sidecar authenticates what the play wrote, and the record is that unless
\* it was edited later.
FilesInv ==
    /\ DOMAIN files = {"name", "record", "sha", "hmac"}
    /\ files.record # Missing => files.name > 0
    /\ Written => files.name > 0 /\ files.record = origin.record
    /\ files.hmac # Missing => files.hmac.value = Hmac(setup.key, origin.record)

\* What the record says was so in the play that wrote it.
OriginInv ==
    files.name > 0 =>
        /\ origin.record.source \in origin.together
        /\ origin.record.mode = "ha" => origin.record.claims \subseteq origin.ran
        /\ origin.record.fingerprint.inactive = origin.record.inactive

\* What a play has found and written, as far as its own verifier looks at it.
VerdictInv ==
    /\ maintained \in Maintained
    /\ InPlay => DoctorAccepts(Inv)
    /\ RevisionKnown /\ pc # "automation" => identity.automation > 0
    /\ identity \in [automation : 0..MaxHead, completed : 0..clock]
    /\ Written => files.record = Record
    /\ pc \in {"hmac", "verify"} /\ files.sha # Missing =>
          files.sha = Sidecar(files.name, Digest(files.record))
    /\ pc = "verify" /\ files.hmac # Missing =>
          files.hmac = Sidecar(files.name, Hmac(setup.key, files.record))

CertificationInv ==
    /\ TypeOK /\ ProgressInv /\ VersionsInv /\ ReadingInv
    /\ FilesInv /\ OriginInv
=============================================================================
