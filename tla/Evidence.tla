-------------------------------- MODULE Evidence -------------------------------
(***************************************************************************)
(* What the installed verifier                                             *)
(* (librenms-production-readiness-evidence-verify.py) accepts: a record of *)
(* a readiness run with its two sidecars, the revisions and the inventory  *)
(* that the caller expects, and the application key.  The verifier stops   *)
(* at the first thing it does not like; a verdict of this module is the    *)
(* conjunction of everything it asks.                                      *)
(*                                                                         *)
(* `files' has the contents of the record and of the sidecars, or Missing  *)
(* for a path with no regular file or with a malformed sidecar.  The       *)
(* digest of a record is the record, and an HMAC is the pair of the key    *)
(* and the record: neither collides.                                       *)
(***************************************************************************)
EXTENDS Integers, Sequences, FiniteSets

CONSTANTS Missing, NoKey

\* Each stands for one of the ten fields <scope>_verified.
Scopes == {"vip_tls", "network_tcp", "host_firewall", "alert_routing",
           "shared_lock", "offsite_backup", "database_restore",
           "daily_backup", "web_health", "failover"}

Digest(record) == record

Hmac(key, record) == <<key, record>>

Sidecar(name, value) == [name |-> name, value |-> value]

SidecarIs(sidecar, name, value) ==
    /\ sidecar # Missing
    /\ sidecar.name = name
    /\ sidecar.value = value

\* A key is a placeholder or too short, or can be used.
Usable(key) == key \notin {NoKey, "CHANGE_ME", "short"}

\* The first line that sets APP_KEY decides, whatever comes after it.
KeyOfEnvironment(lines) ==
    LET at == {i \in DOMAIN lines : lines[i].name = "APP_KEY"}
    IN  IF at = {} THEN NoKey
        ELSE lines[CHOOSE i \in at : \A j \in at : i <= j].value

\* The key comes from standard input or from the application's .env.
KeyFrom(source) ==
    IF source.kind = "stdin" THEN source.key ELSE KeyOfEnvironment(source.lines)

Passing(record) == record.result = "passed" /\ record.schema = 1

Named(record) ==
    /\ record.mode \in {"ha", "standalone"}
    /\ record.mode = "ha" => record.vip # ""

\* A revision is 0 when its text is not a full Git SHA.
Identified(record) ==
    record.source > 0 /\ record.automation > 0 /\ record.fingerprint # Missing

MinimumNodes == [db |-> 3, redis |-> 3, lb |-> 2, nodes |-> 2, web |-> 2]

TopologyComplete(record) ==
    /\ \A g \in DOMAIN MinimumNodes :
          Cardinality(record.active[g]) >= MinimumNodes[g]
    /\ record.inactive = {}

\* Each stands for an elapsed time and its objective.
Durations == {"database_restore", "failover"}

\* A duration that was not measured is -1, and one that was is within its
\* objective: the play stops otherwise.
Nonnegative(record, duration) == record.elapsed[duration] >= 0

Measured(record) == \A d \in Durations : Nonnegative(record, d)

Claimed(record, scope) == scope \in record.claims

Strict(record) ==
    record.mode = "ha" =>
        /\ \A s \in Scopes : Claimed(record, s)
        /\ TopologyComplete(record)
        /\ Measured(record)

Fresh(record, maxAge, now) ==
    maxAge >= 1 /\ now - record.completed \in 0..maxAge

AsExpected(record, expected) ==
    /\ expected.source > 0 /\ record.source = expected.source
    /\ expected.automation > 0 /\ record.automation = expected.automation
    /\ record.fingerprint = expected.fingerprint

\* What a caller expects who takes the identity from the record itself.
IdentityOf(record) ==
    [source |-> record.source, automation |-> record.automation,
     fingerprint |-> record.fingerprint]

\* Wrong: a sidecar of the right name is enough.
AuthenticByName(files, source) ==
    Usable(KeyFrom(source)) /\ files.hmac # Missing /\ files.hmac.name = files.name

Authentic(files, source) ==
    LET key == KeyFrom(source)
    IN  /\ Usable(key)
        /\ SidecarIs(files.hmac, files.name, Hmac(key, files.record))

\* The verifier exits with status 0.
Verified(files, expected, source, maxAge, now) ==
    /\ files.record # Missing
    /\ SidecarIs(files.sha, files.name, Digest(files.record))
    /\ Passing(files.record)
    /\ Named(files.record)
    /\ Identified(files.record)
    /\ Strict(files.record)
    /\ Fresh(files.record, maxAge, now)
    /\ AsExpected(files.record, expected)
    /\ Authentic(files, source)
=============================================================================
