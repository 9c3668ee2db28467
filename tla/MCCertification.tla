---------------------------- MODULE MCCertification ----------------------------
(* Three hosts; a good HA installation, a standalone production profile, a    *)
(* plain standalone one, and their neighbours with one value changed.         *)
EXTENDS Certification

MCHosts == {"h1", "h2", "h3"}

MCLowerCase ==
    [x \in MCHosts \cup {"H1"} |-> IF x = "H1" THEN "h1" ELSE x]

AllIn(S) == [g \in Groups |-> S]

Base ==
    [group |-> [AllIn(MCHosts) EXCEPT !["nodes"] = {"h1", "h2"}], webDeclared |-> TRUE,
     maintenance |-> {}, decommission |-> {},
     address |-> [h \in MCHosts |-> h], id |-> [h \in MCHosts |-> h],
     mode |-> "ha", vipEnabled |-> TRUE, vip |-> "vip", dbMode |-> "galera",
     redisMode |-> "sentinel", quorum |-> 2, rrdMode |-> "glusterfs",
     cidr |-> 24, vrid |-> 51, authPass |-> 8, authPassText |-> TRUE,
     placeholders |-> {}, required |-> MinimumHosts,
     snmpVersions |-> {"v2c", "v3"}, community |-> TRUE, v3User |-> TRUE]

Inventories ==
    {Base, [Base EXCEPT !.group["nodes"] = MCHosts]}
    \cup {[Base EXCEPT !.group[g] = {"h1"}] : g \in {"nodes", "web", "lb"}}
    \cup {[Base EXCEPT !.group[g] = {"h1", "h2"}] : g \in {"db", "redis", "gluster"}}
    \cup {[Base EXCEPT !.group[g] = {}] : g \in Groups}
    \cup {[Base EXCEPT !.address["h2"] = "h1"], [Base EXCEPT !.id["h2"] = "h1"],
          [Base EXCEPT !.decommission = {"h3"}],
          [Base EXCEPT !.vip = "h1"], [Base EXCEPT !.vip = ""],
          [Base EXCEPT !.vipEnabled = FALSE],
          [Base EXCEPT !.dbMode = "local"], [Base EXCEPT !.redisMode = "local"],
          [Base EXCEPT !.rrdMode = "local"], [Base EXCEPT !.cidr = 33],
          [Base EXCEPT !.vrid = 0], [Base EXCEPT !.authPass = 9],
          WithGeneratedSecrets([Base EXCEPT !.placeholders = {<<"app_key", "CHANGE_ME">>}]),
          [Base EXCEPT !.cidr = Text], [Base EXCEPT !.authPassText = FALSE],
          [Base EXCEPT !.v3User = FALSE], [Base EXCEPT !.id["h2"] = "H1"],
          [Base EXCEPT !.address["h2"] = "H1"],
          [Base EXCEPT !.required.nodes = 3],
          [Base EXCEPT !.required.nodes = 1, !.group["nodes"] = {"h1"}]}
    \cup {[Base EXCEPT !.placeholders = {<<"fqdn", m>>}] : m \in {"example.com", "CHANGEME", "public"}}

HaSetup ==
    [inv |-> Base, file |-> Base, profile |-> TRUE, lock |-> "shared_file", canary |-> TRUE,
     offsite |-> TRUE, offsiteRequired |-> TRUE, daily |-> TRUE,
     alerts |-> TRUE, tls |-> TRUE, flags |-> Scopes, write |-> TRUE,
     integrity |-> TRUE, hmac |-> TRUE, key |-> "key"]

Plain ==
    [Base EXCEPT !.group = AllIn({"h1"}), !.mode = "standalone",
                 !.vipEnabled = FALSE, !.vip = "", !.dbMode = "local",
                 !.redisMode = "local", !.rrdMode = "local"]

PlainSetup ==
    [HaSetup EXCEPT !.inv = Plain, !.file = Plain, !.profile = FALSE, !.lock = "database",
        !.offsite = FALSE, !.offsiteRequired = FALSE, !.tls = FALSE,
        !.flags = {"network_tcp", "web_health"}]

MCSetups ==
    {[HaSetup EXCEPT !.inv = i, !.file = i] : i \in Inventories}
    \cup {[HaSetup EXCEPT !.inv.address["h2"] = "h1"], [HaSetup EXCEPT !.inv.authPass = 9]}
    \cup {[HaSetup EXCEPT !.lock = "database"], [HaSetup EXCEPT !.canary = FALSE],
          [HaSetup EXCEPT !.offsite = FALSE], [HaSetup EXCEPT !.offsiteRequired = FALSE],
          [HaSetup EXCEPT !.daily = FALSE], [HaSetup EXCEPT !.alerts = FALSE],
          [HaSetup EXCEPT !.tls = FALSE], [HaSetup EXCEPT !.hmac = FALSE],
          [HaSetup EXCEPT !.key = "short"], [HaSetup EXCEPT !.profile = FALSE,
              !.inv.webDeclared = FALSE, !.inv.group["web"] = {}, !.file.group["web"] = {}]}
    \cup {[HaSetup EXCEPT !.flags = @ \ {s}] : s \in Scopes}
    \cup {PlainSetup, [PlainSetup EXCEPT !.hmac = FALSE],
          [PlainSetup EXCEPT !.hmac = FALSE, !.integrity = FALSE],
          [PlainSetup EXCEPT !.hmac = FALSE, !.integrity = FALSE, !.write = FALSE],
          [HaSetup EXCEPT !.inv = Plain, !.file = Plain],
          [PlainSetup EXCEPT !.inv.mode = "cluster", !.file.mode = "cluster"]}
=============================================================================
