------------------------------- MODULE Inventory -------------------------------
(***************************************************************************)
(* The rules that scripts/validate-inventory.py applies to an inventory    *)
(* and its group variables before any play runs, and the host lists that   *)
(* both the script and the readiness play derive from the same groups.     *)
(*                                                                         *)
(* An inventory is a record: `group' maps each group to its hosts,         *)
(* `maintenance' and `decommission' are the groups of inactive hosts,      *)
(* `address' and `id' a host's ansible_host and librenms_node_id, and the  *)
(* other fields are variables, defaults filled in.  The script knows the   *)
(* inventory as two files say it: what the first group that lists a host   *)
(* says of the host, and group_vars/all.yml.  Ansible also looks into host *)
(* variables, other groups and the defaults of the roles, so that the      *)
(* script and the play may have two different records.                     *)
(*                                                                         *)
(* The script reports a list of errors and passes when it is empty: here   *)
(* each kind of error is a rule, and an inventory is valid when it         *)
(* satisfies all of them.                                                  *)
(***************************************************************************)
EXTENDS Integers, FiniteSets

\* Stands for a value that is not an integer, for one of the numbers.
Text == -1

\* `placeholders' has a pair for each checked variable that still holds a mark
\* of the examples.  These are the marks that the script looks for.
ScriptMarks == {"CHANGE_ME", "example.com", "public"}

Placeholders(inv, marks) == {p \in inv.placeholders : p[2] \in marks}

\* The script replaces what is not an integer by its own default.
ScriptInt(value, default) == IF value = Text THEN default ELSE value

Groups == {"nodes", "web", "db", "redis", "lb", "gluster"}

Inactive(inv) == inv.maintenance \cup inv.decommission

\* A group that the inventory does not declare has no hosts.
GroupHosts(inv, g) == inv.group[g]

Active(inv, g) == GroupHosts(inv, g) \ Inactive(inv)

Managed(inv) == UNION {Active(inv, g) : g \in Groups}

\* The script falls back to the nodes when no web host is active ...
WebCapable(inv) ==
    IF Active(inv, "web") # {} THEN Active(inv, "web") ELSE Active(inv, "nodes")

\* ... and the play when the group is not declared at all.
PlayWeb(inv) ==
    (IF inv.webDeclared THEN inv.group["web"] ELSE inv.group["nodes"])
        \ Inactive(inv)

Injective(f, S) == \A a, b \in S : f[a] = f[b] => a = b

HostAddress(inv) == [h \in Managed(inv) |-> inv.address[h]]

NodesDeclared(inv) == Active(inv, "nodes") # {}

AddressesDistinct(inv) == Injective(HostAddress(inv), Managed(inv))

NodeIdsDistinct(inv) == Injective(inv.id, Active(inv, "nodes"))

HaRule(inv) ==
    inv.mode = "ha" =>
        /\ Cardinality(Active(inv, "nodes")) >= 2
        /\ Cardinality(WebCapable(inv)) >= 2
        /\ Cardinality(Active(inv, "lb")) >= 2
        /\ inv.vipEnabled /\ inv.vip # ""

VipRule(inv) ==
    inv.vip # "" =>
        /\ inv.vip # "invalid"
        /\ \A h \in Managed(inv) : inv.vip # inv.address[h]

GaleraRule(inv) ==
    inv.dbMode = "galera" => Cardinality(Active(inv, "db")) >= 3

SentinelRule(inv) ==
    inv.redisMode = "sentinel" =>
        /\ Cardinality(Active(inv, "redis")) >= 3
        /\ ScriptInt(inv.quorum, 2) \in 2..Cardinality(Active(inv, "redis"))

GlusterRule(inv) ==
    inv.rrdMode = "glusterfs" => Cardinality(Active(inv, "gluster")) >= 3

NumbersRule(inv) ==
    ScriptInt(inv.cidr, 24) \in 1..32 /\ ScriptInt(inv.vrid, 51) \in 1..255

\* Wrong: no limit to the length.
AuthPassGiven(inv, allow) ==
    ~ inv.vipEnabled \/ inv.authPass >= 1

\* `authPass' is the length of the password of VRRP.
AuthPassRule(inv, allow) ==
    \/ ~ inv.vipEnabled
    \/ allow /\ \E p \in Placeholders(inv, ScriptMarks) : p[1] = "auth_pass"
    \/ inv.authPass \in 1..8

PlaceholderRule(inv, allow) == allow \/ Placeholders(inv, ScriptMarks) = {}

\* The kinds of errors in the list.
Errors(inv, allow) ==
    {e \in {"no nodes", "addresses", "node ids", "ha", "vip", "galera", "sentinel",
            "glusterfs", "numbers", "auth_pass", "placeholders"} :
        \/ e = "no nodes" /\ ~ NodesDeclared(inv)
        \/ e = "addresses" /\ ~ AddressesDistinct(inv)
        \/ e = "node ids" /\ ~ NodeIdsDistinct(inv)
        \/ e = "ha" /\ ~ HaRule(inv)
        \/ e = "vip" /\ ~ VipRule(inv)
        \/ e = "galera" /\ ~ GaleraRule(inv)
        \/ e = "sentinel" /\ ~ SentinelRule(inv)
        \/ e = "glusterfs" /\ ~ GlusterRule(inv)
        \/ e = "numbers" /\ ~ NumbersRule(inv)
        \/ e = "auth_pass" /\ ~ AuthPassRule(inv, allow)
        \/ e = "placeholders" /\ ~ PlaceholderRule(inv, allow)}

\* The inventory check passes.
Valid(inv, allow) == Errors(inv, allow) = {}

\* The length of the VRRP password that scripts/generate-secrets.py proposes.
GeneratedAuthPass == 16

\* The variables of an inventory once the generated secrets are pasted in.
WithGeneratedSecrets(inv) ==
    [inv EXCEPT !.authPass = GeneratedAuthPass,
                !.placeholders = {p \in @ : p[1] = "fqdn"}]
=============================================================================
