------------------------------ MODULE Governance ------------------------------
(***************************************************************************)
(* ci-github-governance-check.py: an operator's check that the GitHub      *)
(* repository has the controls which a production release requires. It     *)
(* reads six REST resources one after another, each with one more attempt  *)
(* after a 401, and then judges what it has read. Administrators go on     *)
(* changing settings meanwhile, MaxChanges times.                          *)
(***************************************************************************)
EXTENDS Naturals, Sequences

CONSTANT MaxChanges

ASSUME GovernanceConstantsOK == MaxChanges \in Nat

\* Where the check looks for each control.
Controls == [
  repository |-> {"dependabot updates", "secret scanning", "push protection"},
  protection |-> {"strict checks", "required checks", "python-315-controller",
                  "enforce admins", "conversations", "linear history",
                  "no force pushes", "no deletions"},
  reviews    |-> {"approval", "code owner review", "dismiss stale"},
  reporting  |-> {"private reporting"},
  alerts     |-> {"no open alerts"},
  codeql     |-> {"default setup"},
  checkout   |-> {"CODEOWNERS"}]

Reads == <<"repository", "protection", "reviews", "reporting", "alerts", "codeql">>
Places == DOMAIN Controls
AllControls == UNION {Controls[p] : p \in Places}
BranchControls == Controls.protection \cup Controls.reviews

VARIABLES
  stable222,  \* requirements-ci.in pins a stable ansible-core of 2.22 or newer
  force,      \* the controls in force now
  read,       \* how many resources have been read
  retrying,   \* GitHub has answered 401, the token is tried next
  copy,       \* the reviews that came with the answer about the protection
  seen,       \* the controls that the answers have shown
  hidden,     \* history: the resources whose answer did not show everything
  verdict,
  moments,    \* history: the controls in force at some moment of this check
  changes

vars == <<stable222, force, read, retrying, copy, seen, hidden, verdict, moments,
          changes>>

TypeOK ==
  /\ stable222 \in BOOLEAN /\ retrying \in BOOLEAN
  /\ force \subseteq AllControls /\ seen \subseteq AllControls /\ copy \subseteq Controls.reviews
  /\ hidden \subseteq Places
  /\ read \in 0..Len(Reads)
  /\ verdict \in {"reading", "passed", "failed", "error"}
  /\ moments \subseteq SUBSET AllControls
  /\ changes \in 0..MaxChanges

Init ==
  /\ stable222 \in BOOLEAN
  /\ force \in {AllControls} \cup {AllControls \ {c} : c \in AllControls}
  /\ read = 0 /\ retrying = FALSE /\ copy = {} /\ seen = {} /\ hidden = {}
  /\ verdict = "reading" /\ moments = {force} /\ changes = 0

-----------------------------------------------------------------------------
(* Wrong variants, to show that the properties fail for them.              *)

\* an answer "not found" about the reviews leaves nothing to complain about
NotFoundPasses(p) ==
  /\ p = "reviews" /\ seen' = seen \cup Controls.reviews
  /\ UNCHANGED copy

\* no copy stands in for the reviews that are not found
NotFoundMeansNone(p) ==
  /\ p = "reviews"
  /\ UNCHANGED <<seen, copy>>

-----------------------------------------------------------------------------

\* The job python-315-controller is required only of a toolchain that
\* supports Python 3.15.
Required == AllControls \ (IF stable222 THEN {} ELSE {"python-315-controller"})

Reading == verdict = "reading" /\ read < Len(Reads)

\* An answer. The one about the protection holds a copy of the reviews.
Found(p) ==
  /\ seen' = seen \cup (force \cap Controls[p])
  /\ copy' = IF p = "protection" THEN force \cap Controls.reviews ELSE copy

\* The reviews are a resource that need not exist, or not for this token; the
\* copy stands in.
NotFound(p) ==
  /\ p = "reviews" /\ seen' = seen \cup copy
  /\ UNCHANGED copy

\* The token may not see security_and_analysis or a part of it, and an answer
\* about the alerts need not be a list.
Withheld(p) ==
  /\ p \in {"repository", "alerts"} /\ hidden' = hidden \cup {p}
  /\ \E part \in SUBSET (force \cap Controls[p]) : seen' = seen \cup part
  /\ UNCHANGED copy

Answer ==
  /\ Reading
  /\ LET p == Reads[read + 1]
     IN \/ Found(p) /\ UNCHANGED hidden
        \/ NotFound(p) /\ UNCHANGED hidden
        \/ Withheld(p)
  /\ read' = read + 1 /\ retrying' = FALSE
  /\ UNCHANGED <<stable222, force, verdict, moments, changes>>

Unauthorized ==
  /\ Reading /\ ~retrying /\ retrying' = TRUE
  /\ UNCHANGED <<stable222, force, read, copy, seen, hidden, verdict, moments, changes>>

\* Any other answer, no answer, no token, or no better one.
CallFails ==
  /\ Reading /\ verdict' = "error"
  /\ UNCHANGED <<stable222, force, read, retrying, copy, seen, hidden, moments, changes>>

\* CODEOWNERS is read from the checkout at the end.
Shown == seen \cup (force \cap Controls.checkout)

Judge ==
  /\ verdict = "reading" /\ read = Len(Reads)
  /\ verdict' = IF Required \subseteq Shown THEN "passed" ELSE "failed"
  /\ seen' = Shown
  /\ UNCHANGED <<stable222, force, read, retrying, copy, hidden, moments, changes>>

-----------------------------------------------------------------------------

\* The check is run again.
StartAgain ==
  /\ verdict # "reading" /\ verdict' = "reading"
  /\ read' = 0 /\ retrying' = FALSE /\ copy' = {} /\ seen' = {}
  /\ hidden' = {} /\ moments' = {force}
  /\ UNCHANGED <<stable222, force, changes>>

\* An administrator changes one setting, or unprotects the branch.
Change ==
  /\ changes < MaxChanges /\ changes' = changes + 1
  /\ \/ \E c \in AllControls : force' = (force \ {c}) \cup ({c} \ force)
     \/ force' = force \ BranchControls
  /\ moments' = moments \cup {force'}
  /\ UNCHANGED <<stable222, read, retrying, copy, seen, hidden, verdict>>

Next == Answer \/ Unauthorized \/ CallFails \/ Judge \/ StartAgain \/ Change

Spec == Init /\ [][Next]_vars

-----------------------------------------------------------------------------
(* Properties. The reads are not one snapshot, so a passed check does not  *)
(* mean that all controls were in force together.                          *)

\* A passed check means that the required controls of each resource were in
\* force, all together, at some moment of the check; also when the answer
\* about the reviews was replaced by the copy of an earlier one.
PassMeansEnforced ==
  verdict = "passed" =>
    \A p \in Places : \E m \in moments : Controls[p] \cap Required \subseteq m

\* A failed check complains of something, and each control that it misses was
\* off at some moment of the check or hidden by an answer (to a token that may
\* not see the security settings, for one): refused calls, retries and a
\* resource that is not found add nothing.
FailMeansMissing ==
  verdict = "failed" =>
    /\ Required \ seen # {}
    /\ \A c \in Required \ seen :
         \/ \E m \in moments : c \notin m
         \/ \E p \in hidden : c \in Controls[p]

=============================================================================
