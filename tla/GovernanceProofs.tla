--------------------------- MODULE GovernanceProofs ---------------------------
(***************************************************************************)
(* Proofs about Governance, for any number of changes during the check.    *)
(***************************************************************************)
EXTENDS Governance, TLAPS

Unread == {Reads[i] : i \in (read + 1)..Len(Reads)}

\* What the answers have shown of one place was in force there together, ...
SeenWasInForce ==
  /\ force \in moments
  /\ \E m \in moments : copy \subseteq m
  /\ \A p \in Places : \E m \in moments : seen \cap Controls[p] \subseteq m

\* ... nothing is known of a place before its answer, ...
UnreadIsUnseen ==
  verdict = "reading" =>
    \A p \in Unread \cup {"checkout"} : seen \cap Controls[p] = {}

\* ... and what they have not shown was off, unless they did not show all.
UnseenWasOff ==
  /\ read >= 2 => \A c \in Controls.reviews \ copy : \E m \in moments : c \notin m
  /\ \A p \in Places \ (Unread \cup hidden \cup {"checkout"}) : \A c \in Controls[p] \ seen :
       \E m \in moments : c \notin m

IInv ==
  /\ TypeOK /\ SeenWasInForce /\ UnreadIsUnseen /\ UnseenWasOff
  /\ PassMeansEnforced /\ FailMeansMissing

-----------------------------------------------------------------------------

\* The six answers are about six different places, and so about different
\* controls.
LEMMA PlacesAreApart ==
  /\ Len(Reads) = 6
  /\ \A i \in 1..6 : Reads[i] \in Places \ {"checkout"}
  /\ \A i, j \in 1..6 : Reads[i] = Reads[j] => i = j
  /\ \A p \in Places \ {"checkout"} : \E i \in 1..6 : p = Reads[i]
  /\ \A p, q \in Places : p # q => Controls[p] \cap Controls[q] = {}
  /\ \A p \in Places : Controls[p] \subseteq AllControls
  /\ Reads[2] = "protection" /\ Reads[3] = "reviews"
<1>1. /\ Places = {"repository", "protection", "reviews", "reporting", "alerts", "codeql", "checkout"}
      /\ Len(Reads) = 6
      /\ Reads[1] = "repository" /\ Reads[2] = "protection" /\ Reads[3] = "reviews"
      /\ Reads[4] = "reporting" /\ Reads[5] = "alerts" /\ Reads[6] = "codeql"
  BY DEF Places, Controls, Reads
<1>2. \A i \in 1..6 : i = 1 \/ i = 2 \/ i = 3 \/ i = 4 \/ i = 5 \/ i = 6
  OBVIOUS
<1>3. \A i \in 1..6 : Reads[i] \in Places \ {"checkout"}
  BY <1>1, <1>2
<1>4. \A i, j \in 1..6 : Reads[i] = Reads[j] => i = j
  BY <1>1, <1>2
<1>5. \A p \in Places \ {"checkout"} : \E i \in 1..6 : p = Reads[i]
  BY <1>1
<1>6. \A p, q \in Places : p # q => Controls[p] \cap Controls[q] = {}
  <2>1. /\ Controls["repository"] = {"dependabot updates", "secret scanning", "push protection"}
        /\ Controls["protection"] = {"strict checks", "required checks", "python-315-controller",
                                     "enforce admins", "conversations", "linear history",
                                     "no force pushes", "no deletions"}
        /\ Controls["reviews"] = {"approval", "code owner review", "dismiss stale"}
        /\ Controls["reporting"] = {"private reporting"}
        /\ Controls["alerts"] = {"no open alerts"}
        /\ Controls["codeql"] = {"default setup"}
        /\ Controls["checkout"] = {"CODEOWNERS"}
    BY DEF Controls
  <2>2. SUFFICES ASSUME NEW p \in Places, NEW q \in Places, NEW c,
                        c \in Controls[p], c \in Controls[q]
                 PROVE  p = q
    OBVIOUS
  <2>3. CASE p = "repository"
    BY <1>1, <2>1, <2>2, <2>3
  <2>4. CASE p = "protection"
    BY <1>1, <2>1, <2>2, <2>4
  <2>5. CASE p = "reviews"
    BY <1>1, <2>1, <2>2, <2>5
  <2>6. CASE p \in {"reporting", "alerts", "codeql", "checkout"}
    BY <1>1, <2>1, <2>2, <2>6
  <2>7. QED
    BY <1>1, <2>3, <2>4, <2>5, <2>6
<1>7. \A p \in Places : Controls[p] \subseteq AllControls
  BY DEF AllControls
<1>8. QED
  BY <1>1, <1>3, <1>4, <1>5, <1>6, <1>7

\* An answer takes one place off the unread ones.
LEMMA AnswerTakesOne ==
  ASSUME TypeOK, Reading
  PROVE  LET p == Reads[read + 1] IN
         /\ p \in Unread /\ p \in Places \ {"checkout"}
         /\ read' = read + 1 => Unread' = Unread \ {p}
         /\ p = "reviews" <=> read = 2
         /\ p = "protection" <=> read = 1
<1>1. read \in 0..5 /\ Len(Reads) = 6
  BY PlacesAreApart DEF TypeOK, Reading
<1>2. QED
  BY <1>1, PlacesAreApart DEF Unread

\* What is judged is everything that was to be read.
LEMMA NothingUnread == TypeOK /\ read = Len(Reads) => Unread = {}
BY PlacesAreApart DEF Unread, TypeOK

\* Before the first answer nothing but the checkout can be known.
LEMMA AllUnread == read = 0 => Unread \cup {"checkout"} = Places
<1>1. ASSUME read = 0 PROVE Unread = {Reads[i] : i \in 1..6}
  BY <1>1, PlacesAreApart DEF Unread
<1>2. "checkout" \in Places
  BY DEF Places, Controls
<1>3. QED
  BY <1>1, <1>2, PlacesAreApart

\* The inductive invariant holds at the start.
LEMMA InitSafe == Init => IInv
<1> SUFFICES ASSUME Init PROVE IInv
  OBVIOUS
<1>1. TypeOK
  <2>1. force \subseteq AllControls
    BY DEF Init
  <2>2. read \in 0..Len(Reads) /\ changes \in 0..MaxChanges
    BY GovernanceConstantsOK, PlacesAreApart DEF Init
  <2>3. QED
    BY <2>1, <2>2 DEF Init, TypeOK
<1>2. SeenWasInForce /\ UnreadIsUnseen
  BY DEF Init, SeenWasInForce, UnreadIsUnseen
<1>3. UnseenWasOff
  BY AllUnread DEF Init, UnseenWasOff
<1>4. QED
  BY <1>1, <1>2, <1>3 DEF Init, IInv, PassMeansEnforced, FailMeansMissing

\* Every step of the check and every change keeps the invariant.
LEMMA StepSafe == IInv /\ [Next]_vars => IInv'
<1> SUFFICES ASSUME IInv, [Next]_vars PROVE IInv'
  OBVIOUS
<1>0. TypeOK /\ SeenWasInForce /\ UnreadIsUnseen /\ UnseenWasOff
  BY DEF IInv
<1>known. Controls.reviews = Controls["reviews"] /\ "reviews" \in Places /\ "protection" \in Places
          /\ Controls.checkout = Controls["checkout"] /\ "checkout" \in Places
  BY DEF Controls, Places
<1>1. CASE Answer
  <2> DEFINE p == Reads[read + 1]
  <2>1. p \in Unread /\ p \in Places \ {"checkout"} /\ Unread' = Unread \ {p}
    BY <1>0, <1>1, AnswerTakesOne DEF Answer
  <2>2. PICK new \in SUBSET AllControls :
          /\ seen' = seen \cup new
          /\ \/ new = force \cap Controls[p] /\ hidden' = hidden
             \/ new = copy /\ p = "reviews" /\ hidden' = hidden
             \/ new \subseteq force \cap Controls[p] /\ hidden' = hidden \cup {p}
          /\ copy' = IF p = "protection" THEN force \cap Controls.reviews ELSE copy
    <3>1. CASE Found(p) /\ UNCHANGED hidden
      BY <1>0, <3>1 DEF Found, TypeOK
    <3>2. CASE NotFound(p) /\ UNCHANGED hidden
      BY <1>0, <1>known, <3>2, PlacesAreApart DEF NotFound, TypeOK
    <3>3. CASE Withheld(p)
      BY <1>0, <3>3 DEF Withheld, TypeOK
    <3>4. QED
      BY <1>1, <3>1, <3>2, <3>3 DEF Answer
  <2>3. new \subseteq Controls[p] /\ \E m \in moments : new \subseteq m
    BY <1>0, <1>known, <2>1, <2>2 DEF SeenWasInForce, TypeOK
  <2>4. \A q \in Places \ {p} : seen' \cap Controls[q] = seen \cap Controls[q]
    BY <2>1, <2>2, <2>3, PlacesAreApart
  <2>5. seen \cap Controls[p] = {}
    BY <1>0, <1>1, <2>1 DEF UnreadIsUnseen, Answer, Reading
  <2>6. seen' \cap Controls[p] = new
    BY <2>2, <2>3, <2>5
  <2>7. TypeOK'
    <3>1. read' \in 0..Len(Reads)
      BY <1>0, <1>1, PlacesAreApart DEF Answer, Reading, TypeOK
    <3>2. seen' \subseteq AllControls /\ copy' \subseteq Controls.reviews
      BY <1>0, <1>1, <2>1, <2>2, <2>3, PlacesAreApart DEF TypeOK
    <3>3. hidden' \subseteq Places
      BY <1>0, <2>1, <2>2 DEF TypeOK
    <3>4. QED
      BY <1>0, <1>1, <3>1, <3>2, <3>3 DEF Answer, TypeOK
  <2>8. SeenWasInForce'
    <3>1. \E m \in moments : copy' \subseteq m
      BY <1>0, <2>2 DEF SeenWasInForce
    <3>2. \A q \in Places : \E m \in moments : seen' \cap Controls[q] \subseteq m
      BY <1>0, <2>3, <2>4, <2>6 DEF SeenWasInForce
    <3>3. QED
      BY <1>0, <1>1, <3>1, <3>2 DEF Answer, SeenWasInForce
  <2>9. UnreadIsUnseen'
    <3>1. \A q \in Unread \cup {"checkout"} : q \in Places
      BY <1>0, <1>known, PlacesAreApart DEF Unread, TypeOK
    <3>2. \A q \in Unread' \cup {"checkout"} : q \in Unread \cup {"checkout"} /\ q \in Places \ {p}
      BY <2>1, <3>1
    <3>3. QED
      BY <1>0, <1>1, <2>4, <3>2 DEF UnreadIsUnseen, Answer, Reading
  <2>10. UnseenWasOff'
    <3>1. p \notin hidden' => \A c \in Controls[p] \ new : \E m \in moments : c \notin m
      BY <1>0, <1>1, <1>known, <2>2, AnswerTakesOne DEF SeenWasInForce, UnseenWasOff, Answer, Reading, TypeOK
    <3>2. ASSUME NEW q \in Places \ (Unread' \cup hidden' \cup {"checkout"}),
                  NEW c \in Controls[q] \ seen'
          PROVE  \E m \in moments : c \notin m
      BY <1>0, <2>1, <2>2, <2>4, <3>1, <3>2 DEF UnseenWasOff
    <3>3. ASSUME read' >= 2, NEW c \in Controls.reviews \ copy' PROVE \E m \in moments : c \notin m
      BY <1>0, <1>1, <2>2, <3>3, AnswerTakesOne
         DEF UnseenWasOff, SeenWasInForce, Answer, Reading, TypeOK
    <3>4. QED
      BY <1>1, <3>2, <3>3 DEF UnseenWasOff, Answer
  <2>11. PassMeansEnforced' /\ FailMeansMissing'
    BY <1>1 DEF Answer, Reading, PassMeansEnforced, FailMeansMissing
  <2>12. QED
    BY <2>7, <2>8, <2>9, <2>10, <2>11 DEF IInv
<1>2. CASE Unauthorized \/ CallFails
  <2>1. UNCHANGED <<stable222, force, read, copy, seen, hidden, moments, changes>> /\ Unread' = Unread
    BY <1>2 DEF Unauthorized, CallFails, Unread
  <2>2. TypeOK'
    BY <1>0, <1>2, <2>1 DEF TypeOK, Unauthorized, CallFails
  <2>3. verdict' \in {verdict, "error"} /\ verdict = "reading"
    BY <1>2 DEF Unauthorized, CallFails, Reading
  <2>4. QED
    BY <1>0, <2>1, <2>2, <2>3
       DEF IInv, SeenWasInForce, UnreadIsUnseen, UnseenWasOff, PassMeansEnforced, FailMeansMissing
<1>3. CASE Judge
  <2>1. Unread = {} /\ Unread' = {}
    BY <1>0, <1>3, NothingUnread DEF Judge, Unread
  <2>2. \A q \in Places \ {"checkout"} : Shown \cap Controls[q] = seen \cap Controls[q]
    BY <1>known, PlacesAreApart DEF Shown
  <2>3. Shown \cap Controls["checkout"] = force \cap Controls["checkout"]
    BY <1>0, <1>3, <1>known DEF UnreadIsUnseen, Judge, Shown
  <2>4. TypeOK'
    BY <1>0, <1>3, <1>known, PlacesAreApart DEF TypeOK, Judge, Shown
  <2>5. \A q \in Places : \E m \in moments : Shown \cap Controls[q] \subseteq m
    BY <1>0, <2>2, <2>3 DEF SeenWasInForce
  <2>6. \A q \in Places \ hidden : \A c \in Controls[q] \ Shown : \E m \in moments : c \notin m
    BY <1>0, <2>1, <2>2, <2>3 DEF UnseenWasOff, SeenWasInForce
  <2>7. SeenWasInForce' /\ UnreadIsUnseen' /\ UnseenWasOff'
    BY <1>0, <1>3, <2>1, <2>5, <2>6
       DEF Judge, SeenWasInForce, UnreadIsUnseen, UnseenWasOff
  <2>8. PassMeansEnforced'
    BY <1>3, <2>5 DEF Judge, PassMeansEnforced, Required
  <2>9. FailMeansMissing'
    <3>1. ASSUME NEW c \in Required \ Shown
          PROVE  \/ \E m \in moments : c \notin m
                 \/ \E q \in hidden : c \in Controls[q]
      <4>1. PICK q \in Places : c \in Controls[q]
        BY <3>1 DEF Required, AllControls
      <4>2. QED
        BY <2>6, <3>1, <4>1
    <3>2. verdict' = "failed" => Required \ Shown # {}
      BY <1>3 DEF Judge
    <3>3. QED
      BY <1>3, <3>1, <3>2 DEF Judge, FailMeansMissing, Required
  <2>10. QED
    BY <2>4, <2>7, <2>8, <2>9 DEF IInv
<1>4. CASE StartAgain
  <2>1. TypeOK'
    <3>1. read' \in 0..Len(Reads) /\ moments' \subseteq SUBSET AllControls
      BY <1>0, <1>4, PlacesAreApart DEF StartAgain, TypeOK
    <3>2. QED
      BY <1>0, <1>4, <3>1 DEF StartAgain, TypeOK
  <2>2. Unread' \cup {"checkout"} = Places
    <3>1. Unread' = {Reads[i] : i \in 1..6}
      BY <1>4, PlacesAreApart DEF StartAgain, Unread
    <3>2. QED
      BY <1>known, <3>1, PlacesAreApart
  <2>3. SeenWasInForce' /\ UnreadIsUnseen'
    BY <1>4 DEF StartAgain, SeenWasInForce, UnreadIsUnseen
  <2>4. UnseenWasOff'
    BY <1>4, <2>2 DEF StartAgain, UnseenWasOff
  <2>5. QED
    BY <1>4, <2>1, <2>3, <2>4 DEF StartAgain, IInv, PassMeansEnforced, FailMeansMissing
<1>5. CASE Change
  <2>1. force' \subseteq AllControls /\ changes' \in 0..MaxChanges
    BY <1>0, <1>5, GovernanceConstantsOK DEF Change, TypeOK
  <2>2. TypeOK' /\ moments \subseteq moments' /\ force' \in moments' /\ Unread' = Unread
    BY <1>0, <1>5, <2>1 DEF Change, TypeOK, Unread
  <2>3. PassMeansEnforced' /\ FailMeansMissing'
    BY <1>5, <2>2 DEF IInv, Change, PassMeansEnforced, FailMeansMissing, Required
  <2>4. SeenWasInForce' /\ UnreadIsUnseen' /\ UnseenWasOff'
    BY <1>0, <1>5, <2>2 DEF Change, SeenWasInForce, UnreadIsUnseen, UnseenWasOff
  <2>5. QED
    BY <2>2, <2>3, <2>4 DEF IInv
<1>6. CASE UNCHANGED vars
  BY <1>0, <1>6 DEF vars, IInv, TypeOK, SeenWasInForce, UnreadIsUnseen, UnseenWasOff, Unread,
                    PassMeansEnforced, FailMeansMissing, Required
<1>7. QED
  BY <1>1, <1>2, <1>3, <1>4, <1>5, <1>6 DEF Next

\* The inductive invariant holds in every reachable state.
THEOREM Invariant == Spec => []IInv
BY InitSafe, StepSafe, PTL DEF Spec

\* Every variable keeps its type.
THEOREM TypeCorrect == Spec => []TypeOK
<1>1. IInv => TypeOK
  BY DEF IInv
<1>2. QED
  BY <1>1, Invariant, PTL

\* However often the settings change while the check reads them, it passes
\* only when each resource had its controls in force together at some moment.
THEOREM PassIsEarned == Spec => []PassMeansEnforced
<1>1. IInv => PassMeansEnforced
  BY DEF IInv
<1>2. QED
  BY <1>1, Invariant, PTL

\* And every control that a failed check misses was off at some moment or
\* hidden by an answer.
THEOREM FailHasCause == Spec => []FailMeansMissing
<1>1. IInv => FailMeansMissing
  BY DEF IInv
<1>2. QED
  BY <1>1, Invariant, PTL

=============================================================================
