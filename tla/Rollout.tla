------------------------------- MODULE Rollout -------------------------------
(***************************************************************************)
(* What the unattended update promises about the cluster as a whole,       *)
(* whatever a single wrapper does: a canary is updated first and has to    *)
(* approve the day, then one node after another is taken out of the web    *)
(* pool, works alone and comes back. DailyUpdate implements this.          *)
(*                                                                         *)
(* An operator may send a node past the canary. Such a node works alone    *)
(* too, but is not promised to stay out of the pool.                       *)
(***************************************************************************)
EXTENDS Naturals

CONSTANTS Nodes, Canary

VARIABLES
  today,
  approval,  \* the day the canary has approved last, 0 when none counts
  admitted,  \* nodes that may update because of it, and the canary
  byHand,    \* nodes that may update because an operator says so
  working,   \* the node that changes its code now
  pool       \* nodes that HAProxy may send traffic to

rollout == <<today, approval, admitted, byHand, working, pool>>

Init ==
  /\ today = 1 /\ approval = 0 /\ working = {} /\ pool = Nodes
  /\ admitted = {} /\ byHand = {}

\* The canary starts and withdraws its last approval, or a follower finds
\* today's approval.
Admit(n) ==
  /\ n \notin admitted \cup byHand
  /\ admitted' = admitted \cup {n}
  /\ \/ n = Canary /\ approval' = 0
     \/ n # Canary /\ approval = today /\ UNCHANGED approval
  /\ UNCHANGED <<today, byHand, working, pool>>

SendByHand(n) ==
  /\ n \notin admitted \cup byHand
  /\ byHand' = byHand \cup {n}
  /\ UNCHANGED <<today, approval, admitted, working, pool>>

\* Nobody else works.
TakeOut(n) ==
  /\ n \in admitted \cup byHand /\ working = {}
  /\ working' = {n} /\ pool' = pool \ {n}
  /\ UNCHANGED <<today, approval, admitted, byHand>>

\* The node ends its update, done or not, back in the pool or not yet. Only a
\* canary that has worked approves the day.
Leave(n) ==
  /\ n \in admitted \cup byHand
  /\ admitted' = admitted \ {n} /\ byHand' = byHand \ {n}
  /\ working' = working \ {n}
  /\ pool' \in {pool, pool \ {n}, pool \cup {n}}
  /\ \/ UNCHANGED approval
     \/ n = Canary /\ n \in working /\ approval' = today
  /\ UNCHANGED today

\* A node that does not work comes back.
Return(n) ==
  /\ n \in working => n \in byHand
  /\ pool' = pool \cup {n}
  /\ UNCHANGED <<today, approval, admitted, byHand, working>>

Tomorrow ==
  /\ today' = today + 1
  /\ UNCHANGED <<approval, admitted, byHand, working, pool>>

Next ==
  \/ \E n \in Nodes : Admit(n) \/ SendByHand(n) \/ TakeOut(n) \/ Leave(n) \/ Return(n)
  \/ Tomorrow

Spec == Init /\ [][Next]_rollout

=============================================================================
