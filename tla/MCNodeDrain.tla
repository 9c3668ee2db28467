---------------------------- MODULE MCNodeDrain ----------------------------
(* NodeDrain with interchangeable callers, the daily timer and one worker. *)
EXTENDS NodeDrain, TLC

CallerSymmetry == Permutations(Callers)
=============================================================================
