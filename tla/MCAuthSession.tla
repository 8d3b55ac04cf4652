---------------------------- MODULE MCAuthSession ----------------------------
(* AuthSession for TLC: the callers of getSession() are interchangeable. *)
EXTENDS AuthSession, TLC

Symmetry == Permutations(Callers)
=============================================================================
