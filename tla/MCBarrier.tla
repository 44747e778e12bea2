----------------------------- MODULE MCBarrier ------------------------------
(***************************************************************************)
(* Barrier for TLC.  The processes of the safety run are interchangeable.  *)
(***************************************************************************)
EXTENDS Barrier, TLC

Sym == Permutations(Proc)
=============================================================================
