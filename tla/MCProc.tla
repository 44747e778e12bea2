------------------------------- MODULE MCProc -------------------------------
(***************************************************************************)
(* Proc for TLC: the runs differ in the constants of their .cfg files.     *)
(***************************************************************************)
EXTENDS Proc
=============================================================================
