------------------------------- MODULE MCPipe -------------------------------
(***************************************************************************)
(* Pipe for TLC: the runs differ in the constants of their .cfg files.  No *)
(* definition of Pipe tells one byte value from another.                   *)
(***************************************************************************)
EXTENDS Pipe, TLC

Sym == Permutations(Byte)
=============================================================================
