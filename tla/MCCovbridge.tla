---------------------------- MODULE MCCovbridge ----------------------------
(* Model values for Covbridge.  Threads and connections are pairs of a     *)
(* child and a number, so that permuting children is a symmetry.           *)
EXTENDS CovbridgeInv, TLC

CONSTANTS Workers, Handles
MCThreads == Procs \X Workers
MCConns   == Procs \X Handles
MCProcOf  == [x \in MCThreads \union MCConns |-> x[1]]
MCSymmetry == Permutations(Procs) \union Permutations(Workers) \union Permutations(Handles)
=============================================================================
