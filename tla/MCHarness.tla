----------------------------- MODULE MCHarness -----------------------------
(* Model values for Harness.  Children, pids and health checks are          *)
(* interchangeable.                                                         *)
EXTENDS Harness, TLC

MCSymmetry == Permutations(Kids) \union Permutations(Pids) \union Permutations(Checks)

\* At most one health check is being served at a time; others wait in the queue.
OneCheckServed == Cardinality(Checks \intersect UNION {served[k] : k \in Kids}) <= 1
=============================================================================
