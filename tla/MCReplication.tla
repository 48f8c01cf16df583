---------------------------- MODULE MCReplication ----------------------------
(***************************************************************************)
(* Small files for TLC: see the .cfg files for the sizes.                  *)
(***************************************************************************)
EXTENDS Replication, TLC

\* Calls, parts and contents are interchangeable; replicas are not, because a
\* degraded read asks the first one.
Symmetry == Permutations(Calls) \cup Permutations(Parts) \cup Permutations(Content)
=============================================================================
