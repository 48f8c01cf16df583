------------------------------ MODULE MCDabri ------------------------------
(***************************************************************************)
(* Small stripes for TLC: see the .cfg files for the sizes.                *)
(***************************************************************************)
EXTENDS Dabri, TLC

\* The file is created with every symbol on every data server.
MCImages == {[k \in Data |-> [p \in Parts |-> Sym]]}

\* Ranges that callers always use alike, and ranges that overlap.
MCAligned  == {{1, 2}, {3}}
MCOverlaps == {{1}, {1, 2}}

\* Calls and data servers are interchangeable, as in MCDeltaLog; the parts are
\* not, because the ranges tell them apart.
Symmetry == Permutations(Calls) \cup Permutations(Data)
=============================================================================
