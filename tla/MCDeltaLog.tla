----------------------------- MODULE MCDeltaLog -----------------------------
(***************************************************************************)
(* Small stripes for TLC: see the .cfg files for the sizes.                *)
(***************************************************************************)
EXTENDS DeltaLog, TLC

\* The file is created with every symbol on every data server.
MCImages == {[k \in Data |-> [p \in Parts |-> Sym]]}

\* Calls, data servers and parts are interchangeable: no constant tells one from
\* another, and no property names one.
Symmetry == Permutations(Calls) \cup Permutations(Data) \cup Permutations(Parts)
=============================================================================
