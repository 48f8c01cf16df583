-------------------------- MODULE MCFullOverwrite --------------------------
(***************************************************************************)
(* Small stripes for TLC: see the .cfg files for the sizes.                *)
(***************************************************************************)
EXTENDS FullOverwrite, TLC

\* The file is created with every symbol on every data server, so that a write
\* of the empty content changes the stripe.
MCImages == {[k \in Data |-> [p \in Parts |-> Sym]]}

\* Calls are interchangeable: they differ in no constant and no property of
\* the runs that use the symmetry names one.
CallSymmetry == Permutations(Calls)
=============================================================================
