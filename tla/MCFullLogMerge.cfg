\* Full logging: a merge, and the parity after it.
CONSTANTS
  Data = {d1, d2}
  Parity = {q1}
  FirstParity = q1
  Parts = {p1}
  Sym = {x}
  Calls = {c1, c2}
  NoReq = NoReq
  Images <- MCImages
  Schemes = {"FULL_LOG"}
  Discipline = "apart"
  RestartWhen = "merged"
  RepairWhen = "any"
  Recreate = FALSE
  MaxMerge = 1
  MaxRestart = 0
SPECIFICATION Spec
SYMMETRY Symmetry
INVARIANTS StripeCurrent
