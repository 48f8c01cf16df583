\* Both logging schemes: two parts that share the logs of two parity servers, a
\* merge and a restart; under FullLog no degraded read after the merge.
CONSTANTS
  Data = {d1, d2}
  Parity = {q1, q2}
  FirstParity = q1
  Parts = {p1, p2}
  Sym = {x}
  Calls = {c1, c2}
  NoReq = NoReq
  Images <- MCImages
  Schemes = {"PARITY_LOG", "FULL_LOG"}
  Discipline = "apart"
  RestartWhen = "merged"
  RepairWhen = "unmerged"
  Recreate = FALSE
  MaxMerge = 1
  MaxRestart = 1
SPECIFICATION Spec
SYMMETRY Symmetry
INVARIANTS StripeUnmerged LogInv
PROPERTIES ImplementsBlockStore
