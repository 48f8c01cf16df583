\* Safety of the default scheme: two data servers, two parity servers, one
\* part of one symbol, two calls, one spontaneous stop.
CONSTANTS
  Data = {d1, d2}
  Parity = {q1, q2}
  FirstParity = q1
  Parts = {1}
  Sym = {x}
  Calls = {c1, c2}
  NoReq = NoReq
  Images <- MCImages
  Discipline = "stripe"
  MaxCrash = 1
SPECIFICATION Spec
SYMMETRY CallSymmetry
INVARIANTS StripeConsistent IndInv
PROPERTIES ImplementsBlockStore
