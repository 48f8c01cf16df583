\* DABRI: degraded reads of parts that no parity server has a record of.
CONSTANTS
  Data = {d1, d2}
  Parity = {q1}
  FirstParity = q1
  Parts = {1, 2, 3}
  Sym = {x}
  Calls = {c1, c2, c3}
  NoReq = NoReq
  None = None
  Images <- MCImages
  Ranges <- MCAligned
  Zeroed = TRUE
  MaxMerge = 1
SPECIFICATION Spec
SYMMETRY Symmetry
PROPERTIES DecodesReturnLast
