\* DABRI with a merge, requests for a range of two parts and for a third part.
CONSTANTS
  Data = {d1, d2}
  Parity = {q1, q2}
  FirstParity = q1
  Parts = {1, 2, 3}
  Sym = {x}
  Calls = {c1, c2, c3}
  NoReq = NoReq
  None = None
  Images <- MCImages
  Ranges <- MCAligned
  Zeroed = TRUE
  MaxMerge = 1
SPECIFICATION Spec
SYMMETRY Symmetry
INVARIANTS DabriInv StripeCurrent BackDefined
PROPERTIES ReadsReturnLast
