\* Liveness of the calls, under fairness of the server threads only.
CONSTANTS
  Data = {d1, d2}
  Parity = {q1}
  FirstParity = q1
  Parts = {1}
  Sym = {x}
  Calls = {c1, c2}
  NoReq = NoReq
  Images <- MCImages
  Discipline = "stripe"
  MaxCrash = 1
SPECIFICATION LiveSpec
PROPERTIES CallsEnd
