\* A primary and two replicas, both schemes: two parts, three calls, one stop
\* and two merges.
CONSTANTS
  Primary = d
  Replicas = {q1, q2}
  FirstReplica = q1
  Parts = {p1, p2}
  Content = {x, y}
  NoContent = NoContent
  Calls = {c1, c2, c3}
  NoReq = NoReq
  ReadWhen = "logged"
  MaxCrash = 1
  MaxMerge = 2
\* The clients may stop calling.
CHECK_DEADLOCK FALSE
SPECIFICATION Spec
SYMMETRY Symmetry
INVARIANTS CopiesAgree RepInv
PROPERTIES AnswersLast ImplementsBlockStore
