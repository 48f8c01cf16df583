\* Reads at the primary of parts its vectors do not know.
CONSTANTS
  Primary = d
  Replicas = {q1, q2}
  FirstReplica = q1
  Parts = {p1, p2}
  Content = {x, y}
  NoContent = NoContent
  Calls = {c1, c2}
  NoReq = NoReq
  ReadWhen = "any"
  MaxCrash = 1
  MaxMerge = 2
\* The clients may stop calling.
CHECK_DEADLOCK FALSE
SPECIFICATION Spec
SYMMETRY Symmetry
PROPERTIES AnswersLast
