\* Two workers per data server, two calls at a time; one server stops.  When
\* both programs have ended nothing is left to happen.
CONSTANTS
  d1 = d1
  d2 = d2
  q1 = q1
  a = a
  b = b
  c1 = c1
  c2 = c2
  Data = {d1, d2}
  Parity = {q1}
  Programs = {a, b}
  Calls = {c1, c2}
  Requests <- MCRequests
  DataWorkers = 2
  ParityWorkers = 2
  Discipline = "careful"
  MaxStop = 1
  NoCall = NoCall
  NoSession = NoSession
SPECIFICATION LiveSpec
INVARIANTS AnswersMatch ConnInv
PROPERTIES DeathsCascade CallsEnd
CHECK_DEADLOCK FALSE
