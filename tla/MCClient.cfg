\* Two contents per byte; the program waits for the threads of a call before the next.
\* In a file of three bytes two ranges of one are apart and two of two overlap.
CONSTANTS
  Data = 3
  Size = 2
  Part = 1
  Ranges <- MCRanges
  Sym = {x, y}
  First = x
  Zero = Zero
  Calls = {c1}
  Patient = TRUE
  NoCall = NoCall
  FileSize = 3
  Rounds = {1, 2}
  Nums = {1, 2}
  Sizes = {1, 2}
  MaxLines = 4
SPECIFICATION ClientSpec
INVARIANTS PiecesTile PatientInv FileIsImage ReadsCurrentBytes ProgramsInv NoFalseAlarm TracesReplayed
