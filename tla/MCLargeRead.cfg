\* What a read copies out, for a program that waits for the threads of a call.
CONSTANTS
  Data = 3
  Size = 2
  Part = 1
  Ranges <- MCRanges
  Sym = {x, y}
  First = x
  Zero = Zero
  Calls = {c1}
  Patient = TRUE
  NoCall = NoCall
SPECIFICATION Spec
INVARIANTS ReadsReturnRange
