---------------------------- MODULE CodingLoops ----------------------------
(***************************************************************************)
(* The loops that multiply rows of a coding matrix with shards             *)
(* (erasure/src/TableCodingLoop.cpp, ExpCodingLoop.cpp, CodingLoop.cpp).   *)
(* Twelve classes do the same work in the six orders of the loops over     *)
(* bytes, inputs and outputs, with the table of products or with           *)
(* logarithms.  Their output buffers hold anything when they start, and    *)
(* the bytes outside offset .. offset + byteCount - 1 are not theirs.      *)
(*                                                                         *)
(* rows[o][i] is a coefficient, inputs[i][b] and outputs[o][b] a byte; all *)
(* count from 0.  ReedSolomon::create chooses InputOutputByteTable.        *)
(***************************************************************************)
EXTENDS Galois

-----------------------------------------------------------------------------
\* A class is the order of its loops, outermost first, and how it multiplies a
\* coefficient with a byte of an input.
TableByRow(coefficient, byte)   == MultiplicationTable[coefficient][byte]
TableByInput(coefficient, byte) == MultiplicationTable[byte][coefficient]

Loop(outer, middle, inner, product) ==
  [order |-> <<outer, middle, inner>>, product |-> product]

ByteInputOutputTable == Loop("byte", "input", "output", "row")
ByteOutputInputTable == Loop("byte", "output", "input", "row")
InputByteOutputTable == Loop("input", "byte", "output", "byte")
InputOutputByteTable == Loop("input", "output", "byte", "row")
OutputByteInputTable == Loop("output", "byte", "input", "row")
OutputInputByteTable == Loop("output", "input", "byte", "row")
ByteInputOutputExp   == Loop("byte", "input", "output", "exp")
ByteOutputInputExp   == Loop("byte", "output", "input", "exp")
InputByteOutputExp   == Loop("input", "byte", "output", "exp")
InputOutputByteExp   == Loop("input", "output", "byte", "exp")
OutputByteInputExp   == Loop("output", "byte", "input", "exp")
OutputInputByteExp   == Loop("output", "input", "byte", "exp")

CodingLoopClasses ==
  { ByteInputOutputTable, ByteOutputInputTable, InputByteOutputTable,
    InputOutputByteTable, OutputByteInputTable, OutputInputByteTable,
    ByteInputOutputExp, ByteOutputInputExp, InputByteOutputExp,
    InputOutputByteExp, OutputByteInputExp, OutputInputByteExp }

Product(loop, coefficient, byte) ==
  CASE loop.product = "row"  -> TableByRow(coefficient, byte)
    [] loop.product = "byte" -> TableByInput(coefficient, byte)
    [] loop.product = "exp"  -> Multiply(coefficient, byte)

-----------------------------------------------------------------------------
\* The rounds of three nested loops in the order in which they are run: count
\* gives the number of rounds of each.
Rounds(order, count) ==
  LET middle == count[order[2]]
      inner  == count[order[3]]
  IN [k \in 1..(count[order[1]] * middle * inner) |->
        (order[1] :> (k - 1) \div (middle * inner))
          @@ (order[2] :> ((k - 1) \div inner) % middle)
          @@ (order[3] :> (k - 1) % inner)]

\* Faulty variant: the pass over the first input adds to what the buffer holds.
RoundAddsAll(loop, rows, inputs, last, offset, s, round) ==
  LET o == round["output"]
      b == offset + round["byte"]
      i == round["input"]
      p == Product(loop, rows[o][i], inputs[i][b])
  IN [s EXCEPT !.outputs[o][b] = @ ^^ p]

\* One round.  With the inputs innermost the products are summed in a variable
\* that is stored after the last; else the first input is stored and the other
\* ones are added in the buffer.
Round(loop, rows, inputs, last, offset, s, round) ==
  LET o     == round["output"]
      b     == offset + round["byte"]
      i     == round["input"]
      p     == Product(loop, rows[o][i], inputs[i][b])
      value == IF i = 0 THEN p ELSE s.value ^^ p
  IN IF loop.order[3] = "input"
     THEN [s EXCEPT !.value = value,
                    !.outputs[o][b] = IF i = last THEN value ELSE @]
     ELSE [s EXCEPT !.outputs[o][b] = IF i = 0 THEN p ELSE @ ^^ p]

CodeSomeShards(loop, rows, inputs, outputs, offset, byteCount) ==
  LET count == [byte |-> byteCount, input |-> Cardinality(DOMAIN inputs),
                output |-> Cardinality(DOMAIN outputs)]
  IN FoldLeft(LAMBDA s, round :
                Round(loop, rows, inputs, count["input"] - 1, offset, s, round),
              [value |-> 0, outputs |-> outputs],
              Rounds(loop.order, count)).outputs

\* CodingLoop::checkSomeShards: the loops of ByteOutputInput, left at the first
\* byte that is not the sum.
CheckSomeShards(rows, inputs, toCheck, offset, byteCount) ==
  \A b \in offset..(offset + byteCount - 1), o \in DOMAIN toCheck :
    toCheck[o][b] =
      FoldLeft(LAMBDA value, i : value ^^ TableByRow(rows[o][i], inputs[i][b]), 0,
               [n \in 1..Cardinality(DOMAIN inputs) |-> n - 1])
=============================================================================
