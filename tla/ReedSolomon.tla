---------------------------- MODULE ReedSolomon ----------------------------
(***************************************************************************)
(* The erasure code, class ReedSolomon (erasure/src/ReedSolomon.cpp) with  *)
(* Matrix.cpp and Galois.cpp: the coding matrix is built when the process  *)
(* reads its settings, then one object encodes and decodes stripe after    *)
(* stripe.  Both need the inverse of a matrix, found by the same Gaussian  *)
(* elimination, here one step per pass of its two loops.                   *)
(*                                                                         *)
(* A shard is one byte: the coding loop treats the bytes of a shard        *)
(* independently.  Rows, columns and shards count from 0 as in the code.   *)
(* This is the module that shows what Stripe assumes.                      *)
(*                                                                         *)
(* The arithmetic of Galois.cpp is a parameter.  TLC takes the tables of   *)
(* the module Galois; the theorems hold for every field whose elements     *)
(* are their own negatives.                                                *)
(***************************************************************************)
EXTENDS Integers, FiniteSets

CONSTANTS
  Shapes,       \* pairs <<data, parity>> of a configuration
  Samples,      \* bytes the user data is made of
  Elements,     \* all bytes
  add(_, _), multiply(_, _), divide(_, _), exp(_, _)   \* of class Galois

\* The numbers of the shards are bytes.  Those of data shards are exponents too, which
\* exp takes as a signed char.
ASSUME ReedSolomonAssumption ==
  /\ Shapes \subseteq (Nat \ {0}) \X (Nat \ {0})
  /\ \A s \in Shapes : 0..(s[1] + s[2] - 1) \subseteq Elements /\ s[1] <= 128
  /\ Samples \subseteq Elements

VARIABLES
  stage,     \* what the object works on; "pivot" .. "above" is an elimination
  data,      \* dataShardCount
  total,     \* totalShardCount
  matrix,    \* the coding matrix, <<>> until it is built
  shards,    \* the bytes of the stripe
  present,   \* shardPresent
  sub,       \* the matrix being inverted
  work,      \* sub augmented with the identity, as far as it is reduced
  r,         \* the row of the loop of gaussianElimination
  original   \* history: the stripe as it was encoded

erasureVars == <<stage, data, total, matrix, shards, present, sub, work, r, original>>

-----------------------------------------------------------------------------
(***************************************************************************)
(* Matrices: functions from row and column numbers to bytes.               *)
(***************************************************************************)
SumOf(f, n) == LET s[i \in 0..n] == IF i = 0 THEN 0 ELSE add(s[i - 1], f[i - 1]) IN s[n]

\* What codeSomeShards computes for one output (LoopsAgree of MCLibraries): a row of a
\* matrix times the inputs.
Code(row, inputs) ==
  SumOf([i \in 0..(data - 1) |-> multiply(row[i], inputs[i])], data)

Times(a, rows, b) ==
  [i \in 0..(rows - 1) |->
     [j \in 0..(data - 1) |-> Code(a[i], [q \in 0..(data - 1) |-> b[q][j]])]]

Vandermonde == [i \in 0..(total - 1) |-> [j \in 0..(data - 1) |-> exp(i, j)]]

\* augment(identity(rows)), and the right half of an augmented matrix.
Augment(m) ==
  [i \in 0..(data - 1) |->
     [j \in 0..(2 * data - 1) |->
        IF j < data THEN m[i][j] ELSE IF j = data + i THEN 1 ELSE 0]]
RightHalf(w) == [i \in 0..(data - 1) |-> [j \in 0..(data - 1) |-> w[i][data + j]]]

\* Row q has factor times row p added to it.
AddRow(w, q, p, factor) == [j \in DOMAIN w[q] |-> add(w[q][j], multiply(factor, w[p][j]))]

Least(S) == CHOOSE x \in S : \A y \in S : x <= y
Missing  == {i \in 0..(total - 1) : ~present[i]}

\* The first `data` shards that are not in lost, in order.
Used(lost) == [i \in 0..(data - 1) |->
                 CHOOSE s \in 0..(total - 1) \ lost :
                   Cardinality(0..(s - 1) \ lost) = i]

\* The parity shards of the data shards in row.
WithParity(row) ==
  [i \in 0..(total - 1) |-> IF i < data THEN row[i] ELSE Code(matrix[i], row)]

ErasureTypeOK ==
  /\ stage \in {"pivot", "scale", "below", "above", "inverted", "ready", "encoded",
                "data", "decoded", "thrown"}
  /\ <<data, total - data>> \in Shapes /\ total \in Nat
  /\ \/ matrix = <<>>
     \/ matrix \in [0..(total - 1) -> [0..(data - 1) -> Elements]]
  /\ shards \in [0..(total - 1) -> Elements]
  /\ present \in [0..(total - 1) -> BOOLEAN]
  /\ sub \in [0..(data - 1) -> [0..(data - 1) -> Elements]]
  /\ work \in [0..(data - 1) -> [0..(2 * data - 1) -> Elements]]
  /\ r \in 0..data
  /\ original \in [0..(total - 1) -> Elements]

\* ReedSolomon::ReedSolomon calls buildMatrix, which inverts the top square.
ErasureInit ==
  /\ \E s \in Shapes : data = s[1] /\ total = s[1] + s[2]
  /\ stage = "pivot"
  /\ matrix = <<>>
  /\ shards = [i \in 0..(total - 1) |-> 0]
  /\ present = [i \in 0..(total - 1) |-> TRUE]
  /\ sub = [i \in 0..(data - 1) |-> Vandermonde[i]]
  /\ work = Augment(sub)
  /\ r = 0
  /\ original = shards

-----------------------------------------------------------------------------
(***************************************************************************)
(* Matrix::gaussianElimination.                                            *)
(***************************************************************************)
object == <<data, total, matrix, shards, present, sub, original>>

\* Faulty variant: no row below is looked for.
PivotNoSwap ==
  /\ stage = "pivot"
  /\ stage' = IF work[r][r] = 0 THEN "thrown" ELSE "scale"
  /\ UNCHANGED <<object, work, r>>

\* A zero on the diagonal is swapped away; without a row to swap with the
\* matrix is singular.
Pivot ==
  /\ stage = "pivot"
  /\ LET below == {q \in (r + 1)..(data - 1) : work[q][r] # 0}
         p     == IF work[r][r] = 0 /\ below # {} THEN Least(below) ELSE r
     IN /\ work' = [work EXCEPT ![r] = work[p], ![p] = work[r]]
        /\ stage' = IF work[p][r] = 0 THEN "thrown" ELSE "scale"
  /\ UNCHANGED <<object, r>>

Scale ==
  /\ stage = "scale"
  /\ work' = [work EXCEPT ![r] =
                [j \in DOMAIN @ |-> multiply(@[j], divide(1, work[r][r]))]]
  /\ stage' = "below"
  /\ UNCHANGED <<object, r>>

\* Faulty variant: the right half is left out of the elimination.
EliminateBelowLeft ==
  /\ stage = "below"
  /\ work' = [q \in 0..(data - 1) |->
                IF q > r THEN [j \in DOMAIN work[q] |->
                                 IF j < data THEN AddRow(work, q, r, work[q][r])[j]
                                 ELSE work[q][j]]
                ELSE work[q]]
  /\ r' = IF r + 1 = data THEN 0 ELSE r + 1
  /\ stage' = IF r + 1 = data THEN "above" ELSE "pivot"
  /\ UNCHANGED object

EliminateBelow ==
  /\ stage = "below"
  /\ work' = [q \in 0..(data - 1) |->
                IF q > r THEN AddRow(work, q, r, work[q][r]) ELSE work[q]]
  /\ r' = IF r + 1 = data THEN 0 ELSE r + 1
  /\ stage' = IF r + 1 = data THEN "above" ELSE "pivot"
  /\ UNCHANGED object

\* The second loop: column r of the rows above.
EliminateAbove ==
  /\ stage = "above"
  /\ work' = [q \in 0..(data - 1) |->
                IF q < r THEN AddRow(work, q, r, work[q][r]) ELSE work[q]]
  /\ r' = r + 1
  /\ stage' = IF r + 1 = data THEN "inverted" ELSE "above"
  /\ UNCHANGED object

-----------------------------------------------------------------------------
\* The end of buildMatrix: the Vandermonde matrix times the inverse of its top.
BuildMatrix ==
  /\ stage = "inverted"
  /\ matrix = <<>>
  /\ matrix' = Times(Vandermonde, total, RightHalf(work))
  /\ stage' = "ready"
  /\ UNCHANGED <<data, total, shards, present, sub, work, r, original>>

\* encodeParity: the parity shards of any data.
EncodeParity(row) ==
  /\ stage = "ready"
  /\ shards' = WithParity(row)
  /\ original' = WithParity(row)
  /\ stage' = "encoded"
  /\ UNCHANGED <<data, total, matrix, present, sub, work, r>>

\* decodeMissing with the shards in lost absent (their buffers are zeroed):
\* the early returns, and the square matrix of the shards to use.
DecodeMissing(lost) ==
  /\ stage = "encoded"
  /\ present' = [i \in DOMAIN present |-> i \notin lost]
  /\ shards' = [i \in DOMAIN shards |-> IF i \in lost THEN 0 ELSE shards[i]]
  /\ IF lost = {} \/ total - Cardinality(lost) < data
     THEN /\ stage' = IF lost = {} THEN "decoded" ELSE "thrown"
          /\ UNCHANGED <<sub, work, r>>
     ELSE /\ stage' = "pivot"
          /\ sub' = [i \in 0..(data - 1) |-> matrix[Used(lost)[i]]]
          /\ work' = Augment([i \in 0..(data - 1) |-> matrix[Used(lost)[i]]])
          /\ r' = 0
  /\ UNCHANGED <<data, total, matrix, original>>

\* Faulty variant: the rows of the inverse are taken in the order of the outputs.
RecreateDataInOrder ==
  /\ stage = "inverted"
  /\ matrix # <<>>
  /\ LET inputs == [i \in 0..(data - 1) |-> shards[Used(Missing)[i]]]
     IN shards' = [i \in DOMAIN shards |->
          IF i \in Missing /\ i < data
          THEN Code(RightHalf(work)[Cardinality({x \in Missing : x < i})], inputs)
          ELSE shards[i]]
  /\ stage' = "data"
  /\ UNCHANGED <<data, total, matrix, present, sub, work, r, original>>

\* The missing data shards, from the shards that were used ...
RecreateData ==
  /\ stage = "inverted"
  /\ matrix # <<>>
  /\ LET inputs == [i \in 0..(data - 1) |-> shards[Used(Missing)[i]]]
     IN shards' = [i \in DOMAIN shards |->
                     IF i \in Missing /\ i < data THEN Code(RightHalf(work)[i], inputs)
                     ELSE shards[i]]
  /\ stage' = "data"
  /\ UNCHANGED <<data, total, matrix, present, sub, work, r, original>>

\* ... then the missing parity shards, from all data shards.
RecreateParity ==
  /\ stage = "data"
  /\ shards' = [i \in DOMAIN shards |->
                  IF i \in Missing /\ i >= data THEN Code(matrix[i], shards) ELSE shards[i]]
  /\ stage' = "decoded"
  /\ UNCHANGED <<data, total, matrix, present, sub, work, r, original>>

\* The caller has its answer or its exception; the next stripe.
Return ==
  /\ stage \in {"decoded", "thrown"}
  /\ matrix # <<>>
  /\ stage' = "ready"
  /\ present' = [i \in DOMAIN present |-> TRUE]
  /\ UNCHANGED <<data, total, matrix, shards, sub, work, r, original>>

ErasureNext ==
  \/ Pivot \/ Scale \/ EliminateBelow \/ EliminateAbove
  \/ BuildMatrix \/ RecreateData \/ RecreateParity \/ Return
  \/ \E row \in [0..(data - 1) -> Samples] : EncodeParity(row)
  \/ \E lost \in SUBSET (0..(total - 1)) : DecodeMissing(lost)

ErasureSpec == ErasureInit /\ [][ErasureNext]_erasureVars

-----------------------------------------------------------------------------
(***************************************************************************)
(* Properties.                                                             *)
(***************************************************************************)

\* The loop invariant of the elimination, over both loops, swaps included: the
\* right half times the matrix being inverted is the left half.  So when the
\* left half has become the identity the right half is the inverse.
HalvesAgree ==
  stage \in {"pivot", "scale", "below", "above", "inverted"} =>
    Times(RightHalf(work), data, sub) =
      [i \in 0..(data - 1) |-> [j \in 0..(data - 1) |-> work[i][j]]]

\* "any square subset of rows is invertible" (ReedSolomon.cpp:241-242): only a
\* stripe with too few shards is refused, and every data shard has a part in every
\* parity shard.
NeverSingular ==
  /\ stage = "thrown" => total - Cardinality(Missing) < data
  /\ stage = "encoded" => \A k \in 0..(data - 1), i \in data..(total - 1) : matrix[i][k] # 0

\* Whichever shards were lost, as many as the code tolerates, decodeMissing
\* restores the whole stripe, also when shards of both kinds are lost.
DecodeRestores == stage = "decoded" => shards = original

\* What every update scheme rests on (Scheme.cpp:37-41): adding the old and the
\* new byte of one data shard, times its coefficient, to a parity shard gives
\* the parity of the new data.  Encoding leaves the data shards as they are.
DeltaUpdatesParity ==
  stage = "encoded" =>
    \A k \in 0..(data - 1), new \in Samples :
      /\ matrix[k] = [j \in 0..(data - 1) |-> IF j = k THEN 1 ELSE 0]
      /\ \A i \in data..(total - 1) :
           Code(matrix[i], [shards EXCEPT ![k] = new]) =
             add(shards[i], multiply(matrix[i][k], add(shards[k], new)))

-----------------------------------------------------------------------------
(***************************************************************************)
(* The field: every element is its own negative.                           *)
(***************************************************************************)

\* The laws of the field that are about one or two elements.
PairLaws ==
  /\ {0, 1} \subseteq Elements
  /\ \A a, b \in Elements :
       /\ add(a, b) \in Elements /\ add(a, b) = add(b, a)
       /\ multiply(a, b) \in Elements /\ multiply(a, b) = multiply(b, a)
  /\ \A a \in Elements :
       /\ add(0, a) = a /\ add(a, a) = 0
       /\ multiply(1, a) = a /\ multiply(0, a) = 0
       /\ a # 0 => divide(1, a) \in Elements /\ multiply(a, divide(1, a)) = 1
  /\ \A s \in Shapes : \A i \in 0..(s[1] + s[2] - 1) :
       exp(i, 0) = 1 /\ \A j \in 1..(s[1] - 1) : exp(i, j) = multiply(i, exp(i, j - 1))

\* Laws that can be tried one by one, and are enough: every element but 0 is a power of
\* g, with log its exponent, and the sum of a bit and a smaller number.
GeneratorLaws(g, log, bits) ==
  /\ PairLaws
  /\ g \in Elements /\ bits \subseteq Elements /\ Elements \subseteq Nat
  /\ \A a \in Elements \ {0} :
       /\ log[a] \in Nat
       /\ a # 1 => \E b \in Elements \ {0} : a = multiply(g, b) /\ log[b] < log[a]
       /\ \E p \in bits, b \in Elements : a = add(p, b) /\ b < a
  /\ \A b, c \in Elements :
       /\ multiply(multiply(g, b), c) = multiply(g, multiply(b, c))
       /\ multiply(g, add(b, c)) = add(multiply(g, b), multiply(g, c))
       /\ \A p \in bits : add(add(p, b), c) = add(p, add(b, c))
=============================================================================
