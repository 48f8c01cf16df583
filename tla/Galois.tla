------------------------------- MODULE Galois -------------------------------
(***************************************************************************)
(* The field of the erasure code (erasure/src/Galois.cpp): 256 elements,   *)
(* products by tables of logarithms and powers that stand in the source as *)
(* numbers.  The class can also generate them; TablesGenerated holds the   *)
(* numbers against the generators.  A byte is 0 .. 255 where the code has  *)
(* a signed char: every use of one as an index is masked with 0xFF.        *)
(***************************************************************************)
EXTENDS Integers, SequencesExt, Bitwise

FieldSize  == 256
Polynomial == 29
Byte       == 0..(FieldSize - 1)

\* LOG_TABLE: the logarithm of byte b is at position b + 1.
LogTable ==
  <<
    -1, 0, 1, 25, 2, 50, 26, 198, 3, 223, 51, 238, 27, 104, 199, 75, 4, 100,
    224, 14, 52, 141, 239, 129, 28, 193, 105, 248, 200, 8, 76, 113, 5, 138, 101,
    47, 225, 36, 15, 33, 53, 147, 142, 218, 240, 18, 130, 69, 29, 181, 194, 125,
    106, 39, 249, 185, 201, 154, 9, 120, 77, 228, 114, 166, 6, 191, 139, 98,
    102, 221, 48, 253, 226, 152, 37, 179, 16, 145, 34, 136, 54, 208, 148, 206,
    143, 150, 219, 189, 241, 210, 19, 92, 131, 56, 70, 64, 30, 66, 182, 163,
    195, 72, 126, 110, 107, 58, 40, 84, 250, 133, 186, 61, 202, 94, 155, 159,
    10, 21, 121, 43, 78, 212, 229, 172, 115, 243, 167, 87, 7, 112, 192, 247,
    140, 128, 99, 13, 103, 74, 222, 237, 49, 197, 254, 24, 227, 165, 153, 119,
    38, 184, 180, 124, 17, 68, 146, 217, 35, 32, 137, 46, 55, 63, 209, 91, 149,
    188, 207, 205, 144, 135, 151, 178, 220, 252, 190, 97, 242, 86, 211, 171, 20,
    42, 93, 158, 132, 60, 57, 83, 71, 109, 65, 162, 31, 45, 67, 216, 183, 123,
    164, 118, 196, 23, 73, 236, 127, 12, 111, 246, 108, 161, 59, 82, 41, 157,
    85, 170, 251, 96, 134, 177, 187, 204, 62, 90, 203, 89, 95, 176, 156, 169,
    160, 81, 11, 245, 22, 235, 122, 117, 44, 215, 79, 174, 213, 233, 230, 231,
    173, 232, 116, 214, 244, 234, 168, 80, 88, 175
  >>

\* The first 255 numbers of EXP_TABLE: 2^n is at position n + 1.
ExpHalf ==
  <<
    1, 2, 4, 8, 16, 32, 64, 128, 29, 58, 116, 232, 205, 135, 19, 38, 76, 152,
    45, 90, 180, 117, 234, 201, 143, 3, 6, 12, 24, 48, 96, 192, 157, 39, 78,
    156, 37, 74, 148, 53, 106, 212, 181, 119, 238, 193, 159, 35, 70, 140, 5, 10,
    20, 40, 80, 160, 93, 186, 105, 210, 185, 111, 222, 161, 95, 190, 97, 194,
    153, 47, 94, 188, 101, 202, 137, 15, 30, 60, 120, 240, 253, 231, 211, 187,
    107, 214, 177, 127, 254, 225, 223, 163, 91, 182, 113, 226, 217, 175, 67,
    134, 17, 34, 68, 136, 13, 26, 52, 104, 208, 189, 103, 206, 129, 31, 62, 124,
    248, 237, 199, 147, 59, 118, 236, 197, 151, 51, 102, 204, 133, 23, 46, 92,
    184, 109, 218, 169, 79, 158, 33, 66, 132, 21, 42, 84, 168, 77, 154, 41, 82,
    164, 85, 170, 73, 146, 57, 114, 228, 213, 183, 115, 230, 209, 191, 99, 198,
    145, 63, 126, 252, 229, 215, 179, 123, 246, 241, 255, 227, 219, 171, 75,
    150, 49, 98, 196, 149, 55, 110, 220, 165, 87, 174, 65, 130, 25, 50, 100,
    200, 141, 7, 14, 28, 56, 112, 224, 221, 167, 83, 166, 81, 162, 89, 178, 121,
    242, 249, 239, 195, 155, 43, 86, 172, 69, 138, 9, 18, 36, 72, 144, 61, 122,
    244, 245, 247, 243, 251, 235, 203, 139, 11, 22, 44, 88, 176, 125, 250, 233,
    207, 131, 27, 54, 108, 216, 173, 71, 142
  >>

\* Faulty variant: one entry too many between the halves.
ExpTableLate == ExpHalf \o <<1>> \o ExpHalf

\* EXP_TABLE has the powers twice, so that a sum of two logarithms needs no modulo.
ExpTable == ExpHalf \o ExpHalf

Log(b)  == LogTable[b + 1]
Power2(n) == ExpTable[n + 1]

\* Also Galois::subtract.
Add(a, b) == a ^^ b

\* Faulty variant: the table of powers is read one entry late after its first half.
MultiplyLate(a, b) ==
  IF a = 0 \/ b = 0 THEN 0
  ELSE LET n == Log(a) + Log(b)
       IN Power2(IF n < FieldSize - 1 THEN n ELSE (n + 1) % (FieldSize - 1))

Multiply(a, b) == IF a = 0 \/ b = 0 THEN 0 ELSE Power2(Log(a) + Log(b))

\* The divisor is not 0.
Divide(a, b) ==
  IF a = 0 THEN 0
  ELSE LET n == Log(a) - Log(b)
       IN Power2(IF n < 0 THEN n + FieldSize - 1 ELSE n)

\* Galois::exp, of an exponent that is not negative: n is a signed char, and from 128 on
\* it would index EXP_TABLE from before its beginning.
Exp(a, n) ==
  IF n = 0 THEN 1 ELSE IF a = 0 THEN 0 ELSE Power2((Log(a) * n) % (FieldSize - 1))

-----------------------------------------------------------------------------
(***************************************************************************)
(* The generators.                                                         *)
(***************************************************************************)

\* b << 1, reduced when it leaves the field.
Twice(b, polynomial) ==
  IF FieldSize <= 2 * b THEN (2 * b - FieldSize) ^^ polynomial ELSE 2 * b

\* From b on, each byte twice the one before it.
DoublingsFrom(b, count, polynomial) ==
  FoldLeft(LAMBDA s, n : Append(s, Twice(Last(s), polynomial)),
           <<b>>, [n \in 1..(count - 1) |-> n])

\* What the loop of generateLogTable runs through: 1, 2, 4, ..., 255 numbers.  (They are
\* taken 15 times 17, because a fold is recursive and 255 levels are deep for TLC.)
Doublings(polynomial) ==
  FoldLeft(LAMBDA s, n : s \o DoublingsFrom(Twice(Last(s), polynomial), 17, polynomial),
           DoublingsFrom(1, 17, polynomial), [n \in 1..14 |-> n])

\* The exception of generateLogTable: a duplicate logarithm.
Duplicates(polynomial) == Cardinality(ToSet(Doublings(polynomial))) < FieldSize - 1

\* generateLogTable for a polynomial without duplicates; -1 means "not set".
GenerateLogTable(polynomial) ==
  LET s == Doublings(polynomial)
  IN [i \in 1..FieldSize |->
        IF i = 1 THEN -1 ELSE (CHOOSE n \in DOMAIN s : s[n] = i - 1) - 1]

\* generateExpTable: every byte but 0 is stored at its logarithm, and 255 later.
GenerateExpTable(logTable) ==
  [i \in 1..(2 * FieldSize - 2) |->
     CHOOSE b \in Byte \ {0} : (i - 1) \in {logTable[b + 1], logTable[b + 1] + FieldSize - 1}]

\* MULTIPLICATION_TABLE, filled when the process starts.
MultiplicationTable == [a \in Byte |-> [b \in Byte |-> Multiply(a, b)]]
=============================================================================
