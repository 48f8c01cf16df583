---------------------------- MODULE MCLibraries ----------------------------
(***************************************************************************)
(* The code under the update schemes, for TLC: the erasure code and the    *)
(* remote calls.  They have nothing in common; a behaviour is one of the   *)
(* one or of the other, chosen by part, so that one run checks both.       *)
(***************************************************************************)
EXTENDS ReedSolomon, CodingLoops, Rpc

VARIABLE part

\* Galois::add, tabulated: TLC reads a table faster than it takes bytes apart.
AdditionTable == [a \in Byte |-> [b \in Byte |-> Add(a, b)]]
MCAdd(a, b)   == AdditionTable[a][b]

MCShapes == {<<4, 2>>, <<3, 2>>, <<2, 3>>}

\* By the plain client every procedure, by the concurrent one a procedure twice, one
\* or two others, and always one that the server does not know.
MCMethods ==
  [plain      |-> << {"create", "write", "read", "getChunkServer"},
                     {"degrade_read", "merge", "clear"}, {} >>,
   concurrent |-> << {"write", "getChunkServer"}, {"read"}, {"read"} >>]

LibrariesInit ==
  /\ part \in {"erasure", "remote"}
  /\ ErasureInit /\ (part = "remote" => data = 2)
  /\ Init /\ (part = "erasure" => client = "plain" /\ service = "store")

LibrariesNext ==
  /\ UNCHANGED part
  /\ \/ part = "erasure" /\ ErasureNext /\ UNCHANGED vars
     \/ part = "remote" /\ Next /\ UNCHANGED erasureVars

LibrariesSpec ==
  LibrariesInit /\ [][LibrariesNext]_<<part, erasureVars, vars>> /\ Fairness

-----------------------------------------------------------------------------
(***************************************************************************)
(* Properties that need more than one of the modules.                      *)
(***************************************************************************)

\* The tables of Galois.cpp make the bytes a field, with 2 for a generator.  (The
\* formula has no variables; it is evaluated while one matrix is built.)
TablesMakeField ==
  stage = "scale" /\ matrix = <<>> /\ r = 0 /\ data = 2 =>
    GeneratorLaws(2, [b \in Byte \ {0} |-> Log(b)], {1, 2, 4, 8, 16, 32, 64, 128})

\* The numbers that stand in Galois.cpp are those of generateLogTable(29) and
\* generateExpTable, and 29 gives every byte but 0 a logarithm of its own.  (No
\* variables either.)
TablesGenerated ==
  stage = "scale" /\ matrix = <<>> /\ r = 0 =>
    /\ ~Duplicates(Polynomial)
    /\ LogTable = GenerateLogTable(Polynomial)
    /\ ExpTable = GenerateExpTable(LogTable)

\* Whatever the order of its loops and its way to multiply, every coding loop
\* leaves in its outputs the matrix times the inputs, whatever they held before,
\* touches no byte outside its range, and checkSomeShards accepts that and no
\* other result.
LoopsAgree ==
  stage = "encoded" =>
    LET rows    == [o \in 0..(total - data - 1) |-> matrix[data + o]]
        inputs  == [i \in 0..(data - 1) |->
                      [b \in 0..3 |-> Add(shards[(i + b) % data], b)]]
        garbage == [o \in DOMAIN rows |-> [b \in 0..3 |-> 17 * o + b]]
        wanted  == [o \in DOMAIN rows |->
                      [b \in 0..3 |->
                         IF b \in 1..2
                         THEN Code(rows[o], [i \in 0..(data - 1) |-> inputs[i][b]])
                         ELSE garbage[o][b]]]
    IN /\ \A loop \in CodingLoopClasses :
            CodeSomeShards(loop, rows, inputs, garbage, 1, 2) = wanted
       /\ CheckSomeShards(rows, inputs, wanted, 1, 2)
       /\ \A o \in DOMAIN rows, b \in 1..2 :
            ~CheckSomeShards(rows, inputs, [wanted EXCEPT ![o][b] = Add(@, 1)], 1, 2)

\* WireAgrees, once for both servers and clients.  (In the states of the erasure code
\* it would be evaluated again and again.)
BothEndsAgree == part = "remote" => WireAgrees
=============================================================================
