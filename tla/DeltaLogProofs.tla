--------------------------- MODULE DeltaLogProofs ---------------------------
(***************************************************************************)
(* Proofs about the schemes that log parity deltas, for any number of      *)
(* data servers, parity servers, parts, symbols and calls, any number of   *)
(* merges and restarts, and both classes, ParityLog and FullLog.           *)
(***************************************************************************)
EXTENDS DeltaLog, StripeTheorems, SequenceTheorems, FiniteSetTheorems

-----------------------------------------------------------------------------
(***************************************************************************)
(* Vectors and the sum of the deltas a vector points at.                   *)
(***************************************************************************)

\* A push_back leaves a vector of positions, whatever size it has read, and
\* every entry is the new one or was there before.
LEMMA PushBackType ==
  ASSUME NEW idx \in Seq(Nat), NEW n \in Nat, NEW x \in Nat
  PROVE  /\ PushBack(idx, n, x) \in Seq(Nat)
         /\ \A j \in DOMAIN PushBack(idx, n, x) :
              \/ PushBack(idx, n, x)[j] = x
              \/ \E l \in DOMAIN idx : PushBack(idx, n, x)[j] = idx[l]
<1>1. CASE n > Len(idx)
  BY <1>1 DEF PushBack
<1>2. CASE ~(n > Len(idx))
  <2> DEFINE s == SubSeq(idx, 1, n)
  <2>1. \A j \in 1 .. n : idx[j] \in Nat
    BY <1>2
  <2>2. s \in Seq(Nat) /\ Len(s) = n /\ \A j \in 1 .. n : s[j] = idx[j]
    <3>1. s \in Seq(Nat) /\ Len(s) = (IF 1 <= n THEN n - 1 + 1 ELSE 0)
          /\ \A j \in 1 .. n - 1 + 1 : s[j] = idx[1 + j - 1]
      BY <2>1, SubSeqProperties
    <3> HIDE DEF s
    <3> QED BY <3>1
  <2> HIDE DEF s
  <2>3. /\ Append(s, x) \in Seq(Nat)
        /\ DOMAIN Append(s, x) = 1 .. n + 1
        /\ Append(s, x)[n + 1] = x
        /\ \A j \in 1 .. n : Append(s, x)[j] = idx[j] /\ j \in DOMAIN idx
    BY <1>2, <2>2
  <2>4. PushBack(idx, n, x) = Append(s, x)
    BY <1>2 DEF PushBack, s
  <2> QED BY <2>3, <2>4
<1> QED BY <1>1, <1>2

\* When no other push_back has come between, it is an append.
LEMMA PushBackAppends ==
  ASSUME NEW idx \in Seq(Nat), NEW x
  PROVE  PushBack(idx, Len(idx), x) = Append(idx, x)
<1>1. SubSeq(idx, 1, Len(idx)) = idx
  BY SubSeqFull
<1>2. ~(Len(idx) > Len(idx))
  OBVIOUS
<1> QED BY <1>1, <1>2 DEF PushBack

LEMMA DeltaSumType ==
  ASSUME NEW log, NEW idx
  PROVE  DeltaSum(log, idx) \in ParityValue
  BY DEF DeltaSum, ParityValue

\* An empty vector points at no delta.
LEMMA DeltaSumEmpty ==
  ASSUME NEW log
  PROVE  DeltaSum(log, <<>>) = {}
<1> SUFFICES ASSUME NEW x \in Data \X Sym
             PROVE  ~(Cardinality({j \in DOMAIN <<>> : x \in log[<<>>[j]]}) % 2 = 1)
  BY DEF DeltaSum
<1> DEFINE S == {j \in DOMAIN <<>> : x \in log[<<>>[j]]}
<1>1. S = {}
  OBVIOUS
<1>2. Cardinality(S) = 0
  BY <1>1, FS_EmptySet
<1> HIDE DEF S
<1>3. ~(Cardinality(S) % 2 = 1)
  BY <1>2
<1> QED BY <1>3 DEF S

\* A record appended to the log changes no sum of a vector into the old log.
LEMMA DeltaSumLogged ==
  ASSUME NEW log \in Seq(ParityValue), NEW v \in ParityValue, NEW idx \in Seq(Nat),
         \A j \in DOMAIN idx : idx[j] \in DOMAIN log
  PROVE  DeltaSum(Append(log, v), idx) = DeltaSum(log, idx)
<1>1. \A j \in DOMAIN idx : Append(log, v)[idx[j]] = log[idx[j]]
  OBVIOUS
<1>2. \A x : {j \in DOMAIN idx : x \in Append(log, v)[idx[j]]}
               = {j \in DOMAIN idx : x \in log[idx[j]]}
  BY <1>1
<1> QED BY <1>2 DEF DeltaSum

\* An entry appended to the vector adds the delta it points at.
LEMMA DeltaSumAdds ==
  ASSUME NEW log \in Seq(ParityValue), NEW idx \in Seq(Nat), NEW n \in DOMAIN log
  PROVE  DeltaSum(log, Append(idx, n)) = DeltaSum(log, idx) (+) log[n]
<1> DEFINE A(x) == {j \in DOMAIN idx : x \in log[idx[j]]}
           B(x) == {j \in DOMAIN Append(idx, n) : x \in log[Append(idx, n)[j]]}
           end == Len(idx) + 1
<1>1. /\ Len(idx) \in Nat
      /\ DOMAIN idx = 1 .. Len(idx)
      /\ DOMAIN Append(idx, n) = 1 .. end
      /\ Append(idx, n)[end] = n
      /\ \A j \in 1 .. Len(idx) : Append(idx, n)[j] = idx[j]
  OBVIOUS
<1>2. \A x : /\ IsFiniteSet(A(x))
             /\ Cardinality(A(x)) \in Nat
             /\ end \notin A(x)
  <2> TAKE x
  <2>1. IsFiniteSet(1 .. Len(idx))
    BY <1>1, FS_Interval
  <2>2. A(x) \in SUBSET (1 .. Len(idx))
    BY <1>1
  <2>3. IsFiniteSet(A(x))
    BY <2>1, <2>2, FS_Subset
  <2>4. Cardinality(A(x)) \in Nat
    BY <2>3, FS_CardinalityType
  <2>5. end \notin 1 .. Len(idx)
    BY <1>1
  <2> QED BY <2>2, <2>3, <2>4, <2>5
<1>3. ASSUME NEW x \in Data \X Sym
      PROVE  Cardinality(B(x)) % 2 = 1 <=> (Cardinality(A(x)) % 2 = 1 <=> x \notin log[n])
  <2>1. CASE x \in log[n]
    <3>1. B(x) = A(x) \cup {end}
      BY <1>1, <2>1
    <3>2. IsFiniteSet(A(x)) /\ Cardinality(A(x)) \in Nat /\ end \notin A(x)
      BY <1>2
    <3> HIDE DEF A, B, end
    <3>3. Cardinality(B(x)) = Cardinality(A(x)) + 1
      BY <3>1, <3>2, FS_AddElement
    <3>4. ASSUME NEW m \in Nat
          PROVE  (m + 1) % 2 = 1 <=> m % 2 # 1
      OBVIOUS
    <3>5. Cardinality(B(x)) % 2 = 1 <=> Cardinality(A(x)) % 2 # 1
      BY <3>2, <3>3, <3>4
    <3> QED BY <2>1, <3>5
  <2>2. CASE x \notin log[n]
    <3>1. B(x) = A(x)
      BY <1>1, <2>2
    <3> QED BY <2>2, <3>1
  <2> QED BY <2>1, <2>2
<1>4. log[n] \subseteq Data \X Sym
  BY DEF ParityValue
<1>5. \A x \in Data \X Sym :
        x \in DeltaSum(log, Append(idx, n)) <=> x \in DeltaSum(log, idx) (+) log[n]
  <2> TAKE x \in Data \X Sym
  <2>1. x \in DeltaSum(log, idx) <=> Cardinality(A(x)) % 2 = 1
    BY DEF DeltaSum
  <2>2. x \in DeltaSum(log, Append(idx, n)) <=> Cardinality(B(x)) % 2 = 1
    BY DEF DeltaSum
  <2> HIDE DEF A, B
  <2> QED BY <1>3, <2>1, <2>2 DEF (+)
<1>6. /\ DeltaSum(log, Append(idx, n)) \subseteq Data \X Sym
      /\ DeltaSum(log, idx) (+) log[n] \subseteq Data \X Sym
  BY <1>4 DEF DeltaSum, (+)
<1> QED BY <1>5, <1>6

-----------------------------------------------------------------------------
(***************************************************************************)
(* Type correctness, for every discipline of the callers: it needs that    *)
(* vectors and the offsets held by writes point into the logs.             *)
(***************************************************************************)
TypeInv == TypeOK /\ RequestsKnown /\ IndexInLog /\ SpotsInLog

LEMMA TypeInit == Init => TypeInv
  BY DeltaLogAssumption
  DEF Init, TypeInv, TypeOK, RequestsKnown, IndexInLog, SpotsInLog, Writing,
      EmptyImage, NoIndex, NoShard, NoSeen, NoLeg, NoSpot, NoSlot, Legs,
      Value, ParityValue, Server

\* What the handlers read from the files and the logs has the right type.
LEMMA ContentTypes ==
  ASSUME TypeInv
  PROVE  /\ \A k \in Data, p \in Parts : Latest(k, p) \in Value
         /\ \A i \in Parity, p \in Parts : Current(i, p) \in ParityValue
         /\ \A p \in Parts : Row(p) \in [Data -> Value]
<1>1. ASSUME NEW k \in Data, NEW p \in Parts
      PROVE  Latest(k, p) \in Value
  <2>1. CASE dataIdx[k][p] = <<>>
    BY <2>1 DEF Latest, TypeInv, TypeOK
  <2>2. CASE dataIdx[k][p] # <<>>
    <3> DEFINE idx == dataIdx[k][p]
    <3>1. idx \in Seq(Nat) /\ dataLog[k] \in Seq(Value)
      BY DEF TypeInv, TypeOK
    <3>2. Len(idx) \in DOMAIN idx
      BY <2>2, <3>1, EmptySeq
    <3>3. idx[Len(idx)] \in DOMAIN dataLog[k]
      BY <3>2 DEF TypeInv, IndexInLog
    <3>4. dataLog[k][idx[Len(idx)]] \in Value
      BY <3>1, <3>3
    <3> QED BY <2>2, <3>4 DEF Latest
  <2> QED BY <2>1, <2>2
<1>2. ASSUME NEW i \in Parity, NEW p \in Parts
      PROVE  Current(i, p) \in ParityValue
  <2>1. parBin[i][p] \in ParityValue
    BY DEF TypeInv, TypeOK
  <2> QED BY <2>1, DeltaSumType, ParityAddType DEF Current
<1>3. \A p \in Parts : Row(p) \in [Data -> Value]
  BY <1>1 DEF Row
<1> QED BY <1>1, <1>2, <1>3

LEMMA DeltaTypes ==
  ASSUME TypeInv, NEW c \in Calls, pc[c] # "idle"
  PROVE  /\ req[c] \in Request
         /\ Delta(c) \in ParityValue
<1>1. req[c] \in Request
  BY DEF TypeInv, RequestsKnown
<1>2. shard[c][req[c].srv] \in Value /\ req[c].val \in Value /\ req[c].srv \in Data
  BY <1>1, RequestFields DEF TypeInv, TypeOK
<1> QED BY <1>1, <1>2, AddType, ScaleType DEF Delta

\* Creating and clearing the file, calls, merges and restarts.
LEMMA TypeManage ==
  ASSUME TypeInv,
         \/ \E image \in Images : Create(image)
         \/ Clear
         \/ \E c \in Calls, r \in Request : Call(c, r)
         \/ AskMerge
         \/ \E s \in Server : EndMerge(s) \/ Restart(s) \/ \E p \in Parts : Replay(s, p)
  PROVE  TypeInv'
<1> USE DEF TypeInv, TypeOK, RequestsKnown, IndexInLog, SpotsInLog, Writing,
            file, bins, logs, index, calls, work, merge
<1>1. ASSUME NEW image \in Images, Create(image)
      PROVE  TypeInv'
  <2>1. image \in [Data -> [Parts -> Value]]
    BY DeltaLogAssumption
  <2>2. parBin' \in [Parity -> [Parts -> ParityValue]]
    BY <1>1, EncodeType DEF Create
  <2> QED BY <1>1, <2>1, <2>2 DEF Create
<1>2. CASE Clear
  <2>1. /\ dataBin' \in [Data -> [Parts -> Value]]
        /\ parBin' \in [Parity -> [Parts -> ParityValue]]
        /\ dataLog' \in [Data -> Seq(Value)]
        /\ parLog' \in [Parity -> Seq(ParityValue)]
        /\ dataIdx' \in [Data -> [Parts -> Seq(Nat)]]
        /\ parIdx' \in [Parity -> [Parts -> Seq(Nat)]]
    BY <1>2 DEF Clear, EmptyImage, NoIndex, Value, ParityValue
  <2>2. /\ \A k \in Data, p \in Parts : DOMAIN dataIdx'[k][p] = {}
        /\ \A i \in Parity, p \in Parts : DOMAIN parIdx'[i][p] = {}
    BY <1>2 DEF Clear, NoIndex
  <2>3. \A c \in Calls : pc[c] # "run"
    BY <1>2 DEF Clear, Quiet, Idle, Active
  <2> QED BY <1>2, <2>1, <2>2, <2>3 DEF Clear
<1>3. ASSUME NEW c \in Calls, NEW r \in Request, Call(c, r)
      PROVE  TypeInv'
  BY <1>3 DEF Call
<1>4. CASE AskMerge
  BY <1>4 DEF AskMerge
<1>5. ASSUME NEW s \in Server, EndMerge(s) \/ Restart(s)
      PROVE  TypeInv'
  <2>1. /\ \E K \in SUBSET Data :
             dataIdx' = [k \in Data |-> IF k \in K THEN NoIndex ELSE dataIdx[k]]
        /\ \E I \in SUBSET Parity :
             parIdx' = [i \in Parity |-> IF i \in I THEN NoIndex ELSE parIdx[i]]
    <3>1. CASE EndMerge(s)
      <4> DEFINE I == {i \in Parity : i = s /\ scheme = "PARITY_LOG"}
      <4>1. parIdx' = [i \in Parity |-> IF i \in I THEN NoIndex ELSE parIdx[i]]
        BY <3>1 DEF EndMerge
      <4>2. dataIdx' = [k \in Data |-> IF k \in {s} \cap Data THEN NoIndex ELSE dataIdx[k]]
        BY <3>1 DEF EndMerge
      <4> QED BY <4>1, <4>2
    <3>2. CASE Restart(s)
      <4>1. parIdx' = [i \in Parity |-> IF i \in {s} \cap Parity THEN NoIndex ELSE parIdx[i]]
        BY <3>2 DEF Restart
      <4>2. dataIdx' = [k \in Data |-> IF k \in {s} \cap Data THEN NoIndex ELSE dataIdx[k]]
        BY <3>2 DEF Restart
      <4> QED BY <4>1, <4>2
    <3> QED BY <1>5, <3>1, <3>2
  <2>2. /\ NoIndex \in [Parts -> Seq(Nat)]
        /\ \A p \in Parts : DOMAIN NoIndex[p] = {}
    BY DEF NoIndex
  <2>3. /\ dataIdx' \in [Data -> [Parts -> Seq(Nat)]]
        /\ \A k \in Data : dataIdx'[k] = dataIdx[k] \/ dataIdx'[k] = NoIndex
    BY <2>1, <2>2
  <2>4. /\ parIdx' \in [Parity -> [Parts -> Seq(Nat)]]
        /\ \A i \in Parity : parIdx'[i] = parIdx[i] \/ parIdx'[i] = NoIndex
    BY <2>1, <2>2
  <2>5. /\ UNCHANGED <<scheme, phase, bins, logs, calls>>
        /\ merging' \in SUBSET Server
        /\ replay' \in [Server -> SUBSET Parts]
        /\ merges' \in Nat /\ restarts' \in Nat
    BY <1>5 DEF EndMerge, Restart
  <2>6. IndexInLog'
    BY <2>2, <2>3, <2>4, <2>5
  <2> QED BY <2>3, <2>4, <2>5, <2>6
<1>6. ASSUME NEW s \in Server, NEW p \in Parts, Replay(s, p)
      PROVE  TypeInv'
  <2>1. CASE s \in Data
    <3>1. Latest(s, p) \in Value
      BY <2>1, ContentTypes
    <3>2. UNCHANGED parBin /\ dataBin' = [dataBin EXCEPT ![s][p] = Latest(s, p)]
      BY <1>6, <2>1 DEF Replay
    <3>3. dataBin' \in [Data -> [Parts -> Value]]
      BY <2>1, <3>1, <3>2
    <3> QED BY <1>6, <3>2, <3>3 DEF Replay
  <2>2. CASE s \notin Data
    <3>1. s \in Parity /\ Current(s, p) \in ParityValue
      BY <2>2, ContentTypes DEF Server
    <3>2. UNCHANGED dataBin /\ parBin' = [parBin EXCEPT ![s][p] = Current(s, p)]
      BY <1>6, <2>2 DEF Replay
    <3>3. parBin' \in [Parity -> [Parts -> ParityValue]]
      BY <3>1, <3>2
    <3> QED BY <1>6, <3>2, <3>3 DEF Replay
  <2> QED BY <2>1, <2>2
<1> QED BY <1>1, <1>2, <1>3, <1>4, <1>5, <1>6

\* A thread of a write that works for server s disturbs no other offset.
LEMMA SpotsStep ==
  ASSUME TypeInv, NEW c \in Calls, NEW s \in Server, UNCHANGED <<pc, req>>,
         \A d \in Calls, t \in Server :
           d # c \/ t # s => leg'[d][t] = leg[d][t] /\ spot'[d][t] = spot[d][t],
         \A k \in Data : DOMAIN dataLog[k] \subseteq DOMAIN dataLog'[k],
         \A i \in Parity : DOMAIN parLog[i] \subseteq DOMAIN parLog'[i],
         s \in Data /\ leg'[c][s] = "logged" => spot'[c][s] \in DOMAIN dataLog'[s],
         s \in Parity /\ leg'[c][s] \in {"logged", "slotted"} =>
           spot'[c][s] \in DOMAIN parLog'[s]
  PROVE  SpotsInLog'
<1> SUFFICES ASSUME NEW d \in Calls, Writing(d)
             PROVE  /\ leg'[d][req[d].srv] = "logged" =>
                         spot'[d][req[d].srv] \in DOMAIN dataLog'[req[d].srv]
                    /\ \A i \in Parity : leg'[d][i] \in {"logged", "slotted"} =>
                         spot'[d][i] \in DOMAIN parLog'[i]
  BY DEF SpotsInLog, Writing
<1>1. req[d].srv \in Data /\ req[d].srv \in Server /\ Parity \subseteq Server
  BY RequestFields DEF Writing, TypeInv, RequestsKnown, Server
<1>2. /\ leg[d][req[d].srv] = "logged" =>
           spot[d][req[d].srv] \in DOMAIN dataLog[req[d].srv]
      /\ \A i \in Parity : leg[d][i] \in {"logged", "slotted"} =>
           spot[d][i] \in DOMAIN parLog[i]
  BY DEF TypeInv, SpotsInLog
<1> QED BY <1>1, <1>2, StripeAssumption

\* The steps of the code that serves one call.
LEMMA TypeServe ==
  ASSUME TypeInv, NEW c \in Calls, Serve(c)
  PROVE  TypeInv'
<1> USE DEF TypeInv, TypeOK, RequestsKnown, IndexInLog, SpotsInLog, Writing,
            file, bins, logs, index, merge
<1>1. CASE ServeRead(c)
  <2>1. req[c] \in Request
    BY <1>1 DEF ServeRead
  <2>2. Latest(req[c].srv, req[c].part) \in Value
    BY <2>1, RequestFields, ContentTypes
  <2>3. Scale(req[c].srv, Latest(req[c].srv, req[c].part)) \in ParityValue
    BY <2>1, <2>2, RequestFields, ScaleType
  <2> QED BY <1>1, <2>3 DEF ServeRead, work
<1>2. CASE AcceptWrite(c)
  <2>1. req[c] \in Request
    BY <1>2 DEF AcceptWrite
  <2>2. Latest(req[c].srv, req[c].part) \in Value
    BY <2>1, RequestFields, ContentTypes
  <2>3. /\ leg' \in [Calls -> [Server -> Legs]]
        /\ \A s \in Server : leg'[c][s] \notin {"logged", "slotted"}
        /\ \A d \in Calls \ {c} : leg'[d] = leg[d] /\ pc'[d] = pc[d]
    BY <1>2 DEF AcceptWrite, Legs
  <2>4. req[c].srv \in Server /\ Parity \subseteq Server
    BY <2>1, RequestFields DEF Server
  <2>5. SpotsInLog'
    <3>1. UNCHANGED <<req, spot, dataLog, parLog>>
      BY <1>2 DEF AcceptWrite
    <3>2. ASSUME NEW d \in Calls, pc'[d] = "run", req[d].op = "write"
          PROVE  /\ leg'[d][req[d].srv] = "logged" =>
                      spot[d][req[d].srv] \in DOMAIN dataLog[req[d].srv]
                 /\ \A i \in Parity : leg'[d][i] \in {"logged", "slotted"} =>
                      spot[d][i] \in DOMAIN parLog[i]
      <4>1. CASE d = c
        BY <2>3, <2>4, <4>1
      <4>2. CASE d # c
        BY <2>3, <3>2, <4>2
      <4> QED BY <4>1, <4>2
    <3> HIDE DEF TypeInv, TypeOK, RequestsKnown, IndexInLog
    <3> QED BY <3>1, <3>2
  <2> QED BY <1>2, <2>1, <2>2, <2>3, <2>5 DEF AcceptWrite
<1>3. CASE WriteChunk(c)
  <2>1. req[c] \in Request
    BY <1>3 DEF WriteChunk
  <2>2. dataBin' \in [Data -> [Parts -> Value]]
    BY <1>3, <2>1, RequestFields DEF WriteChunk
  <2>3. leg' \in [Calls -> [Server -> Legs]]
    BY <1>3 DEF WriteChunk, Legs
  <2>4. SpotsInLog'
    <3>1. req[c].srv \in Server /\ req[c].srv \notin Parity
      BY <2>1, RequestFields, StripeAssumption
    <3>2. \A d \in Calls, t \in Server : d # c \/ t # req[c].srv =>
            leg'[d][t] = leg[d][t] /\ spot'[d][t] = spot[d][t]
      BY <1>3, <3>1 DEF WriteChunk
    <3>3. leg'[c][req[c].srv] = "done" /\ UNCHANGED <<pc, req, dataLog, parLog>>
      BY <1>3, <3>1 DEF WriteChunk
    <3> HIDE DEF TypeInv, SpotsInLog
    <3> QED BY <3>1, <3>2, <3>3, SpotsStep
  <2> QED BY <1>3, <2>2, <2>3, <2>4 DEF WriteChunk
<1>4. CASE LogData(c)
  <2>1. req[c] \in Request
    BY <1>4 DEF LogData
  <2> DEFINE k == req[c].srv
  <2>2. k \in Data /\ k \in Server /\ k \notin Parity /\ req[c].val \in Value
    BY <2>1, RequestFields, StripeAssumption
  <2>3. /\ dataLog' \in [Data -> Seq(Value)]
        /\ \A j \in Data : DOMAIN dataLog[j] \subseteq DOMAIN dataLog'[j]
        /\ Len(dataLog[k]) + 1 \in DOMAIN dataLog'[k]
        /\ Len(dataLog[k]) + 1 \in Nat
    BY <1>4, <2>2 DEF LogData
  <2>4. /\ spot' = [spot EXCEPT ![c][k] = Len(dataLog[k]) + 1]
        /\ leg' = [leg EXCEPT ![c][k] = "logged"]
        /\ UNCHANGED <<file, bins, parLog, index, pc, req, shard, seen, slot>>
        /\ UNCHANGED <<result, merge, restarts>>
    BY <1>4 DEF LogData
  <2> HIDE DEF k
  <2>5. leg' \in [Calls -> [Server -> Legs]] /\ spot' \in [Calls -> [Server -> Nat]]
    BY <2>2, <2>3, <2>4 DEF Legs
  <2>6. IndexInLog'
    BY <2>3, <2>4
  <2>7. SpotsInLog'
    <3>1. \A d \in Calls, t \in Server : d # c \/ t # k =>
            leg'[d][t] = leg[d][t] /\ spot'[d][t] = spot[d][t]
      BY <2>2, <2>4
    <3>2. spot'[c][k] = Len(dataLog[k]) + 1
      BY <2>2, <2>4
    <3> HIDE DEF TypeInv, SpotsInLog
    <3> QED BY <2>2, <2>3, <2>4, <3>1, <3>2, SpotsStep
  <2> QED BY <2>3, <2>4, <2>5, <2>6, <2>7
<1>5. CASE RecordData(c)
  <2>1. req[c] \in Request
    BY <1>5 DEF RecordData
  <2> DEFINE k == req[c].srv
             p == req[c].part
             x == spot[c][k]
  <2>2. k \in Data /\ k \in Server /\ k \notin Parity /\ p \in Parts
    BY <2>1, RequestFields, StripeAssumption
  <2>3. x \in Nat /\ x \in DOMAIN dataLog[k]
    <3>1. Writing(c) /\ leg[c][k] = "logged" /\ SpotsInLog
      BY <1>5 DEF RecordData
    <3> HIDE DEF IndexInLog, RequestsKnown
    <3> QED BY <2>2, <3>1
  <2>4. /\ dataIdx' = [dataIdx EXCEPT ![k][p] = Append(@, x)]
        /\ leg' = [leg EXCEPT ![c][k] = "done"]
        /\ UNCHANGED <<file, bins, logs, parIdx, pc, req, shard, seen, spot, slot>>
        /\ UNCHANGED <<result, merge, restarts>>
    BY <1>5 DEF RecordData
  <2>5. leg' \in [Calls -> [Server -> Legs]] /\ SpotsInLog'
    BY <2>2, <2>4 DEF Legs
  <2> HIDE DEF k, p, x
  <2>6. /\ Append(dataIdx[k][p], x) \in Seq(Nat)
        /\ \A j \in DOMAIN Append(dataIdx[k][p], x) :
             Append(dataIdx[k][p], x)[j] \in DOMAIN dataLog[k]
    BY <2>2, <2>3
  <2>7. dataIdx' \in [Data -> [Parts -> Seq(Nat)]]
    BY <2>2, <2>4, <2>6
  <2>8. IndexInLog'
    <3>1. ASSUME NEW j \in Data, NEW q \in Parts
          PROVE  dataIdx'[j][q] = IF j = k /\ q = p THEN Append(dataIdx[k][p], x)
                                  ELSE dataIdx[j][q]
      BY <2>2, <2>4
    <3> QED BY <2>4, <2>6, <3>1
  <2> QED BY <2>4, <2>5, <2>7, <2>8
<1>6. ASSUME NEW i \in Parity, LogDelta(c, i)
      PROVE  TypeInv'
  <2>1. req[c] \in Request /\ Delta(c) \in ParityValue
    BY <1>6, DeltaTypes DEF LogDelta
  <2>2. i \in Server /\ i \notin Data /\ req[c].srv \in Data
    BY <2>1, RequestFields, StripeAssumption DEF Server
  <2>3. /\ parLog' \in [Parity -> Seq(ParityValue)]
        /\ \A j \in Parity : DOMAIN parLog[j] \subseteq DOMAIN parLog'[j]
        /\ Len(parLog[i]) + 1 \in DOMAIN parLog'[i]
        /\ Len(parLog[i]) + 1 \in Nat
    BY <1>6, <2>1 DEF LogDelta
  <2>4. /\ spot' = [spot EXCEPT ![c][i] = Len(parLog[i]) + 1]
        /\ leg' = [leg EXCEPT ![c][i] = "logged"]
        /\ UNCHANGED <<file, bins, dataLog, index, pc, req, shard, seen, slot>>
        /\ UNCHANGED <<result, merge, restarts>>
    BY <1>6 DEF LogDelta
  <2>5. leg' \in [Calls -> [Server -> Legs]] /\ spot' \in [Calls -> [Server -> Nat]]
    BY <2>2, <2>3, <2>4 DEF Legs
  <2>6. IndexInLog'
    BY <2>3, <2>4
  <2>7. SpotsInLog'
    <3>1. \A d \in Calls, t \in Server : d # c \/ t # i =>
            leg'[d][t] = leg[d][t] /\ spot'[d][t] = spot[d][t]
      BY <2>2, <2>4
    <3>2. spot'[c][i] = Len(parLog[i]) + 1
      BY <2>2, <2>4
    <3> HIDE DEF TypeInv, SpotsInLog
    <3> QED BY <2>2, <2>3, <2>4, <3>1, <3>2, SpotsStep
  <2> QED BY <2>3, <2>4, <2>5, <2>6, <2>7
<1>7. ASSUME NEW i \in Parity, ReadSize(c, i)
      PROVE  TypeInv'
  <2>1. req[c] \in Request
    BY <1>7 DEF ReadSize
  <2>2. i \in Server /\ i \notin Data /\ req[c].srv \in Data /\ req[c].part \in Parts
    BY <2>1, RequestFields, StripeAssumption DEF Server
  <2>3. /\ slot' = [slot EXCEPT ![c][i] = Len(parIdx[i][req[c].part])]
        /\ leg' = [leg EXCEPT ![c][i] = "slotted"]
        /\ UNCHANGED <<file, bins, logs, index, pc, req, shard, seen, spot>>
        /\ UNCHANGED <<result, merge, restarts>>
    BY <1>7 DEF ReadSize
  <2>4. leg' \in [Calls -> [Server -> Legs]] /\ slot' \in [Calls -> [Parity -> Nat]]
    BY <2>2, <2>3 DEF Legs
  <2>5. SpotsInLog'
    <3>1. \A d \in Calls, t \in Server : d # c \/ t # i =>
            leg'[d][t] = leg[d][t] /\ spot'[d][t] = spot[d][t]
      BY <2>2, <2>3
    <3>2. spot'[c][i] \in DOMAIN parLog'[i]
      BY <1>7, <2>3 DEF ReadSize
    <3> HIDE DEF TypeInv, SpotsInLog
    <3> QED BY <2>2, <2>3, <3>1, <3>2, SpotsStep
  <2> QED BY <2>3, <2>4, <2>5
<1>8. ASSUME NEW i \in Parity, RecordDelta(c, i)
      PROVE  TypeInv'
  <2>1. req[c] \in Request
    BY <1>8 DEF RecordDelta
  <2> DEFINE p == req[c].part
             x == spot[c][i]
             new == PushBack(parIdx[i][p], slot[c][i], x)
  <2>2. i \in Server /\ i \notin Data /\ req[c].srv \in Data /\ p \in Parts
    BY <2>1, RequestFields, StripeAssumption DEF Server
  <2>3. x \in Nat /\ x \in DOMAIN parLog[i] /\ slot[c][i] \in Nat
    BY <1>8, <2>2 DEF RecordDelta
  <2>4. /\ parIdx' = [parIdx EXCEPT ![i][p] = new]
        /\ leg' = [leg EXCEPT ![c][i] = "done"]
        /\ UNCHANGED <<file, bins, logs, dataIdx, pc, req, shard, seen, spot, slot>>
        /\ UNCHANGED <<result, merge, restarts>>
    BY <1>8, <2>2 DEF RecordDelta
  <2>5. leg' \in [Calls -> [Server -> Legs]] /\ SpotsInLog'
    BY <2>2, <2>4 DEF Legs
  <2> HIDE DEF p, x
  <2>6. /\ new \in Seq(Nat)
        /\ \A j \in DOMAIN new : new[j] \in DOMAIN parLog[i]
    <3>1. parIdx[i][p] \in Seq(Nat)
      BY <2>2
    <3>2. \A j \in DOMAIN new : new[j] = x \/ \E l \in DOMAIN parIdx[i][p] : new[j] = parIdx[i][p][l]
      BY <2>3, <3>1, PushBackType
    <3>3. new \in Seq(Nat)
      BY <2>3, <3>1, PushBackType
    <3>4. \A l \in DOMAIN parIdx[i][p] : parIdx[i][p][l] \in DOMAIN parLog[i]
      BY <2>2
    <3> QED BY <2>3, <3>2, <3>3, <3>4
  <2> HIDE DEF new
  <2>7. parIdx' \in [Parity -> [Parts -> Seq(Nat)]]
    BY <2>2, <2>4, <2>6
  <2>8. IndexInLog'
    <3>1. ASSUME NEW j \in Parity, NEW q \in Parts
          PROVE  parIdx'[j][q] = IF j = i /\ q = p THEN new ELSE parIdx[j][q]
      BY <2>2, <2>4
    <3> QED BY <2>4, <2>6, <3>1
  <2> QED BY <2>4, <2>5, <2>7, <2>8
<1>9. CASE ReplyWrite(c)
  <2>1. UNCHANGED <<file, bins, logs, index, req, seen, result, merge, restarts>>
    BY <1>9 DEF ReplyWrite
  <2>2. /\ leg' \in [Calls -> [Server -> Legs]]
        /\ shard' \in [Calls -> [Data -> Value]]
        /\ spot' \in [Calls -> [Server -> Nat]]
        /\ slot' \in [Calls -> [Parity -> Nat]]
        /\ pc' \in [Calls -> {"idle", "called", "run", "done"}]
    BY <1>9 DEF ReplyWrite, NoLeg, NoShard, NoSpot, NoSlot, Legs, Value
  <2>3. SpotsInLog'
    BY <1>9 DEF ReplyWrite
  <2> QED BY <1>9, <2>1, <2>2, <2>3 DEF ReplyWrite
<1>10. CASE AcceptRepair(c)
  <2>1. leg' \in [Calls -> [Server -> Legs]]
    BY <1>10 DEF AcceptRepair, Legs
  <2> QED BY <1>10, <2>1 DEF AcceptRepair
<1>11. ASSUME NEW k \in Data, ShardRead(c, k)
       PROVE  TypeInv'
  <2>1. req[c] \in Request
    BY <1>11 DEF ShardRead, Repairing
  <2>2. Latest(k, req[c].part) \in Value
    BY <2>1, RequestFields, ContentTypes
  <2>3. /\ leg' \in [Calls -> [Server -> Legs]]
        /\ shard' \in [Calls -> [Data -> Value]]
    BY <1>11, <2>2 DEF ShardRead, Legs
  <2> QED BY <1>11, <2>3 DEF ShardRead, Repairing
<1>12. ASSUME NEW i \in Parity, BaseRead(c, i) \/ DeltasRead(c, i)
       PROVE  TypeInv'
  <2>1. req[c] \in Request
    BY <1>12 DEF BaseRead, DeltasRead, Repairing
  <2>2. parBin[i][req[c].part] \in ParityValue
    BY <2>1, RequestFields
  <2>3. seen[c][i] (+) DeltaSum(parLog[i], parIdx[i][req[c].part]) \in ParityValue
    BY DeltaSumType, ParityAddType
  <2>4. leg' \in [Calls -> [Server -> Legs]]
    <3>1. leg' = [leg EXCEPT ![c][i] = "read"] \/ leg' = [leg EXCEPT ![c][i] = "done"]
      <4>1. CASE BaseRead(c, i)
        BY <4>1 DEF BaseRead
      <4>2. CASE DeltasRead(c, i)
        BY <4>2 DEF DeltasRead
      <4> QED BY <1>12, <4>1, <4>2
    <3>2. i \in Server
      BY DEF Server
    <3>3. CASE leg' = [leg EXCEPT ![c][i] = "read"]
      BY <3>2, <3>3 DEF Legs
    <3>4. CASE leg' = [leg EXCEPT ![c][i] = "done"]
      BY <3>2, <3>4 DEF Legs
    <3> QED BY <3>1, <3>3, <3>4
  <2>5. seen' \in [Calls -> [Parity -> ParityValue]]
    <3>1. \E v \in ParityValue : seen' = [seen EXCEPT ![c][i] = v]
      BY <1>12, <2>2, <2>3 DEF BaseRead, DeltasRead
    <3> QED BY <3>1
  <2>6. CASE BaseRead(c, i)
    BY <2>4, <2>5, <2>6 DEF BaseRead, Repairing
  <2>7. CASE DeltasRead(c, i)
    BY <2>4, <2>5, <2>7 DEF DeltasRead, Repairing
  <2> QED BY <1>12, <2>6, <2>7
<1>13. CASE ReplyRepair(c)
  <2>1. req[c] \in Request
    BY <1>13 DEF ReplyRepair, Repairing
  <2>2. Decode(req[c].srv, shard[c], seen[c][FirstParity]) \in ParityValue
    BY <2>1, RequestFields, DecodeType, StripeAssumption
  <2>3. /\ leg' \in [Calls -> [Server -> Legs]]
        /\ shard' \in [Calls -> [Data -> Value]]
        /\ seen' \in [Calls -> [Parity -> ParityValue]]
    BY <1>13 DEF ReplyRepair, NoLeg, NoShard, NoSeen, Legs, Value, ParityValue
  <2> QED BY <1>13, <2>2, <2>3 DEF ReplyRepair, Repairing
<1> QED BY <1>1, <1>2, <1>3, <1>4, <1>5, <1>6, <1>7, <1>8, <1>9, <1>10, <1>11, <1>12, <1>13
        DEF Serve

LEMMA TypeStep == TypeInv /\ [Next]_vars => TypeInv'
<1>1. TypeInv /\ UNCHANGED vars => TypeInv'
  BY DEF vars, file, bins, logs, index, calls, work, merge, TypeInv, TypeOK,
     RequestsKnown, IndexInLog, SpotsInLog, Writing
<1> QED BY <1>1, TypeManage, TypeServe DEF Next

\* Whatever callers let overlap and whenever servers restart, the variables
\* keep their types, and every offset a vector or a write holds is the place of
\* a record in the log.
THEOREM TypeCorrect == Spec => [](TypeOK /\ IndexInLog)
<1>1. TypeInv => TypeOK /\ IndexInLog
  BY DEF TypeInv
<1> QED BY TypeInit, TypeStep, <1>1, PTL DEF Spec

-----------------------------------------------------------------------------
(***************************************************************************)
(* The invariant of careful callers.                                       *)
(***************************************************************************)

\* Callers keep what shares a vector apart, restart servers with empty vectors
\* and clear a file before they create it again.
Careful == Discipline = "apart" /\ RestartWhen = "merged" /\ ~Recreate

\* Contents of other parts stay: logs only grow, and vectors point into them.
LEMMA LatestFrame ==
  ASSUME TypeInv, NEW k \in Data, NEW p \in Parts,
         dataBin'[k][p] = dataBin[k][p], dataIdx'[k][p] = dataIdx[k][p],
         \A n \in DOMAIN dataLog[k] : dataLog'[k][n] = dataLog[k][n]
  PROVE  Latest(k, p)' = Latest(k, p)
<1>1. dataIdx[k][p] \in Seq(Nat)
  BY DEF TypeInv, TypeOK
<1>2. CASE dataIdx[k][p] = <<>>
  BY <1>2 DEF Latest
<1>3. CASE dataIdx[k][p] # <<>>
  <2>1. Len(dataIdx[k][p]) \in DOMAIN dataIdx[k][p]
    BY <1>1, <1>3, EmptySeq
  <2>2. dataIdx[k][p][Len(dataIdx[k][p])] \in DOMAIN dataLog[k]
    BY <2>1 DEF TypeInv, IndexInLog
  <2> QED BY <1>3, <2>2 DEF Latest
<1> QED BY <1>2, <1>3

LEMMA CurrentFrame ==
  ASSUME TypeInv, NEW i \in Parity, NEW p \in Parts,
         parBin'[i][p] = parBin[i][p], parIdx'[i][p] = parIdx[i][p],
         \/ parLog'[i] = parLog[i]
         \/ \E v \in ParityValue : parLog'[i] = Append(parLog[i], v)
  PROVE  Current(i, p)' = Current(i, p)
<1>1. parLog[i] \in Seq(ParityValue) /\ parIdx[i][p] \in Seq(Nat)
  BY DEF TypeInv, TypeOK
<1>2. \A j \in DOMAIN parIdx[i][p] : parIdx[i][p][j] \in DOMAIN parLog[i]
  BY DEF TypeInv, IndexInLog
<1>3. DeltaSum(parLog'[i], parIdx[i][p]) = DeltaSum(parLog[i], parIdx[i][p])
  BY <1>1, <1>2, DeltaSumLogged
<1> QED BY <1>3 DEF Current

\* What serving one call leaves alone.
LEMMA ServeFrame ==
  ASSUME TypeInv, NEW c \in Calls, Serve(c)
  PROVE  /\ UNCHANGED <<file, req, merge, restarts>>
         /\ Active(c) /\ pc'[c] \in {"run", "done"}
         /\ \A d \in Calls \ {c} :
              /\ pc'[d] = pc[d] /\ leg'[d] = leg[d] /\ shard'[d] = shard[d]
              /\ seen'[d] = seen[d] /\ spot'[d] = spot[d] /\ slot'[d] = slot[d]
<1> USE DEF TypeInv, TypeOK, file, merge, work, Active, Writing, Repairing
<1>1. CASE ServeRead(c)
  BY <1>1 DEF ServeRead
<1>2. CASE AcceptWrite(c)
  BY <1>2 DEF AcceptWrite
<1>3. CASE WriteChunk(c)
  BY <1>3 DEF WriteChunk
<1>4. CASE LogData(c)
  BY <1>4 DEF LogData
<1>5. CASE RecordData(c)
  BY <1>5 DEF RecordData
<1>6. CASE ReplyWrite(c)
  BY <1>6 DEF ReplyWrite
<1>7. CASE \E i \in Parity : LogDelta(c, i)
  BY <1>7 DEF LogDelta
<1>8. CASE \E i \in Parity : ReadSize(c, i)
  BY <1>8 DEF ReadSize
<1>9. CASE \E i \in Parity : RecordDelta(c, i)
  BY <1>9 DEF RecordDelta
<1>10. CASE AcceptRepair(c)
  BY <1>10 DEF AcceptRepair
<1>11. CASE ReplyRepair(c)
  BY <1>11 DEF ReplyRepair
<1>12. CASE \E k \in Data : ShardRead(c, k)
  BY <1>12 DEF ShardRead
<1>13. CASE \E i \in Parity : BaseRead(c, i)
  BY <1>13 DEF BaseRead
<1>14. CASE \E i \in Parity : DeltasRead(c, i)
  BY <1>14 DEF DeltasRead
<1> QED BY <1>1, <1>2, <1>3, <1>4, <1>5, <1>6, <1>7, <1>8, <1>9, <1>10, <1>11, <1>12, <1>13,
           <1>14 DEF Serve

\* Which steps change the files, the logs and the vectors.
LEMMA ServeFiles ==
  ASSUME NEW c \in Calls, Serve(c)
  PROVE  \/ WriteChunk(c) /\ UNCHANGED <<parBin, logs, index>>
         \/ LogData(c) /\ UNCHANGED <<bins, parLog, index>>
         \/ RecordData(c) /\ UNCHANGED <<bins, logs, parIdx>>
         \/ \E i \in Parity : LogDelta(c, i) /\ UNCHANGED <<bins, dataLog, index>>
         \/ \E i \in Parity : RecordDelta(c, i) /\ UNCHANGED <<bins, logs, dataIdx>>
         \/ UNCHANGED <<bins, logs, index>>
  BY DEF Serve, ServeRead, AcceptWrite, WriteChunk, LogData, RecordData, ReplyWrite,
     LogDelta, ReadSize, RecordDelta, AcceptRepair, ReplyRepair, ShardRead, BaseRead,
     DeltasRead, bins, logs, index

\* Logs only grow.
LEMMA ServeRecords ==
  ASSUME TypeInv, NEW c \in Calls, Serve(c)
  PROVE  /\ \A k \in Data : \A n \in DOMAIN dataLog[k] :
              n \in DOMAIN dataLog'[k] /\ dataLog'[k][n] = dataLog[k][n]
         /\ \A i \in Parity : \A n \in DOMAIN parLog[i] :
              n \in DOMAIN parLog'[i] /\ parLog'[i][n] = parLog[i][n]
         /\ \A i \in Parity :
              parLog'[i] = parLog[i] \/ \E v \in ParityValue : parLog'[i] = Append(parLog[i], v)
<1> USE DEF TypeInv, TypeOK, logs
<1>1. CASE LogData(c)
  <2>1. /\ req[c] \in Request /\ UNCHANGED parLog
        /\ dataLog' = [dataLog EXCEPT ![req[c].srv] = Append(@, req[c].val)]
    BY <1>1 DEF LogData, Writing, RequestsKnown
  <2>2. req[c].srv \in Data /\ req[c].val \in Value
    BY <2>1, RequestFields
  <2> QED BY <2>1, <2>2
<1>2. ASSUME NEW j \in Parity, LogDelta(c, j)
      PROVE  /\ UNCHANGED dataLog
             /\ \A i \in Parity : parLog'[i] = parLog[i]
                  \/ \E v \in ParityValue : parLog'[i] = Append(parLog[i], v)
  <2>1. /\ UNCHANGED dataLog
        /\ parLog' = [parLog EXCEPT ![j] = Append(@, Delta(c))] /\ pc[c] # "idle"
    BY <1>2 DEF LogDelta, Writing
  <2>2. Delta(c) \in ParityValue
    BY <2>1, DeltaTypes
  <2> QED BY <2>1, <2>2
<1>3. CASE ~LogData(c) /\ ~\E j \in Parity : LogDelta(c, j)
  BY <1>3, ServeFiles
<1>4. ASSUME NEW j \in Parity, LogDelta(c, j)
      PROVE  /\ \A k \in Data : \A n \in DOMAIN dataLog[k] :
                  n \in DOMAIN dataLog'[k] /\ dataLog'[k][n] = dataLog[k][n]
             /\ \A i \in Parity : \A n \in DOMAIN parLog[i] :
                  n \in DOMAIN parLog'[i] /\ parLog'[i][n] = parLog[i][n]
  <2>1. /\ UNCHANGED dataLog
        /\ \A i \in Parity : parLog'[i] = parLog[i]
             \/ \E v \in ParityValue : parLog'[i] = Append(parLog[i], v)
    BY <1>2, <1>4
  <2>2. ASSUME NEW i \in Parity, NEW n \in DOMAIN parLog[i]
        PROVE  n \in DOMAIN parLog'[i] /\ parLog'[i][n] = parLog[i][n]
    <3>1. parLog[i] \in Seq(ParityValue)
      OBVIOUS
    <3> HIDE DEF TypeInv
    <3> QED BY SMTT(30), <2>1, <2>2, <3>1
  <2> QED BY <2>1, <2>2
<1> HIDE DEF TypeInv
<1> QED BY <1>1, <1>2, <1>3, <1>4

\* The vectors of the parity servers change where RecordDelta says.
LEMMA ServeVectors ==
  ASSUME TypeInv, NEW c \in Calls, Serve(c), NEW i \in Parity, NEW p \in Parts,
         RecordDelta(c, i) => req[c].part # p
  PROVE  parIdx'[i][p] = parIdx[i][p]
<1> USE DEF TypeInv, TypeOK, index
<1>1. ASSUME NEW j \in Parity, RecordDelta(c, j)
      PROVE  parIdx'[i][p] = parIdx[i][p]
  <2>1. \E x : parIdx' = [parIdx EXCEPT ![j][req[c].part] = x]
    BY <1>1 DEF RecordDelta
  <2>2. j # i \/ req[c].part # p
    BY <1>1
  <2> QED BY <2>1, <2>2
<1>2. CASE ~\E j \in Parity : RecordDelta(c, j)
  <2>1. UNCHANGED parIdx
    BY <1>2, ServeFiles
  <2> QED BY <2>1
<1> QED BY <1>1, <1>2

LEMMA ServeLatest ==
  ASSUME TypeInv, NEW c \in Calls, Serve(c), NEW k \in Data, NEW p \in Parts,
         WriteChunk(c) \/ RecordData(c) => req[c].srv # k \/ req[c].part # p
  PROVE  Latest(k, p)' = Latest(k, p)
<1> USE DEF TypeInv, TypeOK, bins, index
<1>1. dataBin'[k][p] = dataBin[k][p]
  <2>1. CASE WriteChunk(c)
    <3>1. dataBin' = [dataBin EXCEPT ![req[c].srv][req[c].part] = req[c].val]
      BY <2>1 DEF WriteChunk
    <3>2. req[c].srv # k \/ req[c].part # p
      BY <2>1
    <3> QED BY <3>1, <3>2
  <2>2. CASE ~WriteChunk(c)
    <3>1. UNCHANGED dataBin
      BY <2>2, ServeFiles
    <3> QED BY <3>1
  <2> QED BY <2>1, <2>2
<1>2. dataIdx'[k][p] = dataIdx[k][p]
  <2>1. CASE RecordData(c)
    <3>1. \E x : dataIdx' = [dataIdx EXCEPT ![req[c].srv][req[c].part] = x]
      BY <2>1 DEF RecordData
    <3>2. req[c].srv # k \/ req[c].part # p
      BY <2>1
    <3> QED BY <3>1, <3>2
  <2>2. CASE ~RecordData(c)
    <3>1. UNCHANGED dataIdx
      BY <2>2, ServeFiles
    <3> QED BY <3>1
  <2> QED BY <2>1, <2>2
<1> HIDE DEF TypeInv
<1> QED BY <1>1, <1>2, ServeRecords, LatestFrame

LEMMA ServeCurrent ==
  ASSUME TypeInv, NEW c \in Calls, Serve(c), NEW i \in Parity, NEW p \in Parts,
         RecordDelta(c, i) => req[c].part # p
  PROVE  Current(i, p)' = Current(i, p)
<1>1. parBin'[i][p] = parBin[i][p]
  BY ServeFiles DEF bins
<1> QED BY <1>1, ServeVectors, ServeRecords, CurrentFrame

LEMMA LogInvType == LogInv => TypeInv
<1> SUFFICES ASSUME LogInv PROVE SpotsInLog
  BY DEF LogInv, TypeInv
<1> QED BY DEF LogInv, WritesInPlace, SpotsInLog

LEMMA LogInvInit == Init => LogInv
<1> SUFFICES ASSUME Init PROVE LogInv
  OBVIOUS
<1>1. TypeInv
  BY TypeInit
<1>2. \A c \in Calls : pc[c] = "idle"
  BY DEF Init
<1>3. /\ \A s \in Server : replay[s] = {}
      /\ phase = "absent" /\ merging = {}
      /\ \A k \in Data : dataIdx[k] = NoIndex
      /\ \A i \in Parity : parIdx[i] = NoIndex
  BY DEF Init
<1> QED BY <1>1, <1>2, <1>3
        DEF LogInv, TypeInv, Exclusion, NothingLeft, DataVectors, Settled, WritesInPlace,
            RepairsInPlace, RepairsUnmerged, Quiet, Idle, Active, Writing, Repairing

\* Serving a call excludes merges and the removal of the file.
LEMMA Serving ==
  ASSUME LogInv, NEW c \in Calls, Active(c)
  PROVE  phase = "live" /\ merging = {}
  BY DEF LogInv, TypeOK, Exclusion, Quiet, Idle

\* The steps that serve no call are taken while no call is active, and change
\* the state of no call; a client's call changes nothing but that.
LEMMA ManageFrame ==
  ASSUME Careful, LogInv,
         \/ \E image \in Images : Create(image)
         \/ Clear \/ AskMerge
         \/ \E s \in Server : EndMerge(s) \/ Restart(s) \/ \E p \in Parts : Replay(s, p)
  PROVE  Idle /\ UNCHANGED <<scheme, calls>>
<1> USE DEF Careful, LogInv, Exclusion, Quiet, file
<1>1. CASE Clear \/ \E image \in Images : Create(image)
  BY <1>1 DEF Clear, Create
<1>2. CASE AskMerge
  BY <1>2 DEF AskMerge
<1>3. ASSUME NEW s \in Server, EndMerge(s)
      PROVE  Idle /\ UNCHANGED <<scheme, calls>>
  BY <1>3 DEF EndMerge
<1>4. ASSUME NEW s \in Server, Restart(s)
      PROVE  Idle /\ UNCHANGED <<scheme, calls>>
  BY <1>4 DEF Restart
<1>5. ASSUME NEW s \in Server, NEW p \in Parts, Replay(s, p)
      PROVE  Idle /\ UNCHANGED <<scheme, calls>>
  <2>1. s \in merging
    BY <1>5 DEF Replay
  <2> QED BY <1>5, <2>1 DEF Replay
<1> QED BY <1>1, <1>2, <1>3, <1>4, <1>5

LEMMA IdleKept ==
  ASSUME Idle, UNCHANGED calls
  PROVE  Idle' /\ \A c \in Calls : ~Active(c)' /\ ~Writing(c)' /\ ~Repairing(c)'
  BY DEF Idle, Active, Writing, Repairing, calls

LEMMA ExclusionStep ==
  ASSUME Careful, LogInv, Next
  PROVE  Exclusion'
<1> USE DEF LogInv, Exclusion, Quiet
<1>1. ASSUME NEW c \in Calls, NEW r \in Request, Call(c, r)
      PROVE  Exclusion'
  <2>1. merging = {} /\ phase = "live"
    BY <1>1 DEF Call, Careful
  <2>2. /\ UNCHANGED <<file, merging, replay>>
        /\ req' = [req EXCEPT ![c] = r] /\ pc' = [pc EXCEPT ![c] = "called"]
        /\ ~Active(c)
        /\ \A d \in Calls : Active(d) => Compatible(r, req[d])
    BY <1>1 DEF Call, merge, Active
  <2>3. \A d \in Calls : Active(d) => Compatible(req[d], r)
    BY <2>2 DEF Compatible
  <2>4. ASSUME NEW d \in Calls, NEW e \in Calls, d # e, Active(d)', Active(e)'
        PROVE  Compatible(req[d], req[e])'
    <3>1. /\ req'[d] = IF d = c THEN r ELSE req[d]
          /\ req'[e] = IF e = c THEN r ELSE req[e]
          /\ d # c => Active(d)
          /\ e # c => Active(e)
      BY <2>2, <2>4 DEF Active, TypeOK
    <3>2. Compatible(IF d = c THEN r ELSE req[d], IF e = c THEN r ELSE req[e])
      BY <2>2, <2>3, <2>4, <3>1
    <3> QED BY <2>2, <3>1, <3>2 DEF Compatible, file
  <2> QED BY <2>1, <2>2, <2>4 DEF file
<1>2. ASSUME NEW c \in Calls, Serve(c)
      PROVE  Exclusion'
  <2>1. /\ UNCHANGED <<file, req, merge>> /\ Active(c)
        /\ \A d \in Calls : Active(d)' => Active(d)
    BY <1>2, LogInvType, ServeFrame DEF Active
  <2>2. phase = "live" /\ merging = {}
    BY <2>1, Serving
  <2> QED BY <2>1, <2>2 DEF file, merge, Compatible
<1>3. CASE \/ \E image \in Images : Create(image)
           \/ Clear \/ AskMerge
           \/ \E s \in Server : EndMerge(s) \/ Restart(s) \/ \E p \in Parts : Replay(s, p)
  <2>1. Idle' /\ \A c \in Calls : ~Active(c)'
    BY <1>3, ManageFrame, IdleKept
  <2>2. /\ phase' # "live" => merging' = {}
        /\ merging' # {} => merges' > 0
    BY <1>3 DEF Create, Clear, AskMerge, EndMerge, Restart, Replay, file, merge, TypeOK
  <2>3. \A s \in Server : s \notin merging' => replay'[s] = {}
    BY <1>3 DEF Create, Clear, AskMerge, EndMerge, Restart, Replay, file, merge, TypeOK
  <2> QED BY <2>1, <2>2, <2>3
<1> QED BY <1>1, <1>2, <1>3 DEF Next

LEMMA VectorsStep ==
  ASSUME Careful, LogInv, Next
  PROVE  NothingLeft' /\ DataVectors' /\ RepairsUnmerged'
<1> USE DEF LogInv, NothingLeft, DataVectors, RepairsUnmerged
<1>1. ASSUME NEW c \in Calls, NEW r \in Request, Call(c, r)
      PROVE  NothingLeft' /\ DataVectors' /\ RepairsUnmerged'
  <2>1. UNCHANGED <<file, index, merge>> /\ phase = "live"
    BY <1>1 DEF Call
  <2>2. RepairsUnmerged'
    BY <1>1 DEF Call, Active, Unmerged, file, merge, TypeOK
  <2> QED BY <2>1, <2>2 DEF file, index, merge
<1>2. ASSUME NEW c \in Calls, Serve(c)
      PROVE  NothingLeft' /\ DataVectors' /\ RepairsUnmerged'
  <2>1. UNCHANGED <<file, req, merge>> /\ Active(c) /\ \A d \in Calls : Active(d)' => Active(d)
    BY <1>2, LogInvType, ServeFrame DEF Active
  <2>2. phase = "live"
    BY <2>1, Serving
  <2>3. scheme = "PARITY_LOG" => UNCHANGED dataIdx
    BY <1>2, ServeFiles DEF RecordData, WritesInPlace, index
  <2> QED BY <2>1, <2>2, <2>3 DEF file, merge, Unmerged
<1>3. CASE \/ \E image \in Images : Create(image)
           \/ Clear \/ AskMerge
           \/ \E s \in Server : EndMerge(s) \/ Restart(s) \/ \E p \in Parts : Replay(s, p)
  <2>1. \A c \in Calls : ~Active(c)'
    BY <1>3, ManageFrame, IdleKept
  <2>2. UNCHANGED scheme
    BY <1>3, ManageFrame
  <2>3. CASE \/ \E image \in Images : Create(image)
             \/ Clear \/ AskMerge
             \/ \E s \in Server, p \in Parts : Replay(s, p)
    BY <2>1, <2>2, <2>3 DEF Create, Clear, AskMerge, Replay, file, index
  <2>4. ASSUME NEW s \in Server, EndMerge(s) \/ Restart(s)
        PROVE  NothingLeft' /\ DataVectors' /\ RepairsUnmerged'
    <3>1. /\ \A k \in Data : dataIdx'[k] = dataIdx[k] \/ dataIdx'[k] = NoIndex
          /\ \A i \in Parity : parIdx'[i] = parIdx[i] \/ parIdx'[i] = NoIndex
          /\ UNCHANGED file
      BY <2>4 DEF EndMerge, Restart
    <3> QED BY <2>1, <3>1 DEF file
  <2> QED BY <1>3, <2>3, <2>4
<1> QED BY <1>1, <1>2, <1>3 DEF Next

\* A write, and a write or degraded read at the same time, are of different
\* parts and different data servers.
LEMMA Apart ==
  ASSUME Careful, LogInv, NEW c \in Calls, NEW d \in Calls, c # d,
         Active(c), req[c].op = "write", Active(d), req[d].op # "read"
  PROVE  req[c].srv # req[d].srv /\ req[c].part # req[d].part
  BY DEF Careful, LogInv, Exclusion, Compatible

LEMMA AddNothing ==
  ASSUME NEW a
  PROVE  a (+) {} = a
  BY DEF (+)

\* A part without vectors is what user_data.bin holds.
LEMMA NoVectors ==
  /\ \A k \in Data, p \in Parts : dataIdx[k] = NoIndex => Latest(k, p) = dataBin[k][p]
  /\ \A i \in Parity, p \in Parts : parIdx[i] = NoIndex => Current(i, p) = parBin[i][p]
  /\ \A k \in Data, p \in Parts : dataIdx'[k] = NoIndex => Latest(k, p)' = dataBin'[k][p]
  /\ \A i \in Parity, p \in Parts : parIdx'[i] = NoIndex => Current(i, p)' = parBin'[i][p]
  BY DeltaSumEmpty, AddNothing DEF NoIndex, Latest, Current

LEMMA SettledServe ==
  ASSUME Careful, LogInv, NEW c \in Calls, Serve(c)
  PROVE  Settled'
<1>1. TypeInv
  BY LogInvType
<1>2. /\ UNCHANGED <<file, req, merge>> /\ Active(c)
      /\ \A d \in Calls \ {c} : pc'[d] = pc[d]
  BY <1>1, ServeFrame
<1>3. phase = "live" /\ merging = {} /\ merging' = {}
  BY <1>2, Serving DEF merge
<1> SUFFICES ASSUME Unmerged', NEW i \in Parity, NEW p \in Parts,
                    ~\E d \in Calls : (Writing(d) /\ req[d].part = p)'
             PROVE  Current(i, p)' = Encode(Row(p)')
  BY <1>3 DEF Settled, Writing, Row
<1>4. Unmerged
  BY <1>2 DEF Unmerged, file, merge
<1>5. \A d \in Calls \ {c} : ~(Writing(d) /\ req[d].part = p)
  BY <1>2 DEF Writing
<1>6. CASE Writing(c) /\ req[c].part = p
  <2>1. ReplyWrite(c)
    <3>1. ~Writing(c)'
      BY <1>2, <1>6
    <3>2. /\ ~ServeRead(c) /\ ~AcceptWrite(c) /\ ~AcceptRepair(c) /\ ~ReplyRepair(c)
          /\ ~\E k \in Data : ShardRead(c, k)
          /\ ~\E j \in Parity : BaseRead(c, j) \/ DeltasRead(c, j)
      BY <1>6 DEF ServeRead, AcceptWrite, AcceptRepair, ReplyRepair, ShardRead, BaseRead,
         DeltasRead, Writing, Repairing
    <3>3. /\ ~WriteChunk(c) /\ ~LogData(c) /\ ~RecordData(c)
          /\ ~\E j \in Parity : LogDelta(c, j) \/ ReadSize(c, j) \/ RecordDelta(c, j)
      BY <3>1 DEF WriteChunk, LogData, RecordData, LogDelta, ReadSize, RecordDelta, Writing
    <3> QED BY <3>2, <3>3 DEF Serve
  <2>2. /\ UNCHANGED <<bins, logs, index>>
        /\ leg[c][i] = "done" /\ leg[c][req[c].srv] = "done"
    BY <2>1 DEF ReplyWrite
  <2>3. req[c] \in Request
    BY <1>6 DEF LogInv, RequestsKnown, Writing
  <2>4. /\ Latest(req[c].srv, p) = req[c].val
        /\ Current(i, p) = Encode(RowHeld(c, i))
        /\ RowHeld(c, i) = [Row(p) EXCEPT ![req[c].srv] = req[c].val]
    BY <1>4, <1>6, <2>2 DEF LogInv, WritesInPlace, Held, RowHeld
  <2>5. RowHeld(c, i) = Row(p)
    BY <2>3, <2>4, RequestFields DEF Row
  <2> QED BY <2>2, <2>4, <2>5 DEF bins, logs, index, Current, Row, Latest
<1>7. CASE ~(Writing(c) /\ req[c].part = p)
  <2>1. Current(i, p) = Encode(Row(p))
    BY <1>3, <1>4, <1>5, <1>7 DEF LogInv, Settled
  <2>2. Current(i, p)' = Current(i, p)
    BY <1>1, <1>7, ServeCurrent DEF RecordDelta
  <2>3. \A k \in Data : Latest(k, p)' = Latest(k, p)
    BY <1>1, <1>7, ServeLatest DEF WriteChunk, RecordData
  <2> QED BY <2>1, <2>2, <2>3 DEF Row
<1> QED BY <1>6, <1>7

LEMMA SettledManage ==
  ASSUME Careful, LogInv,
         \/ \E image \in Images : Create(image)
         \/ Clear \/ AskMerge
         \/ \E s \in Server : EndMerge(s) \/ Restart(s) \/ \E p \in Parts : Replay(s, p)
  PROVE  Settled'
<1> USE DEF LogInv, TypeOK
<1>1. \A d \in Calls : ~Writing(d) /\ ~Writing(d)'
  BY ManageFrame, IdleKept DEF Idle, Active, Writing
<1>2. UNCHANGED scheme
  BY ManageFrame
<1>3. Unmerged' => Unmerged
  BY <1>2 DEF Unmerged, Create, Clear, AskMerge, EndMerge, Restart, Replay, merge
<1>4. ASSUME NEW image \in Images, Create(image)
      PROVE  Settled'
  <2>1. phase = "absent" /\ merging = {} /\ merging' = {} /\ UNCHANGED <<logs, index>>
    BY <1>4 DEF Create, Careful, Quiet, merge
  <2>2. /\ \A k \in Data : dataIdx'[k] = NoIndex
        /\ \A i \in Parity : parIdx'[i] = NoIndex
    BY <2>1 DEF NothingLeft, index
  <2>3. /\ \A k \in Data, p \in Parts : Latest(k, p)' = image[k][p]
        /\ \A i \in Parity, p \in Parts :
             Current(i, p)' = Encode([k \in Data |-> image[k][p]])
    <3>1. /\ \A k \in Data, p \in Parts : Latest(k, p)' = dataBin'[k][p]
          /\ \A i \in Parity, p \in Parts : Current(i, p)' = parBin'[i][p]
      BY <2>2, NoVectors
    <3> QED BY <1>4, <3>1 DEF Create
  <2>4. \A p \in Parts : Row(p)' = [k \in Data |-> image[k][p]]
    BY <2>3 DEF Row
  <2> QED BY <2>1, <2>3, <2>4 DEF Settled
<1>5. CASE Clear
  BY <1>5 DEF Clear, Settled
<1>6. CASE AskMerge
  <2>1. /\ UNCHANGED <<file, bins, logs, index>>
        /\ phase = "live" /\ merging = {} /\ \A s \in Server : replay'[s] = Parts
    BY <1>6 DEF AskMerge
  <2>2. /\ \A k \in Data, p \in Parts : Latest(k, p)' = Latest(k, p)
        /\ \A i \in Parity, p \in Parts : Current(i, p)' = Current(i, p)
        /\ \A p \in Parts : Row(p)' = Row(p)
    BY <2>1 DEF Latest, Current, Row, bins, logs, index
  <2>3. Unmerged => \A i \in Parity, p \in Parts : Current(i, p) = Encode(Row(p))
    BY <1>1, <2>1 DEF Settled
  <2>4. Data \subseteq Server /\ Parity \subseteq Server
    BY DEF Server
  <2> QED BY <1>3, <2>1, <2>2, <2>3, <2>4 DEF Settled
<1>7. ASSUME NEW s \in Server, EndMerge(s)
      PROVE  Settled'
  <2>1. /\ UNCHANGED <<file, bins, logs, replay, merges>>
        /\ s \in merging /\ merging' = merging \ {s} /\ replay[s] = {}
        /\ dataIdx' = [k \in Data |-> IF k = s THEN NoIndex ELSE dataIdx[k]]
        /\ parIdx' = [i \in Parity |-> IF i = s /\ scheme = "PARITY_LOG"
                                       THEN NoIndex ELSE parIdx[i]]
    BY <1>7 DEF EndMerge
  <2>2. phase = "live"
    BY <2>1 DEF Exclusion, Quiet
  <2>3. ASSUME NEW k \in Data, NEW p \in Parts
        PROVE  Latest(k, p)' = Latest(k, p)
    <3>1. CASE k = s
      <4>1. dataBin[k][p] = Latest(k, p)
        BY <2>1, <2>2, <3>1 DEF Settled
      <4>2. Latest(k, p)' = dataBin'[k][p]
        BY <2>1, <3>1, NoVectors
      <4> QED BY <2>1, <4>1, <4>2 DEF bins
    <3>2. CASE k # s
      BY <2>1, <3>2 DEF Latest, bins, logs
    <3> QED BY <3>1, <3>2
  <2>4. \A p \in Parts : Row(p)' = Row(p)
    BY <2>3 DEF Row
  <2>5. ASSUME Unmerged', NEW i \in Parity, NEW p \in Parts
        PROVE  \/ /\ i \in merging' /\ p \notin replay'[i]
                  /\ parBin'[i][p] = Encode(Row(p))
               \/ /\ i \in merging' => p \in replay'[i]
                  /\ Current(i, p)' = Encode(Row(p))
    <3>1. Unmerged /\ (scheme = "PARITY_LOG" \/ merges = 0)
      BY <1>3, <2>5 DEF Unmerged
    <3>2. CASE i = s
      <4>1. scheme = "PARITY_LOG"
        BY <2>1, <3>1 DEF Exclusion
      <4>2. parBin[i][p] = Encode(Row(p))
        BY <1>1, <2>1, <2>2, <3>1, <3>2 DEF Settled
      <4>3. Current(i, p)' = parBin'[i][p]
        BY <2>1, <3>2, <4>1, NoVectors
      <4> QED BY <2>1, <3>2, <4>2, <4>3 DEF bins
    <3>3. CASE i # s
      <4>1. Current(i, p)' = Current(i, p)
        BY <2>1, <3>3 DEF Current, bins, logs
      <4> QED BY <1>1, <2>1, <2>2, <3>1, <3>3, <4>1 DEF Settled, bins
    <3> QED BY <3>2, <3>3
  <2>6. \A k \in Data, p \in Parts :
          k \in merging' /\ p \notin replay'[k] => dataBin'[k][p] = Latest(k, p)'
    BY <2>1, <2>2, <2>3 DEF Settled, bins
  <2> HIDE DEF LogInv
  <2> QED BY <2>4, <2>5, <2>6 DEF Settled
<1>8. ASSUME NEW s \in Server, Restart(s)
      PROVE  Settled'
  <2>1. UNCHANGED <<file, bins, logs, merge>>
    BY <1>8 DEF Restart
  <2>2. \A k \in Data : dataIdx'[k] = dataIdx[k]
    BY <1>8, StripeAssumption DEF Restart, Careful
  <2>3. \A i \in Parity : parIdx'[i] = parIdx[i]
    BY <1>8, StripeAssumption DEF Restart, Careful
  <2>4. /\ \A k \in Data, p \in Parts : Latest(k, p)' = Latest(k, p)
        /\ \A i \in Parity, p \in Parts : Current(i, p)' = Current(i, p)
        /\ \A p \in Parts : Row(p)' = Row(p)
    BY <2>1, <2>2, <2>3 DEF Latest, Current, Row, bins, logs
  <2> QED BY <1>1, <1>3, <2>1, <2>4 DEF Settled, file, merge, bins
<1>9. ASSUME NEW s \in Server, NEW q \in Parts, Replay(s, q)
      PROVE  Settled'
  <2>1. /\ UNCHANGED <<file, logs, index, merging, merges>>
        /\ q \in replay[s] /\ replay' = [replay EXCEPT ![s] = @ \ {q}]
    BY <1>9 DEF Replay
  <2>2. s \in merging /\ phase = "live"
    BY <2>1 DEF Exclusion, Quiet
  <2>3. ASSUME s \in Data
        PROVE  Settled'
    <3>1. UNCHANGED parBin /\ dataBin' = [dataBin EXCEPT ![s][q] = Latest(s, q)]
      BY <1>9, <2>3 DEF Replay
    <3>2. \A k \in Data, p \in Parts : Latest(k, p)' = Latest(k, p)
      BY <2>1, <2>3, <3>1 DEF Latest, logs, index
    <3>3. /\ \A i \in Parity, p \in Parts : Current(i, p)' = Current(i, p)
          /\ \A p \in Parts : Row(p)' = Row(p)
      BY <2>1, <3>1, <3>2 DEF Current, Row, logs, index
    <3>4. \A i \in Parity : i # s /\ replay'[i] = replay[i]
      BY <2>1, <2>3, StripeAssumption DEF Server
    <3>5. \A k \in Data, p \in Parts :
            k \in merging /\ p \notin replay'[k] => dataBin'[k][p] = Latest(k, p)
      BY <2>1, <2>2, <2>3, <3>1 DEF Settled, Server
    <3> QED BY <1>1, <1>3, <2>1, <2>2, <3>1, <3>2, <3>3, <3>4, <3>5 DEF Settled, file
  <2>4. ASSUME s \notin Data
        PROVE  Settled'
    <3>1. s \in Parity
      BY <2>4 DEF Server
    <3>2. UNCHANGED dataBin /\ parBin' = [parBin EXCEPT ![s][q] = Current(s, q)]
      BY <1>9, <2>4 DEF Replay
    <3>3. /\ \A k \in Data, p \in Parts : Latest(k, p)' = Latest(k, p)
          /\ \A p \in Parts : Row(p)' = Row(p)
      BY <2>1, <3>2 DEF Latest, Row, logs, index
    <3>4. \A k \in Data : replay'[k] = replay[k]
      BY <2>1, <2>4 DEF Server
    <3>5. ASSUME Unmerged', NEW i \in Parity, NEW p \in Parts
          PROVE  \/ /\ i \in merging' /\ p \notin replay'[i]
                    /\ parBin'[i][p] = Encode(Row(p))
                 \/ /\ i \in merging' => p \in replay'[i]
                    /\ Current(i, p)' = Encode(Row(p))
      <4>1. \/ /\ i \in merging /\ p \notin replay[i]
               /\ parBin[i][p] = Encode(Row(p))
            \/ /\ i \in merging => p \in replay[i]
               /\ Current(i, p) = Encode(Row(p))
        BY <1>1, <1>3, <2>2, <3>5 DEF Settled
      <4>2. CASE i = s /\ p = q
        <5>1. parBin'[i][p] = Current(i, p) /\ p \notin replay'[i]
          BY <2>1, <3>1, <3>2, <4>2
        <5> QED BY <2>1, <2>2, <4>1, <4>2, <5>1
      <4>3. CASE ~(i = s /\ p = q)
        <5>1. parBin'[i][p] = parBin[i][p] /\ (p \in replay'[i] <=> p \in replay[i])
          BY <2>1, <3>1, <3>2, <4>3 DEF Server
        <5>2. Current(i, p)' = Current(i, p)
          BY <2>1, <5>1 DEF Current, logs, index
        <5> QED BY <2>1, <4>1, <5>1, <5>2
      <4> QED BY <4>2, <4>3
    <3> QED BY <2>1, <2>2, <3>2, <3>3, <3>4, <3>5 DEF Settled, file
  <2> QED BY <2>3, <2>4
<1> QED BY <1>4, <1>5, <1>6, <1>7, <1>8, <1>9

-----------------------------------------------------------------------------
(***************************************************************************)
(* Writes in progress: what WritesInPlace says of the data server and of   *)
(* one parity server.                                                      *)
(***************************************************************************)
DataPart(c) ==
  LET k == req[c].srv
  IN /\ leg[c][k] \in {"todo", "logged", "done"}
     /\ leg[c][k] = "logged" => /\ scheme = "FULL_LOG"
                                /\ spot[c][k] \in DOMAIN dataLog[k]
                                /\ dataLog[k][spot[c][k]] = req[c].val
     /\ Latest(k, req[c].part) = Held(c, k)

ParityPart(c, i) ==
  /\ leg[c][i] \in {"todo", "logged", "slotted", "done"}
  /\ Unmerged => Current(i, req[c].part) = Encode(RowHeld(c, i))
  /\ leg[c][i] \in {"logged", "slotted"} =>
       /\ spot[c][i] \in DOMAIN parLog[i]
       /\ parLog[i][spot[c][i]] = Delta(c)
  /\ leg[c][i] = "slotted" => slot[c][i] = Len(parIdx[i][req[c].part])

LEMMA WritesParts ==
  WritesInPlace <=>
    \A c \in Calls : Writing(c) => DataPart(c) /\ \A i \in Parity : ParityPart(c, i)
  BY DEF WritesInPlace, DataPart, ParityPart

\* Serving a call disturbs no other write.
LEMMA WriteKept ==
  ASSUME Careful, LogInv, NEW c \in Calls, Serve(c), NEW d \in Calls, d # c, Writing(d)
  PROVE  DataPart(d)' /\ \A i \in Parity : ParityPart(d, i)'
<1>1. TypeInv
  BY LogInvType
<1>2. /\ UNCHANGED <<file, req, merge>> /\ Active(c)
      /\ leg'[d] = leg[d] /\ shard'[d] = shard[d]
      /\ spot'[d] = spot[d] /\ slot'[d] = slot[d]
  BY <1>1, ServeFrame
<1>3. DataPart(d) /\ \A i \in Parity : ParityPart(d, i)
  BY WritesParts DEF LogInv
<1>4. PICK k \in Data, p \in Parts : k = req[d].srv /\ p = req[d].part
  BY RequestFields DEF LogInv, RequestsKnown, Writing
<1>5. \/ req[c].part # p /\ req[c].srv # k
      \/ /\ ~WriteChunk(c) /\ ~RecordData(c)
         /\ ~\E i \in Parity : RecordDelta(c, i)
  <2>1. CASE req[c].op = "write"
    BY <1>2, <1>4, <2>1, Apart DEF Writing, Active
  <2>2. CASE req[c].op # "write"
    BY <2>2 DEF WriteChunk, RecordData, RecordDelta, Writing
  <2> QED BY <2>1, <2>2
<1>6. \A j \in Data : Latest(j, p)' = Latest(j, p)
  BY <1>1, <1>4, <1>5, ServeLatest
<1>7. \A i \in Parity : Current(i, p)' = Current(i, p) /\ parIdx'[i][p] = parIdx[i][p]
  BY <1>1, <1>4, <1>5, ServeCurrent, ServeVectors
<1>8. /\ \A s : Held(d, s)' = Held(d, s)
      /\ Delta(d)' = Delta(d)
      /\ Row(p)' = Row(p)
      /\ \A s : RowHeld(d, s)' = RowHeld(d, s)
      /\ Unmerged' <=> Unmerged
  BY <1>2, <1>4, <1>6 DEF Held, Delta, Row, RowHeld, Unmerged, file, merge
<1>9. /\ \A n \in DOMAIN dataLog[k] : n \in DOMAIN dataLog'[k] /\ dataLog'[k][n] = dataLog[k][n]
      /\ \A i \in Parity : \A n \in DOMAIN parLog[i] :
           n \in DOMAIN parLog'[i] /\ parLog'[i][n] = parLog[i][n]
  BY <1>1, <1>4, ServeRecords
<1>10. DataPart(d)'
  BY <1>2, <1>3, <1>4, <1>6, <1>8, <1>9 DEF DataPart, file
<1>11. \A i \in Parity : ParityPart(d, i)'
  BY <1>2, <1>3, <1>4, <1>7, <1>8, <1>9 DEF ParityPart
<1> QED BY <1>10, <1>11

\* A thread of a write that works for another server leaves parity server i as
\* it was.
LEMMA ParityKept ==
  ASSUME LogInv, NEW c \in Calls, Serve(c), Writing(c), NEW i \in Parity,
         leg'[c][i] = leg[c][i], spot'[c][i] = spot[c][i], slot'[c][i] = slot[c][i],
         shard'[c] = shard[c]
  PROVE  ParityPart(c, i)'
<1>1. TypeInv
  BY LogInvType
<1>2. UNCHANGED <<file, req, merge>>
  BY <1>1, ServeFrame
<1>3. ParityPart(c, i)
  BY WritesParts DEF LogInv
<1>4. PICK k \in Data, p \in Parts : k = req[c].srv /\ p = req[c].part
  BY RequestFields DEF LogInv, RequestsKnown, Writing
<1>5. Current(i, p)' = Current(i, p) /\ parIdx'[i][p] = parIdx[i][p]
  <2>1. ~RecordDelta(c, i)
    BY DEF RecordDelta, LogInv, TypeOK, Server
  <2> QED BY <1>1, <1>4, <2>1, ServeCurrent, ServeVectors
<1>6. Held(c, i)' = Held(c, i) /\ Delta(c)' = Delta(c) /\ (Unmerged' <=> Unmerged)
  BY <1>2 DEF Held, Delta, Unmerged, file, merge
<1>7. RowHeld(c, i)' = RowHeld(c, i)
  <2>1. \A j \in Data \ {k} : Latest(j, p)' = Latest(j, p)
    BY <1>1, <1>4, ServeLatest
  <2>2. RowHeld(c, i)' = [j \in Data |-> IF j = k THEN Held(c, i) ELSE Latest(j, p)']
    BY <1>2, <1>4, <1>6 DEF RowHeld, Row
  <2>3. RowHeld(c, i) = [j \in Data |-> IF j = k THEN Held(c, i) ELSE Latest(j, p)]
    BY <1>4 DEF RowHeld, Row
  <2> QED BY <2>1, <2>2, <2>3
<1>8. \A n \in DOMAIN parLog[i] : n \in DOMAIN parLog'[i] /\ parLog'[i][n] = parLog[i][n]
  BY <1>1, ServeRecords
<1> QED BY <1>2, <1>3, <1>4, <1>5, <1>6, <1>7, <1>8 DEF ParityPart

LEMMA AddAssociates ==
  ASSUME NEW a, NEW b, NEW d
  PROVE  a (+) (b (+) d) = (a (+) b) (+) d
  BY DEF (+)

\* A handler that accepts a write finds its part at rest.
LEMMA WriteBegins ==
  ASSUME Careful, LogInv, NEW c \in Calls, AcceptWrite(c)
  PROVE  DataPart(c)' /\ \A i \in Parity : ParityPart(c, i)'
<1>1. /\ pc[c] = "called" /\ req[c].op = "write" /\ UNCHANGED <<file, bins, logs, index, req, merge>>
      /\ req[c] \in Request /\ Active(c)
  BY DEF AcceptWrite, Active, LogInv, RequestsKnown
<1>2. PICK k \in Data, p \in Parts : k = req[c].srv /\ p = req[c].part
  BY <1>1, RequestFields
<1>3. k \in Server /\ Parity \subseteq Server /\ Serve(c)
  BY <1>2 DEF Server, Serve
<1>4. /\ shard'[c][k] = Latest(k, p) /\ leg'[c][k] = "todo"
      /\ \A i \in Parity : leg'[c][i] = "todo"
  BY <1>2, <1>3 DEF AcceptWrite, LogInv, TypeOK
<1>5. merging = {} /\ phase = "live"
  BY <1>1, Serving
<1>6. ~\E d \in Calls : Writing(d) /\ req[d].part = p
  <2> SUFFICES ASSUME NEW d \in Calls, Writing(d), req[d].part = p PROVE FALSE
    OBVIOUS
  <2>1. d # c
    BY <1>1 DEF Writing
  <2> QED BY <1>1, <1>2, <2>1, Apart DEF Writing, Active
<1>7. Unmerged => \A i \in Parity : Current(i, p) = Encode(Row(p))
  BY <1>5, <1>6 DEF LogInv, Settled
<1>8. /\ \A j \in Data : Latest(j, p)' = Latest(j, p)
      /\ \A i \in Parity : Current(i, p)' = Current(i, p)
      /\ Row(p)' = Row(p)
      /\ Unmerged' <=> Unmerged
  BY <1>1 DEF Latest, Current, Row, Unmerged, bins, logs, index, file, merge
<1>9. \A s : leg'[c][s] = "todo" => Held(c, s)' = Latest(k, p)
  BY <1>1, <1>2, <1>4 DEF Held
<1>10. \A i \in Parity : RowHeld(c, i)' = Row(p)
  <2> TAKE i \in Parity
  <2>1. Held(c, i)' = Latest(k, p)
    BY <1>4, <1>9
  <2>2. RowHeld(c, i)' = [Row(p)' EXCEPT ![k] = Held(c, i)']
    BY <1>1, <1>2 DEF RowHeld, Row
  <2> QED BY <1>2, <1>8, <2>1, <2>2 DEF Row
<1>11. DataPart(c)'
  BY <1>1, <1>2, <1>4, <1>8, <1>9 DEF DataPart
<1>12. \A i \in Parity : ParityPart(c, i)'
  BY <1>1, <1>2, <1>4, <1>7, <1>8, <1>10 DEF ParityPart
<1> QED BY <1>11, <1>12

\* The threads of a write leave what WritesInPlace says.
LEMMA WriteThreads ==
  ASSUME LogInv, NEW c \in Calls, Serve(c), Writing(c), Writing(c)'
  PROVE  DataPart(c)' /\ \A i \in Parity : ParityPart(c, i)'
<1>1. TypeInv /\ TypeOK
  BY LogInvType DEF TypeInv
<1>2. UNCHANGED <<file, req, merge>> /\ req' = req /\ scheme' = scheme
  BY <1>1, ServeFrame DEF file
<1>3. DataPart(c) /\ \A i \in Parity : ParityPart(c, i)
  BY WritesParts DEF LogInv
<1>4. req[c] \in Request
  BY DEF LogInv, RequestsKnown, Writing
<1>5. PICK k \in Data, p \in Parts : k = req[c].srv /\ p = req[c].part
  BY <1>4, RequestFields
<1>6. /\ k \in Server /\ k \notin Parity /\ Parity \subseteq Server
      /\ req[c].val \in Value /\ shard[c][k] \in Value
  BY <1>4, <1>5, RequestFields, StripeAssumption, <1>1 DEF TypeOK, Server
<1>7. CASE WriteChunk(c)
  <2>1. /\ scheme = "PARITY_LOG" /\ UNCHANGED <<parBin, logs, index, shard, spot, slot>>
        /\ dataBin' = [dataBin EXCEPT ![k][p] = req[c].val]
        /\ leg' = [leg EXCEPT ![c][k] = "done"]
    BY <1>5, <1>7 DEF WriteChunk
  <2>2. leg'[c][k] = "done" /\ \A i \in Parity : leg'[c][i] = leg[c][i]
    BY <1>1, <1>6, <2>1 DEF TypeOK
  <2>3. dataIdx'[k] = NoIndex
    BY <2>1 DEF LogInv, DataVectors, index
  <2>4. Latest(k, p)' = req[c].val
    BY <1>1, <2>1, <2>3, NoVectors DEF TypeOK
  <2>5. DataPart(c)'
    <3>1. Held(c, k)' = req[c].val
      BY <1>2, <2>2 DEF Held
    <3> QED BY <1>2, <1>5, <2>2, <2>4, <3>1 DEF DataPart
  <2>7. \A i \in Parity : ParityPart(c, i)'
    BY <2>1, <2>2, ParityKept
  <2> QED BY <2>5, <2>7
<1>8. CASE LogData(c)
  <2>1. /\ scheme = "FULL_LOG" /\ UNCHANGED <<bins, parLog, index, shard, slot>>
        /\ dataLog' = [dataLog EXCEPT ![k] = Append(@, req[c].val)]
        /\ spot' = [spot EXCEPT ![c][k] = Len(dataLog[k]) + 1]
        /\ leg' = [leg EXCEPT ![c][k] = "logged"] /\ leg[c][k] = "todo"
    BY <1>5, <1>8 DEF LogData
  <2>2. /\ \A i \in Parity : leg'[c][i] = leg[c][i] /\ spot'[c][i] = spot[c][i]
        /\ leg'[c][k] = "logged" /\ spot'[c][k] = Len(dataLog[k]) + 1
    BY <1>1, <1>6, <2>1 DEF TypeOK
  <2>3. /\ Len(dataLog[k]) + 1 \in DOMAIN dataLog'[k]
        /\ dataLog'[k][Len(dataLog[k]) + 1] = req[c].val
    BY <1>1, <1>6, <2>1 DEF TypeOK
  <2>4. Latest(k, p)' = Latest(k, p)
    BY <1>1, <1>5, <2>1, ServeLatest DEF WriteChunk, RecordData
  <2>5. Held(c, k)' = Held(c, k)
    BY <1>2, <2>1, <2>2 DEF Held
  <2>6. DataPart(c)'
    BY <1>2, <1>3, <1>5, <2>1, <2>2, <2>3, <2>4, <2>5 DEF DataPart
  <2>8. \A i \in Parity : ParityPart(c, i)'
    BY <2>1, <2>2, ParityKept
  <2> QED BY <2>6, <2>8
<1>9. CASE RecordData(c)
  <2>1. /\ UNCHANGED <<bins, logs, parIdx, shard, spot, slot>>
        /\ dataIdx' = [dataIdx EXCEPT ![k][p] = Append(@, spot[c][k])]
        /\ leg' = [leg EXCEPT ![c][k] = "done"] /\ leg[c][k] = "logged"
    BY <1>5, <1>9 DEF RecordData
  <2>2. /\ \A i \in Parity : leg'[c][i] = leg[c][i]
        /\ leg'[c][k] = "done"
    BY <1>1, <1>6, <2>1 DEF TypeOK
  <2>3. dataLog[k][spot[c][k]] = req[c].val
    BY <1>3, <1>5, <2>1 DEF DataPart
  <2>4. /\ dataIdx'[k][p] # <<>>
        /\ dataIdx'[k][p][Len(dataIdx'[k][p])] = spot[c][k]
    <3>1. /\ dataIdx'[k][p] = Append(dataIdx[k][p], spot[c][k])
          /\ dataIdx[k][p] \in Seq(Nat) /\ spot[c][k] \in Nat
      BY <1>1, <1>6, <2>1 DEF TypeOK
    <3> QED BY <3>1, AppendProperties
  <2>5. Latest(k, p)' = req[c].val
    BY <2>1, <2>3, <2>4 DEF Latest, logs
  <2>6. DataPart(c)'
    <3>1. Held(c, k)' = req[c].val
      BY <1>2, <2>2 DEF Held
    <3> QED BY <1>2, <1>5, <2>2, <2>5, <3>1 DEF DataPart
  <2>8. \A i \in Parity : ParityPart(c, i)'
    BY <2>1, <2>2, ParityKept
  <2> QED BY <2>6, <2>8
<1>10. ASSUME NEW i \in Parity, LogDelta(c, i) \/ ReadSize(c, i) \/ RecordDelta(c, i)
       PROVE  DataPart(c)' /\ \A j \in Parity : ParityPart(c, j)'
  <2>1. /\ UNCHANGED <<bins, dataLog, dataIdx, shard>>
        /\ \A s \in Server \ {i} : /\ leg'[c][s] = leg[c][s]
                                   /\ spot'[c][s] = spot[c][s]
        /\ \A j \in Parity \ {i} : slot'[c][j] = slot[c][j]
    <3>1. CASE LogDelta(c, i)
      BY <1>1, <3>1 DEF LogDelta, TypeOK, index
    <3>2. CASE ReadSize(c, i)
      BY <1>1, <3>2 DEF ReadSize, TypeOK, logs, index
    <3>3. CASE RecordDelta(c, i)
      BY <1>1, <3>3 DEF RecordDelta, TypeOK, logs
    <3> QED BY <1>10, <3>1, <3>2, <3>3
  <2>2. DataPart(c)'
    <3>1. Latest(k, p)' = Latest(k, p) /\ Held(c, k)' = Held(c, k)
      BY <1>2, <1>6, <2>1 DEF Latest, Held, bins
    <3>2. leg'[c][k] = leg[c][k] /\ spot'[c][k] = spot[c][k] /\ dataLog'[k] = dataLog[k]
      BY <1>6, <2>1
    <3> QED BY <1>2, <1>3, <1>5, <3>1, <3>2 DEF DataPart
  <2>3. \A j \in Parity \ {i} : ParityPart(c, j)'
    <3>1. \A j \in Parity \ {i} : /\ leg'[c][j] = leg[c][j] /\ spot'[c][j] = spot[c][j]
                                  /\ slot'[c][j] = slot[c][j]
      BY <1>6, <2>1
    <3> QED BY <2>1, <3>1, ParityKept
  <2>4. PICK v \in Value : v = shard[c][k]
    BY <1>6
  <2>5. /\ Unmerged' <=> Unmerged
        /\ Delta(c) = Scale(k, req[c].val (+) v)
        /\ Delta(c)' = Delta(c)
    BY <1>2, <1>5, <2>1, <2>4 DEF Unmerged, Delta, file, merge
  <2>6. \A j \in Data : Latest(j, p)' = Latest(j, p)
    BY <2>1 DEF Latest, bins
  <2>7. Row(p)' = Row(p) /\ Row(p) \in [Data -> Value]
    BY <1>1, <1>5, <2>6, ContentTypes DEF Row
  <2>8. /\ leg[c][i] # "done" => Held(c, i) = v
        /\ leg'[c][i] # "done" => Held(c, i)' = v
        /\ leg'[c][i] = "done" => Held(c, i)' = req[c].val
    BY <1>2, <1>5, <2>1, <2>4 DEF Held
  <2>9. /\ RowHeld(c, i) = [Row(p) EXCEPT ![k] = Held(c, i)]
        /\ RowHeld(c, i)' = [Row(p) EXCEPT ![k] = Held(c, i)']
    BY <1>2, <1>5, <2>7 DEF RowHeld
  <2>10. ParityPart(c, i)'
    <3>1. CASE LogDelta(c, i)
      <4>1. /\ leg[c][i] = "todo" /\ leg'[c][i] = "logged"
            /\ spot'[c][i] = Len(parLog[i]) + 1
            /\ parLog'[i] = Append(parLog[i], Delta(c))
        BY <1>1, <1>6, <3>1 DEF LogDelta, TypeOK
      <4>2. parLog[i] \in Seq(ParityValue) /\ Delta(c) \in ParityValue
        BY <1>1, DeltaTypes DEF TypeOK, Writing
      <4>3. /\ spot'[c][i] \in DOMAIN parLog'[i]
            /\ parLog'[i][spot'[c][i]] = Delta(c)
        BY <4>1, <4>2
      <4>4. Current(i, p)' = Current(i, p)
        BY <1>1, <1>5, <4>1, ServeCurrent DEF RecordDelta
      <4>5. Unmerged => Current(i, p) = Encode(RowHeld(c, i))
        BY <1>3, <1>5 DEF ParityPart
      <4>6. RowHeld(c, i)' = RowHeld(c, i)
        BY <2>8, <2>9, <4>1
      <4> QED BY <1>2, <1>5, <2>5, <4>1, <4>3, <4>4, <4>5, <4>6 DEF ParityPart
    <3>2. CASE ReadSize(c, i)
      <4>1. /\ leg[c][i] = "logged" /\ leg'[c][i] = "slotted"
            /\ slot'[c][i] = Len(parIdx[i][p])
            /\ UNCHANGED <<parLog, parIdx, spot>>
        BY <1>1, <1>5, <1>6, <3>2 DEF ReadSize, TypeOK, logs, index
      <4>2. Current(i, p)' = Current(i, p)
        BY <1>1, <1>5, <4>1, ServeCurrent DEF RecordDelta
      <4>3. /\ Unmerged => Current(i, p) = Encode(RowHeld(c, i))
            /\ spot[c][i] \in DOMAIN parLog[i] /\ parLog[i][spot[c][i]] = Delta(c)
        BY <1>3, <1>5, <4>1 DEF ParityPart
      <4>4. RowHeld(c, i)' = RowHeld(c, i)
        BY <2>8, <2>9, <4>1
      <4> QED BY <1>2, <1>5, <2>5, <4>1, <4>2, <4>3, <4>4 DEF ParityPart
    <3>3. CASE RecordDelta(c, i)
      <4> DEFINE idx == parIdx[i][p]
                 n == spot[c][i]
      <4>1. /\ leg[c][i] = "slotted" /\ leg'[c][i] = "done"
            /\ UNCHANGED <<parLog, parBin>>
            /\ parIdx' = [parIdx EXCEPT ![i][p] = PushBack(idx, slot[c][i], n)]
        BY <1>1, <1>5, <1>6, <3>3 DEF RecordDelta, TypeOK, logs, bins
      <4>2. /\ idx \in Seq(Nat) /\ parLog[i] \in Seq(ParityValue)
            /\ parIdx'[i][p] = PushBack(idx, slot[c][i], n)
        BY <1>1, <1>5, <4>1 DEF TypeOK
      <4>3. /\ Unmerged => Current(i, p) = Encode(RowHeld(c, i))
            /\ n \in DOMAIN parLog[i] /\ parLog[i][n] = Delta(c)
            /\ slot[c][i] = Len(idx)
        BY <1>3, <1>5, <4>1 DEF ParityPart
      <4> HIDE DEF idx, n
      <4>4. parIdx'[i][p] = Append(idx, n)
        BY <4>2, <4>3, PushBackAppends
      <4>5. DeltaSum(parLog[i], Append(idx, n)) = DeltaSum(parLog[i], idx) (+) Delta(c)
        BY <4>2, <4>3, DeltaSumAdds
      <4>6. Current(i, p)' = Current(i, p) (+) Delta(c)
        <5>1. Current(i, p)' = parBin[i][p] (+) (DeltaSum(parLog[i], idx) (+) Delta(c))
          BY <4>1, <4>4, <4>5 DEF Current
        <5>2. Current(i, p) = parBin[i][p] (+) DeltaSum(parLog[i], idx)
          BY DEF Current, idx
        <5> QED BY <5>1, <5>2, AddAssociates
      <4>7. Unmerged => Current(i, p)' = Encode(RowHeld(c, i)')
        <5>1. /\ RowHeld(c, i) = [Row(p) EXCEPT ![k] = v]
              /\ RowHeld(c, i)' = [Row(p) EXCEPT ![k] = req[c].val]
          BY <2>8, <2>9, <4>1
        <5>2. Encode([Row(p) EXCEPT ![k] = v]) (+) Scale(k, req[c].val (+) v)
                = Encode([Row(p) EXCEPT ![k] = req[c].val])
          <6>1. PICK row \in [Data -> Value], new \in Value : row = Row(p) /\ new = req[c].val
            BY <1>6, <2>7
          <6>2. Encode([row EXCEPT ![k] = v]) (+) Scale(k, new (+) v)
                  = Encode([row EXCEPT ![k] = new])
            BY EncodeDelta
          <6> QED BY <6>1, <6>2
        <5> QED BY <2>5, <4>3, <4>6, <5>1, <5>2
      <4> QED BY <1>2, <1>5, <2>5, <4>1, <4>7 DEF ParityPart
    <3> QED BY <1>10, <3>1, <3>2, <3>3
  <2> QED BY <2>2, <2>3, <2>10
<1>11. ~AcceptWrite(c) /\ ~ServeRead(c) /\ ~AcceptRepair(c) /\ ~ReplyRepair(c) /\ ~ReplyWrite(c)
  BY <1>1 DEF AcceptWrite, ServeRead, AcceptRepair, ReplyRepair, ReplyWrite, Writing,
     Repairing, TypeOK
<1>12. /\ ~\E j \in Data : ShardRead(c, j)
       /\ ~\E j \in Parity : BaseRead(c, j) \/ DeltasRead(c, j)
  BY DEF ShardRead, BaseRead, DeltasRead, Writing, Repairing
<1> QED BY <1>7, <1>8, <1>9, <1>10, <1>11, <1>12 DEF Serve

LEMMA WritesStep ==
  ASSUME Careful, LogInv, Next
  PROVE  WritesInPlace'
<1> SUFFICES ASSUME NEW d \in Calls, Writing(d)'
             PROVE  DataPart(d)' /\ \A i \in Parity : ParityPart(d, i)'
  BY DEF WritesInPlace, DataPart, ParityPart
<1>1. ASSUME NEW c \in Calls, NEW r \in Request, Call(c, r)
      PROVE  DataPart(d)' /\ \A i \in Parity : ParityPart(d, i)'
  <2>1. /\ UNCHANGED <<file, bins, logs, index, work, merge>>
        /\ Writing(d) /\ req'[d] = req[d]
    BY <1>1 DEF Call, Writing, LogInv, TypeOK
  <2>2. DataPart(d) /\ \A i \in Parity : ParityPart(d, i)
    BY <2>1, WritesParts DEF LogInv
  <2>3. PICK q : q = req[d] /\ q = req'[d]
    BY <2>1
  <2>4. /\ \A k, p : Latest(k, p)' = Latest(k, p)
        /\ \A i, p : Current(i, p)' = Current(i, p)
        /\ \A p : Row(p)' = Row(p)
        /\ \A s : Held(d, s)' = Held(d, s)
        /\ Delta(d)' = Delta(d) /\ (Unmerged' <=> Unmerged)
    BY <2>1, <2>3 DEF Row, Held, Delta, Latest, Current, Unmerged, file, bins, logs, index,
       work, merge
  <2>5. \A s : RowHeld(d, s)' = RowHeld(d, s)
    BY <2>3, <2>4 DEF RowHeld
  <2>6. q.srv \in Data
    BY <2>1, <2>3, RequestFields DEF LogInv, RequestsKnown, Writing
  <2>7. DataPart(d)'
    BY <2>1, <2>2, <2>3, <2>4, <2>6 DEF DataPart, file, logs, work
  <2>8. \A i \in Parity : ParityPart(d, i)'
    BY <2>1, <2>2, <2>3, <2>4, <2>5 DEF ParityPart, logs, index, work
  <2> QED BY <2>7, <2>8
<1>2. ASSUME NEW c \in Calls, Serve(c)
      PROVE  DataPart(d)' /\ \A i \in Parity : ParityPart(d, i)'
  <2>1. /\ req' = req /\ Active(c)
        /\ d # c => pc'[d] = pc[d]
    BY <1>2, LogInvType, ServeFrame
  <2>2. CASE d # c
    BY <1>2, <2>1, <2>2, WriteKept DEF Writing
  <2>3. CASE d = c /\ pc[c] = "run"
    BY <1>2, <2>1, <2>3, WriteThreads DEF Writing
  <2>4. CASE d = c /\ pc[c] # "run"
    <3>1. AcceptWrite(c)
      BY <1>2, <2>1, <2>4 DEF Serve, ServeRead, AcceptRepair, WriteChunk, LogData, RecordData,
         ReplyWrite, LogDelta, ReadSize, RecordDelta, ReplyRepair, ShardRead, BaseRead,
         DeltasRead, Writing, Repairing, LogInv, TypeOK
    <3> QED BY <2>4, <3>1, WriteBegins
  <2> QED BY <2>2, <2>3, <2>4
<1>3. CASE \/ \E image \in Images : Create(image)
           \/ Clear \/ AskMerge
           \/ \E s \in Server : EndMerge(s) \/ Restart(s) \/ \E p \in Parts : Replay(s, p)
  BY <1>3, ManageFrame, IdleKept
<1> QED BY <1>1, <1>2, <1>3 DEF Next

-----------------------------------------------------------------------------
(***************************************************************************)
(* Degraded reads in progress.                                             *)
(***************************************************************************)
RepairPart(c) ==
  /\ \A j \in Data \ {req[c].srv} :
       leg[c][j] = "done" => shard[c][j] = Latest(j, req[c].part)
  /\ \A i \in Parity :
       /\ leg[c][i] = "read" => seen[c][i] = parBin[i][req[c].part]
       /\ leg[c][i] = "done" => seen[c][i] = Current(i, req[c].part)

LEMMA RepairsParts ==
  RepairsInPlace <=> \A c \in Calls : Repairing(c) => RepairPart(c)
  BY DEF RepairsInPlace, RepairPart

\* Serving another call leaves what a degraded read holds up to date.
LEMMA RepairKept ==
  ASSUME Careful, LogInv, NEW c \in Calls, Serve(c), NEW d \in Calls, d # c, Repairing(d)
  PROVE  RepairPart(d)'
<1>1. TypeInv
  BY LogInvType
<1>2. /\ req' = req /\ Active(c)
      /\ leg'[d] = leg[d] /\ shard'[d] = shard[d] /\ seen'[d] = seen[d]
  BY <1>1, ServeFrame
<1>3. RepairPart(d)
  BY RepairsParts DEF LogInv
<1>4. PICK p \in Parts : p = req[d].part
  BY RequestFields DEF LogInv, RequestsKnown, Repairing
<1>5. \/ req[c].part # p
      \/ /\ ~WriteChunk(c) /\ ~RecordData(c)
         /\ ~\E i \in Parity : RecordDelta(c, i)
  <2>1. CASE req[c].op = "write"
    BY <1>2, <1>4, <2>1, Apart DEF Repairing, Active
  <2>2. CASE req[c].op # "write"
    BY <2>2 DEF WriteChunk, RecordData, RecordDelta, Writing
  <2> QED BY <2>1, <2>2
<1>6. \A j \in Data : Latest(j, p)' = Latest(j, p)
  BY <1>1, <1>5, ServeLatest
<1>7. \A i \in Parity : Current(i, p)' = Current(i, p)
  BY <1>1, <1>5, ServeCurrent
<1>8. parBin' = parBin
  BY ServeFiles DEF bins
<1> QED BY <1>2, <1>3, <1>4, <1>6, <1>7, <1>8 DEF RepairPart

\* The threads of a degraded read.
LEMMA RepairThreads ==
  ASSUME LogInv, NEW c \in Calls, Serve(c), Repairing(c)'
  PROVE  RepairPart(c)'
<1>1. TypeOK /\ req' = req
  BY LogInvType, ServeFrame DEF LogInv
<1>2. PICK k \in Data, p \in Parts : k = req[c].srv /\ p = req[c].part
  <2>1. req[c] \in Request
    BY LogInvType, ServeFrame DEF LogInv, RequestsKnown, Active
  <2> QED BY <2>1, RequestFields
<1>3. Parity \subseteq Server /\ Data \subseteq Server /\ Data \cap Parity = {}
  BY StripeAssumption DEF Server
<1>4. CASE AcceptRepair(c)
  <2>1. \A s \in Server : leg'[c][s] \in {"none", "todo"}
    BY <1>1, <1>4 DEF AcceptRepair, TypeOK
  <2> QED BY <1>3, <2>1 DEF RepairPart
<1>5. ASSUME UNCHANGED <<bins, logs, index>>
      PROVE  /\ \A j \in Data : Latest(j, p)' = Latest(j, p)
             /\ \A i \in Parity : Current(i, p)' = Current(i, p) /\ parBin'[i][p] = parBin[i][p]
  BY <1>5 DEF Latest, Current, bins, logs, index
<1>6. ASSUME Repairing(c)
      PROVE  /\ \A j \in Data \ {k} : leg[c][j] = "done" => shard[c][j] = Latest(j, p)
             /\ \A i \in Parity : /\ leg[c][i] = "read" => seen[c][i] = parBin[i][p]
                                  /\ leg[c][i] = "done" => seen[c][i] = Current(i, p)
  BY <1>2, <1>6, RepairsParts DEF LogInv, RepairPart
<1>7. ASSUME NEW s \in Data, ShardRead(c, s)
      PROVE  RepairPart(c)'
  <2>1. /\ UNCHANGED <<bins, logs, index, seen>> /\ Repairing(c)
        /\ shard' = [shard EXCEPT ![c][s] = Latest(s, p)]
        /\ leg' = [leg EXCEPT ![c][s] = "done"]
    BY <1>2, <1>7 DEF ShardRead
  <2>2. /\ \A j \in Data : /\ shard'[c][j] = IF j = s THEN Latest(s, p) ELSE shard[c][j]
                           /\ leg'[c][j] = IF j = s THEN "done" ELSE leg[c][j]
        /\ \A i \in Parity : leg'[c][i] = leg[c][i]
    BY <1>1, <1>3, <2>1 DEF TypeOK
  <2> QED BY <1>1, <1>2, <1>5, <1>6, <2>1, <2>2 DEF RepairPart
<1>8. ASSUME NEW s \in Parity, BaseRead(c, s)
      PROVE  RepairPart(c)'
  <2>1. /\ UNCHANGED <<bins, logs, index, shard>> /\ Repairing(c)
        /\ seen' = [seen EXCEPT ![c][s] = parBin[s][p]]
        /\ leg' = [leg EXCEPT ![c][s] = "read"]
    BY <1>2, <1>8 DEF BaseRead
  <2>2. /\ \A i \in Parity : /\ seen'[c][i] = IF i = s THEN parBin[s][p] ELSE seen[c][i]
                             /\ leg'[c][i] = IF i = s THEN "read" ELSE leg[c][i]
        /\ \A j \in Data : leg'[c][j] = leg[c][j]
    BY <1>1, <1>3, <2>1 DEF TypeOK
  <2> QED BY <1>1, <1>2, <1>5, <1>6, <2>1, <2>2 DEF RepairPart
<1>9. ASSUME NEW s \in Parity, DeltasRead(c, s)
      PROVE  RepairPart(c)'
  <2>1. /\ UNCHANGED <<bins, logs, index, shard>> /\ Repairing(c) /\ leg[c][s] = "read"
        /\ seen' = [seen EXCEPT ![c][s] = @ (+) DeltaSum(parLog[s], parIdx[s][p])]
        /\ leg' = [leg EXCEPT ![c][s] = "done"]
    BY <1>2, <1>9 DEF DeltasRead
  <2>2. seen[c][s] (+) DeltaSum(parLog[s], parIdx[s][p]) = Current(s, p)
    BY <1>6, <2>1 DEF Current
  <2>3. /\ \A i \in Parity : /\ seen'[c][i] = IF i = s THEN Current(s, p) ELSE seen[c][i]
                             /\ leg'[c][i] = IF i = s THEN "done" ELSE leg[c][i]
        /\ \A j \in Data : leg'[c][j] = leg[c][j]
    BY <1>1, <1>3, <2>1, <2>2 DEF TypeOK
  <2> QED BY <1>1, <1>2, <1>5, <1>6, <2>1, <2>3 DEF RepairPart
<1>10. ~ReplyRepair(c) /\ ~ServeRead(c) /\ ~AcceptWrite(c) /\ ~ReplyWrite(c)
  BY <1>1 DEF ReplyRepair, ServeRead, AcceptWrite, ReplyWrite, Repairing, Writing, TypeOK
<1>11. /\ ~WriteChunk(c) /\ ~LogData(c) /\ ~RecordData(c)
       /\ ~\E i \in Parity : LogDelta(c, i) \/ ReadSize(c, i) \/ RecordDelta(c, i)
  BY <1>1 DEF WriteChunk, LogData, RecordData, LogDelta, ReadSize, RecordDelta, Repairing, Writing
<1> QED BY <1>4, <1>7, <1>8, <1>9, <1>10, <1>11 DEF Serve

LEMMA RepairsStep ==
  ASSUME Careful, LogInv, Next
  PROVE  RepairsInPlace'
<1> SUFFICES ASSUME NEW d \in Calls, Repairing(d)'
             PROVE  RepairPart(d)'
  BY DEF RepairsInPlace, RepairPart
<1>1. ASSUME NEW c \in Calls, NEW r \in Request, Call(c, r)
      PROVE  RepairPart(d)'
  <2>1. /\ UNCHANGED <<file, bins, logs, index, work, merge>>
        /\ Repairing(d) /\ req'[d] = req[d]
    BY <1>1 DEF Call, Repairing, LogInv, TypeOK
  <2>2. RepairPart(d)
    BY <2>1, RepairsParts DEF LogInv
  <2> QED BY <2>1, <2>2 DEF RepairPart, Latest, Current, bins, logs, index, work
<1>2. ASSUME NEW c \in Calls, Serve(c)
      PROVE  RepairPart(d)'
  <2>1. req' = req /\ (d # c => pc'[d] = pc[d])
    BY <1>2, LogInvType, ServeFrame
  <2> QED BY <1>2, <2>1, RepairKept, RepairThreads DEF Repairing
<1>3. CASE \/ \E image \in Images : Create(image)
           \/ Clear \/ AskMerge
           \/ \E s \in Server : EndMerge(s) \/ Restart(s) \/ \E p \in Parts : Replay(s, p)
  BY <1>3, ManageFrame, IdleKept
<1> QED BY <1>1, <1>2, <1>3 DEF Next

-----------------------------------------------------------------------------
(***************************************************************************)
(* The theorems.                                                           *)
(***************************************************************************)
LEMMA LogInvStep ==
  ASSUME Careful
  PROVE  LogInv /\ [Next]_vars => LogInv'
<1> SUFFICES ASSUME LogInv, [Next]_vars PROVE LogInv'
  OBVIOUS
<1>1. TypeInv'
  BY LogInvType, TypeStep
<1>2. CASE Next
  <2>1. Settled'
    <3>1. ASSUME NEW c \in Calls, NEW r \in Request, Call(c, r)
          PROVE  Settled'
      <4>1. /\ UNCHANGED <<file, bins, logs, index, merge>>
            /\ \A d \in Calls : Writing(d) <=> Writing(d)'
            /\ \A d \in Calls : Writing(d) => req'[d] = req[d]
        BY <3>1 DEF Call, Writing, LogInv, TypeOK
      <4> QED BY <4>1 DEF LogInv, Settled, Latest, Current, Row, Unmerged,
                 file, bins, logs, index, merge
    <3> QED BY <1>2, <3>1, SettledServe, SettledManage DEF Next
  <2> QED BY <1>1, <1>2, <2>1, ExclusionStep, VectorsStep, WritesStep, RepairsStep
          DEF LogInv, TypeInv
<1>3. CASE UNCHANGED vars
  <2>1. UNCHANGED <<file, bins, logs, index, calls, work, merge>>
    BY <1>3 DEF vars, calls
  <2>2. Exclusion' /\ NothingLeft' /\ DataVectors' /\ RepairsUnmerged'
    BY <2>1 DEF LogInv, Exclusion, Quiet, Idle, Active, Compatible, NothingLeft, DataVectors,
       RepairsUnmerged, Unmerged, file, index, calls, merge
  <2>3. Settled'
    BY <2>1 DEF LogInv, Settled, Latest, Current, Row, Unmerged, Writing, file, bins, logs,
       index, calls, merge
  <2>4. WritesInPlace'
    <3>1. /\ \A k, p : Latest(k, p)' = Latest(k, p)
          /\ \A i, p : Current(i, p)' = Current(i, p)
          /\ \A c, s : Held(c, s)' = Held(c, s)
          /\ \A c, s : RowHeld(c, s)' = RowHeld(c, s)
          /\ \A c : Delta(c)' = Delta(c)
          /\ (Unmerged' <=> Unmerged)
      BY <2>1 DEF Held, RowHeld, Delta, Latest, Current, Row, Unmerged, file, bins, logs, index,
         calls, work, merge
    <3> QED BY <2>1, <3>1 DEF LogInv, WritesInPlace, Writing, file, logs, index, calls, work
  <2>5. RepairsInPlace'
    BY <2>1 DEF LogInv, RepairsInPlace, Repairing, Latest, Current, bins, logs, index, calls,
       work
  <2> QED BY <1>1, <2>2, <2>3, <2>4, <2>5 DEF LogInv, TypeInv
<1> QED BY <1>2, <1>3

\* With careful callers LogInv holds for ever, in both schemes.
THEOREM LogInvariant ==
  ASSUME Careful
  PROVE  Spec => []LogInv
<1>1. LogInv /\ [Next]_vars => LogInv'
  BY LogInvStep
<1> QED BY LogInvInit, <1>1, PTL DEF Spec

\* With careful callers, while no merge runs, the parity of every part that no
\* write is changing, with its deltas added, is the encoding of its data, on
\* every parity server: in ParityLog always, in FullLog up to the first merge.
THEOREM StripeUnmergedAlways ==
  ASSUME Careful
  PROVE  Spec => []StripeUnmerged
<1>1. LogInv => StripeUnmerged
  BY DEF LogInv, Settled, StripeUnmerged, StripeCurrent
<1> QED BY LogInvariant, <1>1, PTL

-----------------------------------------------------------------------------
(***************************************************************************)
(* The refinement of BlockStore.                                           *)
(***************************************************************************)

\* Degraded reads are not asked for after a merge of FullLog.
CarefulReads ==
  Careful /\ (RepairWhen = "unmerged" \/ Schemes \subseteq {"PARITY_LOG"})

\* The registers stay when no content changes.
LEMMA AbsStoreFrame ==
  ASSUME UNCHANGED phase,
         phase = "live" => \A k \in Data, p \in Parts : Latest(k, p)' = Latest(k, p)
  PROVE  UNCHANGED AbsStore
  BY DEF AbsStore

\* One register changes.
LEMMA AbsStoreWrite ==
  ASSUME UNCHANGED phase, phase = "live",
         NEW k \in Data, NEW p \in Parts, NEW v,
         Latest(k, p)' = v,
         \A j \in Data, q \in Parts : j # k \/ q # p => Latest(j, q)' = Latest(j, q)
  PROVE  AbsStore' = [AbsStore EXCEPT ![k][p] = v]
<1> DEFINE new == [AbsStore EXCEPT ![k][p] = v]
<1>1. /\ AbsStore = [j \in Data |-> [q \in Parts |-> Latest(j, q)]]
      /\ AbsStore' = [j \in Data |-> [q \in Parts |-> Latest(j, q)']]
  BY DEF AbsStore
<1>2. /\ new = [j \in Data |-> new[j]]
      /\ \A j \in Data : new[j] = [q \in Parts |-> new[j][q]]
      /\ \A j \in Data, q \in Parts :
           new[j][q] = IF j = k /\ q = p THEN v ELSE Latest(j, q)
  BY <1>1
<1> HIDE DEF new
<1>3. \A j \in Data, q \in Parts : Latest(j, q)' = new[j][q]
  BY <1>2
<1>4. AbsStore' = new
  BY <1>1, <1>2, <1>3
<1> QED BY <1>4 DEF new

\* What a call looks like to its caller depends on its own state only.
LEMMA AbsStatusFrame ==
  ASSUME NEW c \in Calls,
         \A d \in Calls \ {c} : pc'[d] = pc[d] /\ leg'[d] = leg[d] /\ req'[d] = req[d],
         NEW st, AbsStatus'[c] = st
  PROVE  AbsStatus' = [AbsStatus EXCEPT ![c] = st]
<1>1. \A d \in Calls \ {c} : AbsStatus'[d] = AbsStatus[d]
  BY DEF AbsStatus
<1>2. /\ AbsStatus = [d \in Calls |-> AbsStatus[d]]
      /\ AbsStatus' = [d \in Calls |-> AbsStatus'[d]]
  BY DEF AbsStatus
<1> QED BY <1>1, <1>2

LEMMA AbsStatusKept ==
  ASSUME NEW c \in Calls,
         \A d \in Calls \ {c} : pc'[d] = pc[d] /\ leg'[d] = leg[d] /\ req'[d] = req[d],
         AbsStatus'[c] = AbsStatus[c]
  PROVE  UNCHANGED AbsStatus
<1>1. AbsStatus' = [AbsStatus EXCEPT ![c] = AbsStatus[c]]
  BY AbsStatusFrame
<1>2. AbsStatus = [d \in Calls |-> AbsStatus[d]]
  BY DEF AbsStatus
<1> QED BY <1>1, <1>2

LEMMA AbsInitial == Init => Abs!AbsInit
<1> SUFFICES ASSUME Init PROVE Abs!AbsInit
  OBVIOUS
<1>1. AbsStatus = [c \in Calls |-> "idle"]
  BY DEF Init, AbsStatus
<1>2. AbsStore = EmptyImage /\ ~(phase = "live")
  BY DEF Init, AbsStore
<1>3. req = [c \in Calls |-> NoReq] /\ result = [c \in Calls |-> {}]
  BY DEF Init
<1> QED BY <1>1, <1>2, <1>3 DEF Abs!AbsInit, Abs!EmptyStore, EmptyImage

\* A step that only moves a thread is invisible.
LEMMA AbsStutter ==
  ASSUME UNCHANGED <<AbsStatus, req, result, AbsStore, phase>>
  PROVE  UNCHANGED Abs!absVars
  BY DEF Abs!absVars

LEMMA AbsCall ==
  ASSUME LogInv, NEW c \in Calls, NEW r \in Request, Call(c, r)
  PROVE  Abs!Invoke(c, r)
<1>1. /\ phase = "live" /\ pc[c] = "idle"
      /\ pc' = [pc EXCEPT ![c] = "called"] /\ req' = [req EXCEPT ![c] = r]
      /\ UNCHANGED <<phase, bins, logs, index, leg, result>>
  BY DEF Call, file, work
<1>2. pc'[c] = "called" /\ \A d \in Calls \ {c} : pc'[d] = pc[d] /\ req'[d] = req[d]
  BY <1>1 DEF LogInv, TypeOK
<1>3. AbsStatus[c] = "idle" /\ AbsStatus'[c] = "called"
  BY <1>1, <1>2 DEF AbsStatus
<1>4. AbsStatus' = [AbsStatus EXCEPT ![c] = "called"]
  BY <1>1, <1>2, <1>3, AbsStatusFrame
<1>5. UNCHANGED AbsStore
  BY <1>1, AbsStoreFrame DEF Latest, bins, logs, index
<1> QED BY <1>1, <1>3, <1>4, <1>5 DEF Abs!Invoke

\* The instants at which a write takes effect: the chunk is overwritten, or the
\* vector gets its entry.
LEMMA AbsEffect ==
  ASSUME LogInv, NEW c \in Calls, WriteChunk(c) \/ RecordData(c)
  PROVE  Abs!Effect(c)
<1>1. TypeInv /\ Serve(c) /\ Writing(c) /\ Active(c)
  BY LogInvType DEF Serve, WriteChunk, RecordData, Writing, Active
<1>2. phase = "live" /\ UNCHANGED <<phase, req>>
  BY <1>1, Serving, ServeFrame DEF file
<1>3. req[c] \in Request
  BY <1>1 DEF LogInv, RequestsKnown, Writing
<1>4. PICK k \in Data, p \in Parts, v \in Value : k = req[c].srv /\ p = req[c].part /\ v = req[c].val
  BY <1>3, RequestFields
<1>5. /\ UNCHANGED <<pc, result>>
      /\ leg[c][k] \in {"todo", "logged"}
      /\ leg' = [leg EXCEPT ![c][k] = "done"]
  BY <1>4 DEF WriteChunk, RecordData
<1>6. leg'[c][k] = "done" /\ \A d \in Calls \ {c} : leg'[d] = leg[d]
  BY <1>4, <1>5 DEF LogInv, TypeOK, Server
<1>7. Latest(k, p)' = v
  <2>1. CASE WriteChunk(c)
    <3>1. scheme = "PARITY_LOG" /\ UNCHANGED dataIdx /\ dataBin' = [dataBin EXCEPT ![k][p] = v]
      BY <1>4, <2>1 DEF WriteChunk, index
    <3>2. dataIdx'[k] = NoIndex
      BY <3>1 DEF LogInv, DataVectors
    <3>3. dataBin'[k][p] = v
      BY <3>1 DEF LogInv, TypeOK
    <3> QED BY <3>2, <3>3, NoVectors
  <2>2. CASE RecordData(c)
    <3>1. /\ dataIdx' = [dataIdx EXCEPT ![k][p] = Append(@, spot[c][k])]
          /\ UNCHANGED dataLog /\ leg[c][k] = "logged"
      BY <1>4, <2>2 DEF RecordData, logs
    <3>2. dataLog[k][spot[c][k]] = v /\ dataIdx[k][p] \in Seq(Nat) /\ spot[c][k] \in Nat
      BY <1>1, <1>4, <3>1, RequestFields DEF LogInv, WritesInPlace, TypeOK, Server
    <3>3. dataIdx'[k][p] = Append(dataIdx[k][p], spot[c][k])
      BY <3>1 DEF LogInv, TypeOK
    <3>4. /\ dataIdx'[k][p] # <<>>
          /\ dataIdx'[k][p][Len(dataIdx'[k][p])] = spot[c][k]
      BY <3>2, <3>3
    <3> QED BY <3>1, <3>2, <3>4 DEF Latest
  <2> QED BY <2>1, <2>2
<1>8. \A j \in Data, q \in Parts : j # k \/ q # p => Latest(j, q)' = Latest(j, q)
  BY <1>1, <1>4, ServeLatest
<1>9. AbsStore' = [AbsStore EXCEPT ![k][p] = v]
  BY <1>2, <1>7, <1>8, AbsStoreWrite
<1>10. AbsStatus[c] = "called" /\ AbsStatus'[c] = "effected"
  BY <1>1, <1>2, <1>4, <1>5, <1>6 DEF AbsStatus, Writing
<1>11. AbsStatus' = [AbsStatus EXCEPT ![c] = "effected"]
  BY <1>2, <1>5, <1>6, <1>10, AbsStatusFrame
<1> QED BY <1>1, <1>2, <1>4, <1>5, <1>9, <1>10, <1>11 DEF Abs!Effect, Writing

LEMMA AbsAnswerWrite ==
  ASSUME LogInv, NEW c \in Calls, ReplyWrite(c)
  PROVE  Abs!AnswerWrite(c)
<1>1. TypeInv /\ Serve(c) /\ Writing(c)
  BY LogInvType DEF Serve, ReplyWrite
<1>2. /\ UNCHANGED <<phase, req>> /\ \A d \in Calls \ {c} : pc'[d] = pc[d] /\ leg'[d] = leg[d]
  BY <1>1, ServeFrame DEF file
<1>3. /\ leg[c][req[c].srv] = "done" /\ pc'[c] = "done"
      /\ UNCHANGED <<result, bins, logs, index>>
  BY DEF ReplyWrite, LogInv, TypeOK
<1>4. UNCHANGED AbsStore
  BY <1>2, <1>3, AbsStoreFrame DEF Latest, bins, logs, index
<1>5. AbsStatus[c] = "effected" /\ AbsStatus'[c] = "done"
  BY <1>1, <1>3 DEF AbsStatus, Writing
<1>6. AbsStatus' = [AbsStatus EXCEPT ![c] = "done"]
  BY <1>2, <1>5, AbsStatusFrame
<1> QED BY <1>2, <1>3, <1>4, <1>5, <1>6 DEF Abs!AnswerWrite

\* A read that returns x, which is what the register holds, scaled.
LEMMA AbsAnswer ==
  ASSUME LogInv, NEW c \in Calls, ServeRead(c) \/ ReplyRepair(c), NEW x,
         result' = [result EXCEPT ![c] = x],
         x = Scale(req[c].srv, Latest(req[c].srv, req[c].part))
  PROVE  Abs!AnswerRead(c)
<1>1. TypeInv /\ Serve(c) /\ Active(c)
  BY LogInvType DEF Serve, ServeRead, ReplyRepair, Repairing, Active
<1>2. /\ phase = "live" /\ UNCHANGED <<phase, req>>
      /\ \A d \in Calls \ {c} : pc'[d] = pc[d] /\ leg'[d] = leg[d]
  BY <1>1, Serving, ServeFrame DEF file
<1>3. /\ pc'[c] = "done" /\ UNCHANGED <<bins, logs, index>>
      /\ req[c].op \in {"read", "repair"}
  BY DEF ServeRead, ReplyRepair, Repairing, LogInv, TypeOK
<1>4. UNCHANGED AbsStore
  BY <1>2, <1>3, AbsStoreFrame DEF Latest, bins, logs, index
<1>5. AbsStatus[c] = "called" /\ AbsStatus'[c] = "done"
  BY <1>1, <1>3 DEF AbsStatus, Active
<1>6. AbsStatus' = [AbsStatus EXCEPT ![c] = "done"]
  BY <1>2, <1>5, AbsStatusFrame
<1>7. PICK k \in Data, p \in Parts : k = req[c].srv /\ p = req[c].part
  BY <1>1, RequestFields DEF LogInv, RequestsKnown, Active
<1>8. x = Abs!Scale(k, AbsStore[k][p])
  BY <1>2, <1>7 DEF AbsStore, Scale, Abs!Scale
<1>9. x \in Abs!ParityValue
  <2>1. Latest(k, p) \in Value
    BY <1>1, ContentTypes
  <2> QED BY <1>7, <2>1, ScaleType DEF ParityValue, Abs!ParityValue
<1> QED BY <1>2, <1>3, <1>4, <1>5, <1>6, <1>7, <1>8, <1>9 DEF Abs!AnswerRead

\* decodeMissing returns the current content: all the shards and the parity a
\* degraded read holds are still current, and no write is on its part.
LEMMA RepairReturns ==
  ASSUME CarefulReads, LogInv, NEW c \in Calls, ReplyRepair(c)
  PROVE  Decode(req[c].srv, shard[c], seen[c][FirstParity])
           = Scale(req[c].srv, Latest(req[c].srv, req[c].part))
<1>1. /\ Repairing(c) /\ Active(c) /\ TypeInv
      /\ \A s \in Server \ {req[c].srv} : leg[c][s] = "done"
  BY LogInvType DEF ReplyRepair, Repairing, Active
<1>2. PICK k \in Data, p \in Parts : k = req[c].srv /\ p = req[c].part
  BY <1>1, RequestFields DEF LogInv, RequestsKnown, Active
<1>3. phase = "live" /\ merging = {}
  BY <1>1, Serving
<1>4. Unmerged
  <2>1. CASE RepairWhen = "unmerged"
    BY <1>1, <2>1 DEF LogInv, RepairsUnmerged, Repairing
  <2>2. CASE Schemes \subseteq {"PARITY_LOG"}
    BY <2>2 DEF LogInv, TypeOK, Unmerged
  <2> QED BY <2>1, <2>2 DEF CarefulReads
<1>5. FirstParity \in Parity /\ FirstParity \in Server \ {k} /\ Data \subseteq Server
  BY StripeAssumption DEF Server
<1>6. ~\E d \in Calls : Writing(d) /\ req[d].part = p
  BY <1>1, <1>2, Apart DEF CarefulReads, Writing, Repairing, Active
<1>7. Current(FirstParity, p) = Encode(Row(p))
  BY <1>3, <1>4, <1>5, <1>6 DEF LogInv, Settled
<1>8. /\ seen[c][FirstParity] = Current(FirstParity, p)
      /\ \A j \in Data \ {k} : shard[c][j] = Latest(j, p)
  BY <1>1, <1>2, <1>5 DEF LogInv, RepairsInPlace
<1>9. Row(p) \in [Data -> Value] /\ Row(p)[k] = Latest(k, p) /\ shard[c] \in [Data -> Value]
  BY <1>1, ContentTypes DEF Row, LogInv, TypeOK
<1>10. [shard[c] EXCEPT ![k] = {}] = [Row(p) EXCEPT ![k] = {}]
  BY <1>8, <1>9 DEF Row
<1>11. Decode(k, shard[c], Encode(Row(p))) = Decode(k, Row(p), Encode(Row(p)))
  BY <1>10 DEF Decode
<1> QED BY <1>2, <1>7, <1>8, <1>9, <1>11, DecodeEncode

\* The steps of a handler between those instants.
LEMMA AbsThreads ==
  ASSUME LogInv, NEW c \in Calls, Serve(c),
         ~ServeRead(c), ~WriteChunk(c), ~RecordData(c), ~ReplyWrite(c), ~ReplyRepair(c)
  PROVE  UNCHANGED Abs!absVars
<1>1. TypeInv /\ TypeOK
  BY LogInvType DEF TypeInv
<1>2. /\ UNCHANGED <<phase, req>> /\ Active(c)
      /\ \A d \in Calls \ {c} : pc'[d] = pc[d] /\ leg'[d] = leg[d]
  BY <1>1, ServeFrame DEF file
<1>3. UNCHANGED AbsStore
  BY <1>1, <1>2, ServeLatest, AbsStoreFrame
<1>4. UNCHANGED result
  BY DEF Serve, AcceptWrite, LogData, LogDelta, ReadSize, RecordDelta, AcceptRepair,
         ShardRead, BaseRead, DeltasRead
<1>5. PICK k \in Data : k = req[c].srv
  BY <1>2, RequestFields DEF LogInv, RequestsKnown, Active
<1>6. k \in Server /\ k \notin Parity
  BY StripeAssumption DEF Server
<1>7. AbsStatus'[c] = AbsStatus[c]
  <2> USE <1>2, <1>5, <1>6 DEF TypeOK, AbsStatus
  <2>1. CASE AcceptWrite(c)
    <3>1. pc[c] = "called" /\ pc'[c] = "run" /\ leg'[c][k] = "todo"
      BY <1>1, <2>1 DEF AcceptWrite
    <3> QED BY <3>1
  <2>2. CASE LogData(c)
    <3>1. pc' = pc /\ leg[c][k] = "todo" /\ leg'[c][k] = "logged"
      BY <1>1, <2>2 DEF LogData
    <3> QED BY <3>1
  <2>3. ASSUME NEW i \in Parity, LogDelta(c, i) \/ ReadSize(c, i) \/ RecordDelta(c, i)
        PROVE  AbsStatus'[c] = AbsStatus[c]
    <3>1. pc' = pc /\ leg'[c][k] = leg[c][k]
      BY <1>1, <2>3 DEF LogDelta, ReadSize, RecordDelta
    <3> QED BY <3>1
  <2>4. CASE AcceptRepair(c)
    <3>1. pc[c] = "called" /\ pc'[c] = "run" /\ req[c].op = "repair"
      BY <1>1, <2>4 DEF AcceptRepair
    <3> QED BY <3>1
  <2>5. CASE \/ \E j \in Data : ShardRead(c, j)
             \/ \E i \in Parity : BaseRead(c, i) \/ DeltasRead(c, i)
    <3>1. pc' = pc /\ req[c].op = "repair"
      BY <2>5 DEF ShardRead, BaseRead, DeltasRead, Repairing
    <3> QED BY <3>1
  <2> QED BY <2>1, <2>2, <2>3, <2>4, <2>5 DEF Serve
<1>8. UNCHANGED AbsStatus
  BY <1>2, <1>7, AbsStatusKept
<1> QED BY <1>2, <1>3, <1>4, <1>8, AbsStutter

\* Creating and clearing the file opens and closes the registers; merges and
\* restarts are invisible.
LEMMA AbsManage ==
  ASSUME Careful, LogInv,
         \/ \E image \in Images : Create(image)
         \/ Clear \/ AskMerge
         \/ \E s \in Server : EndMerge(s) \/ Restart(s) \/ \E p \in Parts : Replay(s, p)
  PROVE  Abs!Open \/ Abs!Close \/ UNCHANGED Abs!absVars
<1>1. TypeInv /\ TypeOK
  BY LogInvType DEF TypeInv
<1>2. Idle /\ UNCHANGED <<calls, pc, leg, req, result>>
  BY ManageFrame DEF calls, work
<1>3. UNCHANGED AbsStatus
  BY <1>2 DEF AbsStatus
<1>4. \A c \in Calls : ~Abs!Active(c)
  <2>1. \A c \in Calls : pc[c] \notin {"called", "run"}
    BY <1>2 DEF Idle, Active
  <2>2. \A c \in Calls : AbsStatus[c] \in {"idle", "done"}
    BY <1>1, <2>1 DEF TypeOK, AbsStatus
  <2> QED BY <2>2 DEF Abs!Active
<1>5. ASSUME NEW image \in Images, Create(image)
      PROVE  Abs!Open
  <2>1. phase = "absent" /\ phase' = "live"
    BY <1>5 DEF Careful, Create
  <2>2. image \in [Data -> [Parts -> Value]] /\ dataBin' = image /\ UNCHANGED dataIdx
    BY <1>5, DeltaLogAssumption DEF Create, index
  <2>3. \A k \in Data, p \in Parts : Latest(k, p)' = image[k][p]
    BY <2>1, <2>2, NoVectors DEF LogInv, NothingLeft
  <2>4. AbsStore' \in [Data -> [Parts -> Abs!Value]]
    BY <2>1, <2>2, <2>3 DEF AbsStore, Value, Abs!Value
  <2> QED BY <1>2, <1>3, <2>1, <2>4 DEF Abs!Open
<1>6. ASSUME Clear
      PROVE  Abs!Close
  <2>1. phase = "live" /\ phase' = "absent"
    BY <1>6 DEF Clear
  <2>2. AbsStore' = Abs!EmptyStore
    BY <2>1 DEF AbsStore, EmptyImage, Abs!EmptyStore
  <2> QED BY <1>2, <1>3, <1>4, <2>1, <2>2 DEF Abs!Close
<1>7. ASSUME UNCHANGED phase,
             phase = "live" => \A k \in Data, p \in Parts : Latest(k, p)' = Latest(k, p)
      PROVE  UNCHANGED Abs!absVars
  BY <1>2, <1>3, <1>7, AbsStoreFrame, AbsStutter
<1>8. ASSUME AskMerge
      PROVE  UNCHANGED Abs!absVars
  BY <1>7, <1>8 DEF AskMerge, file, bins, logs, index, Latest
<1>9. ASSUME NEW s \in Server, EndMerge(s)
      PROVE  UNCHANGED Abs!absVars
  <2>1. /\ UNCHANGED <<phase, dataBin, dataLog>> /\ s \in merging /\ replay[s] = {}
        /\ \A k \in Data : dataIdx'[k] = IF k = s THEN NoIndex ELSE dataIdx[k]
    BY <1>9 DEF EndMerge, file, bins, logs
  <2>2. ASSUME phase = "live", NEW k \in Data, NEW p \in Parts
        PROVE  Latest(k, p)' = Latest(k, p)
    <3>1. CASE k = s
      <4>1. dataBin[k][p] = Latest(k, p)
        BY <2>1, <2>2, <3>1 DEF LogInv, Settled
      <4>2. Latest(k, p)' = dataBin'[k][p]
        BY <2>1, <3>1, NoVectors
      <4> QED BY <2>1, <4>1, <4>2
    <3>2. CASE k # s
      BY <2>1, <3>2 DEF Latest
    <3> QED BY <3>1, <3>2
  <2> QED BY <1>7, <2>1, <2>2
<1>10. ASSUME NEW s \in Server, Restart(s)
       PROVE  UNCHANGED Abs!absVars
  <2>1. /\ UNCHANGED <<phase, dataBin, dataLog>>
        /\ s \in Data => dataIdx[s] = NoIndex
        /\ \A k \in Data : dataIdx'[k] = IF k = s THEN NoIndex ELSE dataIdx[k]
    BY <1>10, StripeAssumption DEF Careful, Restart, file, bins, logs
  <2>2. \A k \in Data : dataIdx'[k] = dataIdx[k]
    BY <2>1
  <2> QED BY <1>7, <2>1, <2>2 DEF Latest
<1>11. ASSUME NEW s \in Server, NEW q \in Parts, Replay(s, q)
       PROVE  UNCHANGED Abs!absVars
  <2>1. UNCHANGED <<phase, dataIdx, dataLog>>
    BY <1>11 DEF Replay, file, logs, index
  <2>2. \A k \in Data, p \in Parts :
          dataBin'[k][p] = IF k = s /\ p = q THEN Latest(k, p) ELSE dataBin[k][p]
    BY <1>1, <1>11 DEF Replay, TypeOK
  <2>3. \A k \in Data, p \in Parts : Latest(k, p)' = Latest(k, p)
    BY <2>1, <2>2 DEF Latest
  <2> QED BY <1>7, <2>1, <2>3
<1> QED BY <1>5, <1>6, <1>8, <1>9, <1>10, <1>11

LEMMA AbsStep ==
  ASSUME CarefulReads
  PROVE  LogInv /\ [Next]_vars => [Abs!AbsNext]_(Abs!absVars)
<1> SUFFICES ASSUME LogInv, [Next]_vars
             PROVE  Abs!AbsNext \/ UNCHANGED Abs!absVars
  OBVIOUS
<1> USE DEF CarefulReads
<1>1. ASSUME NEW c \in Calls, NEW r \in Request, Call(c, r)
      PROVE  Abs!AbsNext
  <2>1. Abs!Invoke(c, r)
    BY <1>1, AbsCall
  <2>2. r \in Abs!Request
    BY DEF Request, Abs!Request, Value, Abs!Value
  <2> QED BY <2>1, <2>2 DEF Abs!AbsNext
<1>2. ASSUME NEW c \in Calls, Serve(c)
      PROVE  Abs!AbsNext \/ UNCHANGED Abs!absVars
  <2>1. CASE WriteChunk(c) \/ RecordData(c)
    BY <2>1, AbsEffect DEF Abs!AbsNext
  <2>2. CASE ReplyWrite(c)
    BY <2>2, AbsAnswerWrite DEF Abs!AbsNext
  <2>3. CASE ServeRead(c)
    <3>1. Abs!AnswerRead(c)
      BY <2>3, AbsAnswer DEF ServeRead
    <3> QED BY <3>1 DEF Abs!AbsNext
  <2>4. CASE ReplyRepair(c)
    <3>1. Abs!AnswerRead(c)
      BY <2>4, RepairReturns, AbsAnswer DEF ReplyRepair
    <3> QED BY <3>1 DEF Abs!AbsNext
  <2> QED BY <1>2, <2>1, <2>2, <2>3, <2>4, AbsThreads
<1>3. CASE \/ \E image \in Images : Create(image)
           \/ Clear \/ AskMerge
           \/ \E s \in Server : EndMerge(s) \/ Restart(s) \/ \E p \in Parts : Replay(s, p)
  BY <1>3, AbsManage DEF Abs!AbsNext
<1>4. CASE UNCHANGED vars
  BY <1>4 DEF vars, file, bins, logs, index, calls, work, Abs!absVars, AbsStatus, AbsStore, Latest
<1> QED BY <1>1, <1>2, <1>3, <1>4 DEF Next

\* With careful callers both schemes implement the registers of BlockStore: a
\* write takes effect at one instant, when the chunk is overwritten or the
\* vector gets its entry; reads and degraded reads return the register; threads,
\* merges and restarts are invisible.
THEOREM Refinement ==
  ASSUME CarefulReads
  PROVE  Spec => ImplementsBlockStore
<1>1. LogInv /\ [Next]_vars => [Abs!AbsNext]_(Abs!absVars)
  BY AbsStep
<1>2. Spec => []LogInv
  BY LogInvariant DEF CarefulReads
<1> QED BY AbsInitial, <1>1, <1>2, PTL DEF Spec, ImplementsBlockStore, Abs!AbsSpec
=============================================================================
