---------------------------- MODULE DabriProofs ----------------------------
(***************************************************************************)
(* Proofs about the scheme DABRI, for any number of data servers, parity   *)
(* servers, parts, symbols, calls and merges, and any ranges of parts.     *)
(***************************************************************************)
EXTENDS Dabri, StripeTheorems

-----------------------------------------------------------------------------
(***************************************************************************)
(* Types of the operators.                                                 *)
(***************************************************************************)
LEMMA FlagsType ==
  ASSUME NEW R, NEW g \in [Parts -> BOOLEAN], NEW f \in [Parts -> BOOLEAN]
  PROVE  On(R, g, f) \in [Parts -> BOOLEAN]
<1>1. ASSUME NEW p \in Parts
      PROVE  (IF p \in R THEN g[p] ELSE f[p]) \in BOOLEAN
  <2>1. g[p] \in BOOLEAN /\ f[p] \in BOOLEAN
    OBVIOUS
  <2> QED BY <2>1
<1> QED BY <1>1 DEF On

LEMMA RangeRequestFields ==
  ASSUME NEW r \in RangeRequest
  PROVE  /\ r.op \in {"write", "read", "repair"}
         /\ r.srv \in Data /\ r.range \in Ranges /\ r.val \in Value
         /\ r.range \subseteq Parts
BY DabriAssumption DEF RangeRequest, Value

LEMMA FreshSiteType ==
  FreshSite \subseteq [Parts -> BOOLEAN]
BY DEF FreshSite, Unset

LEMMA ContentsType ==
  ASSUME TypeOK, NEW k \in Data, NEW p \in Parts
  PROVE  Contents(k, p) \subseteq Value
BY DEF TypeOK, Contents

LEMMA DeltaOfType ==
  ASSUME NEW i, NEW p
  PROVE  DeltaOf(i, p) \in ParityValue
BY DEF DeltaOf, ParityValue

\* The empty vectors, contents and images.
LEMMA EmptyTypes ==
  /\ NoPart \in [Parts -> Value] /\ NoPart \in [Parts -> ParityValue]
  /\ NoRecords \in [Parts -> {None} \cup Value]
  /\ NoShard \in [Data -> [Parts -> Value]]
  /\ NoSeen \in [Parity -> [Parts -> ParityValue]]
  /\ EmptyImage \in [Data -> [Parts -> Value]]
  /\ Unset \in [Parts -> BOOLEAN]
  /\ \A v \in Value : All(v) \in [Parts -> Value]
BY DEF NoPart, NoRecords, NoShard, NoSeen, EmptyImage, Unset, All, Value, ParityValue

-----------------------------------------------------------------------------
(***************************************************************************)
(* Types, whatever the ranges and the flags.                               *)
(***************************************************************************)
TypeInv == TypeOK /\ RequestsKnown

LEMMA TypeInit == Init => TypeInv
<1> SUFFICES ASSUME Init PROVE TypeInv
  OBVIOUS
<1>1. site \in [Data -> [Parts -> BOOLEAN]]
  BY FreshSiteType DEF Init
<1> QED BY <1>1, EmptyTypes DEF Init, TypeInv, TypeOK, RequestsKnown

LEMMA TypeManage ==
  ASSUME TypeInv,
         \/ \E image \in Images : Create(image)
         \/ Clear
         \/ \E c \in Calls, r \in RangeRequest : Call(c, r)
         \/ AskMerge
         \/ \E k \in Data : MergeData(k)
         \/ \E i \in Parity : MergeParity(i)
  PROVE  TypeInv'
<1> USE DEF TypeInv, TypeOK, RequestsKnown, dataVars, parVars, calls, work
<1>1. ASSUME NEW image \in Images, Create(image)
      PROVE  TypeInv'
  <2>1. image \in [Data -> [Parts -> Value]]
    BY DabriAssumption
  <2>2. parBin' \in [Parity -> [Parts -> ParityValue]]
    BY <1>1, EncodeType DEF Create
  <2> QED BY <1>1, <2>1, <2>2 DEF Create
<1>2. CASE Clear
  <2>1. site' \in [Data -> [Parts -> BOOLEAN]]
    BY <1>2, FreshSiteType DEF Clear
  <2> QED BY <1>2, <2>1, EmptyTypes DEF Clear
<1>3. ASSUME NEW c \in Calls, NEW r \in RangeRequest, Call(c, r)
      PROVE  TypeInv'
  BY <1>3 DEF Call
<1>4. CASE AskMerge
  BY <1>4 DEF AskMerge
<1>5. ASSUME NEW k \in Data, MergeData(k)
      PROVE  TypeInv'
  <2>1. PICK f \in FreshSite : site' = [site EXCEPT ![k] = f]
    BY <1>5 DEF MergeData
  <2>2. site' \in [Data -> [Parts -> BOOLEAN]]
    BY <2>1, FreshSiteType
  <2> QED BY <1>5, <2>2, EmptyTypes DEF MergeData
<1>6. ASSUME NEW i \in Parity, MergeParity(i)
      PROVE  TypeInv'
  <2>1. \A p \in Parts : parBin[i][p] (+) DeltaOf(i, p) \in ParityValue
    BY ParityAddType, DeltaOfType
  <2>2. parBin' \in [Parity -> [Parts -> ParityValue]]
    BY <1>6, <2>1 DEF MergeParity
  <2>3. [k \in Data |-> NoRecords] \in [Data -> [Parts -> {None} \cup Value]]
    BY EmptyTypes
  <2> QED BY <1>6, <2>2, <2>3 DEF MergeParity
<1> QED BY <1>1, <1>2, <1>3, <1>4, <1>5, <1>6

LEMMA TypeServe ==
  ASSUME TypeInv, NEW c \in Calls, Serve(c)
  PROVE  TypeInv'
<1> DEFINE r == req[c]
<1>1. pc[c] # "idle" /\ r \in RangeRequest
  <2>1. pc[c] # "idle"
    BY DEF Serve, ServeRead, AcceptFirst, ReadBase, StartBase, ReplyFirst, AcceptLater,
           WriteChunk, ReplyLater, AcceptRepair, AskShards, ReplyDecode, ShardRead, LogDR,
           LogBase, AnswerFromLog, NotInLog, ParityRead
  <2> QED BY <2>1 DEF TypeInv, RequestsKnown
<1>2. /\ r.op \in {"write", "read", "repair"}
      /\ r.srv \in Data /\ r.range \in Ranges /\ r.val \in Value
      /\ r.range \subseteq Parts
  BY <1>1, RangeRequestFields
<1>3. /\ All(r.val) \in [Parts -> Value]
      /\ \A p \in Parts : All(TRUE)[p] = TRUE /\ Unset[p] = FALSE
  BY <1>2, EmptyTypes DEF All, Unset
<1> HIDE DEF r
<1> USE DEF TypeInv, TypeOK, RequestsKnown, dataVars, parVars, calls, work, Stages
<1>4. CASE ServeRead(c)
  <2>1. PICK f \in [r.range -> Value] :
          result' = [result EXCEPT ![c] =
                       [p \in Parts |-> IF p \in r.range THEN Scale(r.srv, f[p]) ELSE {}]]
    BY <1>4 DEF ServeRead, r
  <2>2. [p \in Parts |-> IF p \in r.range THEN Scale(r.srv, f[p]) ELSE {}]
           \in [Parts -> ParityValue]
    BY <1>2, ScaleType DEF ParityValue
  <2> HIDE DEF Stages
  <2>3. result' \in [Calls -> [Parts -> ParityValue]]
    BY <2>1, <2>2
  <2> QED BY <1>4, <2>3 DEF ServeRead
<1>5. CASE AcceptFirst(c)
  BY <1>2, <1>5 DEF AcceptFirst, r, Server
<1>6. CASE AcceptLater(c)
  <2>1. Unset \in [Parts -> BOOLEAN] /\ site[r.srv] \in [Parts -> BOOLEAN]
    BY <1>2, EmptyTypes
  <2>2. On(r.range, Unset, site[r.srv]) \in [Parts -> BOOLEAN]
    BY <2>1, FlagsType
  <2> QED BY <1>2, <1>6, <2>2 DEF AcceptLater, r, Server
<1>7. CASE ReadBase(c)
  <2>1. On(r.range, dataBin[r.srv], NoPart) \in [Parts -> Value]
    BY <1>2, EmptyTypes DEF On
  <2> QED BY <1>7, <2>1 DEF ReadBase, r
<1>8. ASSUME NEW i \in Parity, LogDR(c, i)
      PROVE  TypeInv'
  <2>1. On(r.range, All(r.val), parDR[i][r.srv]) \in [Parts -> {None} \cup Value]
    BY <1>2, <1>3 DEF On
  <2> QED BY <1>2, <1>8, <2>1 DEF LogDR, r
<1>9. CASE StartBase(c)
  BY <1>9 DEF StartBase, Server
<1>10. ASSUME NEW i \in Parity, LogBase(c, i)
       PROVE  TypeInv'
  <2>1. On(r.range, base[c], parD0[i][r.srv]) \in [Parts -> {None} \cup Value]
    BY <1>2 DEF On
  <2> QED BY <1>2, <1>10, <2>1 DEF LogBase, r
<1>11. CASE ReplyFirst(c)
  <2>1. /\ On(r.range, All(r.val), dataDR[r.srv]) \in [Parts -> {None} \cup Value]
        /\ On(r.range, All(r.val), reg[r.srv]) \in [Parts -> Value]
    BY <1>2, <1>3 DEF On
  <2>2. All(TRUE) \in [Parts -> BOOLEAN] /\ site[r.srv] \in [Parts -> BOOLEAN]
    BY <1>2 DEF All
  <2>3. On(r.range, All(TRUE), site[r.srv]) \in [Parts -> BOOLEAN]
    BY <2>2, FlagsType
  <2> QED BY <1>2, <1>11, <2>1, <2>3, EmptyTypes DEF ReplyFirst, r
<1>12. CASE WriteChunk(c)
  <2>1. /\ On(r.range, All(r.val), dataBin[r.srv]) \in [Parts -> Value]
        /\ On(r.range, All(r.val), reg[r.srv]) \in [Parts -> Value]
    BY <1>2, <1>3 DEF On
  <2> QED BY <1>2, <1>12, <2>1 DEF WriteChunk, r
<1>13. CASE ReplyLater(c)
  BY <1>13 DEF ReplyLater
<1>14. CASE AcceptRepair(c)
  BY <1>14 DEF AcceptRepair, Server
<1>15. ASSUME NEW i \in Parity, AnswerFromLog(c, i)
       PROVE  TypeInv'
  <2> DEFINE x == [p \in Parts |-> IF p \in r.range THEN Scale(r.srv, parDR[i][r.srv][p])
                                                    ELSE {}]
  <2>1. \A p \in r.range : parDR[i][r.srv][p] \in Value
    BY <1>2, <1>15 DEF AnswerFromLog, r
  <2>2. x \in [Parts -> ParityValue]
    BY <1>2, <2>1, ScaleType DEF ParityValue
  <2>3. result' = [result EXCEPT ![c] = x]
    BY <1>15 DEF AnswerFromLog, r
  <2> HIDE DEF x
  <2>4. result' \in [Calls -> [Parts -> ParityValue]]
    BY <2>2, <2>3
  <2> QED BY <1>15, <2>4 DEF AnswerFromLog
<1>16. ASSUME NEW i \in Parity, NotInLog(c, i)
       PROVE  TypeInv'
  BY <1>16 DEF NotInLog
<1>17. CASE AskShards(c)
  BY <1>17 DEF AskShards, Server
<1>18. ASSUME NEW k \in Data, ShardRead(c, k)
       PROVE  TypeInv'
  <2>1. PICK f \in [r.range -> Value] :
          shard' = [shard EXCEPT ![c][k] = On(r.range, f, NoPart)]
    BY <1>18 DEF ShardRead, r
  <2>2. On(r.range, f, NoPart) \in [Parts -> Value]
    BY <1>2, <2>1, EmptyTypes DEF On
  <2>3. shard' \in [Calls -> [Data -> [Parts -> Value]]]
    BY <2>1, <2>2
  <2> QED BY <1>18, <2>3 DEF ShardRead
<1>19. ASSUME NEW i \in Parity, ParityRead(c, i)
       PROVE  TypeInv'
  <2> DEFINE f == [p \in Parts |-> DeltaOf(i, p)]
  <2>1. \A p \in Parts : f[p] \in ParityValue
    BY DeltaOfType
  <2>2. seen' = [seen EXCEPT ![c][i] = On(r.range, f, NoPart)]
    BY <1>19 DEF ParityRead, r
  <2> HIDE DEF f
  <2>3. On(r.range, f, NoPart) \in [Parts -> ParityValue]
    BY <2>1, EmptyTypes DEF On
  <2>4. seen' \in [Calls -> [Parity -> [Parts -> ParityValue]]]
    BY <2>2, <2>3
  <2> QED BY <1>19, <2>4 DEF ParityRead
<1>20. CASE ReplyDecode(c)
  <2> DEFINE x == [p \in Parts |->
                     IF p \in r.range
                     THEN Decode(r.srv, [k \in Data |-> shard[c][k][p]],
                                 seen[c][FirstParity][p])
                     ELSE {}]
  <2>1. \A p \in Parts : /\ [k \in Data |-> shard[c][k][p]] \in [Data -> Value]
                         /\ seen[c][FirstParity][p] \in ParityValue
    BY StripeAssumption
  <2>2. x \in [Parts -> ParityValue]
    <3>1. {} \in ParityValue
      BY DEF ParityValue
    <3> HIDE DEF TypeInv, TypeOK, RequestsKnown
    <3> QED BY <1>2, <2>1, <3>1, DecodeType
  <2>3. result' = [result EXCEPT ![c] = x]
    BY <1>20 DEF ReplyDecode, r
  <2> HIDE DEF x
  <2>4. result' \in [Calls -> [Parts -> ParityValue]]
    BY <2>2, <2>3
  <2> QED BY <1>20, <2>4, EmptyTypes DEF ReplyDecode
<1> QED BY <1>4, <1>5, <1>6, <1>7, <1>8, <1>9, <1>10, <1>11, <1>12, <1>13, <1>14, <1>15,
           <1>16, <1>17, <1>18, <1>19, <1>20 DEF Serve

LEMMA TypeStep == TypeInv /\ [Next]_vars => TypeInv'
<1> SUFFICES ASSUME TypeInv, [Next]_vars PROVE TypeInv'
  OBVIOUS
<1>1. CASE UNCHANGED vars
  BY <1>1 DEF TypeInv, TypeOK, RequestsKnown, vars, dataVars, parVars, calls, work
<1>2. CASE \E c \in Calls : Serve(c)
  BY <1>2, TypeServe
<1> QED BY <1>1, <1>2, TypeManage DEF Next

\* Every variable keeps its type and every call made has a request, whatever
\* ranges callers use and whatever a data_site holds when it is allocated.
THEOREM TypeCorrect == Spec => [](TypeOK /\ RequestsKnown)
BY TypeInit, TypeStep, PTL DEF Spec, TypeInv

-----------------------------------------------------------------------------
(***************************************************************************)
(* Callers that use ranges that do not overlap, and flags that happen to   *)
(* be zero.                                                                *)
(***************************************************************************)
Careful ==
  /\ Zeroed
  /\ \A R, S \in Ranges : R = S \/ R \cap S = {}

\* P0 of a part, and P0 with the deltas, as far as they tell of data server k.
LEMMA HoldsParts ==
  ASSUME TypeOK, NEW i \in Parity, NEW k \in Data, NEW p \in Parts
  PROVE  /\ Kept(i, k, p) \in Value
         /\ parDR[i][k][p] = None \/ parD0[i][k][p] = None =>
              ParityHolds(i, k, p) = Kept(i, k, p)
         /\ parDR[i][k][p] # None /\ parD0[i][k][p] = Kept(i, k, p) =>
              ParityHolds(i, k, p) = parDR[i][k][p]
<1>1. Kept(i, k, p) \in Value
  BY DEF Kept, Value
<1>2. \A x \in Sym : <<k, x>> \in DeltaOf(i, p) <=>
        /\ parDR[i][k][p] # None /\ parD0[i][k][p] # None
        /\ x \in parDR[i][k][p] (+) parD0[i][k][p]
  <2> SUFFICES ASSUME NEW x \in Sym
               PROVE  <<k, x>> \in DeltaOf(i, p) <=>
                        /\ parDR[i][k][p] # None /\ parD0[i][k][p] # None
                        /\ x \in parDR[i][k][p] (+) parD0[i][k][p]
    OBVIOUS
  <2> DEFINE y == <<k, x>>
  <2>1. y \in Data \X Sym /\ y[1] = k /\ y[2] = x
    OBVIOUS
  <2> HIDE DEF y
  <2>2. y \in DeltaOf(i, p) <=>
          /\ None \notin {parDR[i][k][p], parD0[i][k][p]}
          /\ x \in parDR[i][k][p] (+) parD0[i][k][p]
    BY <2>1 DEF DeltaOf
  <2> QED BY <2>2 DEF y
<1>3. \A x \in Sym : x \in ParityHolds(i, k, p) <=>
        ~(x \in Kept(i, k, p) <=> <<k, x>> \in DeltaOf(i, p))
  BY DEF ParityHolds, Kept, (+)
<1>4. ParityHolds(i, k, p) \subseteq Sym /\ Kept(i, k, p) \subseteq Sym
  BY DEF ParityHolds, Kept
<1>5. parDR[i][k][p] # None => parDR[i][k][p] \subseteq Sym
  BY DEF TypeOK, Value
<1>6. ASSUME parDR[i][k][p] = None \/ parD0[i][k][p] = None
      PROVE  ParityHolds(i, k, p) = Kept(i, k, p)
  BY <1>2, <1>3, <1>4, <1>6
<1>7. ASSUME parDR[i][k][p] # None, parD0[i][k][p] = Kept(i, k, p)
      PROVE  ParityHolds(i, k, p) = parDR[i][k][p]
  <2>1. parD0[i][k][p] # None
    BY <1>1, <1>7, DabriAssumption
  <2>2. \A x \in Sym : x \in ParityHolds(i, k, p) <=> x \in parDR[i][k][p]
    BY <1>2, <1>3, <1>7, <2>1 DEF (+)
  <2> QED BY <1>4, <1>5, <1>7, <2>2
<1> QED BY <1>1, <1>6, <1>7

\* A step for one call moves that call alone, and forgets no range.
LEMMA ServeFrame ==
  ASSUME TypeInv, NEW c \in Calls, Serve(c)
  PROVE  /\ UNCHANGED <<phase, parBin, req, merging, merges>>
         /\ Busy(c)
         /\ \A d \in Calls \ {c} : /\ pc'[d] = pc[d] /\ leg'[d] = leg[d]
                                   /\ base'[d] = base[d]
         /\ pc'[c] \in {"done"} \cup Stages
         /\ \A k \in Data : updated[k] \subseteq updated'[k]
<1> DEFINE S == {"idle", "called", "done"} \cup Stages
<1>1. /\ pc \in [Calls -> S] /\ leg \in [Calls -> SUBSET Server]
      /\ base \in [Calls -> [Parts -> Value]] /\ updated \in [Data -> SUBSET Ranges]
  BY DEF TypeInv, TypeOK
<1> USE <1>1 DEF dataVars, parVars, calls, work, Busy, Stages
<1>2. CASE ServeRead(c)
  BY <1>2 DEF ServeRead
<1>3. CASE AcceptFirst(c)
  BY <1>3 DEF AcceptFirst
<1>4. CASE AcceptLater(c)
  BY <1>4 DEF AcceptLater
<1>5. CASE ReadBase(c)
  BY <1>5 DEF ReadBase
<1>6. CASE StartBase(c)
  BY <1>6 DEF StartBase
<1>7. CASE WriteChunk(c)
  BY <1>7 DEF WriteChunk
<1>8. CASE ReplyFirst(c)
  BY <1>8 DEF ReplyFirst
<1>9. CASE ReplyLater(c)
  BY <1>9 DEF ReplyLater
<1>10. CASE AcceptRepair(c)
  BY <1>10 DEF AcceptRepair
<1>11. CASE AskShards(c)
  BY <1>11 DEF AskShards
<1>12. CASE ReplyDecode(c)
  BY <1>12 DEF ReplyDecode
<1>13. CASE \E k \in Data : ShardRead(c, k)
  BY <1>13 DEF ShardRead
<1>14. CASE \E i \in Parity : LogDR(c, i) \/ LogBase(c, i) \/ AnswerFromLog(c, i)
                              \/ NotInLog(c, i) \/ ParityRead(c, i)
  BY <1>14 DEF LogDR, LogBase, AnswerFromLog, NotInLog, ParityRead
<1> QED BY <1>2, <1>3, <1>4, <1>5, <1>6, <1>7, <1>8, <1>9, <1>10, <1>11,
           <1>12, <1>13, <1>14 DEF Serve

\* While a call is served the file is there and no merge runs.
LEMMA Serving ==
  ASSUME Exclusion, NEW c \in Calls, Busy(c)
  PROVE  phase = "live" /\ merging = {}
BY DEF Exclusion, Quiet

\* The steps of clients that are not calls, and of merges, move no call.
LEMMA ManageFrame ==
  ASSUME \/ \E image \in Images : Create(image)
         \/ Clear
         \/ AskMerge
         \/ \E k \in Data : MergeData(k)
         \/ \E i \in Parity : MergeParity(i)
  PROVE  /\ UNCHANGED calls
         /\ merging' # merging => phase' = "live" \/ phase' = phase
         /\ phase' # phase => Quiet /\ merging' = {}
BY DEF Create, Clear, AskMerge, MergeData, MergeParity, dataVars, parVars, Quiet

-----------------------------------------------------------------------------
(***************************************************************************)
(* Calls: which may run together, and whom their handlers wait for.        *)
(***************************************************************************)
LEMMA ExclusionStep ==
  ASSUME TypeInv, Exclusion, [Next]_vars
  PROVE  Exclusion'
<1> USE DEF TypeInv
<1>1. ASSUME NEW c \in Calls, Serve(c)
      PROVE  Exclusion'
  <2>1. /\ phase = "live" /\ merging = {}
        /\ UNCHANGED <<phase, req, merging>>
        /\ \A d \in Calls : Busy(d)' => Busy(d)
    <3>1. Busy(c) /\ \A d \in Calls \ {c} : Busy(d)' <=> Busy(d)
      BY <1>1, ServeFrame DEF Busy
    <3> QED BY <1>1, <3>1, ServeFrame, Serving
  <2> QED BY <2>1 DEF Exclusion, Compatible
<1>2. ASSUME NEW c \in Calls, NEW r \in RangeRequest, Call(c, r)
      PROVE  Exclusion'
  <2>1. /\ phase' = "live" /\ merging' = {}
        /\ req' = [req EXCEPT ![c] = r]
        /\ \A d \in Calls \ {c} : Busy(d)' <=> Busy(d)
        /\ \A d \in Calls : Busy(d) => Compatible(r, req[d])
    BY <1>2 DEF Call, Busy, TypeOK
  <2>2. ASSUME NEW d \in Calls, NEW e \in Calls, d # e, Busy(d)', Busy(e)'
        PROVE  Compatible(req'[d], req'[e])
    <3>1. CASE d # c /\ e # c
      BY <2>1, <2>2, <3>1 DEF Exclusion, TypeOK
    <3>2. CASE d = c
      BY <2>1, <2>2, <3>2 DEF TypeOK
    <3>3. CASE e = c
      <4>1. Compatible(r, req[d]) /\ req'[e] = r /\ req'[d] = req[d]
        BY <2>1, <2>2, <3>3 DEF TypeOK
      <4> QED BY <4>1 DEF Compatible
    <3> QED BY <3>1, <3>2, <3>3
  <2>3. \A d, e \in Calls : d # e /\ Busy(d)' /\ Busy(e)' => Compatible(req[d], req[e])'
    BY <2>2 DEF Compatible
  <2> QED BY <2>1, <2>3 DEF Exclusion
<1>3. ASSUME \/ \E image \in Images : Create(image)
             \/ Clear
             \/ AskMerge
             \/ \E k \in Data : MergeData(k)
             \/ \E i \in Parity : MergeParity(i)
      PROVE  Exclusion'
  <2>1. /\ UNCHANGED <<pc, req>>
        /\ \A d \in Calls : Busy(d)' <=> Busy(d)
        /\ \A r, s \in RangeRequest : Compatible(r, s)' <=> Compatible(r, s)
    BY <1>3, ManageFrame DEF calls, Busy, Compatible
  <2>2. \A d, e \in Calls : d # e /\ Busy(d)' /\ Busy(e)' => Compatible(req[d], req[e])'
    BY <2>1 DEF Exclusion, Compatible
  <2>3. CASE \E image \in Images : Create(image)
    <3>1. phase' = "live" /\ merging' = {}
      BY <2>3 DEF Create, Quiet
    <3> QED BY <2>2, <3>1 DEF Exclusion
  <2>4. CASE Clear
    <3>1. merging' = {} /\ Quiet' /\ \A k \in Data : updated'[k] = {}
      BY <2>1, <2>4 DEF Clear, Quiet
    <3> QED BY <2>2, <3>1 DEF Exclusion
  <2>5. CASE AskMerge
    <3>1. phase' = "live" /\ \A c \in Calls : ~Busy(c)'
      BY <2>1, <2>5 DEF AskMerge, Quiet
    <3> QED BY <2>2, <3>1 DEF Exclusion
  <2>6. CASE (\E k \in Data : MergeData(k)) \/ (\E i \in Parity : MergeParity(i))
    <3>1. merging # {} /\ phase' = phase
      BY <2>6 DEF MergeData, MergeParity
    <3>2. phase' = "live" /\ \A c \in Calls : ~Busy(c)'
      BY <2>1, <3>1 DEF Exclusion, Quiet
    <3> QED BY <2>2, <3>2 DEF Exclusion
  <2> QED BY <1>3, <2>3, <2>4, <2>5, <2>6
<1>4. CASE UNCHANGED vars
  BY <1>4 DEF vars, dataVars, calls, Exclusion, Quiet, Busy, Compatible
<1> QED BY <1>1, <1>2, <1>3, <1>4 DEF Next

\* What LegsInPlace says of one call.
LegsOf(c) ==
  /\ Writing(c) => req[c].op = "write" /\ req[c].range \in updated[req[c].srv]
  /\ pc[c] \in {"ask", "decode"} => req[c].op = "repair"
  /\ pc[c] \in {"idle", "called", "done"} => leg[c] = {}
  /\ pc[c] \in {"first", "chunk"} => leg[c] \subseteq Parity \cup {req[c].srv}
  /\ pc[c] \in {"base", "ask"} => leg[c] \subseteq Parity
  /\ pc[c] = "decode" => leg[c] \subseteq Server \ {req[c].srv}

LEMMA LegsParts == LegsInPlace <=> \A c \in Calls : LegsOf(c)
BY DEF LegsInPlace, LegsOf

LEMMA LegsStep ==
  ASSUME TypeInv, Exclusion, LegsInPlace, [Next]_vars
  PROVE  LegsInPlace'
<1> USE DEF TypeInv
<1>1. ASSUME NEW c \in Calls, Serve(c)
      PROVE  LegsInPlace'
  <2>1. req' = req /\ \A d \in Calls : req[d] \in RangeRequest => req[d].srv \in Data
    BY <1>1, ServeFrame, RangeRequestFields
  <2>2. ASSUME NEW d \in Calls \ {c}
        PROVE  LegsOf(d)'
    <3>1. pc'[d] = pc[d] /\ leg'[d] = leg[d] /\ \A k \in Data : updated[k] \subseteq updated'[k]
      BY <1>1, ServeFrame
    <3>2. Writing(d) => req[d].srv \in Data
      BY <2>1 DEF RequestsKnown, Writing
    <3>3. LegsOf(d)
      BY LegsParts
    <3> QED BY <2>1, <3>1, <3>2, <3>3 DEF LegsOf, Writing
  <2>3. LegsOf(c)'
    <3>1. LegsOf(c) /\ Busy(c)
      BY <1>1, LegsParts, ServeFrame
    <3>2. req[c] \in RangeRequest /\ req[c].srv \in Data
      BY <2>1, <3>1 DEF RequestsKnown, Busy
    <3> USE DEF LegsOf, Writing, TypeOK
    <3>3. CASE ServeRead(c) \/ ReplyFirst(c) \/ ReplyLater(c) \/ ReplyDecode(c)
      <4>1. pc' = [pc EXCEPT ![c] = "done"] /\ leg' = leg /\ leg[c] = {}
        BY <3>1, <3>3 DEF ServeRead, ReplyFirst, ReplyLater, ReplyDecode
      <4> QED BY <4>1
    <3>4. CASE AcceptFirst(c)
      BY <2>1, <3>2, <3>4 DEF AcceptFirst
    <3>5. CASE AcceptLater(c)
      BY <2>1, <3>2, <3>5 DEF AcceptLater
    <3>6. CASE StartBase(c)
      BY <2>1, <3>1, <3>6 DEF StartBase, dataVars
    <3>7. CASE AcceptRepair(c)
      BY <2>1, <3>7 DEF AcceptRepair
    <3>8. CASE AskShards(c)
      BY <2>1, <3>1, <3>8 DEF AskShards, Server
    <3>9. ASSUME NEW i \in Parity, AnswerFromLog(c, i)
          PROVE  LegsOf(c)'
      BY <2>1, <3>9 DEF AnswerFromLog
    <3>10. CASE \E s : leg' = [leg EXCEPT ![c] = @ \ {s}] /\ pc' = pc /\ updated' = updated
      <4>1. leg'[c] \subseteq leg[c] /\ pc' = pc /\ updated' = updated
        BY <3>10
      <4> QED BY <2>1, <3>1, <4>1
    <3>11. CASE ReadBase(c) \/ WriteChunk(c)
      BY <3>10, <3>11 DEF ReadBase, WriteChunk, dataVars
    <3>12. ASSUME NEW i \in Parity, LogDR(c, i) \/ LogBase(c, i) \/ NotInLog(c, i)
           PROVE  LegsOf(c)'
      BY <3>10, <3>12 DEF LogDR, LogBase, NotInLog, dataVars
    <3>13. ASSUME NEW k \in Data, ShardRead(c, k)
           PROVE  LegsOf(c)'
      BY <3>10, <3>13 DEF ShardRead, dataVars
    <3>14. ASSUME NEW i \in Parity, ParityRead(c, i)
           PROVE  LegsOf(c)'
      BY <3>10, <3>14 DEF ParityRead, dataVars
    <3> QED BY <1>1, <3>3, <3>4, <3>5, <3>6, <3>7, <3>8, <3>9, <3>11, <3>12, <3>13, <3>14
            DEF Serve
  <2>4. \A d \in Calls : LegsOf(d)'
    BY <2>2, <2>3
  <2> QED BY <2>4 DEF LegsInPlace, LegsOf
<1>2. ASSUME NEW c \in Calls, NEW r \in RangeRequest, Call(c, r)
      PROVE  LegsInPlace'
  <2>1. /\ pc' = [pc EXCEPT ![c] = "called"] /\ req' = [req EXCEPT ![c] = r]
        /\ leg' = leg /\ updated' = updated /\ pc[c] = "idle"
    BY <1>2 DEF Call, dataVars
  <2>2. ASSUME NEW d \in Calls
        PROVE  LegsOf(d)'
    <3>1. LegsOf(d)
      BY LegsParts
    <3>2. CASE d = c
      BY <2>1, <3>1, <3>2 DEF LegsOf, Writing, TypeOK
    <3>3. CASE d # c
      BY <2>1, <3>1, <3>3 DEF LegsOf, Writing, TypeOK
    <3> QED BY <3>2, <3>3
  <2> QED BY <2>2 DEF LegsInPlace, LegsOf
<1>3. ASSUME \/ \E image \in Images : Create(image)
             \/ Clear
             \/ AskMerge
             \/ \E k \in Data : MergeData(k)
             \/ \E i \in Parity : MergeParity(i)
      PROVE  LegsInPlace'
  <2>1. UNCHANGED <<pc, req, leg>>
    BY <1>3, ManageFrame DEF calls
  <2>2. updated' = updated \/ \A c \in Calls : ~Busy(c)
    BY <1>3 DEF Create, Clear, AskMerge, MergeData, MergeParity, dataVars, Exclusion, Quiet
  <2>3. (\A c \in Calls : ~Busy(c)) => \A c \in Calls : ~Writing(c)
    BY DEF Busy, Writing
  <2> QED BY <2>1, <2>2, <2>3 DEF LegsInPlace, Writing
<1>4. CASE UNCHANGED vars
  BY <1>4 DEF vars, dataVars, calls, LegsInPlace, Writing
<1> QED BY <1>1, <1>2, <1>3, <1>4 DEF Next

LEMMA MergedCleanStep ==
  ASSUME TypeInv, Exclusion, MergedClean, [Next]_vars
  PROVE  MergedClean'
<1> USE DEF TypeInv, TypeOK
<1>1. CASE \E c \in Calls : Serve(c)
  <2>1. merging' = {}
    BY <1>1, ServeFrame, Serving
  <2> QED BY <2>1 DEF MergedClean
<1>2. CASE (\E c \in Calls, r \in RangeRequest : Call(c, r)) \/ Clear
           \/ \E image \in Images : Create(image)
  <2>1. merging' = {}
    BY <1>2 DEF Call, Clear, Create, Quiet
  <2> QED BY <2>1 DEF MergedClean
<1>3. CASE AskMerge
  <2>1. Data \ merging' = {} /\ Parity \ merging' = {}
    BY <1>3 DEF AskMerge, Server
  <2> QED BY <2>1 DEF MergedClean
<1>4. ASSUME NEW k \in Data, MergeData(k)
      PROVE  MergedClean'
  <2>1. /\ merging # {} /\ Parity \ merging' = Parity \ merging
        /\ \A j \in Data \ merging' : j = k \/ j \in Data \ merging
    BY <1>4, StripeAssumption DEF MergeData
  <2>2. parDR' = parDR /\ parD0' = parD0 /\ updated' = [updated EXCEPT ![k] = {}]
    BY <1>4 DEF MergeData, parVars
  <2> QED BY <2>1, <2>2 DEF MergedClean
<1>5. ASSUME NEW i \in Parity, MergeParity(i)
      PROVE  MergedClean'
  <2>1. /\ merging # {} /\ Data \ merging' = Data \ merging
        /\ \A j \in Parity \ merging' : j = i \/ j \in Parity \ merging
    BY <1>5, StripeAssumption DEF MergeParity
  <2>2. /\ parDR' = [parDR EXCEPT ![i] = [k \in Data |-> NoRecords]]
        /\ parD0' = [parD0 EXCEPT ![i] = [k \in Data |-> NoRecords]]
        /\ updated' = updated
    BY <1>5 DEF MergeParity, dataVars
  <2>3. \A j \in Parity, k \in Data, p \in Parts :
          IF j = i THEN parDR'[j][k][p] = None /\ parD0'[j][k][p] = None
          ELSE parDR'[j] = parDR[j] /\ parD0'[j] = parD0[j]
    BY <2>2 DEF NoRecords
  <2> QED BY <2>1, <2>2, <2>3 DEF MergedClean
<1>6. CASE UNCHANGED vars
  BY <1>6 DEF vars, dataVars, parVars, MergedClean
<1> QED BY <1>1, <1>2, <1>3, <1>4, <1>5, <1>6 DEF Next

-----------------------------------------------------------------------------
(***************************************************************************)
(* The parts of the data servers.                                          *)
(***************************************************************************)

\* Call c is a write that is to change part p of data server k.
Targets(c, k, p) == req[c].op = "write" /\ req[c].srv = k /\ p \in req[c].range

\* Nothing that is kept of part p of data server k changes.
SamePart(k, p) ==
  /\ site'[k][p] = site[k][p] /\ dataDR'[k][p] = dataDR[k][p]
  /\ dataBin'[k][p] = dataBin[k][p] /\ reg'[k][p] = reg[k][p]
  /\ \A R : p \in R => (R \in updated'[k] <=> R \in updated[k])
  /\ \A i \in Parity : /\ parBin'[i][p] = parBin[i][p]
                       /\ parDR'[i][k][p] = parDR[i][k][p]
                       /\ parD0'[i][k][p] = parD0[i][k][p]

\* A step for call c changes only the parts that c is to write.
LEMMA OtherParts ==
  ASSUME TypeInv, LegsInPlace, NEW c \in Calls, Serve(c),
         NEW k \in Data, NEW p \in Parts, ~Targets(c, k, p)
  PROVE  SamePart(k, p)
<1>1. req[c] \in RangeRequest /\ Busy(c) /\ parBin' = parBin
  BY ServeFrame DEF TypeInv, RequestsKnown, Busy
<1>2. req[c].srv \in Data
  BY <1>1, RangeRequestFields
<1>3. PICK h \in Data, R \in Ranges : h = req[c].srv /\ R = req[c].range
  BY <1>1, <1>2, RangeRequestFields
<1>4. Writing(c) => k # h \/ p \notin R
  BY <1>3 DEF LegsInPlace, Targets
<1> USE DEF TypeInv, TypeOK
<1>5. CASE UNCHANGED <<dataVars, parVars, reg>>
  BY <1>5 DEF SamePart, dataVars, parVars
<1>6. CASE ServeRead(c) \/ ReadBase(c) \/ StartBase(c) \/ ReplyLater(c) \/ AcceptRepair(c)
           \/ AskShards(c) \/ ReplyDecode(c)
  BY <1>5, <1>6 DEF ServeRead, ReadBase, StartBase, ReplyLater, AcceptRepair, AskShards,
     ReplyDecode
<1>7. CASE \E j \in Data : ShardRead(c, j)
  BY <1>5, <1>7 DEF ShardRead
<1>8. CASE \E i \in Parity : AnswerFromLog(c, i) \/ NotInLog(c, i) \/ ParityRead(c, i)
  BY <1>5, <1>8 DEF AnswerFromLog, NotInLog, ParityRead
<1>9. CASE AcceptFirst(c)
  <2>1. /\ updated' = [updated EXCEPT ![h] = @ \cup {R}]
        /\ UNCHANGED <<dataBin, dataDR, site, parVars, reg>>
        /\ k # h \/ p \notin R
    BY <1>3, <1>9 DEF AcceptFirst, Targets
  <2> QED BY <2>1 DEF SamePart, parVars
<1>10. CASE AcceptLater(c)
  <2>1. /\ site' = [site EXCEPT ![h] = On(R, Unset, @)]
        /\ UNCHANGED <<dataBin, dataDR, updated, parVars, reg>>
        /\ k # h \/ p \notin R
    BY <1>3, <1>10 DEF AcceptLater, Targets
  <2>2. site'[k][p] = site[k][p]
    BY <2>1 DEF On
  <2> QED BY <2>1, <2>2 DEF SamePart, parVars
<1>11. CASE ReplyFirst(c)
  <2>1. /\ dataDR' = [dataDR EXCEPT ![h] = On(R, All(req[c].val), @)]
        /\ site' = [site EXCEPT ![h] = On(R, All(TRUE), @)]
        /\ reg' = [reg EXCEPT ![h] = On(R, All(req[c].val), @)]
        /\ UNCHANGED <<dataBin, updated, parVars>>
        /\ k # h \/ p \notin R
    BY <1>3, <1>4, <1>11 DEF ReplyFirst, Writing
  <2>2. site'[k][p] = site[k][p] /\ dataDR'[k][p] = dataDR[k][p] /\ reg'[k][p] = reg[k][p]
    BY <2>1 DEF On
  <2> QED BY <2>1, <2>2 DEF SamePart, parVars
<1>12. CASE WriteChunk(c)
  <2>1. /\ dataBin' = [dataBin EXCEPT ![h] = On(R, All(req[c].val), @)]
        /\ reg' = [reg EXCEPT ![h] = On(R, All(req[c].val), @)]
        /\ UNCHANGED <<dataDR, site, updated, parVars>>
        /\ k # h \/ p \notin R
    BY <1>3, <1>4, <1>12 DEF WriteChunk, Writing
  <2>2. dataBin'[k][p] = dataBin[k][p] /\ reg'[k][p] = reg[k][p]
    BY <2>1 DEF On
  <2> QED BY <2>1, <2>2 DEF SamePart, parVars
<1>13. ASSUME NEW i \in Parity, LogDR(c, i)
       PROVE  SamePart(k, p)
  <2>1. /\ parDR' = [parDR EXCEPT ![i][h] = On(R, All(req[c].val), @)]
        /\ UNCHANGED <<dataVars, parBin, parD0, reg>>
        /\ k # h \/ p \notin R
    BY <1>3, <1>4, <1>13 DEF LogDR, Writing
  <2>2. \A j \in Parity : parDR'[j][k][p] = parDR[j][k][p]
    BY <2>1 DEF On
  <2> QED BY <2>1, <2>2 DEF SamePart, dataVars
<1>14. ASSUME NEW i \in Parity, LogBase(c, i)
       PROVE  SamePart(k, p)
  <2>1. /\ parD0' = [parD0 EXCEPT ![i][h] = On(R, base[c], @)]
        /\ UNCHANGED <<dataVars, parBin, parDR, reg>>
        /\ k # h \/ p \notin R
    BY <1>3, <1>4, <1>14 DEF LogBase, Writing
  <2>2. \A j \in Parity : parD0'[j][k][p] = parD0[j][k][p]
    BY <2>1 DEF On
  <2> QED BY <2>1, <2>2 DEF SamePart, dataVars
<1> QED BY <1>6, <1>7, <1>8, <1>9, <1>10, <1>11, <1>12, <1>13, <1>14 DEF Serve

\* What PartInPlace says of a part does not depend on the calls that do not
\* write it.
LEMMA PartKept ==
  ASSUME TypeInv, LegsInPlace, NEW c \in Calls, Serve(c),
         NEW k \in Data, NEW p \in Parts, ~Targets(c, k, p), PartInPlace(k, p)
  PROVE  PartInPlace(k, p)'
<1>1. /\ UNCHANGED <<phase, req, merging>>
      /\ \A d \in Calls \ {c} : /\ pc'[d] = pc[d] /\ leg'[d] = leg[d]
                                /\ base'[d] = base[d]
  BY ServeFrame
<1>2. SamePart(k, p)
  BY OtherParts
<1>3. \A d \in Calls : Writes(d, k, p)' <=> Writes(d, k, p)
  <2>1. Writes(c, k, p)' => Targets(c, k, p)
    <3>1. Writing(c)' => req[c].op = "write"
      <4>1. CASE Writing(c)
        BY <4>1 DEF LegsInPlace
      <4>2. CASE ~Writing(c) /\ Writing(c)'
        <5>1. AcceptFirst(c) \/ AcceptLater(c) => req[c].op = "write"
          BY DEF AcceptFirst, AcceptLater
        <5> USE DEF TypeInv, TypeOK, Writing
        <5>2. ~ServeRead(c) /\ ~ReadBase(c) /\ ~StartBase(c) /\ ~ReplyFirst(c)
              /\ ~WriteChunk(c) /\ ~ReplyLater(c)
          BY <4>2 DEF ServeRead, ReadBase, StartBase, ReplyFirst, WriteChunk, ReplyLater
        <5>3. ~AcceptRepair(c) /\ ~AskShards(c) /\ ~ReplyDecode(c)
          BY <4>2 DEF AcceptRepair, AskShards, ReplyDecode
        <5>4. /\ ~\E j \in Data : ShardRead(c, j)
              /\ ~\E i \in Parity : LogDR(c, i) \/ LogBase(c, i)
              /\ ~\E i \in Parity : AnswerFromLog(c, i) \/ NotInLog(c, i) \/ ParityRead(c, i)
          BY <4>2 DEF ShardRead, LogDR, LogBase, AnswerFromLog, NotInLog, ParityRead
        <5> QED BY <5>1, <5>2, <5>3, <5>4 DEF Serve
      <4> QED BY <4>1, <4>2
    <3> QED BY <1>1, <3>1 DEF Writes, Targets
  <2>2. Writes(c, k, p) => Targets(c, k, p)
    BY DEF Writes, Targets, LegsInPlace
  <2> QED BY <1>1, <2>1, <2>2 DEF Writes, Writing
<1>4. \A i \in Parity : Kept(i, k, p)' = Kept(i, k, p)
  BY <1>2 DEF SamePart, Kept
<1>5. Untouched(k, p)'
  BY <1>1, <1>2 DEF PartInPlace, Untouched, SamePart
<1>6. Recorded(k, p)'
  BY <1>1, <1>2, <1>3 DEF PartInPlace, Recorded, SamePart
<1>7. AtRest(k, p)' <=> AtRest(k, p)
  BY <1>2, <1>4 DEF AtRest, SamePart
<1>8. ASSUME NEW d \in Calls, Writes(d, k, p)'
      PROVE  Underway(d, k, p)'
  <2>1. d # c
    BY <1>3, <1>8 DEF Writes, Targets, LegsInPlace
  <2>2. /\ pc'[d] = pc[d] /\ leg'[d] = leg[d] /\ base'[d] = base[d] /\ req'[d] = req[d]
        /\ Underway(d, k, p)
    BY <1>1, <1>3, <1>8, <2>1 DEF PartInPlace
  <2> QED BY <1>2, <1>4, <2>2 DEF Underway, FirstUnderway, LaterUnderway, SamePart
<1> QED BY <1>1, <1>3, <1>5, <1>6, <1>7, <1>8 DEF PartInPlace

\* With ranges that do not overlap, a range that was not updated shares no part
\* with one that was.
LEMMA FreshRange ==
  ASSUME Careful, TypeOK, NEW k \in Data, NEW R \in Ranges, R \notin updated[k],
         NEW p \in R
  PROVE  \A S \in updated[k] : p \notin S
BY DEF Careful, TypeOK

\* A step for a write of part p of data server k.
LEMMA PartWritten ==
  ASSUME Careful, TypeInv, Exclusion, LegsInPlace, NEW c \in Calls, Serve(c),
         NEW k \in Data, NEW p \in Parts, Targets(c, k, p), PartInPlace(k, p)
  PROVE  PartInPlace(k, p)'
<1>1. /\ UNCHANGED <<phase, req, merging, parBin>> /\ req' = req
      /\ \A d \in Calls \ {c} : pc'[d] = pc[d]
      /\ Busy(c) /\ pc'[c] \in {"done"} \cup Stages
      /\ updated[k] \subseteq updated'[k]
  BY ServeFrame
<1>2. phase = "live" /\ merging = {}
  BY <1>1, Serving
<1>3. req[c] \in RangeRequest
  BY <1>1 DEF TypeInv, RequestsKnown, Busy
<1>4. PICK R \in Ranges, v \in Value : R = req[c].range /\ v = req[c].val
  BY <1>3, RangeRequestFields
<1>5. k = req[c].srv /\ req[c].op = "write" /\ p \in R
  BY <1>4 DEF Targets
<1>6. \A d \in Calls \ {c} : ~Writes(d, k, p) /\ ~Writes(d, k, p)'
  <2> SUFFICES ASSUME NEW d \in Calls \ {c}, Writes(d, k, p)
               PROVE  FALSE
    BY <1>1 DEF Writes, Writing
  <2>1. Busy(d) /\ req[d].op = "write" /\ req[d].srv = k
    BY DEF Writes, Writing, Busy, LegsInPlace
  <2>2. Compatible(req[c], req[d])
    BY <1>1, <2>1 DEF Exclusion
  <2> QED BY <1>5, <2>1, <2>2 DEF Compatible
<1>7. Writes(c, k, p) <=> Writing(c)
  BY <1>4, <1>5 DEF Writes
<1>8. Writes(c, k, p)' <=> Writing(c)'
  BY <1>1, <1>4, <1>5 DEF Writes
<1>9. Writing(c) => R \in updated[k] /\ Underway(c, k, p)
  BY <1>4, <1>5, <1>7 DEF LegsInPlace, PartInPlace
<1>10. ~Writing(c) => AtRest(k, p)
  BY <1>2, <1>6, <1>7 DEF PartInPlace
<1>11. /\ v # None /\ base[c] \in [Parts -> Value]
       /\ \A w \in Value : w # None
       /\ reg[k][p] \in Value /\ dataBin[k][p] \in Value
       /\ \A i \in Parity : i # k /\ Kept(i, k, p) \in Value /\ Kept(i, k, p)' = Kept(i, k, p)
  BY <1>1, DabriAssumption, StripeAssumption DEF TypeInv, TypeOK, Kept, Value
\* It is enough to show, of each step, how the write goes on or what it leaves.
<1>12. SUFFICES /\ R \in updated'[k]
                /\ \/ Writing(c)' /\ Underway(c, k, p)'
                   \/ /\ ~Writing(c)' /\ AtRest(k, p)'
                      /\ \A i \in Parity : parDR'[i][k][p] # None
  <2>1. Untouched(k, p)'
    BY <1>5, <1>12 DEF Untouched
  <2>2. Recorded(k, p)'
    BY <1>8, <1>12 DEF Recorded
  <2>3. (\E d \in Calls : Writes(d, k, p)') \/ AtRest(k, p)'
    BY <1>8, <1>12
  <2>4. \A d \in Calls : Writes(d, k, p)' => Underway(d, k, p)'
    BY <1>6, <1>8, <1>12
  <2> QED BY <2>1, <2>2, <2>3, <2>4 DEF PartInPlace
<1> USE DEF TypeInv, TypeOK
<1>13. CASE AcceptFirst(c)
  <2>1. /\ pc' = [pc EXCEPT ![c] = "first"] /\ leg' = [leg EXCEPT ![c] = Parity \cup {k}]
        /\ updated' = [updated EXCEPT ![k] = @ \cup {R}] /\ R \notin updated[k]
        /\ UNCHANGED <<dataBin, dataDR, site, parDR, parD0, base, reg>>
        /\ pc[c] = "called"
    BY <1>4, <1>5, <1>13 DEF AcceptFirst, parVars, work
  <2>2. /\ ~site[k][p] /\ dataBin[k][p] = reg[k][p]
        /\ \A i \in Parity : parDR[i][k][p] = None /\ parD0[i][k][p] = None
    BY <1>2, <1>5, <2>1, FreshRange DEF PartInPlace, Untouched
  <2>3. \A i \in Parity : Kept(i, k, p) = reg[k][p]
    BY <1>10, <1>11, <2>1, <2>2 DEF AtRest, Writing
  <2>4. pc'[c] = "first" /\ k \in leg'[c] /\ \A i \in Parity : i \in leg'[c]
    BY <2>1
  <2>5. Underway(c, k, p)'
    BY <1>11, <2>1, <2>2, <2>3, <2>4 DEF Underway, FirstUnderway
  <2> QED BY <2>1, <2>4, <2>5 DEF Writing
<1>14. CASE AcceptLater(c)
  <2>1. /\ pc' = [pc EXCEPT ![c] = "chunk"] /\ leg' = [leg EXCEPT ![c] = Parity \cup {k}]
        /\ site' = [site EXCEPT ![k] = On(R, Unset, @)] /\ R \in updated[k]
        /\ UNCHANGED <<dataBin, dataDR, updated, parDR, parD0, base, reg>>
        /\ pc[c] = "called"
    BY <1>4, <1>5, <1>14 DEF AcceptLater, parVars, work
  <2>2. \A i \in Parity : parDR[i][k][p] # None
    BY <1>2, <1>5, <1>6, <1>7, <2>1 DEF PartInPlace, Recorded, Writing
  <2>3. \A i \in Parity : parD0[i][k][p] = Kept(i, k, p)
    BY <1>10, <2>1, <2>2 DEF AtRest, Writing
  <2>4. pc'[c] = "chunk" /\ k \in leg'[c] /\ \A i \in Parity : i \in leg'[c]
    BY <2>1
  <2>5. ~site'[k][p]
    BY <1>5, <2>1 DEF On, Unset
  <2>6. Underway(c, k, p)'
    BY <1>11, <2>1, <2>2, <2>3, <2>4, <2>5 DEF Underway, LaterUnderway
  <2> QED BY <2>1, <2>4, <2>6 DEF Writing
<1>15. CASE ReadBase(c)
  <2>1. /\ pc[c] = "first" /\ leg' = [leg EXCEPT ![c] = @ \ {k}]
        /\ base' = [base EXCEPT ![c] = On(R, dataBin[k], NoPart)]
        /\ UNCHANGED <<pc, dataBin, dataDR, site, updated, parDR, parD0, reg>>
    BY <1>4, <1>5, <1>15 DEF ReadBase, dataVars, parVars
  <2>2. FirstUnderway(c, k, p) /\ R \in updated[k]
    BY <1>9, <2>1 DEF Underway, Writing
  <2>3. /\ base'[c][p] = dataBin[k][p] /\ pc'[c] = "first"
        /\ \A i \in Parity : i \in leg'[c] <=> i \in leg[c]
    BY <1>5, <1>11, <2>1 DEF On
  <2>4. Underway(c, k, p)'
    BY <1>1, <1>11, <2>1, <2>2, <2>3 DEF Underway, FirstUnderway
  <2> QED BY <2>1, <2>2, <2>3, <2>4 DEF Writing
<1>16. ASSUME NEW i \in Parity, LogDR(c, i)
       PROVE  /\ R \in updated'[k]
              /\ Writing(c)' /\ Underway(c, k, p)'
  <2>1. /\ pc[c] \in {"first", "chunk"} /\ i \in leg[c] /\ leg' = [leg EXCEPT ![c] = @ \ {i}]
        /\ parDR' = [parDR EXCEPT ![i][k] = On(R, All(v), @)]
        /\ UNCHANGED <<pc, dataBin, dataDR, site, updated, parD0, base, reg>>
    BY <1>4, <1>5, <1>16 DEF LogDR, dataVars, work
  <2>2. Underway(c, k, p) /\ R \in updated[k] /\ Writing(c)
    BY <1>9, <2>1 DEF Writing
  <2>3. /\ parDR'[i][k][p] = v /\ i \notin leg'[c] /\ (k \in leg'[c] <=> k \in leg[c])
        /\ \A j \in Parity \ {i} : /\ parDR'[j][k][p] = parDR[j][k][p]
                                   /\ j \in leg'[c] <=> j \in leg[c]
    BY <1>5, <1>11, <2>1 DEF On, All
  <2>4. CASE pc[c] = "first"
    <3>1. FirstUnderway(c, k, p)
      BY <2>2, <2>4 DEF Underway
    <3>2. FirstUnderway(c, k, p)'
      BY <1>1, <1>4, <1>11, <2>1, <2>3, <2>4, <3>1 DEF FirstUnderway
    <3> QED BY <2>1, <2>2, <2>4, <3>2 DEF Underway, Writing
  <2>5. CASE pc[c] = "chunk"
    <3>1. LaterUnderway(c, k, p)
      BY <2>2, <2>5 DEF Underway
    <3>2. LaterUnderway(c, k, p)'
      BY <1>1, <1>4, <1>11, <2>1, <2>3, <2>5, <3>1 DEF LaterUnderway
    <3> QED BY <2>1, <2>2, <2>5, <3>2 DEF Underway, Writing
  <2> QED BY <2>1, <2>4, <2>5
<1>17. CASE StartBase(c)
  <2>1. /\ pc[c] = "first" /\ leg[c] = {} /\ pc' = [pc EXCEPT ![c] = "base"]
        /\ leg' = [leg EXCEPT ![c] = Parity]
        /\ UNCHANGED <<dataBin, dataDR, site, updated, parDR, parD0, base, reg>>
    BY <1>17 DEF StartBase, dataVars, parVars, work
  <2>2. FirstUnderway(c, k, p) /\ R \in updated[k]
    BY <1>9, <2>1 DEF Underway, Writing
  <2>3. pc'[c] = "base" /\ \A i \in Parity : i \in leg'[c] /\ i \notin leg[c]
    BY <2>1
  <2>4. Underway(c, k, p)'
    BY <1>1, <1>11, <2>1, <2>2, <2>3 DEF Underway, FirstUnderway
  <2> QED BY <2>1, <2>2, <2>3, <2>4 DEF Writing
<1>18. ASSUME NEW i \in Parity, LogBase(c, i)
       PROVE  /\ R \in updated'[k]
              /\ Writing(c)' /\ Underway(c, k, p)'
  <2>1. /\ pc[c] = "base" /\ i \in leg[c] /\ leg' = [leg EXCEPT ![c] = @ \ {i}]
        /\ parD0' = [parD0 EXCEPT ![i][k] = On(R, base[c], @)]
        /\ UNCHANGED <<pc, dataBin, dataDR, site, updated, parDR, base, reg>>
    BY <1>4, <1>5, <1>18 DEF LogBase, dataVars, work
  <2>2. FirstUnderway(c, k, p) /\ R \in updated[k]
    BY <1>9, <2>1 DEF Underway, Writing
  <2>3. /\ parD0'[i][k][p] = base[c][p] /\ i \notin leg'[c]
        /\ \A j \in Parity \ {i} : /\ parD0'[j][k][p] = parD0[j][k][p]
                                   /\ j \in leg'[c] <=> j \in leg[c]
    BY <1>5, <1>11, <2>1 DEF On
  <2>4. FirstUnderway(c, k, p)'
    BY <1>1, <1>4, <1>11, <2>1, <2>2, <2>3 DEF FirstUnderway
  <2> QED BY <2>1, <2>2, <2>4 DEF Underway, Writing
<1>19. CASE ReplyFirst(c)
  <2>1. /\ pc[c] = "base" /\ leg[c] = {} /\ pc' = [pc EXCEPT ![c] = "done"]
        /\ dataDR' = [dataDR EXCEPT ![k] = On(R, All(v), @)]
        /\ site' = [site EXCEPT ![k] = On(R, All(TRUE), @)]
        /\ reg' = [reg EXCEPT ![k] = On(R, All(v), @)]
        /\ UNCHANGED <<dataBin, updated, parDR, parD0>>
    BY <1>4, <1>5, <1>19 DEF ReplyFirst, parVars
  <2>2. FirstUnderway(c, k, p) /\ R \in updated[k]
    BY <1>9, <2>1 DEF Underway, Writing
  <2>3. \A i \in Parity : parDR[i][k][p] = v /\ parD0[i][k][p] = Kept(i, k, p)
    BY <1>4, <2>1, <2>2 DEF FirstUnderway
  <2>4. site'[k][p] /\ dataDR'[k][p] = v /\ reg'[k][p] = v
    BY <1>5, <2>1 DEF On, All
  <2>5. AtRest(k, p)'
    BY <1>11, <2>1, <2>3, <2>4 DEF AtRest
  <2> QED BY <1>11, <2>1, <2>2, <2>3, <2>5 DEF Writing
<1>20. CASE WriteChunk(c)
  <2>1. /\ pc[c] = "chunk" /\ k \in leg[c] /\ leg' = [leg EXCEPT ![c] = @ \ {k}]
        /\ dataBin' = [dataBin EXCEPT ![k] = On(R, All(v), @)]
        /\ reg' = [reg EXCEPT ![k] = On(R, All(v), @)]
        /\ UNCHANGED <<pc, dataDR, site, updated, parDR, parD0>>
    BY <1>4, <1>5, <1>20 DEF WriteChunk, parVars
  <2>2. LaterUnderway(c, k, p) /\ R \in updated[k]
    BY <1>9, <2>1 DEF Underway, Writing
  <2>3. /\ dataBin'[k][p] = v /\ reg'[k][p] = v
        /\ \A i \in Parity : i \in leg'[c] <=> i \in leg[c]
    BY <1>5, <1>11, <2>1 DEF On, All
  <2>4. LaterUnderway(c, k, p)'
    BY <1>1, <1>4, <1>11, <2>1, <2>2, <2>3 DEF LaterUnderway
  <2> QED BY <2>1, <2>2, <2>4 DEF Underway, Writing
<1>21. CASE ReplyLater(c)
  <2>1. /\ pc[c] = "chunk" /\ leg[c] = {} /\ pc' = [pc EXCEPT ![c] = "done"]
        /\ UNCHANGED <<dataBin, dataDR, site, updated, parDR, parD0, reg>>
    BY <1>21 DEF ReplyLater, dataVars, parVars
  <2>2. LaterUnderway(c, k, p) /\ R \in updated[k]
    BY <1>9, <2>1 DEF Underway, Writing
  <2>3. AtRest(k, p)'
    BY <1>4, <1>11, <2>1, <2>2 DEF AtRest, LaterUnderway
  <2>4. \A i \in Parity : parDR'[i][k][p] # None
    BY <2>1, <2>2 DEF LaterUnderway
  <2> QED BY <2>1, <2>2, <2>3, <2>4 DEF Writing
<1>22. ~ServeRead(c) /\ ~AcceptRepair(c) /\ ~AskShards(c) /\ ~ReplyDecode(c)
  BY <1>5 DEF ServeRead, AcceptRepair, AskShards, ReplyDecode, LegsInPlace
<1>23. /\ ~\E j \in Data : ShardRead(c, j)
       /\ ~\E i \in Parity : AnswerFromLog(c, i) \/ NotInLog(c, i) \/ ParityRead(c, i)
  BY <1>5 DEF ShardRead, AnswerFromLog, NotInLog, ParityRead, LegsInPlace
<1> QED BY <1>13, <1>14, <1>15, <1>16, <1>17, <1>18, <1>19, <1>20, <1>21, <1>22, <1>23
        DEF Serve

\* A part that no call writes is at rest in a live file.
LEMMA NobodyWrites ==
  ASSUME NEW k \in Data, NEW p \in Parts, PartInPlace(k, p), phase = "live",
         \A c \in Calls : ~Busy(c)
  PROVE  AtRest(k, p) /\ \A c \in Calls : ~Writes(c, k, p)
BY DEF PartInPlace, Writes, Writing, Busy

\* The steps of clients and of merges.
LEMMA PartManaged ==
  ASSUME Careful, TypeInv, Exclusion, MergedClean,
         NEW k \in Data, NEW p \in Parts, PartInPlace(k, p),
         \/ \E image \in Images : Create(image)
         \/ Clear
         \/ \E c \in Calls, r \in RangeRequest : Call(c, r)
         \/ AskMerge
         \/ \E j \in Data : MergeData(j)
         \/ \E i \in Parity : MergeParity(i)
  PROVE  PartInPlace(k, p)'
<1> USE DEF TypeInv, TypeOK
<1>1. reg[k][p] \in Value /\ \A w \in Value : w # None
  BY DabriAssumption
<1>2. ASSUME NEW image \in Images, Create(image)
      PROVE  PartInPlace(k, p)'
  <2>1. image \in [Data -> [Parts -> Value]]
    BY DabriAssumption
  <2>2. /\ phase = "absent" /\ phase' = "live" /\ merging = {}
        /\ dataBin' = image /\ reg' = image
        /\ \A i \in Parity : parBin'[i][p] = Encode([j \in Data |-> image[j][p]])
        /\ UNCHANGED <<dataDR, site, updated, parDR, parD0, pc, req, merging>>
        /\ \A c \in Calls : ~Busy(c)
    BY <1>2 DEF Create, calls, Quiet
  <2>3. updated[k] = {} /\ updated'[k] = {}
    BY <2>2 DEF Exclusion
  <2>4. /\ ~site[k][p] /\ dataDR[k][p] = None
        /\ \A i \in Parity : parDR[i][k][p] = None /\ parD0[i][k][p] = None
    BY <2>2, <2>3 DEF PartInPlace, Untouched
  <2>5. \A i \in Parity : Kept(i, k, p)' = image[k][p]
    <3> SUFFICES ASSUME NEW i \in Parity PROVE Kept(i, k, p)' = image[k][p]
      OBVIOUS
    <3>1. image[k][p] \subseteq Sym
      BY <2>1 DEF Value
    <3>2. \A x \in Sym : <<k, x>> \in parBin'[i][p] <=> x \in image[k][p]
      <4> SUFFICES ASSUME NEW x \in Sym
                   PROVE  <<k, x>> \in parBin'[i][p] <=> x \in image[k][p]
        OBVIOUS
      <4> DEFINE y   == <<k, x>>
                 row == [j \in Data |-> image[j][p]]
      <4>1. y \in Data \X Sym /\ y[1] = k /\ y[2] = x /\ row[k] = image[k][p]
        OBVIOUS
      <4>2. parBin'[i][p] = Encode(row)
        BY <2>2
      <4> HIDE DEF y, row
      <4>3. y \in Encode(row) <=> x \in image[k][p]
        BY <4>1 DEF Encode
      <4> QED BY <4>2, <4>3 DEF y
    <3> QED BY <3>1, <3>2 DEF Kept
  <2>6. \A c \in Calls : ~Writes(c, k, p)'
    BY <2>2 DEF Writes, Writing, Busy
  <2>7. AtRest(k, p)'
    BY <2>2, <2>4, <2>5 DEF AtRest
  <2> QED BY <2>2, <2>3, <2>4, <2>6, <2>7 DEF PartInPlace, Untouched, Recorded
<1>3. CASE Clear
  <2>1. /\ phase' = "absent" /\ updated'[k] = {} /\ dataDR'[k][p] = None
        /\ \A i \in Parity : parDR'[i][k][p] = None /\ parD0'[i][k][p] = None
        /\ UNCHANGED <<pc, req>> /\ \A c \in Calls : ~Busy(c)
        /\ site' \in [Data -> FreshSite]
    BY <1>3 DEF Clear, NoRecords, calls, Quiet
  <2>2. ~site'[k][p]
    BY <2>1 DEF Careful, FreshSite, Unset
  <2>3. \A c \in Calls : ~Writes(c, k, p)'
    BY <2>1 DEF Writes, Writing, Busy
  <2> QED BY <2>1, <2>2, <2>3 DEF PartInPlace, Untouched, Recorded
<1>4. ASSUME NEW c \in Calls, NEW r \in RangeRequest, Call(c, r)
      PROVE  PartInPlace(k, p)'
  <2>1. /\ pc' = [pc EXCEPT ![c] = "called"] /\ req' = [req EXCEPT ![c] = r]
        /\ pc[c] = "idle"
        /\ UNCHANGED <<phase, dataVars, parVars, leg, base, merging, reg>>
    BY <1>4 DEF Call, work
  <2>2. \A d \in Calls : Writes(d, k, p)' <=> Writes(d, k, p)
    BY <2>1 DEF Writes, Writing
  <2>3. \A d \in Calls : Writes(d, k, p) => /\ pc'[d] = pc[d] /\ leg'[d] = leg[d]
                                            /\ base'[d] = base[d] /\ req'[d] = req[d]
    BY <2>1 DEF Writes, Writing
  <2>4. SamePart(k, p) /\ \A i \in Parity : Kept(i, k, p)' = Kept(i, k, p)
    BY <2>1 DEF SamePart, Kept, dataVars, parVars
  <2>5. Untouched(k, p)' /\ Recorded(k, p)'
    BY <2>1, <2>2, <2>4 DEF PartInPlace, Untouched, Recorded, dataVars, parVars
  <2>6. AtRest(k, p)' <=> AtRest(k, p)
    <3> HIDE DEF TypeInv, TypeOK
    <3> QED BY <2>4 DEF AtRest, SamePart
  <2>7. ASSUME NEW d \in Calls, Writes(d, k, p)'
        PROVE  Underway(d, k, p)'
    <3>1. Underway(d, k, p)
      BY <2>2, <2>7 DEF PartInPlace
    <3> QED BY <2>2, <2>3, <2>4, <2>7, <3>1 DEF Underway, FirstUnderway, LaterUnderway,
            SamePart
  <2> QED BY <2>1, <2>2, <2>5, <2>6, <2>7 DEF PartInPlace
<1>5. CASE AskMerge
  <2>1. /\ phase = "live" /\ phase' = "live" /\ merging' # {} /\ merging = {}
        /\ UNCHANGED <<dataVars, parVars, calls, reg>>
        /\ \A c \in Calls : ~Busy(c)
    BY <1>5, StripeAssumption DEF AskMerge, Quiet, Server
  <2>2. AtRest(k, p) /\ \A c \in Calls : ~Writes(c, k, p)'
    BY <2>1, NobodyWrites DEF Writes, Writing, calls
  <2>3. AtRest(k, p)'
    BY <2>1, <2>2 DEF AtRest, Kept, dataVars, parVars
  <2>4. Untouched(k, p)'
    BY <2>1 DEF PartInPlace, Untouched, dataVars, parVars
  <2> QED BY <2>1, <2>2, <2>3, <2>4 DEF PartInPlace, Recorded
<1>6. ASSUME NEW j \in Data, MergeData(j)
      PROVE  PartInPlace(k, p)'
  <2>1. PICK f \in [Parts -> Value] :
          /\ \A q \in Parts : f[q] \in Contents(j, q)
          /\ dataBin' = [dataBin EXCEPT ![j] = f]
    BY <1>6 DEF MergeData
  <2>2. /\ merging # {} /\ merging' = merging \ {j}
        /\ dataDR' = [dataDR EXCEPT ![j] = NoRecords]
        /\ updated' = [updated EXCEPT ![j] = {}]
        /\ UNCHANGED <<phase, parVars, calls, reg>>
    BY <1>6 DEF MergeData
  <2>3. site' = [site EXCEPT ![j] = Unset]
    BY <1>6 DEF MergeData, Careful, FreshSite
  <2>4. phase = "live" /\ \A c \in Calls : ~Busy(c)
    BY <2>2 DEF Exclusion, Quiet
  <2>5. AtRest(k, p) /\ \A c \in Calls : ~Writes(c, k, p)'
    BY <2>2, <2>4, NobodyWrites DEF Writes, Writing, calls
  <2>6. CASE j = k
    <3>1. Contents(k, p) = {reg[k][p]}
      BY <1>1, <2>5 DEF AtRest, Contents
    <3>2. ~site'[k][p] /\ dataBin'[k][p] = reg[k][p] /\ updated'[k] = {}
          /\ dataDR'[k][p] = None
      BY <2>1, <2>2, <2>3, <2>6, <3>1 DEF Unset, NoRecords
    <3>3. AtRest(k, p)'
      BY <2>2, <2>5, <3>2 DEF AtRest, Kept, parVars
    <3>4. merging' = {} =>
            \A i \in Parity : parDR'[i][k][p] = None /\ parD0'[i][k][p] = None
      <4>1. merging' = {} => \A i \in Parity : i \notin merging
        BY <2>2, StripeAssumption
      <4> QED BY <2>2, <4>1 DEF MergedClean, parVars
    <3>5. Untouched(k, p)'
      BY <2>2, <3>2, <3>4 DEF Untouched
    <3> QED BY <2>5, <3>2, <3>3, <3>5 DEF PartInPlace, Recorded
  <2>7. CASE j # k
    <3>1. /\ site'[k] = site[k] /\ dataDR'[k] = dataDR[k] /\ dataBin'[k] = dataBin[k]
          /\ updated'[k] = updated[k]
      BY <2>1, <2>2, <2>3, <2>7
    <3>2. AtRest(k, p)'
      BY <2>2, <2>5, <3>1 DEF AtRest, Kept, parVars
    <3>3. merging' = {} =>
            /\ updated[k] = {}
            /\ \A i \in Parity : parDR'[i][k][p] = None /\ parD0'[i][k][p] = None
      <4>1. merging' = {} => k \notin merging /\ \A i \in Parity : i \notin merging
        BY <2>2, <2>7, StripeAssumption
      <4> QED BY <2>2, <4>1 DEF MergedClean, parVars
    <3>4. Untouched(k, p)'
      BY <2>2, <3>1, <3>3 DEF PartInPlace, Untouched
    <3>5. Recorded(k, p)'
      BY <3>1, <3>3 DEF Recorded
    <3> QED BY <2>5, <3>2, <3>4, <3>5 DEF PartInPlace
  <2> QED BY <2>6, <2>7
<1>7. ASSUME NEW j \in Parity, MergeParity(j)
      PROVE  PartInPlace(k, p)'
  <2>1. /\ merging # {} /\ merging' = merging \ {j}
        /\ parBin' = [parBin EXCEPT ![j] = [q \in Parts |-> @[q] (+) DeltaOf(j, q)]]
        /\ parDR' = [parDR EXCEPT ![j] = [h \in Data |-> NoRecords]]
        /\ parD0' = [parD0 EXCEPT ![j] = [h \in Data |-> NoRecords]]
        /\ UNCHANGED <<phase, dataVars, calls, reg>>
    BY <1>7 DEF MergeParity
  <2>2. phase = "live" /\ \A c \in Calls : ~Busy(c)
    BY <2>1 DEF Exclusion, Quiet
  <2>3. AtRest(k, p) /\ \A c \in Calls : ~Writes(c, k, p)'
    BY <2>1, <2>2, NobodyWrites DEF Writes, Writing, calls
  <2>4. parDR'[j][k][p] = None /\ parD0'[j][k][p] = None
    BY <2>1 DEF NoRecords
  <2>5. Kept(j, k, p)' = reg[k][p]
    <3>1. parBin'[j][p] = parBin[j][p] (+) DeltaOf(j, p)
      BY <2>1
    <3>2. Kept(j, k, p)' = ParityHolds(j, k, p)
      BY <3>1 DEF Kept, ParityHolds
    <3>3. /\ Kept(j, k, p) \in Value
          /\ parDR[j][k][p] = None => ParityHolds(j, k, p) = Kept(j, k, p)
          /\ parDR[j][k][p] # None /\ parD0[j][k][p] = Kept(j, k, p) =>
               ParityHolds(j, k, p) = parDR[j][k][p]
      BY HoldsParts
    <3>4. ParityHolds(j, k, p) = reg[k][p]
      BY <1>1, <2>3, <3>3 DEF AtRest
    <3> QED BY <3>2, <3>4
  <2>6. \A i \in Parity \ {j} : /\ parBin'[i] = parBin[i] /\ parDR'[i] = parDR[i]
                                /\ parD0'[i] = parD0[i]
    BY <2>1
  <2>7. AtRest(k, p)'
    BY <2>1, <2>3, <2>4, <2>5, <2>6 DEF AtRest, Kept, dataVars
  <2>8. merging' = {} =>
          /\ updated[k] = {}
          /\ \A i \in Parity : parDR'[i][k][p] = None /\ parD0'[i][k][p] = None
    <3>1. merging' = {} => k \notin merging /\ \A i \in Parity \ {j} : i \notin merging
      BY <2>1, StripeAssumption
    <3> QED BY <2>1, <2>4, <2>6, <3>1 DEF MergedClean
  <2>9. Untouched(k, p)'
    BY <2>1, <2>8 DEF PartInPlace, Untouched, dataVars
  <2>10. Recorded(k, p)'
    BY <2>1, <2>8 DEF Recorded, dataVars
  <2> QED BY <2>3, <2>7, <2>9, <2>10 DEF PartInPlace
<1> QED BY <1>2, <1>3, <1>4, <1>5, <1>6, <1>7

-----------------------------------------------------------------------------
(***************************************************************************)
(* The invariant, and what follows from it.                                *)
(***************************************************************************)
LEMMA InvInit == ASSUME Careful PROVE Init => DabriInv
<1> SUFFICES ASSUME Init PROVE DabriInv
  OBVIOUS
<1>1. TypeInv
  BY TypeInit
<1>2. Exclusion /\ LegsInPlace /\ MergedClean
  BY DEF Init, Exclusion, LegsInPlace, MergedClean, Quiet, Busy, Writing
<1>3. ASSUME NEW k \in Data, NEW p \in Parts
      PROVE  PartInPlace(k, p)
  <2>1. ~site[k][p]
    BY DEF Init, Careful, FreshSite, Unset
  <2>2. /\ phase = "absent" /\ updated[k] = {} /\ dataDR[k][p] = None
        /\ \A i \in Parity : parDR[i][k][p] = None /\ parD0[i][k][p] = None
        /\ \A c \in Calls : ~Writes(c, k, p)
    BY DEF Init, NoRecords, Writes, Writing
  <2> QED BY <2>1, <2>2 DEF PartInPlace, Untouched, Recorded
<1> QED BY <1>1, <1>2, <1>3 DEF DabriInv, TypeInv

LEMMA InvStep == ASSUME Careful PROVE DabriInv /\ [Next]_vars => DabriInv'
<1> SUFFICES ASSUME DabriInv, [Next]_vars PROVE DabriInv'
  OBVIOUS
<1>1. TypeInv /\ TypeInv'
  BY TypeStep DEF DabriInv, TypeInv
<1>2. Exclusion' /\ LegsInPlace' /\ MergedClean'
  BY <1>1, ExclusionStep, LegsStep, MergedCleanStep DEF DabriInv
<1>3. ASSUME NEW k \in Data, NEW p \in Parts
      PROVE  PartInPlace(k, p)'
  <2>1. PartInPlace(k, p)
    BY DEF DabriInv
  <2>2. ASSUME NEW c \in Calls, Serve(c)
        PROVE  PartInPlace(k, p)'
    BY <1>1, <2>1, <2>2, PartKept, PartWritten DEF DabriInv
  <2>3. CASE UNCHANGED vars
    BY <2>1, <2>3 DEF vars, dataVars, parVars, calls, work, PartInPlace, Untouched, Recorded,
       AtRest, Writes, Writing, Underway, FirstUnderway, LaterUnderway, Kept
  <2>4. CASE \/ \E image \in Images : Create(image)
             \/ Clear
             \/ \E c \in Calls, r \in RangeRequest : Call(c, r)
             \/ AskMerge
             \/ \E j \in Data : MergeData(j)
             \/ \E i \in Parity : MergeParity(i)
    BY <1>1, <2>1, <2>4, PartManaged DEF DabriInv
  <2> QED BY <2>2, <2>3, <2>4 DEF Next
<1> QED BY <1>1, <1>2, <1>3 DEF DabriInv, TypeInv

\* The inductive invariant holds in every reachable state: what first and later
\* updates, merges half done and records of earlier updates leave in each place
\* where a content may be.
THEOREM DabriInvariant ==
  ASSUME Careful
  PROVE  Spec => []DabriInv
<1>1. DabriInv /\ [Next]_vars => DabriInv'
  BY InvStep
<1> QED BY InvInit, <1>1, PTL DEF Spec

LEMMA RestingPart ==
  ASSUME TypeOK, NEW k \in Data, NEW p \in Parts, AtRest(k, p)
  PROVE  /\ Contents(k, p) = {reg[k][p]}
         /\ \A i \in Parity : /\ ParityHolds(i, k, p) = reg[k][p]
                              /\ parDR[i][k][p] # None => /\ parDR[i][k][p] = reg[k][p]
                                                          /\ parD0[i][k][p] # None
<1>1. reg[k][p] \in Value /\ \A w \in Value : w # None
  BY DabriAssumption DEF TypeOK
<1>2. Contents(k, p) = {reg[k][p]}
  BY <1>1 DEF AtRest, Contents
<1>3. \A i \in Parity : Kept(i, k, p) \in Value
  BY DEF Kept, Value
<1> QED BY <1>1, <1>2, <1>3, HoldsParts DEF AtRest

\* Wherever the current content of a part is, its server and P0 with the deltas
\* of every parity server hold the last content written, unless it is being
\* written: for every number of servers, parts, contents, calls and merges, and
\* all ranges that do not overlap.
THEOREM StripeCurrentAlways ==
  ASSUME Careful
  PROVE  Spec => []StripeCurrent
<1>1. DabriInv => StripeCurrent
  <2> SUFFICES ASSUME DabriInv, phase = "live", NEW k \in Data, NEW p \in Parts,
                      ~\E c \in Calls : Writing(c) /\ req[c].srv = k /\ p \in req[c].range
               PROVE  /\ Contents(k, p) = {reg[k][p]}
                      /\ \A i \in Parity : ParityHolds(i, k, p) = reg[k][p]
    BY DEF StripeCurrent
  <2>1. AtRest(k, p)
    BY DEF DabriInv, PartInPlace, Writes
  <2> QED BY <2>1, RestingPart DEF DabriInv
<1> QED BY <1>1, DabriInvariant, PTL

\* back() is never called on an empty vector.
THEOREM BackDefinedAlways ==
  ASSUME Careful
  PROVE  Spec => []BackDefined
<1>1. DabriInv => BackDefined
  <2> SUFFICES ASSUME DabriInv PROVE BackDefined
    OBVIOUS
  <2>1. ASSUME NEW k \in Data, NEW p \in Parts, phase # "live"
        PROVE  /\ ~site[k][p]
               /\ \A i \in Parity : parDR[i][k][p] = None
    BY <2>1 DEF DabriInv, PartInPlace, Untouched, Exclusion, Quiet
  <2>2. ASSUME NEW k \in Data, NEW p \in Parts, site[k][p]
        PROVE  dataDR[k][p] # None
    <3>1. phase = "live"
      BY <2>1, <2>2
    <3>2. \A c \in Calls : ~Writes(c, k, p)
      BY <2>2 DEF DabriInv, PartInPlace, Underway, FirstUnderway, LaterUnderway
    <3>3. dataDR[k][p] = reg[k][p] /\ reg[k][p] \in Value
      BY <2>2, <3>1, <3>2 DEF DabriInv, PartInPlace, AtRest, TypeOK
    <3> QED BY <3>3, DabriAssumption
  <2>3. ASSUME NEW i \in Parity, NEW k \in Data, NEW p \in Parts, parDR[i][k][p] # None,
               \/ \A c \in Calls : ~Busy(c)
               \/ \E c \in Calls : pc[c] = "decode" /\ p \in req[c].range
        PROVE  parD0[i][k][p] # None
    <3>1. phase = "live"
      BY <2>1, <2>3
    <3>2. \A c \in Calls : ~Writes(c, k, p)
      <4>1. CASE \A c \in Calls : ~Busy(c)
        BY <4>1 DEF Writes, Writing, Busy
      <4>2. ASSUME NEW c \in Calls, pc[c] = "decode", p \in req[c].range,
                   NEW d \in Calls, Writes(d, k, p)
            PROVE  FALSE
        <5>1. Busy(c) /\ req[c].op = "repair" /\ Busy(d) /\ req[d].op = "write" /\ c # d
          BY <4>2 DEF Busy, Writes, Writing, DabriInv, LegsInPlace
        <5>2. Compatible(req[c], req[d])
          BY <5>1 DEF DabriInv, Exclusion
        <5> QED BY <4>2, <5>1, <5>2 DEF Compatible, Writes
      <4> QED BY <2>3, <4>1, <4>2
    <3>3. AtRest(k, p)
      BY <3>1, <3>2 DEF DabriInv, PartInPlace
    <3> QED BY <2>3, <3>3, RestingPart DEF DabriInv
  <2> QED BY <2>2, <2>3 DEF BackDefined
<1> QED BY <1>1, DabriInvariant, PTL

\* Reads, and degraded reads served from the log of a parity server, return the
\* last content written to every part of their range.
THEOREM ReadsReturnLastAlways ==
  ASSUME Careful
  PROVE  Spec => ReadsReturnLast
<1> DEFINE Answered(c) == /\ pc[c] \in {"called", "ask"} /\ pc'[c] = "done"
                          /\ req[c].op \in {"read", "repair"}
                          => AnswerIsLast(c)
<1>1. DabriInv /\ [Next]_vars => [\A c \in Calls : Answered(c)]_vars
  <2> SUFFICES ASSUME DabriInv, Next, NEW c \in Calls,
                      pc[c] \in {"called", "ask"}, pc'[c] = "done",
                      req[c].op \in {"read", "repair"}
               PROVE  AnswerIsLast(c)
    OBVIOUS
  <2>1. TypeInv /\ TypeOK
    BY DEF DabriInv, TypeInv
  <2>2. Busy(c) /\ phase = "live" /\ req[c] \in RangeRequest
    BY <2>1, Serving DEF DabriInv, Busy, RequestsKnown
  <2>3. PICK k \in Data, R \in Ranges : k = req[c].srv /\ R = req[c].range
    BY <2>2, RangeRequestFields
  <2>4. R \subseteq Parts
    BY DabriAssumption
  <2>5. Serve(c)
    <3>1. ASSUME NEW d \in Calls, NEW r \in RangeRequest, Call(d, r)
          PROVE  FALSE
      BY <2>1, <3>1 DEF Call, TypeOK
    <3>2. ~(\/ \E image \in Images : Create(image)
            \/ Clear
            \/ AskMerge
            \/ \E j \in Data : MergeData(j)
            \/ \E i \in Parity : MergeParity(i))
      BY ManageFrame DEF calls
    <3>3. \A d \in Calls \ {c} : ~Serve(d)
      BY <2>1, ServeFrame
    <3> QED BY <3>1, <3>2, <3>3 DEF Next
  <2>6. ASSUME NEW p \in R
        PROVE  AtRest(k, p)
    <3> SUFFICES ASSUME NEW d \in Calls, Writes(d, k, p) PROVE FALSE
      BY <2>2, <2>4 DEF DabriInv, PartInPlace
    <3>1. Busy(d) /\ req[d].op = "write" /\ c # d
      BY DEF Busy, Writes, Writing, DabriInv, LegsInPlace
    <3>2. Compatible(req[c], req[d])
      BY <2>2, <3>1 DEF DabriInv, Exclusion
    <3> QED BY <2>3, <3>1, <3>2 DEF Compatible, Writes
  <2>7. CASE ServeRead(c)
    <3>1. PICK f \in [req[c].range -> Value] :
            /\ \A p \in req[c].range : f[p] \in Contents(req[c].srv, p)
            /\ result' = [result EXCEPT ![c] =
                            [p \in Parts |-> IF p \in req[c].range
                                             THEN Scale(req[c].srv, f[p]) ELSE {}]]
            /\ reg' = reg
      BY <2>7 DEF ServeRead
    <3>2. \A p \in R : f[p] = reg[k][p]
      BY <2>1, <2>3, <2>4, <2>6, <3>1, RestingPart
    <3>3. \A p \in R : result'[c][p] = Scale(k, f[p])
      BY <2>1, <2>3, <2>4, <3>1 DEF TypeOK
    <3> QED BY <2>3, <3>1, <3>2, <3>3 DEF AnswerIsLast
  <2>8. ASSUME NEW i \in Parity, AnswerFromLog(c, i)
        PROVE  AnswerIsLast(c)
    <3>1. /\ \A p \in R : parDR[i][k][p] # None
          /\ result' = [result EXCEPT ![c] =
                          [p \in Parts |-> IF p \in R THEN Scale(k, parDR[i][k][p]) ELSE {}]]
          /\ reg' = reg
      BY <2>3, <2>8 DEF AnswerFromLog
    <3>2. \A p \in R : parDR[i][k][p] = reg[k][p]
      BY <2>1, <2>4, <2>6, <3>1, RestingPart
    <3>3. \A p \in R : result'[c][p] = Scale(k, parDR[i][k][p])
      BY <2>1, <2>4, <3>1 DEF TypeOK
    <3> QED BY <2>3, <3>1, <3>2, <3>3 DEF AnswerIsLast
  <2>9. ~ReplyFirst(c) /\ ~ReplyLater(c) /\ ~ReplyDecode(c)
    BY DEF ReplyFirst, ReplyLater, ReplyDecode
  <2> USE <2>1 DEF TypeOK
  <2>10. /\ ~AcceptFirst(c) /\ ~AcceptLater(c) /\ ~ReadBase(c) /\ ~StartBase(c)
         /\ ~WriteChunk(c) /\ ~AcceptRepair(c) /\ ~AskShards(c)
    BY DEF AcceptFirst, AcceptLater, ReadBase, StartBase, WriteChunk, AcceptRepair, AskShards
  <2>11. /\ ~\E j \in Data : ShardRead(c, j)
         /\ ~\E i \in Parity : LogDR(c, i) \/ LogBase(c, i) \/ NotInLog(c, i) \/ ParityRead(c, i)
    BY DEF ShardRead, LogDR, LogBase, NotInLog, ParityRead
  <2> QED BY <2>5, <2>7, <2>8, <2>9, <2>10, <2>11 DEF Serve
<1>2. Spec => [][\A c \in Calls : Answered(c)]_vars
  BY <1>1, DabriInvariant, PTL DEF Spec
<1> QED BY <1>2 DEF ReadsReturnLast
=============================================================================
