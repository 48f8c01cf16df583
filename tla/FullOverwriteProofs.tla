------------------------ MODULE FullOverwriteProofs ------------------------
(***************************************************************************)
(* Proofs about the default update scheme, for any number of data servers, *)
(* parity servers, parts, symbols and calls, and any number of stops.      *)
(***************************************************************************)
EXTENDS FullOverwrite, StripeTheorems

\* The type invariant needs the requests of calls to be known.
IndType == TypeOK /\ RequestsKnown

LEMMA TypeInit == Init => IndType
  BY FullOverwriteAssumption
  DEF Init, IndType, TypeOK, RequestsKnown, InFlight, EmptyImage, EmptyParity,
      NoShard, NoSeen, NoLeg, Legs, Value, ParityValue, Server

\* Creating and clearing the file keeps the types.
LEMMA TypeManage ==
  ASSUME IndType, Manage
  PROVE  IndType'
<1> USE DEF IndType, TypeOK, RequestsKnown, InFlight, calls, files, life
<1>1. CASE StartCreate
  BY <1>1, FullOverwriteAssumption DEF StartCreate
<1>2. CASE EndCreate
  BY <1>2 DEF EndCreate, EmptyImage, Value
<1>3. CASE StartClear
  BY <1>3 DEF StartClear
<1>4. CASE EndClear
  BY <1>4 DEF EndClear
<1>5. ASSUME NEW s \in Server, CreateAt(s)
      PROVE  IndType'
  <2>1. CASE s \in Data
    BY <1>5, <2>1 DEF CreateAt
  <2>2. CASE s \notin Data
    <3>1. s \in Parity
      BY <2>2 DEF Server
    <3> DEFINE chunk == [p \in Parts |-> Encode([k \in Data |-> image[k][p]])]
    <3>2. chunk \in [Parts -> ParityValue]
      BY EncodeType
    <3>3. parBin' = [parBin EXCEPT ![s] = chunk]
      BY <1>5, <2>2 DEF CreateAt
    <3> HIDE DEF chunk
    <3>4. parBin' \in [Parity -> [Parts -> ParityValue]]
      BY <3>1, <3>2, <3>3
    <3> QED BY <1>5, <2>2, <3>4 DEF CreateAt
  <2> QED BY <2>1, <2>2
<1>6. ASSUME NEW s \in Server, ClearAt(s)
      PROVE  IndType'
  <2> DEFINE hole == [p \in Parts |-> {}]
  <2>1. hole \in [Parts -> Value] /\ hole \in [Parts -> ParityValue]
    BY DEF Value, ParityValue
  <2>2. \/ s \in Data /\ dataBin' = [dataBin EXCEPT ![s] = hole] /\ UNCHANGED parBin
        \/ s \in Parity /\ parBin' = [parBin EXCEPT ![s] = hole] /\ UNCHANGED dataBin
    BY <1>6 DEF ClearAt, Server
  <2> HIDE DEF hole
  <2>3. /\ dataBin' \in [Data -> [Parts -> Value]]
        /\ parBin' \in [Parity -> [Parts -> ParityValue]]
    <3>1. CASE s \in Data /\ dataBin' = [dataBin EXCEPT ![s] = hole] /\ UNCHANGED parBin
      BY <2>1, <3>1
    <3>2. CASE s \in Parity /\ parBin' = [parBin EXCEPT ![s] = hole] /\ UNCHANGED dataBin
      BY <2>1, <3>2
    <3> QED BY <2>2, <3>1, <3>2
  <2> QED BY <1>6, <2>3 DEF ClearAt
<1> QED BY <1>1, <1>2, <1>3, <1>4, <1>5, <1>6 DEF Manage

\* So does a call of a client.
LEMMA TypeCall ==
  ASSUME IndType, NEW c \in Calls, NEW r \in Request, Call(c, r)
  PROVE  IndType'
  BY DEF IndType, TypeOK, RequestsKnown, InFlight, calls, files, life, Call

\* A process that ends keeps the types; crashes is the caller's matter.
LEMMA TypeTerminate ==
  ASSUME IndType, crashes' \in Nat, NEW s \in Server, Terminate(s)
  PROVE  IndType'
<1> USE DEF IndType, TypeOK, RequestsKnown, InFlight, calls, files, life
<1>1. {req[d].part : d \in {e \in Calls : Cut(e) /\ req[e].srv = s}} \subseteq Parts
  BY RequestFields DEF Cut
<1>2. torn' \in SUBSET Parts
  BY <1>1 DEF Terminate
<1>3. leg' \in [Calls -> [Server -> Legs]]
  BY DEF Terminate, Legs
<1>4. pc' \in [Calls -> {"idle", "called", "run", "done", "failed"}]
  BY DEF Terminate
<1>5. ASSUME NEW d \in Calls, pc'[d] # "idle" \/ InFlight(d)'
      PROVE  req'[d] \in Request
  <2>1. pc[d] # "idle" \/ InFlight(d)
    BY <1>5 DEF Terminate, Active
  <2> QED BY <2>1 DEF Terminate
<1> QED BY <1>2, <1>3, <1>4, <1>5 DEF Terminate

\* The steps of the code that serves one call keep the types.
LEMMA TypeServe ==
  ASSUME IndType, NEW c \in Calls, Serve(c)
  PROVE  IndType'
<1> USE DEF IndType, TypeOK, RequestsKnown, InFlight, calls, files, life
<1>1. CASE CallFails(c)
  BY <1>1 DEF CallFails
<1>2. CASE ServeRead(c)
  <2>1. req[c] \in Request
    BY <1>2 DEF ServeRead
  <2>2. Scale(req[c].srv, dataBin[req[c].srv][req[c].part]) \in ParityValue
    BY <2>1, RequestFields, ScaleType
  <2> QED BY <1>2, <2>2 DEF ServeRead
<1>3. CASE AcceptWrite(c)
  <2>1. req[c] \in Request
    BY <1>3 DEF AcceptWrite
  <2>2. dataBin[req[c].srv][req[c].part] \in Value
    BY <2>1, RequestFields
  <2>3. leg' \in [Calls -> [Server -> Legs]]
    BY <1>3 DEF AcceptWrite, Legs
  <2> QED BY <1>3, <2>1, <2>2, <2>3 DEF AcceptWrite
<1>4. CASE WriteChunk(c)
  <2>1. req[c] \in Request
    BY <1>4 DEF WriteChunk, Running
  <2>2. dataBin' \in [Data -> [Parts -> Value]]
    BY <1>4, <2>1, RequestFields DEF WriteChunk
  <2>3. leg' \in [Calls -> [Server -> Legs]]
    BY <1>4 DEF WriteChunk, Legs
  <2>4. \A d \in Calls : pc[d] = "idle" => \A s \in Server : leg'[d][s] \in {"sent", "read"} => leg[d][s] \in {"sent", "read"}
    BY <1>4 DEF WriteChunk
  <2> QED BY <1>4, <2>1, <2>2, <2>3, <2>4 DEF WriteChunk
<1>5. CASE ReplyWrite(c)
  BY <1>5 DEF ReplyWrite, Running, NoLeg, NoShard, Value, Legs
<1>6. CASE AcceptRepair(c)
  <2>1. leg' \in [Calls -> [Server -> Legs]]
    BY <1>6 DEF AcceptRepair, Legs
  <2> QED BY <1>6, <2>1 DEF AcceptRepair
<1>7. CASE ReplyRepair(c)
  <2>1. req[c] \in Request
    BY <1>7 DEF ReplyRepair, Running
  <2>2. Decode(req[c].srv, shard[c], seen[c][FirstParity]) \in ParityValue
    BY <2>1, RequestFields, DecodeType, StripeAssumption
  <2> QED BY <1>7, <2>1, <2>2 DEF ReplyRepair, NoLeg, NoShard, NoSeen, Value, ParityValue, Legs
<1>8. ASSUME NEW s \in Server, Send(c, s)
      PROVE  IndType'
  BY <1>8 DEF Send, Running, Legs
<1>9. ASSUME NEW s \in Server, ShardRead(c, s)
      PROVE  IndType'
  <2>1. req[c] \in Request
    BY <1>9 DEF ShardRead
  <2>2. req[c].part \in Parts
    BY <2>1, RequestFields
  <2>3. /\ shard' \in [Calls -> [Data -> Value]]
        /\ seen' \in [Calls -> [Parity -> ParityValue]]
    <3> DEFINE d == dataBin[s][req[c].part]
               q == parBin[s][req[c].part]
    <3>1. CASE s \in Data
      <4>1. d \in Value
        BY <2>2, <3>1
      <4>2. shard' = [shard EXCEPT ![c][s] = d] /\ seen' = seen
        BY <1>9, <3>1 DEF ShardRead
      <4> HIDE DEF d
      <4> QED BY <3>1, <4>1, <4>2
    <3>2. CASE s \in Parity \ Data
      <4>1. q \in ParityValue
        BY <2>2, <3>2
      <4>2. seen' = [seen EXCEPT ![c][s] = q] /\ shard' = shard
        BY <1>9, <3>2 DEF ShardRead
      <4> HIDE DEF q
      <4> QED BY <3>2, <4>1, <4>2
    <3> QED BY <3>1, <3>2 DEF Server
  <2> QED BY <1>9, <2>1, <2>3 DEF ShardRead, Legs
<1>10. ASSUME NEW i \in Parity, ParityRead(c, i)
       PROVE  IndType'
  <2>1. req[c] \in Request
    BY <1>10 DEF ParityRead, Server
  <2>2. parBin[i][req[c].part] \in ParityValue
    BY <2>1, RequestFields
  <2> QED BY <1>10, <2>1, <2>2 DEF ParityRead, Legs, Server
<1>11. ASSUME NEW i \in Parity, ParityWrite(c, i)
       PROVE  IndType'
  <2>1. req[c] \in Request
    BY <1>11 DEF ParityWrite, Server
  <2>2. seen[c][i] (+) Delta(c) \in ParityValue
    <3>1. Delta(c) \in ParityValue
      BY <2>1, RequestFields, AddType, ScaleType DEF Delta
    <3>2. seen[c][i] \in ParityValue
      OBVIOUS
    <3> QED BY <3>1, <3>2, ParityAddType
  <2> DEFINE new == seen[c][i] (+) Delta(c)
  <2>5. parBin' = [parBin EXCEPT ![i][req[c].part] = new]
    BY <1>11 DEF ParityWrite
  <2>3. parBin' \in [Parity -> [Parts -> ParityValue]]
    <3>1. new \in ParityValue
      BY <2>2
    <3> HIDE DEF new
    <3> QED BY <2>5, <3>1
  <2>4. seen' \in [Calls -> [Parity -> ParityValue]]
    BY <1>11 DEF ParityWrite, ParityValue
  <2> QED BY <1>11, <2>1, <2>3, <2>4 DEF ParityWrite, Legs, Server
<1>12. ASSUME NEW s \in Server, SendFails(c, s) \/ LegLost(c, s)
       PROVE  IndType'
  <2>1. req[c].srv \in Server
    BY <1>12, RequestFields DEF SendFails, LegLost, Running
  <2> QED BY <1>12, <2>1, TypeTerminate DEF SendFails, LegLost
<1> QED BY <1>1, <1>2, <1>3, <1>4, <1>5, <1>6, <1>7, <1>8, <1>9, <1>10, <1>11,
           <1>12 DEF Serve

\* Stops and starts keep the types.
LEMMA TypeStop ==
  ASSUME IndType, NEW s \in Server, Crash(s) \/ Restart(s)
  PROVE  IndType'
<1>1. CASE Crash(s)
  BY <1>1, TypeTerminate, FullOverwriteAssumption DEF Crash, IndType, TypeOK
<1>2. CASE Restart(s)
  BY <1>2 DEF Restart, IndType, TypeOK, RequestsKnown, InFlight, calls, files, life
<1> QED BY <1>1, <1>2

LEMMA TypeStep == IndType /\ [Next]_vars => IndType'
<1> SUFFICES ASSUME IndType, [Next]_vars PROVE IndType'
  OBVIOUS
<1>1. CASE UNCHANGED vars
  BY <1>1 DEF vars, calls, files, life, IndType, TypeOK, RequestsKnown, InFlight
<1>2. CASE Next
  BY <1>2, TypeManage, TypeCall, TypeServe, TypeStop DEF Next
<1> QED BY <1>1, <1>2

\* Every variable keeps its type, under any discipline of the callers.
THEOREM TypeCorrect == Spec => []TypeOK
<1>1. IndType => TypeOK
  BY DEF IndType
<1> QED BY TypeInit, TypeStep, <1>1, PTL DEF Spec

-----------------------------------------------------------------------------
(***************************************************************************)
(* Callers that keep to the "stripe" discipline: the parity of a part at   *)
(* rest is the encoding of its data.  Of the conjuncts of IndInv, each     *)
(* lemma shows that one kind of step keeps one of them.                    *)
(***************************************************************************)

LEMMA InvInit == Init => IndInv
<1> SUFFICES ASSUME Init PROVE IndInv
  OBVIOUS
<1>1. TypeOK /\ RequestsKnown
  BY TypeInit DEF IndType
<1>2. \A c \in Calls : ~Active(c) /\ ~InFlight(c) /\ ~Writing(c) /\ ~Repairing(c)
  BY DEF Init, Active, InFlight, Writing, Repairing, NoLeg
<1>3. LegsInPlace
  BY <1>2 DEF Init, LegsInPlace, NoLeg
<1> QED
  BY <1>1, <1>2, <1>3 DEF IndInv, Init, Exclusion, QuietUnlessLive, Quiet, OrphansTorn,
     WritesInPlace, RepairsInPlace, Creating, StripeConsistent

\* Only a new call makes a call active, so the others keep what Call checked.
LEMMA ExclusionStep ==
  ASSUME IndInv, [Next]_vars
  PROVE  Exclusion'
<1> USE DEF IndInv, Exclusion, Active
<1>1. ASSUME NEW c \in Calls, NEW r \in Request, Call(c, r)
      PROVE  Exclusion'
  <2>1. \A d \in Calls \ {c} : pc'[d] = pc[d] /\ req'[d] = req[d]
    BY <1>1 DEF Call, TypeOK
  <2>2. req'[c] = r /\ \A d \in Calls : Active(d) => Compatible(r, req[d])
    BY <1>1 DEF Call, TypeOK
  <2>3. \A q, t \in Request : Compatible(q, t) => Compatible(t, q)
    BY DEF Compatible
  <2>4. \A d \in Calls : Active(d) => req[d] \in Request
    BY DEF RequestsKnown
  <2>5. \A d \in Calls : Active(d) => Compatible(req[d], r)
    BY <2>2, <2>3, <2>4
  <2> SUFFICES ASSUME NEW d \in Calls, NEW e \in Calls, d # e, Active(d)', Active(e)'
               PROVE  Compatible(req[d], req[e])'
    OBVIOUS
  <2>6. CASE d # c /\ e # c
    BY <2>1, <2>6 DEF Compatible
  <2>7. CASE d = c
    BY <2>1, <2>2, <2>7 DEF Compatible
  <2>8. CASE e = c
    BY <2>1, <2>2, <2>5, <2>8 DEF Compatible
  <2> QED BY <2>6, <2>7, <2>8
<1>2. ASSUME \A c \in Calls : pc'[c] \in {"called", "run"} => Active(c), UNCHANGED req
      PROVE  Exclusion'
  BY <1>2 DEF Compatible
<1>3. CASE Manage
  BY <1>2, <1>3 DEF Manage, StartCreate, EndCreate, StartClear, EndClear, CreateAt, ClearAt,
     calls
<1>4. ASSUME NEW c \in Calls, Serve(c)
      PROVE  Exclusion'
  <2>1. CASE \/ CallFails(c) \/ ServeRead(c) \/ AcceptWrite(c) \/ WriteChunk(c)
             \/ ReplyWrite(c) \/ AcceptRepair(c) \/ ReplyRepair(c)
    <3>1. \E v \in {"failed", "done", "run", pc[c]} :
            (v = "run" => Active(c)) /\ pc' = [pc EXCEPT ![c] = v]
      BY <2>1 DEF CallFails, ServeRead, AcceptWrite, WriteChunk, ReplyWrite,
         AcceptRepair, ReplyRepair, Running, TypeOK
    <3>2. UNCHANGED req
      BY <2>1 DEF CallFails, ServeRead, AcceptWrite, WriteChunk, ReplyWrite,
         AcceptRepair, ReplyRepair
    <3>3. \A d \in Calls : pc'[d] \in {"called", "run"} => Active(d)
      BY <3>1 DEF TypeOK
    <3> QED BY <1>2, <3>2, <3>3
  <2>2. ASSUME NEW s \in Server, Send(c, s) \/ ShardRead(c, s)
        PROVE  Exclusion'
    BY <1>2, <2>2 DEF Send, ShardRead
  <2>3. ASSUME NEW s \in Server, SendFails(c, s) \/ LegLost(c, s)
        PROVE  Exclusion'
    <3>1. Terminate(req[c].srv)
      BY <2>3 DEF SendFails, LegLost
    <3> QED BY <1>2, <3>1 DEF Terminate
  <2>4. ASSUME NEW i \in Parity, ParityRead(c, i) \/ ParityWrite(c, i)
        PROVE  Exclusion'
    BY <1>2, <2>4 DEF ParityRead, ParityWrite
  <2> QED BY <1>4, <2>1, <2>2, <2>3, <2>4 DEF Serve
<1>5. ASSUME NEW s \in Server, Crash(s) \/ Restart(s)
      PROVE  Exclusion'
  BY <1>2, <1>5 DEF Crash, Restart, Terminate, calls
<1>6. CASE UNCHANGED vars
  BY <1>2, <1>6 DEF vars, calls
<1> QED BY <1>1, <1>3, <1>4, <1>5, <1>6 DEF Next

\* What a process that ends does to the calls.
LEMMA TerminateFrame ==
  ASSUME IndType, NEW s \in Server, Terminate(s), NEW d \in Calls
  PROVE  /\ pc'[d] = pc[d] \/ (pc'[d] = "failed" /\ Active(d) /\ req[d].srv = s)
         /\ pc'[d] # "failed" /\ Active(d) => req[d].srv # s
         /\ \A t \in Server :
              \/ leg'[d][t] = leg[d][t]
              \/ leg'[d][t] = "lost" /\ t = s /\ leg[d][t] \in {"sent", "read"}
         /\ torn \subseteq torn'
         /\ Cut(d) /\ req[d].srv = s => req[d].part \in torn'
         /\ UNCHANGED <<life, files, req, shard, seen, result>>
<1>1. pc'[d] = IF Active(d) /\ req[d].srv = s THEN "failed" ELSE pc[d]
  BY DEF Terminate
<1>2. leg'[d] = IF leg[d][s] \in {"sent", "read"} THEN [leg[d] EXCEPT ![s] = "lost"] ELSE leg[d]
  BY DEF Terminate
<1>3. leg[d] \in [Server -> Legs]
  BY DEF IndType, TypeOK
<1>4. \A t \in Server :
        \/ leg'[d][t] = leg[d][t]
        \/ leg'[d][t] = "lost" /\ t = s /\ leg[d][t] \in {"sent", "read"}
  BY <1>2, <1>3
<1>5. torn \subseteq torn' /\ (Cut(d) /\ req[d].srv = s => req[d].part \in torn')
  BY DEF Terminate
<1>6. UNCHANGED <<life, files, req, shard, seen, result>>
  BY DEF Terminate
<1>7. /\ pc'[d] = pc[d] \/ (pc'[d] = "failed" /\ Active(d) /\ req[d].srv = s)
      /\ pc'[d] # "failed" /\ Active(d) => req[d].srv # s
  BY <1>1
<1> QED BY <1>4, <1>5, <1>6, <1>7

\* A step that serves call c leaves the other calls alone, unless it ends the
\* process of the data server.
LEMMA ServeFrame ==
  ASSUME IndType, NEW c \in Calls, Serve(c)
  PROVE  /\ Active(c) \/ InFlight(c)
         /\ UNCHANGED <<life, req>>
         /\ \/ \E s \in Server : Terminate(s)
            \/ /\ UNCHANGED torn
               /\ \A d \in Calls \ {c} :
                    /\ pc'[d] = pc[d] /\ leg'[d] = leg[d]
                    /\ shard'[d] = shard[d] /\ seen'[d] = seen[d]
<1> USE DEF IndType, TypeOK, Active, files, life
<1>1. CASE CallFails(c)
  BY <1>1 DEF CallFails
<1>2. CASE ServeRead(c)
  BY <1>2 DEF ServeRead
<1>3. CASE AcceptWrite(c)
  BY <1>3 DEF AcceptWrite
<1>4. CASE WriteChunk(c)
  BY <1>4 DEF WriteChunk, Running
<1>5. CASE ReplyWrite(c)
  BY <1>5 DEF ReplyWrite, Running
<1>6. CASE AcceptRepair(c)
  BY <1>6 DEF AcceptRepair
<1>7. CASE ReplyRepair(c)
  BY <1>7 DEF ReplyRepair, Running
<1>8. ASSUME NEW s \in Server, Send(c, s)
      PROVE  /\ Active(c) /\ UNCHANGED <<life, req, torn, pc, shard, seen>>
             /\ \A d \in Calls \ {c} : leg'[d] = leg[d]
  BY <1>8 DEF Send, Running
<1>9. ASSUME NEW s \in Server, ShardRead(c, s)
      PROVE  /\ InFlight(c) /\ UNCHANGED <<life, req, torn, pc>>
             /\ \A d \in Calls \ {c} :
                  leg'[d] = leg[d] /\ shard'[d] = shard[d] /\ seen'[d] = seen[d]
  BY <1>9 DEF ShardRead, InFlight
<1>10. ASSUME NEW i \in Parity, ParityRead(c, i) \/ ParityWrite(c, i)
       PROVE  /\ InFlight(c) /\ UNCHANGED <<life, req, torn, pc, shard>>
              /\ \A d \in Calls \ {c} : leg'[d] = leg[d] /\ seen'[d] = seen[d]
  BY <1>10 DEF ParityRead, ParityWrite, InFlight, Server
<1>11. ASSUME NEW s \in Server, SendFails(c, s) \/ LegLost(c, s)
       PROVE  Active(c) /\ UNCHANGED <<life, req>> /\ \E t \in Server : Terminate(t)
  <2>1. Active(c) /\ req[c].srv \in Server
    BY <1>11, RequestFields DEF SendFails, LegLost, Running, RequestsKnown
  <2> QED BY <1>11, <2>1 DEF SendFails, LegLost, Terminate
<1> QED BY <1>1, <1>2, <1>3, <1>4, <1>5, <1>6, <1>7, <1>8, <1>9, <1>10, <1>11 DEF Serve

\* Requests are only under way while the file is live.
LEMMA QuietStep ==
  ASSUME IndInv, [Next]_vars
  PROVE  QuietUnlessLive'
<1> USE DEF IndInv, IndType, QuietUnlessLive, Quiet
<1>1. ASSUME UNCHANGED phase,
             \A d \in Calls : Active(d)' \/ InFlight(d)' => Active(d) \/ InFlight(d)
      PROVE  QuietUnlessLive'
  BY <1>1
<1>2. CASE Manage
  BY <1>2 DEF Manage, StartCreate, EndCreate, StartClear, EndClear, CreateAt, ClearAt,
     Active, InFlight, calls
<1>3. ASSUME NEW c \in Calls, NEW r \in Request, Call(c, r)
      PROVE  QuietUnlessLive'
  BY <1>3 DEF Call, life
<1>4. ASSUME NEW s \in Server, Terminate(s)
      PROVE  QuietUnlessLive'
  <2>1. \A d \in Calls : Active(d)' => Active(d)
    BY <1>4, TerminateFrame DEF Active
  <2>2. \A d \in Calls : InFlight(d)' => InFlight(d)
    BY <1>4, TerminateFrame DEF InFlight
  <2>3. UNCHANGED phase
    BY <1>4 DEF Terminate, life
  <2> QED BY <1>1, <2>1, <2>2, <2>3
<1>5. ASSUME NEW c \in Calls, Serve(c)
      PROVE  QuietUnlessLive'
  <2>1. CASE \E s \in Server : Terminate(s)
    BY <1>4, <2>1
  <2>2. CASE ~\E s \in Server : Terminate(s)
    <3>1. \A d \in Calls \ {c} : (Active(d)' => Active(d)) /\ (InFlight(d)' => InFlight(d))
      BY <1>5, <2>2, ServeFrame DEF Active, InFlight
    <3>2. Active(c) \/ InFlight(c)
      BY <1>5, ServeFrame
    <3>3. UNCHANGED phase
      BY <1>5, ServeFrame DEF life
    <3> QED BY <1>1, <3>1, <3>2, <3>3
  <2> QED BY <2>1, <2>2
<1>6. ASSUME NEW s \in Server, Restart(s)
      PROVE  QuietUnlessLive'
  BY <1>6 DEF Restart, life, calls, Active, InFlight
<1>7. CASE UNCHANGED vars
  BY <1>7 DEF vars, life, calls, Active, InFlight
<1> QED BY <1>2, <1>3, <1>4, <1>5, <1>6, <1>7 DEF Next, Crash

\* What LegsInPlace says of one call.
LegsAt(c) ==
  /\ pc[c] \in {"idle", "called", "done"} => leg[c] = NoLeg
  /\ pc[c] = "run" => req[c].op # "read"
  /\ Writing(c) => /\ leg[c][req[c].srv] \in {"todo", "done"}
                   /\ \A i \in Parity : leg[c][i] # "none"
                   /\ \A s \in Data \ {req[c].srv} : leg[c][s] = "none"
  /\ \A s \in Server :
       leg[c][s] = "read" => req[c].op = "write" /\ s \in Parity

\* The threads of a handler stay in the states their operation has.
LEMMA LegsStep ==
  ASSUME IndInv, [Next]_vars
  PROVE  LegsInPlace'
<1> SUFFICES ASSUME NEW d \in Calls PROVE LegsAt(d)'
  BY DEF LegsInPlace, LegsAt
<1>1. LegsAt(d)
  BY DEF IndInv, LegsInPlace, LegsAt
<1> USE DEF IndInv, IndType, TypeOK
<1>2. ASSUME pc'[d] = pc[d], leg'[d] = leg[d], req'[d] = req[d]
      PROVE  LegsAt(d)'
  BY <1>1, <1>2 DEF LegsAt, Writing
<1>3. CASE Manage
  BY <1>2, <1>3 DEF Manage, StartCreate, EndCreate, StartClear, EndClear, CreateAt, ClearAt,
     calls
<1>4. ASSUME NEW c \in Calls, NEW r \in Request, Call(c, r)
      PROVE  LegsAt(d)'
  <2>1. CASE c = d
    BY <1>1, <1>4, <2>1 DEF Call, LegsAt, Writing, NoLeg
  <2>2. CASE c # d
    BY <1>2, <1>4, <2>2 DEF Call
  <2> QED BY <2>1, <2>2
<1>5. ASSUME NEW s \in Server, Terminate(s)
      PROVE  LegsAt(d)'
  <2>1. UNCHANGED req /\ (pc'[d] = pc[d] \/ pc'[d] = "failed")
    BY <1>5, TerminateFrame
  <2>2. \A t \in Server :
          \/ leg'[d][t] = leg[d][t]
          \/ leg'[d][t] = "lost" /\ leg[d][t] \in {"sent", "read"}
    BY <1>5, TerminateFrame
  <2>3. pc[d] \in {"idle", "called", "done"} => leg'[d] = leg[d]
    <3>1. leg'[d] = IF leg[d][s] \in {"sent", "read"} THEN [leg[d] EXCEPT ![s] = "lost"]
                    ELSE leg[d]
      BY <1>5 DEF Terminate
    <3> QED BY <1>1, <3>1 DEF LegsAt, NoLeg
  <2>4. pc[d] = "run" => req[d].srv \in Server
    BY RequestFields DEF RequestsKnown
  <2> HIDE DEF IndInv, IndType, TypeOK
  <2>5. pc'[d] \in {"idle", "called", "done", "run"} => pc'[d] = pc[d]
    BY <2>1
  <2> QED BY <1>1, <2>1, <2>2, <2>3, <2>4, <2>5 DEF LegsAt, Writing, Server
<1>6. ASSUME NEW c \in Calls, Serve(c)
      PROVE  LegsAt(d)'
  <2>1. CASE \E s \in Server : Terminate(s)
    BY <1>5, <2>1
  <2>2. CASE d # c /\ ~\E s \in Server : Terminate(s)
    BY <1>2, <1>6, <2>2, ServeFrame
  <2>3. CASE d = c
    <3>1. pc[c] # "idle" => /\ req[c].srv \in Data /\ req[c].srv \notin Parity
                            /\ req[c].srv \in Server
      BY RequestFields, StripeAssumption DEF RequestsKnown
    <3> USE <2>3, <1>1 DEF LegsAt, Writing
    <3>2. CASE CallFails(c)
      BY <3>2 DEF CallFails, NoLeg
    <3>3. CASE ServeRead(c)
      BY <3>3 DEF ServeRead
    <3>4. CASE AcceptWrite(c)
      <4>1. /\ pc'[c] = "run" /\ req' = req
            /\ leg'[c] = [s \in Server |-> IF s \in Parity \cup {req[c].srv}
                                           THEN "todo" ELSE "none"]
        BY <3>4 DEF AcceptWrite
      <4>2. /\ leg'[c][req[c].srv] = "todo"
            /\ \A i \in Parity : leg'[c][i] = "todo"
            /\ \A s \in Data \ {req[c].srv} : leg'[c][s] = "none"
            /\ \A s \in Server : leg'[c][s] # "read"
        BY <3>1, <3>4, <4>1, StripeAssumption DEF AcceptWrite, Server
      <4>3. req[c].op = "write"
        BY <3>4 DEF AcceptWrite
      <4> QED BY <4>1, <4>2, <4>3
    <3>5. CASE WriteChunk(c)
      BY <3>1, <3>5 DEF WriteChunk, Running
    <3>6. CASE ReplyWrite(c)
      BY <3>6 DEF ReplyWrite, Running, NoLeg
    <3>7. CASE AcceptRepair(c)
      BY <3>7 DEF AcceptRepair
    <3>8. CASE ReplyRepair(c)
      BY <3>8 DEF ReplyRepair, Running, NoLeg
    <3>9. ASSUME NEW s \in Server, Send(c, s)
          PROVE  LegsAt(c)'
      BY <3>9 DEF Send, Running
    <3>10. ASSUME NEW s \in Server, ShardRead(c, s)
           PROVE  LegsAt(c)'
      BY <3>10 DEF ShardRead, NoLeg
    <3>11. ASSUME NEW i \in Parity, ParityRead(c, i)
           PROVE  LegsAt(c)'
      BY <3>1, <3>11 DEF ParityRead, NoLeg, Server
    <3>12. ASSUME NEW i \in Parity, ParityWrite(c, i)
           PROVE  LegsAt(c)'
      BY <3>1, <3>12 DEF ParityWrite, NoLeg, Server
    <3>13. ASSUME NEW s \in Server, SendFails(c, s) \/ LegLost(c, s)
           PROVE  \E t \in Server : Terminate(t)
      BY <3>1, <3>13 DEF SendFails, LegLost, Running
    <3> QED BY <1>6, <2>1, <3>2, <3>3, <3>4, <3>5, <3>6, <3>7, <3>8, <3>9, <3>10, <3>11,
               <3>12, <3>13 DEF Serve
  <2> QED BY <2>1, <2>2, <2>3
<1>7. ASSUME NEW s \in Server, Restart(s)
      PROVE  LegsAt(d)'
  BY <1>2, <1>7 DEF Restart, calls
<1>8. CASE UNCHANGED vars
  BY <1>2, <1>8 DEF vars, calls
<1> QED BY <1>3, <1>4, <1>5, <1>6, <1>7, <1>8 DEF Next, Crash

\* A write that fails with requests under way was cut.
LEMMA OrphansStep ==
  ASSUME IndInv, [Next]_vars
  PROVE  OrphansTorn'
<1> DEFINE Orphan(d) == pc[d] = "failed" /\ req[d].op = "write" /\ InFlight(d)
<1> SUFFICES ASSUME NEW d \in Calls, Orphan(d)' PROVE (req[d].part \in torn)'
  BY DEF OrphansTorn
<1>1. Orphan(d) => req[d].part \in torn
  BY DEF IndInv, OrphansTorn
<1> USE DEF IndInv, IndType, TypeOK
<1>2. CASE Orphan(d) /\ req'[d] = req[d] /\ torn \subseteq torn'
  BY <1>1, <1>2
<1>3. CASE Manage
  <2>1. CASE StartCreate
    BY <1>1, <2>1 DEF StartCreate, Quiet, InFlight, calls
  <2>2. CASE ~StartCreate
    BY <1>2, <1>3, <2>2 DEF Manage, EndCreate, StartClear, EndClear, CreateAt, ClearAt,
       calls, InFlight
  <2> QED BY <2>1, <2>2
<1>4. ASSUME NEW c \in Calls, NEW r \in Request, Call(c, r)
      PROVE  (req[d].part \in torn)'
  BY <1>2, <1>4 DEF Call, InFlight
<1>5. ASSUME NEW s \in Server, Terminate(s)
      PROVE  (req[d].part \in torn)'
  <2>1. InFlight(d)
    BY <1>5, TerminateFrame DEF InFlight
  <2>2. UNCHANGED req /\ torn \subseteq torn'
    BY <1>5, TerminateFrame
  <2>3a. req[d].op = "write"
    BY <2>2
  <2>3. CASE pc[d] = "failed"
    BY <1>2, <2>1, <2>2, <2>3
  <2>4. CASE pc[d] # "failed"
    <3>1. Active(d) /\ req[d].srv = s
      BY <1>5, <2>4, TerminateFrame
    <3>2. pc[d] = "run"
      BY <2>1, <3>1 DEF Active, LegsInPlace, NoLeg, InFlight
    <3>3. PICK t \in Server : leg[d][t] \in {"sent", "read"}
      BY <2>1 DEF InFlight
    <3>4. t \in Parity \cup {req[d].srv}
      BY <2>3a, <3>2, <3>3 DEF LegsInPlace, Writing, Server
    <3>5. Cut(d)
      BY <2>3a, <3>2, <3>3, <3>4 DEF Cut
    <3> QED BY <1>5, <2>2, <3>1, <3>5, TerminateFrame
  <2> QED BY <2>3, <2>4
<1>6. ASSUME NEW c \in Calls, Serve(c)
      PROVE  (req[d].part \in torn)'
  <2>1. CASE \E s \in Server : Terminate(s)
    BY <1>5, <2>1
  <2>2. CASE d # c /\ ~\E s \in Server : Terminate(s)
    BY <1>2, <1>6, <2>2, ServeFrame DEF InFlight
  <2>3. CASE d = c /\ ~\E s \in Server : Terminate(s)
    <3>1. UNCHANGED <<req, torn>>
      BY <1>6, <2>3, ServeFrame
    <3>2. pc[c] = "failed" \/ ~InFlight(c)'
      <4>1. CASE CallFails(c)
        BY <4>1 DEF CallFails, LegsInPlace, NoLeg, InFlight
      <4>2. CASE ~CallFails(c)
        <5>1. pc'[c] = "failed"
          BY <2>3
        <5>2. CASE \/ ServeRead(c) \/ AcceptWrite(c) \/ WriteChunk(c) \/ ReplyWrite(c)
                   \/ AcceptRepair(c) \/ ReplyRepair(c)
          BY <5>1, <5>2 DEF ServeRead, AcceptWrite, WriteChunk, ReplyWrite, AcceptRepair,
             ReplyRepair, Running
        <5>3. ASSUME NEW s \in Server, \/ Send(c, s) \/ ShardRead(c, s)
                                       \/ ParityRead(c, s) \/ ParityWrite(c, s)
              PROVE  pc[c] = "failed"
          BY <5>1, <5>3 DEF Send, ShardRead, ParityRead, ParityWrite
        <5>4. ASSUME NEW s \in Server, SendFails(c, s) \/ LegLost(c, s)
              PROVE  \E t \in Server : Terminate(t)
          BY <5>4, RequestFields DEF SendFails, LegLost, Running, RequestsKnown
        <5> QED BY <1>6, <2>3, <4>2, <5>2, <5>3, <5>4 DEF Serve, Server
      <4> QED BY <4>1, <4>2
    <3>3. InFlight(c)' /\ pc[c] = "failed" => InFlight(c)
      BY <1>6, ServeFrame DEF Active
    <3> QED BY <1>2, <2>3, <3>1, <3>2, <3>3
  <2> QED BY <2>1, <2>2, <2>3
<1>7. ASSUME NEW s \in Server, Restart(s)
      PROVE  (req[d].part \in torn)'
  BY <1>2, <1>7 DEF Restart, calls, InFlight
<1>8. CASE UNCHANGED vars
  BY <1>2, <1>8 DEF vars, calls, InFlight
<1> QED BY <1>3, <1>4, <1>5, <1>6, <1>7, <1>8 DEF Next, Crash

\* While the file is created, every server that has its chunk has the right one.
LEMMA CreatingStep ==
  ASSUME IndInv, [Next]_vars
  PROVE  Creating'
<1> USE DEF IndInv, IndType, Creating
<1>1. ASSUME UNCHANGED <<life, files, torn>>
      PROVE  Creating'
  BY <1>1 DEF life, files
<1>2. CASE Manage
  <2>1. CASE StartCreate \/ EndCreate \/ StartClear \/ EndClear
    BY <2>1 DEF StartCreate, EndCreate, StartClear, EndClear
  <2>2. ASSUME NEW s \in Server, CreateAt(s)
        PROVE  Creating'
    <3>1. /\ phase' = "creating" /\ phase = "creating" /\ image' = image
          /\ made' = made \cup {s} /\ UNCHANGED torn
      BY <2>2 DEF CreateAt
    <3>2. ASSUME NEW t \in made', t \in Data
          PROVE  dataBin'[t] = image[t]
      BY <2>2, <3>1, <3>2 DEF CreateAt, TypeOK
    <3>3. ASSUME NEW t \in made', t \in Parity, NEW p \in Parts
          PROVE  parBin'[t][p] = Encode([k \in Data |-> image[k][p]])
      <4>1. CASE t = s
        <5>1. t \notin Data
          BY <3>3, StripeAssumption
        <5> QED BY <2>2, <3>3, <4>1, <5>1 DEF CreateAt, TypeOK
      <4>2. CASE t # s
        BY <2>2, <3>1, <3>3, <4>2 DEF CreateAt, TypeOK
      <4> QED BY <4>1, <4>2
    <3> QED BY <3>1, <3>2, <3>3
  <2>3. ASSUME NEW s \in Server, ClearAt(s)
        PROVE  Creating'
    BY <2>3 DEF ClearAt
  <2> QED BY <1>2, <2>1, <2>2, <2>3 DEF Manage
<1>3. ASSUME NEW c \in Calls, NEW r \in Request, Call(c, r)
      PROVE  Creating'
  BY <1>1, <1>3 DEF Call
<1>4. ASSUME NEW c \in Calls, Serve(c)
      PROVE  Creating'
  <2>1. UNCHANGED life /\ phase # "creating"
    BY <1>4, ServeFrame DEF QuietUnlessLive, Quiet
  <2> QED BY <2>1 DEF life
<1>5. ASSUME NEW s \in Server, Crash(s) \/ Restart(s)
      PROVE  Creating'
  <2>1. CASE Crash(s)
    <3>1. UNCHANGED <<life, files>>
      BY <2>1 DEF Crash, Terminate
    <3>2. phase = "creating" => torn' = torn
      <4>1. phase = "creating" => \A d \in Calls : ~Cut(d)
        BY DEF QuietUnlessLive, Quiet, Active, Cut
      <4> QED BY <2>1, <4>1 DEF Crash, Terminate
    <3> QED BY <3>1, <3>2 DEF life, files
  <2>2. CASE Restart(s)
    BY <1>1, <2>2 DEF Restart
  <2> QED BY <1>5, <2>1, <2>2
<1>6. CASE UNCHANGED vars
  BY <1>1, <1>6 DEF vars
<1> QED BY <1>2, <1>3, <1>4, <1>5, <1>6 DEF Next

-----------------------------------------------------------------------------
\* Only two steps of a server change a file, one part each.
LEMMA ServeFiles ==
  ASSUME IndType, NEW c \in Calls, Serve(c)
  PROVE  \/ UNCHANGED files
         \/ WriteChunk(c)
         \/ \E i \in Parity : ParityWrite(c, i)
  BY DEF Serve, CallFails, ServeRead, AcceptWrite, ReplyWrite, AcceptRepair, ReplyRepair,
     Send, SendFails, LegLost, ShardRead, ParityRead, Terminate, files

\* The part a writing step changes is the one of its request.
LEMMA ServeOtherParts ==
  ASSUME IndType, NEW c \in Calls, Serve(c), NEW p \in Parts, p # req[c].part
  PROVE  /\ \A k \in Data : dataBin'[k][p] = dataBin[k][p]
         /\ \A i \in Parity : parBin'[i][p] = parBin[i][p]
<1> USE DEF IndType, TypeOK
<1>1. CASE UNCHANGED files
  BY <1>1 DEF files
<1>2. CASE WriteChunk(c)
  BY <1>2 DEF WriteChunk
<1>3. ASSUME NEW i \in Parity, ParityWrite(c, i)
      PROVE  /\ \A k \in Data : dataBin'[k][p] = dataBin[k][p]
             /\ \A j \in Parity : parBin'[j][p] = parBin[j][p]
  BY <1>3 DEF ParityWrite
<1> QED BY <1>1, <1>2, <1>3, ServeFiles

\* When the work for server s has come as far as the chunk of the data server,
\* the row it holds is the row of the files.
LEMMA HeldRow ==
  ASSUME IndType, NEW c \in Calls, NEW s, req[c] \in Request,
         dataBin[req[c].srv][req[c].part] = Held(c, s)
  PROVE  RowHeld(c, s) = Row(req[c].part)
  BY RequestFields DEF RowHeld, Row

\* Two writes under way are writes of different parts.
LEMMA WritesApart ==
  ASSUME IndInv, Discipline = "stripe",
         NEW c \in Calls, NEW d \in Calls, c # d, Active(c), Active(d),
         req[c].op = "write", req[d].op = "write"
  PROVE  req[c].part # req[d].part
<1>1. Compatible(req[c], req[d])
  BY DEF IndInv, Exclusion
<1>2. {req[c].op, req[d].op} = {"write"}
  OBVIOUS
<1> QED BY <1>1, <1>2 DEF Compatible

\* A part at rest is consistent, from the conjunct StripeConsistent.
LEMMA AtRest ==
  ASSUME IndInv, phase = "live", NEW p \in Parts, p \notin torn,
         \A c \in Calls : ~(Writing(c) /\ req[c].part = p), NEW i \in Parity
  PROVE  parBin[i][p] = Encode(Row(p))
  BY DEF IndInv, StripeConsistent

\* What WritesInPlace says of one call.
WriteAt(c) ==
  Writing(c) =>
    /\ dataBin[req[c].srv][req[c].part] = Held(c, req[c].srv)
    /\ req[c].part \notin torn =>
         \A i \in Parity :
           /\ parBin[i][req[c].part] = Encode(RowHeld(c, i))
           /\ leg[c][i] = "read" => seen[c][i] = parBin[i][req[c].part]

\* A write keeps its place when nothing of its own and nothing of its part
\* changes, except that a leg may be lost and its part may become torn.
LEMMA WriteKept ==
  ASSUME IndInv, NEW d \in Calls, Writing(d), UNCHANGED req, torn \subseteq torn',
         shard'[d] = shard[d], seen'[d] = seen[d],
         \A s \in Server :
           \/ leg'[d][s] = leg[d][s]
           \/ leg'[d][s] = "lost" /\ leg[d][s] \in {"sent", "read"},
         \A k \in Data : dataBin'[k][req[d].part] = dataBin[k][req[d].part],
         \/ req[d].part \in torn
         \/ \A i \in Parity : parBin'[i][req[d].part] = parBin[i][req[d].part]
  PROVE  WriteAt(d)'
<1> DEFINE k == req[d].srv
           p == req[d].part
<1>1. req[d] \in Request
  BY DEF IndInv, RequestsKnown, Writing
<1>2. k \in Data /\ p \in Parts /\ k \in Server
  BY <1>1, RequestFields
<1>3. WriteAt(d)
  BY DEF IndInv, WritesInPlace, WriteAt
<1>4. \A s \in Server : Held(d, s)' = Held(d, s)
  BY DEF Held
<1>5. Row(p)' = Row(p)
  BY <1>2 DEF Row
<1>6. \A s \in Server : RowHeld(d, s)' = RowHeld(d, s)
  BY <1>4, <1>5 DEF RowHeld
<1>7. (dataBin[k][p] = Held(d, k))'
  BY <1>2, <1>3, <1>4 DEF WriteAt
<1>8. ASSUME p \notin torn', NEW i \in Parity
      PROVE  /\ parBin'[i][p] = Encode(RowHeld(d, i)')
             /\ leg'[d][i] = "read" => seen'[d][i] = parBin'[i][p]
  <2>1. i \in Server
    BY DEF Server
  <2> QED BY <1>3, <1>6, <1>8, <2>1 DEF WriteAt
<1> QED BY <1>7, <1>8 DEF WriteAt

\* The steps of the handler of a write keep its own place.
LEMMA WriteOwn ==
  ASSUME IndInv, Discipline = "stripe",
         NEW c \in Calls, Serve(c), ~\E s \in Server : Terminate(s)
  PROVE  WriteAt(c)'
<1> SUFFICES ASSUME Writing(c)' PROVE WriteAt(c)'
  BY DEF WriteAt
<1> DEFINE k == req[c].srv
           p == req[c].part
<1> USE DEF IndInv, IndType
<1>1. UNCHANGED <<req, torn>>
  BY ServeFrame
<1>2. pc'[c] = "run" /\ req[c].op = "write"
  BY <1>1 DEF Writing
<1>3. req[c] \in Request
  BY ServeFrame DEF RequestsKnown, Active
<1>4. k \in Data /\ p \in Parts /\ k \in Server /\ req[c].val \in Value /\ k \notin Parity
  BY <1>3, RequestFields, StripeAssumption
<1>5. CASE AcceptWrite(c)
  <2>1. shard'[c][k] = dataBin[k][p] /\ UNCHANGED files
    BY <1>4, <1>5 DEF AcceptWrite, TypeOK
  <2>2. \A s \in Server : leg'[c][s] \in {"todo", "none"}
    BY <1>5 DEF AcceptWrite, TypeOK
  <2>3. \A s \in Server : Held(c, s)' = dataBin[k][p]
    BY <1>1, <2>1, <2>2 DEF Held
  <2>4. Row(p)' = Row(p)
    BY <1>1, <2>1 DEF Row, files
  <2>5. \A s \in Server : RowHeld(c, s)' = Row(p)
    <3>1. Row(p) = [Row(p) EXCEPT ![k] = dataBin[k][p]]
      BY <1>4 DEF Row
    <3> QED BY <1>1, <2>3, <2>4, <3>1 DEF RowHeld
  <2>6. phase = "live"
    BY <1>5 DEF QuietUnlessLive, Quiet, AcceptWrite, Active
  <2>7. \A d \in Calls : ~(Writing(d) /\ req[d].part = p)
    BY <1>5, WritesApart DEF AcceptWrite, Writing, Active
  <2>8. \A i \in Parity : p \notin torn => parBin[i][p] = Encode(Row(p))
    BY <1>4, <2>6, <2>7, AtRest
  <2> QED BY <1>1, <1>4, <2>1, <2>2, <2>3, <2>5, <2>8 DEF WriteAt, files, Server
<1>6. CASE ~AcceptWrite(c)
  <2>1. Writing(c) /\ WriteAt(c) /\ UNCHANGED shard
    <3>1. /\ ~CallFails(c) /\ ~ServeRead(c) /\ ~ReplyWrite(c)
          /\ ~AcceptRepair(c) /\ ~ReplyRepair(c)
      BY <1>2 DEF CallFails, ServeRead, ReplyWrite, AcceptRepair, ReplyRepair, TypeOK
    <3>2. \A s \in Server : ~ShardRead(c, s) /\ ~SendFails(c, s) /\ ~LegLost(c, s)
      BY <1>2, <1>4 DEF ShardRead, SendFails, LegLost
    <3>3. pc[c] = "run" /\ UNCHANGED shard
      BY <1>2, <1>6, <3>1, <3>2 DEF Serve, WriteChunk, Send, ParityRead, ParityWrite
    <3> QED BY <1>2, <3>3 DEF Writing, WriteAt, WritesInPlace
  <2>2. leg[c][k] \in {"todo", "done"}
    BY <2>1 DEF LegsInPlace
  <2>3. CASE WriteChunk(c)
    <3>1. /\ leg'[c][k] = "done" /\ \A i \in Parity : leg'[c][i] = leg[c][i]
          /\ UNCHANGED <<parBin, seen>>
      BY <1>4, <2>3 DEF WriteChunk, TypeOK
    <3>2. dataBin' = [dataBin EXCEPT ![k][p] = req[c].val]
      BY <2>3 DEF WriteChunk
    <3>3. dataBin'[k][p] = req[c].val
      BY <1>4, <3>2 DEF TypeOK
    <3>4. \A i \in Parity : Held(c, i)' = Held(c, i)
      BY <1>1, <2>1, <3>1 DEF Held
    <3>5. \A v : [Row(p)' EXCEPT ![k] = v] = [Row(p) EXCEPT ![k] = v]
      <4>1. \A j \in Data \ {k} : dataBin'[j][p] = dataBin[j][p]
        BY <3>2 DEF TypeOK
      <4> QED BY <1>1, <4>1 DEF Row
    <3>6. \A i \in Parity : RowHeld(c, i)' = RowHeld(c, i)
      BY <1>1, <3>4, <3>5 DEF RowHeld
    <3>7. Held(c, k)' = req[c].val
      BY <1>1, <3>1 DEF Held
    <3> QED BY <1>1, <2>1, <3>1, <3>3, <3>6, <3>7 DEF WriteAt
  <2>4. ASSUME NEW i \in Parity, ParityRead(c, i)
        PROVE  WriteAt(c)'
    <3>1. UNCHANGED files
      BY <2>4 DEF ParityRead
    <3>2. /\ leg[c][i] = "sent" /\ leg' = [leg EXCEPT ![c][i] = "read"]
          /\ seen' = [seen EXCEPT ![c][i] = parBin[i][p]]
      BY <2>4 DEF ParityRead
    <3>3. \A s \in Server : Held(c, s)' = Held(c, s)
      BY <1>1, <2>1, <3>2 DEF Held, TypeOK, Server
    <3>4. \A s \in Server : RowHeld(c, s)' = RowHeld(c, s)
      BY <1>1, <3>1, <3>3 DEF RowHeld, Row, files
    <3>5. \A j \in Parity : leg'[c][j] = "read" =>
            seen'[c][j] = parBin[j][p] \/ (leg[c][j] = "read" /\ seen'[c][j] = seen[c][j])
      BY <3>2 DEF TypeOK, Server
    <3> QED BY <1>1, <1>4, <2>1, <3>1, <3>3, <3>4, <3>5 DEF WriteAt, files, Server
  <2>5. ASSUME NEW i \in Parity, ParityWrite(c, i)
        PROVE  WriteAt(c)'
    <3> DEFINE old == shard[c][k]
    <3>1. UNCHANGED dataBin /\ leg[c][i] = "read"
      BY <2>5 DEF ParityWrite
    <3>2. /\ leg' = [leg EXCEPT ![c][i] = "done"]
          /\ seen' = [seen EXCEPT ![c][i] = {}]
          /\ parBin' = [parBin EXCEPT ![i][p] = seen[c][i] (+) Delta(c)]
      BY <2>5 DEF ParityWrite
    <3>3. /\ leg'[c][i] = "done" /\ parBin'[i][p] = seen[c][i] (+) Delta(c)
          /\ \A s \in Server \ {i} : leg'[c][s] = leg[c][s]
          /\ \A j \in Parity \ {i} : seen'[c][j] = seen[c][j] /\ parBin'[j][p] = parBin[j][p]
      BY <1>4, <3>2 DEF TypeOK, Server
    <3>4. /\ \A s \in Server \ {i} : Held(c, s)' = Held(c, s)
          /\ Held(c, i) = old /\ Held(c, i)' = req[c].val
      BY <1>1, <2>1, <3>1, <3>3 DEF Held
    <3>5. /\ \A s \in Server \ {i} : RowHeld(c, s)' = RowHeld(c, s)
          /\ RowHeld(c, i) = [Row(p) EXCEPT ![k] = old]
          /\ RowHeld(c, i)' = [Row(p) EXCEPT ![k] = req[c].val]
      BY <1>1, <3>1, <3>4 DEF RowHeld, Row
    <3>6. old \in Value /\ Row(p) \in [Data -> Value]
      BY <1>4 DEF TypeOK, Row
    <3>7. p \notin torn => parBin'[i][p] = Encode(RowHeld(c, i)')
      <4>1. Encode([Row(p) EXCEPT ![k] = old]) (+) Scale(k, req[c].val (+) old)
              = Encode([Row(p) EXCEPT ![k] = req[c].val])
        BY <1>4, <3>6, EncodeDelta
      <4> QED BY <2>1, <3>1, <3>3, <3>5, <4>1 DEF WriteAt, Delta
    <3>8. (dataBin[k][p] = Held(c, k))'
      BY <1>1, <1>4, <2>1, <3>1, <3>4 DEF WriteAt
    <3>9. ASSUME p \notin torn', NEW j \in Parity
          PROVE  /\ parBin'[j][p] = Encode(RowHeld(c, j)')
                 /\ leg'[c][j] = "read" => seen'[c][j] = parBin'[j][p]
      <4>1. CASE j = i
        BY <1>1, <3>3, <3>7, <3>9, <4>1
      <4>2. CASE j # i
        BY <1>1, <2>1, <3>3, <3>5, <3>9, <4>2 DEF WriteAt, Server
      <4> QED BY <4>1, <4>2
    <3> QED BY <1>1, <3>8, <3>9 DEF WriteAt
  <2>6. ASSUME NEW s \in Server, Send(c, s)
        PROVE  WriteAt(c)'
    <3>1. UNCHANGED <<files, seen>> /\ leg[c][s] = "todo" /\ leg' = [leg EXCEPT ![c][s] = "sent"]
      BY <2>6 DEF Send
    <3>2. \A t \in Server : Held(c, t)' = Held(c, t)
      BY <1>1, <2>1, <3>1 DEF Held, TypeOK
    <3>3. \A t \in Server : RowHeld(c, t)' = RowHeld(c, t)
      BY <1>1, <3>1, <3>2 DEF RowHeld, Row, files
    <3>4. \A i \in Parity : leg'[c][i] = "read" => leg[c][i] = "read"
      BY <3>1 DEF TypeOK, Server
    <3> QED BY <1>1, <1>4, <2>1, <3>1, <3>2, <3>3, <3>4 DEF WriteAt, files, Server
  <2>7. \/ WriteChunk(c) \/ \E s \in Server : Send(c, s)
        \/ \E i \in Parity : ParityRead(c, i) \/ ParityWrite(c, i)
    <3>1. /\ ~CallFails(c) /\ ~ServeRead(c) /\ ~ReplyWrite(c)
          /\ ~AcceptRepair(c) /\ ~ReplyRepair(c)
      BY <1>2 DEF CallFails, ServeRead, ReplyWrite, AcceptRepair, ReplyRepair, TypeOK
    <3>2. \A s \in Server : ~ShardRead(c, s) /\ ~SendFails(c, s) /\ ~LegLost(c, s)
      BY <1>2, <1>4 DEF ShardRead, SendFails, LegLost
    <3> QED BY <1>6, <3>1, <3>2 DEF Serve
  <2> QED BY <2>3, <2>4, <2>5, <2>6, <2>7
<1> QED BY <1>5, <1>6

\* A request read at a parity server is one of a write under way or cut.
LEMMA ReadLeg ==
  ASSUME IndInv, NEW c \in Calls, NEW i \in Parity, leg[c][i] = "read"
  PROVE  req[c].op = "write" /\ InFlight(c) /\ pc[c] \in {"run", "failed"}
<1>1. i \in Server
  BY DEF Server
<1>2. leg[c] # NoLeg
  BY <1>1 DEF NoLeg
<1>3. pc[c] \notin {"idle", "called", "done"} /\ req[c].op = "write"
  BY <1>1, <1>2 DEF IndInv, LegsInPlace
<1>4. pc[c] \in {"idle", "called", "run", "done", "failed"}
  BY DEF IndInv, TypeOK
<1> QED BY <1>1, <1>3, <1>4 DEF InFlight

LEMMA WritesStep ==
  ASSUME IndInv, Discipline = "stripe", [Next]_vars
  PROVE  WritesInPlace'
<1> SUFFICES ASSUME NEW d \in Calls PROVE WriteAt(d)'
  BY DEF WritesInPlace, WriteAt
<1> USE DEF IndInv, IndType
<1>1. WriteAt(d)
  BY DEF WritesInPlace, WriteAt
<1>2. CASE Manage
  <2>1. Quiet /\ UNCHANGED calls
    BY <1>2 DEF Manage, StartCreate, EndCreate, StartClear, EndClear, CreateAt, ClearAt,
       QuietUnlessLive
  <2>2. ~Writing(d)'
    BY <2>1 DEF Quiet, Active, Writing, calls
  <2> QED BY <2>2 DEF WriteAt
<1>3. ASSUME NEW c \in Calls, NEW r \in Request, Call(c, r)
      PROVE  WriteAt(d)'
  <2>1. CASE c = d
    BY <1>3, <2>1 DEF Call, WriteAt, Writing, TypeOK
  <2>2. CASE c # d
    <3>1. pc'[d] = pc[d] /\ req'[d] = req[d]
      BY <1>3, <2>2 DEF Call, TypeOK
    <3>2. UNCHANGED <<files, leg, shard, seen, torn>>
      BY <1>3 DEF Call
    <3> QED BY <1>1, <3>1, <3>2 DEF WriteAt, Writing, Held, RowHeld, Row, files
  <2> QED BY <2>1, <2>2
<1>4. ASSUME NEW s \in Server, Terminate(s)
      PROVE  WriteAt(d)'
  <2>1. Writing(d)' => Writing(d)
    BY <1>4, TerminateFrame DEF Writing
  <2>2. UNCHANGED <<req, shard, seen, dataBin, parBin>> /\ torn \subseteq torn'
    BY <1>4 DEF Terminate, files
  <2>4. \A t \in Server :
          \/ leg'[d][t] = leg[d][t]
          \/ leg'[d][t] = "lost" /\ leg[d][t] \in {"sent", "read"}
    BY <1>4, TerminateFrame
  <2>3. CASE Writing(d)
    <3> HIDE DEF IndInv, IndType
    <3> QED BY <2>2, <2>3, <2>4, WriteKept
  <2> QED BY <2>1, <2>3 DEF WriteAt
<1>5. ASSUME NEW c \in Calls, Serve(c)
      PROVE  WriteAt(d)'
  <2>1. CASE \E s \in Server : Terminate(s)
    BY <1>4, <2>1
  <2>2. CASE c = d /\ ~\E s \in Server : Terminate(s)
    BY <1>5, <2>2, WriteOwn
  <2>3. CASE c # d /\ ~\E s \in Server : Terminate(s)
    <3>1. /\ UNCHANGED <<req, torn>>
          /\ pc'[d] = pc[d] /\ leg'[d] = leg[d] /\ shard'[d] = shard[d] /\ seen'[d] = seen[d]
      BY <1>5, <2>3, ServeFrame
    <3>2. SUFFICES ASSUME Writing(d) PROVE WriteAt(d)'
      BY <3>1 DEF WriteAt, Writing
    <3>3. req[d] \in Request /\ req[d].part \in Parts
      BY <3>2, RequestFields DEF RequestsKnown, Writing
    <3>4. CASE req[d].part # req[c].part
      <4>1. /\ \A k \in Data : dataBin'[k][req[d].part] = dataBin[k][req[d].part]
            /\ \A i \in Parity : parBin'[i][req[d].part] = parBin[i][req[d].part]
        BY <1>5, <3>3, <3>4, ServeOtherParts
      <4> HIDE DEF IndInv, IndType
      <4> QED BY <3>1, <3>2, <4>1, WriteKept
    <3>5. CASE req[d].part = req[c].part
      <4>1. CASE UNCHANGED files
        <5> HIDE DEF IndInv, IndType
        <5> QED BY <3>1, <3>2, <4>1, WriteKept DEF files
      <4>2. ~WriteChunk(c)
        BY <2>3, <3>2, <3>5, WritesApart DEF WriteChunk, Running, Active, Writing
      <4>3. ASSUME NEW i \in Parity, ParityWrite(c, i)
            PROVE  WriteAt(d)'
        <5>1. leg[c][i] = "read" /\ i \in Server /\ UNCHANGED dataBin
          BY <4>3 DEF ParityWrite, Server
        <5>2. req[c].op = "write" /\ InFlight(c)
          BY <5>1, ReadLeg
        <5>3. pc[c] \in {"run", "failed"}
          BY <5>1, ReadLeg
        <5>4. pc[c] = "failed"
          BY <2>3, <3>2, <3>5, <5>2, <5>3, WritesApart DEF Active, Writing
        <5>5. req[d].part \in torn
          BY <3>5, <5>2, <5>4 DEF OrphansTorn
        <5> HIDE DEF IndInv, IndType
        <5> QED BY <3>1, <3>2, <5>1, <5>5, WriteKept
      <4> QED BY <1>5, <4>1, <4>2, <4>3, ServeFiles
    <3> QED BY <3>4, <3>5
  <2> QED BY <2>1, <2>2, <2>3
<1>6. ASSUME NEW s \in Server, Restart(s)
      PROVE  WriteAt(d)'
  BY <1>1, <1>6 DEF Restart, calls, files, WriteAt, Writing, Held, RowHeld, Row
<1>7. CASE UNCHANGED vars
  BY <1>1, <1>7 DEF vars, calls, files, WriteAt, Writing, Held, RowHeld, Row
<1> QED BY <1>2, <1>3, <1>4, <1>5, <1>6, <1>7 DEF Next, Crash

\* What RepairsInPlace says of one call.
RepairAt(c) ==
  Repairing(c) =>
    /\ \A k \in Data \ {req[c].srv} :
         leg[c][k] = "done" => shard[c][k] = dataBin[k][req[c].part]
    /\ req[c].part \notin torn =>
         \A i \in Parity : leg[c][i] = "done" => seen[c][i] = parBin[i][req[c].part]

\* It stays when nothing of the degraded read and nothing of its part changes,
\* except that a leg may be lost and the part may become torn.
LEMMA RepairKept ==
  ASSUME NEW d \in Calls, RepairAt(d), UNCHANGED req, torn \subseteq torn',
         Repairing(d)' => Repairing(d),
         shard'[d] = shard[d], seen'[d] = seen[d],
         \A s \in Server : leg'[d][s] = leg[d][s] \/ leg'[d][s] = "lost",
         \A k \in Data : dataBin'[k][req[d].part] = dataBin[k][req[d].part],
         \/ req[d].part \in torn
         \/ \A i \in Parity : parBin'[i][req[d].part] = parBin[i][req[d].part]
  PROVE  RepairAt(d)'
<1> SUFFICES ASSUME Repairing(d) PROVE RepairAt(d)'
  BY DEF RepairAt
<1>1. \A k \in Data : leg'[d][k] = "done" => leg[d][k] = "done"
  BY DEF Server
<1>2. \A i \in Parity : leg'[d][i] = "done" => leg[d][i] = "done"
  BY DEF Server
<1> QED BY <1>1, <1>2 DEF RepairAt

\* A write under way is kept apart from the degraded reads of its part.
LEMMA RepairApart ==
  ASSUME IndInv, Discipline = "stripe",
         NEW c \in Calls, NEW d \in Calls, Active(c), Active(d),
         req[c].op = "write", req[d].op = "repair"
  PROVE  req[c].part # req[d].part
<1>1. Compatible(req[c], req[d])
  BY DEF IndInv, Exclusion
<1>2. {req[c].op, req[d].op} # {"repair"}
  OBVIOUS
<1> QED BY <1>1, <1>2 DEF Compatible

\* No step of a handler or of a parity server changes the part of a degraded
\* read, unless it is the request of a cut write.
LEMMA RepairFiles ==
  ASSUME IndInv, Discipline = "stripe", NEW c \in Calls, Serve(c),
         NEW d \in Calls, Repairing(d)
  PROVE  /\ \A k \in Data : dataBin'[k][req[d].part] = dataBin[k][req[d].part]
         /\ \/ req[d].part \in torn
            \/ \A i \in Parity : parBin'[i][req[d].part] = parBin[i][req[d].part]
<1>1. IndType
  BY DEF IndInv, IndType
<1>2. Active(d) /\ req[d].op = "repair" /\ req[d].part \in Parts
  BY RequestFields DEF IndInv, RequestsKnown, Repairing, Active
<1>3. CASE req[d].part # req[c].part
  BY <1>1, <1>2, <1>3, ServeOtherParts
<1>4. CASE req[d].part = req[c].part
  <2>1. CASE UNCHANGED files
    BY <2>1 DEF files
  <2>2. ~WriteChunk(c)
    BY <1>2, <1>4, RepairApart DEF WriteChunk, Running, Active
  <2>3. ASSUME NEW i \in Parity, ParityWrite(c, i)
        PROVE  req[d].part \in torn /\ UNCHANGED dataBin
    <3>1. leg[c][i] = "read" /\ UNCHANGED dataBin
      BY <2>3 DEF ParityWrite
    <3>2. req[c].op = "write" /\ InFlight(c) /\ pc[c] \in {"run", "failed"}
      BY <3>1, ReadLeg
    <3>3. pc[c] = "failed"
      BY <1>2, <1>4, <3>2, RepairApart DEF Active
    <3> QED BY <1>4, <3>1, <3>2, <3>3 DEF IndInv, OrphansTorn
  <2> QED BY <1>1, <2>1, <2>2, <2>3, ServeFiles
<1> QED BY <1>3, <1>4

\* The steps of the handler of a degraded read keep its own place.
LEMMA RepairOwn ==
  ASSUME IndInv, Discipline = "stripe", NEW c \in Calls, Serve(c), Repairing(c)',
         ~\E s \in Server : Terminate(s)
  PROVE  RepairAt(c)'
<1>1. IndType /\ TypeOK /\ RepairAt(c)
  BY DEF IndInv, IndType, RepairsInPlace, RepairAt
<1>2. UNCHANGED <<req, torn>>
  BY <1>1, ServeFrame
<1>3. pc'[c] = "run" /\ req[c].op = "repair"
  BY <1>2 DEF Repairing
<1>4. CASE AcceptRepair(c)
  <2>1. \A s \in Server : leg'[c][s] \in {"none", "todo"}
    BY <1>1, <1>4 DEF AcceptRepair, TypeOK
  <2> QED BY <2>1 DEF RepairAt, Server
<1>5. ASSUME NEW s \in Server, Send(c, s)
      PROVE  RepairAt(c)'
  <2>1. /\ leg' = [leg EXCEPT ![c][s] = "sent"] /\ pc[c] = "run"
        /\ UNCHANGED <<files, shard, seen>>
    BY <1>5 DEF Send, Running
  <2>2. \A t \in Server : leg'[c][t] = "done" => leg[c][t] = "done"
    BY <1>1, <2>1 DEF TypeOK
  <2> QED BY <1>1, <1>2, <1>3, <2>1, <2>2 DEF RepairAt, Repairing, Server, files
<1>6. ASSUME NEW s \in Server, ShardRead(c, s)
      PROVE  RepairAt(c)'
  <2>1. /\ leg' = [leg EXCEPT ![c][s] = "done"] /\ pc[c] = "run" /\ UNCHANGED files
    BY <1>3, <1>6 DEF ShardRead
  <2>2. \A t \in Server \ {s} : leg'[c][t] = leg[c][t]
    BY <1>1, <2>1 DEF TypeOK
  <2>3. CASE s \in Data
    <3>1. /\ shard' = [shard EXCEPT ![c][s] = dataBin[s][req[c].part]] /\ UNCHANGED seen
          /\ s \notin Parity
      BY <1>6, <2>3, StripeAssumption DEF ShardRead
    <3>2. \A k \in Data : shard'[c][k] = IF k = s THEN dataBin[s][req[c].part] ELSE shard[c][k]
      BY <1>1, <3>1 DEF TypeOK
    <3> QED BY <1>1, <1>2, <1>3, <2>1, <2>2, <3>1, <3>2 DEF RepairAt, Repairing, Server, files
  <2>4. CASE s \notin Data
    <3>1. /\ seen' = [seen EXCEPT ![c][s] = parBin[s][req[c].part]] /\ UNCHANGED shard
      BY <1>6, <2>4 DEF ShardRead
    <3>2. \A i \in Parity : seen'[c][i] = IF i = s THEN parBin[s][req[c].part] ELSE seen[c][i]
      BY <1>1, <3>1 DEF TypeOK
    <3> QED BY <1>1, <1>2, <1>3, <2>1, <2>2, <2>4, <3>1, <3>2 DEF RepairAt, Repairing, Server, files
  <2> QED BY <2>3, <2>4
<1>7. \/ AcceptRepair(c) \/ \E s \in Server : Send(c, s) \/ ShardRead(c, s)
  <2>1. /\ ~CallFails(c) /\ ~ServeRead(c) /\ ~AcceptWrite(c) /\ ~WriteChunk(c)
        /\ ~ReplyWrite(c) /\ ~ReplyRepair(c)
    BY <1>1, <1>3 DEF CallFails, ServeRead, AcceptWrite, WriteChunk, ReplyWrite, ReplyRepair,
       TypeOK
  <2>2. \A i \in Parity : ~ParityRead(c, i) /\ ~ParityWrite(c, i)
    <3> SUFFICES ASSUME NEW i \in Parity PROVE ~ParityRead(c, i) /\ ~ParityWrite(c, i)
      OBVIOUS
    <3>1. ~ParityRead(c, i)
      BY <1>3 DEF ParityRead
    <3>2. ~ParityWrite(c, i)
      BY <1>3, ReadLeg DEF ParityWrite
    <3> QED BY <3>1, <3>2
  <2>3. \A s \in Server : ~SendFails(c, s) /\ ~LegLost(c, s)
    BY RequestFields DEF SendFails, LegLost, Running, IndInv, RequestsKnown
  <2> QED BY <2>1, <2>2, <2>3 DEF Serve
<1> QED BY <1>4, <1>5, <1>6, <1>7

LEMMA RepairsStep ==
  ASSUME IndInv, Discipline = "stripe", [Next]_vars
  PROVE  RepairsInPlace'
<1> SUFFICES ASSUME NEW d \in Calls, Repairing(d)' PROVE RepairAt(d)'
  BY DEF RepairsInPlace, RepairAt
<1>1. RepairAt(d) /\ IndType /\ TypeOK
  BY DEF IndInv, RepairsInPlace, RepairAt, IndType
<1>2. CASE Manage
  <2>1. Quiet /\ UNCHANGED calls
    BY <1>2 DEF Manage, StartCreate, EndCreate, StartClear, EndClear, CreateAt, ClearAt,
       IndInv, QuietUnlessLive
  <2> QED BY <2>1 DEF Quiet, Active, Repairing, calls
<1>3. ASSUME NEW c \in Calls, NEW r \in Request, Call(c, r)
      PROVE  RepairAt(d)'
  <2>1. /\ c # d /\ pc'[d] = pc[d] /\ req'[d] = req[d]
        /\ UNCHANGED <<files, leg, shard, seen, torn>>
    BY <1>1, <1>3 DEF Call, TypeOK, Repairing
  <2> QED BY <1>1, <2>1 DEF RepairAt, Repairing, files
<1>4. ASSUME NEW s \in Server, Terminate(s)
      PROVE  RepairAt(d)'
  <2>1. /\ pc'[d] = pc[d] \/ pc'[d] = "failed"
        /\ \A t \in Server : leg'[d][t] = leg[d][t] \/ leg'[d][t] = "lost"
        /\ torn \subseteq torn' /\ UNCHANGED <<files, req, shard, seen>>
    BY <1>1, <1>4, TerminateFrame
  <2>2. Repairing(d)
    BY <2>1 DEF Repairing
  <2> QED BY <1>1, <2>1, <2>2, RepairKept DEF files
<1>5. ASSUME NEW c \in Calls, Serve(c)
      PROVE  RepairAt(d)'
  <2>1. CASE \E s \in Server : Terminate(s)
    BY <1>4, <2>1
  <2>2. CASE c = d /\ ~\E s \in Server : Terminate(s)
    BY <1>5, <2>2, RepairOwn
  <2>3. CASE c # d /\ ~\E s \in Server : Terminate(s)
    <3>1. /\ UNCHANGED <<req, torn>>
          /\ pc'[d] = pc[d] /\ leg'[d] = leg[d] /\ shard'[d] = shard[d] /\ seen'[d] = seen[d]
      BY <1>1, <1>5, <2>3, ServeFrame
    <3>2. Repairing(d)
      BY <3>1 DEF Repairing
    <3>3. /\ \A k \in Data : dataBin'[k][req[d].part] = dataBin[k][req[d].part]
          /\ \/ req[d].part \in torn
             \/ \A i \in Parity : parBin'[i][req[d].part] = parBin[i][req[d].part]
      BY <1>5, <3>2, RepairFiles
    <3> QED BY <1>1, <3>1, <3>2, <3>3, RepairKept
  <2> QED BY <2>1, <2>2, <2>3
<1>6. ASSUME NEW s \in Server, Restart(s)
      PROVE  RepairAt(d)'
  BY <1>1, <1>6 DEF Restart, calls, files, RepairAt, Repairing
<1>7. CASE UNCHANGED vars
  BY <1>1, <1>7 DEF vars, calls, files, RepairAt, Repairing
<1> QED BY <1>2, <1>3, <1>4, <1>5, <1>6, <1>7 DEF Next, Crash

\* A part at rest after a step is consistent.
LEMMA ConsistentStep ==
  ASSUME IndInv, Discipline = "stripe", [Next]_vars
  PROVE  StripeConsistent'
<1> SUFFICES ASSUME phase' = "live", NEW p \in Parts, p \notin torn',
                    \A c \in Calls : ~(Writing(c) /\ req[c].part = p)', NEW i \in Parity
             PROVE  parBin'[i][p] = Encode(Row(p)')
  BY DEF StripeConsistent
<1> USE DEF IndInv, IndType
<1>1. ASSUME phase = "live", \A c \in Calls : ~(Writing(c) /\ req[c].part = p),
             p \notin torn, parBin'[i][p] = parBin[i][p],
             \A k \in Data : dataBin'[k][p] = dataBin[k][p]
      PROVE  parBin'[i][p] = Encode(Row(p)')
  BY <1>1, AtRest DEF Row
<1>2. ASSUME NEW d \in Calls, Writing(d), req[d].part = p, p \notin torn,
             Held(d, i) = Held(d, req[d].srv), UNCHANGED files
      PROVE  parBin'[i][p] = Encode(Row(p)')
  <2>1. req[d] \in Request
    BY <1>2 DEF RequestsKnown, Writing
  <2>2. RowHeld(d, i) = Row(p)
    BY <1>2, <2>1, HeldRow DEF WritesInPlace
  <2> QED BY <1>2, <2>2 DEF WritesInPlace, files, Row
<1>3. CASE Manage
  <2>1. CASE EndCreate
    <3>1. /\ parBin[i][p] = Encode([k \in Data |-> image[k][p]])
          /\ \A k \in Data : dataBin[k] = image[k]
      BY <2>1 DEF EndCreate, Creating, Server
    <3>2. Row(p) = [k \in Data |-> image[k][p]]
      BY <3>1 DEF Row
    <3> QED BY <2>1, <3>1, <3>2 DEF EndCreate, files, Row
  <2> QED BY <1>3, <2>1 DEF Manage, StartCreate, StartClear, EndClear, CreateAt, ClearAt
<1>4. ASSUME NEW c \in Calls, NEW r \in Request, Call(c, r)
      PROVE  parBin'[i][p] = Encode(Row(p)')
  <2>1. \A d \in Calls : Writing(d) => Writing(d)' /\ req'[d] = req[d]
    BY <1>4 DEF Call, Writing, TypeOK
  <2> QED BY <1>1, <1>4, <2>1 DEF Call, files
<1>5. ASSUME NEW s \in Server, Terminate(s)
      PROVE  parBin'[i][p] = Encode(Row(p)')
  <2>1. UNCHANGED <<phase, files, req>> /\ p \notin torn
    BY <1>5 DEF Terminate, life
  <2>2. CASE \A d \in Calls : ~(Writing(d) /\ req[d].part = p)
    BY <1>1, <2>1, <2>2 DEF files
  <2>3. ASSUME NEW d \in Calls, Writing(d), req[d].part = p
        PROVE  parBin'[i][p] = Encode(Row(p)')
    <3>1. ~Cut(d)
      BY <1>5, <2>1, <2>3, TerminateFrame DEF Writing
    <3>2. leg[d][i] = "done" <=> leg[d][req[d].srv] = "done"
      BY <2>3, <3>1 DEF Cut, Writing
    <3>3. Held(d, i) = Held(d, req[d].srv)
      BY <3>2 DEF Held
    <3> QED BY <1>2, <2>1, <2>3, <3>3
  <2> QED BY <2>2, <2>3
<1>6. ASSUME NEW c \in Calls, Serve(c)
      PROVE  parBin'[i][p] = Encode(Row(p)')
  <2>1. CASE \E s \in Server : Terminate(s)
    BY <1>5, <2>1
  <2>2. CASE ~\E s \in Server : Terminate(s)
    <3>1. UNCHANGED <<life, req, torn>> /\ \A d \in Calls \ {c} : pc'[d] = pc[d]
      BY <1>6, <2>2, ServeFrame
    <3>2. \A d \in Calls \ {c} : ~(Writing(d) /\ req[d].part = p)
      BY <3>1 DEF Writing
    <3>3. CASE Writing(c) /\ req[c].part = p
      <4>1. pc'[c] # "run"
        BY <3>1, <3>3 DEF Writing
      <4>2. ReplyWrite(c)
        <5>1. /\ ~CallFails(c) /\ ~ServeRead(c) /\ ~AcceptWrite(c) /\ ~WriteChunk(c)
              /\ ~AcceptRepair(c) /\ ~ReplyRepair(c)
          BY <3>3, <4>1 DEF CallFails, ServeRead, AcceptWrite, WriteChunk, AcceptRepair,
             ReplyRepair, Writing
        <5>2. \A s : /\ ~Send(c, s) /\ ~ShardRead(c, s)
                     /\ ~ParityRead(c, s) /\ ~ParityWrite(c, s)
          BY <3>3, <4>1 DEF Send, ShardRead, ParityRead, ParityWrite, Writing
        <5>3. \A s \in Server : ~SendFails(c, s) /\ ~LegLost(c, s)
          BY <2>2, RequestFields DEF SendFails, LegLost, Running, RequestsKnown
        <5> QED BY <1>6, <5>1, <5>2, <5>3 DEF Serve
      <4>3. leg[c][i] = "done" /\ leg[c][req[c].srv] = "done" /\ UNCHANGED files
        BY <4>2 DEF ReplyWrite
      <4> QED BY <1>2, <3>1, <3>3, <4>3 DEF Held
    <3>4. CASE ~(Writing(c) /\ req[c].part = p)
      <4>1. phase = "live" /\ p \notin torn
        BY <3>1 DEF life
      <4>2. CASE p # req[c].part
        BY <1>1, <1>6, <3>2, <3>4, <4>1, <4>2, ServeOtherParts
      <4>3. CASE p = req[c].part
        <5>1. ~WriteChunk(c)
          BY <3>4, <4>3 DEF WriteChunk, Running, Writing
        <5>2. \A j \in Parity : ~ParityWrite(c, j)
          <6> SUFFICES ASSUME NEW j \in Parity, ParityWrite(c, j) PROVE FALSE
            OBVIOUS
          <6>1. leg[c][j] = "read" /\ j \in Server
            BY DEF ParityWrite, Server
          <6>2. req[c].op = "write" /\ InFlight(c) /\ pc[c] \in {"run", "failed"}
            BY <6>1, ReadLeg
          <6> QED BY <3>4, <4>1, <4>3, <6>2 DEF OrphansTorn, Writing
        <5>3. UNCHANGED files
          BY <1>6, <5>1, <5>2, ServeFiles
        <5> QED BY <1>1, <3>2, <3>4, <4>1, <5>3 DEF files
      <4> QED BY <4>2, <4>3
    <3> QED BY <3>3, <3>4
  <2> QED BY <2>1, <2>2
<1>7. ASSUME NEW s \in Server, Restart(s)
      PROVE  parBin'[i][p] = Encode(Row(p)')
  BY <1>1, <1>7 DEF Restart, calls, files, life, Writing
<1>8. CASE UNCHANGED vars
  BY <1>1, <1>8 DEF vars, calls, files, life, Writing
<1> QED BY <1>3, <1>4, <1>5, <1>6, <1>7, <1>8 DEF Next, Crash

\* IndInv is inductive.
LEMMA InvStep ==
  ASSUME Discipline = "stripe"
  PROVE  IndInv /\ [Next]_vars => IndInv'
<1> SUFFICES ASSUME IndInv, [Next]_vars PROVE IndInv'
  OBVIOUS
<1>1. TypeOK' /\ RequestsKnown'
  BY TypeStep DEF IndInv, IndType
<1> QED BY <1>1, ExclusionStep, QuietStep, LegsStep, OrphansStep, WritesStep, RepairsStep,
           CreatingStep, ConsistentStep DEF IndInv

\* The inductive invariant holds in every reachable state: what the handlers of
\* writes and the requests of cut writes may have left in the files.
THEOREM InductiveInvariant ==
  ASSUME Discipline = "stripe"
  PROVE  Spec => []IndInv
<1>1. IndInv /\ [Next]_vars => IndInv'
  BY InvStep
<1> QED BY InvInit, <1>1, PTL DEF Spec

\* With callers that keep the writes and degraded reads of one part number
\* apart, the parity of every part at rest that no stop has torn is the
\* encoding of its data, for any number of servers, parts, calls and stops.
THEOREM Consistent ==
  ASSUME Discipline = "stripe"
  PROVE  Spec => []StripeConsistent
<1>1. IndInv => StripeConsistent
  BY DEF IndInv
<1>2. IndInv /\ [Next]_vars => IndInv'
  BY InvStep
<1> QED BY InvInit, <1>1, <1>2, PTL DEF Spec

-----------------------------------------------------------------------------
(***************************************************************************)
(* The refinement of BlockStore, with the stops of servers.                *)
(***************************************************************************)

\* What a call looks like to its caller depends on its own state only.
LEMMA AbsStatusFrame ==
  ASSUME NEW c \in Calls,
         \A d \in Calls \ {c} : pc'[d] = pc[d] /\ leg'[d] = leg[d] /\ req'[d] = req[d],
         NEW st, AbsStatus'[c] = st
  PROVE  AbsStatus' = [AbsStatus EXCEPT ![c] = st]
<1>1. \A d \in Calls \ {c} : AbsStatus'[d] = AbsStatus[d]
  BY DEF AbsStatus
<1>2. /\ AbsStatus = [d \in Calls |-> AbsStatus[d]]
      /\ AbsStatus' = [d \in Calls |-> AbsStatus'[d]]
  BY DEF AbsStatus
<1> QED BY <1>1, <1>2

LEMMA AbsStatusKept ==
  ASSUME NEW c \in Calls,
         \A d \in Calls \ {c} : pc'[d] = pc[d] /\ leg'[d] = leg[d] /\ req'[d] = req[d],
         AbsStatus'[c] = AbsStatus[c]
  PROVE  UNCHANGED AbsStatus
<1>1. AbsStatus' = [AbsStatus EXCEPT ![c] = AbsStatus[c]]
  BY AbsStatusFrame
<1>2. AbsStatus = [d \in Calls |-> AbsStatus[d]]
  BY DEF AbsStatus
<1> QED BY <1>1, <1>2

LEMMA AbsInitial == Init => Abs!AbsInit
<1> SUFFICES ASSUME Init PROVE Abs!AbsInit
  OBVIOUS
<1>1. AbsStatus = [c \in Calls |-> "idle"]
  BY DEF Init, AbsStatus
<1>2. AbsStore = EmptyImage /\ AbsDamaged = {} /\ ~(phase = "live")
  BY DEF Init, AbsStore, AbsDamaged
<1>3. req = [c \in Calls |-> NoReq] /\ result = [c \in Calls |-> {}]
  BY DEF Init
<1> QED BY <1>1, <1>2, <1>3 DEF Abs!AbsInit, Abs!EmptyStore, EmptyImage

\* A step that only moves a thread is invisible.
LEMMA AbsStutter ==
  ASSUME UNCHANGED <<AbsStatus, req, result, AbsStore, AbsDamaged, phase>>
  PROVE  UNCHANGED Abs!absVars
  BY DEF Abs!absVars

LEMMA AbsFiles ==
  ASSUME UNCHANGED <<phase, torn, dataBin>>
  PROVE  UNCHANGED <<AbsStore, AbsDamaged>>
  BY DEF AbsStore, AbsDamaged

\* A handler only works while the file is live, and knows its request.
LEMMA Serving ==
  ASSUME IndInv, NEW c \in Calls, Active(c)
  PROVE  /\ phase = "live" /\ req[c] \in Request
         /\ req[c].srv \in Server /\ req[c].srv \notin Parity
<1>1. phase = "live"
  BY DEF IndInv, QuietUnlessLive, Quiet
<1>2. req[c] \in Request
  BY DEF IndInv, RequestsKnown, Active
<1> QED BY <1>1, <1>2, RequestFields, StripeAssumption

LEMMA AbsCall ==
  ASSUME IndInv, NEW c \in Calls, NEW r \in Request, Call(c, r)
  PROVE  Abs!Invoke(c, r)
<1>1. /\ phase = "live" /\ pc[c] = "idle"
      /\ pc' = [pc EXCEPT ![c] = "called"] /\ req' = [req EXCEPT ![c] = r]
      /\ UNCHANGED <<phase, torn, dataBin, leg, result>>
  BY DEF Call, life, files
<1>2. pc'[c] = "called" /\ \A d \in Calls \ {c} : pc'[d] = pc[d] /\ req'[d] = req[d]
  BY <1>1 DEF IndInv, TypeOK
<1>3. AbsStatus[c] = "idle" /\ AbsStatus'[c] = "called"
  BY <1>1, <1>2 DEF AbsStatus
<1>4. AbsStatus' = [AbsStatus EXCEPT ![c] = "called"]
  BY <1>1, <1>2, <1>3, AbsStatusFrame
<1> QED BY <1>1, <1>3, <1>4, AbsFiles DEF Abs!Invoke

\* The instant at which a write takes effect.
LEMMA AbsEffect ==
  ASSUME IndInv, NEW c \in Calls, WriteChunk(c)
  PROVE  Abs!Effect(c)
<1>1. Active(c) /\ pc[c] = "run" /\ req[c].op = "write"
  BY DEF WriteChunk, Running, Active
<1>2. phase = "live" /\ req[c].srv \in Server
  BY <1>1, Serving
<1>3. /\ UNCHANGED <<phase, pc, req, result, torn>>
      /\ leg[c][req[c].srv] = "todo" /\ leg' = [leg EXCEPT ![c][req[c].srv] = "done"]
      /\ dataBin' = [dataBin EXCEPT ![req[c].srv][req[c].part] = req[c].val]
  BY DEF WriteChunk, life
<1>4. leg'[c][req[c].srv] = "done" /\ \A d \in Calls \ {c} : leg'[d] = leg[d]
  BY <1>2, <1>3 DEF IndInv, TypeOK
<1>5. AbsStatus[c] = "called" /\ AbsStatus'[c] = "effected"
  BY <1>1, <1>3, <1>4 DEF AbsStatus
<1>6. AbsStatus' = [AbsStatus EXCEPT ![c] = "effected"]
  BY <1>3, <1>4, <1>5, AbsStatusFrame
<1>7. /\ AbsStore' = [AbsStore EXCEPT ![req[c].srv][req[c].part] = req[c].val]
      /\ UNCHANGED AbsDamaged
  BY <1>2, <1>3 DEF AbsStore, AbsDamaged
<1> QED BY <1>1, <1>3, <1>5, <1>6, <1>7 DEF Abs!Effect

LEMMA AbsAnswerWrite ==
  ASSUME IndInv, NEW c \in Calls, ReplyWrite(c)
  PROVE  Abs!AnswerWrite(c)
<1>1. /\ pc[c] = "run" /\ req[c].op = "write" /\ leg[c][req[c].srv] = "done"
      /\ pc' = [pc EXCEPT ![c] = "done"] /\ leg' = [leg EXCEPT ![c] = NoLeg]
      /\ UNCHANGED <<phase, dataBin, torn, req, result>>
  BY DEF ReplyWrite, Running, life, files
<1>2. pc'[c] = "done" /\ \A d \in Calls \ {c} : pc'[d] = pc[d] /\ leg'[d] = leg[d]
  BY <1>1 DEF IndInv, TypeOK
<1>3. AbsStatus[c] = "effected" /\ AbsStatus'[c] = "done"
  BY <1>1, <1>2 DEF AbsStatus
<1>4. AbsStatus' = [AbsStatus EXCEPT ![c] = "done"]
  BY <1>1, <1>2, <1>3, AbsStatusFrame
<1> QED BY <1>1, <1>3, <1>4, AbsFiles DEF Abs!AnswerWrite

\* decodeMissing returns the current content, unless a cut write has torn the
\* part: all the shards and the parity a degraded read holds are still current,
\* and no write is on its part.
LEMMA RepairReturns ==
  ASSUME IndInv, Discipline = "stripe", NEW c \in Calls, ReplyRepair(c),
         req[c].part \notin torn
  PROVE  Decode(req[c].srv, shard[c], seen[c][FirstParity])
           = Scale(req[c].srv, dataBin[req[c].srv][req[c].part])
<1>1. /\ Repairing(c) /\ Active(c)
      /\ \A s \in Server \ {req[c].srv} : leg[c][s] = "done"
  BY DEF ReplyRepair, Running, Repairing, Active
<1>2. phase = "live" /\ req[c] \in Request
  BY <1>1, Serving
<1>3. PICK k \in Data, p \in Parts : k = req[c].srv /\ p = req[c].part
  BY <1>2, RequestFields
<1>4. FirstParity \in Parity /\ FirstParity \in Server \ {k} /\ Data \subseteq Server
  BY StripeAssumption DEF Server
<1>5. \A d \in Calls : ~(Writing(d) /\ req[d].part = p)
  BY <1>1, <1>3, RepairApart DEF Writing, Repairing, Active
<1>6. parBin[FirstParity][p] = Encode(Row(p))
  BY <1>2, <1>3, <1>4, <1>5, AtRest
<1>7. /\ seen[c][FirstParity] = parBin[FirstParity][p]
      /\ \A j \in Data \ {k} : shard[c][j] = dataBin[j][p]
  BY <1>1, <1>3, <1>4 DEF IndInv, RepairsInPlace
<1>8. Row(p) \in [Data -> Value] /\ Row(p)[k] = dataBin[k][p] /\ shard[c] \in [Data -> Value]
  BY DEF Row, IndInv, TypeOK
<1>9. [shard[c] EXCEPT ![k] = {}] = [Row(p) EXCEPT ![k] = {}]
  BY <1>7, <1>8 DEF Row
<1>10. Decode(k, shard[c], Encode(Row(p))) = Decode(k, Row(p), Encode(Row(p)))
  BY <1>9 DEF Decode
<1> QED BY <1>3, <1>6, <1>7, <1>8, <1>10, DecodeEncode

\* A read, and a degraded read, return the register at their last step.
LEMMA AbsAnswer ==
  ASSUME IndInv, Discipline = "stripe", NEW c \in Calls, ServeRead(c) \/ ReplyRepair(c)
  PROVE  Abs!AnswerRead(c)
<1> DEFINE k == req[c].srv
           p == req[c].part
           y == Scale(k, dataBin[k][p])
<1>1. Active(c) /\ req[c].op \in {"read", "repair"}
  BY DEF ServeRead, ReplyRepair, Running, Active
<1>2. phase = "live" /\ req[c] \in Request /\ k \in Data /\ p \in Parts
  BY <1>1, Serving, RequestFields
<1>3. /\ pc' = [pc EXCEPT ![c] = "done"]
      /\ UNCHANGED <<phase, dataBin, torn, req>>
      /\ leg' = leg \/ leg' = [leg EXCEPT ![c] = NoLeg]
  BY DEF ServeRead, ReplyRepair, life, files
<1>4. pc'[c] = "done" /\ \A d \in Calls \ {c} : pc'[d] = pc[d] /\ leg'[d] = leg[d]
  BY <1>3 DEF IndInv, TypeOK
<1>5. AbsStatus[c] = "called" /\ AbsStatus'[c] = "done"
  BY <1>1, <1>4 DEF AbsStatus, Active
<1>6. AbsStatus' = [AbsStatus EXCEPT ![c] = "done"]
  BY <1>3, <1>4, <1>5, AbsStatusFrame
<1>7. \E x \in ParityValue : /\ result' = [result EXCEPT ![c] = x]
                             /\ x = y \/ (req[c].op = "repair" /\ p \in torn)
  <2>1. y \in ParityValue
    BY <1>2, ScaleType DEF IndInv, TypeOK
  <2>2. CASE ServeRead(c)
    BY <2>1, <2>2 DEF ServeRead
  <2>3. CASE ReplyRepair(c)
    <3> DEFINE x == Decode(k, shard[c], seen[c][FirstParity])
    <3>1. x \in ParityValue
      BY <1>2, DecodeType, StripeAssumption DEF IndInv, TypeOK
    <3>2. result' = [result EXCEPT ![c] = x] /\ req[c].op = "repair"
      BY <2>3 DEF ReplyRepair
    <3>3. p \notin torn => x = y
      BY <2>3, RepairReturns
    <3> HIDE DEF x, y, p
    <3> QED BY <3>1, <3>2, <3>3
  <2> QED BY <2>2, <2>3
<1>8. AbsStore = dataBin /\ AbsDamaged = torn
  BY <1>2 DEF AbsStore, AbsDamaged
<1>9. \E x \in Abs!ParityValue :
        /\ result' = [result EXCEPT ![c] = x]
        /\ \/ x = Abs!Scale(req[c].srv, AbsStore[req[c].srv][req[c].part])
           \/ req[c].op = "repair" /\ req[c].part \in AbsDamaged
  BY <1>7, <1>8 DEF ParityValue, Abs!ParityValue, Scale, Abs!Scale
<1> QED BY <1>1, <1>3, <1>5, <1>6, <1>9, AbsFiles DEF Abs!AnswerRead

\* The other steps of a call between its invocation and its answer.
LEMMA AbsThreads ==
  ASSUME IndInv, NEW c \in Calls,
         \/ AcceptWrite(c) \/ AcceptRepair(c)
         \/ \E s \in Server : Send(c, s) \/ ShardRead(c, s)
         \/ \E i \in Parity : ParityRead(c, i) \/ ParityWrite(c, i)
  PROVE  UNCHANGED Abs!absVars
<1>1. TypeOK
  BY DEF IndInv
<1>2. CASE AcceptWrite(c)
  <2>1. /\ pc[c] = "called" /\ pc' = [pc EXCEPT ![c] = "run"]
        /\ leg' = [leg EXCEPT ![c] = [s \in Server |-> IF s \in Parity \cup {req[c].srv}
                                                       THEN "todo" ELSE "none"]]
        /\ UNCHANGED <<phase, dataBin, torn, req, result>>
    BY <1>2 DEF AcceptWrite, life, files
  <2>2. req[c].srv \in Server
    BY <2>1, Serving DEF Active
  <2>3. /\ pc'[c] = "run" /\ leg'[c][req[c].srv] = "todo"
        /\ \A d \in Calls \ {c} : pc'[d] = pc[d] /\ leg'[d] = leg[d]
    BY <1>1, <2>1, <2>2 DEF TypeOK
  <2>4. AbsStatus'[c] = AbsStatus[c]
    BY <2>1, <2>3 DEF AbsStatus
  <2> QED BY <2>1, <2>3, <2>4, AbsStatusKept, AbsFiles, AbsStutter
<1>3. CASE AcceptRepair(c)
  <2>1. /\ pc[c] = "called" /\ req[c].op = "repair" /\ pc' = [pc EXCEPT ![c] = "run"]
        /\ leg' = [leg EXCEPT ![c] = [s \in Server |-> IF s = req[c].srv THEN "none" ELSE "todo"]]
        /\ UNCHANGED <<phase, dataBin, torn, req, result>>
    BY <1>3 DEF AcceptRepair, life, files
  <2>2. /\ pc'[c] = "run"
        /\ \A d \in Calls \ {c} : pc'[d] = pc[d] /\ leg'[d] = leg[d]
    BY <1>1, <2>1 DEF TypeOK
  <2>3. AbsStatus'[c] = AbsStatus[c]
    BY <2>1, <2>2 DEF AbsStatus
  <2> QED BY <2>1, <2>2, <2>3, AbsStatusKept, AbsFiles, AbsStutter
<1>4. ASSUME NEW s \in Server, UNCHANGED <<phase, dataBin, torn, req, result, pc>>,
             \A d \in Calls \ {c} : leg'[d] = leg[d],
             \A t \in Server \ {s} : leg'[c][t] = leg[c][t],
             pc[c] = "run" /\ req[c].op = "write" => s # req[c].srv
      PROVE  UNCHANGED Abs!absVars
  <2>1. pc[c] = "run" => req[c].srv \in Server
    BY Serving DEF Active
  <2>2. AbsStatus'[c] = AbsStatus[c]
    BY <1>4, <2>1 DEF AbsStatus
  <2> QED BY <1>4, <2>2, AbsStatusKept, AbsFiles, AbsStutter
<1>5. ASSUME NEW s \in Server, Send(c, s)
      PROVE  UNCHANGED Abs!absVars
  <2>1. leg' = [leg EXCEPT ![c][s] = "sent"] /\ s # req[c].srv
    BY <1>5 DEF Send
  <2>2. /\ \A d \in Calls \ {c} : leg'[d] = leg[d]
        /\ \A t \in Server \ {s} : leg'[c][t] = leg[c][t]
    BY <1>1, <2>1 DEF TypeOK
  <2>3. UNCHANGED <<phase, dataBin, torn, req, result, pc>>
    BY <1>5 DEF Send, life, files
  <2> QED BY <1>4, <2>1, <2>2, <2>3
<1>6. ASSUME NEW s \in Server, ShardRead(c, s)
      PROVE  UNCHANGED Abs!absVars
  <2>1. leg' = [leg EXCEPT ![c][s] = "done"] /\ req[c].op = "repair"
    BY <1>6 DEF ShardRead
  <2>2. /\ \A d \in Calls \ {c} : leg'[d] = leg[d]
        /\ \A t \in Server \ {s} : leg'[c][t] = leg[c][t]
    BY <1>1, <2>1 DEF TypeOK
  <2>3. UNCHANGED <<phase, dataBin, torn, req, result, pc>>
    BY <1>6 DEF ShardRead, life, files
  <2> QED BY <1>4, <2>1, <2>2, <2>3
<1>7. ASSUME NEW i \in Parity, ParityRead(c, i) \/ ParityWrite(c, i)
      PROVE  UNCHANGED Abs!absVars
  <2>1. i \in Server /\ (leg' = [leg EXCEPT ![c][i] = "read"] \/ leg' = [leg EXCEPT ![c][i] = "done"])
    BY <1>7 DEF ParityRead, ParityWrite, Server
  <2>2. /\ \A d \in Calls \ {c} : leg'[d] = leg[d]
        /\ \A t \in Server \ {i} : leg'[c][t] = leg[c][t]
    BY <1>1, <2>1 DEF TypeOK
  <2>3. UNCHANGED <<phase, dataBin, torn, req, result, pc>>
    BY <1>7 DEF ParityRead, ParityWrite, life, files
  <2>4. pc[c] = "run" => i # req[c].srv
    BY Serving DEF Active
  <2> QED BY <1>4, <2>1, <2>2, <2>3, <2>4
<1> QED BY <1>2, <1>3, <1>5, <1>6, <1>7

\* The calls of a data server that ends fail, and only their parts are torn.
LEMMA AbsTerminate ==
  ASSUME IndInv, NEW s \in Server, Terminate(s)
  PROVE  \E C \in SUBSET Calls : Abs!Fail(C)
<1> DEFINE C == {c \in Calls : Active(c) /\ req[c].srv = s}
           P == IF phase = "live" THEN {req[c].part : c \in {d \in Calls : Cut(d) /\ req[d].srv = s}}
                ELSE {}
<1>1. IndType
  BY DEF IndInv, IndType
<1>2. UNCHANGED <<phase, dataBin, req, result>>
  BY DEF Terminate, life, files
<1>3. C \subseteq {c \in Calls : Abs!Active(c)}
  BY DEF Active, Abs!Active, AbsStatus
<1>4. AbsStatus' = [c \in Calls |-> IF c \in C THEN "failed" ELSE AbsStatus[c]]
  <2>1. ASSUME NEW c \in Calls
        PROVE  AbsStatus'[c] = IF c \in C THEN "failed" ELSE AbsStatus[c]
    <3>1. CASE c \in C
      <4>1. pc'[c] = "failed"
        BY <3>1, <1>1, TerminateFrame DEF Terminate
      <4> QED BY <3>1, <4>1 DEF AbsStatus
    <3>2. CASE c \notin C
      <4>1. pc'[c] = pc[c]
        BY <1>1, <3>2, TerminateFrame
      <4>2. pc[c] = "run" => req[c].srv \in Server \ {s}
        BY <3>2, Serving DEF Active
      <4>3. pc[c] = "run" => leg'[c][req[c].srv] = leg[c][req[c].srv]
        BY <1>1, <4>2, TerminateFrame
      <4> QED BY <1>2, <3>2, <4>1, <4>3 DEF AbsStatus
    <3> QED BY <3>1, <3>2
  <2> HIDE DEF C
  <2>2. AbsStatus' = [c \in Calls |-> AbsStatus'[c]]
    BY DEF AbsStatus
  <2> QED BY <2>1, <2>2
<1>5. P \in SUBSET {req[c].part : c \in {e \in C : req[e].op = "write"}}
  BY DEF Cut, Active
<1>6. AbsDamaged' = AbsDamaged \cup P
  <2>1. torn' = torn \cup {req[c].part : c \in {d \in Calls : Cut(d) /\ req[d].srv = s}}
    BY DEF Terminate
  <2> QED BY <1>2, <2>1 DEF AbsDamaged
<1>7. UNCHANGED AbsStore
  BY <1>2 DEF AbsStore
<1> HIDE DEF C, P
<1>8. Abs!Fail(C)
  BY <1>2, <1>3, <1>4, <1>5, <1>6, <1>7 DEF Abs!Fail
<1>9. C \in SUBSET Calls
  BY DEF C
<1> QED BY <1>8, <1>9

\* transport->open() throws at the client: its call fails.
LEMMA AbsCallFails ==
  ASSUME IndInv, NEW c \in Calls, CallFails(c)
  PROVE  \E C \in SUBSET Calls : Abs!Fail(C)
<1>1. /\ pc[c] = "called" /\ pc' = [pc EXCEPT ![c] = "failed"]
      /\ UNCHANGED <<phase, dataBin, torn, req, result, leg>>
  BY DEF CallFails, life, files
<1>2. pc'[c] = "failed" /\ \A d \in Calls \ {c} : pc'[d] = pc[d]
  BY <1>1 DEF IndInv, TypeOK
<1>3. AbsStatus[c] = "called" /\ AbsStatus'[c] = "failed"
  BY <1>1, <1>2 DEF AbsStatus
<1>4. AbsStatus' = [AbsStatus EXCEPT ![c] = "failed"]
  BY <1>1, <1>2, <1>3, AbsStatusFrame
<1>5. AbsStatus' = [d \in Calls |-> IF d \in {c} THEN "failed" ELSE AbsStatus[d]]
  BY <1>4 DEF AbsStatus
<1>6. {c} \subseteq {d \in Calls : Abs!Active(d)}
  BY <1>3 DEF Abs!Active
<1>7. UNCHANGED <<AbsStore, AbsDamaged>>
  BY <1>1, AbsFiles
<1>8. \E P \in SUBSET {req[d].part : d \in {e \in {c} : req[e].op = "write"}} :
        AbsDamaged' = AbsDamaged \cup P
  <2>1. {} \in SUBSET {req[d].part : d \in {e \in {c} : req[e].op = "write"}}
    OBVIOUS
  <2>2. AbsDamaged' = AbsDamaged \cup {}
    BY <1>7
  <2> QED BY <2>1, <2>2
<1>9. Abs!Fail({c})
  BY <1>1, <1>5, <1>6, <1>7, <1>8 DEF Abs!Fail
<1> QED BY <1>9

\* Creating the file opens the registers at its last step, clearing it closes
\* them at the first.
LEMMA AbsManage ==
  ASSUME IndInv, Manage
  PROVE  Abs!Open \/ Abs!Close \/ UNCHANGED Abs!absVars
<1>1. UNCHANGED <<req, result, AbsStatus>>
  BY DEF Manage, StartCreate, EndCreate, StartClear, EndClear, CreateAt, ClearAt, calls,
     AbsStatus
<1>2. ASSUME phase # "live", phase' # "live"
      PROVE  UNCHANGED Abs!absVars
  BY <1>1, <1>2 DEF Abs!absVars, AbsStore, AbsDamaged
<1>3. CASE EndCreate
  <2>1. phase = "creating" /\ phase' = "live" /\ UNCHANGED <<dataBin, torn>>
    BY <1>3 DEF EndCreate, files
  <2>2. torn = {} /\ dataBin \in [Data -> [Parts -> Abs!Value]]
    BY <2>1 DEF IndInv, Creating, TypeOK, Value, Abs!Value
  <2>3. AbsStore' = dataBin /\ AbsDamaged' = {} /\ AbsDamaged = {}
    BY <2>1, <2>2 DEF AbsStore, AbsDamaged
  <2> QED BY <1>1, <2>1, <2>2, <2>3 DEF Abs!Open
<1>4. CASE StartClear
  <2>1. phase = "live" /\ phase' = "clearing" /\ Quiet
    BY <1>4 DEF StartClear
  <2>2. \A c \in Calls : pc[c] \in {"idle", "done", "failed"}
    BY <2>1 DEF Quiet, Active, IndInv, TypeOK
  <2>3. \A c \in Calls : ~Abs!Active(c)
    BY <2>2 DEF AbsStatus, Abs!Active
  <2>4. AbsStore' = Abs!EmptyStore /\ AbsDamaged' = {}
    BY <2>1 DEF AbsStore, AbsDamaged, EmptyImage, Abs!EmptyStore
  <2> QED BY <1>1, <2>1, <2>3, <2>4 DEF Abs!Close
<1>5. CASE StartCreate \/ EndClear \/ \E s \in Server : CreateAt(s) \/ ClearAt(s)
  BY <1>2, <1>5 DEF StartCreate, EndClear, CreateAt, ClearAt
<1> QED BY <1>3, <1>4, <1>5 DEF Manage

LEMMA AbsStep ==
  ASSUME Discipline = "stripe"
  PROVE  IndInv /\ [Next]_vars => [Abs!AbsNext]_(Abs!absVars)
<1> SUFFICES ASSUME IndInv, [Next]_vars
             PROVE  Abs!AbsNext \/ UNCHANGED Abs!absVars
  OBVIOUS
<1>1. ASSUME NEW c \in Calls, NEW r \in Request, Call(c, r)
      PROVE  Abs!AbsNext
  <2>1. Abs!Invoke(c, r)
    BY <1>1, AbsCall
  <2>2. r \in Abs!Request
    BY DEF Request, Abs!Request, Value, Abs!Value
  <2> QED BY <2>1, <2>2 DEF Abs!AbsNext
<1>2. ASSUME NEW s \in Server, Terminate(s)
      PROVE  Abs!AbsNext
  BY <1>2, AbsTerminate DEF Abs!AbsNext
<1>3. ASSUME NEW c \in Calls, Serve(c)
      PROVE  Abs!AbsNext \/ UNCHANGED Abs!absVars
  <2>1. CASE WriteChunk(c)
    BY <2>1, AbsEffect DEF Abs!AbsNext
  <2>2. CASE ReplyWrite(c)
    BY <2>2, AbsAnswerWrite DEF Abs!AbsNext
  <2>3. CASE ServeRead(c) \/ ReplyRepair(c)
    BY <2>3, AbsAnswer DEF Abs!AbsNext
  <2>4. CASE CallFails(c)
    BY <2>4, AbsCallFails DEF Abs!AbsNext
  <2>5. ASSUME NEW s \in Server, SendFails(c, s) \/ LegLost(c, s)
        PROVE  Abs!AbsNext
    <3>1. Active(c) /\ Terminate(req[c].srv)
      BY <2>5 DEF SendFails, LegLost, Running, Active
    <3> QED BY <1>2, <3>1, Serving
  <2>6. CASE \/ AcceptWrite(c) \/ AcceptRepair(c)
             \/ \E s \in Server : Send(c, s) \/ ShardRead(c, s)
             \/ \E i \in Parity : ParityRead(c, i) \/ ParityWrite(c, i)
    BY <2>6, AbsThreads
  <2> QED BY <1>3, <2>1, <2>2, <2>3, <2>4, <2>5, <2>6 DEF Serve
<1>4. CASE Manage
  BY <1>4, AbsManage DEF Abs!AbsNext
<1>5. ASSUME NEW s \in Server, Restart(s)
      PROVE  UNCHANGED Abs!absVars
  BY <1>5 DEF Restart, life, files, calls, Abs!absVars, AbsStatus, AbsStore, AbsDamaged
<1>6. CASE UNCHANGED vars
  BY <1>6 DEF vars, life, files, calls, Abs!absVars, AbsStatus, AbsStore, AbsDamaged
<1> QED BY <1>1, <1>2, <1>3, <1>4, <1>5, <1>6 DEF Next, Crash

\* With callers that keep the writes and degraded reads of one part number
\* apart, the default scheme implements the registers of BlockStore whatever
\* servers stop: a write takes effect when its chunk is overwritten, a call
\* fails with its data server, and a degraded read returns the last write
\* unless a stop has cut a write of its part since the file was created.
THEOREM Refinement ==
  ASSUME Discipline = "stripe"
  PROVE  Spec => ImplementsBlockStore
<1>1. IndInv /\ [Next]_vars => [Abs!AbsNext]_(Abs!absVars)
  BY AbsStep
<1>2. Spec => []IndInv
  BY InductiveInvariant
<1> QED BY AbsInitial, <1>1, <1>2, PTL DEF Spec, ImplementsBlockStore, Abs!AbsSpec
=============================================================================
