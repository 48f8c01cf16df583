------------------------- MODULE ReplicationProofs -------------------------
(***************************************************************************)
(* The inductive invariant of Replication and ReplicationLog, and with it  *)
(* the agreement of the copies, what reads return, and that the copies     *)
(* implement the registers of BlockStore, for any replicas, parts,         *)
(* contents, calls, stops and merges.                                      *)
(***************************************************************************)
EXTENDS Replication, TLAPS

\* The fields of a request lie in their sets, whatever its operation.
LEMMA RequestFields ==
  ASSUME NEW r \in Request
  PROVE  /\ r.op \in {"write", "read", "repair"}
         /\ r.part \in Parts
         /\ r.val \in Content \cup {NoContent}
         /\ r.op = "write" => r.val \in Content
  BY DEF Request

\* A call that has been made has a request.
LEMMA Asked ==
  ASSUME TypeOK, Exclusion, NEW c \in Calls, pc[c] # "idle"
  PROVE  /\ req[c] \in Request
         /\ req[c].op \in {"write", "read", "repair"}
         /\ req[c].part \in Parts
         /\ req[c].val \in Content \cup {NoContent}
         /\ req[c].op = "write" => req[c].val \in Content
  BY RequestFields DEF Exclusion

\* What a step of one leg does.
LEMMA AdvanceType ==
  ASSUME TypeOK, NEW c \in Calls, NEW s \in Server, NEW from,
         NEW to \in {"none", "todo", "sent", "logged", "done", "lost"},
         Advance(c, s, from, to)
  PROVE  /\ leg' \in [Calls -> [Server -> {"none", "todo", "sent", "logged", "done", "lost"}]]
         /\ leg[c][s] = from /\ leg'[c][s] = to
         /\ \A d \in Calls, t \in Server : <<d, t>> # <<c, s>> => leg'[d][t] = leg[d][t]
<1>1. leg \in [Calls -> [Server -> {"none", "todo", "sent", "logged", "done", "lost"}]]
  BY DEF TypeOK
<1> QED
  BY <1>1 DEF Advance

\* A call with a leg under way has been made, and its steps are those of a write.
LEMMA LegOfWrite ==
  ASSUME TypeOK, Exclusion, LegsInPlace, NEW c \in Calls, NEW s \in Server
  PROVE  /\ leg[c][s] # "none" => pc[c] \in {"run", "failed"}
         /\ leg[c][s] \in {"todo", "logged"} => Writing(c)
         /\ leg[c][s] = "done" => pc[c] = "failed" \/ Writing(c)
<1>1. leg[c] = NoLeg => leg[c][s] = "none"
  BY DEF NoLeg
<1>2. pc[c] \in {"idle", "called", "run", "done", "failed"}
  BY DEF TypeOK
<1> QED
  BY <1>1, <1>2 DEF LegsInPlace, Writing

-----------------------------------------------------------------------------
(***************************************************************************)
(* Types.                                                                  *)
(***************************************************************************)

LegType == [Calls -> [Server -> {"none", "todo", "sent", "logged", "done", "lost"}]]

\* The servers and the legs of no call.
LEMMA Constants ==
  /\ Primary \in Server /\ FirstReplica \in Server /\ FirstReplica \in Replicas
  /\ Primary \notin Replicas /\ FirstReplica # Primary
  /\ \A i \in Replicas : i \in Server
  /\ \A s \in Server : s = Primary \/ s \in Replicas
  /\ NoLeg \in [Server -> {"none", "todo", "sent", "logged", "done", "lost"}]
  /\ NoSpot \in [Server -> Nat]
  /\ NoIndex \in [Parts -> Seq(Nat)]
  BY ReplicationAssumption DEF Server, NoLeg, NoSpot, NoIndex

\* The current content of a part is a content, or none when there is no file.
LEMMA LatestType ==
  ASSUME TypeOK, IndexInLog, NEW s \in Server, NEW p \in Parts
  PROVE  Latest(s, p) \in Content \cup {NoContent}
<1>1. /\ bin[s][p] \in Content \cup {NoContent}
      /\ log[s] \in Seq(Content)
      /\ idx[s][p] \in Seq(Nat)
  BY DEF TypeOK
<1>2. CASE idx[s][p] = <<>>
  BY <1>1, <1>2 DEF Latest
<1>3. CASE idx[s][p] # <<>>
  <2>1. Len(idx[s][p]) \in DOMAIN idx[s][p]
    BY <1>1, <1>3
  <2>2. idx[s][p][Len(idx[s][p])] \in DOMAIN log[s]
    BY <2>1 DEF IndexInLog
  <2> QED
    BY <1>1, <1>3, <2>2 DEF Latest
<1> QED
  BY <1>2, <1>3

\* The end of a process keeps the types of what it changes.
LEMMA TerminateType ==
  ASSUME TypeOK, Exclusion, NEW s \in Server, Terminate(s)
  PROVE  /\ up' \in SUBSET Server
         /\ pc' \in [Calls -> {"idle", "called", "run", "done", "failed"}]
         /\ leg' \in LegType
         /\ torn' \in SUBSET Parts
         /\ fresh' \in SUBSET Calls
<1>1. up' \in SUBSET Server
  BY DEF Terminate, TypeOK
<1>2. CASE s = Primary
  <2>1. pc' = [c \in Calls |-> IF pc[c] = "run" THEN "failed" ELSE pc[c]]
    BY <1>2 DEF Terminate
  <2>2. leg' = [c \in Calls |->
                  IF pc[c] = "run" /\ req[c].op = "repair" THEN NoLeg ELSE
                  [i \in Server |-> IF leg[c][i] = "sent" THEN "sent" ELSE "none"]]
    BY <1>2 DEF Terminate
  <2>3. torn' = torn \cup {req[c].part : c \in {d \in Calls : Writing(d)}} /\ fresh' = {}
    BY <1>2 DEF Terminate
  <2>4. \A c \in Calls : Writing(c) => req[c].part \in Parts
    BY Asked DEF Writing
  <2>5. torn \subseteq Parts /\ pc \in [Calls -> {"idle", "called", "run", "done", "failed"}]
    BY DEF TypeOK
  <2>6. leg' \in LegType
    BY <2>2, Constants DEF LegType
  <2> QED
    BY <1>1, <2>1, <2>3, <2>4, <2>5, <2>6
<1>3. CASE s # Primary
  <2>1. leg' = [c \in Calls |-> IF leg[c][s] = "sent"
                                THEN [leg[c] EXCEPT ![s] = "lost"] ELSE leg[c]]
    BY <1>3 DEF Terminate
  <2>2. leg' \in LegType
    BY <2>1 DEF LegType, TypeOK
  <2> QED
    BY <1>1, <1>3, <2>2 DEF Terminate, TypeOK
<1> QED
  BY <1>2, <1>3

\* Every step keeps the types.
LEMMA TypeStep ==
  ASSUME TypeOK, Exclusion, LegsInPlace, IndexInLog, [Next]_vars
  PROVE  TypeOK'
<1> USE Constants
<1>1. ASSUME NEW image \in [Parts -> Content], Create(image) PROVE TypeOK'
  BY <1>1 DEF Create, TypeOK, calls, merge
<1>2. ASSUME NEW c \in Calls, NEW r \in Request, Call(c, r) PROVE TypeOK'
  BY <1>2 DEF Call, TypeOK, files, merge, past
<1>3. ASSUME NEW c \in Calls, CallFails(c) PROVE TypeOK'
  BY <1>3 DEF CallFails, TypeOK, files, merge, past
<1>4. ASSUME NEW c \in Calls, ServeRead(c) PROVE TypeOK'
  <2>1. Latest(Primary, req[c].part) \in Content \cup {NoContent}
    BY <1>4, Asked, LatestType DEF ServeRead
  <2>2. ReadUnlogged \in Content \cup {NoContent}
    <3>1. log[Primary] \in Seq(Content)
      BY DEF TypeOK
    <3>2. log[Primary] # <<>> => log[Primary][1] \in Content
      BY <3>1
    <3> QED
      BY <3>2 DEF ReadUnlogged
  <2> QED
    BY <1>4, <2>1, <2>2 DEF ServeRead, TypeOK, files, merge, past
<1>5. ASSUME NEW c \in Calls, AcceptWrite(c) PROVE TypeOK'
  <2>1. fresh' \subseteq Calls
    BY <1>5 DEF AcceptWrite, TypeOK
  <2> QED
    BY <1>5, <2>1 DEF AcceptWrite, TypeOK, files, merge
<1>6. ASSUME NEW c \in Calls, NEW i \in Replicas, Send(c, i) PROVE TypeOK'
  <2>1. leg' \in LegType
    BY <1>6, AdvanceType DEF Send, LegType
  <2> QED
    BY <1>6, <2>1 DEF Send, TypeOK, LegType, files, merge, past
<1>7. ASSUME NEW c \in Calls, NEW s \in Server, WriteCopy(c, s) PROVE TypeOK'
  <2>1. leg' \in LegType
    BY <1>7, AdvanceType DEF WriteCopy, LegType
  <2>2. leg[c][s] # "none"
    BY <1>7 DEF WriteCopy, Advance
  <2>3. pc[c] # "idle"
    BY <2>2, LegOfWrite
  <2>4. req[c].val \in Content
    BY <1>7, <2>3, Asked DEF WriteCopy, Write
  <2> QED
    BY <1>7, <2>1, <2>4 DEF WriteCopy, TypeOK, LegType, merge, past
<1>8. ASSUME NEW c \in Calls, NEW s \in Server, LogCopy(c, s) PROVE TypeOK'
  <2>1. leg' \in LegType
    BY <1>8, AdvanceType DEF LogCopy, LegType
  <2>2. leg[c][s] # "none"
    BY <1>8 DEF LogCopy, Advance
  <2>3. pc[c] # "idle"
    BY <2>2, LegOfWrite
  <2>4. req[c].val \in Content
    BY <1>8, <2>3, Asked DEF LogCopy, Write
  <2>5. log' \in [Server -> Seq(Content)]
    BY <1>8, <2>4 DEF LogCopy, TypeOK
  <2>6. spot' \in [Calls -> [Server -> Nat]]
    <3>1. Len(log[s]) + 1 \in Nat
      BY DEF TypeOK
    <3> QED
      BY <1>8, <3>1 DEF LogCopy, TypeOK
  <2> QED
    BY <1>8, <2>1, <2>5, <2>6 DEF LogCopy, TypeOK, LegType, merge, past
<1>9. ASSUME NEW c \in Calls, NEW s \in Server, Record(c, s) PROVE TypeOK'
  <2>1. leg' \in LegType
    BY <1>9, AdvanceType DEF Record, LegType
  <2>2. spot[c][s] \in Nat
    BY DEF TypeOK
  <2>4. req[c].part \in Parts
    BY <1>9, LegOfWrite, Asked DEF Record, Advance, Writing
  <2>5. Append(idx[s][req[c].part], spot[c][s]) \in Seq(Nat)
    BY <2>2, <2>4 DEF TypeOK
  <2>3. idx' \in [Server -> [Parts -> Seq(Nat)]]
    BY <1>9, <2>5 DEF Record, TypeOK
  <2> QED
    BY <1>9, <2>1, <2>3 DEF Record, TypeOK, LegType, merge, past
<1>10. ASSUME NEW c \in Calls, ReplyWrite(c) PROVE TypeOK'
  <2>1. req[c].val \in Content
    BY <1>10, Asked DEF ReplyWrite, Writing
  <2> QED
    BY <1>10, <2>1 DEF ReplyWrite, TypeOK, files, merge
<1>11. ASSUME NEW c \in Calls, SendRepair(c) PROVE TypeOK'
  BY <1>11 DEF SendRepair, TypeOK, files, merge, past
<1>12. ASSUME NEW c \in Calls, ReplyRepair(c) PROVE TypeOK'
  <2>1. Latest(FirstReplica, req[c].part) \in Content \cup {NoContent}
    BY <1>12, Asked, LatestType DEF ReplyRepair, Running
  <2> QED
    BY <1>12, <2>1 DEF ReplyRepair, TypeOK, files, merge, past
<1>13. ASSUME NEW c \in Calls, RepairFails(c) PROVE TypeOK'
  BY <1>13 DEF RepairFails, TypeOK, files, merge, past
<1>14. CASE AskMerge
  BY <1>14 DEF AskMerge, TypeOK, files, calls, past
<1>15. ASSUME NEW s \in Server, NEW p \in Parts, Replay(s, p) PROVE TypeOK'
  <2>1. bin' \in [Server -> [Parts -> Content \cup {NoContent}]]
    BY <1>15, LatestType DEF Replay, TypeOK
  <2> QED
    BY <1>15, <2>1 DEF Replay, TypeOK, calls, past
<1>16. ASSUME NEW s \in Server, EndMerge(s) PROVE TypeOK'
  BY <1>16 DEF EndMerge, TypeOK, calls, past
<1>17. ASSUME NEW s \in Server, Terminate(s), crashes' \in Nat PROVE TypeOK'
  BY <1>17, TerminateType DEF Terminate, TypeOK, LegType, files, merge
<1>18. ASSUME NEW s \in Server, Crash(s) PROVE TypeOK'
  <2>1. crashes' \in Nat
    BY <1>18 DEF Crash, TypeOK
  <2> QED
    BY <1>17, <1>18, <2>1 DEF Crash
<1>19. ASSUME NEW c \in Calls, NEW i \in Replicas, SendFails(c, i) PROVE TypeOK'
  <2>1. crashes' \in Nat
    BY <1>19 DEF SendFails, TypeOK
  <2> QED
    BY <1>17, <1>19, <2>1 DEF SendFails
<1>20. ASSUME NEW s \in Server, Restart(s) PROVE TypeOK'
  BY <1>20 DEF Restart, TypeOK, files, calls, merge, past
<1>21. CASE UNCHANGED vars
  BY <1>21 DEF TypeOK, vars, files, calls, merge, past
<1> QED
  BY <1>1, <1>2, <1>3, <1>4, <1>5, <1>6, <1>7, <1>8, <1>9, <1>10, <1>11, <1>12,
     <1>13, <1>14, <1>15, <1>16, <1>18, <1>19, <1>20, <1>21 DEF Next, Serve

-----------------------------------------------------------------------------
(***************************************************************************)
(* What runs beside what.                                                  *)
(***************************************************************************)

\* One call at a time writes, and no degraded read runs beside it.
LEMMA Alone ==
  ASSUME Exclusion, NEW c \in Calls, NEW d \in Calls,
         Active(c), Active(d), req[c].op = "write", req[d].op # "read"
  PROVE  c = d
  BY DEF Exclusion, Compatible

\* Where a leg is under way the file exists, and no server merges while a call
\* is active.
LEMMA Underway ==
  ASSUME TypeOK, Exclusion, LegsInPlace, NEW c \in Calls
  PROVE  /\ \A s \in Server : leg[c][s] # "none" => phase = "live"
         /\ pc[c] # "idle" => phase = "live"
         /\ Active(c) => merging = {}
<1>1. phase \in {"absent", "live"}
  BY DEF TypeOK
<1> QED
  BY <1>1, LegOfWrite DEF Exclusion

\* A leg that waits for its record belongs to a running write, and the scheme
\* logs; under such a scheme a leg that was sent belongs to one as well.
LEMMA LoggedLeg ==
  ASSUME TypeOK, Exclusion, LegsInPlace, LateTorn, NEW c \in Calls, NEW s \in Server
  PROVE  /\ leg[c][s] = "logged" => Logged /\ Writing(c)
         /\ LogCopy(c, s) => Writing(c)
<1>1. leg[c][s] = "logged" => Logged /\ Writing(c)
  BY LegOfWrite DEF LegsInPlace
<1>2. ASSUME LogCopy(c, s) PROVE Writing(c)
  <2>1. CASE leg[c][s] = "todo"
    BY <2>1, LegOfWrite
  <2>2. CASE s \in Replicas /\ leg[c][s] = "sent"
    <3>1. pc[c] \in {"run", "failed"}
      BY <2>2, LegOfWrite
    <3>2. InFlight(c) /\ Write(c) /\ torn = {}
      BY <1>2, <2>2 DEF LogCopy, InFlight, Exclusion
    <3>3. pc[c] # "failed"
      BY <3>2 DEF LateTorn, Active
    <3> QED
      BY <3>1, <3>2, <3>3 DEF Writing, Write
  <2> QED
    BY <1>2, <2>1, <2>2 DEF LogCopy, Advance
<1> QED
  BY <1>1, <1>2

\* But for the call that is made, no step makes a call active or changes what
\* it asks.
LEMMA PcStep ==
  ASSUME TypeOK, Exclusion, [Next]_vars,
         \A c \in Calls, r \in Request : ~Call(c, r)
  PROVE  /\ req' = req
         /\ \A c \in Calls : /\ pc[c] = "idle" <=> pc'[c] = "idle"
                             /\ Active(c)' => Active(c)
<1> USE DEF Active
<1>1. pc \in [Calls -> {"idle", "called", "run", "done", "failed"}]
  BY DEF TypeOK
<1>2. ASSUME NEW c \in Calls, Serve(c)
      PROVE  /\ req' = req
             /\ \A d \in Calls : /\ pc[d] = "idle" <=> pc'[d] = "idle"
                                 /\ Active(d)' => Active(d)
  <2>1. CASE CallFails(c)
    BY <1>1, <2>1 DEF CallFails
  <2>2. CASE ServeRead(c)
    BY <1>1, <2>2 DEF ServeRead
  <2>3. CASE AcceptWrite(c)
    BY <1>1, <2>3 DEF AcceptWrite
  <2>4. CASE ReplyWrite(c)
    BY <1>1, <2>4 DEF ReplyWrite, Writing
  <2>5. ASSUME NEW i \in Replicas, Send(c, i) PROVE pc' = pc /\ req' = req
    BY <2>5 DEF Send
  <2>6. ASSUME NEW i \in Replicas, SendFails(c, i)
        PROVE  /\ req' = req
               /\ pc' = [d \in Calls |-> IF pc[d] = "run" THEN "failed" ELSE pc[d]]
    BY <2>6 DEF SendFails, Terminate
  <2>7. ASSUME NEW s \in Server, WriteCopy(c, s) \/ LogCopy(c, s) \/ Record(c, s)
        PROVE  pc' = pc /\ req' = req
    BY <2>7 DEF WriteCopy, LogCopy, Record
  <2>8. CASE SendRepair(c)
    BY <1>1, <2>8 DEF SendRepair
  <2>9. CASE ReplyRepair(c)
    BY <1>1, <2>9 DEF ReplyRepair, Running
  <2>10. CASE RepairFails(c)
    BY <1>1, <2>10 DEF RepairFails
  <2> QED
    BY <1>1, <1>2, <2>1, <2>2, <2>3, <2>4, <2>5, <2>6, <2>7, <2>8, <2>9, <2>10 DEF Serve
<1>3. ASSUME NEW s \in Server, Crash(s)
      PROVE  /\ req' = req
             /\ \A d \in Calls : /\ pc[d] = "idle" <=> pc'[d] = "idle"
                                 /\ Active(d)' => Active(d)
  BY <1>1, <1>3 DEF Crash, Terminate
<1>4. ASSUME NEW image \in [Parts -> Content], Create(image) PROVE pc' = pc /\ req' = req
  BY <1>4 DEF Create, calls
<1>5. CASE AskMerge
  BY <1>5 DEF AskMerge, calls
<1>6. ASSUME NEW s \in Server,
             EndMerge(s) \/ Restart(s) \/ \E p \in Parts : Replay(s, p)
      PROVE  pc' = pc /\ req' = req
  BY <1>6 DEF EndMerge, Restart, Replay, calls
<1>7. CASE UNCHANGED vars
  BY <1>7 DEF vars, calls
<1> QED
  BY <1>2, <1>3, <1>4, <1>5, <1>6, <1>7 DEF Next

\* Every step keeps calls, merges, stops and the creation apart.
LEMMA ExclusionStep ==
  ASSUME TypeOK, Exclusion, LegsInPlace, [Next]_vars
  PROVE  Exclusion'
<1> DEFINE Asks == \A c \in Calls : pc[c] # "idle" => req[c] \in Request
           Pairs == \A c, d \in Calls :
                      c # d /\ Active(c) /\ Active(d) => Compatible(req[c], req[d])
           Merges == merging # {} => Logged /\ \A c \in Calls : ~Active(c)
           Absent == phase = "absent" => /\ merging = {}
                                         /\ \A c \in Calls : pc[c] = "idle"
                                         /\ \A s \in Server : idx[s] = NoIndex
           Stops == Logged => up = Server /\ torn = {}
<1>0. Asks /\ Pairs /\ Merges /\ Absent /\ Stops
  BY DEF Exclusion
<1>1. ASSUME NEW c \in Calls, NEW r \in Request, Call(c, r) PROVE Exclusion'
  <2>1. /\ pc' = [pc EXCEPT ![c] = "called"] /\ req' = [req EXCEPT ![c] = r]
        /\ scheme' = scheme /\ phase' = phase /\ up' = up /\ idx' = idx
        /\ merging' = merging /\ torn' = torn
    BY <1>1 DEF Call, files, merge, past
  <2>2. pc \in [Calls -> {"idle", "called", "run", "done", "failed"}]
        /\ req \in [Calls -> Request \cup {NoReq}]
    BY DEF TypeOK
  <2>3. Asks'
    BY <1>0, <2>1, <2>2
  <2>4. Pairs'
    <3>1. \A d \in Calls : d # c => (Active(d)' <=> Active(d)) /\ req'[d] = req[d]
      BY <2>1, <2>2 DEF Active
    <3>2. \A d \in Calls : Active(d) => Compatible(r, req[d])
      BY <1>1 DEF Call
    <3>3. req'[c] = r
      BY <2>1, <2>2
    <3>4. ASSUME NEW d \in Calls, d # c, Active(d)'
          PROVE  Compatible(req[c], req[d])' /\ Compatible(req[d], req[c])'
      BY <2>1, <3>1, <3>2, <3>3, <3>4 DEF Compatible, Logged
    <3>5. ASSUME NEW d \in Calls, NEW e \in Calls, d # e, d # c, e # c,
                 Active(d)', Active(e)'
          PROVE  Compatible(req[d], req[e])'
      BY <1>0, <2>1, <3>1, <3>5 DEF Compatible, Logged
    <3> QED
      BY <3>4, <3>5
  <2>5. Merges'
    BY <1>1, <2>1 DEF Call
  <2>6. Absent' /\ Stops'
    BY <1>0, <1>1, <2>1 DEF Call, Logged
  <2> QED
    BY <2>3, <2>4, <2>5, <2>6 DEF Exclusion
<1>2. CASE \A c \in Calls, r \in Request : ~Call(c, r)
  <2>1. /\ req' = req
        /\ \A c \in Calls : /\ pc[c] = "idle" <=> pc'[c] = "idle"
                            /\ Active(c)' => Active(c)
    BY <1>2, PcStep
  <2>2. scheme' = scheme /\ (phase' = "absent" => phase = "absent")
    BY SMTT(30) DEF Next, Serve, vars, Create, Call, CallFails, ServeRead, AcceptWrite, ReplyWrite,
           Send, SendFails, WriteCopy, LogCopy, Record, SendRepair, ReplyRepair,
           RepairFails, AskMerge, EndMerge, Crash, Restart, Replay, Terminate
  <2>3. merging' \subseteq merging \/ AskMerge
    BY <1>2, SMTT(30) DEF Next, Serve, vars, Create, CallFails, ServeRead, AcceptWrite, ReplyWrite,
           Send, SendFails, WriteCopy, LogCopy, Record, SendRepair, ReplyRepair,
           RepairFails, EndMerge, Crash, Restart, Replay, Terminate, merge
  <2>4. \/ idx' = idx
        \/ \E c \in Calls, s \in Server : leg[c][s] # "none"
        \/ \E s \in merging : TRUE
    BY <1>2, SMTT(30) DEF Next, Serve, vars, Create, CallFails, ServeRead, AcceptWrite, ReplyWrite,
           Send, SendFails, WriteCopy, LogCopy, Record, SendRepair, ReplyRepair,
           RepairFails, AskMerge, EndMerge, Crash, Restart, Replay, Terminate, files, Advance
  <2>5. Logged => up \subseteq up' /\ up' \subseteq Server /\ torn' \subseteq torn
    <3>1. ASSUME NEW c \in Calls, NEW i \in Replicas, SendFails(c, i) PROVE ~Logged
      BY <1>0, <3>1, Constants DEF SendFails, LegsInPlace
    <3>2. up \subseteq Server
      BY DEF TypeOK
    <3> QED
      BY <1>2, <3>1, <3>2, SMTT(30) DEF Next, Serve, vars, Create, CallFails, ServeRead, AcceptWrite,
           ReplyWrite, Send, WriteCopy, LogCopy, Record, SendRepair, ReplyRepair,
           RepairFails, AskMerge, EndMerge, Crash, Restart, Replay, past
  <2>6. Asks'
    BY <1>0, <2>1
  <2>7. Pairs'
    BY <1>0, <2>1, <2>2 DEF Compatible, Logged
  <2>8. Merges'
    BY <1>0, <2>1, <2>2, <2>3 DEF AskMerge, Logged
  <2>9. Absent'
    BY <1>0, <2>1, <2>2, <2>3, <2>4, Underway DEF AskMerge
  <2>10. Stops'
    BY <1>0, <2>2, <2>5 DEF Logged
  <2> QED
    BY <2>6, <2>7, <2>8, <2>9, <2>10 DEF Exclusion
<1> QED
  BY <1>1, <1>2

\* The scheme of a file is never changed.
LEMMA SchemeStep ==
  ASSUME [Next]_vars
  PROVE  scheme' = scheme
  BY SMTT(30) DEF Next, Serve, vars, Create, Call, CallFails, ServeRead, AcceptWrite, ReplyWrite,
         Send, SendFails, WriteCopy, LogCopy, Record, SendRepair, ReplyRepair,
         RepairFails, AskMerge, EndMerge, Crash, Restart, Replay, Terminate

\* Where one call may be.
LegsOf(c) ==
  /\ pc[c] \in {"idle", "called", "done"} => leg[c] = NoLeg
  /\ pc[c] = "failed" => \A s \in Server : leg[c][s] \in {"none", "sent", "done", "lost"}
  /\ pc[c] = "run" =>
       \/ /\ req[c].op = "write"
          /\ leg[c][Primary] \in {"todo", "logged", "done"}
          /\ \A i \in Replicas : leg[c][i] # "none"
       \/ /\ req[c].op = "repair"
          /\ \A s \in Server : leg[c][s] \in {"none", "sent", "lost"}
  /\ \A s \in Server : leg[c][s] # IF Logged THEN "lost" ELSE "logged"

\* A step of one leg of a call that leaves its record right.
LEMMA LegsAdvance ==
  ASSUME TypeOK, LegsInPlace, NEW c \in Calls, NEW s \in Server,
         NEW from \in {"todo", "sent", "logged"}, NEW to \in {"sent", "logged", "done"},
         Advance(c, s, from, to),
         pc' = pc, req' = req, scheme' = scheme,
         req[c].op = "write",
         to = "sent" => s # Primary,
         to = "logged" => Logged /\ pc[c] # "failed"
  PROVE  LegsInPlace'
<1>1. leg[c][s] = from /\ leg'[c][s] = to
      /\ \A d \in Calls, t \in Server : <<d, t>> # <<c, s>> => leg'[d][t] = leg[d][t]
  BY AdvanceType
<1>2. \A d \in Calls : d # c => leg'[d] = leg[d]
  BY DEF Advance, TypeOK
<1>3. \A d \in Calls : LegsOf(d)
  BY DEF LegsInPlace, LegsOf
<1>4. ASSUME NEW d \in Calls, d # c PROVE LegsOf(d)'
  BY <1>2, <1>3, <1>4 DEF LegsOf, Logged
<1>5. LegsOf(c)'
  <2>1. pc[c] \in {"run", "failed"}
    <3>1. leg[c] = NoLeg => leg[c][s] = "none"
      BY DEF NoLeg
    <3> QED
      BY <1>1, <1>3, <3>1 DEF LegsOf, TypeOK
  <2>2. \A t \in Server : t # s => leg'[c][t] = leg[c][t]
    BY <1>1
  <2>3. \A t \in Server : leg'[c][t] # IF Logged THEN "lost" ELSE "logged"
    BY <1>1, <1>3, <2>2 DEF LegsOf
  <2>4. CASE pc[c] = "run"
    <3>1. /\ leg[c][Primary] \in {"todo", "logged", "done"}
          /\ \A i \in Replicas : leg[c][i] # "none"
      BY <1>3, <2>4 DEF LegsOf
    <3>2. leg'[c][Primary] \in {"todo", "logged", "done"}
      BY <1>1, <2>2, <3>1, Constants
    <3>3. \A i \in Replicas : leg'[c][i] # "none"
      BY <1>1, <2>2, <3>1, Constants
    <3> QED
      BY <2>3, <2>4, <3>2, <3>3 DEF LegsOf, Logged
  <2>5. CASE pc[c] = "failed"
    BY <1>1, <1>3, <2>2, <2>3, <2>5, Constants DEF LegsOf, Logged
  <2> QED
    BY <2>1, <2>4, <2>5
<1> QED
  BY <1>4, <1>5 DEF LegsInPlace, LegsOf

\* Every step keeps the legs of the calls in place.
LEMMA LegsStep ==
  ASSUME TypeOK, Exclusion, LegsInPlace, LateTorn, [Next]_vars
  PROVE  LegsInPlace'
<1>0. /\ \A d \in Calls : LegsOf(d)
      /\ pc \in [Calls -> {"idle", "called", "run", "done", "failed"}]
      /\ leg \in [Calls -> [Server -> {"none", "todo", "sent", "logged", "done", "lost"}]]
      /\ scheme' = scheme
      /\ \A s \in Server : NoLeg[s] = "none"
  BY SchemeStep DEF LegsInPlace, LegsOf, TypeOK, NoLeg
<1>1. SUFFICES \A d \in Calls : LegsOf(d)'
  BY DEF LegsInPlace, LegsOf
<1> USE <1>0
<1>2. CASE pc' = pc /\ leg' = leg /\ req' = req
  BY <1>2 DEF LegsOf, Logged
<1>3. ASSUME NEW c \in Calls, NEW r \in Request, Call(c, r)
      PROVE  \A d \in Calls : LegsOf(d)'
  <2>1. \A d \in Calls : d # c => req'[d] = req[d] /\ pc'[d] = pc[d]
    BY <1>3 DEF Call
  <2>2. leg' = leg /\ pc'[c] = "called" /\ pc[c] = "idle"
    BY <1>3 DEF Call
  <2> QED
    BY <2>1, <2>2 DEF LegsOf, Logged
<1>4. ASSUME NEW c \in Calls, CallFails(c) \/ ServeRead(c)
      PROVE  \A d \in Calls : LegsOf(d)'
  <2>1. \A d \in Calls : d # c => pc'[d] = pc[d]
    BY <1>4 DEF CallFails, ServeRead
  <2>2. leg' = leg /\ req' = req /\ pc'[c] \in {"failed", "done"} /\ pc[c] = "called"
    BY <1>4 DEF CallFails, ServeRead
  <2> QED
    BY <2>1, <2>2 DEF LegsOf, Logged
<1>5. ASSUME NEW c \in Calls, AcceptWrite(c)
      PROVE  \A d \in Calls : LegsOf(d)'
  <2>1. \A d \in Calls : d # c => pc'[d] = pc[d] /\ leg'[d] = leg[d]
    BY <1>5 DEF AcceptWrite
  <2>2. /\ req' = req /\ pc'[c] = "run" /\ req[c].op = "write"
        /\ \A s \in Server : leg'[c][s] = "todo"
    BY <1>5 DEF AcceptWrite
  <2> QED
    BY <2>1, <2>2, Constants DEF LegsOf, Logged
<1>6. ASSUME NEW c \in Calls, NEW i \in Replicas, Send(c, i)
      PROVE  LegsInPlace'
  BY <1>6, LegsAdvance, Constants DEF Send, Writing
<1>7. ASSUME NEW c \in Calls, NEW s \in Server, WriteCopy(c, s)
      PROVE  LegsInPlace'
  BY <1>7, LegsAdvance, Constants DEF WriteCopy, Write
<1>8. ASSUME NEW c \in Calls, NEW s \in Server, LogCopy(c, s)
      PROVE  LegsInPlace'
  BY <1>8, LoggedLeg, LegsAdvance, Constants DEF LogCopy, Write, Writing
<1>9. ASSUME NEW c \in Calls, NEW s \in Server, Record(c, s)
      PROVE  LegsInPlace'
  <2>1. Advance(c, s, "logged", "done") /\ pc' = pc /\ req' = req
    BY <1>9 DEF Record
  <2>2. Writing(c)
    BY <2>1, LoggedLeg DEF Advance
  <2> QED
    BY <2>1, <2>2, LegsAdvance DEF Writing
<1>10. ASSUME NEW c \in Calls, ReplyWrite(c) \/ ReplyRepair(c) \/ RepairFails(c)
       PROVE  \A d \in Calls : LegsOf(d)'
  <2>1. \A d \in Calls : d # c => pc'[d] = pc[d] /\ leg'[d] = leg[d]
    BY <1>10 DEF ReplyWrite, ReplyRepair, RepairFails
  <2>2. req' = req /\ pc'[c] \in {"done", "failed"} /\ leg'[c] = NoLeg
    BY <1>10 DEF ReplyWrite, ReplyRepair, RepairFails
  <2> QED
    BY <2>1, <2>2 DEF LegsOf, Logged
<1>11. ASSUME NEW c \in Calls, SendRepair(c)
       PROVE  \A d \in Calls : LegsOf(d)'
  <2>1. \A d \in Calls : d # c => pc'[d] = pc[d] /\ leg'[d] = leg[d]
    BY <1>11 DEF SendRepair
  <2>2. /\ req' = req /\ pc'[c] = "run" /\ req[c].op = "repair" /\ leg[c] = NoLeg
        /\ leg'[c] = [leg[c] EXCEPT ![FirstReplica] = "sent"]
    BY <1>11 DEF SendRepair, LegsOf
  <2>3. \A s \in Server : leg'[c][s] \in {"none", "sent"}
    BY <2>2, Constants
  <2> QED
    BY <2>1, <2>2, <2>3 DEF LegsOf, Logged
<1>12. ASSUME NEW s \in Server, Terminate(s), s = Primary \/ ~Logged
       PROVE  \A d \in Calls : LegsOf(d)'
  <2>1. CASE s = Primary
    <3>1. /\ pc' = [c \in Calls |-> IF pc[c] = "run" THEN "failed" ELSE pc[c]]
          /\ leg' = [c \in Calls |->
                       IF pc[c] = "run" /\ req[c].op = "repair" THEN NoLeg ELSE
                       [i \in Server |-> IF leg[c][i] = "sent" THEN "sent" ELSE "none"]]
          /\ req' = req
      BY <1>12, <2>1 DEF Terminate
    <3>2. SUFFICES ASSUME NEW d \in Calls PROVE LegsOf(d)'
      OBVIOUS
    <3>3. \A t \in Server : leg'[d][t] \in {"none", "sent"}
      BY <3>1
    <3>4. leg[d] = NoLeg => leg'[d] = NoLeg
      BY <3>1 DEF NoLeg
    <3> QED
      BY <3>1, <3>3, <3>4 DEF LegsOf, Logged
  <2>2. CASE s # Primary
    <3>1. /\ leg' = [c \in Calls |-> IF leg[c][s] = "sent"
                                     THEN [leg[c] EXCEPT ![s] = "lost"] ELSE leg[c]]
          /\ pc' = pc /\ req' = req
      BY <1>12, <2>2 DEF Terminate
    <3>2. SUFFICES ASSUME NEW d \in Calls PROVE LegsOf(d)'
      OBVIOUS
    <3>3. \A t \in Server :
            \/ leg'[d][t] = leg[d][t]
            \/ leg[d][t] = "sent" /\ leg'[d][t] = "lost" /\ t # Primary
      <4>1. CASE leg[d][s] = "sent"
        <5>1. leg'[d] = [leg[d] EXCEPT ![s] = "lost"]
          BY <3>1, <4>1
        <5> QED
          BY <2>2, <4>1, <5>1
      <4>2. CASE leg[d][s] # "sent"
        BY <3>1, <4>2
      <4> QED
        BY <4>1, <4>2
    <3>4. leg[d] = NoLeg => leg'[d] = NoLeg
      BY <3>1
    <3> QED
      BY <1>12, <2>2, <3>1, <3>3, <3>4, Constants DEF LegsOf, Logged
  <2> QED
    BY <2>1, <2>2
<1> QED
  <2>1. LegsInPlace' => \A d \in Calls : LegsOf(d)'
    BY DEF LegsInPlace, LegsOf
  <2>2. ASSUME NEW c \in Calls, Serve(c) PROVE \A d \in Calls : LegsOf(d)'
    BY <2>1, <2>2, <1>4, <1>5, <1>6, <1>7, <1>8, <1>9, <1>10, <1>11, <1>12, Constants
       DEF Serve, SendFails
  <2>3. ASSUME NEW s \in Server, Crash(s) PROVE \A d \in Calls : LegsOf(d)'
    BY <2>3, <1>12 DEF Crash
  <2>4. ASSUME NEW image \in [Parts -> Content], Create(image) PROVE \A d \in Calls : LegsOf(d)'
    BY <2>4, <1>2 DEF Create, calls
  <2>5. ASSUME NEW s \in Server,
               EndMerge(s) \/ Restart(s) \/ (\E p \in Parts : Replay(s, p)) \/ AskMerge
        PROVE  \A d \in Calls : LegsOf(d)'
    BY <2>5, <1>2 DEF EndMerge, Restart, Replay, AskMerge, calls
  <2>6. CASE UNCHANGED vars
    BY <2>6, <1>2 DEF vars, calls
  <2> QED
    BY <2>2, <2>3, <2>4, <2>5, <2>6, <1>3, Constants DEF Next

-----------------------------------------------------------------------------
(***************************************************************************)
(* What each step that changes a file does to the current content of a     *)
(* part.                                                                   *)
(***************************************************************************)

\* The last entry of a vector that was appended to.
LEMMA AppendLast ==
  \A q \in Seq(Nat), x \in Nat :
    Append(q, x) # <<>> /\ Append(q, x)[Len(Append(q, x))] = x
<1> SUFFICES ASSUME NEW q \in Seq(Nat), NEW x \in Nat
             PROVE  Append(q, x) # <<>> /\ Append(q, x)[Len(Append(q, x))] = x
  OBVIOUS
<1>1. Len(Append(q, x)) = Len(q) + 1
  OBVIOUS
<1>2. Append(q, x) # <<>>
  <2>1. Len(<<>>) = 0 /\ Len(q) + 1 # 0
    OBVIOUS
  <2> QED
    BY <1>1, <2>1
<1> QED
  BY <1>1, <1>2

\* Without a log, a write of a copy gives the part its content at that server.
LEMMA LatestWrite ==
  ASSUME TypeOK, IndexInLog, NEW c \in Calls, NEW s \in Server, WriteCopy(c, s),
         req[c].part \in Parts
  PROVE  \A t \in Server, p \in Parts :
           Latest(t, p)' = IF t = s /\ p = req[c].part THEN req[c].val ELSE Latest(t, p)
<1>1. \A t \in Server, p \in Parts : idx[t][p] = <<>> /\ idx'[t][p] = <<>>
  BY DEF WriteCopy, IndexInLog
<1>2. bin' = [bin EXCEPT ![s][req[c].part] = req[c].val]
  BY DEF WriteCopy
<1>3. \A t \in Server, p \in Parts :
        bin'[t][p] = IF t = s /\ p = req[c].part THEN req[c].val ELSE bin[t][p]
  BY <1>2 DEF TypeOK
<1> QED
  BY <1>1, <1>3 DEF Latest

\* A record that is appended to a log is not current yet, and the earlier
\* records stay where they are.
LEMMA LatestLog ==
  ASSUME TypeOK, IndexInLog, NEW c \in Calls, NEW s \in Server, LogCopy(c, s),
         req[c].val \in Content
  PROVE  /\ \A t \in Server : \A j \in DOMAIN log[t] :
              j \in DOMAIN log'[t] /\ log'[t][j] = log[t][j]
         /\ spot'[c][s] \in DOMAIN log'[s] /\ log'[s][spot'[c][s]] = req[c].val
         /\ \A t \in Server, p \in Parts : Latest(t, p)' = Latest(t, p)
<1>1. /\ log' = [log EXCEPT ![s] = Append(log[s], req[c].val)]
      /\ spot' = [spot EXCEPT ![c][s] = Len(log[s]) + 1]
      /\ idx' = idx /\ bin' = bin
  BY DEF LogCopy
<1>2. log[s] \in Seq(Content) /\ log'[s] = Append(log[s], req[c].val)
      /\ \A t \in Server : t # s => log'[t] = log[t]
  BY <1>1 DEF TypeOK
<1>3. \A j \in DOMAIN log[s] : j \in DOMAIN log'[s] /\ log'[s][j] = log[s][j]
  BY <1>2
<1>4. \A t \in Server : \A j \in DOMAIN log[t] :
        j \in DOMAIN log'[t] /\ log'[t][j] = log[t][j]
  BY <1>2, <1>3
<1>5. spot'[c][s] = Len(log[s]) + 1
  BY <1>1 DEF TypeOK
<1>6. spot'[c][s] \in DOMAIN log'[s] /\ log'[s][spot'[c][s]] = req[c].val
  BY <1>2, <1>5
<1>7. ASSUME NEW t \in Server, NEW p \in Parts PROVE Latest(t, p)' = Latest(t, p)
  <2>1. CASE idx[t][p] = <<>>
    BY <1>1, <2>1 DEF Latest
  <2>2. CASE idx[t][p] # <<>>
    <3>1. idx[t][p] \in Seq(Nat)
      BY DEF TypeOK
    <3>2. Len(idx[t][p]) \in DOMAIN idx[t][p]
      BY <2>2, <3>1
    <3>3. idx[t][p][Len(idx[t][p])] \in DOMAIN log[t]
      BY <3>2 DEF IndexInLog
    <3> QED
      BY <1>1, <1>4, <2>2, <3>3 DEF Latest
  <2> QED
    BY <2>1, <2>2
<1> QED
  BY <1>4, <1>6, <1>7

\* The entry of a vector makes its record the current content.
LEMMA LatestRecord ==
  ASSUME TypeOK, NEW c \in Calls, NEW s \in Server, Record(c, s), req[c].part \in Parts
  PROVE  \A t \in Server, p \in Parts :
           Latest(t, p)' = IF t = s /\ p = req[c].part THEN log[s][spot[c][s]]
                           ELSE Latest(t, p)
<1>1. /\ idx' = [idx EXCEPT ![s][req[c].part] = Append(idx[s][req[c].part], spot[c][s])]
      /\ log' = log /\ bin' = bin
  BY DEF Record
<1>2. idx[s][req[c].part] \in Seq(Nat) /\ spot[c][s] \in Nat
  BY DEF TypeOK
<1>3. idx'[s][req[c].part] = Append(idx[s][req[c].part], spot[c][s])
  BY <1>1 DEF TypeOK
<1>4. \A t \in Server, p \in Parts :
        ~(t = s /\ p = req[c].part) => idx'[t][p] = idx[t][p]
  BY <1>1 DEF TypeOK
<1>5. /\ idx'[s][req[c].part] # <<>>
      /\ idx'[s][req[c].part][Len(idx'[s][req[c].part])] = spot[c][s]
  <2> DEFINE q == idx[s][req[c].part]
  <2>1. /\ Append(q, spot[c][s]) # <<>>
        /\ Append(q, spot[c][s])[Len(Append(q, spot[c][s]))] = spot[c][s]
    BY <1>2, AppendLast, Zenon
  <2> QED
    BY <1>3, <2>1
<1>8. log' = log /\ bin' = bin
  BY <1>1
<1>6. ASSUME NEW p \in Parts, p = req[c].part
      PROVE  Latest(s, p)' = log[s][spot[c][s]]
  <2>1. idx'[s][p] # <<>> /\ idx'[s][p][Len(idx'[s][p])] = spot[c][s]
    BY <1>5, <1>6
  <2> QED
    BY <1>8, <2>1 DEF Latest
<1>7. ASSUME NEW t \in Server, NEW p \in Parts, ~(t = s /\ p = req[c].part)
      PROVE  Latest(t, p)' = Latest(t, p)
  BY <1>4, <1>7, <1>8 DEF Latest
<1> QED
  <2>1. SUFFICES ASSUME NEW t \in Server, NEW p \in Parts
                 PROVE  Latest(t, p)' = IF t = s /\ p = req[c].part THEN log[s][spot[c][s]]
                                        ELSE Latest(t, p)
    OBVIOUS
  <2>2. CASE t = s /\ p = req[c].part
    BY <1>6, <2>2
  <2>3. CASE ~(t = s /\ p = req[c].part)
    BY <1>7, <2>3
  <2> QED
    BY <2>2, <2>3

\* A merge changes where the current contents are, not what they are.
LEMMA LatestMerge ==
  ASSUME TypeOK, MergeInPlace, NEW s \in Server,
         EndMerge(s) \/ \E p \in Parts : Replay(s, p)
  PROVE  \A t \in Server, p \in Parts : Latest(t, p)' = Latest(t, p)
<1>1. ASSUME NEW q \in Parts, Replay(s, q)
      PROVE  \A t \in Server, p \in Parts : Latest(t, p)' = Latest(t, p)
  <2>1. /\ bin' = [bin EXCEPT ![s][q] = Latest(s, q)] /\ log' = log /\ idx' = idx
    BY <1>1 DEF Replay
  <2>2. \A t \in Server, p \in Parts :
          bin'[t][p] = IF t = s /\ p = q THEN Latest(s, q) ELSE bin[t][p]
    BY <2>1 DEF TypeOK
  <2> QED
    BY <2>1, <2>2 DEF Latest
<1>2. CASE EndMerge(s)
  <2>1. /\ s \in merging /\ replay[s] = {}
        /\ idx' = [idx EXCEPT ![s] = NoIndex] /\ bin' = bin /\ log' = log
    BY <1>2 DEF EndMerge
  <2>2. \A p \in Parts : Latest(s, p) = bin[s][p]
    BY <2>1 DEF MergeInPlace
  <2>3. \A p \in Parts : idx'[s][p] = <<>>
    BY <2>1 DEF TypeOK, NoIndex
  <2>4. \A t \in Server : t # s => idx'[t] = idx[t]
    BY <2>1 DEF TypeOK
  <2> QED
    BY <2>1, <2>2, <2>3, <2>4 DEF Latest
<1> QED
  BY <1>1, <1>2

\* Every step keeps the entries of the vectors inside the logs.
LEMMA IndexStep ==
  ASSUME TypeOK, Exclusion, LegsInPlace, IndexInLog, WritesInPlace, LateTorn, [Next]_vars
  PROVE  IndexInLog'
<1>0. scheme' = scheme
  BY SchemeStep
<1>1. CASE idx' = idx /\ log' = log
  BY <1>0, <1>1 DEF IndexInLog, Logged
<1>2. ASSUME NEW c \in Calls, NEW s \in Server, LogCopy(c, s) PROVE IndexInLog'
  <2>1. req[c].val \in Content
    BY <1>2, LoggedLeg, Asked DEF Writing
  <2>2. \A t \in Server : \A j \in DOMAIN log[t] : j \in DOMAIN log'[t]
    BY <1>2, <2>1, LatestLog
  <2> QED
    BY <1>0, <1>2, <2>2 DEF IndexInLog, LogCopy, Logged
<1>3. ASSUME NEW c \in Calls, NEW s \in Server, Record(c, s) PROVE IndexInLog'
  <2>1. Logged /\ Writing(c) /\ spot[c][s] \in DOMAIN log[s]
    BY <1>3, LoggedLeg DEF Record, Advance, WritesInPlace
  <2>2. req[c].part \in Parts
    BY <2>1, Asked DEF Writing
  <2>3. idx[s][req[c].part] \in Seq(Nat) /\ spot[c][s] \in Nat
    BY <2>2 DEF TypeOK
  <2>4. /\ idx'[s][req[c].part] = Append(idx[s][req[c].part], spot[c][s])
        /\ \A t \in Server, p \in Parts :
             ~(t = s /\ p = req[c].part) => idx'[t][p] = idx[t][p]
        /\ log' = log
    BY <1>3, <2>2 DEF Record, TypeOK
  <2>5. \A j \in DOMAIN idx'[s][req[c].part] :
          \/ /\ j \in DOMAIN idx[s][req[c].part]
             /\ idx'[s][req[c].part][j] = idx[s][req[c].part][j]
          \/ idx'[s][req[c].part][j] = spot[c][s]
    <3> DEFINE q == idx[s][req[c].part]
               x == spot[c][s]
    <3>1. q \in Seq(Nat) /\ x \in Nat /\ idx'[s][req[c].part] = Append(q, x)
      BY <2>3, <2>4
    <3> HIDE DEF q, x
    <3>2. \A j \in DOMAIN Append(q, x) : (j \in DOMAIN q /\ Append(q, x)[j] = q[j])
                                         \/ Append(q, x)[j] = x
      BY <3>1
    <3> QED
      BY <3>1, <3>2 DEF q, x
  <2>6. ASSUME NEW t \in Server, NEW p \in Parts, NEW j \in DOMAIN idx'[t][p]
        PROVE  idx'[t][p][j] \in DOMAIN log[t]
    <3>1. CASE t = s /\ p = req[c].part
      BY <2>1, <2>2, <2>5, <3>1 DEF IndexInLog
    <3>2. CASE ~(t = s /\ p = req[c].part)
      BY <2>4, <3>2 DEF IndexInLog
    <3> QED
      BY <3>1, <3>2
  <2> QED
    BY <1>0, <2>1, <2>4, <2>6 DEF IndexInLog, Logged
<1>4. ASSUME NEW s \in Server, EndMerge(s) PROVE IndexInLog'
  <2>1. /\ \A t \in Server : t # s => idx'[t] = idx[t]
        /\ idx'[s] = NoIndex /\ log' = log
    BY <1>4 DEF EndMerge, TypeOK
  <2>2. \A p \in Parts : idx'[s][p] = <<>> /\ DOMAIN idx'[s][p] = {}
    BY <2>1 DEF NoIndex
  <2> QED
    BY <1>0, <2>1, <2>2 DEF IndexInLog, Logged
<1> QED
  BY <1>1, <1>2, <1>3, <1>4
     DEF Next, Serve, vars, Create, Call, CallFails, ServeRead, AcceptWrite, ReplyWrite,
         Send, SendFails, WriteCopy, SendRepair, ReplyRepair, RepairFails, AskMerge,
         Crash, Restart, Replay, Terminate, files

\* Every step keeps what a merging server has replayed in user_data.bin.
LEMMA MergeStep ==
  ASSUME TypeOK, Exclusion, LegsInPlace, IndexInLog, LateTorn, MergeInPlace, [Next]_vars
  PROVE  MergeInPlace'
<1>1. CASE bin' = bin /\ idx' = idx /\ log' = log /\ merging' = merging /\ replay' = replay
  BY <1>1 DEF MergeInPlace, Latest
<1>2. CASE merging' = {}
  BY <1>2 DEF MergeInPlace
<1>3. ASSUME NEW image \in [Parts -> Content], Create(image) PROVE merging' = {}
  BY <1>3 DEF Create, merge, Exclusion
<1>4. ASSUME NEW c \in Calls, NEW s \in Server, WriteCopy(c, s) PROVE merging' = {}
  BY <1>4 DEF WriteCopy, merge, Exclusion
<1>5. ASSUME NEW c \in Calls, NEW s \in Server, LogCopy(c, s) PROVE merging' = {}
  BY <1>5, LoggedLeg, Underway DEF LogCopy, merge, Writing, Active
<1>6. ASSUME NEW c \in Calls, NEW s \in Server, Record(c, s) PROVE merging' = {}
  BY <1>6, LoggedLeg, Underway DEF Record, Advance, merge, Writing, Active
<1>7. CASE AskMerge
  <2>1. merging' = Server /\ \A s \in Server : replay'[s] = Parts
    BY <1>7 DEF AskMerge
  <2> QED
    BY <2>1 DEF MergeInPlace
<1>8. ASSUME NEW s \in Server, NEW q \in Parts, Replay(s, q) PROVE MergeInPlace'
  <2>1. /\ replay' = [replay EXCEPT ![s] = @ \ {q}]
        /\ bin' = [bin EXCEPT ![s][q] = Latest(s, q)]
        /\ merging' = merging
    BY <1>8 DEF Replay
  <2>2. \A t \in Server, p \in Parts : Latest(t, p)' = Latest(t, p)
    BY <1>8, LatestMerge
  <2>3. \A t \in Server, p \in Parts :
          bin'[t][p] = IF t = s /\ p = q THEN Latest(s, q) ELSE bin[t][p]
    BY <2>1 DEF TypeOK
  <2>4. \A t \in Server, p \in Parts :
          p \notin replay'[t] => p \notin replay[t] \/ (t = s /\ p = q)
    BY <2>1 DEF TypeOK
  <2>5. merging \subseteq Server
    BY DEF TypeOK
  <2> QED
    BY <2>1, <2>2, <2>3, <2>4, <2>5 DEF MergeInPlace
<1>9. ASSUME NEW s \in Server, EndMerge(s) PROVE MergeInPlace'
  <2>1. merging' = merging \ {s} /\ replay' = replay /\ bin' = bin
    BY <1>9 DEF EndMerge
  <2>2. \A t \in Server, p \in Parts : Latest(t, p)' = Latest(t, p)
    BY <1>9, LatestMerge
  <2>3. merging \subseteq Server
    BY DEF TypeOK
  <2> QED
    BY <2>1, <2>2, <2>3 DEF MergeInPlace
<1> QED
  BY <1>1, <1>2, <1>3, <1>4, <1>5, <1>6, <1>7, <1>8, <1>9
     DEF Next, Serve, vars, Call, CallFails, ServeRead, AcceptWrite, ReplyWrite,
         Send, SendFails, SendRepair, ReplyRepair, RepairFails,
         Crash, Restart, Terminate, files, merge

-----------------------------------------------------------------------------
(***************************************************************************)
(* The contents: what running, cut and answered writes leave behind.       *)
(***************************************************************************)

Contents == WritesInPlace /\ LateTorn /\ FreshAlone /\ CopiesAgree

\* A step that no write takes part in.
Quiet ==
  /\ scheme' = scheme /\ phase' = phase /\ log' = log /\ past' = past
  /\ \A c \in Calls :
       /\ Writing(c)' <=> Writing(c)
       /\ Writing(c) => req'[c] = req[c] /\ leg'[c] = leg[c] /\ spot'[c] = spot[c]
       /\ InFlight(c)' => InFlight(c) /\ req'[c] = req[c] /\ pc'[c] = pc[c]
  /\ \A s \in Server, p \in Parts : Latest(s, p)' = Latest(s, p)

\* A write that runs is for a part of the file.
LEMMA PartOfWrite ==
  ASSUME TypeOK, Exclusion, NEW c \in Calls
  PROVE  /\ Writing(c) => req[c].part \in Parts /\ Write(c) /\ Active(c)
         /\ InFlight(c) /\ ~Writing(c) /\ pc[c] \in {"run", "failed"} => ~Active(c)
<1>1. ASSUME Writing(c) PROVE req[c].part \in Parts /\ Write(c) /\ Active(c)
  <2>1. pc[c] # "idle" /\ pc[c] = "run" /\ req[c].op = "write"
    BY <1>1 DEF Writing
  <2>2. req[c].part \in Parts
    BY <2>1, Asked
  <2>3. req[c] # NoReq
    BY <2>1, NoReqAssumption DEF Exclusion
  <2> QED
    BY <2>1, <2>2, <2>3 DEF Write, Active
<1>2. InFlight(c) /\ ~Writing(c) /\ pc[c] \in {"run", "failed"} => ~Active(c)
  BY DEF InFlight, Write, Writing, Active
<1> QED
  BY <1>1, <1>2

\* A quiet step keeps the contents.
LEMMA QuietStep ==
  ASSUME TypeOK, Exclusion, Contents, Quiet
  PROVE  Contents'
<1>0. /\ scheme' = scheme /\ phase' = phase /\ log' = log
      /\ last' = last /\ torn' = torn /\ fresh' = fresh
      /\ fresh \subseteq Calls
  BY DEF Quiet, past, TypeOK
<1>1. \A c \in Calls :
        /\ Writing(c)' <=> Writing(c)
        /\ Writing(c) => req'[c] = req[c] /\ leg'[c] = leg[c] /\ spot'[c] = spot[c]
        /\ InFlight(c)' => InFlight(c) /\ req'[c] = req[c] /\ pc'[c] = pc[c]
  BY DEF Quiet
<1>2. \A s \in Server, p \in Parts : Latest(s, p)' = Latest(s, p)
  BY DEF Quiet
<1>3. WritesInPlace'
  <2>1. SUFFICES ASSUME NEW c \in Calls, Writing(c)
                 PROVE  /\ \A s \in Server :
                             /\ leg'[c][s] = "logged" => /\ spot'[c][s] \in DOMAIN log'[s]
                                                         /\ log'[s][spot'[c][s]] = req'[c].val
                             /\ c \in fresh' /\ leg'[c][s] = "done" =>
                                  Latest(s, req[c].part)' = req'[c].val
                             /\ req'[c].part \notin torn' /\ leg'[c][s] # "done" =>
                                  Latest(s, req[c].part)' = last'[req'[c].part]
                        /\ req'[c].part \notin torn' => c \in fresh'
    BY <1>1 DEF WritesInPlace
  <2>2. req[c].part \in Parts
    BY <2>1, PartOfWrite
  <2>3. PICK p \in Parts : p = req[c].part
    BY <2>2
  <2>4. \A s \in Server : Latest(s, req[c].part)' = Latest(s, req[c].part)
    <3>1. req'[c].part = p
      BY <1>1, <2>1, <2>3
    <3>2. \A s \in Server : Latest(s, p)' = Latest(s, p)
      BY <1>2
    <3> QED
      BY <2>3, <3>1, <3>2 DEF Latest
  <2> QED
    BY <1>0, <1>1, <2>1, <2>4 DEF Contents, WritesInPlace
<1>4. LateTorn'
  BY <1>0, <1>1 DEF Contents, LateTorn, Active
<1>5. FreshAlone'
  BY <1>0, <1>1 DEF Contents, FreshAlone
<1>6. CopiesAgree'
  BY <1>0, <1>1, <1>2 DEF Contents, CopiesAgree, AtRest
<1> QED
  BY <1>3, <1>4, <1>5, <1>6 DEF Contents

\* Where the contents are unchanged, so are the current ones.
LEMMA LatestSame ==
  ASSUME files' = files
  PROVE  \A s \in Server, p \in Parts : Latest(s, p)' = Latest(s, p)
  BY DEF files, Latest

\* A call that changes its own entries only, and is no write before or after.
LEMMA QuietCall ==
  ASSUME TypeOK, Exclusion, LegsInPlace, NEW c \in Calls,
         scheme' = scheme, phase' = phase, log' = log, past' = past, files' = files,
         \A d \in Calls : d # c => /\ pc'[d] = pc[d] /\ req'[d] = req[d]
                                   /\ leg'[d] = leg[d] /\ spot'[d] = spot[d],
         ~Writing(c), ~Writing(c)',
         leg'[c] = NoLeg \/ (req'[c] # NoReq /\ req'[c].op # "write")
  PROVE  Quiet
<1>1. ~InFlight(c)'
  BY Constants DEF InFlight, Write, NoLeg
<1>2. \A d \in Calls : d # c => /\ Writing(d)' <=> Writing(d)
                                /\ InFlight(d)' <=> InFlight(d)
  BY DEF Writing, InFlight, Write
<1> QED
  BY <1>1, <1>2, LatestSame DEF Quiet

\* The steps of reads and degraded reads, of a call that is made or fails at
\* once, of a merge and of a start are quiet.
LEMMA QuietNext ==
  ASSUME TypeOK, Exclusion, LegsInPlace, MergeInPlace, [Next]_vars
  PROVE  \/ Quiet
         \/ \E image \in [Parts -> Content] : Create(image)
         \/ \E c \in Calls : \/ AcceptWrite(c) \/ ReplyWrite(c)
                             \/ \E i \in Replicas : Send(c, i) \/ SendFails(c, i)
                             \/ \E s \in Server : WriteCopy(c, s) \/ LogCopy(c, s) \/ Record(c, s)
         \/ \E s \in Server : Crash(s)
<1>0. /\ pc \in [Calls -> {"idle", "called", "run", "done", "failed"}]
      /\ req \in [Calls -> Request \cup {NoReq}]
      /\ leg \in [Calls -> [Server -> {"none", "todo", "sent", "logged", "done", "lost"}]]
  BY DEF TypeOK
<1>1. ASSUME NEW c \in Calls, NEW r \in Request, Call(c, r) PROVE Quiet
  <2>1. /\ pc' = [pc EXCEPT ![c] = "called"] /\ req' = [req EXCEPT ![c] = r] /\ pc[c] = "idle"
        /\ scheme' = scheme /\ phase' = phase /\ files' = files /\ log' = log
        /\ past' = past /\ leg' = leg /\ spot' = spot
    BY <1>1 DEF Call, files
  <2>2. leg'[c] = NoLeg
    BY <2>1 DEF LegsInPlace
  <2>3. ~Writing(c) /\ ~Writing(c)'
    BY <1>0, <2>1 DEF Writing
  <2> QED
    BY <1>0, <2>1, <2>2, <2>3, QuietCall
<1>2. ASSUME NEW c \in Calls, CallFails(c) \/ ServeRead(c) PROVE Quiet
  <2>1. /\ \E to \in {"failed", "done"} : pc' = [pc EXCEPT ![c] = to]
        /\ pc[c] = "called"
        /\ scheme' = scheme /\ phase' = phase /\ files' = files /\ log' = log
        /\ past' = past /\ req' = req /\ leg' = leg /\ spot' = spot
    BY <1>2 DEF CallFails, ServeRead, files
  <2>2. leg'[c] = NoLeg
    BY <2>1 DEF LegsInPlace
  <2>3. ~Writing(c) /\ ~Writing(c)'
    BY <1>0, <2>1 DEF Writing
  <2>4. \A d \in Calls : d # c => pc'[d] = pc[d]
    BY <2>1
  <2> QED
    BY <2>1, <2>2, <2>3, <2>4, QuietCall
<1>3. ASSUME NEW c \in Calls, SendRepair(c) \/ ReplyRepair(c) \/ RepairFails(c) PROVE Quiet
  <2>1. /\ pc[c] # "idle" /\ req[c].op = "repair"
        /\ scheme' = scheme /\ phase' = phase /\ files' = files /\ log' = log
        /\ past' = past /\ req' = req /\ spot' = spot
        /\ \A d \in Calls : d # c => pc'[d] = pc[d] /\ leg'[d] = leg[d]
    <3>1. CASE SendRepair(c)
      BY <1>0, <3>1 DEF SendRepair, files
    <3>2. CASE ReplyRepair(c)
      BY <1>0, <3>2 DEF ReplyRepair, Running, files
    <3>3. CASE RepairFails(c)
      BY <1>0, <3>3 DEF RepairFails, files
    <3> QED
      BY <1>3, <3>1, <3>2, <3>3
  <2>2. req[c] # NoReq
    BY <2>1, NoReqAssumption DEF Exclusion
  <2>3. ~Writing(c) /\ ~Writing(c)'
    BY <2>1 DEF Writing
  <2> QED
    BY <2>1, <2>2, <2>3, QuietCall
<1>4. ASSUME calls' = calls, past' = past, scheme' = scheme, phase' = phase, log' = log,
             \A s \in Server, p \in Parts : Latest(s, p)' = Latest(s, p)
      PROVE  Quiet
  BY <1>4 DEF Quiet, calls, Writing, InFlight, Write
<1>5. ASSUME NEW s \in Server, EndMerge(s) \/ \E p \in Parts : Replay(s, p) PROVE Quiet
  <2>1. calls' = calls /\ past' = past /\ scheme' = scheme /\ phase' = phase /\ log' = log
    BY <1>5 DEF EndMerge, Replay
  <2> QED
    BY <1>4, <1>5, <2>1, LatestMerge
<1>6. ASSUME AskMerge \/ (\E s \in Server : Restart(s)) \/ UNCHANGED vars PROVE Quiet
  <2>1. /\ calls' = calls /\ past' = past /\ scheme' = scheme /\ phase' = phase
        /\ log' = log /\ files' = files
    BY <1>6 DEF AskMerge, Restart, vars, files
  <2> QED
    BY <1>4, <2>1, LatestSame
<1> QED
  BY <1>1, <1>2, <1>3, <1>5, <1>6 DEF Next, Serve

\* What WritesInPlace says of write c of part p.
InPlace(c, p) ==
  /\ \A s \in Server :
       /\ leg[c][s] = "logged" => /\ spot[c][s] \in DOMAIN log[s]
                                  /\ log[s][spot[c][s]] = req[c].val
       /\ c \in fresh /\ leg[c][s] = "done" => Latest(s, p) = req[c].val
       /\ p \notin torn /\ leg[c][s] # "done" => Latest(s, p) = last[p]
  /\ p \notin torn => c \in fresh

\* WritesInPlace, with the part of the write as a constant.
LEMMA InPlaceWrites ==
  /\ WritesInPlace => \A c \in Calls, p \in Parts :
                        Writing(c) /\ req[c].part = p => InPlace(c, p)
  /\ /\ \A c \in Calls : Writing(c)' => req'[c].part \in Parts
     /\ \A c \in Calls, p \in Parts :
          Writing(c)' /\ req'[c].part = p => InPlace(c, p)'
     => WritesInPlace'
<1>1. WritesInPlace => \A c \in Calls, p \in Parts :
                         Writing(c) /\ req[c].part = p => InPlace(c, p)
  BY DEF WritesInPlace, InPlace
<1>2. ASSUME \A c \in Calls : Writing(c)' => req'[c].part \in Parts,
             \A c \in Calls, p \in Parts :
               Writing(c)' /\ req'[c].part = p => InPlace(c, p)'
      PROVE  WritesInPlace'
  <2>1. ASSUME NEW c \in Calls, Writing(c)'
        PROVE  InPlace(c, req[c].part)'
    <3>1. PICK p \in Parts : p = req'[c].part
      BY <1>2, <2>1
    <3>2. InPlace(c, p)'
      BY <1>2, <2>1, <3>1
    <3> QED
      BY <3>1, <3>2 DEF InPlace, Latest
  <2> QED
    BY <2>1 DEF WritesInPlace, InPlace
<1> QED
  BY <1>1, <1>2

\* While a write runs, no other write is called or runs.
LEMMA OneWrite ==
  ASSUME TypeOK, Exclusion, LegsInPlace, NEW c \in Calls, Active(c), req[c].op = "write"
  PROVE  /\ \A d \in Calls : Writing(d) => d = c
         /\ \A d \in Calls : d # c /\ InFlight(d) => ~Active(d)
         /\ pc[c] = "called" => ~InFlight(c)
<1>1. \A d \in Calls : Writing(d) => d = c
  BY Alone DEF Writing, Active
<1>2. \A d \in Calls : d # c /\ InFlight(d) => ~Active(d)
  BY Alone DEF InFlight, Write
<1>3. pc[c] = "called" => ~InFlight(c)
  <2>1. ASSUME pc[c] = "called" PROVE leg[c] = NoLeg
    BY <2>1 DEF LegsInPlace
  <2> QED
    BY <2>1, Constants DEF InFlight, NoLeg
<1> QED
  BY <1>1, <1>2, <1>3

\* The creation: every copy has the image, and no call is known.
LEMMA CreateContents ==
  ASSUME TypeOK, Exclusion, LegsInPlace, Contents,
         NEW image \in [Parts -> Content], Create(image)
  PROVE  Contents'
<1>1. /\ phase = "absent" /\ bin' = [s \in Server |-> image] /\ last' = image
      /\ idx' = idx /\ log' = log /\ pc' = pc /\ req' = req /\ leg' = leg
      /\ torn' = torn /\ fresh' = fresh
  BY DEF Create, calls
<1>2. \A c \in Calls : pc'[c] = "idle" /\ leg'[c] = NoLeg
  BY <1>1 DEF Exclusion, LegsInPlace
<1>3. \A c \in Calls : ~Writing(c) /\ ~Writing(c)' /\ ~InFlight(c)'
  BY <1>1, <1>2, Constants DEF Writing, InFlight, NoLeg
<1>4. fresh' = {}
  BY <1>1, <1>3 DEF Contents, FreshAlone, TypeOK
<1>5. \A s \in Server, p \in Parts : Latest(s, p)' = last'[p]
  BY <1>1 DEF Latest, Exclusion, NoIndex
<1> QED
  BY <1>3, <1>4, <1>5 DEF Contents, WritesInPlace, LateTorn, FreshAlone, CopiesAgree

\* A write is accepted: every copy of a part that is not torn has the last
\* content, and no late request is for it.
LEMMA AcceptContents ==
  ASSUME TypeOK, Exclusion, LegsInPlace, Contents, NEW c \in Calls, AcceptWrite(c)
  PROVE  Contents'
<1>1. /\ pc' = [pc EXCEPT ![c] = "run"] /\ pc[c] = "called" /\ req[c].op = "write"
      /\ leg' = [leg EXCEPT ![c] = [s \in Server |-> "todo"]]
      /\ fresh' = fresh \cup {e \in {c} : \A d \in Calls :
                                InFlight(d) => req[d].part # req[c].part}
      /\ files' = files /\ req' = req /\ spot' = spot /\ last' = last /\ torn' = torn
      /\ phase' = phase /\ log' = log
  BY DEF AcceptWrite, files
<1>2. /\ \A d \in Calls : ~Writing(d)
      /\ \A d \in Calls : InFlight(d) => ~Active(d)
  BY <1>1, OneWrite DEF Active, Writing
<1>3. fresh = {}
  BY <1>2 DEF Contents, FreshAlone, TypeOK
<1>4. \A d \in Calls : d # c => pc'[d] = pc[d] /\ leg'[d] = leg[d]
  BY <1>1
<1>5. pc'[c] = "run" /\ \A s \in Server : leg'[c][s] = "todo"
  BY <1>1 DEF TypeOK
<1>6. \A d \in Calls : /\ Writing(d)' <=> d = c
                       /\ InFlight(d)' => d # c /\ InFlight(d) /\ ~Active(d)'
  BY <1>1, <1>2, <1>4, <1>5, Constants DEF Writing, InFlight, Write, Active
<1>7. req[c].part \in Parts /\ phase = "live"
  BY <1>1, Asked, Underway
<1>8. req[c].part \notin torn => c \in fresh'
  BY <1>1, <1>2 DEF Contents, LateTorn
<1>9. \A s \in Server, p \in Parts : Latest(s, p)' = Latest(s, p)
  BY <1>1, LatestSame
<1>10. \A s \in Server, p \in Parts : p \notin torn => Latest(s, p) = last[p]
  BY <1>2, <1>7 DEF Contents, CopiesAgree, AtRest
<1>11. WritesInPlace'
  <2>1. ASSUME NEW p \in Parts, p = req[c].part PROVE InPlace(c, p)'
    BY <1>1, <1>5, <1>8, <1>9, <1>10, <2>1 DEF InPlace
  <2> QED
    BY <1>1, <1>6, <1>7, <2>1, InPlaceWrites
<1>12. LateTorn'
  BY <1>1, <1>2, <1>6 DEF Contents, LateTorn
<1>13. FreshAlone'
  BY <1>1, <1>3, <1>6 DEF FreshAlone
<1>14. CopiesAgree'
  BY <1>1, <1>9, <1>10 DEF CopiesAgree, AtRest
<1> QED
  BY <1>11, <1>12, <1>13, <1>14 DEF Contents

\* The step of a leg of the running write, which changes the current content of
\* no part but its own, and that at the server of the leg only, and to the new
\* content when the leg is done.
LEMMA LegContents ==
  ASSUME TypeOK, Exclusion, LegsInPlace, Contents,
         NEW c \in Calls, NEW s \in Server, Writing(c),
         NEW from \in {"todo", "sent", "logged"}, NEW to \in {"sent", "logged", "done"},
         Advance(c, s, from, to),
         scheme' = scheme, phase' = phase, past' = past, pc' = pc, req' = req,
         \A t \in Server : \A j \in DOMAIN log[t] :
           j \in DOMAIN log'[t] /\ log'[t][j] = log[t][j],
         \A d \in Calls, t \in Server : <<d, t>> # <<c, s>> => spot'[d][t] = spot[d][t],
         to = "logged" => /\ spot'[c][s] \in DOMAIN log'[s]
                          /\ log'[s][spot'[c][s]] = req[c].val,
         \A t \in Server, p \in Parts :
           Latest(t, p)' = IF to = "done" /\ t = s /\ p = req[c].part THEN req[c].val
                           ELSE Latest(t, p)
  PROVE  Contents'
<1>1. /\ leg[c][s] = from /\ leg'[c][s] = to
      /\ \A d \in Calls, t \in Server : <<d, t>> # <<c, s>> => leg'[d][t] = leg[d][t]
  BY AdvanceType
<1>2. last' = last /\ torn' = torn /\ fresh' = fresh
  BY DEF past
<1>3. /\ \A d \in Calls : Writing(d) => d = c
      /\ \A d \in Calls : d # c /\ InFlight(d) => ~Active(d)
      /\ req[c].part \in Parts /\ Active(c)
  BY OneWrite, PartOfWrite DEF Writing, Active
<1>4. \A d \in Calls : /\ Writing(d)' <=> d = c
                       /\ Active(d)' <=> Active(d)
                       /\ d # c => (InFlight(d)' <=> InFlight(d))
  <2>1. \A d \in Calls : (Writing(d)' <=> Writing(d)) /\ (Active(d)' <=> Active(d))
    BY DEF Writing, Active
  <2>2. ASSUME NEW d \in Calls, d # c PROVE InFlight(d)' <=> InFlight(d)
    <3>1. \A t \in Replicas : leg'[d][t] = leg[d][t]
      BY <1>1, <2>2, Constants
    <3> QED
      BY <3>1 DEF InFlight, Write
  <2> QED
    BY <1>3, <2>1, <2>2
<1>5. WritesInPlace'
  <2>1. ASSUME NEW p \in Parts, p = req[c].part PROVE InPlace(c, p)'
    <3>1. InPlace(c, p)
      BY <2>1, InPlaceWrites DEF Contents
    <3>2. ASSUME NEW t \in Server
          PROVE  /\ leg'[c][t] = "logged" => /\ spot'[c][t] \in DOMAIN log'[t]
                                             /\ log'[t][spot'[c][t]] = req[c].val
                 /\ c \in fresh /\ leg'[c][t] = "done" => Latest(t, p)' = req[c].val
                 /\ p \notin torn /\ leg'[c][t] # "done" => Latest(t, p)' = last[p]
      <4>1. CASE t = s
        BY <1>1, <2>1, <3>1, <4>1 DEF InPlace
      <4>2. CASE t # s
        BY <1>1, <2>1, <3>1, <4>2 DEF InPlace
      <4> QED
        BY <4>1, <4>2
    <3> QED
      BY <1>2, <3>1, <3>2 DEF InPlace
  <2> QED
    BY <1>3, <1>4, <2>1, InPlaceWrites
<1>6. LateTorn'
  BY <1>2, <1>3, <1>4 DEF Contents, LateTorn
<1>7. FreshAlone'
  <2>1. fresh \subseteq Calls
    BY DEF TypeOK
  <2> QED
    BY <1>2, <1>3, <1>4, <2>1 DEF Contents, FreshAlone
<1>8. CopiesAgree'
  <2>1. SUFFICES ASSUME NEW p \in Parts, AtRest(p)', NEW t \in Server
                 PROVE  Latest(t, p)' = last[p]
    BY <1>2 DEF CopiesAgree
  <2>2. p # req[c].part /\ AtRest(p)
    BY <1>2, <1>3, <1>4, <2>1 DEF AtRest
  <2> QED
    BY <2>2 DEF Contents, CopiesAgree
<1> QED
  BY <1>5, <1>6, <1>7, <1>8 DEF Contents

\* A copy is written for a write whose primary has stopped: the part is torn.
LEMMA LateContents ==
  ASSUME TypeOK, Exclusion, LegsInPlace, IndexInLog, Contents,
         NEW c \in Calls, NEW s \in Server, WriteCopy(c, s), ~Writing(c)
  PROVE  Contents'
<1>1. /\ Write(c) /\ s \in Replicas /\ Advance(c, s, "sent", "done")
      /\ scheme' = scheme /\ phase' = phase /\ log' = log /\ pc' = pc /\ req' = req
      /\ spot' = spot /\ last' = last /\ torn' = torn /\ fresh' = fresh
  BY DEF WriteCopy, past
<1>2. /\ leg[c][s] = "sent" /\ leg'[c][s] = "done"
      /\ \A d \in Calls, t \in Server : <<d, t>> # <<c, s>> => leg'[d][t] = leg[d][t]
  BY <1>1, AdvanceType
<1>3. InFlight(c) /\ pc[c] # "idle" /\ ~Active(c)
  BY <1>1, <1>2, LegOfWrite, PartOfWrite DEF InFlight
<1>4. req[c].part \in Parts /\ req[c].part \in torn
  BY <1>3, Asked DEF Contents, LateTorn
<1>5. \A t \in Server, p \in Parts : p # req[c].part => Latest(t, p)' = Latest(t, p)
  BY <1>4, LatestWrite
<1>6. \A d \in Calls : /\ Writing(d)' <=> Writing(d)
                       /\ Writing(d) => d # c
                       /\ Active(d)' <=> Active(d)
                       /\ InFlight(d)' => InFlight(d)
  BY <1>1, <1>2, Constants DEF Writing, Active, InFlight, Write
<1>7. WritesInPlace'
  <2>1. ASSUME NEW d \in Calls, NEW p \in Parts, Writing(d)', req'[d].part = p
        PROVE  InPlace(d, p)'
    <3>1. InPlace(d, p) /\ d # c
      BY <1>1, <1>6, <2>1, InPlaceWrites DEF Contents
    <3>2. d \in fresh => p # req[c].part
      BY <1>1, <1>3, <2>1, <3>1 DEF Contents, FreshAlone
    <3>3. p \notin torn => p # req[c].part
      BY <1>4
    <3>4. \A t \in Server : leg'[d][t] = leg[d][t]
      BY <1>2, <3>1
    <3> QED
      BY <1>1, <1>5, <3>1, <3>2, <3>3, <3>4 DEF InPlace
  <2> QED
    BY <1>1, <1>6, <2>1, InPlaceWrites, PartOfWrite
<1>8. LateTorn'
  BY <1>1, <1>6 DEF Contents, LateTorn
<1>9. FreshAlone'
  <2>1. fresh \subseteq Calls
    BY DEF TypeOK
  <2> QED
    BY <1>1, <1>6, <2>1 DEF Contents, FreshAlone
<1>10. CopiesAgree'
  BY <1>1, <1>4, <1>5, <1>6 DEF Contents, CopiesAgree, AtRest
<1> QED
  BY <1>7, <1>8, <1>9, <1>10 DEF Contents

\* The answer of a write: every copy has its content, which is the last one now.
LEMMA ReplyContents ==
  ASSUME TypeOK, Exclusion, LegsInPlace, Contents, NEW c \in Calls, ReplyWrite(c)
  PROVE  Contents'
<1>1. /\ Writing(c) /\ \A s \in Server : leg[c][s] = "done"
      /\ pc' = [pc EXCEPT ![c] = "done"] /\ leg' = [leg EXCEPT ![c] = NoLeg]
      /\ last' = [last EXCEPT ![req[c].part] = req[c].val]
      /\ torn' = IF c \in fresh THEN torn \ {req[c].part} ELSE torn
      /\ fresh' = fresh \ {c} /\ files' = files /\ req' = req
      /\ phase' = phase
  BY DEF ReplyWrite
<1>2. /\ \A d \in Calls : Writing(d) => d = c
      /\ \A d \in Calls : d # c /\ InFlight(d) => ~Active(d)
      /\ req[c].part \in Parts
  BY <1>1, OneWrite, PartOfWrite DEF Writing, Active
<1>3. \A d \in Calls : d # c => pc'[d] = pc[d] /\ leg'[d] = leg[d]
  BY <1>1
<1>4. pc'[c] = "done" /\ leg'[c] = NoLeg
  BY <1>1 DEF TypeOK
<1>5. \A d \in Calls : /\ ~Writing(d)'
                       /\ InFlight(d)' => d # c /\ InFlight(d)
  BY <1>1, <1>2, <1>3, <1>4, Constants DEF Writing, InFlight, Write, NoLeg
<1>6. fresh' = {}
  BY <1>1, <1>2 DEF Contents, FreshAlone, TypeOK
<1>7. LateTorn'
  <2>1. SUFFICES ASSUME NEW d \in Calls, InFlight(d)' PROVE req[d].part \in torn'
    BY <1>1 DEF LateTorn
  <2>2. InFlight(d) /\ d # c /\ req[d].part \in torn
    BY <1>2, <1>5, <2>1 DEF Contents, LateTorn
  <2>3. c \in fresh => req[d].part # req[c].part
    BY <2>2 DEF Contents, FreshAlone
  <2> QED
    BY <1>1, <2>2, <2>3
<1>8. CopiesAgree'
  <2>1. SUFFICES ASSUME NEW p \in Parts, AtRest(p)', NEW s \in Server
                 PROVE  Latest(s, p)' = last'[p]
    BY DEF CopiesAgree
  <2>2. Latest(s, p)' = Latest(s, p)
    BY <1>1, LatestSame
  <2>3. CASE p = req[c].part
    <3>1. InPlace(c, p)
      BY <1>1, <2>3, InPlaceWrites DEF Contents
    <3>2. c \in fresh
      BY <1>1, <2>1, <3>1 DEF AtRest, InPlace
    <3>3. Latest(s, p) = req[c].val
      BY <1>1, <3>1, <3>2 DEF InPlace
    <3>4. last'[p] = req[c].val
      BY <1>1, <1>2, <2>3 DEF TypeOK
    <3> QED
      BY <2>2, <3>3, <3>4
  <2>4. CASE p # req[c].part
    <3>1. AtRest(p)
      BY <1>1, <1>2, <2>1, <2>4 DEF AtRest
    <3>2. last'[p] = last[p]
      BY <1>1, <2>4 DEF TypeOK
    <3> QED
      BY <2>2, <3>1, <3>2 DEF Contents, CopiesAgree
  <2> QED
    BY <2>3, <2>4
<1> QED
  BY <1>5, <1>6, <1>7, <1>8 DEF Contents, WritesInPlace, FreshAlone

\* The end of a process: the parts of the writes it cuts are torn.
LEMMA TerminateContents ==
  ASSUME TypeOK, Exclusion, LegsInPlace, Contents, NEW s \in Server, Terminate(s)
  PROVE  Contents'
<1>1. /\ files' = files /\ log' = log /\ req' = req /\ spot' = spot /\ last' = last
      /\ phase' = phase
  BY DEF Terminate, files
<1>2. \A t \in Server, p \in Parts : Latest(t, p)' = Latest(t, p)
  BY <1>1, LatestSame
<1>3. CASE s = Primary
  <2>1. /\ pc' = [c \in Calls |-> IF pc[c] = "run" THEN "failed" ELSE pc[c]]
        /\ leg' = [c \in Calls |->
                     IF pc[c] = "run" /\ req[c].op = "repair" THEN NoLeg ELSE
                     [i \in Server |-> IF leg[c][i] = "sent" THEN "sent" ELSE "none"]]
        /\ torn' = torn \cup {req[c].part : c \in {d \in Calls : Writing(d)}}
        /\ fresh' = {}
    BY <1>3 DEF Terminate
  <2>2. \A d \in Calls : ~Writing(d)'
    BY <2>1 DEF Writing
  <2>3. ASSUME NEW d \in Calls, InFlight(d)' PROVE req[d].part \in torn'
    <3>1. InFlight(d) /\ Write(d)
      BY <1>1, <2>1, <2>3, Constants DEF InFlight, Write, NoLeg
    <3>2. CASE ~Active(d)
      BY <2>1, <3>1, <3>2 DEF Contents, LateTorn
    <3>3. CASE pc[d] = "called"
      BY <1>3, <3>1, <3>3, OneWrite DEF Active, Write
    <3>4. CASE pc[d] = "run"
      BY <2>1, <3>1, <3>4 DEF Writing, Write
    <3> QED
      BY <3>2, <3>3, <3>4 DEF Active
  <2>4. LateTorn'
    BY <1>1, <2>3 DEF LateTorn
  <2>5. CopiesAgree'
    <3>1. \A p \in Parts : AtRest(p)' => AtRest(p)
      BY <1>1, <2>1 DEF AtRest
    <3> QED
      BY <1>1, <1>2, <3>1 DEF Contents, CopiesAgree
  <2> QED
    BY <2>1, <2>2, <2>4, <2>5 DEF Contents, WritesInPlace, FreshAlone
<1>4. CASE s # Primary
  <2>1. /\ leg' = [c \in Calls |-> IF leg[c][s] = "sent"
                                   THEN [leg[c] EXCEPT ![s] = "lost"] ELSE leg[c]]
        /\ pc' = pc /\ torn' = torn /\ fresh' = fresh
    BY <1>4 DEF Terminate
  <2>2. ASSUME NEW d \in Calls, NEW t \in Server
        PROVE  \/ leg'[d][t] = leg[d][t]
               \/ leg[d][t] = "sent" /\ leg'[d][t] = "lost"
    <3>1. CASE leg[d][s] = "sent"
      <4>1. leg'[d] = [leg[d] EXCEPT ![s] = "lost"]
        BY <2>1, <3>1
      <4>2. leg[d] \in [Server -> {"none", "todo", "sent", "logged", "done", "lost"}]
        BY DEF TypeOK
      <4> QED
        BY <3>1, <4>1, <4>2
    <3>2. CASE leg[d][s] # "sent"
      BY <2>1, <3>2
    <3> QED
      BY <3>1, <3>2
  <2>3. \A d \in Calls : /\ Writing(d)' <=> Writing(d)
                         /\ Active(d)' <=> Active(d)
                         /\ InFlight(d)' => InFlight(d)
    BY <1>1, <2>1, <2>2, Constants DEF Writing, Active, InFlight, Write
  <2>4. WritesInPlace'
    <3>1. ASSUME NEW d \in Calls, NEW p \in Parts, Writing(d)', req'[d].part = p
          PROVE  InPlace(d, p)'
      <4>1. InPlace(d, p)
        BY <1>1, <2>3, <3>1, InPlaceWrites DEF Contents
      <4> QED
        BY <1>1, <1>2, <2>1, <2>2, <4>1 DEF InPlace
    <3> QED
      BY <1>1, <2>3, <3>1, InPlaceWrites, PartOfWrite
  <2>5. LateTorn'
    BY <1>1, <2>1, <2>3 DEF Contents, LateTorn
  <2>6. FreshAlone'
    <3>1. fresh \subseteq Calls
      BY DEF TypeOK
    <3> QED
      BY <1>1, <2>1, <2>3, <3>1 DEF Contents, FreshAlone
  <2>7. CopiesAgree'
    BY <1>1, <1>2, <2>1, <2>3 DEF Contents, CopiesAgree, AtRest
  <2> QED
    BY <2>4, <2>5, <2>6, <2>7 DEF Contents
<1> QED
  BY <1>3, <1>4

\* Every step keeps the contents.
LEMMA ContentsStep ==
  ASSUME TypeOK, Exclusion, LegsInPlace, IndexInLog, MergeInPlace, Contents, [Next]_vars
  PROVE  Contents'
<1>0. LateTorn /\ WritesInPlace
  BY DEF Contents
<1>1. ASSUME NEW c \in Calls, NEW i \in Replicas, Send(c, i) PROVE Contents'
  <2>1. /\ Writing(c) /\ Advance(c, i, "todo", "sent") /\ i \in Server
        /\ scheme' = scheme /\ phase' = phase /\ past' = past /\ pc' = pc /\ req' = req
        /\ files' = files /\ log' = log /\ spot' = spot
    BY <1>1, Constants DEF Send, files
  <2>2. \A t \in Server, p \in Parts : Latest(t, p)' = Latest(t, p)
    BY <2>1, LatestSame
  <2> QED
    BY <2>1, <2>2, LegContents
<1>2. ASSUME NEW c \in Calls, NEW s \in Server, WriteCopy(c, s) PROVE Contents'
  <2>1. CASE Writing(c)
    <3>1. /\ scheme' = scheme /\ phase' = phase /\ past' = past /\ pc' = pc /\ req' = req
          /\ log' = log /\ spot' = spot
      BY <1>2 DEF WriteCopy
    <3>2. Advance(c, s, "todo", "done") \/ Advance(c, s, "sent", "done")
      BY <1>2 DEF WriteCopy
    <3>3. \A t \in Server, p \in Parts :
            Latest(t, p)' = IF t = s /\ p = req[c].part THEN req[c].val ELSE Latest(t, p)
      BY <1>2, <2>1, LatestWrite, PartOfWrite
    <3> QED
      BY <2>1, <3>1, <3>2, <3>3, LegContents
  <2>2. CASE ~Writing(c)
    BY <1>2, <2>2, LateContents
  <2> QED
    BY <2>1, <2>2
<1>3. ASSUME NEW c \in Calls, NEW s \in Server, LogCopy(c, s) PROVE Contents'
  <2>1. Writing(c)
    BY <1>0, <1>3, LoggedLeg
  <2>2. req[c].val \in Content
    BY <2>1, Asked DEF Writing
  <2>3. /\ scheme' = scheme /\ phase' = phase /\ past' = past /\ pc' = pc /\ req' = req
        /\ spot' = [spot EXCEPT ![c][s] = Len(log[s]) + 1]
    BY <1>3 DEF LogCopy
  <2>4. Advance(c, s, "todo", "logged") \/ Advance(c, s, "sent", "logged")
    BY <1>3 DEF LogCopy
  <2>5. \A d \in Calls, t \in Server : <<d, t>> # <<c, s>> => spot'[d][t] = spot[d][t]
    BY <2>3 DEF TypeOK
  <2> QED
    BY <1>3, <2>1, <2>2, <2>3, <2>4, <2>5, LatestLog, LegContents
<1>4. ASSUME NEW c \in Calls, NEW s \in Server, Record(c, s) PROVE Contents'
  <2>1. /\ scheme' = scheme /\ phase' = phase /\ past' = past /\ pc' = pc /\ req' = req
        /\ log' = log /\ spot' = spot /\ Advance(c, s, "logged", "done")
    BY <1>4 DEF Record
  <2>2. Writing(c) /\ leg[c][s] = "logged"
    BY <1>0, <2>1, LoggedLeg DEF Advance
  <2>3. log[s][spot[c][s]] = req[c].val /\ req[c].part \in Parts
    BY <1>0, <2>2, PartOfWrite DEF WritesInPlace
  <2>4. \A t \in Server, p \in Parts :
          Latest(t, p)' = IF t = s /\ p = req[c].part THEN req[c].val ELSE Latest(t, p)
    BY <1>4, <2>3, LatestRecord
  <2> QED
    BY <2>1, <2>2, <2>4, LegContents
<1>5. ASSUME NEW c \in Calls, NEW i \in Replicas, SendFails(c, i) PROVE Contents'
  BY <1>5, TerminateContents, Constants DEF SendFails
<1>6. ASSUME NEW s \in Server, Crash(s) PROVE Contents'
  BY <1>6, TerminateContents DEF Crash
<1> QED
  BY <1>1, <1>2, <1>3, <1>4, <1>5, <1>6, QuietNext, QuietStep, CreateContents,
     AcceptContents, ReplyContents

-----------------------------------------------------------------------------
(***************************************************************************)
(* The theorems.                                                           *)
(***************************************************************************)

\* Initially no file exists and no call is known.
LEMMA InitRep ==
  ASSUME Init
  PROVE  RepInv
<1>1. TypeOK
  BY Constants DEF Init, TypeOK
<1>2. \A c \in Calls : pc[c] = "idle" /\ leg[c] = NoLeg
  BY DEF Init
<1>3. \A c \in Calls : ~Writing(c) /\ ~Active(c) /\ ~InFlight(c)
  BY <1>2, Constants DEF Writing, Active, InFlight, NoLeg
<1>4. Exclusion
  BY <1>2, <1>3 DEF Init, Exclusion
<1>5. LegsInPlace
  BY <1>2 DEF LegsInPlace, NoLeg
<1>6. IndexInLog
  BY DEF Init, IndexInLog, NoIndex
<1>7. WritesInPlace /\ LateTorn /\ FreshAlone
  BY <1>3 DEF Init, WritesInPlace, LateTorn, FreshAlone
<1>8. MergeInPlace /\ CopiesAgree
  BY DEF Init, MergeInPlace, CopiesAgree, AtRest
<1> QED
  BY <1>1, <1>4, <1>5, <1>6, <1>7, <1>8 DEF RepInv

\* RepInv is an inductive invariant of both schemes, for any replicas, parts,
\* contents and calls, and any number of stops and merges.
THEOREM ReplicationInvariant == Spec => []RepInv
<1>1. Init => RepInv
  BY InitRep
<1>2. RepInv /\ [Next]_vars => RepInv'
  <2>1. SUFFICES ASSUME RepInv, [Next]_vars PROVE RepInv'
    OBVIOUS
  <2>2. /\ TypeOK /\ Exclusion /\ LegsInPlace /\ IndexInLog /\ MergeInPlace
        /\ Contents /\ LateTorn /\ WritesInPlace
    BY <2>1 DEF RepInv, Contents
  <2>3. TypeOK' /\ Exclusion' /\ LegsInPlace' /\ IndexInLog' /\ MergeInPlace'
    BY <2>1, <2>2, TypeStep, ExclusionStep, LegsStep, IndexStep, MergeStep
  <2>4. Contents'
    BY <2>1, <2>2, ContentsStep
  <2> QED
    BY <2>3, <2>4 DEF RepInv, Contents
<1> QED
  BY <1>1, <1>2, PTL DEF Spec

\* The copies of every part that is at rest agree on the content of the last
\* write answered: what writeData, writeParity, the merges and a client's write
\* after a stop (Replication.cpp, Replication_Log.cpp) have to keep.
THEOREM CopiesAgreeAlways == Spec => []CopiesAgree
<1>1. RepInv => CopiesAgree
  BY DEF RepInv
<1> QED
  BY <1>1, ReplicationInvariant, PTL

-----------------------------------------------------------------------------
(***************************************************************************)
(* Answers.                                                                *)
(***************************************************************************)

\* A client of ReplicationLog waits only for reads of parts the vectors know.
ReadsKnown ==
  \A c \in Calls : Logged /\ Active(c) /\ req[c].op = "read" =>
                     idx[Primary][req[c].part] # <<>>

\* No step empties a vector a client reads.
LEMMA ReadsStep ==
  ASSUME RepInv, ReadsKnown, [Next]_vars, ReadWhen = "logged"
  PROVE  ReadsKnown'
<1>0. TypeOK /\ Exclusion /\ LegsInPlace /\ LateTorn /\ scheme' = scheme
  BY SchemeStep DEF RepInv
<1>1. ASSUME NEW c \in Calls, NEW r \in Request, Call(c, r) PROVE ReadsKnown'
  <2>1. /\ \A d \in Calls : d # c => req'[d] = req[d] /\ pc'[d] = pc[d]
        /\ idx' = idx /\ req'[c] = r
        /\ Logged /\ r.op = "read" => idx[Primary][r.part] # <<>>
    BY <1>0, <1>1 DEF Call, files, TypeOK
  <2> QED
    BY <1>0, <2>1 DEF ReadsKnown, Active, Logged
<1>2. CASE \A c \in Calls, r \in Request : ~Call(c, r)
  <2>1. SUFFICES ASSUME NEW c \in Calls, Logged, Active(c), req[c].op = "read",
                        idx[Primary][req[c].part] # <<>>, req[c].part \in Parts,
                        merging = {}
                 PROVE  idx'[Primary][req[c].part] # <<>>
    <3>1. /\ req' = req
          /\ \A d \in Calls : Active(d)' => Active(d)
      BY <1>0, <1>2, PcStep
    <3>2. ASSUME NEW d \in Calls, Active(d) PROVE req[d].part \in Parts /\ merging = {}
      BY <1>0, <3>2, Asked, Underway DEF Active
    <3> QED
      BY <1>0, <3>1, <3>2 DEF ReadsKnown, Logged
  <2>2. ASSUME NEW d \in Calls, NEW s \in Server, Record(d, s)
        PROVE  idx'[Primary][req[c].part] # <<>>
    <3>1. spot[d][s] \in Nat /\ req[d].part \in Parts
      BY <1>0, <2>2, LoggedLeg, PartOfWrite DEF Record, Advance, TypeOK
    <3>2. idx[s][req[d].part] \in Seq(Nat)
      BY <1>0, <3>1 DEF TypeOK
    <3>3. Append(idx[s][req[d].part], spot[d][s]) # <<>>
      BY <3>1, <3>2, AppendLast, Zenon
    <3>4. idx' = [idx EXCEPT ![s][req[d].part] = Append(idx[s][req[d].part], spot[d][s])]
      BY <2>2 DEF Record
    <3>5. idx'[Primary][req[c].part] =
            IF s = Primary /\ req[d].part = req[c].part
            THEN Append(idx[s][req[d].part], spot[d][s]) ELSE idx[Primary][req[c].part]
      BY <1>0, <2>1, <3>4, Constants DEF TypeOK
    <3> QED
      BY <2>1, <3>3, <3>5
  <2>3. ASSUME NEW s \in Server, EndMerge(s) PROVE FALSE
    BY <2>1, <2>3 DEF EndMerge
  <2>4. CASE idx' = idx
    BY <2>1, <2>4
  <2> QED
    BY <1>2, <2>2, <2>3, <2>4
       DEF Next, Serve, vars, Create, CallFails, ServeRead, AcceptWrite, ReplyWrite,
           Send, SendFails, WriteCopy, LogCopy, SendRepair, ReplyRepair,
           RepairFails, AskMerge, Crash, Restart, Replay, Terminate, files
<1> QED
  BY <1>1, <1>2

\* The current content of a part that is not torn is the last one written, or
\* that of the write under way.
LEMMA LatestKnown ==
  ASSUME RepInv, phase = "live", NEW s \in Server, NEW p \in Parts, p \notin torn
  PROVE  \/ Latest(s, p) = last[p]
         \/ \E d \in Calls : /\ Writing(d) /\ req[d].part = p
                             /\ Latest(s, p) = req[d].val
<1>1. CASE \A d \in Calls : Writing(d) => req[d].part # p
  BY <1>1 DEF RepInv, CopiesAgree, AtRest
<1>2. ASSUME NEW d \in Calls, Writing(d), req[d].part = p
      PROVE  Latest(s, p) = last[p] \/ Latest(s, p) = req[d].val
  <2>1. InPlace(d, p)
    BY <1>2, InPlaceWrites DEF RepInv
  <2> QED
    BY <2>1 DEF InPlace
<1> QED
  BY <1>1, <1>2

\* What a step answers to a read or a degraded read.
LEMMA AnswerStep ==
  ASSUME RepInv, ReadsKnown, [Next]_vars,
         NEW c \in Calls, req[c] # NoReq, req[c].op # "write",
         pc[c] # "done", pc'[c] = "done", req[c].part \notin torn
  PROVE  \/ result'[c] = last[req[c].part]
         \/ \E d \in Calls : /\ Writing(d) /\ req[d].part = req[c].part
                             /\ result'[c] = req[d].val
<1>0. TypeOK /\ Exclusion /\ LegsInPlace
  BY DEF RepInv
<1>1. ServeRead(c) \/ ReplyRepair(c)
  <2>1. ASSUME NEW d \in Calls, Serve(d) PROVE ServeRead(c) \/ ReplyRepair(c)
    <3>1. CASE d = c
      <4>1. ~CallFails(c) /\ ~AcceptWrite(c) /\ ~SendRepair(c) /\ ~RepairFails(c)
        BY <1>0 DEF CallFails, AcceptWrite, SendRepair, RepairFails, TypeOK
      <4>2. ~ReplyWrite(c)
        BY DEF ReplyWrite, Writing
      <4>3. \A i \in Replicas : ~Send(c, i) /\ ~SendFails(c, i)
        BY DEF Send, SendFails, Writing
      <4>4. \A s \in Server : ~WriteCopy(c, s) /\ ~LogCopy(c, s) /\ ~Record(c, s)
        BY DEF WriteCopy, LogCopy, Record
      <4> QED
        BY <2>1, <3>1, <4>1, <4>2, <4>3, <4>4 DEF Serve
    <3>2. CASE d # c
      <4>1. \A i \in Replicas : ~SendFails(d, i)
        BY <1>0 DEF SendFails, Terminate
      <4> QED
        BY <1>0, <2>1, <3>2, <4>1
           DEF Serve, TypeOK, CallFails, ServeRead, AcceptWrite, ReplyWrite, Send,
               WriteCopy, LogCopy, Record, SendRepair, ReplyRepair, RepairFails
    <3> QED
      BY <3>1, <3>2
  <2>2. ASSUME NEW d \in Calls, NEW r \in Request, Call(d, r) PROVE FALSE
    BY <1>0, <2>2 DEF Call, TypeOK
  <2>3. ASSUME NEW s \in Server, Crash(s) PROVE FALSE
    BY <1>0, <2>3 DEF Crash, Terminate
  <2> QED
    BY <2>1, <2>2, <2>3
       DEF Next, vars, calls, Create, AskMerge, EndMerge, Restart, Replay
<1>2. phase = "live" /\ req[c].part \in Parts
  <2>1. pc[c] # "idle"
    BY <1>1 DEF ServeRead, ReplyRepair, Running
  <2> QED
    BY <1>0, <2>1, Asked, Underway
<1>3. \E s \in Server : result'[c] = Latest(s, req[c].part)
  <2>1. CASE ServeRead(c)
    <3>1. ~(Logged /\ idx[Primary][req[c].part] = <<>>)
      BY <2>1 DEF ReadsKnown, ServeRead, Active
    <3> QED
      BY <1>0, <2>1, <3>1, Constants DEF ServeRead, TypeOK
  <2>2. CASE ReplyRepair(c)
    BY <1>0, <2>2, Constants DEF ReplyRepair, TypeOK
  <2> QED
    BY <1>1, <2>1, <2>2
<1> QED
  BY <1>2, <1>3, LatestKnown

\* Every read and every degraded read returns the last content written, or that
\* of the write under way, if the clients of ReplicationLog read at the primary
\* only parts its vectors know (readData of Replication_Log.cpp).
THEOREM AnswersLastAlways ==
  ASSUME ReadWhen = "logged"
  PROVE  Spec => AnswersLast
<1> DEFINE Answer(c) ==
             /\ req[c] # NoReq
             /\ req[c].op # "write"
             /\ pc[c] # "done" /\ pc'[c] = "done"
             /\ req[c].part \notin torn
             => \/ result'[c] = last[req[c].part]
                \/ \E d \in Calls : /\ Writing(d) /\ req[d].part = req[c].part
                                    /\ result'[c] = req[d].val
<1>1. Init => ReadsKnown
  BY DEF Init, ReadsKnown, Active
<1>2. RepInv /\ ReadsKnown /\ [Next]_vars => ReadsKnown'
  BY ReadsStep
<1>3. RepInv /\ ReadsKnown /\ [Next]_vars => [\A c \in Calls : Answer(c)]_vars
  BY AnswerStep
<1> QED
  BY <1>1, <1>2, <1>3, ReplicationInvariant, PTL DEF Spec, AnswersLast

-----------------------------------------------------------------------------
(***************************************************************************)
(* The registers.                                                          *)
(***************************************************************************)

\* What the registers see of a request.
LEMMA AbsRequestFields ==
  ASSUME TypeOK, Exclusion, NEW c \in Calls, pc[c] # "idle"
  PROVE  /\ req[c] # NoReq
         /\ AbsRequest[c].op = req[c].op /\ AbsRequest[c].part = req[c].part
         /\ AbsRequest[c].srv = Primary /\ AbsRequest[c].val = AbsValue(req[c].val)
<1>1. req[c] # NoReq
  BY NoReqAssumption DEF Exclusion
<1>2. AbsRequest[c] = [op |-> req[c].op, srv |-> Primary, part |-> req[c].part,
                       val |-> AbsValue(req[c].val)]
  BY <1>1 DEF AbsRequest
<1> QED
  BY <1>1, <1>2

LEMMA AbsFrame ==
  /\ req' = req => AbsRequest' = AbsRequest
  /\ result' = result => AbsAnswer' = AbsAnswer
  /\ (\A p \in Parts : Latest(Primary, p)' = Latest(Primary, p)) => AbsStore' = AbsStore
<1>1. req' = req => AbsRequest' = AbsRequest
  BY DEF AbsRequest
<1>2. result' = result => AbsAnswer' = AbsAnswer
  BY DEF AbsAnswer
<1>3. ASSUME \A p \in Parts : Latest(Primary, p)' = Latest(Primary, p)
      PROVE  AbsStore' = AbsStore
  <2>1. AbsStore = [k \in {Primary} |-> [p \in Parts |-> AbsValue(Latest(Primary, p))]]
    BY DEF AbsStore
  <2>2. AbsStore' = [k \in {Primary} |-> [p \in Parts |-> AbsValue(Latest(Primary, p)')]]
    BY DEF AbsStore, AbsValue
  <2> QED
    BY <1>3, <2>1, <2>2
<1> QED
  BY <1>1, <1>2, <1>3

\* A step that changes the status of one call.
LEMMA AbsStatusFrame ==
  ASSUME NEW c \in Calls, NEW x, AbsStatus'[c] = x,
         \A d \in Calls \ {c} : AbsStatus'[d] = AbsStatus[d]
  PROVE  AbsStatus' = [AbsStatus EXCEPT ![c] = x]
<1>1. /\ AbsStatus = [d \in Calls |-> AbsStatus[d]]
      /\ AbsStatus' = [d \in Calls |-> AbsStatus'[d]]
  BY DEF AbsStatus
<1> QED
  BY <1>1

LEMMA StatusSame ==
  ASSUME NEW c \in Calls, pc'[c] = pc[c],
         pc[c] = "run" => req'[c] = req[c] /\ leg'[c][Primary] = leg[c][Primary]
  PROVE  AbsStatus'[c] = AbsStatus[c]
  BY DEF AbsStatus

\* A step the registers do not see.
LEMMA Unseen ==
  ASSUME req' = req, result' = result, torn' = torn, phase' = phase,
         \A p \in Parts : Latest(Primary, p)' = Latest(Primary, p),
         \A c \in Calls : AbsStatus'[c] = AbsStatus[c]
  PROVE  UNCHANGED Abs!absVars
<1>1. AbsStatus' = AbsStatus
  <2>1. /\ AbsStatus = [d \in Calls |-> AbsStatus[d]]
        /\ AbsStatus' = [d \in Calls |-> AbsStatus'[d]]
    BY DEF AbsStatus
  <2> QED
    BY <2>1
<1> QED
  BY <1>1, AbsFrame DEF Abs!absVars

LEMMA AbsInitial == Init => Abs!AbsInit
<1> SUFFICES ASSUME Init PROVE Abs!AbsInit
  OBVIOUS
<1> USE DEF Init
<1>1. AbsStatus = [c \in Calls |-> "idle"]
  BY DEF AbsStatus
<1>2. AbsRequest = [c \in Calls |-> NoReq]
  BY DEF AbsRequest
<1>3. AbsAnswer = [c \in Calls |-> {}]
  BY DEF AbsAnswer, AbsValue
<1>4. AbsStore = Abs!EmptyStore
  <2>1. \A p \in Parts : AbsValue(Latest(Primary, p)) = {}
    BY Constants DEF Latest, AbsValue, NoIndex
  <2> QED
    BY <2>1 DEF AbsStore, Abs!EmptyStore
<1> QED
  BY <1>1, <1>2, <1>3, <1>4 DEF Abs!AbsInit

LEMMA AbsOpen ==
  ASSUME RepInv, NEW image \in [Parts -> Content], Create(image)
  PROVE  Abs!Open
<1>0. TypeOK /\ Exclusion
  BY DEF RepInv
<1>1. /\ phase = "absent" /\ phase' = "live" /\ bin' = [s \in Server |-> image]
      /\ idx' = idx /\ pc' = pc /\ req' = req /\ leg' = leg /\ result' = result
      /\ torn' = torn
  BY DEF Create, calls
<1>2. \A p \in Parts : Latest(Primary, p)' = image[p]
  BY <1>0, <1>1, Constants DEF Exclusion, Latest, NoIndex
<1>3. AbsStore' = [k \in {Primary} |-> [p \in Parts |-> AbsValue(image[p])]]
  <2>1. AbsStore' = [k \in {Primary} |-> [p \in Parts |-> AbsValue(Latest(Primary, p)')]]
    BY DEF AbsStore, AbsValue
  <2> QED
    BY <1>2, <2>1
<1>4. AbsStore' \in [{Primary} -> [Parts -> Abs!Value]]
  BY <1>3 DEF Abs!Value, AbsValue
<1>5. AbsStatus' = AbsStatus
  BY <1>1 DEF AbsStatus
<1> QED
  BY <1>1, <1>4, <1>5, AbsFrame DEF Abs!Open

LEMMA AbsCall ==
  ASSUME RepInv, NEW c \in Calls, NEW r \in Request, Call(c, r)
  PROVE  \E a \in Abs!Request : Abs!Invoke(c, a)
<1> DEFINE a == [op |-> r.op, srv |-> Primary, part |-> r.part, val |-> AbsValue(r.val)]
<1>0. TypeOK
  BY DEF RepInv
<1>1. /\ phase = "live" /\ phase' = "live" /\ pc[c] = "idle"
      /\ pc' = [pc EXCEPT ![c] = "called"] /\ req' = [req EXCEPT ![c] = r]
      /\ leg' = leg /\ result' = result /\ torn' = torn /\ files' = files
  BY DEF Call, past
<1>2. a \in Abs!Request
  BY DEF Request, Abs!Request, Abs!Value, AbsValue
<1>3. /\ pc'[c] = "called" /\ req'[c] = r
      /\ \A d \in Calls \ {c} : pc'[d] = pc[d] /\ req'[d] = req[d]
  BY <1>0, <1>1 DEF TypeOK
<1>4. AbsStatus[c] = "idle" /\ AbsStatus'[c] = "called"
  BY <1>1, <1>3 DEF AbsStatus
<1>5. AbsStatus' = [AbsStatus EXCEPT ![c] = "called"]
  BY <1>1, <1>3, <1>4, StatusSame, AbsStatusFrame
<1>6. AbsRequest' = [AbsRequest EXCEPT ![c] = a]
  <2>1. r # NoReq
    BY NoReqAssumption
  <2> QED
    BY <1>3, <2>1 DEF AbsRequest, AbsValue
<1>7. AbsStore' = AbsStore /\ AbsAnswer' = AbsAnswer
  BY <1>1, LatestSame, Constants, AbsFrame
<1>8. Abs!Invoke(c, a)
  BY <1>1, <1>4, <1>5, <1>6, <1>7 DEF Abs!Invoke
<1> QED
  BY <1>2, <1>8

\* A call that fails by itself: its server does not run, or a degraded read finds no
\* replica.
LEMMA AbsCallFails ==
  ASSUME RepInv, NEW c \in Calls, CallFails(c) \/ RepairFails(c)
  PROVE  Abs!Fail({c})
<1>0. TypeOK /\ Exclusion
  BY DEF RepInv
<1>1. /\ pc[c] = "called" \/ (pc[c] = "run" /\ req[c].op = "repair")
      /\ pc' = [pc EXCEPT ![c] = "failed"] /\ \A d \in Calls \ {c} : leg'[d] = leg[d]
      /\ phase' = phase /\ req' = req /\ result' = result /\ torn' = torn /\ files' = files
  <2>1. CASE CallFails(c)
    BY <2>1 DEF CallFails, past
  <2>2. CASE RepairFails(c)
    <3>1. leg' = [leg EXCEPT ![c] = NoLeg]
      BY <2>2 DEF RepairFails
    <3>2. \A d \in Calls \ {c} : leg'[d] = leg[d]
      BY <1>0, <3>1 DEF TypeOK
    <3> QED
      BY <2>2, <3>2 DEF RepairFails, past
  <2> QED
    BY <2>1, <2>2
<1>2. pc'[c] = "failed" /\ \A d \in Calls \ {c} : pc'[d] = pc[d]
  BY <1>0, <1>1 DEF TypeOK
<1>3. AbsStatus[c] = "called" /\ AbsStatus'[c] = "failed"
  BY <1>1, <1>2 DEF AbsStatus
<1>4. \A d \in Calls \ {c} : AbsStatus'[d] = AbsStatus[d]
  BY <1>1, <1>2, StatusSame
<1>5. AbsStatus' = [d \in Calls |-> IF d \in {c} THEN "failed" ELSE AbsStatus[d]]
  <2>1. AbsStatus' = [d \in Calls |-> AbsStatus'[d]]
    BY DEF AbsStatus
  <2> QED
    BY <1>3, <1>4, <2>1
<1>6. AbsStore' = AbsStore /\ AbsAnswer' = AbsAnswer /\ AbsRequest' = AbsRequest
  BY <1>1, LatestSame, Constants, AbsFrame
<1>7. {c} \subseteq {d \in Calls : Abs!Active(d)}
  BY <1>3 DEF Abs!Active
<1>8. torn' = torn \cup {}
  BY <1>1
<1> QED
  BY <1>1, <1>5, <1>6, <1>7, <1>8 DEF Abs!Fail

\* A read returns what the register holds; so does a degraded read, which runs beside
\* no write, of a part whose copies agree.
LEMMA AbsAnswerRead ==
  ASSUME RepInv, ReadsKnown, NEW c \in Calls, ServeRead(c) \/ ReplyRepair(c)
  PROVE  Abs!AnswerRead(c)
<1>0. TypeOK /\ Exclusion /\ IndexInLog /\ LegsInPlace
  BY DEF RepInv
<1> DEFINE p == req[c].part
<1>1. /\ \/ pc[c] = "called" /\ req[c].op = "read"
         \/ pc[c] = "run" /\ req[c].op = "repair"
      /\ pc' = [pc EXCEPT ![c] = "done"] /\ \A d \in Calls \ {c} : leg'[d] = leg[d]
      /\ phase' = phase /\ req' = req /\ torn' = torn /\ files' = files
  BY <1>0 DEF ServeRead, ReplyRepair, Running, past, TypeOK
<1>2. p \in Parts /\ phase = "live"
  BY <1>0, <1>1, Asked, Underway
<1>3. \E s \in Server : /\ result' = [result EXCEPT ![c] = Latest(s, p)]
                        /\ s = Primary \/ req[c].op = "repair"
  <2>1. CASE ServeRead(c)
    <3>1. ~(Logged /\ idx[Primary][p] = <<>>)
      BY <2>1 DEF ReadsKnown, ServeRead, Active
    <3> QED
      BY <2>1, <3>1, Constants DEF ServeRead
  <2>2. CASE ReplyRepair(c)
    BY <2>2, Constants DEF ReplyRepair
  <2> QED
    BY <2>1, <2>2
<1>4. PICK s \in Server : /\ result' = [result EXCEPT ![c] = Latest(s, p)]
                          /\ s = Primary \/ req[c].op = "repair"
  BY <1>3
<1>5. s = Primary \/ p \in torn \/ Latest(s, p) = Latest(Primary, p)
  <2>1. SUFFICES ASSUME req[c].op = "repair", p \notin torn
                 PROVE  Latest(s, p) = Latest(Primary, p)
    BY <1>4
  <2>2. \A d \in Calls : ~Writing(d)
    <3>1. SUFFICES ASSUME NEW d \in Calls, Writing(d) PROVE FALSE
      OBVIOUS
    <3>2. Active(d) /\ Active(c) /\ req[d].op = "write"
      BY <1>1, <3>1 DEF Writing, Active
    <3> QED
      BY <1>0, <2>1, <3>2, Alone
  <2>3. AtRest(p)
    BY <1>2, <2>1, <2>2 DEF AtRest
  <2> QED
    BY <1>2, <2>3, Constants DEF RepInv, CopiesAgree
<1>6. pc'[c] = "done" /\ \A d \in Calls \ {c} : pc'[d] = pc[d]
  BY <1>0, <1>1 DEF TypeOK
<1>7. AbsStatus[c] = "called" /\ AbsStatus'[c] = "done"
  BY <1>1, <1>6 DEF AbsStatus
<1>8. AbsStatus' = [AbsStatus EXCEPT ![c] = "done"]
  BY <1>1, <1>6, <1>7, StatusSame, AbsStatusFrame
<1>9. AbsStore' = AbsStore /\ AbsRequest' = AbsRequest
  BY <1>1, LatestSame, Constants, AbsFrame
<1> DEFINE x == {Primary} \X AbsValue(Latest(s, p))
<1>10. AbsAnswer' = [AbsAnswer EXCEPT ![c] = x]
  <2>1. \A d \in Calls : result'[d] = IF d = c THEN Latest(s, p) ELSE result[d]
    BY <1>0, <1>4 DEF TypeOK
  <2>2. AbsAnswer' = [d \in Calls |-> {Primary} \X AbsValue(result'[d])]
    BY DEF AbsAnswer, AbsValue
  <2> QED
    BY <2>1, <2>2 DEF AbsAnswer
<1>11. x \in Abs!ParityValue
  <2>1. Latest(s, p) \in Content \cup {NoContent}
    BY <1>0, <1>2, LatestType
  <2> QED
    BY <2>1 DEF Abs!ParityValue, AbsValue
<1>12. AbsRequest[c].op = req[c].op /\ AbsRequest[c].part = p /\ AbsRequest[c].srv = Primary
  BY <1>0, <1>1, AbsRequestFields
<1>13. \/ x = Abs!Scale(Primary, AbsStore[Primary][p])
       \/ req[c].op = "repair" /\ p \in torn
  <2>1. AbsStore[Primary][p] = AbsValue(Latest(Primary, p))
    BY <1>2 DEF AbsStore
  <2> QED
    BY <1>4, <1>5, <2>1 DEF Abs!Scale
<1> QED
  BY <1>1, <1>7, <1>8, <1>9, <1>10, <1>11, <1>12, <1>13 DEF Abs!AnswerRead

\* A write takes effect at the primary.
LEMMA AbsEffect ==
  ASSUME RepInv, NEW c \in Calls, WriteCopy(c, Primary) \/ Record(c, Primary)
  PROVE  Abs!Effect(c)
<1>0. TypeOK /\ Exclusion /\ IndexInLog /\ LegsInPlace /\ WritesInPlace /\ Primary \in Server
  BY Constants DEF RepInv
<1> DEFINE p == req[c].part
           v == req[c].val
<1>1. /\ \E from \in {"todo", "logged"} : Advance(c, Primary, from, "done")
      /\ pc' = pc /\ phase' = phase /\ req' = req /\ result' = result /\ torn' = torn
  BY Constants DEF WriteCopy, Record, past
<1>2. /\ leg[c][Primary] \in {"todo", "logged"} /\ leg'[c][Primary] = "done"
      /\ \A d \in Calls \ {c} : leg'[d][Primary] = leg[d][Primary]
  BY <1>0, <1>1, AdvanceType
<1>3. Writing(c) /\ pc[c] = "run" /\ req[c].op = "write" /\ p \in Parts
  <2>1. Writing(c)
    BY <1>0, <1>2, LegOfWrite
  <2> QED
    BY <1>0, <2>1, Asked DEF Writing
<1>4. \A q \in Parts : Latest(Primary, q)' = IF q = p THEN v ELSE Latest(Primary, q)
  <2>1. CASE WriteCopy(c, Primary)
    BY <1>0, <1>3, <2>1, LatestWrite
  <2>2. CASE Record(c, Primary)
    <3>1. log[Primary][spot[c][Primary]] = v
      BY <1>0, <1>3, <2>2 DEF Record, Advance, WritesInPlace
    <3> QED
      BY <1>0, <1>3, <2>2, <3>1, LatestRecord
  <2> QED
    BY <2>1, <2>2
<1>5. AbsStore' = [AbsStore EXCEPT ![Primary][p] = AbsValue(v)]
  <2>1. AbsStore' = [k \in {Primary} |-> [q \in Parts |-> AbsValue(Latest(Primary, q)')]]
    BY DEF AbsStore, AbsValue
  <2>2. AbsStore = [k \in {Primary} |-> [q \in Parts |-> AbsValue(Latest(Primary, q))]]
    BY DEF AbsStore
  <2>3. [AbsStore EXCEPT ![Primary][p] = AbsValue(v)] =
          [k \in {Primary} |-> [q \in Parts |-> IF q = p THEN AbsValue(v)
                                                ELSE AbsValue(Latest(Primary, q))]]
    BY <2>2
  <2> QED
    BY <1>4, <2>1, <2>3
<1>6. AbsStatus[c] = "called" /\ AbsStatus'[c] = "effected"
  BY <1>1, <1>2, <1>3 DEF AbsStatus
<1>7. AbsStatus' = [AbsStatus EXCEPT ![c] = "effected"]
  BY <1>1, <1>2, <1>6, StatusSame, AbsStatusFrame
<1>8. /\ AbsRequest[c].op = "write" /\ AbsRequest[c].part = p
      /\ AbsRequest[c].srv = Primary /\ AbsRequest[c].val = AbsValue(v)
  BY <1>0, <1>3, AbsRequestFields
<1> QED
  BY <1>1, <1>5, <1>6, <1>7, <1>8, AbsFrame DEF Abs!Effect

LEMMA AbsAnswerWrite ==
  ASSUME RepInv, NEW c \in Calls, ReplyWrite(c)
  PROVE  Abs!AnswerWrite(c)
<1>0. TypeOK /\ Exclusion
  BY DEF RepInv
<1>1. /\ pc[c] = "run" /\ req[c].op = "write" /\ leg[c][Primary] = "done"
      /\ pc' = [pc EXCEPT ![c] = "done"] /\ leg' = [leg EXCEPT ![c] = NoLeg]
      /\ torn' \in {torn, torn \ {req[c].part}}
      /\ phase' = phase /\ req' = req /\ result' = result /\ files' = files
  BY Constants DEF ReplyWrite, Writing
<1>2. pc'[c] = "done" /\ \A d \in Calls \ {c} : pc'[d] = pc[d] /\ leg'[d] = leg[d]
  BY <1>0, <1>1 DEF TypeOK
<1>3. AbsStatus[c] = "effected" /\ AbsStatus'[c] = "done"
  BY <1>1, <1>2 DEF AbsStatus
<1>4. AbsStatus' = [AbsStatus EXCEPT ![c] = "done"]
  BY <1>1, <1>2, <1>3, StatusSame, AbsStatusFrame
<1>5. AbsRequest[c].part = req[c].part
  BY <1>0, <1>1, AbsRequestFields
<1>6. AbsStore' = AbsStore /\ AbsAnswer' = AbsAnswer /\ AbsRequest' = AbsRequest
  BY <1>1, LatestSame, Constants, AbsFrame
<1> QED
  BY <1>1, <1>3, <1>4, <1>5, <1>6 DEF Abs!AnswerWrite

\* With the primary fail the calls it runs, and a stop cuts the writes among them; the
\* end of a replica is not seen.
LEMMA AbsTerminate ==
  ASSUME RepInv, NEW s \in Server, Terminate(s)
  PROVE  (\E C \in SUBSET Calls : Abs!Fail(C)) \/ UNCHANGED Abs!absVars
<1>0. TypeOK /\ Exclusion
  BY DEF RepInv
<1>1. phase' = phase /\ req' = req /\ result' = result /\ files' = files
  BY DEF Terminate
<1>2. CASE s = Primary
  <2> DEFINE C == {c \in Calls : pc[c] = "run"}
             P == {req[c].part : c \in {d \in Calls : Writing(d)}}
  <2>1. /\ pc' = [c \in Calls |-> IF pc[c] = "run" THEN "failed" ELSE pc[c]]
        /\ torn' = torn \cup P
    BY <1>2 DEF Terminate
  <2>2. \A c \in C : AbsStatus[c] \in {"called", "effected"} /\ AbsStatus'[c] = "failed"
    BY <2>1 DEF AbsStatus
  <2>3. \A c \in Calls \ C : AbsStatus'[c] = AbsStatus[c]
    BY <2>1 DEF AbsStatus
  <2>4. AbsStatus' = [c \in Calls |-> IF c \in C THEN "failed" ELSE AbsStatus[c]]
    <3>1. AbsStatus' = [d \in Calls |-> AbsStatus'[d]]
      BY DEF AbsStatus
    <3> HIDE DEF C
    <3> QED
      BY <2>2, <2>3, <3>1
  <2>5. P \in SUBSET {AbsRequest[c].part : c \in {e \in C : AbsRequest[e].op = "write"}}
    <3>1. SUFFICES ASSUME NEW c \in Calls, Writing(c)
                   PROVE  /\ c \in C /\ AbsRequest[c].op = "write"
                          /\ AbsRequest[c].part = req[c].part
      OBVIOUS
    <3>2. pc[c] = "run" /\ req[c].op = "write"
      BY <3>1 DEF Writing
    <3> QED
      BY <1>0, <3>2, AbsRequestFields
  <2>6. AbsStore' = AbsStore /\ AbsAnswer' = AbsAnswer /\ AbsRequest' = AbsRequest
    BY <1>1, LatestSame, Constants, AbsFrame
  <2>7. C \subseteq {c \in Calls : Abs!Active(c)}
    BY <2>2 DEF Abs!Active
  <2> HIDE DEF C, P
  <2>8. Abs!Fail(C)
    BY <1>1, <2>1, <2>4, <2>5, <2>6, <2>7 DEF Abs!Fail
  <2>9. C \in SUBSET Calls
    BY DEF C
  <2> QED
    BY <2>8, <2>9
<1>3. CASE s # Primary
  <2>1. /\ leg' = [c \in Calls |-> IF leg[c][s] = "sent"
                                   THEN [leg[c] EXCEPT ![s] = "lost"] ELSE leg[c]]
        /\ pc' = pc /\ torn' = torn
    BY <1>3 DEF Terminate
  <2>2. \A c \in Calls : leg'[c][Primary] = leg[c][Primary]
    BY <1>0, <1>3, <2>1, Constants DEF TypeOK
  <2>3. \A c \in Calls : AbsStatus'[c] = AbsStatus[c]
    BY <1>1, <2>1, <2>2, StatusSame
  <2> QED
    BY <1>1, <2>1, <2>3, LatestSame, Constants, Unseen
<1> QED
  BY <1>2, <1>3

\* The work of the threads, at a replica or before a write has its effect.
LEMMA AbsThreads ==
  ASSUME RepInv, NEW c \in Calls,
         \/ AcceptWrite(c) \/ SendRepair(c)
         \/ \E i \in Replicas : Send(c, i) \/ WriteCopy(c, i) \/ Record(c, i)
         \/ \E s \in Server : LogCopy(c, s)
  PROVE  UNCHANGED Abs!absVars
<1>0. /\ TypeOK /\ Exclusion /\ LegsInPlace /\ IndexInLog /\ LateTorn
      /\ Primary \in Server /\ FirstReplica # Primary
  BY Constants DEF RepInv
<1>1. CASE AcceptWrite(c)
  <2>1. /\ pc[c] = "called" /\ req[c].op = "write" /\ pc' = [pc EXCEPT ![c] = "run"]
        /\ leg' = [leg EXCEPT ![c] = [s \in Server |-> "todo"]]
        /\ phase' = phase /\ req' = req /\ result' = result /\ torn' = torn /\ files' = files
    BY <1>1 DEF AcceptWrite
  <2>2. /\ pc'[c] = "run" /\ leg'[c][Primary] = "todo"
        /\ \A d \in Calls \ {c} : pc'[d] = pc[d] /\ leg'[d] = leg[d]
    BY <1>0, <2>1 DEF TypeOK
  <2>3. AbsStatus'[c] = AbsStatus[c]
    BY <2>1, <2>2 DEF AbsStatus
  <2>4. \A d \in Calls : AbsStatus'[d] = AbsStatus[d]
    BY <2>1, <2>2, <2>3, StatusSame
  <2> QED
    BY <1>0, <2>1, <2>4, LatestSame, Unseen
<1>2. CASE SendRepair(c)
  <2>1. /\ pc[c] = "called" /\ req[c].op = "repair" /\ pc' = [pc EXCEPT ![c] = "run"]
        /\ leg' = [leg EXCEPT ![c][FirstReplica] = "sent"]
        /\ phase' = phase /\ req' = req /\ result' = result /\ torn' = torn /\ files' = files
    BY <1>2 DEF SendRepair, past
  <2>2. pc'[c] = "run" /\ \A d \in Calls \ {c} : pc'[d] = pc[d] /\ leg'[d] = leg[d]
    BY <1>0, <2>1 DEF TypeOK
  <2>3. AbsStatus'[c] = AbsStatus[c]
    BY <2>1, <2>2 DEF AbsStatus
  <2>4. \A d \in Calls : AbsStatus'[d] = AbsStatus[d]
    BY <2>1, <2>2, <2>3, StatusSame
  <2> QED
    BY <1>0, <2>1, <2>4, LatestSame, Unseen
<1>3. ASSUME NEW i \in Replicas, Send(c, i) \/ WriteCopy(c, i) \/ Record(c, i)
      PROVE  UNCHANGED Abs!absVars
  <2>1. i \in Server /\ i # Primary
    BY Constants
  <2>2. /\ \E from, to \in {"todo", "sent", "logged", "done"} : Advance(c, i, from, to)
        /\ pc' = pc /\ phase' = phase /\ req' = req /\ result' = result /\ torn' = torn
    BY <1>3, <2>1 DEF Send, WriteCopy, Record, past
  <2>3. \A d \in Calls : leg'[d][Primary] = leg[d][Primary]
    BY <1>0, <2>1, <2>2, AdvanceType
  <2>4. \A d \in Calls : AbsStatus'[d] = AbsStatus[d]
    BY <2>2, <2>3, StatusSame
  <2>5. \A p \in Parts : Latest(Primary, p)' = Latest(Primary, p)
    <3>1. CASE Send(c, i)
      BY <1>0, <3>1, LatestSame DEF Send
    <3>2. CASE WriteCopy(c, i)
      <4>1. req[c].part \in Parts
        <5>1. leg[c][i] # "none"
          BY <2>1, <3>2 DEF WriteCopy, Advance
        <5>2. pc[c] # "idle"
          BY <1>0, <2>1, <5>1, LegOfWrite
        <5> QED
          BY <1>0, <5>2, Asked
      <4> QED
        BY <1>0, <2>1, <3>2, <4>1, LatestWrite
    <3>3. CASE Record(c, i)
      <4>1. req[c].part \in Parts
        <5>1. leg[c][i] # "none"
          BY <3>3 DEF Record, Advance
        <5>2. pc[c] # "idle"
          BY <1>0, <2>1, <5>1, LegOfWrite
        <5> QED
          BY <1>0, <5>2, Asked
      <4> QED
        BY <1>0, <2>1, <3>3, <4>1, LatestRecord
    <3> QED
      BY <1>3, <3>1, <3>2, <3>3
  <2> QED
    BY <2>2, <2>4, <2>5, Unseen
<1>4. ASSUME NEW s \in Server, LogCopy(c, s)
      PROVE  UNCHANGED Abs!absVars
  <2>1. /\ \E from \in {"todo", "sent"} : Advance(c, s, from, "logged")
        /\ pc' = pc /\ phase' = phase /\ req' = req /\ result' = result /\ torn' = torn
    BY <1>4 DEF LogCopy, past
  <2>2. /\ \A d \in Calls : leg'[d][Primary] = "done" <=> leg[d][Primary] = "done"
    BY <1>0, <2>1, AdvanceType
  <2>3. \A d \in Calls : AbsStatus'[d] = AbsStatus[d]
    BY <2>1, <2>2 DEF AbsStatus
  <2>4. req[c].val \in Content
    <3>1. Writing(c)
      BY <1>0, <1>4, LoggedLeg
    <3> QED
      BY <1>0, <3>1, Asked DEF Writing
  <2>5. \A p \in Parts : Latest(Primary, p)' = Latest(Primary, p)
    BY <1>0, <1>4, <2>4, LatestLog
  <2> QED
    BY <2>1, <2>3, <2>5, Unseen
<1> QED
  BY <1>1, <1>2, <1>3, <1>4

LEMMA AbsStep ==
  ASSUME RepInv, ReadsKnown, [Next]_vars
  PROVE  [Abs!AbsNext]_(Abs!absVars)
<1>0. /\ TypeOK /\ Exclusion /\ MergeInPlace /\ Primary \in Server
      /\ \A s \in Server : s = Primary \/ s \in Replicas
  BY Constants DEF RepInv
<1> SUFFICES Abs!AbsNext \/ UNCHANGED Abs!absVars
  OBVIOUS
<1>1. ASSUME NEW image \in [Parts -> Content], Create(image)
      PROVE  Abs!AbsNext
  BY <1>1, AbsOpen DEF Abs!AbsNext
<1>2. ASSUME NEW c \in Calls, NEW r \in Request, Call(c, r)
      PROVE  Abs!AbsNext
  BY <1>2, AbsCall DEF Abs!AbsNext
<1>3. ASSUME NEW s \in Server, Terminate(s)
      PROVE  Abs!AbsNext \/ UNCHANGED Abs!absVars
  BY <1>3, AbsTerminate DEF Abs!AbsNext
<1>4. ASSUME NEW c \in Calls, Serve(c)
      PROVE  Abs!AbsNext \/ UNCHANGED Abs!absVars
  <2>1. CASE CallFails(c) \/ RepairFails(c)
    <3>1. {c} \in SUBSET Calls
      OBVIOUS
    <3> QED
      BY <2>1, <3>1, AbsCallFails DEF Abs!AbsNext
  <2>2. CASE ServeRead(c) \/ ReplyRepair(c)
    BY <2>2, AbsAnswerRead DEF Abs!AbsNext
  <2>3. CASE WriteCopy(c, Primary) \/ Record(c, Primary)
    BY <2>3, AbsEffect DEF Abs!AbsNext
  <2>4. CASE ReplyWrite(c)
    BY <2>4, AbsAnswerWrite DEF Abs!AbsNext
  <2>5. CASE \E i \in Replicas : SendFails(c, i)
    BY <1>0, <1>3, <2>5 DEF SendFails
  <2>6. CASE \/ AcceptWrite(c) \/ SendRepair(c)
             \/ \E i \in Replicas : Send(c, i) \/ WriteCopy(c, i) \/ Record(c, i)
             \/ \E s \in Server : LogCopy(c, s)
    BY <2>6, AbsThreads
  <2> QED
    BY <1>0, <1>4, <2>1, <2>2, <2>3, <2>4, <2>5, <2>6 DEF Serve
<1>5. ASSUME NEW s \in Server, EndMerge(s) \/ \E p \in Parts : Replay(s, p)
      PROVE  UNCHANGED Abs!absVars
  <2>1. \A p \in Parts : Latest(Primary, p)' = Latest(Primary, p)
    BY <1>0, <1>5, LatestMerge
  <2>2. calls' = calls /\ past' = past /\ phase' = phase
    BY <1>5 DEF EndMerge, Replay
  <2>3. \A c \in Calls : AbsStatus'[c] = AbsStatus[c]
    BY <2>2 DEF calls, AbsStatus
  <2> QED
    BY <2>1, <2>2, <2>3, Unseen DEF calls, past
<1>6. CASE AskMerge \/ (\E s \in Server : Restart(s)) \/ UNCHANGED vars
  <2>1. calls' = calls /\ past' = past /\ phase' = phase /\ files' = files
    BY <1>6 DEF AskMerge, Restart, vars
  <2>2. \A c \in Calls : AbsStatus'[c] = AbsStatus[c]
    BY <2>1 DEF calls, AbsStatus
  <2>3. \A p \in Parts : Latest(Primary, p)' = Latest(Primary, p)
    BY <1>0, <2>1, LatestSame
  <2> QED
    BY <2>1, <2>2, <2>3, Unseen DEF calls, past
<1>7. ASSUME NEW s \in Server, Crash(s)
      PROVE  Abs!AbsNext \/ UNCHANGED Abs!absVars
  BY <1>3, <1>7 DEF Crash
<1> QED
  BY <1>1, <1>2, <1>4, <1>5, <1>6, <1>7 DEF Next

\* Replication and ReplicationLog implement the registers of BlockStore, for any
\* replicas, parts, contents and calls, any number of stops and merges, if clients of
\* ReplicationLog read only parts its vectors know: a write takes effect when the copy
\* or the vector of the primary changes (writeData), merges are not seen, and a degraded
\* read differs from a read only for a part in torn.
THEOREM Refinement ==
  ASSUME ReadWhen = "logged"
  PROVE  Spec => ImplementsBlockStore
<1>1. Init => Abs!AbsInit /\ ReadsKnown
  BY AbsInitial DEF Init, ReadsKnown, Active
<1>2. RepInv /\ ReadsKnown /\ [Next]_vars => ReadsKnown'
  BY ReadsStep
<1>3. RepInv /\ ReadsKnown /\ [Next]_vars => [Abs!AbsNext]_(Abs!absVars)
  BY AbsStep
<1> QED
  BY <1>1, <1>2, <1>3, ReplicationInvariant, PTL DEF Spec, ImplementsBlockStore, Abs!AbsSpec
=============================================================================
