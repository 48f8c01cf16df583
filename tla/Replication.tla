----------------------------- MODULE Replication -----------------------------
(***************************************************************************)
(* The two schemes that keep whole copies instead of parity: class         *)
(* Replication (scheme/src/Replication.cpp) and class ReplicationLog       *)
(* (scheme/src/Replication_Log.cpp).                                       *)
(*                                                                         *)
(* The client writes to one data server, the primary (to_id data - 1),     *)
(* whose handler overwrites its copy and sends the content to every parity *)
(* server, here a replica.  ReplicationLog appends to user_data.log and    *)
(* pushes the offset on a vector of the part instead; the last entry of    *)
(* the vector is the current content until a merge copies it.  A degraded  *)
(* read is sent to the primary as well, which asks the replicas.           *)
(*                                                                         *)
(* What the schemes inherit from Scheme or share with it (create, the      *)
(* joined threads, the shared connections, the exception that ends a       *)
(* process) is as in FullOverwrite.  Requests are for one part; the file   *)
(* is created in one step, before anything else, and not cleared.          *)
(***************************************************************************)

EXTENDS Naturals, Sequences

CONSTANTS
  Primary,      \* the data server with to_id data - 1
  Replicas,     \* the parity servers, to_id data .. total - 1
  FirstReplica, \* the one with the smallest to_id
  Parts,        \* the part numbers of the file
  Content,      \* the contents of a part
  NoContent,    \* what is not a content: a file that does not exist, or memory
                \* that no read has filled
  Calls,        \* identities of the calls, one per sendDataToServer of a client
  NoReq,        \* the request of a call that has not been made
  ReadWhen,     \* "logged": clients of ReplicationLog read at the primary only
                \* parts its vectors know; "any"
  MaxCrash,     \* bound on the number of stops
  MaxMerge      \* bound on the number of merges

ASSUME ReplicationAssumption ==
  /\ FirstReplica \in Replicas /\ Primary \notin Replicas
  /\ NoContent \notin Content
  /\ ReadWhen \in {"logged", "any"}
  /\ MaxCrash \in Nat /\ MaxMerge \in Nat

VARIABLES
  scheme,    \* setting->scheme, from the configuration
  phase,     \* of the file: absent or live
  up,        \* the servers that run
  bin,       \* user_data.bin, by part
  log,       \* user_data.log: the records, one part each
  idx,       \* data_dr_logs[part] of the primary, parity_dr_logs[to_id][part]
             \* of a replica: positions in log
  pc,        \* of every call: idle, called, run, done or failed
  req,       \* of every call: what it asks
  leg,       \* of the handler of a call: how far the work of each server is
  spot,      \* curr_offset: where the record of a call is in the log of a server
  result,    \* the content a call returned
  merging,   \* servers that work on a MERGE request
  replay,    \* of such a server: the parts still to be replayed
  crashes, merges,  \* counters
  last,      \* history: the content of the last write answered, by part
  torn,      \* history: parts whose last write was cut by a stop
  fresh      \* history: writes accepted when no cut write was still under way

files == <<bin, log, idx>>
calls == <<pc, req, leg, spot, result>>
merge == <<merging, replay, merges>>
past  == <<last, torn, fresh>>
vars  == <<scheme, phase, up, files, calls, merge, crashes, past>>

Server == {Primary} \cup Replicas
Logged == scheme = "REPLICATION_LOG"

\* What a client asks for one part.
Request ==
  [op : {"write"}, part : Parts, val : Content]
    \cup [op : {"read", "repair"}, part : Parts, val : {NoContent}]

ASSUME NoReqAssumption == NoReq \notin Request

NoLeg   == [s \in Server |-> "none"]
NoSpot  == [s \in Server |-> 0]
NoIndex == [p \in Parts |-> <<>>]

Active(c)  == pc[c] \in {"called", "run"}
Running(c) == pc[c] = "run" /\ Primary \in up
Writing(c) == pc[c] = "run" /\ req[c].op = "write"
Write(c)   == req[c] # NoReq /\ req[c].op = "write"
InFlight(c) == Write(c) /\ \E s \in Replicas : leg[c][s] = "sent"

\* The current content of part p at server s.
Latest(s, p) ==
  IF idx[s][p] = <<>> THEN bin[s][p] ELSE log[s][idx[s][p][Len(idx[s][p])]]

Init ==
  /\ scheme \in {"REPLICATION", "REPLICATION_LOG"}
  /\ phase = "absent"
  /\ up = Server
  /\ bin = [s \in Server |-> [p \in Parts |-> NoContent]]
  /\ log = [s \in Server |-> <<>>]
  /\ idx = [s \in Server |-> NoIndex]
  /\ pc = [c \in Calls |-> "idle"]
  /\ req = [c \in Calls |-> NoReq]
  /\ leg = [c \in Calls |-> NoLeg]
  /\ spot = [c \in Calls |-> NoSpot]
  /\ result = [c \in Calls |-> NoContent]
  /\ merging = {}
  /\ replay = [s \in Server |-> {}]
  /\ crashes = 0 /\ merges = 0
  /\ last = [p \in Parts |-> NoContent]
  /\ torn = {}
  /\ fresh = {}

-----------------------------------------------------------------------------
(***************************************************************************)
(* Clients: Manage::create, write, read and repair.                        *)
(***************************************************************************)

\* The same bytes go to the primary and to every replica.
Create(image) ==
  /\ phase = "absent"
  /\ up = Server
  /\ phase' = "live"
  /\ bin' = [s \in Server |-> image]
  /\ last' = image
  /\ UNCHANGED <<scheme, up, log, idx, calls, merge, crashes, torn, fresh>>

\* The handlers of the primary share one connection to each replica with no
\* lock, so callers make one write or degraded read at a time; under
\* ReplicationLog they also keep reads apart from writes of the part, whose
\* vector grows.
Compatible(r, s) ==
  /\ "read" \in {r.op, s.op}
  /\ Logged => r.part # s.part \/ "write" \notin {r.op, s.op}

Call(c, r) ==
  /\ phase = "live"
  /\ merging = {}
  /\ pc[c] = "idle"
  /\ \A d \in Calls : Active(d) => Compatible(r, req[d])
  /\ Logged /\ r.op = "read" /\ ReadWhen = "logged" => idx[Primary][r.part] # <<>>
  /\ pc' = [pc EXCEPT ![c] = "called"]
  /\ req' = [req EXCEPT ![c] = r]
  /\ UNCHANGED <<scheme, phase, up, files, leg, spot, result, merge, crashes, past>>

\* transport->open() throws in the client.
CallFails(c) ==
  /\ pc[c] = "called"
  /\ Primary \notin up
  /\ pc' = [pc EXCEPT ![c] = "failed"]
  /\ UNCHANGED <<scheme, phase, up, files, req, leg, spot, result, merge, crashes>>
  /\ UNCHANGED past

\* ReplicationLog::readData of a part whose vector is empty: the descriptor of
\* user_data.bin is moved to the part, but the one of user_data.log is read,
\* which is still at the first record if there is one.
ReadUnlogged == IF log[Primary] = <<>> THEN NoContent ELSE log[Primary][1]

\* Scheme::readData or ReplicationLog::readData with type DR.
ServeRead(c) ==
  /\ pc[c] = "called"
  /\ req[c].op = "read"
  /\ Primary \in up
  /\ pc' = [pc EXCEPT ![c] = "done"]
  /\ result' = [result EXCEPT ![c] =
                  IF Logged /\ idx[Primary][req[c].part] = <<>> THEN ReadUnlogged
                  ELSE Latest(Primary, req[c].part)]
  /\ UNCHANGED <<scheme, phase, up, files, req, leg, spot, merge, crashes, past>>

-----------------------------------------------------------------------------
(***************************************************************************)
(* Writes: writeData at the primary, writeParity at a replica.             *)
(***************************************************************************)

\* The handler starts its threads.
AcceptWrite(c) ==
  /\ pc[c] = "called"
  /\ req[c].op = "write"
  /\ Primary \in up
  /\ pc' = [pc EXCEPT ![c] = "run"]
  /\ leg' = [leg EXCEPT ![c] = [s \in Server |-> "todo"]]
  /\ fresh' = fresh \cup {e \in {c} : \A d \in Calls :
                            InFlight(d) => req[d].part # req[c].part}
  /\ UNCHANGED <<scheme, phase, up, files, req, spot, result, merge, crashes>>
  /\ UNCHANGED <<last, torn>>

\* The step of call c at server s from one point of its work to the next.
Advance(c, s, from, to) ==
  /\ leg[c][s] = from
  /\ leg' = [leg EXCEPT ![c][s] = to]

\* A thread of the handler opens its connection and sends the content.
Send(c, i) ==
  /\ Writing(c) /\ Running(c)
  /\ i \in up
  /\ Advance(c, i, "todo", "sent")
  /\ UNCHANGED <<scheme, phase, up, files, pc, req, spot, result, merge, crashes>>
  /\ UNCHANGED past

\* Replication: writeChunk at the primary, or at a replica that was sent the
\* content, even if the primary has stopped since.
WriteCopy(c, s) ==
  /\ Write(c) /\ ~Logged
  /\ \/ s = Primary /\ Writing(c) /\ Running(c) /\ Advance(c, s, "todo", "done")
     \/ s \in Replicas /\ s \in up /\ Advance(c, s, "sent", "done")
  /\ bin' = [bin EXCEPT ![s][req[c].part] = req[c].val]
  /\ UNCHANGED <<scheme, phase, up, log, idx, pc, req, spot, result, merge, crashes>>
  /\ UNCHANGED past

\* Faulty variant: the offset is the end of the record, not its start.
LogCopyAtEnd(c, s) ==
  /\ Write(c) /\ Logged
  /\ \/ s = Primary /\ Advance(c, s, "todo", "logged")
     \/ s \in Replicas /\ Advance(c, s, "sent", "logged")
  /\ log' = [log EXCEPT ![s] = Append(@, req[c].val)]
  /\ spot' = [spot EXCEPT ![c][s] = Len(log[s]) + 2]
  /\ UNCHANGED <<scheme, phase, up, bin, idx, pc, req, result, merge, crashes, past>>

\* ReplicationLog: writeLog appends the content ...
LogCopy(c, s) ==
  /\ Write(c) /\ Logged
  /\ \/ s = Primary /\ Advance(c, s, "todo", "logged")
     \/ s \in Replicas /\ Advance(c, s, "sent", "logged")
  /\ log' = [log EXCEPT ![s] = Append(@, req[c].val)]
  /\ spot' = [spot EXCEPT ![c][s] = Len(log[s]) + 1]
  /\ UNCHANGED <<scheme, phase, up, bin, idx, pc, req, result, merge, crashes, past>>

\* ... and the vector gets its entry: at a replica at once, at the primary when
\* all the threads are joined.
Record(c, s) ==
  /\ Advance(c, s, "logged", "done")
  /\ s = Primary => \A i \in Replicas : leg[c][i] = "done"
  /\ idx' = [idx EXCEPT ![s][req[c].part] = Append(@, spot[c][s])]
  /\ UNCHANGED <<scheme, phase, up, bin, log, pc, req, spot, result, merge, crashes>>
  /\ UNCHANGED past

\* Faulty variant: the threads are not joined before the answer.
ReplyWriteNoJoin(c) ==
  /\ Writing(c) /\ Running(c)
  /\ leg[c][Primary] = "done"
  /\ pc' = [pc EXCEPT ![c] = "done"]
  /\ last' = [last EXCEPT ![req[c].part] = req[c].val]
  /\ torn' = IF c \in fresh THEN torn \ {req[c].part} ELSE torn
  /\ fresh' = fresh \ {c}
  /\ UNCHANGED <<scheme, phase, up, files, req, leg, spot, result, merge, crashes>>

\* The join of all the threads, and the answer.  Unlike a delta, a whole
\* content repairs what an earlier cut write has left.
ReplyWrite(c) ==
  /\ Writing(c) /\ Running(c)
  /\ \A s \in Server : leg[c][s] = "done"
  /\ pc' = [pc EXCEPT ![c] = "done"]
  /\ leg' = [leg EXCEPT ![c] = NoLeg]
  /\ spot' = [spot EXCEPT ![c] = NoSpot]
  /\ last' = [last EXCEPT ![req[c].part] = req[c].val]
  /\ torn' = IF c \in fresh THEN torn \ {req[c].part} ELSE torn
  /\ fresh' = fresh \ {c}
  /\ UNCHANGED <<scheme, phase, up, files, req, result, merge, crashes>>

-----------------------------------------------------------------------------
(***************************************************************************)
(* Degraded reads: degrade_read at the primary, readParity at a replica.   *)
(* The loop over the replicas goes on after an answer that is no SUCCESS,  *)
(* but readParity of type DR always answers SUCCESS, and a replica that    *)
(* does not run makes sendDataToServer throw, which ends the loop and      *)
(* reaches the client as an exception.                                     *)
(***************************************************************************)
SendRepair(c) ==
  /\ pc[c] = "called"
  /\ req[c].op = "repair"
  /\ Primary \in up
  /\ FirstReplica \in up
  /\ pc' = [pc EXCEPT ![c] = "run"]
  /\ leg' = [leg EXCEPT ![c][FirstReplica] = "sent"]
  /\ UNCHANGED <<scheme, phase, up, files, req, spot, result, merge, crashes, past>>

\* Faulty variant: the replica answers with user_data.bin, as for type D0.
ReplyRepairBase(c) ==
  /\ Running(c)
  /\ req[c].op = "repair"
  /\ leg[c][FirstReplica] = "sent"
  /\ pc' = [pc EXCEPT ![c] = "done"]
  /\ result' = [result EXCEPT ![c] = bin[FirstReplica][req[c].part]]
  /\ leg' = [leg EXCEPT ![c] = NoLeg]
  /\ UNCHANGED <<scheme, phase, up, files, req, spot, merge, crashes, past>>

\* The replica reads its current content and the primary passes it on.
ReplyRepair(c) ==
  /\ Running(c)
  /\ req[c].op = "repair"
  /\ leg[c][FirstReplica] = "sent"
  /\ pc' = [pc EXCEPT ![c] = "done"]
  /\ result' = [result EXCEPT ![c] = Latest(FirstReplica, req[c].part)]
  /\ leg' = [leg EXCEPT ![c] = NoLeg]
  /\ UNCHANGED <<scheme, phase, up, files, req, spot, merge, crashes, past>>

\* The exception of sendDataToServer.
RepairFails(c) ==
  /\ req[c] # NoReq
  /\ req[c].op = "repair"
  /\ Primary \in up
  /\ \/ pc[c] = "called" /\ FirstReplica \notin up
     \/ pc[c] = "run" /\ leg[c][FirstReplica] = "lost"
  /\ pc' = [pc EXCEPT ![c] = "failed"]
  /\ leg' = [leg EXCEPT ![c] = NoLeg]
  /\ UNCHANGED <<scheme, phase, up, files, req, spot, result, merge, crashes, past>>

-----------------------------------------------------------------------------
(***************************************************************************)
(* Merges of ReplicationLog: mergeData at the primary, mergeParity at a    *)
(* replica.                                                                *)
(***************************************************************************)
AskMerge ==
  /\ Logged
  /\ phase = "live"
  /\ merging = {}
  /\ merges < MaxMerge
  /\ \A c \in Calls : ~Active(c)
  /\ merging' = Server
  /\ replay' = [s \in Server |-> Parts]
  /\ merges' = merges + 1
  /\ UNCHANGED <<scheme, phase, up, files, calls, crashes, past>>

\* Faulty variant: the first record since the last merge is copied.
ReplayFirst(s, p) ==
  /\ p \in replay[s]
  /\ replay' = [replay EXCEPT ![s] = @ \ {p}]
  /\ bin' = [bin EXCEPT ![s][p] = IF idx[s][p] = <<>> THEN @ ELSE log[s][idx[s][p][1]]]
  /\ UNCHANGED <<scheme, phase, up, log, idx, calls, merging, merges, crashes, past>>

\* The last record of part p is copied into user_data.bin.
Replay(s, p) ==
  /\ p \in replay[s]
  /\ replay' = [replay EXCEPT ![s] = @ \ {p}]
  /\ bin' = [bin EXCEPT ![s][p] = Latest(s, p)]
  /\ UNCHANGED <<scheme, phase, up, log, idx, calls, merging, merges, crashes, past>>

\* The vectors are dropped; the log stays.
EndMerge(s) ==
  /\ s \in merging
  /\ replay[s] = {}
  /\ merging' = merging \ {s}
  /\ idx' = [idx EXCEPT ![s] = NoIndex]
  /\ UNCHANGED <<scheme, phase, up, bin, log, calls, replay, merges, crashes, past>>

-----------------------------------------------------------------------------
(***************************************************************************)
(* Stops and starts.  A server that logs loses its vectors with its        *)
(* process, which DeltaLog shows; here the servers of Replication stop.    *)
(***************************************************************************)

\* Process s ends.  With the primary end all its calls; the requests it has
\* sent to replicas are still served.
Terminate(s) ==
  /\ up' = up \ {s}
  /\ IF s = Primary
     THEN /\ pc' = [c \in Calls |-> IF pc[c] = "run" THEN "failed" ELSE pc[c]]
          /\ leg' = [c \in Calls |->
                       IF pc[c] = "run" /\ req[c].op = "repair" THEN NoLeg ELSE
                       [i \in Server |-> IF leg[c][i] = "sent" THEN "sent" ELSE "none"]]
          /\ torn' = torn \cup {req[c].part : c \in {d \in Calls : Writing(d)}}
          /\ fresh' = {}
     ELSE /\ leg' = [c \in Calls |-> IF leg[c][s] = "sent"
                                     THEN [leg[c] EXCEPT ![s] = "lost"] ELSE leg[c]]
          /\ UNCHANGED <<pc, torn, fresh>>
  /\ UNCHANGED <<scheme, phase, files, req, spot, result, merge, last>>

Crash(s) ==
  /\ ~Logged
  /\ phase = "live"
  /\ s \in up
  /\ crashes < MaxCrash
  /\ crashes' = crashes + 1
  /\ Terminate(s)

\* A sending thread of a write finds its replica stopped: the exception in
\* the thread ends the primary.
SendFails(c, i) ==
  /\ Writing(c) /\ Running(c)
  /\ \/ leg[c][i] = "todo" /\ i \notin up
     \/ leg[c][i] = "lost"
  /\ Terminate(Primary)
  /\ UNCHANGED crashes

Restart(s) ==
  /\ s \notin up
  /\ up' = up \cup {s}
  /\ UNCHANGED <<scheme, phase, files, calls, merge, crashes, past>>

-----------------------------------------------------------------------------
Serve(c) ==
  \/ CallFails(c) \/ ServeRead(c)
  \/ AcceptWrite(c) \/ ReplyWrite(c)
  \/ \E i \in Replicas : Send(c, i) \/ SendFails(c, i)
  \/ \E s \in Server : WriteCopy(c, s) \/ LogCopy(c, s) \/ Record(c, s)
  \/ SendRepair(c) \/ ReplyRepair(c) \/ RepairFails(c)

Next ==
  \/ \E image \in [Parts -> Content] : Create(image)
  \/ \E c \in Calls : Serve(c) \/ \E r \in Request : Call(c, r)
  \/ AskMerge
  \/ \E s \in Server : EndMerge(s) \/ Crash(s) \/ Restart(s)
                       \/ \E p \in Parts : Replay(s, p)

Spec == Init /\ [][Next]_vars

-----------------------------------------------------------------------------
(***************************************************************************)
(* Properties.                                                             *)
(***************************************************************************)

\* The part has been written whole and no write of it is under way.
AtRest(p) ==
  /\ phase = "live"
  /\ p \notin torn
  /\ \A c \in Calls : Writing(c) => req[c].part # p

\* Every copy of a part at rest has the content of the last write answered,
\* whether it is in user_data.bin or in the log: also after a stop, late
\* requests of a primary that has stopped and the write that repairs the part,
\* and also while a merge of ReplicationLog is half done.
CopiesAgree ==
  \A p \in Parts : AtRest(p) => \A s \in Server : Latest(s, p) = last[p]

\* What a read or a degraded read returns is the content of the last write
\* answered, or of the write under way.
AnswersLast ==
  [][\A c \in Calls :
       /\ req[c] # NoReq
       /\ req[c].op # "write"
       /\ pc[c] # "done" /\ pc'[c] = "done"
       /\ req[c].part \notin torn
       => \/ result'[c] = last[req[c].part]
          \/ \E d \in Calls : /\ Writing(d) /\ req[d].part = req[c].part
                              /\ result'[c] = req[d].val]_vars

-----------------------------------------------------------------------------
(***************************************************************************)
(* The registers of BlockStore, all of them at the primary.  A content is  *)
(* a symbol of its own there, and no content the empty sum.                *)
(***************************************************************************)
AbsValue(x) == {x} \ {NoContent}

\* A write takes effect when it has overwritten the copy of the primary, or
\* when the vector of the primary gets its entry.
AbsStatus ==
  [c \in Calls |->
     IF pc[c] # "run" THEN pc[c]
     ELSE IF req[c].op = "write" /\ leg[c][Primary] = "done" THEN "effected" ELSE "called"]

AbsRequest ==
  [c \in Calls |->
     IF req[c] = NoReq THEN NoReq
     ELSE [op |-> req[c].op, srv |-> Primary, part |-> req[c].part,
           val |-> AbsValue(req[c].val)]]

AbsAnswer == [c \in Calls |-> {Primary} \X AbsValue(result[c])]

AbsStore == [k \in {Primary} |-> [p \in Parts |-> AbsValue(Latest(k, p))]]

Abs == INSTANCE BlockStore WITH
  Data <- {Primary}, Parity <- Replicas, FirstParity <- FirstReplica, Sym <- Content,
  status  <- AbsStatus,
  request <- AbsRequest,
  answer  <- AbsAnswer,
  store   <- AbsStore,
  damaged <- torn,
  open    <- phase = "live"

\* Both schemes implement the registers, if the clients of ReplicationLog read
\* parts its vectors know: a write takes effect at one instant, a degraded read
\* returns the same content as a read at that instant, merges are invisible, and
\* after a stop degraded reads of a cut part return it again once a later write
\* of it, with no late request of the cut one on the way, has been answered.
ImplementsBlockStore == Abs!AbsSpec

-----------------------------------------------------------------------------
(***************************************************************************)
(* The inductive invariant behind CopiesAgree.                             *)
(***************************************************************************)
TypeOK ==
  /\ scheme \in {"REPLICATION", "REPLICATION_LOG"}
  /\ phase \in {"absent", "live"}
  /\ up \in SUBSET Server
  /\ bin \in [Server -> [Parts -> Content \cup {NoContent}]]
  /\ log \in [Server -> Seq(Content)]
  /\ idx \in [Server -> [Parts -> Seq(Nat)]]
  /\ pc \in [Calls -> {"idle", "called", "run", "done", "failed"}]
  /\ req \in [Calls -> Request \cup {NoReq}]
  /\ leg \in [Calls -> [Server -> {"none", "todo", "sent", "logged", "done", "lost"}]]
  /\ spot \in [Calls -> [Server -> Nat]]
  /\ result \in [Calls -> Content \cup {NoContent}]
  /\ merging \in SUBSET Server
  /\ replay \in [Server -> SUBSET Parts]
  /\ crashes \in Nat /\ merges \in Nat
  /\ last \in [Parts -> Content \cup {NoContent}]
  /\ torn \in SUBSET Parts
  /\ fresh \in SUBSET Calls

\* One write or degraded read at a time; nothing beside a merge or before the file
\* exists; stops under Replication only, merges under ReplicationLog only.
Exclusion ==
  /\ \A c \in Calls : pc[c] # "idle" => req[c] \in Request
  /\ \A c, d \in Calls :
       c # d /\ Active(c) /\ Active(d) => Compatible(req[c], req[d])
  /\ merging # {} => Logged /\ \A c \in Calls : ~Active(c)
  /\ phase = "absent" => /\ merging = {}
                         /\ \A c \in Calls : pc[c] = "idle"
                         /\ \A s \in Server : idx[s] = NoIndex
  /\ Logged => up = Server /\ torn = {}

\* Where a call is between its first and its last step.
LegsInPlace ==
  \A c \in Calls :
    /\ pc[c] \in {"idle", "called", "done"} => leg[c] = NoLeg
    /\ pc[c] = "failed" => \A s \in Server : leg[c][s] \in {"none", "sent", "done", "lost"}
    /\ pc[c] = "run" =>
         \/ /\ req[c].op = "write"
            /\ leg[c][Primary] \in {"todo", "logged", "done"}
            /\ \A i \in Replicas : leg[c][i] # "none"
         \/ /\ req[c].op = "repair"
            /\ \A s \in Server : leg[c][s] \in {"none", "sent", "lost"}
    /\ \A s \in Server : leg[c][s] # IF Logged THEN "lost" ELSE "logged"

IndexInLog ==
  \A s \in Server, p \in Parts :
    /\ \A j \in DOMAIN idx[s][p] : idx[s][p][j] \in DOMAIN log[s]
    /\ Logged \/ idx[s][p] = <<>>

\* A write that repairs its part, or of a part that is not torn: every copy has
\* the last content or the new one.
WritesInPlace ==
  \A c \in Calls : Writing(c) =>
    /\ \A s \in Server :
         /\ leg[c][s] = "logged" => /\ spot[c][s] \in DOMAIN log[s]
                                    /\ log[s][spot[c][s]] = req[c].val
         /\ c \in fresh /\ leg[c][s] = "done" => Latest(s, req[c].part) = req[c].val
         /\ req[c].part \notin torn /\ leg[c][s] # "done" =>
              Latest(s, req[c].part) = last[req[c].part]
    /\ req[c].part \notin torn => c \in fresh

\* A cut write that is still under way can only reach a torn part.
LateTorn ==
  \A c \in Calls :
    InFlight(c) /\ ~Active(c) => req[c].part \in torn

\* A write that will repair its part has no rival on the way.
FreshAlone ==
  \A c \in fresh :
    /\ Writing(c)
    /\ \A d \in Calls : d # c /\ InFlight(d) => req[d].part # req[c].part

\* A merging server has the current contents of the parts it has replayed in
\* user_data.bin.
MergeInPlace ==
  \A s \in merging, p \in Parts : p \notin replay[s] => bin[s][p] = Latest(s, p)

RepInv ==
  /\ TypeOK
  /\ Exclusion
  /\ LegsInPlace
  /\ IndexInLog
  /\ WritesInPlace
  /\ LateTorn
  /\ FreshAlone
  /\ MergeInPlace
  /\ CopiesAgree
=============================================================================
