------------------------------ MODULE DeltaLog ------------------------------
(***************************************************************************)
(* The two schemes that log parity deltas: class ParityLog                 *)
(* (scheme/src/ParityLog.cpp) and class FullLog (scheme/src/FullLog.cpp).  *)
(*                                                                         *)
(* In both a parity server appends the delta of a write to user_data.log   *)
(* and pushes its offset on a vector in memory, one vector per part.  The  *)
(* current parity PR of a part is P0, in user_data.bin, plus the deltas    *)
(* the vector points at.  ParityLog overwrites the data in place; FullLog  *)
(* logs the data as well, and the last entry of the vector of a part is    *)
(* its current content.  A merge replays the logs into user_data.bin and   *)
(* drops the vectors.  The vectors are never written to disk.              *)
(*                                                                         *)
(* What these schemes share with Scheme (one thread per server, joined by  *)
(* the handler; the shared connections; Decode) is as in FullOverwrite,    *)
(* which also has the stops of servers while they serve.  Here servers     *)
(* only restart while idle, the creation and the removal of the file are   *)
(* one step each, because nothing runs beside them, and a request reaches  *)
(* its server in the step that serves it.                                  *)
(***************************************************************************)

EXTENDS Stripe, Naturals, Sequences, FiniteSets

CONSTANTS
  Calls,        \* identities of the calls, one per sendDataToServer of a client
  NoReq,        \* the request of a call that has not been made
  Images,       \* the contents a client may create the file with
  Schemes,      \* values of setting->scheme: "PARITY_LOG", "FULL_LOG"
  Discipline,   \* what callers let overlap: "apart" nothing that shares a
                \* vector, "part" writes of one part, "merge" calls and merges
  RestartWhen,  \* "merged": a server is restarted with empty vectors; "any"
  RepairWhen,   \* degraded reads are asked for at "any" time, or, under FullLog,
                \* only while no merge has been made: "unmerged"
  Recreate,     \* whether clients create over a file without clearing it
  MaxMerge,     \* bound on the number of merges
  MaxRestart    \* bound on the number of restarts

ASSUME DeltaLogAssumption ==
  /\ Images \subseteq [Data -> [Parts -> Value]]
  /\ Schemes \subseteq {"PARITY_LOG", "FULL_LOG"}
  /\ Discipline \in {"apart", "part", "merge"}
  /\ RestartWhen \in {"merged", "any"}
  /\ RepairWhen \in {"unmerged", "any"}
  /\ Recreate \in BOOLEAN
  /\ MaxMerge \in Nat /\ MaxRestart \in Nat

VARIABLES
  scheme,    \* setting->scheme of all the processes
  phase,     \* what the clients know of the file: absent or live
  dataBin,   \* user_data.bin of the data servers, by part: d0
  dataLog,   \* user_data.log of the data servers
  dataIdx,   \* data_dr_logs[part] of the data servers: positions in dataLog
  parBin,    \* user_data.bin of the parity servers, by part: P0
  parLog,    \* user_data.log of the parity servers
  parIdx,    \* parity_dr_logs[to_id][part]: positions in parLog
  pc,        \* of every call: idle, called, run, done
  req,       \* of every call: the Request
  leg,       \* of the handler of a call: how far the work of each server is
  shard,     \* data contents the handler holds: d(r-1), or the shards it decodes
  seen,      \* parity contents read for a degraded read
  spot,      \* curr_offset: where the record of a call is in the log of a server
  slot,      \* the size push_back has read from the vector of a parity server
  result,    \* the content a call returned, scaled by its data server
  merging,   \* servers that work on a MERGE request
  replay,    \* of such a server: the parts still to be replayed
  merges, restarts   \* counters

bins  == <<dataBin, parBin>>
logs  == <<dataLog, parLog>>
index == <<dataIdx, parIdx>>
work  == <<leg, shard, seen, spot, slot>>
calls == <<pc, req, work, result>>
merge == <<merging, replay, merges>>
file  == <<scheme, phase>>
vars  == <<file, bins, logs, index, calls, merge, restarts>>

Legs == {"none", "todo", "read", "logged", "slotted", "done"}

EmptyImage == [k \in Data |-> [p \in Parts |-> {}]]
NoIndex    == [p \in Parts |-> <<>>]
NoShard    == [k \in Data |-> {}]
NoSeen     == [i \in Parity |-> {}]
NoLeg      == [s \in Server |-> "none"]
NoSpot     == [s \in Server |-> 0]
NoSlot     == [i \in Parity |-> 0]

\* The current content of part p of data server k, data type DR: the record of
\* the last entry of the vector, or d0 when the vector is empty.  ParityLog
\* leaves the vectors of the data servers empty.
Latest(k, p) ==
  IF dataIdx[k][p] = <<>> THEN dataBin[k][p]
  ELSE dataLog[k][dataIdx[k][p][Len(dataIdx[k][p])]]

Row(p) == [k \in Data |-> Latest(k, p)]

\* Faulty variant: only the last delta is added.
DeltaSumLast(log, idx) == IF idx = <<>> THEN {} ELSE log[idx[Len(idx)]]

\* The exclusive or of the records of log that idx points at: the symbols that
\* are in an odd number of them.
DeltaSum(log, idx) ==
  {x \in Data \X Sym : Cardinality({j \in DOMAIN idx : x \in log[idx[j]]}) % 2 = 1}

\* The current content of part p of parity server i, data type PR.
Current(i, p) == parBin[i][p] (+) DeltaSum(parLog[i], parIdx[i][p])

\* The delta every parity server receives for the write of call c.
Delta(c) == Scale(req[c].srv, req[c].val (+) shard[c][req[c].srv])

Active(c)  == pc[c] \in {"called", "run"}
Writing(c) == pc[c] = "run" /\ req[c].op = "write"
Idle       == \A c \in Calls : ~Active(c)
Quiet      == Idle /\ merging = {}

\* No merge has been made that leaves deltas to be added a second time.
Unmerged == scheme = "PARITY_LOG" \/ merges = 0

TypeOK ==
  /\ scheme \in Schemes
  /\ phase \in {"absent", "live"}
  /\ dataBin \in [Data -> [Parts -> Value]]
  /\ dataLog \in [Data -> Seq(Value)]
  /\ dataIdx \in [Data -> [Parts -> Seq(Nat)]]
  /\ parBin \in [Parity -> [Parts -> ParityValue]]
  /\ parLog \in [Parity -> Seq(ParityValue)]
  /\ parIdx \in [Parity -> [Parts -> Seq(Nat)]]
  /\ pc \in [Calls -> {"idle", "called", "run", "done"}]
  /\ req \in [Calls -> Request \cup {NoReq}]
  /\ leg \in [Calls -> [Server -> Legs]]
  /\ shard \in [Calls -> [Data -> Value]]
  /\ seen \in [Calls -> [Parity -> ParityValue]]
  /\ spot \in [Calls -> [Server -> Nat]]
  /\ slot \in [Calls -> [Parity -> Nat]]
  /\ result \in [Calls -> ParityValue]
  /\ merging \in SUBSET Server
  /\ replay \in [Server -> SUBSET Parts]
  /\ merges \in Nat /\ restarts \in Nat

Init ==
  /\ scheme \in Schemes
  /\ phase = "absent"
  /\ dataBin = EmptyImage
  /\ dataLog = [k \in Data |-> <<>>]
  /\ dataIdx = [k \in Data |-> NoIndex]
  /\ parBin = [i \in Parity |-> [p \in Parts |-> {}]]
  /\ parLog = [i \in Parity |-> <<>>]
  /\ parIdx = [i \in Parity |-> NoIndex]
  /\ pc = [c \in Calls |-> "idle"]
  /\ req = [c \in Calls |-> NoReq]
  /\ leg = [c \in Calls |-> NoLeg]
  /\ shard = [c \in Calls |-> NoShard]
  /\ seen = [c \in Calls |-> NoSeen]
  /\ spot = [c \in Calls |-> NoSpot]
  /\ slot = [c \in Calls |-> NoSlot]
  /\ result = [c \in Calls |-> {}]
  /\ merging = {}
  /\ replay = [s \in Server |-> {}]
  /\ merges = 0
  /\ restarts = 0

-----------------------------------------------------------------------------
(***************************************************************************)
(* Creating and clearing the file.                                         *)
(***************************************************************************)

\* Scheme::create on every server: user_data.bin is written, the logs and the
\* vectors stay as they are.
Create(image) ==
  /\ phase = "absent" \/ Recreate
  /\ Quiet
  /\ phase' = "live"
  /\ dataBin' = image
  /\ parBin' = [i \in Parity |->
                  [p \in Parts |-> Encode([k \in Data |-> image[k][p]])]]
  /\ UNCHANGED <<scheme, logs, index, calls, merge, restarts>>

\* Scheme::clear on every server: both files are removed, the vectors emptied.
Clear ==
  /\ phase = "live"
  /\ Quiet
  /\ phase' = "absent"
  /\ dataBin' = EmptyImage
  /\ dataLog' = [k \in Data |-> <<>>]
  /\ dataIdx' = [k \in Data |-> NoIndex]
  /\ parBin' = [i \in Parity |-> [p \in Parts |-> {}]]
  /\ parLog' = [i \in Parity |-> <<>>]
  /\ parIdx' = [i \in Parity |-> NoIndex]
  /\ UNCHANGED <<scheme, calls, merge, restarts>>

-----------------------------------------------------------------------------
(***************************************************************************)
(* Calls of clients.  As in FullOverwrite a data server serves one write   *)
(* or degraded read at a time, because its handlers share connections.     *)
(* The vectors have no lock either: a write is kept apart from writes and  *)
(* degraded reads of its part, and under FullLog from reads of the part it *)
(* writes, unless Discipline says that callers do not.                     *)
(***************************************************************************)
Compatible(r, s) ==
  \/ /\ "write" \notin {r.op, s.op}
     /\ r.srv # s.srv \/ "read" \in {r.op, s.op}
  \/ /\ "read" \in {r.op, s.op}
     /\ scheme = "PARITY_LOG" \/ r.srv # s.srv \/ r.part # s.part
  \/ /\ r.srv # s.srv
     /\ Discipline = "part" \/ r.part # s.part

Call(c, r) ==
  /\ phase = "live"
  /\ pc[c] = "idle"
  /\ r.op = "repair" /\ RepairWhen = "unmerged" => Unmerged
  /\ merging # {} => Discipline = "merge"
  /\ \A d \in Calls : Active(d) => Compatible(r, req[d])
  /\ pc' = [pc EXCEPT ![c] = "called"]
  /\ req' = [req EXCEPT ![c] = r]
  /\ UNCHANGED <<file, bins, logs, index, work, result, merge, restarts>>

\* ParityLog: Scheme::readData.  FullLog::readData with type DR.
ServeRead(c) ==
  /\ pc[c] = "called"
  /\ req[c].op = "read"
  /\ pc' = [pc EXCEPT ![c] = "done"]
  /\ result' = [result EXCEPT ![c] =
                  Scale(req[c].srv, Latest(req[c].srv, req[c].part))]
  /\ UNCHANGED <<file, bins, logs, index, req, work, merge, restarts>>

-----------------------------------------------------------------------------
(***************************************************************************)
(* Writes: Scheme::writeData (ParityLog) and FullLog::writeData, and       *)
(* writeParity, which is the same in both classes.                         *)
(***************************************************************************)

\* Faulty variant: the delta is taken against d0 although a newer record exists.
AcceptWriteBase(c) ==
  /\ pc[c] = "called"
  /\ req[c].op = "write"
  /\ pc' = [pc EXCEPT ![c] = "run"]
  /\ shard' = [shard EXCEPT ![c][req[c].srv] = dataBin[req[c].srv][req[c].part]]
  /\ leg' = [leg EXCEPT ![c] =
               [s \in Server |-> IF s \in Parity \cup {req[c].srv}
                                 THEN "todo" ELSE "none"]]
  /\ UNCHANGED <<file, bins, logs, index, req, seen, spot, slot, result>>
  /\ UNCHANGED <<merge, restarts>>

\* The handler reads d(r-1), computes the deltas and starts its threads.
AcceptWrite(c) ==
  /\ pc[c] = "called"
  /\ req[c].op = "write"
  /\ pc' = [pc EXCEPT ![c] = "run"]
  /\ shard' = [shard EXCEPT ![c][req[c].srv] = Latest(req[c].srv, req[c].part)]
  /\ leg' = [leg EXCEPT ![c] =
               [s \in Server |-> IF s \in Parity \cup {req[c].srv}
                                 THEN "todo" ELSE "none"]]
  /\ UNCHANGED <<file, bins, logs, index, req, seen, spot, slot, result>>
  /\ UNCHANGED <<merge, restarts>>

\* ParityLog: the thread that overwrites the part of the data server.
WriteChunk(c) ==
  /\ Writing(c)
  /\ scheme = "PARITY_LOG"
  /\ leg[c][req[c].srv] = "todo"
  /\ dataBin' = [dataBin EXCEPT ![req[c].srv][req[c].part] = req[c].val]
  /\ leg' = [leg EXCEPT ![c][req[c].srv] = "done"]
  /\ UNCHANGED <<file, parBin, logs, index, pc, req, shard, seen, spot, slot>>
  /\ UNCHANGED <<result, merge, restarts>>

\* FullLog: the thread that appends the new content to the log.
LogData(c) ==
  /\ Writing(c)
  /\ scheme = "FULL_LOG"
  /\ leg[c][req[c].srv] = "todo"
  /\ dataLog' = [dataLog EXCEPT ![req[c].srv] = Append(@, req[c].val)]
  /\ spot' = [spot EXCEPT ![c][req[c].srv] = Len(dataLog[req[c].srv]) + 1]
  /\ leg' = [leg EXCEPT ![c][req[c].srv] = "logged"]
  /\ UNCHANGED <<file, bins, parLog, index, pc, req, shard, seen, slot>>
  /\ UNCHANGED <<result, merge, restarts>>

\* FullLog: once all threads are joined the vector gets its entry.
RecordData(c) ==
  /\ Writing(c)
  /\ leg[c][req[c].srv] = "logged"
  /\ \A i \in Parity : leg[c][i] = "done"
  /\ dataIdx' = [dataIdx EXCEPT ![req[c].srv][req[c].part] =
                   Append(@, spot[c][req[c].srv])]
  /\ leg' = [leg EXCEPT ![c][req[c].srv] = "done"]
  /\ UNCHANGED <<file, bins, logs, parIdx, pc, req, shard, seen, spot, slot>>
  /\ UNCHANGED <<result, merge, restarts>>

\* Faulty variant: the offset is the end of the record, not its start.
LogDeltaAtEnd(c, i) ==
  /\ Writing(c)
  /\ leg[c][i] = "todo"
  /\ parLog' = [parLog EXCEPT ![i] = Append(@, Delta(c))]
  /\ spot' = [spot EXCEPT ![c][i] = IF parLog[i] = <<>> THEN 1 ELSE Len(parLog[i])]
  /\ leg' = [leg EXCEPT ![c][i] = "logged"]
  /\ UNCHANGED <<file, bins, dataLog, index, pc, req, shard, seen, slot>>
  /\ UNCHANGED <<result, merge, restarts>>

\* writeParity at parity server i: the delta is appended to the log ...
LogDelta(c, i) ==
  /\ Writing(c)
  /\ leg[c][i] = "todo"
  /\ parLog' = [parLog EXCEPT ![i] = Append(@, Delta(c))]
  /\ spot' = [spot EXCEPT ![c][i] = Len(parLog[i]) + 1]
  /\ leg' = [leg EXCEPT ![c][i] = "logged"]
  /\ UNCHANGED <<file, bins, dataLog, index, pc, req, shard, seen, slot>>
  /\ UNCHANGED <<result, merge, restarts>>

\* ... push_back reads the size of the vector ...
ReadSize(c, i) ==
  /\ Writing(c)
  /\ leg[c][i] = "logged"
  /\ slot' = [slot EXCEPT ![c][i] = Len(parIdx[i][req[c].part])]
  /\ leg' = [leg EXCEPT ![c][i] = "slotted"]
  /\ UNCHANGED <<file, bins, logs, index, pc, req, shard, seen, spot>>
  /\ UNCHANGED <<result, merge, restarts>>

\* The vector idx after a push_back of x that has read size n.  Entries pushed
\* since are overwritten; a vector that was freed since loses x.
PushBack(idx, n, x) ==
  IF n > Len(idx) THEN idx ELSE Append(SubSeq(idx, 1, n), x)

\* ... and stores the entry.
RecordDelta(c, i) ==
  /\ Writing(c)
  /\ leg[c][i] = "slotted"
  /\ parIdx' = [parIdx EXCEPT ![i][req[c].part] =
                  PushBack(@, slot[c][i], spot[c][i])]
  /\ leg' = [leg EXCEPT ![c][i] = "done"]
  /\ UNCHANGED <<file, bins, logs, dataIdx, pc, req, shard, seen, spot, slot>>
  /\ UNCHANGED <<result, merge, restarts>>

\* The join of all the threads, and the answer.
ReplyWrite(c) ==
  /\ Writing(c)
  /\ \A s \in Parity \cup {req[c].srv} : leg[c][s] = "done"
  /\ pc' = [pc EXCEPT ![c] = "done"]
  /\ leg' = [leg EXCEPT ![c] = NoLeg]
  /\ shard' = [shard EXCEPT ![c] = NoShard]
  /\ spot' = [spot EXCEPT ![c] = NoSpot]
  /\ slot' = [slot EXCEPT ![c] = NoSlot]
  /\ UNCHANGED <<file, bins, logs, index, req, seen, result, merge, restarts>>

-----------------------------------------------------------------------------
(***************************************************************************)
(* Degraded reads of type DR: degrade_read, the same in both classes.      *)
(***************************************************************************)
AcceptRepair(c) ==
  /\ pc[c] = "called"
  /\ req[c].op = "repair"
  /\ pc' = [pc EXCEPT ![c] = "run"]
  /\ leg' = [leg EXCEPT ![c] =
               [s \in Server |-> IF s = req[c].srv THEN "none" ELSE "todo"]]
  /\ UNCHANGED <<file, bins, logs, index, req, shard, seen, spot, slot>>
  /\ UNCHANGED <<result, merge, restarts>>

Repairing(c) == pc[c] = "run" /\ req[c].op = "repair"

\* readData of type DR at data server k.
ShardRead(c, k) ==
  /\ Repairing(c)
  /\ leg[c][k] = "todo"
  /\ shard' = [shard EXCEPT ![c][k] = Latest(k, req[c].part)]
  /\ leg' = [leg EXCEPT ![c][k] = "done"]
  /\ UNCHANGED <<file, bins, logs, index, pc, req, seen, spot, slot>>
  /\ UNCHANGED <<result, merge, restarts>>

\* readParity of type PR at parity server i: it reads P0 ...
BaseRead(c, i) ==
  /\ Repairing(c)
  /\ leg[c][i] = "todo"
  /\ seen' = [seen EXCEPT ![c][i] = parBin[i][req[c].part]]
  /\ leg' = [leg EXCEPT ![c][i] = "read"]
  /\ UNCHANGED <<file, bins, logs, index, pc, req, shard, spot, slot>>
  /\ UNCHANGED <<result, merge, restarts>>

\* ... then adds the deltas.
DeltasRead(c, i) ==
  /\ Repairing(c)
  /\ leg[c][i] = "read"
  /\ seen' = [seen EXCEPT ![c][i] =
                @ (+) DeltaSum(parLog[i], parIdx[i][req[c].part])]
  /\ leg' = [leg EXCEPT ![c][i] = "done"]
  /\ UNCHANGED <<file, bins, logs, index, pc, req, shard, spot, slot>>
  /\ UNCHANGED <<result, merge, restarts>>

\* The join of all the threads, decodeMissing, and the answer.
ReplyRepair(c) ==
  /\ Repairing(c)
  /\ \A s \in Server \ {req[c].srv} : leg[c][s] = "done"
  /\ pc' = [pc EXCEPT ![c] = "done"]
  /\ result' = [result EXCEPT ![c] =
                  Decode(req[c].srv, shard[c], seen[c][FirstParity])]
  /\ leg' = [leg EXCEPT ![c] = NoLeg]
  /\ shard' = [shard EXCEPT ![c] = NoShard]
  /\ seen' = [seen EXCEPT ![c] = NoSeen]
  /\ UNCHANGED <<file, bins, logs, index, req, spot, slot, merge, restarts>>

-----------------------------------------------------------------------------
(***************************************************************************)
(* Merges (Manage::merge, mergeData, mergeParity) and restarts.            *)
(***************************************************************************)
AskMerge ==
  /\ phase = "live"
  /\ merging = {}
  /\ merges < MaxMerge
  /\ Idle \/ Discipline = "merge"
  /\ merging' = Server
  /\ replay' = [s \in Server |-> Parts]
  /\ merges' = merges + 1
  /\ UNCHANGED <<file, bins, logs, index, calls, restarts>>

\* Faulty variant: a data server replays its first record, not the last one.
ReplayFirst(s, p) ==
  /\ p \in replay[s]
  /\ replay' = [replay EXCEPT ![s] = @ \ {p}]
  /\ IF s \in Data
     THEN /\ dataBin' = [dataBin EXCEPT ![s][p] =
                           IF dataIdx[s][p] = <<>> THEN @ ELSE dataLog[s][dataIdx[s][p][1]]]
          /\ UNCHANGED parBin
     ELSE /\ parBin' = [parBin EXCEPT ![s][p] = Current(s, p)]
          /\ UNCHANGED dataBin
  /\ UNCHANGED <<file, logs, index, calls, merging, merges, restarts>>

\* Server s brings part p of its user_data.bin up to date: with its last
\* record if it is a data server, with all its deltas if it is a parity server.
Replay(s, p) ==
  /\ p \in replay[s]
  /\ replay' = [replay EXCEPT ![s] = @ \ {p}]
  /\ IF s \in Data
     THEN /\ dataBin' = [dataBin EXCEPT ![s][p] = Latest(s, p)]
          /\ UNCHANGED parBin
     ELSE /\ parBin' = [parBin EXCEPT ![s][p] = Current(s, p)]
          /\ UNCHANGED dataBin
  /\ UNCHANGED <<file, logs, index, calls, merging, merges, restarts>>

\* Faulty variant: ParityLog::mergeParity keeps the vectors it has replayed.
EndMergeKeepsIndex(s) ==
  /\ s \in merging
  /\ replay[s] = {}
  /\ merging' = merging \ {s}
  /\ UNCHANGED <<file, bins, logs, index, calls, replay, merges, restarts>>

\* The vectors are dropped.  FullLog::mergeParity calls clearDataBuffer, which
\* leaves the vectors of a parity server as they are.
EndMerge(s) ==
  /\ s \in merging
  /\ replay[s] = {}
  /\ merging' = merging \ {s}
  /\ dataIdx' = [k \in Data |-> IF k = s THEN NoIndex ELSE dataIdx[k]]
  /\ parIdx' = [i \in Parity |-> IF i = s /\ scheme = "PARITY_LOG"
                                 THEN NoIndex ELSE parIdx[i]]
  /\ UNCHANGED <<file, bins, logs, calls, replay, merges, restarts>>

\* The process of server s ends and is started again: a new Buffer.
Restart(s) ==
  /\ Quiet
  /\ restarts < MaxRestart
  /\ \/ RestartWhen = "any"
     \/ s \in Data /\ dataIdx[s] = NoIndex
     \/ s \in Parity /\ parIdx[s] = NoIndex
  /\ restarts' = restarts + 1
  /\ dataIdx' = [k \in Data |-> IF k = s THEN NoIndex ELSE dataIdx[k]]
  /\ parIdx' = [i \in Parity |-> IF i = s THEN NoIndex ELSE parIdx[i]]
  /\ UNCHANGED <<file, bins, logs, calls, merge>>

-----------------------------------------------------------------------------
\* One step of the code serving call c.
Serve(c) ==
  \/ ServeRead(c)
  \/ AcceptWrite(c) \/ WriteChunk(c) \/ LogData(c) \/ RecordData(c) \/ ReplyWrite(c)
  \/ \E i \in Parity : LogDelta(c, i) \/ ReadSize(c, i) \/ RecordDelta(c, i)
  \/ AcceptRepair(c) \/ ReplyRepair(c)
  \/ \E k \in Data : ShardRead(c, k)
  \/ \E i \in Parity : BaseRead(c, i) \/ DeltasRead(c, i)

Next ==
  \/ \E image \in Images : Create(image)
  \/ Clear
  \/ \E c \in Calls : Serve(c) \/ \E r \in Request : Call(c, r)
  \/ AskMerge
  \/ \E s \in Server : EndMerge(s) \/ Restart(s) \/ \E p \in Parts : Replay(s, p)

Spec == Init /\ [][Next]_vars

-----------------------------------------------------------------------------
(***************************************************************************)
(* Properties.                                                             *)
(***************************************************************************)

\* While no merge runs, the current parity of every part that no write is
\* changing is the encoding of its current data, on every parity server: no
\* delta is lost, taken twice or left from an earlier file, although parity,
\* deltas and offsets sit in three places that are updated one after another.
StripeCurrent ==
  phase = "live" /\ merging = {} =>
    \A p \in Parts :
      \/ \E c \in Calls : Writing(c) /\ req[c].part = p
      \/ \A i \in Parity : Current(i, p) = Encode(Row(p))

\* The same, with the part of FullLog that a merge breaks left out.
StripeUnmerged == Unmerged => StripeCurrent

\* Both schemes implement the registers of BlockStore: a write takes effect
\* when the chunk is overwritten (ParityLog) or the vector gets its entry
\* (FullLog); merges are invisible; degraded reads return the last write.
AbsStatus ==
  [c \in Calls |->
     IF pc[c] # "run" THEN pc[c]
     ELSE IF req[c].op = "write" /\ leg[c][req[c].srv] = "done"
          THEN "effected" ELSE "called"]

AbsStore ==
  IF phase = "live" THEN [k \in Data |-> [p \in Parts |-> Latest(k, p)]] ELSE EmptyImage

Abs == INSTANCE BlockStore WITH
  status  <- AbsStatus,
  request <- req,
  answer  <- result,
  store   <- AbsStore,
  damaged <- {},
  open    <- phase = "live"

\* Every behaviour of the scheme is a behaviour of the registers.
ImplementsBlockStore == Abs!AbsSpec

-----------------------------------------------------------------------------
(***************************************************************************)
(* The inductive invariant behind StripeCurrent, for careful callers:      *)
(* Discipline = "apart", RestartWhen = "merged", no Recreate.  Of FullLog  *)
(* it says what mergeParity leaves intact.                                 *)
(***************************************************************************)

\* The content of the part that the write of call c changes, as far as the
\* work for server s has come.
Held(c, s)    == IF leg[c][s] = "done" THEN req[c].val ELSE shard[c][req[c].srv]
RowHeld(c, s) == [Row(req[c].part) EXCEPT ![req[c].srv] = Held(c, s)]

RequestsKnown == \A c \in Calls : pc[c] # "idle" => req[c] \in Request

Exclusion ==
  /\ phase # "live" => Quiet
  /\ merging # {} => Idle /\ merges > 0
  /\ \A s \in Server : s \notin merging => replay[s] = {}
  /\ \A c, d \in Calls :
       c # d /\ Active(c) /\ Active(d) => Compatible(req[c], req[d])

\* A merge waits for the calls, so a degraded read asked for before the first
\* merge of FullLog ends before it.
RepairsUnmerged ==
  RepairWhen = "unmerged" =>
    \A c \in Calls : Active(c) /\ req[c].op = "repair" => Unmerged

\* Every entry of a vector is the place of a record.
IndexInLog ==
  /\ \A k \in Data, p \in Parts :
       \A j \in DOMAIN dataIdx[k][p] : dataIdx[k][p][j] \in DOMAIN dataLog[k]
  /\ \A i \in Parity, p \in Parts :
       \A j \in DOMAIN parIdx[i][p] : parIdx[i][p][j] \in DOMAIN parLog[i]

\* A write that has logged a record knows its place, whatever callers overlap.
SpotsInLog ==
  \A c \in Calls : Writing(c) =>
    /\ leg[c][req[c].srv] = "logged" =>
         spot[c][req[c].srv] \in DOMAIN dataLog[req[c].srv]
    /\ \A i \in Parity :
         leg[c][i] \in {"logged", "slotted"} => spot[c][i] \in DOMAIN parLog[i]

\* Only FullLog has records of data, and vectors that point at them.
DataVectors ==
  scheme = "PARITY_LOG" => \A k \in Data : dataIdx[k] = NoIndex

\* What a write has done so far; the two parts of a push_back see one vector.
WritesInPlace ==
  \A c \in Calls : Writing(c) =>
    LET k == req[c].srv
        p == req[c].part
    IN /\ leg[c][k] \in {"todo", "logged", "done"}
       /\ leg[c][k] = "logged" => /\ scheme = "FULL_LOG"
                                  /\ spot[c][k] \in DOMAIN dataLog[k]
                                  /\ dataLog[k][spot[c][k]] = req[c].val
       /\ Latest(k, p) = Held(c, k)
       /\ \A i \in Parity :
            /\ leg[c][i] \in {"todo", "logged", "slotted", "done"}
            /\ Unmerged => Current(i, p) = Encode(RowHeld(c, i))
            /\ leg[c][i] \in {"logged", "slotted"} =>
                 /\ spot[c][i] \in DOMAIN parLog[i]
                 /\ parLog[i][spot[c][i]] = Delta(c)
            /\ leg[c][i] = "slotted" => slot[c][i] = Len(parIdx[i][p])

\* What a degraded read holds so far is still what the servers have.
RepairsInPlace ==
  \A c \in Calls : Repairing(c) =>
    LET k == req[c].srv
        p == req[c].part
    IN /\ \A j \in Data \ {k} : leg[c][j] = "done" => shard[c][j] = Latest(j, p)
       /\ \A i \in Parity :
            /\ leg[c][i] = "read" => seen[c][i] = parBin[i][p]
            /\ leg[c][i] = "done" => seen[c][i] = Current(i, p)

\* A part that a merge has replayed is up to date without its vector.
Settled ==
  phase = "live" =>
    /\ \A k \in Data, p \in Parts :
         k \in merging /\ p \notin replay[k] => dataBin[k][p] = Latest(k, p)
    /\ Unmerged => \A i \in Parity, p \in Parts :
         \/ \E c \in Calls : Writing(c) /\ req[c].part = p
         \/ /\ i \in merging /\ p \notin replay[i]
            /\ parBin[i][p] = Encode(Row(p))
         \/ /\ i \in merging => p \in replay[i]
            /\ Current(i, p) = Encode(Row(p))

\* Without a file there are no vectors left of an earlier one.
NothingLeft ==
  phase = "absent" => /\ \A k \in Data : dataIdx[k] = NoIndex
                      /\ \A i \in Parity : parIdx[i] = NoIndex

LogInv ==
  /\ TypeOK
  /\ RequestsKnown
  /\ Exclusion
  /\ IndexInLog
  /\ NothingLeft
  /\ DataVectors
  /\ Settled
  /\ WritesInPlace
  /\ RepairsInPlace
  /\ RepairsUnmerged
=============================================================================
