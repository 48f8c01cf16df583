------------------------------- MODULE Dabri -------------------------------
(***************************************************************************)
(* The update scheme class DABRI (scheme/src/DABRI.cpp).                   *)
(*                                                                         *)
(* A data server does not read before it writes.  On the first update of a *)
(* range of parts it sends the new content (DR) to the parity servers      *)
(* while it reads the old one, then sends them the old one (D0) and logs   *)
(* the new one itself.  On later updates it sends DR and overwrites the    *)
(* chunk.  data_site tells whether the current content of a part is in the *)
(* log or in the chunk.  A parity server logs what it gets and computes    *)
(* P0 + gamma * (DR - D0) when it merges.                                  *)
(*                                                                         *)
(* Of the vectors of offsets the scheme uses only whether they are empty   *)
(* and their last entry, so a vector stands here for the record its last   *)
(* entry points at, None when it is empty; DeltaLog has the log files.     *)
(* What a handler does between two of its waits is one step, requests are  *)
(* served when they are sent, and servers do not stop: FullOverwrite and   *)
(* DeltaLog have these.                                                    *)
(***************************************************************************)

EXTENDS Stripe, Naturals

CONSTANTS
  Calls,        \* identities of the calls, one per sendDataToServer of a client
  NoReq,        \* the request of a call that has not been made
  None,         \* an empty vector
  Images,       \* the contents a client may create the file with
  Ranges,       \* the ranges of parts that requests are for
  Zeroed,       \* whether new bool[part_num] happens to give zeros
  MaxMerge      \* bound on the number of merges

ASSUME DabriAssumption ==
  /\ Images \subseteq [Data -> [Parts -> Value]]
  /\ Ranges \subseteq SUBSET Parts
  /\ \A v \in Value : v # None
  /\ Zeroed \in BOOLEAN
  /\ MaxMerge \in Nat

VARIABLES
  phase,     \* what the clients know of the file: absent or live
  dataBin,   \* user_data.bin of the data servers, by part
  dataDR,    \* data_dr_logs of the data servers, by part
  site,      \* data_site of the data servers: TRUE for the log
  updated,   \* data_is_update of the data servers: the keys that are TRUE
  parBin,    \* user_data.bin of the parity servers, by part: P0
  parDR,     \* parity_dr_logs of the parity servers, by data server and part
  parD0,     \* parity_d0_logs of the parity servers, by data server and part
  pc,        \* of every call: idle, called, done, or a stage of its handler
  req,       \* of every call: the request
  leg,       \* of the handler of a call: the servers whose work is not done
  base,      \* the old content the handler has read, by part
  shard,     \* data contents read for a degraded read, by server and part
  seen,      \* parity contents read for a degraded read, by server and part
  result,    \* the content a call returned, by part, scaled by its data server
  merging,   \* servers that have not served a MERGE request yet
  merges,    \* counter
  reg        \* history: the content last written to a part of a data server

dataVars == <<dataBin, dataDR, site, updated>>
parVars  == <<parBin, parDR, parD0>>
work     == <<base, shard, seen>>
calls    == <<pc, req, leg, work, result>>
vars     == <<phase, dataVars, parVars, calls, merging, merges, reg>>

\* A request, for all the parts of a range; the parts get one value.
RangeRequest ==
  [op : {"write"}, srv : Data, range : Ranges, val : Value]
    \cup [op : {"read", "repair"}, srv : Data, range : Ranges, val : {{}}]

Stages == {"first", "base", "chunk", "ask", "decode"}

EmptyImage == [k \in Data |-> [p \in Parts |-> {}]]
NoPart     == [p \in Parts |-> {}]
NoShard    == [k \in Data |-> NoPart]
NoSeen     == [i \in Parity |-> NoPart]
NoRecords  == [p \in Parts |-> None]
Unset      == [p \in Parts |-> FALSE]

\* A function of the parts that is g on the parts of range R and f elsewhere.
On(R, g, f) == [p \in Parts |-> IF p \in R THEN g[p] ELSE f[p]]
All(v)      == [p \in Parts |-> v]

\* What a read of part p at data server k may find: with the flag set and the
\* vector empty, back() reads an offset that was never written.
Contents(k, p) ==
  IF ~site[k][p] THEN {dataBin[k][p]}
  ELSE IF dataDR[k][p] = None THEN Value ELSE {dataDR[k][p]}

\* gamma * (DR - D0) of all data servers for part p at parity server i.
DeltaOf(i, p) ==
  {x \in Data \X Sym :
     /\ None \notin {parDR[i][x[1]][p], parD0[i][x[1]][p]}
     /\ x[2] \in parDR[i][x[1]][p] (+) parD0[i][x[1]][p]}

Busy(c)    == pc[c] \notin {"idle", "done"}
Writing(c) == pc[c] \in {"first", "base", "chunk"}
Quiet      == merging = {} /\ \A c \in Calls : ~Busy(c)

TypeOK ==
  /\ phase \in {"absent", "live"}
  /\ dataBin \in [Data -> [Parts -> Value]]
  /\ dataDR \in [Data -> [Parts -> {None} \cup Value]]
  /\ site \in [Data -> [Parts -> BOOLEAN]]
  /\ updated \in [Data -> SUBSET Ranges]
  /\ parBin \in [Parity -> [Parts -> ParityValue]]
  /\ parDR \in [Parity -> [Data -> [Parts -> {None} \cup Value]]]
  /\ parD0 \in [Parity -> [Data -> [Parts -> {None} \cup Value]]]
  /\ pc \in [Calls -> {"idle", "called", "done"} \cup Stages]
  /\ req \in [Calls -> RangeRequest \cup {NoReq}]
  /\ leg \in [Calls -> SUBSET Server]
  /\ base \in [Calls -> [Parts -> Value]]
  /\ shard \in [Calls -> [Data -> [Parts -> Value]]]
  /\ seen \in [Calls -> [Parity -> [Parts -> ParityValue]]]
  /\ result \in [Calls -> [Parts -> ParityValue]]
  /\ merging \in SUBSET Server
  /\ merges \in Nat
  /\ reg \in [Data -> [Parts -> Value]]

\* The values of a data_site that has just been allocated.
FreshSite == IF Zeroed THEN {Unset} ELSE [Parts -> BOOLEAN]

Init ==
  /\ phase = "absent"
  /\ dataBin = EmptyImage
  /\ dataDR = [k \in Data |-> NoRecords]
  /\ site \in [Data -> FreshSite]
  /\ updated = [k \in Data |-> {}]
  /\ parBin = [i \in Parity |-> NoPart]
  /\ parDR = [i \in Parity |-> [k \in Data |-> NoRecords]]
  /\ parD0 = [i \in Parity |-> [k \in Data |-> NoRecords]]
  /\ pc = [c \in Calls |-> "idle"]
  /\ req = [c \in Calls |-> NoReq]
  /\ leg = [c \in Calls |-> {}]
  /\ base = [c \in Calls |-> NoPart]
  /\ shard = [c \in Calls |-> NoShard]
  /\ seen = [c \in Calls |-> NoSeen]
  /\ result = [c \in Calls |-> NoPart]
  /\ merging = {}
  /\ merges = 0
  /\ reg = EmptyImage

-----------------------------------------------------------------------------
\* Scheme::create on every server.
Create(image) ==
  /\ phase = "absent"
  /\ Quiet
  /\ phase' = "live"
  /\ dataBin' = image
  /\ parBin' = [i \in Parity |->
                  [p \in Parts |-> Encode([k \in Data |-> image[k][p]])]]
  /\ reg' = image
  /\ UNCHANGED <<dataDR, site, updated, parDR, parD0, calls, merging, merges>>

\* Scheme::clear on every server.
Clear ==
  /\ phase = "live"
  /\ Quiet
  /\ phase' = "absent"
  /\ dataBin' = EmptyImage
  /\ dataDR' = [k \in Data |-> NoRecords]
  /\ site' \in [Data -> FreshSite]
  /\ updated' = [k \in Data |-> {}]
  /\ parBin' = [i \in Parity |-> NoPart]
  /\ parDR' = [i \in Parity |-> [k \in Data |-> NoRecords]]
  /\ parD0' = [i \in Parity |-> [k \in Data |-> NoRecords]]
  /\ reg' = EmptyImage
  /\ UNCHANGED <<calls, merging, merges>>

(***************************************************************************)
(* Calls.  A data server serves one write or degraded read at a time, as   *)
(* in FullOverwrite; reads and degraded reads are kept apart from writes   *)
(* of the parts they look at.  Writes of different data servers to the     *)
(* same part number may overlap: their records go to different vectors.    *)
(***************************************************************************)
Compatible(r, s) ==
  \/ /\ "write" \notin {r.op, s.op}
     /\ r.srv # s.srv \/ "read" \in {r.op, s.op}
  \/ /\ "read" \in {r.op, s.op}
     /\ r.srv # s.srv \/ r.range \cap s.range = {}
  \/ /\ r.srv # s.srv
     /\ r.op = s.op \/ r.range \cap s.range = {}

Call(c, r) ==
  /\ phase = "live"
  /\ merging = {}
  /\ pc[c] = "idle"
  /\ \A d \in Calls : Busy(d) => Compatible(r, req[d])
  /\ pc' = [pc EXCEPT ![c] = "called"]
  /\ req' = [req EXCEPT ![c] = r]
  /\ UNCHANGED <<phase, dataVars, parVars, leg, work, result, merging, merges, reg>>

\* DABRI::readData on the call of a client.
ServeRead(c) ==
  /\ pc[c] = "called"
  /\ req[c].op = "read"
  /\ pc' = [pc EXCEPT ![c] = "done"]
  /\ \E f \in [req[c].range -> Value] :
       /\ \A p \in req[c].range : f[p] \in Contents(req[c].srv, p)
       /\ result' = [result EXCEPT ![c] =
                       [p \in Parts |-> IF p \in req[c].range
                                        THEN Scale(req[c].srv, f[p]) ELSE {}]]
  /\ UNCHANGED <<phase, dataVars, parVars, req, leg, work, merging, merges, reg>>

-----------------------------------------------------------------------------
(***************************************************************************)
(* DABRI::writeData and writeParity.                                       *)
(***************************************************************************)

\* The first update of this range: group1 is started.
AcceptFirst(c) ==
  /\ pc[c] = "called"
  /\ req[c].op = "write"
  /\ req[c].range \notin updated[req[c].srv]
  /\ updated' = [updated EXCEPT ![req[c].srv] = @ \cup {req[c].range}]
  /\ pc' = [pc EXCEPT ![c] = "first"]
  /\ leg' = [leg EXCEPT ![c] = Parity \cup {req[c].srv}]
  /\ UNCHANGED <<phase, dataBin, dataDR, site, parVars, req, work, result>>
  /\ UNCHANGED <<merging, merges, reg>>

\* A later update: the current content is declared to be in the chunk, then the
\* threads are started.
AcceptLater(c) ==
  /\ pc[c] = "called"
  /\ req[c].op = "write"
  /\ req[c].range \in updated[req[c].srv]
  /\ site' = [site EXCEPT ![req[c].srv] = On(req[c].range, Unset, @)]
  /\ pc' = [pc EXCEPT ![c] = "chunk"]
  /\ leg' = [leg EXCEPT ![c] = Parity \cup {req[c].srv}]
  /\ UNCHANGED <<phase, dataBin, dataDR, updated, parVars, req, work, result>>
  /\ UNCHANGED <<merging, merges, reg>>

\* The thread of group1 that reads the old content.
ReadBase(c) ==
  /\ pc[c] = "first"
  /\ req[c].srv \in leg[c]
  /\ leg' = [leg EXCEPT ![c] = @ \ {req[c].srv}]
  /\ base' = [base EXCEPT ![c] = On(req[c].range, dataBin[req[c].srv], NoPart)]
  /\ UNCHANGED <<phase, dataVars, parVars, pc, req, shard, seen, result>>
  /\ UNCHANGED <<merging, merges, reg>>

\* Faulty variant: the first record of a part stays the current one.
LogDRFront(c, i) ==
  /\ pc[c] \in {"first", "chunk"}
  /\ i \in leg[c]
  /\ leg' = [leg EXCEPT ![c] = @ \ {i}]
  /\ parDR' = [parDR EXCEPT ![i][req[c].srv] =
                 [p \in Parts |-> IF p \in req[c].range /\ @[p] = None
                                  THEN req[c].val ELSE @[p]]]
  /\ UNCHANGED <<phase, dataVars, parBin, parD0, pc, req, work, result>>
  /\ UNCHANGED <<merging, merges, reg>>

\* writeParity with type DR: the new content is logged and recorded.
LogDR(c, i) ==
  /\ pc[c] \in {"first", "chunk"}
  /\ i \in leg[c]
  /\ leg' = [leg EXCEPT ![c] = @ \ {i}]
  /\ parDR' = [parDR EXCEPT ![i][req[c].srv] = On(req[c].range, All(req[c].val), @)]
  /\ UNCHANGED <<phase, dataVars, parBin, parD0, pc, req, work, result>>
  /\ UNCHANGED <<merging, merges, reg>>

\* group1 is joined, group2 started.
StartBase(c) ==
  /\ pc[c] = "first"
  /\ leg[c] = {}
  /\ pc' = [pc EXCEPT ![c] = "base"]
  /\ leg' = [leg EXCEPT ![c] = Parity]
  /\ UNCHANGED <<phase, dataVars, parVars, req, work, result, merging, merges, reg>>

\* Faulty variant: the new content is logged as the old one.
LogBaseNew(c, i) ==
  /\ pc[c] = "base"
  /\ i \in leg[c]
  /\ leg' = [leg EXCEPT ![c] = @ \ {i}]
  /\ parD0' = [parD0 EXCEPT ![i][req[c].srv] = On(req[c].range, All(req[c].val), @)]
  /\ UNCHANGED <<phase, dataVars, parBin, parDR, pc, req, work, result>>
  /\ UNCHANGED <<merging, merges, reg>>

\* writeParity with type D0: the old content is logged and recorded.
LogBase(c, i) ==
  /\ pc[c] = "base"
  /\ i \in leg[c]
  /\ leg' = [leg EXCEPT ![c] = @ \ {i}]
  /\ parD0' = [parD0 EXCEPT ![i][req[c].srv] = On(req[c].range, base[c], @)]
  /\ UNCHANGED <<phase, dataVars, parBin, parDR, pc, req, work, result>>
  /\ UNCHANGED <<merging, merges, reg>>

\* Faulty variant: the flag is not set after the content went to the log.
ReplyFirstNoSite(c) ==
  /\ pc[c] = "base"
  /\ leg[c] = {}
  /\ dataDR' = [dataDR EXCEPT ![req[c].srv] = On(req[c].range, All(req[c].val), @)]
  /\ reg' = [reg EXCEPT ![req[c].srv] = On(req[c].range, All(req[c].val), @)]
  /\ pc' = [pc EXCEPT ![c] = "done"]
  /\ base' = [base EXCEPT ![c] = NoPart]
  /\ UNCHANGED <<phase, dataBin, site, updated, parVars, req, leg, shard, seen>>
  /\ UNCHANGED <<result, merging, merges>>

\* group2, which also appends the new content to the data server's own log, is
\* joined; the data server records where its current content is and answers.
ReplyFirst(c) ==
  /\ pc[c] = "base"
  /\ leg[c] = {}
  /\ dataDR' = [dataDR EXCEPT ![req[c].srv] = On(req[c].range, All(req[c].val), @)]
  /\ site' = [site EXCEPT ![req[c].srv] = On(req[c].range, All(TRUE), @)]
  /\ reg' = [reg EXCEPT ![req[c].srv] = On(req[c].range, All(req[c].val), @)]
  /\ pc' = [pc EXCEPT ![c] = "done"]
  /\ base' = [base EXCEPT ![c] = NoPart]
  /\ UNCHANGED <<phase, dataBin, updated, parVars, req, leg, shard, seen, result>>
  /\ UNCHANGED <<merging, merges>>

\* The thread of a later update that overwrites the chunk.
WriteChunk(c) ==
  /\ pc[c] = "chunk"
  /\ req[c].srv \in leg[c]
  /\ leg' = [leg EXCEPT ![c] = @ \ {req[c].srv}]
  /\ dataBin' = [dataBin EXCEPT ![req[c].srv] = On(req[c].range, All(req[c].val), @)]
  /\ reg' = [reg EXCEPT ![req[c].srv] = On(req[c].range, All(req[c].val), @)]
  /\ UNCHANGED <<phase, dataDR, site, updated, parVars, pc, req, work, result>>
  /\ UNCHANGED <<merging, merges>>

\* The threads of a later update are joined, and the answer.
ReplyLater(c) ==
  /\ pc[c] = "chunk"
  /\ leg[c] = {}
  /\ pc' = [pc EXCEPT ![c] = "done"]
  /\ UNCHANGED <<phase, dataVars, parVars, req, leg, work, result>>
  /\ UNCHANGED <<merging, merges, reg>>

-----------------------------------------------------------------------------
(***************************************************************************)
(* DABRI::degrade_read: the new content from the log of a parity server,   *)
(* and if none has it, decoding.                                           *)
(***************************************************************************)
AcceptRepair(c) ==
  /\ pc[c] = "called"
  /\ req[c].op = "repair"
  /\ pc' = [pc EXCEPT ![c] = "ask"]
  /\ leg' = [leg EXCEPT ![c] = Parity]
  /\ UNCHANGED <<phase, dataVars, parVars, req, work, result, merging, merges, reg>>

\* readParity with type DR: the last record of every part of the range.
AnswerFromLog(c, i) ==
  /\ pc[c] = "ask"
  /\ i \in leg[c]
  /\ \A p \in req[c].range : parDR[i][req[c].srv][p] # None
  /\ pc' = [pc EXCEPT ![c] = "done"]
  /\ leg' = [leg EXCEPT ![c] = {}]
  /\ result' = [result EXCEPT ![c] =
                  [p \in Parts |->
                     IF p \in req[c].range
                     THEN Scale(req[c].srv, parDR[i][req[c].srv][p]) ELSE {}]]
  /\ UNCHANGED <<phase, dataVars, parVars, req, work, merging, merges, reg>>

\* A part of the range has no record: ERROR, and the next parity server is
\* asked.  They are asked in turn; no property depends on the order.
NotInLog(c, i) ==
  /\ pc[c] = "ask"
  /\ i \in leg[c]
  /\ \E p \in req[c].range : parDR[i][req[c].srv][p] = None
  /\ leg' = [leg EXCEPT ![c] = @ \ {i}]
  /\ UNCHANGED <<phase, dataVars, parVars, pc, req, work, result>>
  /\ UNCHANGED <<merging, merges, reg>>

\* No parity server had it: every other server is asked for its shard.
AskShards(c) ==
  /\ pc[c] = "ask"
  /\ leg[c] = {}
  /\ pc' = [pc EXCEPT ![c] = "decode"]
  /\ leg' = [leg EXCEPT ![c] = Server \ {req[c].srv}]
  /\ UNCHANGED <<phase, dataVars, parVars, req, work, result, merging, merges, reg>>

\* readData at data server k.
ShardRead(c, k) ==
  /\ pc[c] = "decode"
  /\ k \in leg[c]
  /\ leg' = [leg EXCEPT ![c] = @ \ {k}]
  /\ \E f \in [req[c].range -> Value] :
       /\ \A p \in req[c].range : f[p] \in Contents(k, p)
       /\ shard' = [shard EXCEPT ![c][k] = On(req[c].range, f, NoPart)]
  /\ UNCHANGED <<phase, dataVars, parVars, pc, req, base, seen, result>>
  /\ UNCHANGED <<merging, merges, reg>>

\* readParity with type PR at parity server i.  It reads P0, but then assigns a
\* zeroed vector to the answer and adds only the deltas to it.
ParityRead(c, i) ==
  /\ pc[c] = "decode"
  /\ i \in leg[c]
  /\ leg' = [leg EXCEPT ![c] = @ \ {i}]
  /\ seen' = [seen EXCEPT ![c][i] =
                On(req[c].range, [p \in Parts |-> DeltaOf(i, p)], NoPart)]
  /\ UNCHANGED <<phase, dataVars, parVars, pc, req, base, shard, result>>
  /\ UNCHANGED <<merging, merges, reg>>

\* The join of all the threads, decodeMissing, and the answer.
ReplyDecode(c) ==
  /\ pc[c] = "decode"
  /\ leg[c] = {}
  /\ pc' = [pc EXCEPT ![c] = "done"]
  /\ result' = [result EXCEPT ![c] =
                  [p \in Parts |->
                     IF p \in req[c].range
                     THEN Decode(req[c].srv, [k \in Data |-> shard[c][k][p]],
                                 seen[c][FirstParity][p])
                     ELSE {}]]
  /\ shard' = [shard EXCEPT ![c] = NoShard]
  /\ seen' = [seen EXCEPT ![c] = NoSeen]
  /\ UNCHANGED <<phase, dataVars, parVars, req, leg, base, merging, merges, reg>>

-----------------------------------------------------------------------------
(***************************************************************************)
(* Merges, asked for while nothing else runs (see DeltaLog for a merge     *)
(* that does not wait).                                                    *)
(***************************************************************************)
AskMerge ==
  /\ phase = "live"
  /\ Quiet
  /\ merges < MaxMerge
  /\ merging' = Server
  /\ merges' = merges + 1
  /\ UNCHANGED <<phase, dataVars, parVars, calls, reg>>

\* Faulty variant: the vectors are dropped and the flags are not.
MergeDataKeepsSite(k) ==
  /\ k \in merging
  /\ merging' = merging \ {k}
  /\ \E f \in [Parts -> Value] :
       /\ \A p \in Parts : f[p] \in Contents(k, p)
       /\ dataBin' = [dataBin EXCEPT ![k] = f]
  /\ dataDR' = [dataDR EXCEPT ![k] = NoRecords]
  /\ updated' = [updated EXCEPT ![k] = {}]
  /\ UNCHANGED <<phase, site, parVars, calls, merges, reg>>

\* mergeData at data server k: what the flags say is in the log is copied to
\* the chunk, and the data buffer is made anew.
MergeData(k) ==
  /\ k \in merging
  /\ merging' = merging \ {k}
  /\ \E f \in [Parts -> Value] :
       /\ \A p \in Parts : f[p] \in Contents(k, p)
       /\ dataBin' = [dataBin EXCEPT ![k] = f]
  /\ dataDR' = [dataDR EXCEPT ![k] = NoRecords]
  /\ \E f \in FreshSite : site' = [site EXCEPT ![k] = f]
  /\ updated' = [updated EXCEPT ![k] = {}]
  /\ UNCHANGED <<phase, parVars, calls, merges, reg>>

\* mergeParity at parity server i: P0 becomes P0 plus all deltas, and the
\* parity buffer is made anew.
MergeParity(i) ==
  /\ i \in merging
  /\ merging' = merging \ {i}
  /\ parBin' = [parBin EXCEPT ![i] = [p \in Parts |-> @[p] (+) DeltaOf(i, p)]]
  /\ parDR' = [parDR EXCEPT ![i] = [k \in Data |-> NoRecords]]
  /\ parD0' = [parD0 EXCEPT ![i] = [k \in Data |-> NoRecords]]
  /\ UNCHANGED <<phase, dataVars, calls, merges, reg>>

-----------------------------------------------------------------------------
\* One step of the code serving call c.
Serve(c) ==
  \/ ServeRead(c)
  \/ AcceptFirst(c) \/ ReadBase(c) \/ StartBase(c) \/ ReplyFirst(c)
  \/ AcceptLater(c) \/ WriteChunk(c) \/ ReplyLater(c)
  \/ AcceptRepair(c) \/ AskShards(c) \/ ReplyDecode(c)
  \/ \E k \in Data : ShardRead(c, k)
  \/ \E i \in Parity : \/ LogDR(c, i) \/ LogBase(c, i)
                       \/ AnswerFromLog(c, i) \/ NotInLog(c, i) \/ ParityRead(c, i)

Next ==
  \/ \E image \in Images : Create(image)
  \/ Clear
  \/ \E c \in Calls : Serve(c) \/ \E r \in RangeRequest : Call(c, r)
  \/ AskMerge
  \/ \E k \in Data : MergeData(k)
  \/ \E i \in Parity : MergeParity(i)

Spec == Init /\ [][Next]_vars

-----------------------------------------------------------------------------
(***************************************************************************)
(* Properties.                                                             *)
(***************************************************************************)

\* What parity server i can tell of part p of data server k: P0 and deltas.
ParityHolds(i, k, p) == {x \in Sym : <<k, x>> \in parBin[i][p] (+) DeltaOf(i, p)}

\* Wherever the current content of a part is (chunk or log), and whatever has
\* been merged, the data server finds the last content written, and P0 with the
\* deltas holds that same content, for every part its server is not writing.
\* The old content kept in the logs (D0) must be the one P0 was computed from.
StripeCurrent ==
  phase = "live" =>
    \A k \in Data, p \in Parts :
      \/ \E c \in Calls : Writing(c) /\ req[c].srv = k /\ p \in req[c].range
      \/ /\ Contents(k, p) = {reg[k][p]}
         /\ \A i \in Parity : ParityHolds(i, k, p) = reg[k][p]

\* back() is never called on an empty vector: by a reader of a part in the log,
\* by a merge, or by a parity server that computes PR for a degraded read and
\* finds DR already recorded but not D0, which arrives one round later.
BackDefined ==
  /\ \A k \in Data, p \in Parts : site[k][p] => dataDR[k][p] # None
  /\ \A i \in Parity, k \in Data, p \in Parts :
       /\ \/ \A c \in Calls : ~Busy(c)
          \/ \E c \in Calls : pc[c] = "decode" /\ p \in req[c].range
       /\ parDR[i][k][p] # None
       => parD0[i][k][p] # None

\* A call that is answered with contents returns the last ones written.
AnswerIsLast(c) ==
  \A p \in req[c].range : result'[c][p] = Scale(req[c].srv, reg[req[c].srv][p])

\* Reads, and degraded reads served from the log of a parity server, return the
\* last content written to every part, across first and later updates, merges
\* and overlapping writes of other data servers.
ReadsReturnLast ==
  [][\A c \in Calls :
       /\ pc[c] \in {"called", "ask"} /\ pc'[c] = "done"
       /\ req[c].op \in {"read", "repair"}
       => AnswerIsLast(c)]_vars

\* So do the degraded reads that decode, which the comment in degrade_read
\* names as the way to recover data no parity server has a record of.
DecodesReturnLast ==
  [][\A c \in Calls : pc[c] = "decode" /\ pc'[c] = "done" => AnswerIsLast(c)]_vars

-----------------------------------------------------------------------------
(***************************************************************************)
(* The inductive invariant behind StripeCurrent and BackDefined, for a     *)
(* zeroed data_site and ranges that do not overlap.                        *)
(***************************************************************************)
Writes(c, k, p) == Writing(c) /\ req[c].srv = k /\ p \in req[c].range

\* The part k of P0: the content P0 was computed from.
Kept(i, k, p) == {x \in Sym : <<k, x>> \in parBin[i][p]}

RequestsKnown == \A c \in Calls : pc[c] # "idle" => req[c] \in RangeRequest

Exclusion ==
  /\ phase # "live" => Quiet /\ \A k \in Data : updated[k] = {}
  /\ merging # {} => \A c \in Calls : ~Busy(c)
  /\ \A c, d \in Calls : c # d /\ Busy(c) /\ Busy(d) => Compatible(req[c], req[d])

LegsInPlace ==
  \A c \in Calls :
    /\ Writing(c) => req[c].op = "write" /\ req[c].range \in updated[req[c].srv]
    /\ pc[c] \in {"ask", "decode"} => req[c].op = "repair"
    /\ pc[c] \in {"idle", "called", "done"} => leg[c] = {}
    /\ pc[c] \in {"first", "chunk"} => leg[c] \subseteq Parity \cup {req[c].srv}
    /\ pc[c] \in {"base", "ask"} => leg[c] \subseteq Parity
    /\ pc[c] = "decode" => leg[c] \subseteq Server \ {req[c].srv}

\* A server that has served its MERGE request starts from empty vectors.
MergedClean ==
  merging # {} =>
    /\ \A k \in Data \ merging : updated[k] = {}
    /\ \A i \in Parity \ merging, k \in Data, p \in Parts :
         parDR[i][k][p] = None /\ parD0[i][k][p] = None

\* A part of no range updated since the last merge has left no trace ...
Untouched(k, p) ==
  (\A R \in updated[k] : p \notin R) =>
    /\ ~site[k][p] /\ dataDR[k][p] = None
    /\ phase = "live" => dataBin[k][p] = reg[k][p]
    /\ merging = {} =>
         \A i \in Parity : parDR[i][k][p] = None /\ parD0[i][k][p] = None

\* ... and of a part of such a range every parity server has a record, once
\* its first update has been answered: a later one sends no D0.
Recorded(k, p) ==
  merging = {} /\ (\E R \in updated[k] : p \in R) =>
    \/ \E c \in Calls : Writes(c, k, p)
    \/ \A i \in Parity : parDR[i][k][p] # None

\* Where the contents of a part are that no write is changing.
AtRest(k, p) ==
  /\ IF site[k][p] THEN dataDR[k][p] = reg[k][p] ELSE dataBin[k][p] = reg[k][p]
  /\ \A i \in Parity :
       \/ /\ parDR[i][k][p] = None /\ parD0[i][k][p] = None
          /\ Kept(i, k, p) = reg[k][p]
       \/ /\ parDR[i][k][p] = reg[k][p]
          /\ parD0[i][k][p] = Kept(i, k, p)

\* What a write has done so far to a part of its range: a first update ...
FirstUnderway(c, k, p) ==
  /\ ~site[k][p] /\ dataBin[k][p] = reg[k][p]
  /\ pc[c] = "base" \/ k \notin leg[c] => base[c][p] = reg[k][p]
  /\ \A i \in Parity :
       /\ Kept(i, k, p) = reg[k][p]
       /\ parDR[i][k][p] = IF pc[c] = "first" /\ i \in leg[c] THEN None ELSE req[c].val
       /\ parD0[i][k][p] = IF pc[c] = "first" \/ i \in leg[c] THEN None ELSE reg[k][p]

\* ... and a later one.
LaterUnderway(c, k, p) ==
  /\ ~site[k][p]
  /\ k \notin leg[c] => dataBin[k][p] = req[c].val /\ reg[k][p] = req[c].val
  /\ \A i \in Parity :
       /\ parD0[i][k][p] = Kept(i, k, p)
       /\ parDR[i][k][p] # None
       /\ i \notin leg[c] => parDR[i][k][p] = req[c].val

Underway(c, k, p) ==
  IF pc[c] = "chunk" THEN LaterUnderway(c, k, p) ELSE FirstUnderway(c, k, p)

PartInPlace(k, p) ==
  /\ Untouched(k, p)
  /\ Recorded(k, p)
  /\ phase = "live" => (\E c \in Calls : Writes(c, k, p)) \/ AtRest(k, p)
  /\ \A c \in Calls : Writes(c, k, p) => Underway(c, k, p)

DabriInv ==
  /\ TypeOK
  /\ RequestsKnown
  /\ Exclusion
  /\ LegsInPlace
  /\ MergedClean
  /\ \A k \in Data, p \in Parts : PartInPlace(k, p)
=============================================================================
