# HWDFS: a verification development

HWDFS (`src/HWDFS-v1.0`) stores one large file as a stripe: a chunk on every
data server and a Reed-Solomon parity chunk on every parity server. What it
explores is how a small update reaches the parity: six *update schemes* are
subclasses of one class. This directory holds TLA+ models of the system, TLC
configurations that check them on small instances, and theorems with proofs
checked by TLAPS.

Paths below are relative to `src/HWDFS-v1.0`.

## 1. Inventory

### 1.1 Processes and how they interact

    client process             data server (one per chunk)        parity server (one per parity chunk)
    Client -> MetaManage -> Manage ==RPC==> handler -> Scheme ==RPC==> handler -> Scheme
                |                                        |
                +==RPC==> master server (addresses)      +==RPC==> other data servers (degraded read)

* Every `==RPC==>` is a blocking Thrift call made by
  `Manage::sendDataToServer`: open the connection, send, wait, close. The
  connection objects (`setting->clients[i]`) are one per process and target,
  shared by all the threads of the process, with no lock.
* Servers handle calls in a pool of worker threads (`setting->total` in a data
  server, 16 in a parity server). A write or a degraded read keeps its worker
  until the calls it makes itself are answered.
* Threads are `boost::thread`s joined with `join_all` (except in `MetaManage`).
  An exception in such a thread ends the process.
* All files are opened, read or written, and closed in one helper call; there
  is no locking anywhere.

### 1.2 Components

| Component | Source | State | Operations | Hard behaviour | What makes it correct |
|---|---|---|---|---|---|
| Default scheme (full overwrite) | `scheme/src/Scheme.cpp` | `user_data.bin` of every server | create, writeData, writeParity, readData, readParity, degrade_read, clear | read-modify-write without locks on data and parity; stops between the data write and the parity writes; exceptions that end a process | parity of a part at rest encodes its data; reads and degraded reads return the last value written; every call ends |
| Parity logging | `scheme/src/ParityLog.cpp` | the same, plus `user_data.log` and the in-memory index `Buffer::parity_dr_logs` of the parity servers | the same, mergeParity | index lost at a restart while the log file stays; appends during a merge; unsynchronised vectors | bin plus all indexed deltas encodes the data; a merge changes no answer |
| Full logging | `scheme/src/FullLog.cpp` | logs and indexes on both sides (`data_dr_logs`) | the same, mergeData, mergeParity | index recorded after the sends; merge that clears the wrong buffer | as above; a second merge changes nothing |
| DABRI | `scheme/src/DABRI.cpp` | logs of D0 and DR, `data_site`, first-update map | the same, two-phase first update | D0/DR ordering, NEED_D0, fail-over between parities | the last value written comes back from either site |
| Replication, logged replication | `scheme/src/Replication.cpp`, `Replication_Log.cpp` | copies of the whole file, logs | write to primary then replicas, degraded read from the next replica | fail-over; mixed log and bin reads | every replica returns the last value written |
| Buffers | `common/include/Buffer.h` | indexes of the log files | record, clear | concurrent `push_back`; uninitialised flags; lost at restart | an index entry points at a complete log record |
| Manage (client library, RPC, file helpers) | `common/src/Manage.cpp` | none (shared connections) | create, write, read, repair, merge, clear, sendDataToServer, writeLog, writeChunk, readData | shared connections, exceptions in threads, array bounds in clear | every request answered to the thread that made it |
| MetaManage (client, large ranges) | `common/src/MetaManage.cpp` | segments and chunks of one call | create, write, read, repair, merge, clear | threads started and never joined; answers copied out while they are decoded | a call that reports success has happened |
| Master server | `MasterServer.cpp` | none (a database it only reads) | getChunkServer, splitToSegment, splitToChunk | arithmetic at segment and chunk borders, 16-bit indexes | the pieces of a range are exactly the range |
| Data server, parity server | `DataServer.cpp`, `ParityServer.cpp` | worker pool, one Buffer | dispatch to the scheme | workers that wait for workers | some worker can always go on |
| Scheme factory, settings, configuration | `scheme/src/SchemeFactory.cpp`, `common/src/Setting.cpp`, `common/src/RSConfiguration.cpp` | none | pure | schemes named in the configuration and unknown to the factory | every configurable scheme exists |
| Reed-Solomon code | `erasure/` | log and exponent tables | encodeParity, decodeMissing, Galois arithmetic, matrix inversion | field arithmetic, the first `data` shards present | decoding undoes encoding |
| Thrift code | `service/` | the numbers and monitors of a shared client | generated: encode and decode, plain and concurrent client, processors | replies matched by order (plain) or by number (concurrent); hand-over between threads | a call gets the answer to its own request, and ends |
| Client programs | `Client.cpp` | traces, numbered files of update data that outlive a program | replay a trace; write, read and repair ranges in rounds and compare; create | loops on the end of a file, files left over from other programs, `main` ending while threads run | a comparison fails only when HWDFS is at fault |
| `robin-map/`, `tiny/` | vendored: the map of first updates in `Buffer`, the reader of `config.xml` | - | - | - | - |

The hazards, each at its line, are listed in `PROJECT.json`.

## 2. The modules

| Module | Models | Checked by |
|---|---|---|
| `Stripe` | contents of parts, `Scale` (Galois multiply), `Encode`, `Decode`: the algebra the schemes take from `erasure/` | every run of `FullOverwrite`, `DeltaLog` and `Dabri`; theorems in `StripeTheorems` |
| `BlockStore` | abstract specification: every part of every data server is a register | refined in `overwrite_safety`, `logs` and `replication` |
| `FullOverwrite` | class `Scheme`, with processes that stop and restart | `MCFullOverwrite`; theorems in `FullOverwriteProofs` |
| `DeltaLog` | classes `ParityLog` and `FullLog` (variable `scheme`, one of the constant `Schemes`) | `MCDeltaLog`; theorems in `DeltaLogProofs` |
| `Dabri` | class `DABRI`, with requests for ranges of parts | `MCDabri`; theorems in `DabriProofs` |
| `Replication` | classes `Replication` and `ReplicationLog` (variable `scheme`) | `MCReplication`; theorems in `ReplicationProofs` |
| `Connections` | `Manage::sendDataToServer` access by access, the shared stubs, the worker pools, stops | `MCConnections`; theorems in `ConnectionsProofs` |
| `LargeCalls` | `MetaManage`, the master server, the end of a client program | `MCClient`, `MCLargeCalls`; theorems in `ClientProofs` |
| `ClientPrograms` | the programs of `Client.cpp`, their traces and files of data | `MCClient`; theorems in `ClientProofs` |
| `Galois` | `erasure/`: the tables of the field, their generators, its operations | `MCLibraries` |
| `CodingLoops` | `erasure/`: the twelve coding loops and the check of parity | `MCLibraries` |
| `ReedSolomon` | `erasure/`: matrices, elimination, encoding, decoding, over any field | `MCLibraries`; theorems in `LibraryProofs` |
| `Wire` | `service/`: the structures, arguments and results as fields, the tables of procedures of processors and clients | `MCLibraries` |
| `Rpc` | `service/`: calls over one connection, by the plain or the concurrent client | `MCLibraries`; theorems in `LibraryProofs` |

How they fit together: `Galois`, `CodingLoops` and `ReedSolomon` show, in the real field, the algebra that
`Stripe` gives the schemes; the scheme modules show that a data server is a
register for callers that are careful (`BlockStore`); `LargeCalls` builds on
registers; `Connections` is the layer below all of them, and `Rpc` with `Wire` the
generated code it calls: the scheme modules take `AnswersMatch` and `DeathsCascade` for granted when a leg gets the answer to
its own request or ends its process because its server has gone.

### 2.1 How the state and the actions correspond to the code

**The schemes** (`FullOverwrite`, `DeltaLog`, `Dabri`, `Replication`)

* *Contents.* The schemes touch the bytes of a part only through linear maps
  (exclusive or, multiplication by a coefficient, encoding, decoding). A content
  is therefore a set of symbols added by symmetric difference, and the
  coefficient of data server `k` tags every symbol with `k`. Contents that are
  equal in the model are equal bytes for all user data; contents that differ
  differ for some user data. A degraded read returns the content of its server
  scaled by that tag. `Replication` does no arithmetic and uses model values.
* *Files and buffers.* `dataBin`, `parBin` are the `user_data.bin` files by
  part, `dataLog`, `parLog` the `user_data.log` files, `dataIdx`, `parIdx` the
  vectors `data_dr_logs`, `parity_dr_logs` (positions in the log). `Dabri` keeps
  of a vector only what the scheme uses, the record of its last entry, and has
  `data_site` (`site`) and the first-update map (`updated`).
* *A call* (`pc`, `req`, `result`) is one `Manage::sendDataToServer` of a
  client. *A leg* (`leg[c][s]`) is what one thread of its handler does for
  server `s`: not started, sent, read, logged, done, or lost because `s` stopped.
  `ReplyWrite` and `ReplyRepair` are the `join_all` and the answer.
* *Atomicity.* One call of a file helper (`readData`, `writeChunk`,
  `writeLog`) for one part is one step, everything between two of them is not
  interleaved with itself: the read and the write of `writeParity` are two steps,
  a `push_back` in `DeltaLog` is two (read the size, store the entry).
* *Stops* (`FullOverwrite`, `Replication`). A process may end between any two
  steps. A handler thread that opens a connection to a stopped server, or waits
  for one, throws in a `boost::thread` and ends its process (`SendFails`,
  `LegLost`); a request already sent is still served after its sender has gone.
  `torn` is a history variable: the parts a write was cut on.
* *The file* is created and cleared server by server in `FullOverwrite`, in one
  step elsewhere, because clients do so while nothing else runs.

**`Connections`**

* A thread `<<c, s>>` is the one that sends call `c` of a client program to its
  server, or one of those its handler starts for the other servers. `thr` is where
  it is in `sendDataToServer`, one action per access to the shared stub: `Open`
  (does nothing when the socket is open), `Send`, `Receive`, `Close`, or `Throws`.
* `stub[p][s]` is the connection that `setting->clients[s]` of process `p` has
  open; `link` is, per connection, its two ends, the requests and answers on the
  way and the request whose handler waits; `backlog` the connections that wait for
  a worker. `Accept`, `Handle`, `Finish`, `EndSession` are the worker of
  `TThreadPoolServer` (external) around the handlers of `DataServer.cpp` and
  `ParityServer.cpp`; the bytes of a message are not modelled.
* `Stop` and `Restart` are a server's; a program that ended does not come back.

**`LargeCalls`**

* `Pieces` is what `splitToSegment` and `splitToChunk` compute, negative lengths
  included; `ChunkServers` is `getChunkServer`. `MasterCrashes` and `Refused` are
  the ranges for which the master, or the program, ends.
* `Call` is `MetaManage::write` or `read` up to the loop that starts the threads. What
  follows may come before any of the threads has done anything: `Look` takes `begin`
  and `end` of the vector of the next answer, `CopyByte` is a step of `result.insert`,
  `Return` the end of the call.
* `Sends` and `Serve` are a thread and a data server (one step: a register). The thread
  decodes its answer where the call looks for it, in `responses[i].data`: `Resize` is
  `clear` and `resize` of `Response::read`, which leave bytes that are `Zero`, `ReadByte`
  one round of its loop, `ThreadEnds` the end. Nothing keeps these steps and those of the
  call apart: a call may look between `Resize` and the last `ReadByte`, and copy bytes
  that are decoded after it has looked.
* `LookTorn` is a call that reads `begin` before and `end` after a `resize`, which throws
  and ends the program. When a call has returned, its threads decode into a frame that
  is gone: into memory nobody uses, into the vectors of the next call (`Targets`), or
  to the end of the program (`LateEnds`). `Exit` is the end of `main`.
* `image` and `whole` are history variables: what the program has written, and
  whether all of it could reach the chunks.

**`ClientPrograms`**

* `Get`, `Eof` and `Entered` are `getline` and the loops `while(!ifs.eof())` over a
  trace, for lines that do not fit in `temp` and files with or without a newline at
  the end; each program of the source is an operator from a trace to its calls.
* `disk` has the length of every numbered file of update data; byte `j` of file `k`
  is `<<k, j>>`, and what a file that is too short leaves in a buffer is unknown.
  `UpdateStep` and `CompareStep` are one round of the loops of the `-i` programs.
  `Kill` may leave a file half made.

**`Galois`, `CodingLoops`, `ReedSolomon`**

* The tables are the literal ones of `Galois.cpp`; `TablesGenerated` compares them
  with what the generators next to them compute. Each class of coding loops is a
  record: the order of its three loops, and where it takes products from.
* The operations of `Galois.cpp` are parameters of `ReedSolomon`, so that it can be
  proved about; `MCLibraries.cfg` gives it those of the module `Galois`, with the 256
  elements and the polynomial of the code. A shard is one byte, since
  the coding loop treats the bytes of a shard independently. One step per pass of
  each of the two loops of `gaussianElimination` (`Pivot`, `Scale`,
  `EliminateBelow`; `EliminateAbove`), for the matrix of the constructor and for
  that of every `decodeMissing`; then `RecreateData` and `RecreateParity`.

**`Wire`, `Rpc`**

* An encoded structure is the sequence of its fields with number, type and value.
  `ReadX` and `WriteX` are the methods of the five structures; `X_args`, `X_result`,
  `process_X`, `Client_X`, `ConcurrentClient_X` what the generated code of procedure
  `X` writes, reads, and under which names.
* `pc[t]` is where a thread is in `send_X` and `recv_X`. `sync` is Thrift's
  `TConcurrentClientSyncInfo` (external): the numbers, the monitors of the calls, the
  read mutex, the message one thread left for another, and whom it has notified. One
  action per use of it: `LockRead`, `GetPending`, `HandOver` (`updatePending` and
  `waitForWork`), `Wake`, and `LeaveSync`, the destructor of the sentry.
* An answer to another procedure than the one called (`OfAnother`) ends a call of the
  concurrent client with `INVALID_DATA`, and is skipped by the plain one, which goes on
  reading for a result. The latter cannot happen with one call at a time.
* `Process` is `dispatchCall` with `process_X`, for an unknown procedure and a
  handler that throws too. `Break` is the end of the server; `Connect` is a new
  connection with a new client object.
* Nothing in HWDFS makes a concurrent client, although its threads share
  connections: `Rpc` says what the generated code offers, `Connections` what the
  program does.

### 2.2 What callers must do: the discipline constants

The code has no lock, so most promises hold only for callers that keep some calls
apart. The models say which, in the operator `Compatible` or in a constant, and
other values show what is lost.

| Constant | Careful value | What the other values admit |
|---|---|---|
| `FullOverwrite.Discipline` | `"stripe"`: writes and degraded reads of one part number apart | `"server"`: writes of different data servers together; `StripeConsistent` is violated, a delta is lost on a parity server |
| `DeltaLog.Discipline` | `"apart"`: as `"stripe"`, and merges while nothing runs | `"part"`: `StripeUnmerged` is violated (two `push_back` on one vector); `"merge"`: `StripeCurrent` is violated (an append during a merge) |
| `DeltaLog.RestartWhen` | `"merged"`: restarts with empty vectors | `"any"`: `StripeUnmerged` is violated, the deltas are forgotten |
| `DeltaLog.RepairWhen` | FullLog, `"unmerged"`: no degraded read after a merge | `"any"`: run `fulllog_merge` |
| `DeltaLog.Recreate` | `FALSE`: clear before creating again | `TRUE`: `StripeUnmerged` is violated by deltas of the old file |
| `Dabri.Ranges` | ranges that do not overlap | overlapping ranges: `StripeCurrent` is violated, a range is taken for a first update again |
| `Dabri.Zeroed` | `new bool[]` gives zeros | any flags: `BackDefined` is violated |
| `Replication.ReadWhen` | `"logged"`: under ReplicationLog read only parts that were updated | `"any"`: run `replication_read` |
| `Connections.Discipline` | `"careful"`: no two calls use one stub | `"any"`: `AnswersMatch` and `DeathsCascade` are violated |
| `Connections.DataWorkers` | 2 (the code has `total`) | 1: `CallsEnd` is violated, two degraded reads wait for each other's only worker |
| `LargeCalls.Patient` | `TRUE`: the program waits for the threads of a call | `FALSE`, with two calls: `ReadsCurrentBytes` and `FileIsImage` are violated |
| `LargeCalls!Good` | ranges in one stripe that begin at a part, and in the first chunk if they cross a border | other ranges are asked for too; the promises do not speak of them |

All schemes assume the careful value of `Connections.Discipline`: one write or degraded
read at a time per data server, whose handlers share one connection per target. Where
the table names a violated property and no run, the variation is a change of the
configuration that TLC answers with a counterexample; it has no run of its own.

## 3. The runs

| Run | Configuration | Result | What it shows |
|---|---|---|---|
| `overwrite_safety` | `MCFullOverwrite.cfg` | pass | Parity at rest encodes the data, across one stop of any server, cut writes and late requests (`StripeConsistent`); the inductive invariant of the proofs holds (`IndInv`); the scheme refines `BlockStore`, in which only a degraded read of a part that a stop has damaged may be wrong |
| `overwrite_live` | `MCFullOverwriteLive.cfg` | pass | Every call ends, whatever server stops (`CallsEnd`) |
| `logs` | `MCLogs.cfg` | pass | Both logging schemes: P0 plus the indexed deltas encodes the data, across two parts in one log, a merge and a restart with empty vectors; under FullLog until the merge (`StripeUnmerged`). The inductive invariant holds (`LogInv`); a merge is invisible to callers (`ImplementsBlockStore`) |
| `fulllog_merge` | `MCFullLogMerge.cfg` | violation | After a merge of FullLog the deltas are added a second time (`StripeCurrent`) |
| `dabri` | `MCDabri.cfg` | pass | Wherever the current content is, server and parities hold the last one written (`StripeCurrent`, `DabriInv`); no `back()` on an empty vector (`BackDefined`); reads, and degraded reads served from a log, return the last content (`ReadsReturnLast`) |
| `dabri_decode` | `MCDabriDecode.cfg` | violation | A degraded read that has to decode does so without P0 |
| `replication` | `MCReplication.cfg` | pass | Every copy of a part at rest has the last content, across a stop, late requests of a stopped primary, the write that repairs the part, and half-done merges (`CopiesAgree`, `RepInv`); reads and degraded reads return it (`AnswersLast`); the copies together are the registers of `BlockStore`, and a later whole write repairs a part that a stop has damaged (`ImplementsBlockStore`) |
| `replication_read` | `MCReplicationRead.cfg` | violation | Under ReplicationLog a part that was never updated is read from the wrong file |
| `libraries` | `MCLibraries.cfg` | pass | Of the erasure code: the tables are those of their generators (`TablesGenerated`) and make the bytes a field (`TablesMakeField`), and all loops compute the same product (`LoopsAgree`); the elimination keeps its loop invariant and ends with the inverse (`HalvesAgree`); a stripe with enough shards is never refused (`NeverSingular`) and is restored whichever shards are lost (`DecodeRestores`); a delta times its coefficient updates the parity (`DeltaUpdatesParity`). Of the remote calls: threads that share the concurrent client get the answers to their own requests (`OwnAnswers`), none waits in vain (`NobodyForgotten`), the inductive invariant of the proofs holds (`RpcInv`), every call ends, also after a stop (`RpcCallsEnd`); clients and processors agree about every procedure and refuse incomplete structures (`BothEndsAgree`) |
| `connections` | `MCConnections.cfg` | pass | With one thread per stub every answer reaches its request (`AnswersMatch`), a process ends only when it or a server it calls is stopped (`DeathsCascade`), the inductive invariant holds (`ConnInv`), every call ends although handlers wait for each other's workers (`CallsEnd`) |
| `large_calls` | `MCClient.cfg` | pass | The master's pieces tile every good range (`PiecesTile`); the chunks hold what a patient program wrote (`FileIsImage`); a read, which copies vectors while they are decoded, returns at every place the current byte or zero, chunks to their end or nothing of them, and the content if it looked after the thread had ended (`ReadsCurrentBytes`); the inductive invariant holds (`PatientInv`). The comparisons of `read_iops` and `degard_read_iops` raise no false alarm (`NoFalseAlarm`; `ProgramsInv` is its inductive invariant), and every program replays its trace line by line (`TracesReplayed`) |
| `large_read` | `MCLargeRead.cfg` | violation | A read returns before its threads have been answered and copies out nothing, part of the range, or zeros that are not in the file |

The four violations are recorded with their lines as findings in `PROJECT.json`.

### 3.1 Bounds

* Two data servers: the smallest number for which a delta of one can meet a delta
  of the other, and for which decoding needs another shard. Two parity servers
  where the order in which they are reached, or a stop of one of them, matters;
  one elsewhere: parity servers do not talk to each other.
* One part where every hazard is within a part number; two or three where records
  of several parts share a log, or ranges are asked for.
* One symbol per content: with exclusive or, one symbol already tells a delta that
  is missing, doubled or foreign from the right one, and the values of different
  servers stay apart by their tags. Two contents in `Replication`.
* Two or three calls of a scheme at a time, so every two (three) of them overlap or
  follow each other in every way; a fault that needs a write, a second write and a
  degraded read fits in three. `MaxCrash`, `MaxMerge`, `MaxRestart` bound stops,
  merges and restarts; the passing runs have at least one of each they are
  about. Servers always may restart. Creating and clearing are not bounded.
* `Connections`: two data servers, one parity server, two programs, two workers per
  pool, one server that stops. Two degraded reads that need each other are the
  smallest cycle of waits; two workers are the least number with which it resolves.
* `LargeCalls`: three chunks of two bytes, so that a range has a first, a middle and
  a last piece, each of which is decoded and copied in two steps. Five good ranges: one to
  three pieces, whole and in part, from the first chunk and from the last. Five others:
  one that crosses a border from a later chunk, and four that leave the stripe.
* `ClientPrograms`: a file of three bytes, one or two ranges of one or two bytes, one or
  two rounds: ranges that are apart, that overlap, and files too short for a later
  program; traces of up to four lines. `MCClient` chooses between the programs and
  the calls as `MCLibraries` does.
* `ReedSolomon`: 4 data and 2 parity shards as in `config.xml`, and two shapes in
  which a swap of rows and more parity than data occur; bytes 0 and 200, whose
  products reach both copies of the table of exponents; every set of lost shards.
* `Rpc`: three threads and three calls per client object, the least for which an answer
  is handed over while a third thread may take it; the procedures one can name.
  `MCLibraries` chooses for a behaviour whether it is one of the erasure code or one
  of the remote calls: they share nothing, and one run checks both.
* Symmetry is declared over calls, data servers, parts and contents where no
  definition tells them apart, never over parity servers or replicas (the first of
  which is special), and never where liveness is checked.
* `CHECK_DEADLOCK FALSE` only in the runs of `Replication` and `Connections`: in the
  first the file is not cleared, so when all the calls have been made nothing is
  left to do; in the second both programs may have ended.

### 3.2 Fairness

Safety runs assume none. `LiveSpec` of `FullOverwrite` adds weak fairness of
`Serve(c)`, the next step of the threads that serve call `c`; `LiveSpec` of
`Connections` that of `CallStep(c)`, the next step of the threads and workers busy
with call `c`. They run until they end or block: a thread is scheduled, a request
that was sent is received or its connection breaks, a free worker takes the
connection at the head of the queue. `Rpc` has weak fairness of every thread's next
step and of the server's: mutexes are granted, and requests are processed while it
runs. None assumes that clients call nor that
stopped servers come back, so `CallsEnd` is a statement about the joins of the
handlers, in `Connections` about the pools too, and `RpcCallsEnd` about wake-ups.

## 4. The proofs

Machine-checked by TLAPS, for every value of the constants: any number of servers, parts,
contents, calls, threads, stops, merges and restarts.

* `StripeTheorems!DecodeEncode`: decoding with a consistent parity returns the
  missing content. The lemmas next to it give the types of the operators and what
  adding a delta does to an encoding (`EncodeDelta`).
* `FullOverwriteProofs`, with `Discipline = "stripe"`: `InductiveInvariant`, `Consistent`
  (`[]StripeConsistent`) and `Refinement` (`Spec => ImplementsBlockStore`: every step of
  the handlers, the delta writes, the repairs and the stops is a step of a register or
  a stutter). `TypeCorrect` needs no discipline.
* `DeltaLogProofs`, for careful callers (`Discipline = "apart"`, restarts with empty
  vectors, no second creation): `LogInvariant`, `StripeUnmergedAlways`, and `Refinement`
  if besides no degraded read of FullLog follows a merge (`CarefulReads`). `TypeCorrect`,
  with the places of all records, needs no discipline.
* `DabriProofs`, for ranges that do not overlap and a zeroed `data_site` (`Careful`):
  `DabriInvariant`, `StripeCurrentAlways`, `BackDefinedAlways`, `ReadsReturnLastAlways`.
  `TypeCorrect` needs neither.
* `ReplicationProofs`: `ReplicationInvariant`, `CopiesAgreeAlways`, under both schemes;
  `AnswersLastAlways` and `Refinement` with `ReadWhen = "logged"`.
* `ConnectionsProofs`, with `Discipline = "careful"`: `ConnectionsInvariant`,
  `AnswersMatchAlways`, `DeathsCascadeAlways` (an action property).
* `ClientProofs`: `GoodTiles` (the pieces `getChunkServer` returns for a good range
  tile it), `PiecesTiled`; with `Patient`, `PatientInvariant`, `FileIsImageAlways`,
  `ReadsCurrentBytesAlways`. `ProgramsInvariant` and `NoFalseAlarmAlways`, for the programs
  over ranges with any file and arguments.
* `LibraryProofs`: `ErasureInvariant`, `ErasureTypes`, `HalvesAgreeAlways`, `NeverSingularAlways`,
  `DecodeRestoresAlways`, `DeltaUpdatesParityAlways`, for every shape and over every field whose
  elements are their own negatives (`FieldLaws`), and `FieldFromGenerator`; `RpcInvariant`,
  `OwnAnswersAlways`, `NobodyForgottenAlways`, for both clients.

The assumptions are the ones the modules declare for their constants
(`StripeAssumption`, `FullOverwriteAssumption`, `DeltaLogAssumption`, `DabriAssumption`,
`ReplicationAssumption`, `ConnectionsAssumption`, `LargeCallsAssumption`,
`ReedSolomonAssumption`, `RpcAssumption`), which only say that servers are different and constants have their
types, and `NoReqAssumption` (`NoReq` is no request). What callers must do (section 2.2)
is a hypothesis of each theorem that needs it.

All the arguments have one shape. The property is not inductive, the invariant of the
component is; it is a conjunction of named parts, in the component's module, and the run
of the component checks it. The proof has a lemma for each part, or for each action,
with a step per action or per part under it, and puts them together.

**`FullOverwrite`.** `StripeConsistent` is not inductive: that a part is at rest says
nothing about what its last write was doing a step before. `IndInv` adds

* `Exclusion`: active calls are compatible, so a part has one writer;
* `QuietUnlessLive`, `Creating`: while the file is created or cleared no call
  is under way, no part is torn, and the servers already reached have their chunk of
  the image;
* `LegsInPlace`: a writing handler has a leg for its own chunk and for every
  parity server, and an answered call has none;
* `WritesInPlace`: on every parity server the part is the encoding of a row in
  which the written part is old or new according to the leg, and a parity server
  between its read and its write has read the present content;
* `OrphansTorn`: requests of a cut write reach only torn parts;
* `RepairsInPlace`: what a degraded read has collected is still what the servers have,
  the parities of a torn part excepted.

**`Replication`.** `CopiesAgree` says nothing of a part that is being written, was
cut, or is half merged. `RepInv` adds

* `Exclusion`, `LegsInPlace`: as above;
* `IndexInLog`: an entry of a vector points at a record of the log of its server;
* `WritesInPlace`: a copy of a part that is being written is old or new according
  to its leg;
* `LateTorn`: requests of a primary that has stopped reach only torn parts;
* `FreshAlone`: of the part that a repairing write is making whole again, no late
  request is left;
* `MergeInPlace`: what a half-done merge has copied into `user_data.bin`.

For `Refinement` the register of a part is the copy of the primary, seen through its vector
(`Latest`), and a part is damaged while it is `torn`. A write takes effect when `writeData`
has overwritten that copy or stored the entry of the log; `RepInv` gives that a degraded
read of any other part finds the same content at the replicas, and that a replay or the
end of a merge changes no `Latest`. A write that is answered may take its part out of `damaged`:
under Replication a whole write puts all the copies right again, a delta of the other
schemes does not.

**`DeltaLog`.** A part at rest must be right on every parity server although `parity.bin`,
the log and the vector of offsets are changed one after another. `LogInv` adds

* `IndexInLog`: an entry of a vector is the place of a record in its log;
* `DataVectors`, `NothingLeft`: ParityLog has no vectors of data; no vector survives
  the file it belongs to;
* `Settled`: P0 plus the indexed deltas of a part at rest is the encoding of its row, and
  after a merge that has replayed it P0 alone is;
* `WritesInPlace`: what a write has logged and not indexed, and for how much of its
  `push_back` it has read the size, is its own delta on top of the old row;
* `RepairsInPlace`: what a degraded read has collected is still what the servers have;
* `RepairsUnmerged`: a degraded read asked for before the first merge of FullLog also
  ends before it. (After that merge the deltas are added twice: run `fulllog_merge`.
  `merges` counts, so that the invariant can say so.)

**`Dabri`.** A content may be in `data.bin`, in a log, or on the parities as D0 and DR.
`DabriInv` says for every part of every data server: nothing is left of it anywhere if no
range that contains it was updated (`Untouched`); every parity server has a record once
its first update was answered (`Recorded`: this is why a later update need not send
D0); where its contents are when no write changes it (`AtRest`), and what a first or a
later write has done so far (`FirstUnderway`, `LaterUnderway`). `MergedClean` is the same
for the servers a merge has been to.

**`Connections`.** An answer is matched to a request by its position in a stream.
`ConnInv` says why position is enough: calls in progress use different stubs
(`CallsApart`), a stub is open for the thread that opened it (`StubOfThread`,
`ThreadHasStub`), a connection carries one request in one place (`OneRequest`), and the
threads a handler starts have not run before (`HandledOnce`: without it a request served
twice would send twice over one stub).

**`LargeCalls`.** The calls of one program return before their threads have done
anything. `FileBehindImage` says that a byte of a chunk which is not yet what the program
wrote is covered by a writing thread on its way that brings it; `AnswersFilled`
that every vector of a read holds the content of its piece as far as its thread has read
it, and zeros behind that; no write can change the content under a patient program.
`CopiesCurrent` says the same of what has been copied: an answer, once resized, keeps its
length, so that a copy that was begun ends with the piece, and a thread that had ended
when the call looked has left nothing to fill. The place of a byte in the file is a sum of lengths of
pieces; `Tiles` and the lemmas `IntervalsTile`, `OnePlace` and `BeforeIs` relate it to the
place in the chunk.

**`ReedSolomon`.** `FieldLaws` is a hypothesis of its theorems, and not an empty one:
`FieldFromGenerator` derives it from `GeneratorLaws`, in which two of three elements are
always the generator or a bit, so that TLC can try them all on the tables of `Galois.cpp`
(`TablesMakeField`). The argument has three parts.

* A row of the work matrix is an equation, its left half over `x` and its right half over
  `y`. Swapping, scaling and adding rows keeps the pairs that solve them all
  (`SameSolutions`; the lemmas `SwapSolves`, `ScaleSolves`, `EliminateSolves`), and at
  first these are the pairs with `sub * x = y`. So when the left half is the identity
  (`Reduced`, `Cleared`) the right half takes `y` to `x` (`InverseSolves`). A column without
  a pivot would give a vector other than zero that `sub` takes to zero (`NoPivot`).
* No such vector exists (`Invertible`). A row of the Vandermonde matrix times `c` is the
  value of a polynomial with coefficients `c`; division by `x - a` (`QuotientExists`) and
  counting show that with as many roots as coefficients it is zero (`Roots`). The coding
  matrix is the Vandermonde matrix times an invertible one (`Systematic`), so any `data` of
  its rows are independent (`AnyRows`), and no coefficient of a parity shard is 0
  (`ParityUsesData`).
* `Decoding`: shards that are present are as encoded, a parity shard is its row times the
  data, and what is inverted are the rows of the shards in use. So the inverse takes
  those shards to the data, and the coding matrix the data to the parity.

Sums are recursive functions; what is needed of them (`SumAdd`, `SumScale`, `SumSwap` ...) is proved
by a least counterexample, as `LeastNumber` allows.

**`ClientPrograms`.** `ProgramsInv` says where the numbered files are. While a program
writes, the last `num` files it has written are in HWDFS as far as they go, and when it has
ended these are the files of its last round (`LastRoundWritten`). A write puts file `k` at
range `(k - 1) % num`: files that follow each other by less than `num` go to different ranges
(`RangesDiffer`), which are apart if `size` is at most a step (`RangesApart`), so it overwrites
none of them; the `i`-th file of a round goes to range `i` (`RangeInRound`), where the programs
that read look for it. A file that was there before, or was left half made, stays as it is
and is read again the same way, so both sides of a comparison have the same bytes unless the
file is too short.

**`Rpc`.** Requests and answers go over one connection, and threads read each other's.
`RpcInv` adds

* `OneCallAtATime`: the plain client has no message but that of the one call;
* `MutexHeld`: between `LockRead` and the end or the hand-over a thread holds the
  mutex, and whoever reads has found nothing pending;
* `CallsNumbered`, `OwnersRegistered`: running calls are registered under different
  numbers, and messages are of registered calls. In a client that was marked bad
  messages of calls that have left remain, but then nobody reads them any more;
* `MessagesFit`: what is on the way is what the thread asked, or the answer to it;
* `OneMessage`: a call that was sent has one message, in one place, while the server
  runs: with `OwnersRegistered`, a thread that finds its own number has its own answer;
* `SomebodyAwake`: a thread that sleeps has no answer pending for it, the client is not
  bad, and another call is awake or has been notified. The last to leave wakes the latest
  of the registered calls (`LatestExists`), and a woken thread that finds another's answer
  passes the wake-up on.

Only model-checked: liveness under fairness (`CallsEnd`, `RpcCallsEnd`), which the prover
does not do; `TablesGenerated`, `TablesMakeField` and `LoopsAgree`, which are about the numbers in
`Galois.cpp` and the loops over them and need `Bitwise`. `TracesReplayed` is about what loops over a trace compute, and stays with TLC:
induction over a sequence is out of reach, because the induction theorems of the library take
an operator. Where a number suffices, a least counterexample does the same (`Least`,
`LatestExists`, by `WFMin` for the natural numbers), and the sums of `LargeCalls` and the latest
call of `Rpc` are treated so. `BothEndsAgree` is about finitely many procedures and
structures, which TLC enumerates completely.

## 5. What is not modelled, and why

* The comparisons, copies and printers of the generated structures, and the null and
  multiplexing handlers: HWDFS uses none of them. Bytes of numbers and strings on the
  wire are the library's.
* Bytes of two threads mixed in one stream, and what `TBufferedTransport` keeps of
  a connection that was closed: `Connections` mixes whole messages.
* Exceptions of calls that a handler makes itself instead of in a `boost::thread`
  (degraded reads of `DABRI` and `Replication`): the processor answers them with an
  exception and the stub stays open.
* Memory outside arrays: `Manage::clear` of a replicated file, parts of a
  replicated file beyond `part_num`, freed vectors of the logs while they are read.
* More than 128 data shards: `Galois::exp` takes the number of a data shard as a signed
  `char`, negative from 128 on, and would index its table from before the beginning.
  `ReedSolomonAssumption` excludes it.
* What a vector returns that is resized a second time, by a late answer of an earlier
  call, while it is copied: freed memory, for which `CopyByte` takes `Zero`.
* Requests that are not whole parts (the schemes truncate `length / part`).
* Merges are asked for by `Manage::merge`, which no command of `Client.cpp`
  calls; degraded reads of types D0 and P0 are asked for by no client. The first
  are modelled because the interface offers them, the second are not.
* Stops in the middle of a call under the logging schemes and DABRI.
* The branches of `MetaManage` for replication, and its merge and clear: they call
  `Manage` and do nothing else.
* The table of schemes in `SchemeFactory.cpp`, the configuration, the clock: no
  state, or none a property is about. A trace with a line of 100 characters is cut
  there; the model has that (`Get`), no property speaks of it.
* `robin-map` and `tiny` are vendored: a map and an XML reader, used for the first
  updates of DABRI and for `config.xml`. They are more than half of the repository's lines, tests included.

## 6. Plan

Done: all the components that hold state, and for each of the schemes, for
`Connections`, `LargeCalls`, `ClientPrograms`, `ReedSolomon` and `Rpc` the inductive invariant and the safety properties of its
run; the refinement of `BlockStore` by every scheme but DABRI.

Next, most important first:

1. Stops under `DABRI` and the logging schemes, composed with the exceptions of calls that
   a handler makes itself, and the invariants extended by what a stop leaves.
2. `Dabri` as an implementation of `BlockStore`, where a request for a range takes effect part by part.
3. `TracesReplayed` for traces of any length.
