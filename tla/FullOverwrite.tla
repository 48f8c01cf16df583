--------------------------- MODULE FullOverwrite ---------------------------
(***************************************************************************)
(* The default update scheme, class Scheme (scheme/src/Scheme.cpp), run by *)
(* the data servers (DataServer.cpp) and the parity servers                *)
(* (ParityServer.cpp) on the calls of clients (Manage.cpp).                *)
(*                                                                         *)
(* A write is served by a handler thread of the data server: it reads the  *)
(* old content, starts one thread that overwrites its own chunk and one    *)
(* thread per parity server that sends the scaled delta, and joins them    *)
(* all.  A parity server reads its part, adds the delta and writes it      *)
(* back, in two file operations with no lock.  A degraded read asks every  *)
(* other server for its shard and decodes.                                 *)
(*                                                                         *)
(* A call is made once (one detached thread of a client each), so a call   *)
(* identity is also the identity of the handler that serves it and of the  *)
(* requests that handler sends.  Requests are single parts: the scheme     *)
(* treats the bytes of a request independently.                            *)
(*                                                                         *)
(* A server may stop between any two steps and be started again; the files *)
(* survive.  A handler thread that finds a parity server stopped, or loses *)
(* the connection, dies of the exception Thrift throws in a boost::thread, *)
(* and takes its whole process with it.                                    *)
(***************************************************************************)

EXTENDS Stripe, Naturals

CONSTANTS
  Calls,        \* identities of the calls, one per sendDataToServer of a client
  NoReq,        \* the request of a call that has not been made
  Images,       \* the contents a client may create the file with
  Discipline,   \* which updates callers let overlap: "stripe" or "server"
  MaxCrash      \* bound on the number of spontaneous stops

ASSUME FullOverwriteAssumption ==
  /\ Images \subseteq [Data -> [Parts -> Value]]
  /\ Discipline \in {"stripe", "server"}
  /\ MaxCrash \in Nat

VARIABLES
  up,        \* which server processes run
  crashes,   \* number of spontaneous stops so far
  phase,     \* what the clients know of the file: absent, creating, live, clearing
  made,      \* servers that hold a user_data.bin
  image,     \* the content being created
  dataBin,   \* user_data.bin of the data servers, by part
  parBin,    \* user_data.bin of the parity servers, by part
  pc,        \* of every call: idle, called, run, done, failed
  req,       \* of every call: the Request
  leg,       \* of the handler of a call: the state of its thread for each server
  shard,     \* data contents the handler holds: d(r-1), or the shards it decodes
  seen,      \* parity contents read for a call: p(r-1) at the parity server,
             \* or the parity shards of a degraded read
  result,    \* the content a call returned, scaled by its data server
  torn       \* history: parts on which a write was cut since the creation

calls == <<pc, req, leg, shard, seen, result>>
files == <<dataBin, parBin>>
life  == <<phase, made, image>>
vars  == <<up, crashes, life, files, calls, torn>>

Legs    == {"none", "todo", "sent", "read", "done", "lost"}

EmptyImage  == [k \in Data |-> [p \in Parts |-> {}]]
EmptyParity == [i \in Parity |-> [p \in Parts |-> {}]]
NoShard     == [k \in Data |-> {}]
NoSeen      == [i \in Parity |-> {}]
NoLeg       == [s \in Server |-> "none"]

\* The contents of part p on the data servers.
Row(p) == [k \in Data |-> dataBin[k][p]]

\* The delta every parity server receives for the write of call c.
Delta(c) == Scale(req[c].srv, req[c].val (+) shard[c][req[c].srv])

Active(c)   == pc[c] \in {"called", "run"}
Running(c)  == pc[c] = "run" /\ up[req[c].srv]
InFlight(c) == \E s \in Server : leg[c][s] \in {"sent", "read"}

TypeOK ==
  /\ up \in [Server -> BOOLEAN]
  /\ crashes \in Nat
  /\ phase \in {"absent", "creating", "live", "clearing"}
  /\ made \in SUBSET Server
  /\ image \in [Data -> [Parts -> Value]]
  /\ dataBin \in [Data -> [Parts -> Value]]
  /\ parBin \in [Parity -> [Parts -> ParityValue]]
  /\ pc \in [Calls -> {"idle", "called", "run", "done", "failed"}]
  /\ req \in [Calls -> Request \cup {NoReq}]
  /\ leg \in [Calls -> [Server -> Legs]]
  /\ shard \in [Calls -> [Data -> Value]]
  /\ seen \in [Calls -> [Parity -> ParityValue]]
  /\ result \in [Calls -> ParityValue]
  /\ torn \in SUBSET Parts

Init ==
  /\ up = [s \in Server |-> TRUE]
  /\ crashes = 0
  /\ phase = "absent"
  /\ made = {}
  /\ image = EmptyImage
  /\ dataBin = EmptyImage
  /\ parBin = EmptyParity
  /\ pc = [c \in Calls |-> "idle"]
  /\ req = [c \in Calls |-> NoReq]
  /\ leg = [c \in Calls |-> NoLeg]
  /\ shard = [c \in Calls |-> NoShard]
  /\ seen = [c \in Calls |-> NoSeen]
  /\ result = [c \in Calls |-> {}]
  /\ torn = {}

-----------------------------------------------------------------------------
(***************************************************************************)
(* Creating and clearing the file.  The client encodes the parity chunks   *)
(* and sends each server its chunk.  A client that finds a server stopped  *)
(* dies; the next run sends the same data again, which is the same step    *)
(* made later.  Clients create and clear only while nothing else runs.     *)
(***************************************************************************)
Quiet == \A c \in Calls : ~Active(c) /\ ~InFlight(c)

StartCreate ==
  /\ phase = "absent"
  /\ Quiet
  /\ phase' = "creating"
  /\ image' \in Images
  /\ torn' = {}
  /\ UNCHANGED <<up, crashes, made, files, calls>>

\* Scheme::create at server s: the whole chunk is written.
CreateAt(s) ==
  /\ phase = "creating"
  /\ up[s]
  /\ s \notin made
  /\ made' = made \cup {s}
  /\ IF s \in Data
     THEN /\ dataBin' = [dataBin EXCEPT ![s] = image[s]]
          /\ UNCHANGED parBin
     ELSE /\ parBin' = [parBin EXCEPT ![s] =
                          [p \in Parts |-> Encode([k \in Data |-> image[k][p]])]]
          /\ UNCHANGED dataBin
  /\ UNCHANGED <<up, crashes, phase, image, calls, torn>>

EndCreate ==
  /\ phase = "creating"
  /\ made = Server
  /\ phase' = "live"
  /\ image' = EmptyImage
  /\ UNCHANGED <<up, crashes, made, files, calls, torn>>

StartClear ==
  /\ phase = "live"
  /\ Quiet
  /\ phase' = "clearing"
  /\ UNCHANGED <<up, crashes, made, image, files, calls, torn>>

\* Scheme::clear at server s: user_data.bin is removed.
ClearAt(s) ==
  /\ phase = "clearing"
  /\ up[s]
  /\ s \in made
  /\ made' = made \ {s}
  /\ IF s \in Data
     THEN /\ dataBin' = [dataBin EXCEPT ![s] = [p \in Parts |-> {}]]
          /\ UNCHANGED parBin
     ELSE /\ parBin' = [parBin EXCEPT ![s] = [p \in Parts |-> {}]]
          /\ UNCHANGED dataBin
  /\ UNCHANGED <<up, crashes, phase, image, calls, torn>>

EndClear ==
  /\ phase = "clearing"
  /\ made = {}
  /\ phase' = "absent"
  /\ UNCHANGED <<up, crashes, made, image, files, calls, torn>>

-----------------------------------------------------------------------------
(***************************************************************************)
(* Calls of clients.                                                       *)
(*                                                                         *)
(* The handler threads of one data server share one connection to each     *)
(* other server (setting->clients[i]) with no lock, so the model admits at *)
(* most one write or degraded read at a data server at a time.  Discipline *)
(* says what callers do about different data servers: with "stripe" they   *)
(* also keep writes and degraded reads of one part number apart, with      *)
(* "server" they do not.                                                   *)
(***************************************************************************)
Compatible(r, s) ==
  \/ "read" \in {r.op, s.op}
  \/ /\ r.srv # s.srv
     /\ \/ Discipline = "server"
        \/ r.part # s.part
        \/ {r.op, s.op} = {"repair"}

\* sendDataToServer of a client: open and send.
Call(c, r) ==
  /\ phase = "live"
  /\ pc[c] = "idle"
  /\ \A d \in Calls : Active(d) => Compatible(r, req[d])
  /\ pc' = [pc EXCEPT ![c] = "called"]
  /\ req' = [req EXCEPT ![c] = r]
  /\ UNCHANGED <<up, crashes, life, files, leg, shard, seen, result, torn>>

\* transport->open() throws: the data server does not run.
CallFails(c) ==
  /\ pc[c] = "called"
  /\ ~up[req[c].srv]
  /\ pc' = [pc EXCEPT ![c] = "failed"]
  /\ UNCHANGED <<up, crashes, life, files, req, leg, shard, seen, result, torn>>

\* Scheme::readData: one read of the file, and the answer.
ServeRead(c) ==
  /\ pc[c] = "called"
  /\ req[c].op = "read"
  /\ up[req[c].srv]
  /\ pc' = [pc EXCEPT ![c] = "done"]
  /\ result' = [result EXCEPT ![c] =
                  Scale(req[c].srv, dataBin[req[c].srv][req[c].part])]
  /\ UNCHANGED <<up, crashes, life, files, req, leg, shard, seen, torn>>

-----------------------------------------------------------------------------
(***************************************************************************)
(* Scheme::writeData at the data server.                                   *)
(***************************************************************************)

\* The handler reads d(r-1), computes the deltas and starts its threads.
AcceptWrite(c) ==
  /\ pc[c] = "called"
  /\ req[c].op = "write"
  /\ up[req[c].srv]
  /\ pc' = [pc EXCEPT ![c] = "run"]
  /\ shard' = [shard EXCEPT ![c][req[c].srv] = dataBin[req[c].srv][req[c].part]]
  /\ leg' = [leg EXCEPT ![c] =
               [s \in Server |-> IF s \in Parity \cup {req[c].srv}
                                 THEN "todo" ELSE "none"]]
  /\ UNCHANGED <<up, crashes, life, files, req, seen, result, torn>>

\* The thread that overwrites the chunk of the data server itself.
WriteChunk(c) ==
  /\ Running(c)
  /\ req[c].op = "write"
  /\ leg[c][req[c].srv] = "todo"
  /\ dataBin' = [dataBin EXCEPT ![req[c].srv][req[c].part] = req[c].val]
  /\ leg' = [leg EXCEPT ![c][req[c].srv] = "done"]
  /\ UNCHANGED <<up, crashes, life, parBin, pc, req, shard, seen, result, torn>>

\* Faulty variant: the threads are started and not joined.
ReplyWriteNoJoin(c) ==
  /\ Running(c)
  /\ req[c].op = "write"
  /\ leg[c][req[c].srv] = "done"
  /\ pc' = [pc EXCEPT ![c] = "done"]
  /\ UNCHANGED <<up, crashes, life, files, req, leg, shard, seen, result, torn>>

\* The join of all the threads, and the answer.
ReplyWrite(c) ==
  /\ Running(c)
  /\ req[c].op = "write"
  /\ \A s \in Parity \cup {req[c].srv} : leg[c][s] = "done"
  /\ pc' = [pc EXCEPT ![c] = "done"]
  /\ leg' = [leg EXCEPT ![c] = NoLeg]
  /\ shard' = [shard EXCEPT ![c] = NoShard]
  /\ UNCHANGED <<up, crashes, life, files, req, seen, result, torn>>

-----------------------------------------------------------------------------
(***************************************************************************)
(* Scheme::degrade_read at the data server whose chunk is taken as lost.   *)
(***************************************************************************)
AcceptRepair(c) ==
  /\ pc[c] = "called"
  /\ req[c].op = "repair"
  /\ up[req[c].srv]
  /\ pc' = [pc EXCEPT ![c] = "run"]
  /\ leg' = [leg EXCEPT ![c] =
               [s \in Server |-> IF s = req[c].srv THEN "none" ELSE "todo"]]
  /\ UNCHANGED <<up, crashes, life, files, req, shard, seen, result, torn>>

\* readData or readParity at server s, for the degraded read of call c.
ShardRead(c, s) ==
  /\ leg[c][s] = "sent"
  /\ req[c].op = "repair"
  /\ leg' = [leg EXCEPT ![c][s] = "done"]
  /\ IF s \in Data
     THEN /\ shard' = [shard EXCEPT ![c][s] = dataBin[s][req[c].part]]
          /\ UNCHANGED seen
     ELSE /\ seen' = [seen EXCEPT ![c][s] = parBin[s][req[c].part]]
          /\ UNCHANGED shard
  /\ UNCHANGED <<up, crashes, life, files, pc, req, result, torn>>

\* The join of all the threads, decodeMissing, and the answer.
ReplyRepair(c) ==
  /\ Running(c)
  /\ req[c].op = "repair"
  /\ \A s \in Server \ {req[c].srv} : leg[c][s] = "done"
  /\ pc' = [pc EXCEPT ![c] = "done"]
  /\ result' = [result EXCEPT ![c] =
                  Decode(req[c].srv, shard[c], seen[c][FirstParity])]
  /\ leg' = [leg EXCEPT ![c] = NoLeg]
  /\ shard' = [shard EXCEPT ![c] = NoShard]
  /\ seen' = [seen EXCEPT ![c] = NoSeen]
  /\ UNCHANGED <<up, crashes, life, files, req, torn>>

-----------------------------------------------------------------------------
(***************************************************************************)
(* Manage::sendDataToServer from a data server, and the parity servers.    *)
(***************************************************************************)

\* A thread of the handler opens its connection and sends its request.
Send(c, s) ==
  /\ Running(c)
  /\ s # req[c].srv
  /\ leg[c][s] = "todo"
  /\ up[s]
  /\ leg' = [leg EXCEPT ![c][s] = "sent"]
  /\ UNCHANGED <<up, crashes, life, files, pc, req, shard, seen, result, torn>>

\* Scheme::writeParity at parity server i: first it reads p(r-1) ...
ParityRead(c, i) ==
  /\ leg[c][i] = "sent"
  /\ req[c].op = "write"
  /\ leg' = [leg EXCEPT ![c][i] = "read"]
  /\ seen' = [seen EXCEPT ![c][i] = parBin[i][req[c].part]]
  /\ UNCHANGED <<up, crashes, life, files, pc, req, shard, result, torn>>

\* Faulty variant: the delta replaces the parity instead of being added to it.
ParityReplace(c, i) ==
  /\ leg[c][i] = "read"
  /\ leg' = [leg EXCEPT ![c][i] = "done"]
  /\ parBin' = [parBin EXCEPT ![i][req[c].part] = Delta(c)]
  /\ seen' = [seen EXCEPT ![c][i] = {}]
  /\ UNCHANGED <<up, crashes, life, dataBin, pc, req, shard, result, torn>>

\* ... then it adds the delta, writes the part back and answers.
ParityWrite(c, i) ==
  /\ leg[c][i] = "read"
  /\ leg' = [leg EXCEPT ![c][i] = "done"]
  /\ parBin' = [parBin EXCEPT ![i][req[c].part] = seen[c][i] (+) Delta(c)]
  /\ seen' = [seen EXCEPT ![c][i] = {}]
  /\ UNCHANGED <<up, crashes, life, dataBin, pc, req, shard, result, torn>>

-----------------------------------------------------------------------------
(***************************************************************************)
(* Stops and starts of the server processes.                               *)
(***************************************************************************)

\* A write whose stop now may leave the stripe inconsistent: something has
\* reached a file or is on its way, and not everything has been written.
Cut(c) ==
  /\ pc[c] = "run"
  /\ req[c].op = "write"
  /\ \E s \in Parity \cup {req[c].srv} : leg[c][s] \in {"sent", "read", "done"}
  /\ \E s \in Parity \cup {req[c].srv} : leg[c][s] # "done"

\* Process s ends: the calls it serves fail, the requests it works on for
\* others are lost.  Requests its own handlers have sent are still served.
Terminate(s) ==
  /\ up' = [up EXCEPT ![s] = FALSE]
  /\ pc' = [c \in Calls |-> IF Active(c) /\ req[c].srv = s THEN "failed" ELSE pc[c]]
  /\ leg' = [c \in Calls |-> IF leg[c][s] \in {"sent", "read"}
                             THEN [leg[c] EXCEPT ![s] = "lost"] ELSE leg[c]]
  /\ torn' = torn \cup {req[c].part : c \in {d \in Calls : Cut(d) /\ req[d].srv = s}}
  /\ UNCHANGED <<life, files, req, shard, seen, result>>

\* transport->open() throws in a boost::thread of the handler, or the
\* connection breaks while the thread waits for the answer: nothing catches
\* the exception and the data server that waits terminates.
SendFails(c, s) ==
  /\ Running(c)
  /\ s # req[c].srv
  /\ leg[c][s] = "todo"
  /\ ~up[s]
  /\ Terminate(req[c].srv)
  /\ UNCHANGED crashes

\* Faulty variant: the exception ends the sending thread without a result and
\* the handler keeps waiting for it.
LegLostHangs(c, s) ==
  /\ Running(c)
  /\ leg[c][s] = "lost"
  /\ UNCHANGED vars

LegLost(c, s) ==
  /\ Running(c)
  /\ leg[c][s] = "lost"
  /\ Terminate(req[c].srv)
  /\ UNCHANGED crashes

\* A stop for any other reason.
Crash(s) ==
  /\ up[s]
  /\ crashes < MaxCrash
  /\ crashes' = crashes + 1
  /\ Terminate(s)

\* The server program is started again; all it knows is in its files.
Restart(s) ==
  /\ ~up[s]
  /\ up' = [up EXCEPT ![s] = TRUE]
  /\ UNCHANGED <<crashes, life, files, calls, torn>>

-----------------------------------------------------------------------------
\* One step of the code serving call c.
Serve(c) ==
  \/ CallFails(c) \/ ServeRead(c)
  \/ AcceptWrite(c) \/ WriteChunk(c) \/ ReplyWrite(c)
  \/ AcceptRepair(c) \/ ReplyRepair(c)
  \/ \E s \in Server : \/ Send(c, s) \/ SendFails(c, s) \/ LegLost(c, s)
                       \/ ShardRead(c, s)
  \/ \E i \in Parity : ParityRead(c, i) \/ ParityWrite(c, i)

Manage ==
  \/ StartCreate \/ EndCreate \/ StartClear \/ EndClear
  \/ \E s \in Server : CreateAt(s) \/ ClearAt(s)

Next ==
  \/ Manage
  \/ \E c \in Calls : Serve(c) \/ \E r \in Request : Call(c, r)
  \/ \E s \in Server : Crash(s) \/ Restart(s)

Spec == Init /\ [][Next]_vars

\* The threads of a server run until they end or block, and a request that
\* was sent is received or its connection breaks.  Nothing obliges a client to
\* call, nor a stopped server to be started again.
LiveSpec == Spec /\ \A c \in Calls : WF_vars(Serve(c))

-----------------------------------------------------------------------------
(***************************************************************************)
(* Properties.                                                             *)
(***************************************************************************)

\* The writes between AcceptWrite and ReplyWrite.
Writing(c) == pc[c] = "run" /\ req[c].op = "write"

\* The parity of every part that no write is changing, and on which no write
\* was cut since the file was created, is the encoding of its data, on every
\* parity server.  This is what the two-step read-add-write of writeParity
\* needs its callers for: a delta lost there shows only at the next decode.
StripeConsistent ==
  phase = "live" =>
    \A p \in Parts :
      \/ p \in torn
      \/ \E c \in Calls : Writing(c) /\ req[c].part = p
      \/ \A i \in Parity : parBin[i][p] = Encode(Row(p))

\* Every call made is answered or fails: the joins of writeData and
\* degrade_read never wait for a server that has stopped.
CallsEnd == \A c \in Calls : Active(c) ~> ~Active(c)

\* A single server that stops takes no other process with it: the promise of
\* "high reliability ... through backup and erasure coding" (README.md).
ToleratesOneStop ==
  crashes <= 1 => \A s, t \in Server : ~up[s] /\ ~up[t] => s = t

\* The scheme implements the registers of BlockStore: a write takes effect
\* when the data server has overwritten its chunk, reads and degraded reads
\* of all other parts return the last value written.
AbsStatus ==
  [c \in Calls |->
     IF pc[c] # "run" THEN pc[c]
     ELSE IF req[c].op = "write" /\ leg[c][req[c].srv] = "done"
          THEN "effected" ELSE "called"]

AbsStore   == IF phase = "live" THEN dataBin ELSE EmptyImage
AbsDamaged == IF phase = "live" THEN torn ELSE {}

Abs == INSTANCE BlockStore WITH
  status  <- AbsStatus,
  request <- req,
  answer  <- result,
  store   <- AbsStore,
  damaged <- AbsDamaged,
  open    <- phase = "live"

\* Every behaviour of the scheme is a behaviour of the registers.
ImplementsBlockStore == Abs!AbsSpec

-----------------------------------------------------------------------------
(***************************************************************************)
(* The inductive invariant behind StripeConsistent, for callers that keep  *)
(* to the "stripe" discipline.                                             *)
(***************************************************************************)

\* The content of the part that the write of call c changes, as far as the
\* work for server s has come, and the row of the stripe with that content.
Held(c, s)     == IF leg[c][s] = "done" THEN req[c].val ELSE shard[c][req[c].srv]
RowHeld(c, s)  == [Row(req[c].part) EXCEPT ![req[c].srv] = Held(c, s)]

RequestsKnown ==
  \A c \in Calls : pc[c] # "idle" \/ InFlight(c) => req[c] \in Request

Exclusion ==
  \A c, d \in Calls :
    c # d /\ Active(c) /\ Active(d) => Compatible(req[c], req[d])

QuietUnlessLive == phase # "live" => Quiet

LegsInPlace ==
  \A c \in Calls :
    /\ pc[c] \in {"idle", "called", "done"} => leg[c] = NoLeg
    /\ pc[c] = "run" => req[c].op # "read"
    /\ Writing(c) => /\ leg[c][req[c].srv] \in {"todo", "done"}
                     /\ \A i \in Parity : leg[c][i] # "none"
                     /\ \A s \in Data \ {req[c].srv} : leg[c][s] = "none"
    /\ \A s \in Server :
         leg[c][s] = "read" => req[c].op = "write" /\ s \in Parity

\* What a cut write still has under way can only reach a torn part.
OrphansTorn ==
  \A c \in Calls :
    pc[c] = "failed" /\ req[c].op = "write" /\ InFlight(c) => req[c].part \in torn

WritesInPlace ==
  \A c \in Calls : Writing(c) =>
    /\ dataBin[req[c].srv][req[c].part] = Held(c, req[c].srv)
    /\ req[c].part \notin torn =>
         \A i \in Parity :
           /\ parBin[i][req[c].part] = Encode(RowHeld(c, i))
           /\ leg[c][i] = "read" => seen[c][i] = parBin[i][req[c].part]

\* What a degraded read holds so far is still what the servers have; only the
\* requests of a cut write can change a parity under it.
Repairing(c) == pc[c] = "run" /\ req[c].op = "repair"

RepairsInPlace ==
  \A c \in Calls : Repairing(c) =>
    /\ \A k \in Data \ {req[c].srv} :
         leg[c][k] = "done" => shard[c][k] = dataBin[k][req[c].part]
    /\ req[c].part \notin torn =>
         \A i \in Parity : leg[c][i] = "done" => seen[c][i] = parBin[i][req[c].part]

Creating ==
  /\ phase = "absent" => made = {}
  /\ phase = "creating" =>
       /\ torn = {}
       /\ \A s \in made :
            /\ s \in Data => dataBin[s] = image[s]
            /\ s \in Parity =>
                 \A p \in Parts : parBin[s][p] = Encode([k \in Data |-> image[k][p]])

\* Each conjunct is needed to carry the next ones over some step; the last is
\* the invariant to be shown.
IndInv ==
  /\ TypeOK
  /\ RequestsKnown
  /\ Exclusion
  /\ QuietUnlessLive
  /\ LegsInPlace
  /\ OrphansTorn
  /\ WritesInPlace
  /\ RepairsInPlace
  /\ Creating
  /\ StripeConsistent
=============================================================================
