---------------------------- MODULE Connections ----------------------------
(***************************************************************************)
(* What is between Manage::sendDataToServer and a handler: the connections *)
(* and the worker pools.  Every process, client program or server, holds   *)
(* ONE stub per server (RSConfiguration.cpp:89-93), a socket and its       *)
(* generated client, and all its threads share it without a lock: a thread *)
(* opens it, sends, receives and closes it.  A server is a                 *)
(* TThreadPoolServer: a connection waits for a worker and keeps it until   *)
(* it is closed, also while the handler waits for the answers of other     *)
(* servers.  An exception in a sending thread ends its process.            *)
(*                                                                         *)
(* A thread is named <<c, s>>: the one that sends call c of a client       *)
(* program to its server, and those that the handler of the call starts    *)
(* for the other servers s.  A connection is named by the thread that      *)
(* opened it.  A message is the name of the thread whose request it is or  *)
(* answers; the bytes of two messages mixed in one stream are not covered, *)
(* nor is what TBufferedTransport keeps of a closed connection.            *)
(***************************************************************************)
EXTENDS Naturals, FiniteSets, SequencesExt

CONSTANTS
  Data, Parity,                \* the servers
  Programs,                    \* the client programs
  Calls,                       \* identities of calls in progress
  Requests,                    \* for every call, the requests it is used for
  DataWorkers, ParityWorkers,  \* sizes of the pools: total and 16 in the code
  Discipline,                  \* "careful": no two threads use one stub; or "any"
  MaxStop,                     \* bound on the servers that stop on their own
  NoCall, NoSession

Server  == Data \cup Parity
Process == Server \cup Programs
Thread  == Calls \X Server
Request == [prog : Programs, srv : Data, op : {"read", "write", "degrade_read"}]

ASSUME ConnectionsAssumption ==
  /\ Data \cap Parity = {} /\ Programs \cap (Data \cup Parity) = {}
  /\ Requests \in [Calls -> SUBSET Request]
  /\ DataWorkers \in Nat \ {0} /\ ParityWorkers \in Nat \ {0}
  /\ Discipline \in {"careful", "any"}
  /\ MaxStop \in Nat
  /\ NoCall \notin Request /\ NoSession \notin Thread

VARIABLES
  dead,     \* processes that have stopped
  stops,    \* number of servers that have stopped on their own
  req,      \* of a call: its program, server and operation
  thr,      \* of a thread: where it is in sendDataToServer
  got,      \* of a thread: the thread whose answer it has received
  stub,     \* of a process and a server: the connection the stub has open
  link,     \* of a connection: its two ends and what is on the way
  backlog   \* of a server: connections that wait for a worker

vars == <<dead, stops, req, thr, got, stub, link, backlog>>

Top(c)     == <<c, req[c].srv>>
IsTop(t)   == t = Top(t[1])
Owner(t)   == IF IsTop(t) THEN req[t[1]].prog ELSE req[t[1]].srv
StubOf(t)  == stub[Owner(t)][t[2]]

\* The servers a handler calls: Scheme::writeData, degrade_read; readData none.
Targets(r) == IF r.op = "read" THEN {}
              ELSE IF r.op = "write" THEN Parity ELSE Server \ {r.srv}

\* The name of the remote procedure: a degraded read reads the other servers.
Method(t) == LET op == req[t[1]].op
             IN IF ~IsTop(t) /\ op = "degrade_read" THEN "read" ELSE op

\* Faulty variant: the stubs of the server that handles the request are forgotten.
UsesOwn(r) == {<<r.prog, r.srv>>}

\* The stubs that the threads of a request use.
Uses(r) == {<<r.prog, r.srv>>} \cup {<<r.srv, s>> : s \in Targets(r)}

\* side: open, closed by the client, or broken by the end of the server; at: waits
\* for a worker or has one; out, in: requests and answers on the way; busy: the
\* request whose handler waits for other servers.
NoLink == [side |-> "none", at |-> "none", out |-> <<>>, in |-> <<>>, busy |-> {}]

TypeOK ==
  /\ dead \subseteq Process
  /\ stops \in 0..MaxStop
  /\ req \in [Calls -> Request \cup {NoCall}]
  /\ thr \in [Thread -> {"none", "ready", "opened", "waits", "got", "lost", "ended"}]
  /\ got \in [Thread -> Thread \cup {NoCall}]
  /\ stub \in [Process -> [Server -> Thread \cup {NoSession}]]
  /\ link \in [Thread -> [side : {"none", "open", "closed", "broken"},
                          at : {"none", "queued", "served"},
                          out : Seq(Thread), in : Seq(Thread), busy : SUBSET Thread]]
  /\ backlog \in [Server -> Seq(Thread)]

Init ==
  /\ dead = {} /\ stops = 0
  /\ req = [c \in Calls |-> NoCall]
  /\ thr = [t \in Thread |-> "none"]
  /\ got = [t \in Thread |-> NoCall]
  /\ stub = [p \in Process |-> [s \in Server |-> NoSession]]
  /\ link = [t \in Thread |-> NoLink]
  /\ backlog = [s \in Server |-> <<>>]

-----------------------------------------------------------------------------
(***************************************************************************)
(* The calls.                                                              *)
(***************************************************************************)

\* A thread, a connection or a message of the call is left.
Left(c) ==
  \/ \E s \in Server : thr[<<c, s>>] # "none" \/ link[<<c, s>>] # NoLink
  \/ \E l \in Thread :
       \E m \in link[l].busy \cup ToSet(link[l].out \o link[l].in) : m[1] = c

\* The identity of a call is free again when nothing of it is left.
Forget == req' = [c \in Calls |-> IF Left(c)' THEN req[c] ELSE NoCall]

Compatible(r, q) == Discipline = "careful" => Uses(r) \cap Uses(q) = {}

Call(c, r) ==
  /\ req[c] = NoCall
  /\ r.prog \notin dead
  /\ \A d \in Calls : req[d] # NoCall => Compatible(r, req[d])
  /\ req' = [req EXCEPT ![c] = r]
  /\ thr' = [thr EXCEPT ![<<c, r.srv>>] = "ready"]
  /\ UNCHANGED <<dead, stops, got, stub, link, backlog>>

-----------------------------------------------------------------------------
(***************************************************************************)
(* Manage::sendDataToServer, one action per access to the shared stub.     *)
(***************************************************************************)
Runs(t, state) == thr[t] = state /\ Owner(t) \notin dead

\* TSocket::open: nothing happens when the stub is open already.
Open(t) ==
  /\ Runs(t, "ready")
  /\ t[2] \notin dead
  /\ IF StubOf(t) = NoSession
     THEN /\ stub' = [stub EXCEPT ![Owner(t)][t[2]] = t]
          /\ link' = [link EXCEPT ![t].side = "open", ![t].at = "queued"]
          /\ backlog' = [backlog EXCEPT ![t[2]] = Append(@, t)]
     ELSE UNCHANGED <<stub, link, backlog>>
  /\ thr' = [thr EXCEPT ![t] = "opened"]
  /\ UNCHANGED <<dead, stops, req, got>>

Send(t) ==
  /\ Runs(t, "opened")
  /\ StubOf(t) # NoSession
  /\ link[StubOf(t)].side = "open"
  /\ link' = [link EXCEPT ![StubOf(t)].out = Append(@, t)]
  /\ thr' = [thr EXCEPT ![t] = "waits"]
  /\ UNCHANGED <<dead, stops, req, got, stub, backlog>>

\* The client takes the next answer on the connection; only the name of the
\* procedure is compared, and after a wrong name it goes on reading.
Receive(t) ==
  /\ Runs(t, "waits")
  /\ StubOf(t) # NoSession
  /\ link[StubOf(t)].in # <<>>
  /\ LET answer == Head(link[StubOf(t)].in)
     IN /\ got' = [got EXCEPT ![t] = answer]
        /\ thr' = [thr EXCEPT ![t] =
                     IF Method(answer) = Method(t) THEN "got" ELSE "lost"]
  /\ link' = [link EXCEPT ![StubOf(t)].in = Tail(@)]
  /\ UNCHANGED <<dead, stops, req, stub, backlog>>

\* A connection that one of its ends leaves.
WithoutClient(l) == IF l.side = "open" THEN [l EXCEPT !.side = "closed"]
                    ELSE IF l.side = "broken" THEN NoLink ELSE l
WithoutServer(l) == IF l.side = "open" THEN [NoLink EXCEPT !.side = "broken", !.in = l.in]
                    ELSE IF l.side = "closed" THEN NoLink ELSE l

\* Faulty variant: all connections of the process are closed.
CloseEvery(t) ==
  /\ Runs(t, "got")
  /\ stub' = [stub EXCEPT ![Owner(t)] = [s \in Server |-> NoSession]]
  /\ link' = [l \in Thread |->
                IF \E s \in Server : l = stub[Owner(t)][s] THEN WithoutClient(link[l])
                ELSE link[l]]
  /\ thr' = [thr EXCEPT ![t] = IF IsTop(t) THEN "none" ELSE "ended"]
  /\ got' = [got EXCEPT ![t] = NoCall]
  /\ Forget
  /\ UNCHANGED <<dead, stops, backlog>>

Close(t) ==
  /\ Runs(t, "got")
  /\ stub' = [stub EXCEPT ![Owner(t)][t[2]] = NoSession]
  /\ link' = [l \in Thread |->
                IF l = StubOf(t) THEN WithoutClient(link[l]) ELSE link[l]]
  /\ thr' = [thr EXCEPT ![t] = IF IsTop(t) THEN "none" ELSE "ended"]
  /\ got' = [got EXCEPT ![t] = NoCall]
  /\ Forget
  /\ UNCHANGED <<dead, stops, backlog>>

\* The end of a process: its threads, its stubs and the connections it serves.
Ends(p) ==
  LET own(t) == req[t[1]] # NoCall /\ Owner(t) = p
  IN /\ dead' = dead \cup {p}
     /\ thr' = [t \in Thread |-> IF own(t) THEN "none" ELSE thr[t]]
     /\ got' = [t \in Thread |-> IF own(t) THEN NoCall ELSE got[t]]
     /\ stub' = [stub EXCEPT ![p] = [s \in Server |-> NoSession]]
     /\ link' = [t \in Thread |-> IF own(t) THEN WithoutClient(link[t])
                                 ELSE IF t[2] = p THEN WithoutServer(link[t])
                                 ELSE link[t]]
     /\ backlog' = [s \in Server |-> IF s = p THEN <<>> ELSE backlog[s]]
     /\ Forget

\* The server a thread calls has stopped.
ServerGone(t) ==
  \/ thr[t] = "ready" /\ t[2] \in dead
  \/ /\ thr[t] \in {"opened", "waits"}
     /\ StubOf(t) # NoSession
     /\ link[StubOf(t)].side = "broken"

\* No connection, a connection that ends, or bytes that are no answer: Thrift
\* throws and nothing in the thread catches it.
Throws(t) ==
  /\ thr[t] # "none"
  /\ \/ ServerGone(t)
     \/ thr[t] \in {"opened", "waits"} /\ StubOf(t) = NoSession
     \/ thr[t] = "lost"
  /\ Ends(Owner(t))
  /\ UNCHANGED stops

Stop(s) ==
  /\ s \notin dead
  /\ stops < MaxStop
  /\ stops' = stops + 1
  /\ Ends(s)

\* A client program that has ended is not started again.
Restart(s) ==
  /\ s \in dead
  /\ dead' = dead \ {s}
  /\ UNCHANGED <<stops, req, thr, got, stub, link, backlog>>

-----------------------------------------------------------------------------
(***************************************************************************)
(* The servers.                                                            *)
(***************************************************************************)
Workers(s) == IF s \in Data THEN DataWorkers ELSE ParityWorkers
Served(s)  == {t \in Thread : t[2] = s /\ link[t].at = "served"}

\* Faulty variant: one worker less than the pool has.
HasWorkerLess(s) == Cardinality(Served(s)) + 1 < Workers(s)

HasWorker(s) == Cardinality(Served(s)) < Workers(s)

\* A worker takes the next connection, and no other before this one is closed.
Accept(t) ==
  /\ link[t].at = "queued"
  /\ backlog[t[2]] # <<>> /\ Head(backlog[t[2]]) = t
  /\ HasWorker(t[2])
  /\ link' = [link EXCEPT ![t].at = "served"]
  /\ backlog' = [backlog EXCEPT ![t[2]] = Tail(@)]
  /\ UNCHANGED <<dead, stops, req, thr, got, stub>>

\* The answer to request m; nobody reads it when the client has closed.
Answer(l, m) == IF l.side = "open" THEN Append(l.in, m) ELSE l.in

\* The next request of connection t: the handler answers it, or starts a thread
\* for every server it needs.
Handle(t) ==
  /\ link[t].at = "served" /\ link[t].busy = {} /\ link[t].out # <<>>
  /\ LET m     == Head(link[t].out)
         needs == IF IsTop(m) THEN Targets(req[m[1]]) ELSE {}
     IN /\ link' = [link EXCEPT ![t].out = Tail(@),
                      ![t].busy = IF needs = {} THEN {} ELSE {m},
                      ![t].in = IF needs = {} THEN Answer(link[t], m) ELSE @]
        /\ thr' = [u \in Thread |->
                     IF u[1] = m[1] /\ u[2] \in needs THEN "ready" ELSE thr[u]]
  /\ UNCHANGED <<dead, stops, req, got, stub, backlog>>

\* group.join_all, then the answer.
Finish(t) ==
  \E m \in link[t].busy :
    LET subs == {<<m[1], s>> : s \in Targets(req[m[1]])}
    IN /\ \A u \in subs : thr[u] = "ended"
       /\ thr' = [u \in Thread |-> IF u \in subs THEN "none" ELSE thr[u]]
       /\ link' = [link EXCEPT ![t].busy = {}, ![t].in = Answer(link[t], m)]
       /\ Forget
       /\ UNCHANGED <<dead, stops, got, stub, backlog>>

\* The worker reads the end of the connection and is free again.
EndSession(t) ==
  /\ link[t].at = "served" /\ link[t].side = "closed"
  /\ link[t].busy = {} /\ link[t].out = <<>>
  /\ link' = [link EXCEPT ![t] = NoLink]
  /\ UNCHANGED <<dead, stops, thr, got, stub, backlog>>
  /\ Forget

ThreadStep(t) == Open(t) \/ Send(t) \/ Receive(t) \/ Close(t) \/ Throws(t)
WorkerStep(t) == Accept(t) \/ Handle(t) \/ Finish(t) \/ EndSession(t)

Next ==
  \/ \E c \in Calls : \E r \in Requests[c] : Call(c, r)
  \/ \E t \in Thread : ThreadStep(t) \/ WorkerStep(t)
  \/ \E s \in Server : Stop(s) \/ Restart(s)

Spec == Init /\ [][Next]_vars

\* The threads and workers busy with a call run on; callers, stops and restarts
\* are free.
CallStep(c) ==
  /\ req[c] # NoCall
  /\ \E s \in Server : ThreadStep(<<c, s>>) \/ WorkerStep(<<c, s>>)
LiveSpec == Spec /\ \A c \in Calls : WF_vars(CallStep(c))

-----------------------------------------------------------------------------
(***************************************************************************)
(* Properties.                                                             *)
(***************************************************************************)

\* The inductive invariant behind it, for careful callers.  Calls in progress use
\* different stubs.
CallsApart ==
  \A c, d \in Calls :
    c # d /\ req[c] # NoCall /\ req[d] # NoCall => Uses(req[c]) \cap Uses(req[d]) = {}

\* A thread, or what is left of its connection, belongs to a call in progress.
ThreadOfCall(t) ==
  thr[t] # "none" \/ link[t] # NoLink =>
    /\ req[t[1]] # NoCall
    /\ IsTop(t) \/ t[2] \in Targets(req[t[1]])

\* A stub is open for the thread that opened it, until this thread closes it.
StubOfThread(p, s) ==
  LET l == stub[p][s]
  IN l # NoSession =>
       /\ l[2] = s /\ req[l[1]] # NoCall /\ Owner(l) = p
       /\ thr[l] \in {"opened", "waits", "got"}

\* A thread has the stub it opened, and has received nothing but its own answer.
ThreadHasStub(t) ==
  /\ thr[t] \in {"opened", "waits", "got"} => StubOf(t) = t
  /\ thr[t] # "lost"
  /\ got[t] = IF thr[t] = "got" THEN t ELSE NoCall

\* A connection carries the request of its thread, or the answer, or neither: it is
\* in one place.
OneRequest(t) ==
  LET l == link[t]
  IN /\ l.out \in {<<>>, <<t>>} /\ l.in \in {<<>>, <<t>>} /\ l.busy \subseteq {t}
     /\ l.out # <<>> => l.in = <<>> /\ l.busy = {}
     /\ l.in # <<>> => l.busy = {}
     /\ thr[t] \in {"ready", "opened"} => l.out = <<>> /\ l.in = <<>> /\ l.busy = {}

\* The threads that the handler of a call starts are new: they have not run before.
HandledOnce(t) ==
  /\ req[t[1]] # NoCall /\ IsTop(t)
  /\ thr[t] \in {"ready", "opened"} \/ link[t].out # <<>>
  => \A s \in Server \ {t[2]} : thr[<<t[1], s>>] = "none" /\ link[<<t[1], s>>] = NoLink

ConnInv ==
  /\ TypeOK
  /\ CallsApart
  /\ \A p \in Process, s \in Server : StubOfThread(p, s)
  /\ \A t \in Thread :
       ThreadOfCall(t) /\ ThreadHasStub(t) /\ OneRequest(t) /\ HandledOnce(t)

\* Although the stub matches an answer to a request by its position in the
\* stream only, every thread of a call receives the answer to its own request,
\* also after processes stopped and connections were opened anew.
AnswersMatch ==
  \A t \in Thread : thr[t] \in {"got", "lost"} => thr[t] = "got" /\ got[t] = t

\* A process ends because it is stopped or because a server it calls has stopped,
\* never because another of its threads closed or used up its connection.
DeathsCascade ==
  [][\A p \in dead' \ dead :
       \/ stops' # stops
       \/ \E t \in Thread : thr[t] # "none" /\ Owner(t) = p /\ ServerGone(t)]_vars

\* Every call ends, by an answer or with its program, and all that was started for
\* it ends too: connections are closed and give their workers back, nothing stays in
\* a queue.  Yet a handler keeps a worker while it waits for workers of servers
\* whose handlers may wait for it, and any process may stop.
CallsEnd == \A c \in Calls : req[c] # NoCall ~> req[c] = NoCall
=============================================================================
