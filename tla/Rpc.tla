-------------------------------- MODULE Rpc ---------------------------------
(***************************************************************************)
(* Remote calls over one connection (service/src/StoreService.cpp and      *)
(* MasterService.cpp with the tables of Wire).  There are two clients:     *)
(* the plain one, which HWDFS uses and which must not be shared, and the   *)
(* concurrent one, "a thread safe client that correctly handles out of     *)
(* order responses" (StoreService.h:866-868), which nothing in HWDFS uses  *)
(* yet although its threads share connections (see Connections).           *)
(*                                                                         *)
(* The concurrent client numbers its calls.  A thread that waits for an    *)
(* answer reads the connection under a mutex; when it reads the answer of  *)
(* another thread it hands it over and waits.  Mutexes, monitors and the   *)
(* hand-over are Thrift's TConcurrentClientSyncInfo: sync below.           *)
(*                                                                         *)
(* The body of a message is the thread whose request it holds or answers:  *)
(* that what one side writes is what the other side reads is shown for     *)
(* every procedure by RoundTrips and IncompleteRefused of Wire.            *)
(***************************************************************************)
EXTENDS Wire, FiniteSets

CONSTANTS
  Threads,    \* a set of numbers: the threads that share the client
  Methods,    \* for either client and every thread, the procedures it calls
  MaxSeq,     \* bound on the calls of one client object
  NoThread, NoMessage

VARIABLES
  client,     \* "plain" or "concurrent"
  service,    \* what the server at the other end runs: "store" or "master"
  link,       \* "open", or "broken" when the server has stopped
  out, in,    \* the requests and the answers on the connection
  pc,         \* of a thread: where it is in its call
  method,     \* of a thread: the procedure it calls
  seq,        \* of a thread: the number of its call
  got,        \* of a thread: the message it has read
  result,     \* of a thread: how its call ended
  sync        \* what TConcurrentClientSyncInfo holds

vars == <<client, service, link, out, in, pc, method, seq, got, result, sync>>

\* next: the next number; registered: the threads in seqidToMonitorMap_; reader: who
\* holds the read mutex; pending: the message handed over; wakeup, stop:
\* wakeupSomeone_ and stop_; notified: threads notified while they waited.
NewSync == [next |-> 0, registered |-> {}, reader |-> NoThread, pending |-> NoMessage,
            wakeup |-> FALSE, stop |-> FALSE, notified |-> {}]

Message(name, type, number, body, reason) ==
  [name |-> name, type |-> type, seqid |-> number, body |-> body, reason |-> reason]
Answer(name, type, m, reason) == Message(name, type, m.seqid, m.body, reason)

\* How a call ended: for what reason, and with what was made of whose request.
Why(reason, thread) == [why |-> reason, of |-> thread]
None == Why("none", NoThread)

Idle(t) == pc[t] \in {"idle", "returned", "thrown"}

MethodNames == {"create", "write", "read", "degrade_read", "merge", "clear", "getChunkServer"}
Reasons == {"none", "success", "handler", "UNKNOWN_METHOD", "INVALID_DATA",
            "BAD_SEQUENCE_ID", "NOT_OPEN", "TRANSPORT"}
Messages ==
  [name : MethodNames, type : {"call", "reply", "exception"}, seqid : 0..MaxSeq,
   body : Threads, reason : {"none", "success", "handler", "UNKNOWN_METHOD"}]

Syncs ==
  [next : 0..MaxSeq, registered : SUBSET Threads, reader : Threads \cup {NoThread},
   pending : Messages \cup {NoMessage}, wakeup : BOOLEAN, stop : BOOLEAN,
   notified : SUBSET Threads]

ASSUME RpcAssumption ==
  /\ MaxSeq \in Nat
  /\ NoThread \notin Threads /\ NoMessage \notin Messages
  /\ \A c \in {"plain", "concurrent"}, t \in Threads : Methods[c][t] \subseteq MethodNames

TypeOK ==
  /\ client \in {"plain", "concurrent"} /\ service \in {"store", "master"}
  /\ link \in {"open", "broken"}
  /\ out \in Seq(Messages) /\ in \in Seq(Messages)
  /\ pc \in [Threads -> {"idle", "sending", "sent", "reading", "blocked", "read",
                         "waiting", "returned", "thrown"}]
  /\ method \in [Threads -> MethodNames]
  /\ seq \in [Threads -> 0..MaxSeq]
  /\ got \in [Threads -> Messages \cup {NoMessage}]
  /\ result \in [Threads -> [why : Reasons, of : Threads \cup {NoThread}]]
  /\ sync \in Syncs

Init ==
  /\ client \in {"plain", "concurrent"}
  /\ service \in {"store", "master"}
  /\ link = "open" /\ out = <<>> /\ in = <<>>
  /\ pc = [t \in Threads |-> "idle"]
  /\ method = [t \in Threads |-> "create"]
  /\ seq = [t \in Threads |-> 0]
  /\ got = [t \in Threads |-> NoMessage]
  /\ result = [t \in Threads |-> None]
  /\ sync = NewSync

-----------------------------------------------------------------------------
(***************************************************************************)
(* What both clients do.                                                   *)
(***************************************************************************)
Ends(t, outcome, value) ==
  /\ pc' = [pc EXCEPT ![t] = outcome]
  /\ result' = [result EXCEPT ![t] = value]
  /\ got' = [got EXCEPT ![t] = NoMessage]

StubFor(t) == StubOf(client, method[t])

\* send_X: the name, the number and the arguments.
CallMessage(t) == Message(StubFor(t).name, "call", seq[t], t, "none")

\* Message m is the answer to another procedure than the one t has called.
OfAnother(t, m) == m.type # "exception" /\ m.name # StubFor(t).expects

\* How recv_X ends with message m: what it throws or returns, and whether the
\* connection can still be used.  Only the concurrent client ends with the answer to
\* another procedure.
Outcome(t, m) ==
  IF m.type = "exception"
  THEN [pc |-> "thrown", value |-> Why(m.reason, m.body), good |-> TRUE]
  ELSE IF OfAnother(t, m)
  THEN [pc |-> "thrown", value |-> Why("INVALID_DATA", NoThread), good |-> FALSE]
  ELSE [pc |-> "returned", value |-> Why("success", m.body), good |-> TRUE]

Latest(S) == {t \in S : \A u \in S : seq[u] <= seq[t]}

\* Faulty variant: the call that leaves stays registered.
LeaveSyncRegistered(s, t, good) ==
  LET woken == {u \in (IF good THEN Latest(s.registered) ELSE s.registered) : pc[u] = "waiting"}
  IN [s EXCEPT !.wakeup = TRUE, !.stop = @ \/ ~good, !.reader = NoThread,
               !.notified = (@ \ {t}) \cup woken]

\* What happens to the monitors when a call leaves: another thread is woken up, or
\* the client is marked bad and all are.
LeaveSync(s, t, good) ==
  LET rest == s.registered \ {t}
      woken == {u \in (IF good THEN Latest(rest) ELSE rest) : pc[u] = "waiting"}
  IN [s EXCEPT !.registered = rest, !.wakeup = TRUE, !.stop = @ \/ ~good,
               !.reader = NoThread, !.notified = (@ \ {t}) \cup woken]

-----------------------------------------------------------------------------
(***************************************************************************)
(* A call begins.  The plain client is used by one thread at a time.       *)
(***************************************************************************)

\* generateSeqId refuses to number a call when the client is bad.
Call(t, m) ==
  /\ Idle(t)
  /\ client = "plain" => \A u \in Threads : Idle(u)
  /\ sync.next < MaxSeq
  /\ method' = [method EXCEPT ![t] = m]
  /\ IF client = "concurrent" /\ sync.stop
     THEN /\ Ends(t, "thrown", Why("NOT_OPEN", NoThread))
          /\ UNCHANGED <<seq, sync>>
     ELSE /\ seq' = [seq EXCEPT ![t] = IF client = "plain" THEN 0 ELSE sync.next]
          /\ sync' = [sync EXCEPT !.next = @ + 1,
                        !.registered = IF client = "plain" THEN @ ELSE @ \cup {t}]
          /\ pc' = [pc EXCEPT ![t] = "sending"]
          /\ result' = [result EXCEPT ![t] = None]
          /\ UNCHANGED got
  /\ UNCHANGED <<client, service, link, out, in>>

\* The write mutex is held from writeMessageBegin to commit.  On a broken
\* connection flush may still succeed.
Send(t) ==
  /\ pc[t] = "sending"
  /\ out' = IF link = "open" THEN Append(out, CallMessage(t)) ELSE out
  /\ pc' = [pc EXCEPT ![t] = "sent"]
  /\ UNCHANGED <<client, service, link, in, method, seq, got, result, sync>>

\* The sentry that is not committed marks the client bad; the call stays registered.
SendThrows(t) ==
  /\ pc[t] = "sending"
  /\ link = "broken"
  /\ Ends(t, "thrown", Why("TRANSPORT", NoThread))
  /\ sync' = IF client = "plain" THEN sync
             ELSE [LeaveSync(sync, NoThread, FALSE) EXCEPT !.reader = sync.reader]
  /\ UNCHANGED <<client, service, link, out, in, method, seq>>

-----------------------------------------------------------------------------
(***************************************************************************)
(* The plain client: the next message is the answer.                       *)
(***************************************************************************)

\* The answer to another procedure is skipped, and the client reads on for a result.
Receive(t) ==
  /\ client = "plain" /\ pc[t] = "sent"
  /\ in # <<>>
  /\ IF OfAnother(t, Head(in)) THEN UNCHANGED <<pc, result, got>>
     ELSE LET end == Outcome(t, Head(in)) IN Ends(t, end.pc, end.value)
  /\ in' = Tail(in)
  /\ UNCHANGED <<client, service, link, out, method, seq, sync>>

ReceiveThrows(t) ==
  /\ client = "plain" /\ pc[t] = "sent"
  /\ in = <<>> /\ link = "broken"
  /\ Ends(t, "thrown", Why("TRANSPORT", NoThread))
  /\ UNCHANGED <<client, service, link, out, in, method, seq, sync>>

-----------------------------------------------------------------------------
(***************************************************************************)
(* The concurrent client.                                                  *)
(***************************************************************************)

\* The sentry of recv_X locks the read mutex.
LockRead(t) ==
  /\ client = "concurrent" /\ pc[t] = "sent"
  /\ sync.reader = NoThread
  /\ sync' = [sync EXCEPT !.reader = t]
  /\ pc' = [pc EXCEPT ![t] = "reading"]
  /\ UNCHANGED <<client, service, link, out, in, method, seq, got, result>>

\* getPending: a message that another thread has read is for this one.
GetPending(t) ==
  /\ pc[t] = "reading"
  /\ IF sync.stop
     THEN /\ Ends(t, "thrown", Why("NOT_OPEN", NoThread))
          /\ sync' = LeaveSync(sync, t, FALSE)
     ELSE /\ got' = [got EXCEPT ![t] = sync.pending]
          /\ pc' = [pc EXCEPT ![t] = IF sync.pending = NoMessage THEN "blocked" ELSE "read"]
          /\ sync' = [sync EXCEPT !.wakeup = FALSE, !.pending = NoMessage]
          /\ UNCHANGED result
  /\ UNCHANGED <<client, service, link, out, in, method, seq>>

\* readMessageBegin, with the mutex held.
ReadMessage(t) ==
  /\ pc[t] = "blocked"
  /\ in # <<>>
  /\ got' = [got EXCEPT ![t] = Head(in)]
  /\ in' = Tail(in)
  /\ pc' = [pc EXCEPT ![t] = "read"]
  /\ UNCHANGED <<client, service, link, out, method, seq, result, sync>>

ReadThrows(t) ==
  /\ pc[t] = "blocked"
  /\ in = <<>> /\ link = "broken"
  /\ Ends(t, "thrown", Why("TRANSPORT", NoThread))
  /\ sync' = LeaveSync(sync, t, FALSE)
  /\ UNCHANGED <<client, service, link, out, in, method, seq>>

\* Faulty variant: the number on the answer is not looked at.
FinishAny(t) ==
  /\ pc[t] = "read"
  /\ LET end == Outcome(t, got[t])
     IN /\ Ends(t, end.pc, end.value)
        /\ sync' = LeaveSync(sync, t, end.good)
  /\ UNCHANGED <<client, service, link, out, in, method, seq>>

\* The answer to this call.
Finish(t) ==
  /\ pc[t] = "read"
  /\ got[t].seqid = seq[t]
  /\ LET end == Outcome(t, got[t])
     IN /\ Ends(t, end.pc, end.value)
        /\ sync' = LeaveSync(sync, t, end.good)
  /\ UNCHANGED <<client, service, link, out, in, method, seq>>

\* Faulty variant: the thread whose message it is is not told.
HandOverSilently(t) ==
  /\ pc[t] = "read"
  /\ got[t].seqid # seq[t]
  /\ sync' = [sync EXCEPT !.pending = got[t], !.reader = NoThread]
  /\ pc' = [pc EXCEPT ![t] = "waiting"]
  /\ got' = [got EXCEPT ![t] = NoMessage]
  /\ UNCHANGED <<client, service, link, out, in, method, seq, result>>

\* updatePending and waitForWork: the answer of another call is left to its thread,
\* which is notified; this one releases the mutex and waits.
HandOver(t) ==
  /\ pc[t] = "read"
  /\ got[t].seqid # seq[t]
  /\ LET owner == {u \in sync.registered : seq[u] = got[t].seqid}
         given == [sync EXCEPT !.pending = got[t],
                               !.notified = @ \cup {u \in owner : pc[u] = "waiting"}]
     IN IF owner = {} \/ sync.stop
        THEN /\ Ends(t, "thrown", Why(IF owner = {} THEN "BAD_SEQUENCE_ID" ELSE "NOT_OPEN", NoThread))
             /\ sync' = LeaveSync(given, t, FALSE)
        ELSE /\ sync' = [given EXCEPT !.reader = NoThread]
             /\ pc' = [pc EXCEPT ![t] = "waiting"]
             /\ got' = [got EXCEPT ![t] = NoMessage]
             /\ UNCHANGED result
  /\ UNCHANGED <<client, service, link, out, in, method, seq>>

\* A notified thread takes the mutex again and looks whether there is work for it.
Wake(t) ==
  /\ pc[t] = "waiting" /\ t \in sync.notified
  /\ sync.reader = NoThread
  /\ LET woken == [sync EXCEPT !.notified = @ \ {t}]
         work  == sync.wakeup \/ (sync.pending # NoMessage /\ sync.pending.seqid = seq[t])
     IN IF sync.stop
        THEN /\ Ends(t, "thrown", Why("NOT_OPEN", NoThread))
             /\ sync' = LeaveSync(woken, t, FALSE)
        ELSE /\ sync' = [woken EXCEPT !.reader = IF work THEN t ELSE NoThread]
             /\ pc' = [pc EXCEPT ![t] = IF work THEN "reading" ELSE "waiting"]
             /\ UNCHANGED <<got, result>>
  /\ UNCHANGED <<client, service, link, out, in, method, seq>>

-----------------------------------------------------------------------------
(***************************************************************************)
(* The server.                                                             *)
(***************************************************************************)
ProcessMap == IF service = "store" THEN StoreProcessMap ELSE MasterProcessMap

\* dispatchCall and process_X, by the worker of the connection: one request after
\* the other, and its number goes back with the answer.  A handler may throw.
Process(handlerThrows) ==
  /\ link = "open" /\ out # <<>>
  /\ LET m == Head(out)
         known == m.name \in DOMAIN ProcessMap
     IN /\ handlerThrows => known
        /\ in' = Append(in,
                   IF ~known THEN Answer(m.name, "exception", m, "UNKNOWN_METHOD")
                   ELSE IF handlerThrows
                   THEN Answer(ProcessMap[m.name].name, "exception", m, "handler")
                   ELSE Answer(ProcessMap[m.name].name, "reply", m, "success"))
  /\ out' = Tail(out)
  /\ UNCHANGED <<client, service, link, pc, method, seq, got, result, sync>>

\* The server stops; the answers that are on the way may be lost.
Break ==
  /\ link = "open"
  /\ link' = "broken"
  /\ out' = <<>>
  /\ in' \in {in, <<>>}
  /\ UNCHANGED <<client, service, pc, method, seq, got, result, sync>>

\* The program connects anew, with a new client object.
Connect ==
  /\ \A t \in Threads : Idle(t)
  /\ sync.next = MaxSeq \/ sync.stop \/ link = "broken"
  /\ link' = "open" /\ out' = <<>> /\ in' = <<>>
  /\ pc' = [t \in Threads |-> "idle"]
  /\ seq' = [t \in Threads |-> 0]
  /\ result' = [t \in Threads |-> None]
  /\ sync' = NewSync
  /\ UNCHANGED <<client, service, method, got>>

ThreadStep(t) ==
  \/ Send(t) \/ SendThrows(t) \/ Receive(t) \/ ReceiveThrows(t)
  \/ LockRead(t) \/ GetPending(t) \/ ReadMessage(t) \/ ReadThrows(t)
  \/ Finish(t) \/ HandOver(t) \/ Wake(t)

ServerStep == \E throws \in BOOLEAN : Process(throws)

Next ==
  \/ \E t \in Threads : ThreadStep(t) \/ \E m \in Methods[client][t] : Call(t, m)
  \/ ServerStep \/ Break \/ Connect

Spec == Init /\ [][Next]_vars

\* Threads run, mutexes are granted, the server works; calls, stops and new
\* connections are free.
Fairness == (\A t \in Threads : WF_vars(ThreadStep(t))) /\ WF_vars(ServerStep)
LiveSpec == Spec /\ Fairness

-----------------------------------------------------------------------------
(***************************************************************************)
(* Properties.                                                             *)
(***************************************************************************)

\* However the threads take turns at the connection, a call returns what the
\* handler computed from its own request, and throws only what the handler threw
\* for it, because the server does not know the procedure, or after the server has
\* stopped: no thread is made to fail by the answers of another one.
OwnAnswer(t) ==
  LET known == method[t] \in DOMAIN ProcessMap
  IN /\ pc[t] = "returned" => known /\ result[t] = Why("success", t)
     /\ pc[t] = "thrown" =>
          \/ known /\ result[t] = Why("handler", t)
          \/ ~known /\ result[t] = Why("UNKNOWN_METHOD", t)
          \/ link = "broken" /\ result[t].why \in {"TRANSPORT", "NOT_OPEN"}
OwnAnswers == \A t \in Threads : OwnAnswer(t)

\* The parts of the inductive invariant.  HasSent: the call of the thread is past its request.
HasSent(t) == pc[t] \in {"sent", "reading", "blocked", "read", "waiting"}
Asleep(t)  == pc[t] = "waiting" /\ t \notin sync.notified

\* The messages there are, those that threads hold, and whether one is of thread t.
Held == ({got[t] : t \in Threads} \cup {sync.pending}) \ {NoMessage}
AllMessages == ToSet(out) \cup ToSet(in) \cup Held
MessageOf(t) == \E m \in AllMessages : m.body = t

\* The plain client: one call at a time, and no message but its own.
OneCallAtATime ==
  client = "plain" =>
    /\ sync.registered = {} /\ sync.reader = NoThread /\ sync.pending = NoMessage
    /\ ~sync.stop
    /\ \A t \in Threads : Idle(t) \/ pc[t] \in {"sending", "sent"}
    /\ \A t, u \in Threads : ~Idle(t) /\ ~Idle(u) => t = u
    /\ \A m \in AllMessages : pc[m.body] = "sent"

\* Who is past LockRead holds the mutex; who holds a message has found none left.
MutexHeld ==
  \A t \in Threads :
    /\ sync.reader = t <=> pc[t] \in {"reading", "blocked", "read"}
    /\ got[t] # NoMessage <=> pc[t] = "read"
    /\ pc[t] \in {"blocked", "read"} => sync.pending = NoMessage

\* The client is bad only after the server has stopped, and lost all requests.
BadAfterStop ==
  /\ sync.stop => link = "broken"
  /\ link = "broken" => out = <<>>

\* A call is registered under a number of its own as long as it runs, and in a bad
\* client perhaps longer.
CallsNumbered ==
  client = "concurrent" =>
    /\ \A t \in Threads : ~Idle(t) => t \in sync.registered
    /\ ~sync.stop => \A t \in sync.registered : ~Idle(t)
    /\ \A t \in sync.registered : seq[t] < sync.next
    /\ \A t, u \in sync.registered : seq[t] = seq[u] => t = u

\* Every message is of a call that is registered; when the client is bad, as far as
\* there is somebody who reads it.
OwnersRegistered ==
  client = "concurrent" =>
    \A m \in AllMessages :
      ~sync.stop \/ (\E u \in Threads : pc[u] \in {"blocked", "read"}) =>
        m.body \in sync.registered /\ seq[m.body] = m.seqid

\* What is on the way is what the thread has asked, or what the server answers to it.
RequestOf(m, t) == m.type = "call" /\ m.name = method[t]
AnswerTo(m, t) ==
  IF method[t] \in DOMAIN ProcessMap
  THEN m.name = method[t] /\ (m.type = "reply" \/ (m.type = "exception" /\ m.reason = "handler"))
  ELSE m.type = "exception" /\ m.reason = "UNKNOWN_METHOD"
MessagesFit ==
  /\ \A m \in AllMessages : HasSent(m.body) => m.seqid = seq[m.body]
  /\ \A m \in ToSet(out) : HasSent(m.body) => RequestOf(m, m.body)
  /\ \A m \in ToSet(in) \cup Held : HasSent(m.body) => AnswerTo(m, m.body)

\* A thread has one message, and only after it has sent it; none is lost while the
\* server runs.
Once(s) == \A k, l \in DOMAIN s : s[k].body = s[l].body => k = l
OneMessage ==
  /\ \A t \in Threads : pc[t] = "sending" => ~MessageOf(t)
  /\ \A t \in Threads : link = "open" /\ HasSent(t) => MessageOf(t)
  /\ Once(out) /\ Once(in)
  /\ \A m \in ToSet(out), n \in ToSet(in) \cup Held : m.body # n.body
  /\ \A m \in ToSet(in), n \in Held : m.body # n.body

\* Somebody of the registered calls is awake: it reads, it has been handed its answer,
\* or it will find that it has been woken up to read.
SomebodyAwake ==
  /\ \A t \in Threads : Asleep(t) =>
       ~sync.stop /\ (sync.pending = NoMessage \/ sync.pending.body # t)
  /\ ~sync.stop /\ sync.registered # {} =>
       \/ sync.wakeup /\ \E u \in sync.registered : ~Asleep(u)
       \/ \E u \in sync.registered :
            \/ pc[u] # "waiting"
            \/ u \in sync.notified /\ sync.pending # NoMessage /\ sync.pending.body = u

\* The inductive invariant: together they are preserved by every step of every thread
\* and of the server.
RpcInv ==
  /\ TypeOK /\ OneCallAtATime /\ MutexHeld /\ BadAfterStop /\ CallsNumbered
  /\ OwnersRegistered /\ MessagesFit /\ OneMessage /\ SomebodyAwake /\ OwnAnswers

\* No thread waits in vain.  While the server runs, the request or the answer of
\* every call that has been sent is in one place, on the connection or with one
\* thread.  And a thread that waits without having been notified is not the one an
\* answer was handed to, nor is the client bad; and some other call of the client
\* will still take the mutex, read on and hand over: the last of them did not leave
\* without a wake-up.
NobodyForgotten ==
  LET ofCall(t, m) == m # NoMessage /\ m.seqid = seq[t] /\ m.body = t
      onWire(t) == Cardinality({k \in DOMAIN out : ofCall(t, out[k])})
                     + Cardinality({k \in DOMAIN in : ofCall(t, in[k])})
      held(t) == Cardinality({u \in Threads : ofCall(t, got[u])})
                   + (IF ofCall(t, sync.pending) THEN 1 ELSE 0)
      asleep(t) == pc[t] = "waiting" /\ t \notin sync.notified
  IN \A t \in Threads :
       /\ link = "open" /\ pc[t] \in {"sent", "reading", "blocked", "read", "waiting"}
            => onWire(t) + held(t) = 1
       /\ asleep(t) =>
            /\ ~sync.stop /\ ~ofCall(t, sync.pending)
            /\ \E u \in sync.registered : ~asleep(u)

\* So every call ends, also after a stop.
RpcCallsEnd == \A t \in Threads : pc[t] = "sending" ~> pc[t] \in {"returned", "thrown"}

\* Both clients agree with both processors about every procedure, and no incomplete
\* structure is read as a whole one.  (Stated of the states before the first call.)
WireAgrees ==
  /\ link = "open" /\ sync = NewSync
  /\ \A t \in Threads : pc[t] = "idle"
  => RoundTrips(client, ProcessMap) /\ IncompleteRefused
=============================================================================
