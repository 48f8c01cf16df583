------------------------- MODULE ConnectionsProofs -------------------------
(***************************************************************************)
(* That careful callers always get the answers to their own requests, and  *)
(* that no process ends but by a stop: the invariant ConnInv of            *)
(* Connections and what follows from it, for any servers, programs and     *)
(* calls, sizes of the pools and numbers of stops.                         *)
(***************************************************************************)
EXTENDS Connections, SequenceTheorems, TLAPS

Careful == Discipline = "careful"

LinkType == [side : {"none", "open", "closed", "broken"},
             at : {"none", "queued", "served"},
             out : Seq(Thread), in : Seq(Thread), busy : SUBSET Thread]

\* What an invariant of the threads says of one of them.
ThreadInv(t) == ThreadOfCall(t) /\ ThreadHasStub(t) /\ OneRequest(t) /\ HandledOnce(t)

-----------------------------------------------------------------------------
(***************************************************************************)
(* Sequences and connections.                                              *)
(***************************************************************************)
LEMMA OneMessage ==
  ASSUME NEW t \in Thread
  PROVE  /\ <<t>> \in Seq(Thread) /\ <<>> \in Seq(Thread)
         /\ <<t>> # <<>> /\ Head(<<t>>) = t /\ Tail(<<t>>) = <<>>
         /\ Append(<<>>, t) = <<t>>
OBVIOUS

LEMMA NoLinkType == NoLink \in LinkType
BY DEF NoLink, LinkType

LEMMA WithoutType ==
  ASSUME NEW l \in LinkType
  PROVE  WithoutClient(l) \in LinkType /\ WithoutServer(l) \in LinkType
BY NoLinkType DEF LinkType, WithoutClient, WithoutServer, NoLink

\* An end of a connection that leaves loses messages only, and makes no connection.
LEMMA WithoutKeeps ==
  ASSUME NEW l \in LinkType
  PROVE  /\ WithoutClient(NoLink) = NoLink /\ WithoutServer(NoLink) = NoLink
         /\ WithoutClient(l).out \in {<<>>, l.out} /\ WithoutServer(l).out \in {<<>>, l.out}
         /\ WithoutClient(l).in \in {<<>>, l.in} /\ WithoutServer(l).in \in {<<>>, l.in}
         /\ WithoutClient(l).busy \in {{}, l.busy} /\ WithoutServer(l).busy \in {{}, l.busy}
BY DEF LinkType, WithoutClient, WithoutServer, NoLink

LEMMA ThreadPair ==
  /\ \A t \in Thread : t[1] \in Calls /\ t[2] \in Server /\ t = <<t[1], t[2]>>
  /\ \A c \in Calls, s \in Server : <<c, s>> \in Thread
BY DEF Thread

-----------------------------------------------------------------------------
(***************************************************************************)
(* Calls and stubs.                                                        *)
(***************************************************************************)

\* The process of a thread is one, and its stub is among those its call uses.
LEMMA OwnerUses ==
  ASSUME TypeOK, NEW t \in Thread, ThreadOfCall(t), thr[t] # "none" \/ link[t] # NoLink
  PROVE  /\ req[t[1]] \in Request
         /\ Owner(t) \in Process
         /\ <<Owner(t), t[2]>> \in Uses(req[t[1]])
<1>1. req[t[1]] \in Request /\ (IsTop(t) \/ t[2] \in Targets(req[t[1]]))
  BY ThreadPair DEF TypeOK, ThreadOfCall
<1>2. req[t[1]].prog \in Programs /\ req[t[1]].srv \in Data
  BY <1>1 DEF Request
<1>3. CASE IsTop(t)
  BY <1>1, <1>2, <1>3, ThreadPair DEF Owner, IsTop, Top, Uses, Process
<1>4. CASE ~IsTop(t)
  BY <1>1, <1>2, <1>4, ThreadPair DEF Owner, Uses, Process, Server
<1>. QED  BY <1>3, <1>4

\* Two threads that use one stub are one thread.
LEMMA OneUser ==
  ASSUME TypeOK, CallsApart,
         NEW t \in Thread, ThreadOfCall(t), thr[t] # "none",
         NEW u \in Thread, ThreadOfCall(u), thr[u] # "none",
         Owner(t) = Owner(u), t[2] = u[2]
  PROVE  t = u
<1>1. /\ <<Owner(t), t[2]>> \in Uses(req[t[1]])
      /\ <<Owner(t), t[2]>> \in Uses(req[u[1]])
  BY OwnerUses
<1>2. req[t[1]] # NoCall /\ req[u[1]] # NoCall
  BY DEF ThreadOfCall
<1>3. t[1] = u[1]
  BY <1>1, <1>2, ThreadPair DEF CallsApart
<1>. QED  BY <1>3, ThreadPair

\* The stub of a thread that has none open yet is closed.
LEMMA StubFree ==
  ASSUME ConnInv, NEW t \in Thread, thr[t] = "ready"
  PROVE  StubOf(t) = NoSession
<1>. DEFINE l == StubOf(t)
<1>1. Owner(t) \in Process /\ t[2] \in Server
  BY OwnerUses, ThreadPair DEF ConnInv
<1>2. SUFFICES ASSUME l # NoSession PROVE FALSE
  OBVIOUS
<1>3. /\ l \in Thread /\ l[2] = t[2] /\ Owner(l) = Owner(t)
      /\ thr[l] \in {"opened", "waits", "got"}
  BY <1>1, <1>2 DEF ConnInv, StubOfThread, StubOf, TypeOK
<1>4. l = t
  BY <1>3, OneUser DEF ConnInv
<1>. QED  BY <1>3, <1>4

\* The stub of a thread that has opened it.
LEMMA StubHeld ==
  ASSUME ConnInv, NEW t \in Thread, thr[t] \in {"opened", "waits", "got"}
  PROVE  StubOf(t) = t
BY DEF ConnInv, ThreadHasStub

-----------------------------------------------------------------------------
(***************************************************************************)
(* Identities of calls that become free.                                   *)
(***************************************************************************)
Fewer == \A c \in Calls : req'[c] \in {req[c], NoCall}

LEMMA ForgetFewer ==
  ASSUME TypeOK, Forget
  PROVE  /\ req' \in [Calls -> Request \cup {NoCall}]
         /\ Fewer
         /\ \A t \in Thread : thr'[t] # "none" \/ link'[t] # NoLink => req'[t[1]] = req[t[1]]
<1>1. /\ req' = [c \in Calls |-> IF Left(c)' THEN req[c] ELSE NoCall]
      /\ req' \in [Calls -> Request \cup {NoCall}]
      /\ Fewer
  BY DEF Forget, TypeOK, Fewer
<1>2. ASSUME NEW t \in Thread, thr'[t] # "none" \/ link'[t] # NoLink
      PROVE  Left(t[1])'
  BY <1>2, ThreadPair DEF Left
<1>. QED  BY <1>1, <1>2, ThreadPair

LEMMA FewerApart ==
  ASSUME TypeOK, CallsApart, Fewer
  PROVE  CallsApart'
BY DEF CallsApart, Fewer, Uses, Targets

-----------------------------------------------------------------------------
(***************************************************************************)
(* The threads.                                                            *)
(***************************************************************************)

\* A stub that is opened or closed.
LEMMA StubSet ==
  ASSUME TypeOK, NEW p \in Process, NEW s \in Server, NEW l \in Thread \cup {NoSession},
         NEW row, row = [stub[p] EXCEPT ![s] = l], stub' = [stub EXCEPT ![p] = row]
  PROVE  /\ stub' \in [Process -> [Server -> Thread \cup {NoSession}]]
         /\ stub'[p][s] = l
         /\ \A q \in Process, z \in Server : ~(q = p /\ z = s) => stub'[q][z] = stub[q][z]
<1>1. stub[p] \in [Server -> Thread \cup {NoSession}]
  BY DEF TypeOK
<1>2. /\ row \in [Server -> Thread \cup {NoSession}] /\ row[s] = l
      /\ \A z \in Server : z # s => row[z] = stub[p][z]
  BY <1>1
<1>. QED  BY <1>2 DEF TypeOK

\* A thread none of whose state an action changes.
LEMMA ThreadFrame ==
  ASSUME NEW t \in Thread, ThreadOfCall(t), ThreadHasStub(t), OneRequest(t),
         thr'[t] = thr[t], got'[t] = got[t], link'[t] = link[t],
         thr[t] # "none" \/ link[t] # NoLink => req'[t[1]] = req[t[1]],
         thr[t] \in {"opened", "waits", "got"} => StubOf(t)' = StubOf(t)
  PROVE  ThreadOfCall(t)' /\ ThreadHasStub(t)' /\ OneRequest(t)'
<1>1. ThreadOfCall(t)'
  BY DEF ThreadOfCall, IsTop, Top
<1>2. ThreadHasStub(t)'
  BY DEF ThreadHasStub
<1>3. OneRequest(t)'
  BY DEF OneRequest
<1>. QED  BY <1>1, <1>2, <1>3

\* A call is the only one that uses its stubs, and nothing is left of an earlier one.
LEMMA CallStepInv ==
  ASSUME ConnectionsAssumption, Careful, ConnInv, NEW c \in Calls, NEW r \in Requests[c], Call(c, r)
  PROVE  ConnInv'
<1>. DEFINE t == <<c, r.srv>>
<1>1. /\ r \in Request /\ r # NoCall /\ r.srv \in Server
      /\ t \in Thread /\ req[c] = NoCall
      /\ req' = [req EXCEPT ![c] = r]
      /\ thr' = [thr EXCEPT ![t] = "ready"]
      /\ UNCHANGED <<dead, stops, got, stub, link, backlog>>
  BY DEF ConnectionsAssumption, Call, Request, Server, Thread
<1>2. \A s \in Server : thr[<<c, s>>] = "none" /\ link[<<c, s>>] = NoLink
  BY <1>1, ThreadPair DEF ConnInv, ThreadOfCall
<1>3. TypeOK'
  BY <1>1 DEF ConnInv, TypeOK, Thread
<1>4. CallsApart'
  <2>1. \A d \in Calls : req[d] # NoCall => Uses(r) \cap Uses(req[d]) = {}
    BY DEF Call, Compatible, Careful
  <2>. QED  BY <1>1, <2>1 DEF ConnInv, TypeOK, CallsApart, Uses, Targets
<1>5. ASSUME NEW p \in Process, NEW s \in Server
      PROVE  StubOfThread(p, s)'
  <2>1. StubOfThread(p, s)
    BY DEF ConnInv
  <2>2. stub[p][s] \in Thread \cup {NoSession}
    BY DEF ConnInv, TypeOK
  <2>. QED  BY <1>1, <1>2, <2>1, <2>2, ThreadPair DEF ConnInv, TypeOK, StubOfThread, Owner, IsTop, Top
<1>6. ASSUME NEW u \in Thread, u[1] # c
      PROVE  ThreadInv(u)'
  <2>1. /\ req'[u[1]] = req[u[1]] /\ thr'[u] = thr[u]
        /\ \A s \in Server : thr'[<<u[1], s>>] = thr[<<u[1], s>>]
    BY <1>1, <1>6, ThreadPair DEF ConnInv, TypeOK
  <2>2. StubOf(u)' = StubOf(u)
    BY <1>1, <2>1 DEF StubOf, Owner, IsTop, Top
  <2>3. ThreadOfCall(u)' /\ ThreadHasStub(u)' /\ OneRequest(u)'
    BY <1>1, <2>1, <2>2, ThreadFrame DEF ConnInv
  <2>4. HandledOnce(u)'
    BY <1>1, <2>1 DEF ConnInv, HandledOnce, IsTop, Top
  <2>. QED  BY <2>3, <2>4 DEF ThreadInv
<1>7. ASSUME NEW u \in Thread, u[1] = c
      PROVE  ThreadInv(u)'
  <2>1. u = <<c, u[2]>> /\ u[2] \in Server
    BY <1>7, ThreadPair
  <2>2. /\ req'[c] = r
        /\ thr[u] = "none" /\ link[u] = NoLink /\ link'[u] = NoLink
        /\ thr'[u] = IF u[2] = r.srv THEN "ready" ELSE "none"
        /\ \A s \in Server : thr'[<<c, s>>] = IF s = r.srv THEN "ready" ELSE "none"
        /\ \A s \in Server : link'[<<c, s>>] = NoLink
    BY <1>1, <1>2, <2>1, ThreadPair DEF ConnInv, TypeOK
  <2>3. IsTop(u)' <=> u[2] = r.srv
    BY <1>7, <2>1, <2>2 DEF IsTop, Top
  <2>4. ThreadOfCall(u)'
    BY <1>1, <1>7, <2>2, <2>3 DEF ThreadOfCall
  <2>5. ThreadHasStub(u)'
    BY <1>1, <2>2 DEF ConnInv, ThreadHasStub
  <2>6. OneRequest(u)'
    BY <2>2 DEF OneRequest, NoLink
  <2>7. HandledOnce(u)'
    BY <1>7, <2>2, <2>3 DEF HandledOnce, NoLink
  <2>. QED  BY <2>4, <2>5, <2>6, <2>7 DEF ThreadInv
<1>. QED  BY <1>3, <1>4, <1>5, <1>6, <1>7 DEF ConnInv, ThreadInv

\* A step of thread t that keeps the calls: what is to be shown of the others.
LEMMA OthersKept ==
  ASSUME ConnInv, NEW t \in Thread, req' = req,
         \A u \in Thread \ {t} : thr'[u] = thr[u] /\ got'[u] = got[u] /\ link'[u] = link[u],
         \A u \in Thread \ {t} :
           thr[u] \in {"opened", "waits", "got"} => StubOf(u)' = StubOf(u),
         thr'[t] # "none" \/ link'[t] # NoLink => thr[t] # "none" \/ link[t] # NoLink,
         thr'[t] \in {"ready", "opened"} \/ link'[t].out # <<>>
           => thr[t] \in {"ready", "opened"} \/ link[t].out # <<>>,
         ThreadHasStub(t)', OneRequest(t)'
  PROVE  \A u \in Thread : ThreadInv(u)'
<1>1. ThreadOfCall(t)'
  BY DEF ConnInv, ThreadOfCall, IsTop, Top
<1>2. ASSUME NEW u \in Thread, u # t
      PROVE  ThreadOfCall(u)' /\ ThreadHasStub(u)' /\ OneRequest(u)'
  BY <1>2, ThreadFrame DEF ConnInv
<1>3. ASSUME NEW u \in Thread
      PROVE  HandledOnce(u)'
  <2>1. SUFFICES ASSUME req[u[1]] # NoCall, IsTop(u),
                        thr'[u] \in {"ready", "opened"} \/ link'[u].out # <<>>,
                        NEW s \in Server \ {u[2]}
                 PROVE  thr'[<<u[1], s>>] = "none" /\ link'[<<u[1], s>>] = NoLink
    BY DEF HandledOnce, IsTop, Top
  <2>2. thr[u] \in {"ready", "opened"} \/ link[u].out # <<>>
    BY <2>1
  <2>3. /\ thr[<<u[1], s>>] = "none" /\ link[<<u[1], s>>] = NoLink
        /\ <<u[1], s>> \in Thread
    BY <2>1, <2>2, ThreadPair DEF ConnInv, HandledOnce
  <2>. QED  BY <2>3
<1>. QED  BY <1>1, <1>2, <1>3 DEF ThreadInv

LEMMA OpenStep ==
  ASSUME ConnInv, NEW t \in Thread, Open(t)
  PROVE  ConnInv'
<1>. DEFINE p == Owner(t)  s == t[2]
<1>1. /\ thr[t] = "ready" /\ StubOf(t) = NoSession
      /\ stub' = [stub EXCEPT ![p][s] = t]
      /\ link' = [link EXCEPT ![t].side = "open", ![t].at = "queued"]
      /\ backlog' = [backlog EXCEPT ![s] = Append(@, t)]
      /\ thr' = [thr EXCEPT ![t] = "opened"]
      /\ UNCHANGED <<dead, stops, req, got>>
  BY StubFree DEF Open, Runs
<1>2. p \in Process /\ s \in Server /\ req[t[1]] # NoCall
  BY <1>1, OwnerUses, ThreadPair DEF ConnInv, ThreadOfCall
<1>3. TypeOK'
  <2>1. stub' \in [Process -> [Server -> Thread \cup {NoSession}]]
    <3>1. PICK row : row = [stub[p] EXCEPT ![s] = t]
      OBVIOUS
    <3>2. stub' = [stub EXCEPT ![p] = row]
      BY <1>1, <3>1
    <3>. HIDE DEF p, s
    <3>. QED  BY <1>2, <3>1, <3>2, StubSet DEF ConnInv
  <2>2. link' \in [Thread -> LinkType]
    <3>1. PICK l : l = [link[t] EXCEPT !.side = "open", !.at = "queued"]
      OBVIOUS
    <3>2. link[t] \in LinkType
      BY DEF ConnInv, TypeOK, LinkType
    <3>3. l \in LinkType
      BY <3>1, <3>2 DEF LinkType
    <3>4. link' = [link EXCEPT ![t] = l]
      BY <1>1, <3>1
    <3>. QED  BY <3>3, <3>4 DEF ConnInv, TypeOK, LinkType
  <2>3. backlog' \in [Server -> Seq(Thread)]
    <3>1. Append(backlog[s], t) \in Seq(Thread)
      BY <1>2 DEF ConnInv, TypeOK
    <3>. QED  BY <1>1, <1>2, <3>1 DEF ConnInv, TypeOK
  <2>. QED  BY <1>1, <2>1, <2>2, <2>3 DEF ConnInv, TypeOK, LinkType
<1>4. CallsApart'
  BY <1>1 DEF ConnInv, CallsApart
<1>5. /\ thr'[t] = "opened" /\ got'[t] = got[t] /\ Owner(t)' = Owner(t)
      /\ stub'[p][s] = t
      /\ link'[t].out = link[t].out /\ link'[t].in = link[t].in /\ link'[t].busy = link[t].busy
  <2>1. thr'[t] = "opened" /\ got'[t] = got[t] /\ Owner(t)' = Owner(t)
    BY <1>1 DEF ConnInv, TypeOK, Owner, IsTop, Top
  <2>2. stub'[p][s] = t
    BY <1>1, <1>2 DEF ConnInv, TypeOK
  <2>3. link'[t].out = link[t].out /\ link'[t].in = link[t].in /\ link'[t].busy = link[t].busy
    BY <1>1 DEF ConnInv, TypeOK
  <2>. QED  BY <2>1, <2>2, <2>3
<1>6. ASSUME NEW q \in Process, NEW z \in Server
      PROVE  StubOfThread(q, z)'
  <2>1. CASE q = p /\ z = s
    BY <1>1, <1>2, <1>5, <2>1 DEF StubOfThread
  <2>2. CASE ~(q = p /\ z = s)
    <3>1. stub'[q][z] = stub[q][z] /\ stub[q][z] \in Thread \cup {NoSession}
      BY <1>1, <2>2 DEF ConnInv, TypeOK
    <3>2. StubOfThread(q, z)
      BY DEF ConnInv
    <3>3. PICK l : l = stub[q][z]
      OBVIOUS
    <3>4. CASE l = NoSession
      BY <3>1, <3>3, <3>4 DEF StubOfThread
    <3>5. CASE l # NoSession
      <4>1. /\ l \in Thread /\ l[2] = z /\ req[l[1]] # NoCall /\ Owner(l) = q
            /\ thr[l] \in {"opened", "waits", "got"}
        BY <3>1, <3>2, <3>3, <3>5 DEF StubOfThread
      <4>2. thr'[l] = thr[l] /\ Owner(l)' = q
        BY <1>1, <4>1 DEF ConnInv, TypeOK, Owner, IsTop, Top
      <4>. QED  BY <1>1, <3>1, <3>3, <4>1, <4>2 DEF StubOfThread
    <3>. QED  BY <3>4, <3>5
  <2>. QED  BY <2>1, <2>2
<1>7. ASSUME NEW u \in Thread \ {t}
      PROVE  /\ thr'[u] = thr[u] /\ got'[u] = got[u] /\ link'[u] = link[u]
             /\ thr[u] \in {"opened", "waits", "got"} => StubOf(u)' = StubOf(u)
  <2>1. thr'[u] = thr[u] /\ got'[u] = got[u] /\ link'[u] = link[u]
    BY <1>1 DEF ConnInv, TypeOK
  <2>2. ASSUME thr[u] \in {"opened", "waits", "got"}
        PROVE  StubOf(u)' = StubOf(u)
    <3>1. ~(Owner(u) = p /\ u[2] = s) /\ Owner(u) \in Process /\ u[2] \in Server
      BY <1>1, <2>2, OneUser, OwnerUses, ThreadPair DEF ConnInv
    <3>2. Owner(u)' = Owner(u)
      BY <1>1 DEF Owner, IsTop, Top
    <3>. QED  BY <1>1, <3>1, <3>2 DEF ConnInv, TypeOK, StubOf
  <2>. QED  BY <2>1, <2>2
<1>8. ThreadHasStub(t)' /\ OneRequest(t)'
  BY <1>1, <1>5 DEF ConnInv, ThreadHasStub, OneRequest, StubOf
<1>9. \A u \in Thread : ThreadInv(u)'
  <2>1. /\ thr[t] # "none" /\ thr[t] \in {"ready", "opened"} /\ req' = req
    BY <1>1
  <2>. QED  BY <1>7, <1>8, <2>1, OthersKept
<1>. QED  BY <1>3, <1>4, <1>6, <1>9 DEF ConnInv, ThreadInv


\* A connection that changes.
LEMMA LinkSet ==
  ASSUME TypeOK, NEW t \in Thread, NEW l \in LinkType, link' = [link EXCEPT ![t] = l]
  PROVE  /\ link' \in [Thread -> LinkType] /\ link'[t] = l
         /\ \A u \in Thread \ {t} : link'[u] = link[u]
BY DEF TypeOK, LinkType

\* Open stubs stay with threads that keep theirs.
LEMMA StubsKept ==
  ASSUME ConnInv, UNCHANGED <<stub, req>>,
         \A u \in Thread : thr[u] \in {"opened", "waits", "got"}
                             => thr'[u] \in {"opened", "waits", "got"}
  PROVE  /\ \A p \in Process, s \in Server : StubOfThread(p, s)'
         /\ \A u \in Thread : StubOf(u)' = StubOf(u) /\ Owner(u)' = Owner(u)
<1>1. ASSUME NEW p \in Process, NEW s \in Server
      PROVE  StubOfThread(p, s)'
  <2>1. PICK l : l = stub[p][s]
    OBVIOUS
  <2>2. StubOfThread(p, s) /\ l \in Thread \cup {NoSession}
    BY <2>1 DEF ConnInv, TypeOK
  <2>. QED  BY <2>1, <2>2 DEF StubOfThread, Owner, IsTop, Top
<1>2. \A u \in Thread : StubOf(u)' = StubOf(u) /\ Owner(u)' = Owner(u)
  BY DEF StubOf, Owner, IsTop, Top
<1>. QED  BY <1>1, <1>2

LEMMA SendStep ==
  ASSUME ConnInv, NEW t \in Thread, Send(t)
  PROVE  ConnInv'
<1>1. /\ thr[t] = "opened" /\ StubOf(t) = t
      /\ link' = [link EXCEPT ![t].out = Append(@, t)]
      /\ thr' = [thr EXCEPT ![t] = "waits"]
      /\ UNCHANGED <<dead, stops, req, got, stub, backlog>>
  BY StubHeld DEF Send, Runs
<1>2. PICK l : l = [link[t] EXCEPT !.out = Append(@, t)]
  OBVIOUS
<1>3. /\ link[t] \in LinkType /\ link[t].out = <<>> /\ link[t].in = <<>> /\ link[t].busy = {}
  BY <1>1 DEF ConnInv, OneRequest, TypeOK, LinkType
<1>4. /\ l \in LinkType /\ l.out = <<t>> /\ l.in = <<>> /\ l.busy = {}
  BY <1>2, <1>3, OneMessage DEF LinkType
<1>5. link' = [link EXCEPT ![t] = l]
  BY <1>1, <1>2
<1>6. /\ link' \in [Thread -> LinkType] /\ link'[t] = l
      /\ \A u \in Thread \ {t} : link'[u] = link[u]
  BY <1>4, <1>5, LinkSet DEF ConnInv
<1>7. /\ thr'[t] = "waits"
      /\ \A u \in Thread \ {t} : thr'[u] = thr[u]
  BY <1>1 DEF ConnInv, TypeOK
<1>8. TypeOK'
  BY <1>1, <1>6 DEF ConnInv, TypeOK, LinkType
<1>9. CallsApart'
  BY <1>1 DEF ConnInv, CallsApart
<1>10. /\ \A p \in Process, s \in Server : StubOfThread(p, s)'
       /\ \A u \in Thread : StubOf(u)' = StubOf(u)
  BY <1>1, <1>7, StubsKept
<1>11. ThreadHasStub(t)'
  BY <1>1, <1>7, <1>10 DEF ConnInv, ThreadHasStub
<1>12. OneRequest(t)'
  BY <1>4, <1>6, <1>7 DEF OneRequest
<1>13. \A u \in Thread : ThreadInv(u)'
  BY <1>1, <1>6, <1>7, <1>10, <1>11, <1>12, OthersKept
<1>. QED  BY <1>8, <1>9, <1>10, <1>13 DEF ConnInv, ThreadInv

\* The answer on the connection of a thread is its own.
LEMMA ReceiveStep ==
  ASSUME ConnInv, NEW t \in Thread, Receive(t)
  PROVE  ConnInv'
<1>1. /\ thr[t] = "waits" /\ StubOf(t) = t
      /\ link[t].in # <<>>
      /\ got' = [got EXCEPT ![t] = Head(link[t].in)]
      /\ thr' = [thr EXCEPT ![t] =
                   IF Method(Head(link[t].in)) = Method(t) THEN "got" ELSE "lost"]
      /\ link' = [link EXCEPT ![t].in = Tail(@)]
      /\ UNCHANGED <<dead, stops, req, stub, backlog>>
  BY StubHeld DEF Receive, Runs
<1>2. PICK l : l = [link[t] EXCEPT !.in = Tail(@)]
  OBVIOUS
<1>3. /\ link[t] \in LinkType /\ link[t].in = <<t>> /\ link[t].out = <<>> /\ link[t].busy = {}
  BY <1>1 DEF ConnInv, OneRequest, TypeOK, LinkType
<1>4. /\ l \in LinkType /\ l.in = <<>> /\ l.out = <<>> /\ l.busy = {}
      /\ Head(link[t].in) = t
  BY <1>2, <1>3, OneMessage DEF LinkType
<1>5. link' = [link EXCEPT ![t] = l]
  BY <1>1, <1>2
<1>6. /\ link' \in [Thread -> LinkType] /\ link'[t] = l
      /\ \A u \in Thread \ {t} : link'[u] = link[u]
  BY <1>4, <1>5, LinkSet DEF ConnInv
<1>7. thr' = [thr EXCEPT ![t] = "got"] /\ got' = [got EXCEPT ![t] = t]
  BY <1>1, <1>4
<1>8. /\ thr'[t] = "got" /\ got'[t] = t
      /\ \A u \in Thread \ {t} : thr'[u] = thr[u] /\ got'[u] = got[u]
  BY <1>7 DEF ConnInv, TypeOK
<1>9. TypeOK'
  <2>1. thr' \in [Thread -> {"none", "ready", "opened", "waits", "got", "lost", "ended"}]
    BY <1>7 DEF ConnInv, TypeOK
  <2>2. got' \in [Thread -> Thread \cup {NoCall}]
    BY <1>7 DEF ConnInv, TypeOK
  <2>. QED  BY <1>1, <1>6, <2>1, <2>2 DEF ConnInv, TypeOK, LinkType
<1>10. CallsApart'
  BY <1>1 DEF ConnInv, CallsApart
<1>11. /\ \A p \in Process, s \in Server : StubOfThread(p, s)'
       /\ \A u \in Thread : StubOf(u)' = StubOf(u)
  BY <1>1, <1>8, StubsKept
<1>12. ThreadHasStub(t)'
  BY <1>1, <1>8, <1>11 DEF ThreadHasStub
<1>13. OneRequest(t)'
  BY <1>4, <1>6, <1>8 DEF OneRequest
<1>14. \A u \in Thread : ThreadInv(u)'
  BY <1>1, <1>4, <1>6, <1>8, <1>11, <1>12, <1>13, OthersKept
<1>. QED  BY <1>9, <1>10, <1>11, <1>14 DEF ConnInv, ThreadInv

LEMMA AcceptStep ==
  ASSUME ConnInv, NEW t \in Thread, Accept(t)
  PROVE  ConnInv'
<1>1. /\ link[t].at = "queued" /\ backlog[t[2]] # <<>>
      /\ link' = [link EXCEPT ![t].at = "served"]
      /\ backlog' = [backlog EXCEPT ![t[2]] = Tail(@)]
      /\ UNCHANGED <<dead, stops, req, thr, got, stub>>
  BY DEF Accept
<1>2. PICK l : l = [link[t] EXCEPT !.at = "served"]
  OBVIOUS
<1>3. /\ link[t] \in LinkType /\ link[t] # NoLink
  BY <1>1 DEF ConnInv, TypeOK, LinkType, NoLink
<1>4. /\ l \in LinkType
      /\ l.in = link[t].in /\ l.out = link[t].out /\ l.busy = link[t].busy
  BY <1>2, <1>3 DEF LinkType
<1>5. link' = [link EXCEPT ![t] = l]
  BY <1>1, <1>2
<1>6. /\ link' \in [Thread -> LinkType] /\ link'[t] = l
      /\ \A u \in Thread \ {t} : link'[u] = link[u]
  BY <1>4, <1>5, LinkSet DEF ConnInv
<1>7. backlog' \in [Server -> Seq(Thread)]
  <2>1. Tail(backlog[t[2]]) \in Seq(Thread)
    BY <1>1, ThreadPair, HeadTailProperties DEF ConnInv, TypeOK
  <2>. QED  BY <1>1, <2>1, ThreadPair DEF ConnInv, TypeOK
<1>8. TypeOK'
  BY <1>1, <1>6, <1>7 DEF ConnInv, TypeOK, LinkType
<1>9. CallsApart'
  BY <1>1 DEF ConnInv, CallsApart
<1>10. /\ \A p \in Process, s \in Server : StubOfThread(p, s)'
       /\ \A u \in Thread : StubOf(u)' = StubOf(u)
  BY <1>1, StubsKept
<1>11. ThreadHasStub(t)' /\ OneRequest(t)'
  BY <1>1, <1>4, <1>6, <1>10 DEF ConnInv, ThreadHasStub, OneRequest
<1>12. \A u \in Thread : ThreadInv(u)'
  BY <1>1, <1>3, <1>4, <1>6, <1>10, <1>11, OthersKept
<1>. QED  BY <1>8, <1>9, <1>10, <1>12 DEF ConnInv, ThreadInv

LEMMA RestartStep ==
  ASSUME ConnInv, NEW s \in Server, Restart(s)
  PROVE  ConnInv'
<1>1. UNCHANGED <<stops, req, thr, got, stub, link, backlog>> /\ dead' \subseteq dead
  BY DEF Restart
<1>2. TypeOK'
  BY <1>1 DEF ConnInv, TypeOK
<1>3. CallsApart'
  BY <1>1 DEF ConnInv, CallsApart
<1>4. \A p \in Process, z \in Server : StubOfThread(p, z)'
  BY <1>1, StubsKept
<1>5. ASSUME NEW u \in Thread
      PROVE  ThreadInv(u)'
  <2>1. ThreadOfCall(u)' /\ ThreadHasStub(u)' /\ OneRequest(u)'
    BY <1>1, StubsKept, ThreadFrame DEF ConnInv
  <2>2. HandledOnce(u)'
    BY <1>1 DEF ConnInv, HandledOnce, IsTop, Top
  <2>. QED  BY <2>1, <2>2 DEF ThreadInv
<1>. QED  BY <1>2, <1>3, <1>4, <1>5 DEF ConnInv, ThreadInv


-----------------------------------------------------------------------------
(***************************************************************************)
(* The end of a connection, of a handler and of a process.                 *)
(***************************************************************************)

\* A step in which threads and connections end: nothing begins, and what is left
\* is in order.
LEMMA EndsKept ==
  ASSUME ConnInv, Forget,
         \A u \in Thread :
           /\ thr[u] = "none" => thr'[u] = "none"
           /\ link[u] = NoLink => link'[u] = NoLink
           /\ thr'[u] \in {"ready", "opened"} => thr'[u] = thr[u]
           /\ link'[u].out # <<>> => link[u].out # <<>>
           /\ ThreadHasStub(u)' /\ OneRequest(u)'
  PROVE  \A u \in Thread : ThreadInv(u)'
<1>1. \A u \in Thread : thr'[u] # "none" \/ link'[u] # NoLink => req'[u[1]] = req[u[1]]
  BY ForgetFewer DEF ConnInv
<1>2. ASSUME NEW u \in Thread
      PROVE  ThreadOfCall(u)'
  BY <1>1 DEF ConnInv, ThreadOfCall, IsTop, Top
<1>3. ASSUME NEW u \in Thread
      PROVE  HandledOnce(u)'
  <2>1. SUFFICES ASSUME req'[u[1]] # NoCall, IsTop(u)',
                        thr'[u] \in {"ready", "opened"} \/ link'[u].out # <<>>,
                        NEW s \in Server \ {u[2]}
                 PROVE  thr'[<<u[1], s>>] = "none" /\ link'[<<u[1], s>>] = NoLink
    BY DEF HandledOnce
  <2>2. thr[u] \in {"ready", "opened"} \/ link[u].out # <<>>
    BY <2>1
  <2>3. req'[u[1]] = req[u[1]] /\ IsTop(u)
    <3>1. thr'[u] # "none" \/ link'[u] # NoLink
      BY <2>1 DEF NoLink
    <3>. QED  BY <1>1, <2>1, <3>1 DEF IsTop, Top
  <2>4. /\ thr[<<u[1], s>>] = "none" /\ link[<<u[1], s>>] = NoLink
        /\ <<u[1], s>> \in Thread
    BY <2>1, <2>2, <2>3, ThreadPair DEF ConnInv, HandledOnce
  <2>. QED  BY <2>4
<1>. QED  BY <1>2, <1>3 DEF ConnInv, ThreadInv

\* Stubs that are left open are those of threads that keep them.
LEMMA StubsLeft ==
  ASSUME ConnInv, Forget,
         \A p \in Process, s \in Server :
           stub'[p][s] # NoSession =>
             stub'[p][s] = stub[p][s] /\ thr'[stub[p][s]] = thr[stub[p][s]]
  PROVE  \A p \in Process, s \in Server : StubOfThread(p, s)'
<1>. SUFFICES ASSUME NEW p \in Process, NEW s \in Server, stub'[p][s] # NoSession
              PROVE  StubOfThread(p, s)'
  BY DEF StubOfThread
<1>1. PICK l : l = stub[p][s]
  OBVIOUS
<1>2. /\ l \in Thread /\ l # NoSession /\ stub'[p][s] = l /\ thr'[l] = thr[l]
      /\ l[2] = s /\ req[l[1]] # NoCall /\ Owner(l) = p
      /\ thr[l] \in {"opened", "waits", "got"}
  BY <1>1 DEF ConnInv, TypeOK, StubOfThread
<1>3. req'[l[1]] = req[l[1]]
  BY <1>2, ForgetFewer DEF ConnInv
<1>. QED  BY <1>2, <1>3 DEF StubOfThread, Owner, IsTop, Top

\* A thread that goes on keeps its stub.
LEMMA StubLeft ==
  ASSUME ConnInv, Forget, NEW u \in Thread, thr[u] \in {"opened", "waits", "got"},
         thr'[u] = thr[u],
         stub'[Owner(u)][u[2]] = stub[Owner(u)][u[2]]
  PROVE  StubOf(u)' = u
<1>1. req'[u[1]] = req[u[1]]
  BY ForgetFewer DEF ConnInv
<1>2. Owner(u)' = Owner(u)
  BY <1>1 DEF Owner, IsTop, Top
<1>. QED  BY <1>2, StubHeld DEF StubOf

LEMMA CloseStep ==
  ASSUME ConnInv, NEW t \in Thread, Close(t)
  PROVE  ConnInv'
<1>. DEFINE p == Owner(t)  s == t[2]
<1>1. /\ thr[t] = "got" /\ StubOf(t) = t
      /\ stub' = [stub EXCEPT ![p][s] = NoSession]
      /\ link' = [l \in Thread |-> IF l = t THEN WithoutClient(link[l]) ELSE link[l]]
      /\ thr' = [thr EXCEPT ![t] = IF IsTop(t) THEN "none" ELSE "ended"]
      /\ got' = [got EXCEPT ![t] = NoCall]
      /\ Forget
      /\ UNCHANGED <<dead, stops, backlog>>
  BY StubHeld DEF Close, Runs
<1>2. p \in Process /\ s \in Server
  BY <1>1, OwnerUses, ThreadPair DEF ConnInv
<1>3. /\ stub' \in [Process -> [Server -> Thread \cup {NoSession}]]
      /\ stub'[p][s] = NoSession
      /\ \A q \in Process, z \in Server : ~(q = p /\ z = s) => stub'[q][z] = stub[q][z]
  <2>1. stub' \in [Process -> [Server -> Thread \cup {NoSession}]]
    BY <1>1, <1>2 DEF ConnInv, TypeOK
  <2>2. stub'[p][s] = NoSession
    BY <1>1, <1>2 DEF ConnInv, TypeOK
  <2>3. ASSUME NEW q \in Process, NEW z \in Server, ~(q = p /\ z = s)
        PROVE  stub'[q][z] = stub[q][z]
    BY <1>1, <2>3 DEF ConnInv, TypeOK
  <2>. QED  BY <2>1, <2>2, <2>3
<1>4. /\ req' \in [Calls -> Request \cup {NoCall}] /\ Fewer
  BY <1>1, ForgetFewer DEF ConnInv
<1>5. \A u \in Thread : link[u] \in LinkType
  BY DEF ConnInv, TypeOK, LinkType
<1>6. /\ thr'[t] \in {"none", "ended"} /\ got'[t] = NoCall
      /\ \A u \in Thread \ {t} : thr'[u] = thr[u] /\ got'[u] = got[u] /\ link'[u] = link[u]
      /\ link'[t] = WithoutClient(link[t])
  BY <1>1 DEF ConnInv, TypeOK
<1>7. TypeOK'
  <2>1. link' \in [Thread -> LinkType]
    BY <1>1, <1>5, WithoutType
  <2>2. thr' \in [Thread -> {"none", "ready", "opened", "waits", "got", "lost", "ended"}]
    BY <1>1 DEF ConnInv, TypeOK
  <2>3. got' \in [Thread -> Thread \cup {NoCall}]
    BY <1>1 DEF ConnInv, TypeOK
  <2>. QED  BY <1>1, <1>3, <1>4, <2>1, <2>2, <2>3 DEF ConnInv, TypeOK, LinkType
<1>8. CallsApart'
  BY <1>4, FewerApart DEF ConnInv
<1>9. \A q \in Process, z \in Server : StubOfThread(q, z)'
  <2>1. ASSUME NEW q \in Process, NEW z \in Server, stub'[q][z] # NoSession
        PROVE  stub'[q][z] = stub[q][z] /\ thr'[stub[q][z]] = thr[stub[q][z]]
    <3>1. ~(q = p /\ z = s)
      BY <1>3, <2>1
    <3>2. PICK l : l = stub[q][z]
      OBVIOUS
    <3>3. stub'[q][z] = l /\ l \in Thread /\ l[2] = z /\ Owner(l) = q
      BY <1>3, <2>1, <3>1, <3>2 DEF ConnInv, TypeOK, StubOfThread
    <3>4. l # t
      BY <3>1, <3>3
    <3>. QED  BY <1>6, <3>2, <3>3, <3>4
  <2>. QED  BY <1>1, <2>1, StubsLeft
<1>10. ASSUME NEW u \in Thread
       PROVE  /\ thr[u] = "none" => thr'[u] = "none"
              /\ link[u] = NoLink => link'[u] = NoLink
              /\ thr'[u] \in {"ready", "opened"} => thr'[u] = thr[u]
              /\ link'[u].out # <<>> => link[u].out # <<>>
              /\ ThreadHasStub(u)' /\ OneRequest(u)'
  <2>1. CASE u = t
    <3>1. ThreadHasStub(u)'
      BY <1>6, <2>1 DEF ThreadHasStub
    <3>2. OneRequest(u)'
      BY <1>5, <1>6, <2>1, WithoutKeeps DEF ConnInv, OneRequest
    <3>. QED  BY <1>1, <1>5, <1>6, <2>1, <3>1, <3>2, WithoutKeeps
  <2>2. CASE u # t
    <3>1. thr'[u] = thr[u] /\ got'[u] = got[u] /\ link'[u] = link[u]
      BY <1>6, <2>2
    <3>2. ASSUME thr[u] \in {"opened", "waits", "got"}
          PROVE  StubOf(u)' = u
      <4>1. ~(Owner(u) = p /\ u[2] = s)
        BY <1>1, <2>2, <3>2, OneUser DEF ConnInv
      <4>2. Owner(u) \in Process /\ u[2] \in Server
        BY <3>2, OwnerUses, ThreadPair DEF ConnInv
      <4>. QED  BY <1>1, <1>3, <3>1, <3>2, <4>1, <4>2, StubLeft
    <3>3. ThreadHasStub(u)'
      BY <3>1, <3>2 DEF ConnInv, ThreadHasStub
    <3>4. OneRequest(u)'
      BY <3>1 DEF ConnInv, OneRequest
    <3>. QED  BY <3>1, <3>3, <3>4
  <2>. QED  BY <2>1, <2>2
<1>11. \A u \in Thread : ThreadInv(u)'
  BY <1>1, <1>10, EndsKept
<1>. QED  BY <1>7, <1>8, <1>9, <1>11 DEF ConnInv, ThreadInv


\* A worker that has read the end of a connection.
LEMMA EndSessionStep ==
  ASSUME ConnInv, NEW t \in Thread, EndSession(t)
  PROVE  ConnInv'
<1>1. /\ link' = [link EXCEPT ![t] = NoLink]
      /\ Forget
      /\ UNCHANGED <<dead, stops, thr, got, stub, backlog>>
  BY DEF EndSession
<1>2. /\ link' \in [Thread -> LinkType] /\ link'[t] = NoLink
      /\ \A u \in Thread \ {t} : link'[u] = link[u]
  BY <1>1, NoLinkType, LinkSet DEF ConnInv
<1>3. /\ req' \in [Calls -> Request \cup {NoCall}] /\ Fewer
  BY <1>1, ForgetFewer DEF ConnInv
<1>4. TypeOK'
  BY <1>1, <1>2, <1>3 DEF ConnInv, TypeOK, LinkType
<1>5. CallsApart'
  BY <1>3, FewerApart DEF ConnInv
<1>6. \A p \in Process, s \in Server : StubOfThread(p, s)'
  BY <1>1, StubsLeft
<1>7. ASSUME NEW u \in Thread
      PROVE  ThreadHasStub(u)' /\ OneRequest(u)'
  <2>1. thr'[u] = thr[u] /\ got'[u] = got[u]
    BY <1>1
  <2>2. thr[u] \in {"opened", "waits", "got"} => StubOf(u)' = u
    BY <1>1, StubLeft
  <2>3. ThreadHasStub(u)'
    BY <2>1, <2>2 DEF ConnInv, ThreadHasStub
  <2>4. OneRequest(u)'
    BY <1>2, <2>1 DEF ConnInv, OneRequest, NoLink
  <2>. QED  BY <2>3, <2>4
<1>8. \A u \in Thread : ThreadInv(u)'
  BY <1>1, <1>2, <1>7, EndsKept DEF NoLink
<1>. QED  BY <1>4, <1>5, <1>6, <1>8 DEF ConnInv, ThreadInv

\* A process that ends, whoever its threads are waiting for.
LEMMA EndsStep ==
  ASSUME ConnInv, NEW p \in Process, Ends(p), stops' \in 0..MaxStop
  PROVE  ConnInv'
<1>. DEFINE own(u) == req[u[1]] # NoCall /\ Owner(u) = p
<1>1. /\ dead' = dead \cup {p}
      /\ thr' = [t \in Thread |-> IF own(t) THEN "none" ELSE thr[t]]
      /\ got' = [t \in Thread |-> IF own(t) THEN NoCall ELSE got[t]]
      /\ stub' = [stub EXCEPT ![p] = [s \in Server |-> NoSession]]
      /\ link' = [t \in Thread |-> IF own(t) THEN WithoutClient(link[t])
                                   ELSE IF t[2] = p THEN WithoutServer(link[t])
                                   ELSE link[t]]
      /\ backlog' = [s \in Server |-> IF s = p THEN <<>> ELSE backlog[s]]
      /\ Forget
  BY DEF Ends
<1>2. \A u \in Thread : link[u] \in LinkType
  BY DEF ConnInv, TypeOK, LinkType
<1>3. /\ req' \in [Calls -> Request \cup {NoCall}] /\ Fewer
  BY <1>1, ForgetFewer DEF ConnInv
<1>4. TypeOK'
  <2>1. link' \in [Thread -> LinkType]
    BY <1>1, <1>2, WithoutType
  <2>2. /\ thr' \in [Thread -> {"none", "ready", "opened", "waits", "got", "lost", "ended"}]
        /\ got' \in [Thread -> Thread \cup {NoCall}]
    BY <1>1 DEF ConnInv, TypeOK
  <2>3. stub' \in [Process -> [Server -> Thread \cup {NoSession}]]
    BY <1>1 DEF ConnInv, TypeOK
  <2>4. backlog' \in [Server -> Seq(Thread)]
    BY <1>1 DEF ConnInv, TypeOK
  <2>5. dead' \subseteq Process
    BY <1>1 DEF ConnInv, TypeOK
  <2>. QED  BY <1>3, <2>1, <2>2, <2>3, <2>4, <2>5 DEF TypeOK, LinkType
<1>5. CallsApart'
  BY <1>3, FewerApart DEF ConnInv
<1>6. \A q \in Process, z \in Server :
        stub'[q][z] = IF q = p THEN NoSession ELSE stub[q][z]
  BY <1>1 DEF ConnInv, TypeOK
<1>7. \A q \in Process, z \in Server : StubOfThread(q, z)'
  <2>1. ASSUME NEW q \in Process, NEW z \in Server, stub'[q][z] # NoSession
        PROVE  stub'[q][z] = stub[q][z] /\ thr'[stub[q][z]] = thr[stub[q][z]]
    <3>1. PICK l : l = stub[q][z]
      OBVIOUS
    <3>2. q # p /\ stub'[q][z] = l /\ l \in Thread /\ Owner(l) = q
      BY <1>6, <2>1, <3>1 DEF ConnInv, TypeOK, StubOfThread
    <3>. QED  BY <1>1, <3>1, <3>2
  <2>. QED  BY <1>1, <2>1, StubsLeft
<1>8. ASSUME NEW u \in Thread
      PROVE  /\ thr[u] = "none" => thr'[u] = "none"
             /\ link[u] = NoLink => link'[u] = NoLink
             /\ thr'[u] \in {"ready", "opened"} => thr'[u] = thr[u]
             /\ link'[u].out # <<>> => link[u].out # <<>>
             /\ ThreadHasStub(u)' /\ OneRequest(u)'
  <2>1. PICK l : l = link'[u]
    OBVIOUS
  <2>2. /\ l \in {WithoutClient(link[u]), WithoutServer(link[u]), link[u]}
        /\ thr'[u] = IF own(u) THEN "none" ELSE thr[u]
        /\ got'[u] = IF own(u) THEN NoCall ELSE got[u]
    BY <1>1, <2>1
  <2>3. /\ l.out \in {<<>>, link[u].out} /\ l.in \in {<<>>, link[u].in}
        /\ l.busy \in {{}, link[u].busy}
        /\ link[u] = NoLink => l = NoLink
    BY <1>2, <2>2, WithoutKeeps
  <2>4. ASSUME ~own(u), thr[u] \in {"opened", "waits", "got"}
        PROVE  StubOf(u)' = u
    <3>1. Owner(u) \in Process /\ u[2] \in Server /\ Owner(u) # p
      BY <2>4, OwnerUses, ThreadPair DEF ConnInv, ThreadOfCall
    <3>. QED  BY <1>1, <1>6, <2>2, <2>4, <3>1, StubLeft
  <2>5. ThreadHasStub(u)'
    <3>. HIDE DEF own
    <3>1. CASE own(u)
      BY <2>2, <3>1 DEF ThreadHasStub
    <3>2. CASE ~own(u)
      BY <2>2, <2>4, <3>2 DEF ConnInv, ThreadHasStub
    <3>. QED  BY <3>1, <3>2
  <2>6. OneRequest(u)'
    <3>1. OneRequest(u) /\ thr'[u] \in {"none", thr[u]}
      BY <2>2 DEF ConnInv
    <3>2. /\ l.out \in {<<>>, <<u>>} /\ l.in \in {<<>>, <<u>>} /\ l.busy \subseteq {u}
          /\ l.out # <<>> => l.in = <<>> /\ l.busy = {}
          /\ l.in # <<>> => l.busy = {}
          /\ thr'[u] \in {"ready", "opened"} => l.out = <<>> /\ l.in = <<>> /\ l.busy = {}
      BY <2>3, <3>1 DEF OneRequest
    <3>. QED  BY <2>1, <3>2 DEF OneRequest
  <2>. HIDE DEF own
  <2>. QED  BY <2>1, <2>2, <2>3, <2>5, <2>6
<1>9. \A u \in Thread : ThreadInv(u)'
  BY <1>1, <1>8, EndsKept
<1>. QED  BY <1>4, <1>5, <1>7, <1>9 DEF ConnInv, ThreadInv


\* A thread that throws has lost its server, and nothing else.
LEMMA ThrowsBecause ==
  ASSUME ConnectionsAssumption, ConnInv, NEW t \in Thread, Throws(t)
  PROVE  thr[t] # "none" /\ ServerGone(t) /\ Owner(t) \in Process /\ Ends(Owner(t))
<1>1. thr[t] # "none" /\ Owner(t) \in Process /\ Ends(Owner(t))
  BY OwnerUses DEF Throws, ConnInv
<1>2. thr[t] # "lost"
  BY DEF ConnInv, ThreadHasStub
<1>3. thr[t] \in {"opened", "waits"} => StubOf(t) # NoSession
  BY StubHeld DEF ConnectionsAssumption
<1>. QED  BY <1>1, <1>2, <1>3 DEF Throws

LEMMA ThrowsStep ==
  ASSUME ConnectionsAssumption, ConnInv, NEW t \in Thread, Throws(t)
  PROVE  ConnInv'
<1>1. stops' \in 0..MaxStop
  BY DEF Throws, ConnInv, TypeOK
<1>. QED  BY <1>1, ThrowsBecause, EndsStep

LEMMA StopStep ==
  ASSUME ConnectionsAssumption, ConnInv, NEW s \in Server, Stop(s)
  PROVE  ConnInv'
<1>1. stops' \in 0..MaxStop
  BY DEF ConnectionsAssumption, Stop, ConnInv, TypeOK
<1>2. s \in Process /\ Ends(s)
  BY DEF Process, Stop
<1>. QED  BY <1>1, <1>2, EndsStep

-----------------------------------------------------------------------------
(***************************************************************************)
(* Handlers.                                                               *)
(***************************************************************************)

\* The answer to the only request of a connection.
LEMMA AnswerIs ==
  ASSUME NEW l \in LinkType, NEW t \in Thread, l.in = <<>>
  PROVE  Answer(l, t) \in {<<>>, <<t>>} /\ Answer(l, t) \in Seq(Thread)
BY OneMessage DEF Answer

\* The servers a handler calls are other ones.
LEMMA OtherServers ==
  ASSUME ConnectionsAssumption, NEW r \in Request
  PROVE  Targets(r) \subseteq Server /\ r.srv \notin Targets(r)
BY DEF ConnectionsAssumption, Request, Targets, Server

LEMMA HandleStep ==
  ASSUME ConnectionsAssumption, ConnInv, NEW t \in Thread, Handle(t)
  PROVE  ConnInv'
<1>. DEFINE c == t[1]
            needs == IF IsTop(t) THEN Targets(req[c]) ELSE {}
<1>1. /\ link[t] \in LinkType
      /\ link[t].out = <<t>> /\ link[t].in = <<>> /\ link[t].busy = {}
      /\ Head(link[t].out) = t
      /\ link[t] # NoLink
  <2>1. link[t].out # <<>>
    BY DEF Handle
  <2>2. link[t] \in LinkType /\ OneRequest(t)
    BY DEF ConnInv, TypeOK, LinkType
  <2>3. link[t].out = <<t>> /\ link[t].in = <<>> /\ link[t].busy = {}
    BY <2>1, <2>2 DEF OneRequest
  <2>. QED  BY <2>1, <2>2, <2>3, OneMessage DEF NoLink
<1>2. /\ link' = [link EXCEPT ![t].out = Tail(@),
                    ![t].busy = IF needs = {} THEN {} ELSE {t},
                    ![t].in = IF needs = {} THEN Answer(link[t], t) ELSE @]
      /\ thr' = [u \in Thread |->
                   IF u[1] = c /\ u[2] \in needs THEN "ready" ELSE thr[u]]
      /\ UNCHANGED <<dead, stops, req, got, stub, backlog>>
  BY <1>1 DEF Handle
<1>3. /\ req[c] \in Request /\ req[c] # NoCall /\ c \in Calls
      /\ needs \subseteq Server /\ (IsTop(t) => t[2] \notin needs)
      /\ ~IsTop(t) => needs = {}
  BY <1>1, OtherServers, ThreadPair DEF ConnInv, ThreadOfCall, TypeOK, IsTop, Top
<1>. HIDE DEF needs
<1>4. PICK l : l = [link[t] EXCEPT !.out = Tail(@),
                     !.busy = IF needs = {} THEN {} ELSE {t},
                     !.in = IF needs = {} THEN Answer(link[t], t) ELSE @]
  OBVIOUS
<1>5. /\ l \in LinkType /\ l.out = <<>> /\ l.in \in {<<>>, <<t>>} /\ l.busy \subseteq {t}
      /\ l.in # <<>> => l.busy = {}
  <2>1. PICK a : a = Answer(link[t], t)
    OBVIOUS
  <2>2. a \in {<<>>, <<t>>} /\ a \in Seq(Thread) /\ Tail(link[t].out) = <<>>
    BY <1>1, <2>1, AnswerIs, OneMessage
  <2>3. CASE needs = {}
    BY <1>1, <1>4, <2>1, <2>2, <2>3 DEF LinkType
  <2>4. CASE needs # {}
    BY <1>1, <1>4, <2>2, <2>4 DEF LinkType
  <2>. QED  BY <2>3, <2>4
<1>6. /\ link' \in [Thread -> LinkType] /\ link'[t] = l
      /\ \A u \in Thread \ {t} : link'[u] = link[u]
  <2>1. link' = [link EXCEPT ![t] = l]
    BY <1>2, <1>4
  <2>. QED  BY <1>5, <2>1, LinkSet DEF ConnInv
<1>7. \* What it starts has not run before.
      \A u \in Thread : u[1] = c /\ u[2] \in needs =>
        u # t /\ thr[u] = "none" /\ link[u] = NoLink /\ thr'[u] = "ready"
  <2>1. CASE IsTop(t)
    <3>1. \A s \in Server \ {t[2]} : thr[<<c, s>>] = "none" /\ link[<<c, s>>] = NoLink
      BY <1>1, <1>3, <2>1, OneMessage DEF ConnInv, HandledOnce
    <3>2. ASSUME NEW u \in Thread, u[1] = c, u[2] \in needs
          PROVE  u # t /\ thr[u] = "none" /\ link[u] = NoLink /\ thr'[u] = "ready"
      <4>1. u = <<c, u[2]>> /\ u[2] \in Server \ {t[2]}
        BY <1>3, <2>1, <3>2, ThreadPair
      <4>2. thr[u] = "none" /\ link[u] = NoLink
        BY <3>1, <4>1
      <4>3. thr'[u] = "ready"
        BY <1>2, <3>2
      <4>. QED  BY <4>1, <4>2, <4>3
    <3>. QED  BY <3>2
  <2>2. CASE ~IsTop(t)
    BY <1>3, <2>2
  <2>. QED  BY <2>1, <2>2
<1>8. \A u \in Thread : ~(u[1] = c /\ u[2] \in needs) => thr'[u] = thr[u]
  BY <1>2
<1>9. TypeOK'
  <2>1. thr' \in [Thread -> {"none", "ready", "opened", "waits", "got", "lost", "ended"}]
    BY <1>2 DEF ConnInv, TypeOK
  <2>. QED  BY <1>2, <1>6, <2>1 DEF ConnInv, TypeOK, LinkType
<1>10. CallsApart'
  BY <1>2 DEF ConnInv, CallsApart
<1>11. /\ \A p \in Process, s \in Server : StubOfThread(p, s)'
       /\ \A u \in Thread : StubOf(u)' = StubOf(u)
  <2>1. \A u \in Thread : thr[u] \in {"opened", "waits", "got"} => thr'[u] = thr[u]
    BY <1>7, <1>8
  <2>. QED  BY <1>2, <2>1, StubsKept
<1>12. thr'[t] = thr[t] /\ thr[t] \notin {"ready", "opened"}
  BY <1>1, <1>7, <1>8, OneMessage DEF ConnInv, OneRequest
<1>13. ASSUME NEW u \in Thread
       PROVE  ThreadOfCall(u)' /\ ThreadHasStub(u)' /\ OneRequest(u)'
  <2>1. CASE u = t
    <3>1. ThreadOfCall(u)'
      BY <1>1, <1>2, <1>12, <2>1 DEF ConnInv, ThreadOfCall, IsTop, Top
    <3>2. ThreadHasStub(u)'
      BY <1>2, <1>11, <1>12, <2>1 DEF ConnInv, ThreadHasStub
    <3>3. OneRequest(u)'
      BY <1>5, <1>6, <1>12, <2>1 DEF OneRequest
    <3>. QED  BY <3>1, <3>2, <3>3
  <2>2. CASE u # t /\ u[1] = c /\ u[2] \in needs
    <3>1. thr'[u] = "ready" /\ thr[u] = "none" /\ link'[u] = NoLink /\ got'[u] = got[u]
      BY <1>2, <1>6, <1>7, <2>2
    <3>2. ThreadOfCall(u)'
      <4>1. u[2] \in Targets(req[c])
        BY <1>3, <2>2 DEF needs
      <4>. QED  BY <1>2, <1>3, <2>2, <4>1 DEF ThreadOfCall
    <3>3. ThreadHasStub(u)'
      BY <3>1 DEF ConnInv, ThreadHasStub
    <3>4. OneRequest(u)'
      BY <3>1 DEF OneRequest, NoLink
    <3>. QED  BY <3>2, <3>3, <3>4
  <2>3. CASE u # t /\ ~(u[1] = c /\ u[2] \in needs)
    <3>1. thr'[u] = thr[u] /\ got'[u] = got[u] /\ link'[u] = link[u] /\ req'[u[1]] = req[u[1]]
      BY <1>2, <1>6, <1>8, <2>3
    <3>. QED  BY <1>11, <3>1, ThreadFrame DEF ConnInv
  <2>. QED  BY <2>1, <2>2, <2>3
<1>14. ASSUME NEW u \in Thread
       PROVE  HandledOnce(u)'
  <2>1. SUFFICES ASSUME req[u[1]] # NoCall, IsTop(u),
                        thr'[u] \in {"ready", "opened"} \/ link'[u].out # <<>>,
                        NEW s \in Server \ {u[2]}
                 PROVE  thr'[<<u[1], s>>] = "none" /\ link'[<<u[1], s>>] = NoLink
    BY <1>2 DEF HandledOnce, IsTop, Top
  <2>2. u # t
    BY <1>5, <1>6, <1>12, <2>1
  <2>3. ~(u[1] = c /\ u[2] \in needs)
    <3>1. SUFFICES ASSUME u[1] = c, u[2] \in needs PROVE FALSE
      OBVIOUS
    <3>2. IsTop(t)
      BY <1>3, <3>1
    <3>. QED  BY <2>1, <2>2, <3>1, <3>2, ThreadPair DEF IsTop, Top
  <2>4. thr[u] \in {"ready", "opened"} \/ link[u].out # <<>>
    BY <1>6, <1>8, <2>1, <2>2, <2>3
  <2>5. /\ thr[<<u[1], s>>] = "none" /\ link[<<u[1], s>>] = NoLink
        /\ <<u[1], s>> \in Thread
    BY <2>1, <2>4, ThreadPair DEF ConnInv, HandledOnce
  <2>6. u[1] # c
    <3>1. SUFFICES ASSUME u[1] = c PROVE FALSE
      OBVIOUS
    <3>2. IsTop(t) => u = t
      BY <2>1, <3>1, ThreadPair DEF IsTop, Top
    <3>3. t[2] \in Server \ {u[2]} /\ t = <<u[1], t[2]>>
      BY <2>2, <3>1, ThreadPair
    <3>4. link[t] = NoLink
      BY <2>1, <2>4, <3>3 DEF ConnInv, HandledOnce
    <3>. QED  BY <1>1, <3>4
  <2>7. <<u[1], s>> # t /\ <<u[1], s>>[1] # c
    BY <2>6
  <2>. QED  BY <1>6, <1>8, <2>5, <2>7
<1>. QED  BY <1>9, <1>10, <1>11, <1>13, <1>14 DEF ConnInv

LEMMA FinishStep ==
  ASSUME ConnectionsAssumption, ConnInv, NEW t \in Thread, Finish(t)
  PROVE  ConnInv'
<1>1. PICK m \in link[t].busy :
        LET subs == {<<m[1], s>> : s \in Targets(req[m[1]])}
        IN /\ \A u \in subs : thr[u] = "ended"
           /\ thr' = [u \in Thread |-> IF u \in subs THEN "none" ELSE thr[u]]
           /\ link' = [link EXCEPT ![t].busy = {}, ![t].in = Answer(link[t], m)]
           /\ Forget
           /\ UNCHANGED <<dead, stops, got, stub, backlog>>
  BY DEF Finish
<1>2. /\ link[t] \in LinkType /\ m = t /\ link[t] # NoLink
      /\ link[t].out = <<>> /\ link[t].in = <<>> /\ link[t].busy = {t}
      /\ thr[t] \notin {"ready", "opened"}
  BY <1>1 DEF ConnInv, OneRequest, TypeOK, LinkType, NoLink
<1>3. /\ \A u \in Thread : thr'[u] = thr[u] \/ (thr[u] = "ended" /\ thr'[u] = "none")
      /\ thr' \in [Thread -> {"none", "ready", "opened", "waits", "got", "lost", "ended"}]
  BY <1>1 DEF ConnInv, TypeOK
<1>4. PICK l : l = [link[t] EXCEPT !.busy = {}, !.in = Answer(link[t], t)]
  OBVIOUS
<1>5. l \in LinkType /\ l.out = <<>> /\ l.in \in {<<>>, <<t>>} /\ l.busy = {}
  <2>1. PICK a : a = Answer(link[t], t)
    OBVIOUS
  <2>2. a \in {<<>>, <<t>>} /\ a \in Seq(Thread)
    BY <1>2, <2>1, AnswerIs
  <2>. QED  BY <1>2, <1>4, <2>1, <2>2 DEF LinkType
<1>6. /\ link' \in [Thread -> LinkType] /\ link'[t] = l
      /\ \A u \in Thread \ {t} : link'[u] = link[u]
  <2>1. link' = [link EXCEPT ![t] = l]
    BY <1>1, <1>2, <1>4
  <2>. QED  BY <1>5, <2>1, LinkSet DEF ConnInv
<1>7. /\ req' \in [Calls -> Request \cup {NoCall}] /\ Fewer
  BY <1>1, ForgetFewer DEF ConnInv
<1>8. TypeOK'
  BY <1>1, <1>3, <1>6, <1>7 DEF ConnInv, TypeOK, LinkType
<1>9. CallsApart'
  BY <1>7, FewerApart DEF ConnInv
<1>10. \A p \in Process, s \in Server : StubOfThread(p, s)'
  <2>1. ASSUME NEW q \in Process, NEW z \in Server, stub'[q][z] # NoSession
        PROVE  stub'[q][z] = stub[q][z] /\ thr'[stub[q][z]] = thr[stub[q][z]]
    <3>1. PICK k : k = stub[q][z]
      OBVIOUS
    <3>2. stub' = stub
      BY <1>1
    <3>3. stub'[q][z] = k /\ k # NoSession /\ k \in Thread
      BY <2>1, <3>1, <3>2 DEF ConnInv, TypeOK
    <3>4. thr[k] # "ended"
      BY <3>1, <3>3 DEF ConnInv, StubOfThread
    <3>. QED  BY <1>3, <3>1, <3>3, <3>4
  <2>. QED  BY <1>1, <2>1, StubsLeft
<1>11. ASSUME NEW u \in Thread
       PROVE  ThreadHasStub(u)' /\ OneRequest(u)'
  <2>1. /\ got'[u] = got[u] /\ stub' = stub
        /\ thr'[u] = thr[u] \/ (thr[u] = "ended" /\ thr'[u] = "none")
    BY <1>1, <1>3
  <2>2. thr[u] \in {"opened", "waits", "got"} => StubOf(u)' = u
    BY <1>1, <2>1, StubLeft
  <2>3. ThreadHasStub(u)'
    BY <2>1, <2>2 DEF ConnInv, ThreadHasStub
  <2>4. CASE u = t
    BY <1>2, <1>5, <1>6, <2>1, <2>3, <2>4 DEF OneRequest
  <2>5. CASE u # t
    BY <1>6, <2>1, <2>3, <2>5 DEF ConnInv, OneRequest
  <2>. QED  BY <2>4, <2>5
<1>12. \A u \in Thread : ThreadInv(u)'
  <2>1. \A u \in Thread :
          /\ thr[u] = "none" => thr'[u] = "none"
          /\ link[u] = NoLink => link'[u] = NoLink
          /\ thr'[u] \in {"ready", "opened"} => thr'[u] = thr[u]
          /\ link'[u].out # <<>> => link[u].out # <<>>
    BY <1>2, <1>3, <1>5, <1>6
  <2>. QED  BY <1>1, <1>11, <2>1, EndsKept
<1>. QED  BY <1>8, <1>9, <1>10, <1>12 DEF ConnInv, ThreadInv


-----------------------------------------------------------------------------
(***************************************************************************)
(* Theorems.                                                               *)
(***************************************************************************)
LEMMA InitInv ==
  ASSUME ConnectionsAssumption, Init
  PROVE  ConnInv
<1>1. TypeOK
  BY NoLinkType DEF ConnectionsAssumption, Init, TypeOK, LinkType
<1>2. CallsApart
  BY DEF Init, CallsApart
<1>3. \A p \in Process, s \in Server : StubOfThread(p, s)
  BY DEF Init, StubOfThread
<1>4. ASSUME NEW t \in Thread
      PROVE  ThreadOfCall(t) /\ ThreadHasStub(t) /\ OneRequest(t) /\ HandledOnce(t)
  <2>1. req[t[1]] = NoCall /\ thr[t] = "none" /\ got[t] = NoCall /\ link[t] = NoLink
    BY <1>4, ThreadPair DEF Init
  <2>. QED  BY <2>1 DEF ThreadOfCall, ThreadHasStub, OneRequest, HandledOnce, NoLink
<1>. QED  BY <1>1, <1>2, <1>3, <1>4 DEF ConnInv

LEMMA NextInv ==
  ASSUME ConnectionsAssumption, Careful, ConnInv, [Next]_vars
  PROVE  ConnInv'
<1>1. ASSUME NEW c \in Calls, NEW r \in Requests[c], Call(c, r)
      PROVE  ConnInv'
  BY <1>1, CallStepInv
<1>2. ASSUME NEW t \in Thread, ThreadStep(t)
      PROVE  ConnInv'
  BY <1>2, OpenStep, SendStep, ReceiveStep, CloseStep, ThrowsStep DEF ThreadStep
<1>3. ASSUME NEW t \in Thread, WorkerStep(t)
      PROVE  ConnInv'
  BY <1>3, AcceptStep, HandleStep, FinishStep, EndSessionStep DEF WorkerStep
<1>4. ASSUME NEW s \in Server, Stop(s) \/ Restart(s)
      PROVE  ConnInv'
  BY <1>4, StopStep, RestartStep
<1>5. CASE UNCHANGED vars
  <2>1. UNCHANGED <<dead, stops, req, thr, got, stub, link, backlog>>
    BY <1>5 DEF vars
  <2>2. TypeOK' /\ CallsApart'
    BY <2>1 DEF ConnInv, TypeOK, CallsApart
  <2>3. \A p \in Process, s \in Server : StubOfThread(p, s)'
    BY <2>1, StubsKept
  <2>4. ASSUME NEW t \in Thread
        PROVE  (ThreadOfCall(t) /\ ThreadHasStub(t) /\ OneRequest(t))' /\ HandledOnce(t)'
    <3>1. ThreadOfCall(t)' /\ ThreadHasStub(t)' /\ OneRequest(t)'
      BY <2>1, StubsKept, ThreadFrame DEF ConnInv
    <3>2. HandledOnce(t)'
      BY <2>1 DEF ConnInv, HandledOnce, IsTop, Top
    <3>. QED  BY <3>1, <3>2
  <2>. QED  BY <2>2, <2>3, <2>4 DEF ConnInv
<1>. QED  BY <1>1, <1>2, <1>3, <1>4, <1>5 DEF Next

\* Manage::sendDataToServer (Manage.cpp:399-417) with the shared stubs and the pools:
\* calls in progress use different stubs, an open stub belongs to the thread that
\* opened it, a connection carries one request in one place, and a handler starts
\* its threads once, through stops and restarts of any process.
THEOREM ConnectionsInvariant == Careful => (Spec => []ConnInv)
<1>1. Init => ConnInv
  BY ConnectionsAssumption, InitInv
<1>. SUFFICES ASSUME Careful PROVE Spec => []ConnInv
  OBVIOUS
<1>2. ConnInv /\ [Next]_vars => ConnInv'
  BY ConnectionsAssumption, NextInv
<1>. QED  BY <1>1, <1>2, PTL DEF Spec

\* No thread of a careful caller receives the answer to another request, although the
\* generated client only compares the name of the procedure.
THEOREM AnswersMatchAlways == Careful => (Spec => []AnswersMatch)
<1>1. ConnInv => AnswersMatch
  BY DEF ConnInv, ThreadHasStub, AnswersMatch
<1>. QED  BY <1>1, ConnectionsInvariant, PTL

\* An exception that nothing catches ends a process only when a server it calls has
\* stopped: deaths follow from stops, never from another thread's use of a stub.
THEOREM DeathsCascadeAlways == Careful => (Spec => DeathsCascade)
<1>. DEFINE Cause == \A p \in dead' \ dead :
                       \/ stops' # stops
                       \/ \E t \in Thread : thr[t] # "none" /\ Owner(t) = p /\ ServerGone(t)
<1>1. ASSUME ConnInv, [Next]_vars
      PROVE  [Cause]_vars
  <2>1. SUFFICES ASSUME NEW p \in dead' \ dead, Next
                 PROVE  \/ stops' # stops
                        \/ \E t \in Thread : thr[t] # "none" /\ Owner(t) = p /\ ServerGone(t)
    BY <1>1
  <2>2. ASSUME NEW t \in Thread, Throws(t)
        PROVE  thr[t] # "none" /\ Owner(t) = p /\ ServerGone(t)
    <3>1. thr[t] # "none" /\ ServerGone(t) /\ dead' = dead \cup {Owner(t)}
      BY <1>1, <2>2, ThrowsBecause, ConnectionsAssumption DEF Ends
    <3>. QED  BY <2>1, <3>1
  <2>3. ASSUME NEW s \in Server, Stop(s)
        PROVE  stops' # stops
    BY <1>1, <2>3, ConnectionsAssumption DEF Stop, ConnInv, TypeOK, ConnectionsAssumption
  <2>4. ASSUME NEW s \in Server, Restart(s)
        PROVE  FALSE
    BY <2>1, <2>4 DEF Restart
  <2>5. ASSUME NEW t \in Thread,
               Open(t) \/ Send(t) \/ Receive(t) \/ Close(t) \/ WorkerStep(t)
        PROVE  FALSE
    BY <2>1, <2>5 DEF Open, Send, Receive, Close, WorkerStep, Accept, Handle, Finish, EndSession
  <2>6. ASSUME NEW c \in Calls, NEW r \in Requests[c], Call(c, r)
        PROVE  FALSE
    BY <2>1, <2>6 DEF Call
  <2>. QED  BY <2>1, <2>2, <2>3, <2>4, <2>5, <2>6 DEF Next, ThreadStep
<1>2. DeathsCascade <=> [][Cause]_vars
  BY DEF DeathsCascade
<1>. QED  BY <1>1, <1>2, ConnectionsInvariant, PTL DEF Spec
=============================================================================
