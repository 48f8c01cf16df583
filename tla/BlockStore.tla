----------------------------- MODULE BlockStore -----------------------------
(***************************************************************************)
(* What an update scheme promises to its callers, without saying how the   *)
(* parts are stored: every part of every data server is a register.        *)
(*                                                                         *)
(* A call is a write, a read or a degraded read (Manage::write, read and   *)
(* repair).  A write takes effect at one instant between the call and its  *)
(* answer; a read and a degraded read return the content of the register   *)
(* at one instant between the call and the answer.  A call may fail when a *)
(* server stops, and a write that fails may or may not have taken effect.  *)
(* The one promise a crash may break is the degraded read: a part on which *)
(* a write was cut (in damaged) can be returned with any content by a      *)
(* degraded read until the file is cleared and created again, or until a   *)
(* scheme that can do so has repaired it with a later write.               *)
(***************************************************************************)

EXTENDS Stripe

CONSTANTS
  Calls,        \* identities of the calls, one per sendDataToServer
  NoReq         \* the request of a call that has not been made

VARIABLES
  status,       \* of every call: idle, called, effected, done or failed
  request,      \* of every call: what it asks, NoReq while idle
  answer,       \* of every call: the content returned, scaled by its server
  store,        \* the register of every part of every data server
  damaged,      \* parts whose parity, or copies, a cut write may have left stale
  open          \* the file exists and may be read and written

absVars == <<status, request, answer, store, damaged, open>>

Active(c) == status[c] \in {"called", "effected"}

AbsTypeOK ==
  /\ status \in [Calls -> {"idle", "called", "effected", "done", "failed"}]
  /\ request \in [Calls -> Request \cup {NoReq}]
  /\ answer \in [Calls -> ParityValue]
  /\ store \in [Data -> [Parts -> Value]]
  /\ damaged \in SUBSET Parts
  /\ open \in BOOLEAN

\* The registers while the file does not exist.
EmptyStore == [k \in Data |-> [p \in Parts |-> {}]]

AbsInit ==
  /\ status = [c \in Calls |-> "idle"]
  /\ request = [c \in Calls |-> NoReq]
  /\ answer = [c \in Calls |-> {}]
  /\ store = EmptyStore
  /\ damaged = {}
  /\ open = FALSE

Invoke(c, r) ==
  /\ open
  /\ status[c] = "idle"
  /\ status' = [status EXCEPT ![c] = "called"]
  /\ request' = [request EXCEPT ![c] = r]
  /\ UNCHANGED <<answer, store, damaged, open>>

\* The instant at which a write takes effect.
Effect(c) ==
  /\ status[c] = "called"
  /\ request[c].op = "write"
  /\ store' = [store EXCEPT ![request[c].srv][request[c].part] = request[c].val]
  /\ status' = [status EXCEPT ![c] = "effected"]
  /\ UNCHANGED <<request, answer, damaged, open>>

AnswerWrite(c) ==
  /\ status[c] = "effected"
  /\ status' = [status EXCEPT ![c] = "done"]
  /\ damaged' \in {damaged, damaged \ {request[c].part}}
  /\ UNCHANGED <<request, answer, store, open>>

\* A read answers with the register; so does a degraded read of a part that
\* is not damaged.
AnswerRead(c) ==
  /\ status[c] = "called"
  /\ request[c].op \in {"read", "repair"}
  /\ status' = [status EXCEPT ![c] = "done"]
  /\ \E x \in ParityValue :
       /\ answer' = [answer EXCEPT ![c] = x]
       /\ \/ x = Scale(request[c].srv, store[request[c].srv][request[c].part])
          \/ request[c].op = "repair" /\ request[c].part \in damaged
  /\ UNCHANGED <<request, store, damaged, open>>

\* A server stops: any active calls fail, and the parts of the writes among
\* them may be damaged.
Fail(C) ==
  /\ C \subseteq {c \in Calls : Active(c)}
  /\ status' = [c \in Calls |-> IF c \in C THEN "failed" ELSE status[c]]
  /\ \E P \in SUBSET {request[c].part : c \in {e \in C : request[e].op = "write"}} :
       damaged' = damaged \cup P
  /\ UNCHANGED <<request, answer, store, open>>

\* The file is removed while nothing is active; then it is created again with
\* any content.
Close ==
  /\ open
  /\ \A c \in Calls : ~Active(c)
  /\ open' = FALSE
  /\ store' = EmptyStore
  /\ damaged' = {}
  /\ UNCHANGED <<status, request, answer>>

Open ==
  /\ ~open
  /\ open' = TRUE
  /\ store' \in [Data -> [Parts -> Value]]
  /\ UNCHANGED <<status, request, answer, damaged>>

AbsNext ==
  \/ \E c \in Calls :
       \/ \E r \in Request : Invoke(c, r)
       \/ Effect(c) \/ AnswerWrite(c) \/ AnswerRead(c)
  \/ \E C \in SUBSET Calls : Fail(C)
  \/ Close \/ Open

AbsSpec == AbsInit /\ [][AbsNext]_absVars
=============================================================================
