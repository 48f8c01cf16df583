------------------------------ MODULE MCClient ------------------------------
(***************************************************************************)
(* The client side for TLC: calls for byte ranges (LargeCalls) and the     *)
(* programs that make them (ClientPrograms).  They are modelled apart; a   *)
(* behaviour is one of the one or of the other, chosen by part, so that    *)
(* one run checks both.                                                    *)
(***************************************************************************)
EXTENDS MCLargeCalls, ClientPrograms

VARIABLE part

ClientInit ==
  /\ part \in {"calls", "programs"}
  /\ Init
  /\ ProgramsInit

ClientNext ==
  /\ UNCHANGED part
  /\ \/ part = "calls" /\ Next /\ UNCHANGED programVars
     \/ part = "programs" /\ ProgramsNext /\ UNCHANGED vars

ClientSpec == ClientInit /\ [][ClientNext]_<<part, vars, programVars>>

\* Every program replays its trace line by line: no call is missing, made twice or out
\* of order.  (EveryTraceReplayed, which has no need of the states of the calls.)
TracesReplayed == part = "programs" => EveryTraceReplayed
=============================================================================
