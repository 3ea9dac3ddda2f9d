--------------------------- MODULE AtMostOnceRpc ---------------------------
(***************************************************************************)
(* What a caller of a JSON-RPC client may rely on, be it a task of the Go  *)
(* layer that calls the engine (server/internal/task/engine.go) or the     *)
(* desktop shell that calls the Go layer (desktop/src/host/backend.ts): a  *)
(* call is carried out at most once, an answer is the answer to that very  *)
(* call, a failure says nothing about whether the work was done, and once  *)
(* the client is down no further work is done for anybody.                 *)
(*                                                                         *)
(* StdioEngine and Backend are shown to implement this module.             *)
(***************************************************************************)
EXTENDS Naturals

CONSTANTS Callers    \* those who call, once each

VARIABLES
    status,    \* per caller: idle, active, or how the call ended
    verdict,   \* per caller: what the engine made of the request, if it ran it
    stage      \* open, closing (Close was called) or down (Close returned)

vars == <<status, verdict, stage>>

Bodies == {"ok", "appErr"}      \* a result, or an error the engine answered

TypeOK ==
    /\ status \in [Callers -> {"idle", "active", "refused", "failed"} \cup Bodies]
    /\ verdict \in [Callers -> {"none"} \cup Bodies]
    /\ stage \in {"open", "closing", "down"}

Init ==
    /\ status = [c \in Callers |-> "idle"]
    /\ verdict = [c \in Callers |-> "none"]
    /\ stage = "open"

(* A call enters the client, which is open and has an engine to talk to.   *)
Invoke(c) ==
    /\ stage = "open"
    /\ status[c] = "idle"
    /\ status' = [status EXCEPT ![c] = "active"]
    /\ UNCHANGED <<verdict, stage>>

(* The client turns the call away: its request is never sent.              *)
Refuse(c) ==
    /\ status[c] \in {"idle", "active"}
    /\ verdict[c] = "none"
    /\ status' = [status EXCEPT ![c] = "refused"]
    /\ UNCHANGED <<verdict, stage>>

(* The engine carries out the request: once, and possibly only after the   *)
(* caller has given up on it, but never once the client is down.           *)
Execute(c) ==
    /\ stage # "down"
    /\ status[c] \in {"active", "failed"}
    /\ verdict[c] = "none"
    /\ \E v \in Bodies : verdict' = [verdict EXCEPT ![c] = v]
    /\ UNCHANGED <<status, stage>>

(* The caller receives what the engine made of its own request.            *)
Answer(c) ==
    /\ status[c] = "active"
    /\ verdict[c] # "none"
    /\ status' = [status EXCEPT ![c] = verdict[c]]
    /\ UNCHANGED <<verdict, stage>>

(* Calls fail on this side: a timeout, a lost engine, a closed client.     *)
Fail(cs) ==
    /\ cs # {} /\ \A c \in cs : status[c] = "active"
    /\ status' = [c \in Callers |-> IF c \in cs THEN "failed" ELSE status[c]]
    /\ UNCHANGED <<verdict, stage>>

(* The client goes down, in one step or two; calls may fail with it.       *)
Close ==
    /\ \/ stage = "open" /\ stage' \in {"closing", "down"}
       \/ stage = "closing" /\ stage' = "down"
    /\ \E cs \in SUBSET {c \in Callers : status[c] = "active"} :
          status' = [c \in Callers |-> IF c \in cs THEN "failed" ELSE status[c]]
    /\ UNCHANGED verdict

Next ==
    \/ \E c \in Callers :
        \/ Invoke(c) \/ Refuse(c) \/ Execute(c) \/ Answer(c)
    \/ \E cs \in SUBSET Callers : Fail(cs)
    \/ Close

Spec == Init /\ [][Next]_vars
=============================================================================
