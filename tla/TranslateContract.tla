------------------------- MODULE TranslateContract -------------------------
(***************************************************************************)
(* What the callers of ModelPool.translate rely on, with no Router, cache, *)
(* breaker, retry or failover: a call is served from an earlier answer for *)
(* the same key, turned away, or pending; a pending call spends a bounded  *)
(* number of requests, and resolves with a text for its key or with an     *)
(* exception.                                                              *)
(***************************************************************************)
EXTENDS Naturals

CONSTANTS Calls, Keys, None, Budget

VARIABLES
  status,    \* "idle", "pending", "ok" or "failed"
  wants,     \* the key a call asked for
  requests,  \* LLM requests the call has sent
  answered   \* keys for which the LLM has produced an acceptable text

vars == <<status, wants, requests, answered>>

Init ==
  /\ status = [c \in Calls |-> "idle"]
  /\ wants = [c \in Calls |-> None]
  /\ requests = [c \in Calls |-> 0]
  /\ answered = {}

(* A call begins: answered from memory, turned away, or on its way. *)
Begin(c, k) ==
  /\ status[c] # "pending"
  /\ wants' = [wants EXCEPT ![c] = k]
  /\ \E s \in {"pending", "ok", "failed"} :
       /\ s = "ok" => k \in answered
       /\ status' = [status EXCEPT ![c] = s]
       /\ requests' = [requests EXCEPT ![c] = IF s = "pending" THEN 1 ELSE 0]
  /\ UNCHANGED answered

(* One more request for a pending call. *)
Request(c) ==
  /\ status[c] = "pending"
  /\ requests[c] < Budget
  /\ requests' = [requests EXCEPT ![c] = @ + 1]
  /\ UNCHANGED <<status, wants, answered>>

(* The LLM answered acceptably: the text is for the key that was asked. *)
Answer(c) ==
  /\ status[c] = "pending"
  /\ status' = [status EXCEPT ![c] = "ok"]
  /\ answered' = answered \cup {wants[c]}
  /\ UNCHANGED <<wants, requests>>

GiveUp(c) ==
  /\ status[c] = "pending"
  /\ status' = [status EXCEPT ![c] = "failed"]
  /\ UNCHANGED <<wants, requests, answered>>

Next ==
  \E c \in Calls :
    \/ \E k \in Keys : Begin(c, k)
    \/ Request(c)
    \/ Answer(c)
    \/ GiveUp(c)

Spec == Init /\ [][Next]_vars
=============================================================================
