----------------------------- MODULE MCAuditLog -----------------------------
(***************************************************************************)
(* An instance of AuditLog for TLC: requests that share a key, an event    *)
(* identifier or neither.                                                  *)
(***************************************************************************)
EXTENDS AuditLog

Sends(key, id, event) == [idempotencyKey |-> key, eventID |-> id, event |-> event]

SharedRequests ==
    {Sends("k1", "e1", "intent"), Sends("k1", "e2", "intent"), Sends("k2", "e1", "intent"),
     Sends("k2", "e2", "outcome"), Sends("k3", "e3", "outcome")}
=============================================================================
