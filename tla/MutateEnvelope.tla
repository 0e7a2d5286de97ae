--------------------------- MODULE MutateEnvelope ---------------------------
(***************************************************************************)
(* The envelope that every request to the control plane goes through       *)
(* (internal/provisioning/controlplane/service.go, mutate): the            *)
(* idempotency index, the expected resource version, the commit to the     *)
(* store and the reply.                                                    *)
(*                                                                         *)
(* Clients lose replies and send their requests again, late, twice or out  *)
(* of order, so any request may arrive at any time and any number of       *)
(* times.  What a handler does is abstracted to the request it appends to  *)
(* the history of the transaction; ControlPlane has the handlers.          *)
(***************************************************************************)
EXTENDS Integers, Sequences

CONSTANTS
    Requests,         \* the requests that clients may send
    Keys,             \* idempotency keys
    Transactions,     \* transactions, all of which exist
    Bodies,           \* digests of the rest of a request
    Nil,              \* an absent entry of the idempotency index
    MaxSaveFailures   \* bound on failing saves

\* The version is the resource version that the client expects to change.
Request ==
    [key : Keys, transaction : Transactions, version : Nat \ {0}, body : Bodies]

ASSUME RequestsAssumption ==
    /\ Requests \subseteq Request
    /\ Nil \notin Requests
    /\ MaxSaveFailures \in Nat

VARIABLES
    state,         \* Service.state
    store,         \* the contents of the store file
    acknowledged,  \* the requests that some client was told had succeeded
    reply,         \* the last reply
    saveFailures   \* how many saves have returned an error

vars == <<state, store, acknowledged, reply, saveFailures>>

-----------------------------------------------------------------------------
\* history is what the handlers have done to the transaction, in order.
Init ==
    /\ state = [version |-> [t \in Transactions |-> 1],
                history |-> [t \in Transactions |-> << >>],
                idempotency |-> [k \in Keys |-> Nil]]
    /\ store = state
    /\ acknowledged = {}
    /\ reply = [outcome |-> "none", request |-> Nil]
    /\ saveFailures = 0

Replies(outcome, request) == reply' = [outcome |-> outcome, request |-> request]

\* The key is in the index for this very request: the reply is the current
\* transaction.  A client takes that for the success of its request.
replayLocked(request) ==
    /\ state.idempotency[request.key] = request
    /\ acknowledged' = acknowledged \cup {request}
    /\ Replies("success", request)
    /\ UNCHANGED <<state, store, saveFailures>>

\* The key is in the index for another request.
ReplayConflict(request) ==
    /\ state.idempotency[request.key] \notin {Nil, request}
    /\ Replies("idempotency_conflict", request)
    /\ UNCHANGED <<state, store, acknowledged, saveFailures>>

UnindexedMutant(request) == TRUE
Unindexed(request) == state.idempotency[request.key] = Nil

VersionMatchesMutant(request) == request.version <= state.version[request.transaction]
VersionMatches(request) == request.version = state.version[request.transaction]

VersionConflict(request) ==
    /\ Unindexed(request)
    /\ ~ VersionMatches(request)
    /\ Replies("version_conflict", request)
    /\ UNCHANGED <<state, store, acknowledged, saveFailures>>

Candidate(request) ==
    [version |-> [state.version EXCEPT ![request.transaction] = @ + 1],
     history |-> [state.history EXCEPT ![request.transaction] = Append(@, request)],
     idempotency |-> [state.idempotency EXCEPT ![request.key] = request]]

\* The store file is renamed into place before its directory is synced: a
\* save that returns an error may have replaced the file or not.
SaveFails(candidate) ==
    /\ saveFailures < MaxSaveFailures
    /\ saveFailures' = saveFailures + 1
    /\ store' \in {store, candidate}

\* A version that swaps the candidate in before it is saved.
commitLockedMutant(request) ==
    LET candidate == Candidate(request)
    IN  /\ state' = candidate
        /\ \/ /\ store' = candidate
              /\ acknowledged' = acknowledged \cup {request}
              /\ Replies("success", request)
              /\ UNCHANGED saveFailures
           \/ /\ SaveFails(candidate)
              /\ Replies("error", request)
              /\ UNCHANGED acknowledged

commitLocked(request) ==
    LET candidate == Candidate(request)
    IN  \/ /\ store' = candidate
           /\ state' = candidate
           /\ acknowledged' = acknowledged \cup {request}
           /\ Replies("success", request)
           /\ UNCHANGED saveFailures
        \/ /\ SaveFails(candidate)
           /\ Replies("error", request)
           /\ UNCHANGED <<state, acknowledged>>

mutate(request) ==
    /\ Unindexed(request)
    /\ VersionMatches(request)
    /\ commitLocked(request)

\* The process ends and a new one loads the store.
NewService ==
    /\ state' = store
    /\ UNCHANGED <<store, acknowledged, reply, saveFailures>>

Next ==
    \/ \E request \in Requests :
          \/ replayLocked(request)
          \/ ReplayConflict(request)
          \/ VersionConflict(request)
          \/ mutate(request)
    \/ NewService

Spec == Init /\ [][Next]_vars

-----------------------------------------------------------------------------
(***************************************************************************)
(* Properties.                                                             *)
(***************************************************************************)
PersistedState ==
    [version : [Transactions -> Nat], history : [Transactions -> Seq(Requests)],
     idempotency : [Keys -> Requests \cup {Nil}]]

\* The variables keep their types.
TypeOK ==
    /\ state \in PersistedState
    /\ store \in PersistedState
    /\ acknowledged \subseteq Requests
    /\ reply \in [outcome : {"none", "success", "error", "version_conflict",
                             "idempotency_conflict"},
                  request : Requests \cup {Nil}]
    /\ saveFailures \in Nat

\* request took effect in s, as the change of exactly the version it expected.
AppliedIn(s, request) ==
    LET history == s.history[request.transaction]
    IN  request.version \in 1..Len(history) /\ history[request.version] = request

\* A request that a client was told had succeeded has changed, in memory and
\* in the store, the version that the client had seen; no later failure of a
\* save, restart or request of another client undoes it (commitLocked saves
\* before it swaps the state in).
AcknowledgedIsApplied ==
    \A request \in acknowledged : AppliedIn(state, request) /\ AppliedIn(store, request)

\* A request takes effect at most once, however often it is sent: it occurs in
\* the history only as the change of the version it names, and no two
\* requests that took effect share an idempotency key (replayLocked and the
\* version check of mutate).
EffectOnce ==
    \A s \in {state, store} :
        \A t \in Transactions : \A i \in 1..Len(s.history[t]) :
            LET request == s.history[t][i]
            IN  /\ request.transaction = t
                /\ request.version = i
                /\ s.idempotency[request.key] = request

\* A client that is told of a version conflict may conclude that its request
\* has not taken effect, neither in memory nor in the store that a restart
\* would load, although an earlier attempt may have failed half way through
\* its save (mutate consults the idempotency index before the version).
VersionConflictIsHonest ==
    reply.outcome = "version_conflict" =>
        /\ ~ AppliedIn(state, reply.request)
        /\ ~ AppliedIn(store, reply.request)
=============================================================================
