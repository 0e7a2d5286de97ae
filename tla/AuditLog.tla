------------------------------ MODULE AuditLog ------------------------------
(***************************************************************************)
(* The audit log (internal/provisioning/auditlog): an append-only chain of *)
(* event records, each carrying the hash of the one before it.  The        *)
(* receipt of a record is what the control plane is given as the evidence  *)
(* of an intent or an outcome, so it has to stay valid for ever.           *)
(*                                                                         *)
(* Digests are taken to be free of collisions: the digest of a request is  *)
(* the request, and the hash of a record, which covers the hash before it, *)
(* is the chain of records up to it.  Clients lose replies and send        *)
(* requests again at any time.                                             *)
(***************************************************************************)
EXTENDS Integers, Sequences

CONSTANTS
    AppendRequests,   \* the requests that clients may send
    IdempotencyKeys,
    Events,           \* the events, identifier included
    EventIDs,
    MaxTime,          \* bound on the clock
    MaxSaveFailures   \* bound on failing saves

AppendRequest == [idempotencyKey : IdempotencyKeys, eventID : EventIDs, event : Events]

ASSUME AppendRequestsAssumption ==
    /\ AppendRequests \subseteq AppendRequest
    /\ MaxTime \in Nat
    /\ MaxSaveFailures \in Nat

VARIABLES
    records,      \* Service.state.Records: the chain in memory
    store,        \* the chain in the store file
    receipts,     \* the receipts that were handed out
    now,          \* the clock of the service
    saveFailures  \* how many saves have returned an error

vars == <<records, store, receipts, now, saveFailures>>

-----------------------------------------------------------------------------
\* A record.  Its sequence is its position, and the idempotency index of the
\* state maps the key of its request to that position.
Record == [request : AppendRequests, recordedAt : Nat]

EventHash(chain, sequence) == SubSeq(chain, 1, sequence)

\* The receipt of a record; it is kept with the request that it answers.
receiptFor(chain, sequence) ==
    [request |-> chain[sequence].request, sequence |-> sequence,
     eventHash |-> EventHash(chain, sequence)]

Init ==
    /\ records = << >>
    /\ store = << >>
    /\ receipts = {}
    /\ now = 0
    /\ saveFailures = 0

\* The sequences whose record was made under this key or for this event.
Idempotency(key) == {i \in 1..Len(records) : records[i].request.idempotencyKey = key}
WithEvent(eventID) == {i \in 1..Len(records) : records[i].request.eventID = eventID}

\* The key is known: the same request gets its receipt again, another one is
\* refused.
Replay(request) ==
    \E sequence \in Idempotency(request.idempotencyKey) :
        /\ records[sequence].request = request
        /\ receipts' = receipts \cup {receiptFor(records, sequence)}
        /\ UNCHANGED <<records, store, now, saveFailures>>

FreshMutant(request) == Idempotency(request.idempotencyKey) = {}

Fresh(request) ==
    /\ Idempotency(request.idempotencyKey) = {}
    /\ WithEvent(request.eventID) = {}

Candidate(request) == Append(records, [request |-> request, recordedAt |-> now])

\* A version that keeps the candidate and answers although the save failed.
AppendFailsMutant(request) ==
    /\ Fresh(request)
    /\ saveFailures < MaxSaveFailures
    /\ saveFailures' = saveFailures + 1
    /\ store' \in {store, Candidate(request)}
    /\ records' = Candidate(request)
    /\ receipts' = receipts \cup {receiptFor(Candidate(request), Len(records) + 1)}
    /\ UNCHANGED now

\* The save returns an error, before or after the file was renamed into place.
AppendFails(request) ==
    /\ Fresh(request)
    /\ saveFailures < MaxSaveFailures
    /\ saveFailures' = saveFailures + 1
    /\ store' \in {store, Candidate(request)}
    /\ UNCHANGED <<records, receipts, now>>

AppendSucceeds(request) ==
    /\ Fresh(request)
    /\ store' = Candidate(request)
    /\ records' = Candidate(request)
    /\ receipts' = receipts \cup {receiptFor(Candidate(request), Len(records) + 1)}
    /\ UNCHANGED <<now, saveFailures>>

Tick ==
    /\ now < MaxTime
    /\ now' = now + 1
    /\ UNCHANGED <<records, store, receipts, saveFailures>>

\* The process ends and a new one loads the store.
NewService ==
    /\ records' = store
    /\ UNCHANGED <<store, receipts, now, saveFailures>>

Next ==
    \/ \E request \in AppendRequests :
          Replay(request) \/ AppendSucceeds(request) \/ AppendFails(request)
    \/ Tick
    \/ NewService

Spec == Init /\ [][Next]_vars

-----------------------------------------------------------------------------
(***************************************************************************)
(* Properties.                                                             *)
(***************************************************************************)
\* The variables keep their types.
TypeOK ==
    /\ records \in Seq(Record)
    /\ store \in Seq(Record)
    /\ receipts \subseteq
          [request : AppendRequests, sequence : Nat \ {0}, eventHash : Seq(Record)]
    /\ now \in Nat
    /\ saveFailures \in Nat

\* Every receipt that was ever handed out names a record of the chain, in
\* memory and in the store, with the very hash it was handed out with: no
\* failed save, restart or later append moves or replaces the record
\* (service.go Append saves before it swaps the state in).
ReceiptsStand ==
    \A receipt \in receipts :
        \A chain \in {records, store} :
            /\ receipt.sequence \in 1..Len(chain)
            /\ chain[receipt.sequence].request = receipt.request
            /\ EventHash(chain, receipt.sequence) = receipt.eventHash

\* All the clients that sent one request hold one receipt: a retry after a
\* failed or lost reply does not make a second record of the event
\* (service.go Append, Idempotency).
OneReceiptPerEvent ==
    \A left, right \in receipts :
        \/ left.request.idempotencyKey = right.request.idempotencyKey
        \/ left.request.eventID = right.request.eventID
        => left = right
=============================================================================
