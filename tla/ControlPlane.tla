---------------------------- MODULE ControlPlane ----------------------------
(***************************************************************************)
(* The provisioning control plane                                          *)
(* (internal/provisioning/controlplane): the authority that reserves       *)
(* assets, grants fenced and leased claims on station lanes, binds the     *)
(* physical target, records approvals, and keeps the write-ahead history   *)
(* of irreversible operations of each transaction.                         *)
(*                                                                         *)
(* The service holds one mutex and runs every request as a whole: clone    *)
(* the state, apply the handler, validate the candidate, save it, swap it  *)
(* in.  So a request is one action here.  What can interleave is requests  *)
(* of different stations, the clock, failing saves and restarts.           *)
(*                                                                         *)
(* Digests, receipts and identifiers are members of small sets.  The       *)
(* resource version and the idempotency index of mutate are the subject of *)
(* the module MutateEnvelope: here a request always carries the current    *)
(* version and a fresh key.                                                *)
(***************************************************************************)
EXTENDS Integers, Sequences, FiniteSets

CONSTANTS
    Transactions,          \* transaction identifiers
    Assets,                \* asset identifiers
    LogicalIDs,            \* intended logical identifiers
    Lanes,                 \* station and lane pairs
    Campaign,              \* the development campaign: a sequence of operation names
    StageSets,             \* the allowed_stages a claim request may carry
    Plans,                 \* plan digests
    Releases,              \* release bindings that match the transaction's bundle and key
    Targets,               \* fingerprints of physical targets
    LeaseDurations,        \* lease_duration_seconds a request may carry
    MaxApprovalLifetime,   \* maximumApprovalLifetime, 24 hours in the code
    ReconciliationOutputs, \* whether a reconciliation carries its output digest
    Nil,                   \* the nil pointer
    MaxTime,               \* bound on the clock
    MaxEpoch,              \* bound on the fence epoch of an asset
    MaxSaveFailures        \* bound on failing saves

ASSUME BoundsAssumption ==
    /\ MaxTime \in Nat
    /\ MaxEpoch \in Nat
    /\ MaxSaveFailures \in Nat
    /\ MaxApprovalLifetime \in Nat \ {0}
    /\ LeaseDurations \subseteq Nat \ {0}
    /\ ReconciliationOutputs \subseteq BOOLEAN

VARIABLES
    state,         \* Service.state, the state in memory
    store,         \* the contents of the store file
    now,           \* the clock of the service
    saveFailures,  \* how many saves have returned an error
    corruptReply   \* some commit was answered with ErrCorruptStore

vars == <<state, store, now, saveFailures, corruptReply>>

-----------------------------------------------------------------------------
(***************************************************************************)
(* The records that the store keeps.                                       *)
(***************************************************************************)
Operations == {Campaign[i] : i \in DOMAIN Campaign}

\* A claim names the stages it allows: operations, or the reconciliation.
Stages == Operations \cup {"reconciliation"}

ASSUME CampaignAssumption ==
    /\ Campaign \in Seq(Operations)
    /\ StageSets \subseteq (SUBSET Stages) \ {{}}

TransactionStatus ==
    {"created", "claimed", "target_bound", "commit_approved",
     "mutation_in_progress", "reconciliation_required", "reconciled",
     "security_applied", "aborted", "quarantined"}

\* The statuses that have a record of their own: SecurityApplied, Abort and
\* Quarantine.
Terminal == {"security_applied", "aborted", "quarantined"}

ClaimMode == {"mutation", "reconciliation"}

OperationStatus ==
    {"intent_recorded", "succeeded", "failed", "uncertain",
     "confirmed_applied", "confirmed_not_applied"}

\* The statuses that count as a completed step of the campaign.
Completed == {"succeeded", "confirmed_applied"}

Claim == [mode : ClaimMode, lane : Lanes, fenceEpoch : Nat,
          stages : SUBSET Stages, expiresAt : Nat]

\* What later checks read of a closed claim; how it was closed is not read.
ClosedClaim == [lane : Lanes, fenceEpoch : Nat]

TargetBinding == [fingerprint : Targets, fenceEpoch : Nat]

Approval == [plan : Plans, release : Releases, lane : Lanes, fenceEpoch : Nat,
             target : Targets, expiresAt : Nat]

\* output, evidence and reconciliation say whether OutputDigest,
\* EvidenceAuditReceiptID and ReconciliationAuditReceiptID are set.
OperationRecord ==
    [operation : Operations, status : OperationStatus, approval : Approval,
     intentAt : Nat, output : BOOLEAN, evidence : BOOLEAN,
     reconciliation : BOOLEAN]

\* records names the terminal records that are set, each by its status.
Transaction ==
    [status : TransactionStatus, asset : Assets, logicalID : LogicalIDs,
     fenceEpoch : Nat, activeClaim : Claim \cup {Nil},
     claimHistory : SUBSET ClosedClaim, target : TargetBinding \cup {Nil},
     approval : Approval \cup {Nil}, operations : Seq(OperationRecord),
     records : SUBSET Terminal]

PersistedState ==
    [transactions : [Transactions -> Transaction \cup {Nil}],
     fenceEpochs : [Assets -> Nat]]

ASSUME NilAssumption ==
    Nil \notin Claim \cup TargetBinding \cup Approval \cup Transaction

Init ==
    /\ state = [transactions |-> [t \in Transactions |-> Nil],
                fenceEpochs |-> [a \in Assets |-> 0]]
    /\ store = state
    /\ now = 0
    /\ saveFailures = 0
    /\ corruptReply = FALSE

-----------------------------------------------------------------------------
(***************************************************************************)
(* Helpers of the handlers.                                                *)
(***************************************************************************)
Exists(t) == state.transactions[t] # Nil

\* requireCurrentClaim: the request names a claim by its fence epoch.
requireCurrentClaim(tx, epoch, modes) ==
    /\ tx.activeClaim # Nil
    /\ tx.activeClaim.fenceEpoch = epoch
    /\ tx.fenceEpoch = epoch
    /\ tx.activeClaim.expiresAt > now
    /\ tx.activeClaim.mode \in modes

requireCurrentApproval(tx, plan) ==
    /\ tx.approval # Nil
    /\ tx.approval.plan = plan
    /\ tx.approval.fenceEpoch = tx.activeClaim.fenceEpoch
    /\ tx.approval.lane = tx.activeClaim.lane
    /\ tx.target # Nil
    /\ tx.approval.target = tx.target.fingerprint
    /\ tx.approval.expiresAt > now

\* Mutant: only the asset is compared.
ensureClaimResourcesAvailableMutant(t, lane) ==
    \A u \in Transactions \ {t} :
        LET other == state.transactions[u] IN
        (other # Nil /\ other.activeClaim # Nil /\ other.activeClaim.expiresAt > now) =>
            other.asset # state.transactions[t].asset

\* No other transaction holds an unexpired claim on the asset or the lane.
ensureClaimResourcesAvailable(t, lane) ==
    \A u \in Transactions \ {t} :
        LET other == state.transactions[u] IN
        (other # Nil /\ other.activeClaim # Nil /\ other.activeClaim.expiresAt > now) =>
            /\ other.asset # state.transactions[t].asset
            /\ other.activeClaim.lane # lane

validateClaimModeForStatus(mode, status) ==
    \/ /\ mode = "mutation"
       /\ status \in {"created", "claimed", "target_bound", "commit_approved",
                      "reconciled"}
    \/ /\ mode = "reconciliation"
       /\ status \in {"mutation_in_progress", "reconciliation_required",
                      "quarantined"}

hasConfirmedNotAppliedOperation(ops) ==
    \E i \in DOMAIN ops : ops[i].status = "confirmed_not_applied"

\* Mutant: reconciled operations are not counted.
completedApprovedOperationsMutant(ops) ==
    Cardinality({i \in DOMAIN ops : ops[i].status = "succeeded"})

completedApprovedOperations(ops) ==
    Cardinality({i \in DOMAIN ops : ops[i].status \in Completed})

\* The completed operations before the i-th: the variable next of the loops.
CompletedBefore(ops, i) == completedApprovedOperations(SubSeq(ops, 1, i - 1))

SamePlanBindings(a, b) ==
    a.plan = b.plan /\ a.release = b.release /\ a.expiresAt = b.expiresAt

\* Mutant: a fresh approval may change the plan after an intent.
validatePriorOperationsAgainstPlanMutant(ops, a) ==
    \A i \in DOMAIN ops : CompletedBefore(ops, i) < Len(Campaign)

\* validatePriorOperationsAgainstPlan; a is the approval requested.
validatePriorOperationsAgainstPlan(ops, a) ==
    \A i \in DOMAIN ops :
        /\ SamePlanBindings(ops[i].approval, a)
        /\ CompletedBefore(ops, i) < Len(Campaign)
        /\ Campaign[CompletedBefore(ops, i) + 1] = ops[i].operation

\* Mutant: the last operation is not required.
validateCompletedDevelopmentCampaignMutant(ops, a) ==
    /\ \A i \in DOMAIN ops : SamePlanBindings(ops[i].approval, a)
    /\ completedApprovedOperations(ops) >= Len(Campaign) - 1

validateCompletedDevelopmentCampaign(ops, a) ==
    /\ \A i \in DOMAIN ops :
          /\ CompletedBefore(ops, i) < Len(Campaign)
          /\ SamePlanBindings(ops[i].approval, a)
          /\ ops[i].operation = Campaign[CompletedBefore(ops, i) + 1]
          /\ ops[i].status \in Completed \cup {"confirmed_not_applied"}
    /\ completedApprovedOperations(ops) = Len(Campaign)

-----------------------------------------------------------------------------
(***************************************************************************)
(* The validator that every commit and every start runs over the whole     *)
(* state.  It is written against what the handlers should produce, so the  *)
(* two can disagree.  Left out are the formats of identifiers and digests  *)
(* and the clauses on times that the records here do not keep: AcquiredAt  *)
(* and ClosedAt of a claim, ApprovedAt of an approval (the handlers take   *)
(* each of them from the clock at the moment of the request).              *)
(***************************************************************************)
validateClaim(claim, tx) ==
    /\ claim.fenceEpoch \in 1 .. tx.fenceEpoch
    /\ claim.fenceEpoch = tx.fenceEpoch
    /\ claim.stages # {}

validateStoredApproval(a, tx, epoch) ==
    /\ a.fenceEpoch = epoch
    /\ tx.target # Nil
    /\ a.target = tx.target.fingerprint

claimIdentityExists(tx, lane, epoch) ==
    \/ /\ tx.activeClaim # Nil
       /\ tx.activeClaim.lane = lane
       /\ tx.activeClaim.fenceEpoch = epoch
    \/ [lane |-> lane, fenceEpoch |-> epoch] \in tx.claimHistory

\* The digests that each status of an operation must have.
OperationEvidenceComplete(op) ==
    CASE op.status = "intent_recorded" ->
            ~op.output /\ ~op.evidence /\ ~op.reconciliation
      [] op.status \in {"succeeded", "failed"} -> op.output /\ op.evidence
      [] op.status = "uncertain" ->
            IF op.evidence THEN op.output ELSE op.reconciliation
      [] op.status = "confirmed_applied" -> op.output /\ op.reconciliation
      [] op.status = "confirmed_not_applied" -> op.reconciliation

validateStoredOperation(op, tx) ==
    /\ op.approval.fenceEpoch \in 1 .. tx.fenceEpoch
    /\ op.approval.expiresAt > op.intentAt
    /\ op.approval.expiresAt <= op.intentAt + MaxApprovalLifetime
    /\ validateStoredApproval(op.approval, tx, op.approval.fenceEpoch)
    /\ claimIdentityExists(tx, op.approval.lane, op.approval.fenceEpoch)
    /\ OperationEvidenceComplete(op)

\* A terminal status and its record come together.
TerminalRecordsMatch(tx) ==
    \A s \in Terminal : tx.status = s <=> s \in tx.records

validateTransaction(tx, fenceEpochs) ==
    LET ops == tx.operations IN
    /\ tx.fenceEpoch <= fenceEpochs[tx.asset]
    /\ tx.activeClaim # Nil => validateClaim(tx.activeClaim, tx)
    /\ \A c \in tx.claimHistory : c.fenceEpoch \in 1 .. tx.fenceEpoch
    /\ tx.target # Nil => tx.target.fenceEpoch \in 1 .. tx.fenceEpoch
    /\ tx.approval # Nil =>
          validateStoredApproval(tx.approval, tx, tx.fenceEpoch)
    /\ \A i \in DOMAIN ops :
          /\ validateStoredOperation(ops[i], tx)
          /\ SamePlanBindings(ops[i].approval, ops[1].approval)
          /\ i < Len(ops) => ops[i].status # "confirmed_not_applied"
    /\ (tx.activeClaim # Nil /\ hasConfirmedNotAppliedOperation(ops)) =>
          tx.activeClaim.mode # "mutation"
    /\ tx.status = "security_applied" =>
          /\ tx.approval # Nil
          /\ validateCompletedDevelopmentCampaign(ops, tx.approval)
    /\ TerminalRecordsMatch(tx)

validatePersistedState(candidate) ==
    \A t \in Transactions :
        candidate.transactions[t] # Nil =>
            validateTransaction(candidate.transactions[t], candidate.fenceEpochs)

-----------------------------------------------------------------------------
(***************************************************************************)
(* The end of every request.  FileStore.Save replaces the file by a rename *)
(* and then syncs the directory, so a failing save may leave the old file  *)
(* or the new one; the state in memory is swapped only after a save that   *)
(* succeeded.                                                              *)
(***************************************************************************)
Save(candidate) ==
    \/ /\ store' = candidate
       /\ state' = candidate
       /\ UNCHANGED saveFailures
    \/ /\ saveFailures < MaxSaveFailures
       /\ saveFailures' = saveFailures + 1
       /\ store' \in {store, candidate}
       /\ UNCHANGED state

commitLocked(candidate) ==
    /\ UNCHANGED now
    /\ IF validatePersistedState(candidate)
       THEN Save(candidate) /\ UNCHANGED corruptReply
       ELSE corruptReply' = TRUE /\ UNCHANGED <<state, store, saveFailures>>

\* mutate: the handler's new value of one transaction.
mutate(t, tx) == commitLocked([state EXCEPT !.transactions[t] = tx])

-----------------------------------------------------------------------------
(***************************************************************************)
(* Claims.                                                                 *)
(***************************************************************************)

\* Mutant: only the logical identifier is reserved.
UnreservedMutant(asset, logicalID) ==
    \A u \in Transactions : Exists(u) => state.transactions[u].logicalID # logicalID

\* An asset and a logical identifier are reserved by one transaction for good.
Unreserved(asset, logicalID) ==
    \A u \in Transactions :
        Exists(u) => /\ state.transactions[u].asset # asset
                     /\ state.transactions[u].logicalID # logicalID

CreateTransaction(t, asset, logicalID) ==
    /\ ~Exists(t)
    /\ Unreserved(asset, logicalID)
    /\ mutate(t, [status |-> "created", asset |-> asset,
                  logicalID |-> logicalID, fenceEpoch |-> 0,
                  activeClaim |-> Nil, claimHistory |-> {}, target |-> Nil,
                  approval |-> Nil, operations |-> <<>>, records |-> {}])

Closed(claim) == [lane |-> claim.lane, fenceEpoch |-> claim.fenceEpoch]

StatusAfterClaim(tx, mode) ==
    IF mode = "reconciliation" /\ tx.status = "mutation_in_progress"
    THEN "reconciliation_required"
    ELSE IF tx.status \in {"quarantined", "reconciliation_required"} THEN tx.status
    ELSE IF tx.target = Nil THEN "claimed"
    ELSE IF mode = "mutation" THEN "target_bound"
    ELSE tx.status

\* Mutant: only the first claim advances the fence.
NextEpochMutant(asset) ==
    IF state.fenceEpochs[asset] = 0 THEN 1 ELSE state.fenceEpochs[asset]

NextEpoch(asset) == state.fenceEpochs[asset] + 1

\* The shared tail of AcquireClaim and TransferClaim: close the old claim,
\* take the next fence epoch of the asset, and drop the approval.
GrantClaim(t, mode, lane, stages, duration) ==
    LET tx    == state.transactions[t]
        epoch == NextEpoch(tx.asset)
        grant == [mode |-> mode, lane |-> lane, fenceEpoch |-> epoch,
                  stages |-> stages, expiresAt |-> now + duration]
        closed == IF tx.activeClaim = Nil THEN {} ELSE {Closed(tx.activeClaim)}
        granted == [tx EXCEPT !.fenceEpoch = epoch,
                              !.activeClaim = grant,
                              !.claimHistory = @ \cup closed,
                              !.approval = Nil,
                              !.status = StatusAfterClaim(tx, mode)]
    IN commitLocked([transactions |-> [state.transactions EXCEPT ![t] = granted],
                     fenceEpochs |-> [state.fenceEpochs EXCEPT ![tx.asset] = epoch]])

\* What both handlers check of the transaction before they grant a claim.
ClaimGrantable(t, mode, lane) ==
    LET tx == state.transactions[t] IN
    /\ state.fenceEpochs[tx.asset] < MaxEpoch
    /\ mode = "mutation" => ~hasConfirmedNotAppliedOperation(tx.operations)
    /\ validateClaimModeForStatus(mode, tx.status)
    /\ ensureClaimResourcesAvailable(t, lane)

AcquireClaim(t, mode, lane, stages, duration) ==
    /\ Exists(t)
    /\ LET claim == state.transactions[t].activeClaim IN
          claim # Nil => claim.expiresAt <= now
    /\ ClaimGrantable(t, mode, lane)
    /\ GrantClaim(t, mode, lane, stages, duration)

TransferClaim(t, epoch, mode, lane, stages, duration) ==
    /\ Exists(t)
    /\ requireCurrentClaim(state.transactions[t], epoch, ClaimMode)
    /\ state.transactions[t].status = "mutation_in_progress" =>
          mode = "reconciliation"
    /\ ClaimGrantable(t, mode, lane)
    /\ GrantClaim(t, mode, lane, stages, duration)

\* plan = Nil is a renewal that names no approval; deadline = Nil one that
\* names no target-bound authorization deadline.
requireClaimRenewalAuthorization(tx, plan, deadline) ==
    IF tx.status = "target_bound"
    THEN /\ deadline # Nil
         /\ plan = Nil
         /\ tx.approval = Nil
         /\ tx.operations = <<>>
         /\ tx.claimHistory = {}
         /\ tx.target # Nil
         /\ tx.records = {}
         /\ tx.activeClaim.mode = "mutation"
         /\ deadline > now
         /\ deadline <= now + MaxApprovalLifetime
    ELSE /\ deadline = Nil
         /\ tx.status = "commit_approved" => plan # Nil
         /\ plan # Nil => requireCurrentApproval(tx, plan)

RenewClaim(t, epoch, plan, deadline, duration) ==
    /\ Exists(t)
    /\ LET tx == state.transactions[t] IN
       /\ requireCurrentClaim(tx, epoch, ClaimMode)
       /\ requireClaimRenewalAuthorization(tx, plan, deadline)
       /\ mutate(t, [tx EXCEPT !.activeClaim.expiresAt = now + duration])

ReleaseClaim(t, epoch) ==
    /\ Exists(t)
    /\ LET tx == state.transactions[t] IN
       /\ requireCurrentClaim(tx, epoch, ClaimMode)
       /\ tx.status \in {"security_applied", "quarantined", "reconciled", "aborted"}
       /\ mutate(t, [tx EXCEPT !.claimHistory = @ \cup {Closed(tx.activeClaim)},
                               !.activeClaim = Nil])

-----------------------------------------------------------------------------
(***************************************************************************)
(* The campaign of one transaction.                                        *)
(***************************************************************************)

\* unowned: the observed customer key hash is the expected all-zero one.
BindTarget(t, epoch, fingerprint, unowned) ==
    /\ Exists(t)
    /\ LET tx == state.transactions[t] IN
       /\ requireCurrentClaim(tx, epoch, {"mutation"})
       /\ tx.status \in {"claimed", "target_bound", "reconciled"}
       /\ unowned
       /\ tx.target # Nil => tx.target.fingerprint = fingerprint
       /\ mutate(t, [tx EXCEPT !.target = [fingerprint |-> fingerprint,
                                           fenceEpoch |-> epoch],
                               !.approval = Nil,
                               !.status = "target_bound"])

\* Mutant: a target identified under an earlier claim will do.
TargetReidentifiedMutant(tx, epoch, fingerprint) ==
    tx.target # Nil /\ tx.target.fingerprint = fingerprint

\* The approved target was directly identified in the current fence epoch.
TargetReidentified(tx, epoch, fingerprint) ==
    /\ tx.target # Nil
    /\ tx.target.fenceEpoch = epoch
    /\ tx.target.fingerprint = fingerprint

RecordApproval(t, epoch, plan, release, fingerprint, expiresAt) ==
    /\ Exists(t)
    /\ LET tx == state.transactions[t]
           approval == [plan |-> plan, release |-> release,
                        lane |-> tx.activeClaim.lane, fenceEpoch |-> epoch,
                        target |-> fingerprint, expiresAt |-> expiresAt]
       IN
       /\ expiresAt > now
       /\ expiresAt <= now + MaxApprovalLifetime
       /\ requireCurrentClaim(tx, epoch, {"mutation"})
       /\ tx.status \in {"target_bound", "commit_approved"}
       /\ TargetReidentified(tx, epoch, fingerprint)
       /\ (tx.approval # Nil /\ tx.approval.plan = plan) =>
             SamePlanBindings(tx.approval, approval)
       /\ Operations \subseteq tx.activeClaim.stages
       /\ validatePriorOperationsAgainstPlan(tx.operations, approval)
       /\ mutate(t, [tx EXCEPT !.approval = approval,
                               !.status = "commit_approved"])

RecordIntent(t, epoch, plan, operation) ==
    /\ Exists(t)
    /\ LET tx   == state.transactions[t]
           next == completedApprovedOperations(tx.operations)
           intent == [operation |-> operation, status |-> "intent_recorded",
                      approval |-> tx.approval, intentAt |-> now,
                      output |-> FALSE, evidence |-> FALSE,
                      reconciliation |-> FALSE]
       IN
       /\ requireCurrentClaim(tx, epoch, {"mutation"})
       /\ tx.status = "commit_approved"
       /\ requireCurrentApproval(tx, plan)
       /\ \A i \in DOMAIN tx.operations :
             tx.operations[i].status \notin
                {"confirmed_not_applied", "intent_recorded", "uncertain"}
       /\ next < Len(Campaign)
       /\ Campaign[next + 1] = operation
       /\ operation \in tx.activeClaim.stages
       /\ mutate(t, [tx EXCEPT !.operations = Append(@, intent),
                               !.status = "mutation_in_progress"])

\* Mutant: an uncertain result leaves the status as it was.
StatusAfterEvidenceMutant(result) ==
    CASE result = "succeeded" -> "commit_approved"
      [] result = "failed"    -> "quarantined"
      [] result = "uncertain" -> "mutation_in_progress"

\* What each evidence result does to the transaction's status.
StatusAfterEvidence(result) ==
    CASE result = "succeeded" -> "commit_approved"
      [] result = "failed"    -> "quarantined"
      [] result = "uncertain" -> "reconciliation_required"

RecordEvidence(t, epoch, i, result) ==
    /\ Exists(t)
    /\ LET tx == state.transactions[t] IN
       /\ requireCurrentClaim(tx, epoch, {"mutation"})
       /\ tx.status = "mutation_in_progress"
       /\ i = Len(tx.operations)
       /\ i > 0
       /\ tx.operations[i].status = "intent_recorded"
       /\ mutate(t, [tx EXCEPT
             !.operations[i] = [@ EXCEPT !.status = result, !.output = TRUE,
                                         !.evidence = TRUE],
             !.approval = IF result = "succeeded" THEN @ ELSE Nil,
             !.status = StatusAfterEvidence(result),
             !.records = IF result = "failed" THEN @ \cup {"quarantined"} ELSE @])

\* The resolution "unknown" leaves the operation uncertain and quarantines.
OperationAfterReconciliation(resolution) ==
    IF resolution = "unknown" THEN "uncertain" ELSE resolution

StatusAfterReconciliation(status, resolution) ==
    IF resolution = "unknown" \/ status = "quarantined"
    THEN "quarantined" ELSE "reconciled"

\* Mutant: any recorded operation can be reconciled.
ReconcilableMutant == OperationStatus

\* The operations whose outcome a reconciliation may settle.
Reconcilable == {"intent_recorded", "uncertain", "failed"}

\* Mutant: a conclusive outcome lifts the quarantine and clears its record.
QuarantineLiftedMutant(t, epoch, i, resolution, output) ==
    /\ Exists(t)
    /\ resolution = "confirmed_applied" => output
    /\ LET tx == state.transactions[t] IN
       /\ requireCurrentClaim(tx, epoch, {"reconciliation"})
       /\ tx.status \in {"reconciliation_required", "quarantined"}
       /\ i \in DOMAIN tx.operations
       /\ tx.operations[i].status \in Reconcilable
       /\ mutate(t, [tx EXCEPT
             !.operations[i] =
                [@ EXCEPT !.status = OperationAfterReconciliation(resolution),
                          !.output = output, !.reconciliation = TRUE],
             !.approval = Nil,
             !.status = IF resolution = "unknown" THEN "quarantined" ELSE "reconciled",
             !.records = IF resolution = "unknown" THEN @ \cup {"quarantined"}
                         ELSE @ \ {"quarantined"}])

RecordReconciliation(t, epoch, i, resolution, output) ==
    /\ Exists(t)
    /\ resolution = "confirmed_applied" => output
    /\ LET tx == state.transactions[t] IN
       /\ requireCurrentClaim(tx, epoch, {"reconciliation"})
       /\ tx.status \in {"reconciliation_required", "quarantined"}
       /\ i \in DOMAIN tx.operations
       /\ tx.operations[i].status \in Reconcilable
       /\ mutate(t, [tx EXCEPT
             !.operations[i] =
                [@ EXCEPT !.status = OperationAfterReconciliation(resolution),
                          !.output = output, !.reconciliation = TRUE],
             !.approval = Nil,
             !.status = StatusAfterReconciliation(@, resolution),
             !.records = IF resolution = "unknown"
                         THEN @ \cup {"quarantined"} ELSE @])

QuarantineDevice(t, epoch) ==
    /\ Exists(t)
    /\ LET tx == state.transactions[t] IN
       /\ requireCurrentClaim(tx, epoch, ClaimMode)
       /\ tx.status \notin {"security_applied", "aborted", "quarantined"}
       /\ mutate(t, [tx EXCEPT !.approval = Nil, !.status = "quarantined",
                               !.records = @ \cup {"quarantined"}])

AbortTransaction(t, epoch) ==
    /\ Exists(t)
    /\ LET tx == state.transactions[t] IN
       /\ requireCurrentClaim(tx, epoch, {"mutation"})
       /\ tx.operations = <<>>
       /\ tx.status \notin {"security_applied", "quarantined"}
       /\ mutate(t, [tx EXCEPT !.approval = Nil, !.status = "aborted",
                               !.records = @ \cup {"aborted"}])

MarkSecurityApplied(t, epoch, plan) ==
    /\ Exists(t)
    /\ LET tx == state.transactions[t] IN
       /\ requireCurrentClaim(tx, epoch, {"mutation"})
       /\ tx.status = "commit_approved"
       /\ requireCurrentApproval(tx, plan)
       /\ validateCompletedDevelopmentCampaign(tx.operations, tx.approval)
       /\ mutate(t, [tx EXCEPT !.status = "security_applied",
                               !.records = @ \cup {"security_applied"}])

-----------------------------------------------------------------------------
(***************************************************************************)
(* The environment: time passes, the process restarts from its store.      *)
(***************************************************************************)
Tick ==
    /\ now < MaxTime
    /\ now' = now + 1
    /\ UNCHANGED <<state, store, saveFailures, corruptReply>>

\* NewService refuses a store that does not validate.
NewService ==
    /\ validatePersistedState(store)
    /\ state' = store
    /\ UNCHANGED <<store, now, saveFailures, corruptReply>>

Epochs == 1 .. MaxEpoch

Next ==
    \/ \E t \in Transactions, a \in Assets, l \in LogicalIDs :
          CreateTransaction(t, a, l)
    \/ \E t \in Transactions, m \in ClaimMode, l \in Lanes, s \in StageSets,
          d \in LeaseDurations : AcquireClaim(t, m, l, s, d)
    \/ \E t \in Transactions, e \in Epochs, m \in ClaimMode, l \in Lanes,
          s \in StageSets, d \in LeaseDurations : TransferClaim(t, e, m, l, s, d)
    \/ \E t \in Transactions, e \in Epochs, p \in Plans \cup {Nil},
          x \in (1 .. MaxTime + MaxApprovalLifetime) \cup {Nil},
          d \in LeaseDurations : RenewClaim(t, e, p, x, d)
    \/ \E t \in Transactions, e \in Epochs : ReleaseClaim(t, e)
    \/ \E t \in Transactions, e \in Epochs, f \in Targets, u \in BOOLEAN :
          BindTarget(t, e, f, u)
    \/ \E t \in Transactions, e \in Epochs, p \in Plans, r \in Releases,
          f \in Targets, x \in 1 .. MaxTime + MaxApprovalLifetime :
          RecordApproval(t, e, p, r, f, x)
    \/ \E t \in Transactions, e \in Epochs, p \in Plans, o \in Operations :
          RecordIntent(t, e, p, o)
    \/ \E t \in Transactions, e \in Epochs, i \in DOMAIN Campaign,
          r \in {"succeeded", "failed", "uncertain"} : RecordEvidence(t, e, i, r)
    \/ \E t \in Transactions, e \in Epochs, i \in DOMAIN Campaign,
          r \in {"confirmed_applied", "confirmed_not_applied", "unknown"},
          o \in ReconciliationOutputs : RecordReconciliation(t, e, i, r, o)
    \/ \E t \in Transactions, e \in Epochs : QuarantineDevice(t, e)
    \/ \E t \in Transactions, e \in Epochs : AbortTransaction(t, e)
    \/ \E t \in Transactions, e \in Epochs, p \in Plans : MarkSecurityApplied(t, e, p)
    \/ Tick
    \/ NewService

Spec == Init /\ [][Next]_vars
-----------------------------------------------------------------------------
(***************************************************************************)
(* Properties.                                                             *)
(***************************************************************************)

\* The type invariant: memory and store hold well-formed persisted states.
TypeOK ==
    /\ state \in PersistedState
    /\ store \in PersistedState
    /\ now \in Nat
    /\ saveFailures \in Nat
    /\ corruptReply \in BOOLEAN

Unresolved == {"intent_recorded", "uncertain", "failed"}

AllCompleted(ops) == \A i \in DOMAIN ops : ops[i].status \in Completed

\* The operations of a transaction are a prefix of the campaign, under one
\* plan, release and approval expiry, and only the last of them may be
\* unresolved or not applied.
InOrder(tx) ==
    LET ops == tx.operations IN
    /\ Len(ops) <= Len(Campaign)
    /\ \A i \in DOMAIN ops :
          /\ ops[i].operation = Campaign[i]
          /\ SamePlanBindings(ops[i].approval, ops[1].approval)
          /\ i < Len(ops) => ops[i].status \in Completed

\* The history of irreversible operations that RecordIntent writes is a prefix
\* of the approved campaign in which everything before the last operation is
\* proven complete, whatever claims, approvals, failing saves and restarts
\* came in between: no operation is skipped, repeated or started twice.
CampaignInOrder ==
    \A t \in Transactions : Exists(t) => InOrder(state.transactions[t])

\* The status that the handlers keep beside the history agrees with it.
Agrees(tx) ==
    LET ops  == tx.operations
        last == ops[Len(ops)].status
    IN
    /\ tx.status \in {"created", "claimed", "aborted"} => ops = <<>>
    /\ tx.status \in {"target_bound", "commit_approved", "security_applied"} =>
          AllCompleted(ops)
    /\ tx.status = "mutation_in_progress" =>
          ops # <<>> /\ last = "intent_recorded"
    /\ tx.status = "reconciliation_required" =>
          ops # <<>> /\ last \in {"intent_recorded", "uncertain"}
    /\ tx.status = "reconciled" =>
          ops # <<>> /\ last \in {"confirmed_applied", "confirmed_not_applied"}

\* An operation whose outcome is not known is never hidden behind a status that
\* lets the campaign go on: target_bound and commit_approved imply that every
\* recorded operation is complete, and an unresolved one keeps the transaction
\* in flight, in reconciliation or in quarantine.
StatusAgreesWithHistory ==
    \A t \in Transactions : Exists(t) => Agrees(state.transactions[t])

\* The authority under which the next intent is recorded.
Fresh(tx) ==
    /\ tx.approval # Nil =>
          /\ tx.status \in {"commit_approved", "mutation_in_progress",
                            "security_applied"}
          /\ tx.target # Nil
          /\ tx.approval.fenceEpoch = tx.fenceEpoch
          /\ tx.target.fenceEpoch = tx.fenceEpoch
          /\ tx.approval.target = tx.target.fingerprint
          /\ tx.activeClaim # Nil =>
                /\ tx.activeClaim.mode = "mutation"
                /\ tx.activeClaim.lane = tx.approval.lane
    /\ tx.status \in {"commit_approved", "mutation_in_progress"} =>
          tx.approval # Nil /\ tx.activeClaim # Nil

\* An approval never outlives the claim and the target identification that it
\* was given for: while it is present, approval, target and claim carry the
\* newest fence epoch of the transaction and the same lane and fingerprint.
ApprovalIsFenced ==
    \A t \in Transactions : Exists(t) => Fresh(state.transactions[t])

\* security_applied is reported only for the whole campaign.
Finished(tx) ==
    tx.status = "security_applied" =>
        /\ Len(tx.operations) = Len(Campaign)
        /\ AllCompleted(tx.operations)
        /\ \A i \in DOMAIN tx.operations :
              /\ tx.operations[i].operation = Campaign[i]
              /\ SamePlanBindings(tx.operations[i].approval, tx.approval)

\* A transaction that MarkSecurityApplied closed has complete evidence for
\* every operation of the campaign, in order, under the approval it ended with.
SecurityAppliedIsComplete ==
    \A t \in Transactions : Exists(t) => Finished(state.transactions[t])

Live(tx) == tx # Nil /\ tx.activeClaim # Nil /\ tx.activeClaim.expiresAt > now

\* Two transactions never hold unexpired claims on one station lane or on one
\* asset, through acquisitions, renewals, transfers, lost saves and restarts.
LanesAreExclusive ==
    \A t, u \in Transactions :
        (t # u /\ Live(state.transactions[t]) /\ Live(state.transactions[u])) =>
            /\ state.transactions[t].activeClaim.lane
                  # state.transactions[u].activeClaim.lane
            /\ state.transactions[t].asset # state.transactions[u].asset

\* The fence epoch of a transaction is the newest epoch of its asset: an asset
\* is reserved by one transaction, so nobody else can advance its fence.
FenceIsCurrent ==
    \A t \in Transactions :
        Exists(t) => LET tx == state.transactions[t] IN
                     /\ tx.fenceEpoch = state.fenceEpochs[tx.asset]
                     /\ tx.activeClaim # Nil =>
                           tx.activeClaim.fenceEpoch = tx.fenceEpoch

\* No handler produces a transaction that the store validator then refuses:
\* a request that passed every check of its handler is never answered with
\* ErrCorruptStore.
HandlersSatisfyTheStore == ~corruptReply

\* No request and no restart takes a transaction out of security_applied,
\* aborted or quarantined; reconciling a quarantined operation does not either.
TerminalIsFinal ==
    [][\A t \in Transactions :
          (Exists(t) /\ state.transactions[t].status \in Terminal) =>
              state'.transactions[t].status = state.transactions[t].status]_vars

\* The operation history is write-ahead and append-only: records are never
\* dropped, a resolved record never changes, an unresolved one keeps its
\* approval snapshot, and a new record is added only to a commit_approved
\* transaction, in the newest fence epoch.
HistoryIsAppendOnly ==
    [][\A t \in Transactions : Exists(t) =>
          LET old == state.transactions[t]
              new == state'.transactions[t]
          IN
          /\ new # Nil
          /\ Len(new.operations) >= Len(old.operations)
          /\ \A i \in DOMAIN old.operations :
                /\ old.operations[i].status \notin Unresolved =>
                      new.operations[i] = old.operations[i]
                /\ new.operations[i].approval = old.operations[i].approval
          /\ Len(new.operations) > Len(old.operations) =>
                /\ old.status = "commit_approved"
                /\ new.operations[Len(new.operations)].approval.fenceEpoch
                      = old.fenceEpoch]_vars

\* A fence epoch names one claim: whenever the claim of a transaction passes to
\* another lane or mode its epoch grows, and it never goes back, so a station
\* that holds an older epoch can be told from the current one.
EpochNamesOneClaim ==
    [][\A t \in Transactions : Exists(t) =>
          LET old == state.transactions[t]
              new == state'.transactions[t]
          IN
          /\ new.fenceEpoch >= old.fenceEpoch
          /\ (new.activeClaim # Nil /\ new.fenceEpoch = old.fenceEpoch) =>
                /\ old.activeClaim # Nil
                /\ new.activeClaim.lane = old.activeClaim.lane
                /\ new.activeClaim.mode = old.activeClaim.mode]_vars
=============================================================================
