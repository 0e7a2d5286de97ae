-------------------------- MODULE OperatorWorkflow --------------------------
(***************************************************************************)
(* The operator workflow (internal/provisioning/operatorworkflow and       *)
(* cmd/kaiba-provision-lane-workflow): the command line that drives one    *)
(* campaign through the control plane and the audit log.                   *)
(*                                                                         *)
(* Each command is a process of its own.  A "propose" command reads the    *)
(* transaction, renews its claim and writes a proposal to a new file; an   *)
(* "apply" command checks a proposal against the current transaction,      *)
(* appends its audit event and then records it at the control plane with a *)
(* compare-and-set.  A process may end between any two of its calls, a     *)
(* response may be lost, the same proposal may be applied again, and two   *)
(* operators may run commands at the same time.                            *)
(*                                                                         *)
(* The control plane and the audit log appear here as what the workflow    *)
(* uses of them, for one transaction; they are modelled in full in         *)
(* ControlPlane, MutateEnvelope and AuditLog.  The lane guard appears as   *)
(* the attempts it leaves in its journal (LaneGuard).                      *)
(*                                                                         *)
(* Time: a claim expires and the approval window ends as events of their   *)
(* own.  The times that the commands compare with each other are those of  *)
(* the service's changes, which are all different, and those that a        *)
(* command samples before it reads: both are counted in changes of the     *)
(* transaction, and the station's clock may be ahead by a skew.            *)
(***************************************************************************)
EXTENDS Integers, Sequences, FiniteSets

CONSTANTS
    Procs,              \* the processes that may run at the same time
    Approvers,          \* identities of approvers
    NumOps,             \* operations of the draft, seven in the code
    Skews,              \* how far the station's clock may be ahead of the service's
    Nil,                \* the nil pointer
    MaxRenewals,        \* bound on the renewals of a claim for one recording
    MaxEpoch,           \* bound on the fence epoch
    MaxReconciles       \* bound on the guard's observations of one attempt

ASSUME WorkflowAssumption ==
    /\ NumOps \in Nat \ {0}
    /\ Skews \subseteq Nat
    /\ MaxRenewals \in Nat
    /\ MaxEpoch \in Nat
    /\ MaxReconciles \in Nat

VARIABLES
    tx,         \* the transaction at the control plane
    done,       \* the requests in the control plane's idempotency index
    audit,      \* the records of the audit log; a receipt is a position in it
    draft,      \* the fence epoch of the written draft
    proposals,  \* the proposal files that were written
    procs,      \* the running commands
    journal,    \* the attempts that the guard has exported, for each operation
    guard,      \* the operation that the guard is executing, or 0
    applied,    \* the operations whose effect is on the target
    windowOpen  \* the reviewed approval window has not ended (ApprovalExpiresAt)

serviceVars == <<tx, done, audit>>
fileVars == <<draft, proposals>>
guardVars == <<journal, guard, applied>>
vars == <<serviceVars, fileVars, guardVars, procs, windowOpen>>

-----------------------------------------------------------------------------
(***************************************************************************)
(* The records.                                                            *)
(***************************************************************************)
Sequences == 1..NumOps

AttemptStatus == {"started", "verified", "uncertain", "quarantined", "confirmed_not_applied"}

\* transition is the fence epoch of the claim under which the guard
\* reconciled the attempt, or 0.
Attempt ==
    [sequence : Sequences, receipt : Nat, transition : Nat, status : AttemptStatus]

\* The statuses of an attempt that the guard does not revise.
Terminal == {"verified", "quarantined", "confirmed_not_applied"}

\* A claim is named by its fence epoch.
Claim(mode, epoch) ==
    [mode |-> mode, epoch |-> epoch, expired |-> FALSE]

ClaimType == [mode : {"mutation", "reconciliation"}, epoch : Nat, expired : BOOLEAN]
ApprovalType == [approver : Approvers, receipt : Nat]

\* An operation of the transaction, with the receipts of its audit events and
\* the attempt that its last result rests on.
OperationType ==
    [status : {"intent_recorded", "succeeded", "failed", "uncertain",
               "confirmed_applied", "confirmed_not_applied"},
     intent : Nat, evidence : Nat \cup {Nil}, reconciliation : Nat \cup {Nil},
     attempt : Attempt \cup {Nil}]

TransactionType ==
    [version : Nat,
     status : {"created", "claimed", "target_bound", "commit_approved",
               "mutation_in_progress", "reconciliation_required", "reconciled",
               "quarantined", "security_applied"},
     fenceEpoch : Nat, claim : ClaimType \cup {Nil},
     closed : SUBSET [epoch : Nat, how : {"expired", "transferred", "released"}],
     approval : ApprovalType \cup {Nil}, operations : Seq(OperationType),
     disposition : Nat \cup {Nil}]

RecordLabels == {"approval", "intent", "evidence", "reconciliation", "security_applied"}

\* What is approved, intended, evidenced, settled or reconciled.
SubjectType ==
    Approvers \cup Nat \cup (Nat \X AttemptStatus) \cup Seq(OperationType)
        \cup (Nat \X AttemptStatus \X Nat)

ProposalType ==
    [kind : RecordLabels, subject : SubjectType, version : Nat, epoch : Nat, at : Nat,
     approver : Approvers \cup {Nil}, attempt : Attempt \cup {Nil}]

EventType ==
    [kind : RecordLabels, subject : SubjectType, fence : Nat,
     result : {"intent_recorded", "succeeded", "uncertain", "quarantined", "reconciled"},
     attempt : Attempt \cup {Nil}, at : Nat]

Commands ==
    {"propose-approval", "propose-next-intent", "renew-pending-intent",
     "propose-evidence", "renew-ready-campaign", "propose-security-applied",
     "prepare-reconciliation", "propose-reconciliation", "release-terminal-claim"}

\* A running command: prepare-draft, one that reads and calls, or one that
\* applies a proposal.
ProcessType ==
    [pc : {"prepare"}, before : TransactionType]
    \cup [pc : {"call", "write"}, command : Commands,
          argument : Approvers \cup Attempt \cup {Nil}, at : Nat,
          before : TransactionType, after : TransactionType \cup {Nil}]
    \cup [pc : {"append", "record"}, proposal : ProposalType, receipt : Nat \cup {Nil}]

\* The nil pointer is none of the things that a pointer leads to.
ASSUME NilAssumption ==
    Nil \notin Nat \cup Attempt \cup ClaimType \cup ApprovalType \cup TransactionType
                \cup ProcessType

\* A freshly created transaction.
NewTransaction ==
    [version |-> 1, status |-> "created", fenceEpoch |-> 0, claim |-> Nil,
     closed |-> {}, approval |-> Nil, operations |-> <<>>, disposition |-> Nil]

\* Every change of the transaction has a time of its own at the service: the
\* number of changes stands for it.
UpdatedAt(t) == t.version

\* The transaction as it was at the time of its last renewal, when its claim was
\* not expired.
AsOf(t) == [t EXCEPT !.claim.expired = FALSE]

Last(t) == t.operations[Len(t.operations)]

Init ==
    /\ tx = Nil
    /\ done = {}
    /\ audit = <<>>
    /\ draft = Nil
    /\ proposals = {}
    /\ procs = [p \in Procs |-> Nil]
    /\ journal = [s \in Sequences |-> <<>>]
    /\ guard = 0
    /\ applied = {}
    /\ windowOpen = TRUE

-----------------------------------------------------------------------------
(***************************************************************************)
(* What the commands require of a transaction t at time at.                *)
(***************************************************************************)
matchDraftTransaction(t, status) ==
    /\ t.status = status
    /\ t.fenceEpoch = draft
    /\ t.claim # Nil
    /\ t.claim.mode = "mutation"
    /\ t.claim.epoch = draft

\* The campaign's own claim, unexpired, never handed over, in a transaction
\* that was not changed after the given time.
FixedClaim(t, at) ==
    /\ ~ t.claim.expired
    /\ t.closed = {}
    /\ t.disposition = Nil
    /\ UpdatedAt(t) <= at

AllSucceeded(t, n) == \A i \in 1..n : t.operations[i].status = "succeeded"

AllCompleted(t, n) ==
    \A i \in 1..n : t.operations[i].status \in {"succeeded", "confirmed_applied"}

matchRenewableTargetBoundCampaign(t, at) ==
    /\ matchDraftTransaction(t, "target_bound")
    /\ FixedClaim(t, at)
    /\ t.approval = Nil
    /\ t.operations = <<>>

readyCampaignPrefix(t, at) ==
    /\ matchDraftTransaction(t, "commit_approved")
    /\ FixedClaim(t, at)
    /\ t.approval # Nil
    /\ Len(t.operations) <= NumOps
    /\ AllSucceeded(t, Len(t.operations))

pendingCampaignSequence(t, at) ==
    /\ matchDraftTransaction(t, "mutation_in_progress")
    /\ FixedClaim(t, at)
    /\ t.approval # Nil
    /\ Len(t.operations) \in Sequences
    /\ AllSucceeded(t, Len(t.operations) - 1)
    /\ Last(t).status = "intent_recorded"

completedCampaignEvidence(t, at) ==
    /\ t.status \in {"commit_approved", "security_applied"}
    /\ matchDraftTransaction(t, t.status)
    /\ ~ t.claim.expired
    /\ t.status = "commit_approved" => UpdatedAt(t) <= at
    /\ t.approval # Nil
    /\ Len(t.operations) = NumOps
    /\ AllCompleted(t, NumOps)

\* A version that also reopens a quarantined transaction.
unresolvedSequenceMutant(t) ==
    /\ t.status \in {"mutation_in_progress", "reconciliation_required", "quarantined"}
    /\ Len(t.operations) \in Sequences

unresolvedSequence(t) ==
    /\ t.status \in {"mutation_in_progress", "reconciliation_required"}
    /\ t.disposition = Nil
    /\ Len(t.operations) \in Sequences
    /\ AllCompleted(t, Len(t.operations) - 1)
    /\ Last(t).status \in {"intent_recorded", "uncertain"}
    /\ IF t.status = "mutation_in_progress"
       THEN /\ Last(t).status = "intent_recorded"
            /\ t.approval # Nil
            /\ t.fenceEpoch = draft
       ELSE t.approval = Nil

matchReconciliationClaim(t) ==
    /\ t.claim # Nil
    /\ t.claim.mode = "reconciliation"
    /\ t.claim.epoch > draft
    /\ ~ t.claim.expired

matchPreparedReconciliation(t) ==
    /\ t.status = "reconciliation_required"
    /\ t.approval = Nil
    /\ unresolvedSequence(t)
    /\ matchReconciliationClaim(t)

\* The response to a renewal extends the claim and changes nothing else: the
\* version says that nothing happened in between.
matchExactClaimRenewal(before, after) ==
    /\ after.version = before.version + 1
    /\ after.claim # Nil

matchTerminalClaim(t) ==
    \/ /\ t.status = "security_applied"
       /\ t.claim.mode = "mutation"
       /\ t.fenceEpoch = draft
       /\ AllSucceeded(t, NumOps)
    \/ /\ t.status = "reconciled"
       /\ t.claim.mode = "reconciliation"
       /\ t.claim.epoch > draft
    \/ /\ t.status = "quarantined"
       /\ t.claim.mode = "mutation" <=> t.fenceEpoch = draft

Resolutions == {"verified", "confirmed_not_applied", "uncertain", "quarantined"}

\* A result other than a verified one needs an observation under this claim.
matchReconciliationTransitionClaim(attempt, epoch) ==
    IF attempt.transition = 0
    THEN attempt.status = "verified"
    ELSE attempt.transition = epoch

-----------------------------------------------------------------------------
(***************************************************************************)
(* The control plane: a request is replayed if its idempotency key is      *)
(* known, and is refused if it is known for another request; otherwise it  *)
(* must name the current version and satisfy its handler.                  *)
(***************************************************************************)
\* The labels of the renewals that carry the approval and the plan.
ApprovedRenewals == {"renew", "renew-pending-intent", "renew-ready-campaign"}

Renewals ==
    ApprovedRenewals \cup
        {"renew-target-bound-campaign", "renew-pending-evidence",
         "renew-reconciliation", "renew-reconciliation-observation"}

\* The workflow derives the key of a recording from what is recorded, and the
\* key of any other request from the version it was read at (workflowID).
IdempotencyKey(r) ==
    IF r.label \in RecordLabels THEN <<r.label, r.subject>>
    ELSE <<r.label, r.subject, r.version>>

requireCurrentClaim(r, modes) ==
    /\ tx.claim # Nil
    /\ tx.claim.epoch = r.epoch
    /\ tx.fenceEpoch = r.epoch
    /\ ~ tx.claim.expired
    /\ tx.claim.mode \in modes

AnyMode == {"mutation", "reconciliation"}

requireCurrentApproval == tx.approval # Nil /\ windowOpen

Reconcilable == {"mutation_in_progress", "reconciliation_required", "quarantined"}

\* The guards of the handlers, by the label of the request.
Authorized(r) ==
    \/ /\ r.label = "claim"
       /\ tx.claim = Nil
       /\ tx.status = "created"
    \/ /\ r.label = "bind-target"
       /\ requireCurrentClaim(r, {"mutation"})
       /\ tx.status \in {"claimed", "target_bound", "reconciled"}
    \/ /\ r.label \in Renewals
       /\ requireCurrentClaim(r, AnyMode)
       /\ IF tx.status = "target_bound"
          THEN r.label = "renew-target-bound-campaign" /\ windowOpen
          ELSE /\ r.label # "renew-target-bound-campaign"
               /\ tx.status = "commit_approved" => r.label \in ApprovedRenewals
               /\ r.label \in ApprovedRenewals => requireCurrentApproval
    \/ /\ r.label = "transfer-reconciliation"
       /\ requireCurrentClaim(r, AnyMode)
       /\ tx.status \in Reconcilable
    \/ /\ r.label = "acquire-reconciliation"
       /\ tx.claim = Nil \/ tx.claim.expired
       /\ tx.status \in Reconcilable
    \/ /\ r.label = "release-terminal-claim"
       /\ requireCurrentClaim(r, AnyMode)
       /\ tx.status \in {"security_applied", "quarantined", "reconciled", "aborted"}
    \/ /\ r.label = "approval"
       /\ requireCurrentClaim(r, {"mutation"})
       /\ windowOpen
       /\ tx.status \in {"target_bound", "commit_approved"}
    \/ /\ r.label = "intent"
       /\ requireCurrentClaim(r, {"mutation"})
       /\ tx.status = "commit_approved"
       /\ requireCurrentApproval
       /\ r.subject = Len(tx.operations) + 1
       /\ AllCompleted(tx, Len(tx.operations))
    \/ /\ r.label = "evidence"
       /\ requireCurrentClaim(r, {"mutation"})
       /\ tx.status = "mutation_in_progress"
       /\ r.attempt.sequence = Len(tx.operations)
       /\ Last(tx).status = "intent_recorded"
    \/ /\ r.label = "reconciliation"
       /\ requireCurrentClaim(r, {"reconciliation"})
       /\ tx.status \in {"reconciliation_required", "quarantined"}
       /\ tx.operations[r.attempt.sequence].status \in {"intent_recorded", "uncertain", "failed"}
    \/ /\ r.label = "security_applied"
       /\ requireCurrentClaim(r, {"mutation"})
       /\ tx.status = "commit_approved"
       /\ requireCurrentApproval
       /\ Len(tx.operations) = NumOps
       /\ AllCompleted(tx, NumOps)

\* A new claim, which drops the approval and, for a reconciliation, turns the
\* pending mutation into one that must be reconciled.
NewClaim(mode, how) ==
    [tx EXCEPT !.claim = Claim(mode, tx.fenceEpoch + 1),
               !.fenceEpoch = @ + 1,
               !.closed = IF tx.claim = Nil THEN @
                          ELSE @ \cup {[epoch |-> tx.claim.epoch, how |-> how]},
               !.approval = Nil,
               !.status = IF mode = "mutation" THEN "claimed"
                          ELSE IF @ = "mutation_in_progress" THEN "reconciliation_required"
                          ELSE @]

Intent(r) ==
    [status |-> "intent_recorded", intent |-> r.receipt, evidence |-> Nil,
     reconciliation |-> Nil, attempt |-> Nil]

EvidenceResult(attempt) ==
    CASE attempt.status = "verified" -> "succeeded"
      [] attempt.status = "quarantined" -> "failed"
      [] attempt.status = "uncertain" -> "uncertain"

\* A version that records an uncertain attempt as not applied.
ResolvedStatusMutant(attempt) ==
    CASE attempt.status = "verified" -> "confirmed_applied"
      [] OTHER -> "confirmed_not_applied"

\* reconciliationResolution and the operation status it leads to.
ResolvedStatus(attempt) ==
    CASE attempt.status = "verified" -> "confirmed_applied"
      [] attempt.status = "confirmed_not_applied" -> "confirmed_not_applied"
      [] attempt.status \in {"uncertain", "quarantined"} -> "uncertain"

\* RecordEvidence: a failure quarantines, an uncertain result must be
\* reconciled, and both end the approval.
WithEvidence(r) ==
    LET n == Len(tx.operations)
        result == EvidenceResult(r.attempt)
    IN  [tx EXCEPT !.operations[n] = [@ EXCEPT !.status = result, !.evidence = r.receipt,
                                              !.attempt = r.attempt],
                   !.status = CASE result = "succeeded" -> "commit_approved"
                                [] result = "failed" -> "quarantined"
                                [] result = "uncertain" -> "reconciliation_required",
                   !.approval = IF result = "succeeded" THEN @ ELSE Nil,
                   !.disposition = IF result = "failed" THEN r.receipt ELSE @]

\* RecordReconciliation.
WithReconciliation(r) ==
    LET n == r.attempt.sequence
        resolved == ResolvedStatus(r.attempt)
    IN  [tx EXCEPT !.operations[n] = [@ EXCEPT !.status = resolved, !.reconciliation = r.receipt,
                                              !.attempt = r.attempt],
                   !.approval = Nil,
                   !.status = IF resolved = "uncertain" THEN "quarantined"
                              ELSE IF @ = "quarantined" THEN @ ELSE "reconciled",
                   !.disposition = IF resolved = "uncertain" THEN r.receipt ELSE @]

\* What each handler makes of the transaction.
Handled(r) ==
    CASE r.label = "claim" -> NewClaim("mutation", "expired")
      [] r.label = "acquire-reconciliation" -> NewClaim("reconciliation", "expired")
      [] r.label = "transfer-reconciliation" -> NewClaim("reconciliation", "transferred")
      [] r.label = "bind-target" -> [tx EXCEPT !.status = "target_bound", !.approval = Nil]
      [] r.label \in Renewals -> tx
      [] r.label = "release-terminal-claim" ->
            [tx EXCEPT !.claim = Nil,
                       !.closed = @ \cup {[epoch |-> tx.claim.epoch, how |-> "released"]}]
      [] r.label = "approval" ->
            [tx EXCEPT !.status = "commit_approved",
                       !.approval = [approver |-> r.subject, receipt |-> r.receipt]]
      [] r.label = "intent" ->
            [tx EXCEPT !.status = "mutation_in_progress",
                       !.operations = Append(@, Intent(r))]
      [] r.label = "evidence" -> WithEvidence(r)
      [] r.label = "reconciliation" -> WithReconciliation(r)
      [] r.label = "security_applied" ->
            [tx EXCEPT !.status = "security_applied", !.disposition = r.receipt]

Sender(c) == c.pc \in {"prepare", "call"}

Known(r) == \E d \in done : IdempotencyKey(d) = IdempotencyKey(r)

Replays(r) == r \in done

Commits(r) ==
    /\ ~ Known(r)
    /\ r.version = tx.version
    /\ Authorized(r)

\* A request whose key names a version can only be sent again by a process that
\* has read that version; once there is none, its key plays no part.
Held(r, p) ==
    \E o \in Procs \ {p} :
        procs[o] # Nil /\ Sender(procs[o]) /\ procs[o].before.version = r.version

\* The call is answered: with the current transaction if it is a replay.
ControlCall(p, r) ==
    \/ /\ Replays(r)
       /\ UNCHANGED <<tx, done>>
    \/ /\ Commits(r)
       /\ tx' = [Handled(r) EXCEPT !.version = tx.version + 1]
       /\ done' = {d \in done \cup {r} : d.label \in RecordLabels \/ Held(d, p)}

Ends(p) == procs' = [procs EXCEPT ![p] = Nil]

-----------------------------------------------------------------------------
(***************************************************************************)
(* prepare-draft: create, claim, bind, and write the draft.  It is resumed *)
(* by running it again.                                                    *)
(***************************************************************************)
Idle(p) == procs[p] = Nil

\* The request of a process for the transaction t that it has read.
Request(label, subject, t) ==
    [label |-> label, subject |-> subject, version |-> t.version,
     epoch |-> t.fenceEpoch, attempt |-> Nil, receipt |-> Nil]

\* CreateTransaction is idempotent: it answers with the current transaction.
CreateTransaction(p) ==
    /\ Idle(p)
    /\ draft = Nil
    /\ windowOpen
    /\ tx' = IF tx = Nil THEN NewTransaction ELSE tx
    /\ procs' = [procs EXCEPT ![p] = [pc |-> "prepare", before |-> tx']]
    /\ UNCHANGED <<done, audit, fileVars, guardVars, windowOpen>>

\* AcquireClaim only from the created status: authority is never acquired
\* afresh for an old observation.
PrepareClaim(p) ==
    /\ ~ Idle(p) /\ procs[p].pc = "prepare"
    /\ procs[p].before.status = "created"
    /\ ControlCall(p, Request("claim", 0, procs[p].before))
    /\ procs' = [procs EXCEPT ![p].before = tx']
    /\ UNCHANGED <<audit, fileVars, guardVars, windowOpen>>

HoldsLeasedClaim(t) ==
    t.claim # Nil /\ t.claim.mode = "mutation" /\ ~ t.claim.expired

BindTarget(p) ==
    /\ ~ Idle(p) /\ procs[p].pc = "prepare"
    /\ procs[p].before.status = "claimed"
    /\ HoldsLeasedClaim(procs[p].before)
    /\ ControlCall(p, Request("bind-target", 0, procs[p].before))
    /\ procs' = [procs EXCEPT ![p].before = tx']
    /\ UNCHANGED <<audit, fileVars, guardVars, windowOpen>>

\* Another prepare-draft can only repeat what was done, and is not followed.
WriteDraft(p) ==
    /\ ~ Idle(p) /\ procs[p].pc = "prepare"
    /\ procs[p].before.status = "target_bound"
    /\ HoldsLeasedClaim(procs[p].before)
    /\ draft' = procs[p].before.fenceEpoch
    /\ procs' = [o \in Procs |-> Nil]
    /\ UNCHANGED <<serviceVars, proposals, guardVars, windowOpen>>

-----------------------------------------------------------------------------
(***************************************************************************)
(* The commands that read the transaction and make one control call: the   *)
(* renewals, the preparation of a reconciliation, the release, and the     *)
(* propose commands, which then write a proposal.                          *)
(***************************************************************************)
Proposing ==
    {"propose-approval", "propose-next-intent", "propose-evidence",
     "propose-security-applied", "propose-reconciliation"}

Exported(s) == {journal[s][i] : i \in DOMAIN journal[s]}

\* The approver, or the file with an attempt, that the operator names.  The
\* file may be an export that the guard's journal has since gone beyond.
Arguments(command) ==
    CASE command = "propose-approval" -> Approvers
      [] command \in {"propose-evidence", "propose-reconciliation"} ->
            UNION {Exported(s) : s \in Sequences}
      [] OTHER -> {Nil}

\* What each command requires of the transaction t, at time at, before its call.
RenewTargetBoundCampaign(t, at) == windowOpen /\ matchRenewableTargetBoundCampaign(t, at)

PrepareNextIntent(t, at) ==
    /\ windowOpen
    /\ readyCampaignPrefix(t, at)
    /\ Len(t.operations) < NumOps

RenewPendingIntent(t, at) == windowOpen /\ pendingCampaignSequence(t, at)

RenewPendingEvidence(t, at) == pendingCampaignSequence(t, at)

RenewReadyCampaign(t, at) ==
    /\ windowOpen
    /\ readyCampaignPrefix(t, at)
    /\ Len(t.operations) = NumOps => completedCampaignEvidence(t, at)

PrepareReconciliationClaim(t) == unresolvedSequence(t)

RenewReconciliationClaim(t) ==
    /\ t.status = "reconciliation_required"
    /\ unresolvedSequence(t)
    /\ matchReconciliationClaim(t)

ReleaseTerminalClaim(t) ==
    /\ t.claim # Nil
    /\ \A c \in t.closed : c.how # "released"
    /\ matchTerminalClaim(t)

Ready(command, t, at) ==
    \/ command = "propose-approval" /\ RenewTargetBoundCampaign(t, at)
    \/ command = "propose-next-intent" /\ PrepareNextIntent(t, at)
    \/ command = "renew-pending-intent" /\ RenewPendingIntent(t, at)
    \/ command = "propose-evidence" /\ RenewPendingEvidence(t, at)
    \/ command \in {"renew-ready-campaign", "propose-security-applied"} /\ RenewReadyCampaign(t, at)
    \/ command = "prepare-reconciliation" /\ PrepareReconciliationClaim(t)
    \/ command = "propose-reconciliation" /\ RenewReconciliationClaim(t)
    \/ command = "release-terminal-claim" /\ ReleaseTerminalClaim(t)

\* The request that the command makes for the transaction it has read.
CommandRequest(command, t) ==
    LET n == Len(t.operations)
        leased == t.claim # Nil /\ ~ t.claim.expired
    IN  CASE command = "propose-approval" -> Request("renew-target-bound-campaign", 0, t)
          [] command = "propose-next-intent" -> Request("renew", n + 1, t)
          [] command = "renew-pending-intent" -> Request("renew-pending-intent", n, t)
          [] command = "propose-evidence" -> Request("renew-pending-evidence", n, t)
          [] command \in {"renew-ready-campaign", "propose-security-applied"} ->
                Request("renew-ready-campaign", n, t)
          [] command = "prepare-reconciliation" ->
                IF leased /\ t.claim.mode = "reconciliation"
                THEN Request("renew-reconciliation", 0, t)
                ELSE IF leased THEN Request("transfer-reconciliation", 0, t)
                ELSE Request("acquire-reconciliation", 0, t)
          [] command = "propose-reconciliation" ->
                Request("renew-reconciliation-observation", n, t)
          [] command = "release-terminal-claim" -> Request("release-terminal-claim", 0, t)

\* The bounds: the renewals that were committed, beyond one for each recording,
\* and the claims.
WithinBounds(r) ==
    LET records == Cardinality({d \in done : d.label \in RecordLabels})
        renewals == tx.version - 2 - tx.fenceEpoch - records
    IN  /\ r.label \in Renewals => renewals - records < MaxRenewals
        /\ r.label \in {"transfer-reconciliation", "acquire-reconciliation"} =>
              tx.fenceEpoch < MaxEpoch

\* The clock is sampled, the transaction is read and checked.
Read(p, command) ==
    /\ Idle(p)
    /\ tx # Nil /\ draft # Nil
    /\ WithinBounds(CommandRequest(command, tx))
    /\ \E skew \in Skews, argument \in Arguments(command) :
          /\ Ready(command, tx, UpdatedAt(tx) + skew)
          /\ procs' = [procs EXCEPT ![p] =
                          [pc |-> "call", command |-> command, argument |-> argument,
                           at |-> UpdatedAt(tx) + skew, before |-> tx, after |-> Nil]]
    /\ UNCHANGED <<serviceVars, fileVars, guardVars, windowOpen>>

ResultOf(q) ==
    CASE q.kind \in {"approval", "intent"} -> "intent_recorded"
      [] q.kind = "security_applied" -> "succeeded"
      [] q.kind = "evidence" ->
            CASE q.attempt.status = "verified" -> "succeeded"
              [] OTHER -> q.attempt.status
      [] q.kind = "reconciliation" ->
            IF q.attempt.status \in {"verified", "confirmed_not_applied"} THEN "reconciled"
            ELSE "quarantined"

\* The event is a function of the proposal, its time included.
AuditEvent(q) ==
    [kind |-> q.kind, subject |-> q.subject, fence |-> q.epoch,
     result |-> ResultOf(q), attempt |-> q.attempt, at |-> q.at]

EventKey(e) == <<e.kind, e.subject>>

SameKey(e) == {i \in DOMAIN audit : EventKey(audit[i]) = EventKey(e)}

\* A version that takes every known key for a conflict.
AnswersMutant(e) == IF SameKey(e) = {} THEN {Len(audit) + 1} ELSE {}

\* The receipts that the audit log may answer with: a new one, the one it gave
\* for the same event, or none if the key is known for another event.
Answers(e) ==
    IF SameKey(e) = {} THEN {Len(audit) + 1}
    ELSE {i \in SameKey(e) : audit[i] = e}

Appended(e) == \E i \in SameKey(e) : audit[i] = e

\* A file is kept while it can be applied: its version is the current one, or
\* its event was appended.  Any other is refused without an effect.
Kept(t) == {q \in proposals : q.version = t.version \/ Appended(AuditEvent(q))}

\* The control call.  A propose command goes on with the response.
Call(p) ==
    /\ ~ Idle(p) /\ procs[p].pc = "call"
    /\ ControlCall(p, CommandRequest(procs[p].command, procs[p].before))
    /\ IF procs[p].command \in Proposing
       THEN procs' = [procs EXCEPT ![p].pc = "write", ![p].after = tx']
       ELSE Ends(p)
    /\ proposals' = Kept(tx')
    /\ UNCHANGED <<audit, draft, guardVars, windowOpen>>

Proposal(kind, subject, t, at, approver, attempt) ==
    [kind |-> kind, subject |-> subject, version |-> t.version, epoch |-> t.fenceEpoch,
     at |-> at, approver |-> approver, attempt |-> attempt]

\* The renewal of the named transaction, checked at the service's own time.
Renewed(c) ==
    /\ c.command # "propose-next-intent" => matchExactClaimRenewal(c.before, c.after)
    /\ Len(c.after.operations) = Len(c.before.operations)

\* The proposal that each command has for the renewed transaction, or none if
\* that does not pass the checks at the sampled time.
NewApprovalProposal(c, t) ==
    {q \in {Proposal("approval", c.argument, t, c.at, c.argument, Nil)} :
        matchRenewableTargetBoundCampaign(t, UpdatedAt(t))}

NewIntentProposal(c, t) ==
    {q \in {Proposal("intent", Len(t.operations) + 1, t, c.at,
                     IF t.approval = Nil THEN Nil ELSE t.approval.approver, Nil)} :
        readyCampaignPrefix(t, c.at)}

NewEvidenceProposal(c, t) ==
    {q \in {Proposal("evidence", <<Len(t.operations), c.argument.status>>, t, c.at, Nil,
                     c.argument)} :
        /\ pendingCampaignSequence(t, c.at)
        /\ c.argument.sequence = Len(t.operations)
        /\ c.argument.status \in {"verified", "uncertain", "quarantined"}
        /\ c.argument.receipt = Last(t).intent}

NewSecurityAppliedProposal(c, t) ==
    {q \in {Proposal("security_applied", t.operations, t, c.at, Nil, Nil)} :
        completedCampaignEvidence(t, c.at)}

NewReconciliationProposal(c, t) ==
    {q \in {Proposal("reconciliation", <<Len(t.operations), c.argument.status, t.fenceEpoch>>,
                     t, c.at, Nil, c.argument)} :
        /\ matchPreparedReconciliation(t)
        /\ c.argument.sequence = Len(t.operations)
        /\ c.argument.status \in Resolutions
        /\ matchReconciliationTransitionClaim(c.argument, t.fenceEpoch)
        /\ c.argument.receipt = Last(t).intent}

Written(c) ==
    IF ~ Renewed(c) THEN {}
    ELSE CASE c.command = "propose-approval" -> NewApprovalProposal(c, c.after)
           [] c.command = "propose-next-intent" -> NewIntentProposal(c, c.after)
           [] c.command = "propose-evidence" -> NewEvidenceProposal(c, c.after)
           [] c.command = "propose-security-applied" -> NewSecurityAppliedProposal(c, c.after)
           [] c.command = "propose-reconciliation" -> NewReconciliationProposal(c, c.after)

\* The proposal is written to a new file.
Write(p) ==
    /\ ~ Idle(p) /\ procs[p].pc = "write"
    /\ Written(procs[p]) # {}
    /\ proposals' = proposals \cup Written(procs[p])
    /\ Ends(p)
    /\ UNCHANGED <<serviceVars, draft, guardVars, windowOpen>>

-----------------------------------------------------------------------------
(***************************************************************************)
(* The apply commands: check, audit, record.                               *)
(***************************************************************************)
\* A version that names the last record of the audit log.
RecordRequestMutant(q, receipt) ==
    [label |-> q.kind, subject |-> q.subject, version |-> q.version,
     epoch |-> q.epoch, attempt |-> q.attempt, receipt |-> Len(audit)]

RecordRequest(q, receipt) ==
    [label |-> q.kind, subject |-> q.subject, version |-> q.version,
     epoch |-> q.epoch, attempt |-> q.attempt, receipt |-> receipt]

SameClaim(q) == tx.claim # Nil /\ tx.claim.epoch = q.epoch /\ tx.fenceEpoch = q.epoch

\* PreflightCurrentClaim, at the service's clock, for a proposal that is not a
\* replay.  The transaction it returns must be the one that was read.
preflightCurrentClaim == ~ tx.claim.expired

\* Each proposal is either still awaited, in exactly the version it names, or
\* already recorded.
proposalMatchesCurrentApproval(q) ==
    /\ tx.claim.mode = "mutation"
    /\ tx.operations = <<>>
    /\ \/ /\ tx.version = q.version
          /\ tx.status = "target_bound"
          /\ tx.approval = Nil
          /\ windowOpen
          /\ preflightCurrentClaim
       \/ /\ tx.version > q.version
          /\ tx.status = "commit_approved"
          /\ tx.approval.approver = q.approver

proposalMatchesCurrentIntent(q) ==
    /\ tx.approval # Nil
    /\ tx.approval.approver = q.approver
    /\ \/ /\ tx.version = q.version
          /\ matchDraftTransaction(tx, "commit_approved")
          /\ AllCompleted(tx, Len(tx.operations))
          /\ q.subject = Len(tx.operations) + 1
          /\ requireCurrentApproval
          /\ preflightCurrentClaim
       \/ /\ tx.version # q.version
          /\ Len(tx.operations) = q.subject
          /\ Last(tx).status = "intent_recorded"

proposalMatchesCurrentEvidence(q) ==
    /\ Len(tx.operations) = q.attempt.sequence
    /\ Last(tx).intent = q.attempt.receipt
    /\ \/ /\ tx.version = q.version
          /\ tx.status = "mutation_in_progress"
          /\ Last(tx).status = "intent_recorded"
          /\ preflightCurrentClaim
       \/ /\ tx.version # q.version
          /\ Last(tx).status = EvidenceResult(q.attempt)
          /\ Last(tx).attempt = q.attempt

proposalMatchesCurrentSecurityApplied(q) ==
    /\ completedCampaignEvidence(AsOf(tx), q.at)
    /\ tx.operations = q.subject
    /\ \/ /\ tx.status = "commit_approved"
          /\ tx.version = q.version
          /\ requireCurrentApproval
          /\ preflightCurrentClaim
       \/ /\ tx.status = "security_applied"
          /\ tx.version > q.version

proposalMatchesCurrentReconciliation(q) ==
    /\ tx.claim.mode = "reconciliation"
    /\ Len(tx.operations) = q.attempt.sequence
    /\ Last(tx).intent = q.attempt.receipt
    /\ \/ /\ tx.version = q.version
          /\ matchPreparedReconciliation(AsOf(tx))
          /\ preflightCurrentClaim
       \/ /\ tx.version # q.version
          /\ tx.status = IF ResolvedStatus(q.attempt) = "uncertain" THEN "quarantined"
                         ELSE "reconciled"
          /\ Last(tx).status = ResolvedStatus(q.attempt)
          /\ Last(tx).attempt = q.attempt
          /\ Last(tx).reconciliation # Nil

proposalMatchesCurrent(q) ==
    /\ SameClaim(q)
    /\ \/ q.kind = "approval" /\ proposalMatchesCurrentApproval(q)
       \/ q.kind = "intent" /\ proposalMatchesCurrentIntent(q)
       \/ q.kind = "evidence" /\ proposalMatchesCurrentEvidence(q)
       \/ q.kind = "security_applied" /\ proposalMatchesCurrentSecurityApplied(q)
       \/ q.kind = "reconciliation" /\ proposalMatchesCurrentReconciliation(q)

\* The read and the preflight: a preflight that succeeds finds what was read.
Check(p, q) ==
    /\ Idle(p)
    /\ proposalMatchesCurrent(q)
    /\ procs' = [procs EXCEPT ![p] = [pc |-> "append", proposal |-> q, receipt |-> Nil]]
    /\ UNCHANGED <<serviceVars, fileVars, guardVars, windowOpen>>

ApplyApproval(p, q) == q.kind = "approval" /\ Check(p, q)
ApplyIntent(p, q) == q.kind = "intent" /\ Check(p, q)
ApplyEvidence(p, q) == q.kind = "evidence" /\ Check(p, q)
ApplySecurityApplied(p, q) == q.kind = "security_applied" /\ Check(p, q)
ApplyReconciliation(p, q) == q.kind = "reconciliation" /\ Check(p, q)

\* The event is appended, or was appended before.
AppendAudit(p) ==
    /\ ~ Idle(p) /\ procs[p].pc = "append"
    /\ LET e == AuditEvent(procs[p].proposal)
       IN  \E i \in Answers(e) :
              /\ audit' = IF i \in DOMAIN audit THEN audit ELSE Append(audit, e)
              /\ procs' = [procs EXCEPT ![p].pc = "record", ![p].receipt = i]
    /\ UNCHANGED <<tx, done, fileVars, guardVars, windowOpen>>

\* The compare-and-set that names the receipt.
Record(p) ==
    /\ ~ Idle(p) /\ procs[p].pc = "record"
    /\ ControlCall(p, RecordRequest(procs[p].proposal, procs[p].receipt))
    /\ Ends(p)
    /\ proposals' = Kept(tx')
    /\ UNCHANGED <<audit, draft, guardVars, windowOpen>>

-----------------------------------------------------------------------------
(***************************************************************************)
(* Processes that end early, the guard, and the clock.                     *)
(***************************************************************************)
Answered(r) == Replays(r) \/ Commits(r)

\* The next call of the process is refused, or what it was given does not
\* pass its checks.
Refused(p) ==
    /\ ~ Idle(p)
    /\ LET c == procs[p]
       IN  \/ /\ c.pc = "prepare"
              /\ \/ c.before.status = "created" /\ ~ Answered(Request("claim", 0, c.before))
                 \/ /\ c.before.status \in {"claimed", "target_bound"}
                    /\ ~ HoldsLeasedClaim(c.before)
                 \/ /\ c.before.status = "claimed"
                    /\ ~ Answered(Request("bind-target", 0, c.before))
                 \/ c.before.status \notin {"created", "claimed", "target_bound"}
           \/ c.pc = "call" /\ ~ Answered(CommandRequest(c.command, c.before))
           \/ c.pc = "write" /\ Written(c) = {}
           \/ c.pc = "append" /\ Answers(AuditEvent(c.proposal)) = {}
           \/ c.pc = "record" /\ ~ Answered(RecordRequest(c.proposal, c.receipt))
    /\ Ends(p)
    /\ UNCHANGED <<serviceVars, fileVars, guardVars, windowOpen>>

\* The process is killed, or a response is lost.
Crash(p) ==
    /\ ~ Idle(p)
    /\ Ends(p)
    /\ UNCHANGED <<serviceVars, fileVars, guardVars, windowOpen>>

Attempted(s, status, transition) ==
    [sequence |-> s, receipt |-> tx.operations[s].intent, transition |-> transition,
     status |-> status]

\* The guard confirms its authority, and holds its lock until the attempt is
\* in the journal; the claim may be lost in between.
GuardExecute(s) ==
    /\ guard = 0
    /\ tx # Nil
    /\ tx.status = "mutation_in_progress"
    /\ Len(tx.operations) = s
    /\ ~ tx.claim.expired
    /\ requireCurrentApproval
    /\ journal[s] = <<>>
    /\ guard' = s
    /\ UNCHANGED <<serviceVars, fileVars, procs, journal, applied, windowOpen>>

GuardFinish ==
    /\ guard # 0
    /\ \E effect \in SUBSET {guard}, status \in {"started", "verified", "uncertain", "quarantined"} :
          /\ status = "verified" => effect # {}
          /\ applied' = applied \cup effect
          /\ journal' = [journal EXCEPT ![guard] = Append(@, Attempted(guard, status, 0))]
    /\ guard' = 0
    /\ UNCHANGED <<serviceVars, fileVars, procs, windowOpen>>

\* The guard observes the target under the reconciliation claim.  It has
\* nothing to reconcile without an attempt.
GuardReconcile(s) ==
    /\ guard = 0
    /\ tx # Nil
    /\ tx.status = "reconciliation_required"
    /\ Len(tx.operations) = s
    /\ matchReconciliationClaim(tx)
    /\ journal[s] # <<>>
    /\ journal[s][Len(journal[s])].status \notin Terminal
    /\ Len(journal[s]) <= MaxReconciles
    /\ \E status \in Resolutions :
          /\ status = "verified" => s \in applied
          /\ status = "confirmed_not_applied" => s \notin applied
          /\ journal' = [journal EXCEPT ![s] = Append(@, Attempted(s, status, tx.fenceEpoch))]
    /\ UNCHANGED <<serviceVars, fileVars, procs, guard, applied, windowOpen>>

ClaimExpires ==
    /\ tx # Nil /\ tx.claim # Nil /\ ~ tx.claim.expired
    /\ tx' = [tx EXCEPT !.claim.expired = TRUE]
    /\ UNCHANGED <<done, audit, fileVars, guardVars, procs, windowOpen>>

ApprovalWindowEnds ==
    /\ windowOpen
    /\ windowOpen' = FALSE
    /\ UNCHANGED <<serviceVars, fileVars, guardVars, procs>>

Next ==
    \/ \E p \in Procs :
          \/ CreateTransaction(p)
          \/ PrepareClaim(p)
          \/ BindTarget(p)
          \/ WriteDraft(p)
          \/ \E command \in Commands : Read(p, command)
          \/ Call(p)
          \/ Write(p)
          \/ \E q \in proposals :
                \/ ApplyApproval(p, q)
                \/ ApplyIntent(p, q)
                \/ ApplyEvidence(p, q)
                \/ ApplySecurityApplied(p, q)
                \/ ApplyReconciliation(p, q)
          \/ AppendAudit(p)
          \/ Record(p)
          \/ Refused(p)
          \/ Crash(p)
    \/ \E s \in Sequences : GuardExecute(s) \/ GuardReconcile(s)
    \/ GuardFinish
    \/ ClaimExpires
    \/ ApprovalWindowEnds

Spec == Init /\ [][Next]_vars

-----------------------------------------------------------------------------
(***************************************************************************)
(* Properties.                                                             *)
(***************************************************************************)
\* The variables keep their types.
TypeOK ==
    /\ tx \in TransactionType \cup {Nil}
    /\ audit \in Seq(EventType)
    /\ draft \in Nat \cup {Nil}
    /\ proposals \subseteq ProposalType
    /\ procs \in [Procs -> ProcessType \cup {Nil}]
    /\ journal \in [Sequences -> Seq(Attempt)]
    /\ guard \in Sequences \cup {0}
    /\ applied \subseteq Sequences
    /\ windowOpen \in BOOLEAN

\* The record of the given kind and subject that a receipt names.
Receipt(r, kind, subject) ==
    r \in DOMAIN audit /\ EventKey(audit[r]) = <<kind, subject>>

\* Whatever the control plane has recorded names the receipt of the audit event
\* of exactly that step, with the attempt it rests on, although the two calls of
\* an apply command are separate and other commands run between them.
EveryRecordIsAudited ==
    tx # Nil =>
        /\ tx.approval # Nil => Receipt(tx.approval.receipt, "approval", tx.approval.approver)
        /\ \A s \in DOMAIN tx.operations :
              LET o == tx.operations[s]
              IN  /\ Receipt(o.intent, "intent", s)
                  /\ o.evidence # Nil =>
                        /\ audit[o.evidence].kind = "evidence"
                        /\ audit[o.evidence].attempt.receipt = o.intent
                        /\ o.reconciliation = Nil => audit[o.evidence].attempt = o.attempt
                  /\ o.reconciliation # Nil =>
                        /\ audit[o.reconciliation].kind = "reconciliation"
                        /\ audit[o.reconciliation].fence > audit[o.intent].fence
                        /\ audit[o.reconciliation].attempt = o.attempt

\* What the control plane holds of an operation is true of the target: a success
\* is an effect, and an operation that was confirmed not to be applied stays so,
\* whatever the guard was doing when the claim was lost.
ResolutionsAreTrue ==
    tx # Nil =>
        \A s \in DOMAIN tx.operations :
            /\ tx.operations[s].status \in {"succeeded", "confirmed_applied"} => s \in applied
            /\ tx.operations[s].status = "confirmed_not_applied" => s \notin applied \cup {guard}

Settled(t) == t.disposition # Nil \/ t.status = "reconciled"

\* After a reconciliation claim no command approves, starts or finishes a
\* mutation, and a transaction that is settled stays as it is until and after
\* its claim is released.
ReconciliationEndsMutation ==
    [][(tx # Nil /\ draft # Nil) =>
          /\ tx.fenceEpoch > draft =>
                /\ tx'.approval = Nil
                /\ Len(tx'.operations) = Len(tx.operations)
                /\ tx'.status \in {"reconciliation_required", "reconciled", "quarantined"}
          /\ Settled(tx) =>
                /\ tx'.operations = tx.operations
                /\ tx'.status = tx.status
                /\ tx'.fenceEpoch = tx.fenceEpoch]_vars

\* A step whose event is in the audit log, and which was not recorded because the
\* command ended in between, is finished by applying the same proposal again,
\* as long as the version, the claim and the approval window still stand.
AuditedStepsCanFinish ==
    \A q \in proposals :
        LET e == AuditEvent(q)
        IN  (Appended(e) /\ q.version = tx.version /\ ~ tx.claim.expired /\ windowOpen) =>
                /\ proposalMatchesCurrent(q)
                /\ \E i \in Answers(e) : Answered(RecordRequest(q, i))

\* PrepareNextIntent "renews the existing fixed claim ... and returns a durable
\* proposal": a command that has renewed the claim can write its proposal.
RenewalYieldsProposal ==
    \A p \in Procs :
        (~ Idle(p) /\ procs[p].pc = "write" /\ procs[p].command = "propose-next-intent") =>
            Written(procs[p]) # {}

=============================================================================
