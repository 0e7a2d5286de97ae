# Kaiba Provisioning in TLA+

A verification development for the provisioning system in `src/`: TLA+ modules
for the components that decide whether an irreversible operation on a device
may happen, TLC runs on small instances, and TLAPS proofs for all instances.

A Raspberry Pi 5 is provisioned once: a customer key is burned into its OTP and
a signed EEPROM is written. Nothing of that can be undone, so the code is built
around durable intents, fences, leases and verdicts. What can go wrong is
seldom in one function. It is a reply that got lost, a save that failed after
its rename, a process that died between the record of an intent and the answer
of the hardware, or two stations at the moment a lease runs out. That is what
the modules are about.

## 1. Inventory

| Component | State it keeps | Operations | What is hard |
| --- | --- | --- | --- |
| control plane (`controlplane`) | transactions, reservations, fence epochs, idempotency index; one JSON file | create, acquire/renew/transfer/release claim, bind target, approve, record intent/evidence/reconciliation, quarantine, abort, mark security applied | lost replies, failed saves, restarts, expiring leases, long histories of operations |
| lane guard (`laneguard`) | the loaded plan, the attempt journal (a locked file) | load plan, execute, reconcile, reconcile plan | death of the process around the dispatch, deadlines against late answers, several plans for one target |
| audit log (`auditlog`) | a hash chain of records, idempotency index; one file | append, read | failed saves and restarts between an append and the use of its receipt |
| signing gate (`signinggate`) | one state file per grant, a host-wide lock | sign, export of receipts | several processes, expiry during key use, a registry that is replaced |
| boot-transition journal (`laneguard/boot_transition.go`) | the boot transitions of the attempts, in the guard's journal | begin, put, with the validation of every record and every update | crash between two steps, a failed save under a record still held in memory |
| physical adapter (`physicalrpi5`) and operator prompt (`operatorprompt`) | the power lease, the pinned USB device, the cached target; the prompt in flight | execute, observe, recover; show, acknowledge, withdraw | power and USB mode against what the journal says; a board exchanged between two steps; a relay holder that dies |
| operator workflow (`operatorworkflow`), authority bridge (`authoritybridge`) | proposal files; the bridge has none | approval, intent, evidence, security-applied, reconciliation, each over the control plane and the audit log | stopping between the two services, two operators, old proposals, two clocks |
| pilot enrollment (`pilotenrollment`) | key, enrollment, renewals, recovery and trust in one state file | enroll, renew, recover, continue trust, each with its retries | lost replies, cutover behind the client's back, terms that run out |
| device enrollment (`deviceenrollment`) | credentials in protected storage | enroll | as above, a smaller protocol |
| release authorization (`releaseauthorization`) | challenges, tokens, key epochs | challenge, authorize, consume | one-use tokens, rotation |
| campaign staging (`campaignstaging`) | receipts on two media | recover, stage | crash between two receipts |
| media, release artifacts, plan compiler, stable campaign, exports, rehearsals, probe, commands | none that several actors share | conversions, validators, one-pass I/O | bytes rather than control |

How they interact. A station operator drives a transaction through the control
plane, and appends an audit event before every record there, so that each
record carries a receipt of the audit log. The authority bridge reads the
transaction and its audit records and hands a plan with its approval to the
lane guard. The guard executes one operation of the plan on the target through
the physical adapter, and records what it knows in its own journal; the
operator workflow brings that back as evidence or reconciliation. Independently
of this the signing gate signs the artifacts of a release, once per grant. The
adapter keeps a record of every boot transition in the guard's journal, and
nothing else is done on a lane while one of them is open or quarantined. A
provisioned pilot device enrolls with Fleet and keeps its credential current by
itself.

What makes each component correct:

* control plane: the operation history is a prefix of the campaign under one
  plan; an unresolved operation is never hidden by the status; an approval does
  not outlive the claim and target it was given for; two live claims never
  share a lane or an asset; what was acknowledged is durable and took effect
  exactly once;
* lane guard: an operation reaches the hardware at most once, after its intent
  is durable and its predecessors are verified, inside the lease; the verdicts
  of the journal are true of the target; a committed target is never committed
  again, under any plan;
* audit log: a receipt names its record for ever;
* signing gate: one key use for a grant; receipts are durable before they are
  returned, and are returned only for the request they were made for;
* boot transitions: a lane whose transitions are closed is without power; a
  commit is started only on the board that was identified for it, still fresh,
  unless the board is exchanged after the last look at its USB instance, and is
  completed only if that board carries the key; nothing is resumed after a
  restart; every open transition ends;
* operator workflow: what the control plane records was audited; what a
  reconciliation records is true of the target; a step that was audited and not
  recorded can be finished; once an operation is taken up for reconciliation no
  other goes on;
* pilot enrollment: an operation is proved with one signature only; the
  credentials in force are Fleet's in Fleet's order; what was begun can be
  finished while its terms last and the state file has room.

`PROJECT.json` lists every component with its status, and the hazards of the
code at their lines with the properties that would catch each going wrong.

## 2. The modules

Every module starts with what it models and where its steps are cut. Names are
those of the source; `PROJECT.json` maps every definition to its lines.

### `ControlPlane`

`controlplane/service.go`, `workflow.go`, `store_validation.go`,
`validation.go`, `storage.go`. The service holds one mutex and runs a request
as a whole (clone, handler, validate, save, swap), so a request is one action:
`CreateTransaction`, `AcquireClaim`, `TransferClaim`, `RenewClaim`,
`ReleaseClaim`, `BindTarget`, `RecordApproval`, `RecordIntent`,
`RecordEvidence`, `RecordReconciliation`, `QuarantineDevice`,
`AbortTransaction`, `MarkSecurityApplied`. Every one ends in `commitLocked`,
which validates the candidate with `validatePersistedState` (translated from
the store validator) and saves it. A save that returns an error may have
replaced the file, because `FileStore.Save` renames before it syncs the
directory: `Save` has both outcomes. `NewService` is a restart that loads
whatever the file holds, `Tick` the clock.

Abstractions: digests, receipts and identifiers are members of small sets. The
campaign is a constant sequence of operations; the code's has seven, and no
rule of the control plane depends on more than first, next and last. The
resource version and the idempotency key are not here: a request carries the
current version and a fresh key, and `MutateEnvelope` is about the rest.

The validator has the rules on the status, the claim, the approval, the
operations and the terminal records (a transaction has the quarantine, the
security-applied or the abort record just when it has that status:
`TerminalRecordsMatch`, with the field `records`). It leaves out the formats of
identifiers and digests and the order of recorded times: an approval that
ends before it was given or too long after (`store_validation.go:183-184`), an
intent before its approval (`:216`), a claim acquired or closed out of order
(`:152`, `:169`). The handlers take these times from the clock of the request or
check them against it; `HandlersSatisfyTheStore` says nothing about them.

### `MutateEnvelope`

`Service.mutate`, through which every request goes: replay by idempotency key,
the version check, the commit and the reply. Any request of a constant set may
arrive at any time and any number of times, which covers lost replies, retries,
duplicates and reordering. A handler is abstracted to the request it appends to
the history of its transaction.

### `AuditLog`

`auditlog/service.go`: append, replay, conflict, the chain of hashes, failing
saves and restarts. A hash is modelled as what it covers (the chain up to the
record), which assumes that SHA-256 has no collisions.

### `LaneGuard`

`laneguard/guard.go`, `contracts.go`, `store.go`, and from
`physicalrpi5/adapter.go` what an execution does to the target. A guard serves
one call at a time, so what interleaves is the clock, the target, failing saves
and the death of the process. `Execute` is cut where one of these can come
between two effects: `ExecuteBegin`, `PreObservation`, `RecordStarted`,
`HardwareExecute`, then `HardwareFails`, `HardwareReturnsLate`,
`HardwareEvidenceIsInvalid` or `HardwareSucceeds`, and `PostObservation`.
Reconciliation is `Reconcile` or `ReconcilePlan` and then
`ReconciliationObserves`, with the branches of `reconcileLocked`. `newGuard` is
the death of the process at any point. `Put` is the journal: validation
(`validateAttempt`, `validAttemptTransition`), and a save that succeeds, fails
before the rename, or fails after it.

The target is abstracted to the customer key it carries and what its EEPROM
holds. `dispatches` and `effect` are history variables: how often an attempt
was handed to the hardware, and what it changed. The boot-transition journal is
abstracted to whether the execution's transition completed, which is what the
attempt's validation looks at; `BootTransition` has the rest.

What the hardware reports (`ReportsSuccess`): a commit succeeds only if its
metadata shows the release's key and EEPROM, and that metadata is taken to be
true. The other operations report success without it (an owned readback accepts
an EEPROM that was not read, a boot test reads neither), so the observation after
them may find another state and quarantine the attempt. An attestation that is
missing or of the wrong form is `HardwareEvidenceIsInvalid`; one that is there
and names another plan or device (`guard.go:309`, `store.go:700-719`) is left
out, because the adapter compares every field of the metadata with the plan
before it returns one.

### `OneTimeOperations`

What the guard promises to those who do not see its journal: an operation of a
plan is begun once, may take its effect once while it is open, and is settled
once and truthfully. `LaneGuard` implements it under the mapping `Conclusion`
(an attempt is idle, begun, or settled by its verdict), which the run
`LaneGuard` checks and `LaneGuardProofs` proves.

### `SigningGate`

`signinggate/gate.go`, `state.go`, `registry.go`, `snapshot.go`. Gate processes
with a registry each share the state files and the lock. `Sign` is cut at the
lock, the durable intent, the use of the key, the attestation and the durable
receipt; between them the clock may advance and the process may die, which
releases the lock (`NewGate`, with whatever registry the new process finds). A
backend that fails may have used the key before (`SignArtifactFails`).

### `BootTransition`

`laneguard/boot_transition.go`, the transition part of `laneguard/store.go`,
`physicalrpi5/adapter.go` and `system.go`, and the prompt of `operatorprompt`.
One lane and its adapter, which serves one call at a time. A call is cut at
every save of the journal and at every effect on the target: the begin of a
transition, the cold interval, the power-up by relay or by hand, the observed
mode, the payload, safe-off and the terminal record. Before it begins anything a
call recovers what an earlier daemon left open. Between two steps the board may
be exchanged, the process that holds the relay may die, a save may fail with or
without its rename, and the daemon may end and come back with another power
control.

Assumptions about the world: the relay is normally off, and its holder ends with
the daemon (`docs/architecture-and-trust-boundaries.md:141`,
`docs/raspberry-pi-5-live-provisioning.md:155`); the operator acts on a prompt
that is shown and tells the truth (`:176` there). Which prompt an acknowledgement belongs to
(connection, identifier and digest) is not modelled: an answer is a step of the
prompt that is shown. Times are left out: waits end by choice, and `atLeast`
keeps the recorded times in order.

The last look at the pinned device (`BeforeStart`) and the run of rpiboot
(`CommitPayload`, `Readback`) are two steps, as in `RunGuarded`
(`system.go:42-53`), and the board may be exchanged between them: the source says
that the check "narrows the physically exclusive lane's re-identification
window" and "is not an atomic hot-swap-resistant USB transaction"
(`system.go:26-28`). `exchanged` remembers such an exchange.
`CommitReachesItsFreshBoard` claims what the code can give: a commit is started
on the authority-bound board, without a key, unless the exchange fell into that
window; and in every case a commit is recorded as completed only if the
authority-bound board carries the key.

### `OperatorWorkflow`

`operatorworkflow/workflow.go` and `cmd/kaiba-provision-lane-workflow`. Each
command is a process that reads the transaction, renews the claim, writes a
proposal, or applies one by an audit event and a compare-and-set at the control
plane; every call is a step, and any may be the last. Two processes run at the
same time, old proposals are applied again, the claim expires and is transferred,
and the guard leaves attempts in its journal that a reconciliation then reports.
The two services appear as what the workflow uses of them for one transaction.
The times that the commands compare are counted in changes of the transaction,
plus how far the station's clock is ahead (`Skews`).

### `PilotEnrollment`

`pilotenrollment/*_linux.go` with their validators. The state file is a record
of the enrollment, the completed renewals, the current one, the recovery, its
place among the renewals, and the trust continuations; an entry has its
operation, its phase and the signatures that were made for it. Each command is a
process under the directory's lock; it is cut at its requests and saves, and may
end there: a lost request, a lost reply, a denial and a death are the same to
the file. `save` validates the whole state as `state.validate` does, and one
that fails leaves the old file, the old file with a temporary one that stops all
later commands, or the new file. A valid state that is larger than the file may
be (1 MiB, `store_linux.go:101-103`) is refused before anything is written, at
every retry; `docs/pilot-device-renewal.md:134-137` says that the limit can be
reached before the number of renewals and that state is kept for review.
`Size` counts a state in documents and `MaxBytes` is the limit in that measure.

Fleet is not in the repository. Its actions (`FleetApproves`, `FleetIssues`,
`FleetActivates` and the answers to requests) are what the client's requests and
checks suppose: it approves a successor of the credential in force, keeps the
first proof and knows it again, and denies a credential that it has replaced. A
document is its operation, and its terms are whole units of a common clock. That
a proof of installation must come from another process than the installation is
built in, because each command is one. The clock of the device does not go back.

### MC modules and proof modules

The modules named `MC...` hold the values of the constants. Every component has
a module `...Proofs` that extends it and holds its theorems: the inductive
invariant in named parts, a lemma for each handler or group of steps, and the
theorems at the end. The operators whose names end in `Mutant` are plausible
bugs in the definition that follows them, kept to show that each property can
fail; no action uses them.

## 3. The runs

| Run | Instance | Checks | States |
| --- | --- | --- | --- |
| `ControlPlaneCampaign` | 1 transaction, 2 lanes, campaign of 2, 2 plans, 2 targets, clock 0..3, 3 epochs, 1 failing save | `CampaignInOrder`, `StatusAgreesWithHistory`, `ApprovalIsFenced`, `SecurityAppliedIsComplete`, `HandlersSatisfyTheStore`, `TerminalIsFinal`, `HistoryIsAppendOnly`, `EpochNamesOneClaim` | 423 k |
| `ControlPlaneLanes` | 2 transactions, 2 assets, 2 lanes, leases of 1 and 2, no plans | `LanesAreExclusive`, `FenceIsCurrent` | 166 k |
| `ControlPlaneUnknown` | reconciliations with and without an output digest | `HandlersSatisfyTheStore`, violated (finding 1) | |
| `MutateEnvelope` | 8 requests that race for versions and share keys, 3 failing saves | `AcknowledgedIsApplied`, `EffectOnce`, `VersionConflictIsHonest` | 7 k |
| `AuditLog` | 5 requests that share keys and event identifiers, 2 failing saves | `ReceiptsStand`, `OneReceiptPerEvent` | 4 k |
| `LaneGuard` | 2 plans for a target under successive fences, 2 operations, one plan approved with an unread EEPROM, clock 0..2, 1 failing save | `ExecuteOnce`, `DispatchIsJournaled`, `LeaseOutlivesExecution`, `VerdictsAreTrue`, `CommittedTargetIsLeftAlone`, `ReconcilingGuardIsDisarmed`, `RecordsAreFinal`, `ImplementsOneTimeOperations` | 493 k |
| `LaneGuardDeadline` | 1 plan, 1 operation, no failing save | `JournalTakesEveryOutcome`, violated (finding 2) | |
| `SigningGate` | 2 processes, 3 registries, 3 grants, clock 0..2, 1 failing write | `KeyUsedOnce`, `ReceiptsAreDurable`, `ReceiptsAreAuthorized` | 55 k |
| `BootTransition` | a commit and a cold boot with their observations, relay and manual power, 1 failing save, 2 ends of the daemon, 1 exchanged board | `ClosedLaneIsOff`, `CommitReachesItsFreshBoard`, `JournalTakesEveryRecord`, `CompletedIsExecuted`, `OldTransitionsAreNotResumed`, `QuarantineIsALock`, `TransitionsEnd` | 828 k |
| `OperatorWorkflow` | 2 processes, 1 operation, 2 renewals, 2 epochs, a station clock that is ahead | `EveryRecordIsAudited`, `ResolutionsAreTrue`, `AuditedStepsCanFinish`, `ReconciliationEndsMutation` | 1,216 k |
| `OperatorWorkflowClock` | 1 process, the two clocks exactly in step | `RenewalYieldsProposal`, violated (finding 3) | |
| `PilotEnrollment` | 2 renewals and 1 recovery, credentials of 2 units, challenges of 1, a CA of 2 that may be continued once, a file with room for 22 documents, clock 0..3, 1 interruption | `ProofsAreSaved`, `ChainFollowsFleet`, `InterruptionsAreFinished` | 116 k |

Why the bounds are enough for the cases they are meant for:

* The control plane's rules look at the first, the next and the last operation
  of a campaign, at one claim and its successor, and at one approval and its
  successor. Two operations, three epochs and a clock that outruns a lease and
  an approval have all of these, with a transfer in every place. Two plans and
  two targets are the least with which something can be confused.
* Two transactions with two lanes compete in every way two stations can; the
  plan-related actions do not touch lanes and are left out there by `Plans =
  {}`, which the first run makes up for.
* One failing save leaves memory and store apart; what a second one adds is a
  store that is ahead twice, which `MutateEnvelope` and `AuditLog` have.
* A commit and the operation after it are all that the guard's rules relate: a
  predecessor that must be verified, and a target that must not be committed
  twice. A clock of 0..2 has a deadline that passes during an execution, with
  and without the lease. Longer campaigns and any number of approvals are
  covered by the theorems.
* Two gate processes and one write failure have every order of intent, key use,
  death and retry. The three registries have an early expiry, an extended
  grant, a reused identifier, and two current grants for one artifact.
* A board exchanged once, a relay holder that dies at any time and two ends of
  the daemon have every way in which the journal and the lane come apart: an
  open record whose board is gone, an energized lane without a record that says
  so, and the recovery of a recovery.
* Two processes and a claim that changes hands once are enough for a step that
  is audited by one operator and overtaken by the other. One operation has all
  five recordings and their reconciliation.
* Two renewals and a recovery have a renewal before and after the recovery, in
  one history of four credentials. The clock passes the end of the credentials,
  of the challenges and of the CA, and the continuation must be made in time. An
  interruption is a command that is cut off, a request that is lost or a save
  that fails; `MaxFaults` counts them together. A file of 22 documents has room
  for four complete credentials and not for the trust continuation besides, so
  the same operation is finished in one history and outgrows the file in another.

The clock, epochs and failures are capped in the guards of their actions by
`MaxTime`, `MaxEpoch`, `MaxSaveFailures`, `MaxPutFailures`, `MaxWriteFailures`,
`MaxCrashes`, `MaxSwaps`, `MaxRenewals`, `MaxReconciles` and `MaxFaults`;
`MaxHistory`, `MaxContinuations` and `MaxBytes` are limits of the code itself. The
guard's, the workflow's and the enrollment's runs say `CHECK_DEADLOCK FALSE`:
once the bounded clock is past every approval, lease or certificate, everything
is rightly refused. The other runs check deadlock. Lanes, plans, targets, transactions,
assets and gate processes are interchangeable, and the runs with only
invariants and action properties use that symmetry.

Fairness is assumed in two specifications, where something is owed.

* `BootTransition`: every wait of the adapter has a deadline and every process
  it starts is ended with its context, so a call that runs takes its next step
  (`WF` of `AdapterStep`); and a lane that is in use is called again (`WF` of
  `Call`). Failing saves and ends of the daemon are finitely many. Then every
  open transition is closed or quarantined (`TransitionsEnd`).
* `PilotEnrollment`: a request ends after 15 seconds, so a command goes on or
  ends (`WF` of `Continues`); the operator runs, again and again while it is
  possible, the command that the errors and documents name for the phase
  (`SF` of `DocumentedStep`: the clock and Fleet may disable it in between); and
  Fleet's operator does his part (`WF`). The clock is not fair. Then an operation
  of which a proof has left the device is completed, unless one of its terms
  runs out, a failed save has left its temporary file, or the file has no room
  for what is yet to be saved; at the last two the code stops for review
  (`InterruptionsAreFinished`).

The other components promise no progress: the lock of the gate is polled, and a
refusal of the guard, the control plane or the workflow is meant to be final.

## 4. Findings

1. `ControlPlaneUnknown`. A reconciliation that concludes `unknown` may leave
   out its output digest: `validation.go:288` speaks of the "optional
   reconciliation output_digest" and checks it only when it is given. If the
   operation already has an evidence receipt, from an outcome recorded as
   uncertain or failed, the handler overwrites its digest with the empty one and
   keeps the receipt, and the store validator refuses an uncertain operation that
   has a receipt and no output (`store_validation.go:231-233`): the request is
   answered with `ErrCorruptStore` and can never be recorded. Without an earlier
   receipt the same request is accepted (`:235-236`), which is the case that
   `service_test.go:1504-1512` tests. `ControlPlaneCampaign` lets reconciliations
   carry the digest always.
2. `LaneGuardDeadline`. When the hardware succeeds and the operation's context
   has ended meanwhile, the error branch of `Execute` (`guard.go:286`) records
   the completed transition without its result, which the journal refuses
   (`store.go:776`). The durable attempt stays `started`, where
   `guard_test.go:1443` expects `uncertain` after a deadline. It is safe: the
   attempt is still in the way of a second execution and can be reconciled
   (`ExecuteOnce`, `VerdictsAreTrue` hold with this branch in the model), but
   the attestation of the commit is lost.
3. `OperatorWorkflowClock`. The propose command samples its clock before it calls
   the workflow (`cmd/kaiba-provision-lane-workflow/main.go:326`), which renews
   the claim at the service and then refuses a transaction that was updated after
   the sample (`workflow.go:1902`). Unless the service's clock is behind, the
   claim is renewed and the proposal refused, where `workflow.go:500` says that
   the command "renews the existing fixed claim, derives the sole next operation
   from successful control history, and returns a durable proposal". The tests
   give both sides one frozen clock. `OperatorWorkflow` runs with a station clock
   that is ahead, so that the rest of the protocol is reached.

## 5. The proofs

All proofs are for every value of the constants under the `ASSUME`s of the
component's module: bounds are natural numbers, requests, registries and
campaigns are of their types, and `Nil` is none of the values it stands beside
(`NilAssumption`, and in `BootTransition` the last part of `LaneAssumption`).
TLC evaluates these assumptions in every run. One theorem has a hypothesis of its
own: `HandlersAgreeWithStore` supposes that every reconciliation reports an
output digest (`ReconciliationOutputs \subseteq {TRUE}`), because without it the
statement is false of an operation that already has an evidence receipt, which
is finding 1.

| Theorem | States |
| --- | --- |
| `ControlPlaneProofs!TypeCorrect` | `Spec => []TypeOK` |
| `ControlPlaneProofs!CampaignIsInOrder` | `Spec => []CampaignInOrder` |
| `ControlPlaneProofs!StatusIsHonest` | `Spec => []StatusAgreesWithHistory` |
| `ControlPlaneProofs!ApprovalFencing` | `Spec => []ApprovalIsFenced` |
| `ControlPlaneProofs!SecurityAppliedSound` | `Spec => []SecurityAppliedIsComplete` |
| `ControlPlaneProofs!LaneExclusion` | `Spec => []LanesAreExclusive` |
| `ControlPlaneProofs!FenceCurrency` | `Spec => []FenceIsCurrent` |
| `ControlPlaneProofs!HandlersAgreeWithStore` | `Spec => []HandlersSatisfyTheStore` (with the hypothesis above) |
| `ControlPlaneProofs!TerminalStatusIsFinal` | `Spec => TerminalIsFinal` |
| `ControlPlaneProofs!HistoryOnlyGrows` | `Spec => HistoryIsAppendOnly` |
| `ControlPlaneProofs!EpochIdentifiesClaim` | `Spec => EpochNamesOneClaim` |
| `MutateEnvelopeProofs!AcknowledgedStaysApplied` | `Spec => []AcknowledgedIsApplied` |
| `MutateEnvelopeProofs!EffectsAreUnique` | `Spec => []EffectOnce` |
| `MutateEnvelopeProofs!ConflictsAreHonest` | `Spec => []VersionConflictIsHonest` |
| `AuditLogProofs!ReceiptsStandForEver` | `Spec => []ReceiptsStand` |
| `AuditLogProofs!ReceiptsAreUnique` | `Spec => []OneReceiptPerEvent` |
| `LaneGuardProofs!TypeCorrect` | `Spec => []TypeOK` |
| `LaneGuardProofs!ExecutesOnce` | `Spec => []ExecuteOnce` |
| `LaneGuardProofs!DispatchesAreJournaled` | `Spec => []DispatchIsJournaled` |
| `LaneGuardProofs!LeasesOutliveExecutions` | `Spec => []LeaseOutlivesExecution` |
| `LaneGuardProofs!VerdictsStayTrue` | `Spec => []VerdictsAreTrue` |
| `LaneGuardProofs!CommitsFindFreshTargets` | `Spec => CommittedTargetIsLeftAlone` |
| `LaneGuardProofs!RecordsStayFinal` | `Spec => RecordsAreFinal` |
| `LaneGuardProofs!ReconcilingGuardStaysDisarmed` | `Spec => ReconcilingGuardIsDisarmed` |
| `LaneGuardProofs!GuardImplementsOneTimeOperations` | `Spec => ImplementsOneTimeOperations` |
| `SigningGateProofs!OneKeyUse` | `Spec => []KeyUsedOnce` |
| `SigningGateProofs!ReceiptsStayDurable` | `Spec => []ReceiptsAreDurable` |
| `SigningGateProofs!ReceiptsStayAuthorized` | `Spec => []ReceiptsAreAuthorized` |
| `BootTransitionProofs!TypeCorrect` | `Spec => []TypeOK` |
| `BootTransitionProofs!LaneOffWhenClosed` | `Spec => []ClosedLaneIsOff` |
| `BootTransitionProofs!CommitsReachFreshBoards` | `Spec => []CommitReachesItsFreshBoard` |
| `BootTransitionProofs!NoRecordIsRefused` | `Spec => []JournalTakesEveryRecord` |
| `BootTransitionProofs!CompletionNeedsExecution` | `Spec => CompletedIsExecuted` |
| `BootTransitionProofs!OldTransitionsOnlyEnd` | `Spec => OldTransitionsAreNotResumed` |
| `BootTransitionProofs!QuarantineLocks` | `Spec => QuarantineIsALock` |
| `OperatorWorkflowProofs!TypeCorrect` | `Spec => []TypeOK` |
| `OperatorWorkflowProofs!RecordsAreAudited` | `Spec => []EveryRecordIsAudited` |
| `OperatorWorkflowProofs!RecordsAreTrue` | `Spec => []ResolutionsAreTrue` |
| `OperatorWorkflowProofs!AuditedStepsFinish` | `Spec => []AuditedStepsCanFinish` |
| `OperatorWorkflowProofs!MutationEnds` | `Spec => ReconciliationEndsMutation` |
| `PilotEnrollmentProofs!SignaturesAreSaved` | `Spec => []ProofsAreSaved` |
| `PilotEnrollmentProofs!ClientFollowsFleet` | `Spec => []ChainFollowsFleet` |
| `PilotEnrollmentProofs!NeverSignedTwice` | `Spec => []OneSignature` |

The arguments:

* Control plane. A restart may load a store that is ahead of memory, so the
  properties are not inductive over memory alone: the invariant says of memory
  and of the store that every transaction in them satisfies `TxInv` (order,
  agreement of status and history, freshness of the approval, completeness, and
  that all operations share the plan of the approval, if there is one), and that
  the transactions together satisfy `World`: an asset is reserved by at
  most one transaction, one that none has reserved was never fenced, each
  transaction carries the newest epoch of its asset, and no two live claims share
  a lane. `Follows` says that the store differs from memory only as one request
  may move its transactions (`Advances`), so the action properties hold of a
  restart too. There is a lemma for each handler, which shows that its candidate
  is good before it is validated: the invariant does not rest on what the store
  validator refuses, and `HandlersAgreeWithStore` is the statement that it never
  has anything to refuse. That the terminal records agree with the status is
  carried by two lemmas, one for the requests that leave both alone and one for
  those that enter a terminal status (`RecordsUntouched`, `RecordEntered`).
* Mutate envelope. Memory and store may disagree by exactly one request whose
  save failed after its rename. The invariant says that each of the two is
  sound (a history whose length is the version, and an index that has just the
  requests of the history) and that each history in the store begins with the
  one in memory and is at most one request longer. An acknowledgement needs a
  completed save, and so is in both.
* Audit log. The store holds every record of the memory, with the same receipt,
  and perhaps one more; receipts name records that both share, and an event has
  one record in each.
* Lane guard. Execute-once is not inductive by itself. The invariant relates the
  phase of a call to the journal (no record before the dispatch, a `started`
  record without a result after it), each record to its verified predecessors,
  and the effects of a dispatch to the target: a programmed key stays, and as
  long as there is none, an EEPROM that a commit has changed stays too. The last
  part is what makes `confirmed_not_applied` true: a commit that had written the
  EEPROM of a plan that expected another one cannot leave that plan's prestate
  behind, and a plan that could not read the EEPROM never concludes it.
* Refinement. Each step of the guard leaves the conclusion of every attempt but
  one as it is, and moves that one as the abstract specification allows; that a
  conclusion agrees with the effect is `VerdictsAreTrue`, and that an effect
  falls on an open operation is the invariant of `LaneGuardProofs`.
* Signing gate. Whoever is past the lock holds it, so the process that has an
  intent is the only one that can change the file of its grant; a key that was
  never used may still have a file, but a used one always has one, and `NoState`
  is the only way to the key.
* Boot transitions. The invariant ties together three things that a crash, a
  failed save or an exchanged board can pull apart. The journal: at most one
  record keeps the lane (active or quarantined), the generations of an action
  have no gap, and an active record can still be ended. The call: at each point
  the adapter's copy and the durable record have the rank of that point
  (`RankAt`); while a call recovers or ends a transition the copy may be ahead of
  the record, never behind it. The lane: a powered target has an open record, one
  begun with the relay is powered through a lease, and what the adapter takes
  for safe is off; a pin that is still held when the payload is to be started is on
  the expected board, whose key state is the one that was read, and stays so up to
  the run of rpiboot unless the board is exchanged after the check (`PinInv`). What
  completes a commit was the answer of the expected board, and a programmed key
  stays (`CommitInv`). `ClosedLaneIsOff` and
  `CommitReachesItsFreshBoard` are consequences. That no record is refused
  (`JournalTakesEveryRecord`) needs the ranks: it is a statement about every put
  of the adapter against every rule of `validBootTransitionUpdate`.
* Operator workflow. The two services never act together, so what is recorded is
  not an invariant of one call. The invariant has the phases of the transaction
  (before and after the draft), for every request in the idempotency index what
  it must have left in the transaction and in the audit log, and for every
  running command and every proposal file the snapshot it rests on: if the
  version is still the one that was read, so is everything but the expiry of the
  claim, and the transaction is then waiting for just what the proposal records
  (`Awaited`). A proposal of another version needs nothing, because the
  compare-and-set refuses it. `GuardOK` says that the journal of the guard is true
  of the target and that an operation at work has no attempt yet that anybody
  could report. Each request of the control plane has a lemma on what it commits
  and one lemma carries all of them through the calls.
* Pilot enrollment. The command that runs keeps in memory what it read from the
  file and from Fleet; `CallOK` says how far both may have moved on since: the
  file not at all, because of the lock, and Fleet only forward. The chain in the
  file is Fleet's, or Fleet has cut over to the one successor that waits in the
  file (`ChainOK`), which uses that Fleet activates only what it has verified and
  that what is verified waits (`VerifiedIsWaiting`). A proof is in the file before
  it is sent, and the file has one entry for each operation, which gives
  `SignaturesAreSaved` and `NeverSignedTwice`.

The invariants were checked by TLC on small instances before they were proved.
The types of records are written out in the modules (`ClaimType`, `ProcessType`,
`EventType` and their like), so that a type invariant says what a proof needs.

Every invariant and every action property of the passing runs is stated by one of
these theorems, and the type invariants are theorems only: the runs do not repeat
them. Only model-checked are

* the liveness properties `TransitionsEnd` and `InterruptionsAreFinished`, which
  rest on fairness and so on `ENABLED`, which this prover does not treat;
* the three violations, which are counterexamples and need no proof.

## 6. The plan

In this order; each step adds its runs, mutants, map and hazards.

1. Done: `ControlPlane`, `MutateEnvelope`, `AuditLog`, `LaneGuard`,
   `SigningGate`, `OneTimeOperations`, `BootTransition`, `OperatorWorkflow` and
   `PilotEnrollment`, with the proofs of all their safety properties.
2. Proofs: abstract specifications for the components that have none yet, proved
   the way the guard implements `OneTimeOperations`: an append-only register for
   the audit log, and for the control plane one transaction that only `Advances`.
   The step invariants behind the two liveness properties (a call that is under
   way has a next step that can be taken), as far as they can be said without
   `ENABLED`.
3. `ReleaseAuthorization` (challenges, one-use tokens, key epochs),
   `CampaignStaging` (receipts on two media), and device enrollment, which is a
   smaller relative of `PilotEnrollment`.
4. The guard's recheck of its authority against a control plane that moves on,
   with both modules side by side.

## 7. What is not modelled, and why

* Bytes: canonical encodings, digests, signatures, parsers, schema versions.
  They are conversions without shared state. A digest is the value it covers.
* The transport: mutual TLS, request decoding, status codes. The actions take
  decoded requests, in any order and any number of times.
* The order of recorded times in the control plane's store validator, the
  matching of acknowledgements in the operator prompt, and an attestation that is
  present and names another plan or device; section 2 says where each would be.
* Hardware that lies: the metadata of a commit is taken to be the device's.
* Loss of power that takes back a rename that was never synced. A failed save
  leaves the old or the new file, and it stays that way.
* A clock that goes back. The hazard list says what it would do.
* Fleet, the relay, the USB bus and the hands of the operator, beyond what the
  code takes of them. Parts of a second in Fleet's documents: the hazard list
  names the place where the rounding of a validity period could matter.
* Media writing, verification and the handoff on the target: one pass of I/O
  and comparison, with little control to explore.
* Rehearsals, station views, exports: no authority over devices.
