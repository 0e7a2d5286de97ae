------------------------------ MODULE LaneGuard ------------------------------
(***************************************************************************)
(* The lane guard (internal/provisioning/laneguard): the privileged        *)
(* process that executes the operations of one approved plan on one        *)
(* physical target, at most once each, through a durable journal.          *)
(*                                                                         *)
(* A guard object serves one call at a time (guard.mu), and the journal    *)
(* file is locked by one guard process.  What interleaves with a call is   *)
(* the clock, the target, failing saves and the death of the process, so a *)
(* call is cut where one of those can come between two of its effects:     *)
(* the pre-observation, the durable record of the intent, the dispatch to  *)
(* the hardware, its return, and the post-observation.                     *)
(*                                                                         *)
(* A target is abstracted to which customer key it carries and what its    *)
(* EEPROM holds; boot transitions to whether the execution's one completed.*)
(***************************************************************************)
EXTENDS Integers, FiniteSets

CONSTANTS
    Approvals,          \* approvals that plans may carry
    PlanDigests,        \* plan digests
    MaxSequence,        \* length of the campaign
    MaximumDuration,    \* maximum_duration of an operation
    ObservationBudget,  \* ReconciliationObservationBudget
    LeaseSafetyMargin,  \* lease_safety_margin of the lane
    Nil,                \* an absent plan or journal record
    MaxTime,            \* bound on the clock and on the expiry of a claim
    MaxPutFailures      \* bound on failing saves of the journal

SequenceNumbers == 1..MaxSequence

\* What an observation says of the target.  A key other than the release's
\* is "foreign"; an EEPROM that is not read is "unread".
DirectState ==
    [security : {"fresh", "owned", "foreign"},
     eeprom : {"initial", "release", "other", "unread"},
     status : {"observed", "unavailable", "commit_attested"}]

InitialStates ==
    {s \in DirectState :
        /\ s.security = "fresh"
        /\ \/ s.status = "observed" /\ s.eeprom # "unread"
           \/ s.status = "unavailable" /\ s.eeprom = "unread"}

\* An approval names the plan it approves and the fence it was granted under;
\* the plan names the state in which it expects to find the target.
Approval ==
    [plan : PlanDigests, fenceEpoch : Nat, id : Nat, expiresAt : Nat,
     initial : InitialStates]

ASSUME GuardBounds ==
    /\ MaxSequence \in Nat \ {0}
    /\ MaximumDuration \in Nat \ {0}
    /\ ObservationBudget \in Nat \ {0}
    /\ LeaseSafetyMargin \in Nat
    /\ MaxTime \in Nat
    /\ MaxPutFailures \in Nat

\* The digest of a plan covers its initial state.
ASSUME ApprovalsAssumption ==
    /\ Approvals \subseteq Approval
    /\ \A a, b \in Approvals : a.plan = b.plan => a.initial = b.initial

AttemptStatus ==
    {"started", "uncertain", "verified", "confirmed_not_applied", "quarantined"}

Attempt ==
    [approval : Nat, status : AttemptStatus, observed : DirectState,
     execution : {"none", "failed", "completed"},
     result : {"none", "plain", "attested"}]

\* An absent plan or record is none of the plans and records.
ASSUME AbsentAssumption ==
    /\ Nil \notin [approval : Approvals, sequence : SequenceNumbers]
    /\ Nil \notin Attempt

VARIABLES
    journal,             \* the journal file: the attempt of each key
    plan,                \* guard.plan: an approval and the intent sequence
    reconciliationOnly,  \* guard.reconciliationOnly
    lockedOut,           \* guard.lockedOut
    pc,                  \* where the call in flight is
    call,                \* what the call in flight holds
    device,              \* the physical target
    dispatches,          \* how often each attempt was handed to the hardware
    effect,              \* what each dispatch changed on the target
    now,                 \* the clock
    putFailures,         \* how many saves have returned an error
    refusedPut           \* some Put was refused by the journal's validation

guardVars == <<plan, reconciliationOnly, lockedOut>>
targetVars == <<device, dispatches, effect>>
journalVars == <<journal, putFailures, refusedPut>>
vars == <<journal, plan, reconciliationOnly, lockedOut, pc, call, device,
          dispatches, effect, now, putFailures, refusedPut>>

-----------------------------------------------------------------------------
(***************************************************************************)
(* The campaign: what each operation of a plan expects and leaves behind.  *)
(***************************************************************************)
CommitAttested ==
    [security |-> "owned", eeprom |-> "release", status |-> "commit_attested"]
ObservedOwned ==
    [security |-> "owned", eeprom |-> "release", status |-> "observed"]

\* Operation 1 commits the key, operation 2 is a cold boot, operation 3 reads
\* the owned target back; the operations after it test that target.
ExpectedPrestate(approval, sequence) ==
    IF sequence = 1 THEN approval.initial
    ELSE IF sequence \in {2, 3} THEN CommitAttested
    ELSE ObservedOwned

ExpectedPoststate(sequence) ==
    IF sequence \in {1, 2} THEN CommitAttested ELSE ObservedOwned

IsCommit(sequence) == sequence = 1
CarriesCommit(sequence) == sequence \in {2, 3}
ReadOnly(sequence) == sequence \in {3, 5}

\* Without the budget of the operation: the lease may end while it runs.
LeaseNotExpiredMutant(expiresAt, duration) == expiresAt > now

LeaseCoversOperation(expiresAt, duration) ==
    /\ expiresAt > now
    /\ expiresAt - now >= duration
    /\ expiresAt - now - duration >= LeaseSafetyMargin

-----------------------------------------------------------------------------
(***************************************************************************)
(* The journal.                                                            *)
(***************************************************************************)
Keys == PlanDigests \X {a.fenceEpoch : a \in Approvals} \X SequenceNumbers

AttemptJournalKey(approval, sequence) ==
    <<approval.plan, approval.fenceEpoch, sequence>>

TerminalMutant == {"verified", "confirmed_not_applied"}
Terminal == {"verified", "confirmed_not_applied", "quarantined"}

validateAttempt(sequence, attempt) ==
    /\ attempt.result # "none" <=> attempt.execution = "completed"
    /\ attempt.result = "attested" => IsCommit(sequence)
    /\ IsCommit(sequence) =>
          /\ attempt.status = "verified" => attempt.result = "attested"
          /\ attempt.status = "confirmed_not_applied" => attempt.result # "attested"

validAttemptTransition(existing, next) ==
    /\ existing.approval = next.approval
    /\ existing.status \in Terminal => existing = next
    /\ ~ (existing.status = "uncertain" /\ next.status = "started")
    /\ existing.execution # "none" => existing.execution = next.execution
    /\ existing.result # "none" => existing.result = next.result

Acceptable(key, attempt) ==
    /\ validateAttempt(key[3], attempt)
    /\ IF journal[key] = Nil THEN attempt.status = "started"
       ELSE validAttemptTransition(journal[key], attempt)

Saved(key, attempt) ==
    /\ Acceptable(key, attempt)
    /\ journal' = [journal EXCEPT ![key] = attempt]
    /\ UNCHANGED <<putFailures, refusedPut>>

\* The record is renamed into place before the directory is synced, so a save
\* that returns an error may have replaced the file or not.
SaveFailed(key, attempt) ==
    /\ Acceptable(key, attempt)
    /\ putFailures < MaxPutFailures
    /\ putFailures' = putFailures + 1
    /\ journal' \in {journal, [journal EXCEPT ![key] = attempt]}
    /\ UNCHANGED refusedPut

Refused(key, attempt) ==
    /\ ~ Acceptable(key, attempt)
    /\ refusedPut' = TRUE
    /\ UNCHANGED <<journal, putFailures>>

Put(key, attempt) ==
    Saved(key, attempt) \/ SaveFailed(key, attempt) \/ Refused(key, attempt)

-----------------------------------------------------------------------------
(***************************************************************************)
(* Evidence.                                                               *)
(***************************************************************************)
\* A commit-attested state is proved by what is seen of the target together
\* with the attestation of the commit, never by either alone.
EEPROMAgrees(expected, observed) ==
    \/ observed.status = "unavailable" /\ observed.eeprom = "unread"
    \/ observed.status # "unavailable" /\ observed.eeprom = expected.eeprom

resolveEEPROMProof(expected, observed, attested) ==
    LET consistent == /\ observed.security = expected.security
                      /\ EEPROMAgrees(expected, observed)
    IN  IF expected.status # "commit_attested"
        THEN [state |-> observed, matches |-> observed = expected,
              inconclusive |-> FALSE]
        ELSE [state |-> IF consistent /\ attested THEN expected ELSE observed,
              matches |-> consistent /\ attested,
              inconclusive |-> consistent /\ ~ attested]

\* loadCommitAttestation: the first operation of the plan is verified and its
\* record carries the attestation.
CommitAttestation(approval) ==
    LET first == journal[AttemptJournalKey(approval, 1)]
    IN  /\ first # Nil
        /\ first.status = "verified"
        /\ first.observed = ExpectedPoststate(1)
        /\ first.result = "attested"

finishObserved(attempt, sequence, observed, attested) ==
    LET proof == resolveEEPROMProof(ExpectedPoststate(sequence), observed, attested)
    IN  [attempt EXCEPT
            !.observed = proof.state,
            !.status = IF proof.matches THEN "verified"
                       ELSE IF proof.inconclusive THEN "uncertain"
                       ELSE "quarantined"]

\* A version of the verdict below in which the original prestate is enough to
\* conclude, even where the EEPROM could not be read before the commit.
PrestateConfirmsMutant(attempt, approval, sequence, observed, carried) ==
    LET pre == resolveEEPROMProof(ExpectedPrestate(approval, sequence), observed, carried)
    IN  IF pre.matches
        THEN [attempt EXCEPT !.status = "confirmed_not_applied", !.observed = pre.state]
        ELSE finishObserved(attempt, sequence, observed,
                 IF IsCommit(sequence) THEN attempt.result = "attested" ELSE carried)

\* The verdict of a reconciliation on an unresolved attempt.
Reconciled(attempt, approval, sequence, observed, carried) ==
    LET prestate  == ExpectedPrestate(approval, sequence)
        poststate == ExpectedPoststate(sequence)
        attested  == IF IsCommit(sequence) THEN attempt.result = "attested" ELSE carried
        pre       == resolveEEPROMProof(prestate, observed, carried)
        post      == resolveEEPROMProof(poststate, observed, attested)
        uncertain(state) == [attempt EXCEPT !.status = "uncertain", !.observed = state]
    IN  IF prestate = poststate /\ (pre.matches \/ post.matches)
        THEN uncertain(pre.state)
        ELSE IF post.matches
        THEN finishObserved(attempt, sequence, observed, attested)
        ELSE IF pre.matches /\ (prestate.status = "unavailable" \/ attempt.result = "attested")
        THEN uncertain(pre.state)
        ELSE IF pre.matches
        THEN [attempt EXCEPT !.status = "confirmed_not_applied", !.observed = pre.state]
        ELSE IF pre.inconclusive \/ post.inconclusive
        THEN uncertain(observed)
        ELSE finishObserved(attempt, sequence, observed, attested)

-----------------------------------------------------------------------------
(***************************************************************************)
(* The call in flight.                                                     *)
(***************************************************************************)
Idle == [claimExpiresAt |-> 0, deadline |-> 0, observed |-> ObservedOwned]

Returns == pc' = "idle" /\ call' = Idle

Approved == plan.approval
Sequence == plan.sequence
Key == AttemptJournalKey(Approved, Sequence)

\* The checks that Execute repeats before every step that counts.
AuthorityIsCurrent ==
    /\ now < call.deadline
    /\ now < Approved.expiresAt
    /\ LeaseCoversOperation(call.claimExpiresAt, MaximumDuration)

\* What the target answers: its key, and its EEPROM where that can be read.
Observations ==
    {[security |-> device.security, eeprom |-> device.eeprom, status |-> "observed"],
     [security |-> device.security, eeprom |-> "unread", status |-> "unavailable"]}

-----------------------------------------------------------------------------
(***************************************************************************)
(* Loading a plan.                                                         *)
(***************************************************************************)
\* restartStates accepts the journal of a plan: what it holds is for this
\* approval, ends with the intent, and only verified attempts are followed
\* by another.
RestartStates(approval, sequence) ==
    \A n \in SequenceNumbers :
        LET attempt == journal[AttemptJournalKey(approval, n)]
        IN  attempt # Nil =>
              /\ n <= sequence
              /\ attempt.approval = approval.id
              /\ \A m \in 1..(n - 1) :
                    LET earlier == journal[AttemptJournalKey(approval, m)]
                    IN  earlier # Nil /\ earlier.status = "verified"

Quarantined(approval) ==
    \E n \in SequenceNumbers :
        LET attempt == journal[AttemptJournalKey(approval, n)]
        IN  attempt # Nil /\ attempt.status = "quarantined"

LoadPlan(approval, sequence) ==
    /\ pc = "idle"
    /\ plan = Nil
    /\ RestartStates(approval, sequence)
    /\ plan' = [approval |-> approval, sequence |-> sequence]
    /\ lockedOut' = Quarantined(approval)
    /\ UNCHANGED <<reconciliationOnly, pc, call, targetVars, journalVars, now>>

-----------------------------------------------------------------------------
(***************************************************************************)
(* Execute.                                                                *)
(***************************************************************************)
\* matchRequest: a guard that reconciles, or is locked out, does not execute.
matchRequestMutant == plan # Nil /\ ~ lockedOut
matchRequest == plan # Nil /\ ~ reconciliationOnly /\ ~ lockedOut

\* The operation before this one is verified in the state this one expects.
PrecedingIsVerified ==
    Sequence > 1 =>
        LET previous == journal[AttemptJournalKey(Approved, Sequence - 1)]
        IN  /\ previous # Nil
            /\ previous.status = "verified"
            /\ previous.observed = ExpectedPrestate(Approved, Sequence)
            /\ ExpectedPrestate(Approved, Sequence).status = "commit_attested" =>
                  CommitAttestation(Approved)

\* The journal has no record of this attempt.  Any record, whatever it says,
\* ends the call before it reaches the target.
NotAttemptedMutant ==
    journal[Key] # Nil => journal[Key].status = "started"

NotAttempted == journal[Key] = Nil

ExecuteBegin(claimExpiresAt) ==
    /\ pc = "idle"
    /\ matchRequest
    /\ now < Approved.expiresAt
    /\ LeaseCoversOperation(claimExpiresAt, MaximumDuration)
    /\ NotAttempted
    /\ PrecedingIsVerified
    /\ pc' = "pre_observation"
    /\ call' = [Idle EXCEPT !.claimExpiresAt = claimExpiresAt,
                            !.deadline = now + MaximumDuration]
    /\ UNCHANGED <<guardVars, targetVars, journalVars, now>>

\* The pre-observation fails, or finds another target, or comes too late.
PreObservationFails ==
    /\ pc = "pre_observation"
    /\ Returns
    /\ UNCHANGED <<guardVars, targetVars, journalVars, now>>

\* A version that goes on whatever state the target was found in.
PreObservationMutant ==
    /\ pc = "pre_observation"
    /\ AuthorityIsCurrent
    /\ call' = [call EXCEPT !.observed = ExpectedPrestate(Approved, Sequence)]
    /\ pc' = "dispatch"
    /\ UNCHANGED <<guardVars, targetVars, journalVars, now>>

PreObservation ==
    /\ pc = "pre_observation"
    /\ AuthorityIsCurrent
    /\ \E observed \in Observations :
          LET proof == resolveEEPROMProof(ExpectedPrestate(Approved, Sequence), observed,
                                          Sequence > 1 /\ CommitAttestation(Approved))
          IN  /\ proof.matches
              /\ call' = [call EXCEPT !.observed = proof.state]
    /\ pc' = "dispatch"
    /\ UNCHANGED <<guardVars, targetVars, journalVars, now>>

\* RecheckExecute refuses, or the authority is no longer current.
DispatchRefused ==
    /\ pc = "dispatch"
    /\ Returns
    /\ UNCHANGED <<guardVars, targetVars, journalVars, now>>

StartedAttempt ==
    [approval |-> Approved.id, status |-> "started", observed |-> call.observed,
     execution |-> "none", result |-> "none"]

\* A version that hands the operation to the hardware although the intent
\* could not be saved.
RecordStartedMutant ==
    /\ pc = "dispatch"
    /\ AuthorityIsCurrent
    /\ Put(Key, StartedAttempt)
    /\ pc' = "started"
    /\ UNCHANGED <<call, guardVars, targetVars, now>>

\* The intent is durable before the hardware is touched.  When Put returns an
\* error the call ends, whatever the file now holds.
RecordStarted ==
    /\ pc = "dispatch"
    /\ AuthorityIsCurrent
    /\ \/ Saved(Key, StartedAttempt) /\ pc' = "started" /\ UNCHANGED call
       \/ SaveFailed(Key, StartedAttempt) /\ Returns
       \/ Refused(Key, StartedAttempt) /\ Returns
    /\ UNCHANGED <<guardVars, targetVars, now>>

\* What the hardware may do to the target.  The commit writes the EEPROM and
\* programs the key, and may stop in between; a test of the owned target may
\* leave another EEPROM behind; a readback changes nothing.
Outcomes(sequence) ==
    IF IsCommit(sequence)
    THEN [security : {device.security, "owned"}, eeprom : {device.eeprom, "release"}]
    ELSE IF ReadOnly(sequence) THEN {device}
    ELSE {device, [device EXCEPT !.eeprom = "other"]}

Changed(after) ==
    {field \in {"security", "eeprom"} : after[field] # device[field]}

HardwareExecute ==
    /\ pc = "started"
    /\ \E after \in Outcomes(Sequence) :
          /\ device' = after
          /\ effect' = [effect EXCEPT ![Key] = Changed(after)]
    /\ dispatches' = [dispatches EXCEPT ![Key] = @ + 1]
    /\ pc' = "executing"
    /\ UNCHANGED <<call, guardVars, journalVars, now>>

\* The hardware returns an error: the attempt is uncertain.  The record keeps
\* the outcome of the boot transition where that is itself durable.
HardwareFails ==
    /\ pc = "executing"
    /\ \E execution \in {"none", "failed"} :
          Put(Key, [journal[Key] EXCEPT !.status = "uncertain", !.execution = execution])
    /\ Returns
    /\ UNCHANGED <<guardVars, targetVars, now>>

TargetIsOwned == device = [security |-> "owned", eeprom |-> "release"]

\* When the hardware may report success.  For a commit its metadata must show
\* the release's key and EEPROM, and the metadata of the device is taken to be
\* true.  The other operations report success without it: an owned readback
\* accepts an EEPROM that is not read, a boot test reads neither.
ReportsSuccess == IsCommit(Sequence) => TargetIsOwned

\* The hardware succeeds, but the context of the operation has ended (its
\* deadline has passed, or the process is being stopped): the completed
\* transition is recorded without the result.
HardwareReturnsLate ==
    /\ pc = "executing"
    /\ ReportsSuccess
    /\ Put(Key, [journal[Key] EXCEPT !.status = "uncertain", !.execution = "completed"])
    /\ Returns
    /\ UNCHANGED <<guardVars, targetVars, now>>

\* The hardware succeeds and its boot transition is not the durable one, or a
\* commit has no attestation.  One that is present and differs from the exact
\* one is left out: commitLocked of the adapter, the only hardware there is,
\* returns an attestation only after it has compared every field.
HardwareEvidenceIsInvalid ==
    /\ pc = "executing"
    /\ now < call.deadline
    /\ \/ Put(Key, [journal[Key] EXCEPT !.status = "uncertain"])
       \/ /\ IsCommit(Sequence)
          /\ Put(Key, [journal[Key] EXCEPT !.status = "uncertain",
                                           !.execution = "completed", !.result = "plain"])
    /\ Returns
    /\ UNCHANGED <<guardVars, targetVars, now>>

HardwareSucceeds ==
    /\ pc = "executing"
    /\ ReportsSuccess
    /\ now < call.deadline
    /\ pc' = "post_observation"
    /\ UNCHANGED <<call, guardVars, targetVars, journalVars, now>>

ExecutedAttempt ==
    [journal[Key] EXCEPT !.execution = "completed",
                         !.result = IF IsCommit(Sequence) THEN "attested" ELSE "plain"]

\* Observing the target afterwards may fail, come too late, or find another
\* target in its place.
PostObservationFails ==
    /\ pc = "post_observation"
    /\ \E status \in {"uncertain", "quarantined"} :
          Put(Key, [ExecutedAttempt EXCEPT !.status = status])
    /\ Returns
    /\ UNCHANGED <<guardVars, targetVars, now>>

PostObservation ==
    /\ pc = "post_observation"
    /\ now < call.deadline
    /\ \E observed \in Observations :
          Put(Key, finishObserved(ExecutedAttempt, Sequence, observed,
                       IsCommit(Sequence) \/ CommitAttestation(Approved)))
    /\ Returns
    /\ UNCHANGED <<guardVars, targetVars, now>>

-----------------------------------------------------------------------------
(***************************************************************************)
(* Reconciliation, under a claim with a later fence.                       *)
(***************************************************************************)
\* The part of reconcileLocked before the observation.
ReconcileBegin(approval, sequence, fenceEpoch, claimExpiresAt) ==
    /\ fenceEpoch > approval.fenceEpoch
    /\ LeaseCoversOperation(claimExpiresAt, ObservationBudget)
    /\ LET attempt == journal[AttemptJournalKey(approval, sequence)]
       IN  IF attempt # Nil /\ attempt.approval = approval.id /\ attempt.status \notin Terminal
           THEN /\ pc' = "reconciling"
                /\ call' = [Idle EXCEPT !.claimExpiresAt = claimExpiresAt,
                                        !.deadline = now + ObservationBudget]
           ELSE Returns

\* ReconcilePlan disarms the guard even when there is nothing to reconcile.
ReconcilePlan(approval, sequence, fenceEpoch, claimExpiresAt) ==
    /\ pc = "idle"
    /\ fenceEpoch > approval.fenceEpoch
    /\ LeaseCoversOperation(claimExpiresAt, ObservationBudget)
    /\ \/ /\ plan = [approval |-> approval, sequence |-> sequence]
          /\ UNCHANGED <<plan, lockedOut>>
       \/ /\ plan = Nil
          /\ RestartStates(approval, sequence)
          /\ plan' = [approval |-> approval, sequence |-> sequence]
          /\ lockedOut' = Quarantined(approval)
    /\ reconciliationOnly' = TRUE
    /\ IF lockedOut' THEN Returns
       ELSE ReconcileBegin(approval, sequence, fenceEpoch, claimExpiresAt)
    /\ UNCHANGED <<targetVars, journalVars, now>>

\* Reconcile on a guard that has loaded its plan.
Reconcile(fenceEpoch, claimExpiresAt) ==
    /\ pc = "idle"
    /\ plan # Nil
    /\ ~ lockedOut
    /\ ReconcileBegin(Approved, Sequence, fenceEpoch, claimExpiresAt)
    /\ UNCHANGED <<guardVars, targetVars, journalVars, now>>

\* The authority is refused or lapses before the observation.
ReconciliationRefused ==
    /\ pc = "reconciling"
    /\ Returns
    /\ UNCHANGED <<guardVars, targetVars, journalVars, now>>

\* A failed observation leaves the status; another target quarantines it.
ReconciliationFails ==
    /\ pc = "reconciling"
    /\ \/ Put(Key, journal[Key])
       \/ Put(Key, [journal[Key] EXCEPT !.status = "quarantined"])
    /\ Returns
    /\ UNCHANGED <<guardVars, targetVars, now>>

ReconciliationObserves ==
    /\ pc = "reconciling"
    /\ now < call.deadline
    /\ LeaseCoversOperation(call.claimExpiresAt, ObservationBudget)
    /\ CarriesCommit(Sequence) => CommitAttestation(Approved)
    /\ \E observed \in Observations :
          Put(Key, Reconciled(journal[Key], Approved, Sequence, observed,
                              CarriesCommit(Sequence)))
    /\ Returns
    /\ UNCHANGED <<guardVars, targetVars, now>>

-----------------------------------------------------------------------------
(***************************************************************************)
(* The clock, and the process.                                             *)
(***************************************************************************)
Tick ==
    /\ now < MaxTime
    /\ now' = now + 1
    /\ UNCHANGED <<guardVars, pc, call, targetVars, journalVars>>

\* The process ends, at whatever point, and another one takes the lock.
newGuard ==
    /\ plan # Nil
    /\ plan' = Nil
    /\ reconciliationOnly' = FALSE
    /\ lockedOut' = FALSE
    /\ Returns
    /\ UNCHANGED <<targetVars, journalVars, now>>

Init ==
    /\ journal = [key \in Keys |-> Nil]
    /\ plan = Nil
    /\ reconciliationOnly = FALSE
    /\ lockedOut = FALSE
    /\ pc = "idle"
    /\ call = Idle
    /\ device = [security |-> "fresh", eeprom |-> "initial"]
    /\ dispatches = [key \in Keys |-> 0]
    /\ effect = [key \in Keys |-> {}]
    /\ now = 0
    /\ putFailures = 0
    /\ refusedPut = FALSE

FenceEpochs == {a.fenceEpoch : a \in Approvals} \cup {a.fenceEpoch + 1 : a \in Approvals}

Next ==
    \/ \E a \in Approvals, n \in SequenceNumbers : LoadPlan(a, n)
    \/ \E t \in 0..MaxTime : ExecuteBegin(t)
    \/ PreObservation
    \/ PreObservationFails
    \/ RecordStarted
    \/ DispatchRefused
    \/ HardwareExecute
    \/ HardwareFails
    \/ HardwareReturnsLate
    \/ HardwareEvidenceIsInvalid
    \/ HardwareSucceeds
    \/ PostObservation
    \/ PostObservationFails
    \/ \E a \in Approvals, n \in SequenceNumbers, f \in FenceEpochs, t \in 0..MaxTime :
          ReconcilePlan(a, n, f, t)
    \/ \E f \in FenceEpochs, t \in 0..MaxTime : Reconcile(f, t)
    \/ ReconciliationObserves
    \/ ReconciliationFails
    \/ ReconciliationRefused
    \/ newGuard
    \/ Tick

Spec == Init /\ [][Next]_vars

-----------------------------------------------------------------------------
(***************************************************************************)
(* Properties.                                                             *)
(***************************************************************************)
Fields == {"security", "eeprom"}

\* The variables keep their types: in particular every record the guard saves
\* is a well-formed attempt of the journal.
TypeOK ==
    /\ journal \in [Keys -> Attempt \cup {Nil}]
    /\ plan \in [approval : Approvals, sequence : SequenceNumbers] \cup {Nil}
    /\ reconciliationOnly \in BOOLEAN
    /\ lockedOut \in BOOLEAN
    /\ pc \in {"idle", "pre_observation", "dispatch", "started", "executing",
              "post_observation", "reconciling"}
    /\ pc # "idle" => plan # Nil
    /\ call \in [claimExpiresAt : Nat, deadline : Nat, observed : DirectState]
    /\ device \in [security : {"fresh", "owned"}, eeprom : {"initial", "release", "other"}]
    /\ dispatches \in [Keys -> Nat]
    /\ effect \in [Keys -> SUBSET Fields]
    /\ now \in Nat
    /\ putFailures \in Nat
    /\ refusedPut \in BOOLEAN

\* An operation is handed to the hardware at most once for each key of the
\* journal, whatever crashes, restarts, retries, failed saves and repeated
\* requests there are (the execute-once journal, guard.go Execute).
ExecuteOnce == \A key \in Keys : dispatches[key] <= 1

\* What was handed to the hardware is in the journal, and every operation
\* before it in its plan is verified there (guard.go Execute: the order of
\* Put and hardware.Execute, and ErrOutOfOrder).
DispatchIsJournaled ==
    \A key \in Keys :
        dispatches[key] > 0 =>
            /\ journal[key] # Nil
            /\ \A m \in 1..(key[3] - 1) :
                  LET earlier == journal[<<key[1], key[2], m>>]
                  IN  earlier # Nil /\ earlier.status = "verified"

\* The verdicts of the journal are true of the target: an attempt that is
\* confirmed not applied changed nothing, and a verified commit is one that
\* was dispatched and programmed the key (reconcileLocked, finishObserved).
VerdictsAreTrue ==
    \A key \in Keys :
        journal[key] # Nil =>
            /\ journal[key].status = "confirmed_not_applied" => effect[key] = {}
            /\ journal[key].status = "verified" /\ IsCommit(key[3]) =>
                  dispatches[key] = 1 /\ "security" \in effect[key]

\* Every commit that this step hands to the hardware finds a fresh target.
CommitsAreFresh ==
    \A key \in Keys :
        IsCommit(key[3]) /\ dispatches'[key] # dispatches[key] => device.security = "fresh"

\* The one-time customer key is programmed by at most one attempt, under all
\* the plans, approvals and fences there are for the target: a later plan has
\* journal keys of its own, so only the observed prestate stands in the way
\* (guard.go Execute, ErrPrestateMismatch).
CommittedTargetIsLeftAlone == [][CommitsAreFresh]_vars

\* While the hardware runs and the operation's deadline has not passed, the
\* claim is still leased, with the safety margin to spare: the checks before
\* the dispatch leave room for the whole operation (LeaseCoversOperation).
LeaseOutlivesExecution ==
    pc = "executing" /\ now < call.deadline =>
        now + LeaseSafetyMargin < call.claimExpiresAt

\* A guard that has accepted a reconciliation claim never hands anything to
\* the hardware again, also when its journal has no record of the attempt
\* (guard.go ReconcilePlan, reconciliationOnly).
ReconcilingGuardIsDisarmed ==
    [][reconciliationOnly => dispatches' = dispatches]_vars

\* What this step leaves of each record of the journal.
RecordsStand ==
    \A key \in Keys :
        journal[key] # Nil =>
            /\ journal'[key] # Nil
            /\ journal[key].status \in {"verified", "confirmed_not_applied", "quarantined"} =>
                  journal'[key] = journal[key]
            /\ journal[key].status = "uncertain" => journal'[key].status # "started"
            /\ journal[key].result # "none" => journal'[key].result = journal[key].result

\* A verdict in the journal is never revised, an uncertain attempt never
\* becomes a started one, and the result of an execution is never dropped
\* (store.go validAttemptTransition and the early returns of reconcileLocked).
RecordsAreFinal == [][RecordsStand]_vars

\* What the journal concludes of the operation with this key.
Conclusion(key) ==
    IF journal[key] = Nil THEN "none"
    ELSE IF journal[key].status \in {"verified", "confirmed_not_applied", "quarantined"}
    THEN journal[key].status
    ELSE "open"

OneTime ==
    INSTANCE OneTimeOperations WITH
        Operations <- Keys,
        Predecessors <- [key \in Keys |-> {<<key[1], key[2], m>> : m \in 1..(key[3] - 1)}],
        Programming <- {key \in Keys : IsCommit(key[3])},
        Parts <- Fields,
        record <- [key \in Keys |-> Conclusion(key)],
        executions <- dispatches,
        changes <- effect

\* The guard implements one-time operations: behind its calls, its plans, its
\* restarts and its failing saves, every change of the journal and of the target
\* is an intent in order, the one execution of an open intent, or a true and
\* final conclusion (guard.go, store.go and the hardware behind them).
ImplementsOneTimeOperations == OneTime!Spec

\* Every outcome that the guard wants to record is one that the journal takes:
\* an attempt whose execution ended in an error or a deadline is recorded as
\* uncertain (guard_test.go, TestGuardEnforcesReviewedOperationDeadline).
JournalTakesEveryOutcome == ~ refusedPut
=============================================================================
