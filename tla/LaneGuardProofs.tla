--------------------------- MODULE LaneGuardProofs ---------------------------
(***************************************************************************)
(* The lane guard hands an operation to the hardware at most once, in the  *)
(* order of its plan and inside its lease, and its journal tells the truth *)
(* about the target: for every set of plans and approvals, every length of *)
(* the campaign, every timing and every number of failing saves.           *)
(***************************************************************************)
EXTENDS LaneGuard, TLAPS

\* The calls to the hardware, up to the durable intent and after it.
Before == {"pre_observation", "dispatch"}
After == {"started", "executing", "post_observation"}

\* Every operation before this one in its plan is verified.
Earlier(key) ==
    \A m \in 1..(key[3] - 1) :
        LET earlier == journal[<<key[1], key[2], m>>]
        IN  earlier # Nil /\ earlier.status = "verified"

\* Attempts are recorded in order, and dispatched only once recorded.
JournalInv ==
    \A key \in Keys :
        /\ dispatches[key] <= 1
        /\ journal[key] = Nil => dispatches[key] = 0 /\ effect[key] = {}
        /\ journal[key] # Nil => Earlier(key)

\* A record of this kind is true of what was done to the target.
Truthful(key, attempt) ==
    /\ attempt.result = "attested" =>
          IsCommit(key[3]) /\ dispatches[key] = 1 /\ "security" \in effect[key]
    /\ attempt.status = "confirmed_not_applied" => effect[key] = {}

VerdictInv ==
    \A key \in Keys :
        journal[key] # Nil =>
            /\ Truthful(key, journal[key])
            /\ journal[key].status = "verified" /\ IsCommit(key[3]) =>
                  journal[key].result = "attested"

\* A programmed key stays.  As long as there is none, an EEPROM that a commit
\* has changed stays as well, and the plan of that commit expected another.
EffectInv ==
    \A key \in Keys :
        /\ ReadOnly(key[3]) => effect[key] = {}
        /\ "security" \in effect[key] => device.security = "owned"
        /\ IsCommit(key[3]) /\ "eeprom" \in effect[key] /\ device.security = "fresh" =>
              /\ device.eeprom = "release"
              /\ \A a \in Approvals : a.plan = key[1] => a.initial.eeprom # "release"

\* What a call that executes knows: the journal before and after its intent,
\* the room that the lease leaves, and the target it found.
ExecuteInv ==
    /\ pc \in Before \cup After => ~ reconciliationOnly
    /\ pc \in Before =>
          /\ journal[Key] = Nil
          /\ Earlier(Key)
          /\ call.deadline <= now + MaximumDuration
    /\ pc \in After =>
          /\ journal[Key] # Nil
          /\ journal[Key].status = "started"
          /\ journal[Key].execution = "none"
          /\ journal[Key].result = "none"
          /\ call.deadline + LeaseSafetyMargin <= call.claimExpiresAt
    /\ pc = "started" => dispatches[Key] = 0 /\ effect[Key] = {}
    /\ pc \in {"executing", "post_observation"} => dispatches[Key] = 1

TargetInv ==
    /\ pc \in {"dispatch", "started"} /\ Sequence = 1 =>
          /\ device.security = "fresh"
          /\ Approved.initial.eeprom \in {"unread", device.eeprom}
    /\ pc \in {"executing", "post_observation"} /\ Sequence = 1 /\ device.security = "owned" =>
          "security" \in effect[Key]
    /\ pc = "post_observation" => ReportsSuccess

\* A reconciliation has an unresolved record before it.
ReconcileInv ==
    pc = "reconciling" => journal[Key] # Nil /\ journal[Key].status \notin Terminal

IInv ==
    /\ TypeOK
    /\ JournalInv
    /\ VerdictInv
    /\ EffectInv
    /\ ExecuteInv
    /\ TargetInv
    /\ ReconcileInv

-----------------------------------------------------------------------------
(***************************************************************************)
(* Lemmas about the keys and the journal.                                  *)
(***************************************************************************)
\* The key of the plan that is loaded.
LEMMA KeyType ==
    ASSUME TypeOK, plan # Nil
    PROVE  /\ Approved \in Approvals
           /\ Approved \in Approval
           /\ Sequence \in SequenceNumbers
           /\ Key \in Keys
           /\ Key[1] = Approved.plan
           /\ Key[2] = Approved.fenceEpoch
           /\ Key[3] = Sequence
<1>1. plan \in [approval : Approvals, sequence : SequenceNumbers]
  BY DEF TypeOK
<1>2. Approved \in Approvals /\ Sequence \in SequenceNumbers
  BY <1>1 DEF Approved, Sequence
<1>3. Approved \in Approval
  BY <1>2, ApprovalsAssumption
<1>4. Approved.plan \in PlanDigests /\ Approved.fenceEpoch \in {a.fenceEpoch : a \in Approvals}
  BY <1>2, <1>3 DEF Approval
<1> QED
  BY <1>2, <1>3, <1>4 DEF Key, AttemptJournalKey, Keys

\* The keys of the earlier operations of a plan are keys.
LEMMA EarlierKey ==
    ASSUME NEW key \in Keys, NEW m \in 1..(key[3] - 1)
    PROVE  /\ <<key[1], key[2], m>> \in Keys
           /\ key[3] \in SequenceNumbers
<1>1. /\ key[1] \in PlanDigests
      /\ key[2] \in {a.fenceEpoch : a \in Approvals}
      /\ key[3] \in SequenceNumbers
  BY DEF Keys
<1>2. m \in SequenceNumbers
  BY <1>1, GuardBounds DEF SequenceNumbers
<1> QED
  BY <1>1, <1>2 DEF Keys

\* A save replaces one record, by one that the journal accepts, or none.
LEMMA PutReplaces ==
    ASSUME TypeOK, NEW key \in Keys, NEW attempt \in Attempt, Put(key, attempt)
    PROVE  /\ journal' \in [Keys -> Attempt \cup {Nil}]
           /\ putFailures' \in Nat
           /\ refusedPut' \in BOOLEAN
           /\ \A k \in Keys : k # key => journal'[k] = journal[k]
           /\ \/ journal'[key] = journal[key]
              \/ journal'[key] = attempt /\ Acceptable(key, attempt)
<1>1. CASE Saved(key, attempt)
  BY <1>1 DEF Saved, TypeOK
<1>2. CASE SaveFailed(key, attempt)
  BY <1>2 DEF SaveFailed, TypeOK
<1>3. CASE Refused(key, attempt)
  BY <1>3 DEF Refused, TypeOK
<1> QED
  BY <1>1, <1>2, <1>3 DEF Put

\* No save takes back a verdict or a result.
LEMMA PutStands ==
    ASSUME TypeOK, NEW key \in Keys, NEW attempt \in Attempt, Put(key, attempt)
    PROVE  RecordsStand
<1> SUFFICES ASSUME NEW k \in Keys, journal[k] # Nil
             PROVE  /\ journal'[k] # Nil
                    /\ journal[k].status \in {"verified", "confirmed_not_applied", "quarantined"} =>
                          journal'[k] = journal[k]
                    /\ journal[k].status = "uncertain" => journal'[k].status # "started"
                    /\ journal[k].result # "none" => journal'[k].result = journal[k].result
  BY DEF RecordsStand
<1>1. CASE journal'[k] = journal[k]
  BY <1>1
<1>2. CASE journal'[k] # journal[k]
  <2>1. k = key /\ journal'[k] = attempt /\ Acceptable(key, attempt)
    BY <1>2, PutReplaces
  <2>2. validAttemptTransition(journal[key], attempt)
    BY <2>1 DEF Acceptable
  <2>3. attempt # Nil
    BY AbsentAssumption
  <2> QED
    BY <2>1, <2>2, <2>3 DEF validAttemptTransition, Terminal
<1> QED
  BY <1>1, <1>2

\* Verified attempts stay verified, so the order of a plan stays as well.
LEMMA EarlierStands ==
    ASSUME RecordsStand, NEW key \in Keys, Earlier(key)
    PROVE  Earlier(key)'
<1> SUFFICES ASSUME NEW m \in 1..(key[3] - 1)
             PROVE  /\ journal'[<<key[1], key[2], m>>] # Nil
                    /\ journal'[<<key[1], key[2], m>>].status = "verified"
  BY DEF Earlier
<1>1. <<key[1], key[2], m>> \in Keys
  BY EarlierKey
<1>2. /\ journal[<<key[1], key[2], m>>] # Nil
      /\ journal[<<key[1], key[2], m>>].status = "verified"
  BY DEF Earlier
<1> QED
  BY <1>1, <1>2 DEF RecordsStand

\* A save of a true record of an attempt whose turn it is keeps what is said
\* of the journal and of the target.
LEMMA PutPreserves ==
    ASSUME IInv, NEW key \in Keys, NEW attempt \in Attempt, Put(key, attempt),
           Earlier(key), Truthful(key, attempt), UNCHANGED targetVars
    PROVE  /\ JournalInv'
           /\ VerdictInv'
           /\ EffectInv'
<1>1. RecordsStand
  BY PutStands DEF IInv
<1>2. /\ \A k \in Keys : k # key => journal'[k] = journal[k]
      /\ \/ journal'[key] = journal[key]
         \/ journal'[key] = attempt /\ Acceptable(key, attempt)
  BY PutReplaces DEF IInv
<1>3. /\ device' = device
      /\ dispatches' = dispatches
      /\ effect' = effect
  BY DEF targetVars
<1>4. JournalInv'
  <2> SUFFICES ASSUME NEW k \in Keys
               PROVE  /\ dispatches'[k] <= 1
                      /\ journal'[k] = Nil => dispatches'[k] = 0 /\ effect'[k] = {}
                      /\ journal'[k] # Nil => Earlier(k)'
    BY DEF JournalInv
  <2>1. /\ dispatches[k] <= 1
        /\ journal[k] = Nil => dispatches[k] = 0 /\ effect[k] = {}
        /\ journal[k] # Nil => Earlier(k)
    BY DEF IInv, JournalInv
  <2>2. journal'[k] = Nil => journal[k] = Nil
    BY <1>1 DEF RecordsStand
  <2>3. ASSUME journal'[k] # Nil PROVE Earlier(k)'
    <3>1. Earlier(k)
      BY <1>2, <2>1, <2>3
    <3> QED
      BY <1>1, <3>1, EarlierStands
  <2> QED
    BY <1>3, <2>1, <2>2, <2>3
<1>5. VerdictInv'
  <2> SUFFICES ASSUME NEW k \in Keys, journal'[k] # Nil
               PROVE  /\ Truthful(k, journal[k])'
                      /\ journal'[k].status = "verified" /\ IsCommit(k[3]) =>
                            journal'[k].result = "attested"
    BY DEF VerdictInv
  <2>1. CASE journal'[k] = journal[k]
    BY <1>3, <2>1 DEF IInv, VerdictInv, Truthful
  <2>2. CASE journal'[k] # journal[k]
    <3>1. k = key /\ journal'[k] = attempt /\ validateAttempt(k[3], attempt)
      BY <1>2, <2>2 DEF Acceptable
    <3> QED
      BY <1>3, <3>1 DEF validateAttempt, Truthful
  <2> QED
    BY <2>1, <2>2
<1>6. EffectInv'
  BY <1>3 DEF IInv, EffectInv
<1> QED
  BY <1>4, <1>5, <1>6

\* A call that ends leaves nothing to say about it.
LEMMA IdleHolds ==
    ASSUME pc' = "idle"
    PROVE  ExecuteInv' /\ TargetInv' /\ ReconcileInv'
BY DEF ExecuteInv, TargetInv, ReconcileInv, Before, After

\* A call that ends with a save.
LEMMA PutReturns ==
    ASSUME IInv, plan # Nil, NEW attempt \in Attempt, Put(Key, attempt), Earlier(Key),
           Truthful(Key, attempt), Returns, UNCHANGED <<guardVars, targetVars, now>>
    PROVE  IInv' /\ RecordsStand
<1>1. Key \in Keys
  BY KeyType DEF IInv
<1>2. RecordsStand
  BY <1>1, PutStands DEF IInv
<1>3. JournalInv' /\ VerdictInv' /\ EffectInv'
  BY <1>1, PutPreserves
<1>4. TypeOK'
  <2>1. /\ journal' \in [Keys -> Attempt \cup {Nil}]
        /\ putFailures' \in Nat
        /\ refusedPut' \in BOOLEAN
    BY <1>1, PutReplaces DEF IInv
  <2>2. Idle \in [claimExpiresAt : Nat, deadline : Nat, observed : DirectState]
    BY DEF Idle, ObservedOwned, DirectState
  <2> QED
    BY <2>1, <2>2 DEF IInv, TypeOK, Returns, guardVars, targetVars
<1> QED
  BY <1>2, <1>3, <1>4, IdleHolds DEF IInv, Returns

\* A step that touches neither the journal nor the target.
LEMMA Unmoved ==
    ASSUME IInv, UNCHANGED <<journal, targetVars>>
    PROVE  JournalInv' /\ VerdictInv' /\ EffectInv'
BY DEF IInv, JournalInv, VerdictInv, EffectInv, Earlier, Truthful, targetVars

\* What is known of the attempt while a call works on it.
LEMMA AttemptInFlight ==
    ASSUME IInv, pc \in After \cup {"reconciling"}
    PROVE  /\ plan # Nil
           /\ journal[Key] \in Attempt
           /\ Earlier(Key)
           /\ Truthful(Key, journal[Key])
<1>1. plan # Nil
  BY DEF IInv, TypeOK, After
<1>2. Key \in Keys
  BY <1>1, KeyType DEF IInv
<1>3. journal[Key] # Nil
  BY DEF IInv, ExecuteInv, ReconcileInv
<1>4. journal[Key] \in Attempt
  BY <1>2, <1>3 DEF IInv, TypeOK
<1> QED
  BY <1>1, <1>2, <1>3, <1>4 DEF IInv, JournalInv, VerdictInv

\* The states that proofs of the EEPROM conclude are states.
LEMMA ProofType ==
    ASSUME NEW expected \in DirectState, NEW observed \in DirectState, NEW attested
    PROVE  resolveEEPROMProof(expected, observed, attested).state \in DirectState
BY DEF resolveEEPROMProof

\* The states that plans expect are states.
LEMMA ExpectedType ==
    ASSUME NEW approval \in Approval, NEW sequence
    PROVE  /\ ExpectedPrestate(approval, sequence) \in DirectState
           /\ ExpectedPoststate(sequence) \in DirectState
<1>1. CommitAttested \in DirectState /\ ObservedOwned \in DirectState
  BY DEF CommitAttested, ObservedOwned, DirectState
<1>2. approval.initial \in DirectState
  BY DEF Approval, InitialStates
<1> QED
  BY <1>1, <1>2 DEF ExpectedPrestate, ExpectedPoststate

\* What is observed of a target is a state.
LEMMA ObservationType ==
    ASSUME TypeOK, NEW observed \in Observations
    PROVE  /\ observed \in DirectState
           /\ observed.security = device.security
           /\ \/ observed.status = "observed" /\ observed.eeprom = device.eeprom
              \/ observed.status = "unavailable" /\ observed.eeprom = "unread"
BY DEF TypeOK, Observations, DirectState

\* The verdict on an observed poststate keeps the result, and is never that
\* nothing was applied.
LEMMA FinishType ==
    ASSUME NEW attempt \in Attempt, NEW sequence, NEW observed \in DirectState, NEW attested
    PROVE  LET finished == finishObserved(attempt, sequence, observed, attested)
           IN  /\ finished \in Attempt
               /\ finished.result = attempt.result
               /\ finished.status # "confirmed_not_applied"
<1> DEFINE expected == ExpectedPoststate(sequence)
           proof == resolveEEPROMProof(expected, observed, attested)
           finished == finishObserved(attempt, sequence, observed, attested)
<1>1. proof.state \in DirectState
  <2>1. CommitAttested \in DirectState /\ ObservedOwned \in DirectState
    BY DEF CommitAttested, ObservedOwned, DirectState
  <2>2. expected \in DirectState
    BY <2>1 DEF ExpectedPoststate
  <2> QED
    BY <2>2, ProofType
<1>2. \E status \in {"verified", "uncertain", "quarantined"} :
         finished = [attempt EXCEPT !.observed = proof.state, !.status = status]
  BY DEF finishObserved
<1> HIDE DEF proof, finished
<1>3. PICK status \in {"verified", "uncertain", "quarantined"} :
         finished = [attempt EXCEPT !.observed = proof.state, !.status = status]
  BY <1>2
<1>4. /\ finished \in Attempt
      /\ finished.result = attempt.result
      /\ finished.status = status
  BY <1>1, <1>3 DEF Attempt, AttemptStatus
<1> QED
  BY <1>4 DEF finished

\* An attempt that a reconciliation finds in its prestate changed nothing.  A
\* commit that had changed the EEPROM would not have left its prestate behind,
\* and of the other operations only the readback has a prestate of its own.
LEMMA PrestateIsUnchanged ==
    ASSUME IInv, plan # Nil, NEW observed \in Observations, NEW carried,
           ExpectedPrestate(Approved, Sequence) # ExpectedPoststate(Sequence),
           ExpectedPrestate(Approved, Sequence).status # "unavailable",
           resolveEEPROMProof(ExpectedPrestate(Approved, Sequence), observed, carried).matches
    PROVE  effect[Key] = {}
<1>1. /\ Approved \in Approvals
      /\ Approved \in Approval
      /\ Sequence \in Nat \ {0}
      /\ Key \in Keys
      /\ Key[1] = Approved.plan
      /\ Key[3] = Sequence
  BY KeyType, GuardBounds DEF IInv, SequenceNumbers
<1>2. effect[Key] \in SUBSET {"security", "eeprom"}
  BY <1>1 DEF IInv, TypeOK, Fields
<1>3. Sequence \in {1, 3}
  BY <1>1 DEF ExpectedPrestate, ExpectedPoststate
<1>4. CASE Sequence = 3
  BY <1>1, <1>4 DEF IInv, EffectInv, ReadOnly
<1>5. CASE Sequence = 1
  <2>1. Approved.initial \in InitialStates /\ ExpectedPrestate(Approved, Sequence) = Approved.initial
    BY <1>1, <1>5 DEF Approval, ExpectedPrestate
  <2>2. observed = Approved.initial
    BY <2>1 DEF resolveEEPROMProof, InitialStates
  <2>3. /\ device.security = "fresh"
        /\ device.eeprom = Approved.initial.eeprom
    BY <2>1, <2>2, ObservationType DEF IInv, InitialStates
  <2>4. "security" \notin effect[Key]
    BY <1>1, <2>3 DEF IInv, EffectInv
  <2>5. "eeprom" \notin effect[Key]
    BY <1>1, <1>5, <2>3 DEF IInv, EffectInv, IsCommit
  <2> QED
    BY <1>2, <2>4, <2>5
<1> QED
  BY <1>3, <1>4, <1>5

\* The verdict of a reconciliation is a true record.
LEMMA ReconciledIsTrue ==
    ASSUME IInv, pc = "reconciling", NEW observed \in Observations, NEW carried
    PROVE  LET verdict == Reconciled(journal[Key], Approved, Sequence, observed, carried)
           IN  verdict \in Attempt /\ Truthful(Key, verdict)
<1> DEFINE attempt == journal[Key]
           prestate == ExpectedPrestate(Approved, Sequence)
           poststate == ExpectedPoststate(Sequence)
           attested == IF IsCommit(Sequence) THEN attempt.result = "attested" ELSE carried
           pre == resolveEEPROMProof(prestate, observed, carried)
           verdict == Reconciled(attempt, Approved, Sequence, observed, carried)
           finished == finishObserved(attempt, Sequence, observed, attested)
<1>1. /\ plan # Nil
      /\ attempt \in Attempt
      /\ Truthful(Key, attempt)
  BY AttemptInFlight
<1>2. attempt.status # "confirmed_not_applied"
  BY DEF IInv, ReconcileInv, Terminal
<1>3. Approved \in Approval
  BY <1>1, KeyType DEF IInv
<1>4. observed \in DirectState
  BY ObservationType DEF IInv
<1>5. pre.state \in DirectState
  BY <1>3, <1>4, ExpectedType, ProofType
<1>6. /\ finished \in Attempt
      /\ finished.result = attempt.result
      /\ finished.status # "confirmed_not_applied"
  BY <1>1, <1>4, FinishType
<1>7. \/ verdict = [attempt EXCEPT !.status = "uncertain", !.observed = pre.state]
      \/ verdict = [attempt EXCEPT !.status = "uncertain", !.observed = observed]
      \/ verdict = finished
      \/ /\ verdict = [attempt EXCEPT !.status = "confirmed_not_applied", !.observed = pre.state]
         /\ pre.matches
         /\ prestate # poststate
         /\ prestate.status # "unavailable"
  BY DEF Reconciled
<1> HIDE DEF verdict, finished, pre, attempt
<1>8. CASE verdict = [attempt EXCEPT !.status = "uncertain", !.observed = pre.state]
  BY <1>1, <1>5, <1>8 DEF Attempt, AttemptStatus, Truthful, verdict, attempt
<1>9. CASE verdict = [attempt EXCEPT !.status = "uncertain", !.observed = observed]
  BY <1>1, <1>4, <1>9 DEF Attempt, AttemptStatus, Truthful, verdict, attempt
<1>10. CASE verdict = finished
  BY <1>1, <1>6, <1>10 DEF Truthful, verdict, attempt
<1>11. CASE /\ verdict = [attempt EXCEPT !.status = "confirmed_not_applied", !.observed = pre.state]
            /\ pre.matches
            /\ prestate # poststate
            /\ prestate.status # "unavailable"
  <2>1. effect[Key] = {}
    BY <1>1, <1>11, PrestateIsUnchanged DEF pre
  <2> QED
    BY <1>1, <1>5, <1>11, <2>1 DEF Attempt, AttemptStatus, Truthful, verdict, attempt
<1> QED
  BY <1>7, <1>8, <1>9, <1>10, <1>11

-----------------------------------------------------------------------------
(***************************************************************************)
(* The steps.                                                              *)
(***************************************************************************)
\* A call that ends, or a plan that is loaded, with nothing else changed.
LEMMA QuietStep ==
    ASSUME IInv, pc' = "idle", call' \in {call, Idle}, UNCHANGED <<targetVars, journalVars, now>>,
           plan' \in [approval : Approvals, sequence : SequenceNumbers] \cup {Nil},
           reconciliationOnly' \in BOOLEAN, lockedOut' \in BOOLEAN
    PROVE  IInv'
<1>1. JournalInv' /\ VerdictInv' /\ EffectInv'
  BY Unmoved DEF journalVars
<1>2. TypeOK'
  <2>1. Idle \in [claimExpiresAt : Nat, deadline : Nat, observed : DirectState]
    BY DEF Idle, ObservedOwned, DirectState
  <2> QED
    BY <2>1 DEF IInv, TypeOK, targetVars, journalVars
<1> QED
  BY <1>1, <1>2, IdleHolds DEF IInv

\* Loading a plan arms the guard, and nothing more.
LEMMA LoadPlanStep ==
    ASSUME IInv, NEW a \in Approvals, NEW n \in SequenceNumbers, LoadPlan(a, n)
    PROVE  IInv'
BY QuietStep DEF IInv, TypeOK, LoadPlan, Quarantined

\* An execution begins with an empty record and a verified predecessor.
LEMMA ExecuteBeginStep ==
    ASSUME IInv, NEW t \in 0..MaxTime, ExecuteBegin(t)
    PROVE  IInv'
<1>1. /\ plan # Nil
      /\ Key \in Keys
      /\ Key = <<Approved.plan, Approved.fenceEpoch, Sequence>>
      /\ Sequence \in SequenceNumbers
  BY KeyType DEF IInv, ExecuteBegin, matchRequest, Key, AttemptJournalKey
<1>2. JournalInv' /\ VerdictInv' /\ EffectInv'
  BY Unmoved DEF ExecuteBegin, journalVars
<1>3. TypeOK'
  <2>1. Idle \in [claimExpiresAt : Nat, deadline : Nat, observed : DirectState]
    BY DEF Idle, ObservedOwned, DirectState
  <2>2. call' \in [claimExpiresAt : Nat, deadline : Nat, observed : DirectState]
    <3>1. t \in Nat /\ now + MaximumDuration \in Nat
      BY GuardBounds DEF IInv, TypeOK
    <3>2. call' = [Idle EXCEPT !.claimExpiresAt = t, !.deadline = now + MaximumDuration]
      BY DEF ExecuteBegin
    <3> QED
      BY <2>1, <3>1, <3>2
  <2> QED
    BY <1>1, <2>2 DEF IInv, TypeOK, ExecuteBegin, guardVars, targetVars, journalVars
<1>4. Earlier(Key)
  <2> SUFFICES ASSUME NEW m \in 1..(Sequence - 1)
               PROVE  /\ journal[<<Approved.plan, Approved.fenceEpoch, m>>] # Nil
                      /\ journal[<<Approved.plan, Approved.fenceEpoch, m>>].status = "verified"
    BY <1>1 DEF Earlier
  <2> DEFINE previous == <<Approved.plan, Approved.fenceEpoch, Sequence - 1>>
  <2>1. Sequence \in Nat /\ Sequence > 1
    BY <1>1, GuardBounds DEF SequenceNumbers
  <2>2. journal[previous] # Nil /\ journal[previous].status = "verified"
    BY <2>1 DEF ExecuteBegin, PrecedingIsVerified, AttemptJournalKey
  <2>3. previous \in Keys
    <3>1. Sequence - 1 \in 1..(Key[3] - 1)
      BY <1>1, <2>1
    <3> QED
      BY <1>1, <3>1, EarlierKey
  <2>4. Earlier(previous)
    BY <2>2, <2>3 DEF IInv, JournalInv
  <2> QED
    BY <2>1, <2>2, <2>4 DEF Earlier
<1>5. ExecuteInv'
  <2>1. pc' = "pre_observation" /\ ~ reconciliationOnly' /\ Key' = Key /\ journal' = journal
        /\ now' = now
    BY DEF ExecuteBegin, matchRequest, guardVars, journalVars, Key, Approved, Sequence
  <2>2. journal'[Key'] = Nil /\ Earlier(Key)'
    BY <1>4, <2>1 DEF ExecuteBegin, NotAttempted, Earlier
  <2>3. call'.deadline = now + MaximumDuration
    BY DEF ExecuteBegin, Idle
  <2>4. call'.deadline <= now' + MaximumDuration
    BY <2>1, <2>3, GuardBounds DEF IInv, TypeOK
  <2> QED
    BY <2>1, <2>2, <2>4 DEF ExecuteInv, Before, After
<1>6. TargetInv' /\ ReconcileInv'
  BY DEF ExecuteBegin, TargetInv, ReconcileInv
<1> QED
  BY <1>2, <1>3, <1>5, <1>6 DEF IInv

\* The pre-observation lets a commit through only on a fresh target whose
\* EEPROM is the one that the plan expects.
LEMMA PreObservationStep ==
    ASSUME IInv, PreObservation
    PROVE  IInv'
<1>1. /\ plan # Nil
      /\ Approved \in Approval
  BY KeyType DEF IInv, TypeOK, PreObservation
<1>2. PICK observed \in Observations :
        LET proof == resolveEEPROMProof(ExpectedPrestate(Approved, Sequence), observed,
                                        Sequence > 1 /\ CommitAttestation(Approved))
        IN  proof.matches /\ call' = [call EXCEPT !.observed = proof.state]
  BY DEF PreObservation
<1> DEFINE proof == resolveEEPROMProof(ExpectedPrestate(Approved, Sequence), observed,
                                       Sequence > 1 /\ CommitAttestation(Approved))
<1>3. /\ observed \in DirectState
      /\ observed.security = device.security
      /\ observed.eeprom \in {"unread", device.eeprom}
  BY ObservationType DEF IInv
<1>4. proof.state \in DirectState
  BY <1>1, <1>3, ExpectedType, ProofType
<1>5. JournalInv' /\ VerdictInv' /\ EffectInv'
  BY Unmoved DEF PreObservation, journalVars
<1>6. /\ call' \in [claimExpiresAt : Nat, deadline : Nat, observed : DirectState]
      /\ call'.deadline = call.deadline
  <2>1. call \in [claimExpiresAt : Nat, deadline : Nat, observed : DirectState]
    BY DEF IInv, TypeOK
  <2>2. call' = [call EXCEPT !.observed = proof.state]
    BY <1>2
  <2> HIDE DEF proof
  <2> QED
    BY <1>4, <2>1, <2>2
<1>7. /\ pc = "pre_observation" /\ pc' = "dispatch"
      /\ UNCHANGED <<guardVars, targetVars, journalVars, now>>
  BY DEF PreObservation
<1>8. TypeOK'
  BY <1>1, <1>6, <1>7 DEF IInv, TypeOK, guardVars, targetVars, journalVars
<1>9. ExecuteInv'
  BY <1>6, <1>7 DEF IInv, ExecuteInv, Before, After, Earlier, Key, Approved, Sequence,
                    guardVars, targetVars, journalVars
<1>10. TargetInv'
  <2> SUFFICES ASSUME Sequence = 1
               PROVE  /\ device.security = "fresh"
                      /\ Approved.initial.eeprom \in {"unread", device.eeprom}
    BY <1>7 DEF TargetInv, guardVars, targetVars, Sequence, Approved
  <2>1. ExpectedPrestate(Approved, Sequence) = Approved.initial
        /\ Approved.initial \in InitialStates
    BY <1>1 DEF ExpectedPrestate, Approval
  <2>2. observed = Approved.initial
    BY <1>2, <2>1 DEF resolveEEPROMProof, InitialStates
  <2> QED
    BY <1>3, <2>1, <2>2 DEF InitialStates
<1>11. ReconcileInv'
  BY <1>7 DEF ReconcileInv
<1> QED
  BY <1>5, <1>8, <1>9, <1>10, <1>11 DEF IInv

\* The intent is recorded for an attempt that has no record and whose turn it
\* is, with room for the operation in the lease.
LEMMA RecordStartedStep ==
    ASSUME IInv, RecordStarted
    PROVE  IInv' /\ RecordsStand
<1>1. /\ plan # Nil
      /\ Key \in Keys
      /\ Approved \in Approval
  BY KeyType DEF IInv, TypeOK, RecordStarted
<1>2. StartedAttempt \in Attempt
  BY <1>1 DEF IInv, TypeOK, StartedAttempt, Attempt, AttemptStatus, Approval
<1>3. /\ Earlier(Key)
      /\ journal[Key] = Nil
      /\ ~ reconciliationOnly
      /\ call.deadline <= now + MaximumDuration
  BY DEF IInv, ExecuteInv, RecordStarted, Before
<1>4. Truthful(Key, StartedAttempt)
  BY DEF Truthful, StartedAttempt
<1>5. UNCHANGED <<guardVars, targetVars, now>>
  BY DEF RecordStarted
<1>6. CASE Returns /\ (SaveFailed(Key, StartedAttempt) \/ Refused(Key, StartedAttempt))
  <2>1. Put(Key, StartedAttempt)
    BY <1>6 DEF Put
  <2> QED
    BY <1>1, <1>2, <1>3, <1>4, <1>5, <1>6, <2>1, PutReturns
<1>7. CASE Saved(Key, StartedAttempt) /\ pc' = "started" /\ UNCHANGED call
  <2>1. Put(Key, StartedAttempt)
    BY <1>7 DEF Put
  <2>2. JournalInv' /\ VerdictInv' /\ EffectInv'
    BY <1>1, <1>2, <1>3, <1>4, <1>5, <2>1, PutPreserves
  <2>3. RecordsStand
    BY <1>1, <1>2, <2>1, PutStands DEF IInv
  <2>4. TypeOK'
    <3>1. /\ journal' \in [Keys -> Attempt \cup {Nil}]
          /\ putFailures' \in Nat
          /\ refusedPut' \in BOOLEAN
      BY <1>1, <1>2, <2>1, PutReplaces DEF IInv
    <3> QED
      BY <1>1, <1>5, <1>7, <3>1 DEF IInv, TypeOK, guardVars, targetVars
  <2>5. Key' = Key
    BY <1>5 DEF Key, Approved, Sequence, guardVars
  <2>6. journal'[Key] = StartedAttempt
    BY <1>1, <1>7 DEF IInv, TypeOK, Saved
  <2>7. StartedAttempt # Nil
    BY <1>2, AbsentAssumption
  <2>8. dispatches[Key] = 0 /\ effect[Key] = {}
    BY <1>1, <1>3 DEF IInv, JournalInv
  <2>9. call.deadline + LeaseSafetyMargin <= call.claimExpiresAt
    <3>1. LeaseCoversOperation(call.claimExpiresAt, MaximumDuration)
      BY DEF RecordStarted, AuthorityIsCurrent
    <3>2. call.deadline \in Nat /\ call.claimExpiresAt \in Nat /\ now \in Nat
      BY DEF IInv, TypeOK
    <3> QED
      BY <1>3, <3>1, <3>2, GuardBounds DEF LeaseCoversOperation
  <2>10. ExecuteInv'
    <3>1. /\ journal'[Key'] # Nil
          /\ journal'[Key'].status = "started"
          /\ journal'[Key'].execution = "none"
          /\ journal'[Key'].result = "none"
      BY <2>5, <2>6, <2>7 DEF StartedAttempt
    <3>2. dispatches'[Key'] = 0 /\ effect'[Key'] = {} /\ ~ reconciliationOnly' /\ call' = call
      BY <1>3, <1>5, <1>7, <2>5, <2>8 DEF guardVars, targetVars
    <3> QED
      BY <1>7, <2>9, <3>1, <3>2 DEF ExecuteInv, Before, After
  <2>11. TargetInv' /\ ReconcileInv'
    BY <1>5, <1>7 DEF IInv, RecordStarted, TargetInv, ReconcileInv, guardVars, targetVars,
                      Sequence, Approved
  <2> QED
    BY <2>2, <2>3, <2>4, <2>10, <2>11 DEF IInv
<1> QED
  BY <1>6, <1>7 DEF RecordStarted

\* Whatever follows the commit in a plan finds the key programmed.
LEMMA OwnedAfterCommit ==
    ASSUME IInv, pc \in After, Sequence # 1
    PROVE  device.security = "owned"
<1>1. plan # Nil /\ Earlier(Key)
  BY AttemptInFlight
<1>2. Key \in Keys /\ Key[3] = Sequence /\ Sequence \in SequenceNumbers
  BY <1>1, KeyType DEF IInv
<1> DEFINE first == <<Key[1], Key[2], 1>>
<1>3. 1 \in 1..(Key[3] - 1)
  BY <1>2, GuardBounds DEF SequenceNumbers
<1>4. first \in Keys /\ first[3] = 1
  BY <1>2, <1>3, EarlierKey
<1>5. journal[first] # Nil /\ journal[first].status = "verified"
  BY <1>1, <1>3 DEF Earlier
<1> HIDE DEF first
<1>6. "security" \in effect[first]
  BY <1>4, <1>5 DEF IInv, VerdictInv, Truthful, IsCommit
<1> QED
  BY <1>4, <1>6 DEF IInv, EffectInv

\* What an execution may leave behind.
LEMMA OutcomeType ==
    ASSUME TypeOK, NEW sequence, NEW after \in Outcomes(sequence)
    PROVE  /\ after \in [security : {"fresh", "owned"}, eeprom : {"initial", "release", "other"}]
           /\ after.security \in {device.security, "owned"}
           /\ IsCommit(sequence) => after.eeprom \in {device.eeprom, "release"}
           /\ ~ IsCommit(sequence) => after.security = device.security
           /\ ReadOnly(sequence) => after = device
<1>1. device \in [security : {"fresh", "owned"}, eeprom : {"initial", "release", "other"}]
  BY DEF TypeOK
<1>2. CASE IsCommit(sequence)
  BY <1>1, <1>2 DEF Outcomes, IsCommit, ReadOnly
<1>3. CASE ~ IsCommit(sequence) /\ ReadOnly(sequence)
  BY <1>1, <1>3 DEF Outcomes
<1>4. CASE ~ IsCommit(sequence) /\ ~ ReadOnly(sequence)
  BY <1>1, <1>4 DEF Outcomes
<1> QED
  BY <1>2, <1>3, <1>4

\* The dispatch is the first of its attempt, and the only step that changes
\* the target; a commit is dispatched to a fresh target only.
LEMMA HardwareExecuteStep ==
    ASSUME IInv, HardwareExecute
    PROVE  /\ IInv'
           /\ CommitsAreFresh
           /\ ~ reconciliationOnly
<1>1. PICK after \in Outcomes(Sequence) :
         /\ device' = after
         /\ effect' = [effect EXCEPT ![Key] = Changed(after)]
  BY DEF HardwareExecute
<1>2. /\ pc = "started" /\ pc' = "executing"
      /\ dispatches' = [dispatches EXCEPT ![Key] = @ + 1]
      /\ UNCHANGED <<call, guardVars, journalVars, now>>
  BY DEF HardwareExecute
<1>3. /\ plan # Nil
      /\ journal[Key] \in Attempt
      /\ journal[Key] # Nil
      /\ Earlier(Key)
  BY <1>2, AttemptInFlight DEF IInv, ExecuteInv, After
<1>4. /\ Key \in Keys
      /\ Key[1] = Approved.plan
      /\ Key[3] = Sequence
      /\ Approved \in Approvals
  BY <1>3, KeyType DEF IInv
<1>5. /\ ~ reconciliationOnly
      /\ journal[Key].status = "started"
      /\ journal[Key].execution = "none"
      /\ journal[Key].result = "none"
      /\ call.deadline + LeaseSafetyMargin <= call.claimExpiresAt
      /\ dispatches[Key] = 0
      /\ effect[Key] = {}
  BY <1>2 DEF IInv, ExecuteInv, Before, After
<1>6. /\ after \in [security : {"fresh", "owned"}, eeprom : {"initial", "release", "other"}]
      /\ after.security \in {device.security, "owned"}
      /\ IsCommit(Sequence) => after.eeprom \in {device.eeprom, "release"}
      /\ ~ IsCommit(Sequence) => after.security = device.security
      /\ ReadOnly(Sequence) => after = device
  BY OutcomeType DEF IInv
<1>7. /\ effect'[Key] = Changed(after)
      /\ dispatches'[Key] = 1
      /\ \A k \in Keys : k # Key => effect'[k] = effect[k] /\ dispatches'[k] = dispatches[k]
  BY <1>1, <1>2, <1>4, <1>5 DEF IInv, TypeOK
<1>8. Key' = Key /\ Sequence' = Sequence /\ Approved' = Approved /\ journal' = journal /\ call' = call
      /\ reconciliationOnly' = reconciliationOnly
  BY <1>2 DEF Key, Approved, Sequence, guardVars, journalVars
<1>9. Sequence = 1 =>
         device.security = "fresh" /\ Approved.initial.eeprom \in {"unread", device.eeprom}
  BY <1>2 DEF IInv, TargetInv
<1>10. TypeOK'
  <2>1. Changed(after) \in SUBSET Fields
    BY DEF Changed, Fields
  <2>2. effect' \in [Keys -> SUBSET Fields]
    BY <1>1, <2>1 DEF IInv, TypeOK
  <2>3. dispatches' \in [Keys -> Nat]
    BY <1>2, <1>4, <1>5 DEF IInv, TypeOK
  <2> QED
    BY <1>1, <1>2, <1>6, <2>2, <2>3 DEF IInv, TypeOK, guardVars, journalVars
<1>11. JournalInv'
  <2> SUFFICES ASSUME NEW k \in Keys
               PROVE  /\ dispatches'[k] <= 1
                      /\ journal'[k] = Nil => dispatches'[k] = 0 /\ effect'[k] = {}
                      /\ journal'[k] # Nil => Earlier(k)'
    BY DEF JournalInv
  <2>1. journal'[k] # Nil => Earlier(k)'
    BY <1>8 DEF IInv, JournalInv, Earlier
  <2>2. CASE k = Key
    BY <1>3, <1>7, <1>8, <2>1, <2>2
  <2>3. CASE k # Key
    BY <1>7, <1>8, <2>1, <2>3 DEF IInv, JournalInv
  <2> QED
    BY <2>2, <2>3
<1>12. VerdictInv'
  <2> SUFFICES ASSUME NEW k \in Keys, journal'[k] # Nil
               PROVE  /\ Truthful(k, journal[k])'
                      /\ journal'[k].status = "verified" /\ IsCommit(k[3]) =>
                            journal'[k].result = "attested"
    BY DEF VerdictInv
  <2>1. CASE k = Key
    BY <1>5, <1>8, <2>1 DEF Truthful
  <2>2. CASE k # Key
    BY <1>7, <1>8, <2>2 DEF IInv, VerdictInv, Truthful
  <2> QED
    BY <2>1, <2>2
<1>13. EffectInv'
  <2> SUFFICES ASSUME NEW k \in Keys
               PROVE  /\ ReadOnly(k[3]) => effect'[k] = {}
                      /\ "security" \in effect'[k] => device'.security = "owned"
                      /\ IsCommit(k[3]) /\ "eeprom" \in effect'[k] /\ device'.security = "fresh" =>
                            /\ device'.eeprom = "release"
                            /\ \A a \in Approvals : a.plan = k[1] => a.initial.eeprom # "release"
    BY DEF EffectInv
  <2>1. CASE k = Key
    <3>1. ReadOnly(Sequence) => Changed(after) = {}
      BY <1>6 DEF Changed
    <3>2. "security" \in Changed(after) => after.security = "owned"
      BY <1>6 DEF Changed
    <3>3. ASSUME IsCommit(Sequence), "eeprom" \in Changed(after)
          PROVE  /\ after.eeprom = "release"
                 /\ \A a \in Approvals : a.plan = Approved.plan => a.initial.eeprom # "release"
      <4>1. after.eeprom = "release" /\ device.eeprom # "release"
        BY <1>6, <3>3 DEF Changed
      <4>2. Approved.initial.eeprom # "release"
        BY <1>9, <3>3, <4>1 DEF IsCommit
      <4> QED
        BY <1>4, <4>1, <4>2, ApprovalsAssumption
    <3> QED
      BY <1>1, <1>4, <1>7, <2>1, <3>1, <3>2, <3>3
  <2>2. CASE k # Key
    <3>1. effect'[k] = effect[k]
      BY <1>7, <2>2
    <3>2. /\ ReadOnly(k[3]) => effect[k] = {}
          /\ "security" \in effect[k] => device.security = "owned"
          /\ IsCommit(k[3]) /\ "eeprom" \in effect[k] /\ device.security = "fresh" =>
                /\ device.eeprom = "release"
                /\ \A a \in Approvals : a.plan = k[1] => a.initial.eeprom # "release"
      BY DEF IInv, EffectInv
    <3>3. after.security = "fresh" => device.security = "fresh" /\ IsCommit(Sequence)
      BY <1>2, <1>6, OwnedAfterCommit DEF After, IsCommit
    <3> QED
      BY <1>1, <1>6, <3>1, <3>2, <3>3
  <2> QED
    BY <2>1, <2>2
<1>14. ExecuteInv'
  BY <1>2, <1>3, <1>5, <1>7, <1>8 DEF ExecuteInv, Before, After
<1>15. TargetInv' /\ ReconcileInv'
  <2>1. Sequence = 1 /\ after.security = "owned" => "security" \in Changed(after)
    BY <1>9 DEF Changed
  <2> QED
    BY <1>1, <1>2, <1>7, <1>8, <2>1 DEF TargetInv, ReconcileInv
<1>16. CommitsAreFresh
  BY <1>4, <1>7, <1>9 DEF CommitsAreFresh, IsCommit
<1> QED
  BY <1>5, <1>10, <1>11, <1>12, <1>13, <1>14, <1>15, <1>16 DEF IInv

\* The hardware has succeeded, and a commit has left the target owned.
LEMMA HardwareSucceedsStep ==
    ASSUME IInv, HardwareSucceeds
    PROVE  IInv'
<1>1. /\ pc = "executing" /\ pc' = "post_observation"
      /\ ReportsSuccess
      /\ UNCHANGED <<call, guardVars, targetVars, journalVars, now>>
  BY DEF HardwareSucceeds
<1>2. JournalInv' /\ VerdictInv' /\ EffectInv'
  BY <1>1, Unmoved DEF journalVars
<1>3. TypeOK'
  BY <1>1 DEF IInv, TypeOK, guardVars, targetVars, journalVars
<1>4. ExecuteInv'
  BY <1>1 DEF IInv, ExecuteInv, Before, After, Key, Approved, Sequence,
              guardVars, targetVars, journalVars
<1>5. TargetInv' /\ ReconcileInv'
  BY <1>1 DEF IInv, TargetInv, ReconcileInv, ReportsSuccess, TargetIsOwned, Key, Approved, Sequence,
              guardVars, targetVars, journalVars
<1> QED
  BY <1>2, <1>3, <1>4, <1>5 DEF IInv

\* A call that ends with a true record of its attempt.
LEMMA UpdateReturns ==
    ASSUME IInv, pc \in After \cup {"reconciling"}, NEW attempt \in Attempt,
           Truthful(Key, attempt), Put(Key, attempt), Returns,
           UNCHANGED <<guardVars, targetVars, now>>
    PROVE  IInv' /\ RecordsStand
BY AttemptInFlight, PutReturns

\* The error paths after the dispatch.
LEMMA HardwareFailsStep ==
    ASSUME IInv, HardwareFails
    PROVE  IInv' /\ RecordsStand
<1>1. PICK execution \in {"none", "failed"} :
        Put(Key, [journal[Key] EXCEPT !.status = "uncertain", !.execution = execution])
  BY DEF HardwareFails
<1> DEFINE attempt == [journal[Key] EXCEPT !.status = "uncertain", !.execution = execution]
<1>2. pc \in After
  BY DEF HardwareFails, After
<1>3. journal[Key] \in Attempt /\ Truthful(Key, journal[Key])
  BY <1>2, AttemptInFlight
<1>4. attempt \in Attempt /\ Truthful(Key, attempt)
  BY <1>3 DEF Attempt, AttemptStatus, Truthful
<1> QED
  BY <1>1, <1>2, <1>4, UpdateReturns DEF HardwareFails

\* The answer came after the context had ended.
LEMMA HardwareReturnsLateStep ==
    ASSUME IInv, HardwareReturnsLate
    PROVE  IInv' /\ RecordsStand
<1> DEFINE attempt == [journal[Key] EXCEPT !.status = "uncertain", !.execution = "completed"]
<1>1. pc \in After
  BY DEF HardwareReturnsLate, After
<1>2. journal[Key] \in Attempt /\ Truthful(Key, journal[Key])
  BY <1>1, AttemptInFlight
<1>3. attempt \in Attempt /\ Truthful(Key, attempt)
  BY <1>2 DEF Attempt, AttemptStatus, Truthful
<1> QED
  BY <1>1, <1>3, UpdateReturns DEF HardwareReturnsLate

\* The evidence of the hardware is not what the plan asks for.
LEMMA HardwareEvidenceIsInvalidStep ==
    ASSUME IInv, HardwareEvidenceIsInvalid
    PROVE  IInv' /\ RecordsStand
<1> DEFINE bare == [journal[Key] EXCEPT !.status = "uncertain"]
           plain == [journal[Key] EXCEPT !.status = "uncertain",
                                         !.execution = "completed", !.result = "plain"]
<1>1. pc \in After
  BY DEF HardwareEvidenceIsInvalid, After
<1>2. journal[Key] \in Attempt /\ Truthful(Key, journal[Key])
  BY <1>1, AttemptInFlight
<1>3. bare \in Attempt /\ Truthful(Key, bare)
  BY <1>2 DEF Attempt, AttemptStatus, Truthful
<1>4. plain \in Attempt /\ Truthful(Key, plain)
  BY <1>2 DEF Attempt, AttemptStatus, Truthful
<1>5. CASE Put(Key, bare)
  BY <1>1, <1>3, <1>5, UpdateReturns DEF HardwareEvidenceIsInvalid
<1>6. CASE Put(Key, plain)
  BY <1>1, <1>4, <1>6, UpdateReturns DEF HardwareEvidenceIsInvalid
<1> QED
  BY <1>5, <1>6 DEF HardwareEvidenceIsInvalid

\* The result of a commit is attested only where the key was programmed.
LEMMA ExecutedIsTrue ==
    ASSUME IInv, pc = "post_observation"
    PROVE  /\ ExecutedAttempt \in Attempt
           /\ Truthful(Key, ExecutedAttempt)
<1>1. plan # Nil /\ journal[Key] \in Attempt
  BY AttemptInFlight DEF After
<1>2. Key[3] = Sequence
  BY <1>1, KeyType DEF IInv
<1>3. journal[Key].status = "started"
  BY DEF IInv, ExecuteInv, After
<1>4. IsCommit(Sequence) => dispatches[Key] = 1 /\ "security" \in effect[Key]
  BY DEF IInv, ExecuteInv, TargetInv, ReportsSuccess, TargetIsOwned, IsCommit
<1>5. /\ ExecutedAttempt \in Attempt
      /\ ExecutedAttempt.status = "started"
      /\ ExecutedAttempt.result = IF IsCommit(Sequence) THEN "attested" ELSE "plain"
  BY <1>1, <1>3 DEF ExecutedAttempt, Attempt
<1> QED
  BY <1>2, <1>4, <1>5 DEF Truthful

\* The target could not be observed after the execution.
LEMMA PostObservationFailsStep ==
    ASSUME IInv, PostObservationFails
    PROVE  IInv' /\ RecordsStand
<1>1. PICK status \in {"uncertain", "quarantined"} :
        Put(Key, [ExecutedAttempt EXCEPT !.status = status])
  BY DEF PostObservationFails
<1> DEFINE attempt == [ExecutedAttempt EXCEPT !.status = status]
<1>2. ExecutedAttempt \in Attempt /\ Truthful(Key, ExecutedAttempt)
  BY ExecutedIsTrue DEF PostObservationFails
<1>3. attempt \in Attempt /\ Truthful(Key, attempt)
  BY <1>2 DEF Attempt, AttemptStatus, Truthful
<1> QED
  BY <1>1, <1>3, UpdateReturns DEF PostObservationFails, After

\* The verdict on what the target shows after the execution.
LEMMA PostObservationStep ==
    ASSUME IInv, PostObservation
    PROVE  IInv' /\ RecordsStand
<1>1. PICK observed \in Observations :
        Put(Key, finishObserved(ExecutedAttempt, Sequence, observed,
                     IsCommit(Sequence) \/ CommitAttestation(Approved)))
  BY DEF PostObservation
<1> DEFINE attempt == finishObserved(ExecutedAttempt, Sequence, observed,
                          IsCommit(Sequence) \/ CommitAttestation(Approved))
<1>2. ExecutedAttempt \in Attempt /\ Truthful(Key, ExecutedAttempt)
  BY ExecutedIsTrue DEF PostObservation
<1>3. /\ attempt \in Attempt
      /\ attempt.result = ExecutedAttempt.result
      /\ attempt.status # "confirmed_not_applied"
  BY <1>2, ObservationType, FinishType DEF IInv
<1>4. Truthful(Key, attempt)
  BY <1>2, <1>3 DEF Truthful
<1> HIDE DEF attempt
<1>5. Put(Key, attempt)
  BY <1>1 DEF attempt
<1> QED
  BY <1>3, <1>4, <1>5, UpdateReturns DEF PostObservation, After

\* A reconciliation begins on an unresolved attempt of the plan, or ends.
LEMMA ReconcileBegins ==
    ASSUME IInv, NEW a \in Approvals, NEW n \in SequenceNumbers, NEW f, NEW t \in 0..MaxTime,
           ReconcileBegin(a, n, f, t), plan' = [approval |-> a, sequence |-> n],
           reconciliationOnly' \in BOOLEAN, lockedOut' \in BOOLEAN,
           UNCHANGED <<targetVars, journalVars, now>>
    PROVE  IInv'
<1>1. CASE Returns
  BY <1>1, QuietStep DEF Returns
<1>2. CASE ~ Returns
  <2>1. /\ journal[AttemptJournalKey(a, n)] # Nil
        /\ journal[AttemptJournalKey(a, n)].status \notin Terminal
        /\ pc' = "reconciling"
        /\ call' = [Idle EXCEPT !.claimExpiresAt = t, !.deadline = now + ObservationBudget]
    BY <1>2 DEF ReconcileBegin
  <2>2. Key' = AttemptJournalKey(a, n)
    BY DEF Key, Approved, Sequence
  <2>3. JournalInv' /\ VerdictInv' /\ EffectInv'
    BY Unmoved DEF journalVars
  <2>4. call' \in [claimExpiresAt : Nat, deadline : Nat, observed : DirectState]
    <3>1. Idle \in [claimExpiresAt : Nat, deadline : Nat, observed : DirectState]
      BY DEF Idle, ObservedOwned, DirectState
    <3>2. t \in Nat /\ now + ObservationBudget \in Nat
      BY GuardBounds DEF IInv, TypeOK
    <3> QED
      BY <2>1, <3>1, <3>2
  <2>5. plan' \in [approval : Approvals, sequence : SequenceNumbers] /\ plan' # Nil
    BY AbsentAssumption
  <2>6. TypeOK'
    BY <2>1, <2>4, <2>5 DEF IInv, TypeOK, targetVars, journalVars
  <2>7. ExecuteInv' /\ TargetInv'
    BY <2>1 DEF ExecuteInv, TargetInv, Before, After
  <2>8. ReconcileInv'
    BY <2>1, <2>2 DEF ReconcileInv, journalVars
  <2> QED
    BY <2>3, <2>6, <2>7, <2>8 DEF IInv
<1> QED
  BY <1>1, <1>2

\* ReconcilePlan, with the plan that is loaded or one that it loads.
LEMMA ReconcilePlanStep ==
    ASSUME IInv, NEW a \in Approvals, NEW n \in SequenceNumbers, NEW f, NEW t \in 0..MaxTime,
           ReconcilePlan(a, n, f, t)
    PROVE  IInv'
<1>1. /\ plan' = [approval |-> a, sequence |-> n]
      /\ lockedOut' \in BOOLEAN
      /\ reconciliationOnly' \in BOOLEAN
      /\ UNCHANGED <<targetVars, journalVars, now>>
  BY DEF IInv, TypeOK, ReconcilePlan, Quarantined
<1>2. CASE Returns
  BY <1>1, <1>2, QuietStep DEF Returns
<1>3. CASE ReconcileBegin(a, n, f, t)
  BY <1>1, <1>3, ReconcileBegins
<1> QED
  BY <1>2, <1>3 DEF ReconcilePlan

\* Reconcile, with the plan that is loaded.
LEMMA ReconcileStep ==
    ASSUME IInv, NEW f, NEW t \in 0..MaxTime, Reconcile(f, t)
    PROVE  IInv'
<1>1. /\ Approved \in Approvals
      /\ Sequence \in SequenceNumbers
      /\ plan = [approval |-> Approved, sequence |-> Sequence]
  BY KeyType DEF IInv, TypeOK, Reconcile, Approved, Sequence
<1>2. /\ ReconcileBegin(Approved, Sequence, f, t)
      /\ UNCHANGED <<guardVars, targetVars, journalVars, now>>
  BY DEF Reconcile
<1>3. /\ plan' = [approval |-> Approved, sequence |-> Sequence]
      /\ reconciliationOnly' \in BOOLEAN
      /\ lockedOut' \in BOOLEAN
  BY <1>1, <1>2 DEF IInv, TypeOK, guardVars
<1> QED
  BY <1>1, <1>2, <1>3, ReconcileBegins

\* The target could not be observed, or is another one.
LEMMA ReconciliationFailsStep ==
    ASSUME IInv, ReconciliationFails
    PROVE  IInv' /\ RecordsStand
<1> DEFINE quarantined == [journal[Key] EXCEPT !.status = "quarantined"]
<1>1. journal[Key] \in Attempt /\ Truthful(Key, journal[Key])
  BY AttemptInFlight DEF ReconciliationFails
<1>2. quarantined \in Attempt /\ Truthful(Key, quarantined)
  BY <1>1 DEF Attempt, AttemptStatus, Truthful
<1>3. CASE Put(Key, journal[Key])
  BY <1>1, <1>3, UpdateReturns DEF ReconciliationFails
<1>4. CASE Put(Key, quarantined)
  BY <1>2, <1>4, UpdateReturns DEF ReconciliationFails
<1> QED
  BY <1>3, <1>4 DEF ReconciliationFails

\* The verdict of a reconciliation.
LEMMA ReconciliationObservesStep ==
    ASSUME IInv, ReconciliationObserves
    PROVE  IInv' /\ RecordsStand
<1>1. PICK observed \in Observations :
        Put(Key, Reconciled(journal[Key], Approved, Sequence, observed, CarriesCommit(Sequence)))
  BY DEF ReconciliationObserves
<1> DEFINE verdict ==
        Reconciled(journal[Key], Approved, Sequence, observed, CarriesCommit(Sequence))
<1>2. pc = "reconciling"
  BY DEF ReconciliationObserves
<1>3. verdict \in Attempt /\ Truthful(Key, verdict)
  BY <1>2, ReconciledIsTrue
<1> HIDE DEF verdict
<1>4. Put(Key, verdict)
  BY <1>1 DEF verdict
<1> QED
  BY <1>2, <1>3, <1>4, UpdateReturns DEF ReconciliationObserves

\* Time passes; the lease of a call in flight was measured against its
\* deadline and not against the clock.
LEMMA TickStep ==
    ASSUME IInv, Tick
    PROVE  IInv'
<1>1. /\ now \in Nat /\ now' = now + 1
      /\ UNCHANGED <<guardVars, pc, call, targetVars, journalVars>>
  BY DEF IInv, TypeOK, Tick
<1>2. JournalInv' /\ VerdictInv' /\ EffectInv'
  BY <1>1, Unmoved DEF journalVars
<1>3. TypeOK'
  BY <1>1 DEF IInv, TypeOK, guardVars, targetVars, journalVars
<1>4. ExecuteInv'
  <2>1. pc \in Before => call'.deadline <= now' + MaximumDuration
    <3>1. call.deadline \in Nat
      BY DEF IInv, TypeOK
    <3> QED
      BY <1>1, <3>1, GuardBounds DEF IInv, ExecuteInv
  <2> QED
    BY <1>1, <2>1 DEF IInv, ExecuteInv, Earlier, Key, Approved, Sequence,
                      guardVars, targetVars, journalVars
<1>5. TargetInv' /\ ReconcileInv'
  BY <1>1 DEF IInv, TargetInv, ReconcileInv, ReportsSuccess, TargetIsOwned, Key, Approved, Sequence,
              guardVars, targetVars, journalVars
<1> QED
  BY <1>2, <1>3, <1>4, <1>5 DEF IInv

\* Calls that end without a record, and the death of the process.
LEMMA ReturnStep ==
    ASSUME IInv,
           PreObservationFails \/ DispatchRefused \/ ReconciliationRefused \/ newGuard
    PROVE  IInv'
<1>1. /\ pc' = "idle" /\ call' = Idle
      /\ UNCHANGED <<targetVars, journalVars, now>>
  BY DEF PreObservationFails, DispatchRefused, ReconciliationRefused, newGuard, Returns
<1>2. /\ plan' \in {plan, Nil}
      /\ reconciliationOnly' \in {reconciliationOnly, FALSE}
      /\ lockedOut' \in {lockedOut, FALSE}
  BY DEF PreObservationFails, DispatchRefused, ReconciliationRefused, newGuard, guardVars
<1>3. /\ plan' \in [approval : Approvals, sequence : SequenceNumbers] \cup {Nil}
      /\ reconciliationOnly' \in BOOLEAN
      /\ lockedOut' \in BOOLEAN
  BY <1>2 DEF IInv, TypeOK
<1> QED
  BY <1>1, <1>3, QuietStep

-----------------------------------------------------------------------------
(***************************************************************************)
(* The theorems.                                                           *)
(***************************************************************************)
\* A guard that was never started.
LEMMA InitEstablishes == Init => IInv
<1> SUFFICES ASSUME Init PROVE IInv
  OBVIOUS
<1>1. Idle \in [claimExpiresAt : Nat, deadline : Nat, observed : DirectState]
  BY DEF Idle, ObservedOwned, DirectState
<1>2. TypeOK
  BY <1>1 DEF Init, TypeOK
<1>3. JournalInv /\ VerdictInv /\ EffectInv
  BY DEF Init, JournalInv, VerdictInv, EffectInv
<1>4. ExecuteInv /\ TargetInv /\ ReconcileInv
  BY DEF Init, ExecuteInv, TargetInv, ReconcileInv, Before, After
<1> QED
  BY <1>2, <1>3, <1>4 DEF IInv

\* Every step keeps the invariant.
LEMMA NextPreserves == IInv /\ [Next]_vars => IInv'
<1> SUFFICES ASSUME IInv, [Next]_vars PROVE IInv'
  OBVIOUS
<1>1. ASSUME NEW a \in Approvals, NEW n \in SequenceNumbers, LoadPlan(a, n) PROVE IInv'
  BY <1>1, LoadPlanStep
<1>2. ASSUME NEW t \in 0..MaxTime, ExecuteBegin(t) PROVE IInv'
  BY <1>2, ExecuteBeginStep
<1>3. CASE PreObservation
  BY <1>3, PreObservationStep
<1>4. CASE PreObservationFails \/ DispatchRefused \/ ReconciliationRefused \/ newGuard
  BY <1>4, ReturnStep
<1>5. CASE RecordStarted
  BY <1>5, RecordStartedStep
<1>6. CASE HardwareExecute
  BY <1>6, HardwareExecuteStep
<1>7. CASE HardwareFails
  BY <1>7, HardwareFailsStep
<1>8. CASE HardwareReturnsLate
  BY <1>8, HardwareReturnsLateStep
<1>9. CASE HardwareEvidenceIsInvalid
  BY <1>9, HardwareEvidenceIsInvalidStep
<1>10. CASE HardwareSucceeds
  BY <1>10, HardwareSucceedsStep
<1>11. CASE PostObservation
  BY <1>11, PostObservationStep
<1>12. CASE PostObservationFails
  BY <1>12, PostObservationFailsStep
<1>13. ASSUME NEW a \in Approvals, NEW n \in SequenceNumbers, NEW f \in FenceEpochs,
              NEW t \in 0..MaxTime, ReconcilePlan(a, n, f, t)
       PROVE  IInv'
  BY <1>13, ReconcilePlanStep
<1>14. ASSUME NEW f \in FenceEpochs, NEW t \in 0..MaxTime, Reconcile(f, t) PROVE IInv'
  BY <1>14, ReconcileStep
<1>15. CASE ReconciliationObserves
  BY <1>15, ReconciliationObservesStep
<1>16. CASE ReconciliationFails
  BY <1>16, ReconciliationFailsStep
<1>17. CASE Tick
  BY <1>17, TickStep
<1>18. CASE UNCHANGED vars
  <2>1. UNCHANGED <<guardVars, pc, call, targetVars, journalVars, now>>
    BY <1>18 DEF vars, guardVars, targetVars, journalVars
  <2>2. JournalInv' /\ VerdictInv' /\ EffectInv'
    BY <2>1, Unmoved DEF journalVars
  <2>3. TypeOK'
    BY <2>1 DEF IInv, TypeOK, guardVars, targetVars, journalVars
  <2>4. ExecuteInv'
    BY <2>1 DEF IInv, ExecuteInv, Earlier, Key, Approved, Sequence,
                guardVars, targetVars, journalVars
  <2>5. TargetInv' /\ ReconcileInv'
    BY <2>1 DEF IInv, TargetInv, ReconcileInv, ReportsSuccess, TargetIsOwned, Key, Approved, Sequence,
                guardVars, targetVars, journalVars
  <2> QED
    BY <2>2, <2>3, <2>4, <2>5 DEF IInv
<1> QED
  BY <1>1, <1>2, <1>3, <1>4, <1>5, <1>6, <1>7, <1>8, <1>9, <1>10, <1>11, <1>12, <1>13,
     <1>14, <1>15, <1>16, <1>17, <1>18 DEF Next

\* The dispatch is the only step that hands anything to the hardware, and a
\* save the only one that changes the journal.
LEMMA StepIsGuarded ==
    ASSUME IInv, Next
    PROVE  /\ RecordsStand
           /\ CommitsAreFresh
           /\ reconciliationOnly => dispatches' = dispatches
<1>1. CASE journal' = journal /\ dispatches' = dispatches
  <2>1. RecordsStand
    BY <1>1 DEF RecordsStand
  <2>2. CommitsAreFresh
    BY <1>1 DEF CommitsAreFresh
  <2> QED
    BY <1>1, <2>1, <2>2
<1>2. CASE RecordsStand /\ dispatches' = dispatches
  BY <1>2 DEF CommitsAreFresh
<1>3. CASE HardwareExecute
  <2>1. journal' = journal
    BY <1>3 DEF HardwareExecute, journalVars
  <2> QED
    BY <1>3, <2>1, HardwareExecuteStep DEF RecordsStand
<1>4. CASE RecordStarted
  BY <1>2, <1>4, RecordStartedStep DEF RecordStarted, targetVars
<1>5. CASE HardwareFails
  BY <1>2, <1>5, HardwareFailsStep DEF HardwareFails, targetVars
<1>6. CASE HardwareReturnsLate
  BY <1>2, <1>6, HardwareReturnsLateStep DEF HardwareReturnsLate, targetVars
<1>7. CASE HardwareEvidenceIsInvalid
  BY <1>2, <1>7, HardwareEvidenceIsInvalidStep DEF HardwareEvidenceIsInvalid, targetVars
<1>8. CASE PostObservation
  BY <1>2, <1>8, PostObservationStep DEF PostObservation, targetVars
<1>9. CASE PostObservationFails
  BY <1>2, <1>9, PostObservationFailsStep DEF PostObservationFails, targetVars
<1>10. CASE ReconciliationObserves
  BY <1>2, <1>10, ReconciliationObservesStep DEF ReconciliationObserves, targetVars
<1>11. CASE ReconciliationFails
  BY <1>2, <1>11, ReconciliationFailsStep DEF ReconciliationFails, targetVars
<1>12. ASSUME NEW a \in Approvals, NEW n \in SequenceNumbers, LoadPlan(a, n)
       PROVE  journal' = journal /\ dispatches' = dispatches
  BY <1>12 DEF LoadPlan, targetVars, journalVars
<1>13. ASSUME NEW t \in 0..MaxTime, ExecuteBegin(t)
       PROVE  journal' = journal /\ dispatches' = dispatches
  BY <1>13 DEF ExecuteBegin, targetVars, journalVars
<1>14. ASSUME NEW a \in Approvals, NEW n \in SequenceNumbers, NEW f \in FenceEpochs,
              NEW t \in 0..MaxTime, ReconcilePlan(a, n, f, t)
       PROVE  journal' = journal /\ dispatches' = dispatches
  BY <1>14 DEF ReconcilePlan, targetVars, journalVars
<1>15. ASSUME NEW f \in FenceEpochs, NEW t \in 0..MaxTime, Reconcile(f, t)
       PROVE  journal' = journal /\ dispatches' = dispatches
  BY <1>15 DEF Reconcile, targetVars, journalVars
<1>16. ASSUME \/ PreObservation \/ PreObservationFails \/ DispatchRefused \/ HardwareSucceeds
              \/ ReconciliationRefused \/ newGuard \/ Tick
       PROVE  journal' = journal /\ dispatches' = dispatches
  BY <1>16 DEF PreObservation, PreObservationFails, DispatchRefused, HardwareSucceeds,
               ReconciliationRefused, newGuard, Tick, targetVars, journalVars
<1> QED
  BY <1>1, <1>3, <1>4, <1>5, <1>6, <1>7, <1>8, <1>9, <1>10, <1>11, <1>12, <1>13, <1>14,
     <1>15, <1>16 DEF Next

\* The inductive invariant holds of the guard.
THEOREM Invariance == Spec => []IInv
BY InitEstablishes, NextPreserves, PTL DEF Spec

\* The variables keep their types: every record of the journal is a well-formed
\* attempt, and a call in flight has its plan.
THEOREM TypeCorrect == Spec => []TypeOK
<1>1. IInv => TypeOK
  BY DEF IInv
<1> QED
  BY <1>1, Invariance, PTL

\* An operation is handed to the hardware at most once for each key of the
\* journal (the execute-once journal of guard.go Execute).
THEOREM ExecutesOnce == Spec => []ExecuteOnce
<1>1. IInv => ExecuteOnce
  BY DEF IInv, JournalInv, ExecuteOnce
<1> QED
  BY <1>1, Invariance, PTL

\* What was handed to the hardware is in the journal, after its verified
\* predecessors (guard.go Execute: Put before hardware.Execute, ErrOutOfOrder).
THEOREM DispatchesAreJournaled == Spec => []DispatchIsJournaled
<1>1. IInv => DispatchIsJournaled
  <2> SUFFICES ASSUME IInv, NEW key \in Keys, dispatches[key] > 0
               PROVE  journal[key] # Nil /\ Earlier(key)
    BY DEF DispatchIsJournaled, Earlier
  <2>1. journal[key] = Nil => dispatches[key] = 0
    BY DEF IInv, JournalInv
  <2> QED
    BY <2>1 DEF IInv, JournalInv
<1> QED
  BY <1>1, Invariance, PTL

\* The lease outlives the deadline of what the hardware is doing, with its
\* safety margin (LeaseCoversOperation).
THEOREM LeasesOutliveExecutions == Spec => []LeaseOutlivesExecution
<1>1. IInv => LeaseOutlivesExecution
  <2> SUFFICES ASSUME IInv, pc = "executing", now < call.deadline
               PROVE  now + LeaseSafetyMargin < call.claimExpiresAt
    BY DEF LeaseOutlivesExecution
  <2>1. call.deadline + LeaseSafetyMargin <= call.claimExpiresAt
    BY DEF IInv, ExecuteInv, After
  <2>2. now \in Nat /\ call.deadline \in Nat /\ call.claimExpiresAt \in Nat
    BY DEF IInv, TypeOK
  <2> QED
    BY <2>1, <2>2, GuardBounds
<1> QED
  BY <1>1, Invariance, PTL

\* What the journal concludes is true of the target (reconcileLocked,
\* finishObserved).
THEOREM VerdictsStayTrue == Spec => []VerdictsAreTrue
<1>1. IInv => VerdictsAreTrue
  BY DEF IInv, VerdictInv, Truthful, VerdictsAreTrue
<1> QED
  BY <1>1, Invariance, PTL

\* A commit is never handed to a target that has its key, whatever plans
\* there are for it (ErrPrestateMismatch).
THEOREM CommitsFindFreshTargets == Spec => CommittedTargetIsLeftAlone
<1>1. IInv /\ [Next]_vars => [CommitsAreFresh]_vars
  BY StepIsGuarded
<1> QED
  BY <1>1, Invariance, PTL DEF Spec, CommittedTargetIsLeftAlone

\* The journal never takes a verdict or a result back (validAttemptTransition).
THEOREM RecordsStayFinal == Spec => RecordsAreFinal
<1>1. IInv /\ [Next]_vars => [RecordsStand]_vars
  BY StepIsGuarded
<1> QED
  BY <1>1, Invariance, PTL DEF Spec, RecordsAreFinal

\* A guard that reconciles never executes (ReconcilePlan).
THEOREM ReconcilingGuardStaysDisarmed == Spec => ReconcilingGuardIsDisarmed
<1>1. IInv /\ [Next]_vars => [reconciliationOnly => dispatches' = dispatches]_vars
  BY StepIsGuarded
<1> QED
  BY <1>1, Invariance, PTL DEF Spec, ReconcilingGuardIsDisarmed

-----------------------------------------------------------------------------
(***************************************************************************)
(* The lane guard implements one-time operations (OneTimeOperations).      *)
(***************************************************************************)

\* The step changes no record but this one, and a new record is a started one.
OneRecord(key) ==
    /\ \A k \in Keys : k # key => journal'[k] = journal[k]
    /\ journal[key] = Nil /\ journal'[key] # Nil => journal'[key].status = "started"

\* A save is such a step.
LEMMA PutIsOneRecord ==
    ASSUME TypeOK, NEW key \in Keys, NEW attempt, Put(key, attempt)
    PROVE  OneRecord(key)
<1>1. CASE Saved(key, attempt)
  BY <1>1 DEF Saved, OneRecord, TypeOK, Acceptable
<1>2. CASE SaveFailed(key, attempt)
  BY <1>2 DEF SaveFailed, OneRecord, TypeOK, Acceptable
<1>3. CASE Refused(key, attempt)
  BY <1>3 DEF Refused, OneRecord
<1> QED
  BY <1>1, <1>2, <1>3 DEF Put

\* A guard that was never started has promised nothing.
LEMMA RefinesInit == Init => OneTime!Init
BY DEF Init, OneTime!Init, Conclusion

\* What is concluded is a function of the record.
LEMMA ConclusionCases ==
    ASSUME NEW key \in Keys
    PROVE  /\ journal[key] = Nil => Conclusion(key) = "none"
           /\ journal[key] # Nil /\ journal[key].status \in OneTime!Conclusions =>
                 Conclusion(key) = journal[key].status
           /\ journal[key] # Nil /\ journal[key].status \notin OneTime!Conclusions =>
                 Conclusion(key) = "open"
           /\ journal'[key] = Nil => Conclusion(key)' = "none"
           /\ journal'[key] # Nil /\ journal'[key].status \in OneTime!Conclusions =>
                 Conclusion(key)' = journal'[key].status
           /\ journal'[key] # Nil /\ journal'[key].status \notin OneTime!Conclusions =>
                 Conclusion(key)' = "open"
           /\ journal'[key] = journal[key] => Conclusion(key)' = Conclusion(key)
BY DEF Conclusion, OneTime!Conclusions

\* The record function after a step that changes one record.
LEMMA RecordReplaced ==
    ASSUME NEW key \in Keys, OneRecord(key)
    PROVE  [k \in Keys |-> Conclusion(k)]' =
               [[k \in Keys |-> Conclusion(k)] EXCEPT ![key] = Conclusion(key)']
<1>1. \A k \in Keys : k # key => Conclusion(k)' = Conclusion(k)
  BY ConclusionCases DEF OneRecord
<1> QED
  BY <1>1

\* A save is an intent, a conclusion, or nothing that the promise is about.
LEMMA SaveRefines ==
    ASSUME IInv, IInv', RecordsStand, NEW key \in Keys, OneRecord(key),
           UNCHANGED targetVars
    PROVE  OneTime!Next \/ UNCHANGED OneTime!vars
<1> DEFINE Recorded == [k \in Keys |-> Conclusion(k)]
<1>1. Recorded' = [Recorded EXCEPT ![key] = Conclusion(key)']
  BY RecordReplaced
<1>2. dispatches' = dispatches /\ effect' = effect
  BY DEF targetVars
<1>3. CASE Conclusion(key)' = Conclusion(key)
  <2>1. Recorded' = Recorded
    BY <1>1, <1>3
  <2> QED
    BY <1>2, <2>1 DEF OneTime!vars
<1>4. CASE journal[key] = Nil /\ Conclusion(key)' # Conclusion(key)
  <2>1. journal'[key] # Nil /\ journal'[key].status = "started"
    BY <1>4, ConclusionCases DEF OneRecord
  <2>2. Conclusion(key) = "none" /\ Conclusion(key)' = "open"
    BY <1>4, <2>1, ConclusionCases DEF OneTime!Conclusions
  <2>3. ASSUME NEW m \in 1..(key[3] - 1)
        PROVE  Recorded[<<key[1], key[2], m>>] = "verified"
    <3>1. <<key[1], key[2], m>> \in Keys /\ key[3] \in Nat
      BY EarlierKey DEF SequenceNumbers
    <3>2. Earlier(key)'
      BY <2>1 DEF IInv, JournalInv
    <3>3. /\ journal'[<<key[1], key[2], m>>] # Nil
          /\ journal'[<<key[1], key[2], m>>].status = "verified"
      BY <3>2 DEF Earlier
    <3>4. <<key[1], key[2], m>> # key
      BY <2>3, <3>1
    <3>5. journal'[<<key[1], key[2], m>>] = journal[<<key[1], key[2], m>>]
      BY <3>1, <3>4 DEF OneRecord
    <3> QED
      BY <3>1, <3>3, <3>5, ConclusionCases DEF OneTime!Conclusions
  <2>4. OneTime!Intend(key)
    BY <1>1, <1>2, <2>2, <2>3 DEF OneTime!Intend
  <2> QED
    BY <2>4 DEF OneTime!Next
<1>5. CASE journal[key] # Nil /\ Conclusion(key)' # Conclusion(key)
  <2>1. journal[key].status \notin OneTime!Conclusions /\ journal'[key] # Nil
    BY <1>5, ConclusionCases DEF RecordsStand, OneTime!Conclusions
  <2>2. Conclusion(key) = "open"
    BY <1>5, <2>1, ConclusionCases
  <2>3. journal'[key].status \in OneTime!Conclusions
    BY <1>5, <2>1, <2>2, ConclusionCases
  <2>4. Conclusion(key)' = journal'[key].status
    BY <2>1, <2>3, ConclusionCases
  <2>5. /\ Truthful(key, journal[key])'
        /\ journal'[key].status = "verified" /\ IsCommit(key[3]) =>
              journal'[key].result = "attested"
    BY <2>1 DEF IInv, VerdictInv
  <2>6. /\ journal'[key].status = "confirmed_not_applied" => effect[key] = {}
        /\ journal'[key].status = "verified" /\ IsCommit(key[3]) =>
              dispatches[key] = 1 /\ "security" \in effect[key]
    BY <1>2, <2>5 DEF Truthful
  <2>7. OneTime!Conclude(key, journal'[key].status)
    BY <1>1, <1>2, <2>2, <2>4, <2>6 DEF OneTime!Conclude
  <2> QED
    BY <2>3, <2>7 DEF OneTime!Next
<1> QED
  BY <1>3, <1>4, <1>5

\* The dispatch is the execution of an open intent.
LEMMA DispatchRefines ==
    ASSUME IInv, HardwareExecute
    PROVE  OneTime!Next
<1>1. plan # Nil /\ Key \in Keys
  BY KeyType DEF IInv, TypeOK, HardwareExecute
<1>2. journal[Key] # Nil /\ journal[Key].status = "started" /\ dispatches[Key] = 0
  BY DEF IInv, ExecuteInv, After, HardwareExecute
<1>3. Conclusion(Key) = "open"
  BY <1>1, <1>2, ConclusionCases DEF OneTime!Conclusions
<1>4. dispatches' = [dispatches EXCEPT ![Key] = 1]
  BY <1>1, <1>2 DEF HardwareExecute, IInv, TypeOK
<1>5. \E changed \in SUBSET Fields : effect' = [effect EXCEPT ![Key] = changed]
  BY DEF HardwareExecute, Changed, Fields
<1>6. [k \in Keys |-> Conclusion(k)]' = [k \in Keys |-> Conclusion(k)]
  BY DEF HardwareExecute, journalVars, Conclusion
<1>7. OneTime!Execute(Key)
  BY <1>1, <1>2, <1>3, <1>4, <1>5, <1>6 DEF OneTime!Execute
<1> QED
  BY <1>1, <1>7 DEF OneTime!Next

\* Every other step of the guard is a save or leaves journal and target alone.
LEMMA StepKinds ==
    ASSUME IInv, Next
    PROVE  \/ HardwareExecute
           \/ UNCHANGED targetVars /\ \E key \in Keys : OneRecord(key)
           \/ UNCHANGED <<journal, targetVars>>
<1>1. ASSUME NEW attempt, pc # "idle", Put(Key, attempt)
      PROVE  \E key \in Keys : OneRecord(key)
  BY <1>1, KeyType, PutIsOneRecord DEF IInv, TypeOK
<1>2. CASE RecordStarted
  <2>1. Put(Key, StartedAttempt) /\ pc # "idle" /\ UNCHANGED targetVars
    BY <1>2 DEF RecordStarted, Put
  <2> QED
    BY <1>1, <2>1
<1>3. CASE HardwareFails \/ HardwareReturnsLate \/ HardwareEvidenceIsInvalid
  <2>1. pc # "idle" /\ UNCHANGED targetVars /\ \E attempt : Put(Key, attempt)
    BY <1>3 DEF HardwareFails, HardwareReturnsLate, HardwareEvidenceIsInvalid
  <2> QED
    BY <1>1, <2>1
<1>4. CASE PostObservation \/ PostObservationFails
  <2>1. pc # "idle" /\ UNCHANGED targetVars /\ \E attempt : Put(Key, attempt)
    BY <1>4 DEF PostObservation, PostObservationFails
  <2> QED
    BY <1>1, <2>1
<1>5. CASE ReconciliationObserves \/ ReconciliationFails
  <2>1. pc # "idle" /\ UNCHANGED targetVars /\ \E attempt : Put(Key, attempt)
    BY <1>5 DEF ReconciliationObserves, ReconciliationFails
  <2> QED
    BY <1>1, <2>1
<1>6. ASSUME NEW a \in Approvals, NEW n \in SequenceNumbers, LoadPlan(a, n)
      PROVE  UNCHANGED <<journal, targetVars>>
  BY <1>6 DEF LoadPlan, targetVars, journalVars
<1>7. ASSUME NEW t \in 0..MaxTime, ExecuteBegin(t)
      PROVE  UNCHANGED <<journal, targetVars>>
  BY <1>7 DEF ExecuteBegin, targetVars, journalVars
<1>8. ASSUME NEW a \in Approvals, NEW n \in SequenceNumbers, NEW f \in FenceEpochs,
             NEW t \in 0..MaxTime, ReconcilePlan(a, n, f, t)
      PROVE  UNCHANGED <<journal, targetVars>>
  BY <1>8 DEF ReconcilePlan, targetVars, journalVars
<1>9. ASSUME NEW f \in FenceEpochs, NEW t \in 0..MaxTime, Reconcile(f, t)
      PROVE  UNCHANGED <<journal, targetVars>>
  BY <1>9 DEF Reconcile, targetVars, journalVars
<1>10. ASSUME \/ PreObservation \/ PreObservationFails \/ DispatchRefused \/ HardwareSucceeds
              \/ ReconciliationRefused \/ newGuard \/ Tick
       PROVE  UNCHANGED <<journal, targetVars>>
  BY <1>10 DEF PreObservation, PreObservationFails, DispatchRefused, HardwareSucceeds,
               ReconciliationRefused, newGuard, Tick, targetVars, journalVars
<1> QED
  BY <1>2, <1>3, <1>4, <1>5, <1>6, <1>7, <1>8, <1>9, <1>10 DEF Next

\* Every step of the guard is a step of the promise, or none.
LEMMA RefinesNext ==
    ASSUME IInv, IInv', [Next]_vars
    PROVE  [OneTime!Next]_OneTime!vars
<1>1. CASE UNCHANGED <<journal, targetVars>>
  BY <1>1 DEF OneTime!vars, targetVars, Conclusion
<1>2. CASE UNCHANGED vars
  BY <1>1, <1>2 DEF vars, targetVars
<1>3. CASE HardwareExecute
  BY <1>3, DispatchRefines
<1>4. CASE Next /\ UNCHANGED targetVars /\ \E key \in Keys : OneRecord(key)
  BY <1>4, StepIsGuarded, SaveRefines
<1> QED
  BY <1>1, <1>2, <1>3, <1>4, StepKinds

\* The guard implements one-time operations: its calls, plans, restarts and
\* failing saves are steps of the promise that Execute and Reconcile make, or
\* are invisible in it (guard.go Execute, reconcileLocked, store.go Put).
THEOREM GuardImplementsOneTimeOperations == Spec => ImplementsOneTimeOperations
<1>1. IInv /\ IInv' /\ [Next]_vars => [OneTime!Next]_OneTime!vars
  BY RefinesNext
<1> QED
  BY <1>1, RefinesInit, Invariance, PTL DEF Spec, ImplementsOneTimeOperations, OneTime!Spec
=============================================================================
