------------------------- MODULE ControlPlaneProofs -------------------------
(***************************************************************************)
(* Proofs about ControlPlane, for every number of transactions, lanes and  *)
(* plans, every campaign length and every bound.                           *)
(*                                                                         *)
(* A commit puts the candidate in the memory, in the store, in both or in  *)
(* neither.  So the invariant is stated of one persisted state, and proved *)
(* of the memory and of the store together: what has to be shown of a      *)
(* handler is that the candidate it builds from a good state is good.      *)
(*                                                                         *)
(* A failing save may leave the store one request ahead of the memory, and *)
(* a restart then takes that request over.  So the invariant also says     *)
(* that the store follows from the memory by what one request may do; the  *)
(* action properties speak of a restart through that part.                 *)
(***************************************************************************)
EXTENDS ControlPlane, FiniteSetTheorems, TLAPS

(***************************************************************************)
(* The inductive invariant.  InOrder, Agrees, Fresh and Finished are the   *)
(* parts of the properties; Bound is what they need to be inductive.       *)
(***************************************************************************)
Bound(tx) ==
    /\ tx.operations # <<>> => tx.target # Nil
    /\ (tx.status = "reconciled" /\ tx.activeClaim # Nil) =>
          tx.activeClaim.mode = "reconciliation"
    /\ tx.approval # Nil =>
          \A i \in DOMAIN tx.operations :
             SamePlanBindings(tx.operations[i].approval, tx.approval)

TxInv(tx) ==
    /\ InOrder(tx)
    /\ Agrees(tx)
    /\ Fresh(tx)
    /\ Finished(tx)
    /\ Bound(tx)

GoodState(s) ==
    /\ s \in PersistedState
    /\ \A t \in Transactions :
          s.transactions[t] # Nil => TxInv(s.transactions[t])

(***************************************************************************)
(* What holds between the transactions of one persisted state at a time.   *)
(***************************************************************************)

\* An asset is reserved by one transaction, and an asset that no transaction
\* has reserved was never fenced.
Reserved(s) ==
    /\ \A t, u \in Transactions :
          (t # u /\ s.transactions[t] # Nil /\ s.transactions[u] # Nil) =>
              s.transactions[t].asset # s.transactions[u].asset
    /\ \A a \in Assets :
          (\A t \in Transactions :
              s.transactions[t] # Nil => s.transactions[t].asset # a) =>
                  s.fenceEpochs[a] = 0

\* A transaction and its claim carry the newest fence epoch of the asset.
CurrentFence(tx, fenceEpochs) ==
    /\ tx.fenceEpoch = fenceEpochs[tx.asset]
    /\ tx.activeClaim # Nil => tx.activeClaim.fenceEpoch = tx.fenceEpoch

Fenced(s) ==
    \A t \in Transactions :
        s.transactions[t] # Nil => CurrentFence(s.transactions[t], s.fenceEpochs)

LiveAt(tx, time) ==
    tx # Nil /\ tx.activeClaim # Nil /\ tx.activeClaim.expiresAt > time

LanesHeld(s, time) ==
    \A t, u \in Transactions :
        (t # u /\ LiveAt(s.transactions[t], time) /\ LiveAt(s.transactions[u], time)) =>
            s.transactions[t].activeClaim.lane # s.transactions[u].activeClaim.lane

\* An approval expires at most one approval lifetime after the present.
Timely(tx, time) ==
    tx.approval # Nil => tx.approval.expiresAt <= time + MaxApprovalLifetime

World(s, time) ==
    /\ Reserved(s)
    /\ Fenced(s)
    /\ LanesHeld(s, time)
    /\ \A t \in Transactions :
          s.transactions[t] # Nil => Timely(s.transactions[t], time)

(***************************************************************************)
(* What one request may do to a transaction that exists.                   *)
(***************************************************************************)
KeepsStatus(old, new) == old.status \in Terminal => new.status = old.status

KeepsHistory(old, new) ==
    /\ Len(new.operations) >= Len(old.operations)
    /\ \A i \in DOMAIN old.operations :
          /\ old.operations[i].status \notin Unresolved =>
                new.operations[i] = old.operations[i]
          /\ new.operations[i].approval = old.operations[i].approval
    /\ Len(new.operations) > Len(old.operations) =>
          /\ old.status = "commit_approved"
          /\ new.operations[Len(new.operations)].approval.fenceEpoch
                = old.fenceEpoch

KeepsFence(old, new) ==
    /\ new.fenceEpoch >= old.fenceEpoch
    /\ (new.activeClaim # Nil /\ new.fenceEpoch = old.fenceEpoch) =>
          /\ old.activeClaim # Nil
          /\ new.activeClaim.lane = old.activeClaim.lane
          /\ new.activeClaim.mode = old.activeClaim.mode

Advances(old, new) ==
    /\ new # Nil
    /\ KeepsStatus(old, new)
    /\ KeepsHistory(old, new)
    /\ KeepsFence(old, new)

Follows(s, c) ==
    \A t \in Transactions :
        s.transactions[t] # Nil => Advances(s.transactions[t], c.transactions[t])

\* Every reconciliation carries its output digest.
OutputsGiven == ReconciliationOutputs \subseteq {TRUE}

\* The candidate of a request, before it is validated and saved.
Candidate(c) ==
    /\ GoodState(c)
    /\ World(c, now)
    /\ Follows(state, c)
    /\ OutputsGiven => validatePersistedState(c)

IInv ==
    /\ GoodState(state) /\ GoodState(store)
    /\ World(state, now) /\ World(store, now)
    /\ validatePersistedState(state) /\ validatePersistedState(store)
    /\ Follows(state, store)
    /\ now \in Nat
    /\ saveFailures \in Nat
    /\ corruptReply \in BOOLEAN
    /\ OutputsGiven => ~corruptReply

-----------------------------------------------------------------------------
(***************************************************************************)
(* Lemmas about the operators.                                             *)
(***************************************************************************)

\* The count that RecordIntent and the campaign check compute is the length of
\* a history in which every operation is completed.
LEMMA CompletedCount ==
    ASSUME NEW ops \in Seq(OperationRecord), AllCompleted(ops)
    PROVE  completedApprovedOperations(ops) = Len(ops)
<1>1. {i \in DOMAIN ops : ops[i].status \in Completed} = 1 .. Len(ops)
  BY DEF AllCompleted
<1>2. Len(ops) \in Nat /\ Cardinality(1 .. Len(ops)) = Len(ops)
  <2>1. Len(ops) \in Nat
    OBVIOUS
  <2>2. 1 \in Int /\ Len(ops) \in Int
    BY <2>1
  <2>3. Cardinality(1 .. Len(ops)) = IF 1 > Len(ops) THEN 0 ELSE Len(ops) - 1 + 1
    BY <2>2, FS_Interval, Zenon
  <2> QED
    BY <2>1, <2>3
<1> QED
  BY <1>1, <1>2 DEF completedApprovedOperations

\* A commit installs the candidate or keeps what was there, in memory and in
\* the store.
LEMMA CommitInstalls ==
    ASSUME NEW c, commitLocked(c)
    PROVE  /\ state' \in {state, c}
           /\ store' \in {store, c}
           /\ now' = now
BY DEF commitLocked, Save

\* A state follows from itself.
LEMMA FollowsItself ==
    ASSUME NEW s, GoodState(s)
    PROVE  Follows(s, s)
<1> SUFFICES ASSUME NEW t \in Transactions, s.transactions[t] # Nil
             PROVE  Advances(s.transactions[t], s.transactions[t])
  BY DEF Follows
<1>1. s.transactions[t] \in Transaction
  BY DEF GoodState, PersistedState
<1> QED
  BY <1>1, NilAssumption
     DEF Advances, KeepsStatus, KeepsHistory, KeepsFence, Transaction

\* So a commit of a candidate preserves the invariant, and the memory follows
\* from what it was.
LEMMA CommitPreserves ==
    ASSUME IInv, NEW c, Candidate(c), commitLocked(c)
    PROVE  IInv' /\ Follows(state, state')
<1>1. /\ GoodState(state') /\ GoodState(store')
      /\ World(state', now) /\ World(store', now)
      /\ now' = now
  BY CommitInstalls DEF IInv, Candidate
<1>2. /\ validatePersistedState(state') /\ validatePersistedState(store')
      /\ Follows(state', store') /\ Follows(state, state')
  <2>1. CASE validatePersistedState(c)
    <3>1. /\ Follows(state, state) /\ Follows(c, c)
      BY FollowsItself DEF IInv, Candidate
    <3>2. \/ state' = c /\ store' = c
          \/ state' = state /\ store' \in {store, c}
      BY <2>1 DEF commitLocked, Save
    <3> QED
      BY <2>1, <3>1, <3>2 DEF IInv, Candidate
  <2>2. CASE ~validatePersistedState(c)
    <3>1. state' = state /\ store' = store
      BY <2>2 DEF commitLocked
    <3> QED
      BY <3>1, FollowsItself DEF IInv
  <2> QED
    BY <2>1, <2>2
<1>3. saveFailures' \in Nat
  BY DEF commitLocked, Save, IInv
<1>4. corruptReply' \in BOOLEAN /\ (OutputsGiven => ~corruptReply')
  BY Zenon DEF commitLocked, IInv, Candidate
<1> QED
  BY <1>1, <1>2, <1>3, <1>4 DEF IInv

\* Replacing one transaction by a good one keeps a state good.
LEMMA UpdateIsGood ==
    ASSUME IInv, NEW t \in Transactions, NEW tx \in Transaction, TxInv(tx)
    PROVE  GoodState([state EXCEPT !.transactions[t] = tx])
<1> DEFINE c == [state EXCEPT !.transactions[t] = tx]
<1>1. state \in PersistedState
  BY DEF IInv, GoodState
<1>2. c.transactions = [state.transactions EXCEPT ![t] = tx]
  BY <1>1 DEF PersistedState
<1>3. c \in PersistedState
  BY <1>1 DEF PersistedState
<1>4. \A u \in Transactions : c.transactions[u] # Nil => TxInv(c.transactions[u])
  <2> TAKE u \in Transactions
  <2>1. CASE u = t
    BY <2>1, <1>1, <1>2 DEF PersistedState
  <2>2. CASE u # t
    <3>1. c.transactions[u] = state.transactions[u]
      BY <2>2, <1>1, <1>2 DEF PersistedState
    <3> QED
      BY <3>1 DEF IInv, GoodState
  <2> QED
    BY <2>1, <2>2
<1> QED
  BY <1>3, <1>4 DEF GoodState

\* What a request that keeps the fence epoch may do to a transaction: the claim
\* stays or goes, and only a claim that is still live is prolonged.
Stays(old, new) ==
    /\ new.asset = old.asset
    /\ new.fenceEpoch = old.fenceEpoch
    /\ new.activeClaim # Nil =>
          /\ old.activeClaim # Nil
          /\ new.activeClaim.lane = old.activeClaim.lane
          /\ new.activeClaim.fenceEpoch = old.activeClaim.fenceEpoch
          /\ new.activeClaim.expiresAt > now => old.activeClaim.expiresAt > now
    /\ Timely(new, now)

\* The result of a handler for one transaction.
Result(old, new) ==
    /\ new \in Transaction
    /\ TxInv(new)
    /\ Advances(old, new)
    /\ Stays(old, new)
    /\ OutputsGiven => validateTransaction(new, state.fenceEpochs)

\* Such a result is the candidate of its request.
LEMMA UpdateIsCandidate ==
    ASSUME IInv, NEW t \in Transactions, Exists(t), NEW new,
           Result(state.transactions[t], new)
    PROVE  Candidate([state EXCEPT !.transactions[t] = new])
<1> DEFINE c  == [state EXCEPT !.transactions[t] = new]
           tx == state.transactions[t]
<1>1. state \in PersistedState
  BY DEF IInv, GoodState
<1>2. /\ c.transactions[t] = new
      /\ \A u \in Transactions : u # t => c.transactions[u] = state.transactions[u]
      /\ c.fenceEpochs = state.fenceEpochs
  BY <1>1 DEF PersistedState
<1>3. new \in Transaction /\ new # Nil /\ tx \in Transaction /\ tx # Nil
  BY <1>1, NilAssumption DEF Result, PersistedState, Exists
<1>4. GoodState(c)
  BY UpdateIsGood DEF Result
<1>5. World(state, now) /\ Stays(tx, new)
  BY DEF IInv, Result
<1>6. Follows(state, c)
  <2> SUFFICES ASSUME NEW u \in Transactions, state.transactions[u] # Nil
               PROVE  Advances(state.transactions[u], c.transactions[u])
    BY DEF Follows
  <2>1. Follows(state, state)
    BY FollowsItself DEF IInv
  <2> HIDE DEF c
  <2> QED
    BY <1>2, <2>1 DEF Result, Follows
<1>7. OutputsGiven => validatePersistedState(c)
  <2> HIDE DEF c
  <2> QED
    BY <1>2 DEF IInv, Result, validatePersistedState
<1> HIDE DEF c, tx
<1>8. Reserved(c)
  <2>1. \A u \in Transactions :
           /\ c.transactions[u] # Nil <=> state.transactions[u] # Nil
           /\ c.transactions[u] # Nil =>
                 c.transactions[u].asset = state.transactions[u].asset
    BY <1>2, <1>3, <1>5 DEF Stays, tx
  <2> QED
    BY <1>2, <1>5, <2>1 DEF World, Reserved
<1>9. Fenced(c)
  BY <1>2, <1>3, <1>5 DEF World, Fenced, CurrentFence, Stays, tx
<1>10. LanesHeld(c, now)
  <2>1. \A u \in Transactions : LiveAt(c.transactions[u], now) =>
           /\ LiveAt(state.transactions[u], now)
           /\ c.transactions[u].activeClaim.lane
                 = state.transactions[u].activeClaim.lane
    BY <1>2, <1>3, <1>5 DEF LiveAt, Stays, tx
  <2> QED
    BY <1>5, <2>1 DEF World, LanesHeld
<1>11. \A u \in Transactions : c.transactions[u] # Nil => Timely(c.transactions[u], now)
  BY <1>2, <1>5 DEF World, Stays
<1>12. Candidate(c)
  BY <1>4, <1>6, <1>7, <1>8, <1>9, <1>10, <1>11 DEF Candidate, World
<1> QED
  BY <1>12 DEF c

\* A handler that stores such a result preserves the invariant.
LEMMA MutatePreserves ==
    ASSUME IInv, NEW t \in Transactions, Exists(t), NEW new,
           Result(state.transactions[t], new), mutate(t, new)
    PROVE  IInv' /\ Follows(state, state')
BY UpdateIsCandidate, CommitPreserves DEF mutate

\* An existing transaction of a good state is typed, satisfies its invariant and
\* the validator, and carries the newest fence epoch of its asset.
LEMMA ExistingIsGood ==
    ASSUME IInv, NEW t \in Transactions, Exists(t)
    PROVE  /\ state.transactions[t] \in Transaction
           /\ TxInv(state.transactions[t])
           /\ validateTransaction(state.transactions[t], state.fenceEpochs)
           /\ CurrentFence(state.transactions[t], state.fenceEpochs)
           /\ Timely(state.transactions[t], now)
BY DEF IInv, GoodState, PersistedState, Exists, World, Fenced, validatePersistedState

\* The recorded operations stay valid when the target keeps its fingerprint and
\* no claim is forgotten.
LEMMA OperationsStayValid ==
    ASSUME NEW tx \in Transaction, NEW new \in Transaction, NEW fenceEpochs,
           validateTransaction(tx, fenceEpochs),
           new.fenceEpoch >= tx.fenceEpoch,
           tx.operations # <<>> => /\ new.target # Nil
                                   /\ new.target.fingerprint = tx.target.fingerprint,
           \A lane \in Lanes, e \in Nat :
              claimIdentityExists(tx, lane, e) => claimIdentityExists(new, lane, e)
    PROVE  \A i \in DOMAIN tx.operations : validateStoredOperation(tx.operations[i], new)
<1> TAKE i \in DOMAIN tx.operations
<1> DEFINE op == tx.operations[i]
<1>1. op \in OperationRecord /\ tx.operations # <<>>
  BY DEF Transaction
<1>2. /\ op.approval.fenceEpoch \in Nat /\ op.approval.lane \in Lanes
  BY <1>1 DEF OperationRecord, Approval
<1>3. validateStoredOperation(op, tx)
  BY DEF validateTransaction
<1>4. tx.fenceEpoch \in Nat /\ new.fenceEpoch \in Nat
  BY DEF Transaction
<1> HIDE DEF op
<1> QED
  BY <1>1, <1>2, <1>3, <1>4 DEF validateStoredOperation, validateStoredApproval, op

\* A request that leaves the terminal records alone, and the status or what is
\* not terminal of it, leaves records that match.
LEMMA RecordsUntouched ==
    ASSUME NEW tx, NEW new, NEW fenceEpochs, validateTransaction(tx, fenceEpochs),
           new.records = tx.records,
           \/ new.status = tx.status
           \/ tx.status \notin Terminal /\ new.status \notin Terminal
    PROVE  TerminalRecordsMatch(new)
BY DEF validateTransaction, TerminalRecordsMatch

\* A request that enters or repeats a terminal status and sets its record leaves
\* records that match.
LEMMA RecordEntered ==
    ASSUME NEW tx, NEW new, NEW fenceEpochs, validateTransaction(tx, fenceEpochs),
           NEW s \in Terminal, new.status = s, new.records = tx.records \cup {s},
           tx.status \notin Terminal \ {s}
    PROVE  TerminalRecordsMatch(new)
BY DEF validateTransaction, TerminalRecordsMatch

\* A request that leaves the history, the target, the closed claims and the
\* stages of the claim alone leaves a valid transaction valid, if its approval
\* is the old one or none, it is not reported as applied without its campaign,
\* and its terminal records match its status.
LEMMA ValidityKept ==
    ASSUME NEW tx \in Transaction, NEW new \in Transaction, NEW fenceEpochs,
           validateTransaction(tx, fenceEpochs),
           new.asset = tx.asset, new.fenceEpoch = tx.fenceEpoch,
           new.claimHistory = tx.claimHistory, new.target = tx.target,
           new.operations = tx.operations, new.approval \in {tx.approval, Nil},
           new.activeClaim = tx.activeClaim,
           new.status = "security_applied" =>
              /\ new.approval # Nil
              /\ validateCompletedDevelopmentCampaign(new.operations, new.approval),
           TerminalRecordsMatch(new)
    PROVE  validateTransaction(new, fenceEpochs)
<1>1. \A i \in DOMAIN tx.operations : validateStoredOperation(tx.operations[i], new)
  BY DEF validateTransaction, validateStoredOperation, validateStoredApproval,
         claimIdentityExists
<1> QED
  BY <1>1 DEF validateTransaction, validateClaim, validateStoredApproval


\* A request that leaves the history, the fence and the claim alone advances the
\* transaction.
LEMMA HistoryUntouched ==
    ASSUME NEW tx \in Transaction, NEW new \in Transaction,
           new.operations = tx.operations, new.asset = tx.asset,
           new.fenceEpoch = tx.fenceEpoch, new.activeClaim = tx.activeClaim,
           KeepsStatus(tx, new), Timely(new, now)
    PROVE  Advances(tx, new) /\ Stays(tx, new)
BY NilAssumption DEF Advances, Stays, KeepsHistory, KeepsFence, Transaction

-----------------------------------------------------------------------------
(***************************************************************************)
(* One lemma per action.                                                   *)
(***************************************************************************)
LEMMA BindTargetPreserves ==
    ASSUME IInv, NEW t \in Transactions, NEW epoch \in Epochs,
           NEW fingerprint \in Targets, NEW unowned \in BOOLEAN,
           BindTarget(t, epoch, fingerprint, unowned)
    PROVE  IInv' /\ Follows(state, state')
<1> DEFINE tx  == state.transactions[t]
           new == [tx EXCEPT !.target = [fingerprint |-> fingerprint,
                                         fenceEpoch |-> epoch],
                             !.approval = Nil,
                             !.status = "target_bound"]
<1>1. /\ tx \in Transaction /\ TxInv(tx)
      /\ validateTransaction(tx, state.fenceEpochs) /\ Timely(tx, now)
  BY ExistingIsGood DEF BindTarget
<1>2. new \in Transaction
  <2>1. [fingerprint |-> fingerprint, fenceEpoch |-> epoch] \in TargetBinding
    BY BoundsAssumption DEF TargetBinding, Epochs
  <2> QED
    BY <1>1, <2>1 DEF Transaction, TransactionStatus
<1>3. /\ new.operations = tx.operations /\ new.activeClaim = tx.activeClaim
      /\ new.status = "target_bound" /\ new.approval = Nil
      /\ new.target = [fingerprint |-> fingerprint, fenceEpoch |-> epoch]
      /\ new.asset = tx.asset /\ new.fenceEpoch = tx.fenceEpoch
      /\ new.claimHistory = tx.claimHistory /\ new.records = tx.records
  BY <1>1 DEF Transaction
<1>4. TxInv(new)
  <2> HIDE DEF new
  <2>1. new.target # Nil
    BY <1>3, NilAssumption DEF TargetBinding, Epochs
  <2>2. AllCompleted(tx.operations)
    BY <1>1 DEF BindTarget, TxInv, Agrees, Bound, requireCurrentClaim, AllCompleted
  <2> QED
    BY <1>1, <1>3, <2>1, <2>2
       DEF TxInv, InOrder, Agrees, Fresh, Finished, Bound
<1>5. mutate(t, new)
  BY DEF BindTarget
<1>6. Advances(tx, new) /\ Stays(tx, new)
  <2>1. tx.status \notin Terminal
    BY DEF BindTarget, Terminal
  <2> HIDE DEF new
  <2> QED
    BY <1>1, <1>2, <1>3, <2>1, HistoryUntouched DEF KeepsStatus, Timely
<1>7. validateTransaction(new, state.fenceEpochs)
  <2>1. /\ tx.target # Nil => tx.target.fingerprint = fingerprint
        /\ tx.activeClaim # Nil /\ tx.fenceEpoch = epoch
    BY DEF BindTarget, requireCurrentClaim
  <2>2. epoch \in 1 .. tx.fenceEpoch
    BY <2>1, BoundsAssumption DEF Epochs
  <2>3. new.target # Nil
    BY <1>3, NilAssumption DEF TargetBinding, Epochs
  <2> HIDE DEF new
  <2>4. \A i \in DOMAIN tx.operations : validateStoredOperation(tx.operations[i], new)
    <3>1. tx.operations # <<>> => tx.target # Nil
      BY <1>1 DEF TxInv, Bound
    <3>2. new.fenceEpoch >= tx.fenceEpoch
      BY <1>1, <1>3 DEF Transaction
    <3> QED
      BY <1>1, <1>2, <1>3, <2>1, <2>3, <3>1, <3>2, OperationsStayValid
         DEF claimIdentityExists
  <2>5. TerminalRecordsMatch(new)
    <3>1. tx.status \notin Terminal /\ new.status \notin Terminal
      BY <1>3 DEF BindTarget, Terminal
    <3> QED
      BY <1>1, <1>3, <3>1, RecordsUntouched
  <2> QED
    BY <1>1, <1>3, <2>2, <2>4, <2>5 DEF validateTransaction, validateClaim
<1> QED
  BY <1>2, <1>4, <1>5, <1>6, <1>7, MutatePreserves DEF Result, BindTarget

\* Quarantining a transaction keeps the invariant.
LEMMA QuarantineDevicePreserves ==
    ASSUME IInv, NEW t \in Transactions, NEW epoch \in Epochs,
           QuarantineDevice(t, epoch)
    PROVE  IInv' /\ Follows(state, state')
<1> DEFINE tx  == state.transactions[t]
           new == [tx EXCEPT !.approval = Nil, !.status = "quarantined",
                             !.records = @ \cup {"quarantined"}]
<1>1. /\ tx \in Transaction /\ TxInv(tx)
      /\ validateTransaction(tx, state.fenceEpochs) /\ Timely(tx, now)
  BY ExistingIsGood DEF QuarantineDevice
<1>2. new \in Transaction
  BY <1>1 DEF Transaction, TransactionStatus, Terminal
<1>3. /\ new.operations = tx.operations /\ new.activeClaim = tx.activeClaim
      /\ new.target = tx.target /\ new.approval = Nil
      /\ new.status = "quarantined" /\ new.asset = tx.asset
      /\ new.fenceEpoch = tx.fenceEpoch /\ new.claimHistory = tx.claimHistory
      /\ new.records = tx.records \cup {"quarantined"}
  BY <1>1 DEF Transaction
<1>4. TxInv(new)
  <2> HIDE DEF new
  <2> QED
    BY <1>1, <1>3 DEF TxInv, InOrder, Agrees, Fresh, Finished, Bound
<1>5. mutate(t, new)
  BY DEF QuarantineDevice
<1>6. Advances(tx, new) /\ Stays(tx, new)
  <2>1. KeepsStatus(tx, new)
    BY <1>3 DEF QuarantineDevice, KeepsStatus, Terminal
  <2> HIDE DEF new
  <2> QED
    BY <1>1, <1>2, <1>3, <2>1, HistoryUntouched DEF Timely
<1>7. validateTransaction(new, state.fenceEpochs)
  <2>1. tx.status \notin Terminal \ {"quarantined"} /\ "quarantined" \in Terminal
    BY DEF QuarantineDevice, Terminal
  <2> HIDE DEF new
  <2>2. TerminalRecordsMatch(new)
    BY <1>1, <1>3, <2>1, RecordEntered
  <2> QED
    BY <1>1, <1>2, <1>3, <2>2, ValidityKept
<1> QED
  BY <1>2, <1>4, <1>5, <1>6, <1>7, MutatePreserves DEF Result, QuarantineDevice

\* Aborting a transaction keeps the invariant.
LEMMA AbortTransactionPreserves ==
    ASSUME IInv, NEW t \in Transactions, NEW epoch \in Epochs,
           AbortTransaction(t, epoch)
    PROVE  IInv' /\ Follows(state, state')
<1> DEFINE tx  == state.transactions[t]
           new == [tx EXCEPT !.approval = Nil, !.status = "aborted",
                             !.records = @ \cup {"aborted"}]
<1>1. /\ tx \in Transaction /\ TxInv(tx)
      /\ validateTransaction(tx, state.fenceEpochs) /\ Timely(tx, now)
  BY ExistingIsGood DEF AbortTransaction
<1>2. new \in Transaction
  BY <1>1 DEF Transaction, TransactionStatus, Terminal
<1>3. /\ new.operations = tx.operations /\ new.activeClaim = tx.activeClaim
      /\ new.target = tx.target /\ new.approval = Nil
      /\ new.status = "aborted" /\ new.asset = tx.asset
      /\ new.fenceEpoch = tx.fenceEpoch /\ new.claimHistory = tx.claimHistory
      /\ new.records = tx.records \cup {"aborted"}
  BY <1>1 DEF Transaction
<1>4. TxInv(new)
  <2> HIDE DEF new
  <2>1. tx.operations = <<>>
    BY DEF AbortTransaction
  <2> QED
    BY <1>1, <1>3, <2>1 DEF TxInv, InOrder, Agrees, Fresh, Finished, Bound
<1>5. mutate(t, new)
  BY DEF AbortTransaction
<1>6. Advances(tx, new) /\ Stays(tx, new)
  <2>1. KeepsStatus(tx, new)
    BY <1>3 DEF AbortTransaction, KeepsStatus, Terminal
  <2> HIDE DEF new
  <2> QED
    BY <1>1, <1>2, <1>3, <2>1, HistoryUntouched DEF Timely
<1>7. validateTransaction(new, state.fenceEpochs)
  <2>1. tx.status \notin Terminal \ {"aborted"} /\ "aborted" \in Terminal
    BY DEF AbortTransaction, Terminal
  <2> HIDE DEF new
  <2>2. TerminalRecordsMatch(new)
    BY <1>1, <1>3, <2>1, RecordEntered
  <2> QED
    BY <1>1, <1>2, <1>3, <2>2, ValidityKept
<1> QED
  BY <1>2, <1>4, <1>5, <1>6, <1>7, MutatePreserves DEF Result, AbortTransaction

\* A transaction is marked security_applied only after its whole campaign.
LEMMA MarkSecurityAppliedPreserves ==
    ASSUME IInv, NEW t \in Transactions, NEW epoch \in Epochs, NEW plan \in Plans,
           MarkSecurityApplied(t, epoch, plan)
    PROVE  IInv' /\ Follows(state, state')
<1> DEFINE tx  == state.transactions[t]
           new == [tx EXCEPT !.status = "security_applied",
                             !.records = @ \cup {"security_applied"}]
<1>1. /\ tx \in Transaction /\ TxInv(tx)
      /\ validateTransaction(tx, state.fenceEpochs) /\ Timely(tx, now)
  BY ExistingIsGood DEF MarkSecurityApplied
<1>2. new \in Transaction
  BY <1>1 DEF Transaction, TransactionStatus, Terminal
<1>3. /\ new.operations = tx.operations /\ new.activeClaim = tx.activeClaim
      /\ new.target = tx.target /\ new.approval = tx.approval
      /\ new.status = "security_applied" /\ new.fenceEpoch = tx.fenceEpoch
      /\ new.asset = tx.asset /\ new.claimHistory = tx.claimHistory
      /\ new.records = tx.records \cup {"security_applied"}
  BY <1>1 DEF Transaction
<1>4. TxInv(new)
  <2> HIDE DEF new
  <2>1. AllCompleted(tx.operations) /\ tx.approval # Nil
    BY <1>1 DEF MarkSecurityApplied, TxInv, Agrees, Fresh
  <2>2. Len(tx.operations) = Len(Campaign)
    <3>1. tx.operations \in Seq(OperationRecord)
      BY <1>1 DEF Transaction
    <3> QED
      BY <2>1, <3>1, CompletedCount
         DEF MarkSecurityApplied, validateCompletedDevelopmentCampaign
  <2>3. Finished(new)
    BY <1>1, <1>3, <2>1, <2>2 DEF Finished, TxInv, InOrder, Bound
  <2> QED
    BY <1>1, <1>3, <2>1, <2>3 DEF TxInv, InOrder, Agrees, Fresh, Bound
<1>5. mutate(t, new)
  BY DEF MarkSecurityApplied
<1>6. /\ tx.status = "commit_approved" /\ tx.approval # Nil
      /\ validateCompletedDevelopmentCampaign(tx.operations, tx.approval)
  BY DEF MarkSecurityApplied, requireCurrentApproval
<1>7. Advances(tx, new) /\ Stays(tx, new)
  <2>1. KeepsStatus(tx, new)
    BY <1>6 DEF KeepsStatus, Terminal
  <2> HIDE DEF new
  <2> QED
    BY <1>1, <1>2, <1>3, <2>1, HistoryUntouched DEF Timely
<1>8. validateTransaction(new, state.fenceEpochs)
  <2>1. /\ tx.status \notin Terminal \ {"security_applied"}
        /\ "security_applied" \in Terminal
    BY <1>6 DEF Terminal
  <2> HIDE DEF new
  <2>2. TerminalRecordsMatch(new)
    BY <1>1, <1>3, <2>1, RecordEntered
  <2> QED
    BY <1>1, <1>2, <1>3, <1>6, <2>2, ValidityKept
<1> QED
  BY <1>2, <1>4, <1>5, <1>7, <1>8, MutatePreserves DEF Result, MarkSecurityApplied

\* Releasing a claim keeps the invariant.
LEMMA ReleaseClaimPreserves ==
    ASSUME IInv, NEW t \in Transactions, NEW epoch \in Epochs,
           ReleaseClaim(t, epoch)
    PROVE  IInv' /\ Follows(state, state')
<1> DEFINE tx  == state.transactions[t]
           new == [tx EXCEPT !.claimHistory = @ \cup {Closed(tx.activeClaim)},
                             !.activeClaim = Nil]
<1>1. /\ tx \in Transaction /\ TxInv(tx)
      /\ validateTransaction(tx, state.fenceEpochs) /\ Timely(tx, now)
  BY ExistingIsGood DEF ReleaseClaim
<1>2. new \in Transaction
  <2>1. tx.activeClaim \in Claim
    BY <1>1 DEF ReleaseClaim, requireCurrentClaim, Transaction
  <2>2. Closed(tx.activeClaim) \in ClosedClaim
    BY <2>1 DEF Closed, ClosedClaim, Claim
  <2> QED
    BY <1>1, <2>2 DEF Transaction
<1>3. /\ new.operations = tx.operations /\ new.activeClaim = Nil
      /\ new.target = tx.target /\ new.approval = tx.approval
      /\ new.status = tx.status /\ new.fenceEpoch = tx.fenceEpoch
      /\ new.asset = tx.asset
      /\ new.claimHistory = tx.claimHistory \cup {Closed(tx.activeClaim)}
      /\ new.records = tx.records
  BY <1>1 DEF Transaction
<1>4. TxInv(new)
  <2> HIDE DEF new
  <2>1. tx.status \in {"security_applied", "quarantined", "reconciled", "aborted"}
    BY DEF ReleaseClaim
  <2> QED
    BY <1>1, <1>3, <2>1 DEF TxInv, InOrder, Agrees, Fresh, Finished, Bound
<1>5. mutate(t, new)
  BY DEF ReleaseClaim
<1>6. Advances(tx, new) /\ Stays(tx, new)
  <2>1. new # Nil
    BY <1>2, NilAssumption
  <2> HIDE DEF new
  <2> QED
    BY <1>1, <1>3, <2>1
       DEF Advances, Stays, KeepsStatus, KeepsHistory, KeepsFence, Transaction, Timely
<1>7. validateTransaction(new, state.fenceEpochs)
  <2>1. /\ tx.activeClaim # Nil
        /\ tx.activeClaim.fenceEpoch \in 1 .. tx.fenceEpoch
    BY <1>1 DEF ReleaseClaim, requireCurrentClaim, validateTransaction, validateClaim
  <2> HIDE DEF new
  <2>2. \A i \in DOMAIN tx.operations : validateStoredOperation(tx.operations[i], new)
    <3>1. tx.operations # <<>> => tx.target # Nil
      BY <1>1 DEF TxInv, Bound
    <3>2. new.fenceEpoch >= tx.fenceEpoch
      BY <1>1, <1>3 DEF Transaction
    <3>3. \A lane \in Lanes, e \in Nat :
             claimIdentityExists(tx, lane, e) => claimIdentityExists(new, lane, e)
      BY <1>3, <2>1 DEF claimIdentityExists, Closed
    <3> QED
      BY <1>1, <1>2, <1>3, <3>1, <3>2, <3>3, OperationsStayValid
  <2>3. \A c \in new.claimHistory : c.fenceEpoch \in 1 .. tx.fenceEpoch
    BY <1>1, <1>3, <2>1 DEF validateTransaction, Closed
  <2>4. TerminalRecordsMatch(new)
    BY <1>1, <1>3, RecordsUntouched
  <2> QED
    BY <1>1, <1>3, <2>2, <2>3, <2>4 DEF validateTransaction, validateStoredApproval
<1> QED
  BY <1>2, <1>4, <1>5, <1>6, <1>7, MutatePreserves DEF Result, ReleaseClaim

\* Renewing a claim moves its expiry only.
LEMMA RenewClaimPreserves ==
    ASSUME IInv, NEW t \in Transactions, NEW epoch, NEW plan, NEW deadline,
           NEW duration \in LeaseDurations,
           RenewClaim(t, epoch, plan, deadline, duration)
    PROVE  IInv' /\ Follows(state, state')
<1> DEFINE tx  == state.transactions[t]
           new == [tx EXCEPT !.activeClaim.expiresAt = now + duration]
<1>1. /\ tx \in Transaction /\ TxInv(tx)
      /\ validateTransaction(tx, state.fenceEpochs) /\ Timely(tx, now)
  BY ExistingIsGood DEF RenewClaim
<1>a. tx.activeClaim \in Claim
  BY <1>1 DEF RenewClaim, requireCurrentClaim, Transaction
<1>b. now + duration \in Nat
  BY BoundsAssumption DEF IInv
<1>c. new.activeClaim = [tx.activeClaim EXCEPT !.expiresAt = now + duration]
  BY <1>1 DEF Transaction
<1>d. /\ new.activeClaim \in Claim
      /\ new.activeClaim.mode = tx.activeClaim.mode
      /\ new.activeClaim.lane = tx.activeClaim.lane
      /\ new.activeClaim.fenceEpoch = tx.activeClaim.fenceEpoch
      /\ new.activeClaim.stages = tx.activeClaim.stages
  BY <1>a, <1>b, <1>c DEF Claim
<1>2. new \in Transaction
  BY <1>1, <1>c, <1>d DEF Transaction
<1>3. /\ new.operations = tx.operations /\ new.target = tx.target
      /\ new.approval = tx.approval /\ new.status = tx.status
      /\ new.fenceEpoch = tx.fenceEpoch /\ new.asset = tx.asset
      /\ new.claimHistory = tx.claimHistory /\ new.records = tx.records
  BY <1>1 DEF Transaction
<1>4. TxInv(new)
  <2> HIDE DEF new
  <2>1. tx.activeClaim # Nil /\ new.activeClaim # Nil
    BY <1>d, NilAssumption DEF RenewClaim, requireCurrentClaim
  <2> QED
    BY <1>1, <1>3, <1>d, <2>1 DEF TxInv, InOrder, Agrees, Fresh, Finished, Bound
<1>5. mutate(t, new)
  BY DEF RenewClaim
<1>6. tx.activeClaim # Nil /\ tx.activeClaim.expiresAt > now
  BY DEF RenewClaim, requireCurrentClaim
<1>7. Advances(tx, new) /\ Stays(tx, new)
  <2>1. new # Nil
    BY <1>2, NilAssumption
  <2> HIDE DEF new
  <2> QED
    BY <1>1, <1>3, <1>6, <1>d, <2>1
       DEF Advances, Stays, KeepsStatus, KeepsHistory, KeepsFence, Transaction, Timely
<1>8. validateTransaction(new, state.fenceEpochs)
  <2> HIDE DEF new
  <2>1. new.activeClaim # Nil
    BY <1>d, NilAssumption
  <2>2. \A i \in DOMAIN tx.operations : validateStoredOperation(tx.operations[i], new)
    BY <1>1, <1>3, <1>6, <1>d, <2>1
       DEF validateTransaction, validateStoredOperation, validateStoredApproval,
           claimIdentityExists
  <2>3. TerminalRecordsMatch(new)
    BY <1>1, <1>3, RecordsUntouched
  <2> QED
    BY <1>1, <1>3, <1>6, <1>d, <2>2, <2>3
       DEF validateTransaction, validateClaim, validateStoredApproval
<1> QED
  BY <1>2, <1>4, <1>5, <1>7, <1>8, MutatePreserves DEF Result, RenewClaim

\* A new approval is bound to the claim and the target of its moment.
LEMMA RecordApprovalPreserves ==
    ASSUME IInv, NEW t \in Transactions, NEW epoch \in Epochs,
           NEW plan \in Plans, NEW release \in Releases,
           NEW fingerprint \in Targets, NEW expiresAt \in Nat,
           RecordApproval(t, epoch, plan, release, fingerprint, expiresAt)
    PROVE  IInv' /\ Follows(state, state')
<1> DEFINE tx  == state.transactions[t]
           approval == [plan |-> plan, release |-> release,
                        lane |-> tx.activeClaim.lane, fenceEpoch |-> epoch,
                        target |-> fingerprint, expiresAt |-> expiresAt]
           new == [tx EXCEPT !.approval = approval,
                             !.status = "commit_approved"]
<1>1. /\ tx \in Transaction /\ TxInv(tx)
      /\ validateTransaction(tx, state.fenceEpochs) /\ Timely(tx, now)
  BY ExistingIsGood DEF RecordApproval
<1>2. /\ tx.activeClaim \in Claim
      /\ tx.activeClaim # Nil
      /\ tx.activeClaim.mode = "mutation"
      /\ tx.fenceEpoch = epoch
  BY <1>1 DEF RecordApproval, requireCurrentClaim, Transaction
<1>3. approval \in Approval
  BY <1>2, BoundsAssumption DEF Approval, Claim, Epochs
<1>4. new \in Transaction
  <2> HIDE DEF approval
  <2> QED
    BY <1>1, <1>3 DEF Transaction, TransactionStatus
<1>5. /\ new.operations = tx.operations /\ new.activeClaim = tx.activeClaim
      /\ new.target = tx.target /\ new.approval = approval
      /\ new.status = "commit_approved" /\ new.fenceEpoch = tx.fenceEpoch
      /\ new.asset = tx.asset /\ new.claimHistory = tx.claimHistory
      /\ new.records = tx.records
  BY <1>1 DEF Transaction
<1>6. TxInv(new)
  <2>1. AllCompleted(tx.operations)
    BY <1>1 DEF RecordApproval, TxInv, Agrees
  <2>2. \A i \in DOMAIN tx.operations :
           SamePlanBindings(tx.operations[i].approval, approval)
    BY DEF RecordApproval, validatePriorOperationsAgainstPlan
  <2>3. /\ tx.target # Nil
        /\ tx.target.fenceEpoch = epoch
        /\ tx.target.fingerprint = fingerprint
    BY DEF RecordApproval, TargetReidentified
  <2>4. /\ approval.fenceEpoch = epoch
        /\ approval.target = fingerprint
        /\ approval.lane = tx.activeClaim.lane
    OBVIOUS
  <2> HIDE DEF new, approval
  <2>5. InOrder(new) /\ Agrees(new) /\ Finished(new)
    BY <1>1, <1>5, <2>1 DEF TxInv, InOrder, Agrees, Finished
  <2>6. Fresh(new)
    BY <1>1, <1>2, <1>3, <1>5, <2>3, <2>4, NilAssumption DEF Fresh
  <2>7. Bound(new)
    BY <1>5, <2>2, <2>3 DEF Bound
  <2> QED
    BY <2>5, <2>6, <2>7 DEF TxInv
<1>7. mutate(t, new)
  BY DEF RecordApproval
<1>8. Advances(tx, new) /\ Stays(tx, new)
  <2>1. tx.status \notin Terminal /\ approval.expiresAt <= now + MaxApprovalLifetime
    BY DEF RecordApproval, Terminal
  <2> HIDE DEF new, approval
  <2> QED
    BY <1>1, <1>4, <1>5, <2>1, HistoryUntouched DEF KeepsStatus, Timely
<1>9. validateTransaction(new, state.fenceEpochs)
  <2>1. validateStoredApproval(approval, tx, tx.fenceEpoch)
    BY <1>2 DEF RecordApproval, TargetReidentified, validateStoredApproval
  <2> HIDE DEF new, approval
  <2>2. \A i \in DOMAIN tx.operations : validateStoredOperation(tx.operations[i], new)
    BY <1>1, <1>5
       DEF validateTransaction, validateStoredOperation, validateStoredApproval,
           claimIdentityExists
  <2>3. TerminalRecordsMatch(new)
    <3>1. tx.status \notin Terminal /\ new.status \notin Terminal
      BY <1>5 DEF RecordApproval, Terminal
    <3> QED
      BY <1>1, <1>5, <3>1, RecordsUntouched
  <2> QED
    BY <1>1, <1>5, <2>1, <2>2, <2>3
       DEF validateTransaction, validateClaim, validateStoredApproval
<1> QED
  BY <1>4, <1>6, <1>7, <1>8, <1>9, MutatePreserves DEF Result, RecordApproval

\* An intent is appended as the next operation of the campaign.
LEMMA RecordIntentPreserves ==
    ASSUME IInv, NEW t \in Transactions, NEW epoch \in Epochs,
           NEW plan \in Plans, NEW operation \in Operations,
           RecordIntent(t, epoch, plan, operation)
    PROVE  IInv' /\ Follows(state, state')
<1> DEFINE tx  == state.transactions[t]
           ops == tx.operations
           n   == Len(ops)
           intent == [operation |-> operation, status |-> "intent_recorded",
                      approval |-> tx.approval, intentAt |-> now,
                      output |-> FALSE, evidence |-> FALSE,
                      reconciliation |-> FALSE]
           new == [tx EXCEPT !.operations = Append(@, intent),
                             !.status = "mutation_in_progress"]
<1>1. /\ tx \in Transaction /\ TxInv(tx)
      /\ validateTransaction(tx, state.fenceEpochs) /\ Timely(tx, now)
  BY ExistingIsGood DEF RecordIntent
<1>2. /\ tx.approval \in Approval /\ tx.approval # Nil
      /\ tx.target # Nil
      /\ tx.status = "commit_approved"
  BY <1>1 DEF RecordIntent, requireCurrentApproval, Transaction
<1>3. intent \in OperationRecord
  BY <1>2 DEF OperationRecord, OperationStatus, IInv
<1>4. ops \in Seq(OperationRecord) /\ n \in Nat
  BY <1>1 DEF Transaction
<1>5. AllCompleted(ops)
  BY <1>1, <1>2 DEF TxInv, Agrees
<1>6. n < Len(Campaign) /\ Campaign[n + 1] = operation
  BY <1>4, <1>5, CompletedCount DEF RecordIntent
<1>7. /\ new.operations = Append(ops, intent) /\ new.activeClaim = tx.activeClaim
      /\ new.target = tx.target /\ new.approval = tx.approval
      /\ new.status = "mutation_in_progress" /\ new.fenceEpoch = tx.fenceEpoch
      /\ new.asset = tx.asset /\ new.claimHistory = tx.claimHistory
      /\ new.records = tx.records
  BY <1>1 DEF Transaction
<1>8. new \in Transaction
  <2>1. Append(ops, intent) \in Seq(OperationRecord)
    BY <1>3, <1>4
  <2> HIDE DEF intent
  <2> QED
    BY <1>1, <2>1 DEF Transaction, TransactionStatus
<1>9. /\ Len(new.operations) = n + 1
      /\ DOMAIN new.operations = 1 .. n + 1
      /\ new.operations[n + 1] = intent
      /\ \A i \in DOMAIN ops : new.operations[i] = ops[i]
      /\ DOMAIN ops = 1 .. n
  BY <1>3, <1>4, <1>7
<1>10. intent.operation = operation /\ intent.status = "intent_recorded"
         /\ intent.approval = tx.approval
  OBVIOUS
<1>11. TxInv(new)
  <2> HIDE DEF new, intent
  <2>1. \A i \in DOMAIN new.operations :
           SamePlanBindings(new.operations[i].approval, tx.approval)
    <3> TAKE i \in DOMAIN new.operations
    <3>1. CASE i = n + 1
      BY <1>9, <1>10, <3>1 DEF SamePlanBindings
    <3>2. CASE i # n + 1
      <4>1. i \in DOMAIN ops
        BY <1>4, <1>9, <3>2
      <4> QED
        BY <1>1, <1>2, <1>9, <4>1 DEF TxInv, Bound
    <3> QED
      BY <3>1, <3>2
  <2>2. InOrder(new)
    <3> SUFFICES ASSUME NEW i \in DOMAIN new.operations
                 PROVE  /\ new.operations[i].operation = Campaign[i]
                        /\ SamePlanBindings(new.operations[i].approval,
                                            new.operations[1].approval)
                        /\ i < n + 1 => new.operations[i].status \in Completed
      BY <1>4, <1>6, <1>9, CampaignAssumption DEF InOrder
    <3>1. SamePlanBindings(new.operations[i].approval, new.operations[1].approval)
      <4>1. 1 \in DOMAIN new.operations
        BY <1>4, <1>9
      <4> QED
        BY <2>1, <4>1 DEF SamePlanBindings
    <3>2. CASE i = n + 1
      BY <1>4, <1>6, <1>9, <1>10, <3>1, <3>2, SMTT(30)
    <3>3. CASE i # n + 1
      <4>1. i \in DOMAIN ops
        BY <1>4, <1>9, <3>3
      <4> QED
        BY <1>1, <1>5, <1>9, <3>1, <4>1 DEF TxInv, InOrder, AllCompleted
    <3> QED
      BY <3>2, <3>3
  <2>3. Agrees(new)
    BY <1>4, <1>7, <1>9, <1>10 DEF Agrees
  <2>4. Fresh(new) /\ Finished(new)
    BY <1>1, <1>2, <1>7 DEF TxInv, Fresh, Finished
  <2>5. Bound(new)
    BY <1>2, <1>7, <2>1 DEF Bound
  <2> QED
    BY <2>2, <2>3, <2>4, <2>5 DEF TxInv
<1>12. mutate(t, new)
  BY DEF RecordIntent
<1>13. /\ tx.activeClaim # Nil
       /\ tx.approval.fenceEpoch = tx.fenceEpoch
       /\ tx.activeClaim.fenceEpoch = tx.fenceEpoch
       /\ tx.approval.lane = tx.activeClaim.lane
       /\ tx.approval.target = tx.target.fingerprint
       /\ tx.approval.expiresAt > now
       /\ tx.approval.expiresAt <= now + MaxApprovalLifetime
  BY <1>1, <1>2
     DEF RecordIntent, requireCurrentClaim, requireCurrentApproval, Timely
<1>14. Advances(tx, new) /\ Stays(tx, new)
  <2>1. new # Nil
    BY <1>8, NilAssumption
  <2>2. KeepsHistory(tx, new)
    <3> HIDE DEF new, intent
    <3>1. new.operations[Len(new.operations)].approval = tx.approval
      BY <1>9, <1>10
    <3>2. \A i \in DOMAIN ops : new.operations[i] = ops[i]
      BY <1>9
    <3>3. Len(new.operations) >= Len(ops)
      BY <1>4, <1>9
    <3> HIDE DEF n
    <3> QED
      BY <1>2, <1>13, <3>1, <3>2, <3>3, Zenon DEF KeepsHistory
  <2> HIDE DEF new, intent
  <2>3. KeepsStatus(tx, new) /\ KeepsFence(tx, new) /\ Stays(tx, new)
    BY <1>1, <1>2, <1>7 DEF KeepsStatus, KeepsFence, Stays, Terminal, Transaction, Timely
  <2> QED
    BY <2>1, <2>2, <2>3 DEF Advances
<1>15. validateTransaction(new, state.fenceEpochs)
  <2>1. /\ intent.intentAt = now /\ ~intent.output /\ ~intent.evidence
        /\ ~intent.reconciliation
    OBVIOUS
  <2> HIDE DEF new, intent
  <2>2. \A i \in DOMAIN ops : validateStoredOperation(ops[i], new)
    BY <1>1, <1>7
       DEF validateTransaction, validateStoredOperation, validateStoredApproval,
           claimIdentityExists
  <2>3. validateStoredOperation(intent, new)
    <3>1. tx.approval.fenceEpoch \in 1 .. tx.fenceEpoch
      BY <1>1, <1>13 DEF validateTransaction, validateClaim
    <3>2. OperationEvidenceComplete(intent)
      BY <1>10, <2>1 DEF OperationEvidenceComplete
    <3> QED
      BY <1>2, <1>7, <1>10, <1>13, <2>1, <3>1, <3>2
         DEF validateStoredOperation, validateStoredApproval, claimIdentityExists
  <2>4. \A i \in DOMAIN new.operations :
           /\ validateStoredOperation(new.operations[i], new)
           /\ SamePlanBindings(new.operations[i].approval, new.operations[1].approval)
           /\ new.operations[i].status # "confirmed_not_applied"
    <3> TAKE i \in DOMAIN new.operations
    <3>1. SamePlanBindings(new.operations[i].approval, new.operations[1].approval)
      BY <1>11 DEF TxInv, InOrder
    <3>2. CASE i = n + 1
      BY <1>9, <1>10, <2>3, <3>1, <3>2
    <3>3. CASE i # n + 1
      <4>1. i \in DOMAIN ops
        BY <1>4, <1>9, <3>3
      <4> QED
        BY <1>5, <1>9, <2>2, <3>1, <4>1 DEF AllCompleted, Completed
    <3> QED
      BY <3>2, <3>3
  <2>5. ~hasConfirmedNotAppliedOperation(new.operations)
    BY <2>4 DEF hasConfirmedNotAppliedOperation
  <2>6. TerminalRecordsMatch(new)
    <3>1. tx.status \notin Terminal /\ new.status \notin Terminal
      BY <1>2, <1>7 DEF Terminal
    <3> QED
      BY <1>1, <1>7, <3>1, RecordsUntouched
  <2> QED
    BY <1>1, <1>7, <2>4, <2>5, <2>6
       DEF validateTransaction, validateClaim, validateStoredApproval
<1> QED
  BY <1>8, <1>11, <1>12, <1>14, <1>15, MutatePreserves DEF Result, RecordIntent
\* op settles the last operation of tx, and new is what becomes of tx.
Settles(tx, new, i, op) ==
    /\ i \in DOMAIN tx.operations
    /\ i = Len(tx.operations)
    /\ op \in OperationRecord
    /\ op.operation = tx.operations[i].operation
    /\ op.approval = tx.operations[i].approval
    /\ op.intentAt = tx.operations[i].intentAt
    /\ tx.operations[i].status \in Unresolved
    /\ new.operations = [tx.operations EXCEPT ![i] = op]

Settled(tx, new, i, op) ==
    /\ new.operations \in Seq(OperationRecord)
    /\ DOMAIN new.operations = DOMAIN tx.operations
    /\ Len(new.operations) = i
    /\ new.operations # <<>>
    /\ new.operations[i] = op
    /\ \A j \in DOMAIN tx.operations :
          /\ new.operations[j].approval = tx.operations[j].approval
          /\ j # i => /\ new.operations[j] = tx.operations[j]
                      /\ new.operations[j].status \in Completed

\* Settling the last operation keeps the history in order, and the others as
\* they were.
LEMMA SettleLast ==
    ASSUME NEW tx \in Transaction, InOrder(tx), NEW new, NEW i, NEW op,
           Settles(tx, new, i, op)
    PROVE  Settled(tx, new, i, op) /\ InOrder(new)
<1> USE DEF Settles
<1> DEFINE ops == tx.operations
           nops == new.operations
<1>1. ops \in Seq(OperationRecord) /\ DOMAIN ops = 1 .. i /\ i \in Nat /\ i > 0
  BY DEF Transaction
<1>2. /\ nops \in Seq(OperationRecord)
      /\ DOMAIN nops = 1 .. i
      /\ Len(nops) = i
      /\ nops[i] = op
      /\ \A j \in 1 .. i : j # i => nops[j] = ops[j]
  BY <1>1
<1>3. \A j \in 1 .. i : /\ nops[j].approval = ops[j].approval
                         /\ nops[j].operation = ops[j].operation
  BY <1>1, <1>2
<1>4. \A j \in 1 .. i : j # i => nops[j].status \in Completed
  BY <1>1, <1>2 DEF InOrder
<1>5. InOrder(new)
  <2>1. i <= Len(Campaign)
    BY DEF InOrder
  <2>2. \A j \in 1 .. i : /\ nops[j].operation = Campaign[j]
                           /\ SamePlanBindings(nops[j].approval, nops[1].approval)
    BY <1>1, <1>3 DEF InOrder
  <2> HIDE DEF nops
  <2>3. \A j \in 1 .. i : j < i => nops[j].status \in Completed
    BY <1>1, <1>4
  <2> QED
    BY <1>2, <2>1, <2>2, <2>3 DEF InOrder, nops
<1> QED
  BY <1>1, <1>2, <1>3, <1>4, <1>5 DEF Settled

\* The fields that evidence and reconciliation leave alone.
SameButLast(tx, new) ==
    /\ new.asset = tx.asset
    /\ new.fenceEpoch = tx.fenceEpoch
    /\ new.activeClaim = tx.activeClaim
    /\ new.claimHistory = tx.claimHistory
    /\ new.target = tx.target
    /\ new.approval \in {tx.approval, Nil}

\* Settling the last operation advances a transaction that is not finished.
LEMMA SettleAdvances ==
    ASSUME NEW tx \in Transaction, NEW new \in Transaction, NEW i, NEW op,
           Settles(tx, new, i, op), Settled(tx, new, i, op),
           SameButLast(tx, new), KeepsStatus(tx, new), Timely(tx, now)
    PROVE  Advances(tx, new) /\ Stays(tx, new)
<1>1. KeepsHistory(tx, new)
  <2>1. Len(tx.operations) = i /\ i \in Nat /\ Len(new.operations) = i
    BY DEF Settles, Settled, Transaction
  <2>2. ASSUME NEW j \in DOMAIN tx.operations
        PROVE  /\ tx.operations[j].status \notin Unresolved =>
                     new.operations[j] = tx.operations[j]
               /\ new.operations[j].approval = tx.operations[j].approval
    BY DEF Settles, Settled
  <2> QED
    BY <2>1, <2>2 DEF KeepsHistory
<1>2. KeepsFence(tx, new) /\ Stays(tx, new)
  BY DEF KeepsFence, Stays, SameButLast, Timely, Transaction
<1> QED
  BY <1>1, <1>2, NilAssumption DEF Advances

\* A settled operation with its evidence leaves the transaction valid.
LEMMA SettleIsValid ==
    ASSUME NEW tx \in Transaction, NEW new \in Transaction, NEW i, NEW op,
           NEW fenceEpochs, validateTransaction(tx, fenceEpochs), InOrder(new),
           Settles(tx, new, i, op), Settled(tx, new, i, op), SameButLast(tx, new),
           new.status # "security_applied", OperationEvidenceComplete(op),
           TerminalRecordsMatch(new),
           (op.status = "confirmed_not_applied" /\ tx.activeClaim # Nil) =>
              tx.activeClaim.mode # "mutation"
    PROVE  validateTransaction(new, fenceEpochs)
<1> DEFINE ops == new.operations
<1>1. \A j \in DOMAIN tx.operations : validateStoredOperation(tx.operations[j], tx)
  BY DEF validateTransaction
<1>2. \A j \in DOMAIN ops : validateStoredOperation(ops[j], new)
  <2> TAKE j \in DOMAIN ops
  <2>1. j \in DOMAIN tx.operations
    BY DEF Settled
  <2>2. /\ ops[j].approval = tx.operations[j].approval
        /\ ops[j].intentAt = tx.operations[j].intentAt
        /\ OperationEvidenceComplete(ops[j])
    BY <1>1, <2>1 DEF Settles, Settled, validateStoredOperation
  <2> HIDE DEF ops
  <2> QED
    BY <1>1, <2>1, <2>2
       DEF validateStoredOperation, validateStoredApproval, claimIdentityExists,
           SameButLast
<1>3. Len(ops) = i /\ i \in Nat
  BY DEF Settles, Settled, Transaction
<1>4. \A j \in DOMAIN ops : /\ SamePlanBindings(ops[j].approval, ops[1].approval)
                            /\ j < Len(ops) => ops[j].status # "confirmed_not_applied"
  BY DEF InOrder, Completed
<1>5. (new.activeClaim # Nil /\ hasConfirmedNotAppliedOperation(ops)) =>
         new.activeClaim.mode # "mutation"
  BY DEF hasConfirmedNotAppliedOperation, Settled, SameButLast, Completed
<1> HIDE DEF ops
<1> QED
  BY <1>2, <1>4, <1>5
     DEF validateTransaction, validateClaim, validateStoredApproval, SameButLast, ops

\* Evidence settles the last operation and the status together.
LEMMA RecordEvidencePreserves ==
    ASSUME IInv, NEW t \in Transactions, NEW epoch \in Epochs,
           NEW i \in DOMAIN Campaign, NEW result \in {"succeeded", "failed", "uncertain"},
           RecordEvidence(t, epoch, i, result)
    PROVE  IInv' /\ Follows(state, state')
<1> DEFINE tx  == state.transactions[t]
           op  == [tx.operations[i] EXCEPT !.status = result, !.output = TRUE,
                                           !.evidence = TRUE]
           approval == IF result = "succeeded" THEN tx.approval ELSE Nil
           new == [tx EXCEPT
                     !.operations[i] = [@ EXCEPT !.status = result, !.output = TRUE,
                                                 !.evidence = TRUE],
                     !.approval = IF result = "succeeded" THEN @ ELSE Nil,
                     !.status = StatusAfterEvidence(result),
                     !.records = IF result = "failed" THEN @ \cup {"quarantined"}
                                 ELSE @]
           records == IF result = "failed" THEN tx.records \cup {"quarantined"}
                      ELSE tx.records
<1>1. /\ tx \in Transaction /\ TxInv(tx)
      /\ validateTransaction(tx, state.fenceEpochs) /\ Timely(tx, now)
  BY ExistingIsGood DEF RecordEvidence
<1>2. /\ tx.status = "mutation_in_progress"
      /\ i = Len(tx.operations) /\ i \in DOMAIN tx.operations
      /\ tx.operations[i] \in OperationRecord
      /\ tx.operations[i].status = "intent_recorded"
  BY <1>1 DEF RecordEvidence, Transaction
<1>3. /\ op \in OperationRecord
      /\ op.operation = tx.operations[i].operation
      /\ op.approval = tx.operations[i].approval
      /\ op.status = result
      /\ op.intentAt = tx.operations[i].intentAt
      /\ op.output = TRUE /\ op.evidence = TRUE
  BY <1>2 DEF OperationRecord, OperationStatus
<1>4. /\ new.operations = [tx.operations EXCEPT ![i] = op]
      /\ new.activeClaim = tx.activeClaim
      /\ new.target = tx.target /\ new.approval = approval
      /\ new.status = StatusAfterEvidence(result)
      /\ new.fenceEpoch = tx.fenceEpoch /\ new.asset = tx.asset
      /\ new.claimHistory = tx.claimHistory /\ new.records = records
  BY <1>1 DEF Transaction
<1>5. Settles(tx, new, i, op) /\ Settled(tx, new, i, op) /\ InOrder(new)
  <2>1. InOrder(tx)
    BY <1>1 DEF TxInv
  <2> HIDE DEF op, new, tx
  <2>2. Settles(tx, new, i, op)
    BY <1>2, <1>3, <1>4 DEF Settles, Unresolved
  <2> QED
    BY <1>1, <2>1, <2>2, SettleLast
<1>6. StatusAfterEvidence(result) =
        IF result = "succeeded" THEN "commit_approved"
        ELSE IF result = "failed" THEN "quarantined"
        ELSE "reconciliation_required"
  BY DEF StatusAfterEvidence
<1>7. new \in Transaction
  <2>1. /\ StatusAfterEvidence(result) \in TransactionStatus
        /\ approval \in Approval \cup {Nil}
        /\ records \in SUBSET Terminal
    BY <1>1, <1>6 DEF TransactionStatus, Transaction, Terminal
  <2>2. new = [tx EXCEPT !.operations = new.operations, !.approval = approval,
                         !.status = StatusAfterEvidence(result),
                         !.records = records]
    BY <1>1 DEF Transaction
  <2> QED
    BY <1>1, <1>5, <2>1, <2>2 DEF Transaction, Settled
<1>8. TxInv(new)
  <2> HIDE DEF new, op
  <2>1. Agrees(new)
    BY <1>3, <1>4, <1>5, <1>6 DEF Agrees, AllCompleted, Completed, Settled
  <2>2. Fresh(new)
    BY <1>1, <1>2, <1>4, <1>6 DEF TxInv, Fresh
  <2>3. Finished(new)
    BY <1>4, <1>6 DEF Finished
  <2>4. Bound(new)
    <3>1. Bound(tx)
      BY <1>1 DEF TxInv
    <3>2. approval \in {tx.approval, Nil} /\ new.status # "reconciled"
      BY <1>4, <1>6
    <3> HIDE DEF tx, approval
    <3> QED
      BY <1>2, <1>4, <1>5, <3>1, <3>2 DEF Bound, Settled
  <2> QED
    BY <1>5, <2>1, <2>2, <2>3, <2>4 DEF TxInv
<1>9. mutate(t, new)
  BY DEF RecordEvidence
<1>10. SameButLast(tx, new)
  <2> HIDE DEF new
  <2> QED
    BY <1>4 DEF SameButLast
<1>11. Advances(tx, new) /\ Stays(tx, new)
  <2>1. KeepsStatus(tx, new)
    BY <1>2 DEF KeepsStatus, Terminal
  <2> HIDE DEF new, op
  <2> QED
    BY <1>1, <1>5, <1>7, <1>10, <2>1, SettleAdvances
<1>12. validateTransaction(new, state.fenceEpochs)
  <2>1. OperationEvidenceComplete(op) /\ op.status # "confirmed_not_applied"
    BY <1>3 DEF OperationEvidenceComplete
  <2>2. new.status # "security_applied"
    BY <1>4, <1>6
  <2>3. TerminalRecordsMatch(new)
    <3>1. tx.status \notin Terminal /\ "quarantined" \in Terminal
      BY <1>2 DEF Terminal
    <3>2. CASE result = "failed"
      BY <1>1, <1>4, <1>6, <3>1, <3>2, RecordEntered
    <3>3. CASE result # "failed"
      <4>1. new.status \notin Terminal /\ new.records = tx.records
        BY <1>4, <1>6, <3>3 DEF Terminal
      <4> QED
        BY <1>1, <3>1, <4>1, RecordsUntouched
    <3> QED
      BY <3>2, <3>3
  <2> HIDE DEF new, op
  <2> QED
    BY <1>1, <1>5, <1>7, <1>10, <2>1, <2>2, <2>3, SettleIsValid
<1> QED
  BY <1>7, <1>8, <1>9, <1>11, <1>12, MutatePreserves DEF Result, RecordEvidence

\* Reconciliation settles the last operation and the status together.
LEMMA RecordReconciliationPreserves ==
    ASSUME IInv, NEW t \in Transactions, NEW epoch \in Epochs,
           NEW i \in DOMAIN Campaign,
           NEW resolution \in {"confirmed_applied", "confirmed_not_applied", "unknown"},
           NEW output \in ReconciliationOutputs,
           RecordReconciliation(t, epoch, i, resolution, output)
    PROVE  IInv' /\ Follows(state, state')
<1> DEFINE tx  == state.transactions[t]
           op  == [tx.operations[i] EXCEPT
                     !.status = OperationAfterReconciliation(resolution),
                     !.output = output, !.reconciliation = TRUE]
           new == [tx EXCEPT
                     !.operations[i] =
                        [@ EXCEPT !.status = OperationAfterReconciliation(resolution),
                                  !.output = output, !.reconciliation = TRUE],
                     !.approval = Nil,
                     !.status = StatusAfterReconciliation(@, resolution),
                     !.records = IF resolution = "unknown"
                                 THEN @ \cup {"quarantined"} ELSE @]
           records == IF resolution = "unknown" THEN tx.records \cup {"quarantined"}
                      ELSE tx.records
<1>1. /\ tx \in Transaction /\ TxInv(tx)
      /\ validateTransaction(tx, state.fenceEpochs) /\ Timely(tx, now)
  BY ExistingIsGood DEF RecordReconciliation
<1>2. /\ tx.status \in {"reconciliation_required", "quarantined"}
      /\ i \in DOMAIN tx.operations
      /\ tx.operations[i] \in OperationRecord
      /\ tx.operations[i].status \notin Completed
      /\ tx.operations[i].status \in Unresolved
      /\ tx.activeClaim # Nil /\ tx.activeClaim.mode = "reconciliation"
  BY <1>1 DEF RecordReconciliation, Transaction, Reconcilable, Completed, Unresolved,
              requireCurrentClaim
<1>3. i = Len(tx.operations)
  BY <1>1, <1>2 DEF TxInv, InOrder, Transaction
<1>4. OperationAfterReconciliation(resolution) \in
        {"uncertain", "confirmed_applied", "confirmed_not_applied"}
  BY DEF OperationAfterReconciliation
<1>5. /\ op \in OperationRecord
      /\ op.operation = tx.operations[i].operation
      /\ op.approval = tx.operations[i].approval
      /\ op.status = OperationAfterReconciliation(resolution)
      /\ op.intentAt = tx.operations[i].intentAt
      /\ op.output = output /\ op.reconciliation = TRUE
  <2>1. output \in BOOLEAN
    BY BoundsAssumption
  <2> QED
    BY <1>2, <1>4, <2>1 DEF OperationRecord, OperationStatus
<1>6. /\ new.operations = [tx.operations EXCEPT ![i] = op]
      /\ new.activeClaim = tx.activeClaim
      /\ new.target = tx.target /\ new.approval = Nil
      /\ new.status = StatusAfterReconciliation(tx.status, resolution)
      /\ new.fenceEpoch = tx.fenceEpoch /\ new.asset = tx.asset
      /\ new.claimHistory = tx.claimHistory /\ new.records = records
  BY <1>1 DEF Transaction
<1>7. Settles(tx, new, i, op) /\ Settled(tx, new, i, op) /\ InOrder(new)
  <2>1. InOrder(tx)
    BY <1>1 DEF TxInv
  <2> HIDE DEF op, new, tx
  <2>2. Settles(tx, new, i, op)
    BY <1>2, <1>3, <1>5, <1>6 DEF Settles
  <2> QED
    BY <1>1, <2>1, <2>2, SettleLast
<1>8. new \in Transaction
  <2>1. /\ StatusAfterReconciliation(tx.status, resolution) \in TransactionStatus
        /\ records \in SUBSET Terminal
    BY <1>1 DEF TransactionStatus, StatusAfterReconciliation, Transaction, Terminal
  <2>2. new = [tx EXCEPT !.operations = new.operations, !.approval = Nil,
                         !.status = StatusAfterReconciliation(tx.status, resolution),
                         !.records = records]
    BY <1>1 DEF Transaction
  <2> QED
    BY <1>1, <1>7, <2>1, <2>2 DEF Transaction, Settled
<1>9. TxInv(new)
  <2> HIDE DEF new, op
  <2>1. Agrees(new)
    BY <1>5, <1>6, <1>7
       DEF Agrees, Settled, StatusAfterReconciliation, OperationAfterReconciliation
  <2>2. Fresh(new) /\ Finished(new)
    BY <1>6 DEF Fresh, Finished, StatusAfterReconciliation
  <2>3. Bound(new)
    BY <1>1, <1>2, <1>6 DEF TxInv, Bound
  <2> QED
    BY <1>7, <2>1, <2>2, <2>3 DEF TxInv
<1>10. mutate(t, new)
  BY DEF RecordReconciliation
<1>11. SameButLast(tx, new)
  <2> HIDE DEF new
  <2> QED
    BY <1>6 DEF SameButLast
<1>12. Advances(tx, new) /\ Stays(tx, new)
  <2>1. KeepsStatus(tx, new)
    BY <1>2, <1>6 DEF KeepsStatus, Terminal, StatusAfterReconciliation
  <2> HIDE DEF new, op
  <2> QED
    BY <1>1, <1>7, <1>8, <1>11, <2>1, SettleAdvances
<1>13. OutputsGiven => validateTransaction(new, state.fenceEpochs)
  <2> SUFFICES ASSUME OutputsGiven
               PROVE  validateTransaction(new, state.fenceEpochs)
    OBVIOUS
  <2>1. output = TRUE
    BY DEF OutputsGiven
  <2>2. OperationEvidenceComplete(op)
    BY <1>4, <1>5, <2>1 DEF OperationEvidenceComplete
  <2>3. new.status # "security_applied"
    BY <1>6 DEF StatusAfterReconciliation
  <2>4. TerminalRecordsMatch(new)
    <3>1. CASE resolution = "unknown"
      <4>1. /\ new.status = "quarantined" /\ "quarantined" \in Terminal
            /\ tx.status \notin Terminal \ {"quarantined"}
        BY <1>2, <1>6, <3>1 DEF StatusAfterReconciliation, Terminal
      <4> QED
        BY <1>1, <1>6, <3>1, <4>1, RecordEntered
    <3>2. CASE resolution # "unknown"
      <4>1. \/ new.status = tx.status
            \/ tx.status \notin Terminal /\ new.status \notin Terminal
        BY <1>2, <1>6, <3>2 DEF StatusAfterReconciliation, Terminal
      <4> QED
        BY <1>1, <1>6, <3>2, <4>1, RecordsUntouched
    <3> QED
      BY <3>1, <3>2
  <2> HIDE DEF new, op
  <2> QED
    BY <1>1, <1>2, <1>7, <1>8, <1>11, <2>2, <2>3, <2>4, SettleIsValid
<1> QED
  BY <1>8, <1>9, <1>10, <1>12, <1>13, MutatePreserves DEF Result, RecordReconciliation

\* The shared part of AcquireClaim and TransferClaim.
LEMMA GrantClaimPreserves ==
    ASSUME IInv, NEW t \in Transactions, Exists(t), NEW mode \in ClaimMode,
           NEW lane \in Lanes, NEW stages \in StageSets,
           NEW duration \in LeaseDurations,
           ClaimGrantable(t, mode, lane),
           GrantClaim(t, mode, lane, stages, duration)
    PROVE  IInv' /\ Follows(state, state')
<1> DEFINE tx    == state.transactions[t]
           epoch == NextEpoch(tx.asset)
           grant == [mode |-> mode, lane |-> lane, fenceEpoch |-> epoch,
                     stages |-> stages, expiresAt |-> now + duration]
           closed == IF tx.activeClaim = Nil THEN {} ELSE {Closed(tx.activeClaim)}
           new == [tx EXCEPT !.fenceEpoch = epoch,
                             !.activeClaim = grant,
                             !.claimHistory = @ \cup closed,
                             !.approval = Nil,
                             !.status = StatusAfterClaim(tx, mode)]
           c == [transactions |-> [state.transactions EXCEPT ![t] = new],
                 fenceEpochs |-> [state.fenceEpochs EXCEPT ![tx.asset] = epoch]]
<1>1. /\ tx \in Transaction /\ TxInv(tx)
      /\ validateTransaction(tx, state.fenceEpochs)
      /\ CurrentFence(tx, state.fenceEpochs)
  BY ExistingIsGood
<1>2. state \in PersistedState
  BY DEF IInv, GoodState
<1>3. epoch \in Nat /\ epoch = tx.fenceEpoch + 1 /\ tx.fenceEpoch \in Nat
  BY <1>1, <1>2 DEF NextEpoch, PersistedState, Transaction, CurrentFence
<1>4. grant \in Claim
  <2>1. stages \in SUBSET Stages
    BY CampaignAssumption
  <2>2. now + duration \in Nat
    BY BoundsAssumption DEF IInv
  <2> HIDE DEF epoch
  <2> QED
    BY <1>3, <2>1, <2>2 DEF Claim
<1>5. closed \subseteq ClosedClaim
  <2>1. CASE tx.activeClaim = Nil
    BY <2>1
  <2>2. CASE tx.activeClaim # Nil
    <3>1. tx.activeClaim \in Claim
      BY <1>1, <2>2 DEF Transaction
    <3> QED
      BY <2>2, <3>1 DEF Closed, ClosedClaim, Claim
  <2> QED
    BY <2>1, <2>2
<1>6. /\ mode = "mutation" => ~hasConfirmedNotAppliedOperation(tx.operations)
      /\ validateClaimModeForStatus(mode, tx.status)
  BY DEF ClaimGrantable
<1>7. StatusAfterClaim(tx, mode) =
        IF mode = "reconciliation" /\ tx.status = "mutation_in_progress"
        THEN "reconciliation_required"
        ELSE IF tx.status \in {"quarantined", "reconciliation_required"}
        THEN tx.status
        ELSE IF tx.target = Nil THEN "claimed" ELSE "target_bound"
  <2>1. mode \in {"mutation", "reconciliation"}
    BY DEF ClaimMode
  <2> QED
    BY <1>6, <2>1 DEF StatusAfterClaim, validateClaimModeForStatus
<1>8. new \in Transaction
  <2>1. StatusAfterClaim(tx, mode) \in TransactionStatus
    BY <1>1, <1>7 DEF TransactionStatus, Transaction
  <2> HIDE DEF grant, closed, epoch
  <2> QED
    BY <1>1, <1>3, <1>4, <1>5, <2>1 DEF Transaction
<1>9. /\ new.operations = tx.operations /\ new.target = tx.target
      /\ new.approval = Nil /\ new.status = StatusAfterClaim(tx, mode)
      /\ new.asset = tx.asset /\ new.fenceEpoch = epoch
      /\ new.claimHistory = tx.claimHistory \cup closed
      /\ new.activeClaim = grant /\ new.records = tx.records
  <2> HIDE DEF grant, closed, epoch
  <2> QED
    BY <1>1 DEF Transaction
<1>10. TxInv(new)
  <2> HIDE DEF new
  <2>1. mode = "mutation" /\ tx.status = "reconciled" => AllCompleted(tx.operations)
    <3> SUFFICES ASSUME mode = "mutation", tx.status = "reconciled",
                        NEW i \in DOMAIN tx.operations
                 PROVE  tx.operations[i].status \in Completed
      BY DEF AllCompleted
    <3>1. tx.operations[i].status # "confirmed_not_applied"
      BY <1>6 DEF hasConfirmedNotAppliedOperation
    <3>2. Len(tx.operations) \in Nat /\ DOMAIN tx.operations = 1 .. Len(tx.operations)
      BY <1>1 DEF Transaction
    <3>3. CASE i < Len(tx.operations)
      BY <1>1, <3>3 DEF TxInv, InOrder
    <3>4. CASE i = Len(tx.operations)
      BY <1>1, <3>1, <3>4 DEF TxInv, Agrees, Completed
    <3> QED
      BY <3>2, <3>3, <3>4
  <2>2. tx.target = Nil => tx.operations = <<>>
    BY <1>1 DEF TxInv, Bound
  <2>3. mode = "mutation" => AllCompleted(tx.operations)
    BY <1>1, <1>6, <2>1
       DEF TxInv, Agrees, validateClaimModeForStatus, AllCompleted
  <2>4. Agrees(new)
    BY <1>1, <1>6, <1>7, <1>9, <2>2, <2>3
       DEF TxInv, Agrees, validateClaimModeForStatus, ClaimMode
  <2>5. InOrder(new) /\ Finished(new)
    BY <1>1, <1>7, <1>9 DEF TxInv, InOrder, Finished
  <2>6. Fresh(new) /\ Bound(new)
    BY <1>1, <1>7, <1>9 DEF TxInv, Fresh, Bound
  <2> QED
    BY <2>4, <2>5, <2>6 DEF TxInv
<1>11. GoodState(c)
  <2> HIDE DEF new, epoch
  <2>1. c \in PersistedState
    BY <1>2, <1>3, <1>8 DEF PersistedState
  <2>2. \A u \in Transactions : c.transactions[u] # Nil => TxInv(c.transactions[u])
    BY <1>2, <1>10 DEF IInv, GoodState, PersistedState
  <2> QED
    BY <2>1, <2>2 DEF GoodState
<1>12. commitLocked(c)
  BY DEF GrantClaim
<1>13. /\ grant # Nil /\ grant.mode = mode /\ grant.lane = lane
       /\ grant.fenceEpoch = epoch /\ grant.stages = stages
  BY <1>4, NilAssumption
<1>14. Advances(tx, new)
  <2>1. KeepsStatus(tx, new)
    BY <1>6, <1>7, <1>9 DEF KeepsStatus, Terminal, validateClaimModeForStatus
  <2>2. new # Nil
    BY <1>8, NilAssumption
  <2> HIDE DEF new, grant, closed, epoch
  <2>3. KeepsHistory(tx, new) /\ KeepsFence(tx, new)
    BY <1>1, <1>3, <1>9 DEF KeepsHistory, KeepsFence, Transaction
  <2> QED
    BY <2>1, <2>2, <2>3 DEF Advances
<1>15. validateTransaction(new, c.fenceEpochs)
  <2>1. c.fenceEpochs[tx.asset] = epoch
    BY <1>1, <1>2 DEF PersistedState, Transaction
  <2>2. stages # {}
    BY CampaignAssumption
  <2>3. \A h \in new.claimHistory : h.fenceEpoch \in 1 .. tx.fenceEpoch
    <3>1. \A h \in tx.claimHistory : h.fenceEpoch \in 1 .. tx.fenceEpoch
      BY <1>1 DEF validateTransaction
    <3>2. \A h \in closed : h.fenceEpoch \in 1 .. tx.fenceEpoch
      BY <1>1 DEF validateTransaction, validateClaim, Closed
    <3> QED
      BY <1>9, <3>1, <3>2
  <2>4. \A l \in Lanes, e \in Nat :
           claimIdentityExists(tx, l, e) => claimIdentityExists(new, l, e)
    <3>1. tx.activeClaim # Nil => Closed(tx.activeClaim) \in closed
      OBVIOUS
    <3> HIDE DEF new, closed
    <3> QED
      BY <1>9, <3>1 DEF claimIdentityExists, Closed
  <2> HIDE DEF new, grant, closed, epoch, c
  <2>5. \A i \in DOMAIN tx.operations : validateStoredOperation(tx.operations[i], new)
    <3>1. tx.operations # <<>> => tx.target # Nil
      BY <1>1 DEF TxInv, Bound
    <3>2. new.fenceEpoch >= tx.fenceEpoch
      BY <1>3, <1>9
    <3> QED
      BY <1>1, <1>8, <1>9, <2>4, <3>1, <3>2, OperationsStayValid
  <2>6. new.status # "security_applied"
    BY <1>7, <1>9
  <2>7. new.target # Nil => new.target.fenceEpoch \in 1 .. new.fenceEpoch
    <3>1. new.target # Nil => new.target.fenceEpoch \in 1 .. tx.fenceEpoch
      BY <1>1, <1>9 DEF validateTransaction
    <3> QED
      BY <1>3, <1>9, <3>1
  <2>8. \A h \in new.claimHistory : h.fenceEpoch \in 1 .. new.fenceEpoch
    BY <1>3, <1>9, <2>3
  <2>9. validateClaim(new.activeClaim, new)
    BY <1>3, <1>9, <1>13, <2>2 DEF validateClaim
  <2>10. \A i \in DOMAIN tx.operations :
            /\ SamePlanBindings(tx.operations[i].approval, tx.operations[1].approval)
            /\ i < Len(tx.operations) =>
                  tx.operations[i].status # "confirmed_not_applied"
    BY <1>1 DEF validateTransaction
  <2>11. (new.activeClaim # Nil /\ hasConfirmedNotAppliedOperation(new.operations)) =>
            new.activeClaim.mode # "mutation"
    BY <1>6, <1>9, <1>13
  <2>12. TerminalRecordsMatch(new)
    <3>1. \/ new.status = tx.status
          \/ tx.status \notin Terminal /\ new.status \notin Terminal
      BY <1>6, <1>7, <1>9 DEF validateClaimModeForStatus, Terminal
    <3> QED
      BY <1>1, <1>9, <3>1, RecordsUntouched
  <2> QED
    BY <1>3, <1>9, <2>1, <2>5, <2>6, <2>7, <2>8, <2>9, <2>10, <2>11, <2>12
       DEF validateTransaction
<1>16. /\ c.transactions[t] = new
       /\ \A u \in Transactions : u # t => c.transactions[u] = state.transactions[u]
       /\ c.fenceEpochs[tx.asset] = epoch
       /\ \A a \in Assets : a # tx.asset => c.fenceEpochs[a] = state.fenceEpochs[a]
  BY <1>1, <1>2 DEF PersistedState, Transaction
<1>17. /\ World(state, now) /\ Follows(state, state)
       /\ validatePersistedState(state)
       /\ tx # Nil /\ new # Nil
       /\ \A u \in Transactions :
             state.transactions[u] # Nil => state.transactions[u].asset \in Assets
  BY <1>2, <1>8, NilAssumption, FollowsItself
     DEF IInv, Exists, PersistedState, Transaction
<1>18. ensureClaimResourcesAvailable(t, lane)
  BY DEF ClaimGrantable
<1>19. state.fenceEpochs[tx.asset] = tx.fenceEpoch
  BY <1>1 DEF CurrentFence
<1> HIDE DEF new, grant, closed, epoch, c
<1>20. \A u \in Transactions :
          (u # t /\ state.transactions[u] # Nil) => state.transactions[u].asset # tx.asset
  BY <1>17 DEF World, Reserved
<1>21. World(c, now)
  <2>1. Reserved(c)
    BY <1>9, <1>16, <1>17 DEF World, Reserved
  <2>2. Fenced(c)
    BY <1>9, <1>13, <1>16, <1>17, <1>20 DEF World, Fenced, CurrentFence
  <2>3. LanesHeld(c, now)
    BY <1>9, <1>13, <1>16, <1>17, <1>18
       DEF World, LanesHeld, LiveAt, ensureClaimResourcesAvailable
  <2>4. \A u \in Transactions :
           c.transactions[u] # Nil => Timely(c.transactions[u], now)
    BY <1>9, <1>16, <1>17 DEF World, Timely
  <2> QED
    BY <2>1, <2>2, <2>3, <2>4 DEF World
<1>22. Follows(state, c)
  BY <1>14, <1>16, <1>17 DEF Follows
<1>23. validatePersistedState(c)
  <2> SUFFICES ASSUME NEW u \in Transactions, c.transactions[u] # Nil
               PROVE  validateTransaction(c.transactions[u], c.fenceEpochs)
    BY DEF validatePersistedState
  <2>1. CASE u = t
    BY <1>15, <1>16, <2>1
  <2>2. CASE u # t
    <3>1. /\ c.transactions[u] = state.transactions[u]
          /\ validateTransaction(state.transactions[u], state.fenceEpochs)
          /\ c.fenceEpochs[state.transactions[u].asset]
                = state.fenceEpochs[state.transactions[u].asset]
      BY <1>16, <1>17, <1>20, <2>2 DEF validatePersistedState
    <3> QED
      BY <3>1 DEF validateTransaction
  <2> QED
    BY <2>1, <2>2
<1> QED
  BY <1>11, <1>12, <1>21, <1>22, <1>23, CommitPreserves DEF Candidate

\* A new transaction has no claim, no approval and no history.
LEMMA CreateTransactionPreserves ==
    ASSUME IInv, NEW t \in Transactions, NEW asset \in Assets,
           NEW logicalID \in LogicalIDs, CreateTransaction(t, asset, logicalID)
    PROVE  IInv' /\ Follows(state, state')
<1> DEFINE new == [status |-> "created", asset |-> asset,
                   logicalID |-> logicalID, fenceEpoch |-> 0,
                   activeClaim |-> Nil, claimHistory |-> {}, target |-> Nil,
                   approval |-> Nil, operations |-> <<>>, records |-> {}]
<1>1. new \in Transaction
  BY DEF Transaction, TransactionStatus, Terminal
<1>2. TxInv(new)
  BY CampaignAssumption DEF TxInv, InOrder, Agrees, Fresh, Finished, Bound
<1>3. mutate(t, new)
  BY DEF CreateTransaction
<1> DEFINE c == [state EXCEPT !.transactions[t] = new]
<1>4. state \in PersistedState /\ World(state, now) /\ Follows(state, state)
  BY FollowsItself DEF IInv, GoodState
<1>5. /\ c.transactions[t] = new
      /\ \A u \in Transactions : u # t => c.transactions[u] = state.transactions[u]
      /\ c.fenceEpochs = state.fenceEpochs
  BY <1>4 DEF PersistedState
<1>6. GoodState(c)
  BY <1>1, <1>2, UpdateIsGood
<1>7. /\ new # Nil /\ new.asset = asset /\ new.fenceEpoch = 0
      /\ new.activeClaim = Nil /\ new.approval = Nil
  BY <1>1, NilAssumption
<1>8. /\ state.transactions[t] = Nil
      /\ \A u \in Transactions :
            state.transactions[u] # Nil => state.transactions[u].asset # asset
  BY DEF CreateTransaction, Unreserved, Exists
<1>9. state.fenceEpochs[asset] = 0
  BY <1>4, <1>8 DEF World, Reserved
<1>10. validateTransaction(new, state.fenceEpochs)
  BY <1>9 DEF validateTransaction, TerminalRecordsMatch, Terminal
<1> HIDE DEF c, new
<1>11. World(c, now)
  <2>1. Reserved(c)
    BY <1>4, <1>5, <1>7, <1>8 DEF World, Reserved
  <2>2. Fenced(c)
    BY <1>4, <1>5, <1>7, <1>9 DEF World, Fenced, CurrentFence
  <2>3. LanesHeld(c, now)
    BY <1>4, <1>5, <1>7 DEF World, LanesHeld, LiveAt
  <2>4. \A u \in Transactions :
           c.transactions[u] # Nil => Timely(c.transactions[u], now)
    BY <1>4, <1>5, <1>7 DEF World, Timely
  <2> QED
    BY <2>1, <2>2, <2>3, <2>4 DEF World
<1>12. Follows(state, c)
  BY <1>4, <1>5, <1>8 DEF Follows
<1>13. validatePersistedState(c)
  BY <1>5, <1>10 DEF IInv, validatePersistedState
<1>14. commitLocked(c)
  BY <1>3 DEF mutate, c
<1> QED
  BY <1>6, <1>11, <1>12, <1>13, <1>14, CommitPreserves DEF Candidate

\* A claim that is live and an approval that is timely at a later time were so
\* before.
LEMMA WorldAges ==
    ASSUME NEW s, GoodState(s), NEW time \in Nat, World(s, time)
    PROVE  World(s, time + 1)
<1>1. \A t \in Transactions :
         s.transactions[t] # Nil => s.transactions[t] \in Transaction
  BY DEF GoodState, PersistedState
<1>2. \A t \in Transactions :
         LiveAt(s.transactions[t], time + 1) => LiveAt(s.transactions[t], time)
  BY <1>1 DEF LiveAt, Transaction, Claim
<1>3. LanesHeld(s, time + 1)
  BY <1>2 DEF World, LanesHeld
<1>4. ASSUME NEW t \in Transactions, s.transactions[t] # Nil
      PROVE  Timely(s.transactions[t], time + 1)
  <2>1. Timely(s.transactions[t], time)
    BY <1>4 DEF World
  <2>2. s.transactions[t].approval # Nil => s.transactions[t].approval \in Approval
    BY <1>1, <1>4 DEF Transaction
  <2> QED
    BY <2>1, <2>2, BoundsAssumption DEF Timely, Approval
<1> QED
  BY <1>3, <1>4 DEF World

\* The clock and a restart keep the invariant; a restart may take over the one
\* request whose save failed.
LEMMA EnvironmentPreserves ==
    ASSUME IInv, Tick \/ NewService
    PROVE  IInv' /\ Follows(state, state')
<1>1. CASE Tick
  <2>1. /\ state' = state /\ store' = store /\ now' = now + 1
        /\ saveFailures' = saveFailures /\ corruptReply' = corruptReply
    BY <1>1 DEF Tick
  <2>2. World(state, now + 1) /\ World(store, now + 1) /\ now + 1 \in Nat
    BY WorldAges DEF IInv
  <2>3. Follows(state, state)
    BY FollowsItself DEF IInv
  <2> QED
    BY <2>1, <2>2, <2>3 DEF IInv
<1>2. CASE NewService
  <2>1. /\ state' = store /\ store' = store /\ now' = now
        /\ saveFailures' = saveFailures /\ corruptReply' = corruptReply
    BY <1>2 DEF NewService
  <2>2. Follows(store, store)
    BY FollowsItself DEF IInv
  <2> QED
    BY <2>1, <2>2 DEF IInv
<1> QED
  BY <1>1, <1>2

\* The empty store satisfies the invariant.
LEMMA InitGood == Init => IInv
<1> SUFFICES ASSUME Init PROVE IInv
  OBVIOUS
<1>1. GoodState(state)
  BY DEF Init, GoodState, PersistedState
<1>2. \A t \in Transactions : state.transactions[t] = Nil
  BY DEF Init
<1>3. World(state, now)
  BY <1>2 DEF World, Reserved, Fenced, LanesHeld, LiveAt, Init
<1>4. validatePersistedState(state) /\ Follows(state, state)
  BY <1>1, <1>2, FollowsItself DEF validatePersistedState
<1> QED
  BY <1>1, <1>3, <1>4 DEF Init, IInv

\* A step that changes nothing keeps the invariant.
LEMMA StutterPreserves ==
    ASSUME IInv, UNCHANGED vars
    PROVE  IInv' /\ Follows(state, state')
<1>1. Follows(state, state)
  BY FollowsItself DEF IInv
<1> QED
  BY <1>1 DEF IInv, vars

\* Every request, failing save, restart and tick of the clock preserves the
\* invariant of the memory and of the store, and takes the memory to a state
\* that one request could have made of it.
LEMMA NextPreserves ==
    ASSUME IInv, [Next]_vars
    PROVE  IInv' /\ Follows(state, state')
<1>1. CASE \E t \in Transactions, a \in Assets, l \in LogicalIDs :
             CreateTransaction(t, a, l)
  BY <1>1, CreateTransactionPreserves
<1>2. CASE \E t \in Transactions, m \in ClaimMode, l \in Lanes, s \in StageSets,
             d \in LeaseDurations : AcquireClaim(t, m, l, s, d)
  BY <1>2, GrantClaimPreserves DEF AcquireClaim
<1>3. CASE \E t \in Transactions, e \in Epochs, m \in ClaimMode, l \in Lanes,
             s \in StageSets, d \in LeaseDurations : TransferClaim(t, e, m, l, s, d)
  BY <1>3, GrantClaimPreserves DEF TransferClaim
<1>4. CASE \E t \in Transactions, e \in Epochs, p \in Plans \cup {Nil},
             x \in (1 .. MaxTime + MaxApprovalLifetime) \cup {Nil},
             d \in LeaseDurations : RenewClaim(t, e, p, x, d)
  BY <1>4, RenewClaimPreserves
<1>5. CASE \E t \in Transactions, e \in Epochs : ReleaseClaim(t, e)
  BY <1>5, ReleaseClaimPreserves
<1>6. CASE \E t \in Transactions, e \in Epochs, f \in Targets, u \in BOOLEAN :
             BindTarget(t, e, f, u)
  BY <1>6, BindTargetPreserves
<1>7. CASE \E t \in Transactions, e \in Epochs, p \in Plans, r \in Releases,
             f \in Targets, x \in 1 .. MaxTime + MaxApprovalLifetime :
             RecordApproval(t, e, p, r, f, x)
  <2>1. 1 .. MaxTime + MaxApprovalLifetime \subseteq Nat
    BY BoundsAssumption
  <2> QED
    BY <1>7, <2>1, RecordApprovalPreserves
<1>8. CASE \E t \in Transactions, e \in Epochs, p \in Plans, o \in Operations :
             RecordIntent(t, e, p, o)
  BY <1>8, RecordIntentPreserves
<1>9. CASE \E t \in Transactions, e \in Epochs, i \in DOMAIN Campaign,
             r \in {"succeeded", "failed", "uncertain"} : RecordEvidence(t, e, i, r)
  BY <1>9, RecordEvidencePreserves
<1>10. CASE \E t \in Transactions, e \in Epochs, i \in DOMAIN Campaign,
             r \in {"confirmed_applied", "confirmed_not_applied", "unknown"},
             o \in ReconciliationOutputs : RecordReconciliation(t, e, i, r, o)
  BY <1>10, RecordReconciliationPreserves
<1>11. CASE \E t \in Transactions, e \in Epochs : QuarantineDevice(t, e)
  BY <1>11, QuarantineDevicePreserves
<1>12. CASE \E t \in Transactions, e \in Epochs : AbortTransaction(t, e)
  BY <1>12, AbortTransactionPreserves
<1>13. CASE \E t \in Transactions, e \in Epochs, p \in Plans :
             MarkSecurityApplied(t, e, p)
  BY <1>13, MarkSecurityAppliedPreserves
<1>14. CASE Tick \/ NewService
  BY <1>14, EnvironmentPreserves
<1>15. CASE UNCHANGED vars
  BY <1>15, StutterPreserves
<1> QED
  BY <1>1, <1>2, <1>3, <1>4, <1>5, <1>6, <1>7, <1>8, <1>9, <1>10, <1>11, <1>12,
     <1>13, <1>14, <1>15 DEF Next

-----------------------------------------------------------------------------
(***************************************************************************)
(* The theorems.                                                           *)
(***************************************************************************)

\* The inductive invariant holds of the memory and of the store in every
\* behaviour of the control plane.
THEOREM Invariance == Spec => []IInv
<1>1. Init => IInv
  BY InitGood
<1>2. IInv /\ [Next]_vars => IInv'
  BY NextPreserves
<1> QED
  BY <1>1, <1>2, PTL DEF Spec

\* Memory and store always hold well-formed persisted states.
THEOREM TypeCorrect == Spec => []TypeOK
<1>1. IInv => TypeOK
  BY DEF IInv, GoodState, TypeOK
<1> QED
  BY <1>1, Invariance, PTL

\* RecordIntent's history is a prefix of the campaign whose operations before
\* the last are complete, under one plan: nothing is skipped or done twice.
THEOREM CampaignIsInOrder == Spec => []CampaignInOrder
<1>1. IInv => CampaignInOrder
  BY DEF IInv, GoodState, TxInv, CampaignInOrder, Exists
<1> QED
  BY <1>1, Invariance, PTL

\* An unresolved operation is never hidden behind a status in which the
\* campaign could go on.
THEOREM StatusIsHonest == Spec => []StatusAgreesWithHistory
<1>1. IInv => StatusAgreesWithHistory
  BY DEF IInv, GoodState, TxInv, StatusAgreesWithHistory, Exists
<1> QED
  BY <1>1, Invariance, PTL

\* An approval is present only with the claim, lane, target and fence epoch
\* that it was given for.
THEOREM ApprovalFencing == Spec => []ApprovalIsFenced
<1>1. IInv => ApprovalIsFenced
  BY DEF IInv, GoodState, TxInv, ApprovalIsFenced, Exists
<1> QED
  BY <1>1, Invariance, PTL

\* security_applied means that the whole campaign is complete, in order, under
\* the final approval's plan.
THEOREM SecurityAppliedSound == Spec => []SecurityAppliedIsComplete
<1>1. IInv => SecurityAppliedIsComplete
  BY DEF IInv, GoodState, TxInv, SecurityAppliedIsComplete, Exists
<1> QED
  BY <1>1, Invariance, PTL

\* Two transactions never hold unexpired claims on one lane or one asset, for
\* any number of stations, leases and restarts: what
\* ensureClaimResourcesAvailable looked at still holds when a claim is renewed
\* or when the save of another request was lost.
THEOREM LaneExclusion == Spec => []LanesAreExclusive
<1>1. IInv => LanesAreExclusive
  <2> SUFFICES ASSUME IInv PROVE LanesAreExclusive
    OBVIOUS
  <2>1. LanesHeld(state, now) /\ Reserved(state)
    BY DEF IInv, World
  <2> QED
    BY <2>1 DEF LanesAreExclusive, LanesHeld, Reserved, Live, LiveAt
<1> QED
  BY <1>1, Invariance, PTL

\* The fence epoch of a transaction and of its claim is the newest epoch that
\* the control plane gave out for the asset.
THEOREM FenceCurrency == Spec => []FenceIsCurrent
<1>1. IInv => FenceIsCurrent
  <2> SUFFICES ASSUME IInv PROVE FenceIsCurrent
    OBVIOUS
  <2>1. Fenced(state)
    BY DEF IInv, World
  <2> QED
    BY <2>1 DEF FenceIsCurrent, Fenced, CurrentFence, Exists
<1> QED
  BY <1>1, Invariance, PTL

\* When every reconciliation carries an output digest, no request that passes
\* its handler's checks is refused by the store's validator, so ErrCorruptStore
\* is never the answer to a legal request.
THEOREM HandlersAgreeWithStore ==
    ASSUME ReconciliationOutputs \subseteq {TRUE}
    PROVE  Spec => []HandlersSatisfyTheStore
<1>1. IInv => HandlersSatisfyTheStore
  BY DEF IInv, OutputsGiven, HandlersSatisfyTheStore
<1> QED
  BY <1>1, Invariance, PTL

\* No request and no restart takes a transaction out of a terminal status.
THEOREM TerminalStatusIsFinal == Spec => TerminalIsFinal
<1>1. IInv /\ [Next]_vars =>
        [\A t \in Transactions :
           (Exists(t) /\ state.transactions[t].status \in Terminal) =>
              state'.transactions[t].status = state.transactions[t].status]_vars
  BY NextPreserves DEF Follows, Advances, KeepsStatus, Exists
<1> QED
  BY <1>1, Invariance, PTL DEF Spec, TerminalIsFinal

\* The write-ahead history only grows, by one authorised intent at a time, and
\* keeps its resolved records and its approval snapshots, through failing saves
\* and restarts too.
THEOREM HistoryOnlyGrows == Spec => HistoryIsAppendOnly
<1>1. IInv /\ [Next]_vars =>
        [\A t \in Transactions : Exists(t) =>
          LET old == state.transactions[t]
              new == state'.transactions[t]
          IN
          /\ new # Nil
          /\ Len(new.operations) >= Len(old.operations)
          /\ \A i \in DOMAIN old.operations :
                /\ old.operations[i].status \notin Unresolved =>
                      new.operations[i] = old.operations[i]
                /\ new.operations[i].approval = old.operations[i].approval
          /\ Len(new.operations) > Len(old.operations) =>
                /\ old.status = "commit_approved"
                /\ new.operations[Len(new.operations)].approval.fenceEpoch
                      = old.fenceEpoch]_vars
  BY NextPreserves DEF Follows, Advances, KeepsHistory, Exists
<1> QED
  BY <1>1, Invariance, PTL DEF Spec, HistoryIsAppendOnly

\* A fence epoch never goes back, and while it stays the same the claim stays
\* on its lane and in its mode: a station with an older epoch can be told apart.
THEOREM EpochIdentifiesClaim == Spec => EpochNamesOneClaim
<1>1. IInv /\ [Next]_vars =>
        [\A t \in Transactions : Exists(t) =>
          LET old == state.transactions[t]
              new == state'.transactions[t]
          IN
          /\ new.fenceEpoch >= old.fenceEpoch
          /\ (new.activeClaim # Nil /\ new.fenceEpoch = old.fenceEpoch) =>
                /\ old.activeClaim # Nil
                /\ new.activeClaim.lane = old.activeClaim.lane
                /\ new.activeClaim.mode = old.activeClaim.mode]_vars
  BY NextPreserves DEF Follows, Advances, KeepsFence, Exists
<1> QED
  BY <1>1, Invariance, PTL DEF Spec, EpochNamesOneClaim
=============================================================================
