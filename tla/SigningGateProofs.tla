-------------------------- MODULE SigningGateProofs --------------------------
(***************************************************************************)
(* The signing gate uses its key at most once for a grant, and the receipts*)
(* it returns are durable and authorized, for every set of processes,      *)
(* registries and grants and every number of failing writes.               *)
(***************************************************************************)
EXTENDS SigningGate, TLAPS

Past(gate) == pc[gate] \in {"intent", "signed", "attested"}

\* Who is past the lock holds it, so there is one at most.
Exclusive == \A gate \in Gates : pc[gate] \notin {"idle", "waiting"} => lock = gate

\* Past the durable intent, the file of the call's grant is that intent, and
\* the key has not been used while the call is just there.
IntentStands ==
    \A gate \in Gates :
        Past(gate) =>
            /\ call[gate].grant \in Grant
            /\ files[call[gate].grant.id] =
                  [status |-> "intent", request |-> call[gate].grant.request, receipt |-> Nil]
            /\ pc[gate] = "intent" => keyUses[call[gate].grant.id] = 0

\* A receipt that is about to be saved is one for the call's grant.
ReceiptReady ==
    \A gate \in Gates :
        pc[gate] = "attested" =>
            /\ call[gate].receipt \in Receipt
            /\ call[gate].receipt.grant = call[gate].grant
            /\ call[gate].receipt.signedAt < call[gate].grant.expiresAt

\* A grant without a file has not been used.
UnusedWithoutFile == \A id \in GrantIDs : files[id] = Nil => keyUses[id] = 0

\* The receipt of a file is one for its request.
FilesAreAuthorized ==
    \A id \in GrantIDs :
        files[id] # Nil /\ files[id].status = "complete" =>
            /\ files[id].receipt.grant.id = id
            /\ files[id].receipt.grant.request = files[id].request
            /\ files[id].receipt.signedAt < files[id].receipt.grant.expiresAt

IInv ==
    /\ TypeOK
    /\ Exclusive
    /\ IntentStands
    /\ ReceiptReady
    /\ UnusedWithoutFile
    /\ FilesAreAuthorized
    /\ KeyUsedOnce
    /\ ReceiptsAreDurable
    /\ ReceiptsAreAuthorized

\* A gate without state files satisfies the invariant.
LEMMA InitEstablishes == Init => IInv
  BY RegistriesAssumption, NilAssumption
  DEF Init, IInv, TypeOK, Exclusive, IntentStands, ReceiptReady, UnusedWithoutFile,
      FilesAreAuthorized, KeyUsedOnce, ReceiptsAreDurable, ReceiptsAreAuthorized, Past, NoCall

Calls == [artifact : Artifacts \cup {Nil}, grant : Grant \cup {Nil},
          receipt : Receipt \cup {Nil}]

\* A call that returns, waits for the lock or has just taken it leaves the
\* files and the key alone: only the parts of the invariant about processes
\* and results are at stake.
LEMMA QuietStep ==
  ASSUME IInv, NEW gate \in Gates, NEW step \in {"idle", "waiting", "locked"},
         NEW value \in Calls,
         pc' = [pc EXCEPT ![gate] = step],
         call' = [call EXCEPT ![gate] = value],
         registry' \in [Gates -> Registries],
         \/ step = "locked" /\ lock = Nil /\ lock' = gate
         \/ step # "locked" /\ lock' = IF lock = gate THEN Nil ELSE lock
         \/ step = "waiting" /\ lock' = lock,
         results' \subseteq [grant : Grant, receipt : Receipt],
         ReceiptsAreDurable',
         ReceiptsAreAuthorized',
         UNCHANGED <<files, keyUses, now, writeFailures>>
  PROVE  IInv'
<1>1. TypeOK'
  BY DEF IInv, TypeOK, Calls
<1>2. Exclusive'
  BY NilAssumption DEF IInv, TypeOK, Exclusive
<1>3. IntentStands'
  BY DEF IInv, TypeOK, IntentStands, Past
<1>4. ReceiptReady'
  BY DEF IInv, TypeOK, ReceiptReady
<1>5. UnusedWithoutFile' /\ FilesAreAuthorized' /\ KeyUsedOnce'
  BY DEF IInv, UnusedWithoutFile, FilesAreAuthorized, KeyUsedOnce
<1> QED BY <1>1, <1>2, <1>3, <1>4, <1>5 DEF IInv

\* A receipt that is read from a file that validates may be returned.
LEMMA ReadReceipts ==
  ASSUME IInv, UNCHANGED files,
         NEW grants \in SUBSET Grant,
         \A grant \in grants :
            /\ files[grant.id] # Nil
            /\ validateFor(files[grant.id], grant)
            /\ files[grant.id].status = "complete",
         results' = results \cup
            {[grant |-> grant, receipt |-> files[grant.id].receipt] : grant \in grants}
  PROVE  /\ results' \subseteq [grant : Grant, receipt : Receipt]
         /\ ReceiptsAreDurable'
         /\ ReceiptsAreAuthorized'
<1>1. ASSUME NEW grant \in grants
      PROVE  /\ grant.id \in GrantIDs
             /\ files[grant.id].receipt \in Receipt
             /\ files[grant.id].receipt.grant.id = grant.id
             /\ files[grant.id].receipt.grant.request = grant.request
             /\ files[grant.id].receipt.signedAt < files[grant.id].receipt.grant.expiresAt
  BY <1>1 DEF IInv, TypeOK, FilesAreAuthorized, validateFor, Grant, DurableState
<1>2. results' \subseteq [grant : Grant, receipt : Receipt]
  BY <1>1 DEF IInv, TypeOK
<1>3. ReceiptsAreDurable'
  BY <1>1 DEF IInv, ReceiptsAreDurable
<1>4. ReceiptsAreAuthorized'
  BY <1>1 DEF IInv, ReceiptsAreAuthorized
<1> QED BY <1>2, <1>3, <1>4

\* A replay returns the receipt that the file holds.
LEMMA ReplayedStep == ASSUME IInv, NEW gate \in Gates, Replayed(gate) PROVE IInv'
<1>1. PICK grant \in registry[gate] :
          /\ CurrentGrant(registry[gate], call[gate].artifact, grant)
          /\ files[grant.id] # Nil
          /\ validateFor(files[grant.id], grant)
          /\ files[grant.id].status = "complete"
          /\ results' = results \cup
                {[grant |-> grant, receipt |-> files[grant.id].receipt]}
  BY DEF Replayed
<1>2. {grant} \in SUBSET Grant
  BY RegistriesAssumption DEF IInv, TypeOK
<1>3. results' = results \cup
         {[grant |-> g, receipt |-> files[g.id].receipt] : g \in {grant}}
  BY <1>1
<1>4. /\ results' \subseteq [grant : Grant, receipt : Receipt]
      /\ ReceiptsAreDurable'
      /\ ReceiptsAreAuthorized'
  <2>1. UNCHANGED files
    BY DEF Replayed
  <2> QED BY <1>1, <1>2, <1>3, <2>1, ReadReceipts
<1>5. NoCall \in Calls
  BY DEF NoCall, Calls
<1> QED
  BY <1>4, <1>5, QuietStep DEF Replayed, Returns, Goes, IInv, TypeOK

\* Returning without a result.
LEMMA ReturnsStep ==
  ASSUME IInv, NEW gate \in Gates, Returns(gate),
         UNCHANGED <<files, keyUses, results, now, writeFailures>>
  PROVE  IInv'
<1>1. NoCall \in Calls
  BY DEF NoCall, Calls
<1>2. ReceiptsAreDurable' /\ ReceiptsAreAuthorized'
  BY DEF IInv, ReceiptsAreDurable, ReceiptsAreAuthorized
<1> QED
  BY <1>1, <1>2, QuietStep DEF Returns, Goes, IInv, TypeOK

\* Taking a connection changes the call of the gate only.
LEMMA SignStep ==
  ASSUME IInv, NEW gate \in Gates, NEW artifact \in Artifacts, Sign(gate, artifact)
  PROVE  IInv'
<1>1. [NoCall EXCEPT !.artifact = artifact] \in Calls
  BY DEF NoCall, Calls
<1>2. ReceiptsAreDurable' /\ ReceiptsAreAuthorized'
  BY DEF Sign, IInv, ReceiptsAreDurable, ReceiptsAreAuthorized
<1> QED
  BY <1>1, <1>2, QuietStep DEF Sign, Goes, IInv, TypeOK

\* Taking the free lock keeps the lock exclusive.
LEMMA withExclusiveStep ==
  ASSUME IInv, NEW gate \in Gates, withExclusive(gate) PROVE IInv'
<1>1. call[gate] \in Calls
  BY DEF IInv, TypeOK, Calls
<1>2. ReceiptsAreDurable' /\ ReceiptsAreAuthorized'
  BY DEF withExclusive, IInv, ReceiptsAreDurable, ReceiptsAreAuthorized
<1> QED
  BY <1>1, <1>2, QuietStep DEF withExclusive, Goes, IInv, TypeOK

\* A process that dies lets go of the lock, whatever it was doing.
LEMMA NewGateStep ==
  ASSUME IInv, NEW gate \in Gates, NEW grants \in Registries, NewGate(gate, grants)
  PROVE  IInv'
<1>1. NoCall \in Calls
  BY DEF NoCall, Calls
<1>2. ReceiptsAreDurable' /\ ReceiptsAreAuthorized'
  BY DEF NewGate, IInv, ReceiptsAreDurable, ReceiptsAreAuthorized
<1> QED
  BY <1>1, <1>2, QuietStep DEF NewGate, IInv, TypeOK

\* While one process is past the lock the others are idle or waiting.
LEMMA OthersWait ==
  ASSUME IInv, NEW gate \in Gates, pc[gate] \notin {"idle", "waiting"},
         NEW other \in Gates \ {gate}
  PROVE  pc[other] \in {"idle", "waiting"}
  BY DEF IInv, Exclusive

\* The intent is written for a grant whose key was never used.
LEMMA RecordIntentStep ==
  ASSUME IInv, NEW gate \in Gates, RecordIntent(gate) PROVE IInv'
<1>1. PICK grant \in registry[gate] :
         LET intent == [status |-> "intent", request |-> grant.request, receipt |-> Nil]
         IN  /\ CurrentGrant(registry[gate], call[gate].artifact, grant)
             /\ NoState(grant)
             /\ \/ /\ Written(grant.id, intent)
                   /\ Goes(gate, "intent", [call[gate] EXCEPT !.grant = grant])
                   /\ UNCHANGED lock
                \/ WriteFailed(grant.id, intent) /\ Returns(gate)
  BY DEF RecordIntent
<1> DEFINE intent == [status |-> "intent", request |-> grant.request, receipt |-> Nil]
<1>2. grant \in Grant /\ grant.id \in GrantIDs /\ grant.request \in Request
  BY RegistriesAssumption DEF IInv, TypeOK, Grant
<1>3. intent \in DurableState
  BY <1>2 DEF DurableState
<1>4. files[grant.id] = Nil /\ keyUses[grant.id] = 0
  BY <1>1, <1>2 DEF NoState, IInv, UnusedWithoutFile
<1>5. /\ pc[gate] = "locked" /\ lock = gate
      /\ UNCHANGED <<keyUses, results, now>>
      /\ UNCHANGED registry
  BY <1>1 DEF RecordIntent, At, IInv, Exclusive, Goes, Returns
<1>6. files' \in {files, [files EXCEPT ![grant.id] = intent]} /\ writeFailures' \in Nat
  BY <1>1 DEF Written, WriteFailed, IInv, TypeOK
<1>7. \/ /\ pc' = [pc EXCEPT ![gate] = "intent"]
         /\ call' = [call EXCEPT ![gate] = [call[gate] EXCEPT !.grant = grant]]
         /\ files' = [files EXCEPT ![grant.id] = intent]
         /\ lock' = lock
      \/ /\ pc' = [pc EXCEPT ![gate] = "idle"]
         /\ call' = [call EXCEPT ![gate] = NoCall]
         /\ lock' = Nil
  BY <1>1, <1>5 DEF Written, Goes, Returns
<1> HIDE DEF intent
<1>8. TypeOK'
  <2>1. call' \in [Gates -> Calls]
    BY <1>2, <1>7 DEF IInv, TypeOK, Calls, NoCall
  <2>2. files' \in [GrantIDs -> DurableState \cup {Nil}]
    BY <1>2, <1>3, <1>6 DEF IInv, TypeOK
  <2> QED
    BY <1>5, <1>6, <1>7, <2>1, <2>2 DEF IInv, TypeOK, Calls
<1>9. \A other \in Gates \ {gate} : pc[other] \in {"idle", "waiting"} /\ pc'[other] = pc[other]
  BY <1>5, <1>7, OthersWait DEF IInv, TypeOK
<1>10. Exclusive'
  BY <1>5, <1>7, <1>9 DEF IInv, TypeOK, Exclusive
<1>11. IntentStands'
  BY <1>2, <1>4, <1>5, <1>7, <1>9 DEF IInv, TypeOK, IntentStands, Past, intent
<1>12. ReceiptReady'
  BY <1>7, <1>9 DEF IInv, TypeOK, ReceiptReady
<1>13. UnusedWithoutFile' /\ KeyUsedOnce'
  BY <1>4, <1>5, <1>6 DEF IInv, TypeOK, UnusedWithoutFile, KeyUsedOnce
<1>14. FilesAreAuthorized'
  BY <1>2, <1>6 DEF IInv, TypeOK, FilesAreAuthorized, intent
<1>15. ReceiptsAreDurable' /\ ReceiptsAreAuthorized'
  BY <1>2, <1>4, <1>5, <1>6 DEF IInv, TypeOK, ReceiptsAreDurable, ReceiptsAreAuthorized, Grant
<1> QED
  BY <1>8, <1>10, <1>11, <1>12, <1>13, <1>14, <1>15 DEF IInv

\* One use of the key, by the call that has just recorded the intent.
LEMMA KeyUse ==
  ASSUME IInv, NEW gate \in Gates, pc[gate] = "intent",
         keyUses' = keyUses \/ Used(gate),
         \/ pc' = [pc EXCEPT ![gate] = "signed"] /\ UNCHANGED <<call, lock>>
         \/ Returns(gate),
         UNCHANGED <<files, registry, results, now, writeFailures>>
  PROVE  IInv'
<1> DEFINE id == call[gate].grant.id
<1>1. id \in GrantIDs /\ files[id] # Nil /\ keyUses[id] = 0
  <2>1. call[gate].grant \in Grant
    BY DEF IInv, IntentStands, Past
  <2>2. id \in GrantIDs /\ call[gate].grant.request \in Request
    BY <2>1 DEF Grant
  <2>3. files[id] = [status |-> "intent", request |-> call[gate].grant.request, receipt |-> Nil]
    BY DEF IInv, IntentStands, Past
  <2>4. files[id] \in DurableState
    BY <2>2, <2>3 DEF DurableState
  <2>5. keyUses[id] = 0
    BY DEF IInv, IntentStands, Past
  <2> QED BY <2>2, <2>4, <2>5, AbsentFileAssumption
<1>2. keyUses' \in {keyUses, [keyUses EXCEPT ![id] = @ + 1]}
  BY DEF Used
<1>3. \/ pc' = [pc EXCEPT ![gate] = "signed"] /\ UNCHANGED <<call, lock>>
      \/ /\ pc' = [pc EXCEPT ![gate] = "idle"]
         /\ call' = [call EXCEPT ![gate] = NoCall]
         /\ lock' = Nil
  BY DEF Returns, Goes, IInv, Exclusive
<1> HIDE DEF id
<1>4. TypeOK'
  BY <1>1, <1>2, <1>3 DEF IInv, TypeOK, NoCall
<1>5. \A other \in Gates \ {gate} : pc[other] \in {"idle", "waiting"} /\ pc'[other] = pc[other]
  BY <1>3, OthersWait DEF IInv, TypeOK
<1>6. Exclusive'
  BY <1>3, <1>5 DEF IInv, TypeOK, Exclusive
<1>7. IntentStands'
  BY <1>3, <1>5 DEF IInv, TypeOK, IntentStands, Past
<1>8. ReceiptReady'
  BY <1>3, <1>5 DEF IInv, TypeOK, ReceiptReady
<1>9. UnusedWithoutFile' /\ KeyUsedOnce'
  BY <1>1, <1>2 DEF IInv, TypeOK, UnusedWithoutFile, KeyUsedOnce
<1>10. FilesAreAuthorized' /\ ReceiptsAreDurable' /\ ReceiptsAreAuthorized'
  BY DEF IInv, FilesAreAuthorized, ReceiptsAreDurable, ReceiptsAreAuthorized
<1> QED
  BY <1>4, <1>6, <1>7, <1>8, <1>9, <1>10 DEF IInv

\* The receipt is made while the grant is current.
LEMMA AttestReceiptStep ==
  ASSUME IInv, NEW gate \in Gates, AttestReceipt(gate) PROVE IInv'
<1> DEFINE receipt == [grant |-> call[gate].grant, signedAt |-> now]
<1>1. /\ pc[gate] = "signed" /\ lock = gate
      /\ pc' = [pc EXCEPT ![gate] = "attested"]
      /\ call' = [call EXCEPT ![gate] = [call[gate] EXCEPT !.receipt = receipt]]
      /\ UNCHANGED <<files, lock, registry, keyUses, results, now, writeFailures>>
  BY DEF AttestReceipt, At, Goes, IInv, Exclusive
<1>2. call[gate].grant \in Grant
  BY <1>1 DEF IInv, IntentStands, Past
<1>3. now < call[gate].grant.expiresAt
  BY DEF AttestReceipt, StillGranted, CurrentGrant, Matching
<1>4. receipt \in Receipt
  BY <1>2 DEF Receipt, IInv, TypeOK
<1>5. TypeOK'
  BY <1>1, <1>4 DEF IInv, TypeOK
<1>6. \A other \in Gates \ {gate} : pc[other] \in {"idle", "waiting"} /\ pc'[other] = pc[other]
  BY <1>1, OthersWait DEF IInv, TypeOK
<1>7. Exclusive'
  BY <1>1, <1>6 DEF IInv, TypeOK, Exclusive
<1>8. IntentStands'
  BY <1>1, <1>2, <1>6 DEF IInv, TypeOK, IntentStands, Past
<1>9. ReceiptReady'
  BY <1>1, <1>3, <1>4, <1>6 DEF IInv, TypeOK, ReceiptReady
<1>10. /\ UnusedWithoutFile' /\ FilesAreAuthorized' /\ KeyUsedOnce'
       /\ ReceiptsAreDurable' /\ ReceiptsAreAuthorized'
  BY <1>1 DEF IInv, UnusedWithoutFile, FilesAreAuthorized, KeyUsedOnce,
              ReceiptsAreDurable, ReceiptsAreAuthorized
<1> QED
  BY <1>5, <1>7, <1>8, <1>9, <1>10 DEF IInv

\* The receipt is in the file before it is returned.
LEMMA RecordCompleteStep ==
  ASSUME IInv, NEW gate \in Gates, RecordComplete(gate) PROVE IInv'
<1> DEFINE grant == call[gate].grant
           receipt == call[gate].receipt
           file == Complete(gate)
<1>1. /\ pc[gate] = "attested" /\ lock = gate
      /\ pc' = [pc EXCEPT ![gate] = "idle"]
      /\ call' = [call EXCEPT ![gate] = NoCall]
      /\ lock' = Nil
      /\ UNCHANGED <<registry, keyUses, now>>
  BY DEF RecordComplete, At, Returns, Goes, IInv, Exclusive
<1>2. /\ grant \in Grant /\ grant.id \in GrantIDs /\ grant.request \in Request
      /\ receipt \in Receipt /\ receipt.grant = grant
      /\ receipt.signedAt < grant.expiresAt
      /\ files[grant.id].status = "intent"
  <2>1. /\ call[gate].grant \in Grant
        /\ files[call[gate].grant.id] =
              [status |-> "intent", request |-> call[gate].grant.request, receipt |-> Nil]
    BY <1>1 DEF IInv, IntentStands, Past
  <2>2. grant.id \in GrantIDs /\ grant.request \in Request
    BY <2>1 DEF Grant
  <2>3. /\ receipt \in Receipt /\ receipt.grant = grant
        /\ receipt.signedAt < grant.expiresAt
    BY <1>1 DEF IInv, ReceiptReady
  <2>4. files[grant.id].status = "intent"
    BY <2>1
  <2> QED BY <2>1, <2>2, <2>3, <2>4
<1>3. file = [status |-> "complete", request |-> grant.request, receipt |-> receipt]
  BY DEF Complete
<1>4. file \in DurableState /\ file # Nil
  BY <1>2, <1>3, NilAssumption, AbsentFileAssumption DEF DurableState
<1>5. /\ files' \in {files, [files EXCEPT ![grant.id] = file]}
      /\ writeFailures' \in Nat
      /\ \/ results' = results
         \/ /\ files' = [files EXCEPT ![grant.id] = file]
            /\ results' = results \cup {[grant |-> grant, receipt |-> receipt]}
  BY DEF RecordComplete, Written, WriteFailed, Result, IInv, TypeOK
<1> HIDE DEF grant, receipt, file
<1>6. TypeOK'
  <2>1. files' \in [GrantIDs -> DurableState \cup {Nil}]
    BY <1>2, <1>4, <1>5 DEF IInv, TypeOK
  <2>2. results' \subseteq [grant : Grant, receipt : Receipt]
    BY <1>2, <1>5 DEF IInv, TypeOK
  <2> QED
    BY <1>1, <1>5, <2>1, <2>2 DEF IInv, TypeOK, NoCall
<1>7. \A other \in Gates : pc'[other] \in {"idle", "waiting"}
  BY <1>1, OthersWait DEF IInv, TypeOK
<1>8. Exclusive' /\ IntentStands' /\ ReceiptReady'
  BY <1>7 DEF Exclusive, IntentStands, ReceiptReady, Past
<1>9. UnusedWithoutFile' /\ KeyUsedOnce'
  BY <1>1, <1>2, <1>4, <1>5 DEF IInv, TypeOK, UnusedWithoutFile, KeyUsedOnce
<1>10. FilesAreAuthorized'
  BY <1>2, <1>3, <1>5 DEF IInv, TypeOK, FilesAreAuthorized
<1>11. ReceiptsAreDurable'
  <2>1. ASSUME NEW result \in results PROVE result.grant.id # grant.id
    BY <1>2, <2>1 DEF IInv, ReceiptsAreDurable
  <2>2. ASSUME NEW result \in results
        PROVE  /\ files'[result.grant.id] # Nil
               /\ files'[result.grant.id].status = "complete"
               /\ files'[result.grant.id].receipt = result.receipt
    <3>1. result.grant.id \in GrantIDs
      BY <2>2 DEF IInv, TypeOK, Grant
    <3>2. files'[result.grant.id] = files[result.grant.id]
      BY <1>5, <2>1, <2>2, <3>1 DEF IInv, TypeOK
    <3> QED BY <2>2, <3>2 DEF IInv, ReceiptsAreDurable
  <2>3. files' = [files EXCEPT ![grant.id] = file] =>
           files'[grant.id] # Nil /\ files'[grant.id].status = "complete"
             /\ files'[grant.id].receipt = receipt
    BY <1>2, <1>3, <1>4 DEF IInv, TypeOK
  <2> QED BY <1>5, <2>2, <2>3 DEF ReceiptsAreDurable
<1>12. ReceiptsAreAuthorized'
  BY <1>2, <1>5 DEF IInv, ReceiptsAreAuthorized
<1> QED
  BY <1>6, <1>8, <1>9, <1>10, <1>11, <1>12 DEF IInv

\* The export returns what the files hold.
LEMMA SnapshotStep ==
  ASSUME IInv, NEW grants \in Registries, ReadCompleteStateSnapshot(grants) PROVE IInv'
<1>1. grants \in SUBSET Grant
  BY RegistriesAssumption
<1>2. UNCHANGED <<files, lock, processVars, keyUses, now, writeFailures>>
  BY DEF ReadCompleteStateSnapshot
<1>3. /\ results' \subseteq [grant : Grant, receipt : Receipt]
      /\ ReceiptsAreDurable'
      /\ ReceiptsAreAuthorized'
  BY <1>1, <1>2, ReadReceipts DEF ReadCompleteStateSnapshot
<1>4. TypeOK'
  BY <1>2, <1>3 DEF IInv, TypeOK, processVars
<1>5. Exclusive' /\ IntentStands' /\ ReceiptReady'
  BY <1>2 DEF IInv, Exclusive, IntentStands, ReceiptReady, Past, processVars
<1>6. UnusedWithoutFile' /\ FilesAreAuthorized' /\ KeyUsedOnce'
  BY <1>2 DEF IInv, UnusedWithoutFile, FilesAreAuthorized, KeyUsedOnce
<1> QED BY <1>3, <1>4, <1>5, <1>6 DEF IInv

\* A step that changes nothing keeps the invariant.
LEMMA StillStep ==
  ASSUME IInv, now' \in Nat,
         UNCHANGED <<files, lock, processVars, keyUses, results, writeFailures>>
  PROVE  IInv'
  BY DEF IInv, TypeOK, Exclusive, IntentStands, ReceiptReady, UnusedWithoutFile,
         FilesAreAuthorized, KeyUsedOnce, ReceiptsAreDurable, ReceiptsAreAuthorized,
         Past, processVars

\* Every step keeps the invariant.
LEMMA NextPreserves == IInv /\ [Next]_vars => IInv'
<1> SUFFICES ASSUME IInv, [Next]_vars PROVE IInv'
  OBVIOUS
<1>1. ASSUME NEW gate \in Gates, NEW artifact \in Artifacts, Sign(gate, artifact) PROVE IInv'
  BY <1>1, SignStep
<1>2. ASSUME NEW gate \in Gates, withExclusive(gate) PROVE IInv'
  BY <1>2, withExclusiveStep
<1>3. ASSUME NEW gate \in Gates, LockAbandoned(gate) \/ Denied(gate) PROVE IInv'
  BY <1>3, ReturnsStep DEF LockAbandoned, Denied
<1>4. ASSUME NEW gate \in Gates, Replayed(gate) PROVE IInv'
  BY <1>4, ReplayedStep
<1>5. ASSUME NEW gate \in Gates, RecordIntent(gate) PROVE IInv'
  BY <1>5, RecordIntentStep
<1>6. ASSUME NEW gate \in Gates, SignArtifact(gate) PROVE IInv'
  <2>1. pc' = [pc EXCEPT ![gate] = "signed"] /\ UNCHANGED <<call, lock>>
    BY <1>6 DEF SignArtifact, Goes, IInv, TypeOK
  <2> QED
    BY <1>6, <2>1, KeyUse DEF SignArtifact, At, Goes
<1>7. ASSUME NEW gate \in Gates, SignArtifactFails(gate) PROVE IInv'
  BY <1>7, KeyUse DEF SignArtifactFails, At, Returns, Goes
<1>8. ASSUME NEW gate \in Gates, AttestReceipt(gate) PROVE IInv'
  BY <1>8, AttestReceiptStep
<1>9. ASSUME NEW gate \in Gates, AttestReceiptFails(gate) PROVE IInv'
  BY <1>9, ReturnsStep DEF AttestReceiptFails
<1>10. ASSUME NEW gate \in Gates, RecordComplete(gate) PROVE IInv'
  BY <1>10, RecordCompleteStep
<1>11. ASSUME NEW gate \in Gates, NEW grants \in Registries, NewGate(gate, grants) PROVE IInv'
  BY <1>11, NewGateStep
<1>12. ASSUME NEW grants \in Registries, ReadCompleteStateSnapshot(grants) PROVE IInv'
  BY <1>12, SnapshotStep
<1>13. CASE Tick
  BY <1>13, StillStep DEF Tick, IInv, TypeOK
<1>14. CASE UNCHANGED vars
  BY <1>14, StillStep DEF vars, processVars, IInv, TypeOK
<1> QED
  BY <1>1, <1>2, <1>3, <1>4, <1>5, <1>6, <1>7, <1>8, <1>9, <1>10, <1>11, <1>12,
     <1>13, <1>14 DEF Next

\* The inductive invariant holds in every reachable state of the gate.
THEOREM Invariance == Spec => []IInv
  BY InitEstablishes, NextPreserves, PTL DEF Spec

\* The key is used at most once for a grant (gate.go Sign), for any number of
\* processes, registries, failing writes and crashes.
THEOREM OneKeyUse == Spec => []KeyUsedOnce
<1>1. IInv => KeyUsedOnce
  BY DEF IInv
<1> QED BY <1>1, Invariance, PTL

\* Every receipt that was returned is the one in the state file, for ever
\* (RecordComplete, and the replay of Sign).
THEOREM ReceiptsStayDurable == Spec => []ReceiptsAreDurable
<1>1. IInv => ReceiptsAreDurable
  BY DEF IInv
<1> QED BY <1>1, Invariance, PTL

\* A receipt is returned only for the request it was made for, and was attested
\* while its grant was current (validateFor, CurrentGrant).
THEOREM ReceiptsStayAuthorized == Spec => []ReceiptsAreAuthorized
<1>1. IInv => ReceiptsAreAuthorized
  BY DEF IInv
<1> QED BY <1>1, Invariance, PTL
=============================================================================
