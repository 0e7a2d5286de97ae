----------------------------- MODULE SigningGate -----------------------------
(***************************************************************************)
(* The signing gate (internal/provisioning/signinggate): the only process  *)
(* that may use the private signing key, once for every grant of a registry*)
(* that is replaced only while the gate is down.                           *)
(*                                                                         *)
(* Several gate processes may run beside each other, each with the registry*)
(* it loaded when it started; they share a directory with one state file   *)
(* for each grant and a lock that is held from the choice of the grant to  *)
(* the record of the receipt.  A gate serves one connection at a time.     *)
(* What comes between two steps under the lock is the clock, the failure   *)
(* of a write or of the key, and the death of the process, which releases  *)
(* the lock.                                                               *)
(***************************************************************************)
EXTENDS Integers, FiniteSets

CONSTANTS
    Gates,            \* gate processes
    Registries,       \* the registries that a process may find at its start
    GrantIDs,
    Artifacts,        \* digests of artifacts
    Contexts,         \* the rest of a signing request
    Nil,              \* an absent state file, grant or lock holder
    MaxTime,          \* bound on the clock
    MaxWriteFailures  \* bound on failing writes of a state file

Request == [artifact : Artifacts, context : Contexts]
Grant == [id : GrantIDs, request : Request, expiresAt : Nat]

\* Registry.Validate: a registry has one grant for an identifier.
ASSUME RegistriesAssumption ==
    /\ Registries \subseteq SUBSET Grant
    /\ Registries # {}
    /\ \A registry \in Registries : \A g, h \in registry : g.id = h.id => g = h

ASSUME GateBounds == MaxTime \in Nat /\ MaxWriteFailures \in Nat

\* A receipt keeps the grant it was made under and the time of its attestation.
Receipt == [grant : Grant, signedAt : Nat]

ASSUME NilAssumption ==
    /\ Nil \notin Grant
    /\ Nil \notin Receipt
    /\ Nil \notin Gates

DurableState ==
    {file \in [status : {"intent", "complete"}, request : Request,
               receipt : Receipt \cup {Nil}] :
        file.status = "complete" <=> file.receipt # Nil}

ASSUME AbsentFileAssumption == Nil \notin DurableState

VARIABLES
    files,          \* the state file of each grant
    lock,           \* the process that holds the exclusive lock
    registry,       \* the registry of each process
    pc,             \* where the call of each process is
    call,           \* the artifact, grant and receipt of the call
    keyUses,        \* how often the key has signed the artifact of a grant
    results,        \* the receipts that were returned, with the grant asked for
    now,            \* the clock
    writeFailures   \* how many writes have returned an error

processVars == <<registry, pc, call>>
vars == <<files, lock, registry, pc, call, keyUses, results, now, writeFailures>>

NoCall == [artifact |-> Nil, grant |-> Nil, receipt |-> Nil]

-----------------------------------------------------------------------------
(***************************************************************************)
(* The registry and the state files.                                       *)
(***************************************************************************)
Matching(grants, artifact) ==
    {grant \in grants : grant.request.artifact = artifact /\ now < grant.expiresAt}

\* CurrentGrant: exactly one grant for the artifact has not expired.
CurrentGrant(grants, artifact, grant) == Matching(grants, artifact) = {grant}

\* A version that compares the identifier of the grant only.
validateForMutant(file, grant) == TRUE

\* DurableState.validateFor: the file was written for this very request.
validateFor(file, grant) == file.request = grant.request

\* A version that takes the intent of an earlier call for its own.
NoStateMutant(grant) == files[grant.id] # Nil => files[grant.id].status = "intent"

NoState(grant) == files[grant.id] = Nil

\* A write renames the file into place before it syncs the directory, so one
\* that returns an error may have replaced the file or not.
Written(id, file) ==
    /\ files' = [files EXCEPT ![id] = file]
    /\ UNCHANGED writeFailures

WriteFailed(id, file) ==
    /\ writeFailures < MaxWriteFailures
    /\ writeFailures' = writeFailures + 1
    /\ files' \in {files, [files EXCEPT ![id] = file]}

-----------------------------------------------------------------------------
(***************************************************************************)
(* Sign.                                                                   *)
(***************************************************************************)
At(gate, step) == pc[gate] = step

Goes(gate, step, value) ==
    /\ pc' = [pc EXCEPT ![gate] = step]
    /\ call' = [call EXCEPT ![gate] = value]
    /\ UNCHANGED registry

\* The call ends, with or without a result, and the lock is released.
Returns(gate) ==
    /\ Goes(gate, "idle", NoCall)
    /\ lock' = IF lock = gate THEN Nil ELSE lock

Sign(gate, artifact) ==
    /\ At(gate, "idle")
    /\ Goes(gate, "waiting", [NoCall EXCEPT !.artifact = artifact])
    /\ UNCHANGED <<files, lock, keyUses, results, now, writeFailures>>

\* withExclusive polls the lock until it has it, or until the gate is stopped.
withExclusive(gate) ==
    /\ At(gate, "waiting")
    /\ lock = Nil
    /\ lock' = gate
    /\ Goes(gate, "locked", call[gate])
    /\ UNCHANGED <<files, keyUses, results, now, writeFailures>>

LockAbandoned(gate) ==
    /\ At(gate, "waiting")
    /\ Returns(gate)
    /\ UNCHANGED <<files, keyUses, results, now, writeFailures>>

\* There is no current grant, or more than one; the file is another request's;
\* or it is the intent of an earlier call, which is never tried again.
Denied(gate) ==
    /\ At(gate, "locked")
    /\ \A grant \in registry[gate] :
          CurrentGrant(registry[gate], call[gate].artifact, grant) =>
              /\ files[grant.id] # Nil
              /\ ~ (validateFor(files[grant.id], grant) /\ files[grant.id].status = "complete")
    /\ Returns(gate)
    /\ UNCHANGED <<files, keyUses, results, now, writeFailures>>

Replayed(gate) ==
    /\ At(gate, "locked")
    /\ \E grant \in registry[gate] :
          /\ CurrentGrant(registry[gate], call[gate].artifact, grant)
          /\ files[grant.id] # Nil
          /\ validateFor(files[grant.id], grant)
          /\ files[grant.id].status = "complete"
          /\ results' = results \cup
                {[grant |-> grant, receipt |-> files[grant.id].receipt]}
    /\ Returns(gate)
    /\ UNCHANGED <<files, keyUses, now, writeFailures>>

\* The intent is durable before the key is used; a write that fails ends the
\* call, whatever the file now holds.
RecordIntent(gate) ==
    /\ At(gate, "locked")
    /\ \E grant \in registry[gate] :
          LET intent == [status |-> "intent", request |-> grant.request, receipt |-> Nil]
          IN  /\ CurrentGrant(registry[gate], call[gate].artifact, grant)
              /\ NoState(grant)
              /\ \/ /\ Written(grant.id, intent)
                    /\ Goes(gate, "intent", [call[gate] EXCEPT !.grant = grant])
                    /\ UNCHANGED lock
                 \/ WriteFailed(grant.id, intent) /\ Returns(gate)
    /\ UNCHANGED <<keyUses, results, now>>

Used(gate) == keyUses' = [keyUses EXCEPT ![call[gate].grant.id] = @ + 1]

SignArtifact(gate) ==
    /\ At(gate, "intent")
    /\ Used(gate)
    /\ Goes(gate, "signed", call[gate])
    /\ UNCHANGED <<files, lock, results, now, writeFailures>>

\* The backend returns an error, before or after it used the key.
SignArtifactFails(gate) ==
    /\ At(gate, "intent")
    /\ Used(gate) \/ UNCHANGED keyUses
    /\ Returns(gate)
    /\ UNCHANGED <<files, results, now, writeFailures>>

\* The grant that was chosen before the key was used is still the current one.
StillGranted(gate) ==
    CurrentGrant(registry[gate], call[gate].artifact, call[gate].grant)

AttestReceipt(gate) ==
    /\ At(gate, "signed")
    /\ StillGranted(gate)
    /\ Goes(gate, "attested",
            [call[gate] EXCEPT !.receipt = [grant |-> call[gate].grant, signedAt |-> now]])
    /\ UNCHANGED <<files, lock, keyUses, results, now, writeFailures>>

\* The grant is no longer current, or the backend fails to sign the receipt.
AttestReceiptFails(gate) ==
    /\ At(gate, "signed")
    /\ Returns(gate)
    /\ UNCHANGED <<files, keyUses, results, now, writeFailures>>

Complete(gate) ==
    [status |-> "complete", request |-> call[gate].grant.request,
     receipt |-> call[gate].receipt]

Result(gate) == [grant |-> call[gate].grant, receipt |-> call[gate].receipt]

\* A version that answers the client although the receipt was not saved.
RecordCompleteMutant(gate) ==
    /\ At(gate, "attested")
    /\ \/ Written(call[gate].grant.id, Complete(gate))
       \/ WriteFailed(call[gate].grant.id, Complete(gate))
    /\ results' = results \cup {Result(gate)}
    /\ Returns(gate)
    /\ UNCHANGED <<keyUses, now>>

RecordComplete(gate) ==
    /\ At(gate, "attested")
    /\ \/ /\ Written(call[gate].grant.id, Complete(gate))
          /\ results' = results \cup {Result(gate)}
       \/ /\ WriteFailed(call[gate].grant.id, Complete(gate))
          /\ UNCHANGED results
    /\ Returns(gate)
    /\ UNCHANGED <<keyUses, now>>

-----------------------------------------------------------------------------
(***************************************************************************)
(* The export of receipts, and the processes.                              *)
(***************************************************************************)
\* The export reads every file under a shared lock, and returns only when all
\* grants of its registry are complete.
ReadCompleteStateSnapshot(grants) ==
    /\ lock = Nil
    /\ \A grant \in grants :
          /\ files[grant.id] # Nil
          /\ validateFor(files[grant.id], grant)
          /\ files[grant.id].status = "complete"
    /\ results' = results \cup
          {[grant |-> grant, receipt |-> files[grant.id].receipt] : grant \in grants}
    /\ UNCHANGED <<files, lock, processVars, keyUses, now, writeFailures>>

\* A process ends at whatever point, and another one starts in its place.
NewGate(gate, grants) ==
    /\ registry' = [registry EXCEPT ![gate] = grants]
    /\ pc' = [pc EXCEPT ![gate] = "idle"]
    /\ call' = [call EXCEPT ![gate] = NoCall]
    /\ lock' = IF lock = gate THEN Nil ELSE lock
    /\ UNCHANGED <<files, keyUses, results, now, writeFailures>>

Tick ==
    /\ now < MaxTime
    /\ now' = now + 1
    /\ UNCHANGED <<files, lock, processVars, keyUses, results, writeFailures>>

Init ==
    /\ files = [id \in GrantIDs |-> Nil]
    /\ lock = Nil
    /\ registry \in [Gates -> Registries]
    /\ pc = [gate \in Gates |-> "idle"]
    /\ call = [gate \in Gates |-> NoCall]
    /\ keyUses = [id \in GrantIDs |-> 0]
    /\ results = {}
    /\ now = 0
    /\ writeFailures = 0

Next ==
    \/ \E gate \in Gates :
          \/ \E artifact \in Artifacts : Sign(gate, artifact)
          \/ withExclusive(gate)
          \/ LockAbandoned(gate)
          \/ Denied(gate)
          \/ Replayed(gate)
          \/ RecordIntent(gate)
          \/ SignArtifact(gate)
          \/ SignArtifactFails(gate)
          \/ AttestReceipt(gate)
          \/ AttestReceiptFails(gate)
          \/ RecordComplete(gate)
          \/ \E grants \in Registries : NewGate(gate, grants)
    \/ \E grants \in Registries : ReadCompleteStateSnapshot(grants)
    \/ Tick

Spec == Init /\ [][Next]_vars

-----------------------------------------------------------------------------
(***************************************************************************)
(* Properties.                                                             *)
(***************************************************************************)
\* The variables keep their types; in particular a complete file has a receipt.
TypeOK ==
    /\ files \in [GrantIDs -> DurableState \cup {Nil}]
    /\ lock \in Gates \cup {Nil}
    /\ registry \in [Gates -> Registries]
    /\ pc \in [Gates -> {"idle", "waiting", "locked", "intent", "signed", "attested"}]
    /\ call \in [Gates -> [artifact : Artifacts \cup {Nil}, grant : Grant \cup {Nil},
                           receipt : Receipt \cup {Nil}]]
    /\ keyUses \in [GrantIDs -> Nat]
    /\ results \subseteq [grant : Grant, receipt : Receipt]
    /\ now \in Nat
    /\ writeFailures \in Nat

\* The key signs the artifact of a grant at most once, over all processes,
\* registries, crashes, failed writes and retries of the client (gate.go Sign:
\* the durable intent, and "backend retry is disabled").
KeyUsedOnce == \A id \in GrantIDs : keyUses[id] <= 1

\* A receipt that was returned, to a client or to the export, is the one in
\* the state file, so every later call and every export for the grant returns
\* the same (RecordComplete before the result, and the replay of Sign).
ReceiptsAreDurable ==
    \A result \in results :
        LET file == files[result.grant.id]
        IN  file # Nil /\ file.status = "complete" /\ file.receipt = result.receipt

\* A receipt is returned only for the very request it was made for, also when
\* a later registry uses the identifier of its grant for another request, and
\* it was attested while its grant was current (validateFor, and the second
\* CurrentGrant of Sign).
ReceiptsAreAuthorized ==
    \A result \in results :
        /\ result.receipt.grant.id = result.grant.id
        /\ result.receipt.grant.request = result.grant.request
        /\ result.receipt.signedAt < result.receipt.grant.expiresAt
=============================================================================
