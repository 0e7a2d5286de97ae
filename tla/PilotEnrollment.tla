--------------------------- MODULE PilotEnrollment ---------------------------
(***************************************************************************)
(* The pilot credential client, pilotenrollment/*_linux.go: one state file *)
(* on the device, written by commands of which each is a process of its    *)
(* own, and the Fleet service that approves, issues, verifies and          *)
(* activates credentials.                                                  *)
(*                                                                         *)
(* A credential is named by the operation that brought it: Enrollment, a   *)
(* renewal of an unexpired credential, or the recovery of an expired one.  *)
(* Each goes through a proof of the key, the issue of a certificate, its   *)
(* installation, and a proof made with the installed certificate.          *)
(*                                                                         *)
(* The directory lock admits one process at a time and every command ends  *)
(* at a save that fails, so what a command has in memory is what the file  *)
(* holds.  A command is cut at its requests and at its saves.  Between two *)
(* steps the clock may advance, Fleet may act, and the command may end: a  *)
(* lost reply, a denied request and the death of the process are the same  *)
(* to the file.  Fleet is external: its actions are what the client's      *)
(* requests and checks suppose of it.  The documents of an operation do    *)
(* not change once it is approved and are kept once, in Fleet's record.    *)
(***************************************************************************)
EXTENDS Naturals, Sequences, SequencesExt, FiniteSets

CONSTANTS
    Enrollment,        \* the first operation
    Renewals,          \* operations that renew an unexpired credential
    Recoveries,        \* operations that replace an expired one
    Nil,
    CredentialTerm,    \* how long a certificate is valid
    ChallengeTerm,     \* how long a challenge is valid
    IssuerTerm,        \* how long a CA certificate is valid
    MaxHistory,        \* completed renewals before the current one (127)
    MaxContinuations,  \* trust continuations (32)
    MaxBytes,          \* the size of the file (1 MiB), counted in documents
    MaxTime,
    MaxFaults          \* commands that are cut off and saves that fail

Operations == {Enrollment} \cup Renewals \cup Recoveries

ASSUME OperationsAssumption ==
    /\ Enrollment \notin Renewals \cup Recoveries
    /\ Renewals \cap Recoveries = {}

ASSUME BoundsAssumption ==
    /\ CredentialTerm \in Nat
    /\ ChallengeTerm \in Nat
    /\ IssuerTerm \in Nat
    /\ MaxBytes \in Nat
    /\ MaxTime \in Nat
    /\ MaxFaults \in Nat

VARIABLES
    file,          \* state.json
    leftover,      \* a ".pending-" file is left in the directory
    call,          \* the command that runs
    fleet,         \* Fleet's record of every operation
    chain,         \* the credentials that Fleet has activated, in order
    now,
    sent,          \* proofs that have left the device
    faults

deviceVars == <<file, leftover, sent>>
fleetVars == <<fleet, chain>>
vars == <<deviceVars, call, fleetVars, now, faults>>

(***************************************************************************)
(* The state file, Fleet's records and the proofs.                         *)
(***************************************************************************)
Phases ==
    {"initialized", "bootstrap_proved", "prepared", "approved", "proof_prepared",
     "installed", "proof_submitted", "verified", "active"}

EntryType ==
    [op : Operations, phase : Phases, prepared : Nat, proof : Nat \cup {Nil},
     challenge : Nat \cup {Nil}, signature : Nat \cup {Nil}]

\* start is RecoveryRenewalStart: how many renewals the recovery came after.
StateType ==
    [enrollment : EntryType, renewal : EntryType \cup {Nil},
     history : Seq(EntryType), recovery : EntryType \cup {Nil},
     start : Nat \cup {Nil}, trust : Seq(Nat)]

FleetStates ==
    {"none", "awaiting_proof", "proof_verified", "staged", "verified", "active"}

RecordType ==
    [state : FleetStates, predecessor : Operations \cup {Nil}, keyExpires : Nat,
     notAfter : Nat, keyProof : Nat \cup {Nil}, challenge : Nat \cup {Nil},
     signature : Nat \cup {Nil}, verifiedAt : Nat]

ProofType ==
    [op : Operations, purpose : {"key", "installed"}, signature : Nat]

ASSUME NilAssumption ==
    /\ Nil \notin Nat
    /\ Nil \notin Operations
    /\ Nil \notin EntryType
    /\ Nil \notin StateType

Min2(a, b) == IF a < b THEN a ELSE b

\* What the file has of one operation.
Entry(operation, phase) ==
    [op |-> operation, phase |-> phase, prepared |-> now, proof |-> Nil,
     challenge |-> Nil, signature |-> Nil]

NoRecord ==
    [state |-> "none", predecessor |-> Nil, keyExpires |-> 0, notAfter |-> 0,
     keyProof |-> Nil, challenge |-> Nil, signature |-> Nil, verifiedAt |-> 0]

Idle == [step |-> "idle", kind |-> Nil, op |-> Nil, reply |-> Nil]

Init ==
    /\ file = Nil
    /\ leftover = FALSE
    /\ call = Idle
    /\ fleet = [operation \in Operations |-> NoRecord]
    /\ chain = <<>>
    /\ now = 0
    /\ sent = {}
    /\ faults = 0
-----------------------------------------------------------------------------
\* Credentials: which one is current here, and which are valid now.

Phase(kind) == IF file = Nil \/ file[kind] = Nil THEN "none" ELSE file[kind].phase

Active(entry) == entry # Nil /\ entry.phase = "active"

\* The credential that the renewal after the first n completed ones replaces.
renewalBase(state, n) ==
    IF state.start = n THEN state.recovery.op
    ELSE IF n > 0 THEN state.history[n].op
    ELSE Enrollment

requestKeyMutant(state) ==
    IF Active(state.recovery) THEN state.recovery.op
    ELSE IF Active(state.renewal) THEN state.renewal.op
    ELSE renewalBase(state, Len(state.history))

\* The credential of ordinary requests.
requestKey(state) ==
    IF state.start = Nil /\ Active(state.recovery) THEN state.recovery.op
    ELSE IF Active(state.renewal) THEN state.renewal.op
    ELSE renewalBase(state, Len(state.history))

\* The CA certificates in force: those of the configuration or of the last
\* continuation.  A CA certificate is its expiry.
effectiveTrust(state) ==
    IF state.trust = <<>> THEN IssuerTerm ELSE Last(state.trust)

leaf(operation) ==
    /\ now <= fleet[operation].notAfter
    /\ now <= effectiveTrust(file)

Current(operation) == chain # <<>> /\ Last(chain) = operation

\* The challenge of an installed key ends with the certificates it links.
validateChallenge(operation, challenge, at) ==
    /\ at < challenge
    /\ operation # Enrollment => challenge <= fleet[operation].notAfter
    /\ operation \in Renewals =>
          challenge <= fleet[fleet[operation].predecessor].notAfter

\* The approval of a renewal names the credential that it replaces, which is
\* unexpired, and comes with a challenge for the key.
validateRenewalApproval(operation, base, at) ==
    /\ fleet[operation].predecessor = base
    /\ at <= fleet[base].notAfter
    /\ at < fleet[operation].keyExpires
    /\ fleet[operation].keyExpires <= fleet[base].notAfter

\* The packet of a recovery names the credential in use, which has expired.
validateRecovery(state, operation, at) ==
    LET predecessor == IF state.renewal # Nil THEN state.renewal.op ELSE Enrollment
    IN  /\ state.enrollment.phase = "verified"
        /\ state.renewal # Nil => state.renewal.phase = "active"
        /\ state.renewal = Nil => state.history = <<>>
        /\ fleet[operation].predecessor = predecessor
        /\ fleet[predecessor].notAfter <= at
        /\ at < fleet[operation].keyExpires
-----------------------------------------------------------------------------
\* The state file.

validPhase(entry, phases) ==
    /\ entry.phase \in phases
    /\ (entry.challenge # Nil) =
          (entry.phase \in {"proof_submitted", "verified", "active"})
    /\ (entry.signature # Nil) = (entry.challenge # Nil)

validRenewal(entry, base) ==
    /\ validateRenewalApproval(entry.op, base, entry.prepared)
    /\ entry.proof # Nil
    /\ validPhase(entry, {"prepared", "approved", "installed", "proof_submitted",
                          "verified", "active"})

validRecoveryEntry(state, entry) ==
    /\ validateRecovery(state, entry.op, entry.prepared)
    /\ entry.proof # Nil
    /\ validPhase(entry, {"proof_prepared", "installed", "proof_submitted",
                          "verified", "active"})

\* The state before the first n renewals were followed by the recovery.
Prefix(state, n) ==
    [state EXCEPT !.history = SubSeq(@, 1, n - 1),
                  !.renewal = IF n = 0 THEN Nil ELSE state.history[n],
                  !.start = Nil]

Used(state) ==
    [i \in 1..Len(state.history) |-> state.history[i].op]
        \o (IF state.renewal = Nil THEN <<>> ELSE <<state.renewal.op>>)
        \o (IF state.recovery = Nil THEN <<>> ELSE <<state.recovery.op>>)

validate(state) ==
    /\ Len(state.history) <= MaxHistory
    /\ state.history # <<>> => state.renewal # Nil
    /\ state.start # Nil =>
          /\ state.start <= Len(state.history)
          /\ state.renewal # Nil
          /\ Active(state.recovery)
          /\ validRecoveryEntry(Prefix(state, state.start), state.recovery)
    /\ IsInjective(Used(state))
    /\ \A i \in 1..Len(state.history) :
          /\ state.history[i].phase = "active"
          /\ validRenewal(state.history[i], renewalBase(state, i - 1))
    /\ state.renewal # Nil =>
          /\ state.enrollment.phase = "verified"
          /\ validRenewal(state.renewal, renewalBase(state, Len(state.history)))
    /\ (state.start = Nil /\ state.recovery # Nil) =>
          validRecoveryEntry(state, state.recovery)
    /\ state.trust # <<>> => state.enrollment.phase = "verified"
    /\ (state.enrollment.proof = Nil) = (state.enrollment.phase = "initialized")
    /\ validPhase(state.enrollment, {"initialized", "bootstrap_proved", "installed",
                                     "proof_submitted", "verified"})

\* How many documents the file has of an operation: an operation grows from
\* its approval and the proof of the key by its certificate, the challenge and
\* its proof, the receipt, and the binding in force.
Documents(entry) ==
    CASE entry = Nil -> 0
      [] entry.phase = "initialized" -> 1
      [] entry.phase \in {"bootstrap_proved", "prepared", "approved", "proof_prepared"} -> 2
      [] entry.phase = "installed" -> 3
      [] entry.phase = "proof_submitted" -> 4
      [] entry.phase = "verified" -> IF entry.op = Enrollment THEN 4 ELSE 5
      [] entry.phase = "active" -> 6

\* Completed renewals and trust continuations are kept for good.
Size(state) ==
    Documents(state.enrollment) + Documents(state.renewal) + Documents(state.recovery)
        + 6 * Len(state.history) + Len(state.trust)

Fits(state) == Size(state) <= MaxBytes

\* A save validates, measures, writes a temporary file, renames it and syncs
\* the directory.  A state that is invalid or too large is refused and leaves
\* nothing.  A save that fails ends the command as well, with the old file and
\* perhaps the temporary one, or with the new file.
save(state, next) ==
    \/ /\ validate(state) /\ Fits(state)
       /\ file' = state
       /\ call' = next
       /\ UNCHANGED <<leftover, faults>>
    \/ /\ ~ (validate(state) /\ Fits(state))
       /\ call' = Idle
       /\ UNCHANGED <<file, leftover, faults>>
    \/ /\ validate(state) /\ Fits(state)
       /\ faults < MaxFaults
       /\ faults' = faults + 1
       /\ call' = Idle
       /\ \/ UNCHANGED file /\ leftover' \in BOOLEAN
          \/ file' = state /\ UNCHANGED leftover

saveInstallation(entry, next) == save([file EXCEPT ![call.kind] = entry], next)

\* A command opens the directory only if nothing is left in it.
Open == /\ call = Idle
        /\ ~ leftover

At(step) == call.step = step

Goto(step, reply) == [call EXCEPT !.step = step, !.reply = reply]

Runs(kind, operation, step, reply) ==
    [step |-> step, kind |-> kind, op |-> operation, reply |-> reply]

Proof(operation, purpose, signature) ==
    [op |-> operation, purpose |-> purpose, signature |-> signature]
\* ECDSA signatures of one document differ: a new one is none of those that
\* have left the device.
sign(operation, purpose) ==
    1 + Cardinality({proof \in sent : proof.op = operation /\ proof.purpose = purpose})
-----------------------------------------------------------------------------
\* Enrollment.

Initialize ==
    /\ Open
    /\ file = Nil
    /\ save([enrollment |-> Entry(Enrollment, "initialized"), renewal |-> Nil,
             history |-> <<>>, recovery |-> Nil, start |-> Nil, trust |-> <<>>], Idle)
    /\ UNCHANGED <<fleetVars, now, sent>>

\* The proof of the key is saved, and then written to the standard output.
Printed(operation, signature) ==
    sent' = IF file' # file /\ faults' = faults
            THEN sent \cup {Proof(operation, "key", signature)}
            ELSE sent

Bootstrap ==
    /\ Open
    /\ Phase("enrollment") = "initialized"
    /\ fleet[Enrollment].state = "awaiting_proof"
    /\ now < fleet[Enrollment].keyExpires
    /\ save([file EXCEPT !.enrollment.phase = "bootstrap_proved",
                         !.enrollment.proof = sign(Enrollment, "key")], Idle)
    /\ Printed(Enrollment, sign(Enrollment, "key"))
    /\ UNCHANGED <<fleetVars, now>>

\* The challenge or the packet of before is answered with the saved proof.
Repeated(kind) ==
    /\ Open
    /\ Phase(kind) # "none"
    /\ file[kind].proof # Nil
    /\ sent' = sent \cup {Proof(file[kind].op, "key", file[kind].proof)}
    /\ UNCHANGED <<file, leftover, call, fleetVars, now, faults>>

Install ==
    /\ Open
    /\ Phase("enrollment") = "bootstrap_proved"
    /\ fleet[Enrollment].state = "staged"
    /\ leaf(Enrollment)
    /\ save([file EXCEPT !.enrollment.phase = "installed"], Idle)
    /\ UNCHANGED <<fleetVars, now, sent>>
-----------------------------------------------------------------------------
\* Renewal, up to the installation of the certificate.

\* The state that a new renewal starts from: the completed one is archived,
\* and the first one after a recovery marks its place.
Archived(state) ==
    LET history == IF state.renewal = Nil THEN state.history
                   ELSE Append(state.history, state.renewal)
    IN  [state EXCEPT
            !.history = history,
            !.renewal = Nil,
            !.start = IF state.recovery # Nil /\ state.start = Nil
                      THEN Len(history) ELSE @]

PrepareRenewal(operation) ==
    /\ Open
    /\ Phase("enrollment") = "verified"
    /\ Phase("recovery") \in {"none", "active"}
    /\ Phase("renewal") \in {"none", "active"}
    /\ operation \notin Range(Used(file))
    /\ Len(Archived(file).history) <= MaxHistory
    /\ fleet[operation].state = "awaiting_proof"
    /\ leaf(requestKey(file))
    /\ Current(requestKey(file))
    /\ call' = Runs("renewal", operation, "self", requestKey(file))
    /\ UNCHANGED <<deviceVars, fleetVars, now, faults>>

ApprovalMatches ==
    LET base == renewalBase(Archived(file), Len(Archived(file).history))
    IN  /\ call.reply = base
        /\ validateRenewalApproval(call.op, base, now)
        /\ leaf(base)

RenewalPrepared ==
    /\ At("self")
    /\ ApprovalMatches
    /\ save([Archived(file) EXCEPT
               !.renewal = [Entry(call.op, "prepared") EXCEPT !.proof = sign(call.op, "key")]],
            Goto("key_send", Nil))
    /\ UNCHANGED <<fleetVars, now, sent>>

\* Fleet verifies a proof of the key once, and knows it again.
KeyProofTaken(operation, signature) ==
    \/ /\ fleet[operation].state = "awaiting_proof"
       /\ now < fleet[operation].keyExpires
    \/ fleet[operation].keyProof = signature

KeyProofRecorded(operation, signature) ==
    IF fleet[operation].state = "awaiting_proof"
    THEN [fleet[operation] EXCEPT !.state = "proof_verified", !.keyProof = signature]
    ELSE fleet[operation]

sendRenewalProof ==
    LET record == KeyProofRecorded(call.op, file.renewal.proof)
    IN  /\ At("key_send")
        /\ leaf(requestKey(file))
        /\ sent' = sent \cup {Proof(call.op, "key", file.renewal.proof)}
        /\ IF Current(requestKey(file)) /\ KeyProofTaken(call.op, file.renewal.proof)
           THEN /\ fleet' = [fleet EXCEPT ![call.op] = record]
                /\ call' = Goto("key_result", record)
           ELSE /\ call' = Idle
                /\ UNCHANGED fleet
        /\ UNCHANGED <<file, leftover, chain, now, faults>>

RenewalApproved ==
    /\ At("key_result")
    /\ call.reply.keyProof = file.renewal.proof
    /\ saveInstallation([file.renewal EXCEPT !.phase = "approved"], Idle)
    /\ UNCHANGED <<fleetVars, now, sent>>

RetryRenewalProof ==
    /\ Open
    /\ Phase("renewal") = "prepared"
    /\ call' = Runs("renewal", file.renewal.op, "key_send", Nil)
    /\ UNCHANGED <<deviceVars, fleetVars, now, faults>>

InstallRenewal ==
    /\ Open
    /\ Phase("renewal") = "approved"
    /\ leaf(requestKey(file))
    /\ Current(requestKey(file))
    /\ call' = Runs("renewal", file.renewal.op, "installation", fleet[file.renewal.op])
    /\ UNCHANGED <<deviceVars, fleetVars, now, faults>>

\* What a certificate must be before it is installed.
Installable(operation, record, proof) ==
    /\ record.state = "staged"
    /\ record.challenge = Nil
    /\ record.keyProof = proof
    /\ leaf(operation)

RenewalInstalled ==
    /\ At("installation")
    /\ Installable(call.op, call.reply, file.renewal.proof)
    /\ saveInstallation([file.renewal EXCEPT !.phase = "installed"], Idle)
    /\ UNCHANGED <<fleetVars, now, sent>>
-----------------------------------------------------------------------------
\* Recovery, up to the installation: all of it is relayed by an operator.

PrepareRecovery(operation) ==
    /\ Open
    /\ Phase("enrollment") = "verified"
    /\ file.recovery = Nil
    /\ operation \notin Range(Used(file))
    /\ fleet[operation].state = "awaiting_proof"
    /\ validateRecovery(file, operation, now)
    /\ save([file EXCEPT
               !.recovery = [Entry(operation, "proof_prepared") EXCEPT
                                !.proof = sign(operation, "key")]],
            Idle)
    /\ Printed(operation, sign(operation, "key"))
    /\ UNCHANGED <<fleetVars, now>>

InstallRecovery ==
    /\ Open
    /\ Phase("recovery") = "proof_prepared"
    /\ Installable(file.recovery.op, fleet[file.recovery.op], file.recovery.proof)
    /\ save([file EXCEPT !.recovery.phase = "installed"], Idle)
    /\ UNCHANGED <<fleetVars, now, sent>>
-----------------------------------------------------------------------------
\* The proof that the installed certificate is used, for all three kinds.

\* Fleet answers with the challenge of before as long as it is unexpired.
Challenged(operation) ==
    LET record == fleet[operation]
        until == IF operation \in Renewals
                 THEN Min2(record.notAfter, fleet[record.predecessor].notAfter)
                 ELSE record.notAfter
    IN  IF record.challenge # Nil THEN record
        ELSE [record EXCEPT !.challenge = Min2(now + ChallengeTerm, until)]

ProveInstalledMutant(kind) ==
    /\ Open
    /\ Phase(kind) \in {"installed", "proof_submitted"}
    /\ leaf(file[kind].op)
    /\ LET record == Challenged(file[kind].op)
       IN  /\ now < record.challenge
           /\ fleet' = [fleet EXCEPT ![file[kind].op] = record]
           /\ call' = Runs(kind, file[kind].op, "challenge", record)
    /\ UNCHANGED <<deviceVars, chain, now, faults>>

ProveInstalled(kind) ==
    /\ Open
    /\ Phase(kind) = "installed"
    /\ leaf(file[kind].op)
    /\ LET record == Challenged(file[kind].op)
       IN  /\ now < record.challenge
           /\ fleet' = [fleet EXCEPT ![file[kind].op] = record]
           /\ call' = Runs(kind, file[kind].op, "challenge", record)
    /\ UNCHANGED <<deviceVars, chain, now, faults>>

ChallengeIsValid ==
    /\ call.reply.state = "staged"
    /\ validateChallenge(call.op, call.reply.challenge, now)
    /\ call.kind # "enrollment" => leaf(call.op)

ProofSigned ==
    /\ At("challenge")
    /\ ChallengeIsValid
    /\ saveInstallation([file[call.kind] EXCEPT !.challenge = call.reply.challenge,
                                               !.signature = sign(call.op, "installed"),
                                               !.phase = "proof_submitted"],
                        Goto("send", Nil))
    /\ UNCHANGED <<fleetVars, now, sent>>

ProofTaken(record, signature) ==
    \/ record.state = "staged" /\ now < record.challenge
    \/ record.signature = signature

ProofRecorded(record, signature) ==
    IF record.state = "staged"
    THEN [record EXCEPT !.state = "verified", !.signature = signature, !.verifiedAt = now]
    ELSE record

ProofSent ==
    LET signature == file[call.kind].signature
        record == ProofRecorded(fleet[call.op], signature)
    IN  /\ At("send")
        /\ leaf(call.op)
        /\ sent' = sent \cup {Proof(call.op, "installed", signature)}
        /\ IF ProofTaken(fleet[call.op], signature)
           THEN /\ fleet' = [fleet EXCEPT ![call.op] = record]
                /\ call' = Goto("result", record)
           ELSE /\ call' = Idle
                /\ UNCHANGED fleet
        /\ UNCHANGED <<file, leftover, chain, now, faults>>

ResultMatches ==
    /\ call.reply.state \in {"verified", "active"}
    /\ call.reply.challenge = file[call.kind].challenge
    /\ call.reply.signature = file[call.kind].signature
    /\ leaf(call.op)

\* The station's answer that the proof was recorded completes the enrollment.
Reconcile ==
    /\ At("result")
    /\ call.kind = "enrollment"
    /\ ResultMatches
    /\ saveInstallation([file.enrollment EXCEPT !.phase = "verified"], Idle)
    /\ UNCHANGED <<fleetVars, now, sent>>

\* For a successor it is the end only when Fleet has activated it; then the
\* client asks Fleet, with the successor, which credential is in force.
ResultVerified ==
    /\ At("result")
    /\ ResultMatches
    /\ call.reply.state = "verified"
    /\ saveInstallation([file[call.kind] EXCEPT !.phase = "verified"], Idle)
    /\ UNCHANGED <<fleetVars, now, sent>>

ResultActive ==
    /\ At("result")
    /\ ResultMatches
    /\ call.reply.state = "active"
    /\ call' = IF Current(call.op) THEN Goto("cutover", call.op) ELSE Idle
    /\ UNCHANGED <<deviceVars, fleetVars, now, faults>>

CutoverConfirmed ==
    /\ At("cutover")
    /\ saveInstallation([file[call.kind] EXCEPT !.phase = "active"], Idle)
    /\ UNCHANGED <<fleetVars, now, sent>>

acceptRenewalResult ==
    /\ call.kind = "renewal"
    /\ ResultVerified \/ ResultActive \/ CutoverConfirmed

acceptRecoveryResult ==
    /\ call.kind = "recovery"
    /\ ResultVerified \/ ResultActive \/ CutoverConfirmed

ReadsWithMutant(kind) == requestKey(file)

\* The certificate with which the state of an operation is read: its own.
ReadsWith(kind) == file[kind].op

Readable(kind) ==
    \/ kind = "enrollment"
    \/ /\ leaf(ReadsWith(kind))
       /\ ReadsWith(kind) = file[kind].op \/ Current(ReadsWith(kind))

ReconcileInstalled(kind) ==
    /\ Open
    /\ Phase(kind) \in IF kind = "enrollment" THEN {"proof_submitted"}
                       ELSE {"proof_submitted", "verified", "active"}
    /\ kind = "recovery" => file.start = Nil
    /\ Readable(kind)
    /\ call' = Runs(kind, file[kind].op, "result", fleet[file[kind].op])
    /\ UNCHANGED <<deviceVars, fleetVars, now, faults>>

RetryInstalled(kind) ==
    /\ Open
    /\ Phase(kind) = "proof_submitted"
    /\ Readable(kind)
    /\ call' = Runs(kind, file[kind].op, "retry", fleet[file[kind].op])
    /\ UNCHANGED <<deviceVars, fleetVars, now, faults>>

RetryDecides ==
    /\ At("retry")
    /\ \/ /\ call.reply.state \in {"verified", "active"}
          /\ call' = Goto("result", call.reply)
       \/ /\ ChallengeIsValid
          /\ call.reply.challenge = file[call.kind].challenge
          /\ call' = Goto("send", Nil)
    /\ UNCHANGED <<deviceVars, fleetVars, now, faults>>
-----------------------------------------------------------------------------
\* Trust continuation: the owner's packet is checked, then the credential's
\* access, then the packet again.

TrustIsSettled ==
    /\ Phase("enrollment") = "verified"
    /\ Phase("renewal") \in {"none", "active"}
    /\ Phase("recovery") \in {"none", "active"}
    /\ Len(file.trust) < MaxContinuations
    /\ now < effectiveTrust(file)

ContinueTrust ==
    /\ Open
    /\ TrustIsSettled
    /\ leaf(requestKey(file))
    /\ Current(requestKey(file))
    /\ now + IssuerTerm > effectiveTrust(file)
    /\ call' = Runs("trust", requestKey(file), "trust",
                    [until |-> now + ChallengeTerm, issuer |-> now + IssuerTerm])
    /\ UNCHANGED <<deviceVars, fleetVars, now, faults>>

TrustIsCurrent ==
    /\ now < call.reply.until
    /\ now < effectiveTrust(file)
    /\ now < fleet[call.op].notAfter

TrustContinued ==
    /\ At("trust")
    /\ TrustIsCurrent
    /\ save([file EXCEPT !.trust = Append(@, call.reply.issuer)], Idle)
    /\ UNCHANGED <<fleetVars, now, sent>>
-----------------------------------------------------------------------------
\* Ends of a command that leave the file as it is.

Proceeds ==
    CASE At("self") -> ApprovalMatches
      [] At("key_send") -> leaf(requestKey(file))
      [] At("key_result") -> call.reply.keyProof = file.renewal.proof
      [] At("installation") -> Installable(call.op, call.reply, file.renewal.proof)
      [] At("challenge") -> ChallengeIsValid
      [] At("send") -> leaf(call.op)
      [] At("result") -> ResultMatches
      [] At("retry") -> \/ call.reply.state \in {"verified", "active"}
                        \/ /\ ChallengeIsValid
                           /\ call.reply.challenge = file[call.kind].challenge
      [] At("trust") -> TrustIsCurrent
      [] OTHER -> TRUE

Refused ==
    /\ call # Idle
    /\ ~ Proceeds
    /\ call' = Idle
    /\ UNCHANGED <<deviceVars, fleetVars, now, faults>>

\* A request that leaves the device and does not arrive.
RequestLost ==
    /\ At("key_send") \/ At("send")
    /\ Proceeds
    /\ faults < MaxFaults
    /\ faults' = faults + 1
    /\ sent' = sent \cup {IF At("send") THEN Proof(call.op, "installed", file[call.kind].signature)
                          ELSE Proof(call.op, "key", file.renewal.proof)}
    /\ call' = Idle
    /\ UNCHANGED <<file, leftover, fleetVars, now>>

Lost ==
    /\ call # Idle
    /\ faults < MaxFaults
    /\ faults' = faults + 1
    /\ call' = Idle
    /\ UNCHANGED <<deviceVars, fleetVars, now>>
-----------------------------------------------------------------------------
\* Fleet.

FleetEnrolls ==
    /\ file # Nil
    /\ fleet[Enrollment].state = "none"
    /\ fleet' = [fleet EXCEPT ![Enrollment].state = "awaiting_proof",
                              ![Enrollment].keyExpires = now + ChallengeTerm]
    /\ UNCHANGED <<deviceVars, call, chain, now, faults>>

FleetApproves(operation) ==
    LET predecessor == Last(chain)
        until == IF operation \in Renewals
                 THEN Min2(now + ChallengeTerm, fleet[predecessor].notAfter)
                 ELSE now + ChallengeTerm
    IN  /\ chain # <<>>
        /\ fleet[operation].state = "none"
        /\ (operation \in Renewals) = (now < fleet[predecessor].notAfter)
        /\ fleet' = [fleet EXCEPT ![operation].state = "awaiting_proof",
                                  ![operation].predecessor = predecessor,
                                  ![operation].keyExpires = until,
                                  ![operation].notAfter = now + CredentialTerm]
        /\ UNCHANGED <<deviceVars, call, chain, now, faults>>

\* An operator relays the proof of the key that a command has printed.
FleetVerifies(operation) ==
    \E proof \in sent :
        /\ proof.op = operation
        /\ proof.purpose = "key"
        /\ fleet[operation].state = "awaiting_proof"
        /\ KeyProofTaken(operation, proof.signature)
        /\ fleet' = [fleet EXCEPT ![operation] = KeyProofRecorded(operation, proof.signature)]
        /\ UNCHANGED <<deviceVars, call, chain, now, faults>>

FleetIssues(operation) ==
    /\ fleet[operation].state = "proof_verified"
    /\ now < fleet[operation].keyExpires
    /\ operation # Enrollment => Current(fleet[operation].predecessor)
    /\ fleet' = [fleet EXCEPT ![operation].state = "staged",
                              ![operation].notAfter =
                                  IF operation = Enrollment THEN now + CredentialTerm ELSE @]
    /\ UNCHANGED <<deviceVars, call, chain, now, faults>>

FleetActivates(operation) ==
    /\ fleet[operation].state = "verified"
    /\ now <= fleet[operation].verifiedAt + ChallengeTerm
    /\ now < fleet[operation].notAfter
    /\ operation # Enrollment => Current(fleet[operation].predecessor)
    /\ operation \in Renewals => now < fleet[fleet[operation].predecessor].notAfter
    /\ fleet' = [fleet EXCEPT ![operation].state = "active"]
    /\ chain' = Append(chain, operation)
    /\ UNCHANGED <<deviceVars, call, now, faults>>

Tick ==
    /\ now < MaxTime
    /\ now' = now + 1
    /\ UNCHANGED <<deviceVars, call, fleetVars, faults>>
-----------------------------------------------------------------------------
ProveRenewalInstalled == ProveInstalled("renewal")
RetryRenewalInstalled == RetryInstalled("renewal")
ReconcileRenewal == ReconcileInstalled("renewal")
ProveRecoveryInstalled == ProveInstalled("recovery")
RetryRecoveryInstalled == RetryInstalled("recovery")
ReconcileRecovery == ReconcileInstalled("recovery")

Continues ==
    \/ RenewalPrepared \/ sendRenewalProof \/ RenewalApproved \/ RenewalInstalled
    \/ ProofSigned \/ ProofSent \/ RetryDecides \/ TrustContinued \/ Refused
    \/ Reconcile \/ acceptRenewalResult \/ acceptRecoveryResult

Commands ==
    \/ Initialize \/ Bootstrap \/ Install
    \/ \E operation \in Renewals : PrepareRenewal(operation)
    \/ RetryRenewalProof \/ InstallRenewal
    \/ \E operation \in Recoveries : PrepareRecovery(operation)
    \/ InstallRecovery \/ ContinueTrust
    \/ \E kind \in {"enrollment", "recovery"} : Repeated(kind)
    \/ ProveInstalled("enrollment") \/ RetryInstalled("enrollment")
    \/ ReconcileInstalled("enrollment")
    \/ ProveRenewalInstalled \/ RetryRenewalInstalled \/ ReconcileRenewal
    \/ ProveRecoveryInstalled \/ RetryRecoveryInstalled \/ ReconcileRecovery

Fleet ==
    \/ FleetEnrolls
    \/ \E operation \in Renewals \cup Recoveries : FleetApproves(operation)
    \/ \E operation \in {Enrollment} \cup Recoveries : FleetVerifies(operation)
    \/ \E operation \in Operations : FleetIssues(operation) \/ FleetActivates(operation)

Next == Commands \/ Continues \/ RequestLost \/ Lost \/ Fleet \/ Tick

Spec == Init /\ [][Next]_vars

\* The next step that the documents name for an interrupted operation.
DocumentedStep(kind) ==
    \/ kind = "enrollment" /\ Install
    \/ kind = "renewal" /\ (RetryRenewalProof \/ InstallRenewal)
    \/ kind = "recovery" /\ (InstallRecovery \/ (Phase(kind) = "proof_prepared" /\ Repeated(kind)))
    \/ ProveInstalled(kind)
    \/ RetryInstalled(kind)
    \/ Phase(kind) = "verified" /\ ReconcileInstalled(kind)

\* A command waits for Fleet a bounded time only, and so goes on or ends; the
\* operator follows the documents, and Fleet's operator does his part.
Fairness ==
    /\ WF_vars(Continues)
    /\ \A kind \in {"enrollment", "renewal", "recovery"} : SF_vars(DocumentedStep(kind))
    /\ \A operation \in Operations :
          WF_vars(FleetVerifies(operation) \/ FleetIssues(operation) \/ FleetActivates(operation))

FairSpec == Spec /\ Fairness
-----------------------------------------------------------------------------
\* The proofs that the file holds.
ProofsOf(entry) ==
    {Proof(entry.op, "key", entry.proof), Proof(entry.op, "installed", entry.signature)}

SavedProofs ==
    UNION {ProofsOf(entry) : entry \in Range(file.history)
              \cup ({file.enrollment, file.renewal, file.recovery} \ {Nil})}

(***************************************************************************)
(* A signature that has left the device, printed or sent, is the one that  *)
(* the state file holds for that operation and purpose: whatever replies   *)
(* are lost and whatever saves fail, no operation is ever proved with a    *)
(* second signature (PrepareRenewal: "A lost reply never re-signs").       *)
(***************************************************************************)
ProofsAreSaved == sent # {} => sent \subseteq SavedProofs

\* The successors that the file says are active, in their order; a renewal is
\* archived in the history once it is active.
LocalChain ==
    LET renewals == [i \in 1 .. Len(file.history) |-> file.history[i].op]
                        \o (IF Active(file.renewal) THEN <<file.renewal.op>> ELSE <<>>)
        recovered == IF Active(file.recovery) THEN <<file.recovery.op>> ELSE <<>>
        n == IF file.start = Nil THEN Len(renewals) ELSE file.start
    IN  SubSeq(renewals, 1, n) \o recovered \o SubSeq(renewals, n + 1, Len(renewals))

(***************************************************************************)
(* The credentials that the client has put in force, through renewals,     *)
(* a recovery and renewals after it, are those that Fleet has activated,   *)
(* in Fleet's order, and the client is at most one cutover behind; ordinary*)
(* requests use the last of them (acceptRenewalResult, requestKey).        *)
(***************************************************************************)
ChainFollowsFleet ==
    file # Nil =>
        LET local == <<Enrollment>> \o LocalChain
        IN  /\ requestKey(file) = Last(local)
            /\ Len(local) > 1 => IsPrefix(local, chain)
            /\ Len(chain) <= Len(local) + 1

Settled(operation) ==
    \/ operation = Enrollment /\ Phase("enrollment") = "verified"
    \/ file # Nil /\ operation \in Range(LocalChain)

Started(operation) ==
    \E proof \in sent : proof.op = operation

\* A challenge, an approval or a certificate of the operation has run out.
OutOfTime(operation) ==
    LET record == fleet[operation]
    IN  \/ record.state \in {"awaiting_proof", "proof_verified"} /\ record.keyExpires <= now
        \/ record.state = "staged" /\ record.challenge # Nil /\ record.challenge <= now
        \/ record.state = "verified" /\ record.verifiedAt + ChallengeTerm < now
        \/ record.state \in {"staged", "verified", "active"} /\ record.notAfter <= now
        \/ /\ operation \in Renewals
           /\ record.state \notin {"none", "active"}
           /\ fleet[record.predecessor].notAfter <= now
        \/ file # Nil /\ effectiveTrust(file) <= now

\* The file has no room for the documents that the operation has yet to get.
Outgrown(operation) ==
    \E kind \in {"enrollment", "renewal", "recovery"} :
        /\ Phase(kind) # "none"
        /\ file[kind].op = operation
        /\ ~ Fits([file EXCEPT ![kind].phase = IF kind = "enrollment" THEN "verified"
                                               ELSE "active"])

(***************************************************************************)
(* An operation of which a proof has left the device is brought to its end *)
(* by the commands that the documents name for each interruption, unless   *)
(* one of its terms runs out, a save has left its temporary file, or the   *)
(* file has no room for what the operation has yet to save: no lost reply, *)
(* failed save or cutover behind the client's back leaves it without a     *)
(* next step (RetryRenewalProof, RetryRenewalInstalled, ReconcileRenewal   *)
(* and their counterparts).                                                *)
(***************************************************************************)
InterruptionsAreFinished ==
    \A operation \in Operations :
        Started(operation) ~>
            (Settled(operation) \/ OutOfTime(operation) \/ leftover \/ Outgrown(operation))
=============================================================================
