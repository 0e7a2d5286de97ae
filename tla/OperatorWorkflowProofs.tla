----------------------- MODULE OperatorWorkflowProofs -----------------------
(***************************************************************************)
(* Proofs about OperatorWorkflow: whatever is recorded was audited, what   *)
(* is recorded of an operation is true of the target, an audited step can  *)
(* be finished, and a reconciliation claim ends the mutation.              *)
(*                                                                         *)
(* A command and a proposal file rest on a transaction that they have read *)
(* and that may be gone when they are used.  The invariant says what they  *)
(* know of the current one: if the version is still the same, so is        *)
(* everything but the expiry of the claim, and then the transaction awaits *)
(* what the proposal records.                                              *)
(***************************************************************************)
EXTENDS OperatorWorkflow, SequenceTheorems, TLAPS

-----------------------------------------------------------------------------
(***************************************************************************)
(* The inductive invariant.                                                *)
(***************************************************************************)
\* Two views of a transaction that differ at most in the expiry of the claim.
Same(t, u) ==
    /\ t.status = u.status
    /\ t.fenceEpoch = u.fenceEpoch
    /\ t.closed = u.closed
    /\ t.approval = u.approval
    /\ t.operations = u.operations
    /\ t.disposition = u.disposition
    /\ t.claim = Nil <=> u.claim = Nil
    /\ t.claim # Nil => t.claim.mode = u.claim.mode /\ t.claim.epoch = u.claim.epoch

\* t is the transaction u as it was read at some time.
SnapshotOf(t, u) ==
    /\ t \in TransactionType
    /\ t.version <= u.version
    /\ t.version = u.version => Same(t, u)

\* Before the draft is written there is at most the first claim.
Undrafted(t) ==
    /\ t.status \in {"created", "claimed", "target_bound"}
    /\ t.operations = <<>>
    /\ t.approval = Nil
    /\ t.disposition = Nil
    /\ t.status = "created" => t.claim = Nil /\ t.fenceEpoch = 0
    /\ t.status # "created" =>
          /\ t.fenceEpoch = 1
          /\ t.claim # Nil
          /\ t.claim.mode = "mutation"
          /\ t.claim.epoch = 1

\* Afterwards every claim but the draft's own is one for reconciliation, and no
\* mutation goes on under it.
Drafted(t, dr) ==
    /\ dr <= t.fenceEpoch
    /\ t.claim # Nil => t.claim.epoch = t.fenceEpoch
    /\ t.fenceEpoch = dr =>
          /\ t.claim # Nil => t.claim.mode = "mutation"
          /\ t.status \in {"target_bound", "commit_approved", "mutation_in_progress",
                           "reconciliation_required", "quarantined", "security_applied"}
    /\ t.fenceEpoch > dr =>
          /\ t.claim # Nil => t.claim.mode = "reconciliation"
          /\ t.approval = Nil
          /\ t.status \in {"reconciliation_required", "reconciled", "quarantined"}
    /\ t.status \in {"target_bound", "commit_approved", "mutation_in_progress",
                     "reconciliation_required"} => t.disposition = Nil

PhaseOK(t, dr) == IF dr = Nil THEN Undrafted(t) ELSE Drafted(t, dr)

\* The operation o, the s-th of the transaction, was audited in the log au.
OperationAudited(o, s, au, dr) ==
    /\ o.intent \in DOMAIN au
    /\ au[o.intent].kind = "intent"
    /\ au[o.intent].subject = s
    /\ au[o.intent].fence = dr
    /\ o.status = "intent_recorded" => o.evidence = Nil /\ o.reconciliation = Nil
    /\ o.evidence # Nil =>
          /\ o.evidence \in DOMAIN au
          /\ au[o.evidence].kind = "evidence"
          /\ au[o.evidence].attempt.receipt = o.intent
          /\ o.reconciliation = Nil => au[o.evidence].attempt = o.attempt
    /\ o.reconciliation # Nil =>
          /\ o.reconciliation \in DOMAIN au
          /\ au[o.reconciliation].kind = "reconciliation"
          /\ au[o.reconciliation].fence > dr
          /\ au[o.reconciliation].attempt = o.attempt

ApprovalAudited(a, au) ==
    a # Nil =>
        /\ a.receipt \in DOMAIN au
        /\ au[a.receipt].kind = "approval"
        /\ au[a.receipt].subject = a.approver

AuditedOK(t, au, dr) ==
    /\ ApprovalAudited(t.approval, au)
    /\ \A s \in 1..Len(t.operations) : OperationAudited(t.operations[s], s, au, dr)

\* What the operation o, the s-th, is said to have done is true of the target.
OperationTrue(o, s, ap, jo) ==
    /\ s \in Sequences
    /\ o.status \in {"succeeded", "confirmed_applied"} => s \in ap
    /\ o.status = "confirmed_not_applied" => s \notin ap /\ jo[s] # <<>>

TruthOK(t, ap, jo) ==
    \A s \in 1..Len(t.operations) : OperationTrue(t.operations[s], s, ap, jo)

\* An attempt that the guard has exported.
IsExported(a, jo) ==
    a \in Attempt /\ \E i \in 1..Len(jo[a.sequence]) : jo[a.sequence][i] = a

\* The journal tells the truth, and the guard executes only an operation that
\* was intended and that it has not attempted before.
GuardOK ==
    /\ \A s \in Sequences : \A i \in 1..Len(journal[s]) :
          /\ journal[s][i].sequence = s
          /\ journal[s][i].status = "verified" => s \in applied
          /\ journal[s][i].status = "confirmed_not_applied" => s \notin applied
    /\ guard # 0 => tx # Nil /\ guard <= Len(tx.operations) /\ journal[guard] = <<>>

\* The transaction u awaits what the proposal q records.
Awaited(q, u, dr) ==
    /\ u.claim # Nil
    /\ u.claim.epoch = q.epoch
    /\ u.fenceEpoch = q.epoch
    /\ q.kind = "approval" =>
          /\ u.claim.mode = "mutation"
          /\ u.operations = <<>>
          /\ u.status = "target_bound"
          /\ u.approval = Nil
    /\ q.kind = "intent" =>
          /\ u.claim.mode = "mutation"
          /\ q.epoch = dr
          /\ u.status = "commit_approved"
          /\ u.approval # Nil
          /\ u.approval.approver = q.approver
          /\ AllCompleted(u, Len(u.operations))
          /\ q.subject = Len(u.operations) + 1
          /\ q.subject \in Sequences
    /\ q.kind = "evidence" =>
          /\ u.claim.mode = "mutation"
          /\ u.status = "mutation_in_progress"
          /\ Len(u.operations) = q.attempt.sequence
          /\ Last(u).intent = q.attempt.receipt
          /\ Last(u).status = "intent_recorded"
          /\ q.subject[1] = Len(u.operations)
    /\ q.kind = "security_applied" =>
          /\ u.claim.mode = "mutation"
          /\ q.epoch = dr
          /\ u.status = "commit_approved"
          /\ u.approval # Nil
          /\ u.version <= q.at
          /\ Len(u.operations) = NumOps
          /\ AllCompleted(u, NumOps)
          /\ q.subject = u.operations
    /\ q.kind = "reconciliation" =>
          /\ u.claim.mode = "reconciliation"
          /\ u.claim.epoch > dr
          /\ u.status = "reconciliation_required"
          /\ u.approval = Nil
          /\ u.disposition = Nil
          /\ Len(u.operations) = q.attempt.sequence
          /\ AllCompleted(u, Len(u.operations) - 1)
          /\ Last(u).intent = q.attempt.receipt
          /\ Last(u).status \in {"intent_recorded", "uncertain"}

\* What a proposal rests on, whenever it was written.
ProposalOK(q, u, dr, jo) ==
    /\ q \in ProposalType
    /\ q.kind = "approval" => q.subject \in Approvers /\ q.subject = q.approver
    /\ q.kind = "evidence" =>
          /\ IsExported(q.attempt, jo)
          /\ q.attempt.status \in {"verified", "uncertain", "quarantined"}
    /\ q.kind = "reconciliation" =>
          /\ IsExported(q.attempt, jo)
          /\ q.attempt.status \in Resolutions
    /\ q.version <= u.version
    /\ q.version = u.version => Awaited(q, u, dr)

\* A running prepare-draft.
PrepareOK(c, u) ==
    /\ SnapshotOf(c.before, u)
    /\ Undrafted(c.before)
    /\ c.before.status = "target_bound" => u.status = "target_bound"

\* A command that has read, and may have its answer.
CommandOK(c, u, jo) ==
    /\ SnapshotOf(c.before, u)
    /\ c.command = "propose-approval" => c.argument \in Approvers
    /\ c.command = "propose-next-intent" => Len(c.before.operations) < NumOps
    /\ c.command \in {"propose-evidence", "propose-reconciliation"} =>
          IsExported(c.argument, jo)
    /\ c.command \in {"renew-ready-campaign", "propose-security-applied"} =>
          c.before.status = "commit_approved"
    /\ c.command = "prepare-reconciliation" =>
          /\ c.before.disposition = Nil
          /\ c.before.status \in {"mutation_in_progress", "reconciliation_required"}
    /\ c.pc = "write" =>
          /\ c.command \in Proposing
          /\ c.after # Nil
          /\ SnapshotOf(c.after, u)
          /\ (c.command = "propose-security-applied"
                /\ c.after.version = c.before.version + 1) =>
                   c.after.status # "security_applied"

\* An apply command.
ApplyOK(c, u, dr, jo, au) ==
    /\ ProposalOK(c.proposal, u, dr, jo)
    /\ c.pc = "record" =>
          c.receipt \in DOMAIN au /\ au[c.receipt] = AuditEvent(c.proposal)

ProcessOK(c, u, dr, jo, au) ==
    /\ u # Nil
    /\ c.pc = "prepare" => dr = Nil /\ PrepareOK(c, u)
    /\ c.pc # "prepare" => dr # Nil
    /\ c.pc \in {"call", "write"} => CommandOK(c, u, jo)
    /\ c.pc \in {"append", "record"} => ApplyOK(c, u, dr, jo, au)

\* What is known of the transaction once the request d is in the index.
DoneOK(d, u, dr) ==
    /\ d.version \in Nat
    /\ d.version < u.version
    /\ (d.label = "renew-ready-campaign" /\ d.version + 1 = u.version) =>
          u.status # "security_applied"
    /\ d.label \in RecordLabels => dr # Nil
    /\ d.label = "approval" => u.status # "target_bound"
    /\ d.label = "intent" => d.subject \in 1..Len(u.operations)
    /\ d.label = "evidence" =>
          /\ d.subject[1] \in 1..Len(u.operations)
          /\ u.operations[d.subject[1]].status # "intent_recorded"
    /\ d.label = "security_applied" => u.status = "security_applied"
    /\ d.label = "reconciliation" => u.status \in {"quarantined", "reconciled"}

TransactionOK ==
    IF tx = Nil THEN draft = Nil /\ done = {}
    ELSE /\ PhaseOK(tx, draft)
         /\ AuditedOK(tx, audit, draft)
         /\ TruthOK(tx, applied, journal)
         /\ \A d \in done : DoneOK(d, tx, draft)

CommandsOK ==
    /\ \A p \in Procs : procs[p] # Nil => ProcessOK(procs[p], tx, draft, journal, audit)
    /\ \A q \in proposals : tx # Nil /\ draft # Nil /\ ProposalOK(q, tx, draft, journal)

IInv == TypeOK /\ TransactionOK /\ GuardOK /\ CommandsOK

-----------------------------------------------------------------------------
(***************************************************************************)
(* The types, taken apart.                                                 *)
(***************************************************************************)
\* The fields of a transaction.
LEMMA TransactionFields ==
    ASSUME NEW t \in TransactionType
    PROVE  /\ t # Nil
           /\ t.version \in Nat
           /\ t.fenceEpoch \in Nat
           /\ t.claim # Nil => t.claim \in ClaimType /\ t.claim.epoch \in Nat
           /\ t.approval # Nil => t.approval \in ApprovalType
           /\ t.operations \in Seq(OperationType)
           /\ Len(t.operations) \in Nat
           /\ DOMAIN t.operations = 1..Len(t.operations)
           /\ \A s \in 1..Len(t.operations) : t.operations[s] \in OperationType
           /\ t.disposition \in Nat \cup {Nil}
  <1>1. t.operations \in Seq(OperationType)
    BY DEF TransactionType
  <1>2. /\ Len(t.operations) \in Nat
        /\ DOMAIN t.operations = 1..Len(t.operations)
        /\ \A s \in 1..Len(t.operations) : t.operations[s] \in OperationType
    BY <1>1, LenProperties, ElementOfSeq
  <1>3. t # Nil
    BY NilAssumption
  <1> QED
    BY <1>1, <1>2, <1>3 DEF TransactionType, ClaimType

\* A running command is of the kind that its program counter says.
LEMMA ProcessKinds ==
    ASSUME NEW c \in ProcessType
    PROVE  /\ c # Nil
           /\ c.pc \in {"prepare", "call", "write", "append", "record"}
           /\ c.pc = "prepare" =>
                c.before \in TransactionType /\ c = [pc |-> "prepare", before |-> c.before]
           /\ c.pc \in {"call", "write"} =>
                /\ c.command \in Commands
                /\ c.argument \in Approvers \cup Attempt \cup {Nil}
                /\ c.at \in Nat
                /\ c.before \in TransactionType
                /\ c.after \in TransactionType \cup {Nil}
                /\ c = [pc |-> c.pc, command |-> c.command, argument |-> c.argument,
                        at |-> c.at, before |-> c.before, after |-> c.after]
           /\ c.pc \in {"append", "record"} =>
                /\ c.proposal \in ProposalType
                /\ c.receipt \in Nat \cup {Nil}
                /\ c = [pc |-> c.pc, proposal |-> c.proposal, receipt |-> c.receipt]
  <1>1. c # Nil
    BY NilAssumption
  <1>2. CASE c \in [pc : {"prepare"}, before : TransactionType]
    BY <1>1, <1>2
  <1>3. CASE c \in [pc : {"call", "write"}, command : Commands,
                    argument : Approvers \cup Attempt \cup {Nil}, at : Nat,
                    before : TransactionType, after : TransactionType \cup {Nil}]
    BY <1>1, <1>3
  <1>4. CASE c \in [pc : {"append", "record"}, proposal : ProposalType,
                    receipt : Nat \cup {Nil}]
    BY <1>1, <1>4
  <1> QED
    BY <1>2, <1>3, <1>4 DEF ProcessType

-----------------------------------------------------------------------------
(***************************************************************************)
(* What has been read stays true of the past.                              *)
(***************************************************************************)
\* The transaction u2, the journal jo2 and the log au2 come after u, jo and au.
Follows(u, u2, dr, jo, jo2, au, au2) ==
    /\ u \in TransactionType
    /\ u2 \in TransactionType
    /\ u.version <= u2.version
    /\ u.version = u2.version => Same(u, u2)
    /\ dr = Nil /\ u.status = "target_bound" => u2.status = "target_bound"
    /\ \A s \in Sequences : \A i \in 1..Len(jo[s]) :
          i \in 1..Len(jo2[s]) /\ jo2[s][i] = jo[s][i]
    /\ \A i \in DOMAIN au : i \in DOMAIN au2 /\ au2[i] = au[i]

\* An exported attempt stays in the journal.
LEMMA ExportKept ==
    ASSUME NEW u, NEW u2, NEW dr, NEW jo, NEW jo2, NEW au, NEW au2, NEW a,
           Follows(u, u2, dr, jo, jo2, au, au2), IsExported(a, jo)
    PROVE  IsExported(a, jo2)
  <1>1. a \in Attempt /\ a.sequence \in Sequences
    BY DEF IsExported, Attempt
  <1>2. PICK i \in 1..Len(jo[a.sequence]) : jo[a.sequence][i] = a
    BY DEF IsExported
  <1>3. i \in 1..Len(jo2[a.sequence]) /\ jo2[a.sequence][i] = a
    BY <1>1, <1>2 DEF Follows
  <1> QED
    BY <1>1, <1>3 DEF IsExported

\* A view of the transaction stays one.
LEMMA SnapshotKept ==
    ASSUME NEW u, NEW u2, NEW dr, NEW jo, NEW jo2, NEW au, NEW au2, NEW t,
           Follows(u, u2, dr, jo, jo2, au, au2), SnapshotOf(t, u)
    PROVE  SnapshotOf(t, u2)
  <1>1. t.version \in Nat /\ u.version \in Nat /\ u2.version \in Nat
    BY TransactionFields DEF Follows, SnapshotOf
  <1>2. t \in TransactionType /\ t.version <= u2.version
    BY <1>1 DEF Follows, SnapshotOf
  <1>3. ASSUME t.version = u2.version
        PROVE  Same(t, u2)
    <2>1. t.version = u.version /\ u.version = u2.version
      BY <1>1, <1>3 DEF Follows, SnapshotOf
    <2>2. Same(t, u) /\ Same(u, u2)
      BY <2>1 DEF Follows, SnapshotOf
    <2> QED
      BY <2>2 DEF Same
  <1> QED
    BY <1>2, <1>3 DEF SnapshotOf

\* What a transaction awaits does not depend on the expiry of its claim.
LEMMA AwaitedOfSame ==
    ASSUME NEW u, NEW u2, NEW q, NEW dr,
           Same(u, u2), u.version = u2.version, Awaited(q, u, dr)
    PROVE  Awaited(q, u2, dr)
  <1>1. /\ u2.claim # Nil
        /\ u2.claim.epoch = u.claim.epoch
        /\ u2.claim.mode = u.claim.mode
    BY DEF Same, Awaited
  <1>2. /\ u2.status = u.status
        /\ u2.fenceEpoch = u.fenceEpoch
        /\ u2.approval = u.approval
        /\ u2.operations = u.operations
        /\ u2.disposition = u.disposition
    BY DEF Same
  <1> QED
    BY <1>1, <1>2 DEF Awaited, AllCompleted, Last

\* A proposal keeps what it rests on.
LEMMA ProposalKept ==
    ASSUME NEW u, NEW u2, NEW dr, NEW jo, NEW jo2, NEW au, NEW au2, NEW q,
           Follows(u, u2, dr, jo, jo2, au, au2), ProposalOK(q, u, dr, jo)
    PROVE  ProposalOK(q, u2, dr, jo2)
  <1>1. q.version \in Nat /\ u.version \in Nat /\ u2.version \in Nat
    BY TransactionFields DEF Follows, ProposalOK, ProposalType
  <1>2. q.version <= u2.version
    BY <1>1 DEF Follows, ProposalOK
  <1>3. ASSUME q.version = u2.version
        PROVE  Awaited(q, u2, dr)
    <2>1. q.version = u.version /\ u.version = u2.version
      BY <1>1, <1>3 DEF Follows, ProposalOK
    <2> QED
      BY <2>1, AwaitedOfSame DEF Follows, ProposalOK
  <1>4. IsExported(q.attempt, jo) => IsExported(q.attempt, jo2)
    BY ExportKept
  <1> QED
    BY <1>2, <1>3, <1>4 DEF ProposalOK

\* So does a running command.
LEMMA ProcessKept ==
    ASSUME NEW u, NEW u2, NEW dr, NEW jo, NEW jo2, NEW au, NEW au2, NEW c \in ProcessType,
           Follows(u, u2, dr, jo, jo2, au, au2), ProcessOK(c, u, dr, jo, au)
    PROVE  ProcessOK(c, u2, dr, jo2, au2)
  <1>0. u2 # Nil
    BY TransactionFields DEF Follows
  <1>1. ASSUME c.pc = "prepare"
        PROVE  dr = Nil /\ PrepareOK(c, u2)
    <2>1. dr = Nil /\ PrepareOK(c, u)
      BY <1>1 DEF ProcessOK
    <2>2. SnapshotOf(c.before, u2)
      BY <2>1, SnapshotKept DEF PrepareOK
    <2> QED
      BY <2>1, <2>2 DEF PrepareOK, Follows
  <1>2. ASSUME c.pc \in {"call", "write"}
        PROVE  CommandOK(c, u2, jo2)
    <2>1. CommandOK(c, u, jo)
      BY <1>2 DEF ProcessOK
    <2>2. SnapshotOf(c.before, u2)
      BY <2>1, SnapshotKept DEF CommandOK
    <2>3. SnapshotOf(c.after, u) => SnapshotOf(c.after, u2)
      BY SnapshotKept
    <2>4. IsExported(c.argument, jo) => IsExported(c.argument, jo2)
      BY ExportKept
    <2> QED
      BY <2>1, <2>2, <2>3, <2>4 DEF CommandOK
  <1>3. ASSUME c.pc \in {"append", "record"}
        PROVE  ApplyOK(c, u2, dr, jo2, au2)
    <2>1. ApplyOK(c, u, dr, jo, au)
      BY <1>3 DEF ProcessOK
    <2>2. ProposalOK(c.proposal, u2, dr, jo2)
      BY <2>1, ProposalKept DEF ApplyOK
    <2>3. c.receipt \in DOMAIN au => c.receipt \in DOMAIN au2 /\ au2[c.receipt] = au[c.receipt]
      BY DEF Follows
    <2> QED
      BY <2>1, <2>2, <2>3 DEF ApplyOK
  <1>4. c.pc # "prepare" => dr # Nil
    BY DEF ProcessOK
  <1> QED
    BY <1>0, <1>1, <1>2, <1>3, <1>4 DEF ProcessOK

\* The running commands after a step: each goes on with what it knew, has ended,
\* or has something new that is in order.
ProcessesMove ==
    \A o \in Procs :
        \/ procs'[o] = procs[o]
        \/ procs'[o] = Nil
        \/ ProcessOK(procs'[o], tx', draft', journal', audit')

\* The files after a step.
FilesMove ==
    \A q \in proposals' :
        \/ q \in proposals
        \/ draft' # Nil /\ ProposalOK(q, tx', draft', journal')

\* Commands and files stay in order when the step comes after what they rest on.
LEMMA CommandsKept ==
    ASSUME IInv, tx # Nil, draft' = draft, ProcessesMove, FilesMove,
           Follows(tx, tx', draft, journal, journal', audit, audit')
    PROVE  CommandsOK'
  <1>0. tx' # Nil
    BY TransactionFields DEF Follows
  <1>1. ASSUME NEW o \in Procs, procs'[o] # Nil
        PROVE  ProcessOK(procs'[o], tx', draft', journal', audit')
    <2>1. CASE procs'[o] = procs[o]
      <3>1. procs[o] \in ProcessType /\ ProcessOK(procs[o], tx, draft, journal, audit)
        BY <1>1, <2>1 DEF IInv, TypeOK, CommandsOK
      <3>2. ProcessOK(procs[o], tx', draft, journal', audit')
        BY <3>1, ProcessKept
      <3> QED
        BY <3>2, <2>1
    <2> QED
      BY <1>1, <2>1 DEF ProcessesMove
  <1>2. ASSUME NEW q \in proposals'
        PROVE  tx' # Nil /\ draft' # Nil /\ ProposalOK(q, tx', draft', journal')
    <2>1. CASE q \in proposals
      <3>1. draft # Nil /\ ProposalOK(q, tx, draft, journal)
        BY <2>1 DEF IInv, CommandsOK
      <3>2. ProposalOK(q, tx', draft, journal')
        BY <3>1, ProposalKept
      <3> QED
        BY <1>0, <3>1, <3>2
    <2> QED
      BY <1>0, <1>2, <2>1 DEF FilesMove
  <1> QED
    BY <1>1, <1>2 DEF CommandsOK

-----------------------------------------------------------------------------
(***************************************************************************)
(* Steps of the commands that change neither the service nor the guard.    *)
(***************************************************************************)
\* A step that leaves everything alone comes after what there was.
LEMMA FollowsSelf ==
    ASSUME IInv, tx # Nil, UNCHANGED <<tx, journal, audit>>
    PROVE  Follows(tx, tx', draft, journal, journal', audit, audit')
  <1>1. tx \in TransactionType
    BY DEF IInv, TypeOK
  <1>2. tx.version <= tx.version /\ Same(tx, tx)
    BY <1>1, TransactionFields DEF Same
  <1> QED
    BY <1>1, <1>2 DEF Follows

\* One command goes on, the others stay where they are.
LEMMA OneMoves ==
    ASSUME TypeOK, NEW p \in Procs, NEW c, procs' = [procs EXCEPT ![p] = c],
           \/ c = Nil
           \/ c \in ProcessType /\ ProcessOK(c, tx', draft', journal', audit')
    PROVE  procs' \in [Procs -> ProcessType \cup {Nil}] /\ ProcessesMove
  <1>1. procs \in [Procs -> ProcessType \cup {Nil}]
    BY DEF TypeOK
  <1>2. procs' \in [Procs -> ProcessType \cup {Nil}]
    BY <1>1
  <1>3. \A o \in Procs : procs'[o] = IF o = p THEN c ELSE procs[o]
    BY <1>1
  <1> QED
    BY <1>2, <1>3 DEF ProcessesMove

\* A step of a command that only reads or writes a file.
LEMMA QuietKeeps ==
    ASSUME IInv, tx # Nil, NEW p \in Procs, NEW c, procs' = [procs EXCEPT ![p] = c],
           \/ c = Nil
           \/ c \in ProcessType /\ ProcessOK(c, tx, draft, journal, audit),
           proposals' \subseteq ProposalType, FilesMove,
           UNCHANGED <<tx, done, audit, draft, journal, guard, applied, windowOpen>>
    PROVE  IInv'
  <1>1. procs' \in [Procs -> ProcessType \cup {Nil}] /\ ProcessesMove
    <2>1. TypeOK
      BY DEF IInv
    <2>2. \/ c = Nil
          \/ c \in ProcessType /\ ProcessOK(c, tx', draft', journal', audit')
      OBVIOUS
    <2> QED
      BY <2>1, <2>2, OneMoves
  <1>2. CommandsOK'
    BY <1>1, FollowsSelf, CommandsKept
  <1>3. TypeOK'
    BY <1>1 DEF IInv, TypeOK
  <1>4. TransactionOK'
    BY DEF IInv, TransactionOK
  <1>5. GuardOK'
    BY DEF IInv, GuardOK
  <1> QED
    BY <1>2, <1>3, <1>4, <1>5 DEF IInv

\* A running command means that there is a transaction.
LEMMA RunningFacts ==
    ASSUME IInv, NEW p \in Procs, ~ Idle(p)
    PROVE  /\ tx # Nil
           /\ tx \in TransactionType
           /\ procs[p] \in ProcessType
           /\ ProcessOK(procs[p], tx, draft, journal, audit)
  <1>1. procs[p] # Nil /\ procs[p] \in ProcessType
    BY DEF Idle, IInv, TypeOK
  <1>2. ProcessOK(procs[p], tx, draft, journal, audit)
    BY <1>1 DEF IInv, CommandsOK
  <1>3. tx # Nil
    BY <1>2 DEF ProcessOK
  <1> QED
    BY <1>1, <1>2, <1>3 DEF IInv, TypeOK

\* A command that is refused, killed or loses its answer leaves nothing behind.
LEMMA EndKeeps ==
    ASSUME IInv, NEW p \in Procs, Refused(p) \/ Crash(p)
    PROVE  IInv'
  <1>1. ~ Idle(p) /\ procs' = [procs EXCEPT ![p] = Nil]
    BY DEF Refused, Crash, Ends
  <1>2. UNCHANGED <<tx, done, audit, draft, proposals, journal, guard, applied, windowOpen>>
    BY DEF Refused, Crash, serviceVars, fileVars, guardVars
  <1>3. proposals' \subseteq ProposalType /\ FilesMove
    BY <1>2 DEF IInv, TypeOK, FilesMove
  <1> QED
    BY <1>1, <1>2, <1>3, RunningFacts, QuietKeeps

\* An argument is an approver, an exported attempt or nothing.
LEMMA ArgumentFacts ==
    ASSUME IInv, NEW command \in Commands, NEW a \in Arguments(command)
    PROVE  /\ a \in Approvers \cup Attempt \cup {Nil}
           /\ command = "propose-approval" => a \in Approvers
           /\ command \in {"propose-evidence", "propose-reconciliation"} =>
                IsExported(a, journal)
  <1>1. CASE command \in {"propose-evidence", "propose-reconciliation"}
    <2>1. a \in UNION {Exported(s) : s \in Sequences}
      BY <1>1 DEF Arguments
    <2>2. PICK s \in Sequences : a \in Exported(s)
      BY <2>1
    <2>3. PICK i \in DOMAIN journal[s] : a = journal[s][i]
      BY <2>2 DEF Exported
    <2>4. journal[s] \in Seq(Attempt)
      BY DEF IInv, TypeOK
    <2>5. i \in 1..Len(journal[s]) /\ a \in Attempt
      BY <2>3, <2>4, LenProperties, ElementOfSeq
    <2>6. a.sequence = s
      BY <2>3, <2>5 DEF IInv, GuardOK
    <2>7. IsExported(a, journal)
      BY <2>3, <2>5, <2>6 DEF IsExported
    <2> QED
      BY <1>1, <2>5, <2>7
  <1>2. CASE command = "propose-approval"
    BY <1>2 DEF Arguments
  <1>3. CASE command \notin {"propose-approval", "propose-evidence", "propose-reconciliation"}
    BY <1>3 DEF Arguments
  <1> QED
    BY <1>1, <1>2, <1>3

\* A command starts with what it has read and the argument it was given.
LEMMA ReadKeeps ==
    ASSUME IInv, NEW p \in Procs, NEW command \in Commands, Read(p, command)
    PROVE  IInv'
  <1>1. tx # Nil /\ draft # Nil
    BY DEF Read
  <1>2. PICK skew \in Skews, argument \in Arguments(command) :
          /\ Ready(command, tx, UpdatedAt(tx) + skew)
          /\ procs' = [procs EXCEPT ![p] =
                          [pc |-> "call", command |-> command, argument |-> argument,
                           at |-> UpdatedAt(tx) + skew, before |-> tx, after |-> Nil]]
    BY DEF Read
  <1>3. UNCHANGED <<tx, done, audit, draft, proposals, journal, guard, applied, windowOpen>>
    BY DEF Read, serviceVars, fileVars, guardVars
  <1> DEFINE c == [pc |-> "call", command |-> command, argument |-> argument,
                   at |-> UpdatedAt(tx) + skew, before |-> tx, after |-> Nil]
  <1>4. tx \in TransactionType
    BY <1>1 DEF IInv, TypeOK
  <1>5. UpdatedAt(tx) + skew \in Nat
    BY <1>4, TransactionFields, WorkflowAssumption DEF UpdatedAt
  <1>6. c \in ProcessType
    BY <1>4, <1>5, ArgumentFacts DEF ProcessType
  <1>7. CommandOK(c, tx, journal)
    <2>1. SnapshotOf(tx, tx)
      BY <1>4, TransactionFields DEF SnapshotOf, Same
    <2>2. command = "propose-next-intent" => Len(tx.operations) < NumOps
      BY <1>2 DEF Ready, PrepareNextIntent
    <2>3. command \in {"renew-ready-campaign", "propose-security-applied"} =>
            tx.status = "commit_approved"
      BY <1>2 DEF Ready, RenewReadyCampaign, readyCampaignPrefix, matchDraftTransaction
    <2>4. command = "prepare-reconciliation" =>
            /\ tx.disposition = Nil
            /\ tx.status \in {"mutation_in_progress", "reconciliation_required"}
      BY <1>2 DEF Ready, PrepareReconciliationClaim, unresolvedSequence
    <2>5. /\ c.before = tx /\ c.command = command /\ c.argument = argument
          /\ c.pc = "call"
      OBVIOUS
    <2>6. /\ command = "propose-approval" => argument \in Approvers
          /\ command \in {"propose-evidence", "propose-reconciliation"} =>
                IsExported(argument, journal)
      BY ArgumentFacts
    <2> HIDE DEF c
    <2> QED
      BY <2>1, <2>2, <2>3, <2>4, <2>5, <2>6 DEF CommandOK
  <1>8. ProcessOK(c, tx, draft, journal, audit)
    <2>1. c.pc = "call"
      OBVIOUS
    <2> HIDE DEF c
    <2> QED
      BY <1>1, <1>7, <2>1 DEF ProcessOK
  <1>9. proposals' \subseteq ProposalType /\ FilesMove
    BY <1>3 DEF IInv, TypeOK, FilesMove
  <1>10. procs' = [procs EXCEPT ![p] = c]
    BY <1>2
  <1> HIDE DEF c
  <1> QED
    BY <1>1, <1>3, <1>6, <1>8, <1>9, <1>10, QuietKeeps

\* An apply command starts with a proposal from a file.
LEMMA CheckKeeps ==
    ASSUME IInv, NEW p \in Procs, NEW q \in proposals, Check(p, q)
    PROVE  IInv'
  <1> DEFINE c == [pc |-> "append", proposal |-> q, receipt |-> Nil]
  <1>1. tx # Nil /\ draft # Nil /\ ProposalOK(q, tx, draft, journal)
    BY DEF IInv, CommandsOK
  <1>2. procs' = [procs EXCEPT ![p] = c]
    BY DEF Check
  <1>3. UNCHANGED <<tx, done, audit, draft, proposals, journal, guard, applied, windowOpen>>
    BY DEF Check, serviceVars, fileVars, guardVars
  <1>4. c \in ProcessType
    BY <1>1 DEF ProcessType, ProposalOK
  <1>5. c.pc = "append" /\ c.proposal = q
    OBVIOUS
  <1> HIDE DEF c
  <1>6. ProcessOK(c, tx, draft, journal, audit)
    BY <1>1, <1>5 DEF ProcessOK, ApplyOK
  <1>7. proposals' \subseteq ProposalType /\ FilesMove
    BY <1>3 DEF IInv, TypeOK, FilesMove
  <1> QED
    BY <1>1, <1>2, <1>3, <1>4, <1>6, <1>7, QuietKeeps

-----------------------------------------------------------------------------
(***************************************************************************)
(* The proposals that are written.                                         *)
(***************************************************************************)
\* What a propose command that has its answer knows.
WriteFacts(c) ==
    /\ c \in ProcessType
    /\ c.pc = "write"
    /\ CommandOK(c, tx, journal)
    /\ c.after \in TransactionType
    /\ SnapshotOf(c.after, tx)
    /\ c.at \in Nat
    /\ draft \in Nat
    /\ tx \in TransactionType
    /\ PhaseOK(tx, draft)

\* A propose command with its answer has read a transaction that was current.
LEMMA WriterKnows ==
    ASSUME IInv, NEW p \in Procs, ~ Idle(p), procs[p].pc = "write"
    PROVE  WriteFacts(procs[p])
  <1>1. /\ tx # Nil /\ tx \in TransactionType
        /\ procs[p] \in ProcessType
        /\ ProcessOK(procs[p], tx, draft, journal, audit)
    BY RunningFacts
  <1>2. CommandOK(procs[p], tx, journal) /\ draft # Nil
    BY <1>1 DEF ProcessOK
  <1>3. SnapshotOf(procs[p].after, tx)
    BY <1>2 DEF CommandOK
  <1>4. draft \in Nat
    BY <1>2 DEF IInv, TypeOK
  <1>5. PhaseOK(tx, draft)
    BY <1>1 DEF IInv, TransactionOK
  <1>6. procs[p].at \in Nat
    BY <1>1, ProcessKinds
  <1> QED
    BY <1>1, <1>2, <1>3, <1>4, <1>5, <1>6 DEF WriteFacts, SnapshotOf

\* The proposal for the renewed transaction t: what it is made of, and that it is
\* in order if t awaits it.
LEMMA ProposalMade ==
    ASSUME NEW kind \in RecordLabels, NEW subject \in SubjectType, NEW t, NEW at \in Nat,
           NEW approver \in Approvers \cup {Nil}, NEW attempt \in Attempt \cup {Nil},
           SnapshotOf(t, tx),
           kind = "approval" => subject \in Approvers /\ subject = approver,
           kind = "evidence" =>
              /\ IsExported(attempt, journal)
              /\ attempt.status \in {"verified", "uncertain", "quarantined"},
           kind = "reconciliation" =>
              IsExported(attempt, journal) /\ attempt.status \in Resolutions,
           Same(t, tx) /\ t.version = tx.version =>
              Awaited(Proposal(kind, subject, t, at, approver, attempt), tx, draft)
    PROVE  ProposalOK(Proposal(kind, subject, t, at, approver, attempt), tx, draft, journal)
  <1> DEFINE q == Proposal(kind, subject, t, at, approver, attempt)
  <1>1. t.version \in Nat /\ t.fenceEpoch \in Nat
    BY TransactionFields DEF SnapshotOf
  <1>2. /\ q \in ProposalType
        /\ q.kind = kind /\ q.subject = subject /\ q.version = t.version
        /\ q.approver = approver /\ q.attempt = attempt
    BY <1>1 DEF Proposal, ProposalType
  <1>3. q.version <= tx.version /\ (q.version = tx.version => Awaited(q, tx, draft))
    BY <1>2 DEF SnapshotOf
  <1> HIDE DEF q
  <1>4. ProposalOK(q, tx, draft, journal)
    BY <1>2, <1>3 DEF ProposalOK
  <1> QED
    BY <1>4 DEF q

\* A view that the draft matches is under the draft's claim, and so is the
\* transaction if nothing happened since.
LEMMA DraftMatch ==
    ASSUME NEW t, NEW status, matchDraftTransaction(t, status), Same(t, tx)
    PROVE  /\ tx.status = status
           /\ tx.fenceEpoch = draft
           /\ t.fenceEpoch = draft
           /\ tx.claim # Nil
           /\ tx.claim.mode = "mutation"
           /\ tx.claim.epoch = draft
  BY DEF matchDraftTransaction, Same

\* NewApprovalProposal.
LEMMA ApprovalWritten ==
    ASSUME NEW c, WriteFacts(c), c.command = "propose-approval",
           NEW q \in NewApprovalProposal(c, c.after)
    PROVE  ProposalOK(q, tx, draft, journal)
  <1> DEFINE t == c.after
  <1>1. /\ q = Proposal("approval", c.argument, t, c.at, c.argument, Nil)
        /\ matchRenewableTargetBoundCampaign(t, UpdatedAt(t))
    BY DEF NewApprovalProposal
  <1>2. c.argument \in Approvers /\ c.argument \in SubjectType
    BY DEF WriteFacts, CommandOK, SubjectType
  <1>3. ASSUME Same(t, tx), t.version = tx.version
        PROVE  Awaited(q, tx, draft)
    <2>1. q.kind = "approval" /\ q.epoch = t.fenceEpoch
      BY <1>1 DEF Proposal
    <2>2. matchDraftTransaction(t, "target_bound") /\ t.approval = Nil /\ t.operations = <<>>
      BY <1>1 DEF matchRenewableTargetBoundCampaign
    <2>3. tx.approval = Nil /\ tx.operations = <<>>
      BY <1>3, <2>2 DEF Same
    <2> QED
      BY <1>3, <2>1, <2>2, <2>3, DraftMatch DEF Awaited
  <1>4. SnapshotOf(t, tx) /\ c.at \in Nat /\ "approval" \in RecordLabels
    BY DEF WriteFacts, RecordLabels
  <1> HIDE DEF t
  <1> QED
    BY <1>1, <1>2, <1>3, <1>4, ProposalMade

\* NewIntentProposal.
LEMMA IntentWritten ==
    ASSUME NEW c, WriteFacts(c), c.command = "propose-next-intent", Renewed(c),
           NEW q \in NewIntentProposal(c, c.after)
    PROVE  ProposalOK(q, tx, draft, journal)
  <1> DEFINE t == c.after
             approver == IF t.approval = Nil THEN Nil ELSE t.approval.approver
             n == Len(t.operations) + 1
  <1>1. /\ q = Proposal("intent", n, t, c.at, approver, Nil)
        /\ readyCampaignPrefix(t, c.at)
    BY DEF NewIntentProposal
  <1>2. /\ SnapshotOf(t, tx) /\ c.at \in Nat /\ "intent" \in RecordLabels
        /\ t \in TransactionType
    BY DEF WriteFacts, RecordLabels
  <1>3. Len(t.operations) \in Nat /\ (t.approval # Nil => t.approval \in ApprovalType)
    BY <1>2, TransactionFields
  <1>4. n \in SubjectType /\ approver \in Approvers \cup {Nil}
    BY <1>3 DEF SubjectType, ApprovalType
  <1>5. n \in Sequences
    <2>1. Len(t.operations) = Len(c.before.operations)
      BY DEF Renewed
    <2>2. Len(c.before.operations) < NumOps
      BY DEF WriteFacts, CommandOK
    <2> QED
      BY <1>3, <2>1, <2>2, WorkflowAssumption DEF Sequences
  <1>6. ASSUME Same(t, tx), t.version = tx.version
        PROVE  Awaited(q, tx, draft)
    <2>1. /\ q.kind = "intent" /\ q.epoch = t.fenceEpoch
          /\ q.subject = n /\ q.approver = approver
      BY <1>1 DEF Proposal
    <2>2. /\ matchDraftTransaction(t, "commit_approved") /\ t.approval # Nil
          /\ AllSucceeded(t, Len(t.operations))
      BY <1>1 DEF readyCampaignPrefix
    <2>3. tx.approval = t.approval /\ tx.operations = t.operations
      BY <1>6 DEF Same
    <2>4. AllCompleted(tx, Len(tx.operations))
      BY <2>2, <2>3 DEF AllSucceeded, AllCompleted
    <2>5. approver = tx.approval.approver
      BY <2>2, <2>3
    <2>6. q.subject = Len(tx.operations) + 1 /\ q.subject \in Sequences
      BY <1>5, <2>1, <2>3
    <2> HIDE DEF approver, n
    <2> QED
      BY <1>6, <2>1, <2>2, <2>3, <2>4, <2>5, <2>6, DraftMatch DEF Awaited
  <1> HIDE DEF t, approver, n
  <1> QED
    BY <1>1, <1>2, <1>4, <1>6, ProposalMade

\* NewEvidenceProposal.
LEMMA EvidenceWritten ==
    ASSUME NEW c, WriteFacts(c), c.command = "propose-evidence",
           NEW q \in NewEvidenceProposal(c, c.after)
    PROVE  ProposalOK(q, tx, draft, journal)
  <1> DEFINE t == c.after
             subject == <<Len(t.operations), c.argument.status>>
  <1>1. /\ q = Proposal("evidence", subject, t, c.at, Nil, c.argument)
        /\ pendingCampaignSequence(t, c.at)
        /\ c.argument.sequence = Len(t.operations)
        /\ c.argument.status \in {"verified", "uncertain", "quarantined"}
        /\ c.argument.receipt = Last(t).intent
    BY DEF NewEvidenceProposal
  <1>2. /\ SnapshotOf(t, tx) /\ c.at \in Nat /\ "evidence" \in RecordLabels
        /\ t \in TransactionType
        /\ IsExported(c.argument, journal)
    BY DEF WriteFacts, RecordLabels, CommandOK
  <1>3. c.argument \in Attempt
    BY <1>2 DEF IsExported
  <1>4. subject \in SubjectType
    <2>1. Len(t.operations) \in Nat
      BY <1>2, TransactionFields
    <2>2. c.argument.status \in AttemptStatus
      BY <1>3 DEF Attempt
    <2>3. subject \in Nat \X AttemptStatus
      BY <2>1, <2>2
    <2> QED
      BY <2>3 DEF SubjectType
  <1>5. ASSUME Same(t, tx), t.version = tx.version
        PROVE  Awaited(q, tx, draft)
    <2>1. /\ q.kind = "evidence" /\ q.epoch = t.fenceEpoch
          /\ q.subject[1] = Len(t.operations) /\ q.attempt = c.argument
      BY <1>1 DEF Proposal
    <2>2. /\ matchDraftTransaction(t, "mutation_in_progress")
          /\ Last(t).status = "intent_recorded"
      BY <1>1 DEF pendingCampaignSequence
    <2>3. tx.operations = t.operations
      BY <1>5 DEF Same
    <2>4. Last(tx) = Last(t)
      BY <2>3 DEF Last
    <2> HIDE DEF subject
    <2> QED
      BY <1>1, <1>5, <2>1, <2>2, <2>3, <2>4, DraftMatch DEF Awaited
  <1> HIDE DEF t, subject
  <1> QED
    BY <1>1, <1>2, <1>3, <1>4, <1>5, ProposalMade

\* NewSecurityAppliedProposal.
LEMMA SecurityAppliedWritten ==
    ASSUME NEW c, WriteFacts(c), c.command = "propose-security-applied", Renewed(c),
           NEW q \in NewSecurityAppliedProposal(c, c.after)
    PROVE  ProposalOK(q, tx, draft, journal)
  <1> DEFINE t == c.after
  <1>1. /\ q = Proposal("security_applied", t.operations, t, c.at, Nil, Nil)
        /\ completedCampaignEvidence(t, c.at)
    BY DEF NewSecurityAppliedProposal
  <1>2. /\ SnapshotOf(t, tx) /\ c.at \in Nat /\ "security_applied" \in RecordLabels
        /\ t \in TransactionType
    BY DEF WriteFacts, RecordLabels
  <1>3. t.operations \in SubjectType
    BY <1>2, TransactionFields DEF SubjectType
  <1>4. t.status = "commit_approved"
    <2>1. t.version = c.before.version + 1
      BY DEF Renewed, matchExactClaimRenewal
    <2>2. t.status # "security_applied"
      BY <2>1 DEF WriteFacts, CommandOK
    <2> QED
      BY <1>1, <2>2 DEF completedCampaignEvidence
  <1>5. ASSUME Same(t, tx), t.version = tx.version
        PROVE  Awaited(q, tx, draft)
    <2>1. /\ q.kind = "security_applied" /\ q.epoch = t.fenceEpoch
          /\ q.subject = t.operations /\ q.at = c.at
      BY <1>1 DEF Proposal
    <2>2. /\ matchDraftTransaction(t, "commit_approved")
          /\ t.version <= c.at
          /\ t.approval # Nil
          /\ Len(t.operations) = NumOps
          /\ AllCompleted(t, NumOps)
      BY <1>1, <1>4 DEF completedCampaignEvidence, UpdatedAt
    <2>3. tx.operations = t.operations /\ tx.approval = t.approval
      BY <1>5 DEF Same
    <2>4. AllCompleted(tx, NumOps)
      BY <2>2, <2>3 DEF AllCompleted
    <2> QED
      BY <1>5, <2>1, <2>2, <2>3, <2>4, DraftMatch DEF Awaited
  <1> HIDE DEF t
  <1> QED
    BY <1>1, <1>2, <1>3, <1>5, ProposalMade

\* NewReconciliationProposal.
LEMMA ReconciliationWritten ==
    ASSUME NEW c, WriteFacts(c), c.command = "propose-reconciliation",
           NEW q \in NewReconciliationProposal(c, c.after)
    PROVE  ProposalOK(q, tx, draft, journal)
  <1> DEFINE t == c.after
             subject == <<Len(t.operations), c.argument.status, t.fenceEpoch>>
  <1>1. /\ q = Proposal("reconciliation", subject, t, c.at, Nil, c.argument)
        /\ matchPreparedReconciliation(t)
        /\ c.argument.sequence = Len(t.operations)
        /\ c.argument.status \in Resolutions
        /\ c.argument.receipt = Last(t).intent
    BY DEF NewReconciliationProposal
  <1>2. /\ SnapshotOf(t, tx) /\ c.at \in Nat /\ "reconciliation" \in RecordLabels
        /\ t \in TransactionType
        /\ IsExported(c.argument, journal)
    BY DEF WriteFacts, RecordLabels, CommandOK
  <1>3. c.argument \in Attempt
    BY <1>2 DEF IsExported
  <1>4. subject \in SubjectType
    <2>1. Len(t.operations) \in Nat /\ t.fenceEpoch \in Nat
      BY <1>2, TransactionFields
    <2>2. c.argument.status \in AttemptStatus
      BY <1>3 DEF Attempt
    <2>3. subject \in Nat \X AttemptStatus \X Nat
      BY <2>1, <2>2
    <2> QED
      BY <2>3 DEF SubjectType
  <1>5. ASSUME Same(t, tx), t.version = tx.version
        PROVE  Awaited(q, tx, draft)
    <2>1. /\ q.kind = "reconciliation" /\ q.epoch = t.fenceEpoch /\ q.attempt = c.argument
      BY <1>1 DEF Proposal
    <2>2. /\ t.status = "reconciliation_required" /\ t.approval = Nil /\ t.disposition = Nil
          /\ AllCompleted(t, Len(t.operations) - 1)
          /\ Last(t).status \in {"intent_recorded", "uncertain"}
      BY <1>1 DEF matchPreparedReconciliation, unresolvedSequence
    <2>3. t.claim # Nil /\ t.claim.mode = "reconciliation" /\ t.claim.epoch > draft
      BY <1>1 DEF matchPreparedReconciliation, matchReconciliationClaim
    <2>4. /\ tx.operations = t.operations /\ tx.approval = t.approval
          /\ tx.status = t.status /\ tx.disposition = t.disposition
          /\ tx.fenceEpoch = t.fenceEpoch
          /\ tx.claim # Nil /\ tx.claim.mode = t.claim.mode /\ tx.claim.epoch = t.claim.epoch
      BY <1>5, <2>3 DEF Same
    <2>5. Last(tx) = Last(t) /\ AllCompleted(tx, Len(tx.operations) - 1)
      BY <2>2, <2>4 DEF Last, AllCompleted
    <2>6. tx.claim.epoch = tx.fenceEpoch
      <3>1. draft \in Nat /\ PhaseOK(tx, draft)
        BY DEF WriteFacts
      <3>2. draft # Nil
        BY <3>1, NilAssumption
      <3> QED
        BY <2>4, <3>1, <3>2 DEF PhaseOK, Drafted
    <2> HIDE DEF subject
    <2> QED
      BY <1>1, <2>1, <2>2, <2>3, <2>4, <2>5, <2>6 DEF Awaited
  <1> HIDE DEF t, subject
  <1> QED
    BY <1>1, <1>2, <1>3, <1>4, <1>5, ProposalMade

\* Whatever a propose command writes is in order.
LEMMA WriteKeeps ==
    ASSUME IInv, NEW p \in Procs, Write(p)
    PROVE  IInv'
  <1> DEFINE c == procs[p]
  <1>1. ~ Idle(p) /\ c.pc = "write"
    BY DEF Write
  <1>2. WriteFacts(c)
    BY <1>1, WriterKnows
  <1>3. ASSUME NEW q \in Written(c)
        PROVE  ProposalOK(q, tx, draft, journal)
    <2>1. Renewed(c)
      BY <1>3 DEF Written
    <2>2. c.command \in Proposing
      BY <1>2 DEF WriteFacts, CommandOK
    <2> HIDE DEF c
    <2>3. CASE c.command = "propose-approval"
      BY <1>2, <1>3, <2>1, <2>3, ApprovalWritten DEF Written
    <2>4. CASE c.command = "propose-next-intent"
      BY <1>2, <1>3, <2>1, <2>4, IntentWritten DEF Written
    <2>5. CASE c.command = "propose-evidence"
      BY <1>2, <1>3, <2>1, <2>5, EvidenceWritten DEF Written
    <2>6. CASE c.command = "propose-security-applied"
      BY <1>2, <1>3, <2>1, <2>6, SecurityAppliedWritten DEF Written
    <2>7. CASE c.command = "propose-reconciliation"
      BY <1>2, <1>3, <2>1, <2>7, ReconciliationWritten DEF Written
    <2> QED
      BY <2>2, <2>3, <2>4, <2>5, <2>6, <2>7 DEF Proposing
  <1>4. /\ procs' = [procs EXCEPT ![p] = Nil]
        /\ proposals' = proposals \cup Written(c)
        /\ UNCHANGED <<tx, done, audit, draft, journal, guard, applied, windowOpen>>
    BY DEF Write, Ends, serviceVars, guardVars
  <1> HIDE DEF c
  <1>5. draft # Nil
    BY <1>2, NilAssumption DEF WriteFacts
  <1>6. proposals' \subseteq ProposalType
    BY <1>3, <1>4 DEF IInv, TypeOK, ProposalOK
  <1>7. FilesMove
    BY <1>3, <1>4, <1>5 DEF FilesMove
  <1> QED
    BY <1>1, <1>4, <1>6, <1>7, RunningFacts, QuietKeeps

-----------------------------------------------------------------------------
(***************************************************************************)
(* The audit log.                                                          *)
(***************************************************************************)
\* What was audited stays so when the log grows.
LEMMA AuditedKept ==
    ASSUME NEW t, NEW dr, NEW au, NEW au2, AuditedOK(t, au, dr),
           \A i \in DOMAIN au : i \in DOMAIN au2 /\ au2[i] = au[i]
    PROVE  AuditedOK(t, au2, dr)
  <1>1. ApprovalAudited(t.approval, au2)
    BY DEF AuditedOK, ApprovalAudited
  <1>2. ASSUME NEW s \in 1..Len(t.operations)
        PROVE  OperationAudited(t.operations[s], s, au2, dr)
    <2>1. OperationAudited(t.operations[s], s, au, dr)
      BY <1>2 DEF AuditedOK
    <2> DEFINE o == t.operations[s]
    <2> HIDE DEF o
    <2>2. OperationAudited(o, s, au2, dr)
      BY <2>1 DEF OperationAudited, o
    <2> QED
      BY <2>2 DEF o
  <1> QED
    BY <1>1, <1>2 DEF AuditedOK

\* The event of a proposal that is in order.
LEMMA EventFacts ==
    ASSUME NEW q, NEW u, NEW dr, NEW jo, ProposalOK(q, u, dr, jo)
    PROVE  /\ AuditEvent(q) \in EventType
           /\ AuditEvent(q).kind = q.kind
           /\ AuditEvent(q).subject = q.subject
           /\ AuditEvent(q).fence = q.epoch
           /\ AuditEvent(q).attempt = q.attempt
  <1>1. /\ q \in ProposalType /\ q.kind \in RecordLabels
        /\ q.kind = "evidence" => q.attempt.status \in {"verified", "uncertain", "quarantined"}
        /\ q.kind = "reconciliation" => q.attempt.status \in Resolutions
    BY DEF ProposalOK, ProposalType
  <1>2. ResultOf(q) \in {"intent_recorded", "succeeded", "uncertain", "quarantined", "reconciled"}
    BY <1>1 DEF ResultOf, RecordLabels
  <1> QED
    BY <1>1, <1>2 DEF AuditEvent, EventType, ProposalType

\* The receipt that the log answers with names the event.
LEMMA AnswerNamesEvent ==
    ASSUME NEW e \in EventType, NEW i \in Answers(e), audit \in Seq(EventType),
           NEW au, au = IF i \in DOMAIN audit THEN audit ELSE Append(audit, e)
    PROVE  /\ au \in Seq(EventType)
           /\ i \in Nat
           /\ i \in DOMAIN au
           /\ au[i] = e
           /\ \A j \in DOMAIN audit : j \in DOMAIN au /\ au[j] = audit[j]
  <1>1. Len(audit) \in Nat /\ DOMAIN audit = 1..Len(audit)
    BY LenProperties
  <1>2. CASE SameKey(e) = {}
    <2>1. i = Len(audit) + 1 /\ i \notin DOMAIN audit
      BY <1>1, <1>2 DEF Answers
    <2>2. au = Append(audit, e)
      BY <2>1
    <2>3. /\ au \in Seq(EventType)
          /\ Len(au) = Len(audit) + 1
          /\ \A j \in 1..Len(audit) : au[j] = audit[j]
          /\ au[Len(audit) + 1] = e
      BY <2>2, AppendProperties
    <2>4. DOMAIN au = 1..(Len(audit) + 1)
      BY <2>3, LenProperties
    <2> QED
      BY <1>1, <2>1, <2>3, <2>4
  <1>3. CASE SameKey(e) # {}
    <2>1. i \in DOMAIN audit /\ audit[i] = e
      BY <1>3 DEF Answers, SameKey
    <2> QED
      BY <1>1, <2>1
  <1> QED
    BY <1>2, <1>3

\* AppendAudit: the command goes on with the receipt of its own event.
LEMMA AppendAuditKeeps ==
    ASSUME IInv, NEW p \in Procs, AppendAudit(p)
    PROVE  IInv'
  <1> DEFINE q == procs[p].proposal
             e == AuditEvent(q)
  <1>1. ~ Idle(p) /\ procs[p].pc = "append"
    BY DEF AppendAudit
  <1>2. /\ tx # Nil /\ tx \in TransactionType
        /\ procs[p] \in ProcessType
        /\ ProcessOK(procs[p], tx, draft, journal, audit)
    BY <1>1, RunningFacts
  <1>3. draft # Nil /\ ProposalOK(q, tx, draft, journal)
    BY <1>1, <1>2 DEF ProcessOK, ApplyOK
  <1>4. PICK i \in Answers(e) :
          /\ audit' = IF i \in DOMAIN audit THEN audit ELSE Append(audit, e)
          /\ procs' = [procs EXCEPT ![p].pc = "record", ![p].receipt = i]
    BY DEF AppendAudit
  <1>5. UNCHANGED <<tx, done, draft, proposals, journal, guard, applied, windowOpen>>
    BY DEF AppendAudit, fileVars, guardVars
  <1>6. e \in EventType /\ audit \in Seq(EventType)
    BY <1>3, EventFacts DEF IInv, TypeOK
  <1> HIDE DEF e
  <1>7. /\ audit' \in Seq(EventType)
        /\ i \in Nat
        /\ i \in DOMAIN audit'
        /\ audit'[i] = e
        /\ \A j \in DOMAIN audit : j \in DOMAIN audit' /\ audit'[j] = audit[j]
    BY <1>4, <1>6, AnswerNamesEvent
  <1> DEFINE c == [pc |-> "record", proposal |-> q, receipt |-> i]
  <1>8. procs' = [procs EXCEPT ![p] = c]
    <2>1. procs[p] = [pc |-> "append", proposal |-> q, receipt |-> procs[p].receipt]
      BY <1>1, <1>2, ProcessKinds
    <2>2. procs \in [Procs -> ProcessType \cup {Nil}]
      BY DEF IInv, TypeOK
    <2>3. procs'[p] = c
      BY <1>4, <2>1, <2>2
    <2>4. \A o \in Procs \ {p} : procs'[o] = procs[o]
      BY <1>4, <2>2
    <2>5. DOMAIN procs' = Procs /\ procs' = [o \in Procs |-> procs'[o]]
      BY <1>4, <2>2
    <2> HIDE DEF c
    <2> QED
      BY <2>2, <2>3, <2>4, <2>5
  <1>9. c \in ProcessType
    BY <1>3, <1>7 DEF ProcessType, ProposalOK
  <1>10. c.pc = "record" /\ c.proposal = q /\ c.receipt = i
    OBVIOUS
  <1> HIDE DEF c
  <1>11. ProcessOK(c, tx', draft', journal', audit')
    BY <1>2, <1>3, <1>5, <1>7, <1>10 DEF ProcessOK, ApplyOK, e
  <1>12. procs' \in [Procs -> ProcessType \cup {Nil}] /\ ProcessesMove
    BY <1>8, <1>9, <1>11, OneMoves DEF IInv
  <1>13. Follows(tx, tx', draft, journal, journal', audit, audit')
    <2>1. tx.version <= tx.version /\ Same(tx, tx)
      BY <1>2, TransactionFields DEF Same
    <2> QED
      BY <1>2, <1>5, <1>7, <2>1 DEF Follows
  <1>14. FilesMove
    BY <1>5 DEF FilesMove
  <1>15. CommandsOK'
    BY <1>2, <1>5, <1>12, <1>13, <1>14, CommandsKept
  <1>16. TypeOK'
    BY <1>5, <1>7, <1>12 DEF IInv, TypeOK
  <1>17. TransactionOK'
    <2>1. AuditedOK(tx, audit', draft)
      BY <1>2, <1>7, AuditedKept DEF IInv, TransactionOK
    <2> QED
      BY <1>2, <1>5, <2>1 DEF IInv, TransactionOK
  <1>18. GuardOK'
    BY <1>5 DEF IInv, GuardOK
  <1> QED
    BY <1>15, <1>16, <1>17, <1>18 DEF IInv

-----------------------------------------------------------------------------
(***************************************************************************)
(* The guard and the clock.                                                *)
(***************************************************************************)
\* A step of the guard, which adds to its journal.
LEMMA GuardKeeps ==
    ASSUME IInv, tx # Nil, GuardOK', TruthOK(tx, applied', journal'),
           journal' \in [Sequences -> Seq(Attempt)],
           guard' \in Sequences \cup {0}, applied' \subseteq Sequences,
           \A s \in Sequences : \A i \in 1..Len(journal[s]) :
              i \in 1..Len(journal'[s]) /\ journal'[s][i] = journal[s][i],
           UNCHANGED <<tx, done, audit, draft, proposals, procs, windowOpen>>
    PROVE  IInv'
  <1>1. tx \in TransactionType
    BY DEF IInv, TypeOK
  <1>2. Follows(tx, tx', draft, journal, journal', audit, audit')
    <2>1. tx.version <= tx.version /\ Same(tx, tx)
      BY <1>1, TransactionFields DEF Same
    <2> QED
      BY <1>1, <2>1 DEF Follows
  <1>3. CommandsOK'
    <2>1. ProcessesMove /\ FilesMove
      BY DEF ProcessesMove, FilesMove
    <2> QED
      BY <1>2, <2>1, CommandsKept
  <1>4. TypeOK'
    BY DEF IInv, TypeOK
  <1>5. TransactionOK'
    BY DEF IInv, TransactionOK
  <1> QED
    BY <1>3, <1>4, <1>5 DEF IInv

\* The guard starts to execute the operation that is intended, for the first time.
LEMMA GuardExecuteKeeps ==
    ASSUME IInv, NEW s \in Sequences, GuardExecute(s)
    PROVE  IInv'
  <1>1. /\ tx # Nil /\ Len(tx.operations) = s /\ journal[s] = <<>> /\ guard' = s
        /\ UNCHANGED <<tx, done, audit, draft, proposals, procs, journal, applied, windowOpen>>
    BY DEF GuardExecute, serviceVars, fileVars
  <1>2. s <= s
    BY WorkflowAssumption DEF Sequences
  <1>3. GuardOK'
    BY <1>1, <1>2 DEF IInv, GuardOK
  <1>4. TruthOK(tx, applied', journal')
    BY <1>1 DEF IInv, TransactionOK
  <1>5. /\ journal' \in [Sequences -> Seq(Attempt)]
        /\ guard' \in Sequences \cup {0} /\ applied' \subseteq Sequences
    BY <1>1 DEF IInv, TypeOK
  <1> QED
    BY <1>1, <1>3, <1>4, <1>5, GuardKeeps

\* An attempt of the operation s in the journal.
LEMMA JournalAppended ==
    ASSUME IInv, NEW s \in Sequences, NEW a \in Attempt,
           journal' = [journal EXCEPT ![s] = Append(@, a)]
    PROVE  /\ journal' \in [Sequences -> Seq(Attempt)]
           /\ Len(journal'[s]) = Len(journal[s]) + 1
           /\ Len(journal[s]) \in Nat
           /\ journal'[s][Len(journal[s]) + 1] = a
           /\ journal'[s] # <<>>
           /\ \A r \in Sequences : r # s => journal'[r] = journal[r]
           /\ \A r \in Sequences : \A i \in 1..Len(journal[r]) :
                 i \in 1..Len(journal'[r]) /\ journal'[r][i] = journal[r][i]
  <1> DEFINE j == Append(journal[s], a)
  <1>1. journal \in [Sequences -> Seq(Attempt)] /\ journal[s] \in Seq(Attempt)
    BY DEF IInv, TypeOK
  <1>2. /\ j \in Seq(Attempt) /\ j # <<>> /\ Len(j) = Len(journal[s]) + 1
        /\ \A i \in 1..Len(journal[s]) : j[i] = journal[s][i]
        /\ j[Len(journal[s]) + 1] = a
    BY <1>1, AppendProperties
  <1>3. Len(journal[s]) \in Nat
    BY <1>1, LenProperties
  <1>4. journal' = [journal EXCEPT ![s] = j]
    BY <1>1
  <1> HIDE DEF j
  <1>5. /\ journal' \in [Sequences -> Seq(Attempt)]
        /\ \A r \in Sequences : journal'[r] = IF r = s THEN j ELSE journal[r]
    BY <1>1, <1>2, <1>4
  <1>6. ASSUME NEW r \in Sequences, NEW i \in 1..Len(journal[r])
        PROVE  i \in 1..Len(journal'[r]) /\ journal'[r][i] = journal[r][i]
    BY <1>2, <1>3, <1>5, <1>6
  <1> QED
    BY <1>2, <1>3, <1>5, <1>6

\* The attempt is in the journal.  What was confirmed not to be applied had an
\* attempt before, so it is not what the guard was executing.
LEMMA GuardFinishKeeps ==
    ASSUME IInv, GuardFinish
    PROVE  IInv'
  <1>1. PICK effect \in SUBSET {guard},
             status \in {"started", "verified", "uncertain", "quarantined"} :
          /\ status = "verified" => effect # {}
          /\ applied' = applied \cup effect
          /\ journal' = [journal EXCEPT ![guard] = Append(@, Attempted(guard, status, 0))]
    BY DEF GuardFinish
  <1>2. /\ guard # 0 /\ guard' = 0
        /\ UNCHANGED <<tx, done, audit, draft, proposals, procs, windowOpen>>
    BY DEF GuardFinish, serviceVars, fileVars
  <1> DEFINE a == Attempted(guard, status, 0)
  <1>3. /\ guard \in Sequences /\ tx # Nil /\ tx \in TransactionType
        /\ guard \in 1..Len(tx.operations) /\ journal[guard] = <<>>
    BY <1>2, TransactionFields, WorkflowAssumption DEF IInv, TypeOK, GuardOK, Sequences
  <1>4. a \in Attempt /\ a.sequence = guard /\ a.status = status
    <2>1. tx.operations[guard].intent \in Nat
      BY <1>3, TransactionFields DEF OperationType
    <2> QED
      BY <1>3, <2>1 DEF Attempted, Attempt, AttemptStatus
  <1> HIDE DEF a
  <1>5. journal' = [journal EXCEPT ![guard] = Append(@, a)]
    BY <1>1 DEF a
  <1>6. /\ journal' \in [Sequences -> Seq(Attempt)]
        /\ Len(journal'[guard]) = Len(journal[guard]) + 1
        /\ Len(journal[guard]) \in Nat
        /\ journal'[guard][Len(journal[guard]) + 1] = a
        /\ journal'[guard] # <<>>
        /\ \A r \in Sequences : r # guard => journal'[r] = journal[r]
        /\ \A r \in Sequences : \A i \in 1..Len(journal[r]) :
              i \in 1..Len(journal'[r]) /\ journal'[r][i] = journal[r][i]
    BY <1>3, <1>4, <1>5, JournalAppended
  <1>7. applied' \subseteq Sequences /\ guard' \in Sequences \cup {0}
    BY <1>1, <1>2, <1>3 DEF IInv, TypeOK
  <1>8. /\ \A r \in Sequences : r # guard => (r \in applied' <=> r \in applied)
        /\ applied \subseteq applied'
    BY <1>1
  <1>9. GuardOK'
    <2>1. ASSUME NEW r \in Sequences, NEW i \in 1..Len(journal'[r])
          PROVE  /\ journal'[r][i].sequence = r
                 /\ journal'[r][i].status = "verified" => r \in applied'
                 /\ journal'[r][i].status = "confirmed_not_applied" => r \notin applied'
      <3>1. CASE r # guard
        BY <1>6, <1>8, <2>1, <3>1 DEF IInv, GuardOK
      <3>2. CASE r = guard
        <4>1. Len(journal[guard]) = 0
          BY <1>3, EmptySeq
        <4>2. journal'[r][i] = a
          BY <1>6, <2>1, <3>2, <4>1
        <4>3. status = "verified" => guard \in applied'
          BY <1>1
        <4> QED
          BY <1>4, <3>2, <4>2, <4>3
      <3> QED
        BY <3>1, <3>2
    <2> QED
      BY <1>2, <2>1 DEF GuardOK
  <1>10. TruthOK(tx, applied', journal')
    <2>1. TruthOK(tx, applied, journal)
      BY <1>3 DEF IInv, TransactionOK
    <2>2. ASSUME NEW s \in 1..Len(tx.operations)
          PROVE  OperationTrue(tx.operations[s], s, applied', journal')
      <3>1. OperationTrue(tx.operations[s], s, applied, journal)
        BY <2>1 DEF TruthOK
      <3>2. CASE s = guard
        BY <1>3, <1>6, <1>8, <3>1, <3>2 DEF OperationTrue
      <3>3. CASE s # guard
        BY <1>6, <1>8, <3>1, <3>3 DEF OperationTrue
      <3> QED
        BY <3>2, <3>3
    <2> QED
      BY <2>2 DEF TruthOK
  <1> QED
    BY <1>2, <1>3, <1>6, <1>7, <1>9, <1>10, GuardKeeps

\* The guard observes the target, and nothing is being executed.
LEMMA GuardReconcileKeeps ==
    ASSUME IInv, NEW s \in Sequences, GuardReconcile(s)
    PROVE  IInv'
  <1>1. PICK status \in Resolutions :
          /\ status = "verified" => s \in applied
          /\ status = "confirmed_not_applied" => s \notin applied
          /\ journal' = [journal EXCEPT ![s] = Append(@, Attempted(s, status, tx.fenceEpoch))]
    BY DEF GuardReconcile
  <1>2. /\ tx # Nil /\ guard = 0 /\ Len(tx.operations) = s
        /\ UNCHANGED <<tx, done, audit, draft, proposals, procs, guard, applied, windowOpen>>
    BY DEF GuardReconcile, serviceVars, fileVars
  <1> DEFINE a == Attempted(s, status, tx.fenceEpoch)
  <1>3. tx \in TransactionType /\ s \in 1..Len(tx.operations)
    BY <1>2, WorkflowAssumption DEF IInv, TypeOK, Sequences
  <1>4. a \in Attempt /\ a.sequence = s /\ a.status = status
    <2>1. tx.operations[s].intent \in Nat /\ tx.fenceEpoch \in Nat
      BY <1>3, TransactionFields DEF OperationType
    <2> QED
      BY <2>1 DEF Attempted, Attempt, AttemptStatus, Resolutions
  <1> HIDE DEF a
  <1>5. journal' = [journal EXCEPT ![s] = Append(@, a)]
    BY <1>1 DEF a
  <1>6. /\ journal' \in [Sequences -> Seq(Attempt)]
        /\ Len(journal'[s]) = Len(journal[s]) + 1
        /\ Len(journal[s]) \in Nat
        /\ journal'[s][Len(journal[s]) + 1] = a
        /\ journal'[s] # <<>>
        /\ \A r \in Sequences : r # s => journal'[r] = journal[r]
        /\ \A r \in Sequences : \A i \in 1..Len(journal[r]) :
              i \in 1..Len(journal'[r]) /\ journal'[r][i] = journal[r][i]
    BY <1>4, <1>5, JournalAppended
  <1>7. GuardOK'
    <2>1. ASSUME NEW r \in Sequences, NEW i \in 1..Len(journal'[r])
          PROVE  /\ journal'[r][i].sequence = r
                 /\ journal'[r][i].status = "verified" => r \in applied'
                 /\ journal'[r][i].status = "confirmed_not_applied" => r \notin applied'
      <3>1. CASE r # s \/ i # Len(journal[s]) + 1
        <4>1. i \in 1..Len(journal[r]) /\ journal'[r][i] = journal[r][i]
          BY <1>6, <2>1, <3>1
        <4> QED
          BY <1>2, <4>1 DEF IInv, GuardOK
      <3>2. CASE r = s /\ i = Len(journal[s]) + 1
        BY <1>1, <1>2, <1>4, <1>6, <3>2
      <3> QED
        BY <3>1, <3>2
    <2> QED
      BY <1>2, <2>1 DEF GuardOK
  <1>8. TruthOK(tx, applied', journal')
    <2>1. TruthOK(tx, applied, journal)
      BY <1>2 DEF IInv, TransactionOK
    <2>2. \A r \in Sequences : journal[r] # <<>> => journal'[r] # <<>>
      BY <1>6
    <2> QED
      BY <1>2, <2>1, <2>2 DEF TruthOK, OperationTrue
  <1>9. applied' \subseteq Sequences /\ guard' \in Sequences \cup {0}
    BY <1>2 DEF IInv, TypeOK
  <1> QED
    BY <1>2, <1>6, <1>7, <1>8, <1>9, GuardKeeps

\* The lease of the claim ends, which nothing but the expiry tells.
LEMMA ClaimExpiresKeeps ==
    ASSUME IInv, ClaimExpires
    PROVE  IInv'
  <1>1. /\ tx # Nil /\ tx.claim # Nil
        /\ tx' = [tx EXCEPT !.claim.expired = TRUE]
        /\ UNCHANGED <<done, audit, draft, proposals, journal, guard, applied, procs, windowOpen>>
    BY DEF ClaimExpires, fileVars, guardVars
  <1>2. tx \in TransactionType /\ tx.claim \in ClaimType
    BY <1>1, TransactionFields DEF IInv, TypeOK
  <1> DEFINE k == [tx.claim EXCEPT !.expired = TRUE]
  <1>3. k \in ClaimType /\ k.mode = tx.claim.mode /\ k.epoch = tx.claim.epoch
    BY <1>2 DEF ClaimType
  <1>4. tx' = [tx EXCEPT !.claim = k]
    BY <1>1, <1>2 DEF TransactionType
  <1> HIDE DEF k
  <1>5. /\ tx' \in TransactionType
        /\ tx'.claim = k
        /\ tx'.version = tx.version /\ tx'.status = tx.status
        /\ tx'.fenceEpoch = tx.fenceEpoch /\ tx'.closed = tx.closed
        /\ tx'.approval = tx.approval /\ tx'.operations = tx.operations
        /\ tx'.disposition = tx.disposition
    BY <1>2, <1>3, <1>4 DEF TransactionType
  <1>6. k # Nil /\ tx' # Nil
    BY <1>3, <1>5, NilAssumption
  <1>7. Follows(tx, tx', draft, journal, journal', audit, audit')
    <2>1. tx.version <= tx'.version
      BY <1>2, <1>5, TransactionFields
    <2>2. Same(tx, tx')
      BY <1>1, <1>3, <1>5, <1>6 DEF Same
    <2> QED
      BY <1>1, <1>2, <1>5, <2>1, <2>2 DEF Follows
  <1>8. CommandsOK'
    <2>1. ProcessesMove /\ FilesMove
      BY <1>1 DEF ProcessesMove, FilesMove
    <2> QED
      BY <1>1, <1>7, <2>1, CommandsKept
  <1>9. TypeOK'
    BY <1>1, <1>5 DEF IInv, TypeOK
  <1>10. TransactionOK'
    <2>1. /\ PhaseOK(tx, draft) /\ AuditedOK(tx, audit, draft)
          /\ TruthOK(tx, applied, journal) /\ \A d \in done : DoneOK(d, tx, draft)
      BY <1>1 DEF IInv, TransactionOK
    <2>2. PhaseOK(tx', draft)
      BY <1>1, <1>3, <1>5, <1>6, <2>1 DEF PhaseOK, Undrafted, Drafted
    <2>3. AuditedOK(tx', audit, draft)
      BY <1>5, <2>1 DEF AuditedOK
    <2>4. TruthOK(tx', applied, journal)
      BY <1>5, <2>1 DEF TruthOK
    <2>5. \A d \in done : DoneOK(d, tx', draft)
      BY <1>5, <2>1 DEF DoneOK
    <2> QED
      BY <1>1, <1>6, <2>2, <2>3, <2>4, <2>5 DEF TransactionOK
  <1>11. GuardOK'
    BY <1>1, <1>5, <1>6 DEF IInv, GuardOK
  <1> QED
    BY <1>8, <1>9, <1>10, <1>11 DEF IInv

\* The approval window ends, and a step that changes nothing.
LEMMA WindowKeeps ==
    ASSUME IInv, ApprovalWindowEnds \/ UNCHANGED vars
    PROVE  IInv'
  <1>1. /\ UNCHANGED <<tx, done, audit, draft, proposals, journal, guard, applied, procs>>
        /\ windowOpen' \in BOOLEAN
    BY DEF ApprovalWindowEnds, vars, serviceVars, fileVars, guardVars, IInv, TypeOK
  <1>2. TypeOK'
    BY <1>1 DEF IInv, TypeOK
  <1>3. TransactionOK' /\ GuardOK' /\ CommandsOK'
    BY <1>1 DEF IInv, TransactionOK, GuardOK, CommandsOK
  <1> QED
    BY <1>2, <1>3 DEF IInv

-----------------------------------------------------------------------------
(***************************************************************************)
(* prepare-draft.                                                          *)
(***************************************************************************)
\* CreateTransaction creates the transaction or reads the one there is.
LEMMA CreateTransactionKeeps ==
    ASSUME IInv, NEW p \in Procs, CreateTransaction(p)
    PROVE  IInv'
  <1>1. /\ draft = Nil
        /\ tx' = IF tx = Nil THEN NewTransaction ELSE tx
        /\ procs' = [procs EXCEPT ![p] = [pc |-> "prepare", before |-> tx']]
        /\ UNCHANGED <<done, audit, draft, proposals, journal, guard, applied, windowOpen>>
    BY DEF CreateTransaction, fileVars, guardVars
  <1> DEFINE c == [pc |-> "prepare", before |-> tx']
  <1>2. NewTransaction \in TransactionType /\ Undrafted(NewTransaction)
    <2>1. <<>> \in Seq(OperationType)
      BY EmptySeq
    <2> QED
      BY <2>1 DEF NewTransaction, TransactionType, Undrafted
  <1>3. tx' \in TransactionType /\ tx' # Nil /\ Undrafted(tx')
    <2>1. CASE tx = Nil
      BY <1>1, <1>2, <2>1, TransactionFields
    <2>2. CASE tx # Nil
      BY <1>1, <2>2 DEF IInv, TypeOK, TransactionOK, PhaseOK
    <2> QED
      BY <2>1, <2>2
  <1>4. c \in ProcessType /\ c.pc = "prepare" /\ c.before = tx'
    BY <1>3 DEF ProcessType
  <1>5. procs' = [procs EXCEPT ![p] = c]
    BY <1>1
  <1> HIDE DEF c
  <1>6. ProcessOK(c, tx', draft', journal', audit')
    <2>1. SnapshotOf(tx', tx')
      BY <1>3, TransactionFields DEF SnapshotOf, Same
    <2> QED
      BY <1>1, <1>3, <1>4, <2>1 DEF ProcessOK, PrepareOK
  <1>7. procs' \in [Procs -> ProcessType \cup {Nil}] /\ ProcessesMove
    BY <1>4, <1>5, <1>6, OneMoves DEF IInv
  <1>8. CASE tx # Nil
    <2>1. tx' = tx
      BY <1>1, <1>8
    <2> QED
      BY <1>1, <1>4, <1>5, <1>6, <1>8, <2>1, QuietKeeps DEF FilesMove, IInv, TypeOK
  <1>9. CASE tx = Nil
    <2>1. tx' = NewTransaction
      BY <1>1, <1>9
    <2>2. /\ done = {} /\ proposals = {} /\ guard = 0
          /\ \A o \in Procs : procs[o] = Nil
      BY <1>9 DEF IInv, TransactionOK, CommandsOK, GuardOK, ProcessOK
    <2>3. TypeOK'
      BY <1>1, <1>3, <1>7 DEF IInv, TypeOK
    <2>4. TransactionOK'
      <3>1. tx'.operations = <<>> /\ tx'.approval = Nil
        BY <2>1 DEF NewTransaction
      <3>2. 1..Len(tx'.operations) = {}
        BY <3>1, EmptySeq
      <3>3. AuditedOK(tx', audit', draft') /\ TruthOK(tx', applied', journal')
        BY <3>1, <3>2 DEF AuditedOK, ApprovalAudited, TruthOK
      <3> QED
        BY <1>1, <1>3, <2>2, <3>3 DEF TransactionOK, PhaseOK
    <2>5. GuardOK'
      BY <1>1, <2>2 DEF IInv, GuardOK
    <2>6. CommandsOK'
      BY <1>1, <1>7, <2>2 DEF CommandsOK, ProcessesMove
    <2> QED
      BY <2>3, <2>4, <2>5, <2>6 DEF IInv
  <1> QED
    BY <1>8, <1>9

\* The draft names the fence epoch of the claim that the transaction still has.
LEMMA WriteDraftKeeps ==
    ASSUME IInv, NEW p \in Procs, WriteDraft(p)
    PROVE  IInv'
  <1>1. /\ ~ Idle(p) /\ procs[p].pc = "prepare"
        /\ procs[p].before.status = "target_bound"
        /\ draft' = procs[p].before.fenceEpoch
        /\ procs' = [o \in Procs |-> Nil]
        /\ UNCHANGED <<tx, done, audit, proposals, journal, guard, applied, windowOpen>>
    BY DEF WriteDraft, serviceVars, guardVars
  <1>2. /\ tx # Nil /\ tx \in TransactionType
        /\ ProcessOK(procs[p], tx, draft, journal, audit)
    BY <1>1, RunningFacts
  <1>3. draft = Nil /\ PrepareOK(procs[p], tx)
    BY <1>1, <1>2 DEF ProcessOK
  <1>4. draft' = 1 /\ tx.status = "target_bound"
    BY <1>1, <1>3 DEF PrepareOK, Undrafted
  <1>5. draft' # Nil
    BY <1>4, NilAssumption
  <1>6. /\ Undrafted(tx) /\ AuditedOK(tx, audit, draft) /\ TruthOK(tx, applied, journal)
        /\ \A d \in done : DoneOK(d, tx, draft)
    BY <1>2, <1>3 DEF IInv, TransactionOK, PhaseOK
  <1>7. TypeOK'
    BY <1>1, <1>4 DEF IInv, TypeOK
  <1>8. TransactionOK'
    <2>1. PhaseOK(tx', draft')
      BY <1>1, <1>4, <1>5, <1>6 DEF PhaseOK, Undrafted, Drafted
    <2>2. 1..Len(tx.operations) = {}
      BY <1>6, EmptySeq DEF Undrafted
    <2>3. AuditedOK(tx', audit', draft')
      BY <1>1, <1>6, <2>2 DEF AuditedOK
    <2>4. \A d \in done' : DoneOK(d, tx', draft')
      BY <1>1, <1>5, <1>6 DEF DoneOK
    <2> QED
      BY <1>1, <1>2, <1>6, <2>1, <2>3, <2>4 DEF TransactionOK
  <1>9. GuardOK'
    BY <1>1 DEF IInv, GuardOK
  <1>10. CommandsOK'
    BY <1>1, <1>3 DEF IInv, CommandsOK
  <1> QED
    BY <1>7, <1>8, <1>9, <1>10 DEF IInv

-----------------------------------------------------------------------------
(***************************************************************************)
(* The control calls that are committed.                                   *)
(***************************************************************************)
\* The transaction after the request r.
New(r) == [Handled(r) EXCEPT !.version = tx.version + 1]

\* The proposal behind a recording, and the receipt of its event.
RecordFounded(r) ==
    \E q \in ProposalType :
        /\ ProposalOK(q, tx, draft, journal)
        /\ q.version = tx.version
        /\ r = RecordRequest(q, r.receipt)
        /\ r.receipt \in DOMAIN audit
        /\ audit[r.receipt] = AuditEvent(q)

\* What the commands know when they send a request for the current version.
Founded(r) ==
    /\ r.version = tx.version
    /\ r.label \in {"claim", "bind-target"} <=> draft = Nil
    /\ r.label \in {"transfer-reconciliation", "acquire-reconciliation"} =>
          /\ tx.disposition = Nil
          /\ tx.status \in {"mutation_in_progress", "reconciliation_required"}
    /\ r.label = "renew-ready-campaign" => tx.status = "commit_approved"
    /\ r.label \in RecordLabels => RecordFounded(r)

\* How a commit takes the transaction from t to u.
Evolves(t, u, dr) ==
    /\ t \in TransactionType
    /\ u \in TransactionType
    /\ u.version = t.version + 1
    /\ Len(t.operations) <= Len(u.operations)
    /\ \A i \in 1..Len(t.operations) :
          t.operations[i].status # "intent_recorded" => u.operations[i].status # "intent_recorded"
    /\ dr = Nil /\ t.status = "target_bound" => u.status = "target_bound"
    /\ dr # Nil /\ t.status # "target_bound" => u.status # "target_bound"
    /\ t.status = "security_applied" => u.status = "security_applied"
    /\ t.status \in {"quarantined", "reconciled"} => u.status \in {"quarantined", "reconciled"}

\* A mutation ends with the draft's claim, and a settled transaction stays.
EndsMutation(t, u, dr) ==
    /\ t.fenceEpoch > dr =>
          /\ u.approval = Nil
          /\ Len(u.operations) = Len(t.operations)
          /\ u.status \in {"reconciliation_required", "reconciled", "quarantined"}
    /\ Settled(t) =>
          /\ u.operations = t.operations
          /\ u.status = t.status
          /\ u.fenceEpoch = t.fenceEpoch

\* The transaction u is what the request r may make of the current one.
Committed(u, r) ==
    /\ Evolves(tx, u, draft)
    /\ draft # Nil => EndsMutation(tx, u, draft)
    /\ PhaseOK(u, draft)
    /\ AuditedOK(u, audit, draft)
    /\ TruthOK(u, applied, journal)
    /\ DoneOK(r, u, draft)

\* What is known of the current transaction.
LEMMA CurrentFacts ==
    ASSUME IInv, tx # Nil
    PROVE  /\ tx \in TransactionType
           /\ PhaseOK(tx, draft)
           /\ AuditedOK(tx, audit, draft)
           /\ TruthOK(tx, applied, journal)
           /\ draft # Nil => draft \in Nat
           /\ audit \in Seq(EventType)
           /\ DOMAIN audit \subseteq Nat
           /\ \A d \in done : DoneOK(d, tx, draft)
  <1>1. audit \in Seq(EventType)
    BY DEF IInv, TypeOK
  <1>2. DOMAIN audit \subseteq Nat
    BY <1>1, LenProperties
  <1> QED
    BY <1>1, <1>2 DEF IInv, TypeOK, TransactionOK

\* The version is counted with every commit.
LEMMA Versioned ==
    ASSUME tx \in TransactionType, NEW r, NEW t \in TransactionType, Handled(r) = t
    PROVE  /\ New(r) \in TransactionType
           /\ New(r).version = tx.version + 1
           /\ New(r).status = t.status
           /\ New(r).fenceEpoch = t.fenceEpoch
           /\ New(r).claim = t.claim
           /\ New(r).approval = t.approval
           /\ New(r).operations = t.operations
           /\ New(r).disposition = t.disposition
  <1>1. tx.version + 1 \in Nat
    BY TransactionFields
  <1>2. New(r) = [t EXCEPT !.version = tx.version + 1]
    BY DEF New
  <1> QED
    BY <1>1, <1>2 DEF TransactionType

\* A transaction with the same operations.
LEMMA OperationsKept ==
    ASSUME IInv, tx # Nil, NEW u \in TransactionType, u.operations = tx.operations,
           ApprovalAudited(u.approval, audit)
    PROVE  /\ AuditedOK(u, audit, draft)
           /\ TruthOK(u, applied, journal)
           /\ Len(tx.operations) <= Len(u.operations)
           /\ Len(u.operations) = Len(tx.operations)
           /\ \A i \in 1..Len(tx.operations) :
                 tx.operations[i].status # "intent_recorded" =>
                     u.operations[i].status # "intent_recorded"
  <1>1. Len(tx.operations) \in Nat
    BY CurrentFacts, TransactionFields
  <1> QED
    BY <1>1, CurrentFacts DEF AuditedOK, TruthOK

\* AcquireClaim for a mutation: the first claim of a created transaction.
LEMMA ClaimCommits ==
    ASSUME IInv, tx # Nil, NEW r, Founded(r), Authorized(r), r.label = "claim"
    PROVE  Committed(New(r), r)
  <1> DEFINE u == New(r)
  <1>1. tx \in TransactionType /\ draft = Nil /\ Undrafted(tx)
    BY CurrentFacts DEF Founded, PhaseOK
  <1>2. tx.status = "created" /\ tx.claim = Nil /\ tx.fenceEpoch = 0
    BY <1>1 DEF Authorized, Undrafted, Renewals, ApprovedRenewals
  <1>3. Handled(r) = NewClaim("mutation", "expired")
    BY DEF Handled, Renewals, ApprovedRenewals
  <1>4. tx.version \in Nat /\ tx.version + 1 \in Nat
    BY <1>1, TransactionFields
  <1> DEFINE claim == Claim("mutation", 1)
             t == [tx EXCEPT !.claim = claim, !.fenceEpoch = 1, !.closed = tx.closed,
                             !.approval = Nil, !.status = "claimed"]
  <1>5. claim \in ClaimType /\ claim.mode = "mutation" /\ claim.epoch = 1 /\ claim # Nil
    <2>1. claim \in ClaimType /\ claim.mode = "mutation" /\ claim.epoch = 1
      BY DEF Claim, ClaimType
    <2> QED
      BY <2>1, NilAssumption
  <1>6. NewClaim("mutation", "expired") = t
    <2>1. tx.fenceEpoch + 1 = 1
      BY <1>2
    <2> QED
      BY <1>1, <1>2, <2>1 DEF NewClaim, TransactionType
  <1> HIDE DEF claim
  <1>7. /\ t \in TransactionType
        /\ t.status = "claimed" /\ t.fenceEpoch = 1 /\ t.claim = claim /\ t.approval = Nil
        /\ t.operations = tx.operations /\ t.disposition = tx.disposition
    BY <1>1, <1>5 DEF TransactionType
  <1> HIDE DEF t
  <1>8. /\ u \in TransactionType
        /\ u.version = tx.version + 1 /\ u.status = "claimed" /\ u.fenceEpoch = 1
        /\ u.claim = claim /\ u.approval = Nil
        /\ u.operations = tx.operations /\ u.disposition = tx.disposition
    BY <1>1, <1>3, <1>6, <1>7, Versioned
  <1> HIDE DEF u
  <1>9. PhaseOK(u, draft)
    BY <1>1, <1>5, <1>8 DEF PhaseOK, Undrafted
  <1>10. Evolves(tx, u, draft) /\ AuditedOK(u, audit, draft) /\ TruthOK(u, applied, journal)
    BY <1>1, <1>2, <1>8, OperationsKept DEF Evolves, ApprovalAudited
  <1>11. DoneOK(r, u, draft)
    BY <1>4, <1>8 DEF DoneOK, Founded, RecordLabels
  <1>12. Committed(u, r)
    BY <1>1, <1>9, <1>10, <1>11 DEF Committed
  <1> QED
    BY <1>12 DEF u

\* BindTarget, before the draft is written.
LEMMA BindCommits ==
    ASSUME IInv, tx # Nil, NEW r, Founded(r), Authorized(r), r.label = "bind-target"
    PROVE  Committed(New(r), r)
  <1> DEFINE u == New(r)
  <1>1. tx \in TransactionType /\ draft = Nil /\ Undrafted(tx)
    BY CurrentFacts DEF Founded, PhaseOK
  <1>2. tx.claim # Nil
    BY DEF Authorized, Renewals, ApprovedRenewals, requireCurrentClaim
  <1>3. Handled(r) = [tx EXCEPT !.status = "target_bound", !.approval = Nil]
    BY DEF Handled, Renewals, ApprovedRenewals
  <1>4. tx.version \in Nat /\ tx.version + 1 \in Nat
    BY <1>1, TransactionFields
  <1>5. /\ u \in TransactionType
        /\ u.version = tx.version + 1 /\ u.status = "target_bound"
        /\ u.fenceEpoch = tx.fenceEpoch /\ u.claim = tx.claim /\ u.approval = Nil
        /\ u.operations = tx.operations /\ u.disposition = tx.disposition
    BY <1>1, <1>3, <1>4 DEF New, TransactionType
  <1> HIDE DEF u
  <1>6. PhaseOK(u, draft)
    BY <1>1, <1>2, <1>5 DEF PhaseOK, Undrafted
  <1>7. Evolves(tx, u, draft) /\ AuditedOK(u, audit, draft) /\ TruthOK(u, applied, journal)
    BY <1>1, <1>5, OperationsKept DEF Evolves, ApprovalAudited, Undrafted
  <1>8. DoneOK(r, u, draft)
    BY <1>4, <1>5 DEF DoneOK, Founded, RecordLabels
  <1>9. Committed(u, r)
    BY <1>1, <1>6, <1>7, <1>8 DEF Committed
  <1> QED
    BY <1>9 DEF u

\* RenewClaim: nothing but the version and the expiry.
LEMMA RenewalCommits ==
    ASSUME IInv, tx # Nil, NEW r, Founded(r), Authorized(r), r.label \in Renewals
    PROVE  Committed(New(r), r)
  <1> DEFINE u == New(r)
  <1>1. tx \in TransactionType /\ PhaseOK(tx, draft) /\ AuditedOK(tx, audit, draft)
    BY CurrentFacts
  <1>2. draft # Nil /\ Drafted(tx, draft)
    BY <1>1 DEF Founded, PhaseOK, Renewals, ApprovedRenewals
  <1>3. Handled(r) = tx
    BY DEF Handled, Renewals, ApprovedRenewals
  <1>4. tx.version \in Nat /\ tx.version + 1 \in Nat
    BY <1>1, TransactionFields
  <1>5. /\ u \in TransactionType
        /\ u.version = tx.version + 1 /\ u.status = tx.status
        /\ u.fenceEpoch = tx.fenceEpoch /\ u.claim = tx.claim /\ u.approval = tx.approval
        /\ u.operations = tx.operations /\ u.disposition = tx.disposition
    BY <1>1, <1>3, <1>4 DEF New, TransactionType
  <1> HIDE DEF u
  <1>6. PhaseOK(u, draft)
    BY <1>2, <1>5 DEF PhaseOK, Drafted
  <1>7. /\ Evolves(tx, u, draft) /\ AuditedOK(u, audit, draft) /\ TruthOK(u, applied, journal)
        /\ Len(u.operations) = Len(tx.operations)
    BY <1>1, <1>5, OperationsKept DEF Evolves, AuditedOK
  <1>8. EndsMutation(tx, u, draft)
    BY <1>2, <1>5, <1>7 DEF EndsMutation, Drafted
  <1>9. DoneOK(r, u, draft)
    BY <1>4, <1>5 DEF DoneOK, Founded, Renewals, ApprovedRenewals, RecordLabels
  <1>10. Committed(u, r)
    BY <1>6, <1>7, <1>8, <1>9 DEF Committed
  <1> QED
    BY <1>10 DEF u

\* A reconciliation claim, transferred or acquired, for an unresolved operation.
LEMMA ReconciliationClaimCommits ==
    ASSUME IInv, tx # Nil, NEW r, Founded(r), Authorized(r),
           r.label \in {"transfer-reconciliation", "acquire-reconciliation"}
    PROVE  Committed(New(r), r)
  <1> DEFINE u == New(r)
  <1>1. /\ tx \in TransactionType /\ PhaseOK(tx, draft) /\ AuditedOK(tx, audit, draft)
        /\ draft # Nil => draft \in Nat
    BY CurrentFacts
  <1>2. draft # Nil /\ Drafted(tx, draft)
    BY <1>1 DEF Founded, PhaseOK
  <1>3. PICK how \in {"transferred", "expired"} : Handled(r) = NewClaim("reconciliation", how)
    BY DEF Handled, Renewals, ApprovedRenewals
  <1>4. /\ tx.version \in Nat /\ tx.version + 1 \in Nat
        /\ tx.fenceEpoch \in Nat /\ tx.fenceEpoch + 1 \in Nat
        /\ tx.claim # Nil => tx.claim.epoch \in Nat
    BY <1>1, TransactionFields
  <1>5. tx.disposition = Nil /\ tx.status \in {"mutation_in_progress", "reconciliation_required"}
    BY DEF Founded
  <1> DEFINE closed == IF tx.claim = Nil THEN tx.closed
                       ELSE tx.closed \cup {[epoch |-> tx.claim.epoch, how |-> how]}
             claim == Claim("reconciliation", tx.fenceEpoch + 1)
  <1>6. closed \in SUBSET [epoch : Nat, how : {"expired", "transferred", "released"}]
    BY <1>1, <1>4 DEF TransactionType
  <1>7. claim \in ClaimType /\ claim.mode = "reconciliation" /\ claim.epoch = tx.fenceEpoch + 1
    BY <1>4 DEF Claim, ClaimType
  <1> DEFINE t == [tx EXCEPT !.claim = claim, !.fenceEpoch = tx.fenceEpoch + 1, !.closed = closed,
                             !.approval = Nil, !.status = "reconciliation_required"]
  <1>8. NewClaim("reconciliation", how) = t
    BY <1>1, <1>5 DEF NewClaim, TransactionType
  <1> HIDE DEF closed, claim
  <1>9. /\ t \in TransactionType
         /\ t.status = "reconciliation_required"
         /\ t.fenceEpoch = tx.fenceEpoch + 1 /\ t.claim = claim /\ t.approval = Nil
         /\ t.operations = tx.operations /\ t.disposition = Nil
    BY <1>1, <1>4, <1>5, <1>6, <1>7 DEF TransactionType
  <1> HIDE DEF t
  <1>10. /\ u \in TransactionType
        /\ u.version = tx.version + 1 /\ u.status = "reconciliation_required"
        /\ u.fenceEpoch = tx.fenceEpoch + 1 /\ u.claim = claim /\ u.approval = Nil
        /\ u.operations = tx.operations /\ u.disposition = Nil
    BY <1>1, <1>3, <1>8, <1>9, Versioned
  <1> HIDE DEF u
  <1>11. PhaseOK(u, draft)
    BY <1>1, <1>2, <1>4, <1>7, <1>10 DEF PhaseOK, Drafted
  <1>12. /\ Evolves(tx, u, draft) /\ AuditedOK(u, audit, draft) /\ TruthOK(u, applied, journal)
         /\ Len(u.operations) = Len(tx.operations)
    BY <1>1, <1>2, <1>5, <1>10, OperationsKept DEF Evolves, ApprovalAudited
  <1>13. EndsMutation(tx, u, draft)
    BY <1>5, <1>10, <1>12 DEF EndsMutation, Settled
  <1>14. DoneOK(r, u, draft)
    BY <1>4, <1>10 DEF DoneOK, Founded, RecordLabels
  <1>15. Committed(u, r)
    BY <1>11, <1>12, <1>13, <1>14 DEF Committed
  <1> QED
    BY <1>15 DEF u

\* ReleaseClaim of a terminal transaction.
LEMMA ReleaseCommits ==
    ASSUME IInv, tx # Nil, NEW r, Founded(r), Authorized(r), r.label = "release-terminal-claim"
    PROVE  Committed(New(r), r)
  <1> DEFINE u == New(r)
             closed == tx.closed \cup {[epoch |-> tx.claim.epoch, how |-> "released"]}
  <1>1. tx \in TransactionType /\ PhaseOK(tx, draft) /\ AuditedOK(tx, audit, draft)
    BY CurrentFacts
  <1>2. draft # Nil /\ Drafted(tx, draft)
    BY <1>1 DEF Founded, PhaseOK
  <1>3. Handled(r) = [tx EXCEPT !.claim = Nil, !.closed = closed]
    BY DEF Handled, Renewals, ApprovedRenewals
  <1>4. tx.claim # Nil
    BY DEF Authorized, Renewals, ApprovedRenewals, requireCurrentClaim
  <1>5. tx.version \in Nat /\ tx.version + 1 \in Nat /\ tx.claim.epoch \in Nat
    BY <1>1, <1>4, TransactionFields
  <1>6. closed \in SUBSET [epoch : Nat, how : {"expired", "transferred", "released"}]
    BY <1>1, <1>5 DEF TransactionType
  <1> HIDE DEF closed
  <1>7. /\ u \in TransactionType
        /\ u.version = tx.version + 1 /\ u.status = tx.status
        /\ u.fenceEpoch = tx.fenceEpoch /\ u.claim = Nil /\ u.approval = tx.approval
        /\ u.operations = tx.operations /\ u.disposition = tx.disposition
    BY <1>1, <1>3, <1>5, <1>6 DEF New, TransactionType
  <1> HIDE DEF u
  <1>8. PhaseOK(u, draft)
    BY <1>2, <1>7 DEF PhaseOK, Drafted
  <1>9. /\ Evolves(tx, u, draft) /\ AuditedOK(u, audit, draft) /\ TruthOK(u, applied, journal)
        /\ Len(u.operations) = Len(tx.operations)
    BY <1>1, <1>7, OperationsKept DEF Evolves, AuditedOK
  <1>10. EndsMutation(tx, u, draft)
    BY <1>2, <1>7, <1>9 DEF EndsMutation, Drafted
  <1>11. DoneOK(r, u, draft)
    BY <1>5, <1>7 DEF DoneOK, Founded, RecordLabels
  <1>12. Committed(u, r)
    BY <1>8, <1>9, <1>10, <1>11 DEF Committed
  <1> QED
    BY <1>12 DEF u

\* What the request r of a recording has of the proposal q.
Backed(r, q) ==
    /\ ProposalOK(q, tx, draft, journal)
    /\ Awaited(q, tx, draft)
    /\ r.label = q.kind /\ r.subject = q.subject /\ r.epoch = q.epoch /\ r.attempt = q.attempt
    /\ r.receipt \in DOMAIN audit
    /\ r.receipt \in Nat
    /\ audit[r.receipt].kind = q.kind
    /\ audit[r.receipt].subject = q.subject
    /\ audit[r.receipt].fence = q.epoch
    /\ audit[r.receipt].attempt = q.attempt

\* The request of an apply command for the current version has its proposal.
LEMMA RecordBacked ==
    ASSUME IInv, tx # Nil, NEW r, Founded(r), r.label \in RecordLabels
    PROVE  /\ draft # Nil /\ draft \in Nat /\ Drafted(tx, draft)
           /\ \E q \in ProposalType : Backed(r, q)
  <1>1. draft # Nil
    BY DEF Founded, RecordLabels
  <1>2. draft \in Nat /\ Drafted(tx, draft) /\ DOMAIN audit \subseteq Nat
    BY <1>1, CurrentFacts DEF PhaseOK
  <1>3. PICK q \in ProposalType :
          /\ ProposalOK(q, tx, draft, journal)
          /\ q.version = tx.version
          /\ r = RecordRequest(q, r.receipt)
          /\ r.receipt \in DOMAIN audit
          /\ audit[r.receipt] = AuditEvent(q)
    BY DEF Founded, RecordFounded
  <1>4. Awaited(q, tx, draft)
    BY <1>3 DEF ProposalOK
  <1>5. r.label = q.kind /\ r.subject = q.subject /\ r.epoch = q.epoch /\ r.attempt = q.attempt
    BY <1>3 DEF RecordRequest
  <1>6. /\ audit[r.receipt].kind = q.kind
        /\ audit[r.receipt].subject = q.subject
        /\ audit[r.receipt].fence = q.epoch
        /\ audit[r.receipt].attempt = q.attempt
    BY <1>3, EventFacts
  <1>7. Backed(r, q)
    BY <1>2, <1>3, <1>4, <1>5, <1>6 DEF Backed
  <1> QED
    BY <1>1, <1>2, <1>7

\* A transaction of which one operation was changed.
LEMMA OperationChanged ==
    ASSUME IInv, tx # Nil, NEW u \in TransactionType, NEW n \in 1..Len(tx.operations),
           NEW o \in OperationType, u.operations = [tx.operations EXCEPT ![n] = o],
           o.status # "intent_recorded",
           OperationAudited(o, n, audit, draft), OperationTrue(o, n, applied, journal),
           ApprovalAudited(u.approval, audit)
    PROVE  /\ AuditedOK(u, audit, draft)
           /\ TruthOK(u, applied, journal)
           /\ Len(tx.operations) <= Len(u.operations)
           /\ Len(u.operations) = Len(tx.operations)
           /\ u.operations[n] = o
           /\ \A i \in 1..Len(tx.operations) :
                 tx.operations[i].status # "intent_recorded" =>
                     u.operations[i].status # "intent_recorded"
  <1>1. tx.operations \in Seq(OperationType) /\ Len(tx.operations) \in Nat
    BY CurrentFacts, TransactionFields
  <1>2. /\ Len(u.operations) = Len(tx.operations)
        /\ \A j \in 1..Len(tx.operations) :
              u.operations[j] = IF j = n THEN o ELSE tx.operations[j]
    BY <1>1, ExceptSeq
  <1>3. AuditedOK(u, audit, draft)
    BY <1>2, CurrentFacts DEF AuditedOK
  <1>4. TruthOK(u, applied, journal)
    BY <1>2, CurrentFacts DEF TruthOK
  <1> QED
    BY <1>1, <1>2, <1>3, <1>4

\* RecordApproval, for the target that was bound.
LEMMA ApprovalCommits ==
    ASSUME IInv, tx # Nil, NEW r, Founded(r), Authorized(r), r.label = "approval"
    PROVE  Committed(New(r), r)
  <1>1. /\ draft # Nil /\ draft \in Nat /\ Drafted(tx, draft)
        /\ \E q \in ProposalType : Backed(r, q)
    BY RecordBacked DEF RecordLabels
  <1>2. PICK q \in ProposalType : Backed(r, q)
    BY <1>1
  <1>3. tx \in TransactionType
    BY CurrentFacts
  <1> DEFINE approval == [approver |-> r.subject, receipt |-> r.receipt]
             t == [tx EXCEPT !.status = "commit_approved", !.approval = approval]
             u == New(r)
  <1>4. q.kind = "approval" /\ r.subject \in Approvers
    BY <1>2 DEF Backed, ProposalOK
  <1>5. approval \in ApprovalType /\ approval # Nil
    <2>1. approval \in ApprovalType
      BY <1>2, <1>4 DEF Backed, ApprovalType
    <2> QED
      BY <2>1, NilAssumption
  <1>6. /\ tx.status = "target_bound" /\ tx.claim # Nil /\ tx.claim.mode = "mutation"
    BY <1>2, <1>4 DEF Backed, Awaited
  <1>7. ApprovalAudited(approval, audit)
    BY <1>2, <1>4 DEF Backed, ApprovalAudited
  <1>8. Handled(r) = t
    BY DEF Handled, Renewals, ApprovedRenewals
  <1> HIDE DEF approval
  <1>9. /\ t \in TransactionType /\ t.status = "commit_approved"
        /\ t.fenceEpoch = tx.fenceEpoch /\ t.claim = tx.claim /\ t.approval = approval
        /\ t.operations = tx.operations /\ t.disposition = tx.disposition
    BY <1>3, <1>5 DEF TransactionType
  <1> HIDE DEF t
  <1>10. /\ u \in TransactionType
         /\ u.version = tx.version + 1 /\ u.status = "commit_approved"
         /\ u.fenceEpoch = tx.fenceEpoch /\ u.claim = tx.claim /\ u.approval = approval
         /\ u.operations = tx.operations /\ u.disposition = tx.disposition
    BY <1>3, <1>8, <1>9, Versioned
  <1> HIDE DEF u
  <1>11. tx.fenceEpoch = draft /\ tx.disposition = Nil
    BY <1>1, <1>3, <1>6, TransactionFields DEF Drafted
  <1>12. PhaseOK(u, draft)
    BY <1>1, <1>10, <1>11 DEF PhaseOK, Drafted
  <1>13. Evolves(tx, u, draft) /\ AuditedOK(u, audit, draft) /\ TruthOK(u, applied, journal)
    BY <1>1, <1>3, <1>6, <1>7, <1>10, OperationsKept DEF Evolves
  <1>14. EndsMutation(tx, u, draft)
    BY <1>1, <1>6, <1>11 DEF EndsMutation, Settled
  <1>15. DoneOK(r, u, draft)
    BY <1>1, <1>3, <1>10, TransactionFields DEF DoneOK, Founded
  <1>16. Committed(u, r)
    BY <1>12, <1>13, <1>14, <1>15 DEF Committed
  <1> QED
    BY <1>16 DEF u

\* RecordSecurityApplied, after the last operation.
LEMMA SecurityAppliedCommits ==
    ASSUME IInv, tx # Nil, NEW r, Founded(r), Authorized(r), r.label = "security_applied"
    PROVE  Committed(New(r), r)
  <1>1. /\ draft # Nil /\ draft \in Nat /\ Drafted(tx, draft)
        /\ \E q \in ProposalType : Backed(r, q)
    BY RecordBacked DEF RecordLabels
  <1>2. PICK q \in ProposalType : Backed(r, q)
    BY <1>1
  <1>3. tx \in TransactionType /\ AuditedOK(tx, audit, draft)
    BY CurrentFacts
  <1> DEFINE t == [tx EXCEPT !.status = "security_applied", !.disposition = r.receipt]
             u == New(r)
  <1>4. q.kind = "security_applied" /\ r.receipt \in Nat
    BY <1>2 DEF Backed
  <1>5. /\ tx.status = "commit_approved" /\ tx.claim # Nil /\ tx.claim.mode = "mutation"
    BY <1>2, <1>4 DEF Backed, Awaited
  <1>6. Handled(r) = t
    BY DEF Handled, Renewals, ApprovedRenewals
  <1>7. /\ t \in TransactionType /\ t.status = "security_applied"
        /\ t.fenceEpoch = tx.fenceEpoch /\ t.claim = tx.claim /\ t.approval = tx.approval
        /\ t.operations = tx.operations
    BY <1>3, <1>4 DEF TransactionType
  <1> HIDE DEF t
  <1>8. /\ u \in TransactionType
        /\ u.version = tx.version + 1 /\ u.status = "security_applied"
        /\ u.fenceEpoch = tx.fenceEpoch /\ u.claim = tx.claim /\ u.approval = tx.approval
        /\ u.operations = tx.operations
    BY <1>3, <1>6, <1>7, Versioned
  <1> HIDE DEF u
  <1>9. tx.fenceEpoch = draft /\ tx.disposition = Nil
    BY <1>1, <1>3, <1>5, TransactionFields DEF Drafted
  <1>10. PhaseOK(u, draft)
    BY <1>1, <1>8, <1>9 DEF PhaseOK, Drafted
  <1>11. Evolves(tx, u, draft) /\ AuditedOK(u, audit, draft) /\ TruthOK(u, applied, journal)
    BY <1>1, <1>3, <1>5, <1>8, OperationsKept DEF Evolves, AuditedOK
  <1>12. EndsMutation(tx, u, draft)
    BY <1>1, <1>5, <1>9 DEF EndsMutation, Settled
  <1>13. DoneOK(r, u, draft)
    BY <1>1, <1>3, <1>8, TransactionFields DEF DoneOK, Founded
  <1>14. Committed(u, r)
    BY <1>10, <1>11, <1>12, <1>13 DEF Committed
  <1> QED
    BY <1>14 DEF u

\* RecordIntent of the next operation, whose event is under the draft's claim.
LEMMA IntentCommits ==
    ASSUME IInv, tx # Nil, NEW r, Founded(r), Authorized(r), r.label = "intent"
    PROVE  Committed(New(r), r)
  <1>1. /\ draft # Nil /\ draft \in Nat /\ Drafted(tx, draft)
        /\ \E q \in ProposalType : Backed(r, q)
    BY RecordBacked DEF RecordLabels
  <1>2. PICK q \in ProposalType : Backed(r, q)
    BY <1>1
  <1>3. /\ tx \in TransactionType
        /\ AuditedOK(tx, audit, draft) /\ TruthOK(tx, applied, journal)
    BY CurrentFacts
  <1>4. tx.operations \in Seq(OperationType) /\ Len(tx.operations) \in Nat
    BY <1>3, TransactionFields
  <1>5. /\ q.kind = "intent" /\ r.receipt \in Nat /\ r.receipt \in DOMAIN audit
        /\ audit[r.receipt].kind = "intent"
        /\ audit[r.receipt].subject = r.subject
        /\ audit[r.receipt].fence = q.epoch
        /\ r.subject = q.subject
    BY <1>2 DEF Backed
  <1>6. /\ tx.status = "commit_approved" /\ tx.claim # Nil /\ tx.claim.mode = "mutation"
        /\ q.epoch = draft
        /\ r.subject = Len(tx.operations) + 1 /\ r.subject \in Sequences
    BY <1>2, <1>5 DEF Backed, Awaited
  <1> DEFINE o == Intent(r)
             s == Append(tx.operations, o)
             t == [tx EXCEPT !.status = "mutation_in_progress", !.operations = s]
             u == New(r)
  <1>7. /\ o \in OperationType /\ o.status = "intent_recorded" /\ o.intent = r.receipt
        /\ o.evidence = Nil /\ o.reconciliation = Nil
    BY <1>5 DEF Intent, OperationType
  <1>8. Handled(r) = t
    BY <1>3 DEF Handled, Renewals, ApprovedRenewals, TransactionType
  <1> HIDE DEF o
  <1>9. /\ s \in Seq(OperationType) /\ Len(s) = Len(tx.operations) + 1
        /\ \A i \in 1..Len(tx.operations) : s[i] = tx.operations[i]
        /\ s[Len(tx.operations) + 1] = o
    BY <1>4, <1>7, AppendProperties
  <1> HIDE DEF s
  <1>10. /\ t \in TransactionType /\ t.status = "mutation_in_progress"
         /\ t.fenceEpoch = tx.fenceEpoch /\ t.claim = tx.claim /\ t.approval = tx.approval
         /\ t.operations = s /\ t.disposition = tx.disposition
    BY <1>3, <1>9 DEF TransactionType
  <1> HIDE DEF t
  <1>11. /\ u \in TransactionType
         /\ u.version = tx.version + 1 /\ u.status = "mutation_in_progress"
         /\ u.fenceEpoch = tx.fenceEpoch /\ u.claim = tx.claim /\ u.approval = tx.approval
         /\ u.operations = s /\ u.disposition = tx.disposition
    BY <1>3, <1>8, <1>10, Versioned
  <1> HIDE DEF u
  <1>12. tx.fenceEpoch = draft /\ tx.disposition = Nil
    BY <1>1, <1>3, <1>6, TransactionFields DEF Drafted
  <1>13. PhaseOK(u, draft)
    BY <1>1, <1>11, <1>12 DEF PhaseOK, Drafted
  <1>14. OperationAudited(o, r.subject, audit, draft)
    BY <1>5, <1>6, <1>7 DEF OperationAudited
  <1>15. OperationTrue(o, r.subject, applied, journal)
    BY <1>6, <1>7 DEF OperationTrue
  <1>16. AuditedOK(u, audit, draft)
    <2>1. ASSUME NEW i \in 1..Len(u.operations)
          PROVE  OperationAudited(u.operations[i], i, audit, draft)
      <3>1. CASE i = r.subject
        BY <1>6, <1>9, <1>11, <1>14, <3>1
      <3>2. CASE i # r.subject
        <4>1. i \in 1..Len(tx.operations)
          BY <1>4, <1>6, <1>9, <1>11, <2>1, <3>2
        <4> QED
          BY <1>3, <1>9, <1>11, <4>1 DEF AuditedOK
      <3> QED
        BY <3>1, <3>2
    <2> QED
      BY <1>3, <1>11, <2>1 DEF AuditedOK
  <1>17. TruthOK(u, applied, journal)
    <2>1. ASSUME NEW i \in 1..Len(u.operations)
          PROVE  OperationTrue(u.operations[i], i, applied, journal)
      <3>1. CASE i = r.subject
        BY <1>6, <1>9, <1>11, <1>15, <3>1
      <3>2. CASE i # r.subject
        <4>1. i \in 1..Len(tx.operations)
          BY <1>4, <1>6, <1>9, <1>11, <2>1, <3>2
        <4> QED
          BY <1>3, <1>9, <1>11, <4>1 DEF TruthOK
      <3> QED
        BY <3>1, <3>2
    <2> QED
      BY <2>1 DEF TruthOK
  <1>18. Evolves(tx, u, draft)
    BY <1>1, <1>3, <1>4, <1>6, <1>9, <1>11 DEF Evolves
  <1>19. EndsMutation(tx, u, draft)
    BY <1>1, <1>6, <1>12 DEF EndsMutation, Settled
  <1>20. DoneOK(r, u, draft)
    BY <1>1, <1>3, <1>4, <1>6, <1>9, <1>11, TransactionFields DEF DoneOK, Founded
  <1>21. Committed(u, r)
    BY <1>13, <1>16, <1>17, <1>18, <1>19, <1>20 DEF Committed
  <1> QED
    BY <1>21 DEF u

\* An exported attempt tells the truth about its operation.
LEMMA ExportIsTrue ==
    ASSUME IInv, NEW a, IsExported(a, journal)
    PROVE  /\ a \in Attempt
           /\ a.sequence \in Sequences
           /\ a.status = "verified" => a.sequence \in applied
           /\ a.status = "confirmed_not_applied" => a.sequence \notin applied
           /\ journal[a.sequence] # <<>>
  <1>1. a \in Attempt /\ a.sequence \in Sequences
    BY DEF IsExported, Attempt
  <1>2. PICK i \in 1..Len(journal[a.sequence]) : journal[a.sequence][i] = a
    BY DEF IsExported
  <1>3. journal[a.sequence] # <<>>
    BY <1>2, EmptySeq
  <1> QED
    BY <1>1, <1>2, <1>3 DEF IInv, GuardOK

\* RecordEvidence for the operation that is under way.
LEMMA EvidenceCommits ==
    ASSUME IInv, tx # Nil, NEW r, Founded(r), Authorized(r), r.label = "evidence"
    PROVE  Committed(New(r), r)
  <1>1. /\ draft # Nil /\ draft \in Nat /\ Drafted(tx, draft)
        /\ \E q \in ProposalType : Backed(r, q)
    BY RecordBacked DEF RecordLabels
  <1>2. PICK q \in ProposalType : Backed(r, q)
    BY <1>1
  <1>3. /\ tx \in TransactionType
        /\ AuditedOK(tx, audit, draft) /\ TruthOK(tx, applied, journal)
    BY CurrentFacts
  <1>4. /\ q.kind = "evidence" /\ r.receipt \in Nat /\ r.receipt \in DOMAIN audit
        /\ audit[r.receipt].kind = "evidence"
        /\ audit[r.receipt].attempt = r.attempt
        /\ r.attempt = q.attempt /\ r.subject = q.subject
    BY <1>2 DEF Backed
  <1> DEFINE n == Len(tx.operations)
             old == tx.operations[n]
  <1>5. /\ tx.status = "mutation_in_progress" /\ tx.claim # Nil /\ tx.claim.mode = "mutation"
        /\ n = r.attempt.sequence
        /\ old.intent = r.attempt.receipt
        /\ old.status = "intent_recorded"
        /\ r.subject[1] = n
    BY <1>2, <1>4 DEF Backed, Awaited, Last
  <1>6. /\ IsExported(r.attempt, journal)
        /\ r.attempt.status \in {"verified", "uncertain", "quarantined"}
    BY <1>2, <1>4 DEF Backed, ProposalOK
  <1>7. /\ r.attempt \in Attempt
        /\ n \in Sequences
        /\ r.attempt.status = "verified" => n \in applied
    BY <1>5, <1>6, ExportIsTrue
  <1>8. n \in 1..Len(tx.operations) /\ n \in Nat /\ old \in OperationType
    <2>1. n \in 1..Len(tx.operations) /\ n \in Nat
      BY <1>7, WorkflowAssumption DEF Sequences
    <2> QED
      BY <1>3, <2>1, TransactionFields
  <1>9. OperationAudited(old, n, audit, draft) /\ OperationTrue(old, n, applied, journal)
    BY <1>3, <1>8 DEF AuditedOK, TruthOK
  <1> HIDE DEF n, old
  <1> DEFINE result == EvidenceResult(r.attempt)
             o == [old EXCEPT !.status = result, !.evidence = r.receipt, !.attempt = r.attempt]
             s == [tx.operations EXCEPT ![n] = o]
             status == CASE result = "succeeded" -> "commit_approved"
                         [] result = "failed" -> "quarantined"
                         [] result = "uncertain" -> "reconciliation_required"
             approval == IF result = "succeeded" THEN tx.approval ELSE Nil
             disposition == IF result = "failed" THEN r.receipt ELSE tx.disposition
             t == [tx EXCEPT !.operations = s, !.status = status, !.approval = approval,
                             !.disposition = disposition]
             u == New(r)
  <1>10. /\ result \in {"succeeded", "failed", "uncertain"}
         /\ result = "succeeded" => r.attempt.status = "verified"
    BY <1>6 DEF EvidenceResult
  <1>11. Handled(r) = t
    <2>1. Handled(r) = WithEvidence(r)
      BY DEF Handled, Renewals, ApprovedRenewals
    <2>2. DOMAIN tx.operations = 1..Len(tx.operations)
      BY <1>3, TransactionFields
    <2> QED
      BY <1>3, <1>8, <2>1, <2>2 DEF WithEvidence, TransactionType, n, old
  <1>12. /\ status \in {"commit_approved", "quarantined", "reconciliation_required"}
         /\ approval = tx.approval \/ approval = Nil
         /\ disposition \in Nat \cup {Nil}
         /\ result # "failed" => disposition = tx.disposition
         /\ result = "failed" <=> status = "quarantined"
    BY <1>3, <1>4, <1>10 DEF TransactionType
  <1> HIDE DEF result
  <1>13. /\ o \in OperationType
         /\ o.status = result /\ o.evidence = r.receipt /\ o.attempt = r.attempt
         /\ o.intent = old.intent /\ o.reconciliation = old.reconciliation
    BY <1>4, <1>7, <1>8, <1>10 DEF OperationType
  <1> HIDE DEF o, status, approval, disposition
  <1>14. s \in Seq(OperationType)
    BY <1>3, <1>8, <1>13, TransactionFields, ExceptSeq
  <1> HIDE DEF s
  <1>15. /\ t \in TransactionType /\ t.status = status
         /\ t.fenceEpoch = tx.fenceEpoch /\ t.claim = tx.claim /\ t.approval = approval
         /\ t.operations = s /\ t.disposition = disposition
    BY <1>3, <1>12, <1>14 DEF TransactionType
  <1> HIDE DEF t
  <1>16. /\ u \in TransactionType
         /\ u.version = tx.version + 1 /\ u.status = status
         /\ u.fenceEpoch = tx.fenceEpoch /\ u.claim = tx.claim /\ u.approval = approval
         /\ u.operations = s /\ u.disposition = disposition
    BY <1>3, <1>11, <1>15, Versioned
  <1> HIDE DEF u
  <1>17. tx.fenceEpoch = draft /\ tx.disposition = Nil
    BY <1>1, <1>3, <1>5, TransactionFields DEF Drafted
  <1>18. PhaseOK(u, draft)
    BY <1>1, <1>12, <1>16, <1>17 DEF PhaseOK, Drafted
  <1>19. OperationAudited(o, n, audit, draft)
    <2>1. old.reconciliation = Nil
      BY <1>5, <1>9 DEF OperationAudited
    <2> QED
      BY <1>4, <1>5, <1>9, <1>10, <1>13, <2>1 DEF OperationAudited
  <1>20. OperationTrue(o, n, applied, journal)
    BY <1>7, <1>10, <1>13 DEF OperationTrue
  <1>21. ApprovalAudited(u.approval, audit)
    BY <1>3, <1>12, <1>16 DEF AuditedOK, ApprovalAudited
  <1>22. /\ AuditedOK(u, audit, draft) /\ TruthOK(u, applied, journal)
         /\ Len(tx.operations) <= Len(u.operations)
         /\ Len(u.operations) = Len(tx.operations)
         /\ u.operations[n] = o
         /\ \A i \in 1..Len(tx.operations) :
               tx.operations[i].status # "intent_recorded" =>
                   u.operations[i].status # "intent_recorded"
    <2>1. u.operations = [tx.operations EXCEPT ![n] = o]
      BY <1>16 DEF s
    <2>2. o.status # "intent_recorded"
      BY <1>10, <1>13
    <2> QED
      BY <1>8, <1>13, <1>16, <1>19, <1>20, <1>21, <2>1, <2>2, OperationChanged
  <1>23. Evolves(tx, u, draft)
    BY <1>1, <1>3, <1>5, <1>12, <1>16, <1>22 DEF Evolves
  <1>24. EndsMutation(tx, u, draft)
    BY <1>1, <1>5, <1>17 DEF EndsMutation, Settled
  <1>25. DoneOK(r, u, draft)
    BY <1>1, <1>3, <1>5, <1>8, <1>10, <1>13, <1>16, <1>22, TransactionFields DEF DoneOK, Founded
  <1>26. Committed(u, r)
    BY <1>18, <1>22, <1>23, <1>24, <1>25 DEF Committed
  <1> QED
    BY <1>26 DEF u

\* RecordReconciliation of the unresolved operation, under a later claim.
LEMMA ReconciliationCommits ==
    ASSUME IInv, tx # Nil, NEW r, Founded(r), Authorized(r), r.label = "reconciliation"
    PROVE  Committed(New(r), r)
  <1>1. /\ draft # Nil /\ draft \in Nat /\ Drafted(tx, draft)
        /\ \E q \in ProposalType : Backed(r, q)
    BY RecordBacked DEF RecordLabels
  <1>2. PICK q \in ProposalType : Backed(r, q)
    BY <1>1
  <1>3. /\ tx \in TransactionType
        /\ AuditedOK(tx, audit, draft) /\ TruthOK(tx, applied, journal)
    BY CurrentFacts
  <1>4. /\ q.kind = "reconciliation" /\ r.receipt \in Nat /\ r.receipt \in DOMAIN audit
        /\ audit[r.receipt].kind = "reconciliation"
        /\ audit[r.receipt].attempt = r.attempt
        /\ audit[r.receipt].fence = q.epoch
        /\ r.attempt = q.attempt
    BY <1>2 DEF Backed
  <1> DEFINE n == r.attempt.sequence
             old == tx.operations[n]
  <1>5. /\ tx.status = "reconciliation_required" /\ tx.disposition = Nil
        /\ tx.claim # Nil /\ tx.claim.mode = "reconciliation"
        /\ q.epoch > draft /\ tx.fenceEpoch = q.epoch
        /\ Len(tx.operations) = n
    BY <1>2, <1>4 DEF Backed, Awaited
  <1>6. IsExported(r.attempt, journal) /\ r.attempt.status \in Resolutions
    BY <1>2, <1>4 DEF Backed, ProposalOK
  <1>7. /\ r.attempt \in Attempt
        /\ n \in Sequences
        /\ r.attempt.status = "verified" => n \in applied
        /\ r.attempt.status = "confirmed_not_applied" => n \notin applied
        /\ journal[n] # <<>>
    BY <1>5, <1>6, ExportIsTrue
  <1>8. n \in 1..Len(tx.operations) /\ n \in Nat /\ old \in OperationType
    <2>1. n \in 1..Len(tx.operations) /\ n \in Nat
      BY <1>5, <1>7, WorkflowAssumption DEF Sequences
    <2> QED
      BY <1>3, <2>1, TransactionFields
  <1>9. OperationAudited(old, n, audit, draft) /\ OperationTrue(old, n, applied, journal)
    BY <1>3, <1>8 DEF AuditedOK, TruthOK
  <1> HIDE DEF n, old
  <1> DEFINE resolved == ResolvedStatus(r.attempt)
             o == [old EXCEPT !.status = resolved, !.reconciliation = r.receipt,
                              !.attempt = r.attempt]
             s == [tx.operations EXCEPT ![n] = o]
             status == IF resolved = "uncertain" THEN "quarantined" ELSE "reconciled"
             disposition == IF resolved = "uncertain" THEN r.receipt ELSE tx.disposition
             t == [tx EXCEPT !.operations = s, !.approval = Nil, !.status = status,
                             !.disposition = disposition]
             u == New(r)
  <1>10. /\ resolved \in {"confirmed_applied", "confirmed_not_applied", "uncertain"}
         /\ resolved = "confirmed_applied" => r.attempt.status = "verified"
         /\ resolved = "confirmed_not_applied" => r.attempt.status = "confirmed_not_applied"
    BY <1>6 DEF ResolvedStatus, Resolutions
  <1>11. Handled(r) = t
    <2>1. Handled(r) = WithReconciliation(r)
      BY DEF Handled, Renewals, ApprovedRenewals
    <2>2. DOMAIN tx.operations = 1..Len(tx.operations)
      BY <1>3, TransactionFields
    <2> QED
      BY <1>3, <1>5, <1>8, <2>1, <2>2 DEF WithReconciliation, TransactionType, n, old
  <1>12. status \in {"quarantined", "reconciled"} /\ disposition \in Nat \cup {Nil}
    BY <1>3, <1>4 DEF TransactionType
  <1> HIDE DEF resolved
  <1>13. /\ o \in OperationType
         /\ o.status = resolved /\ o.reconciliation = r.receipt /\ o.attempt = r.attempt
         /\ o.intent = old.intent /\ o.evidence = old.evidence
    BY <1>4, <1>7, <1>8, <1>10 DEF OperationType
  <1> HIDE DEF o, status, disposition
  <1>14. s \in Seq(OperationType)
    BY <1>3, <1>8, <1>13, TransactionFields, ExceptSeq
  <1> HIDE DEF s
  <1>15. /\ t \in TransactionType /\ t.status = status
         /\ t.fenceEpoch = tx.fenceEpoch /\ t.claim = tx.claim /\ t.approval = Nil
         /\ t.operations = s /\ t.disposition = disposition
    BY <1>3, <1>12, <1>14 DEF TransactionType
  <1> HIDE DEF t
  <1>16. /\ u \in TransactionType
         /\ u.version = tx.version + 1 /\ u.status = status
         /\ u.fenceEpoch = tx.fenceEpoch /\ u.claim = tx.claim /\ u.approval = Nil
         /\ u.operations = s /\ u.disposition = disposition
    BY <1>3, <1>11, <1>15, Versioned
  <1> HIDE DEF u
  <1>17. tx.fenceEpoch > draft /\ tx.fenceEpoch \in Nat
    BY <1>3, <1>5, TransactionFields
  <1>18. PhaseOK(u, draft)
    BY <1>1, <1>12, <1>16, <1>17 DEF PhaseOK, Drafted
  <1>19. OperationAudited(o, n, audit, draft)
    <2>1. r.receipt # Nil
      BY <1>4, NilAssumption
    <2> QED
      BY <1>4, <1>5, <1>9, <1>10, <1>13, <2>1 DEF OperationAudited
  <1>20. OperationTrue(o, n, applied, journal)
    BY <1>7, <1>10, <1>13 DEF OperationTrue
  <1>21. ApprovalAudited(u.approval, audit)
    BY <1>16 DEF ApprovalAudited
  <1>22. /\ AuditedOK(u, audit, draft) /\ TruthOK(u, applied, journal)
         /\ Len(tx.operations) <= Len(u.operations)
         /\ Len(u.operations) = Len(tx.operations)
         /\ \A i \in 1..Len(tx.operations) :
               tx.operations[i].status # "intent_recorded" =>
                   u.operations[i].status # "intent_recorded"
    <2>1. u.operations = [tx.operations EXCEPT ![n] = o]
      BY <1>16 DEF s
    <2>2. o.status # "intent_recorded"
      BY <1>10, <1>13
    <2> QED
      BY <1>8, <1>13, <1>16, <1>19, <1>20, <1>21, <2>1, <2>2, OperationChanged
  <1>23. Evolves(tx, u, draft)
    BY <1>1, <1>3, <1>5, <1>12, <1>16, <1>22 DEF Evolves
  <1>24. EndsMutation(tx, u, draft)
    BY <1>5, <1>12, <1>16, <1>22 DEF EndsMutation, Settled
  <1>25. DoneOK(r, u, draft)
    BY <1>1, <1>3, <1>12, <1>16, TransactionFields DEF DoneOK, Founded
  <1>26. Committed(u, r)
    BY <1>18, <1>22, <1>23, <1>24, <1>25 DEF Committed
  <1> QED
    BY <1>26 DEF u

\* Whatever request is committed.
LEMMA CommitCommits ==
    ASSUME IInv, tx # Nil, NEW r, Founded(r), Authorized(r)
    PROVE  Committed(New(r), r)
  <1>1. \/ r.label \in {"claim", "bind-target", "release-terminal-claim", "approval", "intent",
                        "evidence", "reconciliation", "security_applied"}
        \/ r.label \in Renewals
        \/ r.label \in {"transfer-reconciliation", "acquire-reconciliation"}
    BY DEF Authorized
  <1> QED
    BY <1>1, ClaimCommits, BindCommits, RenewalCommits, ReconciliationClaimCommits,
       ReleaseCommits, ApprovalCommits, IntentCommits, EvidenceCommits,
       ReconciliationCommits, SecurityAppliedCommits

\* What the index says of the past stays true when the transaction evolves.
LEMMA DoneKept ==
    ASSUME NEW d, NEW t, NEW u, NEW dr, DoneOK(d, t, dr), Evolves(t, u, dr)
    PROVE  DoneOK(d, u, dr)
  <1>1. /\ d.version \in Nat /\ t.version \in Nat /\ u.version = t.version + 1
        /\ d.version < t.version
        /\ Len(t.operations) \in Nat /\ Len(u.operations) \in Nat
        /\ Len(t.operations) <= Len(u.operations)
    BY TransactionFields DEF DoneOK, Evolves
  <1>2. d.version < u.version /\ d.version + 1 # u.version
    BY <1>1
  <1>3. d.label = "intent" => d.subject \in 1..Len(u.operations)
    BY <1>1 DEF DoneOK
  <1>4. d.label = "evidence" =>
          /\ d.subject[1] \in 1..Len(u.operations)
          /\ u.operations[d.subject[1]].status # "intent_recorded"
    BY <1>1 DEF DoneOK, Evolves
  <1>5. d.label = "approval" => u.status # "target_bound"
    BY DEF DoneOK, Evolves, RecordLabels
  <1> QED
    BY <1>1, <1>2, <1>3, <1>4, <1>5 DEF DoneOK, Evolves

\* The answer of the control plane, to a request that is replayed or committed.
LEMMA AnswerFacts ==
    ASSUME IInv, tx # Nil, NEW p \in Procs, NEW r, ControlCall(p, r),
           r.version = tx.version => Founded(r),
           UNCHANGED <<audit, draft, journal, applied>>
    PROVE  /\ tx' \in TransactionType
           /\ Follows(tx, tx', draft, journal, journal', audit, audit')
           /\ draft # Nil => tx' = tx \/ EndsMutation(tx, tx', draft)
           /\ TransactionOK'
           /\ DoneOK(r, tx', draft)
           /\ PhaseOK(tx', draft)
           /\ Len(tx.operations) <= Len(tx'.operations)
  <1>1. tx \in TransactionType /\ Len(tx.operations) \in Nat /\ tx.version \in Nat
    BY CurrentFacts, TransactionFields
  <1>2. CASE Replays(r) /\ UNCHANGED <<tx, done>>
    <2>1. DoneOK(r, tx', draft) /\ PhaseOK(tx', draft)
      BY <1>2, CurrentFacts DEF Replays
    <2>2. TransactionOK'
      BY <1>2 DEF IInv, TransactionOK
    <2> QED
      BY <1>1, <1>2, <2>1, <2>2, FollowsSelf
  <1>3. CASE /\ Commits(r)
             /\ tx' = [Handled(r) EXCEPT !.version = tx.version + 1]
             /\ done' = {d \in done \cup {r} : d.label \in RecordLabels \/ Held(d, p)}
    <2>1. Founded(r) /\ Authorized(r)
      BY <1>3 DEF Commits
    <2>2. tx' = New(r)
      BY <1>3 DEF New
    <2>3. Committed(tx', r)
      BY <2>1, <2>2, CommitCommits
    <2>4. Evolves(tx, tx', draft) /\ PhaseOK(tx', draft) /\ DoneOK(r, tx', draft)
      BY <2>3 DEF Committed
    <2>5. tx' \in TransactionType /\ tx' # Nil /\ tx'.version = tx.version + 1
      BY <2>4, TransactionFields DEF Evolves
    <2>6. Follows(tx, tx', draft, journal, journal', audit, audit')
      <3>1. tx.version <= tx'.version /\ tx.version # tx'.version
        BY <1>1, <2>5
      <3>2. \A s \in Sequences : \A i \in 1..Len(journal[s]) :
              i \in 1..Len(journal'[s]) /\ journal'[s][i] = journal[s][i]
        OBVIOUS
      <3> QED
        BY <1>1, <2>4, <2>5, <3>1, <3>2 DEF Follows, Evolves
    <2>7. \A d \in done : DoneOK(d, tx', draft)
      BY <2>4, CurrentFacts, DoneKept
    <2>8. TransactionOK'
      <3>1. \A d \in done' : DoneOK(d, tx', draft')
        BY <1>3, <2>4, <2>7
      <3> QED
        BY <2>3, <2>5, <3>1 DEF TransactionOK, Committed
    <2> QED
      BY <2>3, <2>4, <2>5, <2>6, <2>8 DEF Committed, Evolves
  <1> QED
    BY <1>2, <1>3 DEF ControlCall

\* A step of a command that makes a control call.
LEMMA ControlCallKeeps ==
    ASSUME IInv, tx # Nil, NEW p \in Procs, NEW r, ControlCall(p, r),
           r.version = tx.version => Founded(r),
           NEW c, procs' = [procs EXCEPT ![p] = c],
           \/ c = Nil
           \/ c \in ProcessType /\ ProcessOK(c, tx', draft', journal', audit'),
           proposals' \subseteq proposals,
           UNCHANGED <<audit, draft, journal, guard, applied, windowOpen>>
    PROVE  IInv'
  <1>1. /\ tx' \in TransactionType
        /\ Follows(tx, tx', draft, journal, journal', audit, audit')
        /\ TransactionOK'
        /\ Len(tx.operations) <= Len(tx'.operations)
    BY AnswerFacts
  <1>2. procs' \in [Procs -> ProcessType \cup {Nil}] /\ ProcessesMove
    BY OneMoves DEF IInv
  <1>3. CommandsOK'
    <2>1. FilesMove
      BY DEF FilesMove
    <2> QED
      BY <1>1, <1>2, <2>1, CommandsKept
  <1>4. TypeOK'
    BY <1>1, <1>2 DEF IInv, TypeOK
  <1>5. GuardOK'
    <2>1. tx' # Nil
      BY <1>1, TransactionFields
    <2>2. Len(tx.operations) \in Nat /\ Len(tx'.operations) \in Nat
      BY <1>1, CurrentFacts, TransactionFields
    <2>3. guard # 0 => guard <= Len(tx'.operations)
      <3>1. guard \in Nat
        BY WorkflowAssumption DEF IInv, TypeOK, Sequences
      <3> QED
        BY <1>1, <2>2, <3>1 DEF IInv, GuardOK
    <2> QED
      BY <2>1, <2>3 DEF IInv, GuardOK
  <1> QED
    BY <1>1, <1>3, <1>4, <1>5 DEF IInv

\* The fields of a request.
LEMMA RequestFields ==
    ASSUME NEW label, NEW subject, NEW t
    PROVE  /\ Request(label, subject, t).label = label
           /\ Request(label, subject, t).version = t.version
  BY DEF Request

\* The request of prepare-draft, for a claim or to bind the target.
LEMMA PrepareFounded ==
    ASSUME IInv, NEW p \in Procs, ~ Idle(p), procs[p].pc = "prepare",
           NEW label \in {"claim", "bind-target"}, NEW r,
           r = Request(label, 0, procs[p].before), r.version = tx.version
    PROVE  Founded(r)
  <1>1. ProcessOK(procs[p], tx, draft, journal, audit)
    BY RunningFacts
  <1>2. draft = Nil
    BY <1>1 DEF ProcessOK
  <1>3. r.label = label
    BY RequestFields
  <1> QED
    BY <1>2, <1>3 DEF Founded, RecordLabels

\* PrepareClaim and BindTarget: prepare-draft goes on with the answer.
LEMMA PrepareKeeps ==
    ASSUME IInv, NEW p \in Procs, PrepareClaim(p) \/ BindTarget(p)
    PROVE  IInv'
  <1>1. /\ ~ Idle(p) /\ procs[p].pc = "prepare"
        /\ procs' = [procs EXCEPT ![p].before = tx']
        /\ UNCHANGED <<audit, draft, proposals, journal, guard, applied, windowOpen>>
    BY DEF PrepareClaim, BindTarget, fileVars, guardVars
  <1>2. PICK label \in {"claim", "bind-target"} :
          ControlCall(p, Request(label, 0, procs[p].before))
    BY DEF PrepareClaim, BindTarget
  <1> DEFINE r == Request(label, 0, procs[p].before)
             c == [pc |-> "prepare", before |-> tx']
  <1>3. ControlCall(p, r)
    BY <1>2
  <1>4. r.version = tx.version => Founded(r)
    BY <1>1, PrepareFounded
  <1> HIDE DEF r
  <1>5. /\ tx # Nil /\ procs[p] \in ProcessType
        /\ ProcessOK(procs[p], tx, draft, journal, audit)
    BY <1>1, RunningFacts
  <1>6. draft = Nil
    BY <1>1, <1>5 DEF ProcessOK
  <1>7. tx' \in TransactionType /\ tx' # Nil /\ Undrafted(tx')
    <2>1. tx' \in TransactionType /\ PhaseOK(tx', draft)
      BY <1>1, <1>3, <1>4, <1>5, AnswerFacts
    <2> QED
      BY <1>6, <2>1, TransactionFields DEF PhaseOK
  <1>8. procs' = [procs EXCEPT ![p] = c]
    <2>1. procs[p] = [pc |-> "prepare", before |-> procs[p].before]
      BY <1>1, <1>5, ProcessKinds
    <2>2. [procs[p] EXCEPT !.before = tx'] = c
      BY <2>1
    <2>3. procs' = [procs EXCEPT ![p] = [procs[p] EXCEPT !.before = tx']]
      BY <1>1 DEF IInv, TypeOK
    <2> QED
      BY <2>2, <2>3
  <1>9. c \in ProcessType /\ c.pc = "prepare" /\ c.before = tx'
    BY <1>7 DEF ProcessType
  <1> HIDE DEF c
  <1>10. ProcessOK(c, tx', draft', journal', audit')
    <2>1. SnapshotOf(tx', tx')
      BY <1>7, TransactionFields DEF SnapshotOf, Same
    <2> QED
      BY <1>1, <1>6, <1>7, <1>9, <2>1 DEF ProcessOK, PrepareOK
  <1> QED
    BY <1>1, <1>3, <1>4, <1>5, <1>8, <1>9, <1>10, ControlCallKeeps

\* The request of a command, which it sends for the transaction t.
LEMMA CommandLabels ==
    ASSUME NEW command \in Commands, NEW t
    PROVE  /\ CommandRequest(command, t).version = t.version
           /\ CommandRequest(command, t).label \in
                Renewals \cup {"transfer-reconciliation", "acquire-reconciliation",
                               "release-terminal-claim"}
           /\ CommandRequest(command, t).label \in
                {"transfer-reconciliation", "acquire-reconciliation"} =>
                    command = "prepare-reconciliation"
           /\ CommandRequest(command, t).label = "renew-ready-campaign" <=>
                command \in {"renew-ready-campaign", "propose-security-applied"}
  BY DEF CommandRequest, Request, Commands, Renewals, ApprovedRenewals

\* A command sends its request for the version that it has read and checked.
LEMMA CommandFounded ==
    ASSUME IInv, NEW p \in Procs, ~ Idle(p), procs[p].pc = "call", NEW r,
           r = CommandRequest(procs[p].command, procs[p].before), r.version = tx.version
    PROVE  Founded(r)
  <1> DEFINE c == procs[p]
  <1>1. c \in ProcessType /\ ProcessOK(c, tx, draft, journal, audit)
    BY RunningFacts
  <1>2. draft # Nil /\ CommandOK(c, tx, journal)
    BY <1>1 DEF ProcessOK
  <1>3. c.command \in Commands
    BY <1>1, ProcessKinds
  <1>4. /\ r.version = c.before.version
        /\ r.label \in Renewals \cup {"transfer-reconciliation", "acquire-reconciliation",
                                     "release-terminal-claim"}
        /\ r.label \in {"transfer-reconciliation", "acquire-reconciliation"} =>
              c.command = "prepare-reconciliation"
        /\ r.label = "renew-ready-campaign" <=>
              c.command \in {"renew-ready-campaign", "propose-security-applied"}
    BY <1>3, CommandLabels
  <1>5. Same(c.before, tx)
    BY <1>2, <1>4 DEF CommandOK, SnapshotOf
  <1>6. r.label \notin RecordLabels \cup {"claim", "bind-target"}
    BY <1>4 DEF RecordLabels, Renewals, ApprovedRenewals
  <1> HIDE DEF c
  <1> QED
    BY <1>2, <1>4, <1>5, <1>6 DEF Founded, CommandOK, Same

\* Call: a propose command goes on with the answer, which may be a later
\* transaction if the request was replayed.
LEMMA CallKeeps ==
    ASSUME IInv, NEW p \in Procs, Call(p)
    PROVE  IInv'
  <1> DEFINE old == procs[p]
             r == CommandRequest(old.command, old.before)
  <1>1. /\ ~ Idle(p) /\ old.pc = "call"
        /\ ControlCall(p, r)
        /\ UNCHANGED <<audit, draft, journal, guard, applied, windowOpen>>
    BY DEF Call, guardVars
  <1>2. proposals' \subseteq proposals
    BY DEF Call, Kept
  <1>3. IF old.command \in Proposing
        THEN procs' = [procs EXCEPT ![p].pc = "write", ![p].after = tx']
        ELSE procs' = [procs EXCEPT ![p] = Nil]
    BY DEF Call, Ends
  <1>4. r.version = tx.version => Founded(r)
    BY <1>1, CommandFounded
  <1>5. /\ tx # Nil /\ old \in ProcessType
        /\ ProcessOK(old, tx, draft, journal, audit)
    BY <1>1, RunningFacts
  <1>6. draft # Nil /\ CommandOK(old, tx, journal)
    BY <1>1, <1>5 DEF ProcessOK
  <1>7. old.command \in Commands
    BY <1>1, <1>5, ProcessKinds
  <1>8. r.label = "renew-ready-campaign" <=>
          old.command \in {"renew-ready-campaign", "propose-security-applied"}
    BY <1>7, CommandLabels
  <1>9. r.version = old.before.version
    BY <1>7, CommandLabels
  <1> HIDE DEF r
  <1>10. /\ tx' \in TransactionType
         /\ Follows(tx, tx', draft, journal, journal', audit, audit')
         /\ DoneOK(r, tx', draft)
    BY <1>1, <1>4, <1>5, AnswerFacts
  <1>11. CASE old.command \notin Proposing
    BY <1>1, <1>2, <1>3, <1>4, <1>5, <1>11, ControlCallKeeps
  <1>12. CASE old.command \in Proposing
    <2> DEFINE c == [pc |-> "write", command |-> old.command, argument |-> old.argument,
                     at |-> old.at, before |-> old.before, after |-> tx']
    <2>1. /\ old.argument \in Approvers \cup Attempt \cup {Nil}
          /\ old.at \in Nat
          /\ old.before \in TransactionType
          /\ old = [pc |-> "call", command |-> old.command, argument |-> old.argument,
                    at |-> old.at, before |-> old.before, after |-> old.after]
      BY <1>1, <1>5, ProcessKinds
    <2>2. procs' = [procs EXCEPT ![p] = c]
      <3>1. procs \in [Procs -> ProcessType \cup {Nil}]
        BY DEF IInv, TypeOK
      <3>2. procs'[p] = c
        BY <1>3, <1>12, <2>1, <3>1
      <3>3. \A o \in Procs \ {p} : procs'[o] = procs[o]
        BY <1>3, <1>12, <3>1
      <3>4. procs' = [o \in Procs |-> procs'[o]]
        BY <1>3, <1>12, <3>1
      <3> HIDE DEF c
      <3> QED
        BY <3>1, <3>2, <3>3, <3>4
    <2>3. /\ c \in ProcessType
          /\ c.pc = "write" /\ c.command = old.command /\ c.argument = old.argument
          /\ c.before = old.before /\ c.after = tx'
      BY <1>7, <1>10, <2>1 DEF ProcessType
    <2> HIDE DEF c
    <2>4. CommandOK(c, tx', journal')
      <3>1. SnapshotOf(old.before, tx')
        BY <1>6, <1>10, SnapshotKept DEF CommandOK
      <3>2. SnapshotOf(tx', tx') /\ tx' # Nil
        BY <1>10, TransactionFields DEF SnapshotOf, Same
      <3>3. (old.command = "propose-security-applied" /\ tx'.version = old.before.version + 1) =>
               tx'.status # "security_applied"
        BY <1>8, <1>9, <1>10 DEF DoneOK
      <3> QED
        BY <1>1, <1>6, <1>12, <2>3, <3>1, <3>2, <3>3 DEF CommandOK
    <2>5. ProcessOK(c, tx', draft', journal', audit')
      <3>1. tx' # Nil
        BY <1>10, TransactionFields
      <3> QED
        BY <1>1, <1>6, <2>3, <2>4, <3>1 DEF ProcessOK
    <2> HIDE DEF old
    <2> QED
      BY <1>1, <1>2, <1>4, <1>5, <2>2, <2>3, <2>5, ControlCallKeeps
  <1> QED
    BY <1>11, <1>12

\* The request of an apply command rests on its proposal and on the receipt of
\* its event.
LEMMA ApplyFounded ==
    ASSUME IInv, NEW p \in Procs, ~ Idle(p), procs[p].pc = "record", NEW r,
           r = RecordRequest(procs[p].proposal, procs[p].receipt), r.version = tx.version
    PROVE  Founded(r)
  <1> DEFINE q == procs[p].proposal
             i == procs[p].receipt
  <1>1. procs[p] \in ProcessType /\ ProcessOK(procs[p], tx, draft, journal, audit)
    BY RunningFacts
  <1>2. draft # Nil /\ ApplyOK(procs[p], tx, draft, journal, audit)
    BY <1>1 DEF ProcessOK
  <1>3. /\ ProposalOK(q, tx, draft, journal)
        /\ i \in DOMAIN audit /\ audit[i] = AuditEvent(q)
    BY <1>2 DEF ApplyOK
  <1>4. q \in ProposalType /\ q.kind \in RecordLabels
    BY <1>3 DEF ProposalOK, ProposalType
  <1> HIDE DEF q, i
  <1>5. r = RecordRequest(q, i)
    BY DEF q, i
  <1>6. r.label = q.kind /\ r.receipt = i /\ r.version = q.version
    BY <1>5 DEF RecordRequest
  <1>7. RecordFounded(r)
    BY <1>3, <1>4, <1>5, <1>6 DEF RecordFounded
  <1> QED
    BY <1>2, <1>4, <1>6, <1>7 DEF Founded, RecordLabels

\* Record: the compare-and-set that names the receipt.
LEMMA RecordKeeps ==
    ASSUME IInv, NEW p \in Procs, Record(p)
    PROVE  IInv'
  <1> DEFINE r == RecordRequest(procs[p].proposal, procs[p].receipt)
  <1>1. /\ ~ Idle(p) /\ procs[p].pc = "record"
        /\ ControlCall(p, r)
        /\ procs' = [procs EXCEPT ![p] = Nil]
        /\ UNCHANGED <<audit, draft, journal, guard, applied, windowOpen>>
    BY DEF Record, Ends, guardVars
  <1>2. proposals' \subseteq proposals
    BY DEF Record, Kept
  <1>3. r.version = tx.version => Founded(r)
    BY <1>1, ApplyFounded
  <1>4. tx # Nil
    BY <1>1, RunningFacts
  <1> HIDE DEF r
  <1> QED
    BY <1>1, <1>2, <1>3, <1>4, ControlCallKeeps

-----------------------------------------------------------------------------
(***************************************************************************)
(* The invariant, and what it says about the workflow.                     *)
(***************************************************************************)
\* There is nothing at first: no transaction, no command, no file, no attempt.
LEMMA InitInv ==
    ASSUME Init
    PROVE  IInv
  <1>1. /\ tx = Nil /\ done = {} /\ audit = <<>> /\ draft = Nil /\ proposals = {}
        /\ procs = [p \in Procs |-> Nil] /\ journal = [s \in Sequences |-> <<>>]
        /\ guard = 0 /\ applied = {} /\ windowOpen = TRUE
    BY DEF Init
  <1>2. TypeOK
    <2>1. <<>> \in Seq(EventType) /\ <<>> \in Seq(Attempt)
      BY EmptySeq
    <2> QED
      BY <1>1, <2>1 DEF TypeOK
  <1>3. GuardOK
    <2>1. \A s \in Sequences : 1..Len(journal[s]) = {}
      BY <1>1, EmptySeq
    <2> QED
      BY <1>1, <2>1 DEF GuardOK
  <1> QED
    BY <1>1, <1>2, <1>3 DEF IInv, TransactionOK, CommandsOK

\* Every step of the workflow keeps the invariant.
LEMMA StepKeepsInv ==
    ASSUME IInv, [Next]_vars
    PROVE  IInv'
  <1>1. ASSUME NEW p \in Procs, NEW q \in proposals,
               \/ ApplyApproval(p, q) \/ ApplyIntent(p, q) \/ ApplyEvidence(p, q)
               \/ ApplySecurityApplied(p, q) \/ ApplyReconciliation(p, q)
        PROVE  IInv'
    <2>1. Check(p, q)
      BY <1>1 DEF ApplyApproval, ApplyIntent, ApplyEvidence, ApplySecurityApplied,
                  ApplyReconciliation
    <2> QED
      BY <2>1, CheckKeeps
  <1> QED
    BY <1>1, CreateTransactionKeeps, PrepareKeeps, WriteDraftKeeps, ReadKeeps, CallKeeps,
       WriteKeeps, AppendAuditKeeps, RecordKeeps, EndKeeps, GuardExecuteKeeps,
       GuardReconcileKeeps, GuardFinishKeeps, ClaimExpiresKeeps, WindowKeeps DEF Next

\* Commands, files, journal, log and transaction stay in order whatever the
\* interleaving of the commands, their ends and the guard.
THEOREM Invariance == Spec => []IInv
  <1>1. Init => IInv
    BY InitInv
  <1>2. IInv /\ [Next]_vars => IInv'
    BY StepKeepsInv
  <1> QED
    BY <1>1, <1>2, PTL DEF Spec

\* The variables keep their types.
THEOREM TypeCorrect == Spec => []TypeOK
  <1>1. IInv => TypeOK
    BY DEF IInv
  <1> QED
    BY <1>1, Invariance, PTL

\* Whatever is recorded at the control plane names the receipt of the audit event
\* of exactly that step.
THEOREM RecordsAreAudited == Spec => []EveryRecordIsAudited
  <1>1. ASSUME IInv
        PROVE  EveryRecordIsAudited
    <2> SUFFICES ASSUME tx # Nil
                 PROVE  EveryRecordIsAudited
      BY DEF EveryRecordIsAudited
    <2>1. tx \in TransactionType /\ AuditedOK(tx, audit, draft)
      BY <1>1, CurrentFacts
    <2>2. tx.approval # Nil => Receipt(tx.approval.receipt, "approval", tx.approval.approver)
      BY <2>1 DEF AuditedOK, ApprovalAudited, Receipt, EventKey
    <2>3. DOMAIN tx.operations = 1..Len(tx.operations)
      BY <2>1, TransactionFields
    <2>4. ASSUME NEW s \in DOMAIN tx.operations
          PROVE  LET o == tx.operations[s]
                 IN  /\ Receipt(o.intent, "intent", s)
                     /\ o.evidence # Nil =>
                           /\ audit[o.evidence].kind = "evidence"
                           /\ audit[o.evidence].attempt.receipt = o.intent
                           /\ o.reconciliation = Nil => audit[o.evidence].attempt = o.attempt
                     /\ o.reconciliation # Nil =>
                           /\ audit[o.reconciliation].kind = "reconciliation"
                           /\ audit[o.reconciliation].fence > audit[o.intent].fence
                           /\ audit[o.reconciliation].attempt = o.attempt
      <3> DEFINE o == tx.operations[s]
      <3>1. OperationAudited(o, s, audit, draft)
        BY <2>1, <2>3, <2>4 DEF AuditedOK
      <3> HIDE DEF o
      <3>2. Receipt(o.intent, "intent", s)
        BY <3>1 DEF OperationAudited, Receipt, EventKey
      <3>3. /\ o.evidence # Nil =>
                  /\ audit[o.evidence].kind = "evidence"
                  /\ audit[o.evidence].attempt.receipt = o.intent
                  /\ o.reconciliation = Nil => audit[o.evidence].attempt = o.attempt
            /\ o.reconciliation # Nil =>
                  /\ audit[o.reconciliation].kind = "reconciliation"
                  /\ audit[o.reconciliation].fence > audit[o.intent].fence
                  /\ audit[o.reconciliation].attempt = o.attempt
        BY <3>1 DEF OperationAudited
      <3> QED
        BY <3>2, <3>3 DEF o
    <2> QED
      BY <2>2, <2>4 DEF EveryRecordIsAudited
  <1> QED
    BY <1>1, Invariance, PTL

\* What the control plane holds of an operation is true of the target.
THEOREM RecordsAreTrue == Spec => []ResolutionsAreTrue
  <1>1. ASSUME IInv
        PROVE  ResolutionsAreTrue
    <2> SUFFICES ASSUME tx # Nil, NEW s \in DOMAIN tx.operations
                 PROVE  /\ tx.operations[s].status \in {"succeeded", "confirmed_applied"} =>
                             s \in applied
                        /\ tx.operations[s].status = "confirmed_not_applied" =>
                             s \notin applied \cup {guard}
      BY DEF ResolutionsAreTrue
    <2>1. DOMAIN tx.operations = 1..Len(tx.operations) /\ TruthOK(tx, applied, journal)
      BY <1>1, CurrentFacts, TransactionFields
    <2>2. OperationTrue(tx.operations[s], s, applied, journal)
      BY <2>1 DEF TruthOK
    <2>3. s \in Sequences /\ (guard = s => journal[s] = <<>>)
      BY <1>1, <2>2, WorkflowAssumption DEF OperationTrue, IInv, GuardOK, Sequences
    <2> QED
      BY <2>2, <2>3 DEF OperationTrue
  <1> QED
    BY <1>1, Invariance, PTL

\* A claim that has not expired is as it was at its last renewal.
LEMMA AsOfUnexpired ==
    ASSUME NEW t \in TransactionType, t.claim # Nil, ~ t.claim.expired
    PROVE  AsOf(t) = t
  <1>1. t.claim \in ClaimType
    BY TransactionFields
  <1>2. t.claim.expired \in BOOLEAN
    BY <1>1 DEF ClaimType
  <1>3. t.claim.expired = FALSE
    BY <1>2, Zenon
  <1>4. [t.claim EXCEPT !.expired = FALSE] = t.claim
    BY <1>1, <1>3 DEF ClaimType
  <1>5. AsOf(t) = [t EXCEPT !.claim = [t.claim EXCEPT !.expired = FALSE]]
    BY DEF AsOf, TransactionType
  <1> QED
    BY <1>4, <1>5 DEF TransactionType

\* A proposal for the current version, while claim and window stand, is awaited by
\* the apply command and by the handler.
LEMMA AwaitedIsAccepted ==
    ASSUME IInv, NEW q \in proposals, q.version = tx.version, ~ tx.claim.expired, windowOpen,
           NEW i
    PROVE  proposalMatchesCurrent(q) /\ Authorized(RecordRequest(q, i))
  <1>1. /\ tx # Nil /\ draft # Nil /\ ProposalOK(q, tx, draft, journal)
        /\ Awaited(q, tx, draft)
    BY DEF IInv, CommandsOK, ProposalOK
  <1>2. tx \in TransactionType /\ draft \in Nat /\ Drafted(tx, draft)
    BY <1>1, CurrentFacts DEF PhaseOK
  <1>3. tx.claim # Nil /\ tx.claim.epoch = q.epoch /\ tx.fenceEpoch = q.epoch
    BY <1>1 DEF Awaited
  <1>4. AsOf(tx) = tx
    BY <1>2, <1>3, AsOfUnexpired
  <1>5. q.kind \in RecordLabels /\ SameClaim(q) /\ preflightCurrentClaim
    BY <1>1, <1>3 DEF ProposalOK, ProposalType, SameClaim, preflightCurrentClaim
  <1> DEFINE r == RecordRequest(q, i)
  <1>6. r.label = q.kind /\ r.subject = q.subject /\ r.epoch = q.epoch /\ r.attempt = q.attempt
    BY DEF RecordRequest
  <1> HIDE DEF r
  <1>7. \A modes : tx.claim.mode \in modes => requireCurrentClaim(r, modes)
    BY <1>3, <1>6 DEF requireCurrentClaim
  <1>8. CASE q.kind = "approval"
    <2>1. /\ tx.claim.mode = "mutation" /\ tx.operations = <<>>
          /\ tx.status = "target_bound" /\ tx.approval = Nil
      BY <1>1, <1>8 DEF Awaited
    <2>2. proposalMatchesCurrentApproval(q)
      BY <1>5, <2>1 DEF proposalMatchesCurrentApproval
    <2>3. Authorized(r)
      BY <1>6, <1>7, <1>8, <2>1 DEF Authorized
    <2> QED
      BY <1>5, <1>8, <2>2, <2>3 DEF proposalMatchesCurrent, r
  <1>9. CASE q.kind = "intent"
    <2>1. /\ tx.claim.mode = "mutation" /\ q.epoch = draft
          /\ tx.status = "commit_approved"
          /\ tx.approval # Nil /\ tx.approval.approver = q.approver
          /\ AllCompleted(tx, Len(tx.operations))
          /\ q.subject = Len(tx.operations) + 1
      BY <1>1, <1>9 DEF Awaited
    <2>2. matchDraftTransaction(tx, "commit_approved") /\ requireCurrentApproval
      BY <1>3, <2>1 DEF matchDraftTransaction, requireCurrentApproval
    <2>3. proposalMatchesCurrentIntent(q)
      BY <1>5, <2>1, <2>2 DEF proposalMatchesCurrentIntent
    <2>4. Authorized(r)
      BY <1>6, <1>7, <1>9, <2>1, <2>2 DEF Authorized
    <2> QED
      BY <1>5, <1>9, <2>3, <2>4 DEF proposalMatchesCurrent, r
  <1>10. CASE q.kind = "evidence"
    <2>1. /\ tx.claim.mode = "mutation" /\ tx.status = "mutation_in_progress"
          /\ Len(tx.operations) = q.attempt.sequence
          /\ Last(tx).intent = q.attempt.receipt
          /\ Last(tx).status = "intent_recorded"
      BY <1>1, <1>10 DEF Awaited
    <2>2. proposalMatchesCurrentEvidence(q)
      BY <1>5, <2>1 DEF proposalMatchesCurrentEvidence
    <2>3. Authorized(r)
      BY <1>6, <1>7, <1>10, <2>1 DEF Authorized
    <2> QED
      BY <1>5, <1>10, <2>2, <2>3 DEF proposalMatchesCurrent, r
  <1>11. CASE q.kind = "security_applied"
    <2>1. /\ tx.claim.mode = "mutation" /\ q.epoch = draft
          /\ tx.status = "commit_approved" /\ tx.approval # Nil
          /\ tx.version <= q.at
          /\ Len(tx.operations) = NumOps
          /\ AllCompleted(tx, NumOps)
          /\ q.subject = tx.operations
      BY <1>1, <1>11 DEF Awaited
    <2>2. matchDraftTransaction(tx, tx.status) /\ requireCurrentApproval
      BY <1>3, <2>1 DEF matchDraftTransaction, requireCurrentApproval
    <2>3. completedCampaignEvidence(tx, q.at)
      BY <2>1, <2>2 DEF completedCampaignEvidence, UpdatedAt
    <2>4. proposalMatchesCurrentSecurityApplied(q)
      BY <1>4, <1>5, <2>1, <2>2, <2>3 DEF proposalMatchesCurrentSecurityApplied
    <2>5. Authorized(r)
      BY <1>6, <1>7, <1>11, <2>1, <2>2 DEF Authorized
    <2> QED
      BY <1>5, <1>11, <2>4, <2>5 DEF proposalMatchesCurrent, r
  <1>12. CASE q.kind = "reconciliation"
    <2>1. /\ tx.claim.mode = "reconciliation" /\ tx.claim.epoch > draft
          /\ tx.status = "reconciliation_required" /\ tx.approval = Nil /\ tx.disposition = Nil
          /\ Len(tx.operations) = q.attempt.sequence
          /\ AllCompleted(tx, Len(tx.operations) - 1)
          /\ Last(tx).intent = q.attempt.receipt
          /\ Last(tx).status \in {"intent_recorded", "uncertain"}
      BY <1>1, <1>12 DEF Awaited
    <2>2. Len(tx.operations) \in Sequences
      BY <1>1, <1>12, <2>1 DEF ProposalOK, IsExported, Attempt
    <2>3. unresolvedSequence(tx)
      BY <2>1, <2>2 DEF unresolvedSequence
    <2>4. matchPreparedReconciliation(tx)
      BY <1>3, <2>1, <2>3 DEF matchPreparedReconciliation, matchReconciliationClaim
    <2>5. proposalMatchesCurrentReconciliation(q)
      BY <1>4, <1>5, <2>1, <2>4 DEF proposalMatchesCurrentReconciliation
    <2>6. Authorized(r)
      <3>1. tx.operations[r.attempt.sequence].status \in {"intent_recorded", "uncertain", "failed"}
        BY <1>6, <2>1 DEF Last
      <3> QED
        BY <1>6, <1>7, <1>12, <2>1, <3>1 DEF Authorized
    <2> QED
      BY <1>5, <1>12, <2>5, <2>6 DEF proposalMatchesCurrent, r
  <1> QED
    BY <1>5, <1>8, <1>9, <1>10, <1>11, <1>12 DEF RecordLabels

\* What is awaited is not in the index.
LEMMA AwaitedIsUnknown ==
    ASSUME IInv, NEW q \in proposals, q.version = tx.version, NEW i
    PROVE  ~ Known(RecordRequest(q, i))
  <1>1. /\ tx # Nil /\ draft # Nil /\ ProposalOK(q, tx, draft, journal)
        /\ Awaited(q, tx, draft)
    BY DEF IInv, CommandsOK, ProposalOK
  <1>2. q.kind \in RecordLabels
    BY <1>1 DEF ProposalOK, ProposalType
  <1>3. tx \in TransactionType /\ Len(tx.operations) \in Nat
    BY <1>1, CurrentFacts, TransactionFields
  <1>4. ASSUME NEW d \in done, IdempotencyKey(d) = IdempotencyKey(RecordRequest(q, i))
        PROVE  FALSE
    <2>1. IdempotencyKey(RecordRequest(q, i)) = <<q.kind, q.subject>>
      BY <1>2 DEF IdempotencyKey, RecordRequest
    <2>2. d.label \in RecordLabels
      <3>1. SUFFICES ASSUME d.label \notin RecordLabels
                     PROVE  FALSE
        OBVIOUS
      <3>2. <<d.label, d.subject, d.version>> = <<q.kind, q.subject>>
        BY <1>4, <2>1, <3>1 DEF IdempotencyKey
      <3>3. /\ DOMAIN <<d.label, d.subject, d.version>> = 1..3
            /\ DOMAIN <<q.kind, q.subject>> = 1..2
        OBVIOUS
      <3>4. 3 \in 1..2
        BY <3>2, <3>3
      <3> QED
        BY <3>4
    <2>3. d.label = q.kind /\ d.subject = q.subject
      BY <1>4, <2>1, <2>2 DEF IdempotencyKey
    <2>4. DoneOK(d, tx, draft)
      BY <1>1, CurrentFacts
    <2> QED
      BY <1>1, <1>2, <1>3, <2>3, <2>4 DEF Awaited, DoneOK, RecordLabels, Last
  <1> QED
    BY <1>4 DEF Known

\* A step that was audited and not recorded is finished by applying the same
\* proposal again, as long as the version, the claim and the window stand.
THEOREM AuditedStepsFinish == Spec => []AuditedStepsCanFinish
  <1>1. ASSUME IInv
        PROVE  AuditedStepsCanFinish
    <2> SUFFICES ASSUME NEW q \in proposals, Appended(AuditEvent(q)),
                        q.version = tx.version, ~ tx.claim.expired, windowOpen
                 PROVE  /\ proposalMatchesCurrent(q)
                        /\ \E i \in Answers(AuditEvent(q)) : Answered(RecordRequest(q, i))
      BY DEF AuditedStepsCanFinish
    <2>1. PICK i \in SameKey(AuditEvent(q)) : audit[i] = AuditEvent(q)
      BY DEF Appended
    <2>2. i \in Answers(AuditEvent(q))
      BY <2>1 DEF Answers
    <2>3. proposalMatchesCurrent(q) /\ Authorized(RecordRequest(q, i))
      BY <1>1, AwaitedIsAccepted
    <2>4. ~ Known(RecordRequest(q, i))
      BY <1>1, AwaitedIsUnknown
    <2>5. RecordRequest(q, i).version = tx.version
      BY DEF RecordRequest
    <2>6. Answered(RecordRequest(q, i))
      BY <2>3, <2>4, <2>5 DEF Answered, Commits
    <2> QED
      BY <2>2, <2>3, <2>6
  <1> QED
    BY <1>1, Invariance, PTL

\* Every step either leaves the transaction as it is, but for the expiry of its
\* claim, or is a commit.
LEMMA StepEndsMutation ==
    ASSUME IInv, [Next]_vars, tx # Nil, draft # Nil
    PROVE  EndsMutation(tx, tx', draft)
  <1>1. tx \in TransactionType /\ Drafted(tx, draft)
    BY CurrentFacts DEF PhaseOK
  <1>2. ASSUME /\ tx'.approval = tx.approval /\ tx'.operations = tx.operations
               /\ tx'.status = tx.status /\ tx'.fenceEpoch = tx.fenceEpoch
        PROVE  EndsMutation(tx, tx', draft)
    BY <1>1, <1>2 DEF EndsMutation, Drafted
  <1>3. CASE UNCHANGED tx
    BY <1>2, <1>3
  <1>4. CASE ClaimExpires
    <2>1. /\ tx'.approval = tx.approval /\ tx'.operations = tx.operations
          /\ tx'.status = tx.status /\ tx'.fenceEpoch = tx.fenceEpoch
      BY <1>1, <1>4 DEF ClaimExpires, TransactionType
    <2> QED
      BY <1>2, <2>1
  <1>5. ASSUME NEW p \in Procs, Call(p)
        PROVE  EndsMutation(tx, tx', draft)
    <2> DEFINE r == CommandRequest(procs[p].command, procs[p].before)
    <2>1. /\ ~ Idle(p) /\ procs[p].pc = "call" /\ ControlCall(p, r)
          /\ UNCHANGED <<audit, draft, journal, applied>>
      BY <1>5 DEF Call, guardVars
    <2>2. r.version = tx.version => Founded(r)
      BY <2>1, CommandFounded
    <2> HIDE DEF r
    <2> QED
      BY <1>3, <2>1, <2>2, AnswerFacts
  <1>6. ASSUME NEW p \in Procs, Record(p)
        PROVE  EndsMutation(tx, tx', draft)
    <2> DEFINE r == RecordRequest(procs[p].proposal, procs[p].receipt)
    <2>1. /\ ~ Idle(p) /\ procs[p].pc = "record" /\ ControlCall(p, r)
          /\ UNCHANGED <<audit, draft, journal, applied>>
      BY <1>6 DEF Record, guardVars
    <2>2. r.version = tx.version => Founded(r)
      BY <2>1, ApplyFounded
    <2> HIDE DEF r
    <2> QED
      BY <1>3, <2>1, <2>2, AnswerFacts
  <1>7. ASSUME NEW p \in Procs, PrepareClaim(p) \/ BindTarget(p)
        PROVE  FALSE
    <2>1. ~ Idle(p) /\ procs[p].pc = "prepare"
      BY <1>7 DEF PrepareClaim, BindTarget
    <2> QED
      BY <2>1, RunningFacts DEF ProcessOK
  <1>8. ASSUME NEW p \in Procs,
               \/ WriteDraft(p) \/ Write(p) \/ AppendAudit(p) \/ Refused(p) \/ Crash(p)
        PROVE  UNCHANGED tx
    BY <1>8 DEF WriteDraft, Write, AppendAudit, Refused, Crash, serviceVars
  <1>9. ASSUME NEW p \in Procs, NEW command \in Commands, Read(p, command)
        PROVE  UNCHANGED tx
    BY <1>9 DEF Read, serviceVars
  <1>10. ASSUME NEW p \in Procs, NEW q \in proposals,
                \/ ApplyApproval(p, q) \/ ApplyIntent(p, q) \/ ApplyEvidence(p, q)
                \/ ApplySecurityApplied(p, q) \/ ApplyReconciliation(p, q)
         PROVE  UNCHANGED tx
    BY <1>10 DEF ApplyApproval, ApplyIntent, ApplyEvidence, ApplySecurityApplied,
                 ApplyReconciliation, Check, serviceVars
  <1>11. ASSUME NEW p \in Procs, CreateTransaction(p)
         PROVE  FALSE
    BY <1>11 DEF CreateTransaction
  <1>12. ASSUME NEW s \in Sequences, GuardExecute(s) \/ GuardReconcile(s)
         PROVE  UNCHANGED tx
    BY <1>12 DEF GuardExecute, GuardReconcile, serviceVars
  <1>13. ASSUME GuardFinish \/ ApprovalWindowEnds \/ UNCHANGED vars
         PROVE  UNCHANGED tx
    BY <1>13 DEF GuardFinish, ApprovalWindowEnds, serviceVars, vars
  <1> QED
    BY <1>3, <1>4, <1>5, <1>6, <1>7, <1>8, <1>9, <1>10, <1>11, <1>12, <1>13 DEF Next

\* After a reconciliation claim no step approves, starts or finishes a mutation,
\* and a settled transaction stays as it is.
THEOREM MutationEnds == Spec => ReconciliationEndsMutation
  <1>1. ASSUME IInv, [Next]_vars, tx # Nil, draft # Nil
        PROVE  EndsMutation(tx, tx', draft)
    BY <1>1, StepEndsMutation
  <1>2. IInv /\ [Next]_vars =>
          [(tx # Nil /\ draft # Nil) =>
              /\ tx.fenceEpoch > draft =>
                    /\ tx'.approval = Nil
                    /\ Len(tx'.operations) = Len(tx.operations)
                    /\ tx'.status \in {"reconciliation_required", "reconciled", "quarantined"}
              /\ Settled(tx) =>
                    /\ tx'.operations = tx.operations
                    /\ tx'.status = tx.status
                    /\ tx'.fenceEpoch = tx.fenceEpoch]_vars
    BY <1>1 DEF EndsMutation
  <1> QED
    BY <1>2, Invariance, PTL DEF Spec, ReconciliationEndsMutation

=============================================================================
