------------------------ MODULE PilotEnrollmentProofs ------------------------
(***************************************************************************)
(* Proofs about PilotEnrollment, for every set of renewals and recoveries, *)
(* every term of a certificate or a challenge and any number of faults.    *)
(*                                                                         *)
(* The command that runs keeps in memory what it read from the file and    *)
(* from Fleet.  CallOK says how far both may have moved on since: the file *)
(* not at all, Fleet's record only forward.  The rest of the invariant     *)
(* relates the file to the proofs that have left the device, and the       *)
(* active entries of the file to Fleet's chain.                            *)
(***************************************************************************)
EXTENDS PilotEnrollment, FiniteSetTheorems, SequenceTheorems, TLAPS

Kinds == {"enrollment", "renewal", "recovery"}

-----------------------------------------------------------------------------
(***************************************************************************)
(* The parts of validate that do not depend on Fleet's records.            *)
(***************************************************************************)
EntryOK(entry) ==
    /\ (entry.challenge # Nil) =
          (entry.phase \in {"proof_submitted", "verified", "active"})
    /\ (entry.signature # Nil) = (entry.challenge # Nil)

FileOK(f) ==
    /\ f \in StateType
    /\ f.enrollment.op = Enrollment
    /\ EntryOK(f.enrollment)
    /\ (f.enrollment.proof = Nil) = (f.enrollment.phase = "initialized")
    /\ f.enrollment.phase # "active"
    /\ f.renewal # Nil =>
          /\ f.renewal.op \in Renewals
          /\ EntryOK(f.renewal)
          /\ f.renewal.proof # Nil
    /\ f.recovery # Nil =>
          /\ f.recovery.op \in Recoveries
          /\ EntryOK(f.recovery)
          /\ f.recovery.proof # Nil
    /\ \A i \in 1 .. Len(f.history) : /\ f.history[i].phase = "active"
                                       /\ f.history[i].op \in Renewals
    /\ IsInjective(Used(f))
    /\ f.history # <<>> => f.renewal # Nil
    /\ f.start # Nil => /\ f.start <= Len(f.history)
                        /\ f.renewal # Nil
                        /\ Active(f.recovery)
    /\ (f.start = Nil /\ f.recovery # Nil) => (f.renewal = Nil \/ Active(f.renewal))

\* The entries of a file.
Held(f) ==
    ({f.enrollment, f.renewal, f.recovery} \ {Nil})
        \cup {f.history[i] : i \in 1 .. Len(f.history)}

SavedBy(f) == UNION {ProofsOf(entry) : entry \in Held(f)}

-----------------------------------------------------------------------------
(***************************************************************************)
(* The command that runs.                                                  *)
(***************************************************************************)

\* The entry that the command works on, and its phases at each step.
WorksOn(f, c, phases) ==
    /\ f # Nil
    /\ c.kind \in Kinds
    /\ f[c.kind] # Nil
    /\ c.op = f[c.kind].op
    /\ f[c.kind].phase \in phases

\* A reply that says active is still true, and an entry that is active here was
\* active when the reply was sent.
ReplyOK(f, fl, c) ==
    /\ c.reply \in RecordType
    /\ c.reply.state = "active" => fl[c.op].state = "active"
    /\ f[c.kind].phase = "active" => c.reply.state = "active"

Submitted == {"proof_submitted", "verified", "active"}

PreparingOK(f, fl, c) ==
    /\ c \in [step : {"self"}, kind : {"renewal"}, op : Renewals, reply : Operations]
    /\ f # Nil
    /\ fl[c.op].state = "awaiting_proof"
    /\ f.renewal = Nil \/ Active(f.renewal)
    /\ f.recovery = Nil \/ Active(f.recovery)

KeySendOK(f, c) ==
    /\ c \in [step : {"key_send"}, kind : {"renewal"}, op : Renewals, reply : {Nil}]
    /\ WorksOn(f, c, {"prepared"})

KeyResultOK(f, c) ==
    /\ c \in [step : {"key_result", "installation"}, kind : {"renewal"},
              op : Renewals, reply : RecordType]
    /\ WorksOn(f, c, {"prepared", "approved"})

ChallengeOK(f, c) ==
    /\ c \in [step : {"challenge"}, kind : Kinds, op : Operations, reply : RecordType]
    /\ WorksOn(f, c, {"installed"})

SendOK(f, c) ==
    /\ c \in [step : {"send"}, kind : Kinds, op : Operations, reply : {Nil}]
    /\ WorksOn(f, c, {"proof_submitted"})

RetryOK(f, fl, c) ==
    /\ c \in [step : {"retry"}, kind : Kinds, op : Operations, reply : RecordType]
    /\ WorksOn(f, c, {"proof_submitted"})
    /\ ReplyOK(f, fl, c)

ResultOK(f, fl, c) ==
    /\ c \in [step : {"result"}, kind : Kinds, op : Operations, reply : RecordType]
    /\ WorksOn(f, c, Submitted)
    /\ ReplyOK(f, fl, c)

CutoverOK(f, fl, c) ==
    /\ c \in [step : {"cutover"}, kind : {"renewal", "recovery"}, op : Operations,
              reply : Operations]
    /\ WorksOn(f, c, Submitted)
    /\ fl[c.op].state = "active"

TrustOK(f, c) ==
    /\ c \in [step : {"trust"}, kind : {"trust"}, op : Operations,
              reply : [until : Nat, issuer : Nat]]
    /\ f # Nil

CallOK(f, fl, c) ==
    \/ c = Idle
    \/ PreparingOK(f, fl, c)
    \/ KeySendOK(f, c)
    \/ KeyResultOK(f, c)
    \/ ChallengeOK(f, c)
    \/ SendOK(f, c)
    \/ RetryOK(f, fl, c)
    \/ ResultOK(f, fl, c)
    \/ CutoverOK(f, fl, c)
    \/ TrustOK(f, c)

-----------------------------------------------------------------------------
(***************************************************************************)
(* Fleet's records and the chain.                                          *)
(***************************************************************************)

\* A successor is approved only after an activation, and names what it replaces.
FleetOK(fl, ch) ==
    \A operation \in Renewals \cup Recoveries :
        fl[operation].state # "none" =>
            /\ fl[operation].predecessor \in Operations
            /\ ch # <<>>

\* Fleet knows the operations of the file.
Known(f, fl) ==
    /\ f.renewal # Nil => fl[f.renewal.op].state # "none"
    /\ f.recovery # Nil => fl[f.recovery.op].state # "none"
    /\ Active(f.renewal) => fl[f.renewal.op].state = "active"
    /\ Active(f.recovery) => fl[f.recovery.op].state = "active"

\* The successor that is not yet active here.
Waiting(f, operation) ==
    \/ f.renewal # Nil /\ f.renewal.phase # "active" /\ f.renewal.op = operation
    \/ f.recovery # Nil /\ f.recovery.phase # "active" /\ f.recovery.op = operation

Renewed(f) ==
    [i \in 1 .. Len(f.history) |-> f.history[i].op]
        \o (IF Active(f.renewal) THEN <<f.renewal.op>> ELSE <<>>)

Recovered(f) == IF Active(f.recovery) THEN <<f.recovery.op>> ELSE <<>>

Place(f) == IF f.start = Nil THEN Len(Renewed(f)) ELSE f.start

\* x between the first n elements of r and the others.
Inserted(r, n, x) == SubSeq(r, 1, n) \o x \o SubSeq(r, n + 1, Len(r))

\* LocalChain, as a function of the file, and with the enrollment before it.
Successors(f) == Inserted(Renewed(f), Place(f), Recovered(f))

Local(f) == <<Enrollment>> \o Successors(f)

\* Fleet's chain is the local one, or one cutover ahead of it.
ChainOK(f, fl, ch) ==
    \/ /\ ch = <<>>
       /\ Local(f) = <<Enrollment>>
    \/ /\ ch = Local(f)
       /\ \A operation \in Operations :
             Waiting(f, operation) => fl[operation].state # "active"
    \/ \E operation \in Operations :
          /\ Waiting(f, operation)
          /\ fl[operation].state = "active"
          /\ ch = Append(Local(f), operation)

VerifiedIsWaiting(f, fl) ==
    \A operation \in Renewals \cup Recoveries :
        fl[operation].state = "verified" => Waiting(f, operation)

FollowOK(f, fl, ch) ==
    /\ Known(f, fl)
    /\ ChainOK(f, fl, ch)
    /\ VerifiedIsWaiting(f, fl)

TypeInv ==
    /\ file = Nil \/ FileOK(file)
    /\ leftover \in BOOLEAN
    /\ fleet \in [Operations -> RecordType]
    /\ chain \in Seq(Operations)
    /\ now \in Nat
    /\ sent \subseteq ProofType
    /\ IsFiniteSet(sent)
    /\ faults \in Nat

ChainInv(f, fl, ch) ==
    /\ FleetOK(fl, ch)
    /\ ch # <<>> => fl[Enrollment].state = "active"
    /\ f = Nil => /\ \A operation \in Operations : fl[operation].state = "none"
                  /\ ch = <<>>
    /\ f # Nil => FollowOK(f, fl, ch)

SavedInv(f, s) == s # {} => f # Nil /\ s \subseteq SavedBy(f)

IInv ==
    /\ TypeInv
    /\ CallOK(file, fleet, call)
    /\ ChainInv(file, fleet, chain)
    /\ SavedInv(file, sent)

-----------------------------------------------------------------------------
(***************************************************************************)
(* Lemmas about sequences.                                                 *)
(***************************************************************************)

\* The two parts of a sequence that is cut after n elements.
LEMMA Cut ==
    ASSUME NEW S, NEW r \in Seq(S), NEW n \in 0 .. Len(r)
    PROVE  /\ SubSeq(r, 1, n) \in Seq(S)
           /\ SubSeq(r, n + 1, Len(r)) \in Seq(S)
           /\ Len(SubSeq(r, n + 1, Len(r))) = Len(r) - n
           /\ \A i \in 1 .. Len(r) - n : SubSeq(r, n + 1, Len(r))[i] = r[n + i]
<1>1. n \in Nat /\ n <= Len(r) /\ Len(r) \in Nat
  OBVIOUS
<1> QED
  BY <1>1

\* A sequence with an insertion is a sequence.
LEMMA InsertedType ==
    ASSUME NEW S, NEW r \in Seq(S), NEW x \in Seq(S), NEW n \in 0 .. Len(r)
    PROVE  Inserted(r, n, x) \in Seq(S)
<1> DEFINE a == SubSeq(r, 1, n)
           b == SubSeq(r, n + 1, Len(r))
<1>1. a \in Seq(S) /\ b \in Seq(S)
  BY Cut
<1> HIDE DEF a, b
<1>2. a \o x \in Seq(S)
  BY <1>1, ConcatProperties
<1>3. (a \o x) \o b \in Seq(S)
  BY <1>1, <1>2, ConcatProperties
<1> QED
  BY <1>3 DEF Inserted, a, b

\* An insertion at the end is a concatenation.
LEMMA InsertedAtEnd ==
    ASSUME NEW S, NEW r \in Seq(S), NEW x \in Seq(S)
    PROVE  Inserted(r, Len(r), x) = r \o x
<1>1. Len(r) \in Nat /\ Len(r) < Len(r) + 1 /\ Len(r) + 1 \in Int
  OBVIOUS
<1>2. SubSeq(r, 1, Len(r)) = r
  BY SubSeqFull
<1>3. SubSeq(r, Len(r) + 1, Len(r)) = <<>>
  BY <1>1, SubSeqEmpty
<1>4. r \o x \in Seq(S)
  BY ConcatProperties
<1>5. (r \o x) \o <<>> = r \o x
  BY <1>4, ConcatEmptySeq
<1> QED
  BY <1>2, <1>3, <1>5 DEF Inserted

\* An insertion of nothing changes nothing.
LEMMA InsertedNothing ==
    ASSUME NEW S, NEW r \in Seq(S), NEW n \in 0 .. Len(r)
    PROVE  Inserted(r, n, <<>>) = r
<1> DEFINE a == SubSeq(r, 1, n)
           b == SubSeq(r, n + 1, Len(r))
<1>1. a \in Seq(S) /\ b \in Seq(S)
  BY Cut
<1>2. a \o <<>> = a
  BY <1>1, ConcatEmptySeq
<1>3. Len(r) \in Nat /\ 1 \in 1 .. Len(r) + 1 /\ n \in 1 - 1 .. Len(r)
      /\ Len(r) \in n .. Len(r)
  OBVIOUS
<1>4. a \o b = SubSeq(r, 1, Len(r))
  BY <1>3, ConcatAdjacentSubSeq
<1>5. SubSeq(r, 1, Len(r)) = r
  BY SubSeqFull
<1> QED
  BY <1>2, <1>4, <1>5 DEF Inserted

\* What is appended after an insertion is at the end.
LEMMA InsertedAppend ==
    ASSUME NEW S, NEW r \in Seq(S), NEW x \in Seq(S), NEW n \in 0 .. Len(r),
           NEW e \in S
    PROVE  Inserted(Append(r, e), n, x) = Append(Inserted(r, n, x), e)
<1> DEFINE a == SubSeq(r, 1, n)
           b == SubSeq(r, n + 1, Len(r))
           t == Append(r, e)
           k == Len(r)
<1>1. k \in Nat /\ n \in Nat /\ n <= k
  OBVIOUS
<1>2. /\ a \in Seq(S) /\ b \in Seq(S) /\ Len(b) = k - n
      /\ \A i \in 1 .. k - n : b[i] = r[n + i]
  BY Cut
<1>3. /\ t \in Seq(S) /\ Len(t) = k + 1 /\ t[k + 1] = e
      /\ \A i \in 1 .. k : t[i] = r[i]
  OBVIOUS
<1>4. SubSeq(t, 1, n) = a
  <2> DEFINE w == SubSeq(t, 1, n)
  <2>1. w \in Seq(S) /\ Len(w) = n /\ \A i \in 1 .. n : w[i] = t[i]
    <3> HIDE DEF t, k, a, b
    <3> QED
      BY <1>1, <1>3
  <2>2. Len(a) = n /\ \A i \in 1 .. n : a[i] = r[i]
    BY <1>1
  <2> HIDE DEF t, a, b, w, k
  <2>3. \A i \in 1 .. n : w[i] = a[i]
    BY <1>1, <1>3, <2>1, <2>2
  <2>4. Len(w) = Len(a) /\ \A i \in 1 .. Len(w) : w[i] = a[i]
    BY <2>1, <2>2, <2>3
  <2>5. w = a
    BY <1>2, <2>1, <2>4, SeqEqual
  <2> QED
    BY <2>5 DEF w
<1>5. SubSeq(t, n + 1, k + 1) = Append(b, e)
  <2> DEFINE u == SubSeq(t, n + 1, k + 1)
             v == Append(b, e)
  <2>1. u \in Seq(S) /\ Len(u) = k - n + 1
        /\ \A i \in 1 .. k - n + 1 : u[i] = t[n + i]
    <3> HIDE DEF t, k, a, b
    <3> QED
      BY <1>1, <1>3
  <2>2. v \in Seq(S) /\ Len(v) = k - n + 1 /\ v[k - n + 1] = e
        /\ \A i \in 1 .. k - n : v[i] = b[i]
    <3> HIDE DEF t, k, a, b
    <3>1. v \in Seq(S) /\ Len(v) = Len(b) + 1 /\ v[Len(b) + 1] = e
          /\ \A i \in 1 .. Len(b) : v[i] = b[i]
      BY <1>2, AppendProperties
    <3> QED
      BY <1>2, <3>1
  <2> HIDE DEF t, k, a, b, u, v
  <2>3. ASSUME NEW i \in 1 .. k - n + 1 PROVE u[i] = v[i]
    <3>1. CASE i \in 1 .. k - n
      <4>1. n + i \in 1 .. k
        BY <1>1, <3>1
      <4> QED
        BY <1>2, <1>3, <2>1, <2>2, <3>1, <4>1
    <3>2. CASE i = k - n + 1
      <4>1. n + i = k + 1
        BY <1>1, <3>2
      <4> QED
        BY <1>3, <2>1, <2>2, <3>2, <4>1
    <3> QED
      BY <1>1, <3>1, <3>2
  <2>4. Len(u) = Len(v) /\ \A i \in 1 .. Len(u) : u[i] = v[i]
    BY <2>1, <2>2, <2>3
  <2>5. u = v
    BY <2>1, <2>2, <2>4, SeqEqual
  <2> QED
    BY <2>5 DEF u, v
<1> HIDE DEF a, b
<1>6. Inserted(t, n, x) = (a \o x) \o Append(b, e)
  BY <1>3, <1>4, <1>5 DEF Inserted
<1>7. Inserted(r, n, x) = (a \o x) \o b
  BY DEF Inserted, a, b
<1>8. (a \o x) \o Append(b, e) = Append((a \o x) \o b, e)
  <2> DEFINE c == a \o x
  <2>1. c \in Seq(S)
    BY <1>2, ConcatProperties
  <2> HIDE DEF c
  <2>2. c \o Append(b, e) = Append(c \o b, e)
    BY <1>2, <2>1
  <2> QED
    BY <2>2 DEF c
<1> QED
  BY <1>6, <1>7, <1>8 DEF t

\* The last element is the same when the insertion is before it.
LEMMA InsertedLast ==
    ASSUME NEW S, NEW r \in Seq(S), NEW x \in Seq(S), NEW n \in 0 .. Len(r),
           n # Len(r)
    PROVE  Last(Inserted(r, n, x)) = r[Len(r)]
<1> DEFINE b == SubSeq(r, n + 1, Len(r))
           c == SubSeq(r, 1, n) \o x
           k == Len(r) - n
<1>1. n \in Nat /\ n <= Len(r) /\ Len(r) \in Nat /\ k \in Nat /\ k # 0
      /\ n + k = Len(r)
  OBVIOUS
<1>2. b \in Seq(S) /\ Len(b) = k /\ \A i \in 1 .. k : b[i] = r[n + i]
  BY Cut
<1>3. c \in Seq(S)
  BY Cut, ConcatProperties
<1> HIDE DEF b, c, k
<1>4. Len(c) \in Nat
  BY <1>3
<1>5. Len(c \o b) = Len(c) + k /\ (c \o b)[Len(c) + k] = b[k]
  <2>1. Len(c) + k \in 1 .. Len(c) + Len(b) /\ ~ (Len(c) + k <= Len(c))
        /\ Len(c) + k - Len(c) = k
    BY <1>1, <1>2, <1>4
  <2>2. /\ Len(c \o b) = Len(c) + Len(b)
        /\ \A i \in 1 .. Len(c) + Len(b) :
              (c \o b)[i] = IF i <= Len(c) THEN c[i] ELSE b[i - Len(c)]
    BY <1>2, <1>3, ConcatProperties
  <2> QED
    BY <1>2, <2>1, <2>2
<1>6. b[k] = r[n + k]
  BY <1>1, <1>2
<1> QED
  BY <1>1, <1>5, <1>6 DEF Inserted, b, c, Last

\* What is appended is the last element.
LEMMA LastOfAppend ==
    ASSUME NEW S, NEW s \in Seq(S), NEW e \in S, NEW t, t = Append(s, e)
    PROVE  t # <<>> /\ Last(t) = e
BY DEF Last

-----------------------------------------------------------------------------
(***************************************************************************)
(* Lemmas about the chain that the file holds.                             *)
(***************************************************************************)

\* The operations of the history.
Archive(f) == [i \in 1 .. Len(f.history) |-> f.history[i].op]

\* The history of a file is a sequence of operations.
LEMMA ArchiveType ==
    ASSUME NEW f, f.history \in Seq(EntryType)
    PROVE  /\ Archive(f) \in Seq(Operations)
           /\ Len(Archive(f)) = Len(f.history)
           /\ Len(f.history) \in Nat
           /\ \A i \in 1 .. Len(f.history) : Archive(f)[i] = f.history[i].op
<1>1. Len(f.history) \in Nat
  OBVIOUS
<1>2. \A i \in 1 .. Len(f.history) : f.history[i].op \in Operations
  <2>1. \A i \in 1 .. Len(f.history) : f.history[i] \in EntryType
    OBVIOUS
  <2> QED
    BY <2>1 DEF EntryType
<1> QED
  BY <1>1, <1>2 DEF Archive

\* An entry that is archived adds its operation.
LEMMA ArchiveAppend ==
    ASSUME NEW f, NEW g, f.history \in Seq(EntryType), NEW e \in EntryType,
           g.history = Append(f.history, e)
    PROVE  Archive(g) = Append(Archive(f), e.op)
<1> DEFINE h == f.history
           k == Len(h)
           t == Append(h, e)
<1>1. k \in Nat /\ t \in Seq(EntryType) /\ Len(t) = k + 1 /\ t[k + 1] = e
      /\ \A i \in 1 .. k : t[i] = h[i]
  OBVIOUS
<1>2. e.op \in Operations
  BY DEF EntryType
<1>3. Archive(f) \in Seq(Operations) /\ Len(Archive(f)) = k
      /\ \A i \in 1 .. k : Archive(f)[i] = h[i].op
  BY ArchiveType
<1>4. Archive(g) \in Seq(Operations) /\ Len(Archive(g)) = k + 1
      /\ \A i \in 1 .. k + 1 : Archive(g)[i] = t[i].op
  BY <1>1, ArchiveType
<1> DEFINE a == Archive(f)
           b == Archive(g)
           c == Append(a, e.op)
           o == e.op
<1> HIDE DEF h, k, t, a, b, o
<1>5. c \in Seq(Operations) /\ Len(c) = k + 1 /\ c[k + 1] = o
      /\ \A i \in 1 .. k : c[i] = a[i]
  <2>1. a \in Seq(Operations) /\ o \in Operations /\ Len(a) = k
    BY <1>2, <1>3 DEF a, o
  <2>2. c = Append(a, o)
    BY DEF o
  <2> HIDE DEF c
  <2> QED
    BY <1>1, <2>1, <2>2
<1> HIDE DEF c
<1>6. ASSUME NEW i \in 1 .. k + 1 PROVE b[i] = c[i]
  <2>1. CASE i \in 1 .. k
    BY <1>1, <1>3, <1>4, <1>5, <2>1 DEF a, b
  <2>2. CASE i = k + 1
    BY <1>1, <1>4, <1>5, <2>2 DEF b, o
  <2> QED
    BY <1>1, <2>1, <2>2
<1>7. b = c
  <2>1. b \in Seq(Operations) /\ Len(b) = Len(c) /\ \A i \in 1 .. Len(b) : b[i] = c[i]
    BY <1>4, <1>5, <1>6 DEF b
  <2> QED
    BY <1>5, <2>1, SeqEqual
<1> QED
  BY <1>7 DEF a, b, c

\* What has been renewed and recovered are operations, and the recovery has a
\* place among the renewals.
LEMMA LocalType ==
    ASSUME NEW f, FileOK(f)
    PROVE  /\ Renewed(f) \in Seq(Operations)
           /\ Recovered(f) \in Seq(Operations)
           /\ Place(f) \in 0 .. Len(Renewed(f))
           /\ Successors(f) \in Seq(Operations)
           /\ Local(f) \in Seq(Operations)
<1>1. /\ f.history \in Seq(EntryType)
      /\ Active(f.renewal) => f.renewal \in EntryType
      /\ Active(f.recovery) => f.recovery \in EntryType
      /\ f.start \in Nat \cup {Nil}
      /\ f.start # Nil => f.start <= Len(f.history)
  BY DEF FileOK, StateType, Active
<1>2. /\ Archive(f) \in Seq(Operations)
      /\ Len(Archive(f)) = Len(f.history)
      /\ Len(f.history) \in Nat
  BY <1>1, ArchiveType
<1> DEFINE a == Archive(f)
           x == IF Active(f.renewal) THEN <<f.renewal.op>> ELSE <<>>
<1>3. x \in Seq(Operations) /\ Recovered(f) \in Seq(Operations)
  BY <1>1 DEF Recovered, EntryType
<1>4. Renewed(f) = a \o x
  BY DEF Renewed, Archive
<1> HIDE DEF a, x
<1>5. Renewed(f) \in Seq(Operations) /\ Len(Renewed(f)) = Len(a) + Len(x)
  <2>1. a \in Seq(Operations)
    BY <1>2 DEF a
  <2> QED
    BY <1>3, <1>4, <2>1, ConcatProperties
<1>6. Len(x) \in Nat /\ Len(a) = Len(f.history)
  BY <1>2, <1>3 DEF a
<1>7. Place(f) \in 0 .. Len(Renewed(f))
  BY <1>1, <1>2, <1>5, <1>6 DEF Place
<1>8. Successors(f) \in Seq(Operations)
  BY <1>3, <1>5, <1>7, InsertedType DEF Successors
<1>9. <<Enrollment>> \in Seq(Operations)
  <2>1. Enrollment \in Operations
    BY DEF Operations
  <2> QED
    BY <2>1
<1>10. Local(f) \in Seq(Operations)
  BY <1>8, <1>9, ConcatProperties DEF Local
<1> QED
  BY <1>3, <1>5, <1>7, <1>8, <1>10

\* The enrollment is the first.
LEMMA LocalShape ==
    ASSUME NEW f, FileOK(f)
    PROVE  /\ Len(Local(f)) = Len(Successors(f)) + 1
           /\ Len(Successors(f)) \in Nat
           /\ Local(f)[1] = Enrollment
           /\ Successors(f) # <<>> => Last(Local(f)) = Last(Successors(f))
           /\ Successors(f) = <<>> => Last(Local(f)) = Enrollment
<1> DEFINE s == Successors(f)
           t == <<Enrollment>>
<1>1. s \in Seq(Operations) /\ t \in Seq(Operations)
  <2>1. Enrollment \in Operations
    BY DEF Operations
  <2> QED
    BY <2>1, LocalType
<1>2. Local(f) = t \o s
  BY DEF Local
<1>3. Len(t) = 1 /\ t[1] = Enrollment
  OBVIOUS
<1> HIDE DEF s, t
<1>4. Len(s) \in Nat
  BY <1>1
<1>5. /\ Len(t \o s) = Len(s) + 1
      /\ (t \o s)[1] = t[1]
      /\ \A i \in 1 .. Len(s) : (t \o s)[i + 1] = s[i]
  <2>1. /\ Len(t \o s) = Len(t) + Len(s)
        /\ \A i \in 1 .. Len(t) + Len(s) :
              (t \o s)[i] = IF i <= Len(t) THEN t[i] ELSE s[i - Len(t)]
    BY <1>1, ConcatProperties
  <2> QED
    BY <1>3, <1>4, <2>1
<1>6. CASE s = <<>>
  <2>1. Len(s) = 0
    BY <1>6
  <2>2. Len(t \o s) = 1
    BY <1>5, <2>1
  <2>3. Last(t \o s) = Enrollment
    BY <1>3, <1>5, <2>2 DEF Last
  <2> QED
    BY <1>2, <1>3, <1>4, <1>5, <1>6, <2>3 DEF s
<1>7. CASE s # <<>>
  <2>1. Len(s) \in 1 .. Len(s)
    BY <1>1, <1>4, <1>7, EmptySeq
  <2>2. Last(t \o s) = Last(s)
    BY <1>5, <2>1 DEF Last
  <2> QED
    BY <1>2, <1>3, <1>4, <1>5, <1>7, <2>2 DEF s
<1> QED
  BY <1>6, <1>7

\* A renewal that is not active adds nothing to the history.
LEMMA RenewedParts ==
    ASSUME NEW f, FileOK(f)
    PROVE  /\ ~ Active(f.renewal) => Renewed(f) = Archive(f)
           /\ Active(f.renewal) => /\ f.renewal \in EntryType
                                   /\ f.renewal.op \in Operations
                                   /\ Renewed(f) = Append(Archive(f), f.renewal.op)
           /\ Archive(f) \in Seq(Operations)
           /\ Len(Archive(f)) = Len(f.history)
           /\ Len(f.history) \in Nat
<1>1. f.history \in Seq(EntryType) /\ (Active(f.renewal) => f.renewal \in EntryType)
  BY DEF FileOK, StateType, Active
<1>2. /\ Archive(f) \in Seq(Operations)
      /\ Len(Archive(f)) = Len(f.history)
      /\ Len(f.history) \in Nat
  BY <1>1, ArchiveType
<1>3. CASE Active(f.renewal)
  <2>1. f.renewal.op \in Operations
    BY <1>1, <1>3 DEF EntryType
  <2>2. Renewed(f) = Archive(f) \o <<f.renewal.op>>
    BY <1>3 DEF Renewed, Archive
  <2>3. Renewed(f) = Append(Archive(f), f.renewal.op)
    BY <1>2, <2>1, <2>2, AppendIsConcat
  <2> QED
    BY <1>1, <1>2, <1>3, <2>1, <2>3
<1>4. CASE ~ Active(f.renewal)
  <2>1. Renewed(f) = Archive(f) \o <<>>
    BY <1>4 DEF Renewed, Archive
  <2>2. Renewed(f) = Archive(f)
    BY <1>2, <2>1, ConcatEmptySeq
  <2> QED
    BY <1>2, <1>4, <2>2
<1> QED
  BY <1>3, <1>4

\* The chain of the file depends on its active entries only.
LEMMA SameLocal ==
    ASSUME NEW f, NEW g, g.history = f.history, g.start = f.start,
           Active(g.renewal) <=> Active(f.renewal),
           Active(f.renewal) => g.renewal.op = f.renewal.op,
           Active(g.recovery) <=> Active(f.recovery),
           Active(f.recovery) => g.recovery.op = f.recovery.op
    PROVE  Local(g) = Local(f)
<1>1. Renewed(g) = Renewed(f)
  BY DEF Renewed
<1>2. Recovered(g) = Recovered(f)
  BY DEF Recovered
<1>3. Place(g) = Place(f)
  BY <1>1 DEF Place
<1> QED
  BY <1>1, <1>2, <1>3 DEF Local, Successors

\* An operation that follows all successors is appended to the chain.
LEMMA LocalAppend ==
    ASSUME NEW f, NEW g, FileOK(f), NEW operation \in Operations,
           Successors(g) = Append(Successors(f), operation)
    PROVE  Local(g) = Append(Local(f), operation)
<1> DEFINE s == Successors(f)
           t == <<Enrollment>>
<1>1. s \in Seq(Operations) /\ t \in Seq(Operations)
  <2>1. Enrollment \in Operations
    BY DEF Operations
  <2> QED
    BY <2>1, LocalType
<1>2. Local(f) = t \o s /\ Local(g) = t \o Append(s, operation)
  BY DEF Local
<1> HIDE DEF s, t
<1>3. t \o Append(s, operation) = Append(t \o s, operation)
  BY <1>1
<1> QED
  BY <1>2, <1>3

\* A renewal that becomes active is the last of the chain, also after a recovery.
LEMMA RenewalCutover ==
    ASSUME NEW f, NEW g, FileOK(f), FileOK(g),
           g.history = f.history, g.start = f.start, g.recovery = f.recovery,
           f.renewal # Nil, ~ Active(f.renewal), Active(g.renewal)
    PROVE  Local(g) = Append(Local(f), g.renewal.op)
<1> DEFINE operation == g.renewal.op
           r == Renewed(f)
           x == Recovered(f)
<1>1. operation \in Operations /\ Renewed(g) = Append(r, operation)
  <2>1. Archive(g) = Archive(f)
    BY DEF Archive
  <2> QED
    BY <2>1, RenewedParts
<1>2. r \in Seq(Operations) /\ x \in Seq(Operations) /\ Place(f) \in 0 .. Len(r)
  BY LocalType
<1>3. Recovered(g) = x
  BY DEF Recovered
<1> HIDE DEF operation, r, x
<1>4. CASE f.start = Nil
  <2>1. x = <<>>
    BY <1>4 DEF FileOK, x, Recovered, Active
  <2>2. Place(f) = Len(r) /\ Place(g) = Len(Append(r, operation))
    BY <1>1, <1>4 DEF Place, r
  <2>3. Successors(f) = r \o <<>>
    BY <1>2, <2>1, <2>2, InsertedAtEnd DEF Successors, r, x
  <2>4. Append(r, operation) \in Seq(Operations)
    BY <1>1, <1>2
  <2>5. Successors(g) = Append(r, operation) \o <<>>
    BY <1>1, <1>2, <1>3, <2>1, <2>2, <2>4, InsertedAtEnd DEF Successors
  <2>6. Successors(f) = r /\ Successors(g) = Append(r, operation)
    BY <1>2, <2>3, <2>4, <2>5, ConcatEmptySeq
  <2> QED
    BY <1>1, <2>6, LocalAppend DEF operation
<1>5. CASE f.start # Nil
  <2>1. Place(g) = Place(f)
    BY <1>5 DEF Place
  <2>2. Successors(g) = Inserted(Append(r, operation), Place(f), x)
    BY <1>1, <1>3, <2>1 DEF Successors
  <2>3. Successors(f) = Inserted(r, Place(f), x)
    BY DEF Successors, r, x
  <2>4. Successors(g) = Append(Successors(f), operation)
    BY <1>1, <1>2, <2>2, <2>3, InsertedAppend
  <2> QED
    BY <1>1, <2>4, LocalAppend DEF operation
<1> QED
  BY <1>4, <1>5

\* A recovery that becomes active is the last of the chain.
LEMMA RecoveryCutover ==
    ASSUME NEW f, NEW g, FileOK(f), FileOK(g),
           g.history = f.history, g.start = f.start, g.renewal = f.renewal,
           f.recovery # Nil, ~ Active(f.recovery), Active(g.recovery)
    PROVE  Local(g) = Append(Local(f), g.recovery.op)
<1> DEFINE operation == g.recovery.op
           r == Renewed(f)
<1>1. operation \in Operations
  BY DEF FileOK, StateType, EntryType, Active
<1>2. r \in Seq(Operations) /\ Renewed(g) = r
  BY LocalType DEF Renewed
<1>3. Recovered(f) = <<>> /\ Recovered(g) = <<operation>>
  BY DEF Recovered
<1>4. f.start = Nil
  BY DEF FileOK
<1> HIDE DEF operation, r
<1>5. Place(f) = Len(r) /\ Place(g) = Len(r)
  BY <1>2, <1>4 DEF Place, r
<1>6. <<operation>> \in Seq(Operations)
  BY <1>1
<1>7. Successors(f) = r \o <<>>
  <2>1. <<>> \in Seq(Operations)
    OBVIOUS
  <2> QED
    BY <1>2, <1>3, <1>5, <2>1, InsertedAtEnd DEF Successors, r
<1>8. Successors(g) = r \o <<operation>>
  BY <1>2, <1>3, <1>5, <1>6, InsertedAtEnd DEF Successors
<1>9. Successors(f) = r
  BY <1>2, <1>7, ConcatEmptySeq
<1>10. Successors(g) = Append(Successors(f), operation)
  BY <1>1, <1>2, <1>8, <1>9, AppendIsConcat
<1> QED
  BY <1>1, <1>10, LocalAppend DEF operation

\* The archive of the completed renewal, with which a new one starts, keeps the
\* chain, and keeps the recovery in its place.
LEMMA ArchivedLocal ==
    ASSUME NEW f, NEW g, FileOK(f), FileOK(g),
           f.renewal = Nil \/ Active(f.renewal),
           f.recovery = Nil \/ Active(f.recovery),
           g.history = Archived(f).history, g.start = Archived(f).start,
           g.recovery = f.recovery, ~ Active(g.renewal)
    PROVE  Local(g) = Local(f)
<1>1. f \in StateType /\ f.history \in Seq(EntryType)
  BY DEF FileOK, StateType
<1>2. g.history = IF f.renewal = Nil THEN f.history ELSE Append(f.history, f.renewal)
  BY <1>1 DEF Archived, StateType
<1>3. g.start = IF f.recovery # Nil /\ f.start = Nil THEN Len(g.history) ELSE f.start
  BY <1>1, <1>2 DEF Archived, StateType
<1>4. Renewed(g) = Renewed(f)
  <2>1. Renewed(g) = Archive(g)
    BY RenewedParts
  <2>2. CASE f.renewal = Nil
    <3>1. Renewed(f) = Archive(f)
      BY <2>2, RenewedParts DEF Active
    <3>2. Archive(g) = Archive(f)
      BY <1>2, <2>2 DEF Archive
    <3> QED
      BY <2>1, <3>1, <3>2
  <2>3. CASE f.renewal # Nil
    <3>1. f.renewal \in EntryType /\ Renewed(f) = Append(Archive(f), f.renewal.op)
      BY <2>3, RenewedParts
    <3>2. Archive(g) = Append(Archive(f), f.renewal.op)
      BY <1>1, <1>2, <2>3, <3>1, ArchiveAppend
    <3> QED
      BY <2>1, <3>1, <3>2
  <2> QED
    BY <2>2, <2>3
<1>5. Recovered(g) = Recovered(f)
  BY DEF Recovered
<1>6. Len(g.history) = Len(Renewed(g))
  BY RenewedParts
<1>7. Place(g) = Place(f)
  <2>1. CASE f.start = Nil /\ f.recovery # Nil
    <3>1. Len(g.history) # Nil
      <4>1. Len(g.history) \in Nat
        BY RenewedParts
      <4> QED
        BY <4>1, NilAssumption
    <3> QED
      BY <1>3, <1>4, <1>6, <2>1, <3>1 DEF Place
  <2>2. CASE ~ (f.start = Nil /\ f.recovery # Nil)
    BY <1>3, <1>4, <2>2 DEF Place
  <2> QED
    BY <2>1, <2>2
<1> QED
  BY <1>4, <1>5, <1>7 DEF Local, Successors

\* Ordinary requests use the last credential of the chain of the file, wherever
\* the recovery is in it.
LEMMA RequestKeyLast ==
    ASSUME NEW f, FileOK(f)
    PROVE  requestKey(f) = Last(Local(f))
<1> DEFINE h == Archive(f)
           r == Renewed(f)
           n == Len(f.history)
<1>1. /\ h \in Seq(Operations) /\ Len(h) = n /\ n \in Nat
      /\ \A i \in 1 .. n : h[i] = f.history[i].op
      /\ r \in Seq(Operations)
  <2>1. f.history \in Seq(EntryType)
    BY DEF FileOK, StateType
  <2> QED
    BY <2>1, ArchiveType, LocalType
<1>2. f.start \in Nat \cup {Nil} /\ Nil \notin Nat
  BY NilAssumption DEF FileOK, StateType
<1>3. \/ /\ Successors(f) # <<>>
         /\ Last(Successors(f)) = requestKey(f)
      \/ /\ Successors(f) = <<>>
         /\ requestKey(f) = Enrollment
  <2>1. CASE f.start = Nil
    <3>1. Successors(f) = r \o Recovered(f) /\ Recovered(f) \in Seq(Operations)
      BY <1>1, <2>1, LocalType, InsertedAtEnd DEF Successors, Place
    <3>2. CASE Active(f.recovery)
      <4> DEFINE x == f.recovery.op
      <4>1. x \in Operations
        BY <3>2 DEF FileOK, StateType, EntryType, Active
      <4>2. Recovered(f) = <<x>>
        BY <3>2 DEF Recovered
      <4>3. requestKey(f) = x
        BY <2>1, <3>2 DEF requestKey
      <4> HIDE DEF x, r
      <4>4. Successors(f) = Append(r, x)
        BY <1>1, <3>1, <4>1, <4>2, AppendIsConcat
      <4>5. Successors(f) # <<>> /\ Last(Successors(f)) = x
        BY <1>1, <4>1, <4>4, LastOfAppend
      <4> QED
        BY <4>3, <4>5
    <3>3. CASE ~ Active(f.recovery)
      <4>1. Successors(f) = r
        <5>1. Recovered(f) = <<>>
          BY <3>3 DEF Recovered
        <5> HIDE DEF r
        <5> QED
          BY <1>1, <3>1, <5>1, ConcatEmptySeq
      <4>2. CASE Active(f.renewal)
        <5> DEFINE o == f.renewal.op
        <5>1. o \in Operations /\ r = Append(h, o)
          BY <4>2, RenewedParts
        <5>2. requestKey(f) = o
          BY <3>3, <4>2 DEF requestKey
        <5> HIDE DEF h, r, o
        <5>3. Successors(f) # <<>> /\ Last(Successors(f)) = o
          BY <1>1, <4>1, <5>1, LastOfAppend
        <5> QED
          BY <5>2, <5>3
      <4>3. CASE ~ Active(f.renewal)
        <5>1. r = h
          BY <4>3, RenewedParts
        <5>2. requestKey(f) = IF n > 0 THEN f.history[n].op ELSE Enrollment
          BY <1>1, <1>2, <2>1, <3>3, <4>3 DEF requestKey, renewalBase
        <5> HIDE DEF h, r, n
        <5>3. CASE n = 0
          <6>1. h = <<>>
            BY <1>1, <5>3, EmptySeq
          <6> QED
            BY <4>1, <5>1, <5>2, <5>3, <6>1 DEF n
        <5>4. CASE n # 0
          <6>1. n > 0 /\ n \in 1 .. n
            BY <1>1, <5>4
          <6>2. h # <<>>
            BY <1>1, <5>4
          <6>3. Last(h) = h[n] /\ h[n] = f.history[n].op
            BY <1>1, <6>1 DEF Last
          <6>4. Successors(f) # <<>> /\ Last(Successors(f)) = f.history[n].op
            BY <4>1, <5>1, <6>2, <6>3
          <6> QED
            BY <5>2, <6>1, <6>4 DEF n
        <5> QED
          BY <5>3, <5>4
      <4> QED
        BY <4>2, <4>3
    <3> QED
      BY <3>2, <3>3
  <2>2. CASE f.start # Nil
    <3> DEFINE x == f.recovery.op
               k == f.start
    <3>1. Active(f.recovery) /\ f.renewal # Nil /\ k \in 0 .. n
      BY <1>1, <1>2, <2>2 DEF FileOK
    <3>2. x \in Operations /\ <<x>> \in Seq(Operations)
      <4>1. x \in Operations
        BY <3>1 DEF FileOK, StateType, EntryType, Active
      <4> QED
        BY <4>1
    <3>3. Successors(f) = Inserted(r, k, <<x>>)
      BY <2>2, <3>1 DEF Successors, Place, Recovered
    <3>4. CASE Active(f.renewal)
      <4>1. f.renewal.op \in Operations /\ r = Append(h, f.renewal.op)
        BY <3>4, RenewedParts
      <4>2. requestKey(f) = f.renewal.op
        BY <2>2, <3>4 DEF requestKey
      <4> DEFINE s == Inserted(h, k, <<x>>)
                 o == f.renewal.op
      <4> HIDE DEF h, r, x, k, n
      <4>3. s \in Seq(Operations)
        BY <1>1, <3>1, <3>2, InsertedType
      <4>4. Inserted(Append(h, o), k, <<x>>) = Append(s, o)
        <5> DEFINE y == <<x>>
        <5>1. y \in Seq(Operations) /\ k \in 0 .. Len(h) /\ o \in Operations
          BY <1>1, <3>1, <3>2, <4>1
        <5> HIDE DEF y, o
        <5>2. Inserted(Append(h, o), k, y) = Append(Inserted(h, k, y), o)
          BY <1>1, <5>1, InsertedAppend
        <5> QED
          BY <5>2 DEF y
      <4>5. Successors(f) = Append(s, o) /\ o \in Operations
        BY <3>3, <4>1, <4>4
      <4> HIDE DEF s, o
      <4>6. Successors(f) # <<>> /\ Last(Successors(f)) = o
        BY <4>3, <4>5, LastOfAppend
      <4> QED
        BY <4>2, <4>6 DEF o
    <3>5. CASE ~ Active(f.renewal)
      <4>1. r = h
        BY <3>5, RenewedParts
      <4>2. requestKey(f) = renewalBase(f, n)
        BY <2>2, <3>5 DEF requestKey
      <4>3. CASE k = n
        <5>1. requestKey(f) = x
          BY <4>2, <4>3 DEF renewalBase
        <5> HIDE DEF h, r, x, k, n
        <5>2. Successors(f) = h \o <<x>>
          BY <1>1, <3>2, <3>3, <4>1, <4>3, InsertedAtEnd
        <5>3. Successors(f) = Append(h, x)
          BY <1>1, <3>2, <5>2, AppendIsConcat
        <5>4. Successors(f) # <<>> /\ Last(Successors(f)) = x
          BY <1>1, <3>2, <5>3, LastOfAppend
        <5> QED
          BY <5>1, <5>4
      <4>4. CASE k # n
        <5>1. n > 0 /\ n \in 1 .. n
          BY <1>1, <3>1, <4>4
        <5>2. requestKey(f) = f.history[n].op
          BY <4>2, <4>4, <5>1 DEF renewalBase
        <5> HIDE DEF h, r, x, k, n
        <5>3. Last(Successors(f)) = h[n]
          BY <1>1, <3>1, <3>2, <3>3, <4>1, <4>4, InsertedLast
        <5>4. Successors(f) # <<>>
          <6> DEFINE c == SubSeq(h, 1, k) \o <<x>>
                     b == SubSeq(h, k + 1, Len(h))
          <6>1. c \in Seq(Operations) /\ b \in Seq(Operations) /\ Len(b) = n - k
            BY <1>1, <3>1, <3>2, Cut, ConcatProperties
          <6>2. Successors(f) = c \o b
            BY <3>3, <4>1 DEF Inserted
          <6> HIDE DEF b, c
          <6>3. b # <<>>
            BY <1>1, <3>1, <4>4, <6>1
          <6> QED
            BY <6>1, <6>2, <6>3, ConcatEqualIffEmpty
        <5>5. h[n] = f.history[n].op
          BY <1>1, <5>1 DEF n
        <5> QED
          BY <5>2, <5>3, <5>4, <5>5 DEF n
      <4> QED
        BY <4>3, <4>4
    <3> QED
      BY <3>4, <3>5
  <2> QED
    BY <2>1, <2>2
<1> QED
  BY <1>3, LocalShape

-----------------------------------------------------------------------------
(***************************************************************************)
(* Saves.                                                                  *)
(***************************************************************************)

\* Every operation is of its own kind.
Named(f) ==
    /\ f.enrollment.op = Enrollment
    /\ f.renewal # Nil => f.renewal.op \in Renewals
    /\ f.recovery # Nil => f.recovery.op \in Recoveries
    /\ \A i \in 1 .. Len(f.history) : f.history[i].op \in Renewals

\* The new file holds the proofs of the old one.
Carries(f, g) == SavedBy(f) \cap ProofType \subseteq SavedBy(g)

\* What a new file must be, next to what validate checks.
Saves(f, g) ==
    /\ g \in StateType
    /\ Named(g)
    /\ f # Nil => Carries(f, g)

\* What validate accepts is good, whatever Fleet's records are.
LEMMA ValidIsGood ==
    ASSUME NEW g \in StateType, Named(g), validate(g)
    PROVE  FileOK(g)
<1>1. /\ IsInjective(Used(g))
      /\ g.history # <<>> => g.renewal # Nil
      /\ g.start # Nil => /\ g.start <= Len(g.history)
                          /\ g.renewal # Nil
                          /\ Active(g.recovery)
                          /\ validRecoveryEntry(Prefix(g, g.start), g.recovery)
      /\ \A i \in 1 .. Len(g.history) : g.history[i].phase = "active"
      /\ g.renewal # Nil => validRenewal(g.renewal, renewalBase(g, Len(g.history)))
      /\ (g.start = Nil /\ g.recovery # Nil) => validRecoveryEntry(g, g.recovery)
      /\ (g.enrollment.proof = Nil) = (g.enrollment.phase = "initialized")
      /\ validPhase(g.enrollment, {"initialized", "bootstrap_proved", "installed",
                                   "proof_submitted", "verified"})
  BY DEF validate
<1>2. EntryOK(g.enrollment) /\ g.enrollment.phase # "active"
  BY <1>1 DEF validPhase, EntryOK
<1>3. g.renewal # Nil => EntryOK(g.renewal) /\ g.renewal.proof # Nil
  BY <1>1 DEF validRenewal, validPhase, EntryOK
<1>4. g.recovery # Nil => EntryOK(g.recovery) /\ g.recovery.proof # Nil
  BY <1>1 DEF validRecoveryEntry, validPhase, EntryOK
<1>5. (g.start = Nil /\ g.recovery # Nil) => (g.renewal = Nil \/ Active(g.renewal))
  BY <1>1 DEF validRecoveryEntry, validateRecovery, Active
<1> QED
  BY <1>1, <1>2, <1>3, <1>4, <1>5 DEF FileOK, Named

\* A save that validates, or fails in any of its ways, keeps the invariant when
\* the new file and the next step are good.
LEMMA SaveStep ==
    ASSUME IInv, NEW g, NEW next, save(g, next), UNCHANGED <<fleet, chain, now>>,
           Saves(file, g),
           FileOK(g) => FollowOK(g, fleet, chain) /\ CallOK(g, fleet, next),
           \/ sent' = sent
           \/ /\ file' = g
              /\ \E proof \in ProofType \cap SavedBy(g) : sent' = sent \cup {proof}
    PROVE  IInv'
<1>1. /\ faults' \in Nat
      /\ leftover' \in BOOLEAN
      /\ \/ file' = file /\ call' = Idle
         \/ validate(g) /\ file' = g /\ call' \in {next, Idle}
  <2>1. faults \in Nat /\ leftover \in BOOLEAN
    BY DEF IInv, TypeInv
  <2>2. CASE /\ validate(g)
             /\ file' = g
             /\ call' = next
             /\ UNCHANGED <<leftover, faults>>
    BY <2>1, <2>2
  <2>3. CASE /\ call' = Idle
             /\ UNCHANGED <<file, leftover, faults>>
    BY <2>1, <2>3
  <2>4. CASE /\ validate(g)
             /\ faults' = faults + 1
             /\ call' = Idle
             /\ \/ UNCHANGED file /\ leftover' \in BOOLEAN
                \/ file' = g /\ UNCHANGED leftover
    BY <2>1, <2>4
  <2> QED
    BY <2>2, <2>3, <2>4 DEF save
<1>2. /\ fleet \in [Operations -> RecordType] /\ chain \in Seq(Operations) /\ now \in Nat
      /\ sent \subseteq ProofType /\ IsFiniteSet(sent)
      /\ file = Nil \/ FileOK(file)
      /\ CallOK(file, fleet, call)
      /\ ChainInv(file, fleet, chain)
      /\ SavedInv(file, sent)
  BY DEF IInv, TypeInv
<1>3. IsFiniteSet(sent') /\ sent' \subseteq ProofType
  <2>1. CASE sent' = sent
    BY <1>2, <2>1
  <2>2. CASE \E proof \in ProofType \cap SavedBy(g) : sent' = sent \cup {proof}
    BY <1>2, <2>2, FS_AddElement
  <2> QED
    BY <2>1, <2>2
<1>4. CASE file' = file /\ call' = Idle /\ sent' = sent
  <2>1. TypeInv'
    BY <1>1, <1>2, <1>4 DEF TypeInv
  <2>2. CallOK(file', fleet', call')
    BY <1>4 DEF CallOK
  <2> QED
    BY <1>2, <1>4, <2>1, <2>2 DEF IInv
<1>5. CASE file' = g /\ FileOK(g) /\ call' \in {next, Idle}
  <2>1. TypeInv'
    BY <1>1, <1>2, <1>3, <1>5 DEF TypeInv
  <2>2. CallOK(file', fleet', call')
    BY <1>5 DEF CallOK
  <2>3. g # Nil
    BY NilAssumption DEF Saves
  <2>4. ChainInv(g, fleet, chain)
    BY <1>2, <1>5, <2>3 DEF ChainInv
  <2>5. SavedInv(g, sent)
    BY <1>2, <2>3 DEF SavedInv, Saves, Carries
  <2>6. SavedInv(g, sent')
    BY <2>5, <2>3 DEF SavedInv
  <2> QED
    BY <1>5, <2>1, <2>2, <2>4, <2>6 DEF IInv
<1>6. CASE validate(g) /\ file' = g /\ call' \in {next, Idle}
  <2>1. FileOK(g)
    BY <1>6, ValidIsGood DEF Saves
  <2> QED
    BY <1>5, <1>6, <2>1
<1>7. CASE file' = file /\ call' = Idle
  <2>1. CASE sent' = sent
    BY <1>4, <1>7, <2>1
  <2>2. CASE sent' # sent
    <3>1. file' = g
      BY <2>2
    <3>2. g # Nil
      BY NilAssumption DEF Saves
    <3>3. FileOK(g)
      BY <1>2, <1>7, <3>1, <3>2
    <3> QED
      BY <1>5, <1>7, <3>1, <3>3
  <2> QED
    BY <2>1, <2>2
<1> QED
  BY <1>1, <1>6, <1>7

\* The proofs of an entry are those of an entry of the file.
HeldIn(e, g) == \E d \in Held(g) : ProofsOf(e) \cap ProofType \subseteq ProofsOf(d)

\* A file carries the proofs of another if it does so entry by entry.
LEMMA CarriesEntries ==
    ASSUME NEW f, NEW g, \A e \in Held(f) : HeldIn(e, g)
    PROVE  Carries(f, g)
<1>1. ASSUME NEW proof \in SavedBy(f) \cap ProofType
      PROVE  proof \in SavedBy(g)
  <2>1. PICK e \in Held(f) : proof \in ProofsOf(e)
    BY DEF SavedBy
  <2>2. PICK d \in Held(g) : ProofsOf(e) \cap ProofType \subseteq ProofsOf(d)
    BY DEF HeldIn
  <2> QED
    BY <2>1, <2>2 DEF SavedBy
<1> QED
  BY <1>1 DEF Carries

\* The same operation with another phase, or with a proof that it did not have.
Updates(e, new) ==
    /\ new \in EntryType
    /\ new.op = e.op
    /\ e.proof \in {Nil, new.proof}
    /\ e.signature \in {Nil, new.signature}

\* Such an entry keeps its proofs.
LEMMA UpdatedProofs ==
    ASSUME NEW e, NEW new, Updates(e, new)
    PROVE  ProofsOf(e) \cap ProofType \subseteq ProofsOf(new)
<1>1. ASSUME NEW purpose
      PROVE  Proof(e.op, purpose, Nil) \notin ProofType
  BY NilAssumption DEF Proof, ProofType
<1> QED
  BY <1>1 DEF ProofsOf, Updates

\* g is f with another entry of the kind.
Replaces(f, g, kind, new) ==
    /\ g[kind] = new
    /\ \A other \in Kinds \ {kind} : g[other] = f[other]
    /\ g.history = f.history
    /\ g.start = f.start

\* A file with such an entry is one that may be saved.
LEMMA UpdatedFile ==
    ASSUME NEW f, FileOK(f), NEW kind \in Kinds, NEW new,
           f[kind] # Nil, Updates(f[kind], new),
           NEW g, g = [f EXCEPT ![kind] = new]
    PROVE  Saves(f, g) /\ Replaces(f, g, kind, new)
<1>1. f \in StateType /\ new \in EntryType /\ Named(f)
  BY DEF FileOK, Updates, Named
<1>2. g \in StateType /\ Replaces(f, g, kind, new)
  BY <1>1 DEF StateType, Kinds, Replaces
<1>3. Named(g)
  <2>1. new.op = f[kind].op
    BY DEF Updates
  <2>2. CASE kind = "enrollment"
    BY <1>1, <1>2, <2>1, <2>2 DEF Named, Kinds, Replaces
  <2>3. CASE kind = "renewal"
    BY <1>1, <1>2, <2>1, <2>3 DEF Named, Kinds, Replaces
  <2>4. CASE kind = "recovery"
    BY <1>1, <1>2, <2>1, <2>4 DEF Named, Kinds, Replaces
  <2> QED
    BY <2>2, <2>3, <2>4 DEF Kinds
<1>4. ASSUME NEW e \in Held(f)
      PROVE  HeldIn(e, g)
  <2>0. new \in Held(g)
    <3>1. new # Nil
      BY <1>1, NilAssumption
    <3> QED
      BY <1>2, <3>1 DEF Held, Kinds, Replaces
  <2>1. CASE e = f[kind]
    BY <2>0, <2>1, UpdatedProofs DEF HeldIn
  <2>2. CASE e # f[kind]
    <3>1. e \in Held(g)
      BY <1>2, <2>2 DEF Held, Kinds, Replaces
    <3> QED
      BY <3>1 DEF HeldIn
  <2> QED
    BY <2>1, <2>2
<1>5. Carries(f, g)
  BY <1>4, CarriesEntries
<1> QED
  BY <1>2, <1>3, <1>5 DEF Saves

-----------------------------------------------------------------------------
(***************************************************************************)
(* The file and Fleet's chain.                                             *)
(***************************************************************************)

\* At most one successor is under way.
LEMMA OneWaits ==
    ASSUME NEW f, FileOK(f), NEW a, NEW b, Waiting(f, a), Waiting(f, b)
    PROVE  a = b
BY DEF FileOK, Waiting, Active

\* What waits is a successor that Fleet knows.
LEMMA WaitingIsKnown ==
    ASSUME NEW f, NEW fl, FileOK(f), Known(f, fl), NEW a, Waiting(f, a)
    PROVE  a \in Renewals \cup Recoveries /\ a \in Operations /\ fl[a].state # "none"
BY DEF FileOK, Waiting, Known, Operations

\* A file with the same chain and the same successor under way.
LEMMA SameFollow ==
    ASSUME NEW f, NEW g, NEW fl, NEW ch, FollowOK(f, fl, ch),
           Local(g) = Local(f), Known(g, fl),
           \A operation \in Operations : Waiting(g, operation) <=> Waiting(f, operation)
    PROVE  FollowOK(g, fl, ch)
<1>1. ChainOK(g, fl, ch)
  BY DEF FollowOK, ChainOK
<1>2. VerifiedIsWaiting(g, fl)
  BY DEF FollowOK, VerifiedIsWaiting, Operations
<1> QED
  BY <1>1, <1>2 DEF FollowOK

\* A step of an operation that does not activate it.
LEMMA UpdatedFollow ==
    ASSUME NEW f, NEW g, NEW fl, NEW ch, FollowOK(f, fl, ch),
           NEW kind \in Kinds, NEW new, f[kind] # Nil, Updates(f[kind], new),
           Replaces(f, g, kind, new), Active(new) <=> Active(f[kind])
    PROVE  FollowOK(g, fl, ch)
<1>1. /\ g[kind] = new
      /\ \A other \in Kinds \ {kind} : g[other] = f[other]
      /\ g.history = f.history
      /\ g.start = f.start
      /\ new # Nil
      /\ new.op = f[kind].op
  BY NilAssumption DEF Updates, Replaces
<1>2. ASSUME NEW k \in Kinds
      PROVE  /\ g[k] = Nil <=> f[k] = Nil
             /\ Active(g[k]) <=> Active(f[k])
             /\ g[k].op = f[k].op
  <2>1. CASE k = kind
    BY <1>1, <2>1
  <2>2. CASE k # kind
    BY <1>1, <2>2
  <2> QED
    BY <2>1, <2>2
<1>3. /\ g.renewal = Nil <=> f.renewal = Nil
      /\ g.recovery = Nil <=> f.recovery = Nil
      /\ Active(g.renewal) <=> Active(f.renewal)
      /\ Active(g.recovery) <=> Active(f.recovery)
      /\ g.renewal.op = f.renewal.op
      /\ g.recovery.op = f.recovery.op
  BY <1>2 DEF Kinds
<1>4. Local(g) = Local(f)
  BY <1>1, <1>3, SameLocal
<1>5. Known(g, fl)
  BY <1>3 DEF FollowOK, Known
<1>6. \A operation \in Operations : Waiting(g, operation) <=> Waiting(f, operation)
  BY <1>3 DEF Waiting, Active
<1> QED
  BY <1>4, <1>5, <1>6, SameFollow

\* A successor that Fleet has activated becomes active here.
LEMMA CutoverFollow ==
    ASSUME NEW f, NEW g, NEW fl, NEW ch, FileOK(f), FileOK(g),
           FollowOK(f, fl, ch), FleetOK(fl, ch),
           NEW kind \in {"renewal", "recovery"}, NEW new, f[kind] # Nil,
           Updates(f[kind], new), Replaces(f, g, kind, new),
           Active(new), fl[f[kind].op].state = "active"
    PROVE  FollowOK(g, fl, ch)
<1>1. CASE Active(f[kind])
  BY <1>1, UpdatedFollow DEF Kinds
<1>2. CASE ~ Active(f[kind])
  <2> DEFINE operation == f[kind].op
  <2>1. /\ g[kind] = new
        /\ \A other \in Kinds \ {kind} : g[other] = f[other]
        /\ g.history = f.history
        /\ g.start = f.start
        /\ new.op = operation
    BY DEF Updates, Replaces
  <2>2. Waiting(f, operation)
    BY <1>2 DEF Waiting, Active
  <2>3. /\ operation \in Renewals \cup Recoveries
        /\ operation \in Operations
    BY <2>2, WaitingIsKnown DEF FollowOK
  <2>4. ch = Append(Local(f), operation)
    <3>1. ch # <<>>
      BY <2>3 DEF FleetOK
    <3>2. \A o \in Operations : Waiting(f, o) => o = operation
      BY <2>2, OneWaits
    <3> QED
      BY <2>2, <2>3, <3>1, <3>2 DEF FollowOK, ChainOK
  <2>5. Local(g) = Append(Local(f), operation)
    <3>1. CASE kind = "renewal"
      <4>1. g.recovery = f.recovery /\ Active(g.renewal) /\ g.renewal.op = operation
        BY <2>1, <3>1 DEF Kinds
      <4> QED
        BY <1>2, <2>1, <3>1, <4>1, RenewalCutover
    <3>2. CASE kind = "recovery"
      <4>1. g.renewal = f.renewal /\ Active(g.recovery) /\ g.recovery.op = operation
        BY <2>1, <3>2 DEF Kinds
      <4> QED
        BY <1>2, <2>1, <3>2, <4>1, RecoveryCutover
    <3> QED
      BY <3>1, <3>2
  <2>6. \A o : ~ Waiting(g, o)
    <3>1. CASE kind = "renewal"
      <4>1. g.recovery = f.recovery /\ Active(g.renewal)
        BY <2>1, <3>1 DEF Kinds
      <4>2. f.recovery = Nil \/ Active(f.recovery)
        BY <1>2, <3>1 DEF FileOK
      <4> QED
        BY <4>1, <4>2 DEF Waiting, Active
    <3>2. CASE kind = "recovery"
      <4>1. g.renewal = f.renewal /\ Active(g.recovery)
        BY <2>1, <3>2 DEF Kinds
      <4>2. f.renewal = Nil \/ Active(f.renewal)
        BY <1>2, <3>2 DEF FileOK
      <4> QED
        BY <4>1, <4>2 DEF Waiting, Active
    <3> QED
      BY <3>1, <3>2
  <2>7. ChainOK(g, fl, ch)
    BY <2>4, <2>5, <2>6 DEF ChainOK
  <2>8. VerifiedIsWaiting(g, fl)
    <3>1. ASSUME NEW o \in Renewals \cup Recoveries, fl[o].state = "verified"
          PROVE  FALSE
      <4>1. Waiting(f, o)
        BY <3>1 DEF FollowOK, VerifiedIsWaiting
      <4>2. o = operation
        BY <2>2, <4>1, OneWaits
      <4> QED
        BY <3>1, <4>2
    <3> QED
      BY <3>1 DEF VerifiedIsWaiting
  <2>9. Known(g, fl)
    <3>1. CASE kind = "renewal"
      <4>1. g.recovery = f.recovery /\ g.renewal.op = operation
        BY <2>1, <3>1 DEF Kinds
      <4> QED
        BY <4>1 DEF FollowOK, Known
    <3>2. CASE kind = "recovery"
      <4>1. g.renewal = f.renewal /\ g.recovery.op = operation
        BY <2>1, <3>2 DEF Kinds
      <4> QED
        BY <4>1 DEF FollowOK, Known
    <3> QED
      BY <3>1, <3>2
  <2> QED
    BY <2>7, <2>8, <2>9 DEF FollowOK
<1> QED
  BY <1>1, <1>2

\* A new successor starts when no other is under way.
LEMMA StartFollow ==
    ASSUME NEW f, NEW g, NEW fl, NEW ch, FollowOK(f, fl, ch), FleetOK(fl, ch),
           NEW operation \in Renewals \cup Recoveries,
           fl[operation].state = "awaiting_proof",
           \A o : ~ Waiting(f, o),
           \A o : Waiting(g, o) => o = operation,
           Local(g) = Local(f), Known(g, fl)
    PROVE  FollowOK(g, fl, ch)
<1>1. ch # <<>>
  BY DEF FleetOK
<1>2. ch = Local(f)
  BY <1>1 DEF FollowOK, ChainOK
<1>3. ChainOK(g, fl, ch)
  BY <1>2 DEF ChainOK
<1>4. VerifiedIsWaiting(g, fl)
  BY DEF FollowOK, VerifiedIsWaiting
<1> QED
  BY <1>3, <1>4 DEF FollowOK

-----------------------------------------------------------------------------
(***************************************************************************)
(* The steps of the commands that save.                                    *)
(***************************************************************************)

\* What the invariant says when there is a file.
LEMMA Facts ==
    ASSUME IInv, file # Nil
    PROVE  /\ FileOK(file)
           /\ FollowOK(file, fleet, chain)
           /\ FleetOK(fleet, chain)
           /\ CallOK(file, fleet, call)
           /\ now \in Nat
           /\ fleet \in [Operations -> RecordType]
BY DEF IInv, TypeInv, ChainInv

\* The step that the command is at says what it has in memory.
LEMMA CallAt ==
    ASSUME NEW f, NEW fl, NEW c, CallOK(f, fl, c)
    PROVE  /\ c.step = "self" => PreparingOK(f, fl, c)
           /\ c.step = "key_send" => KeySendOK(f, c)
           /\ c.step \in {"key_result", "installation"} => KeyResultOK(f, c)
           /\ c.step = "challenge" => ChallengeOK(f, c)
           /\ c.step = "send" => SendOK(f, c)
           /\ c.step = "retry" => RetryOK(f, fl, c)
           /\ c.step = "result" => ResultOK(f, fl, c)
           /\ c.step = "cutover" => CutoverOK(f, fl, c)
           /\ c.step = "trust" => TrustOK(f, c)
BY DEF CallOK, Idle, PreparingOK, KeySendOK, KeyResultOK, ChallengeOK, SendOK, RetryOK,
       ResultOK, CutoverOK, TrustOK

\* A signature is a number.
LEMMA SignType ==
    ASSUME IInv, NEW operation, NEW purpose
    PROVE  sign(operation, purpose) \in Nat
<1> DEFINE S == {proof \in sent : proof.op = operation /\ proof.purpose = purpose}
<1>1. IsFiniteSet(S)
  <2>1. IsFiniteSet(sent) /\ S \subseteq sent
    BY DEF IInv, TypeInv
  <2> QED
    BY <2>1, FS_Subset
<1>2. Cardinality(S) \in Nat
  BY <1>1, FS_CardinalityType
<1> QED
  BY <1>2 DEF sign

\* The entry of a kind, when it has a phase.
LEMMA EntryOf ==
    ASSUME NEW f, FileOK(f), NEW kind \in Kinds, f[kind] # Nil
    PROVE  f[kind] \in EntryType /\ EntryOK(f[kind])
BY NilAssumption DEF FileOK, StateType, Kinds

\* A save of one entry with another phase.
LEMMA EntrySaved ==
    ASSUME IInv, file # Nil, NEW kind \in Kinds, file[kind] # Nil,
           NEW new, Updates(file[kind], new), Active(new) <=> Active(file[kind]),
           NEW g, g = [file EXCEPT ![kind] = new],
           NEW next, save(g, next), UNCHANGED <<fleet, chain, now>>,
           FileOK(g) => CallOK(g, fleet, next),
           \/ sent' = sent
           \/ /\ file' = g
              /\ \E proof \in ProofType \cap SavedBy(g) : sent' = sent \cup {proof}
    PROVE  IInv'
<1>1. FileOK(file) /\ FollowOK(file, fleet, chain)
  BY Facts
<1>2. Saves(file, g) /\ Replaces(file, g, kind, new)
  BY <1>1, UpdatedFile
<1>3. FollowOK(g, fleet, chain)
  BY <1>1, <1>2, UpdatedFollow
<1> QED
  BY <1>2, <1>3, SaveStep

\* No command is good with any file.
LEMMA IdleIsGood ==
    ASSUME NEW f, NEW fl
    PROVE  CallOK(f, fl, Idle)
BY DEF CallOK

\* A save of one entry with another phase, that does not activate it.
LEMMA PhaseSaved ==
    ASSUME IInv, file # Nil, NEW kind \in Kinds, file[kind] # Nil,
           file[kind].phase # "active", NEW phase \in Phases \ {"active"},
           NEW g, g = [file EXCEPT ![kind] = [file[kind] EXCEPT !.phase = phase]],
           save(g, Idle), UNCHANGED <<fleet, chain, now, sent>>
    PROVE  IInv'
<1> DEFINE old == file[kind]
           new == [old EXCEPT !.phase = phase]
<1>1. old \in EntryType
  BY Facts, EntryOf
<1> HIDE DEF old
<1>2. Updates(old, new) /\ ~ Active(old) /\ ~ Active(new)
  BY <1>1 DEF Updates, EntryType, Active, old
<1> HIDE DEF new
<1>3. g = [file EXCEPT ![kind] = new]
  BY DEF new, old
<1> QED
  BY <1>2, <1>3, EntrySaved, IdleIsGood DEF old

\* Fleet's answer to the proof of the key is saved.
LEMMA RenewalApprovedSafe ==
    ASSUME IInv, RenewalApproved
    PROVE  IInv'
<1>1. KeyResultOK(file, call)
  BY CallAt DEF IInv, RenewalApproved, At
<1>2. /\ file # Nil /\ call.kind = "renewal" /\ file["renewal"] # Nil
      /\ file["renewal"].phase # "active"
  BY <1>1 DEF KeyResultOK, WorksOn
<1> DEFINE g == [file EXCEPT !["renewal"] = [file["renewal"] EXCEPT !.phase = "approved"]]
<1>3. save(g, Idle) /\ UNCHANGED <<fleet, chain, now, sent>>
  BY <1>2 DEF RenewalApproved, saveInstallation, fleetVars
<1> QED
  BY <1>2, <1>3, PhaseSaved DEF Kinds, Phases

\* The certificate of a renewal is installed.
LEMMA RenewalInstalledSafe ==
    ASSUME IInv, RenewalInstalled
    PROVE  IInv'
<1>1. KeyResultOK(file, call)
  BY CallAt DEF IInv, RenewalInstalled, At
<1>2. /\ file # Nil /\ call.kind = "renewal" /\ file["renewal"] # Nil
      /\ file["renewal"].phase # "active"
  BY <1>1 DEF KeyResultOK, WorksOn
<1> DEFINE g == [file EXCEPT !["renewal"] = [file["renewal"] EXCEPT !.phase = "installed"]]
<1>3. save(g, Idle) /\ UNCHANGED <<fleet, chain, now, sent>>
  BY <1>2 DEF RenewalInstalled, saveInstallation, fleetVars
<1> QED
  BY <1>2, <1>3, PhaseSaved DEF Kinds, Phases

\* The certificate of the enrollment is installed.
LEMMA InstallSafe ==
    ASSUME IInv, Install
    PROVE  IInv'
<1>1. /\ file # Nil /\ file["enrollment"] # Nil
      /\ file["enrollment"].phase # "active"
  BY DEF Install, Phase
<1> DEFINE g == [file EXCEPT !["enrollment"] = [file["enrollment"] EXCEPT !.phase = "installed"]]
<1>2. save(g, Idle) /\ UNCHANGED <<fleet, chain, now, sent>>
  BY DEF Install, fleetVars
<1> QED
  BY <1>1, <1>2, PhaseSaved DEF Kinds, Phases

\* The certificate of a recovery is installed.
LEMMA InstallRecoverySafe ==
    ASSUME IInv, InstallRecovery
    PROVE  IInv'
<1>1. /\ file # Nil /\ file["recovery"] # Nil
      /\ file["recovery"].phase # "active"
  BY DEF InstallRecovery, Phase
<1> DEFINE g == [file EXCEPT !["recovery"] = [file["recovery"] EXCEPT !.phase = "installed"]]
<1>2. save(g, Idle) /\ UNCHANGED <<fleet, chain, now, sent>>
  BY DEF InstallRecovery, fleetVars
<1> QED
  BY <1>1, <1>2, PhaseSaved DEF Kinds, Phases

\* The proof of the enrollment is recorded.
LEMMA ReconcileSafe ==
    ASSUME IInv, Reconcile
    PROVE  IInv'
<1>1. ResultOK(file, fleet, call)
  BY CallAt DEF IInv, Reconcile, At
<1>2. file # Nil /\ call.kind = "enrollment" /\ file["enrollment"] # Nil
  BY <1>1 DEF ResultOK, WorksOn, Reconcile
<1>3. file["enrollment"].phase # "active"
  BY <1>2, Facts DEF FileOK
<1> DEFINE g == [file EXCEPT !["enrollment"] = [file["enrollment"] EXCEPT !.phase = "verified"]]
<1>4. save(g, Idle) /\ UNCHANGED <<fleet, chain, now, sent>>
  BY <1>2 DEF Reconcile, saveInstallation, fleetVars
<1> QED
  BY <1>2, <1>3, <1>4, PhaseSaved DEF Kinds, Phases

\* The proof of a successor is recorded.  The answer cannot say so of one that
\* is active here.
LEMMA ResultVerifiedSafe ==
    ASSUME IInv, ResultVerified
    PROVE  IInv'
<1>1. ResultOK(file, fleet, call)
  BY CallAt DEF IInv, ResultVerified, At
<1> DEFINE kind == call.kind
<1>2. file # Nil /\ kind \in Kinds /\ file[kind] # Nil
  BY <1>1 DEF ResultOK, WorksOn
<1>3. file[kind].phase # "active"
  BY <1>1 DEF ResultOK, ReplyOK, ResultVerified
<1> DEFINE g == [file EXCEPT ![kind] = [file[kind] EXCEPT !.phase = "verified"]]
<1>4. save(g, Idle) /\ UNCHANGED <<fleet, chain, now, sent>>
  BY DEF ResultVerified, saveInstallation, fleetVars
<1> HIDE DEF kind
<1> QED
  BY <1>2, <1>3, <1>4, PhaseSaved DEF Phases

\* The proof made with the installed certificate is saved before it is sent.
LEMMA ProofSignedSafe ==
    ASSUME IInv, ProofSigned
    PROVE  IInv'
<1>1. ChallengeOK(file, call)
  BY CallAt DEF IInv, ProofSigned, At
<1> DEFINE kind == call.kind
           old == file[kind]
           signature == sign(call.op, "installed")
           new == [old EXCEPT !.challenge = call.reply.challenge,
                              !.signature = signature,
                              !.phase = "proof_submitted"]
           g == [file EXCEPT ![kind] = new]
           next == Goto("send", Nil)
<1>2. /\ file # Nil /\ kind \in Kinds /\ old # Nil /\ old.phase = "installed"
      /\ call.op = old.op
      /\ call \in [step : {"challenge"}, kind : Kinds, op : Operations, reply : RecordType]
  BY <1>1 DEF ChallengeOK, WorksOn
<1>3. old \in EntryType /\ EntryOK(old)
  BY <1>2, Facts, EntryOf
<1>4. signature \in Nat
  BY SignType
<1>5. call.reply.challenge \in Nat \cup {Nil}
  BY <1>2 DEF RecordType
<1>6. save(g, next) /\ UNCHANGED <<fleet, chain, now, sent>>
  BY DEF ProofSigned, saveInstallation, fleetVars
<1>7. next \in [step : {"send"}, kind : Kinds, op : Operations, reply : {Nil}]
      /\ next.kind = kind /\ next.op = call.op
  BY <1>2 DEF Goto
<1> HIDE DEF old, signature, kind, next
<1>8. /\ Updates(old, new) /\ ~ Active(old) /\ ~ Active(new)
      /\ new.phase = "proof_submitted" /\ new.op = old.op /\ new \in EntryType
  BY <1>2, <1>3, <1>4, <1>5 DEF Updates, EntryType, Phases, Active, EntryOK
<1> HIDE DEF new
<1>9. CallOK(g, fleet, next)
  <2>1. FileOK(file)
    BY <1>2, Facts
  <2>2. Saves(file, g) /\ Replaces(file, g, kind, new)
    BY <1>2, <1>8, <2>1, UpdatedFile DEF old
  <2> HIDE DEF g
  <2>3. g # Nil /\ g[kind] = new /\ new # Nil
    BY <1>8, <2>2, NilAssumption DEF Saves, Replaces
  <2>4. WorksOn(g, next, {"proof_submitted"})
    BY <1>2, <1>7, <1>8, <2>3 DEF WorksOn
  <2> QED
    BY <1>7, <2>4 DEF CallOK, SendOK
<1>10. g = [file EXCEPT ![kind] = new]
  OBVIOUS
<1> HIDE DEF g
<1> QED
  BY <1>2, <1>6, <1>8, <1>9, <1>10, EntrySaved DEF old

\* The cutover that Fleet has confirmed.
LEMMA CutoverConfirmedSafe ==
    ASSUME IInv, CutoverConfirmed
    PROVE  IInv'
<1>1. CutoverOK(file, fleet, call)
  BY CallAt DEF IInv, CutoverConfirmed, At
<1> DEFINE kind == call.kind
           old == file[kind]
           new == [old EXCEPT !.phase = "active"]
           g == [file EXCEPT ![kind] = new]
<1>2. /\ file # Nil /\ kind \in {"renewal", "recovery"} /\ kind \in Kinds /\ old # Nil
      /\ fleet[old.op].state = "active"
  BY <1>1 DEF CutoverOK, WorksOn
<1>3. /\ FileOK(file) /\ FollowOK(file, fleet, chain) /\ FleetOK(fleet, chain)
  BY <1>2, Facts
<1>4. old \in EntryType
  BY <1>2, <1>3, EntryOf
<1>5. save(g, Idle) /\ UNCHANGED <<fleet, chain, now, sent>>
  BY DEF CutoverConfirmed, saveInstallation, fleetVars
<1> HIDE DEF old, kind
<1>6. Updates(old, new) /\ Active(new)
  BY <1>4, NilAssumption DEF Updates, EntryType, Phases, Active
<1> HIDE DEF new
<1>7. Saves(file, g) /\ Replaces(file, g, kind, new)
  BY <1>2, <1>3, <1>6, UpdatedFile DEF old
<1> HIDE DEF g
<1>8. FileOK(g) => FollowOK(g, fleet, chain)
  BY <1>2, <1>3, <1>6, <1>7, CutoverFollow DEF old
<1> QED
  BY <1>5, <1>7, <1>8, SaveStep, IdleIsGood

\* A trust continuation changes no credential.
LEMMA TrustContinuedSafe ==
    ASSUME IInv, TrustContinued
    PROVE  IInv'
<1>1. TrustOK(file, call)
  BY CallAt DEF IInv, TrustContinued, At
<1>2. file # Nil /\ call.reply.issuer \in Nat
  BY <1>1 DEF TrustOK
<1>3. FileOK(file) /\ FollowOK(file, fleet, chain)
  BY <1>2, Facts
<1> DEFINE g == [file EXCEPT !.trust = Append(@, call.reply.issuer)]
<1>4. save(g, Idle) /\ UNCHANGED <<fleet, chain, now, sent>>
  BY DEF TrustContinued, fleetVars
<1>5. /\ g \in StateType
      /\ g.enrollment = file.enrollment /\ g.renewal = file.renewal
      /\ g.recovery = file.recovery /\ g.history = file.history /\ g.start = file.start
  <2>1. file \in StateType /\ file.trust \in Seq(Nat)
    BY <1>3 DEF FileOK, StateType
  <2>2. Append(file.trust, call.reply.issuer) \in Seq(Nat)
    BY <1>2, <2>1
  <2> QED
    BY <2>1, <2>2 DEF StateType
<1> HIDE DEF g
<1>6. Saves(file, g)
  <2>1. Named(g)
    BY <1>3, <1>5 DEF Named, FileOK
  <2>2. Carries(file, g)
    BY <1>5 DEF Carries, SavedBy, Held
  <2> QED
    BY <1>5, <2>1, <2>2 DEF Saves
<1>7. FollowOK(g, fleet, chain)
  <2>1. Local(g) = Local(file)
    BY <1>5, SameLocal
  <2>2. Known(g, fleet)
    BY <1>3, <1>5 DEF FollowOK, Known
  <2>3. \A operation \in Operations : Waiting(g, operation) <=> Waiting(file, operation)
    BY <1>5 DEF Waiting
  <2> QED
    BY <1>3, <2>1, <2>2, <2>3, SameFollow
<1> QED
  BY <1>4, <1>6, <1>7, SaveStep, IdleIsGood

\* A printed proof is one of the file that has been saved.
LEMMA PrintedIsSaved ==
    ASSUME NEW g, NEW e, e \in Held(g), NEW operation \in Operations, e.op = operation,
           NEW signature \in Nat, e.proof = signature, NEW next, save(g, next),
           Printed(operation, signature)
    PROVE  \/ sent' = sent
           \/ /\ file' = g
              /\ \E proof \in ProofType \cap SavedBy(g) : sent' = sent \cup {proof}
<1> DEFINE proof == Proof(operation, "key", signature)
<1>1. proof \in ProofType
  BY DEF ProofType, Proof
<1>2. proof \in SavedBy(g)
  BY DEF SavedBy, ProofsOf
<1> HIDE DEF proof
<1>3. CASE file' # file /\ faults' = faults
  <2>1. file' = g
    BY <1>3 DEF save
  <2>2. sent' = sent \cup {proof}
    BY <1>3 DEF Printed, proof
  <2> QED
    BY <1>1, <1>2, <2>1, <2>2
<1>4. CASE ~ (file' # file /\ faults' = faults)
  BY <1>4 DEF Printed
<1> QED
  BY <1>3, <1>4

\* The proof of the enrollment's key is saved before it is printed.
LEMMA BootstrapSafe ==
    ASSUME IInv, Bootstrap
    PROVE  IInv'
<1> DEFINE old == file["enrollment"]
           signature == sign(Enrollment, "key")
           new == [old EXCEPT !.phase = "bootstrap_proved", !.proof = signature]
           g == [file EXCEPT !["enrollment"] = new]
<1>1. file # Nil /\ old # Nil /\ old.phase = "initialized"
  BY DEF Bootstrap, Phase
<1>2. /\ FileOK(file) /\ old \in EntryType /\ EntryOK(old)
      /\ old.op = Enrollment /\ old.proof = Nil
  <2>1. FileOK(file)
    BY <1>1, Facts
  <2>2. old \in EntryType /\ EntryOK(old)
    BY <1>1, <2>1, EntryOf DEF Kinds
  <2> QED
    BY <1>1, <2>1, <2>2 DEF FileOK
<1>3. signature \in Nat
  BY SignType
<1>4. /\ save(g, Idle)
      /\ Printed(Enrollment, signature)
      /\ UNCHANGED <<fleet, chain, now>>
  <2>1. [file EXCEPT !.enrollment.phase = "bootstrap_proved",
                     !.enrollment.proof = sign(Enrollment, "key")] = g
    BY <1>2 DEF FileOK, StateType, EntryType
  <2> QED
    BY <2>1 DEF Bootstrap, fleetVars
<1> HIDE DEF old, signature
<1>5. /\ Updates(old, new) /\ ~ Active(old) /\ ~ Active(new)
      /\ new \in EntryType /\ new.op = Enrollment /\ new.proof = signature
  BY <1>1, <1>2, <1>3 DEF Updates, EntryType, Phases, Active, EntryOK
<1> HIDE DEF new
<1>6. Saves(file, g) /\ Replaces(file, g, "enrollment", new)
  BY <1>1, <1>2, <1>5, UpdatedFile DEF old, Kinds
<1>7. g = [file EXCEPT !["enrollment"] = new]
  OBVIOUS
<1> HIDE DEF g
<1>8. new \in Held(g)
  BY <1>5, <1>6, NilAssumption DEF Held, Replaces
<1>9. \/ sent' = sent
      \/ /\ file' = g
         /\ \E proof \in ProofType \cap SavedBy(g) : sent' = sent \cup {proof}
  <2>1. Enrollment \in Operations
    BY DEF Operations
  <2> QED
    BY <1>3, <1>4, <1>5, <1>8, <2>1, PrintedIsSaved
<1> QED
  BY <1>1, <1>4, <1>5, <1>7, <1>9, EntrySaved, IdleIsGood DEF old, Kinds

\* The proof of a recovery's key is saved before it is printed.
LEMMA PrepareRecoverySafe ==
    ASSUME IInv, NEW operation \in Recoveries, PrepareRecovery(operation)
    PROVE  IInv'
<1> DEFINE signature == sign(operation, "key")
           new == [Entry(operation, "proof_prepared") EXCEPT !.proof = signature]
           g == [file EXCEPT !.recovery = new]
<1>1. file # Nil /\ file.recovery = Nil /\ fleet[operation].state = "awaiting_proof"
  BY DEF PrepareRecovery, Phase
<1>2. /\ FileOK(file) /\ FollowOK(file, fleet, chain) /\ FleetOK(fleet, chain)
      /\ now \in Nat
  BY <1>1, Facts
<1>3. file.renewal = Nil \/ Active(file.renewal)
  BY DEF PrepareRecovery, validateRecovery, Active
<1>4. signature \in Nat
  BY SignType
<1>5. /\ save(g, Idle)
      /\ Printed(operation, signature)
      /\ UNCHANGED <<fleet, chain, now>>
  BY DEF PrepareRecovery, fleetVars
<1> HIDE DEF signature
<1>6. /\ new \in EntryType /\ new.op = operation /\ new.proof = signature
      /\ ~ Active(new)
  BY <1>2, <1>4, NilAssumption DEF Entry, EntryType, Phases, Active, Operations
<1> HIDE DEF new
<1>7. /\ g \in StateType /\ g.recovery = new
      /\ g.enrollment = file.enrollment /\ g.renewal = file.renewal
      /\ g.history = file.history /\ g.start = file.start
  BY <1>2, <1>6 DEF FileOK, StateType
<1> HIDE DEF g
<1>8. Saves(file, g)
  <2>1. Named(g)
    BY <1>2, <1>6, <1>7 DEF Named, FileOK
  <2>2. Held(file) \subseteq Held(g)
    BY <1>1, <1>7 DEF Held
  <2>3. Carries(file, g)
    BY <2>2 DEF Carries, SavedBy
  <2> QED
    BY <1>7, <2>1, <2>3 DEF Saves
<1>9. FollowOK(g, fleet, chain)
  <2>1. Local(g) = Local(file)
    BY <1>1, <1>6, <1>7, SameLocal DEF Active
  <2>2. Known(g, fleet)
    BY <1>1, <1>2, <1>6, <1>7 DEF FollowOK, Known
  <2>3. \A o : ~ Waiting(file, o)
    BY <1>1, <1>3 DEF Waiting, Active
  <2>4. \A o : Waiting(g, o) => o = operation
    BY <1>3, <1>6, <1>7 DEF Waiting, Active
  <2> QED
    BY <1>1, <1>2, <2>1, <2>2, <2>3, <2>4, StartFollow
<1>10. new \in Held(g)
  BY <1>6, <1>7, NilAssumption DEF Held
<1>11. \/ sent' = sent
       \/ /\ file' = g
          /\ \E proof \in ProofType \cap SavedBy(g) : sent' = sent \cup {proof}
  BY <1>4, <1>5, <1>6, <1>10, PrintedIsSaved DEF Operations
<1> QED
  BY <1>5, <1>8, <1>9, <1>11, SaveStep, IdleIsGood

\* A renewal is prepared: the completed one is archived, and the proof of the key
\* is saved before it is sent.
LEMMA RenewalPreparedSafe ==
    ASSUME IInv, RenewalPrepared
    PROVE  IInv'
<1>1. PreparingOK(file, fleet, call)
  BY CallAt DEF IInv, RenewalPrepared, At
<1> DEFINE operation == call.op
           new == [Entry(operation, "prepared") EXCEPT !.proof = sign(operation, "key")]
           g == [Archived(file) EXCEPT !.renewal = new]
           next == Goto("key_send", Nil)
<1>2. /\ file # Nil /\ operation \in Renewals
      /\ fleet[operation].state = "awaiting_proof"
      /\ file.renewal = Nil \/ Active(file.renewal)
      /\ file.recovery = Nil \/ Active(file.recovery)
      /\ call \in [step : {"self"}, kind : {"renewal"}, op : Renewals, reply : Operations]
  BY <1>1 DEF PreparingOK
<1>3. /\ FileOK(file) /\ FollowOK(file, fleet, chain) /\ FleetOK(fleet, chain)
      /\ now \in Nat
  BY <1>2, Facts
<1>4. save(g, next) /\ UNCHANGED <<fleet, chain, now, sent>>
  BY DEF RenewalPrepared, fleetVars
<1>5. /\ next \in [step : {"key_send"}, kind : {"renewal"}, op : Renewals, reply : {Nil}]
      /\ next.kind = "renewal" /\ next.op = operation
  BY <1>2 DEF Goto
<1>6. /\ new \in EntryType /\ new.op = operation /\ new.phase = "prepared"
      /\ new # Nil /\ ~ Active(new)
  <2>1. sign(operation, "key") \in Nat
    BY SignType
  <2> HIDE DEF operation
  <2> QED
    BY <1>2, <1>3, <2>1, NilAssumption DEF Entry, EntryType, Phases, Active, Operations
<1> HIDE DEF new, next, operation
<1> DEFINE a == Archived(file)
<1>7. /\ a \in StateType /\ a.enrollment = file.enrollment /\ a.recovery = file.recovery
      /\ a.history = IF file.renewal = Nil THEN file.history
                     ELSE Append(file.history, file.renewal)
  <2> DEFINE history == IF file.renewal = Nil THEN file.history
                        ELSE Append(file.history, file.renewal)
  <2>1. file \in StateType /\ file.history \in Seq(EntryType) /\ file.start \in Nat \cup {Nil}
        /\ (file.renewal # Nil => file.renewal \in EntryType)
    BY <1>3 DEF FileOK, StateType
  <2>2. history \in Seq(EntryType) /\ Len(history) \in Nat
    BY <2>1
  <2>3. a = [file EXCEPT !.history = history, !.renewal = Nil,
                         !.start = IF file.recovery # Nil /\ file.start = Nil
                                   THEN Len(history) ELSE file.start]
    BY DEF Archived
  <2> HIDE DEF history, a
  <2>4. a \in StateType /\ a.enrollment = file.enrollment /\ a.recovery = file.recovery
        /\ a.history = history
    BY <2>1, <2>2, <2>3 DEF StateType
  <2> QED
    BY <2>4 DEF history
<1>8. /\ g \in StateType /\ g.renewal = new
      /\ g.enrollment = file.enrollment /\ g.recovery = file.recovery
      /\ g.history = a.history /\ g.start = a.start
  <2> HIDE DEF a
  <2>1. g = [a EXCEPT !.renewal = new]
    BY DEF a
  <2> HIDE DEF g
  <2> QED
    BY <1>6, <1>7, <2>1 DEF StateType
<1> HIDE DEF g
<1>9. Saves(file, g)
  <2>1. Named(g)
    <3>1. /\ file.history \in Seq(EntryType)
          /\ \A i \in 1 .. Len(file.history) : file.history[i].op \in Renewals
          /\ file.renewal # Nil => file.renewal \in EntryType /\ file.renewal.op \in Renewals
      BY <1>3 DEF FileOK, StateType
    <3>2. \A i \in 1 .. Len(g.history) : g.history[i].op \in Renewals
      <4> HIDE DEF a
      <4>1. CASE file.renewal = Nil
        BY <1>7, <1>8, <3>1, <4>1
      <4>2. CASE file.renewal # Nil
        <5>1. g.history = Append(file.history, file.renewal)
          BY <1>7, <1>8, <4>2
        <5> QED
          BY <3>1, <4>2, <5>1
      <4> QED
        BY <4>1, <4>2
    <3> QED
      BY <1>2, <1>3, <1>6, <1>8, <3>2 DEF Named, FileOK
  <2>2. ASSUME NEW e \in Held(file)
        PROVE  e \in Held(g)
    <3>1. CASE e \in {file.enrollment, file.recovery} \ {Nil}
      BY <1>8, <3>1 DEF Held
    <3>2. CASE \E i \in 1 .. Len(file.history) : e = file.history[i]
      <4>1. PICK i \in 1 .. Len(file.history) : e = file.history[i]
        BY <3>2
      <4>2. file.history \in Seq(EntryType)
            /\ (file.renewal # Nil => file.renewal \in EntryType)
        BY <1>3 DEF FileOK, StateType
      <4>3. i \in 1 .. Len(g.history) /\ g.history[i] = e
        <5>1. CASE file.renewal = Nil
          BY <1>7, <1>8, <4>1, <5>1
        <5>2. CASE file.renewal # Nil
          <6> HIDE DEF a
          <6>1. g.history = Append(file.history, file.renewal)
            BY <1>7, <1>8, <5>2
          <6> QED
            BY <4>1, <4>2, <5>2, <6>1
        <5> QED
          BY <5>1, <5>2
      <4> QED
        BY <4>3 DEF Held
    <3>3. CASE e = file.renewal /\ file.renewal # Nil
      <4>1. file.history \in Seq(EntryType) /\ file.renewal \in EntryType
        BY <1>3, <3>3 DEF FileOK, StateType
      <4>2. g.history = Append(file.history, file.renewal)
        <5> HIDE DEF a
        <5> QED
          BY <1>7, <1>8, <3>3
      <4>3. Len(g.history) \in 1 .. Len(g.history) /\ g.history[Len(g.history)] = e
        BY <3>3, <4>1, <4>2
      <4> QED
        BY <4>3 DEF Held
    <3> QED
      BY <3>1, <3>2, <3>3 DEF Held
  <2>3. Carries(file, g)
    BY <2>2 DEF Carries, SavedBy
  <2> QED
    BY <1>8, <2>1, <2>3 DEF Saves
<1>10. ASSUME FileOK(g)
       PROVE  FollowOK(g, fleet, chain)
  <2>1. Local(g) = Local(file)
    BY <1>2, <1>3, <1>6, <1>8, <1>10, ArchivedLocal
  <2>2. Known(g, fleet)
    BY <1>2, <1>3, <1>6, <1>8 DEF FollowOK, Known
  <2>3. \A o : ~ Waiting(file, o)
    BY <1>2 DEF Waiting, Active
  <2>4. \A o : Waiting(g, o) => o = operation
    BY <1>2, <1>6, <1>8 DEF Waiting, Active
  <2> QED
    BY <1>2, <1>3, <2>1, <2>2, <2>3, <2>4, StartFollow
<1>11. CallOK(g, fleet, next)
  <2>1. g # Nil /\ g["renewal"] = new
    BY <1>8, NilAssumption
  <2>2. WorksOn(g, next, {"prepared"})
    BY <1>5, <1>6, <2>1 DEF WorksOn, Kinds
  <2> QED
    BY <1>5, <2>2 DEF CallOK, KeySendOK
<1> QED
  BY <1>4, <1>9, <1>10, <1>11, SaveStep

\* The first file holds no proof and no successor.
LEMMA InitializeSafe ==
    ASSUME IInv, Initialize
    PROVE  IInv'
<1> DEFINE e == Entry(Enrollment, "initialized")
           g == [enrollment |-> e, renewal |-> Nil, history |-> <<>>, recovery |-> Nil,
                 start |-> Nil, trust |-> <<>>]
<1>1. file = Nil /\ save(g, Idle) /\ UNCHANGED <<fleet, chain, now, sent>>
  BY DEF Initialize, fleetVars
<1>2. /\ now \in Nat /\ chain = <<>>
      /\ \A operation \in Operations : fleet[operation].state = "none"
  BY <1>1 DEF IInv, TypeInv, ChainInv
<1>3. e \in EntryType /\ e.op = Enrollment
  BY <1>2 DEF Entry, EntryType, Phases, Operations
<1> HIDE DEF e
<1>4. /\ g \in StateType /\ g.enrollment = e /\ g.renewal = Nil /\ g.recovery = Nil
      /\ g.history = <<>> /\ g.start = Nil
  BY <1>3 DEF StateType
<1> HIDE DEF g
<1>5. Saves(file, g)
  BY <1>1, <1>3, <1>4 DEF Saves, Named
<1>6. ASSUME FileOK(g)
      PROVE  FollowOK(g, fleet, chain)
  <2>1. Local(g) = <<Enrollment>>
    <3>1. Renewed(g) = Archive(g) /\ Archive(g) \in Seq(Operations) /\ Len(Archive(g)) = 0
      BY <1>4, <1>6, RenewedParts DEF Active
    <3>2. Renewed(g) = <<>>
      BY <3>1, EmptySeq
    <3>3. Recovered(g) = <<>>
      BY <1>4 DEF Recovered, Active
    <3>4. Successors(g) = <<>>
      <4>1. <<>> \in Seq(Operations) /\ 0 \in 0 .. Len(<<>>) /\ Place(g) = 0
        BY <1>4, <3>2 DEF Place
      <4> QED
        BY <3>2, <3>3, <4>1, InsertedNothing DEF Successors
    <3>5. <<Enrollment>> \in Seq(Operations)
      BY DEF Operations
    <3> QED
      BY <3>4, <3>5, ConcatEmptySeq DEF Local
  <2>2. Known(g, fleet)
    BY <1>4 DEF Known, Active
  <2>3. ChainOK(g, fleet, chain)
    BY <1>2, <2>1 DEF ChainOK
  <2>4. VerifiedIsWaiting(g, fleet)
    BY <1>2 DEF VerifiedIsWaiting, Operations
  <2> QED
    BY <2>2, <2>3, <2>4 DEF FollowOK
<1> QED
  BY <1>1, <1>5, <1>6, SaveStep, IdleIsGood

-----------------------------------------------------------------------------
(***************************************************************************)
(* The steps of the commands that change the command only.                 *)
(***************************************************************************)

\* A command goes on or ends with what the invariant says of it.
LEMMA CallStep ==
    ASSUME IInv, UNCHANGED <<file, leftover, sent, fleet, chain, now>>,
           faults' \in Nat, CallOK(file, fleet, call')
    PROVE  IInv'
<1>1. TypeInv'
  BY DEF IInv, TypeInv
<1> QED
  BY <1>1 DEF IInv

\* The request for the approval of a renewal.
LEMMA PrepareRenewalSafe ==
    ASSUME IInv, NEW operation \in Renewals, PrepareRenewal(operation)
    PROVE  IInv'
<1>1. file # Nil /\ fleet[operation].state = "awaiting_proof"
  BY DEF PrepareRenewal, Phase
<1>2. /\ file.renewal = Nil \/ Active(file.renewal)
      /\ file.recovery = Nil \/ Active(file.recovery)
  <2>1. file["renewal"] = file.renewal /\ file["recovery"] = file.recovery
    OBVIOUS
  <2>2. Phase("renewal") \in {"none", "active"} /\ Phase("recovery") \in {"none", "active"}
    BY DEF PrepareRenewal
  <2>3. FileOK(file)
    BY <1>1, Facts
  <2>4. /\ file.renewal # Nil => file.renewal.phase \in Phases
        /\ file.recovery # Nil => file.recovery.phase \in Phases
    BY <2>3 DEF FileOK, StateType, EntryType
  <2> QED
    BY <1>1, <2>1, <2>2, <2>4 DEF Phase, Active, Phases
<1>3. requestKey(file) \in Operations
  <2>1. chain # <<>> /\ Last(chain) = requestKey(file) /\ chain \in Seq(Operations)
    BY DEF PrepareRenewal, Current, IInv, TypeInv
  <2>2. Len(chain) \in 1 .. Len(chain)
    BY <2>1, EmptySeq
  <2> QED
    BY <2>1, <2>2, ElementOfSeq DEF Last
<1>4. call' = Runs("renewal", operation, "self", requestKey(file))
      /\ UNCHANGED <<file, leftover, sent, fleet, chain, now, faults>>
  BY DEF PrepareRenewal, deviceVars, fleetVars
<1>5. call' \in [step : {"self"}, kind : {"renewal"}, op : Renewals, reply : Operations]
      /\ call'.op = operation
  BY <1>3, <1>4 DEF Runs
<1>6. CallOK(file, fleet, call')
  BY <1>1, <1>2, <1>5 DEF CallOK, PreparingOK
<1>7. faults' \in Nat
  BY <1>4 DEF IInv, TypeInv
<1> QED
  BY <1>4, <1>6, <1>7, CallStep

\* The saved proof of a renewal's key is sent again.
LEMMA RetryRenewalProofSafe ==
    ASSUME IInv, RetryRenewalProof
    PROVE  IInv'
<1>1. file # Nil /\ file["renewal"] # Nil /\ file["renewal"].phase = "prepared"
  BY DEF RetryRenewalProof, Phase
<1>2. file["renewal"].op \in Renewals
  BY <1>1, Facts DEF FileOK
<1>3. call' = Runs("renewal", file["renewal"].op, "key_send", Nil)
      /\ UNCHANGED <<file, leftover, sent, fleet, chain, now, faults>>
  BY DEF RetryRenewalProof, deviceVars, fleetVars
<1>4. call' \in [step : {"key_send"}, kind : {"renewal"}, op : Renewals, reply : {Nil}]
      /\ call'.op = file["renewal"].op
  BY <1>2, <1>3 DEF Runs
<1>5. CallOK(file, fleet, call')
  BY <1>1, <1>4 DEF CallOK, KeySendOK, WorksOn, Kinds
<1>6. faults' \in Nat
  BY <1>3 DEF IInv, TypeInv
<1> QED
  BY <1>3, <1>5, <1>6, CallStep

\* The certificate of a renewal is asked for.
LEMMA InstallRenewalSafe ==
    ASSUME IInv, InstallRenewal
    PROVE  IInv'
<1>1. file # Nil /\ file["renewal"] # Nil /\ file["renewal"].phase = "approved"
  BY DEF InstallRenewal, Phase
<1>2. file["renewal"].op \in Renewals /\ fleet \in [Operations -> RecordType]
  BY <1>1, Facts DEF FileOK
<1>3. call' = Runs("renewal", file["renewal"].op, "installation", fleet[file["renewal"].op])
      /\ UNCHANGED <<file, leftover, sent, fleet, chain, now, faults>>
  BY DEF InstallRenewal, deviceVars, fleetVars
<1>4. fleet[file["renewal"].op] \in RecordType
  BY <1>2 DEF Operations
<1>5. call' \in [step : {"key_result", "installation"}, kind : {"renewal"},
                 op : Renewals, reply : RecordType]
      /\ call'.op = file["renewal"].op
  BY <1>2, <1>3, <1>4 DEF Runs
<1>6. CallOK(file, fleet, call')
  BY <1>1, <1>5 DEF CallOK, KeyResultOK, WorksOn, Kinds
<1>7. faults' \in Nat
  BY <1>3 DEF IInv, TypeInv
<1> QED
  BY <1>3, <1>6, <1>7, CallStep

\* A file knows only operations that are active at Fleet as active.
LEMMA ActiveIsActive ==
    ASSUME NEW f, NEW fl, FileOK(f), Known(f, fl), NEW kind \in Kinds, f[kind] # Nil,
           f[kind].phase = "active"
    PROVE  fl[f[kind].op].state = "active"
BY DEF FileOK, Known, Kinds, Active

\* The state of an operation is read, to finish it or to send its proof again.
LEMMA ReadSafe ==
    ASSUME IInv, NEW kind \in Kinds, ReconcileInstalled(kind) \/ RetryInstalled(kind)
    PROVE  IInv'
<1>1. file # Nil /\ file[kind] # Nil
  <2>1. Phase(kind) # "none"
    BY DEF ReconcileInstalled, RetryInstalled
  <2> QED
    BY <2>1 DEF Phase
<1> DEFINE e == file[kind]
<1>2. /\ FileOK(file) /\ e \in EntryType /\ fleet \in [Operations -> RecordType]
      /\ Known(file, fleet)
  BY <1>1, Facts, EntryOf DEF FollowOK
<1>3. fleet[e.op] \in RecordType /\ e.op \in Operations
  BY <1>2 DEF EntryType
<1>4. e.phase = "active" => fleet[e.op].state = "active"
  BY <1>1, <1>2, ActiveIsActive
<1>5. UNCHANGED <<file, leftover, sent, fleet, chain, now, faults>>
  BY DEF ReconcileInstalled, RetryInstalled, deviceVars, fleetVars
<1>6. faults' \in Nat
  BY <1>5 DEF IInv, TypeInv
<1>7. CASE ReconcileInstalled(kind)
  <2>1. e.phase \in Submitted
    BY <1>1, <1>7 DEF ReconcileInstalled, Phase, Submitted
  <2>2. call' = Runs(kind, e.op, "result", fleet[e.op])
    BY <1>7 DEF ReconcileInstalled
  <2> HIDE DEF e
  <2>3. /\ call' \in [step : {"result"}, kind : Kinds, op : Operations, reply : RecordType]
        /\ call'.op = e.op /\ call'.kind = kind /\ call'.reply = fleet[e.op]
    BY <1>3, <2>2 DEF Runs
  <2>4. ResultOK(file, fleet, call')
    BY <1>1, <1>3, <1>4, <2>1, <2>3 DEF ResultOK, WorksOn, ReplyOK, e
  <2> QED
    BY <1>5, <1>6, <2>4, CallStep DEF CallOK
<1>8. CASE RetryInstalled(kind)
  <2>1. e.phase = "proof_submitted"
    BY <1>1, <1>8 DEF RetryInstalled, Phase
  <2>2. call' = Runs(kind, e.op, "retry", fleet[e.op])
    BY <1>8 DEF RetryInstalled
  <2> HIDE DEF e
  <2>3. /\ call' \in [step : {"retry"}, kind : Kinds, op : Operations, reply : RecordType]
        /\ call'.op = e.op /\ call'.kind = kind /\ call'.reply = fleet[e.op]
    BY <1>3, <2>2 DEF Runs
  <2>4. RetryOK(file, fleet, call')
    BY <1>1, <1>3, <1>4, <2>1, <2>3 DEF RetryOK, WorksOn, ReplyOK, e
  <2> QED
    BY <1>5, <1>6, <2>4, CallStep DEF CallOK
<1> QED
  BY <1>7, <1>8

\* A retry finds the proof recorded, or sends the saved one.
LEMMA RetryDecidesSafe ==
    ASSUME IInv, RetryDecides
    PROVE  IInv'
<1>1. RetryOK(file, fleet, call)
  BY CallAt DEF IInv, RetryDecides, At
<1>2. UNCHANGED <<file, leftover, sent, fleet, chain, now, faults>>
  BY DEF RetryDecides, deviceVars, fleetVars
<1>3. faults' \in Nat
  BY <1>2 DEF IInv, TypeInv
<1>4. call \in [step : {"retry"}, kind : Kinds, op : Operations, reply : RecordType]
  BY <1>1 DEF RetryOK
<1>5. CASE call' = Goto("result", call.reply)
  <2>1. /\ call' \in [step : {"result"}, kind : Kinds, op : Operations, reply : RecordType]
        /\ call'.op = call.op /\ call'.kind = call.kind /\ call'.reply = call.reply
    BY <1>4, <1>5 DEF Goto
  <2>2. ResultOK(file, fleet, call')
    BY <1>1, <2>1 DEF RetryOK, ResultOK, WorksOn, ReplyOK, Submitted
  <2> QED
    BY <1>2, <1>3, <2>2, CallStep DEF CallOK
<1>6. CASE call' = Goto("send", Nil)
  <2>1. /\ call' \in [step : {"send"}, kind : Kinds, op : Operations, reply : {Nil}]
        /\ call'.op = call.op /\ call'.kind = call.kind
    BY <1>4, <1>6 DEF Goto
  <2>2. SendOK(file, call')
    BY <1>1, <2>1 DEF RetryOK, SendOK, WorksOn
  <2> QED
    BY <1>2, <1>3, <2>2, CallStep DEF CallOK
<1> QED
  BY <1>5, <1>6 DEF RetryDecides

\* Fleet says that a successor is active, and is asked which credential it knows.
LEMMA ResultActiveSafe ==
    ASSUME IInv, ResultActive, call.kind \in {"renewal", "recovery"}
    PROVE  IInv'
<1>1. ResultOK(file, fleet, call)
  BY CallAt DEF IInv, ResultActive, At
<1>2. UNCHANGED <<file, leftover, sent, fleet, chain, now, faults>>
  BY DEF ResultActive, deviceVars, fleetVars
<1>3. faults' \in Nat
  BY <1>2 DEF IInv, TypeInv
<1>4. call \in [step : {"result"}, kind : Kinds, op : Operations, reply : RecordType]
      /\ call.reply.state = "active"
  BY <1>1 DEF ResultOK, ResultActive
<1>5. CASE call' = Goto("cutover", call.op)
  <2>1. /\ call' \in [step : {"cutover"}, kind : {"renewal", "recovery"}, op : Operations,
                      reply : Operations]
        /\ call'.op = call.op /\ call'.kind = call.kind
    BY <1>4, <1>5 DEF Goto
  <2>2. CutoverOK(file, fleet, call')
    BY <1>1, <1>4, <2>1 DEF ResultOK, CutoverOK, WorksOn, ReplyOK
  <2> QED
    BY <1>2, <1>3, <2>2, CallStep DEF CallOK
<1>6. CASE call' = Idle
  BY <1>2, <1>3, <1>6, CallStep, IdleIsGood
<1> QED
  BY <1>5, <1>6 DEF ResultActive

\* The owner's packet is checked, and the access of the credential asked for.
LEMMA ContinueTrustSafe ==
    ASSUME IInv, ContinueTrust
    PROVE  IInv'
<1>1. file # Nil
  BY DEF ContinueTrust, TrustIsSettled, Phase
<1>2. requestKey(file) \in Operations /\ now \in Nat
  <2>1. chain # <<>> /\ Last(chain) = requestKey(file) /\ chain \in Seq(Operations)
        /\ now \in Nat
    BY DEF ContinueTrust, Current, IInv, TypeInv
  <2>2. Len(chain) \in 1 .. Len(chain)
    BY <2>1, EmptySeq
  <2> QED
    BY <2>1, <2>2, ElementOfSeq DEF Last
<1>3. call' = Runs("trust", requestKey(file), "trust",
                   [until |-> now + ChallengeTerm, issuer |-> now + IssuerTerm])
      /\ UNCHANGED <<file, leftover, sent, fleet, chain, now, faults>>
  BY DEF ContinueTrust, deviceVars, fleetVars
<1>4. call' \in [step : {"trust"}, kind : {"trust"}, op : Operations,
                 reply : [until : Nat, issuer : Nat]]
  <2>1. now + ChallengeTerm \in Nat /\ now + IssuerTerm \in Nat
    BY <1>2, BoundsAssumption
  <2> QED
    BY <1>2, <1>3, <2>1 DEF Runs
<1>5. CallOK(file, fleet, call')
  BY <1>1, <1>4 DEF CallOK, TrustOK
<1>6. faults' \in Nat
  BY <1>3 DEF IInv, TypeInv
<1> QED
  BY <1>3, <1>5, <1>6, CallStep

\* A command that is refused or cut off leaves everything as it is.
LEMMA EndSafe ==
    ASSUME IInv, Refused \/ Lost
    PROVE  IInv'
<1>1. call' = Idle /\ UNCHANGED <<file, leftover, sent, fleet, chain, now>>
  BY DEF Refused, Lost, deviceVars, fleetVars
<1>2. faults' \in Nat
  BY DEF Refused, Lost, IInv, TypeInv
<1> QED
  BY <1>1, <1>2, CallStep, IdleIsGood

-----------------------------------------------------------------------------
(***************************************************************************)
(* Proofs that leave the device.                                           *)
(***************************************************************************)

\* The proofs of an entry that has them are saved.
LEMMA ProofIsSaved ==
    ASSUME NEW f, FileOK(f), NEW kind \in Kinds, f[kind] # Nil
    PROVE  /\ f[kind].proof # Nil =>
                 Proof(f[kind].op, "key", f[kind].proof) \in ProofType \cap SavedBy(f)
           /\ f[kind].signature # Nil =>
                 Proof(f[kind].op, "installed", f[kind].signature) \in ProofType \cap SavedBy(f)
<1> DEFINE e == f[kind]
<1>1. e \in EntryType
  BY EntryOf
<1>2. e \in Held(f)
  BY DEF Held, Kinds
<1> HIDE DEF e
<1>3. /\ e.op \in Operations
      /\ e.proof # Nil => e.proof \in Nat
      /\ e.signature # Nil => e.signature \in Nat
  BY <1>1 DEF EntryType
<1>4. ProofsOf(e) \subseteq SavedBy(f)
  BY <1>2 DEF SavedBy
<1>5. /\ Proof(e.op, "key", e.proof) \in SavedBy(f)
      /\ Proof(e.op, "installed", e.signature) \in SavedBy(f)
  BY <1>4 DEF ProofsOf
<1>6. /\ e.proof # Nil => Proof(e.op, "key", e.proof) \in ProofType
      /\ e.signature # Nil => Proof(e.op, "installed", e.signature) \in ProofType
  BY <1>3 DEF Proof, ProofType
<1> QED
  BY <1>5, <1>6 DEF e

\* A proof of the file that leaves the device keeps the invariant, whatever the
\* command does next.
LEMMA SentStep ==
    ASSUME IInv, file # Nil, UNCHANGED <<file, leftover, chain, now>>,
           faults' \in Nat, fleet' \in [Operations -> RecordType],
           ChainInv(file, fleet', chain), CallOK(file, fleet', call'),
           NEW proof \in ProofType \cap SavedBy(file), sent' = sent \cup {proof}
    PROVE  IInv'
<1>1. IsFiniteSet(sent') /\ sent' \subseteq ProofType
  BY FS_AddElement DEF IInv, TypeInv
<1>2. TypeInv'
  BY <1>1 DEF IInv, TypeInv
<1>3. SavedInv(file', sent')
  BY DEF IInv, SavedInv
<1>4. CallOK(file', fleet', call') /\ ChainInv(file', fleet', chain')
  OBVIOUS
<1> QED
  BY <1>2, <1>3, <1>4 DEF IInv

\* A proof of before is printed again.
LEMMA RepeatedSafe ==
    ASSUME IInv, NEW kind \in Kinds, Repeated(kind)
    PROVE  IInv'
<1>1. /\ file # Nil /\ file[kind] # Nil /\ file[kind].proof # Nil
      /\ sent' = sent \cup {Proof(file[kind].op, "key", file[kind].proof)}
      /\ UNCHANGED <<file, leftover, call, fleet, chain, now, faults>>
  BY DEF Repeated, Phase, fleetVars
<1>2. Proof(file[kind].op, "key", file[kind].proof) \in ProofType \cap SavedBy(file)
  BY <1>1, Facts, ProofIsSaved
<1>3. faults' \in Nat /\ fleet' \in [Operations -> RecordType]
      /\ ChainInv(file, fleet', chain) /\ CallOK(file, fleet', call')
  BY <1>1 DEF IInv, TypeInv
<1> QED
  BY <1>1, <1>2, <1>3, SentStep

\* The proof that the command at key_send or at send sends.
LEMMA SendsSaved ==
    ASSUME IInv
    PROVE  /\ At("key_send") =>
                 /\ file # Nil
                 /\ Proof(call.op, "key", file.renewal.proof) \in ProofType \cap SavedBy(file)
           /\ At("send") =>
                 /\ file # Nil
                 /\ Proof(call.op, "installed", file[call.kind].signature)
                        \in ProofType \cap SavedBy(file)
<1>1. CASE At("key_send")
  <2>1. KeySendOK(file, call)
    BY <1>1, CallAt DEF IInv, At
  <2>2. file # Nil /\ file["renewal"] # Nil /\ call.op = file["renewal"].op
    BY <2>1 DEF KeySendOK, WorksOn
  <2>3. file["renewal"].proof # Nil
    BY <2>2, Facts DEF FileOK
  <2>4. Proof(file["renewal"].op, "key", file["renewal"].proof) \in ProofType \cap SavedBy(file)
    BY <2>2, <2>3, Facts, ProofIsSaved DEF Kinds
  <2> QED
    BY <1>1, <2>2, <2>4 DEF At
<1>2. CASE At("send")
  <2> DEFINE kind == call.kind
  <2>1. SendOK(file, call)
    BY <1>2, CallAt DEF IInv, At
  <2>2. /\ file # Nil /\ kind \in Kinds /\ file[kind] # Nil /\ call.op = file[kind].op
        /\ file[kind].phase = "proof_submitted"
    BY <2>1 DEF SendOK, WorksOn
  <2>3. file[kind].signature # Nil
    BY <2>2, Facts, EntryOf DEF EntryOK
  <2> HIDE DEF kind
  <2>4. Proof(file[kind].op, "installed", file[kind].signature) \in ProofType \cap SavedBy(file)
    BY <2>2, <2>3, Facts, ProofIsSaved
  <2> QED
    BY <1>2, <2>2, <2>4 DEF At, kind
<1> QED
  BY <1>1, <1>2

\* A request that does not arrive has sent a saved proof.
LEMMA RequestLostSafe ==
    ASSUME IInv, RequestLost
    PROVE  IInv'
<1>1. /\ call' = Idle /\ UNCHANGED <<file, leftover, fleet, chain, now>>
      /\ faults' \in Nat /\ fleet' \in [Operations -> RecordType]
      /\ ChainInv(file, fleet', chain)
  BY DEF RequestLost, fleetVars, IInv, TypeInv
<1>2. CallOK(file, fleet', call')
  BY <1>1, IdleIsGood
<1>3. file # Nil /\ \E proof \in ProofType \cap SavedBy(file) : sent' = sent \cup {proof}
  <2>1. CASE At("send")
    BY <2>1, SendsSaved DEF RequestLost
  <2>2. CASE ~ At("send")
    BY <2>2, SendsSaved DEF RequestLost
  <2> QED
    BY <2>1, <2>2
<1> QED
  BY <1>1, <1>2, <1>3, SentStep

-----------------------------------------------------------------------------
(***************************************************************************)
(* Fleet.                                                                  *)
(***************************************************************************)

\* A record that moves on, short of the activation.
Advances(f, fl, ch, operation, record) ==
    /\ record \in RecordType
    /\ fl[operation].state # "none" => record.state # "none"
    /\ (record.state = "active") <=> (fl[operation].state = "active")
    /\ (operation # Enrollment /\ record.state = "verified") =>
          fl[operation].state = "verified" \/ Waiting(f, operation)
    /\ (operation # Enrollment /\ record.state # "none") =>
          ch # <<>> /\ record.predecessor \in Operations

\* It leaves the chain and the file in step.
LEMMA AdvancedChain ==
    ASSUME NEW f, f # Nil, NEW fl \in [Operations -> RecordType], NEW ch, NEW fl2,
           FileOK(f), ChainInv(f, fl, ch), NEW operation \in Operations, NEW record,
           Advances(f, fl, ch, operation, record),
           fl2 = [fl EXCEPT ![operation] = record]
    PROVE  fl2 \in [Operations -> RecordType] /\ ChainInv(f, fl2, ch)
<1>1. /\ fl2 \in [Operations -> RecordType]
      /\ fl2[operation] = record
      /\ \A o \in Operations \ {operation} : fl2[o] = fl[o]
  BY DEF Advances
<1>2. /\ FleetOK(fl, ch) /\ Known(f, fl) /\ ChainOK(f, fl, ch) /\ VerifiedIsWaiting(f, fl)
      /\ ch # <<>> => fl[Enrollment].state = "active"
  BY DEF ChainInv, FollowOK
<1>3. \A o \in Operations : (fl2[o].state = "active") <=> (fl[o].state = "active")
  BY <1>1 DEF Advances
<1>4. \A o \in Operations : fl[o].state # "none" => fl2[o].state # "none"
  BY <1>1 DEF Advances
<1>5. FleetOK(fl2, ch)
  BY <1>1, <1>2, OperationsAssumption DEF FleetOK, Advances, Operations
<1>6. Known(f, fl2)
  <2>1. /\ f.renewal # Nil => f.renewal.op \in Operations
        /\ f.recovery # Nil => f.recovery.op \in Operations
    BY DEF FileOK, Operations
  <2> QED
    BY <1>2, <1>3, <1>4, <2>1 DEF Known, Active
<1>7. ChainOK(f, fl2, ch)
  BY <1>2, <1>3 DEF ChainOK
<1>8. VerifiedIsWaiting(f, fl2)
  BY <1>1, <1>2, OperationsAssumption DEF VerifiedIsWaiting, Advances, Operations
<1>9. ch # <<>> => fl2[Enrollment].state = "active"
  BY <1>2, <1>3 DEF Operations
<1> QED
  BY <1>1, <1>5, <1>6, <1>7, <1>8, <1>9 DEF ChainInv, FollowOK

\* The command that runs is not disturbed by it, as the proof of a renewal's key
\* reaches Fleet from this device only.
LEMMA AdvancedCall ==
    ASSUME NEW f, NEW fl, NEW fl2, NEW c, CallOK(f, fl, c),
           \A o \in Operations : fl[o].state = "active" => fl2[o].state = "active",
           \A o \in Renewals : fl[o].state = "awaiting_proof" => fl2[o].state = "awaiting_proof"
    PROVE  CallOK(f, fl2, c)
<1>1. PreparingOK(f, fl, c) => PreparingOK(f, fl2, c)
  BY DEF PreparingOK
<1>2. RetryOK(f, fl, c) => RetryOK(f, fl2, c)
  BY DEF RetryOK, ReplyOK
<1>3. ResultOK(f, fl, c) => ResultOK(f, fl2, c)
  BY DEF ResultOK, ReplyOK
<1>4. CutoverOK(f, fl, c) => CutoverOK(f, fl2, c)
  BY DEF CutoverOK
<1> QED
  BY <1>1, <1>2, <1>3, <1>4 DEF CallOK

\* A step of Fleet that moves one record on.
LEMMA FleetStep ==
    ASSUME IInv, file # Nil, UNCHANGED <<file, leftover, sent, call, chain, now, faults>>,
           NEW operation \in Operations, NEW record,
           Advances(file, fleet, chain, operation, record),
           operation \in Renewals /\ fleet[operation].state = "awaiting_proof" =>
               record.state = "awaiting_proof",
           fleet' = [fleet EXCEPT ![operation] = record]
    PROVE  IInv'
<1>1. FileOK(file) /\ fleet \in [Operations -> RecordType] /\ CallOK(file, fleet, call)
      /\ ChainInv(file, fleet, chain)
  BY DEF IInv, TypeInv
<1>2. fleet' \in [Operations -> RecordType] /\ ChainInv(file, fleet', chain)
  BY <1>1, AdvancedChain
<1>3. /\ fleet'[operation] = record
      /\ \A o \in Operations \ {operation} : fleet'[o] = fleet[o]
  BY <1>1
<1>4. /\ \A o \in Operations : fleet[o].state = "active" => fleet'[o].state = "active"
      /\ \A o \in Renewals : fleet[o].state = "awaiting_proof" =>
                             fleet'[o].state = "awaiting_proof"
  BY <1>3 DEF Advances, Operations
<1>5. CallOK(file, fleet', call)
  BY <1>1, <1>4, AdvancedCall
<1>6. TypeInv'
  BY <1>2 DEF IInv, TypeInv
<1> QED
  BY <1>2, <1>5, <1>6 DEF IInv

\* Fleet's records have types, and those of successors have predecessors.
LEMMA FleetFacts ==
    ASSUME IInv, NEW operation \in Operations
    PROVE  /\ fleet[operation] \in RecordType
           /\ fleet[operation].state # "none" => file # Nil
           /\ chain # <<>> => file # Nil
           /\ (operation # Enrollment /\ fleet[operation].state # "none") =>
                 chain # <<>> /\ fleet[operation].predecessor \in Operations
<1>1. fleet \in [Operations -> RecordType] /\ ChainInv(file, fleet, chain)
  BY DEF IInv, TypeInv
<1> QED
  BY <1>1 DEF ChainInv, FleetOK, Operations

\* Fleet admits the enrollment.
LEMMA FleetEnrollsSafe ==
    ASSUME IInv, FleetEnrolls
    PROVE  IInv'
<1> DEFINE record == [fleet[Enrollment] EXCEPT !.state = "awaiting_proof",
                                               !.keyExpires = now + ChallengeTerm]
<1>1. /\ Enrollment \in Operations /\ fleet[Enrollment] \in RecordType
      /\ fleet \in [Operations -> RecordType] /\ now + ChallengeTerm \in Nat
  <2>1. Enrollment \in Operations
    BY DEF Operations
  <2>2. fleet \in [Operations -> RecordType] /\ now \in Nat
    BY DEF IInv, TypeInv
  <2> QED
    BY <2>1, <2>2, BoundsAssumption
<1>2. /\ file # Nil /\ fleet[Enrollment].state = "none"
      /\ UNCHANGED <<file, leftover, sent, call, chain, now, faults>>
  BY DEF FleetEnrolls, deviceVars
<1>3. fleet' = [fleet EXCEPT ![Enrollment] = record]
  BY <1>1 DEF FleetEnrolls, RecordType
<1>4. record \in RecordType /\ record.state = "awaiting_proof"
  BY <1>1 DEF RecordType, FleetStates
<1> HIDE DEF record
<1>5. Advances(file, fleet, chain, Enrollment, record)
  BY <1>2, <1>4 DEF Advances
<1> QED
  BY <1>1, <1>2, <1>3, <1>4, <1>5, FleetStep

\* Fleet approves a successor of the credential in force.
LEMMA FleetApprovesSafe ==
    ASSUME IInv, NEW operation \in Renewals \cup Recoveries, FleetApproves(operation)
    PROVE  IInv'
<1> DEFINE predecessor == Last(chain)
           until == IF operation \in Renewals
                    THEN Min2(now + ChallengeTerm, fleet[predecessor].notAfter)
                    ELSE now + ChallengeTerm
           record == [fleet[operation] EXCEPT !.state = "awaiting_proof",
                                              !.predecessor = predecessor,
                                              !.keyExpires = until,
                                              !.notAfter = now + CredentialTerm]
<1>1. /\ operation \in Operations /\ operation # Enrollment
      /\ fleet \in [Operations -> RecordType] /\ now \in Nat /\ chain \in Seq(Operations)
  BY OperationsAssumption DEF IInv, TypeInv, Operations
<1>2. /\ chain # <<>> /\ fleet[operation].state = "none"
      /\ UNCHANGED <<file, leftover, sent, call, chain, now, faults>>
  BY DEF FleetApproves, deviceVars
<1>3. predecessor \in Operations
  <2>1. Len(chain) \in 1 .. Len(chain)
    BY <1>1, <1>2, EmptySeq
  <2> QED
    BY <1>1, <2>1, ElementOfSeq DEF Last
<1>4. fleet' = [fleet EXCEPT ![operation] = record]
  BY <1>1 DEF FleetApproves, RecordType
<1> HIDE DEF predecessor
<1>5. until \in Nat /\ now + CredentialTerm \in Nat
  <2>1. fleet[predecessor].notAfter \in Nat
    BY <1>1, <1>3 DEF RecordType
  <2> QED
    BY <1>1, <2>1, BoundsAssumption DEF Min2
<1> HIDE DEF until
<1>6. record \in RecordType /\ record.state = "awaiting_proof"
      /\ record.predecessor = predecessor
  <2>1. fleet[operation] \in RecordType
    BY <1>1
  <2> QED
    BY <1>3, <1>5, <2>1 DEF RecordType, FleetStates
<1> HIDE DEF record
<1>7. Advances(file, fleet, chain, operation, record)
  BY <1>2, <1>3, <1>6 DEF Advances
<1>8. file # Nil
  BY <1>1, <1>2, FleetFacts
<1> QED
  BY <1>1, <1>2, <1>4, <1>6, <1>7, <1>8, FleetStep

\* A record in which a field other than the predecessor changes.
LEMMA SimpleAdvance ==
    ASSUME IInv, NEW operation \in Operations, NEW record \in RecordType,
           fleet[operation].state # "none", record.state # "none",
           record.state = "active" <=> fleet[operation].state = "active",
           operation # Enrollment /\ record.state = "verified" =>
               fleet[operation].state = "verified" \/ Waiting(file, operation),
           record.predecessor = fleet[operation].predecessor
    PROVE  Advances(file, fleet, chain, operation, record)
BY FleetFacts DEF Advances

\* Fleet verifies the proof of a key.
LEMMA FleetVerifiesSafe ==
    ASSUME IInv, NEW operation \in {Enrollment} \cup Recoveries, FleetVerifies(operation)
    PROVE  IInv'
<1>1. PICK proof \in sent :
          /\ fleet[operation].state = "awaiting_proof"
          /\ fleet' = [fleet EXCEPT ![operation] = KeyProofRecorded(operation, proof.signature)]
          /\ UNCHANGED <<deviceVars, call, chain, now, faults>>
  BY DEF FleetVerifies
<1> DEFINE record == KeyProofRecorded(operation, proof.signature)
<1>2. operation \in Operations /\ operation \notin Renewals
  BY OperationsAssumption DEF Operations
<1>3. proof.signature \in Nat
  BY DEF IInv, TypeInv, ProofType
<1>4. fleet[operation] \in RecordType /\ file # Nil
  BY <1>1, <1>2, FleetFacts
<1>5. /\ record \in RecordType /\ record.state = "proof_verified"
      /\ record.predecessor = fleet[operation].predecessor
  BY <1>1, <1>3, <1>4 DEF KeyProofRecorded, RecordType, FleetStates
<1>6. fleet' = [fleet EXCEPT ![operation] = record]
      /\ UNCHANGED <<file, leftover, sent, call, chain, now, faults>>
  BY <1>1 DEF deviceVars
<1> HIDE DEF record
<1>7. Advances(file, fleet, chain, operation, record)
  BY <1>1, <1>2, <1>5, SimpleAdvance
<1> QED
  BY <1>2, <1>4, <1>6, <1>7, FleetStep

\* Fleet issues a certificate.
LEMMA FleetIssuesSafe ==
    ASSUME IInv, NEW operation \in Operations, FleetIssues(operation)
    PROVE  IInv'
<1> DEFINE record == [fleet[operation] EXCEPT
                         !.state = "staged",
                         !.notAfter = IF operation = Enrollment
                                      THEN now + CredentialTerm ELSE @]
<1>1. /\ fleet[operation].state = "proof_verified"
      /\ UNCHANGED <<file, leftover, sent, call, chain, now, faults>>
  BY DEF FleetIssues, deviceVars
<1>2. /\ fleet[operation] \in RecordType /\ file # Nil
      /\ fleet \in [Operations -> RecordType] /\ now + CredentialTerm \in Nat
  <2>1. fleet \in [Operations -> RecordType] /\ now \in Nat
    BY DEF IInv, TypeInv
  <2> QED
    BY <1>1, <2>1, FleetFacts, BoundsAssumption
<1>3. fleet' = [fleet EXCEPT ![operation] = record]
  BY <1>2 DEF FleetIssues, RecordType
<1>4. /\ record \in RecordType /\ record.state = "staged"
      /\ record.predecessor = fleet[operation].predecessor
  BY <1>2 DEF RecordType, FleetStates
<1> HIDE DEF record
<1>5. Advances(file, fleet, chain, operation, record)
  BY <1>1, <1>4, SimpleAdvance
<1> QED
  BY <1>1, <1>2, <1>3, <1>5, FleetStep

\* Fleet activates a credential: the enrollment's, before any other, or that of
\* the one successor under way, which the file then has to follow.
LEMMA FleetActivatesSafe ==
    ASSUME IInv, NEW operation \in Operations, FleetActivates(operation)
    PROVE  IInv'
<1>1. /\ fleet[operation].state = "verified"
      /\ fleet' = [fleet EXCEPT ![operation].state = "active"]
      /\ chain' = Append(chain, operation)
      /\ UNCHANGED <<file, leftover, sent, call, now, faults>>
  BY DEF FleetActivates, deviceVars
<1>2. /\ fleet \in [Operations -> RecordType] /\ chain \in Seq(Operations)
      /\ ChainInv(file, fleet, chain) /\ CallOK(file, fleet, call)
      /\ file # Nil /\ FileOK(file)
  <2>1. /\ fleet \in [Operations -> RecordType] /\ chain \in Seq(Operations)
        /\ ChainInv(file, fleet, chain) /\ CallOK(file, fleet, call)
    BY DEF IInv, TypeInv
  <2>2. file # Nil
    BY <1>1, FleetFacts
  <2> QED
    BY <2>1, <2>2, Facts
<1>3. /\ FleetOK(fleet, chain) /\ Known(file, fleet) /\ ChainOK(file, fleet, chain)
      /\ VerifiedIsWaiting(file, fleet)
      /\ chain # <<>> => fleet[Enrollment].state = "active"
  BY <1>2 DEF ChainInv, FollowOK
<1>4. /\ fleet' \in [Operations -> RecordType]
      /\ fleet'[operation].state = "active"
      /\ fleet'[operation].predecessor = fleet[operation].predecessor
      /\ \A o \in Operations \ {operation} : fleet'[o] = fleet[o]
  BY <1>1, <1>2 DEF RecordType, FleetStates
<1>5. chain' \in Seq(Operations) /\ chain' # <<>>
  BY <1>1, <1>2
<1>6. FleetOK(fleet', chain')
  <2>1. ASSUME NEW o \in Renewals \cup Recoveries, fleet'[o].state # "none"
        PROVE  fleet'[o].predecessor \in Operations
    <3>1. fleet'[o].predecessor = fleet[o].predecessor /\ fleet[o].state # "none"
      BY <1>1, <1>4, <2>1 DEF Operations
    <3> QED
      BY <1>3, <3>1 DEF FleetOK
  <2> QED
    BY <1>5, <2>1 DEF FleetOK
<1>7. Known(file, fleet')
  <2>1. \A o \in Operations : /\ fleet[o].state # "none" => fleet'[o].state # "none"
                              /\ fleet[o].state = "active" => fleet'[o].state = "active"
    BY <1>4
  <2>2. /\ file.renewal # Nil => file.renewal.op \in Operations
        /\ file.recovery # Nil => file.recovery.op \in Operations
    BY <1>2 DEF FileOK, Operations
  <2> QED
    BY <1>3, <2>1, <2>2 DEF Known, Active
<1>8. VerifiedIsWaiting(file, fleet')
  BY <1>3, <1>4 DEF VerifiedIsWaiting, Operations
<1>9. ChainOK(file, fleet', chain') /\ fleet'[Enrollment].state = "active"
  <2>1. CASE operation = Enrollment
    <3>1. chain = <<>>
      BY <1>1, <1>3, <2>1
    <3>2. \A o : ~ Waiting(file, o)
      <4>1. ASSUME NEW o, Waiting(file, o)
            PROVE  FALSE
        <5>1. o \in Renewals \cup Recoveries /\ fleet[o].state # "none"
          BY <1>2, <1>3, <4>1, WaitingIsKnown
        <5> QED
          BY <1>3, <3>1, <5>1 DEF FleetOK
      <4> QED
        BY <4>1
    <3>3. Local(file) = <<Enrollment>>
      <4>1. CASE chain = Local(file)
        <5>1. Len(Local(file)) # 0
          <6>1. Len(Local(file)) = Len(Successors(file)) + 1 /\ Len(Successors(file)) \in Nat
            BY <1>2, LocalShape
          <6> QED
            BY <6>1
        <5> QED
          BY <3>1, <4>1, <5>1
      <4> QED
        BY <1>3, <3>2, <4>1 DEF ChainOK
    <3>4. chain' = <<Enrollment>>
      BY <1>1, <2>1, <3>1
    <3> QED
      BY <1>4, <2>1, <3>2, <3>3, <3>4 DEF ChainOK
  <2>2. CASE operation # Enrollment
    <3>1. operation \in Renewals \cup Recoveries
      BY <2>2 DEF Operations
    <3>2. Waiting(file, operation)
      BY <1>1, <1>3, <3>1 DEF VerifiedIsWaiting
    <3>3. chain # <<>>
      BY <1>1, <1>3, <3>1 DEF FleetOK
    <3>4. chain = Local(file)
      <4>1. \A o \in Operations : Waiting(file, o) => o = operation
        BY <1>2, <3>2, OneWaits
      <4> QED
        BY <1>1, <1>3, <3>3, <4>1 DEF ChainOK
    <3>5. ChainOK(file, fleet', chain')
      BY <1>1, <1>4, <3>2, <3>4 DEF ChainOK
    <3>6. fleet'[Enrollment].state = "active"
      BY <1>3, <1>4, <2>2, <3>3 DEF Operations
    <3> QED
      BY <3>5, <3>6
  <2> QED
    BY <2>1, <2>2
<1>10. ChainInv(file', fleet', chain')
  BY <1>1, <1>2, <1>6, <1>7, <1>8, <1>9 DEF ChainInv, FollowOK
<1>11. CallOK(file', fleet', call')
  <2>1. /\ \A o \in Operations : fleet[o].state = "active" => fleet'[o].state = "active"
        /\ \A o \in Renewals : fleet[o].state = "awaiting_proof" =>
                               fleet'[o].state = "awaiting_proof"
    BY <1>1, <1>4 DEF Operations
  <2>2. CallOK(file, fleet', call)
    BY <1>2, <2>1, AdvancedCall
  <2> QED
    BY <1>1, <2>2
<1>12. TypeInv' /\ SavedInv(file', sent')
  BY <1>1, <1>4, <1>5 DEF IInv, TypeInv
<1> QED
  BY <1>10, <1>11, <1>12 DEF IInv

-----------------------------------------------------------------------------
(***************************************************************************)
(* Requests that Fleet acts on.                                            *)
(***************************************************************************)

\* The record of an operation of the file.
LEMMA RecordOf ==
    ASSUME IInv, file # Nil, NEW kind \in Kinds, file[kind] # Nil
    PROVE  /\ file[kind].op \in Operations
           /\ fleet[file[kind].op] \in RecordType
           /\ kind # "enrollment" => fleet[file[kind].op].state # "none"
           /\ kind = "enrollment" <=> file[kind].op = Enrollment
           /\ file[kind].op \in Renewals =>
                 fleet[file[kind].op].predecessor \in Operations
<1>1. /\ FileOK(file) /\ Known(file, fleet) /\ fleet \in [Operations -> RecordType]
      /\ FleetOK(fleet, chain)
  BY Facts DEF FollowOK
<1>2. file[kind] \in EntryType
  BY <1>1, EntryOf
<1>3. file[kind].op \in Operations
  BY <1>2 DEF EntryType
<1>4. kind # "enrollment" => fleet[file[kind].op].state # "none"
  BY <1>1 DEF Known, Kinds
<1>5. kind = "enrollment" <=> file[kind].op = Enrollment
  BY <1>1, OperationsAssumption DEF FileOK, Kinds
<1>6. file[kind].op \in Renewals => fleet[file[kind].op].predecessor \in Operations
  BY <1>1, <1>4, <1>5, OperationsAssumption DEF FleetOK
<1> QED
  BY <1>1, <1>3, <1>4, <1>5, <1>6

\* The record of an operation of the file that Fleet moves on.
LEMMA RequestAdvance ==
    ASSUME IInv, file # Nil, NEW kind \in Kinds, file[kind] # Nil,
           NEW record \in RecordType,
           fleet[file[kind].op].state # "none" => record.state # "none",
           record.state = "active" <=> fleet[file[kind].op].state = "active",
           record.state = "verified" =>
               fleet[file[kind].op].state = "verified" \/ file[kind].phase # "active",
           record.predecessor = fleet[file[kind].op].predecessor
    PROVE  Advances(file, fleet, chain, file[kind].op, record)
<1> DEFINE operation == file[kind].op
<1>1. /\ operation \in Operations
      /\ kind # "enrollment" => fleet[operation].state # "none"
      /\ kind = "enrollment" <=> operation = Enrollment
  BY RecordOf
<1>2. (operation # Enrollment /\ file[kind].phase # "active") => Waiting(file, operation)
  BY <1>1 DEF Waiting, Kinds
<1>3. operation # Enrollment => chain # <<>> /\ fleet[operation].predecessor \in Operations
  BY <1>1, FleetFacts
<1> QED
  BY <1>1, <1>2, <1>3 DEF Advances

\* The proof of a renewal's key is sent, and taken or not.
LEMMA sendRenewalProofSafe ==
    ASSUME IInv, sendRenewalProof
    PROVE  IInv'
<1> DEFINE kind == "renewal"
           proof == file[kind].proof
           operation == file[kind].op
           record == KeyProofRecorded(operation, proof)
<1>1. KeySendOK(file, call)
  BY CallAt DEF IInv, sendRenewalProof, At
<1>2. /\ file # Nil /\ kind \in Kinds /\ file[kind] # Nil /\ call.op = operation
      /\ file[kind].phase = "prepared"
      /\ call \in [step : {"key_send"}, kind : {"renewal"}, op : Renewals, reply : {Nil}]
  BY <1>1 DEF KeySendOK, WorksOn
<1>3. Proof(call.op, "key", proof) \in ProofType \cap SavedBy(file)
  BY SendsSaved DEF sendRenewalProof
<1>4. /\ sent' = sent \cup {Proof(call.op, "key", proof)}
      /\ UNCHANGED <<file, leftover, chain, now, faults>>
      /\ \/ fleet' = [fleet EXCEPT ![operation] = record] /\ call' = Goto("key_result", record)
         \/ fleet' = fleet /\ call' = Idle
  BY <1>2 DEF sendRenewalProof
<1>5. /\ FileOK(file) /\ fleet \in [Operations -> RecordType]
      /\ ChainInv(file, fleet, chain) /\ faults' \in Nat
  BY <1>2, <1>4 DEF IInv, TypeInv
<1>6. CASE fleet' = fleet /\ call' = Idle
  <2>1. CallOK(file, fleet', call')
    BY <1>6, IdleIsGood
  <2> QED
    BY <1>2, <1>3, <1>4, <1>5, <1>6, <2>1, SentStep
<1>7. CASE fleet' = [fleet EXCEPT ![operation] = record] /\ call' = Goto("key_result", record)
  <2>1. operation \in Operations /\ fleet[operation] \in RecordType
        /\ fleet[operation].state # "none"
    BY <1>2, RecordOf
  <2>2. proof \in Nat \cup {Nil}
    BY <1>2, <1>5, EntryOf DEF EntryType
  <2>3. /\ record \in RecordType
        /\ record.predecessor = fleet[operation].predecessor
        /\ \/ record.state = fleet[operation].state
           \/ record.state = "proof_verified" /\ fleet[operation].state = "awaiting_proof"
    <3> HIDE DEF operation, proof
    <3> QED
      BY <2>1, <2>2 DEF KeyProofRecorded, RecordType, FleetStates
  <2> HIDE DEF record, kind
  <2>4. Advances(file, fleet, chain, operation, record)
    BY <1>2, <2>1, <2>3, RequestAdvance
  <2>5. fleet' \in [Operations -> RecordType] /\ ChainInv(file, fleet', chain)
    BY <1>2, <1>5, <1>7, <2>1, <2>4, AdvancedChain
  <2>6. CallOK(file, fleet', call')
    <3>1. /\ call' \in [step : {"key_result", "installation"}, kind : {"renewal"},
                        op : Renewals, reply : RecordType]
          /\ call'.op = operation /\ call'.kind = kind
      BY <1>2, <1>7, <2>3 DEF Goto, kind
    <3>2. KeyResultOK(file, call')
      BY <1>2, <3>1 DEF KeyResultOK, WorksOn
    <3> QED
      BY <3>2 DEF CallOK
  <2> QED
    BY <1>2, <1>3, <1>4, <1>5, <2>5, <2>6, SentStep
<1> QED
  BY <1>4, <1>6, <1>7

\* The challenge for an installed certificate is asked for.
LEMMA ProveInstalledSafe ==
    ASSUME IInv, NEW kind \in Kinds, ProveInstalled(kind)
    PROVE  IInv'
<1> DEFINE operation == file[kind].op
           old == fleet[operation]
           record == Challenged(operation)
<1>1. file # Nil /\ file[kind] # Nil /\ file[kind].phase = "installed"
  BY DEF ProveInstalled, Phase
<1>2. /\ fleet' = [fleet EXCEPT ![operation] = record]
      /\ call' = Runs(kind, operation, "challenge", record)
      /\ UNCHANGED <<file, leftover, sent, chain, now, faults>>
  BY DEF ProveInstalled, deviceVars
<1>3. /\ FileOK(file) /\ fleet \in [Operations -> RecordType] /\ now \in Nat
      /\ ChainInv(file, fleet, chain)
  BY <1>1 DEF IInv, TypeInv
<1>4. /\ operation \in Operations /\ old \in RecordType
      /\ operation \in Renewals => old.predecessor \in Operations
  BY <1>1, RecordOf
<1>5. /\ record \in RecordType
      /\ record.predecessor = old.predecessor
      /\ record.state = old.state
  <2> DEFINE until == IF operation \in Renewals
                      THEN Min2(old.notAfter, fleet[old.predecessor].notAfter)
                      ELSE old.notAfter
             challenge == Min2(now + ChallengeTerm, until)
  <2>1. operation \in Renewals => fleet[old.predecessor].notAfter \in Nat
    BY <1>3, <1>4 DEF RecordType
  <2>2. old.notAfter \in Nat
    BY <1>4 DEF RecordType
  <2>3. challenge \in Nat
    BY <1>3, <2>1, <2>2, BoundsAssumption DEF Min2
  <2>4. record = IF old.challenge # Nil THEN old ELSE [old EXCEPT !.challenge = challenge]
    BY DEF Challenged
  <2> HIDE DEF challenge, record, old
  <2> QED
    BY <1>4, <2>3, <2>4 DEF RecordType
<1> HIDE DEF record
<1>6. Advances(file, fleet, chain, operation, record)
  BY <1>1, <1>5, RequestAdvance
<1>7. fleet' \in [Operations -> RecordType] /\ ChainInv(file, fleet', chain)
  BY <1>1, <1>2, <1>3, <1>4, <1>6, AdvancedChain
<1>8. CallOK(file, fleet', call')
  <2> HIDE DEF operation
  <2>1. /\ call' \in [step : {"challenge"}, kind : Kinds, op : Operations, reply : RecordType]
        /\ call'.op = operation /\ call'.kind = kind
    BY <1>2, <1>4, <1>5 DEF Runs
  <2>2. ChallengeOK(file, call')
    BY <1>1, <2>1 DEF ChallengeOK, WorksOn, operation
  <2> QED
    BY <2>2 DEF CallOK
<1>9. TypeInv'
  BY <1>2, <1>7 DEF IInv, TypeInv
<1>10. ChainInv(file', fleet', chain') /\ CallOK(file', fleet', call') /\ SavedInv(file', sent')
  BY <1>2, <1>7, <1>8 DEF IInv
<1> QED
  BY <1>9, <1>10 DEF IInv

\* The proof made with the installed certificate is sent, and recorded or not.
LEMMA ProofSentSafe ==
    ASSUME IInv, ProofSent
    PROVE  IInv'
<1> DEFINE kind == call.kind
           signature == file[kind].signature
           operation == file[kind].op
           old == fleet[operation]
           record == ProofRecorded(old, signature)
<1>1. SendOK(file, call)
  BY CallAt DEF IInv, ProofSent, At
<1>2. /\ file # Nil /\ kind \in Kinds /\ file[kind] # Nil /\ call.op = operation
      /\ file[kind].phase = "proof_submitted"
      /\ call \in [step : {"send"}, kind : Kinds, op : Operations, reply : {Nil}]
  BY <1>1 DEF SendOK, WorksOn
<1>3. Proof(call.op, "installed", signature) \in ProofType \cap SavedBy(file)
  BY SendsSaved DEF ProofSent
<1>4. /\ sent' = sent \cup {Proof(call.op, "installed", signature)}
      /\ UNCHANGED <<file, leftover, chain, now, faults>>
      /\ \/ fleet' = [fleet EXCEPT ![operation] = record] /\ call' = Goto("result", record)
         \/ fleet' = fleet /\ call' = Idle
  BY <1>2 DEF ProofSent
<1>5. /\ FileOK(file) /\ fleet \in [Operations -> RecordType] /\ now \in Nat
      /\ ChainInv(file, fleet, chain) /\ faults' \in Nat
  BY <1>2, <1>4 DEF IInv, TypeInv
<1> HIDE DEF kind
<1>6. CASE fleet' = fleet /\ call' = Idle
  <2>1. CallOK(file, fleet', call')
    BY <1>6, IdleIsGood
  <2> QED
    BY <1>2, <1>3, <1>4, <1>5, <1>6, <2>1, SentStep
<1>7. CASE fleet' = [fleet EXCEPT ![operation] = record] /\ call' = Goto("result", record)
  <2>1. operation \in Operations /\ old \in RecordType
    BY <1>2, RecordOf
  <2>2. signature \in Nat \cup {Nil}
    BY <1>2, <1>5, EntryOf DEF EntryType
  <2>3. /\ record \in RecordType
        /\ record.predecessor = old.predecessor
        /\ \/ record.state = old.state
           \/ record.state = "verified" /\ old.state = "staged"
    <3> HIDE DEF old, signature, operation
    <3> QED
      BY <1>5, <2>1, <2>2 DEF ProofRecorded, RecordType, FleetStates
  <2> HIDE DEF record
  <2>4. Advances(file, fleet, chain, operation, record)
    BY <1>2, <2>1, <2>3, RequestAdvance
  <2>5. fleet' \in [Operations -> RecordType] /\ ChainInv(file, fleet', chain)
        /\ fleet'[operation] = record
    BY <1>2, <1>5, <1>7, <2>1, <2>4, AdvancedChain
  <2>6. CallOK(file, fleet', call')
    <3>1. /\ call' \in [step : {"result"}, kind : Kinds, op : Operations, reply : RecordType]
          /\ call'.op = call.op /\ call'.kind = call.kind /\ call'.reply = record
      BY <1>2, <1>7, <2>3 DEF Goto
    <3>2. ResultOK(file, fleet', call')
      BY <1>2, <2>5, <3>1 DEF ResultOK, WorksOn, ReplyOK, Submitted, kind
    <3> QED
      BY <3>2 DEF CallOK
  <2> QED
    BY <1>2, <1>3, <1>4, <1>5, <2>5, <2>6, SentStep
<1> QED
  BY <1>4, <1>6, <1>7

\* Time passes.
LEMMA TickSafe ==
    ASSUME IInv, Tick
    PROVE  IInv'
<1>1. now' \in Nat /\ UNCHANGED <<file, leftover, sent, call, fleet, chain, faults>>
  BY DEF Tick, deviceVars, fleetVars, IInv, TypeInv
<1>2. TypeInv'
  BY <1>1 DEF IInv, TypeInv
<1> QED
  BY <1>1, <1>2 DEF IInv

-----------------------------------------------------------------------------
(***************************************************************************)
(* The invariant.                                                          *)
(***************************************************************************)

\* Before anything is done there is no file, and Fleet knows nothing.
LEMMA InitSafe ==
    ASSUME Init
    PROVE  IInv
<1>1. NoRecord \in RecordType /\ NoRecord.state = "none"
  BY DEF NoRecord, RecordType, FleetStates
<1>2. fleet \in [Operations -> RecordType]
      /\ \A operation \in Operations : fleet[operation].state = "none"
  BY <1>1 DEF Init
<1>3. TypeInv
  <2>1. IsFiniteSet(sent)
    BY FS_EmptySet DEF Init
  <2>2. chain \in Seq(Operations)
    BY DEF Init
  <2> QED
    BY <1>2, <2>1, <2>2 DEF Init, TypeInv
<1>4. CallOK(file, fleet, call)
  BY IdleIsGood DEF Init
<1>5. ChainInv(file, fleet, chain)
  BY <1>2 DEF Init, ChainInv, FleetOK, Operations
<1>6. SavedInv(file, sent)
  BY DEF Init, SavedInv
<1> QED
  BY <1>3, <1>4, <1>5, <1>6 DEF IInv

\* Every step of a command, of Fleet and of the clock keeps the invariant.
LEMMA NextSafe ==
    ASSUME IInv, [Next]_vars
    PROVE  IInv'
<1>1. CASE UNCHANGED vars
  <2>1. UNCHANGED <<file, leftover, call, fleet, chain, now, sent, faults>>
    BY <1>1 DEF vars, deviceVars, fleetVars
  <2>2. TypeInv'
    BY <2>1 DEF IInv, TypeInv
  <2> QED
    BY <2>1, <2>2 DEF IInv
<1>2. CASE Commands
  <2>1. \A kind \in {"enrollment", "recovery"} : kind \in Kinds
    BY DEF Kinds
  <2>2. CASE \E kind \in Kinds : ProveInstalled(kind)
    BY <2>2, ProveInstalledSafe
  <2>3. CASE \E kind \in Kinds : ReconcileInstalled(kind) \/ RetryInstalled(kind)
    BY <2>3, ReadSafe
  <2>4. CASE \E kind \in Kinds : Repeated(kind)
    BY <2>4, RepeatedSafe
  <2>5. CASE \E operation \in Renewals : PrepareRenewal(operation)
    BY <2>5, PrepareRenewalSafe
  <2>6. CASE \E operation \in Recoveries : PrepareRecovery(operation)
    BY <2>6, PrepareRecoverySafe
  <2>7. CASE Initialize \/ Bootstrap \/ Install \/ RetryRenewalProof \/ InstallRenewal
             \/ InstallRecovery \/ ContinueTrust
    BY <2>7, InitializeSafe, BootstrapSafe, InstallSafe, RetryRenewalProofSafe,
       InstallRenewalSafe, InstallRecoverySafe, ContinueTrustSafe
  <2> QED
    BY <1>2, <2>1, <2>2, <2>3, <2>4, <2>5, <2>6, <2>7
    DEF Commands, Kinds, ProveRenewalInstalled, RetryRenewalInstalled, ReconcileRenewal,
        ProveRecoveryInstalled, RetryRecoveryInstalled, ReconcileRecovery
<1>3. CASE Continues
  <2>1. CASE acceptRenewalResult \/ acceptRecoveryResult
    <3>1. call.kind \in {"renewal", "recovery"}
      BY <2>1 DEF acceptRenewalResult, acceptRecoveryResult
    <3> QED
      BY <2>1, <3>1, ResultVerifiedSafe, ResultActiveSafe, CutoverConfirmedSafe
      DEF acceptRenewalResult, acceptRecoveryResult
  <2> QED
    BY <1>3, <2>1, RenewalPreparedSafe, sendRenewalProofSafe, RenewalApprovedSafe,
       RenewalInstalledSafe, ProofSignedSafe, ProofSentSafe, RetryDecidesSafe,
       TrustContinuedSafe, EndSafe, ReconcileSafe
    DEF Continues
<1>4. CASE Fleet
  BY <1>4, FleetEnrollsSafe, FleetApprovesSafe, FleetVerifiesSafe, FleetIssuesSafe,
     FleetActivatesSafe
  DEF Fleet
<1> QED
  BY <1>1, <1>2, <1>3, <1>4, RequestLostSafe, EndSafe, TickSafe DEF Next

(***************************************************************************)
(* The inductive invariant.                                                *)
(***************************************************************************)
THEOREM Invariance == Spec => []IInv
<1>1. Init => IInv
  BY InitSafe
<1>2. IInv /\ [Next]_vars => IInv'
  BY NextSafe
<1> QED
  BY <1>1, <1>2, PTL DEF Spec

(***************************************************************************)
(* A signature that has left the device, printed by bootstrap or           *)
(* PrepareRecovery or sent by sendRenewalProof or by the proof of an       *)
(* installed certificate, is the one that state.json holds for that        *)
(* operation, whatever replies are lost and whatever saves fail.           *)
(***************************************************************************)
THEOREM SignaturesAreSaved == Spec => []ProofsAreSaved
<1>1. IInv => ProofsAreSaved
  <2> SUFFICES ASSUME IInv, sent # {}
               PROVE  sent \subseteq SavedProofs
    BY DEF ProofsAreSaved
  <2>1. file # Nil /\ sent \subseteq SavedBy(file) /\ FileOK(file)
    BY DEF IInv, SavedInv, TypeInv
  <2>2. file.history \in Seq(EntryType)
    BY <2>1 DEF FileOK, StateType
  <2>3. Range(file.history) = {file.history[i] : i \in 1 .. Len(file.history)}
    BY <2>2, RangeEquality
  <2>4. SavedProofs = SavedBy(file)
    BY <2>3 DEF SavedProofs, SavedBy, Held
  <2> QED
    BY <2>1, <2>4
<1> QED
  BY <1>1, Invariance, PTL

(***************************************************************************)
(* The credentials that the client has put in force are those that Fleet   *)
(* has activated, in Fleet's order, at most one cutover behind, also when  *)
(* a recovery stands between renewals; and ordinary requests use the last  *)
(* of them (acceptRenewalResult, requestKey, renewalBase).                 *)
(***************************************************************************)
THEOREM ClientFollowsFleet == Spec => []ChainFollowsFleet
<1>1. IInv => ChainFollowsFleet
  <2> SUFFICES ASSUME IInv, file # Nil
               PROVE  /\ requestKey(file) = Last(<<Enrollment>> \o LocalChain)
                      /\ Len(<<Enrollment>> \o LocalChain) > 1 =>
                            IsPrefix(<<Enrollment>> \o LocalChain, chain)
                      /\ Len(chain) <= Len(<<Enrollment>> \o LocalChain) + 1
    BY DEF ChainFollowsFleet
  <2>1. <<Enrollment>> \o LocalChain = Local(file)
    BY DEF LocalChain, Local, Successors, Inserted, Renewed, Recovered, Place
  <2>2. FileOK(file) /\ ChainOK(file, fleet, chain) /\ chain \in Seq(Operations)
    BY Facts DEF FollowOK, IInv, TypeInv
  <2>3. requestKey(file) = Last(Local(file))
    BY <2>2, RequestKeyLast
  <2>4. Local(file) \in Seq(Operations) /\ Len(Local(file)) \in Nat
    BY <2>2, LocalType
  <2> DEFINE local == Local(file)
  <2> HIDE DEF local
  <2>5. CASE chain = <<>> /\ local = <<Enrollment>>
    <3>1. Len(chain) <= Len(local) + 1 /\ ~ (Len(local) > 1)
      BY <2>5
    <3>2. Len(chain) <= Len(Local(file)) + 1 /\ ~ (Len(Local(file)) > 1)
      BY <3>1 DEF local
    <3> QED
      BY <2>1, <2>3, <3>2, Zenon
  <2>6. CASE chain = local
    <3>1. IsPrefix(local, chain) /\ Len(chain) <= Len(local) + 1
      BY <2>4, <2>6 DEF IsPrefix, local
    <3> QED
      BY <2>1, <2>3, <3>1 DEF local
  <2>7. CASE \E operation \in Operations : chain = Append(local, operation)
    <3>1. PICK operation \in Operations : chain = Append(local, operation)
      BY <2>7
    <3>2. local \in Seq(Operations) /\ Len(local) \in Nat
      BY <2>4 DEF local
    <3>3. Len(chain) = Len(local) + 1 /\ Len(chain) <= Len(local) + 1
      BY <3>1, <3>2
    <3>4. SubSeq(chain, 1, Len(local)) = SubSeq(local, 1, Len(local))
      <4>1. SubSeq(local, 1, Len(local)) = local
        BY <3>2, SubSeqFull
      <4>2. SubSeq(Append(local, operation), 1, Len(local)) = local
        BY <3>2
      <4> QED
        BY <3>1, <4>1, <4>2
    <3>5. IsPrefix(local, chain)
      BY <3>2, <3>3, <3>4 DEF IsPrefix
    <3> QED
      BY <2>1, <2>3, <2>4, <3>3, <3>5 DEF local
  <2> QED
    BY <2>2, <2>5, <2>6, <2>7 DEF ChainOK, local
<1> QED
  BY <1>1, Invariance, PTL

Concatenates(s, t, u) ==
    /\ u \in Seq(Operations)
    /\ Len(u) = Len(s) + Len(t)
    /\ \A i \in 1 .. Len(s) + Len(t) : u[i] = IF i <= Len(s) THEN s[i] ELSE t[i - Len(s)]

\* The elements of a concatenation.
LEMMA Concatenation ==
    ASSUME NEW s \in Seq(Operations), NEW t \in Seq(Operations)
    PROVE  Concatenates(s, t, s \o t)
BY ConcatProperties DEF Concatenates

\* No two entries of a file are of one operation.
LEMMA EntriesDiffer ==
    ASSUME NEW f, FileOK(f), NEW d \in Held(f), NEW e \in Held(f), d.op = e.op
    PROVE  d = e
<1> DEFINE a == Archive(f)
           k == Len(f.history)
           r == IF f.renewal = Nil THEN <<>> ELSE <<f.renewal.op>>
           x == IF f.recovery = Nil THEN <<>> ELSE <<f.recovery.op>>
           u == (a \o r) \o x
<1>1. /\ f.history \in Seq(EntryType)
      /\ f.renewal # Nil => f.renewal \in EntryType /\ f.renewal.op \in Renewals
      /\ f.recovery # Nil => f.recovery \in EntryType /\ f.recovery.op \in Recoveries
      /\ \A i \in 1 .. k : f.history[i].op \in Renewals
      /\ f.enrollment.op = Enrollment
  BY DEF FileOK, StateType
<1>2. /\ a \in Seq(Operations) /\ Len(a) = k /\ k \in Nat
      /\ \A i \in 1 .. k : a[i] = f.history[i].op
  BY <1>1, ArchiveType
<1>3. r \in Seq(Operations) /\ x \in Seq(Operations)
  BY <1>1 DEF EntryType
<1>4. IsInjective(u)
  BY DEF FileOK, Used, Archive
<1>5. f.renewal # Nil => Len(r) = 1 /\ r[1] = f.renewal.op
  OBVIOUS
<1> HIDE DEF a, r, x
<1>6. /\ DOMAIN u = 1 .. k + Len(r) + Len(x) /\ Len(r) \in Nat /\ Len(x) \in Nat
      /\ \A i \in 1 .. k : u[i] = a[i]
      /\ f.renewal # Nil => u[k + 1] = f.renewal.op
  <2> DEFINE b == a \o r
  <2>1. Concatenates(a, r, b)
    BY <1>2, <1>3, Concatenation
  <2> HIDE DEF b
  <2>2. Concatenates(b, x, b \o x)
    BY <1>3, <2>1, Concatenation DEF Concatenates
  <2>3. Concatenates(b, x, u)
    BY <2>2 DEF b
  <2> HIDE DEF u
  <2>4. Len(r) \in Nat /\ Len(x) \in Nat
    BY <1>3
  <2>5. DOMAIN u = 1 .. k + Len(r) + Len(x)
    BY <1>2, <2>1, <2>3, <2>4, LenProperties DEF Concatenates
  <2>6. \A i \in 1 .. k : u[i] = a[i]
    BY <1>2, <2>1, <2>3, <2>4 DEF Concatenates
  <2>7. f.renewal # Nil => u[k + 1] = r[1]
    <3> SUFFICES ASSUME f.renewal # Nil PROVE u[k + 1] = r[1]
      OBVIOUS
    <3>0. /\ k \in Nat /\ Len(a) = k /\ Len(r) = 1 /\ Len(b) = Len(a) + Len(r)
          /\ Len(x) \in Nat
      BY <1>2, <1>5, <2>1, <2>4 DEF Concatenates
    <3> HIDE DEF k
    <3> DEFINE n == k + 1
    <3>1. /\ n \in 1 .. Len(b) + Len(x) /\ n <= Len(b)
          /\ n \in 1 .. Len(a) + Len(r) /\ ~ (n <= Len(a)) /\ n - Len(a) = 1
      BY <3>0
    <3> HIDE DEF n
    <3>2. u[n] = b[n]
      BY <2>3, <3>1 DEF Concatenates
    <3>3. b[n] = r[n - Len(a)]
      BY <2>1, <3>1 DEF Concatenates
    <3>4. u[n] = r[1]
      BY <3>1, <3>2, <3>3
    <3> QED
      BY <3>4 DEF n
  <2> QED
    BY <1>5, <2>4, <2>5, <2>6, <2>7
<1> HIDE DEF u
<1>7. \A i, j \in DOMAIN u : u[i] = u[j] => i = j
  BY <1>4 DEF IsInjective
<1>8. ASSUME NEW i \in 1 .. k, NEW j \in 1 .. k, f.history[i].op = f.history[j].op
      PROVE  i = j
  <2>1. i \in DOMAIN u /\ j \in DOMAIN u
    BY <1>2, <1>6
  <2>2. u[i] = u[j]
    BY <1>2, <1>6, <1>8
  <2> QED
    BY <1>7, <2>1, <2>2
<1>9. ASSUME NEW i \in 1 .. k, f.renewal # Nil
      PROVE  f.history[i].op # f.renewal.op
  <2>1. i \in DOMAIN u /\ k + 1 \in DOMAIN u /\ i # k + 1
    BY <1>2, <1>5, <1>6, <1>9
  <2>2. u[i] # u[k + 1]
    BY <1>7, <2>1
  <2> QED
    BY <1>2, <1>6, <1>9, <2>2
<1>10. \A c \in Held(f) : \/ c = f.enrollment
                          \/ c = f.renewal /\ f.renewal # Nil
                          \/ c = f.recovery /\ f.recovery # Nil
                          \/ \E i \in 1 .. k : c = f.history[i]
  BY DEF Held
<1> QED
  BY <1>1, <1>8, <1>9, <1>10, OperationsAssumption

\* One signature for each operation and purpose.
OneSignature ==
    \A p, q \in sent : p.op = q.op /\ p.purpose = q.purpose => p = q

(***************************************************************************)
(* No operation is ever proved with a second signature, neither of the key *)
(* nor of the installed certificate: RetryRenewalProof, the repeated       *)
(* bootstrap and the retries of an installed proof only repeat what was    *)
(* saved before the first sending (PrepareRenewal: "A lost reply never     *)
(* re-signs").                                                             *)
(***************************************************************************)
THEOREM NeverSignedTwice == Spec => []OneSignature
<1>1. IInv => OneSignature
  <2> SUFFICES ASSUME IInv, NEW p \in sent, NEW q \in sent,
                      p.op = q.op, p.purpose = q.purpose
               PROVE  p = q
    BY DEF OneSignature
  <2>1. FileOK(file) /\ p \in SavedBy(file) /\ q \in SavedBy(file)
    BY DEF IInv, SavedInv, TypeInv
  <2>2. PICK d \in Held(file) : p \in ProofsOf(d)
    BY <2>1 DEF SavedBy
  <2>3. PICK e \in Held(file) : q \in ProofsOf(e)
    BY <2>1 DEF SavedBy
  <2>4. p.op = d.op /\ q.op = e.op
    BY <2>2, <2>3 DEF ProofsOf, Proof
  <2>5. d = e
    BY <2>1, <2>4, EntriesDiffer
  <2> QED
    BY <2>2, <2>3, <2>5 DEF ProofsOf, Proof
<1> QED
  BY <1>1, Invariance, PTL
=============================================================================
