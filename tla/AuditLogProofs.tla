--------------------------- MODULE AuditLogProofs ---------------------------
(***************************************************************************)
(* The properties of AuditLog, for every set of requests and any number of *)
(* failing saves.                                                          *)
(***************************************************************************)
EXTENDS AuditLog, TLAPS

\* No two records of a chain share an idempotency key or an event identifier.
Unique(chain) ==
    \A i, j \in 1..Len(chain) :
        \/ chain[i].request.idempotencyKey = chain[j].request.idempotencyKey
        \/ chain[i].request.eventID = chain[j].request.eventID
        => i = j

\* receipt was made from a record of the chain.
Stands(chain, receipt) ==
    /\ receipt.sequence \in 1..Len(chain)
    /\ receipt = receiptFor(chain, receipt.sequence)

IInv ==
    /\ TypeOK
    /\ Unique(records)
    /\ Unique(store)
    /\ \A receipt \in receipts : Stands(records, receipt) /\ Stands(store, receipt)
    /\ \A i \in 1..Len(records) :
          i \in 1..Len(store) /\ receiptFor(store, i) = receiptFor(records, i)

-----------------------------------------------------------------------------
\* Appending to a chain leaves the receipts of its records as they are.
LEMMA ReceiptsSurviveAppend ==
    ASSUME NEW chain \in Seq(Record), NEW record \in Record, NEW i \in 1..Len(chain)
    PROVE  /\ i \in 1..Len(Append(chain, record))
           /\ receiptFor(Append(chain, record), i) = receiptFor(chain, i)
<1> DEFINE longer == Append(chain, record)
<1>1. /\ longer \in Seq(Record)
      /\ Len(longer) = Len(chain) + 1
      /\ Len(chain) \in Nat
      /\ \A j \in 1..Len(chain) : longer[j] = chain[j]
  OBVIOUS
<1>2. SubSeq(longer, 1, i) = [j \in 1..i |-> longer[j]]
  BY <1>1
<1>3. SubSeq(chain, 1, i) = [j \in 1..i |-> chain[j]]
  BY <1>1
<1>4. SubSeq(longer, 1, i) = SubSeq(chain, 1, i)
  BY <1>1, <1>2, <1>3
<1> QED
  BY <1>1, <1>4 DEF receiptFor, EventHash

\* A receipt has the type that TypeOK gives it.
LEMMA ReceiptType ==
    ASSUME NEW chain \in Seq(Record), NEW i \in 1..Len(chain)
    PROVE  /\ receiptFor(chain, i)
                 \in [request : AppendRequests, sequence : Nat \ {0},
                      eventHash : Seq(Record)]
           /\ receiptFor(chain, i).sequence = i
<1>1. chain[i] \in Record
  OBVIOUS
<1>2. SubSeq(chain, 1, i) \in Seq(Record)
  OBVIOUS
<1> QED
  BY <1>1, <1>2 DEF receiptFor, EventHash, Record

\* The chain with a fresh request appended to it is again a chain of unique
\* records.
LEMMA CandidateIsUnique ==
    ASSUME IInv, NEW request \in AppendRequests, Fresh(request)
    PROVE  /\ Candidate(request) \in Seq(Record)
           /\ Len(Candidate(request)) = Len(records) + 1
           /\ Unique(Candidate(request))
           /\ \A i \in 1..Len(records) :
                 /\ i \in 1..Len(Candidate(request))
                 /\ receiptFor(Candidate(request), i) = receiptFor(records, i)
<1> DEFINE record == [request |-> request, recordedAt |-> now]
           c == Candidate(request)
<1>1. records \in Seq(Record) /\ record \in Record /\ Len(records) \in Nat
  BY DEF IInv, TypeOK, Record
<1>2. /\ c \in Seq(Record)
      /\ Len(c) = Len(records) + 1
      /\ c[Len(records) + 1] = record
      /\ \A i \in 1..Len(records) : c[i] = records[i]
  BY <1>1 DEF Candidate
<1>3. \A i \in 1..Len(records) :
         /\ records[i].request.idempotencyKey # request.idempotencyKey
         /\ records[i].request.eventID # request.eventID
  BY DEF Fresh, Idempotency, WithEvent
<1>4. Unique(c)
  <2> SUFFICES ASSUME NEW i \in 1..Len(c), NEW j \in 1..Len(c),
                      \/ c[i].request.idempotencyKey = c[j].request.idempotencyKey
                      \/ c[i].request.eventID = c[j].request.eventID
               PROVE  i = j
    BY DEF Unique
  <2> HIDE DEF c
  <2>1. CASE i \in 1..Len(records) /\ j \in 1..Len(records)
    <3>1. c[i] = records[i] /\ c[j] = records[j]
      BY <1>2, <2>1
    <3> QED
      BY <2>1, <3>1 DEF IInv, Unique
  <2>2. CASE i \in 1..Len(records) /\ j \notin 1..Len(records)
    <3>0. j = Len(records) + 1
      BY <1>1, <1>2, <2>2
    <3>1. c[i] = records[i] /\ c[j] = record
      BY <1>2, <2>2, <3>0
    <3> QED
      BY <1>3, <2>2, <3>1
  <2>3. CASE i \notin 1..Len(records) /\ j \in 1..Len(records)
    <3>0. i = Len(records) + 1
      BY <1>1, <1>2, <2>3, SMTT(30)
    <3>1. c[i] = record /\ c[j] = records[j]
      BY <1>2, <2>3, <3>0
    <3> QED
      BY <1>3, <2>3, <3>1
  <2>4. CASE i \notin 1..Len(records) /\ j \notin 1..Len(records)
    BY <1>1, <1>2, <2>4
  <2> QED
    BY <2>1, <2>2, <2>3, <2>4
<1>5. ASSUME NEW i \in 1..Len(records)
      PROVE  i \in 1..Len(c) /\ receiptFor(c, i) = receiptFor(records, i)
  BY <1>1, ReceiptsSurviveAppend DEF Candidate
<1> QED
  BY <1>2, <1>4, <1>5

\* The empty log satisfies the invariant.
LEMMA Initially == Init => IInv
<1> SUFFICES ASSUME Init PROVE IInv
  OBVIOUS
<1>1. records = << >> /\ store = << >> /\ Len(<< >>) = 0 /\ << >> \in Seq(Record)
  BY DEF Init
<1> QED
  BY <1>1 DEF Init, IInv, TypeOK, Unique

\* Every append, failed save, restart and tick keeps the invariant.
LEMMA Step == IInv /\ [Next]_vars => IInv'
<1> SUFFICES ASSUME IInv, [Next]_vars PROVE IInv'
  OBVIOUS
<1>0. /\ TypeOK
      /\ Unique(records)
      /\ Unique(store)
      /\ \A receipt \in receipts : Stands(records, receipt) /\ Stands(store, receipt)
      /\ \A i \in 1..Len(records) :
            i \in 1..Len(store) /\ receiptFor(store, i) = receiptFor(records, i)
  BY DEF IInv
<1>1. ASSUME NEW request \in AppendRequests, Replay(request)
      PROVE  IInv'
  <2>1. PICK i \in 1..Len(records) : receipts' = receipts \cup {receiptFor(records, i)}
    BY <1>1 DEF Replay, Idempotency
  <2>2. UNCHANGED <<records, store, now, saveFailures>>
    BY <1>1 DEF Replay
  <2>3. receiptFor(records, i).sequence = i
    BY <1>0, ReceiptType DEF TypeOK
  <2>4. /\ Stands(records, receiptFor(records, i))
        /\ Stands(store, receiptFor(records, i))
    BY <1>0, <2>3 DEF Stands
  <2>5. TypeOK'
    BY <1>0, <2>1, <2>2, ReceiptType DEF TypeOK
  <2>6. (\A receipt \in receipts : Stands(records, receipt) /\ Stands(store, receipt))'
    BY <1>0, <2>1, <2>2, <2>4 DEF Stands, receiptFor, EventHash
  <2> QED
    BY <1>0, <2>2, <2>5, <2>6 DEF IInv, Unique, receiptFor, EventHash
<1>2. ASSUME NEW request \in AppendRequests,
             AppendSucceeds(request) \/ AppendFails(request)
      PROVE  IInv'
  <2> DEFINE c == Candidate(request)
  <2>1. /\ c \in Seq(Record)
        /\ Len(c) = Len(records) + 1
        /\ Unique(c)
        /\ \A i \in 1..Len(records) :
              i \in 1..Len(c) /\ receiptFor(c, i) = receiptFor(records, i)
    BY <1>2, CandidateIsUnique DEF AppendSucceeds, AppendFails
  <2>2. Len(records) \in Nat
    BY <1>0 DEF TypeOK
  <2>3. Len(records) + 1 \in 1..Len(c)
    BY <2>1, <2>2
  <2>4. \A receipt \in receipts : Stands(c, receipt)
    BY <1>0, <2>1 DEF Stands
  <2>5. CASE /\ store' = c
             /\ records' = c
             /\ receipts' = receipts \cup {receiptFor(c, Len(records) + 1)}
             /\ UNCHANGED <<now, saveFailures>>
    <3> HIDE DEF c
    <3>1. Stands(c, receiptFor(c, Len(records) + 1))
      BY <2>1, <2>3, ReceiptType DEF Stands
    <3>2. TypeOK'
      BY <1>0, <2>1, <2>3, <2>5, ReceiptType DEF TypeOK
    <3>3. \A receipt \in receipts' : Stands(c, receipt)
      BY <2>4, <2>5, <3>1
    <3>4. (\A receipt \in receipts : Stands(records, receipt) /\ Stands(store, receipt))'
      BY <2>5, <3>3 DEF Stands, receiptFor, EventHash
    <3> QED
      BY <2>1, <2>5, <3>2, <3>4 DEF IInv, Unique, receiptFor, EventHash
  <2>6. CASE /\ saveFailures' = saveFailures + 1
             /\ store' \in {store, c}
             /\ UNCHANGED <<records, receipts, now>>
    <3> HIDE DEF c
    <3>1. TypeOK'
      BY <1>0, <2>1, <2>6 DEF TypeOK
    <3>2. CASE store' = store
      BY <1>0, <2>6, <3>1, <3>2 DEF IInv, Unique, Stands, receiptFor, EventHash
    <3>3. CASE store' = c
      BY <1>0, <2>1, <2>4, <2>6, <3>1, <3>3, ZenonT(30) DEF IInv, Unique, Stands, receiptFor, EventHash
    <3> QED
      BY <2>6, <3>2, <3>3
  <2> QED
    BY <1>2, <2>5, <2>6 DEF AppendSucceeds, AppendFails
<1>3. CASE Tick
  <2>1. TypeOK'
    BY <1>0, <1>3 DEF Tick, TypeOK
  <2> QED
    BY <1>0, <1>3, <2>1 DEF Tick, IInv, Unique, Stands, receiptFor, EventHash
<1>4. CASE NewService
  <2>1. records' = store /\ UNCHANGED <<store, receipts, now, saveFailures>>
    BY <1>4 DEF NewService
  <2>2. TypeOK'
    BY <1>0, <2>1 DEF TypeOK
  <2>3. Unique(records)' /\ Unique(store)'
    BY <1>0, <2>1 DEF Unique
  <2>4. (\A receipt \in receipts : Stands(records, receipt) /\ Stands(store, receipt))'
    BY <1>0, <2>1 DEF Stands, receiptFor, EventHash
  <2>5. (\A i \in 1..Len(records) :
            i \in 1..Len(store) /\ receiptFor(store, i) = receiptFor(records, i))'
    BY <2>1 DEF receiptFor, EventHash
  <2> QED
    BY <2>2, <2>3, <2>4, <2>5 DEF IInv
<1>5. CASE UNCHANGED vars
  BY <1>0, <1>5 DEF vars, IInv, TypeOK, Unique, Stands, receiptFor, EventHash
<1> QED
  BY <1>1, <1>2, <1>3, <1>4, <1>5 DEF Next

\* The inductive invariant holds of the audit log.
THEOREM Invariance == Spec => []IInv
<1>1. Init => IInv
  BY Initially
<1>2. IInv /\ [Next]_vars => IInv'
  BY Step
<1> QED
  BY <1>1, <1>2, PTL DEF Spec

-----------------------------------------------------------------------------
\* A receipt that was handed out names, for ever after, the record it was made
\* from, in memory and in the store (service.go Append).
THEOREM ReceiptsStandForEver == Spec => []ReceiptsStand
<1>1. IInv => ReceiptsStand
  BY DEF IInv, ReceiptsStand, Stands, receiptFor
<1> QED
  BY <1>1, Invariance, PTL

\* No request and no event is answered with two receipts (service.go Append).
THEOREM ReceiptsAreUnique == Spec => []OneReceiptPerEvent
<1>1. IInv => OneReceiptPerEvent
  <2> SUFFICES ASSUME IInv, NEW left \in receipts, NEW right \in receipts,
                      \/ left.request.idempotencyKey = right.request.idempotencyKey
                      \/ left.request.eventID = right.request.eventID
               PROVE  left = right
    BY DEF OneReceiptPerEvent
  <2>1. /\ left.sequence \in 1..Len(records)
        /\ left = receiptFor(records, left.sequence)
        /\ right.sequence \in 1..Len(records)
        /\ right = receiptFor(records, right.sequence)
    BY DEF IInv, Stands
  <2>2. /\ left.request = records[left.sequence].request
        /\ right.request = records[right.sequence].request
    BY <2>1 DEF receiptFor
  <2>3. left.sequence = right.sequence
    BY <2>1, <2>2 DEF IInv, Unique
  <2> QED
    BY <2>1, <2>3
<1> QED
  BY <1>1, Invariance, PTL
=============================================================================
