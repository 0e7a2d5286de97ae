------------------------ MODULE BootTransitionProofs ------------------------
(***************************************************************************)
(* Proofs about the physical lane: its journal of boot transitions, the    *)
(* board on it and the call in flight, for all actions, configurations,    *)
(* numbers of generations, failures, restarts and exchanged boards.        *)
(***************************************************************************)
EXTENDS BootTransition, FiniteSetTheorems, TLAPS

-----------------------------------------------------------------------------
(***************************************************************************)
(* The inductive invariant.                                                *)
(***************************************************************************)
\* The call has no transition in hand.
Outside == {"idle", "recovering", "initial_safe_off", "begin"}

\* The call recovers a transition of an earlier call.
Recovery == {"recover_safe_off", "recover_put"}

\* The call runs the transition it has begun.
Underway ==
    {"cold_interval", "prompt", "arm_normal", "apply_power", "put_power", "observe",
     "release", "preflight", "payload", "guarded_run", "completing", "put_completed"}

Ending == {"failing", "terminalize"}

\* A record that is active or quarantined keeps the lane.
OpenIn(t, k) == t[k] # Nil /\ t[k].status \notin SafeTerminal

\* What the journal says by itself: an active record can still be ended, one
\* record at most keeps the lane, and the generations of an action are counted
\* without a gap.
JournalInv(t) ==
    /\ t \in [Keys -> Record \cup {Nil}]
    /\ \A k \in Keys :
          t[k] # Nil /\ t[k].status = "active" =>
              ~ t[k].finalProof /\ t[k].rank <= LastRank(k[1])
    /\ \A k, l \in Keys : OpenIn(t, k) /\ OpenIn(t, l) => k = l
    /\ \A a \in Actions : \E n \in 0..MaxGeneration :
          \A g \in 1..MaxGeneration : t[<<a, g>>] # Nil <=> g <= n

\* The rank that the transition in hand has at each point.
RankAt(p, act, power) ==
    CASE p = "cold_interval" -> Requested
      [] p = "prompt" -> AwaitingOperator
      [] p = "arm_normal" -> IF power = "manual" THEN AwaitingOperator ELSE OperatorAcknowledged
      [] p \in {"apply_power", "put_power"} -> OperatorAcknowledged
      [] p = "observe" -> PowerEstablished
      [] p = "release" -> ModeObserved
      [] p \in {"preflight", "payload", "guarded_run"} -> OperatorReleased
      [] p \in {"completing", "put_completed"} -> LastRank(act)

\* The adapter's copy and the durable record of the transition in hand.
UnderwayInv(p, act, power, record, durable) ==
    /\ durable.status = "active"
    /\ record.status = "active"
    /\ record.power = power /\ durable.power = power
    /\ record.rank = RankAt(p, act, power) /\ durable.rank = record.rank
    /\ record.finalProof <=> (p = "put_completed" /\ power = "manual")
    /\ p = "arm_normal" => RequestedBootMode(act) = "normal"
    /\ p = "apply_power" => power = "relay"
    /\ p \in {"release", "preflight", "payload", "guarded_run"} =>
          RequestedBootMode(act) = "rpiboot"

RecoveryInv(p, power, record, durable, isSafe) ==
    /\ durable.status = "active"
    /\ record.status = "active"
    /\ record.power = power /\ durable.power = power
    /\ record.rank = durable.rank
    /\ power = "relay" => ~ record.finalProof
    /\ power = "manual" /\ isSafe => record.finalProof
    /\ p = "recover_safe_off" => ~ isSafe

EndingInv(p, act, power, record, durable, isSafe) ==
    /\ record.power = power
    /\ p = "failing" => durable.status = "active" /\ record.status = "active" /\ ~ record.finalProof
    /\ durable.status \in {"active", "completed"}
    /\ durable.status = "active" =>
          /\ durable.power = power
          /\ durable.rank <= record.rank
          /\ record.rank <= LastRank(act)
          /\ power = "relay" => ~ record.finalProof
          /\ power = "manual" /\ isSafe => record.finalProof

\* Where the call is, and what it has in hand.
CallInv ==
    /\ key = Nil <=> pc \in Outside
    /\ pc \in {"initial_safe_off", "begin"} => \A k \in Keys : ~ OpenIn(transitions, k)
    /\ pc \in Recovery => RecoveryInv(pc, powerControl, local, transitions[key], safe)
    /\ pc \in Underway =>
          key[1] = action /\ UnderwayInv(pc, action, powerControl, local, transitions[key])
    /\ pc \in Ending =>
          key[1] = action /\ EndingInv(pc, action, powerControl, local, transitions[key], safe)
    /\ pc \in Underway \cup Ending =>
          \A k \in Keys : OpenIn(transitions, k) => k = key

\* A powered target has an open record, and one begun with the relay is
\* powered through the relay.
Powered(t, lane, supply) ==
    lane # "off" =>
        \E k \in Keys : OpenIn(t, k) /\ (t[k].power = "relay" => supply # "none")

LaneInv ==
    /\ Powered(transitions, target, lease)
    /\ lease # "none" => powerControl = "relay"
    /\ safe => target = "off" /\ pc \in {"begin", "recover_put", "put_completed", "terminalize"}
    /\ pc = "put_completed" => safe

\* The USB instance that an execution pinned is the one it has read, and the
\* one its payload finds unless a board was exchanged since the last check.
PinInv ==
    /\ pin # "none" =>
          pc \in {"payload", "guarded_run", "completing", "put_completed", "terminalize"}
    /\ (pc = "payload" /\ pin = "held") \/ (pc = "guarded_run" /\ ~ exchanged) =>
          board = "expected" /\ owned[board] = (mode = "owned")
    /\ pc = "guarded_run" /\ Commit(action) => mode = "fresh"

HistoryInv ==
    /\ pc \in {"completing", "put_completed"} => executed
    /\ \A k \in cutOff : transitions[k] # Nil
    /\ pc \in Underway \cup Ending => key \notin cutOff
    /\ StartsOnItsFreshBoard
    /\ JournalTakesEveryRecord

IInv ==
    /\ TypeOK
    /\ JournalInv(transitions)
    /\ CallInv
    /\ LaneInv
    /\ PinInv
    /\ HistoryInv

-----------------------------------------------------------------------------
(***************************************************************************)
(* Lemmas about ranks and about the journal.                               *)
(***************************************************************************)
Points == Outside \cup Recovery \cup Underway \cup Ending

\* The rank of each point, one fact at a time (bootTransitionRank).
LEMMA RankValues ==
    ASSUME NEW act, NEW power
    PROVE  /\ RankAt("cold_interval", act, power) = 0
           /\ RankAt("prompt", act, power) = 1
           /\ power = "manual" => RankAt("arm_normal", act, power) = 1
           /\ power # "manual" => RankAt("arm_normal", act, power) = 2
           /\ RankAt("apply_power", act, power) = 2
           /\ RankAt("put_power", act, power) = 2
           /\ RankAt("observe", act, power) = 3
           /\ RankAt("release", act, power) = 4
           /\ RankAt("preflight", act, power) = 5
           /\ RankAt("payload", act, power) = 5
           /\ RankAt("guarded_run", act, power) = 5
           /\ RankAt("completing", act, power) = LastRank(act)
           /\ RankAt("put_completed", act, power) = LastRank(act)
  BY DEF RankAt, Requested, AwaitingOperator, OperatorAcknowledged, PowerEstablished,
         ModeObserved, OperatorReleased

\* A normal boot ends with the observation of its mode, any other one with the
\* release of BOOTSEL (BootTransition.Validate).
LEMMA LastRanks ==
    ASSUME NEW act
    PROVE  /\ RequestedBootMode(act) \in {"normal", "rpiboot"}
           /\ RequestedBootMode(act) = "normal" => LastRank(act) = 4
           /\ RequestedBootMode(act) = "rpiboot" => LastRank(act) = 5
  BY DEF LastRank, RequestedBootMode, ModeObserved, OperatorReleased

\* A key is the action and its generation.
LEMMA KeyParts ==
    ASSUME NEW k \in Keys
    PROVE  k[1] \in Actions /\ k[2] \in 1..MaxGeneration /\ k = <<k[1], k[2]>>
  BY DEF Keys

\* u is the journal t after a put of the record r for k.
Puts(t, k, r, u) == u = [t EXCEPT ![k] = Kept(r)]

\* How two journals differ by a put.
PutAt(t, k, r, u) ==
    /\ u[k] = Kept(r)
    /\ u[k] # Nil /\ u[k] \in Record
    /\ u[k].status = r.status /\ u[k].power = r.power
    /\ r.status = "active" => u[k] = r
    /\ \A l \in Keys : l # k => u[l] = t[l]

\* A put that moves an active record on or ends it leaves a journal that is in
\* order (store.go PutBootTransition).
LEMMA JournalPut ==
    ASSUME NEW t, JournalInv(t), NEW k \in Keys, t[k] # Nil, t[k].status = "active",
           NEW r \in Record,
           r.status = "active" => ~ r.finalProof /\ r.rank <= LastRank(k[1]),
           NEW u, Puts(t, k, r, u)
    PROVE  JournalInv(u) /\ PutAt(t, k, r, u)
<1>1. Kept(r) \in Record /\ Kept(r).status = r.status /\ Kept(r).power = r.power
  BY DEF Kept, Record, Requested, Ranks
<1>2. r.status = "active" => Kept(r) = r
  BY DEF Kept
<1>3. Kept(r) # Nil
  BY <1>1, LaneAssumption
<1>4. u \in [Keys -> Record \cup {Nil}]
  BY <1>1 DEF JournalInv, Puts
<1>5. u[k] = Kept(r) /\ \A l \in Keys : l # k => u[l] = t[l]
  BY DEF JournalInv, Puts
<1>6. PutAt(t, k, r, u)
  BY <1>1, <1>2, <1>3, <1>5 DEF PutAt
<1>7. \A l \in Keys : u[l] # Nil <=> t[l] # Nil
  BY <1>3, <1>5
<1>8. \A l \in Keys :
          u[l] # Nil /\ u[l].status = "active" =>
              ~ u[l].finalProof /\ u[l].rank <= LastRank(l[1])
  BY <1>1, <1>2, <1>5 DEF JournalInv
<1>9. \A l \in Keys : OpenIn(u, l) => OpenIn(t, l)
  BY <1>5 DEF OpenIn, SafeTerminal
<1>10. \A l, j \in Keys : OpenIn(u, l) /\ OpenIn(u, j) => l = j
  BY <1>9 DEF JournalInv
<1>11. \A a \in Actions : \E n \in 0..MaxGeneration :
          \A g \in 1..MaxGeneration : u[<<a, g>>] # Nil <=> g <= n
  <2>1. \A a \in Actions, g \in 1..MaxGeneration : <<a, g>> \in Keys
    BY DEF Keys
  <2> QED
    BY <1>7, <2>1 DEF JournalInv
<1> QED
  BY <1>4, <1>6, <1>8, <1>10, <1>11 DEF JournalInv

\* The generations of an action that the journal has are 1 to n, and the next
\* one is n + 1 (store.go beginBootTransition).
LEMMA NextGeneration ==
    ASSUME JournalInv(transitions), NEW act \in Actions
    PROVE  \E n \in 0..MaxGeneration :
              /\ Generation(act) = n + 1
              /\ \A g \in 1..MaxGeneration : transitions[<<act, g>>] # Nil <=> g <= n
<1>1. PICK n \in 0..MaxGeneration :
          \A g \in 1..MaxGeneration : transitions[<<act, g>>] # Nil <=> g <= n
  BY DEF JournalInv
<1>2. {g \in 1..MaxGeneration : Present(<<act, g>>)} = 1..n
  BY <1>1, LaneAssumption DEF Present
<1>3. Cardinality(1..n) = n
  <2>1. n \in Int /\ n >= 0
    BY LaneAssumption
  <2>2. CASE n = 0
    BY <2>2, FS_Interval
  <2>3. CASE n # 0
    BY <2>1, <2>3, FS_Interval
  <2> QED
    BY <2>2, <2>3
<1>4. Generation(act) = n + 1
  <2> DEFINE present == {g \in 1..MaxGeneration : Present(<<act, g>>)}
  <2>1. Generation(act) = 1 + Cardinality(present)
    BY DEF Generation
  <2> HIDE DEF present
  <2>2. Cardinality(present) = n
    BY <1>2, <1>3 DEF present
  <2> QED
    BY <2>1, <2>2
<1> QED
  BY <1>1, <1>4

\* No record keeps the lane.
Free(t) == \A k \in Keys : ~ OpenIn(t, k)

\* The journal has the generations 1 to n of an action.
Counted(t, act, n) == \A g \in 1..MaxGeneration : t[<<act, g>>] # Nil <=> g <= n

\* u is the journal t with the first record r of k.
Begins(t, k, r, u) == u = [t EXCEPT ![k] = r]

\* A transition begun on a lane that no record keeps is the only open one, and
\* the generations stay without a gap.
LEMMA JournalBegins ==
    ASSUME NEW t, JournalInv(t), Free(t),
           NEW act \in Actions, NEW n \in 0..MaxGeneration, n + 1 <= MaxGeneration,
           Counted(t, act, n),
           NEW r \in Record, r.status = "active", ~ r.finalProof, r.rank = 0,
           NEW k, k = <<act, n + 1>>,
           NEW u, Begins(t, k, r, u)
    PROVE  /\ JournalInv(u)
           /\ k \in Keys /\ k[1] = act /\ t[k] = Nil
           /\ u[k] = r /\ \A l \in Keys : l # k => u[l] = t[l]
<1>1. n \in Nat /\ n + 1 \in 1..MaxGeneration /\ MaxGeneration \in Nat
  BY LaneAssumption
<1>2. k \in Keys /\ k[1] = act /\ k[2] = n + 1
  BY <1>1 DEF Keys
<1>3. t[k] = Nil
  BY <1>1 DEF Counted
<1>4. u \in [Keys -> Record \cup {Nil}]
  BY <1>2 DEF JournalInv, Begins
<1>5. u[k] = r /\ \A l \in Keys : l # k => u[l] = t[l]
  BY <1>2 DEF JournalInv, Begins
<1>6. r # Nil
  BY LaneAssumption
<1>7. \A l \in Keys :
          u[l] # Nil /\ u[l].status = "active" =>
              ~ u[l].finalProof /\ u[l].rank <= LastRank(l[1])
  <2>1. LastRank(k[1]) \in {4, 5}
    BY LastRanks
  <2> QED
    BY <1>5, <2>1 DEF JournalInv
<1>8. \A l \in Keys : OpenIn(u, l) => l = k
  BY <1>5 DEF OpenIn, Free
<1>9. ASSUME NEW a \in Actions
      PROVE  \E m \in 0..MaxGeneration :
                \A g \in 1..MaxGeneration : u[<<a, g>>] # Nil <=> g <= m
  <2>1. \A g \in 1..MaxGeneration : <<a, g>> \in Keys
    BY DEF Keys
  <2>2. CASE a = act
    <3>1. \A g \in 1..MaxGeneration : u[<<a, g>>] # Nil <=> g <= n + 1
      <4> SUFFICES ASSUME NEW g \in 1..MaxGeneration
                   PROVE  u[<<a, g>>] # Nil <=> g <= n + 1
        OBVIOUS
      <4>1. CASE g = n + 1
        BY <1>1, <1>5, <1>6, <2>2, <4>1
      <4>2. CASE g # n + 1
        <5>1. <<a, g>> # k
          BY <4>2
        <5>2. u[<<a, g>>] = t[<<a, g>>]
          BY <1>5, <2>1, <5>1
        <5> QED
          BY <1>1, <2>2, <4>2, <5>2 DEF Counted
      <4> QED
        BY <4>1, <4>2
    <3>2. n + 1 \in 0..MaxGeneration
      BY <1>1
    <3> QED
      BY <3>1, <3>2
  <2>3. CASE a # act
    <3>1. \A g \in 1..MaxGeneration : <<a, g>> # k
      BY <2>3
    <3>2. \A g \in 1..MaxGeneration : u[<<a, g>>] = t[<<a, g>>]
      BY <1>5, <2>1, <3>1
    <3>3. PICK m \in 0..MaxGeneration :
              \A g \in 1..MaxGeneration : t[<<a, g>>] # Nil <=> g <= m
      BY DEF JournalInv
    <3> QED
      BY <3>2, <3>3
  <2> QED
    BY <2>2, <2>3
<1> QED
  BY <1>2, <1>3, <1>4, <1>5, <1>7, <1>8, <1>9 DEF JournalInv

-----------------------------------------------------------------------------
(***************************************************************************)
(* Every step keeps the invariant.                                         *)
(***************************************************************************)
\* The parts of the type invariant that only the lane, the bounds and the
\* history are concerned with.
SideTypes ==
    /\ powerControl \in PowerModes
    /\ mode \in {"fresh", "owned", "auto_reconcile"}
    /\ cached \in BOOLEAN
    /\ lease \in {"none", "held", "broken"}
    /\ pin \in {"none", "held", "broken"}
    /\ safe \in BOOLEAN
    /\ target \in {"off", "rpiboot", "normal"}
    /\ board \in {"expected", "other"}
    /\ owned \in [{"expected", "other"} -> BOOLEAN]
    /\ saveFailures \in Nat /\ crashes \in Nat /\ swaps \in Nat
    /\ cutOff \subseteq Keys
    /\ executed \in BOOLEAN /\ exchanged \in BOOLEAN
    /\ committed \subseteq
          [board : {"expected", "other"}, owned : BOOLEAN, exchanged : BOOLEAN]
    /\ refusedPut \in BOOLEAN

\* The parts that the call and its transition are concerned with.
CallTypes ==
    /\ pc \in Points
    /\ action \in Actions \cup {Nil} /\ (action = Nil <=> pc = "idle")
    /\ key \in Keys \cup {Nil}
    /\ local \in Record \cup {Nil} /\ (local = Nil <=> key = Nil)
    /\ key # Nil => transitions[key] # Nil

\* The type invariant in those parts, before and after a step.
LEMMA TypeParts ==
    /\ TypeOK <=> transitions \in [Keys -> Record \cup {Nil}] /\ SideTypes /\ CallTypes
    /\ TypeOK' <=> transitions' \in [Keys -> Record \cup {Nil}] /\ SideTypes' /\ CallTypes'
<1>1. Points = {"idle", "recovering", "recover_put", "begin", "apply_power", "put_power",
               "put_completed", "terminalize"} \cup SafeOffPoints \cup FailingPoints
  BY DEF Points, Outside, Recovery, Underway, Ending, SafeOffPoints, FailingPoints
<1> QED
  BY <1>1 DEF TypeOK, SideTypes, CallTypes, Present

\* A put that ends a record safely finds the target off; any other one leaves
\* the lane to its record.
LEMMA PoweredPut ==
    ASSUME NEW t, NEW lane, NEW supply, Powered(t, lane, supply),
           NEW k \in Keys, t[k] # Nil,
           NEW r, r.power = t[k].power, r.status \in SafeTerminal => lane = "off",
           NEW u, PutAt(t, k, r, u)
    PROVE  Powered(u, lane, supply)
<1> SUFFICES ASSUME lane # "off"
             PROVE  \E l \in Keys : OpenIn(u, l) /\ (u[l].power = "relay" => supply # "none")
  BY DEF Powered
<1>1. PICK l \in Keys : OpenIn(t, l) /\ (t[l].power = "relay" => supply # "none")
  BY DEF Powered
<1>2. CASE l = k
  <2>1. OpenIn(u, k)
    BY DEF OpenIn, PutAt
  <2>2. u[k].power = t[k].power
    BY DEF PutAt
  <2> QED
    BY <1>1, <1>2, <2>1, <2>2
<1>3. CASE l # k
  BY <1>1, <1>3 DEF OpenIn, PutAt
<1> QED
  BY <1>2, <1>3

\* What a put leaves behind, whether the save returned an error or not.
Stored(k, r) ==
    /\ saveFailures' \in Nat /\ refusedPut' = FALSE
    /\ JournalInv(transitions')
    /\ Powered(transitions', target, lease)
    /\ transitions'[k] # Nil
    /\ \A l \in Keys : l # k => transitions'[l] = transitions[l]
    /\ transitions' = transitions \/ PutAt(transitions, k, r, transitions')

\* Every outcome of a put that the journal has no reason to refuse.
LEMMA PutStores ==
    ASSUME IInv, NEW k \in Keys, transitions[k] # Nil, transitions[k].status = "active",
           NEW r \in Record, Acceptable(k, r),
           r.status \in SafeTerminal => target = "off",
           PutBootTransition(k, r)
    PROVE  Stored(k, r) /\ (Saved(k, r) => PutAt(transitions, k, r, transitions'))
<1>1. Saved(k, r) \/ SaveFailed(k, r)
  BY DEF PutBootTransition, PutFails, Refused
<1>2. saveFailures' \in Nat /\ refusedPut' = FALSE
  <2>1. saveFailures' \in Nat
    BY <1>1 DEF Saved, SaveFailed, IInv, TypeOK
  <2>2. refusedPut \in BOOLEAN /\ ~ refusedPut
    BY DEF IInv, TypeOK, HistoryInv, JournalTakesEveryRecord
  <2>3. refusedPut' = refusedPut
    BY <1>1 DEF Saved, SaveFailed
  <2> QED
    BY <2>1, <2>2, <2>3, Zenon
<1>3. r.power = transitions[k].power
  BY DEF Acceptable, validBootTransitionUpdate
<1>4. r.status = "active" => ~ r.finalProof /\ r.rank <= LastRank(k[1])
  BY DEF Acceptable, validBootTransitionUpdate, Validate, validatePowerControlEvidence
<1>5. JournalInv(transitions) /\ Powered(transitions, target, lease)
  BY DEF IInv, LaneInv
<1>6. CASE transitions' = transitions
  <2>1. Saved(k, r) => Puts(transitions, k, r, transitions')
    BY DEF Saved, Puts
  <2>2. Saved(k, r) => PutAt(transitions, k, r, transitions')
    BY <1>4, <1>5, <2>1, JournalPut
  <2> QED
    BY <1>2, <1>5, <1>6, <2>2 DEF Stored
<1>7. CASE Puts(transitions, k, r, transitions')
  <2>1. JournalInv(transitions') /\ PutAt(transitions, k, r, transitions')
    BY <1>4, <1>5, <1>7, JournalPut
  <2>2. Powered(transitions', target, lease)
    BY <1>3, <1>5, <2>1, PoweredPut
  <2>3. /\ transitions'[k] # Nil
        /\ \A l \in Keys : l # k => transitions'[l] = transitions[l]
    BY <2>1 DEF PutAt
  <2> QED
    BY <1>2, <2>1, <2>2, <2>3 DEF Stored
<1> QED
  BY <1>1, <1>6, <1>7 DEF Saved, SaveFailed, Puts

\* A call that returns leaves nothing in hand.
LEMMA ReturnKeeps ==
    ASSUME IInv, Returns, SideTypes', JournalInv(transitions'),
           Powered(transitions', target', lease'),
           lease' # "none" => powerControl' = "relay",
           \A k \in Keys : transitions[k] # Nil => transitions'[k] # Nil,
           UNCHANGED <<cutOff, exchanged, committed>>, refusedPut' = FALSE
    PROVE  IInv'
<1>1. CallTypes'
  BY DEF Returns, Goto, CallTypes, Points, Outside
<1>2. TypeOK'
  BY <1>1, TypeParts DEF JournalInv
<1>3. CallInv'
  BY DEF Returns, Goto, CallInv, Outside, Recovery, Underway, Ending
<1>4. LaneInv'
  BY DEF Returns, Goto, LaneInv
<1>5. PinInv'
  BY DEF Returns, Goto, PinInv
<1>6. HistoryInv'
  BY DEF Returns, Goto, HistoryInv, Underway, Ending, IInv, TypeOK,
         StartsOnItsFreshBoard, JournalTakesEveryRecord
<1> QED
  BY <1>2, <1>3, <1>4, <1>5, <1>6 DEF IInv

\* The journal is not touched and the call returns.
LEMMA RefusalKeeps ==
    ASSUME IInv, Returns, UNCHANGED <<powerControl, mode, cached, lease, laneVars>>,
           UNCHANGED <<transitions, refusedPut>>, saveFailures' \in Nat,
           UNCHANGED <<crashes, swaps, historyVars>>
    PROVE  IInv'
<1>1. SideTypes'
  BY TypeParts DEF IInv, SideTypes, Returns, laneVars, historyVars
<1>2. JournalInv(transitions') /\ Powered(transitions', target', lease')
  BY DEF IInv, LaneInv, laneVars
<1>3. lease' # "none" => powerControl' = "relay"
  BY DEF IInv, LaneInv
<1>4. \A k \in Keys : transitions[k] # Nil => transitions'[k] # Nil
  OBVIOUS
<1>5. UNCHANGED <<cutOff, exchanged, committed>>
  BY DEF historyVars
<1>6. refusedPut' = FALSE
  <2>1. refusedPut \in BOOLEAN /\ ~ refusedPut
    BY DEF IInv, TypeOK, HistoryInv, JournalTakesEveryRecord
  <2> QED
    BY <2>1, Zenon
<1> QED
  BY <1>1, <1>2, <1>3, <1>4, <1>5, <1>6, ReturnKeeps

\* The record of a transition is put and the call returns.
LEMMA PutReturnKeeps ==
    ASSUME IInv, NEW k \in Keys, NEW r, Stored(k, r), Returns,
           UNCHANGED <<powerControl, mode, cached, lease, laneVars, crashes, swaps,
                       historyVars>>
    PROVE  IInv'
<1>1. SideTypes'
  BY TypeParts DEF IInv, SideTypes, Returns, laneVars, historyVars, Stored
<1>2. JournalInv(transitions') /\ Powered(transitions', target', lease')
  BY DEF Stored, laneVars
<1>3. lease' # "none" => powerControl' = "relay"
  BY DEF IInv, LaneInv
<1>4. \A l \in Keys : transitions[l] # Nil => transitions'[l] # Nil
  BY DEF Stored
<1>5. UNCHANGED <<cutOff, exchanged, committed>> /\ refusedPut' = FALSE
  BY DEF historyVars, Stored
<1> QED
  BY <1>1, <1>2, <1>3, <1>4, <1>5, ReturnKeeps

\* A new call begins with the recovery.
LEMMA CallKeeps == ASSUME IInv, NEW act \in Actions, Call(act) PROVE IInv'
<1>1. SideTypes' /\ JournalInv(transitions')
  BY TypeParts DEF IInv, Call, SideTypes, laneVars, adapterVars, journalVars, historyVars
<1>2. CallTypes'
  <2>1. act # Nil
    BY LaneAssumption
  <2> QED
    BY <2>1, TypeParts DEF IInv, Call, At, Goto, CallTypes, Points, Outside, journalVars
<1>3. TypeOK'
  BY <1>1, <1>2, TypeParts DEF JournalInv
<1>4. CallInv'
  BY DEF Call, At, Goto, IInv, CallInv, Outside, Recovery, Underway, Ending
<1>5. LaneInv'
  BY DEF Call, At, Goto, IInv, LaneInv, laneVars, adapterVars, journalVars
<1>6. PinInv'
  BY DEF Call, At, Goto, IInv, PinInv, adapterVars
<1>7. HistoryInv'
  BY DEF Call, At, Goto, IInv, HistoryInv, Underway, Ending, journalVars, historyVars,
         StartsOnItsFreshBoard, JournalTakesEveryRecord
<1> QED
  BY <1>1, <1>3, <1>4, <1>5, <1>6, <1>7 DEF IInv

\* A lane without an open and without a quarantined transition is taken on.
LEMMA RecoveredKeeps == ASSUME IInv, Recovered PROVE IInv'
<1>1. CASE HasQuarantinedBootTransition
  <2>1. saveFailures' \in Nat
    BY DEF Recovered, journalVars, IInv, TypeOK
  <2> QED
    BY <1>1, <2>1, RefusalKeeps DEF Recovered, journalVars
<1>2. CASE ~ HasQuarantinedBootTransition
  <2>1. pc = "recovering" /\ pc' = "initial_safe_off"
        /\ UNCHANGED <<action, key, local, safe, pin, transitions, refusedPut, lease, target,
                       powerControl, cutOff, exchanged, committed, executed>>
    BY <1>2 DEF Recovered, At, Goto, Keep, journalVars, laneVars, historyVars
  <2>2. SideTypes' /\ JournalInv(transitions')
    BY <2>1, TypeParts DEF IInv, Recovered, SideTypes, laneVars, journalVars, historyVars
  <2>3. CallTypes'
    BY <2>1, TypeParts DEF IInv, CallTypes, Points, Outside
  <2>4. TypeOK'
    BY <2>2, <2>3, TypeParts DEF JournalInv
  <2>5. \A k \in Keys : ~ OpenIn(transitions', k)
    <3>1. \A k \in Keys : ~ Incomplete(k) /\ ~ (Present(k) /\ transitions[k].status = "quarantined")
      BY <1>2 DEF Recovered, HasQuarantinedBootTransition
    <3> QED
      BY <2>1, <3>1 DEF OpenIn, Incomplete, Present, Terminal, SafeTerminal
  <2>6. CallInv'
    BY <2>1, <2>5 DEF IInv, CallInv, Outside, Recovery, Underway, Ending
  <2>7. LaneInv'
    BY <2>1 DEF IInv, LaneInv
  <2>8. PinInv'
    BY <2>1 DEF IInv, PinInv
  <2>9. HistoryInv'
    BY <2>1 DEF IInv, HistoryInv, Underway, Ending, StartsOnItsFreshBoard,
                JournalTakesEveryRecord
  <2> QED
    BY <2>2, <2>4, <2>6, <2>7, <2>8, <2>9 DEF IInv
<1> QED
  BY <1>1, <1>2

\* An incomplete transition is an active one.
LEMMA IncompleteIsActive ==
    ASSUME IInv, NEW k \in Keys, Incomplete(k)
    PROVE  /\ transitions[k] \in Record /\ transitions[k] # Nil
           /\ transitions[k].status = "active"
           /\ ~ transitions[k].finalProof /\ transitions[k].rank <= LastRank(k[1])
<1>1. transitions[k] \in Record /\ transitions[k] # Nil
  BY DEF IInv, JournalInv, Incomplete, Present
<1>2. transitions[k].status = "active"
  BY <1>1 DEF Record, Incomplete, Terminal
<1> QED
  BY <1>1, <1>2 DEF IInv, JournalInv

\* A transition begun under the other power control can be quarantined.
LEMMA RecoverMismatchKeeps == ASSUME IInv, RecoverMismatch PROVE IInv'
<1>1. PICK k \in Keys :
          /\ Incomplete(k)
          /\ PutBootTransition(k, [transitions[k] EXCEPT !.status = "quarantined"])
  BY DEF RecoverMismatch
<1> DEFINE r == [transitions[k] EXCEPT !.status = "quarantined"]
<1>2. /\ transitions[k] \in Record /\ transitions[k] # Nil
      /\ transitions[k].status = "active"
      /\ ~ transitions[k].finalProof /\ transitions[k].rank <= LastRank(k[1])
  BY <1>1, IncompleteIsActive
<1>3. /\ r \in Record /\ r.status = "quarantined" /\ r.power = transitions[k].power
      /\ r.rank = transitions[k].rank /\ r.finalProof = transitions[k].finalProof
  BY <1>2 DEF Record, Terminal
<1>4. PutBootTransition(k, r)
  BY <1>1
<1> HIDE DEF r
<1>5. Acceptable(k, r)
  <2>1. r.rank >= transitions[k].rank
    BY <1>2, <1>3 DEF Record, Ranks
  <2> QED
    BY <1>2, <1>3, <2>1 DEF Acceptable, Present, validBootTransitionUpdate, Validate,
       validatePowerControlEvidence, SafeTerminal, Terminal
<1>6. Stored(k, r)
  BY <1>2, <1>3, <1>4, <1>5, PutStores DEF SafeTerminal
<1> QED
  BY <1>6, PutReturnKeeps DEF RecoverMismatch

\* A transition begun under this power control is taken up to be ended.
LEMMA RecoverSelectKeeps == ASSUME IInv, RecoverSelect PROVE IInv'
<1>1. PICK k \in Keys :
          /\ Incomplete(k) /\ transitions[k].power = powerControl
          /\ key' = k /\ local' = transitions[k]
  BY DEF RecoverSelect
<1>2. /\ transitions[k] \in Record /\ transitions[k] # Nil
      /\ transitions[k].status = "active" /\ ~ transitions[k].finalProof
  BY <1>1, IncompleteIsActive
<1>3. pc = "recovering" /\ pc' = "recover_safe_off" /\ executed' = FALSE
      /\ UNCHANGED <<action, safe, target, lease, powerControl, pin, transitions, refusedPut,
                     cutOff, exchanged, committed>>
  BY DEF RecoverSelect, At, Goto, laneVars, adapterVars, journalVars
<1>4. SideTypes' /\ JournalInv(transitions')
  BY <1>3, TypeParts
     DEF IInv, RecoverSelect, SideTypes, laneVars, adapterVars, journalVars
<1>5. CallTypes'
  <2>1. k # Nil
    BY LaneAssumption
  <2> QED
    BY <1>1, <1>2, <1>3, <2>1, TypeParts DEF IInv, CallTypes, Points, Recovery
<1>6. TypeOK'
  BY <1>4, <1>5, TypeParts DEF JournalInv
<1>7. CallInv'
  <2>1. key' # Nil
    BY <1>1, LaneAssumption
  <2>2. ~ safe
    BY <1>3 DEF IInv, LaneInv
  <2>3. RecoveryInv(pc', powerControl', local', transitions'[key'], safe')
    BY <1>1, <1>2, <1>3, <2>2 DEF RecoveryInv
  <2> QED
    BY <1>3, <2>1, <2>3 DEF CallInv, Outside, Recovery, Underway, Ending
<1>8. LaneInv'
  BY <1>3 DEF IInv, LaneInv
<1>9. PinInv'
  BY <1>3 DEF IInv, PinInv
<1>10. HistoryInv'
  BY <1>3 DEF IInv, HistoryInv, Underway, Ending, StartsOnItsFreshBoard,
              JournalTakesEveryRecord
<1> QED
  BY <1>4, <1>6, <1>7, <1>8, <1>9, <1>10 DEF IInv

\* The transition in hand is present, and is the adapter's copy's.
LEMMA InHand ==
    ASSUME IInv, pc \in Recovery \cup Underway \cup Ending
    PROVE  /\ key \in Keys /\ key # Nil
           /\ local \in Record /\ local # Nil
           /\ transitions[key] \in Record /\ transitions[key] # Nil
           /\ pc # "idle" /\ action \in Actions /\ action # Nil
<1>1. key # Nil
  BY DEF IInv, CallInv, Outside, Recovery, Underway, Ending
<1>2. pc # "idle"
  BY DEF Recovery, Underway, Ending
<1> QED
  BY <1>1, <1>2, TypeParts DEF IInv, CallTypes

\* An interrupted transition is ended as the proof of safe-off allows.
LEMMA RecoverPutKeeps == ASSUME IInv, RecoverPut PROVE IInv'
<1> DEFINE ending == IF safe THEN "interrupted_safe_off" ELSE "quarantined"
           r == [local EXCEPT !.status = ending]
<1>1. pc = "recover_put"
  BY DEF RecoverPut, At
<1>2. /\ key \in Keys /\ key # Nil /\ local \in Record
      /\ transitions[key] \in Record /\ transitions[key] # Nil
      /\ action \in Actions /\ action # Nil
  BY <1>1, InHand DEF Recovery
<1>3. RecoveryInv(pc, powerControl, local, transitions[key], safe)
  BY <1>1 DEF IInv, CallInv, Recovery
<1>4. /\ r \in Record /\ r.status = ending /\ r.power = local.power
      /\ r.rank = local.rank /\ r.finalProof = local.finalProof
  BY <1>2 DEF Record, Terminal, SafeTerminal
<1>5. \/ /\ Saved(key, r)
         /\ IF safe
            THEN /\ pc' = "recovering" /\ key' = Nil /\ local' = Nil /\ safe' = FALSE
                 /\ UNCHANGED <<action, pin>>
            ELSE Returns
      \/ PutFails(key, r) /\ Returns
  BY DEF RecoverPut, Goto
<1>6. UNCHANGED <<powerControl, mode, cached, lease, laneVars, crashes, swaps, historyVars>>
  BY DEF RecoverPut
<1> HIDE DEF r
<1>7. Acceptable(key, r)
  <2>1. r.rank >= transitions[key].rank /\ r.rank <= LastRank(key[1])
    BY <1>2, <1>3, <1>4 DEF RecoveryInv, IInv, JournalInv, Record, Ranks
  <2> QED
    BY <1>2, <1>3, <1>4, <2>1
       DEF RecoveryInv, Acceptable, Present, validBootTransitionUpdate, Validate,
           validatePowerControlEvidence, SafeTerminal, Terminal, Record
<1>8. r.status \in SafeTerminal => target = "off"
  BY <1>4 DEF SafeTerminal, IInv, LaneInv
<1>9. PutBootTransition(key, r)
  BY <1>5 DEF PutBootTransition
<1>10. Stored(key, r)
  BY <1>2, <1>3, <1>4, <1>7, <1>8, <1>9, PutStores DEF RecoveryInv
<1>11. CASE Returns
  BY <1>2, <1>6, <1>10, <1>11, PutReturnKeeps
<1>12. CASE ~ Returns
  <2>1. /\ safe /\ pc' = "recovering" /\ key' = Nil /\ local' = Nil /\ safe' = FALSE
        /\ UNCHANGED <<action, pin, target, lease, powerControl, cutOff, exchanged, committed, executed>>
    BY <1>5, <1>6, <1>12 DEF laneVars, historyVars
  <2>2. SideTypes'
    BY <1>6, <1>10, <2>1, TypeParts DEF IInv, SideTypes, Stored, laneVars, historyVars
  <2>3. CallTypes'
    BY <1>2, <2>1 DEF CallTypes, Points, Outside
  <2>4. TypeOK'
    BY <1>10, <2>2, <2>3, TypeParts DEF Stored, JournalInv
  <2>5. CallInv'
    BY <2>1 DEF CallInv, Outside, Recovery, Underway, Ending
  <2>6. LaneInv'
    BY <1>10, <2>1 DEF IInv, LaneInv, Stored
  <2>7. PinInv'
    BY <1>1, <2>1 DEF IInv, PinInv
  <2>8. HistoryInv'
    <3>1. \A k \in cutOff' : transitions'[k] # Nil
      BY <1>10, <2>1 DEF IInv, HistoryInv, TypeOK, Stored
    <3> QED
      BY <1>10, <2>1, <3>1 DEF IInv, HistoryInv, Stored, Underway, Ending,
                               StartsOnItsFreshBoard, JournalTakesEveryRecord
  <2> QED
    BY <1>10, <2>4, <2>5, <2>6, <2>7, <2>8 DEF IInv, Stored
<1> QED
  BY <1>11, <1>12

-----------------------------------------------------------------------------
\* What proving safe-off leaves alone.
SafeOffFrame ==
    UNCHANGED <<transitions, powerControl, cutOff, executed, exchanged, committed, refusedPut>>

\* A proof of safe-off that holds of the target is taken into the copy.
LEMMA ProvedKeeps ==
    ASSUME IInv, pc \in SafeOffPoints, NEW proof, proof = (powerControl = "manual"),
           SafeOffProved(proof), target' = "off", SideTypes', SafeOffFrame,
           lease' # "none" => powerControl = "relay"
    PROVE  IInv'
<1>1. /\ pc = "initial_safe_off" => pc' = "begin"
      /\ pc = "recover_safe_off" => pc' = "recover_put"
      /\ pc = "failing" => pc' = "terminalize"
      /\ pc = "completing" => pc' = "put_completed"
  BY DEF SafeOffProved, At, Goto, SafeOffPoints
<1>2. safe' = TRUE /\ UNCHANGED <<action, key, pin>>
  BY DEF SafeOffProved, Keep
<1>3. PowerModes \subseteq {"relay", "manual"} /\ powerControl \in {"relay", "manual"}
  BY LaneAssumption DEF IInv, TypeOK
<1>4. JournalInv(transitions') /\ LaneInv'
  BY <1>1, <1>2 DEF IInv, LaneInv, Powered, SafeOffFrame, SafeOffPoints
<1>5. CASE pc = "initial_safe_off"
  <2>1. key = Nil /\ local = Nil /\ local' = Nil /\ action # Nil
    BY <1>5, TypeParts DEF IInv, CallInv, CallTypes, Outside, SafeOffProved
  <2>2. CallTypes'
    BY <1>1, <1>2, <1>5, <2>1, TypeParts DEF IInv, CallTypes, Points, Outside
  <2>3. CallInv'
    BY <1>1, <1>2, <1>5, <2>1
       DEF IInv, CallInv, SafeOffFrame, Outside, Recovery, Underway, Ending
  <2>4. PinInv' /\ HistoryInv'
    BY <1>1, <1>2, <1>5 DEF IInv, PinInv, HistoryInv, SafeOffFrame, Underway, Ending,
                            StartsOnItsFreshBoard, JournalTakesEveryRecord
  <2> QED
    BY <1>4, <2>2, <2>3, <2>4, TypeParts DEF IInv, JournalInv
<1>6. CASE pc \in {"recover_safe_off", "failing", "completing"}
  <2>1. /\ key \in Keys /\ key # Nil /\ local \in Record /\ local # Nil
        /\ action \in Actions /\ action # Nil /\ transitions[key] # Nil
    BY <1>6, InHand DEF Recovery, Underway, Ending
  <2>2. local' = [local EXCEPT !.finalProof = proof]
    BY <2>1 DEF SafeOffProved
  <2>3. /\ local' \in Record /\ local'.status = local.status /\ local'.power = local.power
        /\ local'.rank = local.rank /\ local'.finalProof = proof
    BY <2>1, <2>2 DEF Record
  <2>4. pc' \in {"recover_put", "terminalize", "put_completed"}
    BY <1>1, <1>6
  <2>5. CallTypes'
    <3>1. local' # Nil
      BY <2>3, LaneAssumption
    <3> QED
      BY <1>2, <2>1, <2>3, <2>4, <3>1
         DEF CallTypes, Points, Recovery, Underway, Ending, SafeOffFrame
  <2>6. CallInv'
    <3>1. CASE pc = "recover_safe_off"
      <4>0. pc' = "recover_put" /\ RecoveryInv(pc, powerControl, local, transitions[key], safe)
        BY <1>1, <3>1 DEF IInv, CallInv, Recovery
      <4>1. RecoveryInv(pc', powerControl', local', transitions'[key'], safe')
        BY <1>2, <1>3, <2>3, <4>0 DEF RecoveryInv, SafeOffFrame
      <4> QED
        BY <1>2, <2>1, <4>0, <4>1 DEF CallInv, Outside, Recovery, Underway, Ending
    <3>2. CASE pc = "failing"
      <4>1. key[1] = action /\ \A k \in Keys : OpenIn(transitions, k) => k = key
        BY <3>2 DEF IInv, CallInv, Ending
      <4>2. EndingInv(pc', action', powerControl', local', transitions'[key'], safe')
        BY <1>1, <1>2, <1>3, <2>3, <3>2 DEF IInv, CallInv, Ending, EndingInv, SafeOffFrame
      <4> QED
        BY <1>1, <1>2, <2>1, <3>2, <4>1, <4>2
           DEF CallInv, Outside, Recovery, Underway, Ending, SafeOffFrame
    <3>3. CASE pc = "completing"
      <4>1. key[1] = action /\ \A k \in Keys : OpenIn(transitions, k) => k = key
        BY <3>3 DEF IInv, CallInv, Underway
      <4>2. UnderwayInv(pc, action, powerControl, local, transitions[key])
        BY <3>3 DEF IInv, CallInv, Underway
      <4>3. RankAt(pc', action, powerControl) = RankAt(pc, action, powerControl)
        BY <1>1, <3>3, RankValues
      <4>4. UnderwayInv(pc', action', powerControl', local', transitions'[key'])
        BY <1>1, <1>2, <1>3, <2>3, <3>3, <4>2, <4>3 DEF UnderwayInv, SafeOffFrame
      <4> QED
        BY <1>1, <1>2, <2>1, <3>3, <4>1, <4>4
           DEF CallInv, Outside, Recovery, Underway, Ending, SafeOffFrame
    <3> QED
      BY <1>6, <3>1, <3>2, <3>3
  <2>7. PinInv'
    BY <1>1, <1>2, <1>6 DEF IInv, PinInv
  <2>8. HistoryInv'
    BY <1>1, <1>2, <1>6 DEF IInv, HistoryInv, SafeOffFrame, Underway, Ending,
                            StartsOnItsFreshBoard, JournalTakesEveryRecord
  <2> QED
    BY <1>4, <2>5, <2>6, <2>7, <2>8, TypeParts DEF IInv, JournalInv
<1> QED
  BY <1>5, <1>6 DEF SafeOffPoints

\* Without a proof the copy keeps at most the operator's acknowledgement.
LEMMA UnprovenKeeps ==
    ASSUME IInv, pc \in SafeOffPoints, NEW proof \in BOOLEAN,
           powerControl = "relay" => ~ proof,
           SafeOffUnproven(proof), SideTypes', SafeOffFrame,
           Powered(transitions, target', lease'),
           lease' # "none" => powerControl = "relay"
    PROVE  IInv'
<1>1. refusedPut' = FALSE
  <2>1. refusedPut \in BOOLEAN /\ ~ refusedPut
    BY DEF IInv, TypeOK, HistoryInv, JournalTakesEveryRecord
  <2> QED
    BY <2>1, Zenon DEF SafeOffFrame
<1>2. CASE pc = "initial_safe_off"
  <2>1. Returns
    BY <1>2 DEF SafeOffUnproven, At
  <2>2. /\ JournalInv(transitions') /\ Powered(transitions', target', lease')
        /\ lease' # "none" => powerControl' = "relay"
        /\ \A k \in Keys : transitions[k] # Nil => transitions'[k] # Nil
        /\ UNCHANGED <<cutOff, exchanged, committed>>
    BY DEF IInv, SafeOffFrame
  <2> QED
    BY <1>1, <2>1, <2>2, ReturnKeeps
<1>3. CASE pc \in {"recover_safe_off", "failing", "completing"}
  <2>1. /\ key \in Keys /\ key # Nil /\ local \in Record /\ local # Nil
        /\ action \in Actions /\ action # Nil /\ transitions[key] # Nil
    BY <1>3, InHand DEF Recovery, Underway, Ending
  <2>2. /\ safe' = FALSE /\ UNCHANGED <<action, key, pin>>
        /\ local' = [local EXCEPT !.finalProof = proof]
        /\ pc = "recover_safe_off" => pc' = "recover_put"
        /\ pc # "recover_safe_off" => pc' = "terminalize"
    BY <1>3 DEF SafeOffUnproven, At, Goto, Keep
  <2>3. /\ local' \in Record /\ local'.status = local.status /\ local'.power = local.power
        /\ local'.rank = local.rank /\ local'.finalProof = proof
    BY <2>1, <2>2 DEF Record
  <2>4. CallTypes'
    <3>1. local' # Nil
      BY <2>3, LaneAssumption
    <3>2. pc' \in {"recover_put", "terminalize"}
      BY <1>3, <2>2
    <3> QED
      BY <2>1, <2>2, <2>3, <3>1, <3>2
         DEF CallTypes, Points, Recovery, Ending, SafeOffFrame
  <2>5. CallInv'
    <3>1. CASE pc = "recover_safe_off"
      <4>1. pc' = "recover_put" /\ RecoveryInv(pc, powerControl, local, transitions[key], safe)
        BY <2>2, <3>1 DEF IInv, CallInv, Recovery
      <4>2. RecoveryInv(pc', powerControl', local', transitions'[key'], safe')
        BY <2>2, <2>3, <4>1 DEF RecoveryInv, SafeOffFrame
      <4> QED
        BY <2>1, <2>2, <4>1, <4>2 DEF CallInv, Outside, Recovery, Underway, Ending
    <3>2. CASE pc \in {"failing", "completing"}
      <4>1. /\ pc' = "terminalize"
            /\ key[1] = action /\ \A k \in Keys : OpenIn(transitions, k) => k = key
        BY <2>2, <3>2 DEF IInv, CallInv, Underway, Ending
      <4>2. /\ local.power = powerControl
            /\ transitions[key].status = "active" /\ transitions[key].power = powerControl
            /\ transitions[key].rank <= local.rank /\ local.rank <= LastRank(action)
        <5>1. CASE pc = "failing"
          BY <5>1 DEF IInv, CallInv, EndingInv, Ending
        <5>2. CASE pc = "completing"
          <6>1. UnderwayInv(pc, action, powerControl, local, transitions[key])
            BY <5>2 DEF IInv, CallInv, Underway
          <6>2. local.rank = LastRank(action) /\ LastRank(action) \in {4, 5}
            BY <5>2, <6>1, RankValues, LastRanks DEF UnderwayInv
          <6> QED
            BY <6>1, <6>2 DEF UnderwayInv
        <5> QED
          BY <3>2, <5>1, <5>2
      <4>3. EndingInv(pc', action', powerControl', local', transitions'[key'], safe')
        BY <2>2, <2>3, <4>1, <4>2 DEF EndingInv, SafeOffFrame
      <4> QED
        BY <2>1, <2>2, <4>1, <4>3
           DEF CallInv, Outside, Recovery, Underway, Ending, SafeOffFrame
    <3> QED
      BY <1>3, <3>1, <3>2
  <2>6. LaneInv'
    BY <1>3, <2>2 DEF LaneInv, SafeOffFrame
  <2>7. PinInv'
    BY <1>3, <2>2 DEF IInv, PinInv
  <2>8. HistoryInv'
    BY <1>3, <2>2 DEF IInv, HistoryInv, SafeOffFrame, Underway, Ending,
                      StartsOnItsFreshBoard, JournalTakesEveryRecord
  <2>9. JournalInv(transitions')
    BY DEF IInv, SafeOffFrame
  <2> QED
    BY <2>4, <2>5, <2>6, <2>7, <2>8, <2>9, TypeParts DEF IInv, JournalInv
<1> QED
  BY <1>2, <1>3 DEF SafeOffPoints

\* Where safe-off is tried, an open record is one of the power control that
\* the adapter runs under.
LEMMA OpenAtSafeOff ==
    ASSUME IInv, pc \in SafeOffPoints, NEW k \in Keys, OpenIn(transitions, k)
    PROVE  transitions[k].power = powerControl
<1>1. pc # "initial_safe_off"
  BY DEF IInv, CallInv
<1>2. /\ key \in Keys /\ transitions[key] \in Record /\ transitions[key] # Nil
  BY <1>1, InHand DEF SafeOffPoints, Recovery, Underway, Ending
<1>3. transitions[key].status = "active" /\ transitions[key].power = powerControl
  <2>1. CASE pc = "recover_safe_off"
    BY <2>1 DEF IInv, CallInv, Recovery, RecoveryInv
  <2>2. CASE pc = "failing"
    BY <2>2 DEF IInv, CallInv, Ending, EndingInv
  <2>3. CASE pc = "completing"
    BY <2>3 DEF IInv, CallInv, Underway, UnderwayInv
  <2> QED
    BY <1>1, <2>1, <2>2, <2>3 DEF SafeOffPoints
<1>4. k = key
  BY <1>2, <1>3 DEF IInv, JournalInv, OpenIn, SafeTerminal
<1> QED
  BY <1>3, <1>4

\* A lane on the relay whose lease is given back is off: nothing else powers it.
LEMMA RelaySafeOffKeeps == ASSUME IInv, RelaySafeOff PROVE IInv'
<1>1. target' = "off"
  <2>1. CASE lease = "held"
    BY <2>1 DEF RelaySafeOff
  <2>2. CASE lease = "none"
    <3>1. target' = target /\ pc \in SafeOffPoints /\ powerControl = "relay"
      BY <2>2 DEF RelaySafeOff
    <3>2. \A k \in Keys : OpenIn(transitions, k) => transitions[k].power = "relay"
      BY <3>1, OpenAtSafeOff
    <3> QED
      BY <2>2, <3>1, <3>2 DEF IInv, LaneInv, Powered
  <2> QED
    BY <2>1, <2>2 DEF RelaySafeOff
<1>2. SideTypes'
  BY <1>1, TypeParts DEF IInv, RelaySafeOff, SafeOffProved, SideTypes, journalVars, historyVars
<1>3. SafeOffFrame /\ lease' = "none"
  BY DEF RelaySafeOff, SafeOffFrame, journalVars, historyVars
<1>4. FALSE = (powerControl = "manual")
  BY DEF RelaySafeOff
<1> QED
  BY <1>1, <1>2, <1>3, <1>4, ProvedKeeps DEF RelaySafeOff

\* A release that fails leaves the relay in some state, and no proof.
LEMMA RelaySafeOffFailsKeeps == ASSUME IInv, RelaySafeOffFails PROVE IInv'
<1>1. pc \in SafeOffPoints /\ powerControl = "relay" /\ SafeOffUnproven(FALSE)
  BY DEF RelaySafeOffFails
<1>2. /\ target' \in {target, "off"} /\ lease' \in {lease, "broken", "none"}
      /\ target' = "off" \/ (lease # "none" => lease' # "none")
  BY TypeParts DEF RelaySafeOffFails, IInv, SideTypes
<1>3. safe' \in BOOLEAN /\ pin' \in {"none", "held", "broken"}
  BY TypeParts DEF IInv, SideTypes, SafeOffUnproven, Returns, RelaySafeOffFails
<1>4. SideTypes'
  BY <1>2, <1>3, TypeParts DEF IInv, RelaySafeOffFails, SideTypes, journalVars, historyVars
<1>5. SafeOffFrame
  BY DEF RelaySafeOffFails, SafeOffFrame, journalVars, historyVars
<1>6. Powered(transitions, target', lease')
  BY <1>2 DEF IInv, LaneInv, Powered
<1> QED
  BY <1>1, <1>4, <1>5, <1>6, UnprovenKeeps

\* The operator's acknowledgement of a disconnected supply.
LEMMA ManualSafeOffKeeps == ASSUME IInv, ManualSafeOff PROVE IInv'
<1>1. /\ pc \in SafeOffPoints /\ powerControl = "manual" /\ target' = "off"
      /\ SafeOffProved(TRUE) /\ SafeOffFrame /\ lease' = lease
  BY DEF ManualSafeOff, SafeOffFrame, laneVars, journalVars, historyVars
<1>2. SideTypes'
  BY TypeParts DEF IInv, ManualSafeOff, SafeOffProved, SideTypes, laneVars, journalVars,
                   historyVars
<1>3. TRUE = (powerControl = "manual") /\ (lease' # "none" => powerControl = "relay")
  BY <1>1 DEF IInv, LaneInv
<1> QED
  BY <1>1, <1>2, <1>3, ProvedKeeps

\* No acknowledgement in time, or a USB device that is still there.
LEMMA ManualSafeOffFailsKeeps == ASSUME IInv, ManualSafeOffFails PROVE IInv'
<1>1. PICK proof \in BOOLEAN : SafeOffUnproven(proof)
  BY DEF ManualSafeOffFails
<1>2. /\ pc \in SafeOffPoints /\ powerControl = "manual"
      /\ SafeOffFrame /\ UNCHANGED <<target, lease>>
  BY DEF ManualSafeOffFails, SafeOffFrame, laneVars, journalVars, historyVars
<1>3. safe' \in BOOLEAN /\ pin' \in {"none", "held", "broken"}
  BY <1>1, TypeParts DEF IInv, SideTypes, SafeOffUnproven, Returns
<1>4. SideTypes'
  BY <1>3, TypeParts DEF IInv, ManualSafeOffFails, SideTypes, laneVars, journalVars,
                         historyVars
<1>5. Powered(transitions, target', lease') /\ (lease' # "none" => powerControl = "relay")
  BY <1>2 DEF IInv, LaneInv
<1> QED
  BY <1>1, <1>2, <1>4, <1>5, UnprovenKeeps

\* The supply is disconnected by hand.
LEMMA OperatorDisconnectsKeeps == ASSUME IInv, OperatorDisconnects PROVE IInv'
<1>1. /\ target' = "off"
      /\ UNCHANGED <<pc, action, key, local, safe, board, owned, powerControl, mode, cached,
                     lease, pin, transitions, saveFailures, refusedPut, crashes, swaps,
                     cutOff, executed, exchanged, committed>>
  BY DEF OperatorDisconnects, adapterVars, journalVars, historyVars
<1>2. TypeOK' /\ JournalInv(transitions')
  BY <1>1 DEF IInv, TypeOK, Present
<1>3. CallInv'
  BY <1>1 DEF IInv, CallInv
<1>4. LaneInv' /\ PinInv'
  BY <1>1 DEF IInv, LaneInv, PinInv, Powered
<1>5. HistoryInv'
  BY <1>1 DEF IInv, HistoryInv, StartsOnItsFreshBoard, JournalTakesEveryRecord
<1> QED
  BY <1>2, <1>3, <1>4, <1>5 DEF IInv

-----------------------------------------------------------------------------
\* A transition is begun on a lane that is off and that no record keeps.
LEMMA BeginBootTransitionKeeps == ASSUME IInv, BeginBootTransition PROVE IInv'
<1> DEFINE k == <<action, Generation(action)>>
           begun == [transitions EXCEPT ![k] = NewRecord]
<1>1. /\ pc = "begin" /\ action \in Actions /\ action # Nil
      /\ \A l \in Keys : ~ OpenIn(transitions, l)
  BY TypeParts DEF BeginBootTransition, At, IInv, CallInv, CallTypes
<1>2. target = "off"
  BY <1>1 DEF IInv, LaneInv, Powered
<1>3. /\ NewRecord \in Record /\ NewRecord.status = "active" /\ ~ NewRecord.finalProof
      /\ NewRecord.rank = 0 /\ NewRecord.power = powerControl /\ NewRecord # Nil
  <2>1. NewRecord \in Record
    BY LaneAssumption DEF NewRecord, Record, Ranks, Requested, IInv, TypeOK
  <2> QED
    BY <2>1, LaneAssumption DEF NewRecord, Requested
<1>4. Generation(action) <= MaxGeneration
  BY DEF BeginBootTransition
<1>5. PICK n \in 0..MaxGeneration :
          /\ Generation(action) = n + 1
          /\ \A g \in 1..MaxGeneration : transitions[<<action, g>>] # Nil <=> g <= n
  BY <1>1, NextGeneration DEF IInv
<1>6. /\ \/ /\ transitions' = begun /\ saveFailures' = saveFailures
            /\ pc' = "cold_interval"
            /\ key' = k /\ local' = NewRecord /\ safe' = FALSE
            /\ UNCHANGED <<action, pin>>
            /\ executed' = FALSE
         \/ /\ saveFailures' = saveFailures + 1
            /\ transitions' \in {transitions, begun}
            /\ executed' = executed
            /\ Returns
      /\ UNCHANGED <<powerControl, mode, cached, lease, target, board, owned, refusedPut,
                     crashes, swaps, cutOff, exchanged, committed>>
  BY DEF BeginBootTransition, Goto, laneVars
<1>7. /\ JournalInv(begun)
      /\ k \in Keys /\ k[1] = action /\ transitions[k] = Nil
      /\ begun[k] = NewRecord /\ \A l \in Keys : l # k => begun[l] = transitions[l]
  <2>1. JournalInv(transitions)
    BY DEF IInv
  <2>2. n + 1 <= MaxGeneration
    BY <1>4, <1>5
  <2>4. k = <<action, n + 1>>
    BY <1>5
  <2>5. Counted(transitions, action, n) /\ Free(transitions)
    BY <1>1, <1>5 DEF Counted, Free
  <2>3. Begins(transitions, k, NewRecord, begun)
    BY DEF Begins
  <2> HIDE DEF k, begun
  <2> QED
    BY <1>1, <1>3, <2>1, <2>2, <2>4, <2>5, <2>3, JournalBegins
<1> HIDE DEF k, begun
<1>8. \A l \in Keys : transitions[l] # Nil => begun[l] # Nil
  BY <1>3, <1>7
<1>9. refusedPut' = FALSE
  <2>1. refusedPut \in BOOLEAN /\ ~ refusedPut
    BY DEF IInv, TypeOK, HistoryInv, JournalTakesEveryRecord
  <2> QED
    BY <1>6, <2>1, Zenon
<1>10. lease' # "none" => powerControl' = "relay"
  BY <1>6 DEF IInv, LaneInv
<1>11. CASE Returns
  <2>1. /\ saveFailures' \in Nat
        /\ executed' \in BOOLEAN
        /\ transitions' = transitions \/ transitions' = begun
    <3>1. saveFailures' \in {saveFailures, saveFailures + 1} /\ executed' \in {FALSE, executed}
      BY <1>6
    <3>2. saveFailures \in Nat /\ executed \in BOOLEAN
      BY DEF IInv, TypeOK
    <3>3. executed' \in BOOLEAN
      BY <3>1, <3>2, Zenon
    <3>4. transitions' \in {transitions, begun}
      BY <1>6
    <3> QED
      BY <3>1, <3>2, <3>3, <3>4
  <2>2. SideTypes'
    BY <1>6, <1>9, <1>11, <2>1, TypeParts DEF IInv, SideTypes, Returns
  <2>3. JournalInv(transitions') /\ Powered(transitions', target', lease')
    BY <1>2, <1>6, <1>7, <2>1 DEF IInv, Powered
  <2>4. \A l \in Keys : transitions[l] # Nil => transitions'[l] # Nil
    BY <1>8, <2>1
  <2> QED
    BY <1>6, <1>9, <1>10, <1>11, <2>2, <2>3, <2>4, ReturnKeeps
<1>12. CASE ~ Returns
  <2>1. /\ transitions' = begun /\ saveFailures' = saveFailures
        /\ pc' = "cold_interval" /\ key' = k /\ local' = NewRecord /\ safe' = FALSE
        /\ UNCHANGED <<action, pin>> /\ executed' = FALSE
    BY <1>6, <1>12
  <2>2. SideTypes'
    BY <1>6, <1>9, <2>1, TypeParts DEF IInv, SideTypes
  <2>3. CallTypes'
    <3>1. k # Nil
      BY <1>7, LaneAssumption
    <3> QED
      BY <1>1, <1>3, <1>7, <2>1, <3>1 DEF CallTypes, Points, Underway
  <2>4. CallInv'
    <3>1. k # Nil
      BY <1>7, LaneAssumption
    <3>2. UnderwayInv(pc', action', powerControl', local', transitions'[key'])
      BY <1>3, <1>6, <1>7, <2>1, RankValues DEF UnderwayInv
    <3>3. \A l \in Keys : OpenIn(transitions', l) => l = key'
      BY <1>1, <1>7, <2>1 DEF OpenIn
    <3> QED
      BY <1>7, <2>1, <3>1, <3>2, <3>3 DEF CallInv, Outside, Recovery, Underway, Ending
  <2>5. LaneInv'
    BY <1>2, <1>6, <1>10, <2>1 DEF LaneInv, Powered
  <2>6. PinInv'
    BY <1>1, <2>1 DEF IInv, PinInv
  <2>7. HistoryInv'
    <3>1. k \notin cutOff
      BY <1>7 DEF IInv, HistoryInv
    <3>2. \A l \in cutOff : begun[l] # Nil
      BY <1>8 DEF IInv, HistoryInv, TypeOK
    <3> QED
      BY <1>6, <1>9, <2>1, <3>1, <3>2
         DEF IInv, HistoryInv, StartsOnItsFreshBoard, JournalTakesEveryRecord
  <2> QED
    BY <1>7, <2>1, <2>2, <2>3, <2>4, <2>5, <2>6, <2>7, TypeParts DEF IInv, JournalInv
<1> QED
  BY <1>11, <1>12

\* A call that may not begin returns.
LEMMA BeginRefusedKeeps == ASSUME IInv, BeginRefused PROVE IInv'
<1>1. UNCHANGED <<transitions, refusedPut>> /\ saveFailures' \in Nat
  BY DEF BeginRefused, journalVars, IInv, TypeOK
<1> QED
  BY <1>1, RefusalKeeps DEF BeginRefused

\* The transition in hand is the open one, and active, while it runs.
LEMMA UnderwayFacts ==
    ASSUME IInv, pc \in Underway
    PROVE  /\ key \in Keys /\ key # Nil /\ key[1] = action
           /\ local \in Record /\ local # Nil
           /\ transitions[key] \in Record /\ transitions[key] # Nil
           /\ action \in Actions /\ action # Nil
           /\ UnderwayInv(pc, action, powerControl, local, transitions[key])
           /\ key \notin cutOff
           /\ refusedPut = FALSE
           /\ pc # "put_completed" => ~ safe
<1>1. refusedPut = FALSE
  <2>1. refusedPut \in BOOLEAN /\ ~ refusedPut
    BY DEF IInv, TypeOK, HistoryInv, JournalTakesEveryRecord
  <2> QED
    BY <2>1, Zenon
<1>2. pc # "put_completed" => ~ safe
  BY DEF IInv, LaneInv, Underway
<1> QED
  BY <1>1, <1>2, InHand DEF IInv, CallInv, HistoryInv

\* failTransition takes the adapter's copy, which is at most one state ahead of
\* the durable record.
LEMMA FailsKeeps ==
    ASSUME IInv, pc \in Underway \ {"completing", "put_completed"},
           NEW r \in Record, Fails(r), Keep, SideTypes',
           r.status = "active", r.power = powerControl, ~ r.finalProof,
           r.rank <= LastRank(action),
           JournalInv(transitions'), transitions'[key] # Nil,
           transitions'[key].status = "active", transitions'[key].power = powerControl,
           transitions'[key].rank <= r.rank,
           \A l \in Keys : l # key => transitions'[l] = transitions[l],
           Powered(transitions', target', lease'),
           lease' # "none" => powerControl = "relay",
           UNCHANGED <<powerControl, cutOff>>, refusedPut' = FALSE,
           StartsOnItsFreshBoard'
    PROVE  IInv'
<1>1. /\ key \in Keys /\ key # Nil /\ key[1] = action
      /\ action \in Actions /\ action # Nil /\ key \notin cutOff /\ ~ safe
  BY UnderwayFacts
<1>2. /\ pc' = "failing" /\ local' = r /\ pin' = "none"
      /\ UNCHANGED <<action, key, safe>>
  BY DEF Fails, Goto, Keep
<1>3. CallTypes'
  <2>1. r # Nil
    BY LaneAssumption
  <2> QED
    BY <1>1, <1>2, <2>1 DEF CallTypes, Points, Ending
<1>4. CallInv'
  <2>1. EndingInv(pc', action', powerControl', local', transitions'[key'], safe')
    BY <1>1, <1>2 DEF EndingInv
  <2>2. OpenIn(transitions', key)
    BY DEF OpenIn, SafeTerminal
  <2>3. \A l \in Keys : OpenIn(transitions', l) => l = key'
    BY <1>1, <1>2, <2>2 DEF JournalInv
  <2> QED
    BY <1>1, <1>2, <2>1, <2>3 DEF CallInv, Outside, Recovery, Underway, Ending
<1>5. LaneInv'
  BY <1>1, <1>2 DEF LaneInv
<1>6. PinInv'
  BY <1>2 DEF PinInv
<1>7. HistoryInv'
  <2>1. \A l \in cutOff : transitions'[l] # Nil
    BY DEF IInv, HistoryInv, TypeOK
  <2> QED
    BY <1>1, <1>2, <2>1 DEF HistoryInv, JournalTakesEveryRecord
<1> QED
  BY <1>3, <1>4, <1>5, <1>6, <1>7, TypeParts DEF IInv, JournalInv

\* The copy fails as it is, and the journal is left alone.
LEMMA FailsUnchanged ==
    ASSUME IInv, pc \in Underway \ {"completing", "put_completed"},
           Fails(local), Keep, SideTypes',
           Powered(transitions, target', lease'),
           lease' # "none" => powerControl = "relay",
           UNCHANGED <<transitions, powerControl, cutOff, refusedPut>>,
           StartsOnItsFreshBoard'
    PROVE  IInv'
<1>1. /\ key \in Keys /\ key[1] = action /\ local \in Record
      /\ transitions[key] \in Record /\ transitions[key] # Nil
      /\ UnderwayInv(pc, action, powerControl, local, transitions[key])
      /\ refusedPut = FALSE
  BY UnderwayFacts
<1>2. JournalInv(transitions)
  BY DEF IInv
<1>3. /\ local.status = "active" /\ local.power = powerControl /\ ~ local.finalProof
      /\ transitions[key].status = "active" /\ transitions[key].power = powerControl
      /\ transitions[key].rank = local.rank
  BY <1>1 DEF UnderwayInv
<1>4. local.rank <= LastRank(action) /\ transitions[key].rank <= local.rank
  <2>1. local.rank \in Int
    BY <1>1 DEF Record, Ranks
  <2> QED
    BY <1>1, <1>2, <1>3, <2>1 DEF JournalInv
<1> QED
  BY <1>1, <1>2, <1>3, <1>4, FailsKeeps

\* The next active state is saved, and the transition goes on or fails.
LEMMA AdvanceKeeps ==
    ASSUME IInv, pc \in Underway \ {"payload", "guarded_run", "completing", "put_completed"},
           NEW rank, rank = local.rank + 1, rank <= LastRank(action),
           NEW next \in Underway \ {"guarded_run", "put_completed"},
           RankAt(next, action, powerControl) = rank,
           next = "arm_normal" => RequestedBootMode(action) = "normal",
           next = "apply_power" => powerControl = "relay",
           next \in {"release", "preflight", "payload", "guarded_run"} =>
               RequestedBootMode(action) = "rpiboot",
           AdvancesTo(rank, next), Keep,
           UNCHANGED <<powerControl, mode, cached, lease, laneVars, crashes, swaps, cutOff,
                       exchanged, committed>>,
           executed' \in BOOLEAN, pc' = "completing" => executed'
    PROVE  IInv'
<1> DEFINE r == [local EXCEPT !.rank = rank]
<1>1. /\ key \in Keys /\ key # Nil /\ key[1] = action /\ local \in Record
      /\ transitions[key] \in Record /\ transitions[key] # Nil
      /\ action \in Actions /\ action # Nil /\ key \notin cutOff /\ ~ safe
      /\ UnderwayInv(pc, action, powerControl, local, transitions[key])
  BY UnderwayFacts
<1>2. /\ local.status = "active" /\ local.power = powerControl /\ ~ local.finalProof
      /\ transitions[key].status = "active" /\ transitions[key].power = powerControl
      /\ transitions[key].rank = local.rank /\ local.rank \in 0..5
  BY <1>1 DEF UnderwayInv, Record, Ranks
<1>3. rank \in Ranks /\ LastRank(action) \in {4, 5}
  BY <1>2, LastRanks DEF Ranks
<1>4. /\ r \in Record /\ r.rank = rank /\ r.status = "active" /\ r.power = powerControl
      /\ ~ r.finalProof
  BY <1>1, <1>2, <1>3 DEF Record
<1>5. \/ /\ Saved(key, r) /\ pc' = next /\ local' = r /\ UNCHANGED <<safe, pin>>
      \/ PutFails(key, r) /\ Fails(r)
  BY DEF AdvancesTo, Goto
<1>6. pin = "none"
  <2>1. pc \notin {"payload", "guarded_run", "completing", "put_completed", "terminalize"}
    BY DEF Underway
  <2> QED
    BY <2>1 DEF IInv, PinInv
<1> HIDE DEF r
<1>7. Acceptable(key, r)
  BY <1>1, <1>2, <1>3, <1>4
     DEF Acceptable, Present, validBootTransitionUpdate, Validate,
         validatePowerControlEvidence, SafeTerminal, Terminal, Ranks
<1>8. PutBootTransition(key, r)
  BY <1>5 DEF PutBootTransition
<1>9. Stored(key, r) /\ (Saved(key, r) => PutAt(transitions, key, r, transitions'))
  BY <1>1, <1>2, <1>4, <1>7, <1>8, PutStores DEF SafeTerminal
<1>10. SideTypes'
  <2>1. safe' \in BOOLEAN /\ pin' \in {"none", "held", "broken"}
    BY <1>5, TypeParts DEF IInv, SideTypes, Fails
  <2> QED
    BY <1>9, <2>1, TypeParts DEF IInv, SideTypes, Stored, laneVars
<1>11. /\ JournalInv(transitions') /\ Powered(transitions', target', lease')
       /\ refusedPut' = FALSE
       /\ \A l \in Keys : l # key => transitions'[l] = transitions[l]
       /\ transitions'[key] # Nil
  BY <1>9 DEF Stored, laneVars
<1>12. lease' # "none" => powerControl = "relay"
  BY DEF IInv, LaneInv
<1>13. StartsOnItsFreshBoard'
  BY DEF IInv, HistoryInv, StartsOnItsFreshBoard
<1>14. transitions'[key] = r \/ transitions'[key] = transitions[key]
  BY <1>4, <1>9 DEF Stored, PutAt
<1>15. CASE PutFails(key, r) /\ Fails(r)
  <2>1. /\ transitions'[key].status = "active" /\ transitions'[key].power = powerControl
        /\ transitions'[key].rank <= r.rank
    BY <1>2, <1>3, <1>4, <1>14 DEF Ranks
  <2>2. r.rank <= LastRank(action)
    BY <1>4
  <2> QED
    BY <1>4, <1>10, <1>11, <1>12, <1>13, <1>15, <2>1, <2>2, FailsKeeps
<1>16. CASE Saved(key, r) /\ pc' = next /\ local' = r /\ UNCHANGED <<safe, pin>>
  <2>1. transitions'[key] = r
    BY <1>4, <1>9, <1>16 DEF PutAt
  <2>2. UNCHANGED <<action, key>>
    BY DEF Keep
  <2>3. CallTypes'
    <3>1. r # Nil
      BY <1>4, LaneAssumption
    <3> QED
      BY <1>1, <1>4, <1>11, <1>16, <2>2, <3>1 DEF CallTypes, Points, Underway
  <2>4. CallInv'
    <3>1. UnderwayInv(pc', action', powerControl', local', transitions'[key'])
      BY <1>4, <1>16, <2>1, <2>2 DEF UnderwayInv
    <3>2. OpenIn(transitions', key)
      BY <1>4, <1>11, <2>1 DEF OpenIn, SafeTerminal
    <3>3. \A l \in Keys : OpenIn(transitions', l) => l = key'
      BY <1>1, <1>11, <2>2, <3>2 DEF JournalInv
    <3>4. key' # Nil /\ key'[1] = action' /\ pc' \in Underway
      BY <1>1, <1>16, <2>2
    <3> QED
      BY <3>1, <3>3, <3>4 DEF CallInv, Outside, Recovery, Underway, Ending
  <2>5. LaneInv'
    BY <1>1, <1>11, <1>12, <1>16 DEF LaneInv
  <2>6. PinInv'
    BY <1>6, <1>16 DEF PinInv
  <2>7. HistoryInv'
    <3>1. \A l \in cutOff' : transitions'[l] # Nil
      BY <1>11 DEF IInv, HistoryInv, TypeOK
    <3> QED
      BY <1>1, <1>11, <1>13, <1>16, <2>2, <3>1 DEF HistoryInv, JournalTakesEveryRecord
  <2> QED
    BY <1>10, <1>11, <2>3, <2>4, <2>5, <2>6, <2>7, TypeParts DEF IInv, JournalInv
<1> QED
  BY <1>5, <1>15, <1>16

\* The transition waits out its cold interval and asks the operator.
LEMMA ColdIntervalKeeps == ASSUME IInv, ColdInterval PROVE IInv'
<1> DEFINE next == IF powerControl = "manual" /\ RequestedBootMode(action) = "normal"
                   THEN "arm_normal" ELSE "prompt"
<1>1. pc = "cold_interval" /\ AdvancesTo(1, next) /\ Keep
  BY DEF ColdInterval, At, AwaitingOperator
<1>2. local.rank = 0 /\ LastRank(action) \in {4, 5}
  BY <1>1, UnderwayFacts, RankValues, LastRanks DEF Underway, UnderwayInv
<1>3. next \in Underway \ {"guarded_run", "put_completed"} /\ RankAt(next, action, powerControl) = 1
  BY RankValues DEF Underway
<1>4. /\ next = "arm_normal" => RequestedBootMode(action) = "normal"
      /\ next \in {"arm_normal", "prompt"}
  OBVIOUS
<1>5. executed' \in BOOLEAN /\ pc' # "completing"
  BY <1>1, <1>4 DEF ColdInterval, historyVars, IInv, TypeOK, AdvancesTo, Fails, Goto
<1>6. UNCHANGED <<powerControl, mode, cached, lease, laneVars, crashes, swaps, cutOff,
                  exchanged, committed>>
  BY DEF ColdInterval, historyVars
<1> HIDE DEF next
<1> QED
  BY <1>1, <1>2, <1>3, <1>4, <1>5, <1>6, AdvanceKeeps DEF Underway

\* The operator acknowledges the prompt.
LEMMA OperatorAcknowledgesKeeps == ASSUME IInv, OperatorAcknowledges PROVE IInv'
<1> DEFINE next == IF powerControl = "manual" THEN "put_power"
                   ELSE IF RequestedBootMode(action) = "normal" THEN "arm_normal"
                   ELSE "apply_power"
<1>1. pc = "prompt" /\ AdvancesTo(2, next) /\ Keep
  BY DEF OperatorAcknowledges, At, OperatorAcknowledged
<1>2. local.rank = 1 /\ LastRank(action) \in {4, 5}
  BY <1>1, UnderwayFacts, RankValues, LastRanks DEF Underway, UnderwayInv
<1>3. next \in Underway \ {"guarded_run", "put_completed"} /\ RankAt(next, action, powerControl) = 2
  BY RankValues DEF Underway
<1>4. /\ next = "arm_normal" => RequestedBootMode(action) = "normal"
      /\ next = "apply_power" => powerControl = "relay"
      /\ next \in {"put_power", "arm_normal", "apply_power"}
  BY LaneAssumption DEF IInv, TypeOK
<1>5. executed' \in BOOLEAN /\ pc' # "completing"
  BY <1>1, <1>4 DEF OperatorAcknowledges, historyVars, IInv, TypeOK, AdvancesTo, Fails, Goto
<1>6. UNCHANGED <<powerControl, mode, cached, lease, laneVars, crashes, swaps, cutOff,
                  exchanged, committed>>
  BY DEF OperatorAcknowledges, historyVars
<1> HIDE DEF next
<1> QED
  BY <1>1, <1>2, <1>3, <1>4, <1>5, <1>6, AdvanceKeeps DEF Underway

\* The power that was established is saved.
LEMMA PutPowerEstablishedKeeps == ASSUME IInv, PutPowerEstablished PROVE IInv'
<1>1. pc = "put_power" /\ AdvancesTo(3, "observe") /\ Keep
  BY DEF PutPowerEstablished, At, PowerEstablished
<1>2. local.rank = 2 /\ LastRank(action) \in {4, 5}
  BY <1>1, UnderwayFacts, RankValues, LastRanks DEF Underway, UnderwayInv
<1>3. RankAt("observe", action, powerControl) = 3
  BY RankValues
<1>4. executed' \in BOOLEAN /\ pc' # "completing"
  BY <1>1 DEF PutPowerEstablished, historyVars, IInv, TypeOK, AdvancesTo, Fails, Goto
<1>5. UNCHANGED <<powerControl, mode, cached, lease, laneVars, crashes, swaps, cutOff,
                  exchanged, committed>>
  BY DEF PutPowerEstablished, historyVars
<1> QED
  BY <1>1, <1>2, <1>3, <1>4, <1>5, AdvanceKeeps DEF Underway

\* The mode of the target is seen, and a normal boot has its result by that.
LEMMA ObserveModeKeeps == ASSUME IInv, ObserveMode PROVE IInv'
<1> DEFINE next == IF RequestedBootMode(action) = "normal" THEN "completing" ELSE "release"
<1>1. pc = "observe" /\ AdvancesTo(4, next) /\ Keep
  BY DEF ObserveMode, At, ModeObserved
<1>2. /\ local.rank = 3 /\ LastRank(action) \in {4, 5}
      /\ RequestedBootMode(action) \in {"normal", "rpiboot"}
  BY <1>1, UnderwayFacts, RankValues, LastRanks DEF Underway, UnderwayInv
<1>3. next \in Underway \ {"guarded_run", "put_completed"} /\ RankAt(next, action, powerControl) = 4
  BY RankValues, LastRanks DEF Underway
<1>4. /\ next = "release" => RequestedBootMode(action) = "rpiboot"
      /\ next \in {"completing", "release"}
  BY <1>2
<1>5. executed' \in BOOLEAN /\ (pc' = "completing" => executed')
  <2>1. executed' = TRUE \/ executed' = executed
    BY DEF ObserveMode
  <2>2. executed' \in BOOLEAN
    BY <2>1, Zenon DEF IInv, TypeOK
  <2>3. pc' = "completing" => RequestedBootMode(action) = "normal"
    BY <1>1 DEF AdvancesTo, Fails, Goto
  <2> QED
    BY <2>2, <2>3 DEF ObserveMode
<1>6. UNCHANGED <<powerControl, mode, cached, lease, laneVars, crashes, swaps, cutOff,
                  exchanged, committed>>
  BY DEF ObserveMode
<1> HIDE DEF next
<1> QED
  BY <1>1, <1>2, <1>3, <1>4, <1>5, <1>6, AdvanceKeeps DEF Underway

\* BOOTSEL is released before anything is sent to the target.
LEMMA ReleaseBOOTSELKeeps == ASSUME IInv, ReleaseBOOTSEL PROVE IInv'
<1> DEFINE next == IF action.phase = "execute" THEN "preflight" ELSE "payload"
<1>1. pc = "release" /\ AdvancesTo(5, next) /\ Keep
  BY DEF ReleaseBOOTSEL, At, OperatorReleased
<1>2. local.rank = 4 /\ RequestedBootMode(action) = "rpiboot" /\ LastRank(action) = 5
  BY <1>1, UnderwayFacts, RankValues, LastRanks DEF Underway, UnderwayInv
<1>3. /\ next \in Underway \ {"guarded_run", "put_completed"} /\ RankAt(next, action, powerControl) = 5
      /\ next \in {"preflight", "payload"}
  BY RankValues DEF Underway
<1>4. executed' \in BOOLEAN /\ pc' # "completing"
  BY <1>1, <1>3 DEF ReleaseBOOTSEL, historyVars, IInv, TypeOK, AdvancesTo, Fails, Goto
<1>5. UNCHANGED <<powerControl, mode, cached, lease, laneVars, crashes, swaps, cutOff,
                  exchanged, committed>>
  BY DEF ReleaseBOOTSEL, historyVars
<1> HIDE DEF next
<1> QED
  BY <1>1, <1>2, <1>3, <1>4, <1>5, AdvanceKeeps DEF Underway

\* The transition goes on without a save.
LEMMA MoveKeeps ==
    ASSUME IInv, pc \in Underway \ {"completing", "put_completed"},
           pc' \in Underway \ {"put_completed"},
           RankAt(pc', action, powerControl) = RankAt(pc, action, powerControl),
           pc' # "arm_normal", pc' = "apply_power" => powerControl = "relay",
           pc' \in {"release", "preflight", "payload", "guarded_run"} =>
               RequestedBootMode(action) = "rpiboot",
           UNCHANGED <<transitions, refusedPut, action, key, local, safe, powerControl,
                       cutOff>>,
           SideTypes', Powered(transitions, target', lease'),
           lease' # "none" => powerControl = "relay",
           PinInv', pc' = "completing" => executed', StartsOnItsFreshBoard'
    PROVE  IInv'
<1>1. /\ key \in Keys /\ key # Nil /\ key[1] = action /\ local \in Record /\ local # Nil
      /\ transitions[key] # Nil
      /\ action \in Actions /\ action # Nil /\ key \notin cutOff /\ ~ safe
      /\ UnderwayInv(pc, action, powerControl, local, transitions[key])
  BY UnderwayFacts
<1>2. CallTypes'
  BY <1>1 DEF CallTypes, Points, Underway
<1>3. CallInv'
  <2>1. UnderwayInv(pc', action', powerControl', local', transitions'[key'])
    BY <1>1 DEF UnderwayInv
  <2>2. \A l \in Keys : OpenIn(transitions', l) => l = key'
    BY DEF IInv, CallInv
  <2> QED
    BY <1>1, <2>1, <2>2 DEF CallInv, Outside, Recovery, Underway, Ending
<1>4. LaneInv'
  BY <1>1 DEF LaneInv
<1>5. HistoryInv'
  BY <1>1 DEF IInv, HistoryInv, JournalTakesEveryRecord
<1>6. JournalInv(transitions')
  BY DEF IInv
<1> QED
  BY <1>2, <1>3, <1>4, <1>5, <1>6, TypeParts DEF IInv, JournalInv

\* The open record of the transition in hand allows the lane to be powered.
LEMMA UnderwayPowered ==
    ASSUME IInv, pc \in Underway, NEW lane, NEW supply,
           powerControl = "relay" => supply # "none"
    PROVE  Powered(transitions, lane, supply)
<1>1. /\ key \in Keys /\ transitions[key] # Nil
      /\ UnderwayInv(pc, action, powerControl, local, transitions[key])
  BY UnderwayFacts
<1>2. OpenIn(transitions, key) /\ transitions[key].power = powerControl
  BY <1>1 DEF UnderwayInv, OpenIn, SafeTerminal
<1> QED
  BY <1>1, <1>2 DEF Powered

\* A wait that ends without its event.
LEMMA InterruptedKeeps ==
    ASSUME IInv, NEW p \in FailingPoints, Interrupted(p) PROVE IInv'
<1>1. pc \in Underway \ {"completing", "put_completed"}
  BY DEF Interrupted, At, FailingPoints, Underway
<1>2. Fails(local) /\ Keep
      /\ UNCHANGED <<transitions, powerControl, cutOff, refusedPut, target, lease, exchanged, committed>>
  BY DEF Interrupted, laneVars, journalVars, historyVars
<1>3. SideTypes'
  BY <1>2, TypeParts DEF IInv, SideTypes, Interrupted, Fails, laneVars, journalVars,
                         historyVars
<1>4. Powered(transitions, target', lease') /\ (lease' # "none" => powerControl = "relay")
  BY <1>2 DEF IInv, LaneInv
<1>5. StartsOnItsFreshBoard'
  BY <1>2 DEF IInv, HistoryInv, StartsOnItsFreshBoard
<1> QED
  BY <1>1, <1>2, <1>3, <1>4, <1>5, FailsUnchanged

\* The watcher of a normal boot is in place.
LEMMA ArmNormalKeeps == ASSUME IInv, ArmNormal PROVE IInv'
<1>1. /\ pc = "arm_normal"
      /\ pc' = IF powerControl = "manual" THEN "prompt" ELSE "apply_power"
      /\ UNCHANGED <<transitions, refusedPut, action, key, local, safe, powerControl, cutOff,
                     target, lease, pin, exchanged, committed>>
  BY DEF ArmNormal, At, Goto, Keep, laneVars, adapterVars, journalVars, historyVars
<1>2. powerControl \in {"relay", "manual"}
  BY LaneAssumption DEF IInv, TypeOK
<1>3. SideTypes'
  BY TypeParts DEF IInv, SideTypes, ArmNormal, laneVars, adapterVars, journalVars,
                   historyVars
<1>4. Powered(transitions, target', lease') /\ (lease' # "none" => powerControl = "relay")
  BY <1>1 DEF IInv, LaneInv
<1>5. PinInv'
  BY <1>1 DEF IInv, PinInv
<1>6. StartsOnItsFreshBoard'
  BY <1>1 DEF IInv, HistoryInv, StartsOnItsFreshBoard
<1>7. RankAt(pc', action, powerControl) = RankAt(pc, action, powerControl)
  BY <1>1, RankValues
<1> QED
  BY <1>1, <1>2, <1>3, <1>4, <1>5, <1>6, <1>7, MoveKeeps DEF Underway

\* The relay powers the target.
LEMMA EnsurePowerKeeps == ASSUME IInv, EnsurePower PROVE IInv'
<1>1. /\ pc = "apply_power" /\ pc' = "put_power" /\ lease' = "held"
      /\ UNCHANGED <<transitions, refusedPut, action, key, local, safe, powerControl, cutOff,
                     pin, exchanged, committed>>
  BY DEF EnsurePower, At, Goto, Keep, journalVars, historyVars
<1>2. powerControl = "relay"
  BY <1>1, UnderwayFacts DEF Underway, UnderwayInv
<1>3. SideTypes'
  BY TypeParts DEF IInv, SideTypes, EnsurePower, PoweredUp, journalVars, historyVars
<1>4. Powered(transitions, target', lease')
  BY <1>1, UnderwayPowered DEF Underway
<1>5. PinInv'
  BY <1>1 DEF IInv, PinInv
<1>6. StartsOnItsFreshBoard'
  BY <1>1 DEF IInv, HistoryInv, StartsOnItsFreshBoard
<1>7. RankAt(pc', action, powerControl) = RankAt(pc, action, powerControl)
  BY <1>1, RankValues
<1> QED
  BY <1>1, <1>2, <1>3, <1>4, <1>5, <1>6, <1>7, MoveKeeps DEF Underway

\* The relay could not be acquired, or was and is to be cleaned up.
LEMMA EnsurePowerFailsKeeps == ASSUME IInv, EnsurePowerFails PROVE IInv'
<1>1. /\ pc = "apply_power" /\ Fails(local) /\ Keep
      /\ UNCHANGED <<transitions, powerControl, cutOff, refusedPut, exchanged, committed>>
  BY DEF EnsurePowerFails, At, journalVars, historyVars
<1>2. powerControl = "relay"
  BY <1>1, UnderwayFacts DEF Underway, UnderwayInv
<1>3. /\ target' \in {target, "off", "rpiboot", "normal"}
      /\ lease' \in {lease, "held", "broken"}
      /\ \/ lease' = lease /\ target' = target
         \/ lease' # "none"
  BY DEF EnsurePowerFails, PoweredUp
<1>4. SideTypes'
  BY <1>1, <1>3, TypeParts DEF IInv, SideTypes, EnsurePowerFails, Fails, journalVars,
                               historyVars
<1>5. Powered(transitions, target', lease')
  <2>1. CASE lease' # "none"
    BY <1>1, <2>1, UnderwayPowered DEF Underway
  <2>2. CASE lease' = lease /\ target' = target
    BY <2>2 DEF IInv, LaneInv
  <2> QED
    BY <1>3, <2>1, <2>2
<1>6. StartsOnItsFreshBoard'
  BY <1>1 DEF IInv, HistoryInv, StartsOnItsFreshBoard
<1> QED
  BY <1>1, <1>2, <1>4, <1>5, <1>6, FailsUnchanged DEF Underway

\* The operator connects the supply of a manual lane.
LEMMA OperatorConnectsKeeps == ASSUME IInv, OperatorConnects PROVE IInv'
<1>1. /\ pc = "prompt" /\ powerControl = "manual" /\ target' \in {"rpiboot", "normal"}
      /\ UNCHANGED <<pc, action, key, local, safe, board, owned, powerControl, mode, cached,
                     lease, pin, transitions, saveFailures, refusedPut, crashes, swaps,
                     cutOff, executed, exchanged, committed>>
  BY DEF OperatorConnects, At, PoweredUp, adapterVars, journalVars, historyVars
<1>2. TypeOK' /\ JournalInv(transitions')
  BY <1>1 DEF IInv, TypeOK, Present
<1>3. CallInv'
  BY <1>1 DEF IInv, CallInv
<1>4. LaneInv'
  <2>1. Powered(transitions, target', lease')
    BY <1>1, UnderwayPowered DEF Underway
  <2>2. ~ safe
    BY <1>1, UnderwayFacts DEF Underway
  <2> QED
    BY <1>1, <2>1, <2>2 DEF IInv, LaneInv
<1>5. PinInv' /\ HistoryInv'
  BY <1>1 DEF IInv, PinInv, HistoryInv, StartsOnItsFreshBoard, JournalTakesEveryRecord
<1> QED
  BY <1>2, <1>3, <1>4, <1>5 DEF IInv

\* The identity that the preflight reads is that of the expected board.
LEMMA PreflightKeeps == ASSUME IInv, Preflight PROVE IInv'
<1>1. /\ pc = "preflight" /\ pc' = "payload" /\ pin' = "held"
      /\ board = "expected" /\ owned[board] = (mode = "owned")
      /\ UNCHANGED <<transitions, refusedPut, action, key, local, safe, powerControl, cutOff,
                     target, lease, board, owned, mode, exchanged, committed>>
  BY DEF Preflight, ReadsBack, At, Goto, Keep, laneVars, journalVars, historyVars
<1>2. RequestedBootMode(action) = "rpiboot"
  BY <1>1, UnderwayFacts DEF Underway, UnderwayInv
<1>3. SideTypes'
  BY <1>1, TypeParts DEF IInv, SideTypes, Preflight, laneVars, journalVars, historyVars
<1>4. Powered(transitions, target', lease') /\ (lease' # "none" => powerControl = "relay")
  BY <1>1 DEF IInv, LaneInv
<1>5. PinInv'
  BY <1>1 DEF PinInv
<1>6. StartsOnItsFreshBoard'
  BY <1>1 DEF IInv, HistoryInv, StartsOnItsFreshBoard
<1>7. RankAt(pc', action, powerControl) = RankAt(pc, action, powerControl)
  BY <1>1, RankValues
<1> QED
  BY <1>1, <1>2, <1>3, <1>4, <1>5, <1>6, <1>7, MoveKeeps DEF Underway

\* The check at the start of the process finds the pinned instance.
LEMMA BeforeStartKeeps == ASSUME IInv, BeforeStart PROVE IInv'
<1>1. /\ pc = "payload" /\ pc' = "guarded_run" /\ pin = "held" /\ exchanged' = FALSE
      /\ Commit(action) => mode = "fresh"
      /\ UNCHANGED <<transitions, refusedPut, action, key, local, safe, powerControl, cutOff,
                     target, lease, pin, board, owned, mode, cached, saveFailures, crashes,
                     swaps, executed, committed>>
  BY DEF BeforeStart, At, Goto, Keep, laneVars, adapterVars, journalVars
<1>2. RequestedBootMode(action) = "rpiboot"
  BY <1>1, UnderwayFacts DEF Underway, UnderwayInv
<1>3. SideTypes'
  BY <1>1, TypeParts DEF IInv, SideTypes
<1>4. Powered(transitions, target', lease') /\ (lease' # "none" => powerControl = "relay")
  BY <1>1 DEF IInv, LaneInv
<1>5. PinInv'
  BY <1>1 DEF IInv, PinInv
<1>6. StartsOnItsFreshBoard'
  BY <1>1 DEF IInv, HistoryInv, StartsOnItsFreshBoard
<1>7. RankAt(pc', action, powerControl) = RankAt(pc, action, powerControl)
  BY <1>1, RankValues
<1> QED
  BY <1>1, <1>2, <1>3, <1>4, <1>5, <1>6, <1>7, MoveKeeps DEF Underway

\* The payload is reached with all states of the transition behind it.
LEMMA PayloadRank ==
    ASSUME IInv, pc \in {"payload", "guarded_run"}
    PROVE  RankAt("completing", action, powerControl) = RankAt(pc, action, powerControl)
<1>1. RequestedBootMode(action) = "rpiboot"
  BY UnderwayFacts DEF Underway, UnderwayInv
<1> QED
  BY <1>1, RankValues, LastRanks

\* A readback has its result.
LEMMA ReadbackKeeps == ASSUME IInv, Readback PROVE IInv'
<1>1. /\ pc \in {"payload", "guarded_run"} /\ pc' = "completing"
      /\ executed' = TRUE /\ cached' = TRUE
      /\ UNCHANGED <<transitions, refusedPut, action, key, local, safe, powerControl, cutOff,
                     target, lease, pin, board, owned, saveFailures, crashes, swaps,
                     exchanged, committed>>
  BY DEF Readback, PayloadStarts, At, Goto, Keep, laneVars, journalVars
<1>2. mode' \in {"fresh", "owned", "auto_reconcile"}
  BY DEF Readback, IInv, TypeOK
<1>3. SideTypes'
  BY <1>1, <1>2, TypeParts DEF IInv, SideTypes
<1>4. Powered(transitions, target', lease') /\ (lease' # "none" => powerControl = "relay")
  BY <1>1 DEF IInv, LaneInv
<1>5. PinInv'
  BY <1>1 DEF IInv, PinInv
<1>6. StartsOnItsFreshBoard'
  BY <1>1 DEF IInv, HistoryInv, StartsOnItsFreshBoard
<1>7. RankAt(pc', action, powerControl) = RankAt(pc, action, powerControl)
  BY <1>1, PayloadRank
<1> QED
  BY <1>1, <1>3, <1>4, <1>5, <1>6, <1>7, MoveKeeps DEF Underway

\* A commit finds the pinned board of the preflight, which has no key yet,
\* unless a board was exchanged since the last check.
LEMMA CommitPayloadKeeps == ASSUME IInv, CommitPayload PROVE IInv'
<1> DEFINE start == [board |-> board, owned |-> owned[board], exchanged |-> exchanged]
<1>1. /\ pc = "guarded_run" /\ Commit(action) /\ Keep
      /\ UNCHANGED <<transitions, refusedPut, saveFailures, powerControl, cutOff, target,
                     lease, board, crashes, swaps, exchanged>>
      /\ committed' = committed \cup {start}
  BY DEF CommitPayload, PayloadStarts, Commit, At, journalVars
<1>2. ~ exchanged => board = "expected" /\ owned[board] = FALSE
  <2> SUFFICES ASSUME ~ exchanged PROVE board = "expected" /\ owned[board] = FALSE
    OBVIOUS
  <2>1. /\ board = "expected" /\ owned[board] = (mode = "owned")
        /\ mode = "fresh"
    BY <1>1 DEF IInv, PinInv
  <2>2. "fresh" # "owned"
    OBVIOUS
  <2>3. (mode = "owned") = FALSE
    BY <2>1, <2>2, Zenon
  <2> QED
    BY <2>1, <2>3, Zenon
<1>3. /\ board \in {"expected", "other"} /\ owned[board] \in BOOLEAN
      /\ exchanged \in BOOLEAN
      /\ [owned EXCEPT ![board] = TRUE] \in [{"expected", "other"} -> BOOLEAN]
      /\ owned \in [{"expected", "other"} -> BOOLEAN]
  BY DEF IInv, TypeOK
<1>4. StartsOnItsFreshBoard'
  <2>1. ~ start.exchanged => start.board = "expected" /\ ~ start.owned
    BY <1>2
  <2> HIDE DEF start
  <2> QED
    BY <1>1, <2>1 DEF IInv, HistoryInv, StartsOnItsFreshBoard
<1>5. committed' \subseteq
          [board : {"expected", "other"}, owned : BOOLEAN, exchanged : BOOLEAN]
  <2>1. start \in [board : {"expected", "other"}, owned : BOOLEAN, exchanged : BOOLEAN]
    BY <1>3
  <2> HIDE DEF start
  <2> QED
    BY <1>1, <2>1 DEF IInv, TypeOK
<1> HIDE DEF start
<1>6. Powered(transitions, target', lease') /\ (lease' # "none" => powerControl = "relay")
  BY <1>1 DEF IInv, LaneInv
<1>7. CASE /\ owned' = [owned EXCEPT ![board] = TRUE]
           /\ mode' = "owned" /\ cached' = TRUE
           /\ executed' = TRUE
           /\ pc' = "completing" /\ UNCHANGED <<local, safe, pin>>
  <2>1. SideTypes'
    BY <1>1, <1>3, <1>5, <1>7, TypeParts DEF IInv, SideTypes
  <2>2. PinInv'
    BY <1>7 DEF IInv, PinInv
  <2>3. RankAt(pc', action, powerControl) = RankAt(pc, action, powerControl)
    BY <1>1, <1>7, PayloadRank
  <2> QED
    BY <1>1, <1>4, <1>6, <1>7, <2>1, <2>2, <2>3, MoveKeeps DEF Underway, Keep
<1>8. CASE /\ owned' \in {owned, [owned EXCEPT ![board] = TRUE]}
           /\ Fails(local) /\ UNCHANGED <<mode, cached, executed>>
  <2>1. SideTypes'
    BY <1>1, <1>3, <1>5, <1>8, TypeParts DEF IInv, SideTypes, Fails
  <2> QED
    BY <1>1, <1>4, <1>6, <1>8, <2>1, FailsUnchanged DEF Underway
<1> QED
  BY <1>7, <1>8 DEF CommitPayload, Goto

-----------------------------------------------------------------------------
\* A completed transition is saved while the target is off; when the save
\* returns an error the record is looked at again.
LEMMA PutCompletedKeeps == ASSUME IInv, PutCompleted PROVE IInv'
<1> DEFINE r == [local EXCEPT !.status = "completed"]
<1>1. pc = "put_completed"
  BY DEF PutCompleted, At
<1>2. /\ key \in Keys /\ key # Nil /\ key[1] = action /\ local \in Record
      /\ transitions[key] \in Record /\ transitions[key] # Nil
      /\ action \in Actions /\ action # Nil /\ key \notin cutOff
      /\ UnderwayInv(pc, action, powerControl, local, transitions[key])
  BY <1>1, UnderwayFacts DEF Underway
<1>3. safe /\ target = "off"
  BY <1>1 DEF IInv, LaneInv
<1>4. /\ r \in Record /\ r.status = "completed" /\ r.power = local.power
      /\ r.rank = local.rank /\ r.finalProof = local.finalProof
  BY <1>2 DEF Record, Terminal, SafeTerminal
<1>5. \/ Saved(key, r) /\ Returns
      \/ /\ PutFails(key, r)
         /\ pc' = "terminalize" /\ local' = r /\ UNCHANGED <<action, key, safe, pin>>
  BY DEF PutCompleted, Goto, Keep
<1>6. UNCHANGED <<powerControl, mode, cached, lease, laneVars, crashes, swaps, historyVars>>
  BY DEF PutCompleted
<1>7. /\ local.status = "active" /\ local.power = powerControl
      /\ local.finalProof <=> powerControl = "manual"
      /\ transitions[key].status = "active" /\ transitions[key].power = powerControl
      /\ transitions[key].rank = LastRank(action) /\ local.rank = LastRank(action)
      /\ LastRank(action) \in {4, 5}
  BY <1>1, <1>2, RankValues, LastRanks DEF UnderwayInv
<1> HIDE DEF r
<1>8. Acceptable(key, r)
  BY <1>2, <1>4, <1>7
     DEF Acceptable, Present, validBootTransitionUpdate, Validate,
         validatePowerControlEvidence, SafeTerminal, Terminal
<1>9. PutBootTransition(key, r)
  BY <1>5 DEF PutBootTransition
<1>10. Stored(key, r)
  BY <1>2, <1>3, <1>4, <1>7, <1>8, <1>9, PutStores
<1>11. CASE Returns
  BY <1>2, <1>6, <1>10, <1>11, PutReturnKeeps
<1>12. CASE ~ Returns
  <2>1. pc' = "terminalize" /\ local' = r /\ UNCHANGED <<action, key, safe, pin>>
    BY <1>5, <1>12
  <2>2. SideTypes'
    BY <1>6, <1>10, <2>1, TypeParts DEF IInv, SideTypes, Stored, laneVars, historyVars
  <2>3. CallTypes'
    <3>1. r # Nil
      BY <1>4, LaneAssumption
    <3> QED
      BY <1>2, <1>4, <1>10, <2>1, <3>1 DEF CallTypes, Points, Ending, Stored
  <2>4. CallInv'
    <3>1. \/ transitions'[key] = transitions[key]
          \/ transitions'[key].status = "completed"
      BY <1>4, <1>10 DEF Stored, PutAt
    <3>2. EndingInv(pc', action', powerControl', local', transitions'[key'], safe')
      <4>1. CASE transitions'[key].status = "completed"
        BY <1>4, <1>6, <1>7, <2>1, <4>1 DEF EndingInv
      <4>2. CASE transitions'[key] = transitions[key]
        BY <1>4, <1>6, <1>7, <2>1, <4>2 DEF EndingInv
      <4> QED
        BY <3>1, <4>1, <4>2
    <3>3. \A l \in Keys : OpenIn(transitions', l) => l = key'
      <4>1. \A l \in Keys : OpenIn(transitions, l) => l = key
        BY <1>1 DEF IInv, CallInv, Underway
      <4> QED
        BY <1>10, <2>1, <4>1 DEF Stored, OpenIn
    <3> QED
      BY <1>2, <2>1, <3>2, <3>3 DEF CallInv, Outside, Recovery, Underway, Ending
  <2>5. LaneInv'
    BY <1>3, <1>6, <1>10, <2>1 DEF IInv, LaneInv, Stored, laneVars
  <2>6. PinInv'
    BY <2>1 DEF PinInv
  <2>7. HistoryInv'
    <3>1. \A l \in cutOff' : transitions'[l] # Nil
      BY <1>6, <1>10 DEF IInv, HistoryInv, TypeOK, Stored, historyVars
    <3> QED
      BY <1>2, <1>6, <1>10, <2>1, <3>1
         DEF IInv, HistoryInv, historyVars, Stored, StartsOnItsFreshBoard,
             JournalTakesEveryRecord
  <2> QED
    BY <1>10, <2>2, <2>3, <2>4, <2>5, <2>6, <2>7, TypeParts DEF IInv, JournalInv, Stored
<1> QED
  BY <1>11, <1>12

\* A failed transition is ended as the proof of safe-off allows; a record that
\* is terminal already stands.
LEMMA TerminalizeKeeps == ASSUME IInv, Terminalize PROVE IInv'
<1>1. pc = "terminalize" /\ Returns
      /\ UNCHANGED <<powerControl, mode, cached, lease, laneVars, crashes, swaps, historyVars>>
  BY DEF Terminalize, At
<1>2. CASE UNCHANGED journalVars
  <2>1. UNCHANGED <<transitions, refusedPut>> /\ saveFailures' \in Nat
    BY <1>2 DEF journalVars, IInv, TypeOK
  <2> QED
    BY <1>1, <2>1, RefusalKeeps
<1>3. CASE Incomplete(key) /\ \E record \in Endings : PutBootTransition(key, record)
  <2>1. /\ key \in Keys /\ key[1] = action /\ local \in Record
        /\ EndingInv(pc, action, powerControl, local, transitions[key], safe)
    BY <1>1, InHand DEF Ending, IInv, CallInv
  <2>2. /\ transitions[key] \in Record /\ transitions[key] # Nil
        /\ transitions[key].status = "active"
    BY <1>3, <2>1, IncompleteIsActive
  <2>3. PICK r \in Endings : PutBootTransition(key, r)
    BY <1>3
  <2>4. /\ r \in Record /\ r.power = local.power
        /\ r.rank = local.rank /\ r.finalProof = local.finalProof
        /\ IF safe THEN r.status \in {"interrupted_safe_off", "aborted_safe_off"}
                   ELSE r.status = "quarantined"
    BY <2>1 DEF Endings, Record, Terminal, SafeTerminal
  <2>5. Acceptable(key, r)
    <3>1. /\ local.power = powerControl /\ transitions[key].power = powerControl
          /\ transitions[key].rank <= r.rank /\ r.rank <= LastRank(key[1])
          /\ powerControl = "relay" => ~ r.finalProof
          /\ powerControl = "manual" /\ safe => r.finalProof
      BY <2>1, <2>2, <2>4 DEF EndingInv
    <3>2. transitions[key].rank \in 0..5 /\ r.rank \in 0..5
      BY <2>2, <2>4 DEF Record, Ranks
    <3> QED
      BY <2>2, <2>4, <3>1, <3>2
         DEF Acceptable, Present, validBootTransitionUpdate, Validate,
             validatePowerControlEvidence, SafeTerminal, Terminal
  <2>6. r.status \in SafeTerminal => target = "off"
    BY <2>4 DEF SafeTerminal, IInv, LaneInv
  <2>7. Stored(key, r)
    BY <2>1, <2>2, <2>3, <2>4, <2>5, <2>6, PutStores
  <2> QED
    BY <1>1, <2>1, <2>7, PutReturnKeeps
<1> QED
  BY <1>2, <1>3 DEF Terminalize

\* The record could not be read, and is left to the next recovery.
LEMMA ReloadFailsKeeps == ASSUME IInv, ReloadFails PROVE IInv'
<1>1. saveFailures' \in Nat
  BY DEF ReloadFails, IInv, TypeOK
<1> QED
  BY <1>1, RefusalKeeps DEF ReloadFails

-----------------------------------------------------------------------------
\* The board is exchanged: a pin on the old one is of no use any more.
LEMMA SwapKeeps == ASSUME IInv, Swap PROVE IInv'
<1>1. UNCHANGED <<pc, action, key, local, safe, owned, powerControl, mode, cached, lease,
                  transitions, saveFailures, refusedPut, crashes, cutOff, executed,
                  committed>>
  BY DEF Swap, journalVars
<1>2. /\ target' \in {"off", "rpiboot", "normal"} /\ (target = "off" <=> target' = "off")
      /\ board' \in {"expected", "other"} /\ swaps' \in Nat
  BY DEF Swap, PoweredUp, IInv, TypeOK
<1>3. /\ pin' \in {"none", "broken"} /\ (pin = "none" => pin' = "none")
      /\ exchanged' \in BOOLEAN /\ (pc = "guarded_run" => exchanged')
  BY DEF Swap, At, IInv, TypeOK
<1>4. TypeOK' /\ JournalInv(transitions')
  BY <1>1, <1>2, <1>3 DEF IInv, TypeOK, Present
<1>5. CallInv'
  BY <1>1 DEF IInv, CallInv
<1>6. LaneInv' /\ PinInv'
  BY <1>1, <1>2, <1>3 DEF IInv, LaneInv, PinInv, Powered
<1>7. HistoryInv'
  BY <1>1 DEF IInv, HistoryInv, StartsOnItsFreshBoard, JournalTakesEveryRecord
<1> QED
  BY <1>4, <1>5, <1>6, <1>7 DEF IInv

\* The holder of the relay ends by itself.
LEMMA HolderDiesKeeps == ASSUME IInv, HolderDies PROVE IInv'
<1>1. /\ target' = "off" /\ lease' = "broken" /\ lease = "held"
      /\ UNCHANGED <<pc, action, key, local, safe, board, owned, powerControl, mode, cached,
                     pin, transitions, saveFailures, refusedPut, crashes, swaps,
                     cutOff, executed, exchanged, committed>>
  BY DEF HolderDies, journalVars, historyVars
<1>2. TypeOK' /\ JournalInv(transitions')
  BY <1>1 DEF IInv, TypeOK, Present
<1>3. CallInv'
  BY <1>1 DEF IInv, CallInv
<1>4. LaneInv' /\ PinInv'
  BY <1>1 DEF IInv, LaneInv, PinInv, Powered
<1>5. HistoryInv'
  BY <1>1 DEF IInv, HistoryInv, StartsOnItsFreshBoard, JournalTakesEveryRecord
<1> QED
  BY <1>2, <1>3, <1>4, <1>5 DEF IInv

\* The daemon starts again with what the file holds; what a relay powered is
\* off by then.
LEMMA RestartKeeps == ASSUME IInv, Restart PROVE IInv'
<1>1. /\ Returns /\ lease' = "none" /\ cached' = FALSE
      /\ target' = IF lease # "none" THEN "off" ELSE target
      /\ cutOff' = {k \in Keys : Incomplete(k)}
      /\ UNCHANGED <<board, owned, transitions, saveFailures, refusedPut, swaps, executed,
                     exchanged, committed>>
  BY DEF Restart, journalVars
<1>2. crashes' \in Nat /\ powerControl' \in PowerModes /\ mode' \in {"fresh", "owned", "auto_reconcile"}
  BY LaneAssumption DEF Restart, IInv, TypeOK
<1>3. SideTypes'
  BY <1>1, <1>2, TypeParts DEF IInv, SideTypes, Returns
<1>4. CallTypes'
  BY <1>1 DEF Returns, Goto, CallTypes, Points, Outside
<1>5. CallInv'
  BY <1>1 DEF Returns, Goto, CallInv, Outside, Recovery, Underway, Ending
<1>6. LaneInv'
  BY <1>1 DEF Returns, Goto, IInv, LaneInv, Powered
<1>7. PinInv'
  BY <1>1 DEF Returns, Goto, PinInv
<1>8. HistoryInv'
  BY <1>1 DEF Returns, Goto, IInv, HistoryInv, Incomplete, Present, Underway, Ending,
              StartsOnItsFreshBoard, JournalTakesEveryRecord
<1>9. JournalInv(transitions')
  BY <1>1 DEF IInv
<1> QED
  BY <1>3, <1>4, <1>5, <1>6, <1>7, <1>8, <1>9, TypeParts DEF IInv, JournalInv

-----------------------------------------------------------------------------
(***************************************************************************)
(* The theorems.                                                           *)
(***************************************************************************)
\* Every lane starts off, with an empty journal.
LEMMA InitIInv == Init => IInv
<1> SUFFICES ASSUME Init PROVE IInv
  OBVIOUS
<1>1. transitions = [k \in Keys |-> Nil] /\ \A k \in Keys : transitions[k] = Nil
  BY DEF Init
<1>2. JournalInv(transitions)
  <2>1. \A a \in Actions, g \in 1..MaxGeneration : <<a, g>> \in Keys
    BY DEF Keys
  <2>2. \A a \in Actions : \E n \in 0..MaxGeneration :
            \A g \in 1..MaxGeneration : transitions[<<a, g>>] # Nil <=> g <= n
    <3>1. 0 \in 0..MaxGeneration /\ \A g \in 1..MaxGeneration : ~ (g <= 0)
      BY LaneAssumption
    <3> QED
      BY <1>1, <2>1, <3>1
  <2> QED
    BY <1>1, <2>2 DEF JournalInv, OpenIn
<1>3. TypeOK
  BY <1>1, LaneAssumption DEF Init, TypeOK, SafeOffPoints, FailingPoints
<1>4. CallInv
  BY DEF Init, CallInv, Outside, Recovery, Underway, Ending
<1>5. LaneInv /\ PinInv
  BY DEF Init, LaneInv, PinInv, Powered
<1>6. HistoryInv
  BY DEF Init, HistoryInv, Underway, Ending, StartsOnItsFreshBoard,
         JournalTakesEveryRecord
<1> QED
  BY <1>2, <1>3, <1>4, <1>5, <1>6 DEF IInv

\* A step that changes nothing keeps it.
LEMMA StutterKeeps == ASSUME IInv, UNCHANGED vars PROVE IInv'
<1>1. TypeOK' /\ JournalInv(transitions')
  BY DEF vars, IInv, TypeOK, Present
<1>2. CallInv' /\ LaneInv' /\ PinInv'
  BY DEF vars, IInv, CallInv, LaneInv, PinInv
<1>3. HistoryInv'
  BY DEF vars, IInv, HistoryInv, StartsOnItsFreshBoard, JournalTakesEveryRecord
<1> QED
  BY <1>1, <1>2, <1>3 DEF IInv

\* Every step of the adapter keeps it.
LEMMA AdapterStepKeeps == ASSUME IInv, AdapterStep PROVE IInv'
<1>1. CASE Recovered \/ RecoverMismatch \/ RecoverSelect \/ RecoverPut
  BY <1>1, RecoveredKeeps, RecoverMismatchKeeps, RecoverSelectKeeps, RecoverPutKeeps
<1>2. CASE RelaySafeOff \/ RelaySafeOffFails \/ ManualSafeOff \/ ManualSafeOffFails
  BY <1>2, RelaySafeOffKeeps, RelaySafeOffFailsKeeps, ManualSafeOffKeeps,
     ManualSafeOffFailsKeeps
<1>3. CASE BeginBootTransition \/ BeginRefused \/ ColdInterval \/ OperatorAcknowledges
  BY <1>3, BeginBootTransitionKeeps, BeginRefusedKeeps, ColdIntervalKeeps,
     OperatorAcknowledgesKeeps
<1>4. CASE ArmNormal \/ EnsurePower \/ EnsurePowerFails \/ PutPowerEstablished
  BY <1>4, ArmNormalKeeps, EnsurePowerKeeps, EnsurePowerFailsKeeps,
     PutPowerEstablishedKeeps
<1>5. CASE ObserveMode \/ ReleaseBOOTSEL \/ Preflight \/ BeforeStart \/ Readback
           \/ CommitPayload
  BY <1>5, ObserveModeKeeps, ReleaseBOOTSELKeeps, PreflightKeeps, BeforeStartKeeps,
     ReadbackKeeps,
     CommitPayloadKeeps
<1>6. CASE PutCompleted \/ Terminalize \/ ReloadFails
  BY <1>6, PutCompletedKeeps, TerminalizeKeeps, ReloadFailsKeeps
<1>7. CASE \E p \in FailingPoints : Interrupted(p)
  BY <1>7, InterruptedKeeps
<1> QED
  BY <1>1, <1>2, <1>3, <1>4, <1>5, <1>6, <1>7 DEF AdapterStep

\* Every step keeps it.
LEMMA NextKeeps == ASSUME IInv, [Next]_vars PROVE IInv'
<1>1. CASE \E act \in Actions : Call(act)
  BY <1>1, CallKeeps
<1>2. CASE AdapterStep
  BY <1>2, AdapterStepKeeps
<1>3. CASE OperatorDisconnects \/ OperatorConnects
  BY <1>3, OperatorDisconnectsKeeps, OperatorConnectsKeeps
<1>4. CASE Swap \/ HolderDies \/ Restart
  BY <1>4, SwapKeeps, HolderDiesKeeps, RestartKeeps
<1>5. CASE UNCHANGED vars
  BY <1>5, StutterKeeps
<1> QED
  BY <1>1, <1>2, <1>3, <1>4, <1>5 DEF Next

\* The invariant holds in every reachable state of every lane.
THEOREM Invariance == Spec => []IInv
<1>1. IInv /\ [Next]_vars => IInv'
  BY NextKeeps
<1> QED
  BY InitIInv, <1>1, PTL DEF Spec

\* The variables of the lane keep their types, and a call in flight works on a
\* transition that is in the journal, for all actions, configurations and bounds.
THEOREM TypeCorrect == Spec => []TypeOK
<1>1. IInv => TypeOK
  BY DEF IInv
<1> QED
  BY <1>1, Invariance, PTL

\* The safe-off that the journal claims is true of the target: where no
\* transition is open or quarantined the target is off, through failed
\* releases, failed saves, late operators, exchanged boards and restarts.
THEOREM LaneOffWhenClosed == Spec => []ClosedLaneIsOff
<1>1. IInv => ClosedLaneIsOff
  <2> SUFFICES ASSUME IInv, \A k \in Keys : ~ Incomplete(k), ~ HasQuarantinedBootTransition
               PROVE  target = "off"
    BY DEF ClosedLaneIsOff
  <2>1. \A k \in Keys : ~ OpenIn(transitions, k)
    BY DEF OpenIn, Incomplete, Present, HasQuarantinedBootTransition, Terminal
  <2> QED
    BY <2>1 DEF IInv, LaneInv, Powered
<1> QED
  BY <1>1, Invariance, PTL

\* The journal refuses no record that the adapter puts, so an outcome is lost
\* only to a save that fails.
THEOREM NoRecordIsRefused == Spec => []JournalTakesEveryRecord
<1>1. IInv => JournalTakesEveryRecord
  BY DEF IInv, HistoryInv
<1> QED
  BY <1>1, Invariance, PTL

-----------------------------------------------------------------------------
(***************************************************************************)
(* What a step may do to an open transition and to a lane that is off.     *)
(***************************************************************************)
\* A put changes one record, and gives it the status of the record put.
LEMMA PutMoves ==
    ASSUME IInv, NEW k \in Keys, NEW r \in Record, PutBootTransition(k, r)
    PROVE  \A l \in Keys : \/ transitions'[l] = transitions[l]
                           \/ l = k /\ transitions'[l].status = r.status
<1>1. transitions' = transitions \/ transitions' = [transitions EXCEPT ![k] = Kept(r)]
  BY DEF PutBootTransition, PutFails, Saved, SaveFailed, Refused
<1>2. Kept(r).status = r.status
  BY DEF Kept, Record
<1>3. transitions \in [Keys -> Record \cup {Nil}]
  BY DEF IInv, JournalInv
<1> QED
  BY <1>1, <1>2, <1>3

\* What may become of a transition: it is begun, goes on, is completed or is
\* aborted by the call that runs it, or is ended by whoever finds it.
Moves(k) ==
    \/ transitions'[k] = transitions[k]
    \/ pc = "begin" /\ transitions'[k].status = "active"
    \/ k = key /\ pc \in Underway /\ transitions'[k].status = "active"
    \/ k = key /\ pc = "put_completed" /\ transitions'[k].status = "completed"
    \/ k = key /\ pc = "terminalize" /\ transitions'[k].status = "aborted_safe_off"
    \/ transitions'[k].status \in {"interrupted_safe_off", "quarantined"}

\* A step that leaves the journal alone.
LEMMA UnchangedMoves ==
    ASSUME NEW k \in Keys, transitions' = transitions PROVE Moves(k)
  BY DEF Moves

\* Advancing saves an active record of the transition in hand.
LEMMA AdvanceMoves ==
    ASSUME IInv, pc \in Underway, NEW rank \in Ranks, NEW next, AdvancesTo(rank, next),
           NEW k \in Keys
    PROVE  Moves(k)
<1> DEFINE r == [local EXCEPT !.rank = rank]
<1>1. /\ key \in Keys /\ local \in Record
      /\ UnderwayInv(pc, action, powerControl, local, transitions[key])
  BY UnderwayFacts
<1>2. r \in Record /\ r.status = "active"
  BY <1>1 DEF Record, UnderwayInv
<1>3. PutBootTransition(key, r)
  BY DEF AdvancesTo, PutBootTransition
<1> HIDE DEF r
<1> QED
  BY <1>1, <1>2, <1>3, PutMoves DEF Moves

\* How each step treats a transition (validBootTransitionUpdate,
\* recoverIncompleteTransitions, terminalizeTransition).
LEMMA StepMoves ==
    ASSUME IInv, [Next]_vars, NEW k \in Keys
    PROVE  Moves(k)
<1>1. CASE transitions' = transitions
  BY <1>1, UnchangedMoves
<1>2. CASE RecoverMismatch
  <2>1. PICK l \in Keys :
            /\ Incomplete(l)
            /\ PutBootTransition(l, [transitions[l] EXCEPT !.status = "quarantined"])
    BY <1>2 DEF RecoverMismatch
  <2> DEFINE r == [transitions[l] EXCEPT !.status = "quarantined"]
  <2>2. transitions[l] \in Record
    BY <2>1, IncompleteIsActive
  <2>3. r \in Record /\ r.status = "quarantined"
    BY <2>2 DEF Record, Terminal
  <2>4. PutBootTransition(l, r)
    BY <2>1
  <2> HIDE DEF r
  <2> QED
    BY <2>3, <2>4, PutMoves DEF Moves
<1>3. CASE RecoverPut
  <2> DEFINE r == [local EXCEPT !.status =
                     IF safe THEN "interrupted_safe_off" ELSE "quarantined"]
  <2>1. key \in Keys /\ local \in Record
    BY <1>3, InHand DEF RecoverPut, At, Recovery
  <2>2. r \in Record /\ r.status \in {"interrupted_safe_off", "quarantined"}
    BY <2>1 DEF Record, Terminal, SafeTerminal
  <2>3. PutBootTransition(key, r)
    BY <1>3 DEF RecoverPut, PutBootTransition
  <2> HIDE DEF r
  <2> QED
    BY <2>1, <2>2, <2>3, PutMoves DEF Moves
<1>4. CASE BeginBootTransition
  <2> DEFINE l == <<action, Generation(action)>>
  <2>1. /\ pc = "begin"
        /\ \/ transitions' = transitions
           \/ transitions' = [transitions EXCEPT ![l] = NewRecord]
    BY <1>4 DEF BeginBootTransition, At
  <2>2. NewRecord.status = "active" /\ transitions \in [Keys -> Record \cup {Nil}]
    BY DEF NewRecord, IInv, JournalInv
  <2> HIDE DEF l
  <2> QED
    BY <2>1, <2>2 DEF Moves
<1>5. CASE ColdInterval \/ OperatorAcknowledges \/ PutPowerEstablished \/ ObserveMode
           \/ ReleaseBOOTSEL
  <2>1. pc \in Underway
    BY <1>5 DEF ColdInterval, OperatorAcknowledges, PutPowerEstablished, ObserveMode,
                ReleaseBOOTSEL, At, Underway
  <2>2. /\ AwaitingOperator \in Ranks /\ OperatorAcknowledged \in Ranks
        /\ PowerEstablished \in Ranks /\ ModeObserved \in Ranks /\ OperatorReleased \in Ranks
    BY DEF Ranks, AwaitingOperator, OperatorAcknowledged, PowerEstablished, ModeObserved,
           OperatorReleased
  <2>3. \E rank \in Ranks, next \in Points : AdvancesTo(rank, next)
    <3>1. CASE ColdInterval
      BY <2>2, <3>1 DEF ColdInterval, Points, Underway
    <3>2. CASE OperatorAcknowledges
      BY <2>2, <3>2 DEF OperatorAcknowledges, Points, Underway
    <3>3. CASE PutPowerEstablished
      BY <2>2, <3>3 DEF PutPowerEstablished, Points, Underway
    <3>4. CASE ObserveMode
      BY <2>2, <3>4 DEF ObserveMode, Points, Underway
    <3>5. CASE ReleaseBOOTSEL
      BY <2>2, <3>5 DEF ReleaseBOOTSEL, Points, Underway
    <3> QED
      BY <1>5, <3>1, <3>2, <3>3, <3>4, <3>5
  <2> QED
    BY <2>1, <2>3, AdvanceMoves
<1>6. CASE PutCompleted
  <2> DEFINE r == [local EXCEPT !.status = "completed"]
  <2>1. pc = "put_completed" /\ key \in Keys /\ local \in Record
    BY <1>6, InHand DEF PutCompleted, At, Underway
  <2>2. r \in Record /\ r.status = "completed"
    BY <2>1 DEF Record, Terminal, SafeTerminal
  <2>3. PutBootTransition(key, r)
    BY <1>6 DEF PutCompleted, PutBootTransition
  <2> HIDE DEF r
  <2> QED
    BY <2>1, <2>2, <2>3, PutMoves DEF Moves
<1>7. CASE Terminalize
  <2>1. pc = "terminalize" /\ key \in Keys /\ local \in Record
    BY <1>7, InHand DEF Terminalize, At, Ending
  <2>2. CASE transitions' = transitions
    BY <2>2, UnchangedMoves
  <2>3. CASE \E record \in Endings : PutBootTransition(key, record)
    <3>1. PICK r \in Endings : PutBootTransition(key, r)
      BY <2>3
    <3>2. /\ r \in Record
          /\ r.status \in {"interrupted_safe_off", "aborted_safe_off", "quarantined"}
      BY <2>1 DEF Endings, Record, Terminal, SafeTerminal
    <3> QED
      BY <2>1, <3>1, <3>2, PutMoves DEF Moves
  <2> QED
    BY <1>7, <2>2, <2>3 DEF Terminalize, journalVars
<1>8. CASE \/ \E act \in Actions : Call(act)
           \/ Recovered \/ RecoverSelect \/ BeginRefused \/ ReloadFails
           \/ RelaySafeOff \/ RelaySafeOffFails \/ ManualSafeOff \/ ManualSafeOffFails
           \/ ArmNormal \/ EnsurePower \/ EnsurePowerFails
           \/ Preflight \/ BeforeStart \/ Readback
           \/ CommitPayload
           \/ \E p \in FailingPoints : Interrupted(p)
           \/ OperatorDisconnects \/ OperatorConnects \/ Swap \/ HolderDies \/ Restart
           \/ UNCHANGED vars
  <2>1. transitions' = transitions
    BY <1>8 DEF Call, Recovered, RecoverSelect, BeginRefused, ReloadFails, RelaySafeOff,
       RelaySafeOffFails, ManualSafeOff, ManualSafeOffFails, ArmNormal, EnsurePower,
       EnsurePowerFails, Preflight, BeforeStart, Readback, CommitPayload, Interrupted,
       OperatorDisconnects, OperatorConnects, Swap, HolderDies, Restart, vars, journalVars
  <2> QED
    BY <2>1, UnchangedMoves
<1> QED
  BY <1>2, <1>3, <1>4, <1>5, <1>6, <1>7, <1>8 DEF Next, AdapterStep

\* A transition is completed only by the call whose payload or normal boot
\* returned its result for it, whatever is saved again or recovered.
THEOREM CompletionNeedsExecution == Spec => CompletedIsExecuted
<1>1. ASSUME IInv, [Next]_vars, NEW k \in Keys, Incomplete(k),
             transitions'[k].status = "completed"
      PROVE  k = key /\ executed
  <2>1. Moves(k) /\ transitions[k].status = "active"
    BY <1>1, StepMoves, IncompleteIsActive
  <2>2. k = key /\ pc = "put_completed"
    BY <1>1, <2>1 DEF Moves
  <2> QED
    BY <1>1, <2>2 DEF IInv, HistoryInv
<1>2. IInv /\ [Next]_vars =>
        [\A k \in Keys :
            Incomplete(k) /\ transitions'[k].status = "completed" => k = key /\ executed]_vars
  BY <1>1
<1> QED
  BY <1>2, Invariance, PTL DEF Spec, CompletedIsExecuted

\* A transition that an earlier run of the daemon left open is never taken up
\* again; it only ends, interrupted or quarantined.
THEOREM OldTransitionsOnlyEnd == Spec => OldTransitionsAreNotResumed
<1>1. ASSUME IInv, [Next]_vars, NEW k \in Keys, Incomplete(k), k \in cutOff,
             transitions'[k] # transitions[k]
      PROVE  transitions'[k].status \in {"interrupted_safe_off", "quarantined"}
  <2>1. Moves(k)
    BY <1>1, StepMoves
  <2>2. k = key => pc \notin Underway \cup Ending
    BY <1>1 DEF IInv, HistoryInv
  <2>3. pc # "begin"
    BY <1>1 DEF IInv, CallInv, Incomplete, Present, OpenIn, Terminal
  <2> QED
    BY <1>1, <2>1, <2>2, <2>3 DEF Moves, Underway, Ending
<1>2. IInv /\ [Next]_vars =>
        [\A k \in Keys :
            Incomplete(k) /\ k \in cutOff /\ transitions'[k] # transitions[k] =>
                transitions'[k].status \in {"interrupted_safe_off", "quarantined"}]_vars
  BY <1>1
<1> QED
  BY <1>2, Invariance, PTL DEF Spec, OldTransitionsAreNotResumed

\* Once a transition is quarantined the lane is never powered again: every step
\* that powers it belongs to a transition that is the only open record.
THEOREM QuarantineLocks == Spec => QuarantineIsALock
<1>1. ASSUME IInv, [Next]_vars, HasQuarantinedBootTransition, target = "off"
      PROVE  target' = "off"
  <2>1. pc \notin Underway
    <3> SUFFICES ASSUME pc \in Underway PROVE FALSE
      OBVIOUS
    <3>1. /\ key \in Keys /\ transitions[key] # Nil /\ transitions[key].status = "active"
      BY UnderwayFacts, <1>1 DEF UnderwayInv
    <3>2. PICK k \in Keys : transitions[k] # Nil /\ transitions[k].status = "quarantined"
      BY <1>1 DEF HasQuarantinedBootTransition, Present
    <3>3. OpenIn(transitions, key) /\ OpenIn(transitions, k)
      BY <3>1, <3>2 DEF OpenIn, SafeTerminal
    <3>4. k = key
      BY <1>1, <3>1, <3>3 DEF IInv, JournalInv
    <3> QED
      BY <3>1, <3>2, <3>4
  <2>2. CASE EnsurePower \/ EnsurePowerFails \/ OperatorConnects
    BY <2>1, <2>2 DEF EnsurePower, EnsurePowerFails, OperatorConnects, At, Underway
  <2>3. CASE Swap
    BY <1>1, <2>3 DEF Swap
  <2>4. CASE RelaySafeOff \/ RelaySafeOffFails \/ OperatorDisconnects \/ HolderDies \/ Restart
    BY <1>1, <2>4 DEF RelaySafeOff, RelaySafeOffFails, OperatorDisconnects, HolderDies, Restart
  <2>5. CASE \/ \E act \in Actions : Call(act)
             \/ Recovered \/ RecoverMismatch \/ RecoverSelect \/ RecoverPut
             \/ BeginBootTransition \/ BeginRefused \/ ReloadFails
             \/ ManualSafeOff \/ ManualSafeOffFails
             \/ ColdInterval \/ OperatorAcknowledges \/ ArmNormal \/ PutPowerEstablished
             \/ ObserveMode \/ ReleaseBOOTSEL \/ Preflight \/ BeforeStart \/ Readback
             \/ CommitPayload
             \/ PutCompleted \/ Terminalize
             \/ \E p \in FailingPoints : Interrupted(p)
             \/ UNCHANGED vars
    <3>1. target' = target
      BY <2>5 DEF Call, Recovered, RecoverMismatch, RecoverSelect, RecoverPut,
         BeginBootTransition, BeginRefused, ReloadFails, ManualSafeOff, ManualSafeOffFails,
         ColdInterval, OperatorAcknowledges, ArmNormal, PutPowerEstablished, ObserveMode,
         ReleaseBOOTSEL, Preflight, BeforeStart, Readback, CommitPayload, PutCompleted,
         Terminalize, Interrupted, vars, laneVars
    <3> QED
      BY <1>1, <3>1
  <2> QED
    BY <1>1, <2>2, <2>3, <2>4, <2>5 DEF Next, AdapterStep
<1>2. IInv /\ [Next]_vars =>
        [HasQuarantinedBootTransition /\ target = "off" => target' = "off"]_vars
  BY <1>1
<1> QED
  BY <1>2, Invariance, PTL DEF Spec, QuarantineIsALock

-----------------------------------------------------------------------------
(***************************************************************************)
(* The board that a commit reaches.                                        *)
(***************************************************************************)
\* A commit whose result the call has in hand, and one whose record says that
\* it was completed, has programmed the authority-bound board.
CommitInv ==
    /\ pc \in {"completing", "put_completed"} /\ Commit(action) => owned["expected"]
    /\ CompletedCommitReachedItsBoard

\* No step takes the customer key from a board (adapter.go commitLocked).
LEMMA OwnedStays ==
    ASSUME IInv, [Next]_vars PROVE owned["expected"] => owned'["expected"]
<1>1. CASE CommitPayload
  <2>1. owned \in [{"expected", "other"} -> BOOLEAN] /\ board \in {"expected", "other"}
    BY DEF IInv, TypeOK
  <2>2. owned' = owned \/ owned' = [owned EXCEPT ![board] = TRUE]
    BY <1>1 DEF CommitPayload
  <2> QED
    BY <2>1, <2>2
<1>2. CASE \/ \E act \in Actions : Call(act)
           \/ Recovered \/ RecoverMismatch \/ RecoverSelect \/ RecoverPut
           \/ RelaySafeOff \/ RelaySafeOffFails \/ ManualSafeOff \/ ManualSafeOffFails
           \/ BeginBootTransition \/ BeginRefused \/ ColdInterval \/ OperatorAcknowledges
           \/ ArmNormal \/ EnsurePower \/ EnsurePowerFails \/ PutPowerEstablished
  BY <1>2 DEF Call, Recovered, RecoverMismatch, RecoverSelect, RecoverPut, RelaySafeOff,
     RelaySafeOffFails, ManualSafeOff, ManualSafeOffFails, BeginBootTransition,
     BeginRefused, ColdInterval, OperatorAcknowledges, ArmNormal, EnsurePower,
     EnsurePowerFails, PutPowerEstablished, laneVars
<1>3. CASE \/ ObserveMode \/ ReleaseBOOTSEL \/ Preflight \/ BeforeStart \/ Readback
           \/ PutCompleted \/ Terminalize \/ ReloadFails
           \/ \E p \in FailingPoints : Interrupted(p)
           \/ OperatorDisconnects \/ OperatorConnects \/ Swap \/ HolderDies \/ Restart
           \/ UNCHANGED vars
  BY <1>3 DEF ObserveMode, ReleaseBOOTSEL, Preflight, BeforeStart, Readback, PutCompleted,
     Terminalize, ReloadFails, Interrupted, OperatorDisconnects, OperatorConnects, Swap,
     HolderDies, Restart, vars, laneVars
<1> QED
  BY <1>1, <1>2, <1>3 DEF Next, AdapterStep

\* A call comes to the end of a transition with the result of its payload or
\* from the proof that the target is off.
LEMMA WhatCompletes ==
    ASSUME IInv, [Next]_vars, pc' \in {"completing", "put_completed"}, Commit(action')
    PROVE  \/ pc \in {"completing", "put_completed"} /\ Commit(action)
           \/ CommitPayload /\ board = "expected" /\ owned' = [owned EXCEPT ![board] = TRUE]
<1>1. CASE CommitPayload
  BY <1>1 DEF CommitPayload, Fails, Goto
<1>2. CASE Readback
  BY <1>2 DEF Readback, Keep
<1>3. CASE ObserveMode
  <2>1. action' = action
    BY <1>3 DEF ObserveMode, Keep
  <2>2. pc' = "completing" => RequestedBootMode(action) = "normal"
    BY <1>3 DEF ObserveMode, AdvancesTo, Fails, Goto
  <2>3. pc' # "put_completed"
    BY <1>3 DEF ObserveMode, AdvancesTo, Fails, Goto
  <2> QED
    BY <2>1, <2>2, <2>3 DEF RequestedBootMode, Commit
<1>4. CASE RelaySafeOff \/ ManualSafeOff
  <2>1. pc \in SafeOffPoints /\ SafeOffProved(powerControl = "manual") /\ action' = action
    BY <1>4 DEF RelaySafeOff, ManualSafeOff, SafeOffProved, Keep
  <2>2. pc = "completing"
    BY <2>1 DEF SafeOffProved, SafeOffPoints, At, Goto
  <2> QED
    BY <2>1, <2>2
<1>5. CASE RelaySafeOffFails \/ ManualSafeOffFails
  BY <1>5 DEF RelaySafeOffFails, ManualSafeOffFails, SafeOffUnproven, Returns, Goto
<1>6. CASE \/ OperatorDisconnects \/ OperatorConnects \/ Swap \/ HolderDies \/ UNCHANGED vars
  BY <1>6 DEF OperatorDisconnects, OperatorConnects, Swap, HolderDies, vars
<1>7. CASE \/ \E act \in Actions : Call(act)
           \/ Recovered \/ RecoverMismatch \/ RecoverSelect \/ RecoverPut
           \/ BeginBootTransition \/ BeginRefused \/ PutCompleted \/ Terminalize
           \/ ReloadFails \/ Restart
  BY <1>7 DEF Call, Recovered, RecoverMismatch, RecoverSelect, RecoverPut,
     BeginBootTransition, BeginRefused, PutCompleted, Terminalize, ReloadFails, Restart,
     Returns, Goto
<1>8. CASE ColdInterval \/ OperatorAcknowledges \/ PutPowerEstablished \/ ReleaseBOOTSEL
  BY <1>8 DEF ColdInterval, OperatorAcknowledges, PutPowerEstablished, ReleaseBOOTSEL,
     AdvancesTo, Fails, Goto
<1>9. CASE \/ ArmNormal \/ EnsurePower \/ EnsurePowerFails \/ Preflight \/ BeforeStart
           \/ \E p \in FailingPoints : Interrupted(p)
  BY <1>9 DEF ArmNormal, EnsurePower, EnsurePowerFails, Preflight, BeforeStart,
     Interrupted, Fails, Goto
<1> QED
  BY <1>1, <1>2, <1>3, <1>4, <1>5, <1>6, <1>7, <1>8, <1>9 DEF Next, AdapterStep

\* Every step keeps what is known of the commits.
LEMMA CommitKeeps == ASSUME IInv, CommitInv, [Next]_vars PROVE CommitInv'
<1>1. pc' \in {"completing", "put_completed"} /\ Commit(action') => owned'["expected"]
  <2> SUFFICES ASSUME pc' \in {"completing", "put_completed"}, Commit(action')
               PROVE  owned'["expected"]
    OBVIOUS
  <2>1. CASE pc \in {"completing", "put_completed"} /\ Commit(action)
    BY <2>1, OwnedStays DEF CommitInv
  <2>2. CASE board = "expected" /\ owned' = [owned EXCEPT ![board] = TRUE]
    BY <2>2 DEF IInv, TypeOK
  <2> QED
    BY <2>1, <2>2, WhatCompletes
<1>2. ASSUME NEW k \in Keys, transitions'[k] # Nil, Commit(k[1]),
             transitions'[k].status = "completed"
      PROVE  owned'["expected"]
  <2>1. CASE transitions'[k] = transitions[k]
    BY <1>2, <2>1, OwnedStays DEF CommitInv, CompletedCommitReachedItsBoard, Present
  <2>2. CASE transitions'[k] # transitions[k]
    <3>1. k = key /\ pc = "put_completed"
      BY <1>2, <2>2, StepMoves DEF Moves
    <3>2. key[1] = action
      BY <3>1 DEF IInv, CallInv, Underway
    <3> QED
      BY <1>2, <3>1, <3>2, OwnedStays DEF CommitInv
  <2> QED
    BY <2>1, <2>2
<1> QED
  BY <1>1, <1>2 DEF CommitInv, CompletedCommitReachedItsBoard, Present

\* A commit is started only on the authority-bound board, and only while that
\* board has no customer key, unless a board is exchanged between the check of
\* the pinned USB instance and the start of rpiboot; and a commit is recorded as
\* completed only when the authority-bound board carries the key.
THEOREM CommitsReachFreshBoards == Spec => []CommitReachesItsFreshBoard
<1>1. Init => CommitInv
  BY DEF Init, CommitInv, CompletedCommitReachedItsBoard, Present
<1>2. IInv /\ CommitInv /\ [Next]_vars => CommitInv'
  BY CommitKeeps
<1>3. IInv /\ CommitInv => CommitReachesItsFreshBoard
  BY DEF IInv, HistoryInv, CommitInv, CommitReachesItsFreshBoard
<1> QED
  BY <1>1, <1>2, <1>3, Invariance, PTL DEF Spec

=============================================================================
