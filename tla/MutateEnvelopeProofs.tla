------------------------ MODULE MutateEnvelopeProofs ------------------------
(***************************************************************************)
(* The properties of MutateEnvelope, for every set of requests, keys and   *)
(* transactions and any number of failing saves.                           *)
(***************************************************************************)
EXTENDS MutateEnvelope, TLAPS

\* What every state that the service builds or saves satisfies: the version
\* counts the history, and the history is indexed,
\* and only what is in the history is.
Sound(s) ==
    /\ s \in PersistedState
    /\ \A t \in Transactions :
          /\ s.version[t] = Len(s.history[t]) + 1
          /\ \A i \in 1..Len(s.history[t]) :
                LET request == s.history[t][i]
                IN  /\ request.transaction = t
                    /\ request.version = i
                    /\ s.idempotency[request.key] = request
    /\ \A k \in Keys :
          s.idempotency[k] # Nil =>
              s.idempotency[k].key = k /\ AppliedIn(s, s.idempotency[k])

\* The store is the state in memory, or one request ahead of it: the candidate
\* of a save that returned an error.
Ahead ==
    \A t \in Transactions :
        /\ Len(store.history[t]) \in {Len(state.history[t]), Len(state.history[t]) + 1}
        /\ \A i \in 1..Len(state.history[t]) : store.history[t][i] = state.history[t][i]

IInv ==
    /\ TypeOK
    /\ Sound(state)
    /\ Sound(store)
    /\ Ahead
    /\ AcknowledgedIsApplied
    /\ VersionConflictIsHonest

-----------------------------------------------------------------------------
\* The candidate of a request that passed the checks of mutate is sound, holds
\* what the state held, and holds the request itself.
LEMMA CandidateIsSound ==
    ASSUME Sound(state), NEW request \in Requests,
           Unindexed(request), VersionMatches(request)
    PROVE  /\ Sound(Candidate(request))
           /\ AppliedIn(Candidate(request), request)
           /\ \A other \in Requests :
                 AppliedIn(state, other) => AppliedIn(Candidate(request), other)
           /\ \A t \in Transactions :
                 /\ Len(Candidate(request).history[t])
                       \in {Len(state.history[t]), Len(state.history[t]) + 1}
                 /\ \A i \in 1..Len(state.history[t]) :
                       Candidate(request).history[t][i] = state.history[t][i]
<1> DEFINE c == Candidate(request)
           T == request.transaction
<1>1. /\ request \in Request
      /\ T \in Transactions
      /\ request.key \in Keys
      /\ request.version \in Nat \ {0}
  BY RequestsAssumption DEF Request
<1>2. state \in PersistedState
  BY DEF Sound
<1>3. /\ c.version = [state.version EXCEPT ![T] = @ + 1]
      /\ c.history = [state.history EXCEPT ![T] = Append(@, request)]
      /\ c.idempotency = [state.idempotency EXCEPT ![request.key] = request]
  BY DEF Candidate
<1>4. state.history[T] \in Seq(Requests)
  BY <1>1, <1>2 DEF PersistedState
<1>5. c \in PersistedState
  <2>1. /\ state.version \in [Transactions -> Nat]
        /\ state.history \in [Transactions -> Seq(Requests)]
        /\ state.idempotency \in [Keys -> Requests \cup {Nil}]
    BY <1>2 DEF PersistedState
  <2>2. c.version \in [Transactions -> Nat]
    BY <1>1, <1>3, <2>1
  <2>3. Append(state.history[T], request) \in Seq(Requests)
    BY <1>4
  <2>4. c.history \in [Transactions -> Seq(Requests)]
    BY <1>1, <1>3, <2>1, <2>3
  <2>5. c.idempotency \in [Keys -> Requests \cup {Nil}]
    BY <1>1, <1>3, <2>1
  <2> QED
    BY <2>2, <2>4, <2>5 DEF PersistedState, Candidate
<1>6. \A t \in Transactions \ {T} :
        c.history[t] = state.history[t] /\ c.version[t] = state.version[t]
  BY <1>1, <1>2, <1>3 DEF PersistedState
<1>7. /\ c.history[T] = Append(state.history[T], request)
      /\ c.version[T] = state.version[T] + 1
  BY <1>1, <1>2, <1>3 DEF PersistedState
<1>8. /\ Len(c.history[T]) = Len(state.history[T]) + 1
      /\ \A i \in 1..Len(state.history[T]) : c.history[T][i] = state.history[T][i]
      /\ c.history[T][Len(state.history[T]) + 1] = request
  BY <1>4, <1>7
<1>9. state.version[T] = Len(state.history[T]) + 1 /\ Len(state.history[T]) \in Nat
  BY <1>1, <1>4 DEF Sound
<1>10. request.version = Len(state.history[T]) + 1
  BY <1>9 DEF VersionMatches
<1>11. ASSUME NEW t \in Transactions, NEW i \in 1..Len(state.history[t])
       PROVE  LET old == state.history[t][i]
              IN  old.transaction = t /\ old.version = i /\ c.idempotency[old.key] = old
  <2> DEFINE old == state.history[t][i]
  <2>1. old.transaction = t /\ old.version = i /\ state.idempotency[old.key] = old
    BY DEF Sound
  <2>2. old \in Requests
    BY <1>2 DEF PersistedState
  <2>3. old.key \in Keys /\ old.key # request.key
    BY <2>1, <2>2, RequestsAssumption DEF Unindexed, Request
  <2>4. c.idempotency[old.key] = old
    BY <1>1, <1>2, <1>3, <2>1, <2>3 DEF PersistedState
  <2> QED
    BY <2>1, <2>4
<1>12. c.idempotency[request.key] = request
  BY <1>1, <1>2, <1>3 DEF PersistedState
<1>14. AppliedIn(c, request)
  BY <1>8, <1>9, <1>10 DEF AppliedIn
<1>15. ASSUME NEW t \in Transactions
       PROVE  /\ Len(c.history[t]) \in {Len(state.history[t]), Len(state.history[t]) + 1}
              /\ \A i \in 1..Len(state.history[t]) : c.history[t][i] = state.history[t][i]
  BY <1>6, <1>8
<1>16. ASSUME NEW other \in Requests, AppliedIn(state, other)
       PROVE  AppliedIn(c, other)
  <2>1. other.transaction \in Transactions
    BY RequestsAssumption DEF Request
  <2>2. Len(state.history[other.transaction]) \in Nat
    BY <1>2, <2>1 DEF PersistedState
  <2> QED
    BY <1>15, <1>16, <2>1, <2>2 DEF AppliedIn
<1>17. Sound(c)
  <2>1. ASSUME NEW t \in Transactions
        PROVE  c.version[t] = Len(c.history[t]) + 1
    <3>1. state.version[t] = Len(state.history[t]) + 1
      BY DEF Sound
    <3> QED
      BY <1>6, <1>7, <1>8, <1>9, <3>1
  <2>2. ASSUME NEW t \in Transactions, NEW i \in 1..Len(c.history[t])
        PROVE  LET r == c.history[t][i]
               IN  r.transaction = t /\ r.version = i /\ c.idempotency[r.key] = r
    <3>1. CASE t = T /\ i = Len(state.history[T]) + 1
      BY <1>8, <1>10, <1>12, <3>1
    <3>2. CASE ~ (t = T /\ i = Len(state.history[T]) + 1)
      <4>1. i \in 1..Len(state.history[t]) /\ c.history[t][i] = state.history[t][i]
        BY <1>6, <1>8, <1>9, <3>2, SMTT(30)
      <4> QED
        BY <1>11, <4>1
    <3> QED
      BY <3>1, <3>2
  <2>3. ASSUME NEW k \in Keys, c.idempotency[k] # Nil
        PROVE  c.idempotency[k].key = k /\ AppliedIn(c, c.idempotency[k])
    <3>1. CASE k = request.key
      BY <1>12, <1>14, <3>1
    <3>2. CASE k # request.key
      <4>1. c.idempotency[k] = state.idempotency[k]
        BY <1>1, <1>2, <1>3, <3>2 DEF PersistedState
      <4>2. state.idempotency[k] \in Requests
        BY <1>2, <2>3, <4>1 DEF PersistedState
      <4>3. state.idempotency[k].key = k /\ AppliedIn(state, state.idempotency[k])
        BY <2>3, <4>1 DEF Sound
      <4> QED
        BY <1>16, <4>1, <4>2, <4>3
    <3> QED
      BY <3>1, <3>2
  <2> QED
    BY <1>5, <2>1, <2>2, <2>3 DEF Sound
<1> QED
  BY <1>14, <1>15, <1>16, <1>17

\* What is applied in a sound state is indexed there, under its key.
LEMMA AppliedIsIndexed ==
    ASSUME NEW s, Sound(s), NEW request \in Requests, AppliedIn(s, request)
    PROVE  s.idempotency[request.key] = request
<1>1. request.transaction \in Transactions
  BY RequestsAssumption DEF Request
<1> QED
  BY <1>1 DEF Sound, AppliedIn

\* The empty service satisfies the invariant.
LEMMA Initially == Init => IInv
<1> SUFFICES ASSUME Init PROVE IInv
  OBVIOUS
<1>1. /\ state = store
      /\ state.version = [t \in Transactions |-> 1]
      /\ state.history = [t \in Transactions |-> << >>]
      /\ state.idempotency = [k \in Keys |-> Nil]
  BY DEF Init
<1>2. \A t \in Transactions : state.history[t] = << >> /\ state.version[t] = 1
  BY <1>1
<1>3. << >> \in Seq(Requests) /\ Len(<< >>) = 0
  OBVIOUS
<1>4. state.history \in [Transactions -> Seq(Requests)]
  BY <1>1, <1>3
<1>5. state \in PersistedState
  BY <1>4 DEF Init, PersistedState
<1>6. Sound(state)
  <2>1. \A k \in Keys : state.idempotency[k] = Nil
    BY <1>1
  <2> QED
    BY <1>2, <1>3, <1>5, <2>1 DEF Sound
<1>7. TypeOK
  BY <1>1, <1>5, RequestsAssumption DEF Init, TypeOK
<1>8. Ahead
  BY <1>1, <1>2, <1>3 DEF Ahead
<1> QED
  BY <1>1, <1>6, <1>7, <1>8 DEF Init, IInv, AcknowledgedIsApplied, VersionConflictIsHonest

\* What is applied in memory is applied in the store.
LEMMA StoreHoldsState ==
    ASSUME IInv, NEW request \in Requests, AppliedIn(state, request)
    PROVE  AppliedIn(store, request)
<1>1. request.transaction \in Transactions
  BY RequestsAssumption DEF Request
<1>2. Len(state.history[request.transaction]) \in Nat
  BY <1>1 DEF IInv, Sound, PersistedState
<1> QED
  BY <1>1, <1>2 DEF IInv, Ahead, AppliedIn

\* A step that leaves memory and store alone leaves them sound.
LEMMA StatesStay ==
    ASSUME IInv, UNCHANGED <<state, store>>
    PROVE  /\ Sound(state)'
           /\ Sound(store)'
           /\ Ahead'
           /\ acknowledged' = acknowledged => AcknowledgedIsApplied'
<1>1. Sound(state)'
  BY DEF IInv, Sound, AppliedIn
<1>2. Sound(store)'
  BY DEF IInv, Sound, AppliedIn
<1>3. Ahead'
  BY DEF IInv, Ahead
<1>4. acknowledged' = acknowledged => AcknowledgedIsApplied'
  BY DEF IInv, AcknowledgedIsApplied, AppliedIn
<1> QED
  BY <1>1, <1>2, <1>3, <1>4

\* Every reply, commit, failed save and restart keeps the invariant.
LEMMA Step == IInv /\ [Next]_vars => IInv'
<1> SUFFICES ASSUME IInv, [Next]_vars PROVE IInv'
  OBVIOUS
<1>0. TypeOK /\ Sound(state) /\ Sound(store) /\ Ahead /\ AcknowledgedIsApplied
  BY DEF IInv
<1>1. ASSUME NEW request \in Requests, replayLocked(request)
      PROVE  IInv'
  <2>1. state.idempotency[request.key] = request /\ request.key \in Keys /\ request # Nil
    BY <1>1, RequestsAssumption DEF replayLocked, Request
  <2>2. AppliedIn(state, request)
    BY <1>0, <2>1 DEF Sound
  <2>3. AppliedIn(store, request)
    BY <2>2, StoreHoldsState
  <2>4. UNCHANGED <<state, store, saveFailures>>
    BY <1>1 DEF replayLocked
  <2>5. AcknowledgedIsApplied'
    BY <1>0, <1>1, <2>2, <2>3, <2>4 DEF replayLocked, AcknowledgedIsApplied, AppliedIn
  <2>6. TypeOK'
    BY <1>0, <1>1, <2>4 DEF TypeOK, replayLocked, Replies
  <2>7. reply'.outcome = "success"
    BY <1>1 DEF replayLocked, Replies
  <2> QED
    BY <2>4, <2>5, <2>6, <2>7, StatesStay DEF IInv, VersionConflictIsHonest
<1>2. ASSUME NEW request \in Requests, ReplayConflict(request)
      PROVE  IInv'
  <2>1. UNCHANGED <<state, store, acknowledged, saveFailures>>
    BY <1>2 DEF ReplayConflict
  <2>2. reply' = [outcome |-> "idempotency_conflict", request |-> request]
    BY <1>2 DEF ReplayConflict, Replies
  <2>3. TypeOK'
    BY <1>0, <2>1, <2>2 DEF TypeOK
  <2> QED
    BY <2>1, <2>2, <2>3, StatesStay DEF IInv, VersionConflictIsHonest
<1>3. ASSUME NEW request \in Requests, VersionConflict(request)
      PROVE  IInv'
  <2>1. UNCHANGED <<state, store, acknowledged, saveFailures>>
    BY <1>3 DEF VersionConflict
  <2>2. reply' = [outcome |-> "version_conflict", request |-> request]
    BY <1>3 DEF VersionConflict, Replies
  <2>3. TypeOK'
    BY <1>0, <2>1, <2>2 DEF TypeOK
  <2>4. request # Nil /\ request.transaction \in Transactions /\ request.version \in Nat
    BY RequestsAssumption DEF Request
  <2>5. ~ AppliedIn(state, request)
    BY <1>0, <1>3, <2>4, AppliedIsIndexed DEF VersionConflict, Unindexed
  <2>6. ~ AppliedIn(store, request)
    <3> DEFINE before == state.history[request.transaction]
               after == store.history[request.transaction]
    <3>1. /\ Len(before) \in Nat
          /\ Len(after) \in {Len(before), Len(before) + 1}
          /\ \A i \in 1..Len(before) : after[i] = before[i]
      BY <1>0, <2>4 DEF Sound, PersistedState, Ahead
    <3>2. request.version # Len(before) + 1
      BY <1>0, <1>3, <2>4 DEF Sound, VersionConflict, VersionMatches
    <3>3. ASSUME AppliedIn(store, request) PROVE AppliedIn(state, request)
      <4> DEFINE v == request.version
      <4>1. v \in 1..Len(after) /\ after[v] = request
        BY <3>3 DEF AppliedIn
      <4>2. v \in Nat
        BY <2>4
      <4>3. v # Len(before) + 1
        BY <3>2
      <4> HIDE DEF before, after, v
      <4>4. v \in 1..Len(before)
        BY <3>1, <4>1, <4>2, <4>3
      <4>5. before[v] = request
        BY <3>1, <4>1, <4>4
      <4> QED
        BY <4>4, <4>5 DEF AppliedIn, before, v
    <3> QED
      BY <2>5, <3>3
  <2>7. VersionConflictIsHonest'
    BY <2>1, <2>2, <2>5, <2>6 DEF VersionConflictIsHonest, AppliedIn
  <2> QED
    BY <2>1, <2>3, <2>7, StatesStay DEF IInv
<1>4. ASSUME NEW request \in Requests, mutate(request)
      PROVE  IInv'
  <2> DEFINE c == Candidate(request)
  <2>1. /\ Sound(c)
        /\ AppliedIn(c, request)
        /\ \A other \in Requests : AppliedIn(state, other) => AppliedIn(c, other)
        /\ \A t \in Transactions :
              /\ Len(c.history[t]) \in {Len(state.history[t]), Len(state.history[t]) + 1}
              /\ \A i \in 1..Len(state.history[t]) : c.history[t][i] = state.history[t][i]
    BY <1>0, <1>4, CandidateIsSound DEF mutate
  <2>2. c \in PersistedState
    BY <2>1 DEF Sound
  <2>3. acknowledged \subseteq Requests
    BY <1>0 DEF TypeOK
  <2>4. CASE /\ store' = c
             /\ state' = c
             /\ acknowledged' = acknowledged \cup {request}
             /\ reply' = [outcome |-> "success", request |-> request]
             /\ UNCHANGED saveFailures
    <3> HIDE DEF c
    <3>1. TypeOK'
      BY <1>0, <2>2, <2>4 DEF TypeOK
    <3>2. AcknowledgedIsApplied'
      BY <1>0, <2>1, <2>3, <2>4 DEF AcknowledgedIsApplied, AppliedIn
    <3>3. Sound(state)' /\ Sound(store)'
      BY <2>1, <2>4, SMTT(30) DEF Sound, AppliedIn
    <3>4. Ahead'
      BY <2>4 DEF Ahead
    <3> QED
      BY <2>4, <3>1, <3>2, <3>3, <3>4 DEF IInv, VersionConflictIsHonest
  <2>5. CASE /\ saveFailures' = saveFailures + 1
             /\ store' \in {store, c}
             /\ reply' = [outcome |-> "error", request |-> request]
             /\ UNCHANGED <<state, acknowledged>>
    <3> HIDE DEF c
    <3>1. TypeOK'
      BY <1>0, <2>2, <2>5 DEF TypeOK
    <3>2. AcknowledgedIsApplied'
      BY <1>0, <2>1, <2>3, <2>5 DEF AcknowledgedIsApplied, AppliedIn
    <3>3. Sound(state)'
      BY <1>0, <2>5 DEF Sound, AppliedIn
    <3>4. Sound(store)'
      <4>1. CASE store' = store
        BY <1>0, <4>1 DEF Sound, AppliedIn
      <4>2. CASE store' = c
        BY <2>1, <4>2 DEF Sound, AppliedIn
      <4> QED
        BY <2>5, <4>1, <4>2
    <3>5. Ahead'
      BY <1>0, <2>1, <2>5 DEF Ahead
    <3> QED
      BY <2>5, <3>1, <3>2, <3>3, <3>4, <3>5 DEF IInv, VersionConflictIsHonest
  <2> QED
    BY <1>4, <2>4, <2>5 DEF mutate, commitLocked, SaveFails, Replies
<1>5. CASE NewService
  <2>1. state' = store /\ UNCHANGED <<store, acknowledged, reply, saveFailures>>
    BY <1>5 DEF NewService
  <2>2. Ahead'
    BY <2>1 DEF Ahead
  <2>3. Sound(state)' /\ Sound(store)'
    <3>1. Sound(state)'
      BY <1>0, <2>1 DEF Sound, AppliedIn
    <3>2. Sound(store)'
      BY <1>0, <2>1 DEF Sound, AppliedIn
    <3> QED
      BY <3>1, <3>2
  <2> QED
    BY <1>0, <2>1, <2>2, <2>3
    DEF IInv, TypeOK, AppliedIn, VersionConflictIsHonest, AcknowledgedIsApplied
<1>6. CASE UNCHANGED vars
  <2>1. TypeOK'
    BY <1>0, <1>6 DEF TypeOK, vars
  <2>2. VersionConflictIsHonest'
    BY <1>6 DEF IInv, VersionConflictIsHonest, AppliedIn, vars
  <2> QED
    BY <1>6, <2>1, <2>2, StatesStay DEF IInv, vars
<1> QED
  BY <1>1, <1>2, <1>3, <1>4, <1>5, <1>6 DEF Next

\* The inductive invariant holds of the envelope.
THEOREM Invariance == Spec => []IInv
<1>1. Init => IInv
  BY Initially
<1>2. IInv /\ [Next]_vars => IInv'
  BY Step
<1> QED
  BY <1>1, <1>2, PTL DEF Spec

-----------------------------------------------------------------------------
\* A request that was acknowledged stays applied, in memory and in the store,
\* as the change of the version it named (mutate, commitLocked).
THEOREM AcknowledgedStaysApplied == Spec => []AcknowledgedIsApplied
<1>1. IInv => AcknowledgedIsApplied
  BY DEF IInv
<1> QED
  BY <1>1, Invariance, PTL

\* A request takes effect at most once, and no two that took effect share an
\* idempotency key (mutate, replayLocked).
THEOREM EffectsAreUnique == Spec => []EffectOnce
<1>1. IInv => EffectOnce
  <2>1. ASSUME NEW s, Sound(s), NEW t \in Transactions, NEW i \in 1..Len(s.history[t])
        PROVE  /\ s.history[t][i].transaction = t
               /\ s.history[t][i].version = i
               /\ s.idempotency[s.history[t][i].key] = s.history[t][i]
    BY <2>1 DEF Sound
  <2> QED
    BY <2>1 DEF IInv, EffectOnce
<1> QED
  BY <1>1, Invariance, PTL

\* The answer of a version conflict means that the request has no effect, in
\* memory or in the store (mutate).
THEOREM ConflictsAreHonest == Spec => []VersionConflictIsHonest
<1>1. IInv => VersionConflictIsHonest
  BY DEF IInv
<1> QED
  BY <1>1, Invariance, PTL
=============================================================================
