-------------------------- MODULE SessionStoreProofs --------------------------
(***************************************************************************)
(* Proofs about the session store, for any number of threads, tokens and   *)
(* sessions, any time to live, ceiling and clock.                          *)
(***************************************************************************)
EXTENDS SessionStoreHistory, FiniteSetTheorems, TLAPS

USE DEF hvars, vars

(***************************************************************************)
(* A thread inside a method has a call, and one that evicts is not in      *)
(* revoke_state.                                                           *)
(***************************************************************************)
CallsInProgress ==
  \A t \in Threads :
    /\ pc[t] # "idle" => call[t] \in Call
    /\ pc[t] = "evict" => call[t].op # "revoke_state"

Discipline == HTypeOK /\ MutexDiscipline /\ CallsInProgress

(***************************************************************************)
(* The arguments of a call, as the three methods declare them.             *)
(***************************************************************************)
LEMMA CallFields ==
  ASSUME NEW c \in Call
  PROVE  /\ c.op \in {"bind_state", "verify_state", "revoke_state"}
         /\ c.token \in Tokens
         /\ c.op # "revoke_state" => c.session \in Sessions
  BY DEF Call

(***************************************************************************)
(* evict_expired yields a map, and only drops entries.                     *)
(***************************************************************************)
LEMMA RetainedType ==
  ASSUME HTypeOK
  PROVE  /\ Retained(map) \in [Tokens -> Entry \cup {NoEntry}]
         /\ \A k \in Tokens : Retained(map)[k] \in {map[k], NoEntry}
  BY DEF HTypeOK, TypeOK, Retained

(***************************************************************************)
(* A new store satisfies the discipline: nothing is in progress.           *)
(***************************************************************************)
LEMMA DisciplineInit == HInit => Discipline
<1> SUFFICES ASSUME HInit
             PROVE  Discipline
  OBVIOUS
<1> USE DEF HInit, Init
<1>1. HTypeOK
  BY DEF HTypeOK, TypeOK, Result
<1>2. MutexDiscipline
  BY SentinelAssumption DEF MutexDiscipline
<1>3. CallsInProgress
  BY DEF CallsInProgress
<1> QED
  BY <1>1, <1>2, <1>3 DEF Discipline

(***************************************************************************)
(* Every step of the three methods, of their callers and of the clock      *)
(* keeps the types, the calls in progress and the mutex discipline.        *)
(***************************************************************************)
LEMMA DisciplineStep == Discipline /\ [HNext]_hvars => Discipline'
<1> SUFFICES ASSUME Discipline, [HNext]_hvars
             PROVE  Discipline'
  OBVIOUS
<1> USE DEF Discipline, HTypeOK, TypeOK, MutexDiscipline, CallsInProgress, Result
<1>1. ASSUME NEW t \in Threads, NEW c \in Call, Invoke(t, c), UNCHANGED hist
      PROVE  Discipline'
  BY <1>1, SentinelAssumption DEF Invoke
<1>2. ASSUME NEW t \in Threads, Lock(t), UNCHANGED hist
      PROVE  Discipline'
  BY <1>2, SentinelAssumption DEF Lock, Acquires, FirstStep
<1>3. ASSUME NEW t \in Threads, LockPoisoned(t), UNCHANGED hist
      PROVE  Discipline'
  BY <1>3, SentinelAssumption DEF LockPoisoned, Finish
<1>4. ASSUME NEW t \in Threads, BindRefused(t), UNCHANGED hist
      PROVE  Discipline'
  BY <1>4, SentinelAssumption DEF BindRefused, Finish
<1>5. ASSUME NEW t \in Threads, BindPanics(t), UNCHANGED hist
      PROVE  Discipline'
  BY <1>5, SentinelAssumption DEF BindPanics, Finish
<1>6. ASSUME NEW t \in Threads, VerifyState(t), UNCHANGED hist
      PROVE  Discipline'
  BY <1>6, SentinelAssumption DEF VerifyState, Finish
<1>7. ASSUME NEW t \in Threads, EvictExpired(t), RecordLapse
      PROVE  Discipline'
  <2>1. map' \in [Tokens -> Entry \cup {NoEntry}]
    BY <1>7, RetainedType DEF EvictExpired
  <2>2. hist' \in [Tokens -> Binding \cup {NoBinding}]
    BY <1>7 DEF RecordLapse, Binding
  <2> QED
    BY <1>7, <2>1, <2>2 DEF EvictExpired
<1>8. ASSUME NEW t \in Threads, BindInserts(t), RecordBind(t)
      PROVE  Discipline'
  <2>1. call[t].token \in Tokens /\ call[t].session \in Sessions
    BY <1>8, CallFields DEF BindInserts
  <2>2. [session_id |-> call[t].session, expires_at |-> now + Ttl] \in Entry
    BY <1>8, <2>1 DEF BindInserts, Representable, Entry
  <2>3. map' \in [Tokens -> Entry \cup {NoEntry}]
    BY <1>8, <2>2 DEF BindInserts
  <2>4. hist' \in [Tokens -> Binding \cup {NoBinding}]
    BY <1>8, <2>1 DEF RecordBind, Binding, BindInserts
  <2> QED
    BY <1>8, <2>3, <2>4, SentinelAssumption DEF BindInserts, Finish
<1>9. ASSUME NEW t \in Threads, RevokeState(t), RecordRevoke(t)
      PROVE  Discipline'
  BY <1>9, SentinelAssumption DEF RevokeState, RecordRevoke, Finish
<1>10. ASSUME NEW t \in Threads, Return(t), UNCHANGED hist
       PROVE  Discipline'
  BY <1>10, SentinelAssumption DEF Return
<1>11. CASE SetClock /\ UNCHANGED hist
  BY <1>11 DEF SetClock
<1>12. CASE UNCHANGED hvars
  BY <1>12
<1> QED
  BY <1>1, <1>2, <1>3, <1>4, <1>5, <1>6, <1>7, <1>8, <1>9, <1>10, <1>11, <1>12
  DEF HNext, HStep

(***************************************************************************)
(* Hence the discipline holds in every reachable state.                    *)
(***************************************************************************)
LEMMA DisciplineHolds == HSpec => []Discipline
  BY DisciplineInit, DisciplineStep, PTL DEF HSpec

-----------------------------------------------------------------------------
(***************************************************************************)
(* The steps that leave both the map and the record alone.                 *)
(***************************************************************************)
LEMMA OnlyThreeStepsWrite ==
  ASSUME [HNext]_hvars
  PROVE  \/ UNCHANGED <<map, hist>>
         \/ \E t \in Threads : EvictExpired(t) /\ RecordLapse
         \/ \E t \in Threads : BindInserts(t) /\ RecordBind(t)
         \/ \E t \in Threads : RevokeState(t) /\ RecordRevoke(t)
  BY DEF HNext, HStep, Invoke, Lock, Acquires, FirstStep, LockPoisoned,
         BindRefused, BindPanics, VerifyState, Return, SetClock

(***************************************************************************)
(* The token of a call whose body runs.                                    *)
(***************************************************************************)
LEMMA BodyCall ==
  ASSUME Discipline, NEW t \in Threads, pc[t] = "body"
  PROVE  /\ call[t] \in Call
         /\ call[t].token \in Tokens
         /\ call[t].op # "revoke_state" => call[t].session \in Sessions
  BY CallFields DEF Discipline, CallsInProgress

(***************************************************************************)
(* Every step keeps the map equal to the bindings that stand. Only         *)
(* EvictExpired, BindInserts and RevokeState write either of them, and     *)
(* each writes both alike.                                                 *)
(***************************************************************************)
LEMMA MapStep ==
  ASSUME Discipline, MapIsTheBindingsThatStand, [HNext]_hvars
  PROVE  MapIsTheBindingsThatStand'
<1> USE DEF MapIsTheBindingsThatStand
<1>1. CASE UNCHANGED <<map, hist>>
  BY <1>1
<1>2. ASSUME NEW t \in Threads, EvictExpired(t), RecordLapse
      PROVE  MapIsTheBindingsThatStand'
  <2> SUFFICES ASSUME NEW k \in Tokens
               PROVE  map'[k] = IF hist'[k] # NoBinding /\ ~hist'[k].lapsed
                                  THEN [session_id |-> hist'[k].session,
                                        expires_at |-> hist'[k].at + Ttl]
                                  ELSE NoEntry
    OBVIOUS
  <2>1. map'[k] = Retained(map)[k]
    BY <1>2 DEF EvictExpired
  <2>2. CASE hist[k] = NoBinding
    BY <1>2, <2>1, <2>2 DEF RecordLapse, Retained
  <2>3. CASE hist[k] # NoBinding
    <3>1. /\ hist[k] \in Binding
          /\ hist[k].session \in Sessions
          /\ hist[k].at \in Clock
          /\ hist[k].at + Ttl \in MinTime..MaxTime
          /\ hist[k].lapsed \in BOOLEAN
      BY <2>3 DEF Discipline, HTypeOK, Binding, Representable
    <3>2. /\ hist'[k] # NoBinding
          /\ hist'[k].session = hist[k].session
          /\ hist'[k].at = hist[k].at
          /\ hist'[k].lapsed <=> (hist[k].lapsed \/ hist[k].at + Ttl <= now)
      BY <1>2, <2>3, <3>1, NoBindingAssumption DEF RecordLapse, Binding
    <3>3. CASE hist[k].lapsed
      BY <2>1, <3>2, <3>3 DEF Retained
    <3>4. CASE ~hist[k].lapsed
      <4>1. /\ map[k] \in Entry
            /\ map[k] = [session_id |-> hist[k].session, expires_at |-> hist[k].at + Ttl]
            /\ map[k].expires_at = hist[k].at + Ttl
        BY <2>3, <3>1, <3>4 DEF Entry
      <4>2. now \in Int /\ hist[k].at + Ttl \in Int
        BY <3>1, TimeAssumption DEF Discipline, HTypeOK, TypeOK
      <4>3. map'[k] = IF hist[k].at + Ttl > now THEN map[k] ELSE NoEntry
        BY <2>1, <4>1, SentinelAssumption DEF Retained
      <4>4. CASE hist[k].at + Ttl <= now
        BY <3>2, <4>2, <4>3, <4>4
      <4>5. CASE ~(hist[k].at + Ttl <= now)
        BY <3>2, <3>4, <4>1, <4>2, <4>3, <4>5
      <4> QED
        BY <4>4, <4>5
    <3> QED
      BY <3>3, <3>4
  <2> QED
    BY <2>2, <2>3
<1>3. ASSUME NEW t \in Threads, BindInserts(t), RecordBind(t)
      PROVE  MapIsTheBindingsThatStand'
  <2>1. call[t].token \in Tokens /\ call[t].session \in Sessions
    BY <1>3, BodyCall DEF BindInserts
  <2> DEFINE b == [session |-> call[t].session, at |-> now, lapsed |-> FALSE]
  <2>2. b \in Binding
    BY <1>3, <2>1 DEF BindInserts, Binding, Discipline, HTypeOK, TypeOK
  <2>3. b # NoBinding /\ ~b.lapsed /\ b.session = call[t].session /\ b.at = now
    BY <2>2, NoBindingAssumption
  <2>4. hist' = [hist EXCEPT ![call[t].token] = b]
    BY <1>3 DEF RecordBind
  <2> HIDE DEF b
  <2> QED
    BY <1>3, <2>1, <2>3, <2>4 DEF BindInserts, Discipline, HTypeOK, TypeOK
<1>4. ASSUME NEW t \in Threads, RevokeState(t), RecordRevoke(t)
      PROVE  MapIsTheBindingsThatStand'
  BY <1>4, BodyCall DEF RevokeState, RecordRevoke, Discipline, HTypeOK, TypeOK
<1> QED
  BY <1>1, <1>2, <1>3, <1>4, OnlyThreeStepsWrite

-----------------------------------------------------------------------------
(***************************************************************************)
(* The ceiling, with the finiteness that makes counting meaningful.        *)
(***************************************************************************)
Ceiling == IsFiniteSet(Keys(map)) /\ WithinCapacity

(***************************************************************************)
(* No step takes the map past the ceiling: eviction and revocation only    *)
(* remove keys, and an insert adds a key only below the ceiling.           *)
(***************************************************************************)
LEMMA CeilingStep ==
  ASSUME Discipline, Ceiling, [HNext]_hvars
  PROVE  Ceiling'
<1> USE MaxEntriesAssumption
<1>1. ASSUME Keys(map') \subseteq Keys(map)
      PROVE  Ceiling'
  BY <1>1, FS_Subset, FS_CardinalityType DEF Ceiling, WithinCapacity
<1>2. ASSUME NEW t \in Threads, EvictExpired(t)
      PROVE  Ceiling'
  BY <1>1, <1>2 DEF EvictExpired, Retained, Keys
<1>3. ASSUME NEW t \in Threads, RevokeState(t)
      PROVE  Ceiling'
  BY <1>1, <1>3 DEF RevokeState, Keys, Discipline, HTypeOK, TypeOK
<1>4. ASSUME NEW t \in Threads, BindInserts(t)
      PROVE  Ceiling'
  <2> DEFINE k == call[t].token
  <2>1. k \in Tokens
    BY <1>4, BodyCall DEF BindInserts
  <2>2. Keys(map') \subseteq Keys(map) \cup {k}
    BY <1>4, <2>1 DEF BindInserts, Keys, Discipline, HTypeOK, TypeOK
  <2>3. CASE k \in Keys(map)
    BY <1>1, <2>2, <2>3
  <2>4. CASE k \notin Keys(map)
    <3>1. MaxEntries # 0 => ~(Cardinality(Keys(map)) >= MaxEntries)
      BY <1>4, <2>1, <2>4 DEF BindInserts, Full, Keys
    <3>2. /\ IsFiniteSet(Keys(map) \cup {k})
          /\ Cardinality(Keys(map) \cup {k}) = Cardinality(Keys(map)) + 1
          /\ Cardinality(Keys(map)) \in Nat
      BY <2>4, FS_AddElement, FS_CardinalityType DEF Ceiling
    <3>3. /\ IsFiniteSet(Keys(map'))
          /\ Cardinality(Keys(map')) <= Cardinality(Keys(map)) + 1
          /\ Cardinality(Keys(map')) \in Nat
      BY <2>2, <3>2, FS_Subset, FS_CardinalityType
    <3> QED
      BY <3>1, <3>2, <3>3 DEF Ceiling, WithinCapacity
  <2> QED
    BY <2>3, <2>4
<1>5. CASE UNCHANGED map
  BY <1>1, <1>5
<1> QED
  BY <1>2, <1>3, <1>4, <1>5, OnlyThreeStepsWrite

-----------------------------------------------------------------------------
(***************************************************************************)
(* The inductive invariant: a body step relies on the mutex discipline for *)
(* its arguments and on the map for its answer.                            *)
(***************************************************************************)
Inv == Discipline /\ MapIsTheBindingsThatStand /\ Ceiling

(***************************************************************************)
(* The inductive invariant holds in every reachable state, for any number  *)
(* of threads, tokens and sessions, any time to live, any ceiling and any  *)
(* clock.                                                                  *)
(***************************************************************************)
THEOREM Invariance == HSpec => []Inv
<1>1. HInit => Inv
  <2> SUFFICES ASSUME HInit
               PROVE  Inv
    OBVIOUS
  <2>1. Discipline
    BY DisciplineInit
  <2>2. MapIsTheBindingsThatStand
    BY DEF HInit, Init, MapIsTheBindingsThatStand
  <2>3. Keys(map) = {}
    BY DEF HInit, Init, Keys
  <2>4. Ceiling
    BY <2>3, FS_EmptySet, MaxEntriesAssumption DEF Ceiling, WithinCapacity
  <2> QED
    BY <2>1, <2>2, <2>4 DEF Inv
<1>2. Inv /\ [HNext]_hvars => Inv'
  BY DisciplineStep, MapStep, CeilingStep DEF Inv
<1> QED
  BY <1>1, <1>2, PTL DEF HSpec

(***************************************************************************)
(* Every field of the store, every call in progress and every result stays *)
(* in its type; in particular no entry's deadline is outside the range of  *)
(* DateTime, because bind_state panics before it could store one.          *)
(***************************************************************************)
THEOREM TypeCorrect == HSpec => []HTypeOK
  BY Invariance, PTL DEF Inv, Discipline

(***************************************************************************)
(* The mutex excludes, on every path through bind_state, verify_state and  *)
(* revoke_state, the early return and the panic included.                  *)
(***************************************************************************)
THEOREM MutualExclusion == HSpec => []MutexDiscipline
  BY Invariance, PTL DEF Inv, Discipline

(***************************************************************************)
(* The map behind the mutex is exactly the bindings that were made and     *)
(* neither replaced, revoked nor found expired.                            *)
(***************************************************************************)
THEOREM MapCorrect == HSpec => []MapIsTheBindingsThatStand
  BY Invariance, PTL DEF Inv

(***************************************************************************)
(* with_capacity's ceiling is never exceeded, whoever binds when.          *)
(***************************************************************************)
THEOREM CapacityHolds == HSpec => []WithinCapacity
  BY Invariance, PTL DEF Inv, Ceiling

-----------------------------------------------------------------------------
(***************************************************************************)
(* The comparison verify_state makes decides whether the binding stands.   *)
(***************************************************************************)
LEMMA MatchesIffStands ==
  ASSUME Inv, NEW k \in Tokens, NEW s \in Sessions,
         NEW c, c.token = k, c.session = s
  PROVE  Matches(c) <=> Stands(k, s)
<1>1. CASE hist[k] # NoBinding /\ ~hist[k].lapsed
  <2>1. /\ hist[k].session \in Sessions
        /\ hist[k].at + Ttl \in MinTime..MaxTime
    BY <1>1 DEF Inv, Discipline, HTypeOK, Binding, Representable
  <2>2. map[k] = [session_id |-> hist[k].session, expires_at |-> hist[k].at + Ttl]
    BY <1>1 DEF Inv, MapIsTheBindingsThatStand
  <2>3. map[k] \in Entry /\ map[k].session_id = hist[k].session
    BY <2>1, <2>2 DEF Entry
  <2> QED
    BY <1>1, <2>3, SentinelAssumption DEF Matches, Stands
<1>2. CASE ~(hist[k] # NoBinding /\ ~hist[k].lapsed)
  <2>1. map[k] = NoEntry
    BY <1>2 DEF Inv, MapIsTheBindingsThatStand
  <2> QED
    BY <1>2, <2>1 DEF Matches, Stands
<1> QED
  BY <1>1, <1>2

(***************************************************************************)
(* verify_state answers true exactly for the bindings that stand when it   *)
(* compares.                                                               *)
(***************************************************************************)
THEOREM VerifyExact == HSpec => VerifyIsExact
<1> DEFINE Answers(t) ==
      (pc[t] = "body" /\ pc'[t] = "return" /\ call[t].op = "verify_state")
        => (res'[t] = "OkTrue" <=> Stands(call[t].token, call[t].session))
<1>1. ASSUME Inv, [HNext]_hvars
      PROVE  \A t \in Threads : Answers(t)
  <2> SUFFICES ASSUME NEW t \in Threads, pc[t] = "body", pc'[t] = "return",
                      call[t].op = "verify_state"
               PROVE  res'[t] = "OkTrue" <=> Stands(call[t].token, call[t].session)
    OBVIOUS
  <2>1. VerifyState(t)
    BY <1>1 DEF Inv, Discipline, HTypeOK, TypeOK, HNext, HStep, Invoke, Lock,
                Acquires, FirstStep, LockPoisoned, EvictExpired, BindRefused, BindPanics,
                BindInserts, VerifyState, RevokeState, Return, SetClock, Finish
  <2>2. res'[t] = "OkTrue" <=> Matches(call[t])
    BY <1>1, <2>1 DEF VerifyState, Finish, Inv, Discipline, HTypeOK, TypeOK
  <2>3. call[t].token \in Tokens /\ call[t].session \in Sessions
    BY <1>1, BodyCall DEF Inv
  <2> QED
    BY <1>1, <2>2, <2>3, MatchesIffStands
<1>2. Inv /\ [HNext]_hvars => [\A t \in Threads : Answers(t)]_hvars
  BY <1>1
<1> QED
  BY <1>2, Invariance, PTL DEF HSpec, VerifyIsExact

(***************************************************************************)
(* After a panic of bind_state under the lock the store fails closed, for  *)
(* good.                                                                   *)
(***************************************************************************)
THEOREM PoisonFinal == HSpec => PoisonIsFinal
<1> DEFINE Closed == /\ poisoned' /\ map' = map
                     /\ \A t \in Threads :
                          (pc[t] # "return" /\ pc'[t] = "return") => res'[t] = "Poisoned"
<1>1. ASSUME Inv, [HNext]_hvars, poisoned
      PROVE  Closed
  <2>1. \A t \in Threads : pc[t] \notin {"evict", "body"}
    BY <1>1, SentinelAssumption DEF Inv, Discipline, MutexDiscipline
  <2>2. ASSUME NEW t \in Threads, NEW c \in Call, Invoke(t, c)
        PROVE  Closed
    BY <1>1, <2>2 DEF Invoke, Inv, Discipline, HTypeOK, TypeOK
  <2>3. ASSUME NEW t \in Threads, LockPoisoned(t)
        PROVE  Closed
    BY <1>1, <2>3 DEF LockPoisoned, Finish, Inv, Discipline, HTypeOK, TypeOK
  <2>4. ASSUME NEW t \in Threads, Return(t)
        PROVE  Closed
    BY <1>1, <2>4 DEF Return, Inv, Discipline, HTypeOK, TypeOK
  <2>5. CASE SetClock \/ UNCHANGED hvars
    BY <1>1, <2>5 DEF SetClock
  <2> QED
    BY <1>1, <2>1, <2>2, <2>3, <2>4, <2>5
    DEF HNext, HStep, Lock, Acquires, FirstStep, EvictExpired, BindRefused, BindPanics, BindInserts,
        VerifyState, RevokeState
<1>2. Inv /\ [HNext]_hvars => [poisoned => Closed]_hvars
  BY <1>1
<1> QED
  BY <1>2, Invariance, PTL DEF HSpec, PoisonIsFinal
=============================================================================
