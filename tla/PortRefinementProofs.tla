------------------------- MODULE PortRefinementProofs -------------------------
(***************************************************************************)
(* The in-memory store implements the SessionStore port: every step of a   *)
(* call maps to one atomic step of StateBinding, or to none.               *)
(***************************************************************************)
EXTENDS SessionStoreProofs

(***************************************************************************)
(* The refinement mapping, under names of its own.                         *)
(***************************************************************************)
AbsBound == [k \in Tokens |-> BoundSession(k)]

AbsStatus == [t \in Threads |-> IF pc[t] \in {"idle", "return"} THEN pc[t] ELSE "busy"]

(***************************************************************************)
(* A new in-memory store looks to its callers like a new port: nothing     *)
(* bound, nobody calling.                                                  *)
(***************************************************************************)
LEMMA PortInit == HInit => Port!Init
  BY DEF HInit, Init, Port!Init, BoundSession

(***************************************************************************)
(* A token is bound in the port exactly when it is a key of the map.       *)
(***************************************************************************)
LEMMA BoundIffKey ==
  ASSUME HTypeOK
  PROVE  /\ \A k \in Tokens : AbsBound[k] # NoEntry <=> map[k] # NoEntry
         /\ {k \in Tokens : AbsBound[k] # NoEntry} = Keys(map)
<1>1. ASSUME NEW k \in Tokens
      PROVE  AbsBound[k] # NoEntry <=> map[k] # NoEntry
  <2>1. map[k] # NoEntry => map[k].session_id \in Sessions
    BY DEF HTypeOK, TypeOK, Entry
  <2> QED
    BY <2>1, SentinelAssumption DEF AbsBound, BoundSession
<1> QED
  BY <1>1 DEF Keys

(***************************************************************************)
(* The port counts with its own instance of FiniteSets.                    *)
(***************************************************************************)
LEMMA PortCardinality == \A S : Port!Cardinality(S) = Cardinality(S)
  BY Zenon DEF Port!Cardinality, Cardinality

(***************************************************************************)
(* The ceiling test of bind_state is the port's.                           *)
(***************************************************************************)
LEMMA FullIffNoRoom ==
  ASSUME Inv, NEW k \in Tokens
  PROVE  Full(k) <=> ~Port!HasRoomFor(k)
<1>1. /\ \A j \in Tokens : AbsBound[j] # NoEntry <=> map[j] # NoEntry
      /\ {j \in Tokens : AbsBound[j] # NoEntry} = Keys(map)
  BY BoundIffKey DEF Inv, Discipline
<1>2. {j \in Tokens : [i \in Tokens |-> BoundSession(i)][j] # NoEntry} = Keys(map)
  BY <1>1 DEF AbsBound
<1>3. [i \in Tokens |-> BoundSession(i)][k] # NoEntry <=> map[k] # NoEntry
  BY <1>1 DEF AbsBound
<1>4. Cardinality(Keys(map)) \in Nat
  BY FS_CardinalityType DEF Inv, Ceiling
<1>5. Port!Cardinality({j \in Tokens : [i \in Tokens |-> BoundSession(i)][j] # NoEntry})
        = Cardinality(Keys(map))
  BY <1>2, PortCardinality
<1> QED
  BY <1>3, <1>4, <1>5, MaxEntriesAssumption DEF Full, Port!HasRoomFor

-----------------------------------------------------------------------------
(***************************************************************************)
(* How the steps of a call look from the port: a step that ends the call   *)
(* moves its thread from busy to return and touches no other.              *)
(***************************************************************************)
LEMMA FinishIsReturn ==
  ASSUME Inv, NEW t \in Threads, NEW r, Finish(t, r), pc[t] \in {"lock", "body"}
  PROVE  /\ AbsStatus[t] = "busy"
         /\ AbsStatus' = [AbsStatus EXCEPT ![t] = "return"]
         /\ res' = [res EXCEPT ![t] = r]
         /\ call' = call
  BY DEF Finish, AbsStatus, Inv, Discipline, HTypeOK, TypeOK

(***************************************************************************)
(* Under the inductive invariant, every step of the in-memory store is a   *)
(* step of the port or is invisible to it: EvictExpired is a lapse, the    *)
(* step that ends a call is the one at which it takes effect, lock() and   *)
(* the clock are invisible.                                                *)
(***************************************************************************)
LEMMA PortStep ==
  ASSUME Inv, [HNext]_hvars
  PROVE  [Port!Next]_(Port!vars)
<1> USE DEF Inv, Discipline, HTypeOK, TypeOK
<1>1. ASSUME NEW t \in Threads, NEW c \in Call, Invoke(t, c)
      PROVE  Port!Invoke(t, c)
  BY <1>1 DEF Invoke, Port!Invoke, BoundSession
<1>2. ASSUME NEW t \in Threads, Lock(t)
      PROVE  UNCHANGED Port!vars
  BY <1>2 DEF Lock, Acquires, FirstStep, Port!vars, BoundSession
<1>3. ASSUME NEW t \in Threads, LockPoisoned(t)
      PROVE  Port!Fail(t)
  BY <1>3, FinishIsReturn DEF LockPoisoned, Finish, Port!Fail, BoundSession, AbsStatus
<1>4. ASSUME NEW t \in Threads, EvictExpired(t)
      PROVE  Port!Lapse
  <2> DEFINE S == {k \in Tokens : map'[k] = NoEntry}
  <2>1. ~poisoned /\ call[t].op # "revoke_state" /\ AbsStatus[t] = "busy"
    BY <1>4, SentinelAssumption DEF EvictExpired, MutexDiscipline, CallsInProgress, AbsStatus
  <2>2. ASSUME NEW k \in Tokens
        PROVE  BoundSession(k)' = IF k \in S THEN NoEntry ELSE AbsBound[k]
    <3>1. map'[k] \in {map[k], NoEntry}
      BY <1>4, RetainedType DEF EvictExpired
    <3> QED
      BY <3>1 DEF BoundSession, AbsBound
  <2>3. AbsBound' = [k \in Tokens |-> IF k \in S THEN NoEntry ELSE AbsBound[k]]
    BY <2>2 DEF AbsBound
  <2>4. AbsStatus' = AbsStatus /\ UNCHANGED <<poisoned, call, res>>
    BY <1>4 DEF EvictExpired, AbsStatus
  <2>5. S \in SUBSET Tokens
    OBVIOUS
  <2> HIDE DEF S
  <2> QED
    BY <2>1, <2>3, <2>4, <2>5 DEF Port!Lapse, AbsBound, AbsStatus
<1>5. ASSUME NEW t \in Threads, pc[t] = "body"
      PROVE  ~poisoned /\ call[t].token \in Tokens
  BY <1>5, BodyCall, SentinelAssumption DEF MutexDiscipline
<1>6. ASSUME NEW t \in Threads, NEW op, NEW r,
             pc[t] = "body", call[t].op = op, Finish(t, r)
      PROVE  Port!TakesEffect(t, op, r)
  <2>1. ~poisoned
    BY <1>5, <1>6
  <2> QED
    BY <1>6, <2>1, FinishIsReturn DEF Port!TakesEffect, AbsStatus
<1>7. ASSUME NEW t \in Threads, BindRefused(t)
      PROVE  Port!Refuse(t)
  <2>1. Port!TakesEffect(t, "bind_state", "AtCapacity")
    BY <1>6, <1>7 DEF BindRefused
  <2>2. ~Port!HasRoomFor(call[t].token)
    BY <1>5, <1>7, FullIffNoRoom DEF BindRefused
  <2> QED
    BY <1>7, <2>1, <2>2 DEF BindRefused, Port!Refuse, BoundSession
<1>8. ASSUME NEW t \in Threads, BindPanics(t)
      PROVE  Port!Break(t)
  <2>1. Port!TakesEffect(t, "bind_state", "Panicked")
    BY <1>6, <1>8 DEF BindPanics
  <2> QED
    BY <1>8, <2>1 DEF BindPanics, Port!Break, BoundSession
<1>9. ASSUME NEW t \in Threads, BindInserts(t)
      PROVE  Port!Bind(t)
  <2>1. Port!TakesEffect(t, "bind_state", "Ok")
    BY <1>6, <1>9 DEF BindInserts
  <2>2. Port!HasRoomFor(call[t].token)
    BY <1>5, <1>9, FullIffNoRoom DEF BindInserts
  <2>3. [session_id |-> call[t].session, expires_at |-> now + Ttl] # NoEntry
    <3>1. call[t].session \in Sessions
      BY <1>9, BodyCall DEF BindInserts
    <3>2. [session_id |-> call[t].session, expires_at |-> now + Ttl] \in Entry
      BY <1>9, <3>1 DEF BindInserts, Representable, Entry
    <3> QED
      BY <3>2, SentinelAssumption
  <2>4. AbsBound' = [AbsBound EXCEPT ![call[t].token] = call[t].session]
    BY <1>5, <1>9, <2>3 DEF BindInserts, AbsBound, BoundSession
  <2> QED
    BY <1>9, <2>1, <2>2, <2>4 DEF BindInserts, Port!Bind, AbsBound
<1>10. ASSUME NEW t \in Threads, VerifyState(t)
       PROVE  Port!Verify(t)
  <2>1. call[t].token \in Tokens /\ call[t].session \in Sessions
    BY <1>10, BodyCall DEF VerifyState
  <2>2. Matches(call[t]) <=> AbsBound[call[t].token] = call[t].session
    BY <2>1, SentinelAssumption DEF Matches, AbsBound, BoundSession
  <2>3. AbsBound' = AbsBound /\ UNCHANGED poisoned
    BY <1>10 DEF VerifyState, AbsBound, BoundSession
  <2>4. CASE Matches(call[t])
    <3>1. Port!TakesEffect(t, "verify_state", "OkTrue")
      BY <1>6, <1>10, <2>4 DEF VerifyState
    <3> QED
      BY <2>2, <2>3, <2>4, <3>1 DEF Port!Verify, Port!TakesEffect, AbsBound
  <2>5. CASE ~Matches(call[t])
    <3>1. Port!TakesEffect(t, "verify_state", "OkFalse")
      BY <1>6, <1>10, <2>5 DEF VerifyState
    <3> QED
      BY <2>2, <2>3, <2>5, <3>1 DEF Port!Verify, Port!TakesEffect, AbsBound
  <2> QED
    BY <2>4, <2>5
<1>11. ASSUME NEW t \in Threads, RevokeState(t)
       PROVE  Port!Revoke(t)
  <2>1. Port!TakesEffect(t, "revoke_state", "Ok")
    BY <1>6, <1>11 DEF RevokeState
  <2>2. AbsBound' = [AbsBound EXCEPT ![call[t].token] = NoEntry]
    BY <1>5, <1>11 DEF RevokeState, AbsBound, BoundSession
  <2> QED
    BY <1>11, <2>1, <2>2 DEF RevokeState, Port!Revoke, AbsBound
<1>12. ASSUME NEW t \in Threads, Return(t)
       PROVE  Port!Return(t)
  BY <1>12 DEF Return, Port!Return, BoundSession
<1>13. ASSUME SetClock
       PROVE  UNCHANGED Port!vars
  BY <1>13 DEF SetClock, Port!vars, BoundSession
<1>14. ASSUME UNCHANGED hvars
       PROVE  UNCHANGED Port!vars
  BY <1>14 DEF hvars, vars, Port!vars, BoundSession
<1> QED
  BY <1>1, <1>2, <1>3, <1>4, <1>7, <1>8, <1>9, <1>10, <1>11, <1>12, <1>13, <1>14
  DEF HNext, HStep, Port!Next

(***************************************************************************)
(* The in-memory store implements the port.                                *)
(***************************************************************************)
THEOREM Refinement == HSpec => ImplementsPort
  BY PortInit, PortStep, Invariance, PTL DEF HSpec, ImplementsPort, Port!Spec
=============================================================================
