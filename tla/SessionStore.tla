----------------------------- MODULE SessionStore -----------------------------
(***************************************************************************)
(* InMemorySessionStore (src/src/domain/session_store.rs): the map from    *)
(* OAuth state tokens to server sessions that the callback middleware      *)
(* consults.                                                               *)
(*                                                                         *)
(* Any number of threads call bind_state, verify_state and revoke_state.   *)
(* Every call locks one std::sync::Mutex and reads the wall clock while it *)
(* holds it, bind_state twice: once in evict_expired and once for the      *)
(* deadline of the new entry.  A call is therefore three steps (lock,      *)
(* evict, body), between which the clock may be set forward or back and    *)
(* other threads may queue up at the mutex.                                *)
(*                                                                         *)
(* The sum Utc::now() + ttl panics when it leaves the range of DateTime.   *)
(* bind_state then unwinds with the mutex held, and the mutex is poisoned  *)
(* for the rest of the process's life.                                     *)
(***************************************************************************)
EXTENDS Integers, FiniteSets

CONSTANTS
  Threads,     \* callers of the store
  Tokens,      \* OAuth state tokens, the keys of the map
  Sessions,    \* server session identifiers
  Ttl,         \* the field ttl; with_ttl accepts a negative one
  MaxEntries,  \* the field max_entries; 0 means unbounded
  Clock,       \* the values Utc::now() may return
  MinTime,     \* the earliest instant a DateTime can hold ...
  MaxTime,     \* ... and the latest
  NoEntry,     \* the key is not in the map
  NoCall,      \* the thread is not in a call
  NoThread     \* the mutex is free

Entry == [session_id : Sessions, expires_at : MinTime..MaxTime]

(***************************************************************************)
(* A call in progress: the method and its arguments.                       *)
(***************************************************************************)
Call == [op : {"bind_state", "verify_state"}, token : Tokens, session : Sessions]
          \cup [op : {"revoke_state"}, token : Tokens]

Result == {"none", "Ok", "OkTrue", "OkFalse", "AtCapacity", "Poisoned", "Panicked"}

ASSUME TtlAssumption == Ttl \in Int
ASSUME MaxEntriesAssumption == MaxEntries \in Nat
ASSUME TimeAssumption ==
  /\ MinTime \in Int /\ MaxTime \in Int
  /\ Clock # {} /\ Clock \subseteq MinTime..MaxTime
ASSUME SentinelAssumption ==
  /\ NoEntry \notin Entry /\ NoEntry \notin Sessions
  /\ NoCall \notin Call
  /\ NoThread \notin Threads

VARIABLES
  map,       \* inner: the entry under each token, or NoEntry
  poisoned,  \* the poison flag of the mutex
  holder,    \* the thread that holds the mutex, or NoThread
  now,       \* what Utc::now() returns
  pc,        \* how far each thread is in its call
  call,      \* the call each thread is in
  res        \* what its call returned

vars == <<map, poisoned, holder, now, pc, call, res>>

TypeOK ==
  /\ map \in [Tokens -> Entry \cup {NoEntry}]
  /\ poisoned \in BOOLEAN
  /\ holder \in Threads \cup {NoThread}
  /\ now \in Clock
  /\ pc \in [Threads -> {"idle", "lock", "evict", "body", "return"}]
  /\ call \in [Threads -> Call \cup {NoCall}]
  /\ res \in [Threads -> Result]

-----------------------------------------------------------------------------
(***************************************************************************)
(* with_capacity: an empty map behind a fresh mutex.                       *)
(***************************************************************************)
Init ==
  /\ map = [k \in Tokens |-> NoEntry]
  /\ poisoned = FALSE
  /\ holder = NoThread
  /\ now \in Clock
  /\ pc = [t \in Threads |-> "idle"]
  /\ call = [t \in Threads |-> NoCall]
  /\ res = [t \in Threads |-> "none"]

Keys(m) == {k \in Tokens : m[k] # NoEntry}

\* Mutant of Retained: an entry at its deadline is kept.
RetainedAtDeadline(m) ==
  [k \in Tokens |->
     IF m[k] # NoEntry THEN IF m[k].expires_at >= now THEN m[k] ELSE NoEntry
                       ELSE NoEntry]

(***************************************************************************)
(* evict_expired: keep the entries whose deadline is after the clock.      *)
(***************************************************************************)
Retained(m) ==
  [k \in Tokens |->
     IF m[k] # NoEntry THEN IF m[k].expires_at > now THEN m[k] ELSE NoEntry
                       ELSE NoEntry]

(***************************************************************************)
(* The mutex guard is dropped and the call returns r.                      *)
(***************************************************************************)
Finish(t, r) ==
  /\ holder' = NoThread
  /\ pc' = [pc EXCEPT ![t] = "return"]
  /\ res' = [res EXCEPT ![t] = r]
  /\ UNCHANGED <<now, call>>

-----------------------------------------------------------------------------
(***************************************************************************)
(* A thread enters one of the three methods.                               *)
(***************************************************************************)
Invoke(t, c) ==
  /\ pc[t] = "idle"
  /\ pc' = [pc EXCEPT ![t] = "lock"]
  /\ call' = [call EXCEPT ![t] = c]
  /\ UNCHANGED <<map, poisoned, holder, now, res>>

\* Mutant of Acquires: a poisoned mutex is entered all the same.
AcquiresDespitePoison == holder = NoThread

(***************************************************************************)
(* self.inner.lock(): blocks until the mutex is free.                      *)
(***************************************************************************)
Acquires == holder = NoThread /\ ~poisoned

\* Mutant of FirstStep: only bind_state evicts.
FirstStepOfBindOnly(c) == IF c.op = "bind_state" THEN "evict" ELSE "body"

(***************************************************************************)
(* revoke_state does not evict and goes straight to its body.              *)
(***************************************************************************)
FirstStep(c) == IF c.op = "revoke_state" THEN "body" ELSE "evict"

Lock(t) ==
  /\ pc[t] = "lock"
  /\ Acquires
  /\ holder' = t
  /\ pc' = [pc EXCEPT ![t] = FirstStep(call[t])]
  /\ UNCHANGED <<map, poisoned, now, call, res>>

\* Mutant of LockPoisoned: the caller retries for ever.
LockPoisonedRetries(t) ==
  /\ pc[t] = "lock"
  /\ holder = NoThread
  /\ poisoned
  /\ UNCHANGED vars

(***************************************************************************)
(* lock() on a poisoned mutex: map_err(..)? drops the guard and returns.   *)
(***************************************************************************)
LockPoisoned(t) ==
  /\ pc[t] = "lock"
  /\ holder = NoThread
  /\ poisoned
  /\ Finish(t, "Poisoned")
  /\ UNCHANGED <<map, poisoned>>

(***************************************************************************)
(* Self::evict_expired(&mut map), at the clock as it stands now.           *)
(***************************************************************************)
EvictExpired(t) ==
  /\ pc[t] = "evict"
  /\ map' = Retained(map)
  /\ pc' = [pc EXCEPT ![t] = "body"]
  /\ UNCHANGED <<poisoned, holder, now, call, res>>

\* Mutant of Full: one entry too many.
FullPastCeiling(k) ==
  /\ MaxEntries # 0
  /\ Cardinality(Keys(map)) > MaxEntries
  /\ map[k] = NoEntry

\* Mutant of Full: a token that is already bound is refused as well.
FullForRebinding(k) ==
  /\ MaxEntries # 0
  /\ Cardinality(Keys(map)) >= MaxEntries

(***************************************************************************)
(* bind_state after the eviction: refuse a new key at the ceiling ...      *)
(***************************************************************************)
Full(k) ==
  /\ MaxEntries # 0
  /\ Cardinality(Keys(map)) >= MaxEntries
  /\ map[k] = NoEntry

\* Mutant of BindRefused: the error reports self.len(), which waits for the held mutex.
BindRefusedRelocks(t) ==
  /\ pc[t] = "body"
  /\ call[t].op = "bind_state"
  /\ Full(call[t].token)
  /\ holder = NoThread
  /\ Finish(t, "AtCapacity")
  /\ UNCHANGED <<map, poisoned>>

BindRefused(t) ==
  /\ pc[t] = "body"
  /\ call[t].op = "bind_state"
  /\ Full(call[t].token)
  /\ Finish(t, "AtCapacity")
  /\ UNCHANGED <<map, poisoned>>

\* Mutant of Representable: the deadline is not range-checked.
RepresentableAlways(x) == TRUE

(***************************************************************************)
(* ... or compute the deadline from a second reading of the clock, which   *)
(* panics under the lock when it is out of range ...                       *)
(***************************************************************************)
Representable(x) == x \in MinTime..MaxTime

BindPanics(t) ==
  /\ pc[t] = "body"
  /\ call[t].op = "bind_state"
  /\ ~Full(call[t].token)
  /\ ~Representable(now + Ttl)
  /\ poisoned' = TRUE
  /\ Finish(t, "Panicked")
  /\ UNCHANGED map

(***************************************************************************)
(* ... and otherwise insert, replacing any entry under the same token.     *)
(***************************************************************************)
BindInserts(t) ==
  /\ pc[t] = "body"
  /\ call[t].op = "bind_state"
  /\ ~Full(call[t].token)
  /\ Representable(now + Ttl)
  /\ map' = [map EXCEPT ![call[t].token] =
               [session_id |-> call[t].session, expires_at |-> now + Ttl]]
  /\ Finish(t, "Ok")
  /\ UNCHANGED poisoned

\* Mutant of Matches: any session will do.
MatchesAnySession(c) == map[c.token] # NoEntry

(***************************************************************************)
(* verify_state after the eviction: a bound token answers by comparing the *)
(* session identifiers, an unbound one answers false.                      *)
(***************************************************************************)
Matches(c) ==
  /\ map[c.token] # NoEntry
  /\ map[c.token].session_id = c.session

VerifyState(t) ==
  /\ pc[t] = "body"
  /\ call[t].op = "verify_state"
  /\ Finish(t, IF Matches(call[t]) THEN "OkTrue" ELSE "OkFalse")
  /\ UNCHANGED <<map, poisoned>>

(***************************************************************************)
(* revoke_state: remove the token, bound or not.                           *)
(***************************************************************************)
RevokeState(t) ==
  /\ pc[t] = "body"
  /\ call[t].op = "revoke_state"
  /\ map' = [map EXCEPT ![call[t].token] = NoEntry]
  /\ Finish(t, "Ok")
  /\ UNCHANGED poisoned

(***************************************************************************)
(* The caller takes the result.                                            *)
(***************************************************************************)
Return(t) ==
  /\ pc[t] = "return"
  /\ pc' = [pc EXCEPT ![t] = "idle"]
  /\ call' = [call EXCEPT ![t] = NoCall]
  /\ res' = [res EXCEPT ![t] = "none"]
  /\ UNCHANGED <<map, poisoned, holder, now>>

(***************************************************************************)
(* External: the wall clock.  Utc::now() is the system's calendar clock,   *)
(* which an operator or NTP may set in either direction.                   *)
(***************************************************************************)
SetClock ==
  /\ now' \in Clock
  /\ UNCHANGED <<map, poisoned, holder, pc, call, res>>

Body(t) ==
  BindRefused(t) \/ BindPanics(t) \/ BindInserts(t) \/ VerifyState(t) \/ RevokeState(t)

Next ==
  \/ \E t \in Threads : \/ \E c \in Call : Invoke(t, c)
                        \/ Lock(t)
                        \/ LockPoisoned(t)
                        \/ EvictExpired(t)
                        \/ Body(t)
                        \/ Return(t)
  \/ SetClock

Spec == Init /\ [][Next]_vars

(***************************************************************************)
(* The critical section contains no blocking call, so a thread inside it   *)
(* keeps running.  Nothing is assumed about who gets the mutex:            *)
(* std::sync::Mutex promises no order among the waiting threads.           *)
(***************************************************************************)
Fairness == \A t \in Threads : WF_vars(EvictExpired(t) \/ Body(t))

FairSpec == Spec /\ Fairness

-----------------------------------------------------------------------------
(***************************************************************************)
(* The mutex does its work on every path through the three methods: the    *)
(* one thread between lock() and the end of its call is the holder, and no *)
(* thread is ever inside after a panic has poisoned the mutex.             *)
(***************************************************************************)
MutexDiscipline ==
  /\ \A t \in Threads : pc[t] \in {"evict", "body"} <=> holder = t
  /\ holder # NoThread => ~poisoned

(***************************************************************************)
(* The mutex is released on every way out of the critical section: a       *)
(* normal return, the early return AtCapacity and the panic of bind_state. *)
(***************************************************************************)
LockReleased == \A t \in Threads : holder = t ~> holder = NoThread

(***************************************************************************)
(* len and is_empty, called while the mutex is free: a poisoned mutex is   *)
(* answered with unwrap_or(0).                                             *)
(***************************************************************************)
len == IF poisoned THEN 0 ELSE Cardinality(Keys(map))

is_empty == len = 0

(***************************************************************************)
(* The doc comment of is_empty: "`true` when no entries are currently      *)
(* bound."                                                                 *)
(***************************************************************************)
EmptyMeansNothingBound == (holder = NoThread /\ is_empty) => Keys(map) = {}

(***************************************************************************)
(* The store implements the port: each method is atomic, takes effect      *)
(* while it runs, and the rest of the steps are invisible to callers.      *)
(***************************************************************************)
BoundSession(k) == IF map[k] = NoEntry THEN NoEntry ELSE map[k].session_id

Port == INSTANCE StateBinding WITH
  bound     <- [k \in Tokens |-> BoundSession(k)],
  broken    <- poisoned,
  status    <- [t \in Threads |-> IF pc[t] \in {"idle", "return"} THEN pc[t] ELSE "busy"],
  NoSession <- NoEntry

ImplementsPort == Port!Spec
=============================================================================
