------------------------- MODULE PkceMiddlewareProofs -------------------------
(***************************************************************************)
(* Proofs about the callback middleware in front of the in-memory store,   *)
(* for any number of workers and application threads and any requests.     *)
(***************************************************************************)
EXTENDS PkceMiddleware, SessionStoreProofs

USE DEF mvars, requestVars, hvars, vars

(***************************************************************************)
(* The values that the state of the workers and the record range over.     *)
(***************************************************************************)
MTypeOK ==
  /\ HTypeOK
  /\ request \in [Workers -> HttpRequests \cup {NoRequest}]
  /\ stage \in [Workers -> {"idle", "arrived", "verifying", "running", "replied"}]
  /\ outcome \in [Workers -> {"none", "allow", "missing_or_oversized_state",
                              "missing_session_cookie", "state_session_mismatch",
                              "store_error"}]
  /\ wasLive \in [Workers -> BOOLEAN]
  /\ wasDead \in [Workers -> BOOLEAN]

(***************************************************************************)
(* What the middleware asks of the store is a call of verify_state.        *)
(***************************************************************************)
LEMMA QuestionIsACall ==
  ASSUME NEW q \in HttpRequests, StateOf[q] # NoText, SessionOf[q] # NoText
  PROVE  /\ Question(q) \in Call
         /\ Question(q).op = "verify_state"
         /\ Question(q).token = StateOf[q] /\ StateOf[q] \in Tokens
         /\ Question(q).session = SessionOf[q] /\ SessionOf[q] \in Sessions
<1>1. StateOf[q] \in Tokens /\ SessionOf[q] \in Sessions
  BY HttpRequestsAssumption DEF StateOf, SessionOf
<1> QED
  BY <1>1 DEF Question, Call

(***************************************************************************)
(* Only threads of the store take its steps, so that everything proved of  *)
(* the store alone holds of it behind the middleware.                      *)
(***************************************************************************)
LEMMA StoreStep ==
  ASSUME MTypeOK, \A w \in Workers : stage[w] = "arrived" => request[w] \in HttpRequests,
         [MNext]_mvars
  PROVE  [HNext]_hvars
<1> USE WorkersAssumption
<1>1. ASSUME NEW w \in Workers, CallVerify(w)
      PROVE  HNext
  <2>1. request[w] \in HttpRequests
    BY <1>1 DEF CallVerify
  <2> QED
    BY <1>1, <2>1, QuestionIsACall DEF CallVerify, HNext
<1>2. ASSUME NEW w \in Workers, Decide(w)
      PROVE  HNext
  BY <1>2 DEF Decide, Allow, RejectMismatch, RejectStoreError, HNext
<1>3. ASSUME NEW w \in Workers,
             \/ \E q \in HttpRequests : Arrive(w, q)
             \/ RejectState(w) \/ RejectSession(w) \/ HandlerEnds(w)
      PROVE  UNCHANGED hvars
  BY <1>3 DEF Arrive, RejectState, RejectSession, HandlerEnds
<1>4. ASSUME NEW t \in Threads \ Workers, AppStep(t)
      PROVE  HNext
  BY <1>4 DEF AppStep, HNext
<1>5. ASSUME NEW w \in Workers, HStep(w)
      PROVE  HNext
  BY <1>5 DEF HNext
<1>6. CASE SetClock /\ UNCHANGED hist
  BY <1>6 DEF HNext
<1>7. CASE UNCHANGED mvars
  BY <1>7
<1> QED
  BY <1>1, <1>2, <1>3, <1>4, <1>5, <1>6, <1>7 DEF MNext, Enforce

-----------------------------------------------------------------------------
(***************************************************************************)
(* A worker that serves a request: while it verifies, it is in the call    *)
(* that its request asks for, and has decided nothing.                     *)
(***************************************************************************)
Serving(w) ==
  /\ stage[w] = "arrived" => request[w] \in HttpRequests
  /\ stage[w] \in {"arrived", "verifying"} => outcome[w] = "none"
  /\ stage[w] # "verifying" => pc[w] = "idle"
  /\ stage[w] = "verifying" =>
       /\ pc[w] # "idle"
       /\ request[w] \in HttpRequests
       /\ StateOf[request[w]] # NoText /\ SessionOf[request[w]] # NoText
       /\ call[w] = Question(request[w])

(***************************************************************************)
(* The record agrees with what the call has found out: between the         *)
(* eviction and the comparison, with what the store holds, and after the   *)
(* comparison, with the answer.                                            *)
(***************************************************************************)
Witnessed(w) ==
  /\ pc[w] = "body" => IF Stands(StateOf[request[w]], SessionOf[request[w]])
                         THEN wasLive[w] ELSE wasDead[w]
  /\ pc[w] = "return" => /\ res[w] = "OkTrue" => wasLive[w]
                         /\ res[w] = "OkFalse" => wasDead[w]
  /\ outcome[w] = "allow" => wasLive[w]
  /\ outcome[w] = "state_session_mismatch" => wasDead[w]

MInv ==
  /\ Inv
  /\ MTypeOK
  /\ \A w \in Workers : Serving(w) /\ Witnessed(w)

(***************************************************************************)
(* What the record keeps and sees in a step.                               *)
(***************************************************************************)
LEMMA WatchKeeps ==
  ASSUME MTypeOK, Watch, NEW w \in Workers
  PROVE  /\ wasLive'[w] \in BOOLEAN /\ wasDead'[w] \in BOOLEAN
         /\ stage'[w] # "arrived" => (wasLive[w] => wasLive'[w]) /\ (wasDead[w] => wasDead'[w])
         /\ stage'[w] = "verifying" =>
              IF Needs(request'[w]) \in Live' THEN wasLive'[w] ELSE wasDead'[w]
<1>1. wasLive[w] \in BOOLEAN /\ wasDead[w] \in BOOLEAN
  BY DEF MTypeOK
<1>2. /\ wasLive'[w] = Seen(w, wasLive[w], Needs(request'[w]) \in Live')
      /\ wasDead'[w] = Seen(w, wasDead[w], Needs(request'[w]) \notin Live')
  BY DEF Watch
<1> QED
  BY <1>1, <1>2 DEF Seen

(***************************************************************************)
(* A worker that takes no step keeps what it has.                          *)
(***************************************************************************)
LEMMA BystanderKeeps ==
  ASSUME MInv, Watch, NEW w \in Workers,
         UNCHANGED <<pc[w], call[w], res[w], request[w], stage[w], outcome[w]>>,
         pc[w] = "body" => UNCHANGED hist
  PROVE  Serving(w)' /\ Witnessed(w)'
<1>1. Serving(w) /\ Witnessed(w) /\ MTypeOK
  BY DEF MInv
<1>2. Serving(w)'
  BY <1>1 DEF Serving
<1>3. CASE stage[w] = "arrived"
  BY <1>1, <1>3 DEF Serving, Witnessed
<1>4. CASE stage[w] # "arrived"
  <2>1. (wasLive[w] => wasLive'[w]) /\ (wasDead[w] => wasDead'[w])
    BY <1>1, <1>4, WatchKeeps
  <2> QED
    BY <1>1, <1>2, <2>1 DEF Witnessed, Stands
<1> QED
  BY <1>2, <1>3, <1>4

(***************************************************************************)
(* While one thread is between eviction and comparison no other thread     *)
(* writes the store.                                                       *)
(***************************************************************************)
LEMMA OthersWait ==
  ASSUME Inv, NEW t \in Threads, NEW w \in Threads, t # w, pc[w] = "body", HStep(t)
  PROVE  UNCHANGED hist
<1>1. holder = w /\ pc[t] \notin {"evict", "body"}
  BY DEF Inv, Discipline, MutexDiscipline
<1> QED
  BY <1>1 DEF HStep, EvictExpired, BindInserts, RevokeState

(***************************************************************************)
(* A step inside the store, or into or out of it, moves its own thread     *)
(* only.                                                                   *)
(***************************************************************************)
LEMMA OneThreadMoves ==
  ASSUME Inv, NEW t \in Threads, NEW w \in Threads, t # w,
         HStep(t) \/ Return(t) \/ \E c \in Call : Invoke(t, c)
  PROVE  UNCHANGED <<pc[w], call[w], res[w]>>
  BY DEF Inv, Discipline, HTypeOK, TypeOK, HStep, Lock, LockPoisoned, BindRefused, BindPanics,
         VerifyState, EvictExpired, BindInserts, RevokeState, Return, Invoke, Finish

(***************************************************************************)
(* After an eviction, a binding stands exactly if it is live at the clock  *)
(* that the eviction read.                                                 *)
(***************************************************************************)
LEMMA EvictedIsLive ==
  ASSUME Inv, NEW t \in Threads, EvictExpired(t), RecordLapse,
         NEW k \in Tokens, NEW s \in Sessions
  PROVE  Stands(k, s)' <=> <<k, s>> \in Live'
<1>1. CASE hist[k] = NoBinding
  BY <1>1 DEF RecordLapse, Stands, Live
<1>2. CASE hist[k] # NoBinding
  <2>1. /\ hist[k] \in Binding /\ hist[k].at \in Int /\ hist[k].lapsed \in BOOLEAN
        /\ now \in Int /\ now' = now
    <3>1. hist[k] \in Binding
      BY <1>2 DEF Inv, Discipline, HTypeOK
    <3>2. hist[k].at \in Clock /\ hist[k].lapsed \in BOOLEAN
      BY <3>1 DEF Binding
    <3>3. now \in Clock /\ now' = now
      BY DEF Inv, Discipline, HTypeOK, TypeOK, EvictExpired
    <3>4. \A x \in Clock : x \in Int
      BY TimeAssumption
    <3> QED
      BY <3>1, <3>2, <3>3, <3>4
  <2>2. /\ hist'[k].at = hist[k].at
        /\ hist'[k].lapsed <=> (hist[k].lapsed \/ hist[k].at + Ttl <= now)
    BY <1>2, <2>1 DEF RecordLapse, Binding
  <2>3. ~hist'[k].lapsed => hist'[k].at + Ttl > now'
    BY <2>1, <2>2, TtlAssumption
  <2>4. <<k, s>> \in Live' <=> Stands(k, s)' /\ hist'[k].at + Ttl > now'
    BY DEF Live, Stands
  <2> QED
    BY <2>3, <2>4 DEF Stands
<1> QED
  BY <1>1, <1>2

-----------------------------------------------------------------------------
(***************************************************************************)
(* Every step of the workers, the application and the clock keeps the      *)
(* types of the middleware's state.                                        *)
(***************************************************************************)
LEMMA MTypeStep ==
  ASSUME MInv, MNext
  PROVE  MTypeOK'
<1>1. HTypeOK'
  <2>1. [HNext]_hvars
    BY StoreStep DEF MInv, Serving
  <2> QED
    BY <2>1, DisciplineStep DEF MInv, Inv, Discipline
<1>2. wasLive' \in [Workers -> BOOLEAN] /\ wasDead' \in [Workers -> BOOLEAN]
  <2>1. \A w \in Workers : wasLive'[w] \in BOOLEAN /\ wasDead'[w] \in BOOLEAN
    BY WatchKeeps DEF MInv, MNext
  <2>2. wasLive' = [w \in Workers |-> wasLive'[w]] /\ wasDead' = [w \in Workers |-> wasDead'[w]]
    BY DEF MNext, Watch
  <2> QED
    BY <2>1, <2>2
<1>3. /\ request' \in [Workers -> HttpRequests \cup {NoRequest}]
      /\ stage' \in [Workers -> {"idle", "arrived", "verifying", "running", "replied"}]
      /\ outcome' \in [Workers -> {"none", "allow", "missing_or_oversized_state",
                                   "missing_session_cookie", "state_session_mismatch",
                                   "store_error"}]
  BY DEF MInv, MTypeOK, MNext, Arrive, Enforce, RejectState, RejectSession, CallVerify, Reject,
         Decide, Allow, RejectMismatch, RejectStoreError, HandlerEnds, AppStep
<1> QED
  BY <1>1, <1>2, <1>3 DEF MTypeOK

(***************************************************************************)
(* The middleware's own steps: arrival, the rejections that need no store, *)
(* the call, the decision and the end of the handler.                      *)
(***************************************************************************)
LEMMA WorkerStep ==
  ASSUME MInv, MTypeOK', Watch, NEW w \in Workers,
         \/ \E q \in HttpRequests : Arrive(w, q)
         \/ Enforce(w) \/ Decide(w) \/ HandlerEnds(w)
  PROVE  \A v \in Workers : Serving(v)' /\ Witnessed(v)'
<1> USE WorkersAssumption
<1>1. /\ Serving(w) /\ Witnessed(w) /\ MTypeOK /\ Inv /\ w \in Threads
      /\ pc \in [Threads -> {"idle", "lock", "evict", "body", "return"}]
      /\ DOMAIN call = Threads /\ DOMAIN res = Threads
  BY DEF MInv, Inv, Discipline, HTypeOK, TypeOK
<1>2. stage'[w] # "arrived" => (wasLive[w] => wasLive'[w]) /\ (wasDead[w] => wasDead'[w])
  BY <1>1, WatchKeeps
<1>3. ASSUME NEW v \in Workers, v # w
      PROVE  Serving(v)' /\ Witnessed(v)'
  <2>1. UNCHANGED <<pc[v], call[v], res[v], request[v], stage[v], outcome[v]>> /\ UNCHANGED hist
    BY <1>1, <1>3 DEF MTypeOK, Arrive, Enforce, RejectState, RejectSession, CallVerify, Reject,
                      Decide, Allow, RejectMismatch, RejectStoreError, HandlerEnds, Invoke, Return
  <2> QED
    BY <2>1, BystanderKeeps
<1>4. ASSUME NEW q \in HttpRequests, Arrive(w, q)
      PROVE  Serving(w)' /\ Witnessed(w)'
  BY <1>1, <1>4 DEF MTypeOK, Arrive, Serving, Witnessed
<1>5. ASSUME RejectState(w) \/ RejectSession(w)
      PROVE  Serving(w)' /\ Witnessed(w)'
  BY <1>1, <1>5 DEF MTypeOK, RejectState, RejectSession, Reject, Serving, Witnessed
<1>6. ASSUME CallVerify(w)
      PROVE  Serving(w)' /\ Witnessed(w)'
  BY <1>1, <1>6 DEF MTypeOK, CallVerify, Invoke, Serving, Witnessed
<1>7. ASSUME Allow(w)
      PROVE  Serving(w)' /\ Witnessed(w)'
  BY <1>1, <1>2, <1>7 DEF MTypeOK, Allow, Return, Serving, Witnessed
<1>8. ASSUME RejectMismatch(w)
      PROVE  Serving(w)' /\ Witnessed(w)'
  BY <1>1, <1>2, <1>8 DEF MTypeOK, RejectMismatch, Reject, Return, Serving, Witnessed
<1>9. ASSUME RejectStoreError(w)
      PROVE  Serving(w)' /\ Witnessed(w)'
  BY <1>1, <1>9 DEF MTypeOK, RejectStoreError, Reject, Return, Serving, Witnessed
<1>10. ASSUME HandlerEnds(w)
       PROVE  Serving(w)' /\ Witnessed(w)'
  BY <1>1, <1>2, <1>10 DEF MTypeOK, HandlerEnds, Serving, Witnessed
<1> QED
  BY <1>3, <1>4, <1>5, <1>6, <1>7, <1>8, <1>9, <1>10 DEF Enforce, Decide

(***************************************************************************)
(* A worker's steps inside the store.  The eviction is the instant that    *)
(* the answer is about: it settles whether the binding stands, and the     *)
(* record sees the binding in force, or not, at that same clock.           *)
(***************************************************************************)
LEMMA WorkerInStore ==
  ASSUME MInv, MTypeOK', Watch, NEW w \in Workers, HStep(w), UNCHANGED requestVars
  PROVE  \A v \in Workers : Serving(v)' /\ Witnessed(v)'
<1> USE WorkersAssumption
<1>1. /\ Serving(w) /\ Witnessed(w) /\ MTypeOK /\ Inv /\ w \in Threads
      /\ pc \in [Threads -> {"idle", "lock", "evict", "body", "return"}]
      /\ DOMAIN call = Threads /\ DOMAIN res = Threads
  BY DEF MInv, Inv, Discipline, HTypeOK, TypeOK
<1>2. ASSUME NEW v \in Workers, v # w
      PROVE  Serving(v)' /\ Witnessed(v)'
  <2>1. UNCHANGED <<pc[v], call[v], res[v]>>
    BY <1>1, <1>2, OneThreadMoves
  <2>2. pc[v] = "body" => UNCHANGED hist
    BY <1>1, <1>2, OthersWait
  <2> QED
    BY <2>1, <2>2, BystanderKeeps
<1>3. pc[w] # "idle" /\ stage[w] = "verifying" /\ stage'[w] = "verifying"
  BY <1>1 DEF HStep, Lock, LockPoisoned, BindRefused, BindPanics, VerifyState, EvictExpired,
              BindInserts, RevokeState, Serving
<1> DEFINE k == StateOf[request[w]]
           s == SessionOf[request[w]]
<1>4. /\ k \in Tokens /\ s \in Sessions
      /\ call[w] = Question(request[w]) /\ call[w].op = "verify_state"
      /\ call[w].token = k /\ call[w].session = s
      /\ outcome[w] = "none"
  BY <1>1, <1>3, QuestionIsACall DEF Serving
<1>5. /\ wasLive[w] => wasLive'[w]
      /\ wasDead[w] => wasDead'[w]
      /\ IF <<k, s>> \in Live' THEN wasLive'[w] ELSE wasDead'[w]
  BY <1>1, <1>3, WatchKeeps DEF Needs
<1>6. \/ Lock(w) /\ pc'[w] = "evict"
      \/ LockPoisoned(w)
      \/ EvictExpired(w) /\ RecordLapse
      \/ VerifyState(w)
  BY <1>1, <1>4 DEF HStep, Lock, FirstStep, BindRefused, BindPanics, BindInserts, RevokeState
<1>7. call'[w] = call[w] /\ pc'[w] # "idle"
  BY <1>1, <1>6 DEF Lock, LockPoisoned, EvictExpired, VerifyState, Finish
<1>8. Serving(w)'
  BY <1>1, <1>3, <1>7 DEF Serving
<1>9. ASSUME Lock(w) /\ pc'[w] = "evict"
      PROVE  Witnessed(w)'
  BY <1>4, <1>9 DEF Witnessed
<1>10. ASSUME LockPoisoned(w)
       PROVE  Witnessed(w)'
  BY <1>1, <1>4, <1>10 DEF LockPoisoned, Finish, Witnessed
<1>11. ASSUME EvictExpired(w) /\ RecordLapse
       PROVE  Witnessed(w)'
  <2>1. pc'[w] = "body"
    BY <1>1, <1>11 DEF EvictExpired
  <2>2. PICK j \in Tokens, r \in Sessions : j = k /\ r = s
    BY <1>4
  <2>3. Stands(j, r)' <=> <<j, r>> \in Live'
    BY <1>1, <1>11, EvictedIsLive
  <2>4. StateOf[request[w]]' = j /\ SessionOf[request[w]]' = r
    BY <2>2 DEF StateOf, SessionOf
  <2> QED
    BY <1>4, <1>5, <2>1, <2>2, <2>3, <2>4 DEF Witnessed, Stands
<1>12. ASSUME VerifyState(w)
       PROVE  Witnessed(w)'
  <2>1. pc[w] = "body" /\ pc'[w] = "return"
        /\ res'[w] = IF Matches(call[w]) THEN "OkTrue" ELSE "OkFalse"
    BY <1>1, <1>12 DEF VerifyState, Finish
  <2>2. Matches(call[w]) <=> Stands(k, s)
    BY <1>1, <1>4, MatchesIffStands
  <2> QED
    BY <1>1, <1>4, <1>5, <2>1, <2>2 DEF Witnessed
<1> QED
  BY <1>2, <1>6, <1>8, <1>9, <1>10, <1>11, <1>12

(***************************************************************************)
(* The application's threads and the clock leave the workers alone.        *)
(***************************************************************************)
LEMMA OthersStep ==
  ASSUME MInv, Watch,
         \/ \E t \in Threads \ Workers : AppStep(t)
         \/ SetClock /\ UNCHANGED <<hist, requestVars>>
  PROVE  \A v \in Workers : Serving(v)' /\ Witnessed(v)'
<1> USE WorkersAssumption
<1> SUFFICES ASSUME NEW v \in Workers
             PROVE  Serving(v)' /\ Witnessed(v)'
  OBVIOUS
<1>1. Inv /\ v \in Threads
  BY DEF MInv
<1>2. ASSUME NEW t \in Threads \ Workers, AppStep(t)
      PROVE  Serving(v)' /\ Witnessed(v)'
  <2>1. UNCHANGED <<pc[v], call[v], res[v]>>
    BY <1>1, <1>2, OneThreadMoves DEF AppStep
  <2>2. pc[v] = "body" => UNCHANGED hist
    BY <1>1, <1>2, OthersWait DEF AppStep
  <2> QED
    BY <1>2, <2>1, <2>2, BystanderKeeps DEF AppStep
<1>3. CASE SetClock /\ UNCHANGED <<hist, requestVars>>
  BY <1>3, BystanderKeeps DEF SetClock
<1> QED
  BY <1>2, <1>3

(***************************************************************************)
(* The invariant holds in every reachable state of the composition.        *)
(***************************************************************************)
THEOREM MInvariance == MSpec => []MInv
<1>1. MInit => MInv
  <2> SUFFICES ASSUME MInit
               PROVE  MInv
    OBVIOUS
  <2>1. Inv
    <3>1. HInit
      BY DEF MInit
    <3>2. Discipline
      BY <3>1, DisciplineInit
    <3>3. MapIsTheBindingsThatStand
      BY <3>1 DEF HInit, Init, MapIsTheBindingsThatStand
    <3>4. Keys(map) = {}
      BY <3>1 DEF HInit, Init, Keys
    <3> QED
      BY <3>2, <3>3, <3>4, FS_EmptySet, MaxEntriesAssumption DEF Inv, Ceiling, WithinCapacity
  <2>2. MTypeOK
    BY <2>1 DEF MInit, MTypeOK, Inv, Discipline
  <2>3. ASSUME NEW w \in Workers
        PROVE  Serving(w) /\ Witnessed(w)
    BY WorkersAssumption DEF MInit, HInit, Init, Serving, Witnessed
  <2> QED
    BY <2>1, <2>2, <2>3 DEF MInv
<1>2. MInv /\ [MNext]_mvars => MInv'
  <2> SUFFICES ASSUME MInv, [MNext]_mvars
               PROVE  MInv'
    OBVIOUS
  <2>1. Inv'
    <3>1. [HNext]_hvars
      BY StoreStep DEF MInv, Serving
    <3> QED
      BY <3>1, DisciplineStep, MapStep, CeilingStep DEF MInv, Inv
  <2>2. CASE MNext
    <3>1. MTypeOK'
      BY <2>2, MTypeStep
    <3>2. \A v \in Workers : Serving(v)' /\ Witnessed(v)'
      BY <2>2, <3>1, WorkerStep, WorkerInStore, OthersStep DEF MNext
    <3> QED
      BY <2>1, <3>1, <3>2 DEF MInv
  <2>3. CASE UNCHANGED mvars
    BY <2>1, <2>3 DEF MInv, MTypeOK, HTypeOK, TypeOK, Serving, Witnessed, Stands
  <2> QED
    BY <2>2, <2>3
<1> QED
  BY <1>1, <1>2, PTL DEF MSpec

(***************************************************************************)
(* No callback reaches the handler unless its state was bound to its       *)
(* session, unexpired, at some instant between arrival and decision.       *)
(***************************************************************************)
THEOREM ForwardingJustified == MSpec => []ForwardedWasLive
<1>1. MInv => ForwardedWasLive
  BY DEF MInv, Witnessed, ForwardedWasLive
<1> QED
  BY <1>1, MInvariance, PTL

(***************************************************************************)
(* No callback is refused as a mismatch if its binding was in force from   *)
(* its arrival to the decision.                                            *)
(***************************************************************************)
THEOREM MismatchJustified == MSpec => []MismatchWasDead
<1>1. MInv => MismatchWasDead
  BY DEF MInv, Witnessed, MismatchWasDead
<1> QED
  BY <1>1, MInvariance, PTL

-----------------------------------------------------------------------------
(***************************************************************************)
(* A worker whose request met a broken store: it still waits at the mutex  *)
(* or has been told that the mutex is poisoned.                            *)
(***************************************************************************)
MetBrokenStore(w) ==
  /\ poisoned
  /\ outcome[w] \notin {"allow", "state_session_mismatch"}
  /\ stage[w] = "verifying" => \/ pc[w] = "lock"
                               \/ pc[w] = "return" /\ res[w] = "Poisoned"

(***************************************************************************)
(* A step of any thread leaves a worker that met a broken store with one.  *)
(***************************************************************************)
LEMMA MetBrokenStoreStep ==
  ASSUME NEW w \in Workers, MInv, MetBrokenStore(w), [MNext]_mvars
  PROVE  MetBrokenStore(w)'
<1> USE WorkersAssumption DEF MetBrokenStore
<1>1. /\ Serving(w) /\ MTypeOK /\ Inv /\ w \in Threads
      /\ pc \in [Threads -> {"idle", "lock", "evict", "body", "return"}]
      /\ DOMAIN call = Threads /\ DOMAIN res = Threads
  BY DEF MInv, Inv, Discipline, HTypeOK, TypeOK
<1>2. holder = NoThread /\ \A t \in Threads : pc[t] \notin {"evict", "body"}
  BY <1>1, SentinelAssumption DEF Inv, Discipline, MutexDiscipline
<1>3. ASSUME NEW t \in Threads, HStep(t)
      PROVE  LockPoisoned(t)
  BY <1>2, <1>3 DEF HStep, Lock, Acquires, BindRefused, BindPanics, VerifyState, EvictExpired,
                    BindInserts, RevokeState
<1>4. ASSUME NEW v \in Workers, NEW q \in HttpRequests, Arrive(v, q)
      PROVE  MetBrokenStore(w)'
  BY <1>1, <1>4 DEF MTypeOK, Arrive
<1>5. ASSUME NEW v \in Workers, RejectState(v) \/ RejectSession(v)
      PROVE  MetBrokenStore(w)'
  BY <1>1, <1>5 DEF MTypeOK, RejectState, RejectSession, Reject
<1>6. ASSUME NEW v \in Workers, CallVerify(v)
      PROVE  MetBrokenStore(w)'
  BY <1>1, <1>6 DEF MTypeOK, CallVerify, Invoke
<1>7. ASSUME NEW v \in Workers, HStep(v), UNCHANGED requestVars
      PROVE  MetBrokenStore(w)'
  BY <1>1, <1>3, <1>7 DEF LockPoisoned, Finish
<1>8. ASSUME NEW v \in Workers, Decide(v)
      PROVE  MetBrokenStore(w)'
  <2>1. CASE v = w
    <3>1. RejectStoreError(w)
      BY <1>8, <2>1 DEF Decide, Allow, RejectMismatch, Return
    <3> QED
      BY <1>1, <3>1 DEF MTypeOK, RejectStoreError, Reject, Return
  <2>2. CASE v # w
    BY <1>1, <1>8, <2>2 DEF MTypeOK, Decide, Allow, RejectMismatch, RejectStoreError, Reject, Return
  <2> QED
    BY <2>1, <2>2
<1>9. ASSUME NEW v \in Workers, HandlerEnds(v)
      PROVE  MetBrokenStore(w)'
  BY <1>1, <1>9 DEF MTypeOK, HandlerEnds
<1>10. ASSUME NEW t \in Threads \ Workers, AppStep(t)
       PROVE  MetBrokenStore(w)'
  <2>1. UNCHANGED <<pc[w], call[w], res[w]>>
    BY <1>1, <1>10, OneThreadMoves DEF AppStep
  <2>2. poisoned'
    BY <1>3, <1>10 DEF AppStep, Invoke, Return, LockPoisoned
  <2> QED
    BY <1>10, <2>1, <2>2 DEF AppStep
<1>11. CASE SetClock /\ UNCHANGED <<hist, requestVars>>
  BY <1>11 DEF SetClock
<1>12. CASE UNCHANGED mvars
  BY <1>12
<1> QED
  BY <1>4, <1>5, <1>6, <1>7, <1>8, <1>9, <1>10, <1>11, <1>12 DEF MNext, Enforce

(***************************************************************************)
(* Once a panic has broken the store, no callback that arrives later is    *)
(* ever forwarded or refused as a mismatch.                                *)
(***************************************************************************)
THEOREM BrokenStoreFailsClosed == MSpec => FailsClosed
<1> SUFFICES ASSUME NEW w \in Workers
             PROVE  MSpec => [](poisoned /\ stage[w] = "arrived"
                                  => [](outcome[w] \notin {"allow", "state_session_mismatch"}))
  BY DEF FailsClosed
<1>1. MInv /\ poisoned /\ stage[w] = "arrived" => MetBrokenStore(w)
  BY DEF MInv, Serving, MetBrokenStore
<1>2. MInv /\ MetBrokenStore(w) /\ [MNext]_mvars => MetBrokenStore(w)'
  BY MetBrokenStoreStep
<1>3. MetBrokenStore(w) => outcome[w] \notin {"allow", "state_session_mismatch"}
  BY DEF MetBrokenStore
<1> QED
  BY <1>1, <1>2, <1>3, MInvariance, PTL DEF MSpec
=============================================================================
