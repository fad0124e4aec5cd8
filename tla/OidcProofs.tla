------------------------------- MODULE OidcProofs -----------------------------
(***************************************************************************)
(* Proofs about the discovery client, for any number of tasks, issuers and *)
(* URIs, any time to live of the cache and any request timeout.            *)
(***************************************************************************)
EXTENDS Oidc, TLAPS

USE DEF vars

(***************************************************************************)
(* The inductive part of bounded staleness.  A set on its way was still    *)
(* published when its request was younger; one that has arrived was still  *)
(* published at most a timeout before fetched_at.                          *)
(***************************************************************************)
Aging ==
  /\ jwks_cache # None => jwks_cache.replaced <= jwks_cache.age + Timeout
  /\ \A t \in Tasks :
       /\ pc[t] \in {"inflight", "store"} => got[t] \in KeySet
       /\ pc[t] = "inflight" => got[t].replaced <= elapsed[t]
       /\ pc[t] = "store" => got[t].replaced <= got[t].age + Timeout

OInv == TypeOK /\ Aging /\ BoundedStaleness

(***************************************************************************)
(* The fields of a key set.                                                *)
(***************************************************************************)
LEMMA KeySetFields ==
  ASSUME NEW k \in KeySet
  PROVE  /\ k # None
         /\ k.uri \in Uris /\ k.current \in BOOLEAN
         /\ k.replaced \in Nat /\ k.replaced <= MaxAge
         /\ k.age \in Nat /\ k.age <= MaxAge
         /\ MaxAge \in Nat /\ CacheTtl \in Nat /\ Timeout \in Nat /\ MaxAge = CacheTtl + Timeout
  BY OidcTimeAssumption, OidcNoneAssumption DEF KeySet, MaxAge

(***************************************************************************)
(* What a rotation and the passing of a tick make of a key set.            *)
(***************************************************************************)
LEMMA SupersededFields ==
  ASSUME NEW k \in KeySet, NEW uri \in Uris
  PROVE  /\ Superseded(k, uri) \in KeySet
         /\ Superseded(k, uri).replaced = k.replaced
         /\ Superseded(k, uri).age = k.age
<1>1. k # None /\ Superseded(k, uri) = [k EXCEPT !.current = k.current /\ k.uri # uri]
  BY KeySetFields DEF Superseded
<1> QED
  BY <1>1 DEF KeySet

(***************************************************************************)
(* A tick ages a key set by one, until the cap, and the time since it was  *)
(* replaced by at most one.                                                *)
(***************************************************************************)
LEMMA OlderFields ==
  ASSUME NEW k \in KeySet
  PROVE  /\ Older(k) \in KeySet
         /\ Older(k).replaced <= k.replaced + 1
         /\ k.replaced <= k.age + Timeout => Older(k).replaced <= Older(k).age + Timeout
<1> DEFINE a == Capped(k.age)
           r == IF k.current THEN 0 ELSE Capped(k.replaced)
<1>1. Older(k) = [k EXCEPT !.age = a, !.replaced = r]
  BY KeySetFields DEF Older
<1>2. /\ a \in 0..MaxAge
      /\ IF k.age < MaxAge THEN a = k.age + 1 ELSE a = MaxAge
  BY KeySetFields DEF Capped
<1>3. r \in 0..MaxAge /\ r <= k.replaced + 1
  BY KeySetFields DEF Capped
<1> HIDE DEF a, r
<1>4. Older(k) \in KeySet /\ Older(k).age = a /\ Older(k).replaced = r
  BY <1>1, <1>2, <1>3 DEF KeySet
<1>5. k.replaced <= k.age + Timeout => r <= a + Timeout
  BY <1>2, <1>3, KeySetFields
<1> QED
  BY <1>3, <1>4, <1>5

-----------------------------------------------------------------------------
(***************************************************************************)
(* The answers that tasks may give.                                        *)
(***************************************************************************)
Sound(o) == o \in Outcome /\ (o.kind = "keys" /\ o.cached => o.replaced < MaxAge)

(***************************************************************************)
(* Neither an error nor a document nor a freshly fetched set is stale.     *)
(***************************************************************************)
LEMMA SoundAnswers ==
  /\ Sound([kind |-> "none"])
  /\ \A e \in DiscoveryError : Sound(Error(e))
  /\ \A i \in Issuers, d \in DiscoveryDoc :
       d.issuer = i => Sound([kind |-> "doc", asked |-> i, doc |-> d])
  /\ \A u \in Uris, k \in KeySet, c \in BOOLEAN :
       (c => k.replaced < MaxAge) =>
         Sound([kind |-> "keys", asked |-> u, from |-> k.uri, cached |-> c, replaced |-> k.replaced])
<1>1. Sound([kind |-> "none"])
  BY DEF Sound, Outcome
<1>2. ASSUME NEW e \in DiscoveryError
      PROVE  Sound(Error(e))
  BY DEF Sound, Outcome, Error
<1>3. ASSUME NEW i \in Issuers, NEW d \in DiscoveryDoc, d.issuer = i
      PROVE  Sound([kind |-> "doc", asked |-> i, doc |-> d])
  <2> DEFINE o == [kind |-> "doc", asked |-> i, doc |-> d]
  <2>1. o \in [kind : {"doc"}, asked : Issuers, doc : DiscoveryDoc] /\ o.doc.issuer = o.asked
    BY <1>3
  <2>2. o \in Outcome
    BY <2>1 DEF Outcome
  <2> QED
    BY <2>2 DEF Sound
<1>4. ASSUME NEW u \in Uris, NEW k \in KeySet, NEW c \in BOOLEAN, c => k.replaced < MaxAge
      PROVE  Sound([kind |-> "keys", asked |-> u, from |-> k.uri, cached |-> c,
                    replaced |-> k.replaced])
  <2> DEFINE o == [kind |-> "keys", asked |-> u, from |-> k.uri, cached |-> c,
                   replaced |-> k.replaced]
  <2>1. k.uri \in Uris /\ k.replaced \in 0..MaxAge
    BY DEF KeySet
  <2>2. o \in Outcome
    BY <2>1 DEF Outcome
  <2> QED
    BY <1>4, <2>2 DEF Sound
<1> QED
  BY <1>1, <1>2, <1>3, <1>4

(***************************************************************************)
(* What the task of a call has asked for.                                  *)
(***************************************************************************)
LEMMA AskedFor ==
  ASSUME TypeOK, NEW t \in Tasks
  PROVE  /\ pc[t] = "discover" => asked[t] \in Issuers
         /\ pc[t] \in {"look", "sent", "inflight", "store"} => asked[t] \in Uris
  BY DEF TypeOK, Waiting

(***************************************************************************)
(* A call that ends with a sound answer.                                   *)
(***************************************************************************)
LEMMA FinishKeeps ==
  ASSUME OInv, NEW t \in Tasks, NEW o, Sound(o), Finish(t, o),
         jwks_cache' \in KeySet \cup {None},
         jwks_cache' # None => jwks_cache'.replaced <= jwks_cache'.age + Timeout
  PROVE  OInv'
<1>1. TypeOK'
  <2>1. 0 \in 0..Timeout
    BY OidcTimeAssumption
  <2> QED
    BY <2>1 DEF OInv, TypeOK, Finish, Sound, Waiting
<1>2. Aging'
  BY DEF OInv, TypeOK, Aging, Finish
<1>3. BoundedStaleness'
  BY DEF OInv, TypeOK, BoundedStaleness, Finish, Sound
<1> QED
  BY <1>1, <1>2, <1>3 DEF OInv

(***************************************************************************)
(* A call that begins.                                                     *)
(***************************************************************************)
LEMMA BeginKeeps ==
  ASSUME OInv, NEW t \in Tasks, NEW step, NEW what, pc[t] = "idle", Begin(t, step, what),
         (step = "discover" /\ what \in Issuers) \/ (step = "look" /\ what \in Uris)
  PROVE  OInv'
<1>1. TypeOK'
  BY SoundAnswers DEF OInv, TypeOK, Begin, Sound, Waiting
<1>2. Aging'
  BY DEF OInv, TypeOK, Aging, Begin
<1>3. BoundedStaleness'
  BY SoundAnswers DEF OInv, TypeOK, BoundedStaleness, Begin, Sound
<1> QED
  BY <1>1, <1>2, <1>3 DEF OInv

(***************************************************************************)
(* The key sets on their way or in the slot, in a step of the publisher or *)
(* of time that keeps them in bounds.                                      *)
(***************************************************************************)
LEMMA EnvironmentKeeps ==
  ASSUME OInv, UNCHANGED <<pc, asked, answer>>,
         elapsed' \in [Tasks -> 0..Timeout],
         jwks_cache' \in KeySet \cup {None},
         jwks_cache' # None => jwks_cache'.replaced <= jwks_cache'.age + Timeout,
         got' \in [Tasks -> KeySet \cup {None}],
         \A t \in Tasks :
           /\ pc[t] \in {"inflight", "store"} => got'[t] \in KeySet
           /\ pc[t] = "inflight" => got'[t].replaced <= elapsed'[t]
           /\ pc[t] = "store" => got'[t].replaced <= got'[t].age + Timeout
  PROVE  OInv'
  BY DEF OInv, TypeOK, Aging, BoundedStaleness

(***************************************************************************)
(* Every step of the tasks, the publishers and the clock keeps the         *)
(* invariant.                                                              *)
(***************************************************************************)
LEMMA OInvStep == OInv /\ [Next]_vars => OInv'
<1> SUFFICES ASSUME OInv, [Next]_vars
             PROVE  OInv'
  OBVIOUS
<1>1. jwks_cache \in KeySet \cup {None}
      /\ (jwks_cache # None => jwks_cache.replaced <= jwks_cache.age + Timeout)
  BY DEF OInv, TypeOK, Aging
<1>2. ASSUME NEW t \in Tasks, NEW issuer \in Issuers,
             discover(t, issuer) \/ DiscoverMalformed(t, issuer)
      PROVE  OInv'
  BY <1>1, <1>2, BeginKeeps, FinishKeeps, SoundAnswers
  DEF discover, DiscoverMalformed, DiscoveryError
<1>3. ASSUME NEW t \in Tasks, NEW uri \in Uris, jwks(t, uri)
      PROVE  OInv'
  BY <1>3, BeginKeeps DEF jwks
<1>4. ASSUME NEW t \in Tasks, NEW doc \in DiscoveryDoc, Discovered(t, doc)
      PROVE  OInv'
  <2>1. asked[t] \in Issuers
    BY <1>4, AskedFor DEF Discovered, OInv
  <2> DEFINE o == IF Confirms(t, doc) THEN [kind |-> "doc", asked |-> asked[t], doc |-> doc]
                                      ELSE Error("IssuerMismatch")
  <2>2. Sound(o)
    BY <2>1, SoundAnswers DEF Confirms, DiscoveryError
  <2>3. Finish(t, o) /\ UNCHANGED jwks_cache
    BY <1>4 DEF Discovered
  <2> HIDE DEF o
  <2> QED
    BY <1>1, <2>2, <2>3, FinishKeeps
<1>5. ASSUME NEW t \in Tasks, Hit(t)
      PROVE  OInv'
  <2>1. jwks_cache \in KeySet /\ asked[t] \in Uris
    BY <1>1, <1>5, AskedFor DEF Hit, OInv
  <2>2. jwks_cache.replaced < MaxAge
    BY <1>1, <1>5, <2>1, KeySetFields DEF Hit, is_fresh
  <2>3. Sound(Answer(t, jwks_cache, TRUE))
    BY <2>1, <2>2, SoundAnswers DEF Answer
  <2> QED
    BY <1>1, <1>5, <2>3, FinishKeeps DEF Hit
<1>6. ASSUME NEW t \in Tasks, Miss(t)
      PROVE  OInv'
  BY <1>6 DEF Miss, OInv, TypeOK, Aging, BoundedStaleness, Waiting
<1>7. ASSUME NEW t \in Tasks, Serve(t)
      PROVE  OInv'
  <2> DEFINE k == [uri |-> asked[t], current |-> TRUE, replaced |-> 0, age |-> 0]
  <2>1. k \in KeySet /\ k.replaced = 0
    BY <1>7, AskedFor, OidcTimeAssumption DEF Serve, OInv, KeySet, MaxAge
  <2>2. got' = [got EXCEPT ![t] = k]
    BY <1>7 DEF Serve
  <2> HIDE DEF k
  <2>3. TypeOK'
    BY <1>7, <2>1, <2>2 DEF Serve, OInv, TypeOK, Waiting
  <2>4. elapsed[t] \in 0..Timeout
    BY DEF OInv, TypeOK
  <2>5. Aging'
    <3>1. ASSUME NEW s \in Tasks, s # t
          PROVE  pc'[s] = pc[s] /\ got'[s] = got[s] /\ elapsed'[s] = elapsed[s]
      BY <1>7, <2>2, <3>1 DEF Serve, OInv, TypeOK
    <3>2. pc'[t] = "inflight" /\ got'[t] = k /\ elapsed'[t] = elapsed[t] /\ jwks_cache' = jwks_cache
      BY <1>7, <2>2 DEF Serve, OInv, TypeOK
    <3>3. k.replaced <= elapsed[t]
      BY <2>1, <2>4, OidcTimeAssumption
    <3> QED
      BY <2>1, <3>1, <3>2, <3>3 DEF OInv, Aging
  <2>6. BoundedStaleness'
    BY <1>7 DEF Serve, OInv, BoundedStaleness
  <2> QED
    BY <2>3, <2>5, <2>6 DEF OInv
<1>8. ASSUME NEW t \in Tasks, Receive(t)
      PROVE  OInv'
  <2> DEFINE k == [got[t] EXCEPT !.age = 0]
  <2>1. got[t] \in KeySet /\ got[t].replaced <= elapsed[t] /\ elapsed[t] \in 0..Timeout
    BY <1>8 DEF Receive, OInv, TypeOK, Aging
  <2>2. k \in KeySet /\ k.replaced = got[t].replaced /\ k.age = 0
    BY <2>1, OidcTimeAssumption DEF KeySet, MaxAge
  <2>3. got' = [got EXCEPT ![t] = k]
    BY <1>8 DEF Receive
  <2> HIDE DEF k
  <2>4. TypeOK'
    BY <1>8, <2>2, <2>3 DEF Receive, OInv, TypeOK, Waiting
  <2>5. k.replaced <= k.age + Timeout
    BY <2>1, <2>2, KeySetFields
  <2>6. Aging'
    BY <1>8, <2>2, <2>3, <2>5 DEF Receive, OInv, TypeOK, Aging
  <2>7. BoundedStaleness'
    BY <1>8 DEF Receive, OInv, BoundedStaleness
  <2> QED
    BY <2>4, <2>6, <2>7 DEF OInv
<1>9. ASSUME NEW t \in Tasks, Store(t)
      PROVE  OInv'
  <2>1. got[t] \in KeySet /\ got[t].replaced <= got[t].age + Timeout
    BY <1>9 DEF Store, OInv, Aging
  <2>2. Sound(Answer(t, got[t], FALSE))
    BY <1>9, <2>1, AskedFor, SoundAnswers DEF Store, OInv, Answer
  <2> QED
    BY <1>9, <2>1, <2>2, FinishKeeps DEF Store
<1>10. ASSUME NEW t \in Tasks, Fail(t)
       PROVE  OInv'
  BY <1>1, <1>10, FinishKeeps, SoundAnswers DEF Fail, DiscoveryError
<1>11. ASSUME NEW uri \in Uris, Rotate(uri)
       PROVE  OInv'
  <2>1. Superseded(None, uri) = None
    BY DEF Superseded
  <2>2. jwks_cache' \in KeySet \cup {None}
        /\ (jwks_cache' # None => jwks_cache'.replaced <= jwks_cache'.age + Timeout)
    BY <1>1, <1>11, <2>1, SupersededFields DEF Rotate
  <2>3. got' \in [Tasks -> KeySet \cup {None}]
    BY <1>11, <2>1, SupersededFields DEF Rotate, OInv, TypeOK
  <2>4. ASSUME NEW t \in Tasks, got[t] \in KeySet
        PROVE  got'[t] \in KeySet /\ got'[t].replaced = got[t].replaced /\ got'[t].age = got[t].age
    BY <1>11, <2>4, SupersededFields DEF Rotate
  <2>5. UNCHANGED <<pc, asked, elapsed, answer>> /\ elapsed' \in [Tasks -> 0..Timeout]
    BY <1>11 DEF Rotate, OInv, TypeOK
  <2>6. \A t \in Tasks :
          /\ pc[t] \in {"inflight", "store"} => got'[t] \in KeySet
          /\ pc[t] = "inflight" => got'[t].replaced <= elapsed'[t]
          /\ pc[t] = "store" => got'[t].replaced <= got'[t].age + Timeout
    BY <2>4, <2>5 DEF OInv, Aging
  <2> QED
    BY <2>2, <2>3, <2>5, <2>6, EnvironmentKeeps
<1>12. CASE Tick
  <2>1. Older(None) = None
    BY DEF Older
  <2>2. jwks_cache' \in KeySet \cup {None}
        /\ (jwks_cache' # None => jwks_cache'.replaced <= jwks_cache'.age + Timeout)
    BY <1>1, <1>12, <2>1, OlderFields DEF Tick
  <2>3. got' \in [Tasks -> KeySet \cup {None}]
    BY <1>12, <2>1, OlderFields DEF Tick, OInv, TypeOK
  <2>4. ASSUME NEW t \in Tasks, got[t] \in KeySet
        PROVE  /\ got'[t] \in KeySet
               /\ got'[t].replaced <= got[t].replaced + 1
               /\ got[t].replaced <= got[t].age + Timeout => got'[t].replaced <= got'[t].age + Timeout
    BY <1>12, <2>4, OlderFields DEF Tick
  <2>5. ASSUME NEW t \in Tasks
        PROVE  /\ elapsed'[t] \in 0..Timeout /\ elapsed[t] \in Int
               /\ pc[t] = "inflight" => elapsed'[t] = elapsed[t] + 1
    BY <1>12, OidcTimeAssumption DEF Tick, OInv, TypeOK, Waiting
  <2>6. elapsed' \in [Tasks -> 0..Timeout]
    BY <1>12, <2>5 DEF Tick
  <2>7. \A t \in Tasks :
          /\ pc[t] \in {"inflight", "store"} => got'[t] \in KeySet
          /\ pc[t] = "inflight" => got'[t].replaced <= elapsed'[t]
          /\ pc[t] = "store" => got'[t].replaced <= got'[t].age + Timeout
    <3> SUFFICES ASSUME NEW t \in Tasks, pc[t] \in {"inflight", "store"}
                 PROVE  /\ got'[t] \in KeySet
                        /\ pc[t] = "inflight" => got'[t].replaced <= elapsed'[t]
                        /\ pc[t] = "store" => got'[t].replaced <= got'[t].age + Timeout
      OBVIOUS
    <3>1. got[t] \in KeySet
      BY DEF OInv, Aging
    <3>2. got[t].replaced \in Nat /\ got'[t].replaced \in Nat
      BY <2>4, <3>1, KeySetFields
    <3>3. pc[t] = "inflight" => got[t].replaced <= elapsed[t]
      BY DEF OInv, Aging
    <3>4. pc[t] = "store" => got[t].replaced <= got[t].age + Timeout
      BY DEF OInv, Aging
    <3> QED
      BY <2>4, <2>5, <3>1, <3>2, <3>3, <3>4
  <2>8. UNCHANGED <<pc, asked, answer>>
    BY <1>12 DEF Tick
  <2> QED
    BY <2>2, <2>3, <2>6, <2>7, <2>8, EnvironmentKeeps
<1>13. CASE UNCHANGED vars
  BY <1>13 DEF OInv, TypeOK, Aging, BoundedStaleness
<1> QED
  BY <1>2, <1>3, <1>4, <1>5, <1>6, <1>7, <1>8, <1>9, <1>10, <1>11, <1>12, <1>13 DEF Next

(***************************************************************************)
(* The invariant holds in every reachable state.                           *)
(***************************************************************************)
THEOREM OidcInvariance == Spec => []OInv
<1>1. Init => OInv
  <2>1. 0 \in 0..Timeout
    BY OidcTimeAssumption
  <2> QED
    BY <2>1, SoundAnswers DEF Init, OInv, TypeOK, Aging, BoundedStaleness, Sound
<1> QED
  BY <1>1, OInvStep, PTL DEF Spec

(***************************************************************************)
(* Type correctness of the client: in particular a discover that succeeds  *)
(* returns a document of the very issuer that was asked for, and jwks      *)
(* returns keys or an error.                                               *)
(***************************************************************************)
THEOREM OidcTypeCorrect == Spec => []TypeOK
  BY OidcInvariance, PTL DEF OInv

(***************************************************************************)
(* A key set served from the cache was still published less than cache_ttl *)
(* plus one request timeout ago, whoever fetched and stored it, in         *)
(* whatever order.                                                         *)
(***************************************************************************)
THEOREM StalenessBounded == Spec => []BoundedStaleness
  BY OidcInvariance, PTL DEF OInv
-----------------------------------------------------------------------------
(***************************************************************************)
(* The keys a task has fetched, and has not taken from the cache, come     *)
(* from the URI it asked for.                                              *)
(***************************************************************************)
FetchedFromUri ==
  \A t \in Tasks :
    (answer[t].kind = "keys" /\ ~answer[t].cached) => answer[t].from = answer[t].asked

(***************************************************************************)
(* Its inductive part: a set on its way is of the URI its task asked for.  *)
(***************************************************************************)
OnItsWay == \A t \in Tasks : pc[t] \in {"inflight", "store"} => got[t].uri = asked[t]

(***************************************************************************)
(* Neither a rotation nor a tick changes where a set came from.            *)
(***************************************************************************)
LEMMA SameOrigin ==
  ASSUME NEW k \in KeySet
  PROVE  Older(k).uri = k.uri /\ \A uri \in Uris : Superseded(k, uri).uri = k.uri
  BY KeySetFields DEF Older, Superseded, KeySet

(***************************************************************************)
(* No step of another task, however the fetches interleave, changes what a *)
(* task is about to return.                                                *)
(***************************************************************************)
LEMMA FetchedStep ==
  OInv /\ OnItsWay /\ FetchedFromUri /\ [Next]_vars => OnItsWay' /\ FetchedFromUri'
<1> SUFFICES ASSUME OInv, OnItsWay, FetchedFromUri, [Next]_vars
             PROVE  OnItsWay' /\ FetchedFromUri'
  OBVIOUS
<1>1. ASSUME NEW t \in Tasks, NEW o, Finish(t, o),
             o.kind = "keys" /\ ~o.cached => o.from = o.asked
      PROVE  OnItsWay' /\ FetchedFromUri'
  BY <1>1 DEF Finish, OnItsWay, FetchedFromUri, OInv, TypeOK
<1>2. ASSUME NEW t \in Tasks, NEW step \in {"discover", "look"}, NEW what, Begin(t, step, what)
      PROVE  OnItsWay' /\ FetchedFromUri'
  BY <1>2 DEF Begin, OnItsWay, FetchedFromUri, OInv, TypeOK
<1>3. ASSUME NEW t \in Tasks, NEW issuer \in Issuers,
             discover(t, issuer) \/ DiscoverMalformed(t, issuer)
      PROVE  OnItsWay' /\ FetchedFromUri'
  BY <1>1, <1>2, <1>3 DEF discover, DiscoverMalformed, Error
<1>4. ASSUME NEW t \in Tasks, NEW uri \in Uris, jwks(t, uri)
      PROVE  OnItsWay' /\ FetchedFromUri'
  BY <1>2, <1>4 DEF jwks
<1>5. ASSUME NEW t \in Tasks, NEW doc \in DiscoveryDoc, Discovered(t, doc)
      PROVE  OnItsWay' /\ FetchedFromUri'
  <2> DEFINE o == IF Confirms(t, doc) THEN [kind |-> "doc", asked |-> asked[t], doc |-> doc]
                                      ELSE Error("IssuerMismatch")
  <2>1. Finish(t, o) /\ o.kind # "keys"
    BY <1>5 DEF Discovered, Error
  <2> HIDE DEF o
  <2> QED
    BY <1>1, <2>1
<1>6. ASSUME NEW t \in Tasks, Hit(t)
      PROVE  OnItsWay' /\ FetchedFromUri'
  <2> DEFINE o == Answer(t, jwks_cache, TRUE)
  <2>1. Finish(t, o) /\ o.cached
    BY <1>6 DEF Hit, Answer
  <2> HIDE DEF o
  <2> QED
    BY <1>1, <2>1
<1>7. ASSUME NEW t \in Tasks, Miss(t)
      PROVE  OnItsWay' /\ FetchedFromUri'
  BY <1>7 DEF Miss, OnItsWay, FetchedFromUri, OInv, TypeOK
<1>8. ASSUME NEW t \in Tasks, Serve(t)
      PROVE  OnItsWay' /\ FetchedFromUri'
  BY <1>8 DEF Serve, OnItsWay, FetchedFromUri, OInv, TypeOK
<1>9. ASSUME NEW t \in Tasks, Receive(t)
      PROVE  OnItsWay' /\ FetchedFromUri'
  <2>1. got[t] \in KeySet
    BY <1>9 DEF Receive, OInv, Aging
  <2>2. got'[t].uri = got[t].uri /\ \A s \in Tasks \ {t} : got'[s] = got[s]
    BY <1>9, <2>1 DEF Receive, OInv, TypeOK, KeySet
  <2> QED
    BY <1>9, <2>2 DEF Receive, OnItsWay, FetchedFromUri, OInv, TypeOK
<1>10. ASSUME NEW t \in Tasks, Store(t)
       PROVE  OnItsWay' /\ FetchedFromUri'
  <2> DEFINE o == Answer(t, got[t], FALSE)
  <2>1. Finish(t, o) /\ o.from = o.asked
    BY <1>10 DEF Store, Answer, OnItsWay
  <2> HIDE DEF o
  <2> QED
    BY <1>1, <2>1
<1>11. ASSUME NEW t \in Tasks, Fail(t)
       PROVE  OnItsWay' /\ FetchedFromUri'
  BY <1>1, <1>11 DEF Fail, Error
<1>12. ASSUME UNCHANGED <<pc, asked, answer>>,
              \A t \in Tasks : got[t] \in KeySet => got'[t].uri = got[t].uri
       PROVE  OnItsWay' /\ FetchedFromUri'
  BY <1>12 DEF OnItsWay, FetchedFromUri, OInv, Aging
<1>13. ASSUME NEW uri \in Uris, Rotate(uri)
       PROVE  OnItsWay' /\ FetchedFromUri'
  BY <1>12, <1>13, SameOrigin DEF Rotate
<1>14. CASE Tick
  BY <1>12, <1>14, SameOrigin DEF Tick
<1>15. CASE UNCHANGED vars
  BY <1>15 DEF OnItsWay, FetchedFromUri
<1> QED
  BY <1>3, <1>4, <1>5, <1>6, <1>7, <1>8, <1>9, <1>10, <1>11, <1>13, <1>14, <1>15 DEF Next

(***************************************************************************)
(* Keys that jwks has fetched come from the URI it was asked for, however  *)
(* many tasks fetch at once: only the cache, which is one slot for all     *)
(* URIs, can hand out the keys of another.                                 *)
(***************************************************************************)
THEOREM FetchedKeysFromUri == Spec => []FetchedFromUri
<1>1. Init => OnItsWay /\ FetchedFromUri
  BY DEF Init, OnItsWay, FetchedFromUri
<1> QED
  BY <1>1, FetchedStep, OidcInvariance, PTL DEF Spec
=============================================================================
