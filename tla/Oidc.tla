---------------------------------- MODULE Oidc --------------------------------
(***************************************************************************)
(* DiscoveryClient (src/src/oidc.rs): tasks call discover for an issuer's  *)
(* document and jwks for a key set, which the client caches in one slot.   *)
(*                                                                         *)
(* jwks looks at the cache under the mutex, releases it, fetches without   *)
(* it and takes it again to store what it got.  Several tasks may fetch at *)
(* once, and their answers may be stored in another order than they were   *)
(* produced.                                                               *)
(*                                                                         *)
(* A key set is described by where it came from and by how long ago its    *)
(* publisher replaced it.  Times are ages, counted in ticks and capped     *)
(* where no comparison can tell them apart any more.                       *)
(***************************************************************************)
EXTENDS Integers

CONSTANTS
  Tasks,          \* concurrent callers
  Issuers,        \* what discover may be asked for, or a document may claim ...
  BadUrls,        \* ... and those that Url::parse refuses
  Uris,           \* JWKS URIs
  CacheTtl,       \* cache_ttl
  Timeout,        \* the HTTP client's timeout for a whole request
  None

ASSUME OidcTimeAssumption == CacheTtl \in Nat /\ Timeout \in Nat

MaxAge == CacheTtl + Timeout

DiscoveryDoc == [issuer : Issuers, jwks_uri : Uris \cup {None}]

DiscoveryError == {"InvalidIssuerUrl", "IssuerMismatch", "Http"}

\* replaced: ticks since the publisher replaced the set, 0 while it has not.
KeySet == [uri : Uris, current : BOOLEAN, replaced : 0..MaxAge, age : 0..MaxAge]

ASSUME OidcNoneAssumption == None \notin Uris /\ None \notin KeySet /\ BadUrls \subseteq Issuers

(***************************************************************************)
(* What a call returns: a document for the issuer asked for, a key set, or *)
(* an error.                                                               *)
(***************************************************************************)
Outcome ==
  [kind : {"none"}]
    \cup [kind : {"error"}, error : DiscoveryError]
    \cup {o \in [kind : {"doc"}, asked : Issuers, doc : DiscoveryDoc] : o.doc.issuer = o.asked}
    \cup [kind : {"keys"}, asked : Uris, from : Uris, cached : BOOLEAN, replaced : 0..MaxAge]

VARIABLES
  jwks_cache,  \* the slot: a key set with its age since fetched_at, or None
  pc,          \* where each task is
  asked,       \* the issuer or the URI it asked for
  elapsed,     \* how long its HTTP request has been under way
  got,         \* the key set its server answered with, or None
  answer       \* what its last call returned

vars == <<jwks_cache, pc, asked, elapsed, got, answer>>

Waiting == {"discover", "sent", "inflight"}

TypeOK ==
  /\ jwks_cache \in KeySet \cup {None}
  /\ pc \in [Tasks -> {"idle", "look", "store"} \cup Waiting]
  /\ asked \in [Tasks -> Issuers \cup Uris \cup {None}]
  /\ \A t \in Tasks : /\ pc[t] = "idle" => asked[t] = None
                      /\ pc[t] = "discover" => asked[t] \in Issuers
                      /\ pc[t] \notin {"idle", "discover"} => asked[t] \in Uris
  /\ elapsed \in [Tasks -> 0..Timeout]
  /\ got \in [Tasks -> KeySet \cup {None}]
  /\ answer \in [Tasks -> Outcome]

-----------------------------------------------------------------------------
Init ==
  /\ jwks_cache = None
  /\ pc = [t \in Tasks |-> "idle"]
  /\ asked = [t \in Tasks |-> None]
  /\ elapsed = [t \in Tasks |-> 0]
  /\ got = [t \in Tasks |-> None]
  /\ answer = [t \in Tasks |-> [kind |-> "none"]]

Begin(t, step, what) ==
  /\ pc' = [pc EXCEPT ![t] = step]
  /\ asked' = [asked EXCEPT ![t] = what]
  /\ answer' = [answer EXCEPT ![t] = [kind |-> "none"]]
  /\ UNCHANGED <<jwks_cache, elapsed, got>>

Finish(t, outcome) ==
  /\ pc' = [pc EXCEPT ![t] = "idle"]
  /\ asked' = [asked EXCEPT ![t] = None]
  /\ elapsed' = [elapsed EXCEPT ![t] = 0]
  /\ got' = [got EXCEPT ![t] = None]
  /\ answer' = [answer EXCEPT ![t] = outcome]

Error(e) == [kind |-> "error", error |-> e]

(***************************************************************************)
(* discover: a malformed issuer is refused at once, another is one HTTP    *)
(* request.  Issuers that differ in trailing slashes share a discovery     *)
(* URL, so the document that comes back may name any of them.              *)
(***************************************************************************)
discover(t, issuer) ==
  /\ pc[t] = "idle"
  /\ issuer \notin BadUrls
  /\ Begin(t, "discover", issuer)

DiscoverMalformed(t, issuer) ==
  /\ pc[t] = "idle"
  /\ issuer \in BadUrls
  /\ Finish(t, Error("InvalidIssuerUrl"))
  /\ UNCHANGED jwks_cache

\* Mutant of Confirms: any document will do.
ConfirmsAny(t, doc) == TRUE

(***************************************************************************)
(* The document's issuer is, to the letter, the one asked for.             *)
(***************************************************************************)
Confirms(t, doc) == doc.issuer = asked[t]

(***************************************************************************)
(* The document has arrived.                                               *)
(***************************************************************************)
Discovered(t, doc) ==
  /\ pc[t] = "discover"
  /\ Finish(t, IF Confirms(t, doc) THEN [kind |-> "doc", asked |-> asked[t], doc |-> doc]
                                   ELSE Error("IssuerMismatch"))
  /\ UNCHANGED jwks_cache

-----------------------------------------------------------------------------
(***************************************************************************)
(* jwks, with the jwks_uri of some document or any other.                  *)
(***************************************************************************)
jwks(t, uri) ==
  /\ pc[t] = "idle"
  /\ Begin(t, "look", uri)

\* Mutant of is_fresh: one tick too long.
is_fresh_at_ttl(cached) == cached.age <= CacheTtl

(***************************************************************************)
(* CachedJwks::is_fresh.                                                   *)
(***************************************************************************)
is_fresh(cached) == cached.age < CacheTtl

Answer(t, keys, cached) ==
  [kind |-> "keys", asked |-> asked[t], from |-> keys.uri, cached |-> cached, replaced |-> keys.replaced]

(***************************************************************************)
(* The fast path of jwks, under the mutex.                                 *)
(***************************************************************************)
Hit(t) ==
  /\ pc[t] = "look"
  /\ jwks_cache # None
  /\ is_fresh(jwks_cache)
  /\ Finish(t, Answer(t, jwks_cache, TRUE))
  /\ UNCHANGED jwks_cache

(***************************************************************************)
(* The mutex is released and the request sent.                             *)
(***************************************************************************)
Miss(t) ==
  /\ pc[t] = "look"
  /\ jwks_cache # None => ~is_fresh(jwks_cache)
  /\ pc' = [pc EXCEPT ![t] = "sent"]
  /\ UNCHANGED <<jwks_cache, asked, elapsed, got, answer>>

(***************************************************************************)
(* External: the server answers with the set it publishes at that instant. *)
(***************************************************************************)
Serve(t) ==
  /\ pc[t] = "sent"
  /\ pc' = [pc EXCEPT ![t] = "inflight"]
  /\ got' = [got EXCEPT ![t] = [uri |-> asked[t], current |-> TRUE, replaced |-> 0, age |-> 0]]
  /\ UNCHANGED <<jwks_cache, asked, elapsed, answer>>

(***************************************************************************)
(* The body has arrived and fetched_at is taken.                           *)
(***************************************************************************)
Receive(t) ==
  /\ pc[t] = "inflight"
  /\ pc' = [pc EXCEPT ![t] = "store"]
  /\ got' = [got EXCEPT ![t].age = 0]
  /\ UNCHANGED <<jwks_cache, asked, elapsed, answer>>

(***************************************************************************)
(* The slot is overwritten, whatever is in it by now.                      *)
(***************************************************************************)
Store(t) ==
  /\ pc[t] = "store"
  /\ jwks_cache' = got[t]
  /\ Finish(t, Answer(t, got[t], FALSE))

(***************************************************************************)
(* A request fails: no connection, an error status, no JSON, or the        *)
(* client's timeout.  The cache is left as it is.                          *)
(***************************************************************************)
\* Mutant of Fail: a client without a timeout, that only servers can end.
FailOnAnswerOnly(t) ==
  /\ pc[t] = "inflight"
  /\ Finish(t, Error("Http"))
  /\ UNCHANGED jwks_cache

Fail(t) ==
  /\ pc[t] \in Waiting
  /\ Finish(t, Error("Http"))
  /\ UNCHANGED jwks_cache

-----------------------------------------------------------------------------
(***************************************************************************)
(* External: the publisher of uri rotates its keys.                        *)
(***************************************************************************)
Superseded(keys, uri) ==
  IF keys # None THEN [keys EXCEPT !.current = @ /\ keys.uri # uri] ELSE None

Rotate(uri) ==
  /\ jwks_cache' = Superseded(jwks_cache, uri)
  /\ got' = [t \in Tasks |-> Superseded(got[t], uri)]
  /\ UNCHANGED <<pc, asked, elapsed, answer>>

(***************************************************************************)
(* External: time passes.  The client's timer fires when a request has     *)
(* been under way for Timeout.                                             *)
(***************************************************************************)
Capped(n) == IF n < MaxAge THEN n + 1 ELSE MaxAge

Older(keys) ==
  IF keys # None
    THEN [keys EXCEPT !.age = Capped(@), !.replaced = IF keys.current THEN 0 ELSE Capped(@)]
    ELSE None

Tick ==
  /\ \A t \in Tasks : pc[t] \in Waiting => elapsed[t] < Timeout
  /\ jwks_cache' = Older(jwks_cache)
  /\ got' = [t \in Tasks |-> Older(got[t])]
  /\ elapsed' = [t \in Tasks |-> IF pc[t] \in Waiting THEN elapsed[t] + 1 ELSE elapsed[t]]
  /\ UNCHANGED <<pc, asked, answer>>

Next ==
  \/ \E t \in Tasks :
       \/ \E issuer \in Issuers : discover(t, issuer)
       \/ \E issuer \in Issuers : DiscoverMalformed(t, issuer)
       \/ \E doc \in DiscoveryDoc : Discovered(t, doc)
       \/ \E uri \in Uris : jwks(t, uri)
       \/ Hit(t)
       \/ Miss(t)
       \/ Serve(t)
       \/ Receive(t)
       \/ Store(t)
       \/ Fail(t)
  \/ \E uri \in Uris : Rotate(uri)
  \/ Tick

Spec == Init /\ [][Next]_vars

(***************************************************************************)
(* Time passes, a task that is not waiting for the network runs, and a     *)
(* request that has reached its timeout is ended.  Servers owe nothing.    *)
(***************************************************************************)
FairSpec ==
  /\ Spec
  /\ WF_vars(Tick)
  /\ \A t \in Tasks : /\ WF_vars(Hit(t) \/ Miss(t) \/ Store(t))
                      /\ WF_vars(elapsed[t] = Timeout /\ Fail(t))

-----------------------------------------------------------------------------
(***************************************************************************)
(* The price of the cache: a key set served from it was still published    *)
(* less than cache_ttl plus one request timeout ago, whatever other tasks  *)
(* fetched, failed or stored out of order meanwhile.                       *)
(***************************************************************************)
BoundedStaleness ==
  \A t \in Tasks :
    (answer[t].kind = "keys" /\ answer[t].cached) => answer[t].replaced < MaxAge

(***************************************************************************)
(* Every call comes back, with keys or with an error, even if no server    *)
(* ever answers.                                                           *)
(***************************************************************************)
CallReturns == \A t \in Tasks : pc[t] # "idle" ~> pc[t] = "idle"

(***************************************************************************)
(* The doc comment of jwks: "Fetch JWKS from a JWKS URI, with in-memory    *)
(* caching".  The keys a call returns come from the URI it asked for.      *)
(***************************************************************************)
KeysFromUri ==
  \A t \in Tasks : answer[t].kind = "keys" => answer[t].from = answer[t].asked
=============================================================================
