# A TLA+ verification of AuthKit

AuthKit is a Rust crate for the edge of an authentication service. It binds OAuth
`state` tokens to server sessions, turns away callbacks whose state is not bound to
their session, and has verifiers for WebAuthn, OIDC keys and TOTP codes. This
directory holds TLA+ models of those parts, the TLC configurations that check
them on small instances, and TLAPS proofs that the safety properties hold for every
instance.

Paths are relative to the repository's parent, as in `PROJECT.json`: the crate's
root is `src/`, its sources are in `src/src/`.

At this commit `webauthn.rs` and `oidc.rs` are not declared in `lib.rs`; `webauthn.rs`
calls the session store with more arguments than the trait has and reads `cred`
after dropping the guard it borrows from; `totp.rs` names
`SessionStoreError::Other`, and `lib.rs` re-exports a `TotpVerifier`, neither of
which exists. The models take each file as written and say where they had to
choose.

## Inventory

| Component | State | Operations | Interacts with | Hard part |
|---|---|---|---|---|
| `SessionStore` port (`domain/session_store.rs`, the trait) | what each token is bound to | `bind_state`, `verify_state`, `revoke_state` | called by the middleware, the application, WebAuthn | what callers may rely on under concurrency |
| `InMemorySessionStore` (same file) | map of entries with deadlines, ttl, ceiling, mutex and its poison flag | the same, plus eviction on bind and verify, `len`, `is_empty` | the wall clock | mutex on every path, deadline overflow panics under the lock, a clock that moves both ways, the ceiling |
| Callback parsing (`middleware/pkce_state_session.rs`) | none | `query_param`, `cookie_value`, `extract_session_id`, `extract_state_token` | - | duplicates, precedence, limits |
| Middleware `enforce_pkce_state_session` (same file) | the requests in progress | one decision per callback | the store (shared), the handler (`next.run`) | races of the decision with binds, revocations and expiry; a broken store |
| `WebAuthnVerifier` (`webauthn.rs`) | registry of credentials behind an RwLock, challenges in the session store | `generate_challenge`, `verify_registration`, `verify_authentication`, `list_credentials` | the session store (async) | steps split by awaits and by dropped guards; replay counters |
| `DiscoveryClient` (`oidc.rs`) | one cached key set with its fetch time | `discover`, `jwks`, `with_cache_ttl` | HTTP servers, several tasks | staleness, out-of-order stores, one slot for all URIs, silent servers |
| `TotpSecret` (`totp.rs`) | the secret, which never changes | `enrollment_uri`, `at`, `verify`, `verify_with_window`, `hotp`, `seconds_remaining`, conversions | the authenticator app, two clocks | escaping of names, window edges, ends of the counter's range, digits |
| Scorecard script, benches, fuzz target | - | - | - | not part of the program |

The properties that make them correct: the store's map is exactly the bindings
that stand, within the ceiling, and each method is atomic; a decision of the
middleware is right at some instant of its request, is always made, and lets nobody in
once the store is broken; a WebAuthn
counter is accepted once and a challenge serves one ceremony; a cached key set is
stale for a bounded time and every call returns; an authenticator app is enrolled for
what the server meant, and its codes are accepted within the window and nowhere else.
`PROJECT.json` lists the hazards, each with its line and the properties that would catch it.

## Modules

    StateBinding            what the port promises (abstract)
      ^ implemented by
    SessionStore            the in-memory store, step by step
      ^ extended by
    SessionStoreHistory     ... with a record of the bindings made
      ^ extended by
    PkceMiddleware          the middleware in front of that store
      + CallbackRequest     what it reads from a request
          ^ extended by
        CallbackAssembly    the requests a user agent can put together

    CredentialRegistry      what the credential registry promises (abstract)
      ^ implemented by
    WebAuthn                challenges, ceremonies and the registry

    Oidc                    discovery and the JWKS cache

    TotpEnrollment          the enrollment URI and the app that reads it
      ^ extended by
    Totp                    codes, windows and clocks

    SessionStoreProofs, PortRefinementProofs,
    CallbackRequestProofs, PkceMiddlewareProofs,
    WebAuthnProofs, OidcProofs, TotpProofs      theorems about each part
    SequenceFacts                               lemmas on sequences that they share
    MC*                                         instances for TLC

**SessionStore.** `map` is `inner`, with `NoEntry` for an absent key; `holder` and
`poisoned` are the mutex; `now` is what `Utc::now()` returns. A call goes through
`Invoke`, `Lock` or `LockPoisoned`, `EvictExpired` (bind and verify only), one body
action (`BindRefused`, `BindPanics`, `BindInserts`, `VerifyState`, `RevokeState`)
and `Return`. Eviction and body are separate steps because each reads the clock,
and `SetClock` can come between them. The rest of a critical section is one step:
no other thread can see inside it. `bind_state` computes its deadline before
`HashMap::insert` runs, so a panic leaves the map as the eviction left it.

**StateBinding** has no time and no mutex: a call is `busy` until the one step at
which it takes effect. A binding may lapse while some call that looks at the time is
busy; `bind_state` may break the adapter for good.

**SessionStoreHistory** adds `hist`, written beside the code's steps and never read
by them: the last successful bind of each token that no revoke has followed, the
clock reading its deadline was computed from, and whether some eviction has seen a
clock at or past that deadline.

**CallbackRequest** works on a query and on Cookie headers as sequences of parts, a
part being what `split_once('=')` makes of it. `Decode` stands for percent-decoding
and UTF-8 validation, `Size` for the length of a decoded token. **CallbackAssembly**
lets a user agent put requests together part by part and states what the middleware
must read from them.

**PkceMiddleware** gives each worker a request and a stage. `RejectState`,
`RejectSession`, `CallVerify`, `Allow`, `RejectMismatch` and `RejectStoreError` are
the arms of `enforce_pkce_state_session`, in the order of its early returns.
Workers are threads of the store, as are the application's threads, which make any
call at any time. `wasLive` and `wasDead` record whether the binding a request needs
has been in force, or not in force, since the request arrived.

**WebAuthn** splits the two ceremonies at the await on the store and where a guard of
the registry is dropped. `Verdict` is steps 1 to 3 of both. The store's contract is
the constant `Consuming`: TRUE is what the comments and the tests of `webauthn.rs`
expect (an unknown challenge is an error, a known one is removed), FALSE is what the
port in the repository does (`Ok(false)`, nothing removed). The public key is read
after the write lock is dropped, as written; a key never changes
(`ImplementsRegistry`), so reading it before would make no difference. In either
contract the store may fail (`ChallengeRefused`). `issued`, `spent` and `accepted` are
records: what each challenge was generated for, which challenges are used up, and
which authentications succeeded.

**CredentialRegistry** knows neither tasks nor challenges: a registration appends a
credential, an authentication claims a counter above the stored one for the user's
first credential of its id, and a claim is then accepted, once, or dropped, without
giving the counter back. The claims of `WebAuthn` are the authentications between
the update of the counter and the signature check.

**Oidc** has `discover` and `jwks` as independent calls of concurrent tasks, with the
errors of each; `jwks` may be asked for the `jwks_uri` of a document or any other. Absolute time
is left out: a key set carries its age since `fetched_at` and the time since its
publisher replaced it, both capped at `CacheTtl + Timeout`, beyond which no
comparison of the model can tell values apart. `Serve` (the server's answer) and
`Receive` (the stamp) are apart, since `fetched_at` is taken after the body arrives.

**TotpEnrollment** builds the URI as a sequence of symbols, a symbol being a byte or a
run of bytes that nothing splits, and percent-encodes names as `urlencoding` does.
`Unreserved`, `Hex` and `Decimal` are the symbols that are copied, the digits of every
other byte and the decimal forms of the numbers. The app is external: it cuts at the separators, takes the first parameter of each name
and decodes what it has cut out. (An app that decodes the label first and then looks
for the colon would be misled by a colon in an issuer's name, which the otpauth format
forbids.)

**Totp** has the server's clock, the authenticator's clock, what the app was enrolled
with and the code last read. The app computes codes with the period and the digits it
read from the URI. A clock may stand before the epoch, which `now_unix_secs` reads as
0. `Hmac` is a parameter; `MCTotp` gives a stand-in whose codes differ for the counters
of the instance, because a real collision of six-digit codes would be a true
exception to `CodeExpires`.

## Runs

| Run | Checks | Instance | Distinct states |
|---|---|---|---|
| `store` | `HTypeOK`, `MutexDiscipline`, `MapIsTheBindingsThatStand`, `WithinCapacity`, `VerifyIsExact`, `PoisonIsFinal`, `ImplementsPort`, `LockReleased` | 2 threads, 2 tokens, 2 sessions, ceiling 1, clock 0..2, ttl 1 | 615,198 |
| `request` | `SessionByPrecedence`, `FirstStateSettles` | every request of up to 3 parts and 2 Cookie headers | 230,860 |
| `middleware` | `ForwardedWasLive`, `MismatchWasDead` | 2 workers, 1 application thread, 4 requests | 212,976 (symmetry) |
| `callback_decided` | `CallbackDecided`, `FailsClosed` | 1 worker, 1 application thread | 11,336 |
| `webauthn` | `TypeOK`, `DuplicatesBounded`, `AcceptedOnce`, `ImplementsRegistry`, `ChallengeBacksOneCeremony` | 2 tasks, 2 users, 3 challenges, counters 0..2 | 175,194 (symmetry) |
| `oidc` | `TypeOK`, `BoundedStaleness`, `CallReturns` | 2 tasks, 2 JWKS URIs, ttl 2, timeout 1 | 175,733 |
| `totp` | `EnrollmentSurvives`, `DriftTolerated`, `CodeExpires`, `CountdownExact` | 6 names, period 3, window 1, times -3..14 | 186,948 |
| `is_empty`, `credential_unique`, `challenge_consumed`, `keys_from_uri`, `current_code` | one property each, violated | as the run of the same module | - |

Why the bounds are enough:

- Store: two threads are what a race at the mutex needs, a ceiling of one is reached
  by one token and tried by the other, and with `MaxTime` equal to the last clock
  value a bind at that value overflows, so poisoning happens next to every other
  behaviour. The clock has a value before, at and after every deadline. The safety
  properties are proved for all values.
- Request: three parts allow an undecodable or oversized first state before a good
  one, and two cookies of different rank in either order; two headers show that only
  the first counts. `CHECK_DEADLOCK FALSE`, because a full request cannot grow.
- Middleware: two requests for one token under two sessions, racing an application
  thread; the clock and the overflow as above. One worker is enough for
  `callback_decided`: the other thread breaks the store, before or after it has bound
  the callback's state, and the worker goes on serving callbacks.
- WebAuthn: two tasks overlap in every pair of steps; `MaxCredentials` stops new
  registrations once two are stored, which still lets two that are under way end;
  three challenges let one be issued after a replacement and an expiry, and are what
  a registration and two authentications with one counter need.
- OIDC: two tasks can have answers in flight at once and store them in either order;
  ages are capped exactly where `BoundedStaleness` compares them.
- TOTP: the times cover the whole range of a five-valued counter and a period before
  the epoch, so both ends of the range are met with every phase of both clocks. The
  names hold every separator of the URI, a percent sign that looks like an escape, a
  byte that is only escaped, and nothing.

Symmetry is used only where no liveness property is checked.

### Fairness

- Store: a thread inside the critical section keeps running (it contains no blocking
  call). Nothing is assumed about who gets the mutex: `std::sync::Mutex` promises no
  order.
- Middleware: a worker's own code runs to its next await. `CallbackDecided` says that
  a callback is decided *unless* others hold the mutex again and again for ever,
  which is all the mutex allows.
- OIDC: time passes, a task that is not waiting for the network runs, and a request
  that has reached the client's timeout ends. Servers owe nothing.

### Findings

Each is a run in which TLC refutes a statement of the repository.

- `is_empty`: on a poisoned store `len` is 0 and `is_empty` true whatever the map holds
  (`session_store.rs` 87, against the doc comment at line 90).
- `credential_unique`: the uniqueness scan and the push hold different locks; two
  registrations of one credential id can both succeed (`webauthn.rs` 353-376, against
  the comment at line 352). `DuplicatesBounded` shows how far it can go: no more
  copies than concurrent tasks.
- `challenge_consumed`: step 4 discards the answer of `verify_state` and consumes
  nothing (`webauthn.rs` 348-350, against the comment at line 346). This rests on the
  contract of the port that the file imports; with a store that consumes, as the
  `webauthn` run assumes, the challenge is single-use.
- `keys_from_uri`: the JWKS cache is one slot without its URI (`oidc.rs` 240, against
  the doc comment at line 234).
- `current_code`: `verify` always expects six digits (`totp.rs` 162, against the test
  `verify_accepts_current_code`, line 393, which uses eight).

One more disagreement needs no run to be seen. The example in the module comment
(`totp.rs` 21-22) passes 1 as the fifth argument of `enrollment_uri` and shows
`digits=6` and `counter=1` in the URI, and an `@` as it is. The fifth argument is the
number of digits, which the code writes as given, it emits no `counter`, and
`urlencoding` escapes the `@` (`totp.rs` 193-208). The model follows the code.

## Proofs

Every safety property that a passing run checks is a theorem for every value of the
constants. Three of the statements that a run refutes are proved in the part that is true
(`UniqueWithoutConcurrency`, `FetchedKeysFromUri`, `CurrentCodeOfSixDigits`), which says
what their counterexamples rest on. The assumptions are the ones named in the modules that declare the constants; TLC
evaluates them in every run of those modules.

### The store

`SessionStoreProofs`, for any sets of threads, tokens and sessions, any integer ttl, any
ceiling and any clock within the range of `DateTime`:

    TypeCorrect      HSpec => []HTypeOK
    MutualExclusion  HSpec => []MutexDiscipline
    MapCorrect       HSpec => []MapIsTheBindingsThatStand
    CapacityHolds    HSpec => []WithinCapacity
    VerifyExact      HSpec => VerifyIsExact
    PoisonFinal      HSpec => PoisonIsFinal

None of the invariants is inductive alone. A body step reads its arguments from
`call`, so the types need to know that a thread in the middle of a call has one
(`CallsInProgress`), and that a thread before its eviction is in a call that evicts.
The poison properties need that nobody is inside once the mutex is poisoned, which
is `MutexDiscipline`. These three are `Discipline`, proved first because nothing else
is needed for it. The map invariant is then preserved because only `EvictExpired`,
`BindInserts` and `RevokeState` write the map or the record, and they write both alike;
the ceiling because only `BindInserts` adds a key, at most one, and only when `Full`
is false. `Ceiling` carries along that the set of keys is finite, without which its
cardinality means nothing. `Inv` is the conjunction.

`PortRefinementProofs` proves `Refinement == HSpec => ImplementsPort`: under the
mapping in `SessionStore`, a bound token is one with an entry, and a call is busy from
its invocation to its last step. `EvictExpired` is a lapse, each body action is the
abstract method, `Lock` and `SetClock` are invisible. The proof uses `Inv`: that the
thread in the body has a well-typed call, and that the abstract register counts what
the map counts.

### Requests

`CallbackRequestProofs`, for any parameters and cookies and requests of any length
(`MaxParts` and `MaxHeaders` bound only TLC):

    PrecedenceHolds    Spec => []SessionByPrecedence
    FirstStateDecides  Spec => FirstStateSettles

The code's searches are minima of sets of positions. `FirstPosition` (in `SequenceFacts`)
says what such a minimum is; `CookieFound` applies it to one scan of the header, `AliasFound` to the four
names, and `PrecedenceHolds` puts the two orders together. Appending a part
leaves the first matching position where it was (`AppendKeepsFirst`). Assumed: `None` is
neither a word nor a query, and a cookie is a sequence of possibly padded words.

### The middleware

`PkceMiddlewareProofs`, for any workers among any threads and any requests:

    ForwardingJustified     MSpec => []ForwardedWasLive
    MismatchJustified       MSpec => []MismatchWasDead
    BrokenStoreFailsClosed  MSpec => FailsClosed

`StoreStep` shows that the composition takes only steps of the store, so `Inv` carries
over. The properties speak of the end of a request, while what decides it happens
inside the store's call. `Witnessed` therefore ties a worker's place
in the call, and the answer it has received, to the record of its request, and `Serving` says that a worker that waits for the store
is in the call of `verify_state` its request asked for. A step of another thread, or of the
clock, can only add to a record (`BystanderKeeps`).

`FailsClosed` is about all the future of a request, so it is not an invariant of `MInv`'s
kind: `MetBrokenStore(w)` holds when a request arrives at a broken store, every step keeps
it, and it excludes the two outcomes. It says that the worker, while it verifies, waits at
the mutex or has been told `Poisoned`; no step leads it inside because, by
`MutexDiscipline`, a broken store's mutex is free and can only be answered with
`LockPoisoned`. A request that was already past the mutex when the store broke is not
covered: its answer was given before the panic, and it may still be forwarded.

### WebAuthn

`WebAuthnProofs`, for any users, challenges and responses, any counter width and
finitely many concurrent tasks, with either contract of the store except where said:

    TypeCorrect              Spec => []TypeOK
    ReplayDefence            Spec => AcceptedOnce
    RefinesRegistry          Spec => ImplementsRegistry
    DuplicatesLimited        Spec => []DuplicatesBounded
    OneCeremonyPerChallenge  Consuming => (Spec => ChallengeBacksOneCeremony)
    UniqueWithoutConcurrency Cardinality(Tasks) = 1 => (Spec => []CredentialIdUnique)

The types need that a task inside a ceremony holds a response that was parsed, of the
operation whose steps it takes (`InCeremony`). For the replay defence, an accepted
counter must still be barred when the credential is looked up again, and a claim, which
stands between two critical sections, must be safe from another task:
`CountersUsedUp` says that every accepted or claimed counter is at most the one stored
with the user's first credential of that id, that a claim has not been accepted, and
that no two tasks have the same claim. It survives registrations because a push appends and so
never changes which credential is first. The refinement uses the same
invariant: without it two claims of one counter would be one abstract claim that is
accepted twice. `ChallengesTracked` says that a stored challenge was issued for the key it
is stored under and is not spent, so that a challenge, once spent, is never stored
again. `DuplicatesLimited` counts: every place at which an
id is stored is paid for by a task that is no longer about to push it (`PlacesPaid`);
a scan that finds nothing finds no place, so the tasks about to push are all there is.
With one task the bound is one, which is the uniqueness the code's comment promises.

### OIDC

`OidcProofs`, for any tasks, issuers and URIs, any ttl and any timeout:

    OidcTypeCorrect   Spec => []TypeOK
    StalenessBounded  Spec => []BoundedStaleness
    FetchedKeysFromUri  Spec => []FetchedFromUri

`Aging` is the strengthening: a key set on its way was still published when its request
was younger, and one that has arrived was still published at most a timeout before
`fetched_at`. The bound on what is served follows where the cache is found fresh. Ages are
capped, so the lemmas on `Older` show that the cap never hides a violation.
`FetchedFromUri` is the part of `KeysFromUri` that is true: keys that were not taken from
the cache come from the URI asked for, because a set on its way to a task stays of the
URI of that task (`OnItsWay`) whatever the others do.

### TOTP

`TotpProofs`, for any names over any alphabet, any period but 0, any window, any range of
the clocks and any `Hmac`:

    EnrollmentIsFaithful    Spec => []EnrollmentSurvives
    CountdownIsExact        Spec => []CountdownExact
    DriftIsTolerated        Digits = DEFAULT_DIGITS => (Spec => []DriftTolerated)
    CurrentCodeOfSixDigits  Digits = DEFAULT_DIGITS => (Spec => []CurrentCodeAccepted)
    CodesExpire             Spec => [](NoCollision => CodeExpires)

Enrollment is a statement about data: `urlencoding`, the app's cuts and its decoding, for
every name. The library's induction theorems take an operator and are out of the prover's
reach, so `SequenceFacts` proves induction for a *set* of numbers or sequences, by the least
number outside of the set, and with it what `FlattenSeq` computes when its
argument grows. The argument has three parts:

- *Decoding undoes encoding* (`EncodingRoundTrip`), by induction over the name. That
  `Decoded(urlencoding(s)) = s` alone is not inductive, since an escape cut short at the
  end would swallow what is appended. `Decodes` adds that the encoded text is `Whole`,
  every percent sign followed by its two digits, and with that what is appended does not
  change how the earlier symbols are read (`PiecesStay`).
- *Cutting finds the parts.* An encoded name is `Plain`, without separators
  (`EncodedIsPlain`), and a cut at separators gives back a plain text between two of them
  (`CutOut`). A parameter is read out of its own field if the text before is `Clear`
  of its name (`ParameterIs`); a field is clear of all names but its own.
- *The URI is made of such parts.* `LabelIs` and `ScanReadsBack` go through it field by
  field.

Assumed are what makes the encoding one: no separator and no percent sign is unreserved,
the digits of a byte are two unreserved symbols and differ from those of every other
byte, the decimal forms are unreserved and differ, and a name is made of symbols that
`urlencoding` knows.

The theorems on codes rest on lemmas about division (`StepOf`, `NearTimesNearSteps`,
`FarTimesFarSteps`), on the invariant that the code last read is the one the app computed
for that time, and on `EnrollmentIsFaithful`: an app that misread the period would compute
other codes. Each condition is one the code really has. With other than six digits
`DriftTolerated` and `CurrentCodeAccepted` are false, which is the finding `current_code`.
And `hotp` may give two counters one code: `NoCollision` says that the code read is not,
by chance, the code of a step of the window that is not its own.

### Only model-checked

- Liveness (`LockReleased`, `CallbackDecided`, `CallReturns`): needs fairness and
  ENABLED, beyond the prover.
- The five refuted statements, as the repository makes them: TLC's counterexamples stand
  for themselves.

## Not modelled

- Store: memory exhaustion and allocation failure.
- Middleware: the JSON body of the 401, log events beyond their reason.
- WebAuthn: `list_credentials` (a read), labels and creation times, the configured TTL
  as a number (a challenge may expire at any time), hashes and signatures beyond
  equality and the emptiness check of the placeholder.
- OIDC: the text of the discovery URL, the contents of keys, `by_kid` and `lookup`, the
  builds without the feature (every call is an error), and `with_cache_ttl`, which is
  for a client that nobody shares yet (`Arc::make_mut`; `CacheTtl` stands for it).
- TOTP: Base32 and base64 conversion of the secret, which external crates do and which
  changes no state; SHA-256 and SHA-512 codes, which nothing but `hotp`'s direct
  callers can ask for; a period of 0, which panics; ten digits, where the modulus
  overflows.
- The crate root and module files, which only declare; the scorecard script, the
  benches and the fuzz target, which are not part of the program.

What is left of `src/src/` is tests, documentation, `Debug` and `Display`
implementations and the items above, so the model of the program is complete at this
level of detail.

## Plan

Done: the models of all parts, the abstract port and the abstract credential registry
with their refinements, and the proofs above. What could still be stated is the middleware
in front of any store that implements `StateBinding`, instead of the in-memory one: its two
safety properties would then hold for a store with a database behind it. The port has no
time, so `wasLive` and `wasDead` would have to be told from the abstract register at the
step at which a call takes effect.
