------------------------------- MODULE WebAuthn -------------------------------
(***************************************************************************)
(* WebAuthnVerifier (src/src/webauthn.rs): challenges, the registration    *)
(* and authentication ceremonies, and the credential registry.             *)
(*                                                                         *)
(* Tasks run verify_registration and verify_authentication concurrently.   *)
(* Each is split where another task can run in between: at the await on    *)
(* the session store, and where a guard of the registry's RwLock is        *)
(* dropped (between the uniqueness scan and the push, and between the      *)
(* counter update and the signature check).                                *)
(*                                                                         *)
(* The session store is called through a five-argument async port that is  *)
(* not in the repository.  Its two possible contracts are told apart by    *)
(* Consuming.                                                              *)
(***************************************************************************)
EXTENDS Integers, Sequences, FiniteSets, SequencesExt

CONSTANTS
  Tasks,           \* concurrent callers
  Users,
  Challenges,      \* what generate_challenge can draw; also a bound on how often it can
  Responses,       \* the responses that clients may submit
  rp_id,           \* the configured relying party; stands for its SHA-256 too
  allowed_origins,
  MaxSignCount,    \* u32::MAX
  MaxCredentials,  \* bound: no registration starts once so many are stored
  Consuming,       \* verify_state fails on an unknown challenge and removes a known one
  None

Operations == {"create", "get"}

ASSUME ConsumingAssumption == Consuming \in BOOLEAN
ASSUME NoneAssumption ==
  None \notin Challenges /\ None \notin Responses /\ None \notin Operations \X Users
ASSUME SizesAssumption == MaxSignCount \in Nat /\ IsFiniteSet(Tasks)

(***************************************************************************)
(* AuthenticatorDataFlags::from_byte and to_byte: six of the eight bits.   *)
(***************************************************************************)
Weight == [up |-> 1, uv |-> 4, be |-> 8, bs |-> 16, at |-> 64, ed |-> 128]

from_byte(b) == [f \in DOMAIN Weight |-> (b \div Weight[f]) % 2 = 1]

to_byte(flags) == FoldSet(LAMBDA f, b : b + Weight[f], 0, {f \in DOMAIN Weight : flags[f]})

(***************************************************************************)
(* AuthenticatorData::parse of a blob whose first 37 bytes carry the hash, *)
(* the flags and the counter; a shorter blob is an error.                  *)
(***************************************************************************)
parse(blob) ==
  IF blob.len < 37 THEN None
  ELSE [rp_id_hash |-> blob.rp_id_hash, flags |-> from_byte(blob.flags),
        sign_count |-> blob.sign_count]

\* A response's user is known, and its counter, if it has one, is a u32.
ASSUME ResponsesAssumption ==
  \A r \in Responses :
    /\ r.op \in Operations
    /\ r.user \in Users
    /\ r.challenge # None
    /\ r.data.len \in Nat
    /\ r.data.len >= 37 => r.data.sign_count \in 0..MaxSignCount

VARIABLES
  bound,        \* the challenge stored under each (operation, user)
  credentials,  \* user_id -> Vec<WebAuthnCredential>
  pc,           \* where each task is
  response,     \* the response it verifies
  result,       \* what its last call returned
  issued,       \* record: the (operation, user) each challenge was generated for
  spent,        \* record: the challenges that were consumed, replaced or expired
  accepted      \* record: the (user, credential, counter) authentications that succeeded

challengeVars == <<bound, issued, spent>>
taskVars == <<pc, response, result>>
vars == <<challengeVars, taskVars, credentials, accepted>>

(***************************************************************************)
(* WebAuthnCredential, without its label and created_at.                   *)
(***************************************************************************)
Credential ==
  [credential_id : {r.credential_id : r \in Responses},
   public_key : {r.public_key : r \in Responses},
   sign_count : 0..MaxSignCount]

Errors == {"ChallengeNotFound", "RpIdHashMismatch", "UserPresenceNotSet",
           "UserVerificationNotSet", "CredentialAlreadyExists", "CredentialNotFound",
           "SessionStore", "ClientDataJson"}

TypeOK ==
  /\ bound \in [Operations \X Users -> Challenges \cup {None}]
  /\ issued \in [Challenges -> (Operations \X Users) \cup {None}]
  /\ spent \subseteq Challenges
  /\ credentials \in [Users -> Seq(Credential)]
  /\ pc \in [Tasks -> {"idle", "challenge", "scan", "push", "lookup", "signature"}]
  /\ response \in [Tasks -> Responses \cup {None}]
  /\ result \in [Tasks -> {"none", "Ok"} \cup Errors]

-----------------------------------------------------------------------------
Init ==
  /\ bound = [k \in Operations \X Users |-> None]
  /\ issued = [c \in Challenges |-> None]
  /\ spent = {}
  /\ credentials = [u \in Users |-> << >>]
  /\ pc = [t \in Tasks |-> "idle"]
  /\ response = [t \in Tasks |-> None]
  /\ result = [t \in Tasks |-> "none"]
  /\ accepted = {}

(***************************************************************************)
(* generate_challenge: 32 random bytes, taken never to repeat, replace the *)
(* challenge stored for this operation and user.  If the store fails there *)
(* is no challenge and nothing has changed.                                *)
(***************************************************************************)
generate_challenge(op, u, c) ==
  /\ issued[c] = None
  /\ issued' = [issued EXCEPT ![c] = <<op, u>>]
  /\ bound' = [bound EXCEPT ![<<op, u>>] = c]
  /\ spent' = spent \cup ({bound[<<op, u>>]} \ {None})
  /\ UNCHANGED <<taskVars, credentials, accepted>>

(***************************************************************************)
(* A stored challenge goes out of the store.                               *)
(***************************************************************************)
Spend(key) ==
  /\ bound' = [bound EXCEPT ![key] = None]
  /\ spent' = spent \cup {bound[key]}
  /\ UNCHANGED issued

(***************************************************************************)
(* External: challenge_ttl_secs have passed and the store has dropped it.  *)
(***************************************************************************)
Expire(op, u) ==
  /\ bound[<<op, u>>] # None
  /\ Spend(<<op, u>>)
  /\ UNCHANGED <<taskVars, credentials, accepted>>

Stored == FoldSet(LAMBDA u, n : n + Len(credentials[u]), 0, Users)

(***************************************************************************)
(* The call returns.                                                       *)
(***************************************************************************)
Finish(t, r) ==
  /\ pc' = [pc EXCEPT ![t] = "idle"]
  /\ response' = [response EXCEPT ![t] = None]
  /\ result' = [result EXCEPT ![t] = r]

Proceed(t, step) ==
  /\ pc' = [pc EXCEPT ![t] = step]
  /\ UNCHANGED <<response, result>>

-----------------------------------------------------------------------------
(***************************************************************************)
(* Steps 1 to 3 of both ceremonies, which touch no shared state: the first *)
(* check that fails names the error.  Only registration wants UV.          *)
(***************************************************************************)
Verdict(r) ==
  LET data == parse(r.data) IN
  IF data.rp_id_hash # rp_id THEN "RpIdHashMismatch"
  ELSE IF ~data.flags.up THEN "UserPresenceNotSet"
  ELSE IF r.op = "create" /\ ~data.flags.uv THEN "UserVerificationNotSet"
  ELSE IF r.client = None THEN "ClientDataJson"
  ELSE IF \/ r.client.ty # r.op
          \/ r.client.challenge # r.challenge
          \/ r.client.origin \notin allowed_origins THEN "ChallengeNotFound"
  ELSE "Ok"

(***************************************************************************)
(* A task calls verify_registration or verify_authentication with a        *)
(* client's response that could be parsed.                                 *)
(***************************************************************************)
Submit(t, r) ==
  /\ pc[t] = "idle"
  /\ parse(r.data) # None
  /\ r.op = "create" => Stored < MaxCredentials
  /\ IF Verdict(r) = "Ok"
       THEN /\ pc' = [pc EXCEPT ![t] = "challenge"]
            /\ response' = [response EXCEPT ![t] = r]
            /\ result' = [result EXCEPT ![t] = "none"]
       ELSE Finish(t, Verdict(r))
  /\ UNCHANGED <<challengeVars, credentials, accepted>>

\* Mutant of ChallengeKey: one key for both operations.
ChallengeKeyOfUser(r) == <<"get", r.user>>

(***************************************************************************)
(* The store's key for a challenge: the operation, the relying party (one  *)
(* per verifier) and the user.                                             *)
(***************************************************************************)
ChallengeKey(r) == <<r.op, r.user>>

(***************************************************************************)
(* Step 4: verify_state(..).await?  The ? passes on an error of the store  *)
(* and throws any other answer away.                                       *)
(***************************************************************************)
VerifyChallenge(t) ==
  LET r == response[t] IN
  /\ pc[t] = "challenge"
  /\ Consuming => bound[ChallengeKey(r)] = r.challenge
  /\ IF Consuming THEN Spend(ChallengeKey(r)) ELSE UNCHANGED challengeVars
  /\ Proceed(t, IF r.op = "create" THEN "scan" ELSE "lookup")
  /\ UNCHANGED <<credentials, accepted>>

(***************************************************************************)
(* The store answers with an error: it does not know the challenge, or it  *)
(* has failed, which it may do whatever it knows.                          *)
(***************************************************************************)
ChallengeRefused(t) ==
  /\ pc[t] = "challenge"
  /\ Finish(t, "SessionStore")
  /\ UNCHANGED <<challengeVars, credentials, accepted>>

Has(u, id) == \E i \in DOMAIN credentials[u] : credentials[u][i].credential_id = id

\* Mutant of Taken: only the user's own credentials are searched.
TakenByUser(u, id) == Has(u, id)

Taken(u, id) == \E v \in Users : Has(v, id)

(***************************************************************************)
(* Step 5 of registration, under the read lock: is the id taken by anyone? *)
(***************************************************************************)
Scan(t) ==
  /\ pc[t] = "scan"
  /\ IF Taken(response[t].user, response[t].credential_id)
       THEN Finish(t, "CredentialAlreadyExists")
       ELSE Proceed(t, "push")
  /\ UNCHANGED <<challengeVars, credentials, accepted>>

(***************************************************************************)
(* Step 6, under the write lock, without looking again.                    *)
(***************************************************************************)
Push(t) ==
  LET r == response[t] IN
  /\ pc[t] = "push"
  /\ credentials' = [credentials EXCEPT ![r.user] = Append(@,
       [credential_id |-> r.credential_id, public_key |-> r.public_key,
        sign_count |-> parse(r.data).sign_count])]
  /\ Finish(t, "Ok")
  /\ UNCHANGED <<challengeVars, accepted>>

-----------------------------------------------------------------------------
\* The user's first credential with the id.
Found(u, id) == SelectInSeq(credentials[u], LAMBDA c : c.credential_id = id)

\* Mutant of Exceeds: an equal counter is let through.
ExceedsOrEquals(n, stored) == n >= stored

\* Mutant of Exceeds: the counter is not compared.
ExceedsAny(n, stored) == TRUE

\* The replay defence.
Exceeds(n, stored) == n > stored

(***************************************************************************)
(* Step 5 of authentication, under the write lock: the stored counter must *)
(* be below the response's and becomes it.                                 *)
(***************************************************************************)
LookupFails(t) ==
  LET r == response[t]
      i == Found(r.user, r.credential_id)
  IN
  /\ pc[t] = "lookup"
  /\ i # 0 => ~Exceeds(parse(r.data).sign_count, credentials[r.user][i].sign_count)
  /\ Finish(t, "CredentialNotFound")
  /\ UNCHANGED <<challengeVars, credentials, accepted>>

\* Mutant of Lookup: the next counter expected is kept, which has no room in a u32.
LookupKeepsNext(t) ==
  LET r == response[t]
      i == Found(r.user, r.credential_id)
  IN
  /\ pc[t] = "lookup"
  /\ i # 0
  /\ Exceeds(parse(r.data).sign_count, credentials[r.user][i].sign_count)
  /\ credentials' = [credentials EXCEPT ![r.user][i].sign_count = parse(r.data).sign_count + 1]
  /\ Proceed(t, "signature")
  /\ UNCHANGED <<challengeVars, accepted>>

Lookup(t) ==
  LET r == response[t]
      i == Found(r.user, r.credential_id)
  IN
  /\ pc[t] = "lookup"
  /\ i # 0
  /\ Exceeds(parse(r.data).sign_count, credentials[r.user][i].sign_count)
  /\ credentials' = [credentials EXCEPT ![r.user][i].sign_count = parse(r.data).sign_count]
  /\ Proceed(t, "signature")
  /\ UNCHANGED <<challengeVars, accepted>>

(***************************************************************************)
(* verify_signature, the placeholder: the stored key is not empty.         *)
(***************************************************************************)
verify_signature(public_key) == public_key # ""

(***************************************************************************)
(* Step 6, after the lock is dropped.                                      *)
(***************************************************************************)
Authentication(r) == <<r.user, r.credential_id, parse(r.data).sign_count>>

VerifySignature(t) ==
  LET r == response[t]
      ok == verify_signature(credentials[r.user][Found(r.user, r.credential_id)].public_key)
  IN
  /\ pc[t] = "signature"
  /\ Finish(t, IF ok THEN "Ok" ELSE "CredentialNotFound")
  /\ accepted' = IF ok THEN accepted \cup {Authentication(r)} ELSE accepted
  /\ UNCHANGED <<challengeVars, credentials>>

Next ==
  \/ \E op \in Operations, u \in Users :
       \/ \E c \in Challenges : generate_challenge(op, u, c)
       \/ Expire(op, u)
  \/ \E t \in Tasks :
       \/ \E r \in Responses : Submit(t, r)
       \/ VerifyChallenge(t)
       \/ ChallengeRefused(t)
       \/ Scan(t)
       \/ Push(t)
       \/ LookupFails(t)
       \/ Lookup(t)
       \/ VerifySignature(t)

Spec == Init /\ [][Next]_vars

-----------------------------------------------------------------------------
(***************************************************************************)
(* Replay defence: no two successful authentications present the same      *)
(* counter for the same credential of a user, however the tasks that check *)
(* and advance the counter interleave.                                     *)
(***************************************************************************)
AcceptedOnce ==
  [][\A t \in Tasks :
       (pc[t] = "signature" /\ result'[t] = "Ok") => Authentication(response[t]) \notin accepted]_vars

(***************************************************************************)
(* The verifier implements the registry that CredentialRegistry promises.  *)
(* The claims are the authentications between the update of the counter    *)
(* and the signature check; one that fails there has used its counter up,  *)
(* and nobody else's claim is lost or settled with it.                     *)
(***************************************************************************)
Registry == INSTANCE CredentialRegistry WITH
  claims <- {Authentication(response[t]) : t \in {t \in Tasks : pc[t] = "signature"}}

ImplementsRegistry == Registry!Spec

(***************************************************************************)
(* With a store that consumes what it verifies, a challenge lets one       *)
(* ceremony past step 4, of the operation and the user it was generated    *)
(* for, and none once a later challenge has replaced it or its time is up, *)
(* in whichever windows the user's ceremonies run.                         *)
(***************************************************************************)
ChallengeBacksOneCeremony ==
  [][\A t \in Tasks :
       (pc[t] = "challenge" /\ pc'[t] \in {"scan", "lookup"}) =>
         /\ response[t].challenge \notin spent
         /\ issued[response[t].challenge] = <<response[t].op, response[t].user>>]_vars

(***************************************************************************)
(* The places a credential id is stored at, over all users.                *)
(***************************************************************************)
Places(id) ==
  {p \in Users \X (1..Stored) :
     p[2] \in DOMAIN credentials[p[1]] /\ credentials[p[1]][p[2]].credential_id = id}

(***************************************************************************)
(* The scan and the push are not one step, so an id can be stored more     *)
(* than once, but never more often than there are tasks: what is already   *)
(* stored keeps every later scan from getting through.                     *)
(***************************************************************************)
DuplicatesBounded ==
  \A r \in Responses : Cardinality(Places(r.credential_id)) <= Cardinality(Tasks)

(***************************************************************************)
(* The comment on step 5 of verify_registration: "Verify credential_id is  *)
(* not already registered (globally)"; and step e of the module's doc:     *)
(* "Verifies the credential ID is unique (not previously registered)".     *)
(***************************************************************************)
CredentialIdUnique ==
  \A r \in Responses : Cardinality(Places(r.credential_id)) <= 1

(***************************************************************************)
(* The comment on step 4 of both ceremonies: "Verify the challenge exists  *)
(* in the session store and consume it".  Past that step the challenge is  *)
(* one that was generated, and it is no longer stored.                     *)
(***************************************************************************)
ChallengeExistedAndIsConsumed ==
  \A t \in Tasks :
    pc[t] \in {"scan", "push", "lookup", "signature"} =>
      /\ issued[response[t].challenge] # None
      /\ bound[ChallengeKey(response[t])] # response[t].challenge
=============================================================================
