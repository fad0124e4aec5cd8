---------------------------- MODULE WebAuthnProofs ----------------------------
(***************************************************************************)
(* Proofs about the WebAuthn verifier, for any number of tasks, users,     *)
(* challenges and responses and any width of the signature counter.        *)
(***************************************************************************)
EXTENDS WebAuthn, SequenceFacts, FiniteSetTheorems, TLAPS

USE DEF vars, challengeVars, taskVars

(***************************************************************************)
(* i is the place of the user's first credential with the id.              *)
(***************************************************************************)
FirstAt(u, id, i) ==
  /\ i \in DOMAIN credentials[u]
  /\ credentials[u][i].credential_id = id
  /\ \A j \in 1..(i - 1) : credentials[u][j].credential_id # id

(***************************************************************************)
(* What the search of step 5 of verify_authentication finds: the first     *)
(* credential with the id, or nothing because there is none.               *)
(***************************************************************************)
LEMMA FoundIsFirst ==
  ASSUME TypeOK, NEW u \in Users, NEW id
  PROVE  /\ Found(u, id) # 0 => FirstAt(u, id, Found(u, id))
         /\ Found(u, id) = 0 => ~Has(u, id)
<1> DEFINE s == credentials[u]
           I == {i \in 1..Len(s) : s[i].credential_id = id}
<1>1. s \in Seq(Credential) /\ DOMAIN s = 1..Len(s) /\ Len(s) \in Nat
  BY DEF TypeOK
<1>2. Found(u, id) = IF I # {} THEN Min(I) ELSE 0
  BY DEF Found, SelectInSeq
<1>3. I \in SUBSET (1..Len(s))
  OBVIOUS
<1> DEFINE i == Found(u, id)
<1>4. (i = 0 <=> I = {}) /\ (I # {} => i \in I) /\ \A j \in I : i <= j
  <2> HIDE DEF s, I
  <2> QED
    BY <1>1, <1>2, <1>3, FirstPosition
<1> HIDE DEF i
<1>5. CASE I = {}
  BY <1>1, <1>4, <1>5 DEF Has, i
<1>6. CASE I # {}
  <2>1. i \in 1..Len(s) /\ s[i].credential_id = id
    BY <1>4, <1>6
  <2>2. \A j \in 1..(i - 1) : j \in 1..Len(s) /\ j \notin I
    BY <1>1, <1>4, <2>1
  <2>3. FirstAt(u, id, i)
    BY <1>1, <2>1, <2>2 DEF FirstAt
  <2> QED
    BY <2>1, <2>3 DEF i
<1> QED
  BY <1>5, <1>6

(***************************************************************************)
(* There is at most one first credential with an id.                       *)
(***************************************************************************)
LEMMA FirstIsUnique ==
  ASSUME TypeOK, NEW u \in Users, NEW id, NEW i, NEW j, FirstAt(u, id, i), FirstAt(u, id, j)
  PROVE  i = j
<1>1. i \in 1..Len(credentials[u]) /\ j \in 1..Len(credentials[u]) /\ Len(credentials[u]) \in Nat
  BY DEF FirstAt, TypeOK
<1>2. ~(i < j) /\ ~(j < i)
  BY <1>1 DEF FirstAt
<1> QED
  BY <1>1, <1>2

(***************************************************************************)
(* The counter that AuthenticatorData::parse returns is a u32.             *)
(***************************************************************************)
LEMMA ParsedCounter ==
  ASSUME NEW r \in Responses, parse(r.data) # None
  PROVE  parse(r.data).sign_count \in 0..MaxSignCount
<1>1. ~(r.data.len < 37)
  BY DEF parse
<1>2. r.data.len >= 37
  BY <1>1, ResponsesAssumption
<1>3. r.data.sign_count \in 0..MaxSignCount
  BY <1>2, ResponsesAssumption
<1> QED
  BY <1>1, <1>3 DEF parse

-----------------------------------------------------------------------------
(***************************************************************************)
(* A task inside a ceremony has a response that could be parsed, of the    *)
(* operation whose steps it takes.                                         *)
(***************************************************************************)
InCeremony ==
  \A t \in Tasks :
    /\ pc[t] # "idle" => response[t] \in Responses /\ parse(response[t].data) # None
    /\ pc[t] \in {"scan", "push"} => response[t].op = "create"
    /\ pc[t] \in {"lookup", "signature"} => response[t].op = "get"

Typed == TypeOK /\ InCeremony

(***************************************************************************)
(* Every step of the verifier, of its store and of its callers keeps the   *)
(* types and the ceremonies in progress.                                   *)
(***************************************************************************)
LEMMA TypedStep == Typed /\ [Next]_vars => Typed'
<1> SUFFICES ASSUME Typed, [Next]_vars
             PROVE  Typed'
  OBVIOUS
<1> USE DEF Typed, TypeOK, InCeremony, Errors
<1>1. ASSUME NEW op \in Operations, NEW u \in Users, NEW c \in Challenges,
             generate_challenge(op, u, c)
      PROVE  Typed'
  BY <1>1 DEF generate_challenge
<1>2. ASSUME NEW op \in Operations, NEW u \in Users, Expire(op, u)
      PROVE  Typed'
  BY <1>2 DEF Expire, Spend
<1>3. ASSUME NEW t \in Tasks, NEW r \in Responses, Submit(t, r)
      PROVE  Typed'
  <2>1. Verdict(r) \in {"Ok"} \cup Errors
    BY DEF Verdict
  <2>2. CASE Verdict(r) = "Ok"
    BY <1>3, <2>2 DEF Submit
  <2>3. CASE Verdict(r) # "Ok"
    <3>1. Finish(t, Verdict(r))
      BY <1>3, <2>3 DEF Submit
    <3>2. result' \in [Tasks -> {"none", "Ok"} \cup Errors]
      BY <2>1, <3>1, Zenon DEF Finish
    <3> QED
      BY <1>3, <3>1, <3>2 DEF Submit, Finish
  <2> QED
    BY <2>2, <2>3
<1>4. ASSUME NEW t \in Tasks, VerifyChallenge(t)
      PROVE  Typed'
  <2>1. ChallengeKey(response[t]) \in Operations \X Users /\ response[t].challenge # None
    BY <1>4, ResponsesAssumption DEF VerifyChallenge, ChallengeKey
  <2>2. bound' \in [Operations \X Users -> Challenges \cup {None}]
    BY <1>4 DEF VerifyChallenge, Spend
  <2>3. spent' \subseteq Challenges
    BY <1>4, <2>1, ConsumingAssumption DEF VerifyChallenge, Spend
  <2>4. response[t].op \in Operations
    BY <1>4, ResponsesAssumption DEF VerifyChallenge
  <2> QED
    BY <1>4, <2>2, <2>3, <2>4 DEF VerifyChallenge, Spend, Proceed, Operations
<1>5. ASSUME NEW t \in Tasks, ChallengeRefused(t)
      PROVE  Typed'
  BY <1>5 DEF ChallengeRefused, Finish
<1>6. ASSUME NEW t \in Tasks, Scan(t)
      PROVE  Typed'
  BY <1>6 DEF Scan, Finish, Proceed
<1>7. ASSUME NEW t \in Tasks, Push(t)
      PROVE  Typed'
  <2>1. response[t] \in Responses /\ response[t].user \in Users
    BY <1>7, ResponsesAssumption DEF Push
  <2>2. parse(response[t].data).sign_count \in 0..MaxSignCount
    BY <1>7, <2>1, ParsedCounter DEF Push
  <2> DEFINE c == [credential_id |-> response[t].credential_id,
                   public_key |-> response[t].public_key,
                   sign_count |-> parse(response[t].data).sign_count]
  <2>3. c \in Credential
    BY <2>1, <2>2 DEF Credential
  <2>4. credentials' = [credentials EXCEPT ![response[t].user] = Append(@, c)]
    BY <1>7 DEF Push
  <2> HIDE DEF c
  <2>5. credentials' \in [Users -> Seq(Credential)]
    BY <2>1, <2>3, <2>4
  <2> QED
    BY <1>7, <2>5 DEF Push, Finish
<1>8. ASSUME NEW t \in Tasks, LookupFails(t)
      PROVE  Typed'
  BY <1>8 DEF LookupFails, Finish
<1>9. ASSUME NEW t \in Tasks, Lookup(t)
      PROVE  Typed'
  <2> DEFINE r == response[t]
             i == Found(r.user, r.credential_id)
             n == parse(r.data).sign_count
  <2>1. r \in Responses /\ r.user \in Users /\ n \in 0..MaxSignCount
    BY <1>9, ResponsesAssumption, ParsedCounter DEF Lookup
  <2>2. i \in DOMAIN credentials[r.user]
    BY <1>9, <2>1, FoundIsFirst DEF Lookup, FirstAt
  <2>3. credentials' = [credentials EXCEPT ![r.user][i].sign_count = n]
    BY <1>9 DEF Lookup
  <2> HIDE DEF r, i, n
  <2>4. [credentials[r.user][i] EXCEPT !.sign_count = n] \in Credential
    <3>1. credentials[r.user][i] \in Credential
      BY <2>1, <2>2
    <3> QED
      BY <2>1, <3>1 DEF Credential
  <2>5. credentials' \in [Users -> Seq(Credential)]
    BY <2>1, <2>2, <2>3, <2>4
  <2> QED
    BY <1>9, <2>5 DEF Lookup, Proceed
<1>10. ASSUME NEW t \in Tasks, VerifySignature(t)
       PROVE  Typed'
  BY <1>10 DEF VerifySignature, Finish
<1>11. CASE UNCHANGED vars
  BY <1>11
<1> QED
  BY <1>1, <1>2, <1>3, <1>4, <1>5, <1>6, <1>7, <1>8, <1>9, <1>10, <1>11 DEF Next

(***************************************************************************)
(* The types hold in every reachable state.                                *)
(***************************************************************************)
LEMMA TypedHolds == Spec => []Typed
<1>1. Init => Typed
  BY DEF Init, Typed, TypeOK, InCeremony
<1> QED
  BY <1>1, TypedStep, PTL DEF Spec

(***************************************************************************)
(* Type correctness of the verifier: above all, no counter that is stored  *)
(* is outside of u32 and no challenge leaves the store that was not in it. *)
(***************************************************************************)
THEOREM TypeCorrect == Spec => []TypeOK
  BY TypedHolds, PTL DEF Typed

-----------------------------------------------------------------------------
(***************************************************************************)
(* The claim of a task that waits to check its signature.                  *)
(***************************************************************************)
Claiming(t) == pc[t] = "signature"

Claimed(t) == Authentication(response[t])

(***************************************************************************)
(* The stored counter of the credential has reached the one presented, so  *)
(* the counter can be presented no more.                                   *)
(***************************************************************************)
UsedUp(a) ==
  \E i \in DOMAIN credentials[a[1]] :
    FirstAt(a[1], a[2], i) /\ a[3] <= credentials[a[1]][i].sign_count

(***************************************************************************)
(* The inductive invariant of the replay defence: what was accepted and    *)
(* what is claimed is used up, and a claim is nobody else's and was not    *)
(* accepted before.                                                        *)
(***************************************************************************)
CountersUsedUp ==
  /\ \A a \in accepted : a[1] \in Users /\ a[3] \in Nat /\ UsedUp(a)
  /\ \A t \in Tasks : Claiming(t) => UsedUp(Claimed(t)) /\ Claimed(t) \notin accepted
  /\ \A t, s \in Tasks : Claiming(t) /\ Claiming(s) /\ Claimed(t) = Claimed(s) => t = s

(***************************************************************************)
(* The fields of a claim.                                                  *)
(***************************************************************************)
LEMMA ClaimFields ==
  ASSUME Typed, NEW t \in Tasks, pc[t] \in {"lookup", "signature"}
  PROVE  /\ response[t] \in Responses
         /\ Claimed(t)[1] = response[t].user
         /\ Claimed(t)[2] = response[t].credential_id
         /\ Claimed(t)[3] = parse(response[t].data).sign_count
         /\ response[t].user \in Users
         /\ parse(response[t].data).sign_count \in 0..MaxSignCount
<1>1. response[t] \in Responses /\ parse(response[t].data) # None
  BY DEF Typed, InCeremony
<1> QED
  BY <1>1, ParsedCounter, ResponsesAssumption DEF Claimed, Authentication

(***************************************************************************)
(* Credentials are added at the end, keep their ids, and their counters    *)
(* never fall.                                                             *)
(***************************************************************************)
Grows ==
  \A u \in Users :
    /\ DOMAIN credentials[u] \subseteq DOMAIN credentials'[u]
    /\ \A i \in DOMAIN credentials[u] :
         /\ credentials'[u][i].credential_id = credentials[u][i].credential_id
         /\ credentials'[u][i].sign_count >= credentials[u][i].sign_count

(***************************************************************************)
(* Step 6 of registration appends a credential.                            *)
(***************************************************************************)
LEMMA PushGrows ==
  ASSUME Typed, NEW t \in Tasks, Push(t)
  PROVE  Grows
<1> DEFINE r == response[t]
           c == [credential_id |-> r.credential_id, public_key |-> r.public_key,
                 sign_count |-> parse(r.data).sign_count]
<1>1. r.user \in Users
  BY ResponsesAssumption DEF Typed, InCeremony, Push
<1>2. credentials' = [credentials EXCEPT ![r.user] = Append(@, c)]
  BY DEF Push
<1> HIDE DEF r, c
<1>3. ASSUME NEW u \in Users
      PROVE  credentials[u] \in Seq(Credential)
  BY DEF Typed, TypeOK
<1>4. ASSUME NEW u \in Users, NEW i \in DOMAIN credentials[u]
      PROVE  /\ credentials[u][i].sign_count \in Int
             /\ i \in DOMAIN credentials'[u]
             /\ credentials'[u][i] = credentials[u][i]
  <2>1. credentials[u][i] \in Credential
    BY <1>3
  <2>2. credentials[u][i].sign_count \in Int
    BY <2>1, SizesAssumption DEF Credential
  <2>3. CASE u = r.user
    <3>1. credentials'[u] = Append(credentials[u], c)
      BY <1>2, <2>3 DEF Typed, TypeOK
    <3>2. i \in 1..Len(credentials[u]) /\ Len(credentials[u]) \in Nat
      BY <1>3
    <3> QED
      BY <1>3, <2>2, <3>1, <3>2
  <2>4. CASE u # r.user
    BY <1>2, <2>2, <2>4 DEF Typed, TypeOK
  <2> QED
    BY <2>3, <2>4
<1> QED
  BY <1>4 DEF Grows

(***************************************************************************)
(* Step 5 of authentication raises the counter of one credential, the      *)
(* first with its id, to the one that is claimed.                          *)
(***************************************************************************)
LEMMA LookupRaises ==
  ASSUME Typed, NEW t \in Tasks, Lookup(t)
  PROVE  LET u == response[t].user
             id == response[t].credential_id
             n == parse(response[t].data).sign_count
         IN  \E i \in DOMAIN credentials[u] :
               /\ FirstAt(u, id, i)
               /\ credentials[u][i].sign_count \in Int
               /\ credentials[u][i].sign_count < n
               /\ credentials' = [credentials EXCEPT ![u][i].sign_count = n]
               /\ credentials'[u][i].sign_count = n
               /\ Grows
<1> DEFINE r == response[t]
           u == r.user
           id == r.credential_id
           n == parse(r.data).sign_count
           i == Found(u, id)
<1>1. u \in Users /\ n \in 0..MaxSignCount
  BY ClaimFields DEF Lookup
<1>2. FirstAt(u, id, i)
  BY <1>1, FoundIsFirst DEF Lookup, Typed
<1>3. n > credentials[u][i].sign_count
  BY DEF Lookup, Exceeds
<1>4. credentials' = [credentials EXCEPT ![u][i].sign_count = n]
  BY DEF Lookup
<1> HIDE DEF r, u, id, n, i
<1>5. i \in DOMAIN credentials[u]
  BY <1>2 DEF FirstAt
<1>6. ASSUME NEW v \in Users, NEW j \in DOMAIN credentials[v]
      PROVE  credentials[v][j] \in Credential /\ credentials[v][j].sign_count \in Int
  <2>1. credentials[v][j] \in Credential
    BY DEF Typed, TypeOK
  <2> QED
    BY <2>1, SizesAssumption DEF Credential
<1>7. credentials'[u] = [credentials[u] EXCEPT ![i].sign_count = n]
  BY <1>1, <1>4 DEF Typed, TypeOK
<1>8. credentials'[u][i] = [credentials[u][i] EXCEPT !.sign_count = n]
  BY <1>5, <1>7
<1>9. credentials'[u][i].sign_count = n
      /\ credentials'[u][i].credential_id = credentials[u][i].credential_id
  BY <1>1, <1>5, <1>6, <1>8 DEF Credential
<1>10. Grows
  <2>1. ASSUME NEW v \in Users
        PROVE  DOMAIN credentials[v] = DOMAIN credentials'[v]
    BY <1>1, <1>4, <1>7 DEF Typed, TypeOK
  <2>2. ASSUME NEW v \in Users, NEW j \in DOMAIN credentials[v]
        PROVE  /\ credentials'[v][j].credential_id = credentials[v][j].credential_id
               /\ credentials'[v][j].sign_count >= credentials[v][j].sign_count
    <3>1. CASE v = u /\ j = i
      BY <1>1, <1>3, <1>5, <1>6, <1>9, <3>1, SizesAssumption
    <3>2. CASE ~(v = u /\ j = i)
      <4>1. credentials'[v][j] = credentials[v][j]
        BY <1>4, <1>7, <3>2 DEF Typed, TypeOK
      <4> QED
        BY <1>6, <4>1
    <3> QED
      BY <3>1, <3>2
  <2> QED
    BY <2>1, <2>2 DEF Grows
<1>11. credentials[u][i].sign_count \in Int
  BY <1>1, <1>5, <1>6
<1>12. credentials[u][i].sign_count < n
  BY <1>1, <1>3, <1>11, SizesAssumption
<1> QED
  BY <1>2, <1>4, <1>5, <1>9, <1>10, <1>11, <1>12 DEF r, u, id, n

(***************************************************************************)
(* A first credential remains the first, and what is used up remains so.   *)
(***************************************************************************)
LEMMA UsedUpForEver ==
  ASSUME Typed, Grows, NEW a, a[1] \in Users, a[3] \in Nat, UsedUp(a), Typed'
  PROVE  UsedUp(a)'
<1> DEFINE u == a[1]
<1>1. PICK i \in DOMAIN credentials[u] :
        FirstAt(u, a[2], i) /\ a[3] <= credentials[u][i].sign_count
  BY DEF UsedUp
<1>2. i \in 1..Len(credentials[u]) /\ Len(credentials[u]) \in Nat
      /\ DOMAIN credentials[u] = 1..Len(credentials[u])
  BY <1>1 DEF Typed, TypeOK
<1>3. \A j \in 1..(i - 1) : j \in DOMAIN credentials[u]
  BY <1>2
<1>4. FirstAt(u, a[2], i)'
  BY <1>1, <1>3 DEF FirstAt, Grows
<1>5. credentials[u][i] \in Credential /\ credentials'[u][i] \in Credential
  BY <1>1 DEF Typed, TypeOK, Grows
<1>6. credentials[u][i].sign_count \in Int /\ credentials'[u][i].sign_count \in Int
  BY <1>5, SizesAssumption DEF Credential
<1>7. a[3] <= credentials'[u][i].sign_count
  BY <1>1, <1>6 DEF Grows
<1> QED
  BY <1>1, <1>4, <1>7 DEF UsedUp, Grows

(***************************************************************************)
(* The steps that neither touch the registry nor make or settle a claim.   *)
(***************************************************************************)
RegistryIdle ==
  /\ UNCHANGED <<credentials, accepted>>
  /\ \A t \in Tasks : Claiming(t)' = Claiming(t) /\ (Claiming(t) => response'[t] = response[t])

(***************************************************************************)
(* Only three steps of a ceremony do.                                      *)
(***************************************************************************)
LEMMA OnlyThreeStepsMatter ==
  ASSUME Typed, [Next]_vars
  PROVE  \/ RegistryIdle
         \/ \E t \in Tasks : Push(t) \/ Lookup(t) \/ VerifySignature(t)
<1> USE DEF Typed, TypeOK, RegistryIdle, Claiming, Finish, Proceed
<1>1. ASSUME NEW op \in Operations, NEW u \in Users,
             \/ \E c \in Challenges : generate_challenge(op, u, c)
             \/ Expire(op, u)
      PROVE  RegistryIdle
  BY <1>1 DEF generate_challenge, Expire
<1>2. ASSUME NEW t \in Tasks, NEW r \in Responses, Submit(t, r)
      PROVE  RegistryIdle
  BY <1>2 DEF Submit
<1>3. ASSUME NEW t \in Tasks, VerifyChallenge(t)
      PROVE  RegistryIdle
  BY <1>3 DEF VerifyChallenge
<1>4. ASSUME NEW t \in Tasks, ChallengeRefused(t) \/ Scan(t) \/ LookupFails(t)
      PROVE  RegistryIdle
  BY <1>4 DEF ChallengeRefused, Scan, LookupFails
<1>5. CASE UNCHANGED vars
  BY <1>5
<1> QED
  BY <1>1, <1>2, <1>3, <1>4, <1>5 DEF Next

(***************************************************************************)
(* The claim a step 5 makes is new: neither accepted nor anybody's.        *)
(***************************************************************************)
LEMMA ClaimIsNew ==
  ASSUME Typed, CountersUsedUp, NEW t \in Tasks, Lookup(t)
  PROVE  ~UsedUp(Claimed(t))
<1> DEFINE u == response[t].user
           id == response[t].credential_id
           n == parse(response[t].data).sign_count
<1>1. u \in Users /\ n \in Int /\ Claimed(t)[1] = u /\ Claimed(t)[2] = id /\ Claimed(t)[3] = n
  BY ClaimFields, SizesAssumption DEF Lookup
<1>2. PICK i \in DOMAIN credentials[u] :
        FirstAt(u, id, i) /\ credentials[u][i].sign_count \in Int /\ credentials[u][i].sign_count < n
  BY LookupRaises
<1> HIDE DEF u, id, n
<1>3. ASSUME NEW j \in DOMAIN credentials[u], FirstAt(u, id, j), n <= credentials[u][j].sign_count
      PROVE  FALSE
  <2>1. i = j
    BY <1>1, <1>2, <1>3, FirstIsUnique DEF Typed
  <2> QED
    BY <1>1, <1>2, <1>3, <2>1
<1> QED
  BY <1>1, <1>3 DEF UsedUp

(***************************************************************************)
(* Every step keeps the counters used up.                                  *)
(***************************************************************************)
LEMMA CountersUsedUpStep == Typed /\ CountersUsedUp /\ [Next]_vars => CountersUsedUp'
<1> SUFFICES ASSUME Typed, CountersUsedUp, [Next]_vars
             PROVE  CountersUsedUp'
  OBVIOUS
<1>1. Typed'
  BY TypedStep
<1>2. ASSUME Grows, NEW a, a[1] \in Users, a[3] \in Nat, UsedUp(a)
      PROVE  UsedUp(a)'
  BY <1>1, <1>2, UsedUpForEver
<1>3. ASSUME NEW s \in Tasks, Claiming(s)
      PROVE  Claimed(s)[1] \in Users /\ Claimed(s)[3] \in Nat
  BY <1>3, ClaimFields, SizesAssumption DEF Claiming
<1>4. CASE RegistryIdle
  <2>1. \A a : UsedUp(a)' = UsedUp(a)
    BY <1>4 DEF RegistryIdle, UsedUp, FirstAt
  <2>2. \A t \in Tasks : Claiming(t) => Claimed(t)' = Claimed(t)
    BY <1>4 DEF RegistryIdle, Claimed, Authentication
  <2>3. \A t \in Tasks : Claiming(t)' = Claiming(t)
    BY <1>4 DEF RegistryIdle
  <2> QED
    BY <1>4, <2>1, <2>2, <2>3 DEF RegistryIdle, CountersUsedUp
<1>5. ASSUME NEW t \in Tasks, Push(t)
      PROVE  CountersUsedUp'
  <2>1. accepted' = accepted /\ Grows
    BY <1>5, PushGrows DEF Push
  <2>2. \A s \in Tasks : Claiming(s)' = Claiming(s) /\ (Claiming(s) => Claimed(s)' = Claimed(s))
    BY <1>5 DEF Push, Finish, Claiming, Claimed, Authentication, Typed, TypeOK
  <2>3. \A s \in Tasks : Claiming(s) => UsedUp(Claimed(s))'
    BY <1>2, <1>3, <2>1, <2>2 DEF CountersUsedUp
  <2>4. \A a \in accepted : UsedUp(a)'
    BY <1>2, <2>1 DEF CountersUsedUp
  <2> QED
    BY <2>1, <2>2, <2>3, <2>4 DEF CountersUsedUp
<1>6. ASSUME NEW t \in Tasks, Lookup(t)
      PROVE  CountersUsedUp'
  <2>1. accepted' = accepted /\ response' = response /\ Grows
    BY <1>6, LookupRaises DEF Lookup, Proceed
  <2>2. \A s \in Tasks : Claiming(s)' <=> Claiming(s) \/ s = t
    BY <1>6 DEF Lookup, Proceed, Claiming, Typed, TypeOK
  <2>3. \A s \in Tasks : Claimed(s)' = Claimed(s)
    BY <2>1 DEF Claimed, Authentication
  <2>4. \A a \in accepted : UsedUp(a)'
    BY <1>2, <2>1 DEF CountersUsedUp
  <2>5. \A s \in Tasks : Claiming(s) => UsedUp(Claimed(s))'
    BY <1>2, <1>3, <2>1, <2>3 DEF CountersUsedUp
  <2>6. UsedUp(Claimed(t))'
    <3>1. PICK u, id, n :
            /\ u \in Users /\ n \in Nat
            /\ u = response[t].user
            /\ id = response[t].credential_id
            /\ n = parse(response[t].data).sign_count
      BY <1>6, ClaimFields, SizesAssumption DEF Lookup
    <3>2. Claimed(t)[1] = u /\ Claimed(t)[2] = id /\ Claimed(t)[3] = n
      BY <1>6, <3>1, ClaimFields DEF Lookup
    <3>3. PICK i \in DOMAIN credentials[u] :
            FirstAt(u, id, i) /\ credentials'[u][i].sign_count = n
      BY <1>6, <3>1, LookupRaises
    <3>4. i \in 1..Len(credentials[u]) /\ Len(credentials[u]) \in Nat
          /\ DOMAIN credentials[u] = 1..Len(credentials[u])
      BY <3>1, <3>3 DEF Typed, TypeOK
    <3>5. FirstAt(u, id, i)'
      BY <2>1, <3>1, <3>3, <3>4 DEF FirstAt, Grows
    <3>6. i \in DOMAIN credentials'[u] /\ n <= credentials'[u][i].sign_count
      BY <2>1, <3>1, <3>3 DEF Grows
    <3>7. Claimed(t)'[1] = u /\ Claimed(t)'[2] = id /\ Claimed(t)'[3] = n
      BY <2>3, <3>2
    <3> QED
      BY <3>5, <3>6, <3>7 DEF UsedUp
  <2>7. ~UsedUp(Claimed(t))
    BY <1>6, ClaimIsNew
  <2>8. Claimed(t) \notin accepted
    BY <2>7 DEF CountersUsedUp
  <2>9. \A s \in Tasks : Claiming(s) => Claimed(s) # Claimed(t)
    BY <2>7 DEF CountersUsedUp
  <2> QED
    BY <2>1, <2>2, <2>3, <2>4, <2>5, <2>6, <2>8, <2>9 DEF CountersUsedUp
<1>7. ASSUME NEW t \in Tasks, VerifySignature(t)
      PROVE  CountersUsedUp'
  <2>1. credentials' = credentials /\ accepted' \in {accepted, accepted \cup {Claimed(t)}}
    BY <1>7 DEF VerifySignature, Claimed
  <2>2. Claiming(t)
    BY <1>7 DEF VerifySignature, Claiming
  <2>3. \A s \in Tasks : /\ Claiming(s)' <=> Claiming(s) /\ s # t
                         /\ s # t => Claimed(s)' = Claimed(s)
    BY <1>7 DEF VerifySignature, Finish, Claiming, Claimed, Authentication, Typed, TypeOK
  <2>4. \A a : UsedUp(a)' = UsedUp(a)
    BY <2>1 DEF UsedUp, FirstAt
  <2>5. Claimed(t)[1] \in Users /\ Claimed(t)[3] \in Nat
    BY <1>3, <2>2
  <2> QED
    BY <2>1, <2>2, <2>3, <2>4, <2>5 DEF CountersUsedUp
<1> QED
  BY <1>4, <1>5, <1>6, <1>7, OnlyThreeStepsMatter

(***************************************************************************)
(* The counters are used up in every reachable state.                      *)
(***************************************************************************)
LEMMA CountersUsedUpHolds == Spec => [](Typed /\ CountersUsedUp)
<1>1. Init => CountersUsedUp
  BY DEF Init, CountersUsedUp, Claiming
<1> QED
  BY <1>1, TypedHolds, CountersUsedUpStep, PTL DEF Spec

(***************************************************************************)
(* The replay defence: of all authentications that present one counter for *)
(* one credential of a user, at most one succeeds, however the counter     *)
(* update of one and the signature check of another interleave.            *)
(***************************************************************************)
THEOREM ReplayDefence == Spec => AcceptedOnce
<1> DEFINE Once == \A t \in Tasks :
             (pc[t] = "signature" /\ result'[t] = "Ok") => Authentication(response[t]) \notin accepted
<1>1. CountersUsedUp /\ [Next]_vars => [Once]_vars
  BY DEF CountersUsedUp, Claiming, Claimed
<1> QED
  BY <1>1, CountersUsedUpHolds, PTL DEF Spec, AcceptedOnce

-----------------------------------------------------------------------------
(***************************************************************************)
(* The claims, as the abstract registry sees them.                         *)
(***************************************************************************)
Claims == {Claimed(t) : t \in {t \in Tasks : Claiming(t)}}

(***************************************************************************)
(* An idle step of the verifier is a stutter of the registry.              *)
(***************************************************************************)
LEMMA IdleStutters ==
  ASSUME RegistryIdle
  PROVE  UNCHANGED <<credentials, Claims, accepted>>
<1>1. \A t \in Tasks : Claiming(t)' = Claiming(t) /\ (Claiming(t) => Claimed(t)' = Claimed(t))
  BY DEF RegistryIdle, Claimed, Authentication
<1> QED
  BY <1>1 DEF RegistryIdle, Claims

(***************************************************************************)
(* The push of a registration is a Register of the registry.               *)
(***************************************************************************)
LEMMA PushRegisters ==
  ASSUME Typed, NEW t \in Tasks, Push(t)
  PROVE  \E u \in Users, c \in Credential :
           /\ credentials' = [credentials EXCEPT ![u] = Append(@, c)]
           /\ Claims' = Claims
           /\ accepted' = accepted
<1> DEFINE r == response[t]
           c == [credential_id |-> r.credential_id, public_key |-> r.public_key,
                 sign_count |-> parse(r.data).sign_count]
<1>1. r \in Responses /\ r.user \in Users /\ parse(r.data).sign_count \in 0..MaxSignCount
  BY ResponsesAssumption, ParsedCounter DEF Typed, InCeremony, Push
<1>2. c \in Credential
  BY <1>1 DEF Credential
<1>3. credentials' = [credentials EXCEPT ![r.user] = Append(@, c)] /\ accepted' = accepted
  BY DEF Push
<1>4. \A s \in Tasks : Claiming(s)' = Claiming(s) /\ (Claiming(s) => Claimed(s)' = Claimed(s))
  BY DEF Push, Finish, Claiming, Claimed, Authentication, Typed, TypeOK
<1>5. Claims' = Claims
  BY <1>4 DEF Claims
<1> HIDE DEF r, c
<1> QED
  BY <1>1, <1>2, <1>3, <1>5

(***************************************************************************)
(* The counter update of an authentication is a Claim of the registry.     *)
(***************************************************************************)
LEMMA LookupClaims ==
  ASSUME Typed, NEW t \in Tasks, Lookup(t)
  PROVE  \E u \in Users : \E i \in DOMAIN credentials[u], n \in 0..MaxSignCount :
           /\ n > credentials[u][i].sign_count
           /\ \A j \in 1..(i - 1) : credentials[u][j].credential_id # credentials[u][i].credential_id
           /\ credentials' = [credentials EXCEPT ![u][i].sign_count = n]
           /\ Claims' = Claims \cup {<<u, credentials[u][i].credential_id, n>>}
           /\ accepted' = accepted
<1> DEFINE u == response[t].user
           id == response[t].credential_id
           n == parse(response[t].data).sign_count
<1>1. u \in Users /\ n \in 0..MaxSignCount /\ Claimed(t) = <<u, id, n>>
  BY ClaimFields DEF Lookup, Claimed, Authentication
<1>2. PICK i \in DOMAIN credentials[u] :
        /\ FirstAt(u, id, i)
        /\ credentials[u][i].sign_count \in Int
        /\ credentials[u][i].sign_count < n
        /\ credentials' = [credentials EXCEPT ![u][i].sign_count = n]
  BY LookupRaises
<1>3. Claims' = Claims \cup {Claimed(t)}
  <2>1. \A s \in Tasks : (Claiming(s)' <=> Claiming(s) \/ s = t) /\ Claimed(s)' = Claimed(s)
    BY DEF Lookup, Proceed, Claiming, Claimed, Authentication, Typed, TypeOK
  <2> QED
    BY <2>1 DEF Claims
<1>4. accepted' = accepted
  BY DEF Lookup
<1> HIDE DEF u, id, n
<1>5. n > credentials[u][i].sign_count
  BY <1>1, <1>2, SizesAssumption
<1>6. credentials[u][i].credential_id = id
      /\ \A j \in 1..(i - 1) : credentials[u][j].credential_id # id
  BY <1>2 DEF FirstAt
<1> QED
  BY <1>1, <1>2, <1>3, <1>4, <1>5, <1>6

(***************************************************************************)
(* The signature check is a Settle of the registry, of this claim alone.   *)
(***************************************************************************)
LEMMA SignatureSettles ==
  ASSUME Typed, CountersUsedUp, NEW t \in Tasks, VerifySignature(t)
  PROVE  \E claim \in Claims :
           /\ Claims' = Claims \ {claim}
           /\ \/ claim \notin accepted /\ accepted' = accepted \cup {claim}
              \/ accepted' = accepted
           /\ credentials' = credentials
<1>1. Claiming(t) /\ Claimed(t) \in Claims
  BY DEF VerifySignature, Claiming, Claims
<1>2. \A s \in Tasks : /\ Claiming(s)' <=> Claiming(s) /\ s # t
                       /\ s # t => Claimed(s)' = Claimed(s)
  BY DEF VerifySignature, Finish, Claiming, Claimed, Authentication, Typed, TypeOK
<1>3. \A s \in Tasks : Claiming(s) /\ s # t => Claimed(s) # Claimed(t)
  BY <1>1 DEF CountersUsedUp
<1>4. Claims' = Claims \ {Claimed(t)}
  BY <1>1, <1>2, <1>3 DEF Claims
<1>5. Claimed(t) \notin accepted
  BY <1>1 DEF CountersUsedUp
<1>6. credentials' = credentials /\ accepted' \in {accepted, accepted \cup {Claimed(t)}}
  BY DEF VerifySignature, Claimed
<1> QED
  BY <1>1, <1>4, <1>5, <1>6

(***************************************************************************)
(* The verifier implements the abstract registry: credentials are only     *)
(* ever added, a counter buys one authentication, and every claim is       *)
(* settled on its own.                                                     *)
(***************************************************************************)
THEOREM RefinesRegistry == Spec => ImplementsRegistry
<1> USE DEF Claims, Claimed, Claiming
<1>1. Init => Registry!Init
  BY DEF Init, Registry!Init
<1>2. ASSUME Typed, CountersUsedUp, [Next]_vars
      PROVE  [Registry!Next]_(Registry!vars)
  <2>1. CASE RegistryIdle
    BY <2>1, IdleStutters DEF Registry!vars
  <2>2. ASSUME NEW t \in Tasks, Push(t)
        PROVE  Registry!Next
    BY <1>2, <2>2, PushRegisters DEF Registry!Next, Registry!Register
  <2>3. ASSUME NEW t \in Tasks, Lookup(t)
        PROVE  Registry!Next
    BY <1>2, <2>3, LookupClaims DEF Registry!Next, Registry!Claim
  <2>4. ASSUME NEW t \in Tasks, VerifySignature(t)
        PROVE  Registry!Next
    BY <1>2, <2>4, SignatureSettles DEF Registry!Next, Registry!Settle
  <2> QED
    BY <1>2, <2>1, <2>2, <2>3, <2>4, OnlyThreeStepsMatter
<1> QED
  BY <1>1, <1>2, CountersUsedUpHolds, PTL DEF Spec, ImplementsRegistry, Registry!Spec

-----------------------------------------------------------------------------
(***************************************************************************)
(* A stored challenge was generated for the operation and user under which *)
(* it is stored and is not spent, and only what was generated is spent.    *)
(***************************************************************************)
ChallengesTracked ==
  /\ \A k \in Operations \X Users :
       bound[k] # None => issued[bound[k]] = k /\ bound[k] \notin spent
  /\ \A c \in spent : issued[c] # None

(***************************************************************************)
(* Every step keeps the challenges tracked: generate_challenge replaces,   *)
(* the store consumes and expires, and nothing else touches them.          *)
(***************************************************************************)
LEMMA ChallengesTrackedStep == Typed /\ ChallengesTracked /\ [Next]_vars => ChallengesTracked'
<1> SUFFICES ASSUME Typed, ChallengesTracked, [Next]_vars
             PROVE  ChallengesTracked'
  OBVIOUS
<1> USE DEF Typed, TypeOK, ChallengesTracked
<1>1. ASSUME NEW op \in Operations, NEW u \in Users, NEW c \in Challenges,
             generate_challenge(op, u, c)
      PROVE  ChallengesTracked'
  <2>1. <<op, u>> \in Operations \X Users /\ <<op, u>> # None
    BY NoneAssumption
  <2>2. c # None /\ c \notin spent
    BY <1>1, NoneAssumption DEF generate_challenge
  <2>3. \A k \in Operations \X Users : bound[k] # c
    BY <1>1, <2>2, NoneAssumption DEF generate_challenge
  <2>4. \A k \in Operations \X Users :
          k # <<op, u>> /\ bound[k] # None => bound[k] # bound[<<op, u>>]
    BY <2>1
  <2>5. \A k \in Operations \X Users : bound'[k] = IF k = <<op, u>> THEN c ELSE bound[k]
    BY <1>1 DEF generate_challenge
  <2>6. \A d \in Challenges : issued'[d] = IF d = c THEN <<op, u>> ELSE issued[d]
    BY <1>1 DEF generate_challenge
  <2>7. spent' = spent \cup ({bound[<<op, u>>]} \ {None})
    BY <1>1 DEF generate_challenge
  <2>8. ASSUME NEW k \in Operations \X Users, bound'[k] # None
        PROVE  issued'[bound'[k]] = k /\ bound'[k] \notin spent'
    <3>1. CASE k = <<op, u>>
      BY <2>1, <2>2, <2>3, <2>5, <2>6, <2>7, <3>1
    <3>2. CASE k # <<op, u>>
      BY <2>3, <2>4, <2>5, <2>6, <2>7, <2>8, <3>2
    <3> QED
      BY <3>1, <3>2
  <2>9. ASSUME NEW d \in spent'
        PROVE  issued'[d] # None
    BY <2>1, <2>6, <2>7, NoneAssumption
  <2> QED
    BY <2>8, <2>9
<1>2. ASSUME NEW k \in Operations \X Users, bound[k] # None, Spend(k)
      PROVE  ChallengesTracked'
  BY <1>2, NoneAssumption DEF Spend
<1>3. ASSUME NEW t \in Tasks, VerifyChallenge(t)
      PROVE  ChallengesTracked'
  <2>1. CASE Consuming
    <3>1. ChallengeKey(response[t]) \in Operations \X Users
          /\ bound[ChallengeKey(response[t])] # None
      BY <1>3, <2>1, ResponsesAssumption DEF VerifyChallenge, ChallengeKey, InCeremony
    <3> QED
      BY <1>2, <1>3, <2>1, <3>1 DEF VerifyChallenge
  <2>2. CASE ~Consuming
    BY <1>3, <2>2 DEF VerifyChallenge
  <2> QED
    BY <2>1, <2>2
<1>4. CASE UNCHANGED challengeVars
  BY <1>4
<1> QED
  BY <1>1, <1>2, <1>3, <1>4
  DEF Next, Expire, Submit, ChallengeRefused, Scan, Push, LookupFails, Lookup, VerifySignature

(***************************************************************************)
(* With a session store that consumes the challenges it verifies, which is *)
(* what the comment on step 4 expects of it, a ceremony gets past step 4   *)
(* only on a challenge generated for its own operation and user, and that  *)
(* no ceremony, later challenge or timeout has used up.                    *)
(***************************************************************************)
THEOREM OneCeremonyPerChallenge == Consuming => (Spec => ChallengeBacksOneCeremony)
<1> SUFFICES ASSUME Consuming
             PROVE  Spec => ChallengeBacksOneCeremony
  OBVIOUS
<1> DEFINE Backed == \A t \in Tasks :
             (pc[t] = "challenge" /\ pc'[t] \in {"scan", "lookup"}) =>
               /\ response[t].challenge \notin spent
               /\ issued[response[t].challenge] = <<response[t].op, response[t].user>>
<1>1. Init => ChallengesTracked
  BY DEF Init, ChallengesTracked
<1>2. ASSUME Typed, ChallengesTracked, Next
      PROVE  Backed
  <2> SUFFICES ASSUME NEW t \in Tasks, pc[t] = "challenge", pc'[t] \in {"scan", "lookup"}
               PROVE  /\ response[t].challenge \notin spent
                      /\ issued[response[t].challenge] = <<response[t].op, response[t].user>>
    OBVIOUS
  <2>1. VerifyChallenge(t)
    BY <1>2 DEF Next, generate_challenge, Expire, Submit, ChallengeRefused, Scan, Push,
                LookupFails, Lookup, VerifySignature, VerifyChallenge, Finish, Proceed, Typed, TypeOK
  <2>2. bound[ChallengeKey(response[t])] = response[t].challenge
    BY <2>1 DEF VerifyChallenge
  <2>3. ChallengeKey(response[t]) \in Operations \X Users /\ response[t].challenge # None
    BY <1>2, <2>1, ResponsesAssumption DEF VerifyChallenge, ChallengeKey, Typed, InCeremony
  <2> QED
    BY <1>2, <2>2, <2>3 DEF ChallengesTracked, ChallengeKey
<1>3. Typed /\ ChallengesTracked /\ [Next]_vars => [Backed]_vars
  BY <1>2
<1> QED
  BY <1>1, <1>3, TypedHolds, ChallengesTrackedStep, PTL DEF Spec, ChallengeBacksOneCeremony

-----------------------------------------------------------------------------
(***************************************************************************)
(* Where an id is stored, and the tasks that have found it free and are    *)
(* about to store it.                                                      *)
(***************************************************************************)
StoredAt(id) ==
  {p \in Users \X Nat :
     p[2] \in DOMAIN credentials[p[1]] /\ credentials[p[1]][p[2]].credential_id = id}

Pushing(id) == {t \in Tasks : pc[t] = "push" /\ response[t].credential_id = id}

(***************************************************************************)
(* Each place at which an id is stored is paid for by a task that is no    *)
(* longer about to store it.                                               *)
(***************************************************************************)
PlacesPaid ==
  \A r \in Responses :
    /\ IsFiniteSet(StoredAt(r.credential_id))
    /\ Cardinality(StoredAt(r.credential_id)) + Cardinality(Pushing(r.credential_id))
         <= Cardinality(Tasks)

(***************************************************************************)
(* The tasks about to store an id are finitely many.                       *)
(***************************************************************************)
LEMMA PushingFinite ==
  ASSUME NEW id
  PROVE  /\ IsFiniteSet(Pushing(id)) /\ Cardinality(Pushing(id)) \in Nat
         /\ Cardinality(Pushing(id)) <= Cardinality(Tasks) /\ Cardinality(Tasks) \in Nat
<1>1. Pushing(id) \in SUBSET Tasks
  BY DEF Pushing
<1> QED
  BY <1>1, FS_Subset, FS_CardinalityType, SizesAssumption

(***************************************************************************)
(* Every step keeps the places paid for.  A scan lets a task through only  *)
(* when the id is stored nowhere; a push turns one task into one place.    *)
(***************************************************************************)
LEMMA PlacesPaidStep == Typed /\ PlacesPaid /\ [Next]_vars => PlacesPaid'
<1> SUFFICES ASSUME Typed, PlacesPaid, [Next]_vars, NEW r \in Responses
             PROVE  /\ IsFiniteSet(StoredAt(r.credential_id))'
                    /\ (Cardinality(StoredAt(r.credential_id)) + Cardinality(Pushing(r.credential_id))
                          <= Cardinality(Tasks))'
  BY DEF PlacesPaid
<1> DEFINE id == r.credential_id
<1>1. /\ IsFiniteSet(StoredAt(id)) /\ Cardinality(StoredAt(id)) \in Nat
      /\ Cardinality(StoredAt(id)) + Cardinality(Pushing(id)) <= Cardinality(Tasks)
  BY FS_CardinalityType DEF PlacesPaid
<1>2. CASE StoredAt(id)' = StoredAt(id) /\ Pushing(id)' = Pushing(id)
  BY <1>1, <1>2
<1>3. ASSUME UNCHANGED credentials
      PROVE  StoredAt(id)' = StoredAt(id)
  BY <1>3 DEF StoredAt
<1>4. ASSUME NEW t \in Tasks, pc[t] # "push", pc'[t] # "push",
             \A s \in Tasks \ {t} : pc'[s] = pc[s] /\ response'[s] = response[s]
      PROVE  Pushing(id)' = Pushing(id)
  BY <1>4 DEF Pushing
<1>5. ASSUME NEW t \in Tasks, \E q \in Responses : Submit(t, q)
      PROVE  StoredAt(id)' = StoredAt(id) /\ Pushing(id)' = Pushing(id)
  BY <1>3, <1>4, <1>5 DEF Submit, Finish, Typed, TypeOK
<1>6. ASSUME NEW t \in Tasks,
             \/ VerifyChallenge(t) \/ ChallengeRefused(t) \/ LookupFails(t) \/ VerifySignature(t)
      PROVE  StoredAt(id)' = StoredAt(id) /\ Pushing(id)' = Pushing(id)
  BY <1>3, <1>4, <1>6 DEF VerifyChallenge, ChallengeRefused, LookupFails, VerifySignature,
                          Finish, Proceed, Typed, TypeOK
<1>7. ASSUME NEW t \in Tasks, Lookup(t)
      PROVE  StoredAt(id)' = StoredAt(id) /\ Pushing(id)' = Pushing(id)
  <2>1. \A u \in Users : DOMAIN credentials'[u] = DOMAIN credentials[u]
    BY <1>7 DEF Lookup, Typed, TypeOK
  <2>2. Grows
    BY <1>7, LookupRaises
  <2>3. StoredAt(id)' = StoredAt(id)
    BY <2>1, <2>2 DEF StoredAt, Grows
  <2> QED
    BY <1>4, <1>7, <2>3 DEF Lookup, Proceed, Typed, TypeOK
<1>8. ASSUME NEW t \in Tasks, Scan(t)
      PROVE  \/ StoredAt(id)' = StoredAt(id) /\ Pushing(id)' = Pushing(id)
             \/ StoredAt(id)' = {}
  <2>1. StoredAt(id)' = StoredAt(id)
    BY <1>3, <1>8 DEF Scan
  <2>2. CASE Taken(response[t].user, response[t].credential_id)
    BY <1>4, <1>8, <2>1, <2>2 DEF Scan, Finish, Typed, TypeOK
  <2>3. CASE ~Taken(response[t].user, response[t].credential_id) /\ response[t].credential_id = id
    BY <2>1, <2>3 DEF Taken, Has, StoredAt
  <2>4. CASE ~Taken(response[t].user, response[t].credential_id) /\ response[t].credential_id # id
    <3>1. Pushing(id)' = Pushing(id)
      BY <1>8, <2>4 DEF Scan, Proceed, Pushing, Typed, TypeOK
    <3> QED
      BY <2>1, <3>1
  <2> QED
    BY <2>2, <2>3, <2>4
<1>9. ASSUME NEW t \in Tasks, Push(t)
      PROVE  \/ StoredAt(id)' = StoredAt(id) /\ Pushing(id)' = Pushing(id)
             \/ \E p : /\ StoredAt(id)' = StoredAt(id) \cup {p}
                       /\ t \in Pushing(id)
                       /\ Pushing(id)' = Pushing(id) \ {t}
  <2> DEFINE q == response[t]
             c == [credential_id |-> q.credential_id, public_key |-> q.public_key,
                   sign_count |-> parse(q.data).sign_count]
             n == Len(credentials[q.user])
  <2>1. q.user \in Users
    BY <1>9, ResponsesAssumption DEF Typed, InCeremony, Push
  <2>2. credentials' = [credentials EXCEPT ![q.user] = Append(@, c)]
    BY <1>9 DEF Push
  <2>3. c.credential_id = q.credential_id
    OBVIOUS
  <2>4. Pushing(id)' = Pushing(id) \ {t} /\ (t \in Pushing(id) <=> q.credential_id = id)
    BY <1>9 DEF Push, Finish, Pushing, Typed, TypeOK
  <2> HIDE DEF q, c
  <2>5. credentials[q.user] \in Seq(Credential) /\ n \in Nat /\ DOMAIN credentials[q.user] = 1..n
    BY <2>1 DEF Typed, TypeOK
  <2>6. credentials'[q.user] = Append(credentials[q.user], c)
        /\ \A u \in Users \ {q.user} : credentials'[u] = credentials[u]
    BY <2>1, <2>2 DEF Typed, TypeOK
  <2> HIDE DEF n
  <2>7. /\ DOMAIN credentials'[q.user] = 1..(n + 1)
        /\ credentials'[q.user][n + 1] = c
        /\ \A i \in 1..n : credentials'[q.user][i] = credentials[q.user][i]
    BY <2>5, <2>6 DEF n
  <2>8. ASSUME NEW u \in Users, NEW i \in Nat
        PROVE  <<u, i>> \in StoredAt(id)' <=>
                 <<u, i>> \in StoredAt(id) \/ (u = q.user /\ i = n + 1 /\ q.credential_id = id)
    <3>1. <<u, i>> \in StoredAt(id) <=>
            i \in DOMAIN credentials[u] /\ credentials[u][i].credential_id = id
      BY DEF StoredAt
    <3>2. <<u, i>> \in StoredAt(id)' <=>
            i \in DOMAIN credentials'[u] /\ credentials'[u][i].credential_id = id
      BY DEF StoredAt
    <3>3. CASE u = q.user
      <4>1. CASE i = n + 1
        BY <2>3, <2>5, <2>7, <3>1, <3>2, <3>3, <4>1
      <4>2. CASE i # n + 1
        BY <2>5, <2>7, <3>1, <3>2, <3>3, <4>2
      <4> QED
        BY <4>1, <4>2
    <3>4. CASE u # q.user
      BY <2>6, <3>1, <3>2, <3>4
    <3> QED
      BY <3>3, <3>4
  <2>9. StoredAt(id) \subseteq Users \X Nat /\ StoredAt(id)' \subseteq Users \X Nat
    BY DEF StoredAt
  <2>10. CASE q.credential_id = id
    <3>1. StoredAt(id)' = StoredAt(id) \cup {<<q.user, n + 1>>}
      BY <2>1, <2>5, <2>8, <2>9, <2>10
    <3> QED
      BY <2>4, <2>10, <3>1
  <2>11. CASE q.credential_id # id
    <3>1. StoredAt(id)' = StoredAt(id)
      BY <2>8, <2>9, <2>11
    <3> QED
      BY <2>4, <2>11, <3>1
  <2> QED
    BY <2>10, <2>11
<1>10. CASE StoredAt(id)' = {}
  <2>1. Cardinality(Pushing(id)') <= Cardinality(Tasks)
    <3>1. Pushing(id)' \in SUBSET Tasks
      BY DEF Pushing
    <3> QED
      BY <3>1, FS_Subset, SizesAssumption
  <2>2. Cardinality(Pushing(id)') \in Nat /\ Cardinality(Tasks) \in Nat
    <3>1. Pushing(id)' \in SUBSET Tasks
      BY DEF Pushing
    <3> QED
      BY <3>1, FS_Subset, FS_CardinalityType, SizesAssumption
  <2> QED
    BY <1>10, <2>1, <2>2, FS_EmptySet
<1>11. ASSUME NEW t \in Tasks, NEW p, StoredAt(id)' = StoredAt(id) \cup {p},
              t \in Pushing(id), Pushing(id)' = Pushing(id) \ {t}
       PROVE  /\ IsFiniteSet(StoredAt(id)')
              /\ Cardinality(StoredAt(id)') + Cardinality(Pushing(id)') <= Cardinality(Tasks)
  <2>1. IsFiniteSet(StoredAt(id)') /\ Cardinality(StoredAt(id)') <= Cardinality(StoredAt(id)) + 1
        /\ Cardinality(StoredAt(id)') \in Nat
    <3>1. /\ IsFiniteSet(StoredAt(id)')
          /\ Cardinality(StoredAt(id)') =
               IF p \in StoredAt(id) THEN Cardinality(StoredAt(id)) ELSE Cardinality(StoredAt(id)) + 1
      BY <1>1, <1>11, FS_AddElement
    <3> QED
      BY <1>1, <3>1
  <2>2. Cardinality(Pushing(id)') = Cardinality(Pushing(id)) - 1
    BY <1>11, FS_RemoveElement, PushingFinite
  <2> QED
    BY <1>1, <2>1, <2>2, PushingFinite
<1>12. ASSUME UNCHANGED <<credentials, pc, response>>
       PROVE  StoredAt(id)' = StoredAt(id) /\ Pushing(id)' = Pushing(id)
  BY <1>12 DEF StoredAt, Pushing
<1>13. \/ UNCHANGED <<credentials, pc, response>>
       \/ \E t \in Tasks :
            \/ \E q \in Responses : Submit(t, q)
            \/ VerifyChallenge(t) \/ ChallengeRefused(t) \/ LookupFails(t) \/ VerifySignature(t)
            \/ Lookup(t) \/ Scan(t) \/ Push(t)
  BY DEF Next, generate_challenge, Expire
<1> HIDE DEF id
<1>14. \/ StoredAt(id)' = StoredAt(id) /\ Pushing(id)' = Pushing(id)
       \/ StoredAt(id)' = {}
       \/ \E t \in Tasks : \E p : /\ StoredAt(id)' = StoredAt(id) \cup {p}
                                  /\ t \in Pushing(id)
                                  /\ Pushing(id)' = Pushing(id) \ {t}
  BY <1>5, <1>6, <1>7, <1>8, <1>9, <1>12, <1>13
<1> QED
  BY <1>2, <1>10, <1>11, <1>14 DEF id

(***************************************************************************)
(* The scan and the push of a registration are two critical sections, so   *)
(* one id can be registered more than once, but never more often than      *)
(* there are tasks.                                                        *)
(***************************************************************************)
THEOREM DuplicatesLimited == Spec => []DuplicatesBounded
<1>1. Init => PlacesPaid
  <2> SUFFICES ASSUME Init, NEW r \in Responses
               PROVE  /\ IsFiniteSet(StoredAt(r.credential_id))
                      /\ Cardinality(StoredAt(r.credential_id)) + Cardinality(Pushing(r.credential_id))
                           <= Cardinality(Tasks)
    BY DEF PlacesPaid
  <2>1. StoredAt(r.credential_id) = {} /\ Pushing(r.credential_id) = {}
    BY DEF Init, StoredAt, Pushing
  <2> QED
    BY <2>1, FS_EmptySet, FS_CardinalityType, SizesAssumption
<1>2. Typed /\ PlacesPaid => DuplicatesBounded
  <2> SUFFICES ASSUME Typed, PlacesPaid, NEW r \in Responses
               PROVE  Cardinality(Places(r.credential_id)) <= Cardinality(Tasks)
    BY DEF DuplicatesBounded
  <2>1. Places(r.credential_id) \in SUBSET StoredAt(r.credential_id)
    <3>1. ASSUME NEW p \in Places(r.credential_id)
          PROVE  p \in StoredAt(r.credential_id)
      <4>1. p[1] \in Users /\ p[2] \in DOMAIN credentials[p[1]] /\ p = <<p[1], p[2]>>
            /\ credentials[p[1]][p[2]].credential_id = r.credential_id
        BY DEF Places
      <4>2. p[2] \in Nat
        BY <4>1 DEF Typed, TypeOK
      <4> QED
        BY <4>1, <4>2 DEF StoredAt
    <3> QED
      BY <3>1
  <2>2. /\ IsFiniteSet(StoredAt(r.credential_id))
        /\ Cardinality(StoredAt(r.credential_id)) + Cardinality(Pushing(r.credential_id))
             <= Cardinality(Tasks)
    BY DEF PlacesPaid
  <2>3. /\ Cardinality(Places(r.credential_id)) <= Cardinality(StoredAt(r.credential_id))
        /\ Cardinality(Places(r.credential_id)) \in Nat
        /\ Cardinality(StoredAt(r.credential_id)) \in Nat
    BY <2>1, <2>2, FS_Subset, FS_CardinalityType
  <2> QED
    BY <2>2, <2>3, PushingFinite
<1> QED
  BY <1>1, <1>2, TypedHolds, PlacesPaidStep, PTL DEF Spec
(***************************************************************************)
(* What the comment on step 5 says is true of a verifier that is called by *)
(* one task at a time: credential ids are unique over all users.  It is    *)
(* the interleaving of two registrations alone that breaks it.             *)
(***************************************************************************)
THEOREM UniqueWithoutConcurrency ==
  Cardinality(Tasks) = 1 => (Spec => []CredentialIdUnique)
<1> SUFFICES ASSUME Cardinality(Tasks) = 1
             PROVE  Spec => []CredentialIdUnique
  OBVIOUS
<1>1. DuplicatesBounded => CredentialIdUnique
  BY DEF DuplicatesBounded, CredentialIdUnique
<1> QED
  BY <1>1, DuplicatesLimited, PTL
=============================================================================
