-------------------------- MODULE CredentialRegistry --------------------------
(***************************************************************************)
(* What the credential registry of the WebAuthn verifier promises to       *)
(* callers of verify_registration and verify_authentication: credentials   *)
(* are only ever added, and a counter buys at most one authentication.     *)
(*                                                                         *)
(* An authentication first claims its counter, which must exceed the one   *)
(* stored, and is then accepted or dropped.  A dropped claim stays spent.  *)
(***************************************************************************)
EXTENDS Integers, Sequences

CONSTANTS
  Users,
  Credential,   \* what may be registered: an id, a public key and a counter
  MaxSignCount  \* u32::MAX

VARIABLES
  credentials,  \* each user's credentials, in the order of their registration
  claims,       \* the (user, credential id, counter) that were claimed ...
  accepted      \* ... and those that were accepted

vars == <<credentials, claims, accepted>>

Init ==
  /\ credentials = [u \in Users |-> << >>]
  /\ claims = {}
  /\ accepted = {}

(***************************************************************************)
(* A registration adds a credential after the user's others.               *)
(***************************************************************************)
Register(u, c) ==
  /\ credentials' = [credentials EXCEPT ![u] = Append(@, c)]
  /\ UNCHANGED <<claims, accepted>>

(***************************************************************************)
(* A counter above the stored one is claimed and stored, for the user's    *)
(* first credential of that id.                                            *)
(***************************************************************************)
Claim(u, i, n) ==
  /\ n > credentials[u][i].sign_count
  /\ \A j \in 1..(i - 1) : credentials[u][j].credential_id # credentials[u][i].credential_id
  /\ credentials' = [credentials EXCEPT ![u][i].sign_count = n]
  /\ claims' = claims \cup {<<u, credentials[u][i].credential_id, n>>}
  /\ UNCHANGED accepted

(***************************************************************************)
(* A claim is settled: accepted, for the first time, or dropped.           *)
(***************************************************************************)
Settle(claim) ==
  /\ claims' = claims \ {claim}
  /\ \/ claim \notin accepted /\ accepted' = accepted \cup {claim}
     \/ UNCHANGED accepted
  /\ UNCHANGED credentials

Next ==
  \/ \E u \in Users :
       \/ \E c \in Credential : Register(u, c)
       \/ \E i \in DOMAIN credentials[u], n \in 0..MaxSignCount : Claim(u, i, n)
  \/ \E claim \in claims : Settle(claim)

Spec == Init /\ [][Next]_vars
=============================================================================
