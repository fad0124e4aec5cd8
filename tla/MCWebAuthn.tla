------------------------------ MODULE MCWebAuthn ------------------------------
(***************************************************************************)
(* Two users, one authenticator that both may register, two tasks.         *)
(***************************************************************************)
EXTENDS WebAuthn, TLC

Flags(up, uv) == to_byte([up |-> up, uv |-> uv, be |-> TRUE, bs |-> FALSE, at |-> TRUE, ed |-> FALSE])

Good(op, u, c, n, key) ==
  [op |-> op, user |-> u, challenge |-> c,
   data |-> [len |-> 37, rp_id_hash |-> "rp", flags |-> Flags(TRUE, op = "create"), sign_count |-> n],
   client |-> [ty |-> op, challenge |-> c, origin |-> "app"],
   credential_id |-> "id", public_key |-> key]

\* Registrations with and without a key, at counter 0; authentications at any.
GoodResponses ==
  {Good("create", u, c, 0, key) : u \in Users, c \in Challenges, key \in {"pk", ""}}
    \cup {Good("get", u, c, n, "") : u \in Users, c \in Challenges, n \in 0..MaxSignCount}

\* A blob that ends before the counter, and a response for each check of steps 1 to 3.
BadResponses ==
  {[Good("create", u, c, 0, "pk") EXCEPT !.data.len = 36, !.data.sign_count = None] :
     u \in Users, c \in Challenges}
    \cup UNION {{[g EXCEPT !.data.rp_id_hash = "other"],
                [g EXCEPT !.data.flags = Flags(FALSE, TRUE)],
                [g EXCEPT !.data.flags = Flags(TRUE, FALSE)],
                [g EXCEPT !.client = None],
                [g EXCEPT !.client.ty = "get"],
                [g EXCEPT !.client.challenge = None],
                [g EXCEPT !.client.origin = "elsewhere"]} :
                  g \in {Good("create", u, "stray", 0, "pk") : u \in Users}}

MCResponses == GoodResponses \cup BadResponses

Symmetry == Permutations(Tasks) \cup Permutations(Users) \cup Permutations(Challenges)
=============================================================================
