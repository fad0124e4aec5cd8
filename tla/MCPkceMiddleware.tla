--------------------------- MODULE MCPkceMiddleware ---------------------------
(***************************************************************************)
(* Two workers and one application thread.  The requests: one state under  *)
(* two sessions (once escaped, once shadowing a session of another name),  *)
(* one without a session cookie, and one whose state is a byte too long.   *)
(***************************************************************************)
EXTENDS PkceMiddleware, TLC

MCDecode == ("k1" :> "k1") @@ ("k1_escaped" :> "k1") @@ ("long" :> "long")
MCSize == ("k1" :> 1024) @@ ("long" :> 1025)

Cookie(name, value) ==
  <<[word |-> name, padded |-> FALSE], [word |-> value, padded |-> TRUE]>>

Callback(raw, cookies) ==
  [query |-> <<<<"state", raw>>>>, cookies |-> <<[ascii |-> TRUE, parts |-> cookies]>>]

MCHttpRequests ==
  {Callback("k1", <<Cookie("sid", "s2"), Cookie("session_id", "s1")>>),
   Callback("k1_escaped", <<Cookie("sid", "s2")>>),
   Callback("k1", << >>),
   Callback("long", <<Cookie("sid", "s1")>>)}

Symmetry == Permutations(Workers)
=============================================================================
