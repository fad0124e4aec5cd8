--------------------------- MODULE MCCallbackRequest --------------------------
(***************************************************************************)
(* A small instance: parameters and cookies of every kind the middleware   *)
(* tells apart.                                                            *)
(***************************************************************************)
EXTENDS CallbackAssembly, TLC

\* "k1" and its escaped form decode to the same token; "bad" is not UTF-8.
MCDecode == ("k1" :> "k1") @@ ("k1_escaped" :> "k1") @@ ("k2" :> "k2")
              @@ ("long" :> "long") @@ ("bad" :> NoText)

\* At the limit, below it, and one byte over it.
MCSize == ("k1" :> 1024) @@ ("k2" :> 0) @@ ("long" :> 1025)

MCParams == {<<"state">>, <<"code", "k1">>}
              \cup {<<"state", raw>> : raw \in DOMAIN MCDecode}

CookieNames == {"session_id", "authkit_session", "authvault_session", "sid", "theme"}

MCWords == CookieNames \cup {"s1", "s2"}

Padded(word, padded) == [word |-> word, padded |-> padded]

MCCookies == {<<Padded("session_id", FALSE)>>}
               \cup {<<Padded(n, p), Padded(v, p)>> :
                       n \in CookieNames, v \in {"s1", "s2"}, p \in BOOLEAN}
=============================================================================
