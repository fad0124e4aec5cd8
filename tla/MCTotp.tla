--------------------------------- MODULE MCTotp -------------------------------
(***************************************************************************)
(* Small instances of enrollment and verification.                         *)
(***************************************************************************)
EXTENDS Totp

\* The names below, the hexadecimal digits of their bytes and what the URI is made of.
MCDecimal == [n \in 0..10 |-> ToString(n)]

MCUnreserved == {"a", "secret", "digits", "SECRET", "A", "D", "F"} \cup {MCDecimal[n] : n \in 0..10}

MCHex == (":" :> <<"3", "A">>) @@ ("?" :> <<"3", "F">>) @@ ("&" :> <<"2", "6">>)
           @@ ("=" :> <<"3", "D">>) @@ ("%" :> <<"2", "5">>) @@ ("@" :> <<"4", "0">>)

MCMinTime == -3

\* Names that would end the label, begin a parameter or pass for an escape.
MCNames == {<< >>, <<"a", ":">>, <<"?", "secret", "=", "a">>, <<"&", "digits", "=", "8">>,
            <<"%", "2", "6">>, <<"a", "@", "a">>}

(***************************************************************************)
(* A stand-in for HMAC-SHA1 whose six-digit codes differ for the counters  *)
(* of the instance: the four bytes that are truncated spell the counter.   *)
(***************************************************************************)
MCHmac(counter) ==
  LET offset == (3 * counter) % 16
  IN  [i \in 1..20 |-> IF i = 20 THEN 48 + offset
                       ELSE IF i = offset + 1 THEN 200
                       ELSE IF i = offset + 4 THEN counter
                       ELSE 0]
=============================================================================
