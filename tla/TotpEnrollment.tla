---------------------------- MODULE TotpEnrollment ----------------------------
(***************************************************************************)
(* enrollment_uri and urlencoding (src/src/totp.rs), and the authenticator *)
(* app that reads the URI off a QR code.                                   *)
(*                                                                         *)
(* A URI is a sequence of symbols.  A symbol is one byte, or a run of      *)
(* bytes that urlencoding copies and no reader splits: a parameter's name, *)
(* a number, the Base32 form of the secret.                                *)
(***************************************************************************)
EXTENDS Integers, Sequences, SequencesExt

CONSTANTS
  Unreserved,  \* letters, digits, - _ . ~ and runs of them
  Hex,         \* the two hexadecimal digits of every other byte of the instance
  Decimal,     \* the decimal form of every number an app takes
  None

ASSUME UnreservedAssumption == Unreserved \cap {":", "?", "&", "=", "%"} = {}
ASSUME HexAssumption ==
  /\ DOMAIN Hex \cap Unreserved = {}
  /\ \A b \in DOMAIN Hex : Hex[b] \in Unreserved \X Unreserved
  /\ \A b, c \in DOMAIN Hex : Hex[b] = Hex[c] => b = c
ASSUME DecimalAssumption ==
  /\ \A n \in DOMAIN Decimal : Decimal[n] \in Unreserved
  /\ \A m, n \in DOMAIN Decimal : Decimal[m] = Decimal[n] => m = n

\* Mutant of Copied: the separators of RFC 3986 are taken to be harmless.
CopiedWithSeparators(b) == b \in Unreserved \cup {":", "?", "&", "="}

Copied(b) == b \in Unreserved

(***************************************************************************)
(* urlencoding: every byte that is not unreserved becomes %XX.             *)
(***************************************************************************)
urlencoding(s) ==
  FlattenSeq([i \in DOMAIN s |-> IF Copied(s[i]) THEN <<s[i]>> ELSE <<"%">> \o Hex[s[i]]])

(***************************************************************************)
(* enrollment_uri, from the label on: issuer:account?name=value&...        *)
(***************************************************************************)
Field(separator, name, value) == <<separator, name, "=">> \o value

enrollment_uri(secret, account, issuer, period, digits) ==
  urlencoding(issuer) \o <<":">> \o urlencoding(account)
    \o Field("?", "secret", <<secret>>)
    \o Field("&", "issuer", urlencoding(issuer))
    \o Field("&", "period", <<Decimal[period]>>)
    \o Field("&", "digits", <<Decimal[digits]>>)
    \o Field("&", "algorithm", <<"SHA1">>)

-----------------------------------------------------------------------------
(***************************************************************************)
(* External: the app.  It cuts the URI at the separators, takes the first  *)
(* parameter of each name, and undoes %XX in what it has cut out.          *)
(***************************************************************************)
Decoded(s) ==
  LET ByteAt(i) == CHOOSE b \in DOMAIN Hex : Hex[b] = SubSeq(s, i + 1, i + 2)
      Escapes == {i \in DOMAIN s : s[i] = "%"}
  IN  FlattenSeq([i \in DOMAIN s |->
        IF i \in Escapes THEN <<ByteAt(i)>>
        ELSE IF i - 1 \in Escapes \/ i - 2 \in Escapes THEN << >>
        ELSE <<s[i]>>])

\* The symbols of s after position i, up to the next separator of the set ends.
UpTo(s, i, ends) ==
  LET rest == SubSeq(s, i + 1, Len(s))
      j == SelectInSeq(rest, LAMBDA c : c \in ends)
  IN  IF j = 0 THEN rest ELSE SubSeq(rest, 1, j - 1)

Parameter(uri, name) ==
  LET i == SelectInSeq(uri, LAMBDA c : c = "?")
      starts == {k \in i..(Len(uri) - 2) : /\ uri[k] \in {"?", "&"}
                                           /\ uri[k + 1] = name
                                           /\ uri[k + 2] = "="}
      first == CHOOSE k \in starts : \A l \in starts : k <= l
  IN  Decoded(UpTo(uri, first + 2, {"&"}))

\* A decimal number; an app that finds none, or one out of range, has nothing.
Number(s) ==
  LET values == {n \in DOMAIN Decimal : s = <<Decimal[n]>>}
  IN  IF values = {} THEN None ELSE CHOOSE n \in values : TRUE

scan(uri) ==
  [account |-> Decoded(UpTo(uri, SelectInSeq(uri, LAMBDA c : c = ":"), {"?"})),
   label_issuer |-> Decoded(UpTo(uri, 0, {":"})),
   issuer |-> Parameter(uri, "issuer"),
   secret |-> Parameter(uri, "secret"),
   period |-> Number(Parameter(uri, "period")),
   digits |-> Number(Parameter(uri, "digits")),
   algorithm |-> Parameter(uri, "algorithm")]
=============================================================================
