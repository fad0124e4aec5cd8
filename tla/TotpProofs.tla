------------------------------- MODULE TotpProofs -----------------------------
(***************************************************************************)
(* Proofs about enrollment, for any names, and about TOTP codes, for any   *)
(* period, window and range of the two clocks, and whatever HMAC computes. *)
(***************************************************************************)
EXTENDS Totp, SequenceFacts, TLAPS

USE DEF vars

(***************************************************************************)
(* Division by the period: n lies in the step n \div p.                    *)
(***************************************************************************)
LEMMA Division ==
  ASSUME NEW n \in Nat, NEW p \in Nat \ {0}
  PROVE  /\ n \div p \in Nat /\ n % p \in 0..(p - 1)
         /\ n = p * (n \div p) + (n % p)
<1> DEFINE q == n \div p
           m == n % p
<1>1. m = n - p * q
  OBVIOUS
<1>2. q \in Nat /\ m \in 0..(p - 1) /\ p * q \in Int
  OBVIOUS
<1> HIDE DEF q, m
<1>3. n = p * q + m
  BY <1>1, <1>2
<1> QED
  BY <1>2, <1>3 DEF q, m

(***************************************************************************)
(* Steps that are further apart begin further apart.                       *)
(***************************************************************************)
LEMMA Products ==
  ASSUME NEW p \in Nat, NEW a \in Int, NEW b \in Int, a <= b
  PROVE  p * a <= p * b
<1>1. b - a \in Nat /\ p * (b - a) \in Nat
  OBVIOUS
<1>2. p * (b - a) = p * b - p * a
  OBVIOUS
<1> QED
  BY <1>1, <1>2

(***************************************************************************)
(* The only step that contains n.                                          *)
(***************************************************************************)
LEMMA StepOf ==
  ASSUME NEW n \in Nat, NEW p \in Nat \ {0}, NEW q \in Int, p * q <= n, n < p * q + p
  PROVE  n \div p = q
<1> DEFINE d == n \div p
           m == n % p
<1>1. d \in Nat /\ n = p * d + m /\ m \in 0..(p - 1)
  BY Division
<1> HIDE DEF d, m
<1>2. p * d \in Int /\ p * q \in Int /\ p * (d + 1) = p * d + p /\ p * (q + 1) = p * q + p
  BY <1>1
<1>3. ASSUME d + 1 <= q
      PROVE  FALSE
  <2>1. p * (d + 1) <= p * q
    BY <1>1, <1>3, Products
  <2> QED
    BY <1>1, <1>2, <2>1
<1>4. ASSUME q + 1 <= d
      PROVE  FALSE
  <2>1. p * (q + 1) <= p * d
    BY <1>1, <1>4, Products
  <2> QED
    BY <1>1, <1>2, <2>1
<1>5. d = q
  BY <1>1, <1>3, <1>4
<1> QED
  BY <1>5 DEF d

(***************************************************************************)
(* Two times at most w periods apart are at most w steps apart.            *)
(***************************************************************************)
LEMMA NearTimesNearSteps ==
  ASSUME NEW m \in Nat, NEW n \in Nat, NEW p \in Nat \ {0}, NEW w \in Nat, n - m <= w * p
  PROVE  n \div p - m \div p <= w
<1> DEFINE a == m \div p
           b == n \div p
           x == m % p
           y == n % p
<1>1. /\ a \in Nat /\ m = p * a + x /\ x \in 0..(p - 1)
      /\ b \in Nat /\ n = p * b + y /\ y \in 0..(p - 1)
  BY Division
<1> HIDE DEF a, b, x, y
<1>2. ASSUME a + w + 1 <= b
      PROVE  FALSE
  <2>1. p * (a + w + 1) <= p * b
    BY <1>1, <1>2, Products
  <2>2. p * (a + w + 1) = p * a + w * p + p
    BY <1>1
  <2>3. w * p \in Nat /\ p * a \in Nat /\ p * b \in Nat
    BY <1>1
  <2> QED
    BY <1>1, <2>1, <2>2, <2>3
<1>3. b - a <= w
  BY <1>1, <1>2
<1> QED
  BY <1>3 DEF a, b

(***************************************************************************)
(* Two times at least w + 1 periods apart are more than w steps apart.     *)
(***************************************************************************)
LEMMA FarTimesFarSteps ==
  ASSUME NEW m \in Nat, NEW n \in Nat, NEW p \in Nat \ {0}, NEW w \in Nat, n - m >= (w + 1) * p
  PROVE  n \div p - m \div p > w
<1> DEFINE a == m \div p
           b == n \div p
           x == m % p
           y == n % p
<1>1. /\ a \in Nat /\ m = p * a + x /\ x \in 0..(p - 1)
      /\ b \in Nat /\ n = p * b + y /\ y \in 0..(p - 1)
  BY Division
<1> HIDE DEF a, b, x, y
<1>2. ASSUME b <= a + w
      PROVE  FALSE
  <2>1. p * b <= p * (a + w)
    BY <1>1, <1>2, Products
  <2>2. p * (a + w) = p * a + w * p /\ (w + 1) * p = w * p + p
    BY <1>1
  <2>3. w * p \in Nat /\ p * a \in Nat /\ p * b \in Nat
    BY <1>1
  <2> QED
    BY <1>1, <2>1, <2>2, <2>3
<1>3. b - a > w
  BY <1>1, <1>2
<1> QED
  BY <1>3 DEF a, b

-----------------------------------------------------------------------------
(***************************************************************************)
(* The clocks stay in their range, and a code that was read is the one the *)
(* enrolled app computed for the time readAt.                              *)
(***************************************************************************)
CodeIsTheApps ==
  /\ server \in MinTime..MaxTime
  /\ device \in MinTime..MaxTime
  /\ readAt \in 0..MaxTime
  /\ code # None => app # None /\ code = at(readAt, app.period, app.digits)

(***************************************************************************)
(* A clock reads as a time from 0 to MaxTime.                              *)
(***************************************************************************)
LEMMA ClockReading ==
  ASSUME NEW c \in MinTime..MaxTime
  PROVE  now_unix_secs(c) \in 0..MaxTime /\ now_unix_secs(c) \in Nat
  BY CounterAssumption DEF now_unix_secs

(***************************************************************************)
(* No step moves a clock out of range or leaves a code that is not the     *)
(* app's.                                                                  *)
(***************************************************************************)
LEMMA CodeIsTheAppsHolds == Spec => []CodeIsTheApps
<1>1. Init => CodeIsTheApps
  BY CounterAssumption DEF Init, CodeIsTheApps
<1>2. CodeIsTheApps /\ [Next]_vars => CodeIsTheApps'
  <2> SUFFICES ASSUME CodeIsTheApps, [Next]_vars
               PROVE  CodeIsTheApps'
    OBVIOUS
  <2> USE DEF CodeIsTheApps
  <2>1. CASE ServerClock \/ DeviceClock
    BY <2>1 DEF ServerClock, DeviceClock
  <2>2. ASSUME NEW account \in Names, NEW issuer \in Names, Enroll(account, issuer)
        PROVE  CodeIsTheApps'
    BY <2>2 DEF Enroll
  <2>3. CASE Read
    BY <2>3, ClockReading DEF Read
  <2>4. CASE UNCHANGED vars
    BY <2>4
  <2> QED
    BY <2>1, <2>2, <2>3, <2>4 DEF Next
<1> QED
  BY <1>1, <1>2, PTL DEF Spec

(***************************************************************************)
(* The countdown is exact for every period and every time of the device:   *)
(* at least a second, the same code to its last second, the next code      *)
(* after it.                                                               *)
(***************************************************************************)
THEOREM CountdownIsExact == Spec => []CountdownExact
<1>1. ASSUME CodeIsTheApps
      PROVE  CountdownExact
  <2> DEFINE n == now_unix_secs(device)
             q == n \div Period
             m == n % Period
             left == Period - m
  <2>1. n \in Nat
    BY <1>1, ClockReading DEF CodeIsTheApps
  <2> HIDE DEF n
  <2>2. q \in Nat /\ n = Period * q + m /\ m \in 0..(Period - 1)
    BY <2>1, Division, PeriodAssumption
  <2> HIDE DEF q, m
  <2>3. left \in Nat /\ left > 0 /\ n + left = Period * q + Period
    <3>1. Period * q \in Int
      BY <2>2, PeriodAssumption
    <3> QED
      BY <2>1, <2>2, <3>1, PeriodAssumption
  <2> HIDE DEF left
  <2>4. Period * q \in Int /\ Period * (q + 1) = Period * q + Period
    BY <2>2, PeriodAssumption
  <2>5. (n + left - 1) \div Period = q
    <3>1. n + left - 1 \in Nat /\ Period * q <= n + left - 1 /\ n + left - 1 < Period * q + Period
      BY <2>1, <2>3, <2>4, PeriodAssumption
    <3> QED
      BY <2>2, <3>1, StepOf, PeriodAssumption
  <2>6. (n + left) \div Period = q + 1
    <3>1. n + left \in Nat /\ q + 1 \in Int
          /\ Period * (q + 1) <= n + left /\ n + left < Period * (q + 1) + Period
      BY <2>1, <2>2, <2>3, <2>4, PeriodAssumption
    <3> QED
      BY <3>1, StepOf, PeriodAssumption
  <2> QED
    BY <2>3, <2>5, <2>6 DEF CountdownExact, seconds_remaining, n, q, m, left
<1> QED
  BY <1>1, CodeIsTheAppsHolds, PTL

-----------------------------------------------------------------------------
(***************************************************************************)
(* Enrollment.  What names and encoded names are made of, and what         *)
(* urlencoding pushes for one byte.                                        *)
(***************************************************************************)
NameSymbol == Unreserved \cup DOMAIN Hex

EncodedSymbol == Unreserved \cup {"%"}

Unit(b) == IF Copied(b) THEN <<b>> ELSE <<"%">> \o Hex[b]

(***************************************************************************)
(* A percent sign and two digits.                                          *)
(***************************************************************************)
LEMMA Triple ==
  ASSUME NEW a, NEW h, NEW l
  PROVE  <<a>> \o <<h, l>> = <<a, h, l>>
<1> DEFINE S == {a, h, l}
           x == <<a>>
           y == <<h, l>>
           z == <<a, h, l>>
<1>1. x \in Seq(S) /\ y \in Seq(S) /\ z \in Seq(S)
  OBVIOUS
<1>2. /\ Len(x) = 1 /\ Len(y) = 2 /\ Len(z) = 3
      /\ x[1] = a /\ y[1] = h /\ y[2] = l /\ z[1] = a /\ z[2] = h /\ z[3] = l
  OBVIOUS
<1> HIDE DEF x, y, z, S
<1>3. /\ x \o y \in Seq(S) /\ Len(x \o y) = Len(x) + Len(y)
      /\ \A i \in 1..(Len(x) + Len(y)) :
           (x \o y)[i] = IF i <= Len(x) THEN x[i] ELSE y[i - Len(x)]
  BY <1>1, ConcatProperties
<1>4. Len(x \o y) = 3 /\ \A i \in 1..3 : (x \o y)[i] = z[i]
  BY <1>2, <1>3
<1>5. x \o y = z
  BY <1>1, <1>2, <1>3, <1>4, SeqEqual
<1> QED
  BY <1>5 DEF x, y, z

(***************************************************************************)
(* A byte is copied or becomes an escape of three symbols.                 *)
(***************************************************************************)
LEMMA UnitIs ==
  ASSUME NEW b \in NameSymbol
  PROVE  /\ Unit(b) \in Seq(EncodedSymbol)
         /\ b \in Unreserved => Unit(b) = <<b>>
         /\ b \notin Unreserved =>
              \E h, l \in Unreserved :
                /\ b \in DOMAIN Hex /\ Hex[b] = <<h, l>>
                /\ Unit(b) = <<"%", h, l>>
<1>1. CASE b \in Unreserved
  BY <1>1 DEF Unit, Copied, EncodedSymbol
<1>2. CASE b \notin Unreserved
  <2>1. b \in DOMAIN Hex
    BY <1>2 DEF NameSymbol
  <2>2. PICK h \in Unreserved, l \in Unreserved : Hex[b] = <<h, l>>
    BY <2>1, HexAssumption
  <2>3. Unit(b) = <<"%">> \o <<h, l>>
    BY <1>2, <2>2 DEF Unit, Copied
  <2>4. Unit(b) = <<"%", h, l>>
    BY <2>3, Triple
  <2>5. Unit(b) \in Seq(EncodedSymbol)
    BY <2>4 DEF EncodedSymbol
  <2> QED
    BY <1>2, <2>1, <2>2, <2>4, <2>5
<1> QED
  BY <1>1, <1>2

(***************************************************************************)
(* urlencoding pushes the units of the bytes one after the other.          *)
(***************************************************************************)
LEMMA EncodeAppend ==
  ASSUME NEW s \in Seq(NameSymbol), NEW b \in NameSymbol
  PROVE  /\ urlencoding(s) \in Seq(EncodedSymbol)
         /\ urlencoding(Append(s, b)) = urlencoding(s) \o Unit(b)
<1> DEFINE r == Append(s, b)
           us == [i \in DOMAIN s |-> Unit(s[i])]
           ur == [i \in DOMAIN r |-> Unit(r[i])]
<1>1. urlencoding(s) = FlattenSeq(us) /\ urlencoding(r) = FlattenSeq(ur)
  BY DEF urlencoding, Unit
<1>2. /\ Len(s) \in Nat /\ DOMAIN s = 1..Len(s) /\ DOMAIN r = 1..(Len(s) + 1)
      /\ \A i \in 1..Len(s) : r[i] = s[i] /\ s[i] \in NameSymbol
      /\ r[Len(s) + 1] = b
  BY AppendProperties, LenProperties, ElementOfSeq
<1> HIDE DEF r
<1>3. us \in Seq(Seq(EncodedSymbol)) /\ Len(us) = Len(s)
  <2>1. \A i \in 1..Len(s) : Unit(s[i]) \in Seq(EncodedSymbol)
    BY <1>2, UnitIs
  <2> QED
    BY <1>2, <2>1
<1>4. Unit(b) \in Seq(EncodedSymbol)
  BY UnitIs
<1>5. ur = Append(us, Unit(b))
  BY <1>2, <1>3, <1>4
<1> HIDE DEF us, ur
<1> QED
  BY <1>1, <1>3, <1>4, <1>5, FlattenAppend DEF r

-----------------------------------------------------------------------------
(***************************************************************************)
(* An encoded text in which every escape is complete.                      *)
(***************************************************************************)
Whole(t) == \A i \in 1..Len(t) : t[i] = "%" => i + 2 <= Len(t)

(***************************************************************************)
(* What the app makes of the symbol at position i of a text.               *)
(***************************************************************************)
Byte(digits) == CHOOSE b \in DOMAIN Hex : Hex[b] = digits

Piece(t, i) ==
  IF i \in DOMAIN t /\ t[i] = "%" THEN <<Byte(SubSeq(t, i + 1, i + 2))>>
  ELSE IF \/ i - 1 \in DOMAIN t /\ t[i - 1] = "%"
          \/ i - 2 \in DOMAIN t /\ t[i - 2] = "%" THEN << >>
  ELSE <<t[i]>>

Pieces(t) == [i \in DOMAIN t |-> Piece(t, i)]

(***************************************************************************)
(* Decoding joins the pieces.                                              *)
(***************************************************************************)
LEMMA DecodedIs ==
  ASSUME NEW t
  PROVE  Decoded(t) = FlattenSeq(Pieces(t))
<1>1. \A i : i \in {j \in DOMAIN t : t[j] = "%"} <=> i \in DOMAIN t /\ t[i] = "%"
  OBVIOUS
<1> QED
  BY <1>1 DEF Decoded, Pieces, Piece, Byte

(***************************************************************************)
(* What is added after complete escapes changes none of the pieces.        *)
(***************************************************************************)
LEMMA PiecesStay ==
  ASSUME NEW t \in Seq(EncodedSymbol), NEW u \in Seq(EncodedSymbol), Whole(t)
  PROVE  \A i \in 1..Len(t) : Piece(t \o u, i) = Piece(t, i)
<1> DEFINE r == t \o u
<1>1. /\ r \in Seq(EncodedSymbol) /\ Len(r) = Len(t) + Len(u)
      /\ Len(t) \in Nat /\ Len(u) \in Nat
      /\ DOMAIN t = 1..Len(t) /\ DOMAIN r = 1..(Len(t) + Len(u))
      /\ \A i \in 1..Len(t) : r[i] = t[i]
  BY ConcatProperties, LenProperties
<1> SUFFICES ASSUME NEW i \in 1..Len(t)
             PROVE  Piece(r, i) = Piece(t, i)
  OBVIOUS
<1>2. /\ i \in DOMAIN r /\ i \in DOMAIN t
      /\ i - 1 \in DOMAIN r <=> i - 1 \in DOMAIN t
      /\ i - 2 \in DOMAIN r <=> i - 2 \in DOMAIN t
      /\ i - 1 \in DOMAIN t => r[i - 1] = t[i - 1]
      /\ i - 2 \in DOMAIN t => r[i - 2] = t[i - 2]
  BY <1>1
<1>3. CASE t[i] = "%"
  <2>1. i + 1 \in 1..Len(t) /\ i + 2 \in 1..Len(t)
    BY <1>1, <1>3 DEF Whole
  <2>2. SubSeq(r, i + 1, i + 2) = SubSeq(t, i + 1, i + 2)
    BY <2>1, SubSeqOfConcat1
  <2>3. r[i] = t[i]
    BY <1>1
  <2> HIDE DEF r
  <2> QED
    BY <1>2, <1>3, <2>2, <2>3 DEF Piece
<1>4. CASE t[i] # "%"
  <2>1. r[i] = t[i]
    BY <1>1
  <2> HIDE DEF r
  <2> QED
    BY <1>2, <1>4, <2>1 DEF Piece
<1> QED
  BY <1>3, <1>4

(***************************************************************************)
(* What Decoded has made of a text so far.                                 *)
(***************************************************************************)
Decodes(t, s) ==
  /\ t \in Seq(EncodedSymbol) /\ Whole(t)
  /\ Pieces(t) \in Seq(Seq(NameSymbol))
  /\ Decoded(t) = s

(***************************************************************************)
(* A copied byte stands for itself.                                        *)
(***************************************************************************)
LEMMA DecodeCopied ==
  ASSUME NEW s \in Seq(NameSymbol), NEW t, Decodes(t, s), NEW b \in Unreserved
  PROVE  Decodes(t \o <<b>>, Append(s, b))
<1> DEFINE u == <<b>>
           r == t \o u
           n == Len(t)
<1>1. t \in Seq(EncodedSymbol) /\ u \in Seq(EncodedSymbol) /\ Len(u) = 1 /\ u[1] = b
  BY DEF Decodes, EncodedSymbol
<1> HIDE DEF u
<1>2. /\ r \in Seq(EncodedSymbol) /\ n \in Nat /\ DOMAIN t = 1..n
      /\ Len(r) = n + 1 /\ DOMAIN r = 1..(n + 1)
      /\ \A i \in 1..n : r[i] = t[i]
      /\ r[n + 1] = b
  <2>1. n \in Nat /\ DOMAIN t = 1..n
    BY <1>1, LenProperties
  <2>2. /\ r \in Seq(EncodedSymbol) /\ Len(r) = n + Len(u)
        /\ \A i \in 1..(n + Len(u)) : r[i] = IF i <= n THEN t[i] ELSE u[i - n]
    BY <1>1, ConcatProperties
  <2> HIDE DEF r, n
  <2>3. DOMAIN r = 1..Len(r)
    BY <2>2, LenProperties
  <2> QED
    BY <1>1, <2>1, <2>2, <2>3
<1>3. b # "%" /\ b \in NameSymbol
  BY UnreservedAssumption DEF NameSymbol
<1>4. Whole(t)
  BY DEF Decodes
<1>5. \A i \in 1..n : Piece(r, i) = Piece(t, i)
  BY <1>1, <1>4, PiecesStay
<1> HIDE DEF r
<1>6. Whole(r)
  BY <1>2, <1>3, <1>4 DEF Whole
<1>7. Piece(r, n + 1) = <<b>>
  <2>1. \A i \in 1..n : r[i] = "%" => i + 2 <= n
    BY <1>2, <1>4 DEF Whole
  <2>2. /\ ~((n + 1) - 1 \in DOMAIN r /\ r[(n + 1) - 1] = "%")
        /\ ~((n + 1) - 2 \in DOMAIN r /\ r[(n + 1) - 2] = "%")
    BY <1>2, <2>1
  <2> QED
    BY <1>2, <1>3, <2>2 DEF Piece
<1>8. Pieces(t) \in Seq(Seq(NameSymbol)) /\ Len(Pieces(t)) = n
  BY <1>2 DEF Decodes, Pieces
<1>9. <<b>> \in Seq(NameSymbol)
  BY <1>3
<1>10. Pieces(r) = Append(Pieces(t), <<b>>)
  <2>1. Pieces(t) = [i \in 1..n |-> Piece(t, i)]
    BY <1>2 DEF Pieces
  <2>2. Pieces(r) = [i \in 1..(n + 1) |-> Piece(r, i)]
    BY <1>2 DEF Pieces
  <2> QED
    BY <1>2, <1>5, <1>7, <1>8, <1>9, <2>1, <2>2
<1>11. Pieces(r) \in Seq(Seq(NameSymbol))
  BY <1>8, <1>9, <1>10, AppendProperties
<1>12. Decoded(r) = Decoded(t) \o <<b>>
  BY <1>8, <1>9, <1>10, DecodedIs, FlattenAppend
<1>13. Decoded(r) = Append(s, b)
  BY <1>3, <1>12, AppendIsConcat DEF Decodes
<1> QED
  BY <1>2, <1>6, <1>11, <1>13 DEF Decodes, r, u

(***************************************************************************)
(* An escape stands for the byte whose digits it holds.                    *)
(***************************************************************************)
LEMMA DecodeEscaped ==
  ASSUME NEW s \in Seq(NameSymbol), NEW t, Decodes(t, s),
         NEW b \in DOMAIN Hex, NEW h \in Unreserved, NEW l \in Unreserved, Hex[b] = <<h, l>>
  PROVE  Decodes(t \o <<"%", h, l>>, Append(s, b))
<1> DEFINE u == <<"%", h, l>>
           r == t \o u
           n == Len(t)
<1>1. /\ t \in Seq(EncodedSymbol) /\ u \in Seq(EncodedSymbol)
      /\ Len(u) = 3 /\ u[1] = "%" /\ u[2] = h /\ u[3] = l
  BY DEF Decodes, EncodedSymbol
<1> HIDE DEF u
<1>2. /\ r \in Seq(EncodedSymbol) /\ n \in Nat /\ DOMAIN t = 1..n
      /\ Len(r) = n + 3 /\ DOMAIN r = 1..(n + 3)
      /\ \A i \in 1..n : r[i] = t[i]
      /\ r[n + 1] = "%" /\ r[n + 2] = h /\ r[n + 3] = l
  <2>1. n \in Nat /\ DOMAIN t = 1..n
    BY <1>1, LenProperties
  <2>2. /\ r \in Seq(EncodedSymbol) /\ Len(r) = n + Len(u)
        /\ \A i \in 1..(n + Len(u)) : r[i] = IF i <= n THEN t[i] ELSE u[i - n]
    BY <1>1, ConcatProperties
  <2> HIDE DEF r, n
  <2>3. DOMAIN r = 1..Len(r)
    BY <2>2, LenProperties
  <2> QED
    BY <1>1, <2>1, <2>2, <2>3
<1>3. h # "%" /\ l # "%" /\ b \in NameSymbol
  BY UnreservedAssumption DEF NameSymbol
<1>4. Whole(t)
  BY DEF Decodes
<1>5. \A i \in 1..n : Piece(r, i) = Piece(t, i)
  BY <1>1, <1>4, PiecesStay
<1> HIDE DEF r
<1>6. Whole(r)
  BY <1>2, <1>3, <1>4 DEF Whole
<1>7. Piece(r, n + 1) = <<b>>
  <2>1. SubSeq(r, n + 2, n + 3) = <<h, l>>
    <3>1. \A i \in (n + 2)..(n + 3) : r[i] \in Unreserved
      BY <1>2
    <3> DEFINE w == SubSeq(r, n + 2, n + 3)
    <3>2. w \in Seq(Unreserved) /\ Len(w) = 2 /\ \A i \in 1..2 : w[i] = r[n + 2 + i - 1]
      <4>1. n + 2 \in Int /\ n + 3 \in Int /\ (n + 3) - (n + 2) + 1 = 2 /\ n + 2 <= n + 3
        BY <1>2
      <4> QED
        BY <3>1, <4>1, SubSeqProperties
    <3> HIDE DEF w
    <3>3. w[1] = h /\ w[2] = l
      BY <1>2, <3>2
    <3>4. w = <<h, l>>
      BY <3>2, <3>3
    <3> QED
      BY <3>4 DEF w
  <2>2. Byte(<<h, l>>) = b
    BY HexAssumption DEF Byte
  <2>3. (n + 1) + 1 = n + 2 /\ (n + 1) + 2 = n + 3 /\ n + 1 \in DOMAIN r
    BY <1>2
  <2> QED
    BY <1>2, <2>1, <2>2, <2>3 DEF Piece
<1>8. Piece(r, n + 2) = << >> /\ Piece(r, n + 3) = << >>
  <2>1. /\ (n + 2) - 1 = n + 1 /\ (n + 3) - 2 = n + 1
        /\ n + 1 \in DOMAIN r /\ n + 2 \in DOMAIN r /\ n + 3 \in DOMAIN r
    BY <1>2
  <2> QED
    BY <1>2, <1>3, <2>1 DEF Piece
<1>9. Pieces(t) \in Seq(Seq(NameSymbol)) /\ Len(Pieces(t)) = n
  BY <1>2 DEF Decodes, Pieces
<1>10. <<b>> \in Seq(NameSymbol) /\ << >> \in Seq(NameSymbol)
  BY <1>3
<1> DEFINE p == Pieces(t)
           p1 == Append(p, <<b>>)
           p2 == Append(p1, << >>)
           p3 == Append(p2, << >>)
<1>11. /\ p1 \in Seq(Seq(NameSymbol)) /\ p2 \in Seq(Seq(NameSymbol)) /\ p3 \in Seq(Seq(NameSymbol))
       /\ Len(p3) = n + 3 /\ p3[n + 1] = <<b>> /\ p3[n + 2] = << >> /\ p3[n + 3] = << >>
       /\ \A i \in 1..n : p3[i] = p[i]
  <2> HIDE DEF p
  <2> QED
    BY <1>9, <1>10 DEF p
<1>12. Pieces(r) = p3
  <2>1. \A i \in 1..n : p[i] = Piece(t, i)
    BY <1>2 DEF Pieces
  <2>2. Pieces(r) = [i \in 1..(n + 3) |-> Piece(r, i)]
    BY <1>2 DEF Pieces
  <2> HIDE DEF p, p3
  <2>3. p3 = [i \in 1..(n + 3) |-> p3[i]]
    BY <1>2, <1>11
  <2>4. \A i \in 1..(n + 3) : i \in 1..n \/ i = n + 1 \/ i = n + 2 \/ i = n + 3
    BY <1>2
  <2>5. \A i \in 1..(n + 3) : p3[i] = Piece(r, i)
    BY <1>5, <1>7, <1>8, <1>11, <2>1, <2>4
  <2> QED
    BY <2>2, <2>3, <2>5
<1>13. Decoded(r) = Decoded(t) \o <<b>>
  <2> HIDE DEF p
  <2>1. FlattenSeq(p1) = FlattenSeq(p) \o <<b>>
    BY <1>9, <1>10, FlattenAppend DEF p
  <2>2. FlattenSeq(p1) \in Seq(NameSymbol) /\ FlattenSeq(p2) = FlattenSeq(p1) \o << >>
    <3> HIDE DEF p1
    <3> QED
      BY <1>10, <1>11, FlattenAppend
  <2>3. FlattenSeq(p2) = FlattenSeq(p1)
    BY <2>2, ConcatEmptySeq
  <2>4. FlattenSeq(p3) = FlattenSeq(p2) \o << >>
    <3> HIDE DEF p2
    <3> QED
      BY <1>10, <1>11, FlattenAppend
  <2>5. FlattenSeq(p3) = FlattenSeq(p1)
    BY <2>2, <2>3, <2>4, ConcatEmptySeq
  <2> HIDE DEF p3
  <2> QED
    BY <1>12, <2>1, <2>5, DecodedIs DEF p
<1>14. Decoded(r) = Append(s, b)
  BY <1>3, <1>13, AppendIsConcat DEF Decodes
<1>15. Pieces(r) \in Seq(Seq(NameSymbol))
  BY <1>11, <1>12
<1> QED
  BY <1>2, <1>6, <1>14, <1>15 DEF Decodes, r, u

(***************************************************************************)
(* Every name survives urlencoding and the app's decoding, a percent sign  *)
(* that looks like an escape included.  By induction over the name.        *)
(***************************************************************************)
LEMMA EncodingRoundTrip ==
  ASSUME NEW s \in Seq(NameSymbol)
  PROVE  Decodes(urlencoding(s), s)
<1> DEFINE T == {r \in Seq(NameSymbol) : Decodes(urlencoding(r), r)}
<1>1. << >> \in T
  <2>1. urlencoding(<< >>) = << >>
    BY FlattenEmpty DEF urlencoding
  <2>2. Pieces(<< >>) = << >>
    BY DEF Pieces
  <2>3. Decoded(<< >>) = << >>
    BY <2>2, DecodedIs, FlattenEmpty
  <2>4. Whole(<< >>)
    BY DEF Whole
  <2>5. /\ << >> \in Seq(NameSymbol) /\ << >> \in Seq(EncodedSymbol)
        /\ << >> \in Seq(Seq(NameSymbol))
    BY EmptySeq
  <2>6. Decodes(<< >>, << >>)
    BY <2>2, <2>3, <2>4, <2>5 DEF Decodes
  <2> QED
    BY <2>1, <2>5, <2>6
<1>2. ASSUME NEW r \in Seq(NameSymbol), NEW b \in NameSymbol, r \in T
      PROVE  Append(r, b) \in T
  <2>1. Append(r, b) \in Seq(NameSymbol)
    OBVIOUS
  <2>2. urlencoding(Append(r, b)) = urlencoding(r) \o Unit(b)
    BY EncodeAppend
  <2>3. Decodes(urlencoding(r), r)
    BY <1>2
  <2>4. CASE b \in Unreserved
    BY <2>1, <2>2, <2>3, <2>4, UnitIs, DecodeCopied
  <2>5. CASE b \notin Unreserved
    <3>1. PICK h \in Unreserved, l \in Unreserved :
             b \in DOMAIN Hex /\ Hex[b] = <<h, l>> /\ Unit(b) = <<"%", h, l>>
      BY <2>5, UnitIs
    <3>2. Decodes(urlencoding(r) \o <<"%", h, l>>, Append(r, b))
      BY <2>3, <3>1, DecodeEscaped
    <3> QED
      BY <2>1, <2>2, <3>1, <3>2
  <2> QED
    BY <2>4, <2>5
<1>3. \A r \in Seq(NameSymbol) : r \in T
  <2> HIDE DEF T
  <2> QED
    BY <1>1, <1>2, InductionOverSeq
<1> QED
  BY <1>3

-----------------------------------------------------------------------------
(***************************************************************************)
(* What a URI is made of, and texts that hold none of its separators.      *)
(***************************************************************************)
UriSymbol ==
  EncodedSymbol \cup {":", "?", "&", "=", "SHA1",
                      "secret", "issuer", "period", "digits", "algorithm"}

Plain(X) ==
  /\ X \in Seq(UriSymbol)
  /\ \A i \in 1..Len(X) : X[i] \notin {":", "?", "&", "="}

(***************************************************************************)
(* Parts of a URI may be grouped either way.                               *)
(***************************************************************************)
LEMMA Regroup ==
  ASSUME NEW A \in Seq(UriSymbol), NEW B \in Seq(UriSymbol), NEW C \in Seq(UriSymbol)
  PROVE  (A \o B) \o C = A \o (B \o C)
  BY ConcatAssociative

(***************************************************************************)
(* No byte of a name comes out of urlencoding as a separator.              *)
(***************************************************************************)
LEMMA EncodedIsPlain ==
  ASSUME NEW s \in Seq(NameSymbol)
  PROVE  Plain(urlencoding(s)) /\ Decoded(urlencoding(s)) = s
<1> DEFINE t == urlencoding(s)
<1>1. t \in Seq(EncodedSymbol) /\ Decoded(t) = s
  BY EncodingRoundTrip DEF Decodes
<1> HIDE DEF t
<1>2. t \in Seq(UriSymbol)
  BY <1>1, SeqMonotonic DEF UriSymbol
<1>3. \A i \in 1..Len(t) : t[i] \in EncodedSymbol
  BY <1>1, ElementOfSeq
<1>4. \A c \in EncodedSymbol : c \notin {":", "?", "&", "="}
  BY UnreservedAssumption DEF EncodedSymbol
<1>5. Plain(t)
  BY <1>2, <1>3, <1>4 DEF Plain
<1> QED
  BY <1>1, <1>5 DEF t

(***************************************************************************)
(* A value of one symbol is read as it was written.                        *)
(***************************************************************************)
LEMMA OneSymbol ==
  ASSUME NEW x \in UriSymbol, x \notin {":", "?", "&", "=", "%"}
  PROVE  Plain(<<x>>) /\ Decoded(<<x>>) = <<x>>
<1> DEFINE t == <<x>>
           S == {x}
<1>1. /\ t \in Seq(UriSymbol) /\ t \in Seq(S) /\ Len(t) = 1
      /\ DOMAIN t = 1..1 /\ t[1] = x
  OBVIOUS
<1> HIDE DEF t
<1>2. Plain(t)
  BY <1>1 DEF Plain
<1>3. Piece(t, 1) = <<x>>
  BY <1>1 DEF Piece
<1>4. Pieces(t) = [i \in 1..1 |-> <<x>>]
  BY <1>1, <1>3 DEF Pieces
<1>5. <<x>> \in Seq(S) /\ << >> \in Seq(Seq(S)) /\ << >> \in Seq(S)
  OBVIOUS
<1>6. Pieces(t) = Append(<< >>, <<x>>)
  BY <1>4, <1>5
<1>7. FlattenSeq(Append(<< >>, <<x>>)) = FlattenSeq(<< >>) \o <<x>>
  BY <1>5, FlattenAppend
<1>8. << >> \o <<x>> = <<x>>
  BY <1>5, ConcatEmptySeq
<1>9. Decoded(t) = <<x>>
  BY <1>6, <1>7, <1>8, FlattenEmpty, DecodedIs
<1> QED
  BY <1>2, <1>9 DEF t

(***************************************************************************)
(* Cutting at a separator gives back what stands between two of them.      *)
(***************************************************************************)
LEMMA CutOut ==
  ASSUME NEW A \in Seq(UriSymbol), NEW X \in Seq(UriSymbol), NEW C \in Seq(UriSymbol), NEW ends,
         \A i \in 1..Len(X) : X[i] \notin ends,
         C = << >> \/ C[1] \in ends
  PROVE  UpTo(A \o (X \o C), Len(A), ends) = X
<1> DEFINE B == X \o C
           uri == A \o B
           rest == SubSeq(uri, Len(A) + 1, Len(uri))
           I == {k \in 1..Len(rest) : rest[k] \in ends}
           j == IF I # {} THEN Min(I) ELSE 0
<1>1. /\ Len(A) \in Nat /\ Len(X) \in Nat /\ Len(C) \in Nat
      /\ B \in Seq(UriSymbol) /\ Len(B) = Len(X) + Len(C)
      /\ \A i \in 1..(Len(X) + Len(C)) : B[i] = IF i <= Len(X) THEN X[i] ELSE C[i - Len(X)]
  BY ConcatProperties, LenProperties
<1> HIDE DEF B
<1>2. /\ uri \in Seq(UriSymbol) /\ Len(uri) = Len(A) + Len(B)
      /\ \A i \in 1..(Len(A) + Len(B)) : uri[i] = IF i <= Len(A) THEN A[i] ELSE B[i - Len(A)]
  BY <1>1, ConcatProperties
<1>3. UpTo(uri, Len(A), ends) = IF j = 0 THEN rest ELSE SubSeq(rest, 1, j - 1)
  BY DEF UpTo, SelectInSeq
<1>4. rest = B
  <2> HIDE DEF uri
  <2>1. Len(A) + 1 \in Int /\ Len(uri) \in Int
        /\ \A i \in (Len(A) + 1)..Len(uri) : uri[i] \in UriSymbol
    BY <1>1, <1>2, ElementOfSeq, LenProperties
  <2>2. /\ rest \in Seq(UriSymbol)
        /\ Len(rest) = IF Len(A) + 1 <= Len(uri) THEN Len(uri) - (Len(A) + 1) + 1 ELSE 0
        /\ \A i \in 1..(Len(uri) - (Len(A) + 1) + 1) : rest[i] = uri[Len(A) + 1 + i - 1]
    BY <2>1, SubSeqProperties
  <2> HIDE DEF rest
  <2>3. Len(B) \in Nat
    BY <1>1
  <2>4. Len(rest) = Len(B) /\ \A i \in 1..Len(B) : rest[i] = B[i]
    <3>1. Len(uri) - (Len(A) + 1) + 1 = Len(B) /\ Len(rest) = Len(B)
      BY <1>1, <1>2, <2>2, <2>3
    <3>2. ASSUME NEW i \in 1..Len(B)
          PROVE  rest[i] = B[i]
      <4>1. rest[i] = uri[Len(A) + 1 + i - 1]
        BY <2>2, <3>1
      <4>2. Len(A) + 1 + i - 1 = Len(A) + i
        BY <1>1, <2>3
      <4>3. uri[Len(A) + i] = B[i]
        BY <1>1, ConcatAt DEF uri
      <4> QED
        BY <4>1, <4>2, <4>3
    <3> QED
      BY <3>1, <3>2
  <2> QED
    BY <1>1, <2>2, <2>4, SeqEqual
<1> HIDE DEF rest, uri
<1>5. (j = 0 <=> I = {}) /\ (I # {} => j \in I) /\ \A k \in I : j <= k
  <2>1. I \in SUBSET (1..Len(rest)) /\ Len(rest) \in Nat
    BY <1>1, <1>4
  <2> HIDE DEF I
  <2> QED
    BY <2>1, FirstPosition
<1>6. \A k \in 1..Len(X) : k \notin I
  BY <1>1, <1>4
<1>7. CASE C = << >>
  <2>1. rest = X
    BY <1>4, <1>7, ConcatEmptySeq DEF B
  <2>2. I = {}
    BY <1>6, <2>1
  <2> QED
    BY <1>3, <1>5, <2>1, <2>2 DEF uri, B
<1>8. CASE C # << >>
  <2>1. Len(C) > 0 /\ C[1] \in ends
    BY <1>8, EmptySeq
  <2>2. Len(X) + 1 \in I
    <3>1. /\ Len(X) + 1 \in 1..(Len(X) + Len(C)) /\ ~(Len(X) + 1 <= Len(X))
          /\ (Len(X) + 1) - Len(X) = 1
      BY <1>1, <2>1
    <3>2. B[Len(X) + 1] = C[1]
      BY <1>1, <3>1
    <3> QED
      BY <1>1, <1>4, <2>1, <3>1, <3>2
  <2>3. j = Len(X) + 1
    <3> HIDE DEF j
    <3>1. j \in I /\ j <= Len(X) + 1
      BY <1>5, <2>2
    <3>2. j \in Nat \ {0} /\ j \notin 1..Len(X)
      BY <1>1, <1>4, <1>6, <3>1
    <3> QED
      BY <1>1, <3>1, <3>2
  <2>4. SubSeq(rest, 1, Len(X)) = X
    <3>1. CASE Len(X) = 0
      BY <1>1, <3>1, EmptySeq, SubSeqEmpty
    <3>2. CASE Len(X) # 0
      <4>1. 1 \in 1..Len(X) /\ Len(X) \in 1..Len(X)
        BY <1>1, <3>2
      <4>2. SubSeq(X \o C, 1, Len(X)) = SubSeq(X, 1, Len(X))
        BY <4>1, SubSeqOfConcat1
      <4> QED
        BY <1>4, <4>2, SubSeqFull DEF B
    <3> QED
      BY <3>1, <3>2
  <2> HIDE DEF j
  <2>5. j # 0 /\ j - 1 = Len(X)
    BY <1>1, <2>3
  <2> QED
    BY <1>3, <2>4, <2>5 DEF uri, B
<1> QED
  BY <1>7, <1>8

(***************************************************************************)
(* A separator is found where the text before it ends.                     *)
(***************************************************************************)
LEMMA FirstOf ==
  ASSUME NEW A \in Seq(UriSymbol), NEW C \in Seq(UriSymbol), NEW c \in UriSymbol,
         \A i \in 1..Len(A) : A[i] # c
  PROVE  SelectInSeq(A \o (<<c>> \o C), LAMBDA x : x = c) = Len(A) + 1
<1> DEFINE x == <<c>>
           B == x \o C
           uri == A \o B
           I == {k \in 1..Len(uri) : uri[k] = c}
           j == IF I # {} THEN Min(I) ELSE 0
<1>1. x \in Seq(UriSymbol) /\ Len(x) = 1 /\ x[1] = c
  OBVIOUS
<1> HIDE DEF x
<1>2. B \in Seq(UriSymbol) /\ Len(C) \in Nat /\ Len(B) = 1 + Len(C) /\ B[1] = c
  <2>1. /\ B \in Seq(UriSymbol) /\ Len(C) \in Nat /\ Len(B) = Len(x) + Len(C)
        /\ \A i \in 1..Len(x) : B[i] = x[i]
    <3>1. x \in Seq(UriSymbol)
      BY <1>1
    <3> QED
      BY <3>1, ConcatAt
  <2> HIDE DEF B
  <2> QED
    BY <1>1, <2>1
<1> HIDE DEF B
<1>3. /\ Len(A) \in Nat /\ Len(uri) = Len(A) + Len(B)
      /\ \A i \in 1..Len(A) : uri[i] = A[i]
      /\ \A i \in 1..Len(B) : uri[Len(A) + i] = B[i]
  <2>1. B \in Seq(UriSymbol)
    BY <1>2
  <2> QED
    BY <2>1, ConcatAt
<1>4. SelectInSeq(uri, LAMBDA y : y = c) = j
  BY DEF SelectInSeq
<1> HIDE DEF uri
<1>5. (j = 0 <=> I = {}) /\ (I # {} => j \in I) /\ \A k \in I : j <= k
  <2>1. I \in SUBSET (1..Len(uri)) /\ Len(uri) \in Nat
    BY <1>2, <1>3
  <2> HIDE DEF I
  <2> QED
    BY <2>1, FirstPosition
<1>6. Len(A) + 1 \in I
  <2>1. 1 \in 1..Len(B) /\ Len(A) + 1 \in 1..Len(uri)
    BY <1>2, <1>3
  <2>2. uri[Len(A) + 1] = c
    BY <1>2, <1>3, <2>1
  <2> QED
    BY <2>1, <2>2
<1>7. \A k \in I : k \in Nat /\ k \notin 1..Len(A)
  BY <1>2, <1>3
<1> HIDE DEF I, j
<1>8. j = Len(A) + 1
  <2>1. j \in I /\ j <= Len(A) + 1
    BY <1>5, <1>6
  <2>2. j \in Nat /\ j \notin 1..Len(A) /\ j # 0
    BY <1>5, <1>7, <2>1
  <2> QED
    BY <1>3, <2>1, <2>2
<1> QED
  BY <1>4, <1>8 DEF uri, B, x

(***************************************************************************)
(* A text that is clear of a parameter has no separator with its name      *)
(* after it, nor one at its end that could get one.  A text is open when   *)
(* its query has begun.                                                    *)
(***************************************************************************)
Clear(A, name) ==
  \A k \in 1..Len(A) : A[k] \in {"?", "&"} => k < Len(A) /\ A[k + 1] # name

Open(A) == \E k \in 1..Len(A) : A[k] = "?"

ParameterName == {"secret", "issuer", "period", "digits", "algorithm"}

(***************************************************************************)
(* What the field of a parameter looks like.                               *)
(***************************************************************************)
LEMMA FieldIs ==
  ASSUME NEW sep \in {"?", "&"}, NEW name \in ParameterName, NEW X, Plain(X)
  PROVE  /\ Field(sep, name, X) \in Seq(UriSymbol)
         /\ Len(X) \in Nat /\ Len(Field(sep, name, X)) = 3 + Len(X)
         /\ Field(sep, name, X)[1] = sep /\ Field(sep, name, X)[2] = name
         /\ Field(sep, name, X)[3] = "="
         /\ \A i \in 1..Len(X) : Field(sep, name, X)[3 + i] = X[i]
<1> DEFINE P == <<sep, name, "=">>
<1>1. P \in Seq(UriSymbol) /\ Len(P) = 3 /\ P[1] = sep /\ P[2] = name /\ P[3] = "="
  BY DEF UriSymbol, ParameterName
<1>2. X \in Seq(UriSymbol)
  BY DEF Plain
<1>3. Field(sep, name, X) = P \o X
  BY DEF Field
<1> HIDE DEF P
<1>4. /\ P \o X \in Seq(UriSymbol) /\ Len(X) \in Nat /\ Len(P \o X) = Len(P) + Len(X)
      /\ \A i \in 1..Len(P) : (P \o X)[i] = P[i]
      /\ \A i \in 1..Len(X) : (P \o X)[Len(P) + i] = X[i]
  <2>1. P \in Seq(UriSymbol)
    BY <1>1
  <2> QED
    BY <1>2, <2>1, ConcatAt
<1> QED
  BY <1>1, <1>3, <1>4

(***************************************************************************)
(* The field of one parameter is clear of every other.                     *)
(***************************************************************************)
LEMMA FieldIsClear ==
  ASSUME NEW sep \in {"?", "&"}, NEW other \in ParameterName, NEW X, Plain(X),
         NEW name \in ParameterName \ {other}
  PROVE  Clear(Field(sep, other, X), name)
<1> DEFINE F == Field(sep, other, X)
<1>1. /\ Len(X) \in Nat /\ Len(F) = 3 + Len(X)
      /\ F[1] = sep /\ F[2] = other /\ F[3] = "="
      /\ \A i \in 1..Len(X) : F[3 + i] = X[i]
  BY FieldIs
<1> HIDE DEF F
<1>2. ASSUME NEW k \in 1..Len(F), F[k] \in {"?", "&"}
      PROVE  k < Len(F) /\ F[k + 1] # name
  <2>1. CASE k = 1
    BY <1>1, <2>1
  <2>2. CASE k = 2
    BY <1>1, <1>2, <2>2 DEF ParameterName
  <2>3. CASE k = 3
    BY <1>1, <1>2, <2>3
  <2>4. CASE k > 3
    <3>1. k - 3 \in 1..Len(X) /\ 3 + (k - 3) = k
      BY <1>1, <2>4
    <3>2. F[k] = X[k - 3]
      BY <1>1, <3>1
    <3> QED
      BY <1>2, <3>1, <3>2 DEF Plain
  <2> QED
    BY <2>1, <2>2, <2>3, <2>4
<1> QED
  BY <1>2 DEF Clear, F

(***************************************************************************)
(* Both properties hold of a text that goes on.                            *)
(***************************************************************************)
LEMMA TextGoesOn ==
  ASSUME NEW A \in Seq(UriSymbol), NEW B \in Seq(UriSymbol)
  PROVE  /\ A \o B \in Seq(UriSymbol)
         /\ Open(A) \/ Open(B) => Open(A \o B)
         /\ \A name : Clear(A, name) /\ Clear(B, name) => Clear(A \o B, name)
<1> DEFINE D == A \o B
<1>1. /\ D \in Seq(UriSymbol) /\ Len(A) \in Nat /\ Len(B) \in Nat
      /\ Len(D) = Len(A) + Len(B)
      /\ \A i \in 1..Len(A) : D[i] = A[i]
      /\ \A i \in 1..Len(B) : D[Len(A) + i] = B[i]
  BY ConcatAt
<1> HIDE DEF D
<1>2. ASSUME Open(A)
      PROVE  Open(D)
  BY <1>1, <1>2 DEF Open
<1>3. ASSUME Open(B)
      PROVE  Open(D)
  <2>1. PICK k \in 1..Len(B) : B[k] = "?"
    BY <1>3 DEF Open
  <2>2. Len(A) + k \in 1..Len(D)
    BY <1>1
  <2>3. D[Len(A) + k] = "?"
    BY <1>1, <2>1
  <2> QED
    BY <2>2, <2>3 DEF Open
<1>4. ASSUME NEW name, Clear(A, name), Clear(B, name)
      PROVE  Clear(D, name)
  <2> SUFFICES ASSUME NEW k \in 1..Len(D), D[k] \in {"?", "&"}
               PROVE  k < Len(D) /\ D[k + 1] # name
    BY DEF Clear
  <2>1. CASE k <= Len(A)
    <3>1. k \in 1..Len(A) /\ D[k] = A[k]
      BY <1>1, <2>1
    <3>2. k < Len(A) /\ A[k + 1] # name
      BY <1>4, <3>1 DEF Clear
    <3>3. k + 1 \in 1..Len(A)
      BY <1>1, <3>1, <3>2
    <3> QED
      BY <1>1, <3>2, <3>3
  <2>2. CASE k > Len(A)
    <3> DEFINE l == k - Len(A)
    <3>1. l \in 1..Len(B) /\ Len(A) + l = k
      BY <1>1, <2>2
    <3> HIDE DEF l
    <3>2. D[k] = B[l]
      BY <1>1, <3>1
    <3>3. l < Len(B) /\ B[l + 1] # name
      BY <1>4, <3>1, <3>2 DEF Clear
    <3>4. l + 1 \in 1..Len(B) /\ Len(A) + (l + 1) = k + 1
      <4>1. l \in Int /\ l >= 1 /\ Len(A) \in Int /\ Len(B) \in Int
        BY <1>1, <3>1
      <4>2. l + 1 \in 1..Len(B)
        BY <3>3, <4>1
      <4>3. Len(A) + (l + 1) = (Len(A) + l) + 1
        BY <4>1
      <4> QED
        BY <3>1, <4>2, <4>3
    <3>5. D[k + 1] = B[l + 1]
      BY <1>1, <3>4
    <3> QED
      BY <1>1, <3>1, <3>3, <3>5
  <2> QED
    BY <1>1, <2>1, <2>2
<1> QED
  BY <1>1, <1>2, <1>3, <1>4 DEF D

(***************************************************************************)
(* The app reads a parameter's value, whole and no more, out of its first  *)
(* field.                                                                  *)
(***************************************************************************)
LEMMA ParameterIs ==
  ASSUME NEW A \in Seq(UriSymbol), NEW C \in Seq(UriSymbol), NEW X, Plain(X),
         NEW sep \in {"?", "&"}, NEW name \in ParameterName,
         Clear(A, name), Open(A) \/ sep = "?",
         C = << >> \/ C[1] = "&"
  PROVE  Parameter(A \o (Field(sep, name, X) \o C), name) = Decoded(X)
<1> DEFINE F == Field(sep, name, X)
           B == F \o C
           uri == A \o B
           I == {k \in 1..Len(uri) : uri[k] = "?"}
           i == IF I # {} THEN Min(I) ELSE 0
           starts == {k \in i..(Len(uri) - 2) : /\ uri[k] \in {"?", "&"}
                                                /\ uri[k + 1] = name
                                                /\ uri[k + 2] = "="}
           first == CHOOSE k \in starts : \A l \in starts : k <= l
           a == Len(A)
<1>1. /\ F \in Seq(UriSymbol) /\ Len(X) \in Nat /\ Len(F) = 3 + Len(X)
      /\ F[1] = sep /\ F[2] = name /\ F[3] = "="
  BY FieldIs
<1>2. Parameter(uri, name) = Decoded(UpTo(uri, first + 2, {"&"}))
  BY DEF Parameter, SelectInSeq
<1> HIDE DEF F
<1>3. /\ B \in Seq(UriSymbol) /\ Len(C) \in Nat /\ Len(B) = 3 + Len(X) + Len(C)
      /\ B[1] = sep /\ B[2] = name /\ B[3] = "="
  <2>1. /\ B \in Seq(UriSymbol) /\ Len(C) \in Nat /\ Len(B) = Len(F) + Len(C)
        /\ \A k \in 1..Len(F) : B[k] = F[k]
    BY <1>1, ConcatAt
  <2> HIDE DEF B
  <2> QED
    BY <1>1, <2>1
<1> HIDE DEF B
<1>4. /\ uri \in Seq(UriSymbol) /\ a \in Nat /\ Len(uri) = a + 3 + Len(X) + Len(C)
      /\ \A k \in 1..a : uri[k] = A[k]
      /\ uri[a + 1] = sep /\ uri[a + 2] = name /\ uri[a + 3] = "="
  <2>1. /\ uri \in Seq(UriSymbol) /\ Len(A) \in Nat /\ Len(uri) = Len(A) + Len(B)
        /\ \A k \in 1..Len(A) : uri[k] = A[k]
        /\ \A k \in 1..Len(B) : uri[Len(A) + k] = B[k]
    <3>1. B \in Seq(UriSymbol)
      BY <1>3
    <3> QED
      BY <3>1, ConcatAt
  <2> HIDE DEF uri
  <2>2. 1 \in 1..Len(B) /\ 2 \in 1..Len(B) /\ 3 \in 1..Len(B)
    BY <1>1, <1>3
  <2>3. Len(uri) = Len(A) + 3 + Len(X) + Len(C)
    BY <1>1, <1>3, <2>1
  <2> QED
    BY <1>3, <2>1, <2>2, <2>3
<1>5. (i = 0 <=> I = {}) /\ (I # {} => i \in I) /\ \A k \in I : i <= k
  <2>1. I \in SUBSET (1..Len(uri)) /\ Len(uri) \in Nat
    BY <1>1, <1>3, <1>4
  <2> HIDE DEF I
  <2> QED
    BY <2>1, FirstPosition
<1>6. i \in 1..(a + 1)
  <2>1. \E k \in I : k <= a + 1
    <3> HIDE DEF uri, a
    <3>1. CASE Open(A)
      <4>1. PICK k \in 1..a : A[k] = "?"
        BY <3>1 DEF Open, a
      <4>2. k \in 1..Len(uri) /\ uri[k] = "?"
        BY <1>1, <1>3, <1>4, <4>1
      <4> QED
        BY <1>4, <4>2
    <3>2. CASE sep = "?"
      <4>1. a + 1 \in 1..Len(uri)
        BY <1>1, <1>3, <1>4
      <4> QED
        BY <1>4, <3>2, <4>1
    <3> QED
      BY <3>1, <3>2
  <2>2. I \subseteq 1..Len(uri)
    OBVIOUS
  <2> HIDE DEF I, i, uri, a
  <2>3. i \in I /\ i <= a + 1
    <3>1. PICK k \in I : k <= a + 1
      BY <2>1
    <3>2. i \in I /\ i <= k
      BY <1>5, <3>1
    <3> QED
      BY <1>4, <2>2, <3>1, <3>2
  <2> QED
    BY <1>4, <2>2, <2>3
<1> HIDE DEF I, i
<1>7. a + 1 \in starts
  <2>1. a + 1 \in i..(Len(uri) - 2) /\ (a + 1) + 1 = a + 2 /\ (a + 1) + 2 = a + 3
    <3> HIDE DEF uri, a
    <3> QED
      BY <1>1, <1>3, <1>4, <1>6
  <2> HIDE DEF uri, a
  <2> QED
    BY <1>4, <2>1
<1>8. ASSUME NEW l \in starts
      PROVE  l \in Int /\ a + 1 <= l
  <2> HIDE DEF uri, a
  <2>1. l \in Int /\ l >= 1 /\ uri[l] \in {"?", "&"} /\ uri[l + 1] = name
    BY <1>1, <1>3, <1>4, <1>6
  <2>2. ASSUME l <= a
        PROVE  FALSE
    <3>1. l \in 1..a /\ A[l] \in {"?", "&"}
      BY <1>4, <2>1, <2>2
    <3>2. l < a /\ A[l + 1] # name
      BY <3>1 DEF Clear, a
    <3>3. l + 1 \in 1..a
      BY <1>4, <3>1, <3>2
    <3> QED
      BY <1>4, <2>1, <3>2, <3>3
  <2> QED
    BY <1>4, <2>1, <2>2
<1>9. first = a + 1
  <2> HIDE DEF starts, uri, a
  <2>1. \E k \in starts : \A l \in starts : k <= l
    BY <1>7, <1>8
  <2>2. first \in starts /\ \A l \in starts : first <= l
    BY <2>1
  <2> HIDE DEF first
  <2> QED
    BY <1>4, <1>7, <1>8, <2>2
<1> HIDE DEF first
<1>10. UpTo(uri, a + 3, {"&"}) = X
  <2> DEFINE P == <<sep, name, "=">>
             H == A \o P
  <2>1. X \in Seq(UriSymbol) /\ \A k \in 1..Len(X) : X[k] \notin {"&"}
    BY DEF Plain
  <2>2. P \in Seq(UriSymbol)
    BY DEF UriSymbol, ParameterName
  <2>l. Len(P) = 3 /\ F = P \o X
    BY DEF F, Field
  <2>x. X \in Seq(UriSymbol)
    BY <2>1
  <2> HIDE DEF P
  <2>3. H \in Seq(UriSymbol)
    BY <2>2, ConcatAt
  <2>h. Len(H) = Len(A) + Len(P)
    BY <2>2, ConcatAt
  <2>4. X \o C \in Seq(UriSymbol)
    BY <2>1, ConcatAt
  <2>5. B = P \o (X \o C)
    <3>1. (P \o X) \o C = P \o (X \o C)
      BY <2>2, <2>x, Regroup
    <3> QED
      BY <2>l, <3>1 DEF B
  <2>6. uri = H \o (X \o C)
    <3> DEFINE R == X \o C
    <3>1. R \in Seq(UriSymbol)
      BY <2>4
    <3> HIDE DEF R
    <3>2. (A \o P) \o R = A \o (P \o R)
      BY <2>2, <3>1, Regroup
    <3> QED
      BY <2>5, <3>2 DEF R
  <2> HIDE DEF H
  <2>7. (\A k \in 1..Len(X) : X[k] \notin {"&"}) /\ (C = << >> \/ C[1] \in {"&"})
    BY <2>1
  <2>8. UpTo(H \o (X \o C), Len(H), {"&"}) = X
    <3> DEFINE ends == {"&"}
    <3>1. \A k \in 1..Len(X) : X[k] \notin ends
      BY <2>7
    <3>2. C = << >> \/ C[1] \in ends
      BY <2>7
    <3> HIDE DEF ends
    <3>3. UpTo(H \o (X \o C), Len(H), ends) = X
      BY <2>3, <2>x, <3>1, <3>2, CutOut
    <3> QED
      BY <3>3 DEF ends
  <2>9. Len(H) = a + 3
    BY <2>l, <2>h
  <2> HIDE DEF uri, a
  <2> QED
    BY <2>6, <2>8, <2>9
<1>11. (a + 1) + 2 = a + 3
  BY <1>4
<1> HIDE DEF uri, a
<1>12. Parameter(uri, name) = Decoded(X)
  BY <1>2, <1>9, <1>10, <1>11
<1> QED
  BY <1>12 DEF uri, B, F

(***************************************************************************)
(* A text goes on with a field: it is open from the first field on, and    *)
(* clear of the parameters that have not come yet.                         *)
(***************************************************************************)
LEMMA FieldExtends ==
  ASSUME NEW A \in Seq(UriSymbol), NEW X, Plain(X),
         NEW sep \in {"?", "&"}, NEW other \in ParameterName
  PROVE  /\ A \o Field(sep, other, X) \in Seq(UriSymbol)
         /\ Open(A) \/ sep = "?" => Open(A \o Field(sep, other, X))
         /\ \A name \in ParameterName \ {other} :
              Clear(A, name) => Clear(A \o Field(sep, other, X), name)
<1> DEFINE F == Field(sep, other, X)
<1>1. F \in Seq(UriSymbol) /\ Len(X) \in Nat /\ Len(F) = 3 + Len(X) /\ F[1] = sep
  BY FieldIs
<1>2. \A name \in ParameterName \ {other} : Clear(F, name)
  BY FieldIsClear
<1> HIDE DEF F
<1>3. sep = "?" => Open(F)
  BY <1>1 DEF Open
<1>4. F \in Seq(UriSymbol)
  BY <1>1
<1>5. /\ A \o F \in Seq(UriSymbol)
      /\ Open(A) \/ Open(F) => Open(A \o F)
      /\ \A name : Clear(A, name) /\ Clear(F, name) => Clear(A \o F, name)
  BY <1>4, TextGoesOn
<1> QED
  BY <1>2, <1>3, <1>5 DEF F

(***************************************************************************)
(* What follows a value begins with the separator of the next field.       *)
(***************************************************************************)
LEMMA FieldFirst ==
  ASSUME NEW C \in Seq(UriSymbol), NEW X, Plain(X),
         NEW sep \in {"?", "&"}, NEW name \in ParameterName
  PROVE  /\ Field(sep, name, X) \o C \in Seq(UriSymbol)
         /\ (Field(sep, name, X) \o C)[1] = sep
<1> DEFINE F == Field(sep, name, X)
<1>1. F \in Seq(UriSymbol) /\ Len(X) \in Nat /\ Len(F) = 3 + Len(X) /\ F[1] = sep
  BY FieldIs
<1> HIDE DEF F
<1>2. F \in Seq(UriSymbol)
  BY <1>1
<1>3. F \o C \in Seq(UriSymbol) /\ \A i \in 1..Len(F) : (F \o C)[i] = F[i]
  BY <1>2, ConcatAt
<1>4. 1 \in 1..Len(F)
  BY <1>1
<1>5. (F \o C)[1] = sep
  BY <1>1, <1>3, <1>4
<1> QED
  BY <1>3, <1>5 DEF F

(***************************************************************************)
(* An app reads the number that was formatted.                             *)
(***************************************************************************)
LEMMA NumberIs ==
  ASSUME NEW n \in DOMAIN Decimal
  PROVE  Number(<<Decimal[n]>>) = n
<1> DEFINE values == {m \in DOMAIN Decimal : <<Decimal[n]>> = <<Decimal[m]>>}
<1>1. values = {n}
  BY DecimalAssumption
<1>2. Number(<<Decimal[n]>>) = IF values = {} THEN None ELSE CHOOSE m \in values : TRUE
  BY DEF Number
<1> HIDE DEF values
<1> QED
  BY <1>1, <1>2

(***************************************************************************)
(* The label: the app cuts it at the first colon and the first question    *)
(* mark, and has the issuer and the account.                               *)
(***************************************************************************)
LEMMA LabelIs ==
  ASSUME NEW e, Plain(e), NEW a, Plain(a), NEW C \in Seq(UriSymbol), C[1] = "?"
  PROVE  LET uri == ((e \o <<":">>) \o a) \o C
         IN  /\ UpTo(uri, 0, {":"}) = e
             /\ UpTo(uri, SelectInSeq(uri, LAMBDA c : c = ":"), {"?"}) = a
<1> DEFINE colon == <<":">>
           G == e \o colon
           D == a \o C
           K == colon \o D
           uri == (G \o a) \o C
<1>1. e \in Seq(UriSymbol) /\ a \in Seq(UriSymbol)
  BY DEF Plain
<1>2. /\ \A i \in 1..Len(e) : e[i] # ":" /\ e[i] \notin {":"}
      /\ \A i \in 1..Len(a) : a[i] \notin {"?"}
  BY DEF Plain
<1>3. colon \in Seq(UriSymbol)
  BY DEF UriSymbol
<1>4. Len(colon) = 1 /\ colon[1] = ":" /\ ":" \in UriSymbol
  BY DEF UriSymbol
<1> HIDE DEF colon
<1>5. D \in Seq(UriSymbol)
  BY <1>1, ConcatAt
<1>6. G \in Seq(UriSymbol)
  BY <1>1, <1>3, ConcatAt
<1>7. Len(G) = Len(e) + Len(colon)
  BY <1>1, <1>3, ConcatAt
<1>8. uri = G \o D
  <2> HIDE DEF G
  <2> QED
    BY <1>1, <1>6, Regroup
<1>9. uri = e \o K
  <2> HIDE DEF D, uri
  <2>1. (e \o colon) \o D = e \o (colon \o D)
    BY <1>1, <1>3, <1>5, Regroup
  <2> QED
    BY <1>8, <2>1
<1> HIDE DEF D, uri
<1>10. K \in Seq(UriSymbol) /\ K[1] = ":"
  <2>1. K \in Seq(UriSymbol) /\ \A i \in 1..Len(colon) : K[i] = colon[i]
    BY <1>3, <1>5, ConcatAt
  <2> HIDE DEF K
  <2> QED
    BY <1>4, <2>1
<1>11. SelectInSeq(uri, LAMBDA c : c = ":") = Len(e) + 1
  <2>1. SelectInSeq(e \o (<<":">> \o D), LAMBDA c : c = ":") = Len(e) + 1
    BY <1>1, <1>2, <1>4, <1>5, FirstOf
  <2> QED
    BY <1>9, <2>1 DEF colon
<1> HIDE DEF G, K
<1>12. UpTo(uri, 0, {":"}) = e
  <2> DEFINE ends == {":"}
             none == << >>
  <2>1. /\ none \in Seq(UriSymbol) /\ Len(none) = 0
        /\ \A i \in 1..Len(e) : e[i] \notin ends
    BY <1>2
  <2>2. K[1] \in ends
    BY <1>10
  <2>3. none \o (e \o K) = e \o K
    <3>1. e \o K \in Seq(UriSymbol)
      BY <1>1, <1>10, ConcatAt
    <3> QED
      BY <3>1, ConcatEmptySeq
  <2>4. none \in Seq(UriSymbol) /\ K \in Seq(UriSymbol)
    BY <1>10, <2>1
  <2> HIDE DEF ends, none
  <2>5. UpTo(none \o (e \o K), Len(none), ends) = e
    <3>1. \A i \in 1..Len(e) : e[i] \notin ends
      BY <2>1
    <3> QED
      BY <1>1, <2>2, <2>4, <3>1, CutOut
  <2> QED
    BY <1>9, <2>1, <2>3, <2>5 DEF ends
<1>13. UpTo(uri, Len(G), {"?"}) = a
  <2> DEFINE ends == {"?"}
  <2>1. \A i \in 1..Len(a) : a[i] \notin ends
    BY <1>2
  <2>2. C[1] \in ends
    OBVIOUS
  <2> HIDE DEF ends
  <2>3. UpTo(G \o (a \o C), Len(G), ends) = a
    BY <1>1, <1>6, <2>1, <2>2, CutOut
  <2> QED
    BY <1>8, <2>3 DEF D, ends
<1>14. Len(G) = Len(e) + 1
  BY <1>4, <1>7
<1> QED
  BY <1>11, <1>12, <1>13, <1>14 DEF uri, G, colon

(***************************************************************************)
(* The whole URI, whatever the names: the text before each field is clear  *)
(* of its parameter, so that every parameter is read out of its own field. *)
(***************************************************************************)
LEMMA ScanReadsBack ==
  ASSUME NEW account \in Names, NEW issuer \in Names
  PROVE  scan(enrollment_uri(Secret, account, issuer, Period, Digits)) =
           [account |-> account, label_issuer |-> issuer,
            issuer |-> issuer, secret |-> <<Secret>>,
            period |-> Period, digits |-> Digits, algorithm |-> <<"SHA1">>]
<1> DEFINE e == urlencoding(issuer)
           a == urlencoding(account)
           x1 == <<Secret>>
           x3 == <<Decimal[Period]>>
           x4 == <<Decimal[Digits]>>
           x5 == <<"SHA1">>
           F1 == Field("?", "secret", x1)
           F2 == Field("&", "issuer", e)
           F3 == Field("&", "period", x3)
           F4 == Field("&", "digits", x4)
           F5 == Field("&", "algorithm", x5)
           none == << >>
           H0 == (e \o <<":">>) \o a
           H1 == H0 \o F1
           H2 == H1 \o F2
           H3 == H2 \o F3
           H4 == H3 \o F4
           R4 == F5 \o none
           R3 == F4 \o R4
           R2 == F3 \o R3
           R1 == F2 \o R2
           R0 == F1 \o R1
           uri == enrollment_uri(Secret, account, issuer, Period, Digits)
<1>1. uri = H4 \o F5
  BY DEF enrollment_uri
<1>2. Plain(e) /\ Decoded(e) = issuer /\ Plain(a) /\ Decoded(a) = account
  <2>1. account \in Seq(NameSymbol) /\ issuer \in Seq(NameSymbol)
    BY UriAssumption DEF NameSymbol
  <2> QED
    BY <2>1, EncodedIsPlain
<1>3. /\ Plain(x1) /\ Decoded(x1) = <<Secret>>
      /\ Plain(x3) /\ Decoded(x3) = x3 /\ Number(x3) = Period
      /\ Plain(x4) /\ Decoded(x4) = x4 /\ Number(x4) = Digits
      /\ Plain(x5) /\ Decoded(x5) = <<"SHA1">>
  <2>1. /\ Secret \in Unreserved
        /\ Decimal[Period] \in Unreserved /\ Decimal[Digits] \in Unreserved
    BY UriAssumption, DecimalAssumption
  <2>2. \A u \in Unreserved : u \in UriSymbol /\ u \notin {":", "?", "&", "=", "%"}
    BY UnreservedAssumption DEF UriSymbol, EncodedSymbol
  <2>3. "SHA1" \in UriSymbol /\ "SHA1" \notin {":", "?", "&", "=", "%"}
    BY DEF UriSymbol
  <2>4. Number(x3) = Period /\ Number(x4) = Digits
    BY NumberIs, UriAssumption
  <2> QED
    BY <2>1, <2>2, <2>3, <2>4, OneSymbol
<1> HIDE DEF e, a, x1, x3, x4, x5, uri
<1>4. H0 \in Seq(UriSymbol) /\ \A name : Clear(H0, name)
  <2> DEFINE colon == <<":">>
             G == e \o colon
  <2>1. e \in Seq(UriSymbol) /\ a \in Seq(UriSymbol)
    BY <1>2 DEF Plain
  <2>2. colon \in Seq(UriSymbol)
    BY DEF UriSymbol
  <2>3. \A name : Clear(e, name) /\ Clear(a, name)
    BY <1>2 DEF Plain, Clear
  <2>4. \A name : Clear(colon, name)
    BY DEF Clear
  <2> HIDE DEF colon
  <2>5. G \in Seq(UriSymbol) /\ \A name : Clear(G, name)
    BY <2>1, <2>2, <2>3, <2>4, TextGoesOn
  <2> HIDE DEF G
  <2>6. G \o a \in Seq(UriSymbol) /\ \A name : Clear(G \o a, name)
    BY <2>1, <2>3, <2>5, TextGoesOn
  <2> QED
    BY <2>6 DEF G, colon
<1> HIDE DEF H0
<1>5. /\ H1 \in Seq(UriSymbol) /\ Open(H1)
      /\ \A name \in ParameterName \ {"secret"} : Clear(H1, name)
  <2>1. "secret" \in ParameterName /\ "?" \in {"?", "&"}
    BY DEF ParameterName
  <2> QED
    BY <1>3, <1>4, <2>1, FieldExtends
<1> HIDE DEF H1
<1>6. /\ H2 \in Seq(UriSymbol) /\ Open(H2)
      /\ \A name \in ParameterName \ {"secret", "issuer"} : Clear(H2, name)
  <2>1. "issuer" \in ParameterName /\ "&" \in {"?", "&"}
    BY DEF ParameterName
  <2> QED
    BY <1>2, <1>5, <2>1, FieldExtends
<1> HIDE DEF H2
<1>7. /\ H3 \in Seq(UriSymbol) /\ Open(H3)
      /\ \A name \in ParameterName \ {"secret", "issuer", "period"} : Clear(H3, name)
  <2>1. "period" \in ParameterName /\ "&" \in {"?", "&"}
    BY DEF ParameterName
  <2> QED
    BY <1>3, <1>6, <2>1, FieldExtends
<1> HIDE DEF H3
<1>8. H4 \in Seq(UriSymbol) /\ Open(H4) /\ Clear(H4, "algorithm")
  <2>1. "digits" \in ParameterName /\ "&" \in {"?", "&"} /\ "algorithm" \in ParameterName \ {"digits"}
        /\ Clear(H3, "algorithm")
    BY <1>7 DEF ParameterName
  <2> QED
    BY <1>3, <1>7, <2>1, FieldExtends
<1> HIDE DEF H4
<1>9. none \in Seq(UriSymbol) /\ none = << >>
  OBVIOUS
<1> HIDE DEF none
<1>10. /\ R4 \in Seq(UriSymbol) /\ R4[1] = "&" /\ R3 \in Seq(UriSymbol) /\ R3[1] = "&"
       /\ R2 \in Seq(UriSymbol) /\ R2[1] = "&" /\ R1 \in Seq(UriSymbol) /\ R1[1] = "&"
       /\ R0 \in Seq(UriSymbol) /\ R0[1] = "?"
  <2>1. ParameterName = {"secret", "issuer", "period", "digits", "algorithm"}
    BY DEF ParameterName
  <2>2. R4 \in Seq(UriSymbol) /\ R4[1] = "&"
    BY <1>3, <1>9, <2>1, FieldFirst
  <2> HIDE DEF R4
  <2>3. R3 \in Seq(UriSymbol) /\ R3[1] = "&"
    BY <1>3, <2>1, <2>2, FieldFirst
  <2> HIDE DEF R3
  <2>4. R2 \in Seq(UriSymbol) /\ R2[1] = "&"
    BY <1>3, <2>1, <2>3, FieldFirst
  <2> HIDE DEF R2
  <2>5. R1 \in Seq(UriSymbol) /\ R1[1] = "&"
    BY <1>2, <2>1, <2>4, FieldFirst
  <2> HIDE DEF R1
  <2>6. R0 \in Seq(UriSymbol) /\ R0[1] = "?"
    BY <1>3, <2>1, <2>5, FieldFirst
  <2> QED
    BY <2>2, <2>3, <2>4, <2>5, <2>6
<1>11. /\ F1 \in Seq(UriSymbol) /\ F2 \in Seq(UriSymbol) /\ F3 \in Seq(UriSymbol)
       /\ F4 \in Seq(UriSymbol) /\ F5 \in Seq(UriSymbol)
  <2>1. ParameterName = {"secret", "issuer", "period", "digits", "algorithm"}
    BY DEF ParameterName
  <2> QED
    BY <1>2, <1>3, <2>1, FieldIs
<1>12. /\ uri = H4 \o R4 /\ uri = H3 \o R3 /\ uri = H2 \o R2 /\ uri = H1 \o R1 /\ uri = H0 \o R0
  <2>1. /\ H0 \in Seq(UriSymbol) /\ H1 \in Seq(UriSymbol)
        /\ H2 \in Seq(UriSymbol) /\ H3 \in Seq(UriSymbol)
    BY <1>4, <1>5, <1>6, <1>7
  <2>2. /\ R1 \in Seq(UriSymbol) /\ R2 \in Seq(UriSymbol)
        /\ R3 \in Seq(UriSymbol) /\ R4 \in Seq(UriSymbol)
    BY <1>10
  <2> HIDE DEF F1, F2, F3, F4, F5, R0, R1, R2, R3, R4
  <2>3. uri = H4 \o R4
    BY <1>1, <1>9, <1>11, ConcatEmptySeq DEF R4
  <2>4. uri = H3 \o R3
    <3>1. (H3 \o F4) \o R4 = H3 \o (F4 \o R4)
      <4>1. H3 \in Seq(UriSymbol) /\ F4 \in Seq(UriSymbol) /\ R4 \in Seq(UriSymbol)
        BY <1>11, <2>1, <2>2
      <4> QED
        BY <4>1, Regroup
    <3> QED
      BY <2>3, <3>1 DEF H4, R3
  <2>5. uri = H2 \o R2
    <3>1. (H2 \o F3) \o R3 = H2 \o (F3 \o R3)
      <4>1. H2 \in Seq(UriSymbol) /\ F3 \in Seq(UriSymbol) /\ R3 \in Seq(UriSymbol)
        BY <1>11, <2>1, <2>2
      <4> QED
        BY <4>1, Regroup
    <3> QED
      BY <2>4, <3>1 DEF H3, R2
  <2>6. uri = H1 \o R1
    <3>1. (H1 \o F2) \o R2 = H1 \o (F2 \o R2)
      <4>1. H1 \in Seq(UriSymbol) /\ F2 \in Seq(UriSymbol) /\ R2 \in Seq(UriSymbol)
        BY <1>11, <2>1, <2>2
      <4> QED
        BY <4>1, Regroup
    <3> QED
      BY <2>5, <3>1 DEF H2, R1
  <2>7. uri = H0 \o R0
    <3>1. (H0 \o F1) \o R1 = H0 \o (F1 \o R1)
      <4>1. H0 \in Seq(UriSymbol) /\ F1 \in Seq(UriSymbol) /\ R1 \in Seq(UriSymbol)
        BY <1>11, <2>1, <2>2
      <4> QED
        BY <4>1, Regroup
    <3> QED
      BY <2>6, <3>1 DEF H1, R0
  <2> QED
    BY <2>3, <2>4, <2>5, <2>6, <2>7
<1> HIDE DEF R1, R2, R3, R4
<1>13. Parameter(uri, "secret") = <<Secret>>
  <2>1. "secret" \in ParameterName /\ Clear(H0, "secret") /\ "?" \in {"?", "&"}
    BY <1>4 DEF ParameterName
  <2> QED
    BY <1>3, <1>4, <1>10, <1>12, <2>1, ParameterIs
<1> HIDE DEF R0
<1>14. Parameter(uri, "issuer") = issuer
  <2>1. "issuer" \in ParameterName /\ Clear(H1, "issuer") /\ "&" \in {"?", "&"}
    BY <1>5 DEF ParameterName
  <2>2. uri = H1 \o (Field("&", "issuer", e) \o R2)
    BY <1>12 DEF R1
  <2> QED
    BY <1>2, <1>5, <1>10, <2>1, <2>2, ParameterIs
<1>15. Number(Parameter(uri, "period")) = Period
  <2>1. "period" \in ParameterName /\ Clear(H2, "period") /\ "&" \in {"?", "&"}
    BY <1>6 DEF ParameterName
  <2>2. uri = H2 \o (Field("&", "period", x3) \o R3)
    BY <1>12 DEF R2
  <2>3. Parameter(uri, "period") = Decoded(x3)
    BY <1>3, <1>6, <1>10, <2>1, <2>2, ParameterIs
  <2> QED
    BY <1>3, <2>3
<1>16. Number(Parameter(uri, "digits")) = Digits
  <2>1. "digits" \in ParameterName /\ Clear(H3, "digits") /\ "&" \in {"?", "&"}
    BY <1>7 DEF ParameterName
  <2>2. uri = H3 \o (Field("&", "digits", x4) \o R4)
    BY <1>12 DEF R3
  <2>3. Parameter(uri, "digits") = Decoded(x4)
    BY <1>3, <1>7, <1>10, <2>1, <2>2, ParameterIs
  <2> QED
    BY <1>3, <2>3
<1>17. Parameter(uri, "algorithm") = <<"SHA1">>
  <2>1. "algorithm" \in ParameterName /\ "&" \in {"?", "&"}
    BY DEF ParameterName
  <2>2. uri = H4 \o (Field("&", "algorithm", x5) \o none)
    BY <1>12 DEF R4
  <2> QED
    BY <1>3, <1>8, <1>9, <2>1, <2>2, ParameterIs
<1>18. /\ UpTo(uri, 0, {":"}) = e
       /\ UpTo(uri, SelectInSeq(uri, LAMBDA c : c = ":"), {"?"}) = a
  <2>1. uri = ((e \o <<":">>) \o a) \o R0
    BY <1>12 DEF H0
  <2> QED
    BY <1>2, <1>10, <2>1, LabelIs
<1>19. scan(uri) =
         [account |-> account, label_issuer |-> issuer,
          issuer |-> issuer, secret |-> <<Secret>>,
          period |-> Period, digits |-> Digits, algorithm |-> <<"SHA1">>]
  BY <1>2, <1>13, <1>14, <1>15, <1>16, <1>17, <1>18 DEF scan
<1> QED
  BY <1>19 DEF uri

(***************************************************************************)
(* The app has exactly what the server enrolled, for every issuer and      *)
(* account name and every alphabet of bytes: the names that look like an   *)
(* escape, a parameter or the end of the label included.                   *)
(***************************************************************************)
THEOREM EnrollmentIsFaithful == Spec => []EnrollmentSurvives
<1>1. Init => EnrollmentSurvives
  BY DEF Init, EnrollmentSurvives
<1>2. EnrollmentSurvives /\ [Next]_vars => EnrollmentSurvives'
  <2> SUFFICES ASSUME EnrollmentSurvives, [Next]_vars
               PROVE  EnrollmentSurvives'
    OBVIOUS
  <2>1. CASE ServerClock
    BY <2>1 DEF ServerClock, EnrollmentSurvives
  <2>2. CASE DeviceClock
    BY <2>2 DEF DeviceClock, EnrollmentSurvives
  <2>3. ASSUME NEW account \in Names, NEW issuer \in Names, Enroll(account, issuer)
        PROVE  EnrollmentSurvives'
    <3>1. enrolled'.account = account /\ enrolled'.issuer = issuer
      BY <2>3 DEF Enroll
    <3>2. app' = [account |-> account, label_issuer |-> issuer,
                  issuer |-> issuer, secret |-> <<Secret>>,
                  period |-> Period, digits |-> Digits, algorithm |-> <<"SHA1">>]
      BY <2>3, ScanReadsBack DEF Enroll
    <3> QED
      BY <3>1, <3>2 DEF EnrollmentSurvives
  <2>4. CASE Read
    BY <2>4 DEF Read, EnrollmentSurvives
  <2>5. CASE UNCHANGED vars
    BY <2>5 DEF vars, EnrollmentSurvives
  <2> QED
    BY <2>1, <2>2, <2>3, <2>4, <2>5 DEF Next
<1> QED
  BY <1>1, <1>2, PTL DEF Spec

-----------------------------------------------------------------------------
(***************************************************************************)
(* The steps of the window are those at most window away, in range.        *)
(***************************************************************************)
LEMMA StepsNear ==
  ASSUME NEW s \in Nat, NEW c \in Nat
  PROVE  c \in Steps(s, Window) <=> c <= MaxCounter /\ c - s <= Window /\ s - c <= Window
<1>1. ASSUME c \in Steps(s, Window)
      PROVE  c <= MaxCounter /\ c - s <= Window /\ s - c <= Window
  BY <1>1, WindowAssumption, CounterAssumption DEF Steps
<1>2. ASSUME c <= MaxCounter, c - s <= Window, s - c <= Window
      PROVE  c \in Steps(s, Window)
  <2>1. c - s \in -Window..Window /\ c = s + (c - s)
    BY <1>2, WindowAssumption
  <2>2. c \in 0..MaxCounter
    BY <1>2, CounterAssumption
  <2> QED
    BY <2>1, <2>2 DEF Steps
<1> QED
  BY <1>1, <1>2

(***************************************************************************)
(* A time of the clocks is in a step that the counter can count.           *)
(***************************************************************************)
LEMMA CounterInRange ==
  ASSUME NEW n \in 0..MaxTime
  PROVE  n \div Period \in Nat /\ n \div Period <= MaxCounter
<1> DEFINE c == n \div Period
           d == MaxTime \div Period
<1>1. n \in Nat /\ n <= MaxTime /\ MaxTime \in Nat
  BY CounterAssumption
<1>2. c \in Nat /\ d \in Nat
  BY <1>1, Division, PeriodAssumption
<1>3. n - MaxTime <= 0 * Period
  BY <1>1, PeriodAssumption
<1>4. c - d <= 0
  BY <1>1, <1>3, NearTimesNearSteps, PeriodAssumption
<1>5. d <= MaxCounter /\ MaxCounter \in Nat
  BY CounterAssumption
<1> HIDE DEF c, d
<1>6. c <= MaxCounter
  BY <1>2, <1>4, <1>5
<1> QED
  BY <1>2, <1>6 DEF c

(***************************************************************************)
(* With six digits, the number that verify assumes, a code is accepted as  *)
(* long as the two clocks are at most Window periods apart, for every      *)
(* period, window and range of the clocks.  That the app computes with the *)
(* period and the digits of the server is what enrollment is needed for.   *)
(***************************************************************************)
THEOREM DriftIsTolerated ==
  Digits = DEFAULT_DIGITS => (Spec => []DriftTolerated)
<1> SUFFICES ASSUME Digits = DEFAULT_DIGITS
             PROVE  Spec => []DriftTolerated
  OBVIOUS
<1>1. ASSUME CodeIsTheApps, EnrollmentSurvives
      PROVE  DriftTolerated
  <2> SUFFICES ASSUME code # None, server - readAt \in -(Window * Period)..(Window * Period)
               PROVE  verify_with_window(code, now_unix_secs(server), Period, Window)
    BY DEF DriftTolerated
  <2>1. app.period = Period /\ app.digits = DEFAULT_DIGITS
    BY <1>1 DEF CodeIsTheApps, EnrollmentSurvives
  <2> DEFINE c == readAt \div Period
             n == now_unix_secs(server)
             s == n \div Period
  <2>2. code = hotp(c, DEFAULT_DIGITS)
    BY <1>1, <2>1 DEF CodeIsTheApps, at
  <2>3. readAt \in Nat /\ readAt <= MaxTime /\ n \in Nat /\ server \in Int
    BY <1>1, ClockReading, CounterAssumption DEF CodeIsTheApps
  <2>4. Window * Period \in Nat
    BY WindowAssumption, PeriodAssumption
  <2>5. n - readAt <= Window * Period /\ readAt - n <= Window * Period
    BY <2>3, <2>4 DEF now_unix_secs
  <2> HIDE DEF n
  <2>6. s - c <= Window /\ c - s <= Window
    BY <2>3, <2>5, NearTimesNearSteps, WindowAssumption, PeriodAssumption
  <2>7. s \in Nat /\ c \in Nat
    BY <2>3, Division, PeriodAssumption
  <2>8. c <= MaxCounter
    BY <1>1, CounterInRange DEF CodeIsTheApps
  <2>9. c \in Steps(s, Window)
    BY <2>6, <2>7, <2>8, StepsNear
  <2> QED
    BY <2>2, <2>9 DEF verify_with_window, n
<1> QED
  BY <1>1, CodeIsTheAppsHolds, EnrollmentIsFaithful, PTL

(***************************************************************************)
(* No other step of the window happens to have the same six digits.  HMAC  *)
(* gives no more than a probability for that.                              *)
(***************************************************************************)
NoCollision ==
  \A c \in Steps(now_unix_secs(server) \div Period, Window) :
    hotp(c, DEFAULT_DIGITS) = code => c = readAt \div Period

(***************************************************************************)
(* A code is refused from Window + 1 periods away from the time it was     *)
(* computed for, unless it is by chance the code of a step of the window:  *)
(* its own step is never in the window, at the ends of the counter's range *)
(* and before the epoch either.                                            *)
(***************************************************************************)
THEOREM CodesExpire == Spec => [](NoCollision => CodeExpires)
<1>1. ASSUME CodeIsTheApps, NoCollision
      PROVE  CodeExpires
  <2> DEFINE n == now_unix_secs(server)
             span == (Window + 1) * Period
             s == n \div Period
             c == readAt \div Period
  <2> SUFFICES ASSUME n - readAt \notin -(span - 1)..(span - 1)
               PROVE  ~verify_with_window(code, n, Period, Window)
    BY DEF CodeExpires
  <2>1. readAt \in Nat /\ n \in Nat
    BY <1>1, ClockReading, CounterAssumption DEF CodeIsTheApps
  <2>2. span \in Nat
    BY WindowAssumption, PeriodAssumption
  <2>3. n - readAt >= span \/ readAt - n >= span
    <3> HIDE DEF n, span
    <3> QED
      BY <2>1, <2>2
  <2>4. s \in Nat /\ c \in Nat
    BY <2>1, Division, PeriodAssumption
  <2>5. s - c > Window \/ c - s > Window
    <3> HIDE DEF n
    <3> QED
      BY <2>1, <2>3, FarTimesFarSteps, WindowAssumption, PeriodAssumption
  <2>6. c \notin Steps(s, Window)
    <3> HIDE DEF s, c
    <3> QED
      BY <2>4, <2>5, StepsNear, WindowAssumption
  <2> QED
    BY <1>1, <2>6 DEF verify_with_window, NoCollision
<1>2. CodeIsTheApps => (NoCollision => CodeExpires)
  BY <1>1
<1> QED
  BY <1>2, CodeIsTheAppsHolds, PTL
(***************************************************************************)
(* What the test verify_accepts_current_code says of verify and its window *)
(* of one step is true of six digits, whatever the period: the number of   *)
(* digits is all that its counterexample rests on.                         *)
(***************************************************************************)
THEOREM CurrentCodeOfSixDigits ==
  Digits = DEFAULT_DIGITS => (Spec => []CurrentCodeAccepted)
<1> SUFFICES ASSUME Digits = DEFAULT_DIGITS
             PROVE  Spec => []CurrentCodeAccepted
  OBVIOUS
<1>1. ASSUME CodeIsTheApps, EnrollmentSurvives
      PROVE  CurrentCodeAccepted
  <2> DEFINE c == readAt \div Period
  <2> SUFFICES ASSUME code # None
               PROVE  verify(code, readAt, Period)
    BY DEF CurrentCodeAccepted
  <2>1. code = hotp(c, DEFAULT_DIGITS)
    BY <1>1 DEF CodeIsTheApps, EnrollmentSurvives, at
  <2>2. c \in Nat /\ c <= MaxCounter
    BY <1>1, CounterInRange DEF CodeIsTheApps
  <2> HIDE DEF c
  <2>3. c \in Steps(c, DEFAULT_WINDOW)
    <3>1. c = c + 0 /\ 0 \in -1..1 /\ c \in 0..MaxCounter
      BY <2>2, CounterAssumption
    <3> QED
      BY <3>1 DEF Steps, DEFAULT_WINDOW
  <2> QED
    BY <2>1, <2>3 DEF verify, verify_with_window, c
<1> QED
  BY <1>1, CodeIsTheAppsHolds, EnrollmentIsFaithful, PTL
=============================================================================
