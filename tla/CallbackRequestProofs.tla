------------------------- MODULE CallbackRequestProofs ------------------------
(***************************************************************************)
(* Proofs about what the callback middleware reads from a request, for     *)
(* every alphabet of parameters and cookies and requests of any length.    *)
(***************************************************************************)
EXTENDS CallbackAssembly, SequenceFacts, TLAPS

RequestTyped ==
  request \in [query : Seq(Params) \cup {NoText}, cookies : Seq(Header)]

-----------------------------------------------------------------------------
(***************************************************************************)
(* An element of a sequence over S is in S.                                *)
(***************************************************************************)
LEMMA ElementOf ==
  ASSUME NEW S, NEW s \in Seq(S), NEW k \in 1..Len(s)
  PROVE  s[k] \in S
OBVIOUS

(***************************************************************************)
(* The positions of a Cookie header at which a key has a value.            *)
(***************************************************************************)
Positions(header, key) ==
  {j \in 1..Len(header) : Len(header[j]) = 2 /\ header[j][1].word = key}

(***************************************************************************)
(* cookie_value returns the word at the first of those positions, however  *)
(* the name and the value are padded, and None only if there is none.      *)
(***************************************************************************)
LEMMA CookieFound ==
  ASSUME NEW header \in Seq(Cookies), NEW key
  PROVE  /\ Positions(header, key) = {} => cookie_value(header, key) = NoText
         /\ Positions(header, key) # {} =>
              /\ cookie_value(header, key) # NoText
              /\ \E j \in Positions(header, key) :
                   /\ \A k \in Positions(header, key) : j <= k
                   /\ cookie_value(header, key) = header[j][2].word
<1> DEFINE I == {j \in 1..Len(header) :
                   Len(header[j]) = 2 /\ Trim(header[j][1]) = [word |-> key, padded |-> FALSE]}
           i == IF I # {} THEN Min(I) ELSE 0
<1>1. Len(header) \in Nat /\ DOMAIN header = 1..Len(header)
      /\ \A j \in 1..Len(header) : header[j] \in Seq(Text)
  BY CookiesAssumption
<1>2. ASSUME NEW t \in Text
      PROVE  /\ Trim(t).word = t.word
             /\ Trim(t) = [word |-> key, padded |-> FALSE] <=> t.word = key
  BY DEF Trim
<1>3. ASSUME NEW j \in 1..Len(header), Len(header[j]) = 2
      PROVE  header[j][1] \in Text /\ header[j][2] \in Text
  <2> DEFINE part == header[j]
  <2>1. part \in Seq(Text) /\ Len(part) = 2
    BY <1>1, <1>3
  <2> HIDE DEF part
  <2>2. part[1] \in Text /\ part[2] \in Text
    <3>1. 1 \in 1..Len(part) /\ 2 \in 1..Len(part)
      BY <2>1
    <3> QED
      BY <2>1, <3>1, ElementOf
  <2> QED
    BY <2>2 DEF part
<1>4. I = Positions(header, key)
  BY <1>2, <1>3 DEF Positions
<1>5. cookie_value(header, key) = IF i = 0 THEN NoText ELSE Trim(header[i][2]).word
  BY DEF cookie_value, SelectInSeq
<1>6. (i = 0 <=> I = {}) /\ (I # {} => i \in I) /\ \A j \in I : i <= j
  <2>1. I \in SUBSET (1..Len(header))
    OBVIOUS
  <2> HIDE DEF I
  <2> QED
    BY <1>1, <2>1, FirstPosition
<1>7. CASE I = {}
  BY <1>4, <1>5, <1>6, <1>7
<1>8. CASE I # {}
  <2>1. i \in I /\ i # 0
    BY <1>6, <1>8
  <2> HIDE DEF i
  <2>2. header[i][2] \in Text
    BY <1>3, <2>1
  <2>3. cookie_value(header, key) = header[i][2].word
    BY <1>2, <1>5, <2>1, <2>2
  <2>4. cookie_value(header, key) # NoText
    BY <2>2, <2>3, NoTextAssumption DEF Text
  <2> QED
    BY <1>4, <1>6, <1>8, <2>1, <2>3, <2>4
<1> QED
  BY <1>7, <1>8

-----------------------------------------------------------------------------
(***************************************************************************)
(* Every request that is put together has the shape the code reads.        *)
(***************************************************************************)
LEMMA Typing == Spec => []RequestTyped
<1>1. Init => RequestTyped
  BY DEF Init, RequestTyped
<1>2. RequestTyped /\ [Next]_request => RequestTyped'
  <2> SUFFICES ASSUME RequestTyped, [Next]_request
               PROVE  RequestTyped'
    OBVIOUS
  <2> USE DEF RequestTyped
  <2>1. ASSUME NEW p \in Params, AddParam(p)
        PROVE  RequestTyped'
    <3> DEFINE q == request.query
               r == IF q = NoText THEN <<p>> ELSE Append(q, p)
    <3>1. r \in Seq(Params)
      <4>1. q \in Seq(Params) \cup {NoText}
        OBVIOUS
      <4> HIDE DEF q
      <4> QED
        BY <4>1
    <3>2. request' = [request EXCEPT !.query = r]
      BY <2>1 DEF AddParam
    <3> HIDE DEF r
    <3> QED
      BY <3>1, <3>2
  <2>2. ASSUME NEW ascii \in BOOLEAN, AddHeader(ascii)
        PROVE  RequestTyped'
    <3>1. [ascii |-> ascii, parts |-> << >>] \in Header
      BY DEF Header
    <3>2. Append(request.cookies, [ascii |-> ascii, parts |-> << >>]) \in Seq(Header)
      BY <3>1
    <3> QED
      BY <2>2, <3>2 DEF AddHeader
  <2>3. ASSUME NEW c \in Cookies, AddCookie(c)
        PROVE  RequestTyped'
    <3> DEFINE last == Len(request.cookies)
               h == request.cookies[last]
    <3>1. last \in 1..Len(request.cookies) /\ h \in Header
      <4>1. request.cookies \in Seq(Header) /\ Len(request.cookies) > 0
        BY <2>3 DEF AddCookie
      <4> QED
        BY <4>1
    <3>2. [h EXCEPT !.parts = Append(@, c)] \in Header
      <4> HIDE DEF h
      <4>1. Append(h.parts, c) \in Seq(Cookies)
        BY <3>1 DEF Header
      <4> QED
        BY <3>1, <4>1 DEF Header
    <3>3. [request.cookies EXCEPT ![last] = [h EXCEPT !.parts = Append(@, c)]] \in Seq(Header)
      BY <3>1, <3>2
    <3>4. request' = [request EXCEPT !.cookies =
                        [request.cookies EXCEPT ![last] = [h EXCEPT !.parts = Append(@, c)]]]
      BY <2>3 DEF AddCookie
    <3> QED
      BY <3>3, <3>4
  <2>4. CASE UNCHANGED request
    BY <2>4
  <2> QED
    BY <2>1, <2>2, <2>3, <2>4 DEF Next
<1> QED
  BY <1>1, <1>2, PTL DEF Spec

-----------------------------------------------------------------------------
(***************************************************************************)
(* What extract_session_id returns for a readable first header: the value  *)
(* of the first alias that has a position in it.                           *)
(***************************************************************************)
LEMMA AliasFound ==
  ASSUME RequestTyped, request.cookies # << >>, request.cookies[1].ascii
  PROVE  LET h == request.cookies[1].parts IN
         \/ /\ \A a \in 1..4 : Positions(h, Aliases[a]) = {}
            /\ extract_session_id(request) = NoText
         \/ \E a \in 1..4 :
              /\ Positions(h, Aliases[a]) # {}
              /\ \A b \in 1..4 : Positions(h, Aliases[b]) # {} => a <= b
              /\ extract_session_id(request) = cookie_value(h, Aliases[a])
<1> DEFINE h == request.cookies[1].parts
           I == {a \in 1..Len(Aliases) : cookie_value(h, Aliases[a]) # NoText}
           i == IF I # {} THEN Min(I) ELSE 0
<1>1. h \in Seq(Cookies)
  <2>1. request.cookies \in Seq(Header)
    BY DEF RequestTyped
  <2>2. request.cookies[1] \in Header
    BY <2>1
  <2> QED
    BY <2>2 DEF Header
<1>2. Len(Aliases) = 4
  BY DEF Aliases
<1>3. extract_session_id(request) = IF i = 0 THEN NoText ELSE cookie_value(h, Aliases[i])
  BY DEF extract_session_id, SelectInSeq
<1>4. I \in SUBSET (1..4)
  BY <1>2
<1>5. \A a \in 1..4 : a \in I <=> Positions(h, Aliases[a]) # {}
  <2> HIDE DEF h
  <2> QED
    BY <1>1, <1>2, CookieFound
<1>6. (i = 0 <=> I = {}) /\ (I # {} => i \in I) /\ \A j \in I : i <= j
  <2> HIDE DEF I
  <2> QED
    BY <1>4, FirstPosition
<1> HIDE DEF h, I, i
<1>7. CASE I = {}
  BY <1>3, <1>5, <1>6, <1>7 DEF h
<1>8. CASE I # {}
  <2>1. i \in 1..4 /\ i # 0 /\ Positions(h, Aliases[i]) # {}
    BY <1>4, <1>5, <1>6, <1>8
  <2>2. \A b \in 1..4 : Positions(h, Aliases[b]) # {} => i <= b
    BY <1>5, <1>6
  <2> QED
    BY <1>3, <2>1, <2>2 DEF h
<1> QED
  BY <1>7, <1>8

(***************************************************************************)
(* The candidates of a readable first header are the positions of the      *)
(* aliases in it; a request without one has none.                          *)
(***************************************************************************)
LEMMA CandidatesAre ==
  ASSUME RequestTyped
  PROVE  /\ (request.cookies = << >> \/ ~request.cookies[1].ascii) => Candidates = {}
         /\ (request.cookies # << >> /\ request.cookies[1].ascii) =>
              \A c : c \in Candidates <=>
                \E a \in 1..4 : \E j \in Positions(request.cookies[1].parts, Aliases[a]) :
                   c = <<a, j>>
<1>1. CASE request.cookies = << >> \/ ~request.cookies[1].ascii
  BY <1>1 DEF Candidates
<1>2. CASE request.cookies # << >> /\ request.cookies[1].ascii
  BY <1>2 DEF Candidates, Positions
<1> QED
  BY <1>1, <1>2

(***************************************************************************)
(* Whatever the user agent sends, extract_session_id picks the cookie of   *)
(* the most preferred name, and of two with that name the first.           *)
(***************************************************************************)
THEOREM PrecedenceHolds == Spec => []SessionByPrecedence
<1>1. RequestTyped => SessionByPrecedence
  <2> SUFFICES ASSUME RequestTyped
               PROVE  SessionByPrecedence
    OBVIOUS
  <2>1. CASE request.cookies = << >> \/ ~request.cookies[1].ascii
    <3>1. extract_session_id(request) = NoText
      BY <2>1 DEF extract_session_id
    <3> QED
      BY <2>1, <3>1, CandidatesAre DEF SessionByPrecedence
  <2>2. CASE request.cookies # << >> /\ request.cookies[1].ascii
    <3> DEFINE h == request.cookies[1].parts
               At(a) == Positions(h, Aliases[a])
    <3>1. \A c : c \in Candidates <=> \E a \in 1..4 : \E j \in At(a) : c = <<a, j>>
      BY <2>2, CandidatesAre
    <3>2. CASE \A a \in 1..4 : At(a) = {}
      <4>1. extract_session_id(request) = NoText
        BY <2>2, <3>2, AliasFound
      <4> QED
        BY <3>1, <3>2, <4>1 DEF SessionByPrecedence
    <3>3. CASE \E a \in 1..4 : At(a) # {}
      <4>1. PICK a \in 1..4 :
               /\ At(a) # {}
               /\ \A b \in 1..4 : At(b) # {} => a <= b
               /\ extract_session_id(request) = cookie_value(h, Aliases[a])
        BY <2>2, <3>3, AliasFound
      <4>2. h \in Seq(Cookies)
        <5>1. request.cookies \in Seq(Header)
          BY DEF RequestTyped
        <5>2. request.cookies[1] \in Header
          BY <2>2, <5>1
        <5> QED
          BY <5>2 DEF Header
      <4>3. PICK j \in At(a) : /\ \A k \in At(a) : j <= k
                               /\ cookie_value(h, Aliases[a]) = h[j][2].word
        <5> HIDE DEF h
        <5> QED
          BY <4>1, <4>2, CookieFound
      <4> DEFINE c == <<a, j>>
      <4>4. c \in Candidates
        BY <3>1, <4>3
      <4>5. ASSUME NEW d \in Candidates \ {c}
            PROVE  Precedes(c, d)
        <5>1. PICK b \in 1..4 : \E k \in At(b) : d = <<b, k>>
          BY <3>1
        <5>2. PICK k \in At(b) : d = <<b, k>>
          BY <5>1
        <5>3. a <= b /\ j \in Nat /\ k \in Nat
          <6>1. a <= b
            BY <4>1, <5>2
          <6>2. \A l \in 1..Len(h) : l \in Nat
            BY <4>2
          <6> QED
            BY <6>1, <6>2 DEF Positions
        <5>4. a = b => j <= k
          BY <4>3, <5>2
        <5>5. a = b => j # k
          BY <4>5, <5>2
        <5>6. a < b \/ (a = b /\ j < k)
          BY <5>3, <5>4, <5>5
        <5> QED
          BY <5>2, <5>6 DEF Precedes
      <4>6. extract_session_id(request) = h[c[2]][2].word
        BY <4>1, <4>3
      <4> QED
        BY <4>4, <4>5, <4>6 DEF SessionByPrecedence
    <3> QED
      BY <3>2, <3>3
  <2> QED
    BY <2>1, <2>2
<1> QED
  BY <1>1, Typing, PTL

-----------------------------------------------------------------------------
(***************************************************************************)
(* Appending to a query that has a state parameter leaves the one that     *)
(* query_param finds where it is.                                          *)
(***************************************************************************)
LEMMA AppendKeepsFirst ==
  ASSUME NEW q \in Seq(Params), NEW p \in Params, NEW key,
         \E j \in 1..Len(q) : Len(q[j]) = 2 /\ q[j][1] = key
  PROVE  query_param(Append(q, p), key) = query_param(q, key)
<1> DEFINE r == Append(q, p)
           I == {j \in 1..Len(q) : Len(q[j]) = 2 /\ q[j][1] = key}
           J == {j \in 1..Len(r) : Len(r[j]) = 2 /\ r[j][1] = key}
           i == IF I # {} THEN Min(I) ELSE 0
           k == IF J # {} THEN Min(J) ELSE 0
<1>1. /\ Len(q) \in Nat /\ Len(r) = Len(q) + 1
      /\ \A j \in 1..Len(q) : r[j] = q[j]
  OBVIOUS
<1>2. /\ query_param(q, key) = IF i = 0 THEN NoText ELSE q[i][2]
      /\ query_param(r, key) = IF k = 0 THEN NoText ELSE r[k][2]
  BY DEF query_param, SelectInSeq
<1>3. I # {} /\ I \in SUBSET (1..Len(q)) /\ J \in SUBSET (1..Len(r))
  OBVIOUS
<1>4. /\ \A j \in 1..Len(q) : j \in I <=> j \in J
      /\ \A j \in J : j \in 1..Len(q) \/ j = Len(q) + 1
  <2> HIDE DEF r
  <2> QED
    BY <1>1
<1> HIDE DEF r, I, J
<1>5. J # {}
  BY <1>3, <1>4
<1>6. i # 0 /\ i \in I /\ \A j \in I : i <= j
  BY <1>1, <1>3, FirstPosition
<1>7. k # 0 /\ k \in J /\ \A j \in J : k <= j
  <2>1. Len(r) \in Nat
    BY <1>1
  <2> QED
    BY <2>1, <1>3, <1>5, FirstPosition
<1> HIDE DEF i, k
<1>8. i = k
  BY <1>1, <1>3, <1>4, <1>6, <1>7
<1>9. r[k] = q[i]
  BY <1>1, <1>3, <1>6, <1>8
<1> QED
  BY <1>2, <1>6, <1>7, <1>9 DEF r

(***************************************************************************)
(* Whatever follows the first state parameter, extract_state_token answers *)
(* as it did without it.                                                   *)
(***************************************************************************)
THEOREM FirstStateDecides == Spec => FirstStateSettles
<1>1. ASSUME RequestTyped, [Next]_request
      PROVE  [HasState(request) => extract_state_token(request')
                                     = extract_state_token(request)]_request
  <2> SUFFICES ASSUME HasState(request), Next
               PROVE  extract_state_token(request') = extract_state_token(request)
    BY <1>1
  <2> DEFINE q == request.query
  <2>1. q \in Seq(Params) /\ q # NoText
        /\ \E j \in 1..Len(q) : Len(q[j]) = 2 /\ q[j][1] = "state"
    BY <1>1 DEF HasState, RequestTyped
  <2>2. ASSUME NEW p \in Params, AddParam(p)
        PROVE  extract_state_token(request') = extract_state_token(request)
    <3>1. request'.query = Append(q, p)
      BY <1>1, <2>1, <2>2 DEF AddParam, RequestTyped
    <3>2. query_param(Append(q, p), "state") = query_param(q, "state")
      <4> HIDE DEF q
      <4> QED
        BY <2>1, AppendKeepsFirst
    <3>3. Append(q, p) # NoText
      <4> HIDE DEF q
      <4>1. Append(q, p) \in Seq(Params)
        BY <2>1
      <4> QED
        BY <4>1, NoTextAssumption
    <3> QED
      BY <2>1, <3>1, <3>2, <3>3 DEF extract_state_token
  <2>3. ASSUME NEW ascii \in BOOLEAN, AddHeader(ascii)
        PROVE  extract_state_token(request') = extract_state_token(request)
    <3>1. request'.query = q
      BY <1>1, <2>3 DEF AddHeader, RequestTyped
    <3> QED
      BY <3>1 DEF extract_state_token
  <2>4. ASSUME NEW c \in Cookies, AddCookie(c)
        PROVE  extract_state_token(request') = extract_state_token(request)
    <3>1. request'.query = q
      BY <1>1, <2>4 DEF AddCookie, RequestTyped
    <3> QED
      BY <3>1 DEF extract_state_token
  <2> QED
    BY <2>2, <2>3, <2>4 DEF Next
<1> QED
  BY <1>1, Typing, PTL DEF Spec, FirstStateSettles
=============================================================================
