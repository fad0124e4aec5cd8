---------------------------- MODULE CallbackAssembly --------------------------
(***************************************************************************)
(* The callback requests that a user agent can put together part by part:  *)
(* the query grows by parameters, the last Cookie header by cookies, and   *)
(* further Cookie headers may follow it.  What the middleware reads from   *)
(* them is in CallbackRequest.                                             *)
(***************************************************************************)
EXTENDS CallbackRequest

CONSTANTS
  Params,      \* what a query may be made of: <<name, value>> or <<name>>
  Words,       \* names and values of cookies
  Cookies,     \* what a Cookie header may be made of, likewise
  MaxParts,    \* bound: most parts, of the query and of all Cookie headers together
  MaxHeaders   \* bound: most Cookie headers

Text == [word : Words, padded : BOOLEAN]

Header == [ascii : BOOLEAN, parts : Seq(Cookies)]

ASSUME CookiesAssumption == Cookies \subseteq Seq(Text)
ASSUME NoTextAssumption == NoText \notin Words /\ NoText \notin Seq(Params)

VARIABLE request

-----------------------------------------------------------------------------
Parts ==
  (IF request.query = NoText THEN 0 ELSE Len(request.query))
    + FoldSeq(LAMBDA header, n : n + Len(header.parts), 0, request.cookies)

Init == request = [query |-> NoText, cookies |-> << >>]

AddParam(p) ==
  /\ Parts < MaxParts
  /\ request' = [request EXCEPT !.query = IF @ = NoText THEN <<p>> ELSE Append(@, p)]

AddHeader(ascii) ==
  /\ Len(request.cookies) < MaxHeaders
  /\ request' = [request EXCEPT !.cookies = Append(@, [ascii |-> ascii, parts |-> << >>])]

AddCookie(c) ==
  LET last == Len(request.cookies) IN
  /\ last > 0
  /\ Parts < MaxParts
  /\ request' = [request EXCEPT !.cookies[last].parts = Append(@, c)]

Next ==
  \/ \E p \in Params : AddParam(p)
  \/ \E ascii \in BOOLEAN : AddHeader(ascii)
  \/ \E c \in Cookies : AddCookie(c)

Spec == Init /\ [][Next]_request

-----------------------------------------------------------------------------
(***************************************************************************)
(* Reference: the cookies of the first Cookie header that carry a session, *)
(* as <<rank of the alias, position>>.                                     *)
(***************************************************************************)
Candidates ==
  IF request.cookies = << >> THEN {}
  ELSE LET h == request.cookies[1] IN
       {c \in (1..4) \X (1..Len(h.parts)) :
          h.ascii /\ Len(h.parts[c[2]]) = 2 /\ h.parts[c[2]][1].word = Aliases[c[1]]}

Precedes(c, d) == c[1] < d[1] \/ (c[1] = d[1] /\ c[2] < d[2])

(***************************************************************************)
(* extract_session_id, four scans of the header chained by or_else, picks  *)
(* the cookie of the most preferred name, wherever it stands, and of two   *)
(* with that name the first; it answers None only when no readable first   *)
(* header carries any of the names.                                        *)
(***************************************************************************)
SessionByPrecedence ==
  IF Candidates = {} THEN extract_session_id(request) = NoText
  ELSE \E c \in Candidates :
         /\ \A d \in Candidates \ {c} : Precedes(c, d)
         /\ extract_session_id(request) = request.cookies[1].parts[c[2]][2].word

(***************************************************************************)
(* The first state parameter settles the matter: what is appended to the   *)
(* request after it, a second state included, never changes what           *)
(* extract_state_token returns, even where the first one is undecodable or *)
(* too long and the second would be acceptable.                            *)
(***************************************************************************)
HasState(r) ==
  r.query # NoText /\ \E i \in DOMAIN r.query : r.query[i][1] = "state" /\ Len(r.query[i]) = 2

FirstStateSettles ==
  [][HasState(request) => extract_state_token(request') = extract_state_token(request)]_request
=============================================================================
