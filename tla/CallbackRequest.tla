---------------------------- MODULE CallbackRequest ---------------------------
(***************************************************************************)
(* What the callback middleware reads from an HTTP request                 *)
(* (src/src/middleware/pkce_state_session.rs): the state token, from the   *)
(* query, and the session identifier, from the Cookie header.              *)
(*                                                                         *)
(* A query is the sequence of its parts between "&", a Cookie header the   *)
(* sequence of its parts between ";".  A part is what split_once('=')      *)
(* makes of it: <<name, value>>, or <<name>> when it has no "=".  Cookie   *)
(* names and values may be padded with blanks; a URI holds none.           *)
(***************************************************************************)
EXTENDS Integers, Sequences, SequencesExt

CONSTANTS
  Decode,       \* raw query value |-> the token it decodes to, or NoText
  Size,         \* decoded token |-> its length in bytes
  NoText        \* None

STATE_MAX_LEN == 1024

Trim(text) == [word |-> text.word, padded |-> FALSE]

\* Mutant of query_param: the last match wins.
query_param_last(query, key) ==
  LET i == SelectLastInSeq(query, LAMBDA part : Len(part) = 2 /\ part[1] = key)
  IN  IF i = 0 THEN NoText ELSE query[i][2]

(***************************************************************************)
(* find_map: the value of the first part that has one and whose name is    *)
(* the key.                                                                *)
(***************************************************************************)
query_param(query, key) ==
  LET i == SelectInSeq(query, LAMBDA part : Len(part) = 2 /\ part[1] = key)
  IN  IF i = 0 THEN NoText ELSE query[i][2]

\* Mutant of cookie_value: the name is not trimmed.
cookie_value_untrimmed(header, key) ==
  LET Named(part) == Len(part) = 2 /\ part[1] = [word |-> key, padded |-> FALSE]
      i == SelectInSeq(header, Named)
  IN  IF i = 0 THEN NoText ELSE Trim(header[i][2]).word

(***************************************************************************)
(* The same for a Cookie header, with the blanks trimmed off the name and  *)
(* off the value that is returned.                                         *)
(***************************************************************************)
cookie_value(header, key) ==
  LET Named(part) == Len(part) = 2 /\ Trim(part[1]) = [word |-> key, padded |-> FALSE]
      i == SelectInSeq(header, Named)
  IN  IF i = 0 THEN NoText ELSE Trim(header[i][2]).word

(***************************************************************************)
(* The cookie names, in the order they are tried.                          *)
(***************************************************************************)
Aliases == <<"session_id", "authkit_session", "authvault_session", "sid">>

(***************************************************************************)
(* headers().get(COOKIE) is the first of the request's Cookie headers;     *)
(* to_str() fails on a header that is not visible ASCII.                   *)
(***************************************************************************)
extract_session_id(request) ==
  LET Found(alias) == cookie_value(request.cookies[1].parts, alias) # NoText
      i == SelectInSeq(Aliases, Found)
  IN  IF request.cookies = << >> THEN NoText
      ELSE IF ~request.cookies[1].ascii THEN NoText
      ELSE IF i = 0 THEN NoText
      ELSE cookie_value(request.cookies[1].parts, Aliases[i])

(***************************************************************************)
(* uri().query() is None (no "?") or the query.  The first state parameter *)
(* is percent-decoded, must be UTF-8 (else Decode gives NoText), and is    *)
(* dropped when it is longer than STATE_MAX_LEN once decoded.              *)
(***************************************************************************)
extract_state_token(request) ==
  LET raw == IF request.query = NoText THEN NoText ELSE query_param(request.query, "state")
      decoded == IF raw = NoText THEN NoText ELSE Decode[raw]
  IN  IF decoded = NoText THEN NoText
      ELSE IF Size[decoded] > STATE_MAX_LEN THEN NoText
      ELSE decoded
=============================================================================
