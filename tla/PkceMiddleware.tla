---------------------------- MODULE PkceMiddleware ----------------------------
(***************************************************************************)
(* enforce_pkce_state_session                                              *)
(* (src/src/middleware/pkce_state_session.rs) in front of the in-memory    *)
(* store: workers serve OAuth callbacks while the application's own        *)
(* threads bind, verify and revoke states.                                 *)
(*                                                                         *)
(* The decision is one verify_state call.  It does not consume the         *)
(* binding, and the handler runs after the store's mutex was released: the *)
(* same state may be presented again, and the binding may be revoked,      *)
(* replaced or past its deadline while the handler runs.                   *)
(***************************************************************************)
EXTENDS SessionStoreHistory, CallbackRequest

CONSTANTS
  Workers,       \* the threads that run the middleware; the rest are the application's
  HttpRequests,  \* the requests that may arrive
  NoRequest

ASSUME WorkersAssumption == Workers \subseteq Threads

ASSUME HttpRequestsAssumption ==
  \A q \in HttpRequests :
    /\ extract_state_token(q) \in Tokens \cup {NoText}
    /\ extract_session_id(q) \in Sessions \cup {NoText}

VARIABLES
  request,   \* the request each worker serves
  stage,     \* where in enforce_pkce_state_session it is
  outcome,   \* the outcome or rejection reason of the audit event
  wasLive,   \* record: its binding was live at some instant before the decision
  wasDead    \* record: its binding was not live at some such instant

requestVars == <<request, stage, outcome>>
mvars == <<hvars, requestVars, wasLive, wasDead>>

-----------------------------------------------------------------------------
(***************************************************************************)
(* What the middleware reads from each request.                            *)
(***************************************************************************)
StateOf == [q \in HttpRequests |-> extract_state_token(q)]
SessionOf == [q \in HttpRequests |-> extract_session_id(q)]

MInit ==
  /\ HInit
  /\ request = [w \in Workers |-> NoRequest]
  /\ stage = [w \in Workers |-> "idle"]
  /\ outcome = [w \in Workers |-> "none"]
  /\ wasLive = [w \in Workers |-> FALSE]
  /\ wasDead = [w \in Workers |-> FALSE]

(***************************************************************************)
(* External: the server hands a callback to a worker that is free.         *)
(***************************************************************************)
Arrive(w, q) ==
  /\ stage[w] \in {"idle", "replied"}
  /\ request' = [request EXCEPT ![w] = q]
  /\ stage' = [stage EXCEPT ![w] = "arrived"]
  /\ outcome' = [outcome EXCEPT ![w] = "none"]
  /\ UNCHANGED hvars

(***************************************************************************)
(* invalid_state_response with the audit event's reason: a 401 ends the    *)
(* request without the handler.                                            *)
(***************************************************************************)
Reject(w, reason) ==
  /\ stage' = [stage EXCEPT ![w] = "replied"]
  /\ outcome' = [outcome EXCEPT ![w] = reason]
  /\ UNCHANGED request

RejectState(w) ==
  /\ stage[w] = "arrived"
  /\ StateOf[request[w]] = NoText
  /\ Reject(w, "missing_or_oversized_state")
  /\ UNCHANGED hvars

RejectSession(w) ==
  /\ stage[w] = "arrived"
  /\ StateOf[request[w]] # NoText
  /\ SessionOf[request[w]] = NoText
  /\ Reject(w, "missing_session_cookie")
  /\ UNCHANGED hvars

(***************************************************************************)
(* store.verify_state(&state_token, session_id) is called ...              *)
(***************************************************************************)
Question(q) == [op |-> "verify_state", token |-> StateOf[q],
                session |-> SessionOf[q]]

CallVerify(w) ==
  /\ stage[w] = "arrived"
  /\ StateOf[request[w]] # NoText
  /\ SessionOf[request[w]] # NoText
  /\ Invoke(w, Question(request[w]))
  /\ stage' = [stage EXCEPT ![w] = "verifying"]
  /\ UNCHANGED <<hist, request, outcome>>

(***************************************************************************)
(* ... and its answer forwards the request or rejects it.                  *)
(***************************************************************************)
\* Mutant of Allow: only a definite mismatch is kept out.
AllowUnlessMismatch(w) ==
  /\ stage[w] = "verifying"
  /\ res[w] # "OkFalse"
  /\ Return(w)
  /\ stage' = [stage EXCEPT ![w] = "running"]
  /\ outcome' = [outcome EXCEPT ![w] = "allow"]
  /\ UNCHANGED <<hist, request>>

Allow(w) ==
  /\ stage[w] = "verifying"
  /\ res[w] = "OkTrue"
  /\ Return(w)
  /\ stage' = [stage EXCEPT ![w] = "running"]
  /\ outcome' = [outcome EXCEPT ![w] = "allow"]
  /\ UNCHANGED <<hist, request>>

\* Mutant of RejectMismatch: an error of the store counts as a mismatch.
RejectMismatchOrError(w) ==
  /\ stage[w] = "verifying"
  /\ res[w] # "OkTrue"
  /\ Return(w)
  /\ Reject(w, "state_session_mismatch")
  /\ UNCHANGED hist

RejectMismatch(w) ==
  /\ stage[w] = "verifying"
  /\ res[w] = "OkFalse"
  /\ Return(w)
  /\ Reject(w, "state_session_mismatch")
  /\ UNCHANGED hist

RejectStoreError(w) ==
  /\ stage[w] = "verifying"
  /\ res[w] \notin {"OkTrue", "OkFalse"}
  /\ Return(w)
  /\ Reject(w, "store_error")
  /\ UNCHANGED hist

(***************************************************************************)
(* External: next.run(request).await ends, with the handler's response or  *)
(* because the client went away and the future was dropped.                *)
(***************************************************************************)
HandlerEnds(w) ==
  /\ stage[w] = "running"
  /\ stage' = [stage EXCEPT ![w] = "replied"]
  /\ UNCHANGED <<hvars, request, outcome>>

Decide(w) == Allow(w) \/ RejectMismatch(w) \/ RejectStoreError(w)

Enforce(w) == RejectState(w) \/ RejectSession(w) \/ CallVerify(w)

(***************************************************************************)
(* The application's threads use the store directly.                       *)
(***************************************************************************)
AppStep(t) ==
  /\ \/ \E c \in Call : Invoke(t, c) /\ UNCHANGED hist
     \/ HStep(t)
     \/ Return(t) /\ UNCHANGED hist
  /\ UNCHANGED requestVars

-----------------------------------------------------------------------------
(***************************************************************************)
(* The bindings in force: made, neither replaced nor revoked nor found     *)
(* expired since, and with their deadline still ahead.                     *)
(***************************************************************************)
Live == {b \in Tokens \X Sessions : Stands(b[1], b[2]) /\ hist[b[1]].at + Ttl > now}

(***************************************************************************)
(* The record kept while a request awaits its decision: whether its        *)
(* binding has been seen in force, and whether it has been seen not to be. *)
(***************************************************************************)
Seen(w, seen, holds) ==
  IF stage'[w] = "arrived" THEN (stage[w] = "arrived" /\ seen) \/ holds
  ELSE IF stage'[w] = "verifying" THEN seen \/ holds
  ELSE seen

Needs(q) == <<StateOf[q], SessionOf[q]>>

Watch ==
  /\ wasLive' = [w \in Workers |-> Seen(w, wasLive[w], Needs(request'[w]) \in Live')]
  /\ wasDead' = [w \in Workers |-> Seen(w, wasDead[w], Needs(request'[w]) \notin Live')]

MNext ==
  /\ \/ \E w \in Workers : \/ \E q \in HttpRequests : Arrive(w, q)
                           \/ Enforce(w)
                           \/ HStep(w) /\ UNCHANGED requestVars
                           \/ Decide(w)
                           \/ HandlerEnds(w)
     \/ \E t \in Threads \ Workers : AppStep(t)
     \/ SetClock /\ UNCHANGED <<hist, requestVars>>
  /\ Watch

MSpec == MInit /\ [][MNext]_mvars

(***************************************************************************)
(* A worker's own code runs to its next await, and so does a call inside   *)
(* the store.  A free mutex is taken by one of those that wait, but        *)
(* std::sync::Mutex does not say by which.                                 *)
(***************************************************************************)
MFairness ==
  /\ Fairness
  /\ \A w \in Workers : /\ WF_mvars(Enforce(w) /\ Watch)
                        /\ WF_mvars(Decide(w) /\ Watch)
                        /\ WF_mvars(HStep(w) /\ UNCHANGED requestVars /\ Watch)

MFairSpec == MSpec /\ MFairness

-----------------------------------------------------------------------------
(***************************************************************************)
(* A callback reaches the handler only if, at some instant between its     *)
(* arrival and the decision, its state was bound to its session and not    *)
(* expired, whatever binds, revocations and clock changes happened         *)
(* meanwhile.                                                              *)
(***************************************************************************)
ForwardedWasLive == \A w \in Workers : outcome[w] = "allow" => wasLive[w]

(***************************************************************************)
(* A callback is rejected as state_session_mismatch only if, at some       *)
(* instant between its arrival and the decision, the binding it needs was  *)
(* missing, another session's or expired: a binding that is live all along *)
(* is never refused.                                                       *)
(***************************************************************************)
MismatchWasDead ==
  \A w \in Workers : outcome[w] = "state_session_mismatch" => wasDead[w]

(***************************************************************************)
(* A callback that arrives is decided, unless other threads keep taking    *)
(* the store's mutex for ever: a poisoned mutex or a refused bind never    *)
(* leaves a request hanging.                                               *)
(***************************************************************************)
CallbackDecided ==
  \A w \in Workers :
    \/ []<>(holder \notin {w, NoThread})
    \/ stage[w] = "arrived" ~> stage[w] \in {"running", "replied"}

(***************************************************************************)
(* The middleware fails closed.  A panic under the store's mutex breaks    *)
(* the store for good; from then on no callback that arrives is forwarded, *)
(* however its binding stands in the frozen map, and none is blamed on its *)
(* client as state_session_mismatch: the error of verify_state is reported *)
(* as store_error.                                                         *)
(***************************************************************************)
FailsClosed ==
  \A w \in Workers :
    [](poisoned /\ stage[w] = "arrived"
         => [](outcome[w] \notin {"allow", "state_session_mismatch"}))
=============================================================================
