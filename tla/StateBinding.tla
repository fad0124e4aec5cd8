----------------------------- MODULE StateBinding -----------------------------
(***************************************************************************)
(* What the SessionStore port (the trait in                                *)
(* src/src/domain/session_store.rs) promises to its callers, whatever the  *)
(* adapter behind it: a register of bindings, on which every method takes  *)
(* effect at one instant between its call and its return.                  *)
(*                                                                         *)
(* Time, the mutex and the order of steps inside an adapter do not appear. *)
(* A binding may lapse at any instant (its time to live is over), and an   *)
(* adapter may break for good, after which every method fails.             *)
(***************************************************************************)
EXTENDS Integers, FiniteSets

CONSTANTS Threads, Tokens, Sessions, MaxEntries, Call, NoCall, NoSession

VARIABLES
  bound,   \* the session each token is bound to, or NoSession
  broken,  \* the adapter has failed for good
  status,  \* "idle", "busy" or "return", for each thread
  call,    \* the call each thread is in
  res      \* what its call returned

vars == <<bound, broken, status, call, res>>

Init ==
  /\ bound = [k \in Tokens |-> NoSession]
  /\ broken = FALSE
  /\ status = [t \in Threads |-> "idle"]
  /\ call = [t \in Threads |-> NoCall]
  /\ res = [t \in Threads |-> "none"]

Invoke(t, c) ==
  /\ status[t] = "idle"
  /\ status' = [status EXCEPT ![t] = "busy"]
  /\ call' = [call EXCEPT ![t] = c]
  /\ UNCHANGED <<bound, broken, res>>

(***************************************************************************)
(* The call of thread t, a call of op, takes effect and answers r.         *)
(***************************************************************************)
TakesEffect(t, op, r) ==
  /\ status[t] = "busy"
  /\ call[t].op = op
  /\ ~broken
  /\ status' = [status EXCEPT ![t] = "return"]
  /\ res' = [res EXCEPT ![t] = r]
  /\ UNCHANGED call

HasRoomFor(k) ==
  \/ MaxEntries = 0
  \/ Cardinality({j \in Tokens : bound[j] # NoSession}) < MaxEntries
  \/ bound[k] # NoSession

(***************************************************************************)
(* bind_state binds when there is room, is refused when there is none, and *)
(* may break the adapter instead.                                          *)
(***************************************************************************)
Bind(t) ==
  /\ TakesEffect(t, "bind_state", "Ok")
  /\ HasRoomFor(call[t].token)
  /\ bound' = [bound EXCEPT ![call[t].token] = call[t].session]
  /\ UNCHANGED broken

Refuse(t) ==
  /\ TakesEffect(t, "bind_state", "AtCapacity")
  /\ ~HasRoomFor(call[t].token)
  /\ UNCHANGED <<bound, broken>>

Break(t) ==
  /\ TakesEffect(t, "bind_state", "Panicked")
  /\ broken' = TRUE
  /\ UNCHANGED bound

Verify(t) ==
  /\ TakesEffect(t, "verify_state",
       IF bound[call[t].token] = call[t].session THEN "OkTrue" ELSE "OkFalse")
  /\ UNCHANGED <<bound, broken>>

Revoke(t) ==
  /\ TakesEffect(t, "revoke_state", "Ok")
  /\ bound' = [bound EXCEPT ![call[t].token] = NoSession]
  /\ UNCHANGED broken

Fail(t) ==
  /\ status[t] = "busy"
  /\ broken
  /\ status' = [status EXCEPT ![t] = "return"]
  /\ res' = [res EXCEPT ![t] = "Poisoned"]
  /\ UNCHANGED <<bound, broken, call>>

Return(t) ==
  /\ status[t] = "return"
  /\ status' = [status EXCEPT ![t] = "idle"]
  /\ call' = [call EXCEPT ![t] = NoCall]
  /\ res' = [res EXCEPT ![t] = "none"]
  /\ UNCHANGED <<bound, broken>>

(***************************************************************************)
(* Bindings lapse only while some call that looks at the time is busy, and *)
(* a broken adapter keeps what it holds.                                   *)
(***************************************************************************)
Lapse ==
  /\ ~broken
  /\ \E t \in Threads : status[t] = "busy" /\ call[t].op # "revoke_state"
  /\ \E S \in SUBSET Tokens :
       bound' = [k \in Tokens |-> IF k \in S THEN NoSession ELSE bound[k]]
  /\ UNCHANGED <<broken, status, call, res>>

Next ==
  \/ \E t \in Threads : \/ \E c \in Call : Invoke(t, c)
                        \/ Bind(t)
                        \/ Refuse(t)
                        \/ Break(t)
                        \/ Verify(t)
                        \/ Revoke(t)
                        \/ Fail(t)
                        \/ Return(t)
  \/ Lapse

Spec == Init /\ [][Next]_vars
=============================================================================
