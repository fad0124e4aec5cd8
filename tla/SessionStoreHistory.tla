-------------------------- MODULE SessionStoreHistory -------------------------
(***************************************************************************)
(* The store of SessionStore with a record of what happened to it: for     *)
(* each token, the last successful bind_state that no revoke_state has     *)
(* followed, and whether some call has since read a clock at or past the   *)
(* deadline of that binding.  The record is written beside the code's      *)
(* steps and is never read by them.                                        *)
(***************************************************************************)
EXTENDS SessionStore

CONSTANT NoBinding

(***************************************************************************)
(* A binding: its session, the reading of the clock its deadline was       *)
(* computed from, and whether it was found expired.                        *)
(***************************************************************************)
Binding == [session : Sessions,
            at : {x \in Clock : Representable(x + Ttl)},
            lapsed : BOOLEAN]

ASSUME NoBindingAssumption == NoBinding \notin Binding

VARIABLE hist

hvars == <<vars, hist>>

HTypeOK == TypeOK /\ hist \in [Tokens -> Binding \cup {NoBinding}]

-----------------------------------------------------------------------------
HInit == Init /\ hist = [k \in Tokens |-> NoBinding]

RecordBind(t) ==
  hist' = [hist EXCEPT ![call[t].token] =
             [session |-> call[t].session, at |-> now, lapsed |-> FALSE]]

RecordRevoke(t) == hist' = [hist EXCEPT ![call[t].token] = NoBinding]

RecordLapse ==
  hist' = [k \in Tokens |->
             IF hist[k] # NoBinding
               THEN [hist[k] EXCEPT !.lapsed = @ \/ hist[k].at + Ttl <= now]
               ELSE NoBinding]

(***************************************************************************)
(* A step of a call that is under way, with its record.                    *)
(***************************************************************************)
HStep(t) ==
  \/ /\ \/ Lock(t)
        \/ LockPoisoned(t)
        \/ BindRefused(t)
        \/ BindPanics(t)
        \/ VerifyState(t)
     /\ UNCHANGED hist
  \/ EvictExpired(t) /\ RecordLapse
  \/ BindInserts(t) /\ RecordBind(t)
  \/ RevokeState(t) /\ RecordRevoke(t)

HNext ==
  \/ \E t \in Threads : \/ \E c \in Call : Invoke(t, c) /\ UNCHANGED hist
                        \/ HStep(t)
                        \/ Return(t) /\ UNCHANGED hist
  \/ SetClock /\ UNCHANGED hist

HSpec == HInit /\ [][HNext]_hvars

HFairSpec == HSpec /\ Fairness

-----------------------------------------------------------------------------
(***************************************************************************)
(* The binding of k to s stands: made, neither replaced nor revoked since, *)
(* and not found past its deadline by any call.                            *)
(***************************************************************************)
Stands(k, s) ==
  /\ hist[k] # NoBinding
  /\ hist[k].session = s
  /\ ~hist[k].lapsed

(***************************************************************************)
(* The map holds exactly the bindings that stand, with their deadlines:    *)
(* no entry survives its revocation, its replacement or the discovery that *)
(* it expired, and no binding is lost for another reason (another token's  *)
(* eviction, a refused bind at the ceiling, a panic of another caller).    *)
(***************************************************************************)
MapIsTheBindingsThatStand ==
  \A k \in Tokens :
    map[k] = IF hist[k] # NoBinding /\ ~hist[k].lapsed
               THEN [session_id |-> hist[k].session, expires_at |-> hist[k].at + Ttl]
               ELSE NoEntry

(***************************************************************************)
(* The ceiling of with_capacity holds at every instant, under any          *)
(* interleaving of binds: the check and the insert cannot be separated by  *)
(* another thread's insert.                                                *)
(***************************************************************************)
WithinCapacity == MaxEntries # 0 => Cardinality(Keys(map)) <= MaxEntries

(***************************************************************************)
(* verify_state answers true exactly for a binding that stands and whose   *)
(* deadline was still ahead when this call read the clock.  A clock set    *)
(* back does not revive a binding that any call has seen expired.          *)
(***************************************************************************)
VerifyIsExact ==
  [][\A t \in Threads :
       (pc[t] = "body" /\ pc'[t] = "return" /\ call[t].op = "verify_state")
         => (res'[t] = "OkTrue" <=> Stands(call[t].token, call[t].session))]_hvars

(***************************************************************************)
(* Once bind_state has panicked under the lock, the store fails closed:    *)
(* the poison stays, the map never changes again and no call returns       *)
(* anything but Err(Poisoned).                                             *)
(***************************************************************************)
PoisonIsFinal ==
  [][poisoned =>
       /\ poisoned' /\ map' = map
       /\ \A t \in Threads :
            (pc[t] # "return" /\ pc'[t] = "return") => res'[t] = "Poisoned"]_hvars
=============================================================================
