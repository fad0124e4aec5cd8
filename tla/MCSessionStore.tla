---------------------------- MODULE MCSessionStore ----------------------------
(***************************************************************************)
(* Small instances of the session store for TLC.                           *)
(***************************************************************************)
EXTENDS SessionStoreHistory, TLC

\* Threads, tokens and sessions are interchangeable.
Symmetry == Permutations(Threads) \cup Permutations(Tokens) \cup Permutations(Sessions)
=============================================================================
