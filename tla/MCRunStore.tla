----------------------------- MODULE MCRunStore -----------------------------
(* Small instances of RunStore for TLC.                                      *)
EXTENDS RunStore, TLC

CONSTANTS s1, k1

(* All runs are turns of one session: everything that happens to siblings.   *)
OneSession == [r \in Runs |-> s1]

NoKeys == [r \in Runs |-> NoKey]

(* Every run is the same request, resent under one idempotency key.          *)
SameKey == [r \in Runs |-> k1]
=============================================================================
