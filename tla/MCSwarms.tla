------------------------------ MODULE MCSwarms ------------------------------
(* Two requests for the one worker the swarm may have, one by a human and    *)
(* one by an agent whose run may be replaced, and a message sent twice.      *)
EXTENDS Swarms, TLC

CONSTANTS m1, m2

Asked == "c1" :> [kind |-> "spawn", request |-> "r1", attempt |-> 1]
      @@ "c2" :> [kind |-> "spawn", request |-> "r2", attempt |-> 0]
      @@ "c3" :> [kind |-> "send", request |-> "s1", attempt |-> 0]
      @@ "c4" :> [kind |-> "send", request |-> "s1", attempt |-> 0]
=============================================================================
