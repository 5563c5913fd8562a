----------------------- MODULE MCBackgroundOwnership ------------------------
(* A handover instance: two replicas of deployment a, one of deployment b;   *)
(* a2 is a second process in the task of a1.                                 *)
EXTENDS BackgroundOwnership, TLC

CONSTANTS a, b, a1, a2, b1, t1, t2

Replicas == a1 :> a @@ a2 :> a @@ b1 :> b
TaskPlacement == a1 :> t1 @@ a2 :> t1 @@ b1 :> t2
=============================================================================
