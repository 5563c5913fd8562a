----------------------- MODULE MCBackgroundController -----------------------
(* A handover between deployments a and b, each process in a task of its own.*)
EXTENDS BackgroundController, TLC

CONSTANTS a, b, a1, b1, t1, t2

Replicas == a1 :> a @@ b1 :> b
TaskPlacement == a1 :> t1 @@ b1 :> t2

(* Before the bootstrap, only a runs background work.                        *)
LegacyOwner == a1 :> "yes" @@ b1 :> "no"
=============================================================================
