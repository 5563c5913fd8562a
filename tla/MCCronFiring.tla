---------------------------- MODULE MCCronFiring ----------------------------
(* Two processes, of which none, one or both have a working queue.           *)
EXTENDS CronFiring, TLC

CONSTANTS p1, p2

BothQueue == p1 :> "queue" @@ p2 :> "queue"
Mixed == p1 :> "queue" @@ p2 :> "tick"
BothTick == p1 :> "tick" @@ p2 :> "tick"

(* Two queues compete for the slot of an interval as for a calendar's.       *)
AnySetup ==
    [kind : {"calendar", "oneshot"}, mode : {BothQueue, Mixed, BothTick}]
    \cup [kind : {"interval"}, mode : {Mixed, BothTick}]

Disturbances == {"crash", "cut", "ill", "error", "busy", "mute", "withheld",
                 "authz", "pause"}
=============================================================================
