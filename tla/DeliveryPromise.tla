-------------------------- MODULE DeliveryPromise --------------------------
(***************************************************************************)
(* What the delivery outbox promises of each delivery, whoever drains it   *)
(* and whatever fails: once asked for it is posted once and then           *)
(* delivered, which is final; or it expires, and may be asked for again.   *)
(* A delivery that was asked for again after it expired, or was sent from  *)
(* two places before it was delivered, is conceded: it may be posted twice.*)
(* DeliveryDispatch implements this specification.                         *)
(***************************************************************************)
EXTENDS Naturals

CONSTANT Deliveries

VARIABLE letter \* of each delivery: its outcome, its posts, and whether it is
                \* conceded

Letter(o, n, c) == [outcome |-> o, posts |-> n, conceded |-> c]

PromiseInit == letter = [d \in Deliveries |-> Letter("none", 0, FALSE)]

(* One step of a delivery, from s to t.                                      *)
Asked(s, t) ==
    /\ s.outcome \in {"none", "expired"}
    /\ \E c \in BOOLEAN :
          /\ s.conceded => c
          /\ c => s.conceded \/ s.outcome = "expired"
          /\ t = Letter("open", s.posts, c)

Conceded(s, t) ==
    /\ s.outcome \in {"open", "expired"}
    /\ t = Letter(s.outcome, s.posts, TRUE)

Posted(s, t) ==
    /\ \/ s.outcome \in {"open", "expired"} /\ s.posts = 0
       \/ s.outcome # "none" /\ s.conceded
    /\ t = Letter(s.outcome, s.posts + 1, s.conceded)

Delivered(s, t) ==
    /\ s.outcome \in {"open", "expired"} /\ s.posts > 0
    /\ t = Letter("delivered", s.posts, s.conceded)

Expired(s, t) ==
    /\ s.outcome = "open"
    /\ t = Letter("expired", s.posts, s.conceded)

Moves(s, t) ==
    \/ Asked(s, t) \/ Conceded(s, t) \/ Posted(s, t)
    \/ Delivered(s, t) \/ Expired(s, t)

(* A claim expires several deliveries at once.                               *)
PromiseNext ==
    /\ DOMAIN letter' = Deliveries
    /\ \A d \in Deliveries :
          letter'[d] = letter[d] \/ Moves(letter[d], letter'[d])

PromiseSpec == PromiseInit /\ [][PromiseNext]_letter
=============================================================================
