-------------------------- MODULE DeliveryDispatch --------------------------
(***************************************************************************)
(* The delivery outbox and the Slack relays that drain it:                 *)
(* src/delivery/postgres-delivery-store.ts (the rows and their claims),    *)
(* src/slack/deliveries.ts (drainClaimed under the dispatch lease),        *)
(* src/slack/delivery.ts (deliverWithRetry, the tracker, postWithVerify).  *)
(*                                                                         *)
(* A relay is one process: pc is the call it awaits.  Time is relative: a  *)
(* row has an age and what is left of its claim, a relay what is left of   *)
(* the claims it believes in, and Tick lets one unit pass for all of them. *)
(*                                                                         *)
(* Faults selects what may go wrong, MaxFaults times in all:               *)
(*   "crash"  the relay's process dies and restarts;                       *)
(*   "cut"    the session that holds the dispatch lease is cut;            *)
(*   "post"   chat.postMessage fails, with or without having posted;       *)
(*   "store"  a claim, an ack or a look into the channel history fails.    *)
(*                                                                         *)
(* The rows of Unkeyed are sent without postWithVerify(): attachments      *)
(* without a text, reactions, pins, deletions.                             *)
(***************************************************************************)
EXTENDS LeaderLease

CONSTANTS Deliveries,
          Unkeyed,     \* those that post() sends without a key to find them by
          ClaimMs,     \* DELIVERY_CLAIM_MS
          Margin,      \* claimMargin
          MaxAge,      \* maxAgeMs of the store
          ClaimLag,    \* time from enqueue()'s Date.now() to a first claim
          MaxAttempts, \* DELIVERY_MAX_ATTEMPTS
          MaxTracked,  \* DELIVERY_MAX_TRACKED
          MaxEnqueues, \* bound: calls of enqueue() with an effect
          Faults, MaxFaults

ASSUME DeliveryAssumption ==
    /\ IsFiniteSet(Deliveries) /\ Unkeyed \subseteq Deliveries
    /\ ClaimMs \in Nat /\ MaxAge \in Nat /\ Margin \in Nat /\ ClaimLag \in Nat
    /\ Margin < ClaimMs /\ ClaimMs < MaxAge
    /\ MaxAttempts \in Nat \ {0} /\ MaxTracked \in Nat \ {0}
    /\ MaxEnqueues \in Nat
    /\ Faults \subseteq {"crash", "cut", "post", "store"} /\ MaxFaults \in Nat

VARIABLES
    row,      \* the deliveries table
    channel,  \* what Slack shows of each delivery: its posts, and how often
              \* what goes without a key was sent
    relay,    \* the relay of each process
    excused,  \* deliveries sent from two places at once, or again after expiry
    enqueues, faults \* counts, for the bounds

countVars == <<enqueues, faults>>
deliveryVars == <<row, channel, relay, excused, countVars>>
dispatchVars == <<leaseVars, deliveryVars>>

Row == [status : {"absent", "pending", "delivered", "expired"},
        claim : 0..ClaimMs, age : 0..MaxAge]

(* queue is what is left of the drain's queue, its head in hand; got the     *)
(* rows of a claim on their way back; exp what expiresAt leaves of each      *)
(* claim, and real what is left of it from the UPDATE on, which no variable  *)
(* of the code holds: expiresAt counts from the answer.  attempt counts      *)
(* claims or posts; posted, failures and dead are the maps of the tracker.   *)
Relay == [pc : {"idle", "claim", "claimed", "next", "reclaim", "reclaimed",
                "verify", "post", "reverify", "limited", "files", "ack"},
          queue : Seq(Deliveries), seen : SUBSET Deliveries,
          got : SUBSET Deliveries,
          exp : [Deliveries -> 0..ClaimMs], real : [Deliveries -> 0..ClaimMs],
          attempt : 0..2, posted : Seq(Deliveries),
          failures : [Deliveries -> 0..MaxAttempts], dead : SUBSET Deliveries]

DeliveryTypeOK ==
    /\ LeaseTypeOK
    /\ row \in [Deliveries -> Row]
    /\ channel \in [Deliveries -> [posts : Nat, files : Nat]]
    /\ relay \in [Processes -> Relay]
    /\ \A r \in Processes : Len(relay[r].posted) <= MaxTracked
    /\ excused \subseteq Deliveries
    /\ enqueues \in 0..MaxEnqueues /\ faults \in 0..MaxFaults

NoClaims == [d \in Deliveries |-> 0]

FreshRelay == [pc |-> "idle", queue |-> <<>>, seen |-> {}, got |-> {},
               exp |-> NoClaims, real |-> NoClaims, attempt |-> 0,
               posted |-> <<>>,
               failures |-> [d \in Deliveries |-> 0], dead |-> {}]

DispatchInit ==
    /\ LeaseInit
    /\ row = [d \in Deliveries |->
                [status |-> "absent", claim |-> 0, age |-> 0]]
    /\ enqueues = 0
    /\ channel = [d \in Deliveries |-> [posts |-> 0, files |-> 0]]
    /\ relay = [r \in Processes |-> FreshRelay]
    /\ excused = {}
    /\ faults = 0

(* Inside the post() that deliverWithRetry() was given.                      *)
Sending == {"verify", "post", "reverify", "limited", "files"}

Fault(kind) ==
    /\ kind \in Faults /\ faults < MaxFaults
    /\ faults' = faults + 1
    /\ UNCHANGED enqueues

NoFault == UNCHANGED countVars

-----------------------------------------------------------------------------
(* The store.                                                                *)

SendsAt(q, d) == relay[q].pc \in Sending /\ Head(relay[q].queue) = d

(* Relay w goes by a claim of d, or is about to hear of one.                 *)
Knows(w, d) == w.exp[d] > 0 \/ d \in w.got

(* What is enqueued again may go out twice: after a post, or while a relay   *)
(* is at the row or knows a claim from before it expired.                    *)
Revived(d) ==
    \/ channel[d].posts > 0
    \/ \E q \in Processes : SendsAt(q, d) \/ Knows(relay[q], d)

(* Mutant of Enqueue: a delivered row is opened again.                       *)
EnqueueOverwriting(d) ==
    /\ row[d].status \in {"absent", "expired", "delivered"}
    /\ enqueues < MaxEnqueues
    /\ enqueues' = enqueues + 1
    /\ row' = [row EXCEPT ![d] =
                  [status |-> "pending", claim |-> 0, age |-> 0]]
    /\ excused' = IF Revived(d) THEN excused \cup {d} ELSE excused
    /\ UNCHANGED <<leaseVars, channel, relay, faults>>

(* enqueue(): inserts, or revives a row that expired undelivered; any other  *)
(* row of the key stays as it is.  A revived row is young again: whoever     *)
(* takes it does not look for an earlier post.                               *)
Enqueue(d) ==
    /\ row[d].status \in {"absent", "expired"}
    /\ enqueues < MaxEnqueues
    /\ enqueues' = enqueues + 1
    /\ row' = [row EXCEPT ![d] =
                  [status |-> "pending", claim |-> 0, age |-> 0]]
    /\ excused' = IF Revived(d) THEN excused \cup {d} ELSE excused
    /\ UNCHANGED <<leaseVars, channel, relay, faults>>

(* expireOveraged(), the first statement of claimPending().                  *)
Expired(d) ==
    row[d].status = "pending" /\ row[d].age >= MaxAge /\ row[d].claim = 0

(* The rows the claiming UPDATE takes.                                       *)
Claimable(d) ==
    /\ row[d].status = "pending" /\ ~Expired(d)
    /\ row[d].claim = 0
    /\ row[d].age >= ClaimLag

ClaimedRows == {d \in Deliveries : Claimable(d)}

ClaimPending ==
    row' = [d \in Deliveries |->
              IF Expired(d) THEN [row[d] EXCEPT !.status = "expired"]
              ELSE IF Claimable(d) THEN [row[d] EXCEPT !.claim = ClaimMs]
              ELSE row[d]]

(* ack(): a row that expired in the meantime is delivered all the same.      *)
AckRow(d) ==
    row' = [row EXCEPT ![d].status = "delivered"]

-----------------------------------------------------------------------------
(* The tracker of a relay w.                                                 *)

(* The map posted without the entry of d.                                    *)
Without(s, d) ==
    IF \E i \in DOMAIN s : s[i] = d
    THEN LET i == CHOOSE j \in DOMAIN s : s[j] = d
         IN  SubSeq(s, 1, i - 1) \o SubSeq(s, i + 1, Len(s))
    ELSE s

Cleared(w, d) ==
    [w EXCEPT !.failures[d] = 0, !.posted = Without(@, d), !.dead = @ \ {d}]

(* recordFailure(): the last attempt gives the delivery up for a while.      *)
Failed(w, d) ==
    IF w.failures[d] + 1 >= MaxAttempts
    THEN [w EXCEPT !.failures[d] = 0, !.posted = Without(@, d),
                   !.dead = @ \cup {d}]
    ELSE [w EXCEPT !.failures[d] = @ + 1]

(* markPosted(): beyond the cap the oldest entry is given up.                *)
Marked(w, d) ==
    LET all == Append(w.posted, d)
    IN  IF Len(all) > MaxTracked
        THEN [w EXCEPT !.posted = Tail(all), !.failures[Head(all)] = 0,
                       !.dead = @ \cup {Head(all)}]
        ELSE [w EXCEPT !.posted = all]

(* The give-up window of DELIVERY_GIVEUP_RETRY_MS is over.                   *)
GiveUpEnds(r, d) ==
    /\ d \in relay[r].dead
    /\ relay' = [relay EXCEPT ![r].dead = @ \ {d}]
    /\ UNCHANGED <<leaseVars, row, channel, excused, countVars>>

-----------------------------------------------------------------------------
(* The drain.                                                                *)

(* On to the next row, or to the call named by pc for the row in hand.       *)
Onward(w) == [w EXCEPT !.pc = "next", !.queue = Tail(@), !.attempt = 0]
At(w, pc) == [w EXCEPT !.pc = pc, !.attempt = 0]

(* Mutant of Recovered: off by one claim.                                    *)
RecoveredLate(d) == row[d].age > ClaimMs + 1

(* recoveredRow(): the row may have been sent under an earlier claim.  The   *)
(* code reads the createdAt it was handed with the claim; the table differs  *)
(* for a row revived since, which is excused.                                *)
Recovered(d) == row[d].age > ClaimMs

(* deliverWithRetry() up to its first call.  A row without a key is sent as  *)
(* if for the first time.                                                    *)
Begin(w, d) ==
    IF d \in w.dead THEN Onward(w)
    ELSE IF \E i \in DOMAIN w.posted : w.posted[i] = d THEN At(w, "ack")
    ELSE IF d \in Unkeyed THEN At(w, "files")
    ELSE IF Recovered(d) THEN At(w, "verify")
    ELSE At(w, "post")

(* Relay r goes on as w.  A row that two relays now send is excused, unless  *)
(* it is delivered: who begins with it then finds the post.                  *)
Becomes(r, w) ==
    /\ relay' = [relay EXCEPT ![r] = w]
    /\ excused' = excused \cup
           {d \in Deliveries :
              /\ w.pc \in Sending /\ Head(w.queue) = d
              /\ row[d].status # "delivered"
              /\ \E q \in Processes \ {r} : SendsAt(q, d)}

(* pollDeliveries() wins the dispatch lease.                                 *)
Poll(r) ==
    /\ relay[r].pc = "idle"
    /\ TryLock(r)
    /\ Becomes(r, [relay[r] EXCEPT !.pc = "claim"])
    /\ UNCHANGED <<row, channel, countVars>>

(* The order of created_at among the claimed rows, left open.                *)
Orders(S) == {s \in [1..Cardinality(S) -> S] : {s[i] : i \in DOMAIN s} = S}

(* Relay w asks for a claim: the rows are taken ...                          *)
Asked(w, pc) ==
    [w EXCEPT !.pc = pc, !.got = ClaimedRows,
              !.real = [d \in Deliveries |->
                          IF d \in ClaimedRows THEN ClaimMs ELSE @[d]]]

(* ... and when the answer is there, expiresAt starts, and the rows new to   *)
(* this drain join its queue.                                                *)
Answered(w, fresh) ==
    [w EXCEPT !.queue = @ \o fresh, !.seen = @ \cup w.got, !.got = {},
              !.exp = [d \in Deliveries |->
                         IF d \in w.got THEN ClaimMs ELSE @[d]]]

(* A claim that fails may have taken the rows.                               *)
Claim(r) ==
    /\ relay[r].pc = "claim"
    /\ \/ /\ ClaimPending
          /\ Becomes(r, Asked(relay[r], "claimed"))
          /\ NoFault
       \/ /\ ClaimPending \/ UNCHANGED row
          /\ Fault("store")
          /\ Becomes(r, At(relay[r], "next"))
    /\ UNCHANGED <<leaseVars, channel>>

ClaimAnswered(r) ==
    /\ relay[r].pc = "claimed"
    /\ \E fresh \in Orders(relay[r].got) :
          Becomes(r, At(Answered(relay[r], fresh), "next"))
    /\ UNCHANGED <<leaseVars, row, channel, countVars>>

(* Mutant of Trusts: the margin is forgotten.                                *)
TrustsToTheEnd(w, d) == w.exp[d] > 0

(* A row whose claim has more than the margin left is sent without asking.   *)
Trusts(w, d) == w.exp[d] > Margin

(* The head of the loop; a row whose claim is about to lapse is claimed      *)
(* again once it has lapsed.                                                 *)
NextRow(r) ==
    LET w == relay[r]
    IN  /\ w.pc = "next" /\ w.queue # <<>> /\ hold[r] # "lost"
        /\ Becomes(r, IF Trusts(w, Head(w.queue))
                      THEN Begin(w, Head(w.queue)) ELSE At(w, "reclaim"))
        /\ UNCHANGED <<leaseVars, row, channel, countVars>>

Skipped(w) == [Onward(w) EXCEPT !.seen = @ \ {Head(w.queue)}]

(* reclaimOwnership(): up to three claims, until one returns the row.        *)
Missed(w) ==
    IF w.attempt < 2 THEN [w EXCEPT !.pc = "reclaim", !.attempt = @ + 1]
    ELSE Skipped(w)

Reclaim(r) ==
    LET w == relay[r]
    IN  /\ w.pc = "reclaim" /\ w.exp[Head(w.queue)] = 0
        /\ \/ /\ hold[r] = "lost"
              /\ Becomes(r, Skipped(w))
              /\ NoFault /\ UNCHANGED row
           \/ /\ hold[r] # "lost"
              /\ ClaimPending
              /\ Becomes(r, Asked(w, "reclaimed"))
              /\ NoFault
           \/ /\ hold[r] # "lost"
              /\ ClaimPending \/ UNCHANGED row
              /\ Fault("store")
              /\ Becomes(r, Missed(w))
        /\ UNCHANGED <<leaseVars, channel>>

(* The lease may have been lost under the claim: then the drain stops.       *)
ReclaimAnswered(r) ==
    LET w == relay[r]
        d == Head(w.queue)
    IN  /\ w.pc = "reclaimed"
        /\ \E fresh \in Orders(w.got \ w.seen) :
              LET v == Answered(w, fresh)
              IN  Becomes(r, IF d \notin w.got THEN Missed(v)
                             ELSE IF hold[r] = "lost" THEN At(v, "next")
                             ELSE Begin(v, d))
        /\ UNCHANGED <<leaseVars, row, channel, countVars>>

(* The queue is drained, or the lease is known to be lost: hold() ends.      *)
Finish(r) ==
    /\ relay[r].pc = "next"
    /\ relay[r].queue = <<>> \/ hold[r] = "lost"
    /\ Unlock(r)
    /\ Becomes(r, [relay[r] EXCEPT
                     !.pc = "idle", !.queue = <<>>, !.seen = {},
                     !.exp = NoClaims, !.real = NoClaims, !.attempt = 0])
    /\ UNCHANGED <<row, channel, countVars>>

-----------------------------------------------------------------------------
(* postWithVerify() and the rest of deliverWithRetry().                      *)

InHand(r) == Head(relay[r].queue)

Fails(r) == Becomes(r, Onward(Failed(relay[r], InHand(r))))
Posted(r) == channel[InHand(r)].posts > 0

(* What was found by its key was sent before, files included.                *)
Verify(r) ==
    /\ relay[r].pc = "verify"
    /\ \/ /\ Becomes(r, IF Posted(r)
                        THEN At(Marked(relay[r], InHand(r)), "ack")
                        ELSE At(relay[r], "post"))
          /\ NoFault
       \/ Fault("store") /\ Fails(r)
    /\ UNCHANGED <<leaseVars, row, channel>>

(* The message lands, and the answer may be lost; or it does not, and Slack  *)
(* refuses it, asks for patience or says nothing.                            *)
Post(r) ==
    /\ relay[r].pc = "post"
    /\ \/ /\ channel' = [channel EXCEPT ![InHand(r)].posts = @ + 1]
          /\ \/ Becomes(r, At(relay[r], "files")) /\ NoFault
             \/ /\ Becomes(r, [relay[r] EXCEPT !.pc = "reverify"])
                /\ Fault("post")
       \/ /\ Fault("post")
          /\ \/ Fails(r)
             \/ Becomes(r, [relay[r] EXCEPT !.pc = "limited"])
             \/ Becomes(r, [relay[r] EXCEPT !.pc = "reverify"])
          /\ UNCHANGED channel
    /\ UNCHANGED <<leaseVars, row>>

Again(r) ==
    IF relay[r].attempt < 2
    THEN Becomes(r, [relay[r] EXCEPT !.pc = "post", !.attempt = @ + 1])
    ELSE Fails(r)

(* After an unanswered post: is it there?                                    *)
Reverify(r) ==
    /\ relay[r].pc = "reverify"
    /\ \/ Posted(r) /\ Becomes(r, At(relay[r], "files")) /\ NoFault
       \/ ~Posted(r) /\ Again(r) /\ NoFault
       \/ Fault("store") /\ Fails(r)
    /\ UNCHANGED <<leaseVars, row, channel>>

(* After retryAfter: the look into the history is best effort.               *)
Limited(r) ==
    /\ relay[r].pc = "limited"
    /\ \/ /\ Posted(r) /\ NoFault
          /\ Becomes(r, At(Marked(relay[r], InHand(r)), "ack"))
       \/ ~Posted(r) /\ Again(r) /\ NoFault
       \/ Fault("store") /\ Again(r)
    /\ UNCHANGED <<leaseVars, row, channel>>

(* replayAttachments() and markPosted().  An upload that fails is reported   *)
(* in the channel and not tried again.  What a row without a key needs       *)
(* before, such as the conversation of a principal, may fail.                *)
Upload(r) ==
    /\ relay[r].pc = "files"
    /\ \/ /\ channel' = [channel EXCEPT ![InHand(r)].files = @ + 1]
          /\ Becomes(r, At(Marked(relay[r], InHand(r)), "ack"))
          /\ NoFault
       \/ /\ Fault("post")
          /\ UNCHANGED channel
          /\ \/ Becomes(r, At(Marked(relay[r], InHand(r)), "ack"))
             \/ InHand(r) \in Unkeyed /\ Fails(r)
    /\ UNCHANGED <<leaseVars, row>>

(* An ack that fails may have been applied.                                  *)
Ack(r) ==
    /\ relay[r].pc = "ack"
    /\ \/ /\ AckRow(InHand(r))
          /\ Becomes(r, Onward(Cleared(relay[r], InHand(r))))
          /\ NoFault
       \/ /\ AckRow(InHand(r)) \/ UNCHANGED row
          /\ Fault("store")
          /\ Fails(r)
    /\ UNCHANGED <<leaseVars, channel>>

-----------------------------------------------------------------------------
(* The environment.                                                          *)

Crash(r) ==
    /\ relay[r].pc # "idle" \/ relay[r] # FreshRelay
    /\ Fault("crash")
    /\ IF hold[r] = "none" THEN UNCHANGED leaseVars ELSE Unlock(r)
    /\ Becomes(r, FreshRelay)
    /\ UNCHANGED <<row, channel>>

CutLease(r) ==
    /\ Fault("cut")
    /\ SessionCut(r)
    /\ UNCHANGED <<row, channel, relay, excused>>

NoticeLoss(r) ==
    /\ LossNoticed(r)
    /\ UNCHANGED deliveryVars

Less(n) == IF n > 0 THEN n - 1 ELSE 0

Tick ==
    /\ row' = [d \in Deliveries |->
                 IF row[d].status # "absent"
                 THEN [row[d] EXCEPT !.claim = Less(@),
                         !.age = IF @ < MaxAge THEN @ + 1 ELSE @]
                 ELSE row[d]]
    /\ relay' = [r \in Processes |->
                   [relay[r] EXCEPT
                      !.exp = [d \in Deliveries |-> Less(@[d])],
                      !.real = [d \in Deliveries |-> Less(@[d])]]]
    /\ UNCHANGED <<leaseVars, channel, excused, countVars>>

RelayStep(r) ==
    \/ Poll(r) \/ Claim(r) \/ ClaimAnswered(r) \/ NextRow(r) \/ Reclaim(r)
    \/ ReclaimAnswered(r) \/ Finish(r)
    \/ Verify(r) \/ Post(r) \/ Reverify(r) \/ Limited(r) \/ Upload(r) \/ Ack(r)

DispatchNext ==
    \/ \E d \in Deliveries : Enqueue(d)
    \/ \E r \in Processes : RelayStep(r)
    \/ \E r \in Processes : Crash(r) \/ CutLease(r) \/ NoticeLoss(r)
    \/ \E r \in Processes, d \in Deliveries : GiveUpEnds(r, d)
    \/ Tick

DispatchSpec == DispatchInit /\ [][DispatchNext]_dispatchVars

-----------------------------------------------------------------------------
(* A message reaches the channel once, its files included, across crashes,   *)
(* lost answers and claims that lapse: a second one needs two relays sending *)
(* the row at the same time, or a row that expired and was enqueued again.   *)
(* What goes without a key is sent again after every lost acknowledgement,   *)
(* and nothing is said of it.                                                *)
SentOnce ==
    \A d \in Deliveries \ (excused \cup Unkeyed) :
        channel[d].posts <= 1 /\ channel[d].files <= 1

(* What the outbox promises of a message, see DeliveryPromise.               *)
Promise == INSTANCE DeliveryPromise WITH
    Deliveries <- Deliveries \ Unkeyed,
    letter <- [d \in Deliveries \ Unkeyed |->
                 [outcome |-> CASE row[d].status = "absent" -> "none"
                                [] row[d].status = "pending" -> "open"
                                [] OTHER -> row[d].status,
                  posts |-> channel[d].posts, conceded |-> d \in excused]]

(* The relays and the store together keep the promise: in particular, a      *)
(* delivered row is never opened, posted or expired again, although a relay  *)
(* that lost its lease acts on rows it claimed before.                       *)
KeepsPromise == Promise!PromiseSpec

(* No message is acknowledged that the channel does not show.                *)
AckedMeansPosted ==
    \A d \in Deliveries \ Unkeyed :
        row[d].status = "delivered" => channel[d].posts >= 1

(* The answer of the claim that w goes by for d took no longer than the      *)
(* margin: so much expiresAt may be ahead of the row's claim_expires_at.     *)
OnTime(w, d) == w.exp[d] - w.real[d] <= Margin

(* Two relays never both send a row on the strength of their claims, even    *)
(* while both drain because the lease was lost under one of them: the margin *)
(* makes up for the way of the answer.  A relay whose answer took longer     *)
(* trusts a claim that is over, and may send what another one claimed since. *)
ClaimsExclusive ==
    \A p, q \in Processes : \A d \in Deliveries :
        /\ p # q
        /\ Trusts(relay[p], d) /\ OnTime(relay[p], d)
        => ~ (Trusts(relay[q], d) /\ OnTime(relay[q], d))

(* A relay drains only inside hold().                                        *)
DrainsUnderLease ==
    /\ OneLeader
    /\ \A r \in Processes : relay[r].pc = "idle" <=> hold[r] = "none"

(* Every row in the outbox is delivered or, too old, given up: no more is    *)
(* enqueued than MaxEnqueues, and the outbox runs empty for good.  One relay *)
(* that goes on polling is enough, whatever another one has claimed, and     *)
(* whether or not what it gave up is ever tried again.                       *)
EveryDeliverySettles ==
    []<>(\A d \in Deliveries : row[d].status # "pending")

(* The timers (60 s poll, 5 s retry of a follower) run in every process, and *)
(* what a relay waits for happens or fails; some relay goes on.              *)
FairDispatchSpec ==
    /\ DispatchSpec
    /\ WF_dispatchVars(Tick)
    /\ WF_dispatchVars(\E r \in Processes : RelayStep(r))
=============================================================================
