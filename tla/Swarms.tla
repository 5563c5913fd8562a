------------------------------- MODULE Swarms -------------------------------
(***************************************************************************)
(* One swarm of agents: the requests of its callers (spawn() and send() of *)
(* src/swarms/swarm-service.ts, through the fenced writes of               *)
(* src/swarms/swarm-store.ts), the sweeper's two phases, which give every  *)
(* reserved worker its computer and session and enqueue a run for every    *)
(* notification, and binding(), which admits these runs.                   *)
(*                                                                         *)
(* Each phase runs under an advisory lock: one pass at a time, over all    *)
(* processes.  A pass awaits its operations with a timeout; one that timed *)
(* out goes on, and the lock is kept until it has settled.                 *)
(*                                                                         *)
(* Faults selects what may go wrong, MaxFaults times in all:               *)
(*   "error"  an operation fails;                                          *)
(*   "slow"   an operation outlives its timeout, or a pass its deadline;   *)
(*   "crash"  the process of a pass dies.                                  *)
(***************************************************************************)
EXTENDS Integers, FiniteSets

CONSTANTS Members, NoMember, \* workers there may be, and none
          Calls,             \* calls of the API
          CallOf,            \* what each call asks, see Call
          Agents, Messages, Notifications, \* the settings of the swarm
          MaxTries,          \* provisioning attempts of a worker
          Faults, MaxFaults

(* A retry names the same request again.  Attempt 0 is a human caller, who   *)
(* needs no lease.                                                           *)
Call == [kind : {"spawn", "send"}, request : STRING, attempt : 0..2]

ASSUME SwarmAssumption ==
    /\ IsFiniteSet(Members) /\ NoMember \notin Members
    /\ Agents <= Cardinality(Members) \* there is always an id to spare
    /\ Agents >= 2 \* resolveSwarmSettings(): the root and a worker
    /\ CallOf \in [Calls -> Call]
    /\ {Agents, Messages, Notifications, MaxTries, MaxFaults} \subseteq Nat
    /\ Faults \subseteq {"error", "slow", "crash"}

VARIABLES
    attempt, \* of the run the root agent makes its calls in
    expired, \* whether the work window is over
    call,    \* each call: what it read, and how it ended
    member,  \* the members of the swarm, besides the root
    note,    \* notifications: those of the message of each call
    box,     \* the computer reserved for each worker
    session, \* whether its session exists
    res,     \* the pass over the resources
    op,      \* its operation in flight, and one that timed out
    del,     \* the pass over the notifications
    run,     \* the runs enqueued, by message and recipient
    faults

apiVars == <<attempt, call>>
worldVars == <<box, session>>
deliveryVars == <<note, del, run>>
swarmVars == <<apiVars, expired, member, worldVars, res, op, deliveryVars,
               faults>>

Notes == Calls \X Members

Member == [state : {"none", "reserved", "ready", "failed"},
           attempts : Nat, cleanup : {"no", "yes"}]

(* cur is the worker in hand; late: the deadline of the pass is over; hard:  *)
(* its computer was not provided in time.                                    *)
Pass == [pc : {"idle", "provision", "catch", "clean"}, todo : SUBSET Members,
         cur : Members \cup {NoMember}, late : {"no", "yes"},
         hard : {"no", "yes"}]

Operation == [kind : {"none", "count", "create", "session", "commit",
                      "delete", "retire", "mark"},
              member : Members \cup {NoMember},
              state : {"sent", "landed", "failed"}]

Idle == [pc |-> "idle", todo |-> {}, cur |-> NoMember, late |-> "no",
         hard |-> "no"]
NoOp == [kind |-> "none", member |-> NoMember, state |-> "landed"]
Wait == {"awaited", "stray"}
NoDelivery == [todo |-> {}, dead |-> {}, cur |-> {}]

SwarmInit ==
    /\ attempt = 1 /\ expired = "no" /\ faults = 0
    /\ call = [c \in Calls |-> [pc |-> "new", audience |-> {}]]
    /\ member = [m \in Members |->
                   [state |-> "none", attempts |-> 0, cleanup |-> "no"]]
    /\ note = [n \in Notes |-> "none"]
    /\ box = [m \in Members |-> "none"]
    /\ session = [m \in Members |-> "no"]
    /\ res = Idle /\ op = [w \in Wait |-> NoOp] /\ del = NoDelivery
    /\ run = [n \in Notes |-> [enqueued |-> 0, state |-> "none"]]

Fault(kind) ==
    /\ kind \in Faults /\ faults < MaxFaults
    /\ faults' = faults + 1

NoFault == UNCHANGED faults

In(states) == {m \in Members : member[m].state \in states}
Unclean == {m \in Members : member[m].cleanup = "yes"}
Undelivered == {n \in Notes : note[n] = "pending"}
Noted == {n \in Notes : note[n] # "none"}
Written == {c \in Calls : call[c].pc = "written"}

(* The pending column, which update() computes anew and the sweeper selects. *)
Pending == In({"reserved"}) # {} \/ Unclean # {} \/ Undelivered # {}

-----------------------------------------------------------------------------
(* The API.                                                                  *)

(* The lease of the run is gone over to another attempt.                     *)
RunReplaced ==
    /\ attempt = 1
    /\ attempt' = 2
    /\ UNCHANGED <<call, expired, member, worldVars, res, op, deliveryVars,
                   faults>>

Expire ==
    /\ expired = "no" /\ Written # {}
    /\ expired' = "yes"
    /\ UNCHANGED <<apiVars, member, worldVars, res, op, deliveryVars, faults>>

Authorized(c) == CallOf[c].attempt \in {0, attempt}
Known(c) == \E d \in Written : CallOf[d].request = CallOf[c].request

Answers(c, pc) ==
    /\ call' = [call EXCEPT ![c].pc = pc]
    /\ UNCHANGED <<member, note>>

(* The caller is checked and the swarm read: a known request is answered     *)
(* from it, and the audience of a message are the workers ready now.         *)
Read(c) ==
    /\ call[c].pc = "new"
    /\ CallOf[c].kind = "send" => Written # {}
    /\ \/ ~Authorized(c) /\ Answers(c, "refused")
       \/ Authorized(c) /\ Known(c) /\ Answers(c, "answered")
       \/ /\ Authorized(c) /\ ~Known(c)
          /\ call' = [call EXCEPT ![c].pc = "read",
                        ![c].audience = IF CallOf[c].kind = "send"
                                        THEN In({"ready"}) ELSE {}]
          /\ UNCHANGED <<member, note>>
    /\ UNCHANGED <<attempt, expired, worldVars, res, op, del, run, faults>>

(* Mutant of Affordable: what the request itself takes is left out.          *)
AffordableBefore(workers, recipients) ==
    /\ 1 + Cardinality(Members \ In({"none"})) <= Agents
    /\ Cardinality(Written) < Messages
    /\ Cardinality(Noted) <= Notifications

(* The root is an agent too.                                                 *)
Affordable(workers, recipients) ==
    /\ 1 + Cardinality(Members \ In({"none"})) + Cardinality(workers) <= Agents
    /\ Cardinality(Written) < Messages
    /\ Cardinality(Noted) + Cardinality(recipients) <= Notifications

(* A spawn reserves a worker and notifies it; a message goes to its audience.*)
Reserve(c, workers, recipients) ==
    /\ member' = [m \in Members |-> IF m \in workers
                    THEN [member[m] EXCEPT !.state = "reserved"] ELSE member[m]]
    /\ note' = [n \in Notes |-> IF n \in {c} \X recipients
                                THEN "pending" ELSE note[n]]
    /\ call' = [call EXCEPT ![c].pc = "written"]

(* Mutant of Write: the request is looked up only when the swarm is read.    *)
WriteUnkeyed(c, w) ==
    LET workers == IF CallOf[c].kind = "spawn" THEN {w} ELSE {}
        recipients == workers \cup call[c].audience
    IN
    /\ call[c].pc = "read"
    /\ \/ /\ ~Authorized(c) \/ expired = "yes"
                \/ ~Affordable(workers, recipients)
          /\ Answers(c, "refused")
       \/ /\ Authorized(c) /\ expired = "no"
          /\ Affordable(workers, recipients)
          /\ Reserve(c, workers, recipients)
    /\ UNCHANGED <<attempt, expired, worldVars, res, op, del, run, faults>>

(* The swarm's transaction: lease, request, window and budgets are checked   *)
(* again.  w is the id a spawn gives its worker.                             *)
Write(c, w) ==
    LET workers == IF CallOf[c].kind = "spawn" THEN {w} ELSE {}
        recipients == workers \cup call[c].audience
    IN
    /\ call[c].pc = "read"
    /\ \/ ~Authorized(c) /\ Answers(c, "refused")
       \/ Authorized(c) /\ Known(c) /\ Answers(c, "answered")
       \/ /\ Authorized(c) /\ ~Known(c)
          /\ expired = "yes" \/ ~Affordable(workers, recipients)
          /\ Answers(c, "refused")
       \/ /\ Authorized(c) /\ ~Known(c) /\ expired = "no"
          /\ Affordable(workers, recipients)
          /\ Reserve(c, workers, recipients)
    /\ UNCHANGED <<attempt, expired, worldVars, res, op, del, run, faults>>

Fresh == CHOOSE m \in Members : member[m].state = "none"

-----------------------------------------------------------------------------
(* The pass over the resources.                                              *)

Steps == UNCHANGED <<apiVars, expired, deliveryVars>>

(* Mutant of LockFree: an operation that timed out does not keep the lock.   *)
LockFreeEarly == res.pc = "idle"

LockFree == res.pc = "idle" /\ op["stray"] = NoOp

(* Mutant of BeginResources: a pass begins for reserved workers only.        *)
BeginResourcesReserved ==
    /\ LockFree
    /\ In({"reserved"}) # {}
    /\ res' = [Idle EXCEPT !.pc = "provision", !.todo = In({"reserved"})]
    /\ Steps /\ UNCHANGED <<member, worldVars, op, faults>>

BeginResources ==
    /\ LockFree
    /\ In({"reserved"}) \cup Unclean # {}
    /\ res' = [Idle EXCEPT !.pc = "provision", !.todo = In({"reserved"})]
    /\ Steps /\ UNCHANGED <<member, worldVars, op, faults>>

Sent(kind, m) ==
    [op EXCEPT !["awaited"] = [kind |-> kind, member |-> m, state |-> "sent"]]

Taken(m) == [res EXCEPT !.todo = @ \ {m}, !.cur = m]

Start(m) ==
    /\ res.pc = "provision" /\ res.cur = NoMember /\ m \in res.todo
    /\ IF expired = "yes" \/ res.late = "yes"
       THEN res' = [Taken(m) EXCEPT !.pc = "catch"] /\ UNCHANGED op
       ELSE res' = Taken(m) /\ op' = Sent("count", m)
    /\ Steps /\ UNCHANGED <<member, worldVars, faults>>

(* Effects of the operations, awaited or not.                                *)
Landed(w, kind) ==
    /\ op[w].kind = kind /\ op[w].state = "sent"
    /\ op' = [op EXCEPT ![w].state = "landed"]
    /\ NoFault

Failed(w, kind) ==
    /\ op[w].kind = kind /\ op[w].state = "sent"
    /\ op' = [op EXCEPT ![w].state = "failed"]

Count(w) ==
    /\ Landed(w, "count")
    /\ member' = [member EXCEPT ![op[w].member].attempts = @ + 1]
    /\ UNCHANGED worldVars

(* The reservation is the worker's id: a retry gets the computer that is     *)
(* there, and one that was retired is gone for good.                         *)
Create(w) ==
    LET gone == box[op[w].member] = "retired" IN
    /\ op[w].kind = "create" /\ op[w].state = "sent"
    /\ op' = [op EXCEPT ![w].state = IF gone THEN "failed" ELSE "landed"]
    /\ box' = [box EXCEPT ![op[w].member] = IF gone THEN @ ELSE "ready"]
    /\ UNCHANGED <<member, session, faults>>

Session(w) ==
    /\ Landed(w, "session")
    /\ session' = [session EXCEPT ![op[w].member] = "yes"]
    /\ UNCHANGED <<member, box>>

(* Mutant of InTime: the deadline is not checked in the transaction.         *)
InTimeUnchecked(w) == expired = "no"

(* A commit that timed out has outlived the deadline.                        *)
InTime(w) == w = "awaited" /\ res.late = "no" /\ expired = "no"

Commit(w) ==
    /\ \/ /\ InTime(w) /\ Landed(w, "commit")
          /\ member' = [member EXCEPT ![op[w].member].state = "ready"]
       \/ /\ ~InTime(w) /\ Failed(w, "commit") /\ NoFault
          /\ UNCHANGED member
    /\ UNCHANGED worldVars

Ran(m) == \E c \in Calls : run[<<c, m>>].state = "ran"

(* deleteSessionIfEmpty().                                                   *)
Delete(w) ==
    /\ Landed(w, "delete")
    /\ session' = [session EXCEPT ![op[w].member] =
                     IF Ran(op[w].member) THEN @ ELSE "no"]
    /\ UNCHANGED <<member, box>>

Retire(w) ==
    /\ Landed(w, "retire")
    /\ box' = [box EXCEPT ![op[w].member] = IF @ = "none" THEN @ ELSE "retired"]
    /\ UNCHANGED <<member, session>>

Mark(w) ==
    /\ Landed(w, "mark")
    /\ member' = [member EXCEPT ![op[w].member].cleanup = "no"]
    /\ UNCHANGED worldVars

(* A computer that could not be provided leaves its record behind.           *)
HalfProvided(o) ==
    IF o.kind = "create" /\ box[o.member] = "none"
    THEN [box EXCEPT ![o.member] = "provisioning"] ELSE box

Fails(w) ==
    /\ op[w].kind # "none" /\ Failed(w, op[w].kind) /\ Fault("error")
    /\ box' = HalfProvided(op[w])
    /\ UNCHANGED <<member, session>>

Lands(w) ==
    /\ \/ Count(w) \/ Create(w) \/ Session(w) \/ Commit(w)
       \/ Delete(w) \/ Retire(w) \/ Mark(w) \/ Fails(w)
    /\ Steps /\ UNCHANGED res

(* What follows an operation, if there is time left.                         *)
After == [count |-> "create", create |-> "session", session |-> "commit",
          delete |-> "retire", retire |-> "mark"]

Following(o) ==
    IF o.kind = "delete" /\ session[o.member] = "yes" THEN "none"
    ELSE IF o.kind \in DOMAIN After THEN After[o.kind] ELSE "none"

Over == [op EXCEPT !["awaited"] = NoOp]
Thrown == IF res.pc = "clean" THEN Idle ELSE [res EXCEPT !.pc = "catch"]

Returns ==
    LET o == op["awaited"] IN
    /\ o # NoOp /\ o.state = "landed"
    /\ IF Following(o) = "none"
       THEN op' = Over /\ res' = [res EXCEPT !.cur = NoMember]
       ELSE IF res.late = "yes"
       THEN op' = Over /\ res' = Thrown
       ELSE op' = Sent(Following(o), o.member) /\ UNCHANGED res
    /\ Steps /\ UNCHANGED <<member, worldVars, faults>>

Throws ==
    /\ op["awaited"].state = "failed"
    /\ op' = Over /\ res' = Thrown
    /\ Steps /\ UNCHANGED <<member, worldVars, faults>>

DeadlinePasses ==
    /\ res.pc # "idle" /\ res.late = "no"
    /\ Fault("slow")
    /\ res' = [res EXCEPT !.late = "yes"]
    /\ Steps /\ UNCHANGED <<member, worldVars, op>>

(* The pass stops waiting.  Providing a computer has a timeout of its own.   *)
TimesOut ==
    /\ op["awaited"] # NoOp
    /\ \/ res.late = "yes" /\ NoFault /\ res' = Thrown
       \/ /\ res.late = "no" /\ op["awaited"].kind = "create" /\ Fault("slow")
          /\ res' = [Thrown EXCEPT !.hard = "yes"]
    /\ op' = [Over EXCEPT !["stray"] = op["awaited"]]
    /\ Steps /\ UNCHANGED <<member, worldVars>>

Settles ==
    /\ op["stray"] # NoOp /\ op["stray"].state # "sent"
    /\ op' = [op EXCEPT !["stray"] = NoOp]
    /\ Steps /\ UNCHANGED <<member, worldVars, res, faults>>

(* Mutant of GivenUp: the worker may have become ready meanwhile.            *)
GivenUpAnyway(m) ==
    \/ res.hard = "yes" \/ res.late = "yes" \/ expired = "yes"
    \/ member[m].attempts >= MaxTries

GivenUp(m) ==
    /\ member[m].state = "reserved"
    /\ \/ res.hard = "yes" \/ res.late = "yes" \/ expired = "yes"
       \/ member[m].attempts >= MaxTries

(* The worker fails, or is left to the next pass; this one goes on unless    *)
(* something is still in flight.  The update itself may fail.                *)
Catch ==
    /\ res.pc = "catch"
    /\ \/ /\ NoFault
          /\ member' = [member EXCEPT ![res.cur] =
                IF GivenUp(res.cur)
                THEN [@ EXCEPT !.state = "failed", !.cleanup = "yes"] ELSE @]
          /\ res' = IF op["stray"] # NoOp \/ res.late = "yes" THEN Idle
                    ELSE [res EXCEPT !.pc = "provision", !.cur = NoMember,
                                     !.hard = "no"]
       \/ /\ Fault("error")
          /\ res' = Idle
          /\ UNCHANGED member
    /\ Steps /\ UNCHANGED <<worldVars, op>>

(* The swarm is read again, for the workers to clean up.                     *)
BeginCleanup ==
    /\ res.pc = "provision" /\ res.cur = NoMember /\ res.todo = {}
    /\ res' = IF res.late = "yes" THEN Idle
              ELSE [res EXCEPT !.pc = "clean", !.todo = Unclean]
    /\ Steps /\ UNCHANGED <<member, worldVars, op, faults>>

Clean(m) ==
    /\ res.pc = "clean" /\ res.cur = NoMember /\ m \in res.todo
    /\ IF res.late = "yes" THEN res' = Idle /\ UNCHANGED op
       ELSE /\ res' = Taken(m)
            /\ op' = Sent(IF session[m] = "yes" THEN "delete" ELSE "retire", m)
    /\ Steps /\ UNCHANGED <<member, worldVars, faults>>

EndResources ==
    /\ res.pc = "clean" /\ res.cur = NoMember /\ res.todo = {}
    /\ res' = Idle
    /\ Steps /\ UNCHANGED <<member, worldVars, op, faults>>

(* What was in flight is done by now or never will be, except that a         *)
(* computer may be half provided.                                            *)
CrashResources ==
    /\ ~LockFree
    /\ Fault("crash")
    /\ res' = Idle /\ op' = [w \in Wait |-> NoOp]
    /\ \/ UNCHANGED box
       \/ \E w \in Wait : op[w].state = "sent" /\ box' = HalfProvided(op[w])
    /\ Steps /\ UNCHANGED <<member, session>>

-----------------------------------------------------------------------------
(* The pass over the notifications: it decides from the swarm it read.       *)

Delivers == UNCHANGED <<apiVars, expired, member, worldVars, res, op>>

BeginDelivery ==
    LET due == {n \in Undelivered : member[n[2]].state # "reserved"} IN
    /\ del = NoDelivery /\ due # {}
    /\ del' = [todo |-> due, cur |-> {},
               dead |-> {n \in due : member[n[2]].state = "failed"}]
    /\ Delivers /\ UNCHANGED <<note, run, faults>>

MarkFailed(n) ==
    /\ n \in del.todo /\ del.cur = {}
    /\ n \in del.dead \/ expired = "yes"
    /\ note' = [note EXCEPT ![n] = "failed"]
    /\ del' = [del EXCEPT !.todo = @ \ {n}, !.dead = @ \ {n}]
    /\ Delivers /\ UNCHANGED <<run, faults>>

(* Mutant of Enqueued: the run has no key.                                   *)
EnqueuedUnkeyed(r) == [enqueued |-> r.enqueued + 1, state |-> "queued"]

(* Keyed by message and recipient, a run is enqueued once.                   *)
Enqueued(r) == IF r.enqueued > 0 THEN r
               ELSE [enqueued |-> 1, state |-> "queued"]

Enqueue(n) ==
    /\ n \in del.todo \ del.dead /\ del.cur = {} /\ expired = "no"
    /\ run' = [run EXCEPT ![n] = Enqueued(@)]
    /\ del' = [del EXCEPT !.todo = @ \ {n}, !.cur = {n}]
    /\ Delivers /\ UNCHANGED <<note, faults>>

MarkQueued(n) ==
    /\ n \in del.cur
    /\ note' = [note EXCEPT ![n] = "queued"]
    /\ del' = [del EXCEPT !.cur = {}]
    /\ Delivers /\ UNCHANGED <<run, faults>>

(* The pass fails, or misses its deadline, or its process dies.              *)
CrashDelivery ==
    /\ del # NoDelivery
    /\ Fault("crash")
    /\ del' = NoDelivery
    /\ Delivers /\ UNCHANGED <<note, run>>

(* binding(): a run of the swarm needs a ready recipient and an open window. *)
Execute(n) ==
    /\ run[n].state = "queued"
    /\ run' = [run EXCEPT ![n].state =
                 IF member[n[2]].state = "ready" /\ expired = "no"
                 THEN "ran" ELSE "refused"]
    /\ Delivers /\ UNCHANGED <<note, del, faults>>

-----------------------------------------------------------------------------
ResourceStep ==
    \/ BeginResources \/ BeginCleanup \/ EndResources
    \/ \E m \in Members : Start(m) \/ Clean(m)
    \/ \E w \in Wait : Lands(w)
    \/ Returns \/ Throws \/ Settles \/ Catch

DeliveryStep ==
    \/ BeginDelivery
    \/ \E n \in Notes : MarkFailed(n) \/ Enqueue(n) \/ MarkQueued(n)

SwarmNext ==
    \/ RunReplaced \/ Expire
    \/ \E c \in Calls : Read(c) \/ Write(c, Fresh)
    \/ ResourceStep \/ DeadlinePasses \/ TimesOut \/ CrashResources
    \/ DeliveryStep \/ CrashDelivery
    \/ \E n \in Notes : Execute(n)

SwarmSpec == SwarmInit /\ [][SwarmNext]_swarmVars

(* The sweeper goes on, and what it calls returns or fails sooner or later.  *)
FairSwarmSpec ==
    SwarmSpec /\ WF_swarmVars(ResourceStep) /\ WF_swarmVars(DeliveryStep)

-----------------------------------------------------------------------------
(* The variables have the shapes above; an operation is awaited by the pass  *)
(* that has its worker in hand.                                              *)
SwarmTypeOK ==
    /\ attempt \in 1..2 /\ expired \in {"no", "yes"} /\ faults \in 0..MaxFaults
    /\ call \in [Calls -> [pc : {"new", "read", "written", "answered", "refused"},
                            audience : SUBSET Members]]
    /\ member \in [Members -> Member]
    /\ note \in [Notes -> {"none", "pending", "queued", "failed"}]
    /\ box \in [Members -> {"none", "provisioning", "ready", "retired"}]
    /\ session \in [Members -> {"no", "yes"}]
    /\ res \in Pass /\ op \in [Wait -> Operation]
    /\ op["awaited"] # NoOp => /\ res.pc \in {"provision", "clean"}
                               /\ res.cur = op["awaited"].member
    /\ del \in [todo : SUBSET Notes, dead : SUBSET Notes, cur : SUBSET Notes]
    /\ run \in [Notes -> [enqueued : Nat,
                           state : {"none", "queued", "ran", "refused"}]]

(* A retried request, also one whose first answer is on its way or lost, or  *)
(* that another attempt of the run makes again, is carried out once.         *)
RequestOnce ==
    \A c, d \in Written : CallOf[c].request = CallOf[d].request => c = d

(* Concurrent requests together stay within the budgets of the swarm.        *)
BudgetHeld ==
    /\ 1 + Cardinality(Members \ In({"none"})) <= Agents
    /\ Cardinality(Written) <= Messages
    /\ Cardinality(Noted) <= Notifications

(* A ready worker has its computer and its session, and no cleanup that was  *)
(* decided while its provisioning was under way will take them.              *)
ReadyIsEquipped ==
    \A m \in In({"ready"}) :
        /\ box[m] = "ready" /\ session[m] = "yes"
        /\ member[m].cleanup = "no"

(* A worker that failed got no work: delivery, from a reading of its own,    *)
(* never saw it ready.                                                       *)
FailedGetsNoWork ==
    \A n \in Notes : run[n].enqueued > 0 => member[n[2]].state = "ready"

(* A worker that is cleaned up left nothing, whatever of its provisioning    *)
(* came late.                                                                *)
CleanedLeavesNothing ==
    \A m \in In({"failed"}) \ Unclean :
        box[m] \in {"none", "retired"} /\ session[m] = "no"

(* A recipient gets one run for a message, although a pass dies between the  *)
(* enqueue and its mark.                                                     *)
NotifiedOnce == \A n \in Notes : run[n].enqueued <= 1

(* All work that the swarm has accepted settles: workers become ready or     *)
(* fail and are cleaned up, notifications are queued or fail.                *)
SwarmSettles == Pending ~> ~Pending
=============================================================================
