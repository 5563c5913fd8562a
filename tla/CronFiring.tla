----------------------------- MODULE CronFiring -----------------------------
(***************************************************************************)
(* The scheduled fires of one cron: src/cron/scheduler.ts with the cursor  *)
(* of src/cron/cron-store.ts and src/cron/schedule.ts, the pg-boss queue   *)
(* of src/cron/job-queue.ts, and what runTrigger() does to shared state    *)
(* (src/triggers/run-trigger.ts, src/idempotency/idempotency-store.ts).    *)
(*                                                                         *)
(* A process whose pg-boss started is in mode "queue": it fires the jobs   *)
(* it takes, claiming the slot first, and holds the tick lease as a guard  *)
(* while its queue is healthy.  One whose pg-boss did not start falls back *)
(* to "tick": under the lease it fires what is due and moves the cursor    *)
(* afterwards.                                                             *)
(*                                                                         *)
(* Faults selects what may go wrong, MaxFaults times in all:               *)
(*   "crash"  a process dies and restarts;                                 *)
(*   "cut"    the session that holds the tick lease is cut;                *)
(*   "ill"    pg-boss refuses sends, so the guard lets the lease go;       *)
(*   "error"  app.turn() throws while its run goes on;                     *)
(*   "busy"   the run is refused because its session is busy;              *)
(*   "mute"   the run ends without a reply: silent, failed, refused for    *)
(*            another reason, waiting for an approval nobody will give;    *)
(*   "withheld"  there is nowhere to deliver to: the cron has no           *)
(*            destination, the recipient did not consent, or its actor may *)
(*            no longer see the destination or read the home scope;        *)
(*   "authz"  the owner may no longer run the cron;                        *)
(*   "pause"  stopClaims(): background work moves to another process.      *)
(***************************************************************************)
EXTENDS LeaderLease

CONSTANTS Setups,    \* the schedules to consider, with the processes' modes
          Period,    \* everyMs, or the distance of two calendar instants
          DeferMs,   \* BUSY_DEFER_MS
          MaxLate,   \* BUSY_DEFER_MAX_LATE_MS
          MaxTime,   \* bound: the clock stops here, and with it a deferral
          Faults, MaxFaults

ASSUME CronAssumption ==
    /\ Setups \subseteq [kind : {"calendar", "interval", "oneshot"},
                        mode : [Processes -> {"queue", "tick"}]]
    /\ Period \in Nat \ {0} /\ DeferMs \in Nat \ {0} /\ MaxLate \in Nat
    /\ MaxTime \in Nat \ {0} /\ MaxFaults \in Nat
    /\ Faults \subseteq {"crash", "cut", "ill", "error", "busy", "mute",
                         "withheld", "authz", "pause"}

VARIABLES
    kind,    \* the cron's schedule
    mode,    \* how each process fires
    now,     \* the clock
    cron,    \* the cron's row; 0 where a time is undefined
    jobs,    \* startAfter of the waiting fire job of each slot, 0 for none
    fire,    \* the fire each process is in
    paused,  \* processes told to claim no more
    run,     \* the run of each slot's fire key
    turns,   \* runs executed for each slot
    outbox,  \* slots whose reply is in the delivery outbox
    done,    \* slots whose fire key is committed in the idempotency store
    refused, \* slots given up because a busy session refused them too late
    withheld, \* slots with nowhere to deliver to
    dropped, \* slots behind the cursor that nobody will fire: their fire
             \* died with its process, or was claimed and not undone
    overtaken, \* slots given back that markFired() put the cursor behind
    faults   \* faults so far

resultVars == <<run, turns, outbox, done, refused, withheld>>
lossVars == <<dropped, overtaken>>
cronVars == <<leaseVars, kind, mode, now, cron, jobs, fire, paused, resultVars,
              lossVars, faults>>

Times == 0..(MaxTime + Period)
Slots == 1..(MaxTime + Period)

(* A fire by the call it awaits: claimSlot(), runTrigger() up to its run,    *)
(* the run, the reply's enqueue, the idempotency record, defer(),            *)
(* setEnabled(false), unclaimSlot(), and the step that moves on; "end" is    *)
(* the end of a tick.  at and prior are the t and cron.lastFiredAt it read.  *)
Fire == [pc : {"idle", "claim", "trigger", "run", "await", "reply", "commit",
               "defer", "disable", "unclaim", "advance", "end"},
         slot : Times, at : Times, prior : Times,
         outcome : {"none", "busy", "authz"},
         fenced : BOOLEAN]

CronTypeOK ==
    /\ LeaseTypeOK
    /\ [kind |-> kind, mode |-> mode] \in Setups
    /\ now \in 1..MaxTime
    /\ cron \in [enabled : BOOLEAN, next : Times, last : Times, defer : Times]
    /\ jobs \in [Slots -> Times]
    /\ fire \in [Processes -> Fire]
    /\ \A p \in Processes :
         /\ fire[p].fenced => fire[p].pc = "claim"
         /\ mode[p] = "tick" => (fire[p].pc = "idle" <=> hold[p] = "none")
    /\ paused \subseteq Processes
    /\ run \in [Slots -> {"none", "queued", "ok", "mute"}]
    /\ turns \in [Slots -> Nat]
    /\ outbox \subseteq Slots /\ done \subseteq Slots
    /\ refused \subseteq Slots /\ withheld \subseteq Slots
    /\ dropped \subseteq Slots /\ overtaken \subseteq Slots
    /\ faults \in 0..MaxFaults

Idle == [pc |-> "idle", slot |-> 0, at |-> 0, prior |-> 0,
         outcome |-> "none", fenced |-> FALSE]

(* The cron was just created.                                                *)
CronInit ==
    /\ LeaseInit
    /\ \E setup \in Setups : kind = setup.kind /\ mode = setup.mode
    /\ now = 1
    /\ cron = [enabled |-> TRUE, next |-> Period, last |-> 0, defer |-> 0]
    /\ jobs = [s \in Slots |-> 0]
    /\ fire = [p \in Processes |-> Idle]
    /\ paused = {}
    /\ run = [s \in Slots |-> "none"]
    /\ turns = [s \in Slots |-> 0]
    /\ outbox = {} /\ done = {} /\ refused = {} /\ withheld = {}
    /\ dropped = {} /\ overtaken = {}
    /\ faults = 0

Fault(name) ==
    /\ name \in Faults /\ faults < MaxFaults
    /\ faults' = faults + 1

NoFault == UNCHANGED faults

-----------------------------------------------------------------------------
(* The cursor.                                                               *)

(* advanceNextFireAt(): a calendar advances from the slot, an interval from  *)
(* the fire, and a one-shot has no further slot.                             *)
NextFire(slot, at) ==
    CASE kind = "calendar" -> slot + Period
      [] kind = "interval" -> at + Period
      [] kind = "oneshot"  -> 0

Claimable(s) == cron.enabled /\ cron.next = s

Deferred == now < cron.defer

Claimed(s, at) ==
    [cron EXCEPT !.next = NextFire(s, at), !.last = at, !.defer = 0]

(* Mutant of Unclaimed: only lastFiredAt is put back.                        *)
UnclaimedInPart(w) ==
    IF cron.last = w.at THEN [cron EXCEPT !.last = w.prior] ELSE cron

(* unclaimSlot(): undoes the claim if it is still the last one.              *)
Unclaimed(w) ==
    IF cron.last = w.at
    THEN [cron EXCEPT !.last = w.prior, !.next = w.slot]
    ELSE cron

Later(m, n) == IF m > n THEN m ELSE n
Sooner(m, n) == IF m < n THEN m ELSE n

(* enqueueFire(): a waiting job of the same slot is left as it is.           *)
WithJob(s) ==
    IF jobs[s] = 0 THEN [jobs EXCEPT ![s] = Later(s, cron.defer)] ELSE jobs

(* enqueueNext(), and reconcile() for this cron; the queue of a paused       *)
(* process takes nothing.                                                    *)
EnqueueNext(p) ==
    jobs' = IF p \notin paused /\ cron.enabled /\ cron.next # 0
            THEN WithJob(cron.next) ELSE jobs

-----------------------------------------------------------------------------
(* Taking up a fire.                                                         *)

Becomes(p, w) == fire' = [fire EXCEPT ![p] = w]

At(w, pc) == [w EXCEPT !.pc = pc]

(* A job of the tick queue reached some process.                             *)
Reconcile(p) ==
    /\ mode[p] = "queue" /\ p \notin paused
    /\ EnqueueNext(p)
    /\ UNCHANGED <<leaseVars, kind, mode, now, cron, fire, paused, resultVars,
                   lossVars, faults>>

(* fireJob() up to the claim.  A job that is early, or no longer the slot,   *)
(* never runs.                                                               *)
TakeJob(p, s) ==
    /\ mode[p] = "queue" /\ p \notin paused
    /\ fire[p].pc = "idle"
    /\ jobs[s] # 0 /\ jobs[s] <= now
    /\ IF Claimable(s) /\ Deferred
       THEN /\ jobs' = [jobs EXCEPT ![s] = Later(s, cron.defer)]
            /\ UNCHANGED fire
       ELSE /\ jobs' = [jobs EXCEPT ![s] = 0]
            /\ IF Claimable(s)
               THEN Becomes(p, [Idle EXCEPT !.pc = "claim", !.slot = s,
                                            !.at = now, !.prior = cron.last])
               ELSE UNCHANGED fire
    /\ UNCHANGED <<leaseVars, kind, mode, now, cron, paused, resultVars,
                   lossVars, faults>>

(* claimSlot() is one transaction; a process that was paused meanwhile gives *)
(* the slot back.                                                            *)
ClaimSlot(p) ==
    LET w == fire[p] IN
    /\ w.pc = "claim"
    /\ IF Claimable(w.slot)
       THEN /\ cron' = Claimed(w.slot, w.at)
            /\ Becomes(p, [w EXCEPT !.pc = IF w.fenced THEN "unclaim"
                                           ELSE "trigger",
                                    !.fenced = FALSE])
       ELSE Becomes(p, Idle) /\ UNCHANGED cron
    /\ UNCHANGED <<leaseVars, kind, mode, now, jobs, paused, resultVars,
                   lossVars, faults>>

(* tick(): under the lease, the cron is due.                                 *)
TickDue(p) ==
    /\ mode[p] = "tick" /\ p \notin paused
    /\ fire[p].pc = "idle"
    /\ cron.enabled /\ ~Deferred /\ cron.next # 0 /\ now >= cron.next
    /\ TryLock(p)
    /\ Becomes(p, [Idle EXCEPT !.pc = "trigger", !.slot = cron.next,
                               !.at = now])
    /\ UNCHANGED <<kind, mode, now, cron, jobs, paused, resultVars, lossVars,
                   faults>>

(* The tick's sweeps are over; the callback never looks at a lost lease.     *)
TickEnd(p) ==
    /\ fire[p].pc = "end"
    /\ Unlock(p)
    /\ Becomes(p, Idle)
    /\ UNCHANGED <<kind, mode, now, cron, jobs, paused, resultVars, lossVars,
                   faults>>

-----------------------------------------------------------------------------
(* fire().                                                                   *)

TickDone == At(Idle, "end")

(* The fire is over without having consumed its slot.                        *)
Ended(p, w) == IF mode[p] = "tick" THEN TickDone ELSE At(w, "unclaim")

(* The fire consumed its slot; a one-shot is switched off.                   *)
Consumed(w) == At(w, IF kind = "oneshot" THEN "disable" ELSE "advance")

(* runTrigger() up to its run: the owner's rights, whether this fire key was *)
(* committed before, and whether the owner may still read the home scope.    *)
Trigger(p) ==
    LET w == fire[p] IN
    /\ w.pc = "trigger"
    /\ \/ /\ Fault("authz")
          /\ Becomes(p, [At(w, "disable") EXCEPT !.outcome = "authz"])
          /\ UNCHANGED withheld
       \/ /\ w.slot \notin done
          /\ Fault("withheld")
          /\ withheld' = withheld \cup {w.slot}
          /\ Becomes(p, At(w, "commit"))
       \/ /\ NoFault
          /\ Becomes(p, IF w.slot \in done THEN Consumed(w) ELSE At(w, "run"))
          /\ UNCHANGED withheld
    /\ UNCHANGED <<leaseVars, kind, mode, now, cron, jobs, paused, run, turns,
                   outbox, done, refused, lossVars>>

(* deferWhenBusy, which the scheduler sets unless the slot is long past.     *)
DeferWhenBusy(w) == w.at - w.slot <= MaxLate

(* A busy session defers the fire, or makes it give its slot up; a run that  *)
(* ended in any other way has consumed it, with or without a reply.          *)
AfterRun(w, outcome) ==
    CASE outcome = "ok" -> At(w, "reply")
      [] outcome = "busy" /\ DeferWhenBusy(w) -> At(w, "defer")
      [] OTHER -> At(w, "commit")

(* Mutant of StartRun: the run carries no idempotency key.                   *)
StartRunUnkeyed(p) ==
    LET w == fire[p] IN
    /\ w.pc = "run"
    /\ run' = [run EXCEPT ![w.slot] = "queued"]
    /\ Becomes(p, At(w, "await"))
    /\ UNCHANGED <<leaseVars, kind, mode, now, cron, jobs, paused, turns,
                   outbox, done, refused, withheld, lossVars, faults>>

(* app.turn() with the fire key as idempotency key: a run of the same key is *)
(* joined, a finished one answers at once.                                   *)
StartRun(p) ==
    LET w == fire[p]
        r == run[w.slot]
    IN
    /\ w.pc = "run"
    /\ run' = [run EXCEPT ![w.slot] = IF r = "none" THEN "queued" ELSE r]
    /\ Becomes(p, IF r \in {"ok", "mute"} THEN AfterRun(w, r)
                  ELSE At(w, "await"))
    /\ UNCHANGED <<leaseVars, kind, mode, now, cron, jobs, paused, turns,
                   outbox, done, refused, withheld, lossVars, faults>>

Awaits(p, s) == fire[p].pc = "await" /\ fire[p].slot = s

(* The run ends and answers all who wait for it; only a busy refusal frees   *)
(* its key.                                                                  *)
RunEnds(s, outcome) ==
    /\ run[s] = "queued"
    /\ run' = [run EXCEPT ![s] = IF outcome = "busy" THEN "none" ELSE outcome]
    /\ turns' = [turns EXCEPT ![s] = IF outcome = "busy" THEN @ ELSE @ + 1]
    /\ fire' = [p \in Processes |->
                  IF Awaits(p, s) THEN AfterRun(fire[p], outcome) ELSE fire[p]]
    /\ refused' = refused \cup
           {t \in {s} : /\ outcome = "busy"
                        /\ \E p \in Processes :
                              Awaits(p, s) /\ ~DeferWhenBusy(fire[p])}
    /\ IF outcome = "ok" THEN NoFault ELSE Fault(outcome)
    /\ UNCHANGED <<leaseVars, kind, mode, now, cron, jobs, paused, outbox,
                   done, withheld, lossVars>>

(* app.turn() throws, its run does not know.                                 *)
TurnThrows(p) ==
    /\ fire[p].pc = "await"
    /\ Fault("error")
    /\ Becomes(p, Ended(p, fire[p]))
    /\ UNCHANGED <<leaseVars, kind, mode, now, cron, jobs, paused, resultVars,
                   lossVars>>

(* Mutant of Reply: the fire key is committed before the reply is enqueued.  *)
ReplyAfterCommit(p) ==
    LET w == fire[p] IN
    /\ w.pc = "reply"
    /\ done' = done \cup {w.slot}
    /\ Becomes(p, At(w, "commit"))
    /\ UNCHANGED <<leaseVars, kind, mode, now, cron, jobs, paused, run, turns,
                   outbox, refused, withheld, lossVars, faults>>

(* reachEnqueue(), keyed by the fire key, if there is somewhere to deliver   *)
(* to.                                                                       *)
Reply(p) ==
    LET w == fire[p] IN
    /\ w.pc = "reply"
    /\ \/ /\ NoFault
          /\ outbox' = outbox \cup {w.slot}
          /\ UNCHANGED withheld
       \/ /\ Fault("withheld")
          /\ withheld' = withheld \cup {w.slot}
          /\ UNCHANGED outbox
    /\ Becomes(p, At(w, "commit"))
    /\ UNCHANGED <<leaseVars, kind, mode, now, cron, jobs, paused, run, turns,
                   done, refused, lossVars>>

(* once() commits the key after its callback.                                *)
Commit(p) ==
    LET w == fire[p] IN
    /\ w.pc = "commit"
    /\ done' = done \cup {w.slot}
    /\ Becomes(p, Consumed(w))
    /\ UNCHANGED <<leaseVars, kind, mode, now, cron, jobs, paused, run, turns,
                   outbox, refused, withheld, lossVars, faults>>

Defer(p) ==
    LET w == fire[p] IN
    /\ w.pc = "defer"
    /\ cron' = [cron EXCEPT !.defer = Sooner(now + DeferMs, MaxTime)]
    /\ Becomes(p, Ended(p, [w EXCEPT !.outcome = "busy"]))
    /\ UNCHANGED <<leaseVars, kind, mode, now, jobs, paused, resultVars,
                   lossVars, faults>>

(* setEnabled(false), after a one-shot or for want of rights.                *)
Disable(p) ==
    LET w == fire[p] IN
    /\ w.pc = "disable"
    /\ cron' = [cron EXCEPT !.enabled = FALSE]
    /\ Becomes(p, IF w.outcome = "authz" THEN Ended(p, w)
                  ELSE At(w, "advance"))
    /\ UNCHANGED <<leaseVars, kind, mode, now, jobs, paused, resultVars,
                   lossVars, faults>>

(* Slots of the schedule the cursor has left behind.                         *)
Passed(s) ==
    \/ kind = "calendar" /\ s % Period = 0 /\ s < cron.next
    \/ kind = "oneshot" /\ s = Period /\ cron.next # s

(* Slots that are passed over when the cursor is put behind them.            *)
PassedOver(slot) ==
    {s \in Slots \ done : /\ kind = "calendar" /\ s % Period = 0
                         /\ cron.next <= s /\ s < slot}

(* A claim that can no longer be undone drops its slot.  lastFiredAt tells   *)
(* claims apart by their instant only: where a later slot was claimed in the *)
(* same one, giving it back puts the cursor behind slots given back before.  *)
Unclaim(p) ==
    LET w == fire[p] IN
    /\ w.pc = "unclaim"
    /\ cron' = Unclaimed(w)
    /\ dropped' = dropped \cup IF cron.last = w.at THEN PassedOver(w.slot)
                               ELSE {s \in {w.slot} : Passed(s)}
    /\ Becomes(p, IF w.outcome = "busy" THEN At(w, "advance") ELSE Idle)
    /\ UNCHANGED <<leaseVars, kind, mode, now, jobs, paused, resultVars,
                   overtaken, faults>>

(* enqueueNext() after a queued fire, markFired() after a ticked one, which  *)
(* does not compare the cursor: a slot that another process gave back since  *)
(* is passed over.                                                           *)
Advance(p) ==
    LET w == fire[p] IN
    /\ w.pc = "advance"
    /\ IF mode[p] = "tick"
       THEN /\ cron' = Claimed(w.slot, w.at)
            /\ overtaken' = overtaken \cup PassedOver(w.slot)
            /\ Becomes(p, TickDone)
            /\ UNCHANGED jobs
       ELSE /\ EnqueueNext(p)
            /\ Becomes(p, Idle)
            /\ UNCHANGED <<cron, overtaken>>
    /\ UNCHANGED <<leaseVars, kind, mode, now, paused, resultVars, dropped,
                   faults>>

-----------------------------------------------------------------------------
(* The lease guard, and the environment.                                     *)

GuardTake(p) ==
    /\ mode[p] = "queue" /\ p \notin paused
    /\ TryLock(p)
    /\ UNCHANGED <<kind, mode, now, cron, jobs, fire, paused, resultVars,
                   lossVars, faults>>

(* The guard lets go when the lease is lost, the process paused or pg-boss   *)
(* unwell; jobs it took before go on.                                        *)
GuardDrop(p) ==
    /\ mode[p] = "queue"
    /\ \/ (hold[p] = "lost" \/ p \in paused) /\ NoFault
       \/ Fault("ill")
    /\ Unlock(p)
    /\ UNCHANGED <<kind, mode, now, cron, jobs, fire, paused, resultVars,
                   lossVars>>

CutLease(p) ==
    /\ Fault("cut")
    /\ SessionCut(p)
    /\ UNCHANGED <<kind, mode, now, cron, jobs, fire, paused, resultVars,
                   lossVars>>

NoticeLoss(p) ==
    /\ LossNoticed(p)
    /\ UNCHANGED <<kind, mode, now, cron, jobs, fire, paused, resultVars,
                   lossVars, faults>>

(* stopClaims() starts a new epoch: a fire of the old one goes on, except    *)
(* that it gives back a slot it only just claimed.  Background work is never *)
(* stopped everywhere.                                                       *)
Pause(p) ==
    /\ paused = {}
    /\ Fault("pause")
    /\ paused' = {p}
    /\ fire' = [fire EXCEPT ![p].fenced = @ \/ fire[p].pc = "claim"]
    /\ UNCHANGED <<leaseVars, kind, mode, now, cron, jobs, resultVars, lossVars>>

Resume(p) ==
    /\ p \in paused
    /\ paused' = paused \ {p}
    /\ UNCHANGED <<leaseVars, kind, mode, now, cron, jobs, fire, resultVars,
                   lossVars, faults>>

(* A slot claimed by a process that dies is gone: the cursor has moved on,   *)
(* and pg-boss does not retry the job.                                       *)
Holds(p, s) ==
    /\ mode[p] = "queue" /\ fire[p].slot = s
    /\ fire[p].pc \in {"trigger", "run", "await", "reply", "commit", "defer",
                       "disable", "unclaim"}

Crash(p) ==
    /\ fire[p].pc # "idle" \/ hold[p] # "none"
    /\ Fault("crash")
    /\ IF hold[p] = "none" THEN UNCHANGED leaseVars ELSE Unlock(p)
    /\ Becomes(p, Idle)
    /\ dropped' = dropped \cup {s \in Slots \ done : Holds(p, s) /\ Passed(s)}
    /\ UNCHANGED <<kind, mode, now, cron, jobs, paused, resultVars, overtaken>>

Tick ==
    /\ now < MaxTime
    /\ now' = now + 1
    /\ UNCHANGED <<leaseVars, kind, mode, cron, jobs, fire, paused, resultVars,
                   lossVars, faults>>

FireStep(p) ==
    \/ ClaimSlot(p) \/ Trigger(p) \/ StartRun(p) \/ Reply(p) \/ Commit(p)
    \/ Defer(p) \/ Disable(p) \/ Unclaim(p) \/ Advance(p)
    \/ TickEnd(p)

TakeUp(p) == TickDue(p) \/ \E s \in Slots : TakeJob(p, s)

CronNext ==
    \/ \E p \in Processes : FireStep(p) \/ TakeUp(p) \/ Reconcile(p)
    \/ \E p \in Processes : TurnThrows(p) \/ GuardTake(p) \/ GuardDrop(p)
    \/ \E p \in Processes : CutLease(p) \/ NoticeLoss(p) \/ Crash(p)
    \/ \E p \in Processes : Pause(p) \/ Resume(p)
    \/ \E s \in Slots, o \in {"ok", "busy", "mute"} : RunEnds(s, o)
    \/ Tick

CronSpec == CronInit /\ [][CronNext]_cronVars

-----------------------------------------------------------------------------
(* Whoever fires a slot, claimed or ticked, once or again after an error, a  *)
(* crash or a lost lease, its turn runs once: the fire key is the run's key. *)
RunsOnce == \A s \in Slots : turns[s] <= 1

(* A reply that can be delivered is in the outbox before its fire is         *)
(* committed, so that whoever fires the slot after a crash or an error still *)
(* delivers it.  A fire is committed without one only if its run had none,   *)
(* if there was nowhere to deliver it to, or if the slot was given up, busy  *)
(* and long overdue.                                                         *)
CommittedMeansReplied ==
    \A s \in done : s \in outbox \cup refused \cup withheld \/ run[s] = "mute"

(* The cursor leaves no slot behind that is neither fired nor being fired,   *)
(* not after an outage, a deferral, an error or a pause.  Two kinds of slots *)
(* are lost all the same.  A queued fire moved the cursor when it claimed,   *)
(* so its slot is dropped if it dies with its process, or fails once         *)
(* lastFiredAt no longer tells its claim from another's.  And where one      *)
(* process ticks while another's queue works, and only there, the tick's     *)
(* markFired() overtakes a slot the queue gave back.                         *)
NoSlotSkipped ==
    /\ \A s \in Slots :
          Passed(s) => \/ s \in done \cup dropped \cup overtaken
                       \/ \E p \in Processes : Holds(p, s)
    /\ dropped # {} => \E p \in Processes : mode[p] = "queue"
    /\ overtaken # {} => \E p, q \in Processes : mode[p] # mode[q]

Due(s) == cron.enabled /\ cron.next = s /\ now >= s

(* The slots of a calendar or one-shot that come due.                        *)
Scheduled == {s \in 1..MaxTime : s % Period = 0}

(* A due slot is fired, unless the cron is switched off, the slot dropped or *)
(* overtaken, or an interval put off by a fire that moved its cursor.        *)
DueSlotFires ==
    \A s \in Scheduled :
        Due(s) ~> \/ s \in done \cup dropped \cup overtaken \/ ~cron.enabled
                  \/ kind = "interval" /\ cron.next > s

(* Timers, pg-boss workers and the run queue go on; a paused process may     *)
(* stay paused.                                                              *)
FairCronSpec ==
    /\ CronSpec
    /\ WF_cronVars(Tick)
    /\ WF_cronVars(\E s \in Slots : RunEnds(s, "ok"))
    /\ \A p \in Processes :
         /\ WF_cronVars(FireStep(p))
         /\ WF_cronVars(TakeUp(p))
         /\ WF_cronVars(Reconcile(p))
         /\ WF_cronVars(GuardDrop(p))
=============================================================================
