-------------------------- MODULE CronFiringProofs --------------------------
(***************************************************************************)
(* Proofs about the fires of one cron, for every number of processes in    *)
(* either mode, every kind of schedule, every period and any faults.       *)
(***************************************************************************)
EXTENDS CronFiring, TLAPS

(* A process is in the middle of the fire of a slot.                         *)
Firing(p) == fire[p].pc \notin {"idle", "end"}

(* A slot of the cron's schedule; an interval's may be any.                  *)
OnSchedule(s) ==
    /\ kind = "calendar" => s % Period = 0
    /\ kind = "oneshot" => s = Period

(* The reply of the slot is in the outbox, or there will be none.            *)
Settled(s) == s \in outbox \cup refused \cup withheld \/ run[s] = "mute"

(* Where all processes tick, a fire has the earlier slots behind it.         *)
InOrder(p) ==
    /\ kind = "calendar" /\ \A q \in Processes : mode[q] = "tick"
    /\ Firing(p)
    => \A s \in Slots : s % Period = 0 /\ s < fire[p].slot => s \in done

(* A fire is of a slot that came due, and each of its steps is one of its    *)
(* mode; it commits with a reply or without hope of one, and passes on what  *)
(* is committed.                                                             *)
FireFits(p) ==
    /\ Firing(p) => /\ fire[p].slot \in 1..now /\ fire[p].at \in 1..now
                    /\ OnSchedule(fire[p].slot)
    /\ fire[p].pc \in {"claim", "unclaim"} => mode[p] = "queue"
    /\ fire[p].pc = "end" => mode[p] = "tick"
    /\ fire[p].pc = "commit" => Settled(fire[p].slot)
    /\ fire[p].pc = "advance" /\ mode[p] = "tick" => fire[p].slot \in done
    /\ fire[p].pc = "disable" /\ fire[p].outcome # "authz" =>
         fire[p].slot \in done
    /\ InOrder(p)

(* The cursor is on the schedule, and a job does not start before its slot.  *)
CursorFits ==
    /\ cron.next # 0 => OnSchedule(cron.next)
    /\ \A s \in Slots : jobs[s] # 0 => s <= jobs[s]

(* A slot's turn ran exactly if its run ended.                               *)
RunFits ==
    \A s \in Slots : turns[s] = IF run[s] \in {"ok", "mute"} THEN 1 ELSE 0

(* The inductive invariant.                                                  *)
CronInv ==
    /\ CronTypeOK
    /\ CursorFits
    /\ RunFits
    /\ \A p \in Processes : FireFits(p)
    /\ CommittedMeansReplied
    /\ NoSlotSkipped

-----------------------------------------------------------------------------
(* Arithmetic of the schedule.                                               *)

(* Two multiples less than a period apart are the same.                      *)
LEMMA OneMultiple ==
    ASSUME NEW P \in Nat \ {0}, NEW s \in Nat, NEW t \in Nat,
           s % P = 0, t % P = 0, t < s + P, s <= t
    PROVE  s = t
  OBVIOUS

(* The instants of a calendar are the multiples of its period, and the one   *)
(* after s is s + Period.                                                    *)
LEMMA Multiples ==
    ASSUME NEW P \in Nat \ {0}, NEW s \in Nat, s % P = 0
    PROVE  /\ (s + P) % P = 0
           /\ \A t \in Nat : t % P = 0 /\ s <= t /\ t < s + P => t = s
<1>1. ASSUME NEW k \in Nat PROVE (k * P) % P = 0
  OBVIOUS
<1>2. PICK k \in Nat : s = k * P
  OBVIOUS
<1>3. s + P = (k + 1) * P /\ k + 1 \in Nat
  BY <1>2
<1>4. (s + P) % P = 0
  BY <1>1, <1>3
<1>5. ASSUME NEW t \in Nat, t % P = 0, s <= t, t < s + P PROVE t = s
  BY <1>5, OneMultiple
<1> QED
  BY <1>4, <1>5

-----------------------------------------------------------------------------
(* Shapes.                                                                   *)

(* The rows and the bounds, apart from the lease and the fires.              *)
RowsOK ==
    /\ [kind |-> kind, mode |-> mode] \in Setups
    /\ now \in 1..MaxTime
    /\ cron \in [enabled : BOOLEAN, next : Times, last : Times, defer : Times]
    /\ jobs \in [Slots -> Times]
    /\ paused \subseteq Processes
    /\ run \in [Slots -> {"none", "queued", "ok", "mute"}]
    /\ turns \in [Slots -> Nat]
    /\ outbox \subseteq Slots /\ done \subseteq Slots
    /\ refused \subseteq Slots /\ withheld \subseteq Slots
    /\ dropped \subseteq Slots /\ overtaken \subseteq Slots
    /\ faults \in 0..MaxFaults

FiresOK ==
    /\ LeaseTypeOK
    /\ fire \in [Processes -> Fire]
    /\ \A p \in Processes :
         /\ fire[p].fenced => fire[p].pc = "claim"
         /\ mode[p] = "tick" => (fire[p].pc = "idle" <=> hold[p] = "none")

(* The rest of the rows' part of the invariant.                              *)
RowsFit == CursorFits /\ RunFits /\ CommittedMeansReplied

Pcs == {"idle", "claim", "trigger", "run", "await", "reply", "commit", "defer",
        "disable", "unclaim", "advance", "end"}

(* An update of a fire yields a fire.                                        *)
LEMMA FireShapes ==
    /\ \A w \in Fire, pc \in Pcs :
         /\ At(w, pc) \in Fire /\ At(w, pc).pc = pc /\ At(w, pc).slot = w.slot
         /\ At(w, pc).at = w.at /\ At(w, pc).outcome = w.outcome
         /\ At(w, pc).fenced = w.fenced /\ At(w, pc).prior = w.prior
    /\ \A w \in Fire, outcome \in {"none", "busy", "authz"} :
         /\ [w EXCEPT !.outcome = outcome] \in Fire
         /\ [w EXCEPT !.outcome = outcome].pc = w.pc
         /\ [w EXCEPT !.outcome = outcome].slot = w.slot
         /\ [w EXCEPT !.outcome = outcome].at = w.at
         /\ [w EXCEPT !.outcome = outcome].outcome = outcome
         /\ [w EXCEPT !.outcome = outcome].fenced = w.fenced
<1>1. ASSUME NEW w \in Fire, NEW pc \in Pcs
      PROVE  /\ At(w, pc) \in Fire /\ At(w, pc).pc = pc
             /\ At(w, pc).slot = w.slot
             /\ At(w, pc).at = w.at /\ At(w, pc).outcome = w.outcome
             /\ At(w, pc).fenced = w.fenced /\ At(w, pc).prior = w.prior
  BY DEF Fire, At, Pcs
<1>2. ASSUME NEW w \in Fire, NEW outcome \in {"none", "busy", "authz"}
      PROVE  /\ [w EXCEPT !.outcome = outcome] \in Fire
             /\ [w EXCEPT !.outcome = outcome].pc = w.pc
             /\ [w EXCEPT !.outcome = outcome].slot = w.slot
             /\ [w EXCEPT !.outcome = outcome].at = w.at
             /\ [w EXCEPT !.outcome = outcome].outcome = outcome
             /\ [w EXCEPT !.outcome = outcome].fenced = w.fenced
  BY DEF Fire
<1> QED
  BY <1>1, <1>2

(* No fire, and the end of a tick.                                           *)
LEMMA IdleShape ==
    /\ Idle \in Fire /\ Idle.pc = "idle" /\ Idle.fenced = FALSE
    /\ TickDone \in Fire /\ TickDone.pc = "end" /\ TickDone.fenced = FALSE
<1>0. 0 \in Times
  BY CronAssumption DEF Times
<1>1. Idle \in Fire /\ Idle.pc = "idle" /\ Idle.fenced = FALSE
  BY <1>0 DEF Idle, Fire
<1>2. "end" \in Pcs
  BY DEF Pcs
<1> QED
  BY <1>1, <1>2, FireShapes DEF TickDone

(* What the steps below use of the invariant.                                *)
LEMMA CronFacts ==
    ASSUME CronInv
    PROVE  /\ RowsOK /\ FiresOK /\ RowsFit
           /\ fire \in [Processes -> Fire]
           /\ \A p \in Processes : fire[p] \in Fire /\ FireFits(p)
           /\ \A p \in Processes : fire[p].fenced => fire[p].pc = "claim"
           /\ now \in Nat /\ now >= 1 /\ now <= MaxTime
           /\ mode \in [Processes -> {"queue", "tick"}]
           /\ kind \in {"calendar", "interval", "oneshot"}
           /\ Period \in Nat \ {0} /\ MaxTime \in Nat \ {0} /\ MaxFaults \in Nat
           /\ faults \in 0..MaxFaults /\ dropped \subseteq Slots
           /\ overtaken \subseteq Slots
           /\ done \subseteq Slots /\ withheld \subseteq Slots
           /\ LeaseTypeOK
<1>1. RowsOK /\ FiresOK
  BY DEF CronInv, CronTypeOK, RowsOK, FiresOK
<1>2. now \in Nat /\ now >= 1 /\ now <= MaxTime
  BY <1>1, CronAssumption DEF RowsOK
<1>3. /\ mode \in [Processes -> {"queue", "tick"}]
      /\ kind \in {"calendar", "interval", "oneshot"}
  <2>1. [kind |-> kind, mode |-> mode] \in
          [kind : {"calendar", "interval", "oneshot"},
           mode : [Processes -> {"queue", "tick"}]]
    BY <1>1, CronAssumption DEF RowsOK
  <2> QED
    BY <2>1
<1>4. \A p \in Processes : fire[p] \in Fire /\ FireFits(p)
  BY <1>1 DEF CronInv, FiresOK
<1>5. RowsFit
  BY DEF CronInv, RowsFit
<1> QED
  BY <1>1, <1>2, <1>3, <1>4, <1>5, CronAssumption DEF RowsOK, FiresOK

(* The invariant from its parts.                                             *)
LEMMA CronParts ==
    ASSUME RowsOK', FiresOK', RowsFit', (\A p \in Processes : FireFits(p))',
           NoSlotSkipped'
    PROVE  CronInv'
<1>1. CronTypeOK'
  BY DEF RowsOK, FiresOK, CronTypeOK
<1> QED
  BY <1>1 DEF CronInv, RowsFit

(* Faults stay within their bound.                                           *)
LEMMA FaultsBounded ==
    ASSUME CronInv, (\E name : Fault(name)) \/ NoFault
    PROVE  faults' \in 0..MaxFaults
  BY CronFacts DEF Fault, NoFault

-----------------------------------------------------------------------------
(* A step of process p, by what it does to the fires.                        *)

(* The slots behind the cursor stay accounted for: what the cursor newly     *)
(* leaves behind, and what p lets go of.                                     *)
KeepsSlots(p) ==
    \A s \in Slots :
      /\ Passed(s)' => \/ Passed(s) \/ Holds(p, s)'
                       \/ s \in (done \cup dropped \cup overtaken)'
      /\ Holds(p, s) => \/ Holds(p, s)' \/ ~Passed(s)'
                        \/ s \in (done \cup dropped \cup overtaken)'

(* A slot is lost only where there is a queue, or a queue and a tick.        *)
LossesFit ==
    /\ dropped' # dropped => \E p \in Processes : mode[p] = "queue"
    /\ overtaken' # overtaken => \E p, q \in Processes : mode[p] # mode[q]

(* Nothing is forgotten.                                                     *)
Grows ==
    /\ UNCHANGED <<kind, mode>>
    /\ now' \in Nat /\ now <= now'
    /\ outbox \subseteq outbox' /\ refused \subseteq refused'
    /\ withheld \subseteq withheld'
    /\ \A s \in Slots : run[s] = "mute" => run'[s] = "mute"
    /\ done \subseteq done' /\ dropped \subseteq dropped'
    /\ overtaken \subseteq overtaken' /\ LossesFit

FireMoves(p) ==
    /\ LeaseTypeOK'
    /\ \A q \in Processes \ {p} : fire'[q] = fire[q] /\ hold'[q] = hold[q]
    /\ fire' \in [Processes -> Fire]
    /\ Grows
    /\ fire'[p].fenced => fire'[p].pc = "claim"
    /\ mode[p] = "tick" => (fire'[p].pc = "idle" <=> hold'[p] = "none")
    /\ FireFits(p)'
    /\ KeepsSlots(p)

(* A fire that does not move stays in order.                                 *)
LEMMA StillFits ==
    ASSUME CronInv, Grows, NEW q \in Processes, fire'[q] = fire[q]
    PROVE  FireFits(q)'
<1>1. Firing(q)' <=> Firing(q)
  BY DEF Firing
<1>2. Firing(q) => fire[q].slot \in Slots
  BY CronFacts DEF FireFits, Slots
<1>3. InOrder(q)'
  BY <1>1, CronFacts DEF FireFits, InOrder, Grows
<1>4. fire[q].pc = "commit" => Settled(fire[q].slot)'
  BY <1>2, CronFacts DEF FireFits, Firing, Settled, Grows
<1> QED
  BY <1>1, <1>3, <1>4, CronFacts DEF FireFits, OnSchedule, Grows

(* Such a step keeps the fires' part of the invariant.                       *)
LEMMA FireMoved ==
    ASSUME CronInv, NEW p \in Processes, FireMoves(p)
    PROVE  FiresOK' /\ (\A q \in Processes : FireFits(q))' /\ NoSlotSkipped'
<1>1. FiresOK'
  BY CronFacts DEF FireMoves, FiresOK, Grows
<1>2. ASSUME NEW q \in Processes PROVE FireFits(q)'
  BY StillFits DEF FireMoves
<1>3. ASSUME NEW s \in Slots, Passed(s)',
             s \notin (done \cup dropped \cup overtaken)'
      PROVE  \E q \in Processes : Holds(q, s)'
  <2>1. CASE Holds(p, s)'
    BY <2>1
  <2>2. CASE ~Holds(p, s)'
    <3>1. Passed(s) /\ s \notin done \cup dropped \cup overtaken
      BY <1>3, <2>2 DEF FireMoves, KeepsSlots, Grows
    <3>2. PICK q \in Processes : Holds(q, s)
      BY <3>1 DEF CronInv, NoSlotSkipped
    <3>3. q # p
      BY <1>3, <2>2, <3>2 DEF FireMoves, KeepsSlots
    <3>4. Holds(q, s)'
      BY <3>2, <3>3 DEF FireMoves, Grows, Holds
    <3> QED
      BY <3>4
  <2> QED
    BY <2>1, <2>2
<1>4. /\ dropped' # {} => (\E q \in Processes : mode[q] = "queue")'
      /\ overtaken' # {} => (\E q, t \in Processes : mode[q] # mode[t])'
  BY DEF CronInv, NoSlotSkipped, FireMoves, Grows, LossesFit
<1>5. NoSlotSkipped'
  BY <1>3, <1>4 DEF NoSlotSkipped
<1> QED
  BY <1>1, <1>2, <1>5

(* The rows stay in order when they do not change.                           *)
LEMMA RowsSame ==
    ASSUME CronInv, faults' \in 0..MaxFaults, dropped' \subseteq Slots,
           withheld \subseteq withheld', withheld' \subseteq Slots,
           UNCHANGED <<kind, mode, now, cron, jobs, paused, run, turns, outbox,
                       done, refused, overtaken>>
    PROVE  RowsOK' /\ RowsFit'
<1>1. RowsOK'
  BY CronFacts DEF RowsOK
<1>2. RowsFit'
  BY CronFacts DEF RowsFit, CursorFits, RunFits, CommittedMeansReplied, OnSchedule
<1> QED
  BY <1>1, <1>2

(* p goes on with its slot at pc.                                            *)
GoesTo(p, pc) ==
    /\ fire' \in [Processes -> Fire]
    /\ \A q \in Processes \ {p} : fire'[q] = fire[q]
    /\ fire'[p].pc = pc /\ fire'[p].slot = fire[p].slot
    /\ fire'[p].at = fire[p].at /\ fire'[p].fenced = fire[p].fenced

(* The record updates of the actions are moves of this kind.                 *)
LEMMA Goes ==
    ASSUME CronInv, NEW p \in Processes, NEW pc \in Pcs,
           Becomes(p, At(fire[p], pc))
    PROVE  GoesTo(p, pc)
<1>1. At(fire[p], pc) \in Fire
  BY CronFacts, FireShapes
<1>2. /\ fire' \in [Processes -> Fire] /\ fire'[p] = At(fire[p], pc)
      /\ \A q \in Processes \ {p} : fire'[q] = fire[q]
  BY <1>1, CronFacts DEF Becomes
<1> QED
  BY <1>2, CronFacts, FireShapes DEF GoesTo

(* So are the ones that note an outcome as well.                             *)
LEMMA GoesNoting ==
    ASSUME CronInv, NEW p \in Processes, NEW pc \in Pcs,
           NEW outcome \in {"none", "busy", "authz"},
           \/ Becomes(p, [At(fire[p], pc) EXCEPT !.outcome = outcome])
           \/ Becomes(p, At([fire[p] EXCEPT !.outcome = outcome], pc))
    PROVE  GoesTo(p, pc) /\ fire'[p].outcome = outcome
<1>1. CASE Becomes(p, [At(fire[p], pc) EXCEPT !.outcome = outcome])
  <2>1. PICK w \in Fire : w = At(fire[p], pc)
    BY CronFacts, FireShapes
  <2>2. /\ fire' \in [Processes -> Fire]
        /\ fire'[p] = [w EXCEPT !.outcome = outcome]
        /\ \A q \in Processes \ {p} : fire'[q] = fire[q]
    BY <1>1, <2>1, CronFacts, FireShapes DEF Becomes
  <2>3. w.pc = pc /\ w.slot = fire[p].slot /\ w.at = fire[p].at
        /\ w.fenced = fire[p].fenced
    BY <2>1, CronFacts, FireShapes
  <2> QED
    BY <2>2, <2>3, FireShapes DEF GoesTo
<1>2. CASE Becomes(p, At([fire[p] EXCEPT !.outcome = outcome], pc))
  <2>1. PICK w \in Fire : w = [fire[p] EXCEPT !.outcome = outcome]
    BY CronFacts, FireShapes
  <2>2. /\ fire' \in [Processes -> Fire] /\ fire'[p] = At(w, pc)
        /\ \A q \in Processes \ {p} : fire'[q] = fire[q]
    BY <1>2, <2>1, CronFacts, FireShapes DEF Becomes
  <2>3. w.outcome = outcome /\ w.slot = fire[p].slot /\ w.at = fire[p].at
        /\ w.fenced = fire[p].fenced
    BY <2>1, CronFacts, FireShapes
  <2> QED
    BY <2>2, <2>3, FireShapes DEF GoesTo
<1> QED
  BY <1>1, <1>2

(* p is through with its fire, one way or another.                           *)
StopsAt(p, pc) ==
    /\ fire' \in [Processes -> Fire]
    /\ \A q \in Processes \ {p} : fire'[q] = fire[q]
    /\ fire'[p].pc = pc /\ fire'[p].fenced = FALSE

(* The record updates that end a fire.                                       *)
LEMMA Stops ==
    ASSUME CronInv, NEW p \in Processes
    PROVE  /\ Becomes(p, Idle) => StopsAt(p, "idle")
           /\ Becomes(p, TickDone) => StopsAt(p, "end")
  BY CronFacts, IdleShape DEF Becomes, StopsAt

(* A cursor that stays leaves nothing behind.                                *)
LEMMA CursorStays ==
    ASSUME UNCHANGED kind, cron'.next = cron.next
    PROVE  \A s \in Slots : Passed(s)' <=> Passed(s)
  BY DEF Passed

(* What a fire that goes on has to show.                                     *)
GoesOn(p, pc) ==
    /\ Firing(p) /\ fire[p].pc # "claim"
    /\ GoesTo(p, pc)
    /\ Grows /\ UNCHANGED <<holder, hold, now>> /\ cron'.next = cron.next
    /\ pc = "unclaim" => mode[p] = "queue"
    /\ pc = "commit" => Settled(fire[p].slot)'
    /\ pc = "advance" => fire[p].slot \in done'
    /\ pc = "disable" => fire'[p].outcome = "authz" \/ fire[p].slot \in done'

(* A fire that goes on is in order, and holds its slot until it is done.     *)
LEMMA GoesMoves ==
    ASSUME CronInv, NEW p \in Processes,
           NEW pc \in Pcs \ {"idle", "claim", "end"}, GoesOn(p, pc)
    PROVE  FireMoves(p)
<1>1. fire[p].fenced = FALSE /\ fire'[p].fenced = FALSE
  BY CronFacts DEF GoesOn, GoesTo, Fire
<1>2. LeaseTypeOK' /\ \A q \in Processes : hold'[q] = hold[q]
  BY CronFacts DEF GoesOn, LeaseTypeOK
<1>3. mode[p] = "tick" => (fire'[p].pc = "idle" <=> hold'[p] = "none")
  BY <1>2, CronFacts DEF GoesOn, GoesTo, FiresOK, Firing
<1>4. FireFits(p)'
  <2>1. /\ fire[p].slot \in 1..now /\ fire[p].at \in 1..now
        /\ OnSchedule(fire[p].slot)
    BY CronFacts DEF FireFits, GoesOn
  <2>2. /\ fire'[p].slot \in 1..now' /\ fire'[p].at \in 1..now'
        /\ OnSchedule(fire[p].slot)'
    BY <2>1 DEF GoesOn, GoesTo, OnSchedule, Grows
  <2>3. InOrder(p)'
    <3>1. InOrder(p) /\ Firing(p) /\ fire'[p].slot = fire[p].slot
      BY CronFacts DEF FireFits, GoesOn, GoesTo
    <3>2. UNCHANGED <<kind, mode>> /\ done \subseteq done'
      BY DEF GoesOn, Grows
    <3> QED
      BY <3>1, <3>2 DEF InOrder
  <2> QED
    BY <2>1, <2>2, <2>3 DEF FireFits, GoesOn, GoesTo, OnSchedule, Grows
<1>5. KeepsSlots(p)
  <2>1. \A s \in Slots : Passed(s)' <=> Passed(s)
    BY CursorStays DEF GoesOn, Grows
  <2>2. ASSUME NEW s \in Slots, Holds(p, s)
        PROVE  Holds(p, s)' \/ s \in done'
    BY <2>2 DEF Holds, GoesOn, GoesTo, Grows, Pcs
  <2> QED
    BY <2>1, <2>2 DEF KeepsSlots
<1> QED
  BY <1>1, <1>2, <1>3, <1>4, <1>5 DEF FireMoves, GoesOn, GoesTo

(* What a fire that stops has to show.                                       *)
StopsThere(p, pc) ==
    /\ StopsAt(p, pc)
    /\ Grows /\ now' = now /\ cron'.next = cron.next
    /\ LeaseTypeOK' /\ \A q \in Processes \ {p} : hold'[q] = hold[q]
    /\ mode[p] = "tick" => (pc = "idle" <=> hold'[p] = "none")
    /\ pc = "end" => mode[p] = "tick"
    /\ \A s \in Slots :
          Holds(p, s) /\ Passed(s) => s \in (done \cup dropped)'

(* A fire that stops does not leave a slot open.                             *)
LEMMA StopMoves ==
    ASSUME CronInv, NEW p \in Processes, NEW pc \in {"idle", "end"},
           StopsThere(p, pc)
    PROVE  FireMoves(p)
<1>1. FireFits(p)'
  BY DEF FireFits, Firing, InOrder, StopsThere, StopsAt, Grows
<1>2. KeepsSlots(p)
  <2>1. \A s \in Slots : Passed(s)' <=> Passed(s)
    BY CursorStays DEF StopsThere, Grows
  <2> QED
    BY <2>1 DEF KeepsSlots, StopsThere
<1> QED
  BY <1>1, <1>2 DEF FireMoves, StopsThere, StopsAt

(* A step of p keeps the invariant by what it does to fires and rows.        *)
LEMMA StepDone ==
    ASSUME CronInv, NEW p \in Processes, FireMoves(p), RowsOK', RowsFit'
    PROVE  CronInv'
  BY FireMoved, CronParts

(* Nothing but the slots given up or withheld and the fault count changes.   *)
RowsStill ==
    /\ UNCHANGED <<kind, mode, now, cron, jobs, paused, run, turns, outbox,
                   done, refused, overtaken>>
    /\ withheld' \subseteq Slots /\ withheld \subseteq withheld'
    /\ dropped' \subseteq Slots /\ dropped \subseteq dropped'
    /\ LossesFit
    /\ faults' \in 0..MaxFaults

(* Then nothing is forgotten, and the rows stay in order.                    *)
LEMMA StillGrows ==
    ASSUME CronInv, RowsStill
    PROVE  Grows /\ RowsOK' /\ RowsFit' /\ now' = now /\ cron'.next = cron.next
<1>1. RowsOK' /\ RowsFit'
  BY RowsSame DEF RowsStill
<1>2. Grows
  BY CronFacts DEF Grows, RowsStill
<1> QED
  BY <1>1, <1>2 DEF RowsStill

-----------------------------------------------------------------------------
(* The steps of a fire that leave the cursor alone.                          *)

(* The owner lost the right, the key was committed before, or the run is     *)
(* started next.                                                             *)
LEMMA TriggerStep ==
    ASSUME CronInv, NEW p \in Processes, Trigger(p) PROVE CronInv'
<1>1. fire[p].pc = "trigger" /\ Firing(p) /\ UNCHANGED <<holder, hold>>
  BY DEF Trigger, Firing, leaseVars
<1>2. RowsStill
  <2>1. fire[p].slot \in Slots
    BY <1>1, CronFacts DEF FireFits, Slots
  <2>2. withheld' \subseteq Slots /\ withheld \subseteq withheld'
    BY <2>1, CronFacts DEF Trigger
  <2>3. faults' \in 0..MaxFaults
    BY FaultsBounded DEF Trigger
  <2> QED
    BY <2>2, <2>3, CronFacts DEF Trigger, RowsStill, LossesFit, lossVars
<1>3. Grows /\ RowsOK' /\ RowsFit' /\ now' = now /\ cron'.next = cron.next
  BY <1>2, StillGrows
<1>4. \E pc \in {"disable", "advance", "run", "commit"} : GoesOn(p, pc)
  <2>1. CASE Becomes(p, [At(fire[p], "disable") EXCEPT !.outcome = "authz"])
    <3>1. GoesTo(p, "disable") /\ fire'[p].outcome = "authz"
      BY <2>1, GoesNoting DEF Pcs
    <3> QED
      BY <1>1, <1>3, <3>1 DEF GoesOn
  <2>2. CASE fire[p].slot \in done /\ Becomes(p, Consumed(fire[p]))
    <3>1. PICK pc \in {"disable", "advance"} : Becomes(p, At(fire[p], pc))
      BY <2>2 DEF Consumed
    <3>2. GoesTo(p, pc)
      BY <3>1, Goes DEF Pcs
    <3>3. fire[p].slot \in done'
      BY <2>2, <1>3 DEF Grows
    <3> QED
      BY <1>1, <1>3, <3>2, <3>3 DEF GoesOn
  <2>3. CASE Becomes(p, At(fire[p], "run"))
    <3>1. GoesTo(p, "run")
      BY <2>3, Goes DEF Pcs
    <3> QED
      BY <1>1, <1>3, <3>1 DEF GoesOn
  <2>4. CASE /\ Becomes(p, At(fire[p], "commit"))
             /\ withheld' = withheld \cup {fire[p].slot}
    <3>1. GoesTo(p, "commit")
      BY <2>4, Goes DEF Pcs
    <3>2. Settled(fire[p].slot)'
      BY <2>4, <3>1 DEF Settled, GoesTo
    <3> QED
      BY <1>1, <1>3, <3>1, <3>2 DEF GoesOn
  <2> QED
    BY <2>1, <2>2, <2>3, <2>4 DEF Trigger
<1>5. FireMoves(p)
  BY <1>4, GoesMoves DEF Pcs
<1> QED
  BY <1>3, <1>5, StepDone

(* A run is started, joined, or found finished.                              *)
LEMMA StartRunStep ==
    ASSUME CronInv, NEW p \in Processes, StartRun(p) PROVE CronInv'
<1>1. /\ fire[p].pc = "run" /\ Firing(p) /\ UNCHANGED <<holder, hold>>
      /\ UNCHANGED <<kind, mode, now, cron, jobs, paused, turns, outbox,
                     done, refused, withheld, dropped, overtaken, faults>>
  BY DEF StartRun, Firing, leaseVars, lossVars
<1>2. fire[p].slot \in Slots
  BY <1>1, CronFacts DEF FireFits, Slots
<1>3. /\ run' \in [Slots -> {"none", "queued", "ok", "mute"}]
      /\ \A s \in Slots : /\ run'[s] = "ok" <=> run[s] = "ok"
                          /\ run'[s] = "mute" <=> run[s] = "mute"
  BY <1>2, CronFacts DEF StartRun, RowsOK
<1>4. RowsOK'
  BY <1>1, <1>3, CronFacts DEF RowsOK
<1>5. RowsFit'
  BY <1>1, <1>3, CronFacts
     DEF RowsFit, CursorFits, RunFits, CommittedMeansReplied, OnSchedule
<1>6. Grows
  BY <1>1, <1>3, CronFacts DEF Grows, LossesFit
<1>7. \E pc \in {"reply", "await", "commit"} : GoesOn(p, pc)
  <2>1. PICK pc \in {"reply", "await", "commit"} :
               /\ Becomes(p, At(fire[p], pc))
               /\ pc = "commit" => run[fire[p].slot] = "mute"
    BY DEF StartRun, AfterRun
  <2>2. GoesTo(p, pc)
    BY <2>1, Goes DEF Pcs
  <2>3. pc = "commit" => Settled(fire[p].slot)'
    BY <2>1, <2>2, <1>2, <1>3 DEF Settled, GoesTo
  <2> QED
    BY <1>1, <1>6, <2>2, <2>3 DEF GoesOn
<1>8. FireMoves(p)
  BY <1>7, GoesMoves DEF Pcs
<1> QED
  BY <1>4, <1>5, <1>8, StepDone

(* The reply is in the outbox, or there is nowhere to deliver it to, before  *)
(* the fire goes on to commit.                                               *)
LEMMA ReplyStep ==
    ASSUME CronInv, NEW p \in Processes, Reply(p) PROVE CronInv'
<1>1. /\ fire[p].pc = "reply" /\ Firing(p) /\ UNCHANGED <<holder, hold>>
      /\ UNCHANGED <<kind, mode, now, cron, jobs, paused, run, turns, done,
                     refused, dropped, overtaken>>
      /\ outbox \subseteq outbox' /\ withheld \subseteq withheld'
      /\ outbox' \subseteq outbox \cup {fire[p].slot}
      /\ withheld' \subseteq withheld \cup {fire[p].slot}
      /\ fire[p].slot \in outbox' \cup withheld'
      /\ faults' \in 0..MaxFaults
  BY FaultsBounded DEF Reply, Firing, leaseVars, lossVars
<1>2. fire[p].slot \in Slots
  BY <1>1, CronFacts DEF FireFits, Slots
<1>3. RowsOK'
  BY <1>1, <1>2, CronFacts DEF RowsOK
<1>4. RowsFit'
  BY <1>1, CronFacts
     DEF RowsFit, CursorFits, RunFits, CommittedMeansReplied, OnSchedule
<1>5. Grows
  BY <1>1, CronFacts DEF Grows, LossesFit
<1>6. GoesTo(p, "commit")
  BY Goes DEF Reply, Pcs
<1>7. GoesOn(p, "commit")
  <2>1. Settled(fire[p].slot)'
    BY <1>1, <1>6 DEF Settled, GoesTo
  <2> QED
    BY <1>1, <1>5, <1>6, <2>1 DEF GoesOn
<1>8. FireMoves(p)
  BY <1>7, GoesMoves DEF Pcs
<1> QED
  BY <1>3, <1>4, <1>8, StepDone

(* The key is committed of a fire that replied or was given up.              *)
LEMMA CommitStep ==
    ASSUME CronInv, NEW p \in Processes, Commit(p) PROVE CronInv'
<1>1. /\ fire[p].pc = "commit" /\ Firing(p) /\ UNCHANGED <<holder, hold>>
      /\ UNCHANGED <<kind, mode, now, cron, jobs, paused, run, turns, outbox,
                     refused, withheld, dropped, overtaken, faults>>
      /\ done' = done \cup {fire[p].slot}
  BY DEF Commit, Firing, leaseVars, lossVars
<1>2. fire[p].slot \in Slots /\ Settled(fire[p].slot)
  BY <1>1, CronFacts DEF FireFits, Slots
<1>3. RowsOK'
  BY <1>1, <1>2, CronFacts DEF RowsOK
<1>4. RowsFit'
  BY <1>1, <1>2, CronFacts
     DEF RowsFit, CursorFits, RunFits, CommittedMeansReplied, OnSchedule,
     Settled
<1>5. Grows
  BY <1>1, CronFacts DEF Grows, LossesFit
<1>6. \E pc \in {"disable", "advance"} : GoesOn(p, pc)
  <2>1. PICK pc \in {"disable", "advance"} : Becomes(p, At(fire[p], pc))
    BY DEF Commit, Consumed
  <2>2. GoesTo(p, pc)
    BY <2>1, Goes DEF Pcs
  <2> QED
    BY <1>1, <1>5, <2>2 DEF GoesOn
<1>7. FireMoves(p)
  BY <1>6, GoesMoves DEF Pcs
<1> QED
  BY <1>3, <1>4, <1>7, StepDone

(* A fire that ends without its slot: a tick is over, a claim is undone.     *)
LEMMA EndedMoves ==
    ASSUME CronInv, NEW p \in Processes, Firing(p), fire[p].pc # "claim",
           Grows, UNCHANGED <<holder, hold, now>>, cron'.next = cron.next,
           \/ Becomes(p, Ended(p, fire[p]))
           \/ Becomes(p, Ended(p, [fire[p] EXCEPT !.outcome = "busy"]))
    PROVE  FireMoves(p)
<1>1. CASE mode[p] = "tick"
  <2>1. StopsAt(p, "end")
    BY <1>1, Stops DEF Ended
  <2>2. LeaseTypeOK' /\ \A q \in Processes : hold'[q] = hold[q]
    BY CronFacts DEF LeaseTypeOK
  <2>3. hold'[p] # "none"
    BY <1>1, <2>2, CronFacts DEF FiresOK, Firing
  <2>4. \A s \in Slots : ~Holds(p, s)
    BY <1>1 DEF Holds
  <2>5. StopsThere(p, "end")
    BY <1>1, <2>1, <2>2, <2>3, <2>4 DEF StopsThere
  <2> QED
    BY <2>5, StopMoves
<1>2. CASE mode[p] # "tick"
  <2>1. mode[p] = "queue"
    BY <1>2, CronFacts
  <2>2. GoesTo(p, "unclaim")
    <3>1. CASE Becomes(p, At(fire[p], "unclaim"))
      BY <3>1, Goes DEF Pcs
    <3>2. CASE Becomes(p, At([fire[p] EXCEPT !.outcome = "busy"], "unclaim"))
      BY <3>2, GoesNoting DEF Pcs
    <3> QED
      BY <1>2, <3>1, <3>2 DEF Ended
  <2>3. GoesOn(p, "unclaim")
    BY <2>1, <2>2 DEF GoesOn
  <2> QED
    BY <2>3, GoesMoves DEF Pcs
<1> QED
  BY <1>1, <1>2

(* The turn throws.                                                          *)
LEMMA TurnThrowsStep ==
    ASSUME CronInv, NEW p \in Processes, TurnThrows(p) PROVE CronInv'
<1>1. fire[p].pc = "await" /\ Firing(p) /\ UNCHANGED <<holder, hold>>
  BY DEF TurnThrows, Firing, leaseVars
<1>2. RowsStill
  BY FaultsBounded, CronFacts
     DEF TurnThrows, RowsStill, LossesFit, resultVars, lossVars
<1>3. Grows /\ RowsOK' /\ RowsFit' /\ now' = now /\ cron'.next = cron.next
  BY <1>2, StillGrows
<1>4. FireMoves(p)
  BY <1>1, <1>3, EndedMoves DEF TurnThrows
<1> QED
  BY <1>3, <1>4, StepDone

(* A tick is over.                                                           *)
LEMMA TickEndStep ==
    ASSUME CronInv, NEW p \in Processes, TickEnd(p) PROVE CronInv'
<1>1. RowsStill
  BY FaultsBounded, CronFacts
     DEF TickEnd, RowsStill, LossesFit, resultVars, lossVars, NoFault
<1>2. Grows /\ RowsOK' /\ RowsFit' /\ now' = now /\ cron'.next = cron.next
  BY <1>1, StillGrows
<1>3. /\ LeaseTypeOK' /\ \A q \in Processes \ {p} : hold'[q] = hold[q]
      /\ hold'[p] = "none"
  BY CronFacts DEF TickEnd, Unlock, LeaseTypeOK, Freed
<1>4. \A s \in Slots : ~Holds(p, s)
  BY DEF Holds, TickEnd
<1>5. StopsAt(p, "idle")
  BY Stops DEF TickEnd
<1>6. StopsThere(p, "idle")
  BY <1>2, <1>3, <1>4, <1>5 DEF StopsThere
<1>7. FireMoves(p)
  BY <1>6, StopMoves
<1> QED
  BY <1>2, <1>7, StepDone

(* The run ends, and every fire that waits for it goes on.                   *)
LEMMA RunEndsStep ==
    ASSUME CronInv, NEW s \in Slots, NEW outcome \in {"ok", "busy", "mute"},
           RunEnds(s, outcome)
    PROVE  CronInv'
<1>1. /\ UNCHANGED <<holder, hold, kind, mode, now, cron, jobs, paused,
                     outbox, done, withheld, dropped, overtaken>>
      /\ run[s] = "queued"
  BY DEF RunEnds, leaseVars, lossVars
<1>2. faults' \in 0..MaxFaults
  BY FaultsBounded DEF RunEnds
<1>3. /\ run' \in [Slots -> {"none", "queued", "ok", "mute"}]
      /\ turns' \in [Slots -> Nat]
      /\ refused' \subseteq Slots /\ refused \subseteq refused'
      /\ \A r \in Slots : run[r] = "mute" => run'[r] = "mute"
      /\ outcome = "mute" => run'[s] = "mute"
  <2>1. turns \in [Slots -> Nat] /\ turns[s] \in Nat
        /\ run \in [Slots -> {"none", "queued", "ok", "mute"}]
        /\ refused \subseteq Slots
    BY CronFacts DEF RowsOK
  <2> QED
    BY <2>1 DEF RunEnds
<1>4. RowsOK'
  BY <1>1, <1>2, <1>3, CronFacts DEF RowsOK
<1>5. RunFits'
  <2>1. RunFits /\ turns \in [Slots -> Nat]
        /\ run \in [Slots -> {"none", "queued", "ok", "mute"}]
    BY CronFacts DEF RowsFit, RowsOK
  <2> QED
    BY <2>1 DEF RunFits, RunEnds
<1>6. RowsFit'
  BY <1>1, <1>3, <1>5, CronFacts
     DEF RowsFit, CursorFits, CommittedMeansReplied, OnSchedule
<1>7. Grows
  BY <1>1, <1>3, CronFacts DEF Grows, LossesFit
<1>8. ASSUME NEW q \in Processes, ~Awaits(q, s)
      PROVE  fire'[q] = fire[q]
  BY <1>8 DEF RunEnds
<1>9. ASSUME NEW q \in Processes, Awaits(q, s)
      PROVE  \E pc \in {"reply", "defer", "commit"} :
               /\ fire'[q] = At(fire[q], pc)
               /\ pc = "commit" => Settled(s)'
  <2>1. fire'[q] = AfterRun(fire[q], outcome)
    BY <1>9 DEF RunEnds
  <2>2. CASE outcome = "ok"
    BY <2>1, <2>2 DEF AfterRun
  <2>3. CASE outcome = "busy" /\ DeferWhenBusy(fire[q])
    BY <2>1, <2>3 DEF AfterRun
  <2>4. CASE outcome = "mute"
    <3>1. Settled(s)'
      BY <2>4, <1>3 DEF Settled
    <3> QED
      BY <2>1, <2>4, <3>1 DEF AfterRun
  <2>5. CASE outcome = "busy" /\ ~DeferWhenBusy(fire[q])
    <3>1. fire'[q] = At(fire[q], "commit")
      BY <2>1, <2>5 DEF AfterRun
    <3>2. Settled(s)'
      BY <1>9, <2>5 DEF RunEnds, Settled
    <3> QED
      BY <3>1, <3>2
  <2> QED
    BY <2>2, <2>3, <2>4, <2>5
<1>10. ASSUME NEW q \in Processes, Awaits(q, s)
       PROVE  /\ fire'[q] \in Fire /\ fire'[q].slot = fire[q].slot
              /\ fire'[q].at = fire[q].at /\ fire'[q].fenced = FALSE
              /\ fire'[q].pc \in {"reply", "defer", "commit"}
              /\ fire'[q].pc = "commit" => Settled(s)'
  <2>1. PICK pc \in {"reply", "defer", "commit"} :
               /\ fire'[q] = At(fire[q], pc)
               /\ pc = "commit" => Settled(s)'
    BY <1>9, <1>10
  <2>2. pc \in Pcs
    BY DEF Pcs
  <2>3. fire[q].fenced = FALSE
    BY <1>10, CronFacts DEF Awaits, Fire
  <2> QED
    BY <2>1, <2>2, <2>3, CronFacts, FireShapes
<1>11. ASSUME NEW q \in Processes PROVE FireFits(q)'
  <2>1. CASE ~Awaits(q, s)
    BY <2>1, <1>7, <1>8, StillFits
  <2>2. CASE Awaits(q, s)
    <3>1. /\ fire[q].slot \in 1..now /\ fire[q].at \in 1..now
          /\ OnSchedule(fire[q].slot) /\ fire[q].slot = s
      <4>1. Firing(q) /\ fire[q].slot = s
        BY <2>2 DEF Firing, Awaits
      <4> QED
        BY <4>1, CronFacts DEF FireFits
    <3>2. InOrder(q)'
      <4>1. InOrder(q) /\ Firing(q) /\ fire'[q].slot = fire[q].slot
        BY <2>2, <1>10, CronFacts DEF FireFits, Firing, Awaits
      <4> QED
        BY <4>1, <1>1 DEF InOrder
    <3>3. fire'[q].pc = "commit" => Settled(fire[q].slot)'
      BY <2>2, <3>1, <1>10 DEF Settled
    <3> QED
      BY <2>2, <3>1, <3>2, <3>3, <1>1, <1>10 DEF FireFits, Firing, OnSchedule
  <2> QED
    BY <2>1, <2>2
<1>12. FiresOK'
  <2>1. fire' \in [Processes -> Fire]
    <3>1. \A q \in Processes : fire'[q] \in Fire
      BY <1>8, <1>10, CronFacts
    <3> QED
      BY <3>1 DEF RunEnds
  <2>2. LeaseTypeOK'
    BY <1>1, CronFacts DEF LeaseTypeOK
  <2>3. ASSUME NEW q \in Processes
        PROVE  /\ fire'[q].fenced => fire'[q].pc = "claim"
               /\ mode'[q] = "tick" => (fire'[q].pc = "idle" <=> hold'[q] = "none")
    <3>1. CASE ~Awaits(q, s)
      BY <3>1, <1>1, <1>8, CronFacts DEF FiresOK
    <3>2. CASE Awaits(q, s)
      <4>1. fire[q].pc # "idle" /\ fire'[q].pc \notin {"idle", "claim"}
        BY <3>2, <1>10 DEF Awaits
      <4>2. mode'[q] = "tick" => hold'[q] # "none"
        BY <1>1, <4>1, CronFacts DEF FiresOK
      <4> QED
        BY <1>10, <3>2, <4>1, <4>2
    <3> QED
      BY <3>1, <3>2
  <2> QED
    BY <2>1, <2>2, <2>3 DEF FiresOK
<1>13. NoSlotSkipped'
  <2>1. \A t \in Slots : Passed(t)' <=> Passed(t)
    BY <1>1, CursorStays
  <2>2. ASSUME NEW t \in Slots, NEW q \in Processes, Holds(q, t)
        PROVE  Holds(q, t)'
    BY <2>2, <1>1, <1>8, <1>10 DEF Holds, Awaits
  <2> QED
    BY <1>1, <2>1, <2>2 DEF CronInv, NoSlotSkipped
<1> QED
  BY <1>4, <1>6, <1>11, <1>12, <1>13, CronParts

-----------------------------------------------------------------------------
(* Taking up a fire.                                                         *)

(* A process starts a fire that holds no slot it did not already account for.*)
StartsAt(p, pc, slot) ==
    /\ fire[p].pc = "idle"
    /\ fire' \in [Processes -> Fire]
    /\ \A q \in Processes \ {p} : fire'[q] = fire[q]
    /\ fire'[p].pc = pc /\ fire'[p].slot = slot /\ fire'[p].at = now
    /\ fire'[p].fenced = FALSE

(* A new fire is of a slot that came due.                                    *)
LEMMA StartMoves ==
    ASSUME CronInv, NEW p \in Processes, NEW pc \in {"claim", "trigger"},
           NEW slot \in 1..now, OnSchedule(slot), StartsAt(p, pc, slot),
           Grows, now' = now, cron'.next = cron.next, LeaseTypeOK',
           \A q \in Processes \ {p} : hold'[q] = hold[q],
           pc = "claim" => mode[p] = "queue",
           mode[p] = "tick" => hold'[p] # "none" /\ slot = cron.next
    PROVE  FireMoves(p)
<1>1. now \in 1..now
  BY CronFacts
<1>2. FireFits(p)'
  <2>1. ASSUME kind = "calendar", \A q \in Processes : mode[q] = "tick",
               NEW s \in Slots, s % Period = 0, s < slot
        PROVE  s \in done'
    <3>1. Passed(s)
      BY <2>1 DEF Passed
    <3>2. dropped = {} /\ overtaken = {} /\ \A q \in Processes : ~Holds(q, s)
      BY <2>1 DEF CronInv, NoSlotSkipped, Holds
    <3> QED
      BY <3>1, <3>2 DEF CronInv, NoSlotSkipped, Grows
  <2>2. InOrder(p)'
    BY <2>1 DEF InOrder, StartsAt, Grows
  <2> QED
    BY <1>1, <2>2 DEF FireFits, Firing, StartsAt, OnSchedule, Grows
<1>3. KeepsSlots(p)
  <2>1. \A s \in Slots : Passed(s)' <=> Passed(s)
    BY CursorStays DEF Grows
  <2>2. \A s \in Slots : ~Holds(p, s)
    BY DEF Holds, StartsAt
  <2> QED
    BY <2>1, <2>2 DEF KeepsSlots
<1> QED
  BY <1>2, <1>3 DEF FireMoves, StartsAt

(* A step that leaves the fire of p where it is.                             *)
LEMMA RestMoves ==
    ASSUME CronInv, NEW p \in Processes, UNCHANGED fire, Grows,
           cron'.next = cron.next, LeaseTypeOK',
           \A q \in Processes \ {p} : hold'[q] = hold[q],
           mode[p] = "tick" => (hold'[p] = "none" <=> hold[p] = "none")
    PROVE  FireMoves(p)
<1>1. FireFits(p)'
  BY StillFits
<1>2. KeepsSlots(p)
  <2>1. \A s \in Slots : Passed(s)' <=> Passed(s)
    BY CursorStays DEF Grows
  <2>2. \A s \in Slots : Holds(p, s)' <=> Holds(p, s)
    BY DEF Holds, Grows
  <2> QED
    BY <2>1, <2>2 DEF KeepsSlots
<1> QED
  BY <1>1, <1>2, CronFacts DEF FireMoves, FiresOK

(* The later of a slot and the deferral is a time not before the slot.       *)
LEMMA LaterTime ==
    ASSUME CronInv, NEW s \in Slots
    PROVE  Later(s, cron.defer) \in Times /\ s <= Later(s, cron.defer)
<1>1. cron.defer \in Times
  BY CronFacts DEF RowsOK
<1> QED
  BY <1>1, CronAssumption DEF Later, Times, Slots

(* Queued jobs keep to their slots.                                          *)
JobsFit == \A s \in Slots : jobs[s] # 0 => s <= jobs[s]

(* A change of the jobs alone.                                               *)
LEMMA JobsOnly ==
    ASSUME CronInv, jobs' \in [Slots -> Times], JobsFit',
           UNCHANGED <<kind, mode, now, cron, paused, run, turns, outbox,
                       done, refused, withheld, dropped, overtaken, faults>>
    PROVE  RowsOK' /\ RowsFit' /\ Grows
<1>1. RowsOK'
  BY CronFacts DEF RowsOK
<1>2. RowsFit'
  BY CronFacts DEF RowsFit, CursorFits, RunFits, CommittedMeansReplied,
     OnSchedule, JobsFit
<1> QED
  BY <1>1, <1>2, CronFacts DEF Grows, LossesFit

(* enqueueNext() keeps to the slots.                                         *)
LEMMA EnqueueFits ==
    ASSUME CronInv, NEW p \in Processes, EnqueueNext(p)
    PROVE  jobs' \in [Slots -> Times] /\ JobsFit'
<1>1. jobs \in [Slots -> Times] /\ JobsFit /\ cron.next \in Times
  BY CronFacts DEF RowsOK, RowsFit, CursorFits, JobsFit
<1>2. CASE jobs' = jobs
  BY <1>1, <1>2 DEF JobsFit
<1>3. CASE cron.next # 0 /\ jobs' = WithJob(cron.next)
  <2>1. cron.next \in Slots
    BY <1>1, <1>3, CronAssumption DEF Times, Slots
  <2>2. PICK t \in Times : t = Later(cron.next, cron.defer) /\ cron.next <= t
    BY <2>1, LaterTime
  <2>3. jobs' = jobs \/ jobs' = [jobs EXCEPT ![cron.next] = t]
    BY <1>3, <2>2 DEF WithJob
  <2> QED
    BY <1>1, <2>1, <2>2, <2>3 DEF JobsFit
<1> QED
  BY <1>2, <1>3 DEF EnqueueNext

(* A reconcile tick of the queue.                                            *)
LEMMA ReconcileStep ==
    ASSUME CronInv, NEW p \in Processes, Reconcile(p) PROVE CronInv'
<1>1. /\ UNCHANGED <<holder, hold, kind, mode, now, cron, fire, paused, run,
                     turns, outbox, done, refused, withheld, dropped,
                     overtaken, faults>>
  BY DEF Reconcile, leaseVars, resultVars, lossVars
<1>2. RowsOK' /\ RowsFit' /\ Grows
  BY <1>1, EnqueueFits, JobsOnly DEF Reconcile
<1>3. LeaseTypeOK'
  BY <1>1, CronFacts DEF LeaseTypeOK
<1>4. FireMoves(p)
  BY <1>1, <1>2, <1>3, RestMoves
<1> QED
  BY <1>2, <1>4, StepDone

(* A job is dropped, put off, or taken to the claim of its slot.             *)
LEMMA TakeJobStep ==
    ASSUME CronInv, NEW p \in Processes, NEW s \in Slots, TakeJob(p, s)
    PROVE  CronInv'
<1>1. /\ UNCHANGED <<holder, hold, kind, mode, now, cron, paused, run, turns,
                     outbox, done, refused, withheld, dropped, overtaken,
                     faults>>
      /\ mode[p] = "queue" /\ fire[p].pc = "idle"
      /\ jobs[s] # 0 /\ jobs[s] <= now
  BY DEF TakeJob, leaseVars, resultVars, lossVars
<1>2. jobs \in [Slots -> Times] /\ JobsFit /\ 0 \in Times
  BY CronFacts DEF RowsOK, RowsFit, CursorFits, JobsFit, Times
<1>3. jobs' \in [Slots -> Times] /\ JobsFit'
  <2>1. PICK t \in Times : t = Later(s, cron.defer) /\ s <= t
    BY LaterTime
  <2>2. jobs' = [jobs EXCEPT ![s] = t] \/ jobs' = [jobs EXCEPT ![s] = 0]
    BY <2>1 DEF TakeJob
  <2> QED
    BY <1>2, <2>1, <2>2 DEF JobsFit
<1>4. RowsOK' /\ RowsFit' /\ Grows
  BY <1>1, <1>3, JobsOnly
<1>5. LeaseTypeOK'
  BY <1>1, CronFacts DEF LeaseTypeOK
<1>6. FireMoves(p)
  <2>1. CASE UNCHANGED fire
    BY <2>1, <1>1, <1>4, <1>5, RestMoves
  <2>2. CASE /\ Claimable(s)
             /\ Becomes(p, [Idle EXCEPT !.pc = "claim", !.slot = s,
                                        !.at = now, !.prior = cron.last])
    <3>1. s \in 1..now
      <4>1. jobs[s] \in Nat /\ s <= jobs[s] /\ s \in Nat /\ s >= 1
        BY <1>1, <1>2, CronAssumption DEF JobsFit, Times, Slots
      <4> QED
        BY <1>1, <4>1, CronFacts
    <3>2. OnSchedule(s)
      BY <2>2, <3>1, CronFacts DEF Claimable, RowsFit, CursorFits
    <3>3. s \in Times /\ now \in Times /\ cron.last \in Times
      BY CronFacts DEF RowsOK, Times, Slots
    <3>4. StartsAt(p, "claim", s)
      <4> DEFINE w == [Idle EXCEPT !.pc = "claim", !.slot = s,
                                   !.at = now, !.prior = cron.last]
      <4>1. /\ w \in Fire /\ w.pc = "claim" /\ w.slot = s /\ w.at = now
            /\ w.fenced = FALSE
        BY <3>3 DEF Idle, Fire
      <4>2. Becomes(p, w)
        BY <2>2
      <4> HIDE DEF w
      <4> QED
        BY <1>1, <4>1, <4>2, CronFacts DEF StartsAt, Becomes
    <3> QED
      BY <1>1, <1>4, <1>5, <3>1, <3>2, <3>4, StartMoves
  <2> QED
    BY <2>1, <2>2 DEF TakeJob
<1> QED
  BY <1>4, <1>6, StepDone

(* A tick finds the cron due.                                                *)
LEMMA TickDueStep ==
    ASSUME CronInv, NEW p \in Processes, TickDue(p) PROVE CronInv'
<1>1. RowsStill
  BY FaultsBounded, CronFacts
     DEF TickDue, RowsStill, LossesFit, resultVars, lossVars, NoFault
<1>2. Grows /\ RowsOK' /\ RowsFit' /\ now' = now /\ cron'.next = cron.next
  BY <1>1, StillGrows
<1>3. /\ LeaseTypeOK' /\ \A q \in Processes \ {p} : hold'[q] = hold[q]
      /\ hold'[p] # "none"
  BY CronFacts DEF TickDue, TryLock, LeaseTypeOK
<1>4. cron.next \in 1..now /\ OnSchedule(cron.next) /\ mode[p] = "tick"
      /\ cron.next \in Times
  <2>1. cron.next \in Times
    BY CronFacts DEF RowsOK
  <2>2. cron.next # 0 /\ now >= cron.next /\ mode[p] = "tick"
    BY DEF TickDue
  <2> QED
    BY <2>1, <2>2, CronFacts DEF Times, RowsFit, CursorFits
<1>5. StartsAt(p, "trigger", cron.next)
  <2> DEFINE w == [Idle EXCEPT !.pc = "trigger", !.slot = cron.next, !.at = now]
  <2>1. now \in Times /\ 0 \in Times
    BY CronFacts DEF Times
  <2>2. /\ w \in Fire /\ w.pc = "trigger" /\ w.slot = cron.next /\ w.at = now
        /\ w.fenced = FALSE
    BY <1>4, <2>1 DEF Idle, Fire
  <2>3. Becomes(p, w) /\ fire[p].pc = "idle"
    BY DEF TickDue
  <2> HIDE DEF w
  <2> QED
    BY <2>2, <2>3, CronFacts DEF StartsAt, Becomes
<1>6. FireMoves(p)
  BY <1>2, <1>3, <1>4, <1>5, StartMoves
<1> QED
  BY <1>2, <1>6, StepDone

-----------------------------------------------------------------------------
(* The steps that change the cron's row.                                     *)

(* A change of the row and of the jobs it has queued.                        *)
LEMMA RowOnly ==
    ASSUME CronInv,
           cron' \in [enabled : BOOLEAN, next : Times, last : Times,
                      defer : Times],
           cron'.next # 0 => OnSchedule(cron'.next),
           jobs' \in [Slots -> Times], JobsFit',
           dropped' \subseteq Slots, dropped \subseteq dropped',
           overtaken' \subseteq Slots, overtaken \subseteq overtaken',
           LossesFit,
           UNCHANGED <<kind, mode, now, paused, run, turns, outbox, done,
                       refused, withheld, faults>>
    PROVE  RowsOK' /\ RowsFit' /\ Grows
<1>1. RowsOK'
  BY CronFacts DEF RowsOK
<1>2. RowsFit'
  BY CronFacts DEF RowsFit, CursorFits, RunFits, CommittedMeansReplied,
     OnSchedule, JobsFit
<1> QED
  BY <1>1, <1>2, CronFacts DEF Grows

(* The jobs, unchanged.                                                      *)
LEMMA JobsStill ==
    ASSUME CronInv, UNCHANGED jobs PROVE jobs' \in [Slots -> Times] /\ JobsFit'
  BY CronFacts DEF RowsOK, RowsFit, CursorFits, JobsFit

(* The claim of a slot moves the cursor to the next instant of the schedule, *)
(* and past no other.                                                        *)
LEMMA ClaimMovesOn ==
    ASSUME CronInv, NEW slot \in 1..now, NEW at \in 1..now, OnSchedule(slot)
    PROVE  /\ Claimed(slot, at) \in [enabled : BOOLEAN, next : Times,
                                     last : Times, defer : Times]
           /\ Claimed(slot, at).next = NextFire(slot, at)
           /\ NextFire(slot, at) # 0 => OnSchedule(NextFire(slot, at))
           /\ \A s \in Slots :
                /\ kind = "calendar" /\ s % Period = 0
                   /\ slot <= s /\ s < NextFire(slot, at) => s = slot
                /\ kind = "oneshot" /\ s = Period => s = slot
<1>1. /\ slot \in Nat /\ at \in Nat /\ slot <= MaxTime /\ at <= MaxTime
      /\ Period \in Nat \ {0} /\ MaxTime \in Nat
  BY CronFacts
<1>2. NextFire(slot, at) \in Times /\ at \in Times /\ 0 \in Times
  BY <1>1, CronFacts DEF NextFire, Times
<1>3. /\ Claimed(slot, at) \in [enabled : BOOLEAN, next : Times,
                                last : Times, defer : Times]
      /\ Claimed(slot, at).next = NextFire(slot, at)
  BY <1>2, CronFacts DEF Claimed, RowsOK
<1>4. CASE kind = "calendar"
  <2>1. NextFire(slot, at) = slot + Period /\ slot % Period = 0
    BY <1>4 DEF NextFire, OnSchedule
  <2>2. /\ (slot + Period) % Period = 0
        /\ \A t \in Nat : t % Period = 0 /\ slot <= t /\ t < slot + Period
                            => t = slot
    BY <1>1, <2>1, Multiples
  <2>3. Slots \subseteq Nat
    BY <1>1 DEF Slots
  <2> QED
    BY <1>3, <1>4, <2>1, <2>2, <2>3 DEF OnSchedule
<1>5. CASE kind = "interval"
  BY <1>3, <1>5 DEF OnSchedule
<1>6. CASE kind = "oneshot"
  BY <1>3, <1>6 DEF NextFire, OnSchedule
<1> QED
  BY <1>4, <1>5, <1>6, CronFacts

(* claimSlot(): the slot that the cursor leaves behind is held.              *)
LEMMA ClaimSlotStep ==
    ASSUME CronInv, NEW p \in Processes, ClaimSlot(p) PROVE CronInv'
<1> DEFINE w == fire[p]
<1>1. /\ UNCHANGED <<holder, hold, kind, mode, now, jobs, paused, run, turns,
                     outbox, done, refused, withheld, dropped, overtaken,
                     faults>>
      /\ w.pc = "claim" /\ w \in Fire
  BY CronFacts DEF ClaimSlot, leaseVars, resultVars, lossVars
<1>2. /\ w.slot \in 1..now /\ w.at \in 1..now /\ OnSchedule(w.slot)
      /\ mode[p] = "queue"
  BY <1>1, CronFacts DEF FireFits, Firing
<1>3. LeaseTypeOK' /\ \A q \in Processes : hold'[q] = hold[q]
  BY <1>1, CronFacts DEF LeaseTypeOK
<1>4. CASE /\ Claimable(w.slot)
           /\ cron' = Claimed(w.slot, w.at)
           /\ Becomes(p, [w EXCEPT !.pc = IF w.fenced THEN "unclaim"
                                          ELSE "trigger", !.fenced = FALSE])
  <2>1. /\ cron' \in [enabled : BOOLEAN, next : Times, last : Times,
                      defer : Times]
        /\ cron'.next = NextFire(w.slot, w.at)
        /\ cron'.next # 0 => OnSchedule(cron'.next)
    BY <1>2, <1>4, ClaimMovesOn
  <2>2. RowsOK' /\ RowsFit' /\ Grows
    BY <1>1, <2>1, JobsStill, RowOnly, CronFacts DEF LossesFit
  <2>3. /\ fire' \in [Processes -> Fire]
        /\ \A q \in Processes \ {p} : fire'[q] = fire[q]
        /\ fire'[p].pc \in {"unclaim", "trigger"}
        /\ fire'[p].slot = w.slot /\ fire'[p].at = w.at
        /\ fire'[p].fenced = FALSE
    <3> DEFINE v == [w EXCEPT !.pc = IF w.fenced THEN "unclaim" ELSE "trigger",
                              !.fenced = FALSE]
    <3>1. /\ v \in Fire /\ v.pc \in {"unclaim", "trigger"} /\ v.slot = w.slot
          /\ v.at = w.at /\ v.fenced = FALSE
      BY <1>1 DEF Fire
    <3>2. Becomes(p, v)
      BY <1>4
    <3> HIDE DEF v
    <3> QED
      BY <3>1, <3>2, CronFacts DEF Becomes
  <2>4. FireFits(p)'
    BY <1>1, <1>2, <2>3 DEF FireFits, Firing, OnSchedule, InOrder
  <2>5. KeepsSlots(p)
    <3>1. cron.next = w.slot /\ cron.next \in Nat
      BY <1>2, <1>4, CronFacts DEF Claimable
    <3>2. \A s \in Slots : ~Holds(p, s)
      BY <1>1 DEF Holds
    <3>3. ASSUME NEW s \in Slots, Passed(s)', ~Passed(s) PROVE s = w.slot
      <4>1. CASE kind = "calendar" /\ s % Period = 0 /\ s < cron'.next
                 /\ ~(s < cron.next)
        <5>1. s \in Nat /\ w.slot <= s
          BY <3>1, <4>1, CronFacts DEF Slots
        <5> QED
          BY <4>1, <5>1, <2>1, <1>2, ClaimMovesOn
      <4>2. CASE kind = "oneshot" /\ s = Period
        BY <4>2, <1>2, ClaimMovesOn
      <4> QED
        BY <1>1, <3>3, <4>1, <4>2 DEF Passed
    <3>4. ASSUME NEW s \in Slots, s = w.slot PROVE Holds(p, s)'
      BY <1>1, <1>2, <2>3, <3>4 DEF Holds
    <3> QED
      BY <3>2, <3>3, <3>4 DEF KeepsSlots
  <2>6. FireMoves(p)
    BY <1>2, <1>3, <2>2, <2>3, <2>4, <2>5, <1>1 DEF FireMoves
  <2> QED
    BY <2>2, <2>6, StepDone
<1>5. CASE Becomes(p, Idle) /\ UNCHANGED cron
  <2>1. RowsStill
    BY <1>1, <1>5, CronFacts DEF RowsStill, LossesFit
  <2>2. Grows /\ RowsOK' /\ RowsFit' /\ now' = now /\ cron'.next = cron.next
    BY <2>1, StillGrows
  <2>3. StopsAt(p, "idle")
    BY <1>5, Stops
  <2>4. StopsThere(p, "idle")
    BY <1>1, <1>2, <1>3, <2>2, <2>3 DEF StopsThere, Holds
  <2>5. FireMoves(p)
    BY <2>4, StopMoves
  <2> QED
    BY <2>2, <2>5, StepDone
<1> QED
  BY <1>4, <1>5 DEF ClaimSlot

(* defer() leaves the cursor where it is.                                    *)
LEMMA DeferStep ==
    ASSUME CronInv, NEW p \in Processes, Defer(p) PROVE CronInv'
<1>1. /\ UNCHANGED <<holder, hold, kind, mode, now, jobs, paused, run, turns,
                     outbox, done, refused, withheld, dropped, overtaken,
                     faults>>
      /\ fire[p].pc = "defer"
  BY DEF Defer, leaseVars, resultVars, lossVars
<1>2. Sooner(now + DeferMs, MaxTime) \in Times
  BY CronAssumption, CronFacts DEF Sooner, Times
<1>3. /\ cron' \in [enabled : BOOLEAN, next : Times, last : Times,
                    defer : Times]
      /\ cron'.next = cron.next
  BY <1>2, CronFacts DEF Defer, RowsOK
<1>4. cron'.next # 0 => OnSchedule(cron'.next)
  BY <1>3, CronFacts DEF RowsFit, CursorFits
<1>5. RowsOK' /\ RowsFit' /\ Grows
  BY <1>1, <1>3, <1>4, JobsStill, RowOnly, CronFacts DEF LossesFit
<1>6. FireMoves(p)
  BY <1>1, <1>3, <1>5, EndedMoves DEF Defer, Firing
<1> QED
  BY <1>5, <1>6, StepDone

(* setEnabled(false) leaves the cursor where it is.                          *)
LEMMA DisableStep ==
    ASSUME CronInv, NEW p \in Processes, Disable(p) PROVE CronInv'
<1>1. /\ UNCHANGED <<holder, hold, kind, mode, now, jobs, paused, run, turns,
                     outbox, done, refused, withheld, dropped, overtaken,
                     faults>>
      /\ fire[p].pc = "disable" /\ Firing(p)
  BY DEF Disable, leaseVars, resultVars, lossVars, Firing
<1>2. /\ cron' \in [enabled : BOOLEAN, next : Times, last : Times,
                    defer : Times]
      /\ cron'.next = cron.next
  BY CronFacts DEF Disable, RowsOK
<1>3. cron'.next # 0 => OnSchedule(cron'.next)
  BY <1>2, CronFacts DEF RowsFit, CursorFits
<1>4. RowsOK' /\ RowsFit' /\ Grows
  BY <1>1, <1>2, <1>3, JobsStill, RowOnly, CronFacts DEF LossesFit
<1>5. CASE fire[p].outcome = "authz"
  <2>1. FireMoves(p)
    BY <1>1, <1>2, <1>4, <1>5, EndedMoves DEF Disable
  <2> QED
    BY <1>4, <2>1, StepDone
<1>6. CASE fire[p].outcome # "authz"
  <2>1. fire[p].slot \in done'
    BY <1>1, <1>6, CronFacts DEF FireFits
  <2>2. GoesTo(p, "advance")
    BY <1>6, Goes DEF Disable, Pcs
  <2>3. GoesOn(p, "advance")
    BY <1>1, <1>2, <1>4, <2>1, <2>2 DEF GoesOn
  <2>4. FireMoves(p)
    BY <2>3, GoesMoves DEF Pcs
  <2> QED
    BY <1>4, <2>4, StepDone
<1> QED
  BY <1>5, <1>6

(* unclaimSlot(): the slot is the cursor's again, or dropped.                *)
LEMMA UnclaimStep ==
    ASSUME CronInv, NEW p \in Processes, Unclaim(p) PROVE CronInv'
<1> DEFINE w == fire[p]
<1>1. /\ UNCHANGED <<holder, hold, kind, mode, now, jobs, paused, run, turns,
                     outbox, done, refused, withheld, overtaken, faults>>
      /\ w.pc = "unclaim" /\ w \in Fire
  BY CronFacts DEF Unclaim, leaseVars, resultVars, lossVars
<1>2. /\ w.slot \in 1..now /\ OnSchedule(w.slot) /\ mode[p] = "queue"
      /\ w.slot \in Slots /\ w.slot \in Times /\ w.prior \in Times
  BY <1>1, CronFacts DEF FireFits, Firing, Slots, Times, Fire
<1>3. LeaseTypeOK' /\ \A q \in Processes : hold'[q] = hold[q]
  BY <1>1, CronFacts DEF LeaseTypeOK
<1>4. /\ dropped' \subseteq Slots /\ dropped \subseteq dropped'
      /\ cron.last # w.at /\ Passed(w.slot) => w.slot \in dropped'
      /\ cron.last = w.at => PassedOver(w.slot) \subseteq dropped'
  BY <1>2, CronFacts DEF Unclaim, PassedOver
<1>5. /\ cron' \in [enabled : BOOLEAN, next : Times, last : Times,
                    defer : Times]
      /\ cron.last = w.at => cron'.next = w.slot
      /\ cron.last # w.at => cron'.next = cron.next
  BY <1>2, CronFacts DEF Unclaim, Unclaimed, RowsOK
<1>6. cron'.next # 0 => OnSchedule(cron'.next)
  BY <1>2, <1>5, CronFacts DEF RowsFit, CursorFits
<1>7. RowsOK' /\ RowsFit' /\ Grows
  BY <1>1, <1>2, <1>4, <1>5, <1>6, JobsStill, RowOnly, CronFacts DEF LossesFit
<1>8. /\ fire' \in [Processes -> Fire]
      /\ \A q \in Processes \ {p} : fire'[q] = fire[q]
      /\ fire'[p].fenced = FALSE
      /\ \/ fire'[p].pc = "idle"
         \/ fire'[p].pc = "advance" /\ fire'[p].slot = w.slot
            /\ fire'[p].at = w.at
  <2>1. CASE Becomes(p, Idle)
    BY <2>1, Stops DEF StopsAt
  <2>2. CASE Becomes(p, At(w, "advance"))
    <3>1. GoesTo(p, "advance")
      BY <2>2, Goes DEF Pcs
    <3>2. w.fenced = FALSE
      BY <1>1, CronFacts DEF Fire
    <3> QED
      BY <3>1, <3>2 DEF GoesTo
  <2> QED
    BY <2>1, <2>2 DEF Unclaim
<1>9. FireFits(p)'
  <2>1. w.at \in 1..now
    BY <1>1, CronFacts DEF FireFits, Firing
  <2> QED
    BY <1>1, <1>2, <1>8, <2>1 DEF FireFits, Firing, OnSchedule, InOrder
<1>10. KeepsSlots(p)
  <2>1. ASSUME NEW s \in Slots, Holds(p, s)
        PROVE  s \in dropped' \/ ~Passed(s)'
    <3>1. s = w.slot /\ s \in Nat
      BY <2>1, <1>2, CronFacts DEF Holds
    <3>2. CASE cron.last = w.at
      BY <1>1, <1>2, <1>5, <3>1, <3>2 DEF Passed, OnSchedule
    <3>3. CASE cron.last # w.at
      BY <1>1, <1>4, <1>5, <3>1, <3>3 DEF Passed
    <3> QED
      BY <3>2, <3>3
  <2>2. ASSUME NEW s \in Slots, Passed(s)', ~Passed(s)
        PROVE  s \in (done \cup dropped)'
    <3>1. CASE cron.last = w.at
      <4>1. s \in Nat /\ cron.next \in Nat /\ w.slot \in Nat
        BY <1>2, CronFacts DEF Slots, RowsOK, Times
      <4>2. /\ kind = "calendar" /\ s % Period = 0
            /\ s < w.slot /\ cron.next <= s
        BY <1>1, <1>2, <1>5, <2>2, <3>1, <4>1 DEF Passed, OnSchedule
      <4> QED
        BY <1>1, <1>4, <3>1, <4>2 DEF PassedOver
    <3>2. CASE cron.last # w.at
      BY <1>1, <1>5, <2>2, <3>2 DEF Passed
    <3> QED
      BY <3>1, <3>2
  <2> QED
    BY <2>1, <2>2 DEF KeepsSlots
<1>11. FireMoves(p)
  BY <1>2, <1>3, <1>7, <1>8, <1>9, <1>10 DEF FireMoves
<1> QED
  BY <1>7, <1>11, StepDone

(* markFired() after a tick passes over what it drops, enqueueNext() after a *)
(* job passes over nothing.                                                  *)
LEMMA AdvanceStep ==
    ASSUME CronInv, NEW p \in Processes, Advance(p) PROVE CronInv'
<1> DEFINE w == fire[p]
<1>1. /\ UNCHANGED <<holder, hold, kind, mode, now, paused, run, turns,
                     outbox, done, refused, withheld, dropped, faults>>
      /\ w.pc = "advance" /\ w \in Fire
  BY CronFacts DEF Advance, leaseVars, resultVars, lossVars
<1>2. w.slot \in 1..now /\ w.at \in 1..now /\ OnSchedule(w.slot)
  BY <1>1, CronFacts DEF FireFits, Firing
<1>3. LeaseTypeOK' /\ \A q \in Processes : hold'[q] = hold[q]
  BY <1>1, CronFacts DEF LeaseTypeOK
<1>4. \A s \in Slots : ~Holds(p, s)
  BY <1>1 DEF Holds
<1>5. CASE mode[p] = "tick"
  <2>1. /\ cron' = Claimed(w.slot, w.at) /\ UNCHANGED jobs
        /\ overtaken' = overtaken \cup PassedOver(w.slot)
        /\ StopsAt(p, "end")
    BY <1>5, Stops DEF Advance
  <2>2. /\ cron' \in [enabled : BOOLEAN, next : Times, last : Times,
                      defer : Times]
        /\ cron'.next = NextFire(w.slot, w.at)
        /\ cron'.next # 0 => OnSchedule(cron'.next)
    BY <1>2, <2>1, ClaimMovesOn
  <2>3. /\ overtaken' \subseteq Slots /\ overtaken \subseteq overtaken'
        /\ LossesFit
    <3>1. overtaken' \subseteq Slots /\ overtaken \subseteq overtaken'
      BY <2>1, CronFacts DEF PassedOver
    <3>2. ASSUME NEW s \in PassedOver(w.slot)
          PROVE  \E q \in Processes : mode[q] # mode[p]
      <4>1. /\ kind = "calendar" /\ s \in Slots /\ s \notin done
            /\ s % Period = 0 /\ s < w.slot
        BY <3>2 DEF PassedOver
      <4>2. ~ \A q \in Processes : mode[q] = "tick"
        BY <1>1, <4>1, CronFacts DEF FireFits, InOrder, Firing, Slots
      <4> QED
        BY <4>2, <1>5
    <3> QED
      BY <1>1, <2>1, <3>1, <3>2 DEF LossesFit
  <2>4. RowsOK' /\ RowsFit' /\ Grows
    BY <1>1, <2>1, <2>2, <2>3, JobsStill, RowOnly, CronFacts
  <2>5. hold'[p] # "none"
    BY <1>1, <1>3, <1>5, CronFacts DEF FiresOK
  <2>6. FireFits(p)'
    BY <1>1, <1>5, <2>1 DEF FireFits, Firing, InOrder, StopsAt
  <2>7. w.slot \in done
    BY <1>1, <1>5, CronFacts DEF FireFits
  <2>8. ASSUME NEW s \in Slots, Passed(s)', ~Passed(s), s # w.slot, s \notin done
        PROVE  s \in overtaken'
    <3>1. s \in Nat /\ cron.next \in Nat /\ w.slot \in Nat
      BY <1>2, CronFacts DEF Slots, RowsOK, Times
    <3>2. kind # "oneshot"
      BY <1>1, <1>2, <2>8 DEF Passed, OnSchedule
    <3>3. /\ kind = "calendar" /\ s % Period = 0 /\ s < cron'.next
          /\ ~(s < cron.next)
      BY <1>1, <2>8, <3>2 DEF Passed
    <3>4. s < w.slot
      <4>1. w.slot <= s => s = w.slot
        BY <3>3, <2>2, <1>2, ClaimMovesOn
      <4> QED
        BY <4>1, <3>1, <2>8
    <3> QED
      BY <2>1, <2>8, <3>1, <3>3, <3>4 DEF PassedOver
  <2>9. KeepsSlots(p)
    BY <1>1, <1>4, <2>7, <2>8 DEF KeepsSlots
  <2>10. FireMoves(p)
    BY <1>3, <2>1, <2>4, <2>5, <2>6, <2>9 DEF FireMoves, StopsAt
  <2> QED
    BY <2>4, <2>10, StepDone
<1>6. CASE mode[p] # "tick"
  <2>1. /\ EnqueueNext(p) /\ UNCHANGED <<cron, overtaken>>
        /\ StopsAt(p, "idle")
    BY <1>6, Stops DEF Advance
  <2>2. RowsOK' /\ RowsFit' /\ Grows
    BY <1>1, <2>1, EnqueueFits, JobsOnly
  <2>3. StopsThere(p, "idle")
    BY <1>1, <1>3, <1>4, <1>6, <2>1, <2>2 DEF StopsThere
  <2>4. FireMoves(p)
    BY <2>3, StopMoves
  <2> QED
    BY <2>2, <2>4, StepDone
<1> QED
  BY <1>5, <1>6

-----------------------------------------------------------------------------
(* The lease guard and the environment.                                      *)

(* The guard takes and drops the lease of a process in mode "queue", and a   *)
(* hold() that lost its session does not end by that.                        *)
LEMMA LeaseStep ==
    ASSUME CronInv, NEW p \in Processes,
           GuardTake(p) \/ GuardDrop(p) \/ CutLease(p) \/ NoticeLoss(p)
    PROVE  CronInv'
<1>1. RowsStill /\ UNCHANGED fire
  <2>1. faults' \in 0..MaxFaults
    BY FaultsBounded DEF GuardTake, GuardDrop, CutLease, NoticeLoss, NoFault
  <2> QED
    BY <2>1, CronFacts
       DEF GuardTake, GuardDrop, CutLease, NoticeLoss, RowsStill, LossesFit,
           resultVars, lossVars
<1>2. Grows /\ RowsOK' /\ RowsFit' /\ now' = now /\ cron'.next = cron.next
  BY <1>1, StillGrows
<1>3. LeaseTypeOK' /\ \A q \in Processes \ {p} : hold'[q] = hold[q]
  BY CronFacts DEF GuardTake, GuardDrop, CutLease, NoticeLoss, TryLock, Unlock,
     SessionCut, LossNoticed, Freed, LeaseTypeOK
<1>4. mode[p] = "tick" => (hold'[p] = "none" <=> hold[p] = "none")
  BY CronFacts DEF GuardTake, GuardDrop, CutLease, NoticeLoss, SessionCut,
     LossNoticed, LeaseTypeOK
<1>5. FireMoves(p)
  BY <1>1, <1>2, <1>3, <1>4, RestMoves
<1> QED
  BY <1>2, <1>5, StepDone

(* Only a fire about to claim is fenced.                                     *)
LEMMA PauseStep ==
    ASSUME CronInv, NEW p \in Processes, Pause(p) PROVE CronInv'
<1>1. /\ UNCHANGED <<holder, hold, kind, mode, now, cron, jobs, run, turns,
                     outbox, done, refused, withheld, dropped, overtaken>>
      /\ paused' = {p} /\ faults' \in 0..MaxFaults
  BY FaultsBounded DEF Pause, leaseVars, resultVars, lossVars
<1>2. RowsOK'
  BY <1>1, CronFacts DEF RowsOK
<1>3. RowsFit'
  BY <1>1, CronFacts
     DEF RowsFit, CursorFits, RunFits, CommittedMeansReplied, OnSchedule
<1>4. Grows
  BY <1>1, CronFacts DEF Grows, LossesFit
<1>5. LeaseTypeOK'
  BY <1>1, CronFacts DEF LeaseTypeOK
<1>6. /\ fire' \in [Processes -> Fire]
      /\ \A q \in Processes \ {p} : fire'[q] = fire[q]
      /\ fire'[p].pc = fire[p].pc /\ fire'[p].slot = fire[p].slot
      /\ fire'[p].at = fire[p].at /\ fire'[p].outcome = fire[p].outcome
      /\ fire'[p].fenced => fire[p].fenced \/ fire[p].pc = "claim"
  <2> DEFINE b == fire[p].fenced \/ fire[p].pc = "claim"
             v == [fire[p] EXCEPT !.fenced = b]
  <2>1. fire[p] \in Fire /\ b \in BOOLEAN
    BY CronFacts
  <2>2. fire' = [fire EXCEPT ![p] = v]
    BY CronFacts DEF Pause
  <2> HIDE DEF b
  <2>3. /\ v \in Fire /\ v.pc = fire[p].pc /\ v.slot = fire[p].slot
        /\ v.at = fire[p].at /\ v.outcome = fire[p].outcome /\ v.fenced = b
    BY <2>1 DEF Fire
  <2> HIDE DEF v
  <2> QED
    BY <2>2, <2>3, CronFacts DEF b
<1>7. FireFits(p)'
  <2>1. Firing(p)' <=> Firing(p)
    BY <1>6 DEF Firing
  <2>2. InOrder(p)'
    BY <2>1, <1>1, <1>6, CronFacts DEF FireFits, InOrder
  <2>3. fire'[p].pc = "commit" => Settled(fire[p].slot)'
    <3>1. Settled(fire[p].slot)' <=> Settled(fire[p].slot)
      BY <1>1, <1>6 DEF Settled
    <3>2. fire[p].pc = "commit" => Settled(fire[p].slot)
      BY CronFacts DEF FireFits
    <3> QED
      BY <1>6, <3>1, <3>2
  <2>4. Firing(p)' => /\ fire'[p].slot \in 1..now' /\ fire'[p].at \in 1..now'
    BY <2>1, <1>1, <1>6, CronFacts DEF FireFits
  <2>5. Firing(p)' => OnSchedule(fire[p].slot)'
    BY <2>1, <1>1, <1>6, CronFacts DEF FireFits, OnSchedule
  <2>6. /\ fire'[p].pc \in {"claim", "unclaim"} => mode'[p] = "queue"
        /\ fire'[p].pc = "end" => mode'[p] = "tick"
        /\ fire'[p].pc = "advance" /\ mode'[p] = "tick" => fire'[p].slot \in done'
        /\ fire'[p].pc = "disable" /\ fire'[p].outcome # "authz" =>
             fire'[p].slot \in done'
    BY <1>1, <1>6, CronFacts DEF FireFits
  <2> QED
    BY <2>2, <2>3, <2>4, <2>5, <2>6, <1>6 DEF FireFits
<1>8. KeepsSlots(p)
  <2>1. \A s \in Slots : Passed(s)' <=> Passed(s)
    BY <1>1, CursorStays
  <2>2. \A s \in Slots : Holds(p, s)' <=> Holds(p, s)
    BY <1>1, <1>6 DEF Holds
  <2> QED
    BY <2>1, <2>2 DEF KeepsSlots
<1>9. FireMoves(p)
  BY <1>1, <1>4, <1>5, <1>6, <1>7, <1>8, CronFacts DEF FireMoves, FiresOK
<1> QED
  BY <1>2, <1>3, <1>9, StepDone

(* A process claims again.                                                   *)
LEMMA ResumeStep ==
    ASSUME CronInv, NEW p \in Processes, Resume(p) PROVE CronInv'
<1>1. /\ UNCHANGED <<holder, hold, kind, mode, now, cron, jobs, fire, run,
                     turns, outbox, done, refused, withheld, dropped,
                     overtaken, faults>>
      /\ paused' \subseteq paused
  BY DEF Resume, leaseVars, resultVars, lossVars
<1>2. RowsOK'
  BY <1>1, CronFacts DEF RowsOK
<1>3. RowsFit'
  BY <1>1, CronFacts
     DEF RowsFit, CursorFits, RunFits, CommittedMeansReplied, OnSchedule
<1>4. Grows
  BY <1>1, CronFacts DEF Grows, LossesFit
<1>5. LeaseTypeOK'
  BY <1>1, CronFacts DEF LeaseTypeOK
<1>6. FireMoves(p)
  BY <1>1, <1>4, <1>5, RestMoves
<1> QED
  BY <1>2, <1>3, <1>6, StepDone

(* A crash drops the slot the process held.                                  *)
LEMMA CrashStep ==
    ASSUME CronInv, NEW p \in Processes, Crash(p) PROVE CronInv'
<1>1. RowsStill
  <2>1. dropped' \subseteq Slots /\ dropped \subseteq dropped'
    BY CronFacts DEF Crash
  <2>2. LossesFit
    BY DEF LossesFit, Crash, Holds
  <2> QED
    BY <2>1, <2>2, FaultsBounded, CronFacts DEF Crash, RowsStill, resultVars
<1>2. Grows /\ RowsOK' /\ RowsFit' /\ now' = now /\ cron'.next = cron.next
  BY <1>1, StillGrows
<1>3. /\ LeaseTypeOK' /\ \A q \in Processes \ {p} : hold'[q] = hold[q]
      /\ hold'[p] = "none"
  <2>1. CASE hold[p] = "none"
    BY <2>1, CronFacts DEF Crash, LeaseTypeOK, leaseVars
  <2>2. CASE hold[p] # "none"
    BY <2>2, CronFacts DEF Crash, LeaseTypeOK, Unlock, Freed
  <2> QED
    BY <2>1, <2>2
<1>4. \A s \in Slots : Holds(p, s) /\ Passed(s) => s \in (done \cup dropped)'
  BY DEF Crash, resultVars
<1>5. StopsAt(p, "idle")
  BY Stops DEF Crash
<1>6. StopsThere(p, "idle")
  BY <1>2, <1>3, <1>4, <1>5 DEF StopsThere
<1>7. FireMoves(p)
  BY <1>6, StopMoves
<1> QED
  BY <1>2, <1>7, StepDone

(* Time passes.                                                              *)
LEMMA TickStep ==
    ASSUME CronInv, Tick PROVE CronInv'
<1>1. /\ UNCHANGED <<holder, hold, kind, mode, cron, jobs, fire, paused, run,
                     turns, outbox, done, refused, withheld, dropped,
                     overtaken, faults>>
      /\ now' = now + 1 /\ now < MaxTime
  BY DEF Tick, leaseVars, resultVars, lossVars
<1>2. RowsOK'
  BY <1>1, CronFacts DEF RowsOK
<1>3. RowsFit'
  BY <1>1, CronFacts
     DEF RowsFit, CursorFits, RunFits, CommittedMeansReplied, OnSchedule
<1>4. Grows
  BY <1>1, CronFacts DEF Grows, LossesFit
<1>5. FiresOK'
  BY <1>1, CronFacts DEF FiresOK, LeaseTypeOK
<1>6. ASSUME NEW q \in Processes PROVE FireFits(q)'
  BY <1>1, <1>4, StillFits
<1>7. NoSlotSkipped'
  BY <1>1 DEF CronInv, NoSlotSkipped, Passed, Holds
<1> QED
  BY <1>2, <1>3, <1>5, <1>6, <1>7, CronParts

-----------------------------------------------------------------------------
(* The invariant.                                                            *)

(* CronInv holds in every reachable state.                                   *)
THEOREM CronInvariance == CronSpec => []CronInv
<1>1. CronInit => CronInv
  <2> SUFFICES ASSUME CronInit PROVE CronInv
    OBVIOUS
  <2>1. /\ Period \in Times /\ 0 \in Times /\ 1 \in 1..MaxTime
        /\ 0 \in 0..MaxFaults
    BY CronAssumption DEF Times
  <2>2. CronTypeOK
    <3>1. RowsOK
      <4>1. [kind |-> kind, mode |-> mode] \in Setups
        <5>1. PICK setup \in Setups : kind = setup.kind /\ mode = setup.mode
          BY DEF CronInit
        <5>2. setup \in [kind : {"calendar", "interval", "oneshot"},
                         mode : [Processes -> {"queue", "tick"}]]
          BY CronAssumption
        <5>3. setup = [kind |-> setup.kind, mode |-> setup.mode]
          BY <5>2
        <5> QED
          BY <5>1, <5>3
      <4> QED
        BY <2>1, <4>1 DEF CronInit, RowsOK
    <3>2. FiresOK
      BY IdleShape DEF CronInit, FiresOK, LeaseInit, LeaseTypeOK
    <3> QED
      BY <3>1, <3>2 DEF CronTypeOK, RowsOK, FiresOK
  <2>3. CursorFits
    <3>1. Period % Period = 0
      BY CronAssumption
    <3> QED
      BY <3>1 DEF CronInit, CursorFits, OnSchedule
  <2>4. RunFits /\ CommittedMeansReplied
    BY DEF CronInit, RunFits, CommittedMeansReplied
  <2>5. \A p \in Processes : FireFits(p)
    BY IdleShape DEF CronInit, FireFits, Firing, InOrder
  <2>6. NoSlotSkipped
    <3>1. ASSUME NEW s \in Slots, s % Period = 0, s < Period PROVE FALSE
      <4>1. s \in Nat /\ s >= 1 /\ Period \in Nat \ {0}
        BY CronAssumption DEF Slots
      <4>2. s % Period = s
        BY <3>1, <4>1
      <4> QED
        BY <3>1, <4>1, <4>2
    <3> QED
      BY <3>1 DEF CronInit, NoSlotSkipped, Passed
  <2> QED
    BY <2>2, <2>3, <2>4, <2>5, <2>6 DEF CronInv
<1>2. CronInv /\ [CronNext]_cronVars => CronInv'
  <2> SUFFICES ASSUME CronInv, [CronNext]_cronVars PROVE CronInv'
    OBVIOUS
  <2>1. CASE UNCHANGED cronVars
    <3>1. UNCHANGED <<holder, hold, kind, mode, now, cron, jobs, fire,
                      paused, run, turns, outbox, done, refused, withheld,
                      dropped, overtaken, faults>>
      BY <2>1 DEF cronVars, leaseVars, resultVars, lossVars
    <3>2. CronTypeOK'
      BY <3>1 DEF CronInv, CronTypeOK, LeaseTypeOK
    <3>3. (CursorFits /\ RunFits /\ CommittedMeansReplied /\ NoSlotSkipped)'
      BY <3>1 DEF CronInv, CursorFits, RunFits, CommittedMeansReplied,
         NoSlotSkipped, Passed, Holds, OnSchedule
    <3>4. \A p \in Processes : FireFits(p)'
      BY <3>1 DEF CronInv, FireFits, Firing, OnSchedule, InOrder, Settled
    <3> QED
      BY <3>2, <3>3, <3>4 DEF CronInv
  <2>2. ASSUME NEW p \in Processes, FireStep(p) PROVE CronInv'
    BY <2>2, ClaimSlotStep, TriggerStep, StartRunStep, ReplyStep, CommitStep,
       DeferStep, DisableStep, UnclaimStep, AdvanceStep, TickEndStep DEF FireStep
  <2>3. ASSUME NEW p \in Processes, TakeUp(p) PROVE CronInv'
    BY <2>3, TickDueStep, TakeJobStep DEF TakeUp
  <2> QED
    BY <2>1, <2>2, <2>3, ReconcileStep, TurnThrowsStep, LeaseStep, CrashStep,
       PauseStep, ResumeStep, RunEndsStep, TickStep DEF CronNext
<1> QED
  BY <1>1, <1>2, PTL DEF CronSpec

(* The rows, the fires and the lease keep their shapes.                      *)
THEOREM CronTypeCorrect == CronSpec => []CronTypeOK
  BY CronInvariance, PTL DEF CronInv

(* The turn of a slot runs at most once, whoever fires it and how often.     *)
THEOREM RunsOnceAlways == CronSpec => []RunsOnce
<1>1. CronInv => RunsOnce
  BY DEF CronInv, RunFits, RunsOnce
<1> QED
  BY <1>1, CronInvariance, PTL

(* A committed fire has its reply in the outbox, unless its run had none,    *)
(* there was nowhere to deliver it to, or the slot was given up.             *)
THEOREM CommittedMeansRepliedAlways == CronSpec => []CommittedMeansReplied
  BY CronInvariance, PTL DEF CronInv

(* The cursor leaves behind only slots that are done, in hand, dropped by a  *)
(* queue or, where a tick and a queue work side by side, overtaken.          *)
THEOREM NoSlotSkippedAlways == CronSpec => []NoSlotSkipped
  BY CronInvariance, PTL DEF CronInv

-----------------------------------------------------------------------------
(* The lease.                                                                *)

(* The process that has the advisory lock is the one whose hold() was not    *)
(* cut.                                                                      *)
LeaseInv == LeaseTypeOK /\ \A p \in Processes : holder = p <=> hold[p] = "held"

(* The lock goes with the session: two processes are inside hold() only when *)
(* the session of one of them was cut, whatever uses the lease.              *)
THEOREM OneLeaderAlways == LeaseSpec => []OneLeader
<1> USE LeaderLeaseAssumption
<1>1. LeaseInit => LeaseInv
  BY DEF LeaseInit, LeaseInv, LeaseTypeOK
<1>2. LeaseInv /\ [LeaseNext]_leaseVars => LeaseInv'
  <2> SUFFICES ASSUME LeaseInv, [LeaseNext]_leaseVars PROVE LeaseInv'
    OBVIOUS
  <2> USE DEF LeaseInv, LeaseTypeOK
  <2>1. ASSUME NEW p \in Processes, TryLock(p) PROVE LeaseInv'
    BY <2>1 DEF TryLock
  <2>2. ASSUME NEW p \in Processes, SessionCut(p) PROVE LeaseInv'
    BY <2>2 DEF SessionCut, Freed
  <2>3. ASSUME NEW p \in Processes, LossNoticed(p) PROVE LeaseInv'
    BY <2>3 DEF LossNoticed
  <2>4. ASSUME NEW p \in Processes, Unlock(p) PROVE LeaseInv'
    BY <2>4 DEF Unlock, Freed
  <2>5. CASE UNCHANGED leaseVars
    BY <2>5 DEF leaseVars
  <2> QED
    BY <2>1, <2>2, <2>3, <2>4, <2>5 DEF LeaseNext
<1>3. LeaseInv => OneLeader
  BY DEF LeaseInv, LeaseTypeOK, OneLeader
<1> QED
  BY <1>1, <1>2, <1>3, PTL DEF LeaseSpec

(* The guard of the cron jobs and the ticks take, lose and give back the     *)
(* lease only as hold() does.                                                *)
THEOREM CronUsesLease == CronSpec => LeaseSpec
<1>1. CronInit => LeaseInit
  BY DEF CronInit
<1>2. [CronNext]_cronVars => [LeaseNext]_leaseVars
  <2> SUFFICES ASSUME [CronNext]_cronVars PROVE [LeaseNext]_leaseVars
    OBVIOUS
  <2>1. CASE UNCHANGED cronVars
    BY <2>1 DEF cronVars
  <2>2. ASSUME NEW p \in Processes, FireStep(p)
        PROVE  UNCHANGED leaseVars \/ Unlock(p)
    BY <2>2 DEF FireStep, ClaimSlot, Trigger, StartRun, Reply, Commit, Defer,
       Disable, Unclaim, Advance, TickEnd
  <2>3. ASSUME NEW p \in Processes, TakeUp(p)
        PROVE  UNCHANGED leaseVars \/ TryLock(p)
    BY <2>3 DEF TakeUp, TickDue, TakeJob
  <2>4. ASSUME NEW p \in Processes,
               \/ GuardTake(p) \/ GuardDrop(p) \/ CutLease(p) \/ NoticeLoss(p)
               \/ Crash(p)
        PROVE  \/ UNCHANGED leaseVars
               \/ TryLock(p) \/ SessionCut(p) \/ LossNoticed(p) \/ Unlock(p)
    BY <2>4 DEF GuardTake, GuardDrop, CutLease, NoticeLoss, Crash
  <2>5. ASSUME NEW p \in Processes,
               Reconcile(p) \/ TurnThrows(p) \/ Pause(p) \/ Resume(p)
        PROVE  UNCHANGED leaseVars
    BY <2>5 DEF Reconcile, TurnThrows, Pause, Resume
  <2>6. ASSUME NEW s \in Slots, NEW o \in {"ok", "busy", "mute"}, RunEnds(s, o)
        PROVE  UNCHANGED leaseVars
    BY <2>6 DEF RunEnds
  <2>7. CASE Tick
    BY <2>7 DEF Tick
  <2> QED
    BY <2>1, <2>2, <2>3, <2>4, <2>5, <2>6, <2>7 DEF CronNext, LeaseNext
<1> QED
  BY <1>1, <1>2, PTL DEF CronSpec, LeaseSpec
=============================================================================
