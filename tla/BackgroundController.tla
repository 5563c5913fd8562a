------------------------ MODULE BackgroundController ------------------------
(***************************************************************************)
(* Each process's controller of background work                            *)
(* (src/runs/background-controller.ts, wired up in src/index.ts) against   *)
(* the shared ownership record, with an operator who hands the work over   *)
(* and retires processes that are proved dead.                             *)
(*                                                                         *)
(* reconcile() is one asynchronous pass at a time; a step is one store     *)
(* call with the code that runs, without awaiting, after it.  stop(), the  *)
(* validity watchdog, the claim loop and the drain run beside it.          *)
(*                                                                         *)
(* Faults selects how the environment may misbehave, MaxFaults times:      *)
(*   "lapse"  the validity watchdog fires before the next poll renews it;  *)
(*   "error"  a store call fails without effect;                           *)
(*   "lost"   a store call takes effect but its response is lost;          *)
(*   "crash"  a process dies without a word.                               *)
(***************************************************************************)
EXTENDS BackgroundOwnership

CONSTANTS LegacyEnabled, \* BACKGROUND_WORK_ENABLED of each process
          Faults,        \* the environment's faults, see above
          MaxFaults      \* bound: faults in a behaviour

ASSUME BackgroundControllerAssumption ==
    /\ LegacyEnabled \in [Instances -> {"no", "yes"}]
    /\ Faults \subseteq {"lapse", "error", "lost", "crash"}
    /\ MaxFaults \in Nat

VARIABLES
    ctl,    \* the controller of each process
    work,   \* background work of each process
    drains, \* drained() continuations of each process
    faults  \* faults so far

controllerVars == <<ctl, work, drains, faults>>
bgVars == <<ownershipVars, controllerVars>>

(* pc is the store call reconcile() makes next; "idle" between two passes.   *)
(* admission counts while held; fenced is activation.signal.aborted or an    *)
(* expired validUntil; then is what follows a release: the rest of the pass, *)
(* "last" for the release in the catch block, "exit" for the one of stop().  *)
Controller == [pc : {"new", "idle", "relinquish", "admit", "start", "ready",
                     "dead"},
               running : {"no", "yes"}, held : {"no", "yes"},
               admission : Nat, fenced : {"no", "yes"}, seen : Nat,
               then : {"admit", "idle", "last", "exit"}]

(* A continuation waits for the work to end, then reports drained.           *)
Drain == [generation : Nat, pc : {"waiting", "sent"}]

BgInit ==
    /\ OwnershipInit
    /\ ctl = [i \in Instances |->
                [pc |-> "new", running |-> "yes", held |-> "no",
                 admission |-> 0, fenced |-> "no", seen |-> 0,
                 then |-> "idle"]]
    /\ work = [i \in Instances |-> "none"]
    /\ drains = [i \in Instances |-> {}]
    /\ faults = 0

CanClaim(i) ==
    ctl[i].running = "yes" /\ ctl[i].held = "yes" /\ ctl[i].fenced = "no"

Fault(kind) == kind \in Faults /\ faults < MaxFaults /\ faults' = faults + 1

-----------------------------------------------------------------------------
(* release() fences at once; without an admission there is nothing to give   *)
(* up and the pass goes on.                                                  *)
Releasing(c, then) ==
    IF c.held = "yes"
    THEN [c EXCEPT !.pc = "relinquish", !.fenced = "yes", !.then = then]
    ELSE [c EXCEPT !.pc = "idle", !.fenced = "yes"]

(* The catch block: fence, and try to release once.                          *)
Caught(i) == ctl' = [ctl EXCEPT ![i] = Releasing(@, "last")]

(* A failed store call: without effect, or with its response lost.           *)
Failed(effect) ==
    \/ Fault("error") /\ UNCHANGED ownershipVars
    \/ Fault("lost") /\ effect

(* The process enrolls; enrolling twice changes nothing.                     *)
EnrollOnce(i) ==
    \/ Register(i)
    \/ Enrolled(i) /\ UNCHANGED ownershipVars

Enroll(i) ==
    /\ ctl[i].pc = "new"
    /\ ctl[i].running = "yes"
    /\ \/ /\ EnrollOnce(i)
          /\ ctl' = [ctl EXCEPT ![i].pc = "idle"]
          /\ UNCHANGED faults
       \/ Failed(EnrollOnce(i)) /\ UNCHANGED ctl
    /\ UNCHANGED <<work, drains>>

Desired(i) ==
    /\ ctl[i].running = "yes"
    /\ Enrolled(i)
    /\ IF own.enabled = "yes" THEN own.desired = DeploymentOf[i]
                              ELSE LegacyEnabled[i] = "yes"

(* Mutant of Stale: an admission of an earlier generation is kept.           *)
StaleIgnoringGeneration(i) == ~Desired(i) \/ ctl[i].fenced = "yes"

Stale(i) ==
    \/ ~Desired(i)
    \/ own.generation # ctl[i].admission
    \/ ctl[i].fenced = "yes"

(* A poll reads the record and decides: release, admit, or renew.            *)
Poll(i) ==
    LET c == [ctl[i] EXCEPT !.seen = own.generation] IN
    /\ ctl[i].pc = "idle"
    /\ ctl[i].running = "yes"
    /\ ctl' = [ctl EXCEPT ![i] =
         IF c.held = "yes" /\ Stale(i)
         THEN Releasing(c, IF Desired(i) THEN "admit" ELSE "idle")
         ELSE IF Desired(i) /\ c.held = "no"
              THEN [c EXCEPT !.pc = "admit"] ELSE c]
    /\ UNCHANGED <<ownershipVars, work, drains, faults>>

PollFails(i) ==
    /\ ctl[i].pc = "idle"
    /\ ctl[i].running = "yes"
    /\ Fault("error")
    /\ Caught(i)
    /\ UNCHANGED <<ownershipVars, work, drains>>

(* acknowledge() accepts a repeated report without effect.                   *)
Acknowledged(i, generation, next) ==
    \/ Acknowledge(i, generation, next)
    \/ /\ Enrolled(i)
       /\ member[i].generation = generation
       /\ member[i].state \in {"drained", next}
       /\ UNCHANGED ownershipVars

Refused(i, generation, next) ==
    \/ ~Enrolled(i)
    \/ member[i].generation # generation
    \/ next = "drained" /\ member[i].state = "admitted"

(* Mutant of ClaimsJoined: the release does not wait for claims in flight.   *)
ClaimsNotJoined(i) == TRUE

ClaimsJoined(i) == work[i] # "claiming"

(* release() after its fence: the claim loops are joined (relinquish), the   *)
(* record is told, and a continuation waits for the work in progress.        *)
Relinquish(i) ==
    LET c == ctl[i] IN
    /\ c.pc = "relinquish"
    /\ ClaimsJoined(i)
    /\ \/ /\ Acknowledged(i, c.admission, "relinquished")
          /\ ctl' = [ctl EXCEPT ![i].held = "no",
               ![i].pc = IF c.then = "admit" THEN "admit" ELSE "idle"]
          /\ drains' = [drains EXCEPT ![i] =
               @ \cup {[generation |-> c.admission, pc |-> "waiting"]}]
          /\ UNCHANGED faults
       \/ /\ \/ Refused(i, c.admission, "relinquished")
                /\ UNCHANGED <<ownershipVars, faults>>
             \/ Failed(Acknowledged(i, c.admission, "relinquished"))
          /\ IF c.then \in {"last", "exit"}
             THEN ctl' = [ctl EXCEPT ![i].pc = "idle"] ELSE Caught(i)
          /\ UNCHANGED drains
    /\ UNCHANGED work

(* The admission starts a new epoch: a continuation of an earlier one that   *)
(* still waits will not report.                                              *)
AskAdmission(i) ==
    LET c == ctl[i]
        admitted == [c EXCEPT !.held = "yes", !.admission = c.seen,
                              !.fenced = "no", !.pc = "start"]
    IN /\ c.pc = "admit"
       /\ \/ /\ Admit(i, c.seen, LegacyEnabled[i])
             /\ ctl' = [ctl EXCEPT ![i] = IF c.running = "yes" THEN admitted
                                          ELSE Releasing(admitted, "idle")]
             /\ drains' = [drains EXCEPT ![i] = {d \in @ : d.pc = "sent"}]
             /\ UNCHANGED faults
          \/ /\ \/ ~Admissible(i, c.seen, LegacyEnabled[i])
                   /\ UNCHANGED <<ownershipVars, faults>>
                \/ Failed(Admit(i, c.seen, LegacyEnabled[i]))
             /\ Caught(i)
             /\ UNCHANGED drains
       /\ UNCHANGED work

(* The background resources are up; readiness is reported unless the process *)
(* was fenced or stopped meanwhile.  Starting them may fail.                 *)
Started(i) ==
    /\ ctl[i].pc = "start"
    /\ \/ /\ ctl' = [ctl EXCEPT ![i] = IF CanClaim(i)
                                       THEN [@ EXCEPT !.pc = "ready"]
                                       ELSE Releasing(@, "idle")]
          /\ UNCHANGED faults
       \/ Fault("error") /\ Caught(i)
    /\ UNCHANGED <<ownershipVars, work, drains>>

ReportReady(i) ==
    LET c == ctl[i] IN
    /\ c.pc = "ready"
    /\ \/ /\ MarkReady(i, c.seen)
          /\ ctl' = [ctl EXCEPT ![i].pc = "idle"]
          /\ UNCHANGED faults
       \/ /\ \/ ~Activated(i, c.seen) /\ UNCHANGED <<ownershipVars, faults>>
             \/ Failed(MarkReady(i, c.seen))
          /\ Caught(i)
    /\ UNCHANGED <<work, drains>>

-----------------------------------------------------------------------------
(* The validity watchdog fences.                                             *)
WatchdogFires(i) ==
    /\ ctl[i].held = "yes" /\ ctl[i].fenced = "no" /\ ctl[i].pc # "dead"
    /\ Fault("lapse")
    /\ ctl' = [ctl EXCEPT ![i].fenced = "yes"]
    /\ UNCHANGED <<ownershipVars, work, drains>>

(* stop() fences at once, waits for the pass in progress, and releases.      *)
StopController(i) ==
    /\ ctl[i].running = "yes" /\ ctl[i].pc # "dead"
    /\ ctl' = [ctl EXCEPT ![i].running = "no", ![i].fenced = "yes"]
    /\ UNCHANGED <<ownershipVars, work, drains, faults>>

StopReleases(i) ==
    /\ ctl[i].running = "no" /\ ctl[i].pc = "idle"
    /\ ctl[i].held = "yes" /\ ctl[i].then # "exit"
    /\ ctl' = [ctl EXCEPT ![i] = Releasing(@, "exit")]
    /\ UNCHANGED <<ownershipVars, work, drains, faults>>

(* The process exits once stop() is through, or crashes at any time; calls   *)
(* it has sent may still reach the record.                                   *)
Dies(i) ==
    /\ ctl' = [ctl EXCEPT ![i].pc = "dead", ![i].running = "no"]
    /\ work' = [work EXCEPT ![i] = "none"]
    /\ drains' = [drains EXCEPT ![i] = {d \in @ : d.pc = "sent"}]
    /\ UNCHANGED ownershipVars

Exit(i) ==
    /\ ctl[i].running = "no" /\ ctl[i].pc \in {"new", "idle"}
    /\ ctl[i].held = "no" \/ ctl[i].then = "exit"
    /\ Dies(i)
    /\ UNCHANGED faults

Crash(i) == ctl[i].pc # "dead" /\ Fault("crash") /\ Dies(i)

-----------------------------------------------------------------------------
(* A claim loop asks canClaim before its claim, and again after it: work     *)
(* claimed meanwhile is handed back.                                         *)
BeginClaim(i) ==
    /\ work[i] = "none"
    /\ CanClaim(i)
    /\ work' = [work EXCEPT ![i] = "claiming"]
    /\ UNCHANGED <<ownershipVars, ctl, drains, faults>>

EndClaim(i) ==
    /\ work[i] = "claiming"
    /\ work' = [work EXCEPT ![i] = IF CanClaim(i) THEN "working" ELSE "none"]
    /\ UNCHANGED <<ownershipVars, ctl, drains, faults>>

FinishWork(i) ==
    /\ work[i] = "working"
    /\ work' = [work EXCEPT ![i] = "none"]
    /\ UNCHANGED <<ownershipVars, ctl, drains, faults>>

(* The work ended: unless it was admitted again, the process reports so.     *)
SendDrained(i, d) ==
    /\ d.pc = "waiting" /\ work[i] = "none" /\ ctl[i].pc # "dead"
    /\ drains' = [drains EXCEPT ![i] = (@ \ {d}) \cup {[d EXCEPT !.pc = "sent"]}]
    /\ UNCHANGED <<ownershipVars, ctl, work, faults>>

(* The report reaches the record; an error is only logged.                   *)
DrainedLands(i, d) ==
    /\ d.pc = "sent"
    /\ drains' = [drains EXCEPT ![i] = @ \ {d}]
    /\ \/ Acknowledged(i, d.generation, "drained") /\ UNCHANGED faults
       \/ Refused(i, d.generation, "drained")
          /\ UNCHANGED <<ownershipVars, faults>>
       \/ Fault("error") /\ UNCHANGED ownershipVars
    /\ UNCHANGED <<ctl, work>>

-----------------------------------------------------------------------------
(* The operator gives every request an id that was not used last.            *)
NewRequest == CHOOSE id \in RequestIds : id # own.lastRequest

(* The operator hands the work over in the generation the record is in.      *)
Handover(desired) ==
    /\ NewRequest \in RequestIds
    /\ \E cohort \in SUBSET Tasks :
           Transition(NewRequest, own.generation, desired, cohort)
    /\ UNCHANGED controllerVars

(* The operator retires a process whose task is proved to have stopped.      *)
RetireDead(i) ==
    /\ ctl[i].pc = "dead"
    /\ Enrolled(i)
    /\ NewRequest \in RequestIds
    /\ Retire(NewRequest, own.generation, [j \in {i} |-> member[j].generation])
    /\ UNCHANGED controllerVars

Reconcile(i) ==
    \/ Enroll(i) \/ Poll(i) \/ PollFails(i) \/ Relinquish(i)
    \/ AskAdmission(i) \/ Started(i) \/ ReportReady(i)

Working(i) ==
    \/ EndClaim(i)
    \/ FinishWork(i)
    \/ \E d \in drains[i] : SendDrained(i, d) \/ DrainedLands(i, d)

BgNext ==
    \/ \E i \in Instances :
         \/ Reconcile(i) \/ WatchdogFires(i) \/ StopController(i)
         \/ StopReleases(i) \/ Exit(i) \/ Crash(i)
         \/ BeginClaim(i) \/ Working(i) \/ RetireDead(i)
    \/ \E d \in Deployments \cup {NoDeployment} : Handover(d)

BgSpec == BgInit /\ [][BgNext]_bgVars

(* The poll timer fires and store calls return, claims and work in progress  *)
(* end, a stopped process exits, and the operator retires the dead.          *)
BgFairness ==
    \A i \in Instances :
        /\ WF_bgVars(Reconcile(i))
        /\ WF_bgVars(StopReleases(i)) /\ WF_bgVars(Exit(i))
        /\ WF_bgVars(Working(i)) /\ WF_bgVars(RetireDead(i))

FairBgSpec == BgSpec /\ BgFairness

-----------------------------------------------------------------------------
(* Controllers, work and continuations have the shapes above.                *)
BgTypeOK ==
    /\ ctl \in [Instances -> Controller]
    /\ work \in [Instances -> {"none", "claiming", "working"}]
    /\ drains \in [Instances -> SUBSET Drain]
    /\ faults \in Nat

(* A process that the record shows as relinquished, drained or retired has   *)
(* no claim in flight and cannot begin one: "relinquished" acknowledges that *)
(* the process stopped new claims.                                           *)
RelinquishedMeansNoClaims ==
    \A i \in Instances :
        work[i] = "claiming" \/ CanClaim(i) =>
            /\ member[i].state = "admitted"
            /\ ctl[i].held = "yes" => member[i].generation = ctl[i].admission

(* Once ownership is enabled, claims in flight at the same time are claims   *)
(* of one deployment, through every handover, crash and lost response.       *)
ClaimsOfOneDeployment ==
    \A i, j \in Instances :
        /\ work[i] = "claiming" /\ work[j] = "claiming"
        /\ member[i].generation > 0
        => DeploymentOf[i] = DeploymentOf[j]

Wanted(d) ==
    /\ own.enabled = "yes" /\ own.desired = d
    /\ \E i \in Instances : DeploymentOf[i] = d /\ ctl[i].running = "yes"

Serving(d) ==
    \E i \in Instances :
        /\ DeploymentOf[i] = d
        /\ CanClaim(i)
        /\ member[i].ready = "yes"
        /\ member[i].generation = own.generation

(* The record holds an admission of an earlier generation that its process   *)
(* does not know of, because the response was lost, and never releases.      *)
Orphaned ==
    \E i \in Instances :
        /\ member[i].state = "admitted" /\ member[i].generation # own.generation
        /\ ctl[i].held = "no" /\ ctl[i].pc # "dead"

(* A deployment that stays desired, and keeps a process running, ends up     *)
(* serving: the earlier owners do relinquish.  An orphaned admission is the  *)
(* one thing in its way.                                                     *)
HandoverCompletes ==
    \A d \in Deployments : <>[]Wanted(d) => []<>(Serving(d) \/ Orphaned)
=============================================================================
