--------------------- MODULE BackgroundControllerProofs ---------------------
(***************************************************************************)
(* Proofs about the controllers of background work, for every set of       *)
(* processes and deployments and any faults.  They are clients of the      *)
(* ownership record: BgSpec implements OwnershipSpec, so that what is      *)
(* proved of the record holds here too.                                    *)
(***************************************************************************)
EXTENDS BackgroundController, BackgroundOwnershipProofs

(* What a controller's pc says of the rest of it.                            *)
ControllerFits(i) ==
    /\ ctl[i].pc \in {"new", "admit"} => ctl[i].held = "no"
    /\ ctl[i].pc \in {"relinquish", "start", "ready"} => ctl[i].held = "yes"
    /\ ctl[i].pc = "relinquish" => ctl[i].fenced = "yes"
    /\ ctl[i].pc = "dead" => ctl[i].running = "no" /\ work[i] = "none"

(* A process that claims, or may begin to, holds the admission the record    *)
(* shows.  A claim in flight outlives the fence, not the release.            *)
ClaimsAdmitted(i) ==
    work[i] = "claiming" \/ CanClaim(i) =>
        /\ ctl[i].held = "yes"
        /\ member[i].state = "admitted"
        /\ member[i].generation = ctl[i].admission

ControllerInv(i) == ControllerFits(i) /\ ClaimsAdmitted(i)

(* The inductive invariant.                                                  *)
BgInv ==
    /\ OwnershipInv
    /\ own.generation <= MaxGeneration
    /\ BgTypeOK
    /\ \A i \in Instances : ControllerInv(i)

-----------------------------------------------------------------------------
(* What the provers need of the records.                                     *)

(* An update of a controller's fields yields a controller.                   *)
LEMMA ControllerShapes ==
    \A c \in Controller :
      /\ \A pc \in {"new", "idle", "relinquish", "admit", "start", "ready",
                    "dead"} :
           /\ [c EXCEPT !.pc = pc] \in Controller
           /\ [c EXCEPT !.pc = pc, !.running = "no"] \in Controller
           /\ [c EXCEPT !.held = "no", !.pc = pc] \in Controller
      /\ [c EXCEPT !.fenced = "yes"] \in Controller
      /\ [c EXCEPT !.running = "no", !.fenced = "yes"] \in Controller
      /\ \A g \in Nat : [c EXCEPT !.seen = g] \in Controller
      /\ [c EXCEPT !.held = "yes", !.admission = c.seen, !.fenced = "no",
                   !.pc = "start"] \in Controller
<1> SUFFICES ASSUME NEW c \in Controller
             PROVE  /\ \A pc \in {"new", "idle", "relinquish", "admit", "start",
                                  "ready", "dead"} :
                         /\ [c EXCEPT !.pc = pc] \in Controller
                         /\ [c EXCEPT !.pc = pc, !.running = "no"] \in Controller
                         /\ [c EXCEPT !.held = "no", !.pc = pc] \in Controller
                    /\ [c EXCEPT !.fenced = "yes"] \in Controller
                    /\ [c EXCEPT !.running = "no", !.fenced = "yes"]
                         \in Controller
                    /\ \A g \in Nat : [c EXCEPT !.seen = g] \in Controller
                    /\ [c EXCEPT !.held = "yes", !.admission = c.seen,
                                 !.fenced = "no", !.pc = "start"] \in Controller
  OBVIOUS
<1>1. \A pc \in {"new", "idle", "relinquish", "admit", "start", "ready", "dead"} :
        /\ [c EXCEPT !.pc = pc] \in Controller
        /\ [c EXCEPT !.pc = pc, !.running = "no"] \in Controller
        /\ [c EXCEPT !.held = "no", !.pc = pc] \in Controller
  BY DEF Controller
<1>2. /\ [c EXCEPT !.fenced = "yes"] \in Controller
      /\ [c EXCEPT !.running = "no", !.fenced = "yes"] \in Controller
      /\ \A g \in Nat : [c EXCEPT !.seen = g] \in Controller
  BY DEF Controller
<1>3. [c EXCEPT !.held = "yes", !.admission = c.seen, !.fenced = "no",
                !.pc = "start"] \in Controller
  BY DEF Controller
<1> QED
  BY <1>1, <1>2, <1>3

(* A release fences, and is under way exactly where an admission is held.    *)
LEMMA ReleasingFences ==
    \A c \in Controller, then \in {"admit", "idle", "last", "exit"} :
      /\ Releasing(c, then) \in Controller
      /\ Releasing(c, then).held = c.held
      /\ Releasing(c, then).admission = c.admission
      /\ Releasing(c, then).running = c.running
      /\ Releasing(c, then).fenced = "yes"
      /\ Releasing(c, then).pc = IF c.held = "yes" THEN "relinquish" ELSE "idle"
<1> SUFFICES ASSUME NEW c \in Controller,
                    NEW then \in {"admit", "idle", "last", "exit"}
             PROVE  /\ Releasing(c, then) \in Controller
                    /\ Releasing(c, then).held = c.held
                    /\ Releasing(c, then).admission = c.admission
                    /\ Releasing(c, then).running = c.running
                    /\ Releasing(c, then).fenced = "yes"
                    /\ Releasing(c, then).pc = IF c.held = "yes" THEN "relinquish"
                                                                ELSE "idle"
  OBVIOUS
<1>1. CASE c.held = "yes"
  <2> DEFINE v == [c EXCEPT !.pc = "relinquish", !.fenced = "yes", !.then = then]
  <2>1. Releasing(c, then) = v
    BY <1>1 DEF Releasing
  <2>2. v \in Controller
    BY DEF Controller
  <2>3. /\ v.held = c.held /\ v.admission = c.admission /\ v.running = c.running
        /\ v.fenced = "yes" /\ v.pc = "relinquish"
    BY DEF Controller
  <2> HIDE DEF v
  <2> QED
    BY <1>1, <2>1, <2>2, <2>3
<1>2. CASE c.held # "yes"
  <2> DEFINE v == [c EXCEPT !.pc = "idle", !.fenced = "yes"]
  <2>1. Releasing(c, then) = v
    BY <1>2 DEF Releasing
  <2>2. v \in Controller
    BY DEF Controller
  <2>3. /\ v.held = c.held /\ v.admission = c.admission /\ v.running = c.running
        /\ v.fenced = "yes" /\ v.pc = "idle"
    BY DEF Controller
  <2> HIDE DEF v
  <2> QED
    BY <1>2, <2>1, <2>2, <2>3
<1> QED
  BY <1>1, <1>2

-----------------------------------------------------------------------------
(* The controllers are clients of the record.                                *)

(* What a store call of process i does to the record is a request of         *)
(* OwnershipNext, or nothing; and it does not touch other processes.         *)
RecordStep(i) ==
    /\ OwnershipNext \/ UNCHANGED ownershipVars
    /\ \A j \in Instances \ {i} : member'[j] = member[j]

(* The types of the record, as the steps below use them.                     *)
LEMMA BgFacts ==
    ASSUME BgInv
    PROVE  /\ own \in Ownership /\ member \in [Instances -> Member]
           /\ own.generation \in Generations
           /\ \A i \in Instances : member[i].generation \in Generations
           /\ \A i \in Instances : member[i] \in Member /\ ctl[i] \in Controller
           /\ ctl \in [Instances -> Controller]
           /\ work \in [Instances -> {"none", "claiming", "working"}]
           /\ drains \in [Instances -> SUBSET Drain]
           /\ faults \in Nat
<1>1. /\ own \in Ownership /\ member \in [Instances -> Member]
      /\ own.generation <= MaxGeneration
      /\ \A i \in Instances : member[i].generation <= own.generation
  BY DEF BgInv, OwnershipInv, OwnershipTypeOK, AdmissionsAreCurrent
<1>2. own.generation \in Nat
  BY <1>1 DEF Ownership
<1>3. \A i \in Instances : member[i] \in Member /\ member[i].generation \in Nat
  BY <1>1 DEF Member
<1>4. own.generation \in Generations
  BY <1>1, <1>2, BackgroundOwnershipAssumption DEF Generations
<1>5. \A i \in Instances : member[i].generation \in Generations
  BY <1>1, <1>2, <1>3, BackgroundOwnershipAssumption DEF Generations
<1> QED
  BY <1>1, <1>3, <1>4, <1>5 DEF BgInv, BgTypeOK

(* Enrolling is one request at most.                                         *)
LEMMA EnrollRequest ==
    ASSUME BgInv, NEW i \in Instances, EnrollOnce(i)
    PROVE  RecordStep(i)
  BY BgFacts DEF EnrollOnce, Register, RecordStep, OwnershipNext, ownershipVars

(* An acknowledgement that is accepted is one request at most, and leaves    *)
(* an admission alone unless it reports "relinquished".                      *)
LEMMA AcknowledgeRequest ==
    ASSUME BgInv, NEW i \in Instances, NEW g \in Nat,
           NEW next \in {"relinquished", "drained"}, Acknowledged(i, g, next)
    PROVE  /\ RecordStep(i)
           /\ next = "drained" /\ member[i].state = "admitted" =>
                member'[i] = member[i]
<1>1. CASE Acknowledge(i, g, next)
  <2>1. g \in Generations
    BY <1>1, BgFacts DEF Acknowledge, Acknowledgeable
  <2> QED
    BY <1>1, <2>1, BgFacts
       DEF Acknowledge, Acknowledgeable, RecordStep, OwnershipNext
<1>2. CASE UNCHANGED ownershipVars
  BY <1>2 DEF RecordStep, ownershipVars
<1> QED
  BY <1>1, <1>2 DEF Acknowledged

(* An admission is one request.                                              *)
LEMMA AdmitRequest ==
    ASSUME BgInv, NEW i \in Instances, NEW g \in Nat,
           Admit(i, g, LegacyEnabled[i])
    PROVE  /\ RecordStep(i)
           /\ member'[i].state = "admitted" /\ member'[i].generation = g
<1>1. g \in Generations
  BY BgFacts DEF Admit, Admissible
<1>2. LegacyEnabled[i] \in {"no", "yes"}
  BY BackgroundControllerAssumption
<1>3. OwnershipNext
  BY <1>1, <1>2 DEF OwnershipNext
<1>4. own.generation = g /\ member'[i].state = "admitted" /\ member'[i].generation = g
  BY BgFacts DEF Admit, Admissible, Member
<1> QED
  BY <1>3, <1>4, BgFacts DEF RecordStep, Admit

(* A readiness report is one request, and keeps the admission.               *)
LEMMA ReadyRequest ==
    ASSUME BgInv, NEW i \in Instances, NEW g \in Nat, MarkReady(i, g)
    PROVE  /\ RecordStep(i)
           /\ member'[i].state = member[i].state
           /\ member'[i].generation = member[i].generation
<1>1. g \in Generations
  BY BgFacts DEF MarkReady, Activated
<1>2. OwnershipNext
  BY <1>1 DEF OwnershipNext
<1>3. /\ member'[i].state = member[i].state
      /\ member'[i].generation = member[i].generation
  BY BgFacts DEF MarkReady, Member
<1> QED
  BY <1>2, <1>3, BgFacts DEF RecordStep, MarkReady

-----------------------------------------------------------------------------
(* The steps of a process.                                                   *)

(* What is shown of a step of process i: it is a client's step, keeps the    *)
(* shapes, leaves other processes alone, and keeps the invariant of i.       *)
ProcessStep(i) ==
    /\ RecordStep(i)
    /\ BgTypeOK'
    /\ \A j \in Instances \ {i} : ctl'[j] = ctl[j] /\ work'[j] = work[j]
    /\ ControllerInv(i)'

(* The record still shows the admission of i that it showed before.          *)
KeepsAdmission(i) ==
    /\ member'[i].state = member[i].state
    /\ member'[i].generation = member[i].generation

(* The catch block, whatever the failed call did to a record without claims. *)
LEMMA CaughtKeeps ==
    ASSUME BgInv, NEW i \in Instances, Caught(i), UNCHANGED work,
           work[i] = "claiming" => KeepsAdmission(i)
    PROVE  /\ ctl' \in [Instances -> Controller]
           /\ \A j \in Instances \ {i} : ctl'[j] = ctl[j]
           /\ ControllerInv(i)'
<1>1. Releasing(ctl[i], "last") \in Controller
  BY BgFacts, ReleasingFences
<1>2. ctl' = [ctl EXCEPT ![i] = Releasing(ctl[i], "last")]
  BY DEF Caught
<1>3. ctl'[i] = Releasing(ctl[i], "last")
  BY <1>2, BgFacts
<1>4. /\ ctl'[i].held = ctl[i].held /\ ctl'[i].admission = ctl[i].admission
      /\ ctl'[i].fenced = "yes"
      /\ ctl'[i].pc = IF ctl[i].held = "yes" THEN "relinquish" ELSE "idle"
  BY <1>3, BgFacts, ReleasingFences
<1>5. ControllerInv(i)
  BY DEF BgInv
<1> QED
  BY <1>1, <1>2, <1>4, <1>5, BgFacts
     DEF ControllerInv, ControllerFits, ClaimsAdmitted, CanClaim, KeepsAdmission

(* Faults are counted.                                                       *)
LEMMA FaultCounts ==
    ASSUME BgInv, NEW kind, Fault(kind) PROVE faults' \in Nat
  BY BgFacts DEF Fault

(* A process enrolls.                                                        *)
LEMMA EnrollStep ==
    ASSUME BgInv, NEW i \in Instances, Enroll(i) PROVE ProcessStep(i)
<1>1. RecordStep(i) /\ faults' \in Nat /\ ctl' \in [Instances -> Controller]
      /\ UNCHANGED <<work, drains>>
  <2>1. CASE EnrollOnce(i) /\ ctl' = [ctl EXCEPT ![i].pc = "idle"]
             /\ UNCHANGED <<work, drains, faults>>
    BY <2>1, EnrollRequest, BgFacts, ControllerShapes
  <2>2. CASE Failed(EnrollOnce(i)) /\ UNCHANGED <<work, drains, ctl>>
    <3>1. faults' \in Nat
      BY <2>2, FaultCounts DEF Failed
    <3>2. RecordStep(i)
      BY <2>2, EnrollRequest DEF Failed, RecordStep, ownershipVars
    <3> QED
      BY <2>2, <3>1, <3>2, BgFacts
  <2> QED
    BY <2>1, <2>2 DEF Enroll
<1>2. /\ \A j \in Instances \ {i} : ctl'[j] = ctl[j]
      /\ ctl'[i].pc \in {"new", "idle"} /\ ctl'[i].held = ctl[i].held
  BY BgFacts DEF Enroll, Controller
<1>3. ControllerInv(i) /\ ctl[i].pc = "new"
  BY DEF BgInv, Enroll
<1>4. ControllerInv(i)'
  BY <1>1, <1>2, <1>3, BgFacts
     DEF ControllerInv, ControllerFits, ClaimsAdmitted, CanClaim
<1> QED
  BY <1>1, <1>2, <1>4, BgFacts DEF ProcessStep, BgTypeOK

(* A poll decides what to do next.                                           *)
LEMMA PollStep ==
    ASSUME BgInv, NEW i \in Instances, Poll(i) PROVE ProcessStep(i)
<1> DEFINE c == [ctl[i] EXCEPT !.seen = own.generation]
           v == IF c.held = "yes" /\ Stale(i)
                THEN Releasing(c, IF Desired(i) THEN "admit" ELSE "idle")
                ELSE IF Desired(i) /\ c.held = "no"
                     THEN [c EXCEPT !.pc = "admit"] ELSE c
<1>1. own.generation \in Nat
  BY BgFacts DEF Ownership
<1>2. c \in Controller
  BY <1>1, BgFacts, ControllerShapes
<1>3. /\ c.pc = "idle" /\ c.held = ctl[i].held /\ c.admission = ctl[i].admission
      /\ c.fenced = ctl[i].fenced /\ c.running = ctl[i].running
  BY BgFacts DEF Poll, Controller
<1> HIDE DEF c
<1>4. /\ v \in Controller
      /\ v.held = ctl[i].held /\ v.admission = ctl[i].admission
      /\ v.running = ctl[i].running
      /\ v.fenced = "yes" \/ v.fenced = ctl[i].fenced
      /\ v.pc = "relinquish" => v.held = "yes" /\ v.fenced = "yes"
      /\ v.pc = "admit" => v.held = "no"
      /\ v.pc \in {"relinquish", "admit", "idle"}
  <2> HIDE DEF v
  <2>1. CASE c.held = "yes" /\ Stale(i)
    <3>1. PICK then \in {"admit", "idle"} : v = Releasing(c, then)
      BY <2>1 DEF v
    <3>2. then \in {"admit", "idle", "last", "exit"}
      OBVIOUS
    <3>3. /\ v \in Controller /\ v.held = c.held /\ v.admission = c.admission
          /\ v.running = c.running /\ v.fenced = "yes"
          /\ v.pc = IF c.held = "yes" THEN "relinquish" ELSE "idle"
      BY <3>1, <3>2, <1>2, ReleasingFences
    <3> QED
      BY <2>1, <3>3, <1>3
  <2>2. CASE ~(c.held = "yes" /\ Stale(i)) /\ Desired(i) /\ c.held = "no"
    <3>1. v = [c EXCEPT !.pc = "admit"]
      BY <2>2 DEF v
    <3>2. v \in Controller
      BY <3>1, <1>2, ControllerShapes
    <3>3. /\ v.pc = "admit" /\ v.held = c.held /\ v.admission = c.admission
          /\ v.running = c.running /\ v.fenced = c.fenced
      BY <3>1, <1>2 DEF Controller
    <3> QED
      BY <2>2, <3>2, <3>3, <1>3
  <2>3. CASE ~(c.held = "yes" /\ Stale(i)) /\ ~(Desired(i) /\ c.held = "no")
    <3>1. v = c
      BY <2>3 DEF v
    <3> QED
      BY <3>1, <1>2, <1>3
  <2> QED
    BY <2>1, <2>2, <2>3
<1>5. ctl' = [ctl EXCEPT ![i] = v]
  BY DEF Poll, c
<1> HIDE DEF v
<1>6. /\ ctl'[i] = v /\ ctl' \in [Instances -> Controller]
      /\ \A j \in Instances \ {i} : ctl'[j] = ctl[j]
  BY <1>4, <1>5, BgFacts
<1>7. ControllerInv(i)
  BY DEF BgInv
<1>8. UNCHANGED <<own, member, work, drains, faults>>
  BY DEF Poll, ownershipVars
<1>9. ControllerInv(i)'
  BY <1>4, <1>6, <1>7, <1>8
     DEF ControllerInv, ControllerFits, ClaimsAdmitted, CanClaim
<1> QED
  BY <1>6, <1>8, <1>9, BgFacts
     DEF ProcessStep, BgTypeOK, RecordStep, ownershipVars

(* A poll that fails.                                                        *)
LEMMA PollFailsStep ==
    ASSUME BgInv, NEW i \in Instances, PollFails(i) PROVE ProcessStep(i)
<1>1. /\ Caught(i) /\ UNCHANGED <<own, member, work, drains>>
      /\ faults' \in Nat
  BY FaultCounts DEF PollFails, ownershipVars
<1>2. /\ ctl' \in [Instances -> Controller]
      /\ \A j \in Instances \ {i} : ctl'[j] = ctl[j]
      /\ ControllerInv(i)'
  BY <1>1, CaughtKeeps DEF KeepsAdmission
<1> QED
  BY <1>1, <1>2, BgFacts DEF ProcessStep, BgTypeOK, RecordStep, ownershipVars

(* A release: the claims are joined before the record is told.               *)
LEMMA RelinquishStep ==
    ASSUME BgInv, NEW i \in Instances, Relinquish(i) PROVE ProcessStep(i)
<1> DEFINE c == ctl[i]
<1>1. /\ c \in Controller /\ c.pc = "relinquish" /\ c.admission \in Nat
      /\ work[i] # "claiming" /\ UNCHANGED work
      /\ ControllerInv(i)
  BY BgFacts DEF Relinquish, ClaimsJoined, BgInv, Controller
<1>2. CASE /\ Acknowledged(i, c.admission, "relinquished")
           /\ ctl' = [ctl EXCEPT ![i].held = "no",
                ![i].pc = IF c.then = "admit" THEN "admit" ELSE "idle"]
           /\ drains' = [drains EXCEPT ![i] =
                @ \cup {[generation |-> c.admission, pc |-> "waiting"]}]
           /\ UNCHANGED faults
  <2> DEFINE v == [c EXCEPT !.held = "no",
                            !.pc = IF c.then = "admit" THEN "admit" ELSE "idle"]
  <2>1. /\ v \in Controller /\ v.held = "no" /\ v.pc \in {"admit", "idle"}
    BY <1>1 DEF Controller
  <2>2. ctl' = [ctl EXCEPT ![i] = v]
    BY <1>2, BgFacts
  <2> HIDE DEF v
  <2>3. /\ ctl'[i] = v /\ ctl' \in [Instances -> Controller]
        /\ \A j \in Instances \ {i} : ctl'[j] = ctl[j]
    BY <2>1, <2>2, BgFacts
  <2>4. drains' \in [Instances -> SUBSET Drain]
    <3>1. [generation |-> c.admission, pc |-> "waiting"] \in Drain
      BY <1>1 DEF Drain
    <3> QED
      BY <1>2, <3>1, BgFacts
  <2>5. RecordStep(i)
    BY <1>1, <1>2, AcknowledgeRequest
  <2>6. ControllerInv(i)'
    BY <1>1, <2>1, <2>3
       DEF ControllerInv, ControllerFits, ClaimsAdmitted, CanClaim
  <2> QED
    BY <1>1, <1>2, <2>3, <2>4, <2>5, <2>6, BgFacts DEF ProcessStep, BgTypeOK
<1>3. CASE /\ \/ /\ Refused(i, c.admission, "relinquished")
                 /\ UNCHANGED <<ownershipVars, faults>>
              \/ Failed(Acknowledged(i, c.admission, "relinquished"))
           /\ IF c.then \in {"last", "exit"}
              THEN ctl' = [ctl EXCEPT ![i].pc = "idle"] ELSE Caught(i)
           /\ UNCHANGED drains
  <2>1. RecordStep(i)
    BY <1>1, <1>3, AcknowledgeRequest DEF Failed, RecordStep, ownershipVars
  <2>2. faults' \in Nat
    BY <1>3, FaultCounts, BgFacts DEF Failed
  <2>3. /\ ctl' \in [Instances -> Controller]
        /\ \A j \in Instances \ {i} : ctl'[j] = ctl[j]
        /\ ControllerInv(i)'
    <3>1. CASE ctl' = [ctl EXCEPT ![i].pc = "idle"]
      <4>1. ctl' \in [Instances -> Controller]
        BY <3>1, <1>1, BgFacts, ControllerShapes
      <4>2. /\ ctl'[i].pc = "idle" /\ ctl'[i].fenced = "yes"
            /\ \A j \in Instances \ {i} : ctl'[j] = ctl[j]
        BY <3>1, <1>1, BgFacts DEF Controller, ControllerInv, ControllerFits
      <4> QED
        BY <1>1, <4>1, <4>2
           DEF ControllerInv, ControllerFits, ClaimsAdmitted, CanClaim
    <3>2. CASE Caught(i)
      BY <3>2, <1>1, CaughtKeeps
    <3> QED
      BY <1>3, <3>1, <3>2
  <2> QED
    BY <1>1, <1>3, <2>1, <2>2, <2>3, BgFacts DEF ProcessStep, BgTypeOK
<1> QED
  BY <1>2, <1>3 DEF Relinquish

(* An admission, or its refusal.                                             *)
LEMMA AdmissionStep ==
    ASSUME BgInv, NEW i \in Instances, AskAdmission(i) PROVE ProcessStep(i)
<1> DEFINE c == ctl[i]
           admitted == [c EXCEPT !.held = "yes", !.admission = c.seen,
                                 !.fenced = "no", !.pc = "start"]
<1>1. /\ c \in Controller /\ c.pc = "admit" /\ c.seen \in Nat
      /\ UNCHANGED work /\ ControllerInv(i)
  BY BgFacts DEF AskAdmission, BgInv, Controller
<1>2. c.held = "no" /\ work[i] # "claiming"
  BY <1>1 DEF ControllerInv, ControllerFits, ClaimsAdmitted
<1>3. CASE /\ Admit(i, c.seen, LegacyEnabled[i])
           /\ ctl' = [ctl EXCEPT ![i] = IF c.running = "yes" THEN admitted
                                        ELSE Releasing(admitted, "idle")]
           /\ drains' = [drains EXCEPT ![i] = {d \in @ : d.pc = "sent"}]
           /\ UNCHANGED faults
  <2> DEFINE v == IF c.running = "yes" THEN admitted
                  ELSE Releasing(admitted, "idle")
  <2>1. /\ admitted \in Controller /\ admitted.held = "yes"
        /\ admitted.admission = c.seen /\ admitted.pc = "start"
    BY <1>1 DEF Controller
  <2>2. ctl' = [ctl EXCEPT ![i] = v]
    BY <1>3
  <2> HIDE DEF admitted
  <2>3. /\ v \in Controller /\ v.held = "yes" /\ v.admission = c.seen
        /\ v.pc = "start" \/ (v.pc = "relinquish" /\ v.fenced = "yes")
    <3>1. CASE c.running = "yes"
      <4>1. v = admitted
        BY <3>1
      <4> HIDE DEF v
      <4> QED
        BY <4>1, <2>1
    <3>2. CASE c.running # "yes"
      <4>1. v = Releasing(admitted, "idle")
        BY <3>2
      <4> HIDE DEF v
      <4> QED
        BY <4>1, <2>1, ReleasingFences
    <3> QED
      BY <3>1, <3>2
  <2> HIDE DEF v
  <2>4. /\ ctl'[i] = v /\ ctl' \in [Instances -> Controller]
        /\ \A j \in Instances \ {i} : ctl'[j] = ctl[j]
    BY <2>2, <2>3, BgFacts
  <2>5. drains' \in [Instances -> SUBSET Drain]
    BY <1>3, BgFacts
  <2>6. /\ RecordStep(i)
        /\ member'[i].state = "admitted" /\ member'[i].generation = c.seen
    BY <1>1, <1>3, AdmitRequest
  <2>7. ControllerInv(i)'
    BY <2>3, <2>4, <2>6
       DEF ControllerInv, ControllerFits, ClaimsAdmitted, CanClaim
  <2> QED
    BY <1>1, <1>3, <2>4, <2>5, <2>6, <2>7, BgFacts DEF ProcessStep, BgTypeOK
<1>4. CASE /\ \/ /\ ~Admissible(i, c.seen, LegacyEnabled[i])
                 /\ UNCHANGED <<ownershipVars, faults>>
              \/ Failed(Admit(i, c.seen, LegacyEnabled[i]))
           /\ Caught(i)
           /\ UNCHANGED drains
  <2>1. RecordStep(i)
    BY <1>1, <1>4, AdmitRequest DEF Failed, RecordStep, ownershipVars
  <2>2. faults' \in Nat
    BY <1>4, FaultCounts, BgFacts DEF Failed
  <2>3. /\ ctl' \in [Instances -> Controller]
        /\ \A j \in Instances \ {i} : ctl'[j] = ctl[j]
        /\ ControllerInv(i)'
    BY <1>1, <1>2, <1>4, CaughtKeeps
  <2> QED
    BY <1>1, <1>4, <2>1, <2>2, <2>3, BgFacts DEF ProcessStep, BgTypeOK
<1> QED
  BY <1>3, <1>4 DEF AskAdmission

(* The resources are up, or failed to start.                                 *)
LEMMA StartedStep ==
    ASSUME BgInv, NEW i \in Instances, Started(i) PROVE ProcessStep(i)
<1>1. /\ ctl[i] \in Controller /\ ctl[i].pc = "start" /\ ctl[i].held = "yes"
      /\ UNCHANGED <<own, member, work, drains>> /\ ControllerInv(i)
  BY BgFacts
     DEF Started, BgInv, ControllerInv, ControllerFits, ownershipVars
<1>2. CASE /\ ctl' = [ctl EXCEPT ![i] = IF CanClaim(i)
                                        THEN [@ EXCEPT !.pc = "ready"]
                                        ELSE Releasing(@, "idle")]
           /\ UNCHANGED faults
  <2> DEFINE v == IF CanClaim(i) THEN [ctl[i] EXCEPT !.pc = "ready"]
                  ELSE Releasing(ctl[i], "idle")
  <2>1. ctl' = [ctl EXCEPT ![i] = v]
    BY <1>2, BgFacts
  <2>2. /\ v \in Controller /\ v.held = "yes"
        /\ v.admission = ctl[i].admission /\ v.running = ctl[i].running
        /\ \/ v.pc = "ready" /\ v.fenced = ctl[i].fenced
           \/ v.pc = "relinquish" /\ v.fenced = "yes"
    <3>1. CASE CanClaim(i)
      BY <3>1, <1>1 DEF Controller
    <3>2. CASE ~CanClaim(i)
      BY <3>2, <1>1, ReleasingFences
    <3> QED
      BY <3>1, <3>2
  <2> HIDE DEF v
  <2>3. /\ ctl'[i] = v /\ ctl' \in [Instances -> Controller]
        /\ \A j \in Instances \ {i} : ctl'[j] = ctl[j]
    BY <2>1, <2>2, BgFacts
  <2>4. ControllerInv(i)'
    BY <1>1, <2>2, <2>3
       DEF ControllerInv, ControllerFits, ClaimsAdmitted, CanClaim
  <2> QED
    BY <1>1, <1>2, <2>3, <2>4, BgFacts
       DEF ProcessStep, BgTypeOK, RecordStep, ownershipVars
<1>3. CASE Fault("error") /\ Caught(i)
  <2>1. /\ ctl' \in [Instances -> Controller]
        /\ \A j \in Instances \ {i} : ctl'[j] = ctl[j]
        /\ ControllerInv(i)'
    BY <1>1, <1>3, CaughtKeeps DEF KeepsAdmission
  <2>2. faults' \in Nat
    BY <1>3, FaultCounts
  <2> QED
    BY <1>1, <2>1, <2>2, BgFacts
       DEF ProcessStep, BgTypeOK, RecordStep, ownershipVars
<1> QED
  BY <1>2, <1>3 DEF Started

(* Readiness is reported, or refused.                                        *)
LEMMA ReportReadyStep ==
    ASSUME BgInv, NEW i \in Instances, ReportReady(i) PROVE ProcessStep(i)
<1>1. /\ ctl[i] \in Controller /\ ctl[i].pc = "ready" /\ ctl[i].seen \in Nat
      /\ UNCHANGED <<work, drains>> /\ ControllerInv(i)
  BY BgFacts DEF ReportReady, BgInv, Controller
<1>2. /\ RecordStep(i) /\ KeepsAdmission(i) /\ faults' \in Nat
  <2>1. CASE MarkReady(i, ctl[i].seen) /\ UNCHANGED faults
    BY <2>1, <1>1, ReadyRequest, BgFacts DEF KeepsAdmission
  <2>2. CASE UNCHANGED <<ownershipVars, faults>>
    BY <2>2, BgFacts DEF KeepsAdmission, RecordStep, ownershipVars
  <2>3. CASE Failed(MarkReady(i, ctl[i].seen))
    <3>1. faults' \in Nat
      BY <2>3, FaultCounts DEF Failed
    <3> QED
      BY <2>3, <3>1, <1>1, ReadyRequest
         DEF KeepsAdmission, Failed, RecordStep, ownershipVars
  <2> QED
    BY <2>1, <2>2, <2>3 DEF ReportReady
<1>3. /\ ctl' \in [Instances -> Controller]
      /\ \A j \in Instances \ {i} : ctl'[j] = ctl[j]
      /\ ControllerInv(i)'
  <2>1. CASE ctl' = [ctl EXCEPT ![i].pc = "idle"]
    <3>1. ctl' \in [Instances -> Controller]
      BY <2>1, <1>1, BgFacts, ControllerShapes
    <3>2. /\ ctl'[i].pc = "idle" /\ ctl'[i].held = ctl[i].held
          /\ ctl'[i].fenced = ctl[i].fenced /\ ctl'[i].running = ctl[i].running
          /\ ctl'[i].admission = ctl[i].admission
          /\ \A j \in Instances \ {i} : ctl'[j] = ctl[j]
      BY <2>1, <1>1, BgFacts DEF Controller
    <3> QED
      BY <1>1, <1>2, <3>1, <3>2 DEF ControllerInv, ControllerFits,
         ClaimsAdmitted, CanClaim, KeepsAdmission
  <2>2. CASE Caught(i)
    BY <2>2, <1>1, <1>2, CaughtKeeps
  <2> QED
    BY <2>1, <2>2 DEF ReportReady
<1> QED
  BY <1>1, <1>2, <1>3, BgFacts DEF ProcessStep, BgTypeOK

-----------------------------------------------------------------------------
(* What runs beside the reconcile loop.                                      *)

(* The watchdog and stop() only fence.                                       *)
LEMMA FenceStep ==
    ASSUME BgInv, NEW i \in Instances, WatchdogFires(i) \/ StopController(i)
    PROVE  ProcessStep(i)
<1>1. /\ ctl[i] \in Controller /\ ControllerInv(i) /\ ctl[i].pc # "dead"
      /\ UNCHANGED <<own, member, work, drains>>
  BY BgFacts DEF WatchdogFires, StopController, BgInv, ownershipVars
<1>2. faults' \in Nat
  BY FaultCounts, BgFacts DEF WatchdogFires, StopController
<1>3. ctl' \in [Instances -> Controller]
  <2>1. CASE WatchdogFires(i)
    <3>1. ctl' = [ctl EXCEPT ![i] = [ctl[i] EXCEPT !.fenced = "yes"]]
      BY <2>1 DEF WatchdogFires
    <3> QED
      BY <1>1, <3>1, BgFacts, ControllerShapes
  <2>2. CASE StopController(i)
    <3>1. ctl' = [ctl EXCEPT
                    ![i] = [ctl[i] EXCEPT !.running = "no", !.fenced = "yes"]]
      BY <2>2, BgFacts DEF StopController
    <3> QED
      BY <1>1, <3>1, BgFacts, ControllerShapes
  <2> QED
    BY <2>1, <2>2
<1>4. /\ ctl'[i].pc = ctl[i].pc /\ ctl'[i].held = ctl[i].held
      /\ ctl'[i].fenced = "yes" /\ ctl'[i].admission = ctl[i].admission
      /\ \A j \in Instances \ {i} : ctl'[j] = ctl[j]
  BY BgFacts DEF WatchdogFires, StopController, Controller
<1>5. ControllerInv(i)'
  BY <1>1, <1>4 DEF ControllerInv, ControllerFits, ClaimsAdmitted, CanClaim
<1> QED
  BY <1>1, <1>2, <1>3, <1>4, <1>5, BgFacts
     DEF ProcessStep, BgTypeOK, RecordStep, ownershipVars

(* The release of stop().                                                    *)
LEMMA StopReleasesStep ==
    ASSUME BgInv, NEW i \in Instances, StopReleases(i) PROVE ProcessStep(i)
<1>1. /\ ctl[i] \in Controller /\ ControllerInv(i) /\ ctl[i].held = "yes"
      /\ UNCHANGED <<own, member, work, drains, faults>>
  BY BgFacts DEF StopReleases, BgInv, ownershipVars
<1>2. ctl' = [ctl EXCEPT ![i] = Releasing(ctl[i], "exit")]
  BY DEF StopReleases
<1>3. /\ Releasing(ctl[i], "exit") \in Controller
      /\ Releasing(ctl[i], "exit").pc = "relinquish"
      /\ Releasing(ctl[i], "exit").held = "yes"
      /\ Releasing(ctl[i], "exit").fenced = "yes"
      /\ Releasing(ctl[i], "exit").admission = ctl[i].admission
  BY <1>1, ReleasingFences
<1>4. /\ ctl' \in [Instances -> Controller]
      /\ ctl'[i] = Releasing(ctl[i], "exit")
      /\ \A j \in Instances \ {i} : ctl'[j] = ctl[j]
  BY <1>2, <1>3, BgFacts
<1>5. ControllerInv(i)'
  BY <1>1, <1>3, <1>4 DEF ControllerInv, ControllerFits, ClaimsAdmitted, CanClaim
<1> QED
  BY <1>1, <1>4, <1>5, BgFacts
     DEF ProcessStep, BgTypeOK, RecordStep, ownershipVars

(* A process ends; its requests that are under way stay so.                  *)
LEMMA DiesStep ==
    ASSUME BgInv, NEW i \in Instances, Exit(i) \/ Crash(i)
    PROVE  ProcessStep(i)
<1>1. Dies(i) /\ ctl[i] \in Controller /\ faults' \in Nat
  BY FaultCounts, BgFacts DEF Exit, Crash
<1>2. ctl' = [ctl EXCEPT ![i] = [ctl[i] EXCEPT !.pc = "dead", !.running = "no"]]
  BY <1>1, BgFacts DEF Dies
<1>3. /\ [ctl[i] EXCEPT !.pc = "dead", !.running = "no"] \in Controller
      /\ [ctl[i] EXCEPT !.pc = "dead", !.running = "no"].pc = "dead"
      /\ [ctl[i] EXCEPT !.pc = "dead", !.running = "no"].running = "no"
  BY <1>1 DEF Controller
<1>4. /\ ctl' \in [Instances -> Controller]
      /\ ctl'[i].pc = "dead" /\ ctl'[i].running = "no"
      /\ \A j \in Instances \ {i} : ctl'[j] = ctl[j]
  BY <1>2, <1>3, BgFacts
<1>5. /\ work' \in [Instances -> {"none", "claiming", "working"}]
      /\ work'[i] = "none"
      /\ \A j \in Instances \ {i} : work'[j] = work[j]
      /\ drains' \in [Instances -> SUBSET Drain]
      /\ UNCHANGED ownershipVars
  BY <1>1, BgFacts DEF Dies
<1>6. ControllerInv(i)'
  BY <1>4, <1>5 DEF ControllerInv, ControllerFits, ClaimsAdmitted, CanClaim
<1> QED
  BY <1>1, <1>4, <1>5, <1>6, BgFacts
     DEF ProcessStep, BgTypeOK, RecordStep, ownershipVars

(* The claim loop and the work it starts.                                    *)
LEMMA WorkStep ==
    ASSUME BgInv, NEW i \in Instances,
           BeginClaim(i) \/ EndClaim(i) \/ FinishWork(i)
    PROVE  ProcessStep(i)
<1>1. ControllerInv(i) /\ UNCHANGED <<own, member, ctl, drains, faults>>
  BY DEF BeginClaim, EndClaim, FinishWork, BgInv, ownershipVars
<1>2. /\ work' \in [Instances -> {"none", "claiming", "working"}]
      /\ \A j \in Instances \ {i} : work'[j] = work[j]
      /\ work'[i] = "claiming" => CanClaim(i)
      /\ work'[i] # "none" => work[i] = "claiming" \/ CanClaim(i)
  BY BgFacts DEF BeginClaim, EndClaim, FinishWork
<1>3. CanClaim(i) => ctl[i].running = "yes"
  BY DEF CanClaim
<1>4. ctl[i].pc = "dead" => work'[i] = "none"
  BY <1>1, <1>2, <1>3 DEF ControllerInv, ControllerFits
<1>5. ControllerInv(i)'
  BY <1>1, <1>2, <1>4 DEF ControllerInv, ControllerFits, ClaimsAdmitted, CanClaim
<1> QED
  BY <1>1, <1>2, <1>5, BgFacts
     DEF ProcessStep, BgTypeOK, RecordStep, ownershipVars

(* A report that the work has drained, sent and landed: it never ends an     *)
(* admission, because the record wants "relinquished" first.                 *)
LEMMA DrainStep ==
    ASSUME BgInv, NEW i \in Instances, NEW d \in drains[i],
           SendDrained(i, d) \/ DrainedLands(i, d)
    PROVE  ProcessStep(i)
<1>1. d \in Drain /\ ControllerInv(i) /\ UNCHANGED <<ctl, work>>
  BY BgFacts DEF SendDrained, DrainedLands, BgInv
<1>2. CASE SendDrained(i, d)
  <2>1. [d EXCEPT !.pc = "sent"] \in Drain
    BY <1>1 DEF Drain
  <2>2. drains' \in [Instances -> SUBSET Drain] /\ UNCHANGED <<own, member, faults>>
    BY <1>2, <2>1, BgFacts DEF SendDrained, ownershipVars
  <2>3. ControllerInv(i)'
    BY <1>1, <2>2 DEF ControllerInv, ControllerFits, ClaimsAdmitted, CanClaim
  <2> QED
    BY <1>1, <2>2, <2>3, BgFacts
       DEF ProcessStep, BgTypeOK, RecordStep, ownershipVars
<1>3. CASE DrainedLands(i, d)
  <2>1. d.generation \in Nat
    BY <1>1 DEF Drain
  <2>2. drains' \in [Instances -> SUBSET Drain]
    BY <1>3, BgFacts DEF DrainedLands
  <2>3. faults' \in Nat
    BY <1>3, FaultCounts, BgFacts DEF DrainedLands
  <2>4. RecordStep(i) /\ (member[i].state = "admitted" => member'[i] = member[i])
    <3>1. CASE Acknowledged(i, d.generation, "drained")
      BY <2>1, <3>1, AcknowledgeRequest
    <3>2. CASE UNCHANGED ownershipVars
      BY <3>2 DEF RecordStep, ownershipVars
    <3> QED
      BY <1>3, <3>1, <3>2 DEF DrainedLands
  <2>5. ControllerInv(i)'
    BY <1>1, <2>4 DEF ControllerInv, ControllerFits, ClaimsAdmitted, CanClaim
  <2> QED
    BY <1>1, <2>2, <2>3, <2>4, <2>5, BgFacts DEF ProcessStep, BgTypeOK
<1> QED
  BY <1>2, <1>3

(* The operator retires a process, which is dead.                            *)
LEMMA RetireStep ==
    ASSUME BgInv, NEW i \in Instances, RetireDead(i) PROVE ProcessStep(i)
<1> DEFINE proofs == [j \in {i} |-> member[j].generation]
<1>1. proofs \in Evidence
  <2>1. proofs \in [{i} -> Generations]
    BY BgFacts
  <2> QED
    BY <2>1 DEF Evidence
<1>2. /\ NewRequest \in RequestIds /\ Retire(NewRequest, own.generation, proofs)
      /\ UNCHANGED <<ctl, work, drains, faults>> /\ ctl[i].pc = "dead"
  BY DEF RetireDead, controllerVars
<1>3. OwnershipNext
  BY <1>1, <1>2, BgFacts DEF OwnershipNext
<1>4. \A j \in Instances \ {i} : member'[j] = member[j]
  BY <1>2 DEF Retire
<1>5. ControllerInv(i)
  BY DEF BgInv
<1>6. ControllerInv(i)'
  BY <1>2, <1>5 DEF ControllerInv, ControllerFits, ClaimsAdmitted, CanClaim
<1> QED
  BY <1>2, <1>3, <1>4, <1>6, BgFacts DEF ProcessStep, BgTypeOK, RecordStep

-----------------------------------------------------------------------------
(* The invariant.                                                            *)

(* Every step of a process is covered above.                                 *)
LEMMA EveryProcessStep ==
    ASSUME BgInv, NEW i \in Instances,
           \/ Reconcile(i) \/ WatchdogFires(i) \/ StopController(i)
           \/ StopReleases(i) \/ Exit(i) \/ Crash(i)
           \/ BeginClaim(i) \/ Working(i) \/ RetireDead(i)
    PROVE  ProcessStep(i)
  BY EnrollStep, PollStep, PollFailsStep, RelinquishStep, AdmissionStep,
     StartedStep, ReportReadyStep, FenceStep, StopReleasesStep, DiesStep,
     WorkStep, DrainStep, RetireStep DEF Reconcile, Working

(* A step of the controllers is a step of the record or leaves it alone.     *)
LEMMA ClientStep ==
    BgInv /\ [BgNext]_bgVars => [OwnershipNext]_ownershipVars
<1> SUFFICES ASSUME BgInv, [BgNext]_bgVars
             PROVE  OwnershipNext \/ UNCHANGED ownershipVars
  OBVIOUS
<1>1. ASSUME NEW d \in Deployments \cup {NoDeployment}, Handover(d)
      PROVE  OwnershipNext
  BY <1>1, BgFacts DEF Handover, OwnershipNext
<1>2. CASE UNCHANGED bgVars
  BY <1>2 DEF bgVars
<1> QED
  BY <1>1, <1>2, EveryProcessStep DEF BgNext, ProcessStep, RecordStep

(* BgInv is inductive.                                                       *)
LEMMA BgStep == BgInv /\ [BgNext]_bgVars => BgInv'
<1> SUFFICES ASSUME BgInv, [BgNext]_bgVars PROVE BgInv'
  OBVIOUS
<1>1. OwnershipInv'
  BY ClientStep, OwnershipStep DEF BgInv
<1>2. (own.generation <= MaxGeneration)'
  <2>1. own.generation \in Nat /\ own.generation <= MaxGeneration
    BY BgFacts DEF BgInv, Ownership
  <2>2. own' = own \/ OwnershipNext
    BY ClientStep DEF ownershipVars
  <2>3. ASSUME OwnershipNext
        PROVE  \/ own'.generation = own.generation
               \/ own.generation < MaxGeneration
                  /\ own'.generation = own.generation + 1
    <3>1. ASSUME NEW id \in RequestIds, NEW g \in Generations,
                 NEW d \in Deployments \cup {NoDeployment},
                 NEW cohort \in SUBSET Tasks, Transition(id, g, d, cohort)
          PROVE  /\ own.generation < MaxGeneration
                 /\ own'.generation = own.generation + 1
      BY <3>1 DEF Transition
    <3>2. ASSUME NEW id \in RequestIds, NEW g \in Generations,
                 NEW proofs \in Evidence, Retire(id, g, proofs)
          PROVE  own'.generation = own.generation
      BY <3>2, BgFacts DEF Retire, Ownership
    <3>3. CASE UNCHANGED own
      BY <3>3
    <3> QED
      BY <2>3, <3>1, <3>2, <3>3
         DEF OwnershipNext, Register, Admit, MarkReady, Acknowledge
  <2> QED
    BY <2>1, <2>2, <2>3, BackgroundOwnershipAssumption
<1>3. BgTypeOK' /\ \A i \in Instances : ControllerInv(i)'
  <2>1. ASSUME NEW i \in Instances, ProcessStep(i)
        PROVE  BgTypeOK' /\ \A j \in Instances : ControllerInv(j)'
    <3>1. ASSUME NEW j \in Instances \ {i} PROVE ControllerInv(j)'
      BY <2>1, <3>1 DEF BgInv, ProcessStep, RecordStep, ControllerInv,
         ControllerFits, ClaimsAdmitted, CanClaim
    <3> QED
      BY <2>1, <3>1 DEF ProcessStep
  <2>2. CASE UNCHANGED <<member, ctl, work, drains, faults>>
    BY <2>2 DEF BgInv, BgTypeOK, ControllerInv, ControllerFits, ClaimsAdmitted,
         CanClaim
  <2>3. ASSUME NEW d \in Deployments \cup {NoDeployment}, Handover(d)
        PROVE  UNCHANGED <<member, ctl, work, drains, faults>>
    BY <2>3 DEF Handover, Transition, controllerVars
  <2>4. UNCHANGED bgVars => UNCHANGED <<member, ctl, work, drains, faults>>
    BY DEF bgVars, controllerVars, ownershipVars
  <2> QED
    BY <2>1, <2>2, <2>3, <2>4, EveryProcessStep DEF BgNext
<1> QED
  BY <1>1, <1>2, <1>3 DEF BgInv

(* BgInv holds in every reachable state.                                     *)
THEOREM BgInvariance == BgSpec => []BgInv
<1>1. BgInit => BgInv
  <2> SUFFICES ASSUME BgInit PROVE BgInv
    OBVIOUS
  <2>1. OwnershipInv /\ own.generation = 0
    BY DEF BgInit, OwnershipInit, OwnershipInv, OwnershipTypeOK, Ownership,
         Member, AdmissionsAreCurrent, OneOwner
  <2>2. BgTypeOK
    BY DEF BgInit, BgTypeOK, Controller
  <2>3. \A i \in Instances : ControllerInv(i)
    BY DEF BgInit, ControllerInv, ControllerFits, ClaimsAdmitted, CanClaim
  <2> QED
    BY <2>1, <2>2, <2>3, BackgroundOwnershipAssumption DEF BgInv
<1> QED
  BY <1>1, BgStep, PTL DEF BgSpec

(* The controllers, their work and their reports keep their shapes.          *)
THEOREM BgTypeCorrect == BgSpec => []BgTypeOK
  BY BgInvariance, PTL DEF BgInv

(* The controllers use the record as its clients may: whatever is true of    *)
(* the record under any client is true of it under them.                     *)
THEOREM ControllersAreClients == BgSpec => OwnershipSpec
<1>1. BgInit => OwnershipInit
  BY DEF BgInit
<1> QED
  BY <1>1, ClientStep, BgInvariance, PTL DEF BgSpec, OwnershipSpec

(* The record shows no process as relinquished, drained or retired that may  *)
(* still claim.                                                              *)
THEOREM RelinquishedMeansNoClaimsAlways == BgSpec => []RelinquishedMeansNoClaims
<1>1. BgInv => RelinquishedMeansNoClaims
  BY DEF BgInv, ControllerInv, ClaimsAdmitted, RelinquishedMeansNoClaims
<1> QED
  BY <1>1, BgInvariance, PTL

(* Two deployments never have claims in flight at once.                      *)
THEOREM ClaimsOfOneDeploymentAlways == BgSpec => []ClaimsOfOneDeployment
<1>1. BgInv => ClaimsOfOneDeployment
  BY DEF BgInv, OwnershipInv, OneOwner, ControllerInv, ClaimsAdmitted,
         ClaimsOfOneDeployment
<1> QED
  BY <1>1, BgInvariance, PTL

(* A retired process stays retired, although its last reports may still be   *)
(* under way.                                                                *)
THEOREM RetiredIsFinalUnderControllers == BgSpec => RetiredIsFinal
  BY ControllersAreClients, RetiredIsFinalAlways, PTL
=============================================================================
