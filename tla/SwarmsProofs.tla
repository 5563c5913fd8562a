---------------------------- MODULE SwarmsProofs ----------------------------
(***************************************************************************)
(* Proofs about a swarm, for any number of workers, calls and requests,    *)
(* for every setting of the budgets and for any number of faults.          *)
(***************************************************************************)
EXTENDS Swarms, FiniteSetTheorems, TLAPS

Provisions == {"count", "create", "session", "commit"}
Cleans == {"delete", "retire", "mark"}

(* One operation is in flight: the one awaited, or one that timed out and    *)
(* keeps the lock.                                                           *)
OneOperation ==
    /\ \A w \in Wait : \/ op[w] = NoOp
                       \/ op[w].kind # "none" /\ op[w].member \in Members
    /\ op["stray"] # NoOp => /\ op["awaited"] = NoOp
                             /\ res.pc \in {"idle", "catch"}
    /\ op["awaited"].kind \in Provisions => res.pc = "provision"
    /\ op["awaited"].kind \in Cleans => res.pc = "clean"

(* The worker in hand, and the workers a pass has still to take.             *)
WorkersInHand ==
    /\ res.pc = "catch" => res.cur \in Members
    /\ res.cur \notin res.todo
    /\ res.pc \in {"provision", "catch"} =>
           \A m \in res.todo : member[m].state = "reserved"
    /\ res.pc = "clean" => \A m \in res.todo : member[m].state = "failed"

(* What an operation finds, and what it has done.                            *)
OperationFits(w) ==
    LET o == op[w]
        m == op[w].member
    IN
    /\ o.kind \in Provisions =>
         \/ member[m].state = "reserved"
         \/ w = "stray" /\ member[m].cleanup = "yes"
         \/ o.kind = "commit" /\ o.state = "landed" /\ member[m].state = "ready"
    /\ o.kind = "create" /\ o.state = "landed" => box[m] = "ready"
    /\ o.kind \in {"session", "commit"} => box[m] = "ready"
    /\ o.kind = "session" /\ o.state = "landed" => session[m] = "yes"
    /\ o.kind = "commit" => session[m] = "yes"
    /\ o.kind \in Cleans => member[m].state = "failed"
    /\ o.kind \in {"retire", "mark"} => session[m] = "no"
    /\ o.kind = "retire" /\ o.state = "landed" => box[m] \in {"none", "retired"}
    /\ o.kind = "mark" => box[m] \in {"none", "retired"}

OperationsFit == \A w \in Wait : OperationFits(w)

(* Only workers that failed are cleaned up, and no message is addressed to a *)
(* worker that was not reserved.                                             *)
MembersFit ==
    /\ \A m \in Members : member[m].cleanup = "yes" => member[m].state = "failed"
    /\ \A n \in Notes : note[n] # "none" => member[n[2]].state # "none"
    /\ \A c \in Calls : \A m \in call[c].audience : member[m].state = "ready"
    /\ \A n \in del.todo \ del.dead : member[n[2]].state = "ready"
    /\ \A n \in del.todo \cup del.cur : member[n[2]].state # "none"

(* The inductive invariant, but for the budgets.                             *)
SwarmInv ==
    /\ SwarmTypeOK
    /\ OneOperation /\ WorkersInHand /\ OperationsFit /\ MembersFit
    /\ ReadyIsEquipped /\ FailedGetsNoWork /\ CleanedLeavesNothing
    /\ NotifiedOnce /\ RequestOnce

-----------------------------------------------------------------------------
(* The updates of the records of the module yield such records.              *)
LEMMA PassUpdate ==
    /\ Idle \in Pass
    /\ \A pc \in {"idle", "provision", "catch", "clean"}, s \in SUBSET Members :
           [Idle EXCEPT !.pc = pc, !.todo = s] \in Pass
    /\ \A p \in Pass, pc \in {"idle", "provision", "catch", "clean"} :
           /\ [p EXCEPT !.pc = pc] \in Pass
           /\ [p EXCEPT !.pc = pc, !.cur = NoMember, !.hard = "no"] \in Pass
           /\ \A s \in SUBSET Members : [p EXCEPT !.pc = pc, !.todo = s] \in Pass
    /\ \A p \in Pass :
           /\ [p EXCEPT !.late = "yes"] \in Pass
           /\ [p EXCEPT !.hard = "yes"] \in Pass
           /\ [p EXCEPT !.cur = NoMember] \in Pass
           /\ \A m \in Members : [p EXCEPT !.todo = @ \ {m}, !.cur = m] \in Pass
<1>1. Idle \in Pass
  BY DEF Pass, Idle
<1>2. \A p \in Pass, pc \in {"idle", "provision", "catch", "clean"} :
        /\ [p EXCEPT !.pc = pc] \in Pass
        /\ [p EXCEPT !.pc = pc, !.cur = NoMember, !.hard = "no"] \in Pass
  BY DEF Pass
<1>3. \A p \in Pass, pc \in {"idle", "provision", "catch", "clean"} :
        \A s \in SUBSET Members : [p EXCEPT !.pc = pc, !.todo = s] \in Pass
  BY DEF Pass
<1>4. \A p \in Pass :
        /\ [p EXCEPT !.late = "yes"] \in Pass
        /\ [p EXCEPT !.hard = "yes"] \in Pass
        /\ [p EXCEPT !.cur = NoMember] \in Pass
  BY DEF Pass
<1>5. ASSUME NEW p \in Pass, NEW m \in Members
      PROVE  [p EXCEPT !.todo = @ \ {m}, !.cur = m] \in Pass
  <2>1. p.todo \ {m} \in SUBSET Members
    BY DEF Pass
  <2> QED
    BY <2>1 DEF Pass
<1> QED
  BY <1>1, <1>2, <1>3, <1>4, <1>5

(* An operation of the pass that is sent, lands or fails.                    *)
LEMMA OperationUpdate ==
    /\ NoOp \in Operation
    /\ \A o \in Operation, s \in {"sent", "landed", "failed"} :
           [o EXCEPT !.state = s] \in Operation
    /\ \A k \in Provisions \cup Cleans, m \in Members :
           [kind |-> k, member |-> m, state |-> "sent"] \in Operation
  BY DEF Operation, NoOp, Provisions, Cleans

(* A member whose state or need of cleaning changes.                         *)
LEMMA MemberUpdate ==
    ASSUME NEW m \in Member, NEW s \in {"none", "reserved", "ready", "failed"},
           NEW flag \in {"no", "yes"}
    PROVE  /\ [m EXCEPT !.state = s] \in Member
           /\ [m EXCEPT !.state = s, !.cleanup = flag] \in Member
           /\ [m EXCEPT !.cleanup = flag] \in Member
           /\ [m EXCEPT !.attempts = @ + 1] \in Member
<1>1. m.attempts + 1 \in Nat
  BY DEF Member
<1> QED
  BY <1>1 DEF Member

(* What an operation does keeps the shapes.                                  *)
LEMMA LandsType ==
    ASSUME SwarmTypeOK, OneOperation, NEW w \in Wait, Lands(w)
    PROVE  SwarmTypeOK'
<1> USE DEF SwarmTypeOK
<1>1. /\ UNCHANGED <<attempt, call, expired, note, del, run, res>>
      /\ op[w] \in Operation /\ member \in [Members -> Member]
  BY DEF Lands, Steps, apiVars, deliveryVars
<1>2. op[w].kind # "none" => op[w].member \in Members /\ op[w] # NoOp
  BY DEF OneOperation, NoOp
<1>3. ASSUME NEW s \in {"sent", "landed", "failed"}, op[w].kind # "none",
             op' = [op EXCEPT ![w].state = s]
      PROVE  /\ op' \in [Wait -> Operation]
             /\ op'["awaited"] # NoOp => /\ res'.pc \in {"provision", "clean"}
                                         /\ res'.cur = op'["awaited"].member
  <2>1. [op[w] EXCEPT !.state = s] \in Operation
    BY <1>1, OperationUpdate
  <2>2. op' \in [Wait -> Operation]
    BY <1>3, <2>1
  <2>3. CASE w = "awaited"
    <3>1. op'["awaited"].member = op["awaited"].member
      BY <1>1, <1>3, <2>3 DEF Operation, Wait
    <3> QED
      BY <1>1, <1>2, <1>3, <2>2, <2>3, <3>1
  <2>4. CASE w # "awaited"
    BY <1>1, <1>3, <2>2, <2>4 DEF Wait
  <2> QED
    BY <2>2, <2>3, <2>4
<1>4. CASE Count(w)
  <2>1. [member[op[w].member] EXCEPT !.attempts = @ + 1] \in Member
    BY <1>1, <1>2, <1>4, MemberUpdate DEF Count, Landed
  <2> QED
    BY <1>1, <1>2, <1>3, <1>4, <2>1 DEF Count, Landed, NoFault, worldVars
<1>5. CASE Create(w)
  BY <1>1, <1>2, <1>3, <1>5 DEF Create
<1>6. CASE Session(w)
  BY <1>1, <1>2, <1>3, <1>6 DEF Session, Landed, NoFault
<1>7. CASE Commit(w)
  <2>1. [member[op[w].member] EXCEPT !.state = "ready"] \in Member
    BY <1>1, <1>2, <1>7, MemberUpdate DEF Commit, Landed, Failed
  <2> QED
    BY <1>1, <1>2, <1>3, <1>7, <2>1
       DEF Commit, Landed, Failed, NoFault, worldVars
<1>8. CASE Delete(w)
  BY <1>1, <1>2, <1>3, <1>8 DEF Delete, Landed, NoFault
<1>9. CASE Retire(w)
  BY <1>1, <1>2, <1>3, <1>9 DEF Retire, Landed, NoFault
<1>10. CASE Mark(w)
  <2>1. [member[op[w].member] EXCEPT !.cleanup = "no"] \in Member
    BY <1>1, <1>2, <1>10, MemberUpdate DEF Mark, Landed
  <2> QED
    BY <1>1, <1>2, <1>3, <1>10, <2>1 DEF Mark, Landed, NoFault, worldVars
<1>11. CASE Fails(w)
  BY <1>1, <1>2, <1>3, <1>11, SwarmAssumption
     DEF Fails, Failed, Fault, HalfProvided
<1> QED
  BY <1>4, <1>5, <1>6, <1>7, <1>8, <1>9, <1>10, <1>11 DEF Lands

(* Following names the kind of the operation to send next.                   *)
LEMMA FollowingType ==
    ASSUME NEW o \in Operation
    PROVE  Following(o) \in {"create", "session", "commit", "retire", "mark",
                             "none"}
  BY DEF Following, After, Operation

(* The pass that an error or a timeout leaves behind is one.                 *)
LEMMA ThrownType == res \in Pass => Thrown \in Pass
  BY PassUpdate DEF Thrown

(* The calls of the API keep the shapes.                                     *)
LEMMA ApiType ==
    ASSUME SwarmTypeOK,
           \/ RunReplaced \/ Expire
           \/ \E c \in Calls : Read(c) \/ Write(c, Fresh)
    PROVE  SwarmTypeOK'
<1> USE DEF SwarmTypeOK
<1>1. CASE RunReplaced
  BY <1>1 DEF RunReplaced, worldVars, deliveryVars
<1>2. CASE Expire
  BY <1>2 DEF Expire, apiVars, worldVars, deliveryVars
<1>3. ASSUME NEW c \in Calls, Read(c) PROVE SwarmTypeOK'
  BY <1>3 DEF Read, Answers, In, worldVars
<1>4. ASSUME NEW c \in Calls, Write(c, Fresh) PROVE SwarmTypeOK'
  <2>1. UNCHANGED <<attempt, expired, box, session, res, op, del, run, faults>>
    BY <1>4 DEF Write, worldVars
  <2>2. CASE \E pc \in {"refused", "answered"} : Answers(c, pc)
    BY <2>1, <2>2 DEF Answers
  <2>3. ASSUME NEW workers, NEW recipients, Reserve(c, workers, recipients)
        PROVE  SwarmTypeOK'
    <3>1. \A m \in Members : [member[m] EXCEPT !.state = "reserved"] \in Member
      BY MemberUpdate
    <3>2. member' \in [Members -> Member]
      BY <2>3, <3>1 DEF Reserve
    <3>3. note' \in [Notes -> {"none", "pending", "queued", "failed"}]
      BY <2>3 DEF Reserve
    <3>4. call' \in [Calls -> [pc : {"new", "read", "written", "answered", "refused"},
                               audience : SUBSET Members]]
      BY <2>3 DEF Reserve
    <3> QED
      BY <2>1, <3>2, <3>3, <3>4
  <2> QED
    BY <1>4, <2>2, <2>3 DEF Write
<1> QED
  BY <1>1, <1>2, <1>3, <1>4

(* The pass over the resources keeps the shapes.                             *)
LEMMA ResourceType ==
    ASSUME SwarmTypeOK, OneOperation, WorkersInHand,
           \/ ResourceStep \/ DeadlinePasses \/ TimesOut \/ CrashResources
    PROVE  SwarmTypeOK'
<1> USE DEF SwarmTypeOK
<1>a. /\ res \in Pass /\ Idle \in Pass /\ Thrown \in Pass
      /\ In({"reserved"}) \in SUBSET Members /\ Unclean \in SUBSET Members
  BY PassUpdate, ThrownType DEF In, Unclean
<1>b. /\ Wait = {"awaited", "stray"}
      /\ \A w \in Wait : op[w] \in Operation
      /\ NoOp \in Operation
      /\ Over \in [Wait -> Operation] /\ Over["awaited"] = NoOp
  BY OperationUpdate DEF Wait, Over
<1>c. ASSUME NEW k \in Provisions \cup Cleans, NEW m \in Members
      PROVE  /\ Sent(k, m) \in [Wait -> Operation]
             /\ Sent(k, m)["awaited"].member = m
  BY OperationUpdate DEF Sent, Wait
<1>d. ASSUME NEW m \in Members
      PROVE  /\ Taken(m) \in Pass /\ Taken(m).cur = m /\ Taken(m).pc = res.pc
             /\ [Taken(m) EXCEPT !.pc = "catch"] \in Pass
  <2>1. Taken(m) \in Pass
    BY <1>a, PassUpdate DEF Taken
  <2>2. Taken(m).cur = m /\ Taken(m).pc = res.pc
    BY <1>a DEF Taken, Pass
  <2> QED
    BY <2>1, <2>2, PassUpdate
<1>e. res.cur = NoMember => op["awaited"] = NoOp
  BY <1>b, SwarmAssumption DEF OneOperation
<1>1. CASE BeginResources
  <2>1. res' \in Pass /\ op["awaited"] = NoOp
    BY <1>1, <1>a, PassUpdate DEF BeginResources, LockFree
  <2> QED
    BY <1>1, <2>1 DEF BeginResources, Steps, apiVars, worldVars, deliveryVars
<1>2. CASE BeginCleanup
  <2>1. res' \in Pass /\ op["awaited"] = NoOp
    BY <1>2, <1>a, <1>e, PassUpdate DEF BeginCleanup
  <2> QED
    BY <1>2, <2>1 DEF BeginCleanup, Steps, apiVars, worldVars, deliveryVars
<1>3. CASE EndResources
  <2>1. op["awaited"] = NoOp
    BY <1>3, <1>e DEF EndResources
  <2> QED
    BY <1>3, <1>a, <2>1 DEF EndResources, Steps, apiVars, worldVars, deliveryVars
<1>4. ASSUME NEW m \in Members, Start(m) PROVE SwarmTypeOK'
  <2>1. op["awaited"] = NoOp
    BY <1>4, <1>e DEF Start
  <2> DEFINE k == "count"
  <2>2. k \in Provisions \cup Cleans
    BY DEF Provisions, Cleans
  <2>3. /\ Sent(k, m) \in [Wait -> Operation]
        /\ Sent(k, m)["awaited"].member = m
    BY <1>c, <2>2
  <2>4. /\ res' \in Pass /\ op' \in [Wait -> Operation]
        /\ op'["awaited"] # NoOp => res'.pc = res.pc /\ res'.cur = m
        /\ op'["awaited"] # NoOp => op'["awaited"].member = m
    <3>1. CASE res' = [Taken(m) EXCEPT !.pc = "catch"] /\ UNCHANGED op
      BY <3>1, <1>d, <2>1
    <3>2. CASE res' = Taken(m) /\ op' = Sent("count", m)
      BY <3>2, <1>d, <2>3
    <3> QED
      BY <1>4, <3>1, <3>2 DEF Start
  <2> QED
    BY <1>4, <2>4 DEF Start, Steps, apiVars, worldVars, deliveryVars
<1>5. ASSUME NEW m \in Members, Clean(m) PROVE SwarmTypeOK'
  <2>1. op["awaited"] = NoOp
    BY <1>5, <1>e DEF Clean
  <2> DEFINE k == IF session[m] = "yes" THEN "delete" ELSE "retire"
  <2>2. k \in Provisions \cup Cleans
    BY DEF Provisions, Cleans
  <2>3. /\ Sent(k, m) \in [Wait -> Operation]
        /\ Sent(k, m)["awaited"].member = m
    BY <1>c, <2>2
  <2>4. /\ res' \in Pass /\ op' \in [Wait -> Operation]
        /\ op'["awaited"] # NoOp => res'.pc = res.pc /\ res'.cur = m
        /\ op'["awaited"] # NoOp => op'["awaited"].member = m
    BY <1>5, <1>a, <1>d, <2>1, <2>3 DEF Clean
  <2> QED
    BY <1>5, <2>4 DEF Clean, Steps, apiVars, worldVars, deliveryVars
<1>6. ASSUME NEW w \in Wait, Lands(w) PROVE SwarmTypeOK'
  BY <1>6, LandsType
<1>7. CASE Returns
  <2>1. op["awaited"].member \in Members /\ res.cur = op["awaited"].member
    BY <1>7, <1>b DEF Returns, OneOperation
  <2>2. CASE Following(op["awaited"]) = "none"
    <3>1. [res EXCEPT !.cur = NoMember] \in Pass
      BY <1>a, PassUpdate
    <3> QED
      BY <1>7, <1>b, <2>2, <3>1
         DEF Returns, Steps, apiVars, worldVars, deliveryVars
  <2>3. CASE Following(op["awaited"]) # "none"
    <3>1. Following(op["awaited"]) \in Provisions \cup Cleans
      BY <1>b, <2>3, FollowingType DEF Provisions, Cleans
    <3> QED
      BY <1>7, <1>a, <1>b, <1>c, <2>1, <2>3, <3>1
         DEF Returns, Steps, apiVars, worldVars, deliveryVars
  <2> QED
    BY <2>2, <2>3
<1>8. CASE Throws
  BY <1>8, <1>a, <1>b DEF Throws, Steps, apiVars, worldVars, deliveryVars
<1>9. CASE Settles
  <2>1. op' \in [Wait -> Operation] /\ op'["awaited"] = op["awaited"]
    BY <1>9, <1>b DEF Settles
  <2> QED
    BY <1>9, <2>1 DEF Settles, Steps, apiVars, worldVars, deliveryVars
<1>10. CASE Catch
  <2>1. op["awaited"] = NoOp
    BY <1>10, <1>a DEF Catch
  <2>2. res' \in Pass
    <3>1. [res EXCEPT !.pc = "provision", !.cur = NoMember, !.hard = "no"] \in Pass
      BY <1>a, PassUpdate
    <3> QED
      BY <1>10, <1>a, <3>1 DEF Catch
  <2>3. res.cur \in Members
    BY <1>10 DEF Catch, WorkersInHand
  <2>4. [member[res.cur] EXCEPT !.state = "failed", !.cleanup = "yes"] \in Member
    BY <2>3, MemberUpdate
  <2>5. member' \in [Members -> Member]
    BY <1>10, <2>4 DEF Catch
  <2>6. faults' \in 0..MaxFaults
    BY <1>10, SwarmAssumption DEF Catch, NoFault, Fault
  <2> QED
    BY <1>10, <2>1, <2>2, <2>5, <2>6
       DEF Catch, Steps, apiVars, worldVars, deliveryVars
<1>11. CASE DeadlinePasses
  <2>1. /\ res' \in Pass /\ res'.pc = res.pc /\ res'.cur = res.cur
        /\ faults' \in 0..MaxFaults
    BY <1>11, <1>a, SwarmAssumption DEF DeadlinePasses, Fault, Pass
  <2> QED
    BY <1>11, <2>1 DEF DeadlinePasses, Steps, apiVars, worldVars, deliveryVars
<1>12. CASE TimesOut
  <2>1. res' \in Pass /\ faults' \in 0..MaxFaults
    <3>1. Thrown \in Pass /\ [Thrown EXCEPT !.hard = "yes"] \in Pass
      BY <1>a, ThrownType, PassUpdate
    <3>2. res' \in Pass
      BY <1>12, <3>1 DEF TimesOut
    <3>3. faults' = faults \/ (faults < MaxFaults /\ faults' = faults + 1)
      <4> HIDE DEF SwarmTypeOK
      <4>1. NoFault \/ Fault("slow")
        BY <1>12, Zenon DEF TimesOut
      <4> QED
        BY <4>1 DEF Fault, NoFault
    <3>4. faults' \in 0..MaxFaults
      BY <3>3, SwarmAssumption
    <3> QED
      BY <3>2, <3>4
  <2>2. op' \in [Wait -> Operation] /\ op'["awaited"] = NoOp
    BY <1>12, <1>b DEF TimesOut
  <2> QED
    BY <1>12, <2>1, <2>2 DEF TimesOut, Steps, apiVars, worldVars, deliveryVars
<1>13. CASE CrashResources
  <2>1. faults' \in 0..MaxFaults /\ res' \in Pass
    BY <1>13, <1>a, SwarmAssumption DEF CrashResources, Fault
  <2>2. op' \in [Wait -> Operation] /\ op'["awaited"] = NoOp
    BY <1>13, <1>b DEF CrashResources
  <2>3. box' \in [Members -> {"none", "provisioning", "ready", "retired"}]
    BY <1>13 DEF CrashResources, HalfProvided
  <2> QED
    BY <1>13, <2>1, <2>2, <2>3 DEF CrashResources, Steps, apiVars, deliveryVars
<1> QED
  BY <1>1, <1>2, <1>3, <1>4, <1>5, <1>6, <1>7, <1>8, <1>9, <1>10, <1>11,
     <1>12, <1>13 DEF ResourceStep

(* The pass over the notifications and the runs keep the shapes.             *)
LEMMA DeliveryType ==
    ASSUME SwarmTypeOK,
           DeliveryStep \/ CrashDelivery \/ \E n \in Notes : Execute(n)
    PROVE  SwarmTypeOK'
<1> USE DEF SwarmTypeOK, Delivers, apiVars, worldVars
<1>1. CASE BeginDelivery
  BY <1>1 DEF BeginDelivery, Undelivered
<1>2. ASSUME NEW n \in Notes, MarkFailed(n) PROVE SwarmTypeOK'
  BY <1>2 DEF MarkFailed
<1>3. ASSUME NEW n \in Notes, Enqueue(n) PROVE SwarmTypeOK'
  <2>1. Enqueued(run[n]) \in [enqueued : Nat,
                              state : {"none", "queued", "ran", "refused"}]
    BY DEF Enqueued
  <2> QED
    BY <1>3, <2>1 DEF Enqueue
<1>4. ASSUME NEW n \in Notes, MarkQueued(n) PROVE SwarmTypeOK'
  BY <1>4 DEF MarkQueued
<1>5. CASE CrashDelivery
  BY <1>5, SwarmAssumption DEF CrashDelivery, NoDelivery, Fault
<1>6. ASSUME NEW n \in Notes, Execute(n) PROVE SwarmTypeOK'
  BY <1>6 DEF Execute
<1> QED
  BY <1>1, <1>2, <1>3, <1>4, <1>5, <1>6 DEF DeliveryStep

(* Every step keeps the shapes.                                              *)
LEMMA SwarmStepType ==
    ASSUME SwarmTypeOK, OneOperation, WorkersInHand, [SwarmNext]_swarmVars
    PROVE  SwarmTypeOK'
<1>1. CASE UNCHANGED swarmVars
  BY <1>1 DEF swarmVars, apiVars, worldVars, deliveryVars, SwarmTypeOK
<1> QED
  BY <1>1, ApiType, ResourceType, DeliveryType DEF SwarmNext
-----------------------------------------------------------------------------
(* A budget that affords a worker leaves an id for it.                       *)
LEMMA FreshIsNone ==
    ASSUME NEW w, NEW recipients, Affordable({w}, recipients)
    PROVE  Fresh \in Members /\ member[Fresh].state = "none"
<1>1. In({"none"}) # {}
  <2> SUFFICES ASSUME In({"none"}) = {} PROVE FALSE
    OBVIOUS
  <2>1. Members \ In({"none"}) = Members
    OBVIOUS
  <2>2. Cardinality({w}) = 1
    BY FS_Singleton
  <2>3. Cardinality(Members) \in Nat /\ Agents \in Nat
    BY SwarmAssumption, FS_CardinalityType
  <2> QED
    BY <2>1, <2>2, <2>3, SwarmAssumption DEF Affordable
<1>2. \E m \in Members : member[m].state = "none"
  BY <1>1 DEF In
<1> QED
  BY <1>2 DEF Fresh

(* The calls of the API only reserve workers, and only new ones.             *)
LEMMA ApiReserves ==
    ASSUME SwarmTypeOK,
           \/ RunReplaced \/ Expire
           \/ \E c \in Calls : Read(c) \/ Write(c, Fresh)
    PROVE  /\ UNCHANGED <<box, session, res, op, del, run>>
           /\ \A m \in Members :
                \/ member'[m] = member[m]
                \/ /\ member[m].state = "none"
                   /\ member'[m] = [member[m] EXCEPT !.state = "reserved"]
<1> USE DEF worldVars, deliveryVars, apiVars
<1>1. CASE RunReplaced
  BY <1>1 DEF RunReplaced
<1>2. CASE Expire
  BY <1>2 DEF Expire
<1>3. ASSUME NEW c \in Calls, Read(c)
      PROVE  UNCHANGED <<box, session, res, op, del, run, member>>
  BY <1>3 DEF Read, Answers
<1>4. ASSUME NEW c \in Calls, Write(c, Fresh)
      PROVE  /\ UNCHANGED <<box, session, res, op, del, run>>
             /\ \A m \in Members :
                  \/ member'[m] = member[m]
                  \/ /\ member[m].state = "none"
                     /\ member'[m] = [member[m] EXCEPT !.state = "reserved"]
  <2> DEFINE workers == IF CallOf[c].kind = "spawn" THEN {Fresh} ELSE {}
             recipients == workers \cup call[c].audience
  <2>1. UNCHANGED <<box, session, res, op, del, run>>
    BY <1>4 DEF Write
  <2>2. CASE member' = member
    BY <2>1, <2>2
  <2>3. CASE Affordable(workers, recipients) /\ Reserve(c, workers, recipients)
    <3>1. \A m \in workers : m \in Members /\ member[m].state = "none"
      <4>1. CASE CallOf[c].kind = "spawn"
        BY <2>3, <4>1, FreshIsNone
      <4>2. CASE CallOf[c].kind # "spawn"
        BY <4>2
      <4> QED
        BY <4>1, <4>2
    <3> QED
      BY <2>1, <2>3, <3>1 DEF Reserve
  <2> QED
    BY <1>4, <2>2, <2>3 DEF Write, Answers
<1> QED
  BY <1>1, <1>2, <1>3, <1>4

(* What the API leaves of the inductive invariant.                           *)
LEMMA ApiStep ==
    ASSUME SwarmInv, SwarmTypeOK',
           \/ RunReplaced \/ Expire
           \/ \E c \in Calls : Read(c) \/ Write(c, Fresh)
    PROVE  SwarmInv'
<1> USE DEF SwarmInv
<1>1. /\ UNCHANGED <<box, session, res, op, del, run>>
      /\ \A m \in Members :
           /\ \/ member'[m].state = member[m].state
              \/ member[m].state = "none" /\ member'[m].state = "reserved"
           /\ member'[m].cleanup = member[m].cleanup
  <2>1. \A m \in Members : member[m] \in Member
    BY DEF SwarmTypeOK
  <2> QED
    BY <2>1, ApiReserves DEF Member
<1>2. OneOperation'
  BY <1>1 DEF OneOperation
<1>3. WorkersInHand'
  <2>1. res.todo \subseteq Members
    BY DEF SwarmTypeOK, Pass
  <2> QED
    BY <1>1, <2>1 DEF WorkersInHand
<1>4. OperationsFit'
  <2>1. \A w \in Wait : op[w].kind \in Provisions \cup Cleans => op[w].member \in Members
    BY DEF OneOperation, NoOp, Provisions, Cleans
  <2>2. \A m \in Members : member[m].cleanup = "yes" => member[m].state = "failed"
    BY DEF MembersFit
  <2> QED
    BY <1>1, <2>1, <2>2 DEF OperationsFit, OperationFits, Provisions, Cleans
<1>5. ReadyIsEquipped' /\ CleanedLeavesNothing'
  BY <1>1 DEF ReadyIsEquipped, CleanedLeavesNothing, In, Unclean
<1>6. FailedGetsNoWork' /\ NotifiedOnce'
  BY <1>1 DEF FailedGetsNoWork, NotifiedOnce, Notes
<1>7. MembersFit' /\ RequestOnce'
  <2>1. /\ \A m \in Members :
             member'[m].cleanup = "yes" => member'[m].state = "failed"
        /\ \A n \in Notes : note[n] # "none" => member'[n[2]].state # "none"
        /\ \A m \in Members : member[m].state = "ready" => member'[m].state = "ready"
        /\ \A n \in del'.todo \ del'.dead : member'[n[2]].state = "ready"
        /\ \A n \in del'.todo \cup del'.cur : member'[n[2]].state # "none"
    <3>1. del.todo \subseteq Notes /\ del.cur \subseteq Notes
      BY DEF SwarmTypeOK
    <3>2. \A n \in Notes : n[2] \in Members
      BY DEF Notes
    <3>3. \A m \in Members : member[m].state = "ready" => member'[m].state = "ready"
      BY <1>1
    <3>4. \A m \in Members : member[m].state # "none" => member'[m].state # "none"
      BY <1>1
    <3>5. \A m \in Members : member'[m].cleanup = "yes" => member'[m].state = "failed"
      BY <1>1 DEF MembersFit
    <3>6. \A n \in Notes : note[n] # "none" => member'[n[2]].state # "none"
      BY <3>2, <3>4 DEF MembersFit
    <3>7. /\ \A n \in del.todo \ del.dead : member'[n[2]].state = "ready"
          /\ \A n \in del.todo \cup del.cur : member'[n[2]].state # "none"
      BY <3>1, <3>2, <3>3, <3>4 DEF MembersFit
    <3> QED
      BY <1>1, <3>3, <3>5, <3>6, <3>7
  <2>2. \A c \in Calls : call[c].audience \subseteq Members
    BY DEF SwarmTypeOK
  <2>3. \A c \in Calls : \A m \in call[c].audience : member'[m].state = "ready"
    BY <2>1, <2>2 DEF MembersFit
  <2>4. CASE UNCHANGED <<note, call>>
    BY <2>1, <2>3, <2>4 DEF MembersFit, RequestOnce, Written
  <2>5. ASSUME NEW c \in Calls, NEW pc \in {"refused", "answered"},
               Answers(c, pc)
        PROVE  MembersFit' /\ RequestOnce'
    <3>1. /\ \A d \in Calls : call'[d].audience = call[d].audience
          /\ Written' \subseteq Written /\ note' = note
      BY <2>5 DEF Answers, SwarmTypeOK, Written
    <3> QED
      BY <2>1, <2>3, <3>1 DEF MembersFit, RequestOnce
  <2>6. ASSUME NEW c \in Calls, Read(c) PROVE MembersFit' /\ RequestOnce'
    <3> DEFINE audience == IF CallOf[c].kind = "send" THEN In({"ready"}) ELSE {}
    <3>1. CASE /\ call' = [call EXCEPT ![c].pc = "read", ![c].audience = audience]
               /\ UNCHANGED <<member, note>>
      <4>1. /\ \A d \in Calls : \/ call'[d].audience = call[d].audience
                                \/ call'[d].audience = audience
            /\ Written' \subseteq Written
        BY <3>1 DEF SwarmTypeOK, Written
      <4>2. \A m \in audience : member'[m].state = "ready"
        BY <3>1 DEF In
      <4>3. \A d \in Calls : \A m \in call'[d].audience : member'[m].state = "ready"
        BY <2>3, <4>1, <4>2
      <4>4. MembersFit'
        BY <2>1, <3>1, <4>3 DEF MembersFit
      <4>5. RequestOnce'
        BY <4>1 DEF RequestOnce
      <4> QED
        BY <4>4, <4>5
    <3> QED
      BY <2>5, <2>6, <3>1 DEF Read
  <2>7. ASSUME NEW c \in Calls, Write(c, Fresh) PROVE MembersFit' /\ RequestOnce'
    <3> DEFINE workers == IF CallOf[c].kind = "spawn" THEN {Fresh} ELSE {}
               recipients == workers \cup call[c].audience
    <3>1. CASE /\ ~Known(c) /\ Affordable(workers, recipients)
               /\ Reserve(c, workers, recipients)
      <4>1. /\ \A d \in Calls : call'[d].audience = call[d].audience
            /\ Written' = Written \cup {c}
        BY <3>1 DEF Reserve, SwarmTypeOK, Written
      <4>2. \A m \in workers : m \in Members /\ member'[m].state = "reserved"
        <5>1. \A m \in workers : m \in Members
          BY <3>1, FreshIsNone
        <5>2. \A m \in Members : member[m] \in Member
          BY DEF SwarmTypeOK
        <5> QED
          BY <3>1, <5>1, <5>2 DEF Reserve, Member
      <4>3. \A m \in recipients : member'[m].state # "none"
        BY <2>3, <4>2
      <4>4. \A n \in Notes : note'[n] # "none" => member'[n[2]].state # "none"
        BY <2>1, <3>1, <4>3 DEF Reserve
      <4>5. MembersFit'
        BY <2>1, <2>3, <4>1, <4>4 DEF MembersFit
      <4>6. RequestOnce'
        BY <3>1, <4>1 DEF RequestOnce, Known
      <4> QED
        BY <4>5, <4>6
    <3> QED
      BY <2>5, <2>7, <3>1 DEF Write
  <2>8. CASE RunReplaced \/ Expire
    BY <2>4, <2>8 DEF RunReplaced, Expire, apiVars, deliveryVars
  <2> QED
    BY <2>6, <2>7, <2>8
<1> QED
  BY <1>2, <1>3, <1>4, <1>5, <1>6, <1>7

(* What the pass over the notifications leaves of it.                        *)
LEMMA DeliveryInv ==
    ASSUME SwarmInv, SwarmTypeOK',
           DeliveryStep \/ CrashDelivery \/ \E n \in Notes : Execute(n)
    PROVE  SwarmInv'
<1> USE DEF SwarmInv
<1>1. UNCHANGED <<call, expired, member, box, session, res, op>>
  BY DEF DeliveryStep, BeginDelivery, MarkFailed, Enqueue, MarkQueued,
         CrashDelivery, Execute, Delivers, apiVars, worldVars
<1>2. /\ OneOperation' /\ WorkersInHand' /\ OperationsFit' /\ ReadyIsEquipped'
      /\ CleanedLeavesNothing' /\ RequestOnce'
  BY <1>1 DEF OneOperation, WorkersInHand, OperationsFit, OperationFits, ReadyIsEquipped,
              CleanedLeavesNothing, RequestOnce, Written, In, Unclean
<1>3. MembersFit' /\ FailedGetsNoWork' /\ NotifiedOnce'
  <2>1. CASE BeginDelivery
    <3>1. /\ \A n \in del'.todo \ del'.dead : member[n[2]].state = "ready"
          /\ \A n \in del'.todo \cup del'.cur : member[n[2]].state # "none"
      <4>1. \A n \in Notes : member[n[2]] \in Member
        BY DEF SwarmTypeOK, Notes
      <4> QED
        BY <2>1, <4>1 DEF BeginDelivery, Undelivered, MembersFit, Member
    <3> QED
      BY <1>1, <2>1, <3>1
         DEF BeginDelivery, MembersFit, FailedGetsNoWork, NotifiedOnce
  <2>2. ASSUME NEW n \in Notes, MarkFailed(n) \/ MarkQueued(n)
        PROVE  MembersFit' /\ FailedGetsNoWork' /\ NotifiedOnce'
    <3>1. /\ run' = run /\ del'.todo \ del'.dead \subseteq del.todo \ del.dead
          /\ del'.todo \cup del'.cur \subseteq del.todo \cup del.cur
          /\ n \in del.todo \cup del.cur
          /\ \A k \in Notes \ {n} : note'[k] = note[k]
      <4>1. CASE MarkFailed(n)
        BY <4>1 DEF MarkFailed, SwarmTypeOK
      <4>2. CASE MarkQueued(n)
        BY <4>2 DEF MarkQueued, SwarmTypeOK
      <4> QED
        BY <2>2, <4>1, <4>2
    <3>2. MembersFit'
      BY <1>1, <3>1 DEF MembersFit
    <3> QED
      BY <1>1, <3>1, <3>2 DEF FailedGetsNoWork, NotifiedOnce
  <2>3. ASSUME NEW n \in Notes, Enqueue(n)
        PROVE  MembersFit' /\ FailedGetsNoWork' /\ NotifiedOnce'
    <3>1. /\ note' = note /\ n \in del.todo \ del.dead
          /\ run' = [run EXCEPT ![n] = Enqueued(@)]
          /\ del'.todo \ del'.dead \subseteq del.todo \ del.dead
          /\ del'.todo \cup del'.cur \subseteq del.todo
      BY <2>3 DEF Enqueue, SwarmTypeOK
    <3>2. MembersFit'
      BY <1>1, <3>1 DEF MembersFit
    <3>3. member[n[2]].state = "ready"
      BY <3>1 DEF MembersFit
    <3>4. /\ \A k \in Notes \ {n} : run'[k] = run[k]
          /\ run[n].enqueued <= 1 => run'[n].enqueued <= 1
      BY <3>1 DEF SwarmTypeOK, Enqueued
    <3> QED
      BY <1>1, <3>2, <3>3, <3>4 DEF FailedGetsNoWork, NotifiedOnce
  <2>4. ASSUME NEW n \in Notes, Execute(n)
        PROVE  MembersFit' /\ FailedGetsNoWork' /\ NotifiedOnce'
    <3>1. /\ note' = note /\ del' = del
          /\ \A k \in Notes : run'[k].enqueued = run[k].enqueued
      BY <2>4 DEF Execute, SwarmTypeOK
    <3> QED
      BY <1>1, <3>1 DEF MembersFit, FailedGetsNoWork, NotifiedOnce
  <2>5. CASE CrashDelivery
    BY <1>1, <2>5 DEF CrashDelivery, NoDelivery, MembersFit, FailedGetsNoWork,
                      NotifiedOnce
  <2> QED
    BY <2>1, <2>2, <2>3, <2>4, <2>5 DEF DeliveryStep
<1> QED
  BY <1>2, <1>3

(* How an operation changes, and what it leaves alone.                       *)
LEMMA OperationStep ==
    ASSUME SwarmTypeOK, OneOperation, NEW w \in Wait, op[w].kind # "none",
           NEW s \in {"sent", "landed", "failed"},
           op' = [op EXCEPT ![w].state = s]
    PROVE  /\ op[w].member \in Members
           /\ op'[w].kind = op[w].kind /\ op'[w].member = op[w].member
           /\ op'[w].state = s
           /\ \A v \in Wait \ {w} : op[v] = NoOp /\ op'[v] = NoOp
<1>1. op[w] \in Operation /\ op[w] # NoOp
  BY DEF SwarmTypeOK, NoOp
<1>2. op[w].member \in Members
  BY <1>1 DEF OneOperation
<1>3. \A v \in Wait \ {w} : op[v] = NoOp /\ op'[v] = op[v]
  BY <1>1 DEF OneOperation, Wait, SwarmTypeOK
<1> QED
  BY <1>1, <1>2, <1>3 DEF SwarmTypeOK, Operation

(* The steps of the invariant that are about one operation, when only its    *)
(* state changes.                                                            *)
LEMMA OneOperationStep ==
    ASSUME SwarmTypeOK, OneOperation, NEW w \in Wait, op[w].kind # "none",
           NEW s \in {"sent", "landed", "failed"},
           op' = [op EXCEPT ![w].state = s], res' = res
    PROVE  OneOperation'
<1>1. /\ op[w].member \in Members
      /\ op'[w].kind = op[w].kind /\ op'[w].member = op[w].member
      /\ \A v \in Wait \ {w} : op[v] = NoOp /\ op'[v] = NoOp
  BY OperationStep
<1>2. op[w] # NoOp /\ op'[w] # NoOp
  BY <1>1 DEF NoOp
<1>3. CASE w = "awaited"
  BY <1>1, <1>2, <1>3 DEF OneOperation, Wait
<1>4. CASE w = "stray"
  BY <1>1, <1>2, <1>4 DEF OneOperation, Wait, NoOp, Provisions, Cleans
<1> QED
  BY <1>3, <1>4 DEF Wait

(* An operation is not about the worker that the pass has still to take, and *)
(* about a ready worker only once it has committed.                          *)
LEMMA LandsInv ==
    ASSUME SwarmInv, SwarmTypeOK', NEW w \in Wait, Lands(w)
    PROVE  /\ OneOperation' /\ WorkersInHand' /\ OperationsFit'
           /\ ReadyIsEquipped' /\ CleanedLeavesNothing'
<1> DEFINE o == op[w]
           m == op[w].member
<1> USE DEF SwarmInv
<1>1. /\ res' = res /\ o \in Operation /\ member \in [Members -> Member]
      /\ box \in [Members -> {"none", "provisioning", "ready", "retired"}]
      /\ session \in [Members -> {"no", "yes"}]
  BY DEF Lands, SwarmTypeOK
<1>2. /\ o.kind # "none" /\ o.state = "sent"
      /\ \E s \in {"sent", "landed", "failed"} : op' = [op EXCEPT ![w].state = s]
  BY DEF Lands, Count, Create, Session, Commit, Delete, Retire, Mark, Fails,
         Landed, Failed
<1>3. PICK s \in {"sent", "landed", "failed"} : op' = [op EXCEPT ![w].state = s]
  BY <1>2
<1>4. /\ m \in Members /\ op'[w].kind = o.kind /\ op'[w].member = m
      /\ op'[w].state = s
      /\ \A v \in Wait \ {w} : op[v] = NoOp /\ op'[v] = NoOp
  BY <1>2, <1>3, OperationStep
<1>5. OneOperation'
  BY <1>1, <1>2, <1>3, OneOperationStep
<1>6. w = "awaited" => m = res.cur /\ m \notin res.todo
  BY <1>2 DEF SwarmTypeOK, NoOp, WorkersInHand
<1>7. /\ res.todo \subseteq Members
      /\ \A k \in Members : member[k] \in Member
  BY <1>1 DEF SwarmTypeOK, Pass
<1>8. \A v \in Wait \ {w} : op'[v].kind = "none"
  BY <1>4 DEF NoOp
<1>0. \A v \in Wait \ {w} : OperationFits(v)'
  BY <1>8 DEF OperationFits, Provisions, Cleans
<1>9. ASSUME \A k \in Members : /\ member'[k].state = member[k].state
                                /\ member'[k].cleanup = member[k].cleanup
      PROVE  WorkersInHand'
  BY <1>1, <1>7, <1>9 DEF WorkersInHand
<1>10. CASE Count(w)
  <2>1. \A k \in Members : /\ member'[k].state = member[k].state
                           /\ member'[k].cleanup = member[k].cleanup
    BY <1>1, <1>7, <1>10 DEF Count, Member
  <2>2. o.kind = "count" /\ box' = box /\ session' = session
    BY <1>10 DEF Count, Landed, worldVars
  <2>3. OperationFits(w)'
    BY <1>4, <1>8, <2>1, <2>2 DEF OperationsFit, OperationFits, Provisions, Cleans
  <2>4. ReadyIsEquipped' /\ CleanedLeavesNothing'
    BY <2>1, <2>2 DEF ReadyIsEquipped, CleanedLeavesNothing, In, Unclean
  <2> QED
    BY <1>0, <1>5, <1>9, <2>1, <2>3, <2>4 DEF OperationsFit
<1>11. CASE Create(w)
  <2>1. /\ o.kind = "create" /\ member' = member /\ session' = session
        /\ \A k \in Members \ {m} : box'[k] = box[k]
        /\ box'[m] = IF box[m] = "retired" THEN box[m] ELSE "ready"
        /\ op'[w].state = "landed" => box'[m] = "ready"
    BY <1>1, <1>2, <1>4, <1>11 DEF Create, SwarmTypeOK, Operation
  <2>2. member[m].state = "reserved" \/ member[m].cleanup = "yes"
    BY <2>1 DEF OperationsFit, OperationFits, Provisions
  <2>3. OperationFits(w)'
    BY <1>4, <1>8, <2>1 DEF OperationsFit, OperationFits, Provisions, Cleans
  <2>4. ReadyIsEquipped' /\ CleanedLeavesNothing'
    BY <1>4, <2>1, <2>2 DEF ReadyIsEquipped, CleanedLeavesNothing, In, Unclean
  <2> QED
    BY <1>0, <1>5, <1>9, <2>1, <2>3, <2>4 DEF OperationsFit
<1>12. CASE Session(w)
  <2>1. /\ o.kind = "session" /\ member' = member /\ box' = box
        /\ \A k \in Members \ {m} : session'[k] = session[k]
        /\ session'[m] = "yes"
    BY <1>1, <1>4, <1>12 DEF Session, Landed
  <2>2. member[m].state = "reserved" \/ member[m].cleanup = "yes"
    BY <2>1 DEF OperationsFit, OperationFits, Provisions
  <2>3. OperationFits(w)'
    BY <1>4, <1>8, <2>1 DEF OperationsFit, OperationFits, Provisions, Cleans
  <2>4. ReadyIsEquipped' /\ CleanedLeavesNothing'
    BY <1>4, <2>1, <2>2 DEF ReadyIsEquipped, CleanedLeavesNothing, In, Unclean
  <2> QED
    BY <1>0, <1>5, <1>9, <2>1, <2>3, <2>4 DEF OperationsFit
<1>13. CASE Commit(w)
  <2>1. o.kind = "commit" /\ box' = box /\ session' = session
    BY <1>13 DEF Commit, Landed, Failed, worldVars
  <2>2. CASE InTime(w)
    <3>1. /\ w = "awaited" /\ s = "landed"
          /\ member' = [member EXCEPT ![m].state = "ready"]
      BY <1>1, <1>3, <1>4, <1>13, <2>2
         DEF Commit, InTime, Landed, SwarmTypeOK, Operation
    <3>2. /\ member[m].state = "reserved" /\ member[m].cleanup = "no"
          /\ box[m] = "ready" /\ session[m] = "yes"
      BY <1>2, <1>4, <1>7, <2>1, <3>1 DEF OperationsFit, OperationFits, Provisions, MembersFit, Member
    <3>3. /\ member'[m].state = "ready" /\ member'[m].cleanup = "no"
          /\ \A k \in Members \ {m} : member'[k] = member[k]
      BY <1>1, <1>4, <1>7, <3>1, <3>2 DEF Member
    <3>4. WorkersInHand'
      BY <1>1, <1>6, <1>7, <3>1, <3>2, <3>3 DEF WorkersInHand
    <3>5. OperationFits(w)'
      BY <1>4, <1>8, <2>1, <3>1, <3>2, <3>3 DEF OperationsFit, OperationFits, Provisions, Cleans
    <3>6. ReadyIsEquipped' /\ CleanedLeavesNothing'
      BY <1>4, <2>1, <3>2, <3>3
         DEF ReadyIsEquipped, CleanedLeavesNothing, In, Unclean
    <3> QED
      BY <1>0, <1>5, <3>4, <3>5, <3>6 DEF OperationsFit
  <2>3. CASE ~InTime(w)
    <3>1. member' = member
      BY <1>13, <2>3 DEF Commit
    <3>2. OperationFits(w)'
      BY <1>2, <1>4, <1>8, <2>1, <3>1 DEF OperationsFit, OperationFits, Provisions, Cleans
    <3>3. ReadyIsEquipped' /\ CleanedLeavesNothing'
      BY <2>1, <3>1 DEF ReadyIsEquipped, CleanedLeavesNothing, In, Unclean
    <3> QED
      BY <1>0, <1>5, <1>9, <3>1, <3>2, <3>3 DEF OperationsFit
  <2> QED
    BY <2>2, <2>3
<1>14. CASE Delete(w)
  <2>1. /\ o.kind = "delete" /\ member' = member /\ box' = box
        /\ \A k \in Members \ {m} : session'[k] = session[k]
        /\ session'[m] \in {session[m], "no"}
    BY <1>1, <1>4, <1>14 DEF Delete, Landed
  <2>2. member[m].state = "failed"
    BY <2>1 DEF OperationsFit, OperationFits, Cleans
  <2>3. OperationFits(w)'
    BY <1>4, <1>8, <2>1, <2>2 DEF OperationsFit, OperationFits, Provisions, Cleans
  <2>4. ReadyIsEquipped' /\ CleanedLeavesNothing'
    BY <1>4, <2>1, <2>2 DEF ReadyIsEquipped, CleanedLeavesNothing, In, Unclean
  <2> QED
    BY <1>0, <1>5, <1>9, <2>1, <2>3, <2>4 DEF OperationsFit
<1>15. CASE Retire(w)
  <2>1. /\ o.kind = "retire" /\ member' = member /\ session' = session
        /\ \A k \in Members \ {m} : box'[k] = box[k]
        /\ box'[m] \in {"none", "retired"}
    BY <1>1, <1>4, <1>15 DEF Retire, Landed
  <2>2. member[m].state = "failed" /\ session[m] = "no"
    BY <2>1 DEF OperationsFit, OperationFits, Cleans
  <2>3. OperationFits(w)'
    BY <1>4, <1>8, <2>1, <2>2 DEF OperationsFit, OperationFits, Provisions, Cleans
  <2>4. ReadyIsEquipped' /\ CleanedLeavesNothing'
    BY <1>4, <2>1, <2>2 DEF ReadyIsEquipped, CleanedLeavesNothing, In, Unclean
  <2> QED
    BY <1>0, <1>5, <1>9, <2>1, <2>3, <2>4 DEF OperationsFit
<1>16. CASE Mark(w)
  <2>1. /\ o.kind = "mark" /\ box' = box /\ session' = session
        /\ member' = [member EXCEPT ![m].cleanup = "no"]
    BY <1>16 DEF Mark, Landed, worldVars
  <2>2. /\ member[m].state = "failed" /\ session[m] = "no"
        /\ box[m] \in {"none", "retired"}
    BY <2>1 DEF OperationsFit, OperationFits, Cleans
  <2>3. /\ member'[m].state = "failed"
        /\ \A k \in Members \ {m} : member'[k] = member[k]
    BY <1>1, <1>4, <1>7, <2>1, <2>2 DEF Member
  <2>4. WorkersInHand'
    BY <1>1, <1>7, <2>2, <2>3 DEF WorkersInHand
  <2>5. OperationFits(w)'
    BY <1>4, <1>8, <2>1, <2>2, <2>3 DEF OperationsFit, OperationFits, Provisions, Cleans
  <2>6. ReadyIsEquipped' /\ CleanedLeavesNothing'
    BY <1>4, <2>1, <2>2, <2>3 DEF ReadyIsEquipped, CleanedLeavesNothing, In, Unclean
  <2> QED
    BY <1>0, <1>5, <2>4, <2>5, <2>6 DEF OperationsFit
<1>17. CASE Fails(w)
  <2>1. /\ s = "failed" /\ member' = member /\ session' = session
        /\ box' = HalfProvided(o)
    BY <1>1, <1>3, <1>4, <1>17 DEF Fails, Failed, SwarmTypeOK, Operation
  <2>2. CASE box' = box
    <3>1. OperationFits(w)'
      BY <1>2, <1>4, <1>8, <2>1, <2>2 DEF OperationsFit, OperationFits, Provisions, Cleans
    <3>2. ReadyIsEquipped' /\ CleanedLeavesNothing'
      BY <2>1, <2>2 DEF ReadyIsEquipped, CleanedLeavesNothing, In, Unclean
    <3> QED
      BY <1>0, <1>5, <1>9, <2>1, <3>1, <3>2 DEF OperationsFit
  <2>3. CASE box' # box
    <3>1. /\ o.kind = "create" /\ box' = [box EXCEPT ![m] = "provisioning"]
      BY <2>1, <2>3 DEF HalfProvided
    <3>2. member[m].state = "reserved" \/ member[m].cleanup = "yes"
      BY <3>1 DEF OperationsFit, OperationFits, Provisions
    <3>3. OperationFits(w)'
      BY <1>2, <1>4, <1>8, <2>1, <3>1 DEF OperationsFit, OperationFits, Provisions, Cleans
    <3>4. ReadyIsEquipped' /\ CleanedLeavesNothing'
      BY <1>1, <1>4, <2>1, <3>1, <3>2
         DEF ReadyIsEquipped, CleanedLeavesNothing, In, Unclean
    <3> QED
      BY <1>0, <1>5, <1>9, <2>1, <3>3, <3>4 DEF OperationsFit
  <2> QED
    BY <2>2, <2>3
<1> QED
  BY <1>10, <1>11, <1>12, <1>13, <1>14, <1>15, <1>16, <1>17 DEF Lands

(* The transitions of a worker's row that the pass over the resources makes. *)
RowStep(old, new) ==
    \/ new.state = old.state /\ new.cleanup = old.cleanup
    \/ /\ old.state = "reserved" /\ new.state = "ready"
       /\ new.cleanup = old.cleanup
    \/ /\ old.state = "reserved" /\ new.state = "failed"
       /\ new.cleanup = "yes"
    \/ /\ old.state = "failed" /\ new.state = "failed"
       /\ new.cleanup = "no"

(* It makes no others, and leaves the calls and the notifications alone.     *)
LEMMA ResourceMembers ==
    ASSUME SwarmInv,
           \/ ResourceStep \/ DeadlinePasses \/ TimesOut \/ CrashResources
    PROVE  /\ UNCHANGED <<call, note, del, run>>
           /\ \A m \in Members : RowStep(member[m], member'[m])
<1> USE DEF SwarmInv, Steps, apiVars, deliveryVars
<1>1. \A m \in Members : member[m] \in Member
  BY DEF SwarmTypeOK
<1>2. CASE \/ BeginResources \/ BeginCleanup \/ EndResources
           \/ \E m \in Members : Start(m) \/ Clean(m)
           \/ Returns \/ Throws \/ Settles \/ DeadlinePasses \/ TimesOut
           \/ CrashResources
  <2>1. UNCHANGED <<call, note, del, run, member>>
    BY <1>2 DEF BeginResources, BeginCleanup, EndResources, Start, Clean,
                Returns, Throws, Settles, DeadlinePasses, TimesOut, CrashResources
  <2> QED
    BY <2>1 DEF RowStep
<1>3. CASE Catch
  <2>1. UNCHANGED <<call, note, del, run>>
    BY <1>3 DEF Catch
  <2>2. CASE UNCHANGED member
    BY <2>1, <2>2 DEF RowStep
  <2>3. CASE member' = [member EXCEPT ![res.cur] =
                          [@ EXCEPT !.state = "failed", !.cleanup = "yes"]]
             /\ member[res.cur].state = "reserved"
    BY <1>1, <2>1, <2>3 DEF RowStep, Member, SwarmTypeOK
  <2>4. res.cur \in Members /\ member \in [Members -> Member]
    BY <1>3 DEF Catch, WorkersInHand, SwarmTypeOK
  <2> QED
    BY <1>3, <2>2, <2>3, <2>4 DEF Catch, GivenUp
<1>4. ASSUME NEW w \in Wait, Lands(w)
      PROVE  /\ UNCHANGED <<call, note, del, run>>
             /\ \A m \in Members : RowStep(member[m], member'[m])
  <2>1. UNCHANGED <<call, note, del, run>>
    BY <1>4 DEF Lands
  <2>2. CASE Count(w)
    BY <1>1, <2>1, <2>2 DEF Count, Landed, Member, SwarmTypeOK, RowStep
  <2>3. CASE Commit(w)
    <3>1. /\ op[w].kind = "commit" /\ op[w].state = "sent"
          /\ InTime(w) => w = "awaited"
      BY <2>3 DEF Commit, Landed, Failed, InTime
    <3>2. InTime(w) => member[op[w].member].state = "reserved"
      BY <3>1 DEF OperationsFit, OperationFits, Provisions
    <3> QED
      BY <1>1, <2>1, <2>3, <3>2 DEF Commit, Member, SwarmTypeOK, RowStep
  <2>4. CASE Mark(w)
    <3>1. member[op[w].member].state = "failed"
      BY <2>4 DEF Mark, Landed, OperationsFit, OperationFits, Cleans
    <3> QED
      BY <1>1, <2>1, <2>4, <3>1 DEF Mark, Member, SwarmTypeOK, RowStep
  <2>5. CASE UNCHANGED member
    BY <2>1, <2>5 DEF RowStep
  <2> QED
    BY <1>4, <2>2, <2>3, <2>4, <2>5
       DEF Lands, Create, Session, Delete, Retire, Fails
<1> QED
  BY <1>2, <1>3, <1>4 DEF ResourceStep

(* The steps of the pass that leave the workers and the world alone.         *)
Turn ==
    \/ BeginResources \/ BeginCleanup \/ EndResources
    \/ \E m \in Members : Start(m) \/ Clean(m)
    \/ Returns \/ Throws \/ Settles \/ DeadlinePasses \/ TimesOut

(* What such a step leaves of the inductive invariant.                       *)
LEMMA TurnInv ==
    ASSUME SwarmInv, SwarmTypeOK', Turn
    PROVE  /\ OneOperation' /\ WorkersInHand' /\ OperationsFit'
           /\ ReadyIsEquipped' /\ CleanedLeavesNothing'
<1> USE DEF SwarmInv
<1> DEFINE aw == op["awaited"]
           st == op["stray"]
<1>1. UNCHANGED <<member, box, session>>
  BY DEF Turn, BeginResources, BeginCleanup, EndResources, Start, Clean,
         Returns, Throws, Settles, DeadlinePasses, TimesOut, worldVars
<1>2. ReadyIsEquipped' /\ CleanedLeavesNothing'
  BY <1>1 DEF ReadyIsEquipped, CleanedLeavesNothing, In, Unclean
<1>3. /\ res \in Pass /\ res.todo \subseteq Members
      /\ op \in [Wait -> Operation] /\ Wait = {"awaited", "stray"}
      /\ NoMember \notin Members
  BY SwarmAssumption DEF SwarmTypeOK, Pass, Wait
<1>4. /\ aw # NoOp => /\ aw.member \in Members /\ aw.kind # "none"
                      /\ res.cur = aw.member /\ st = NoOp
                      /\ res.pc \in {"provision", "clean"}
      /\ st # NoOp => st.member \in Members /\ st.kind # "none"
      /\ res.cur = NoMember => aw = NoOp
  BY <1>3 DEF OneOperation, SwarmTypeOK
<1>5. /\ NoOp.kind = "none"
      /\ Idle.pc = "idle" /\ Idle.cur = NoMember /\ Idle.todo = {}
  BY DEF NoOp, Idle
<1>6. ASSUME op' = op PROVE OperationsFit'
  BY <1>1, <1>6 DEF OperationsFit, OperationFits
<1>7. ASSUME NEW w \in Wait, op'[w] = NoOp PROVE OperationFits(w)'
  BY <1>5, <1>7 DEF OperationFits, Provisions, Cleans
<1>8. ASSUME op'["awaited"] = NoOp, op'["stray"] = NoOp
      PROVE  OneOperation' /\ OperationsFit'
  BY <1>3, <1>5, <1>7, <1>8 DEF OneOperation, OperationsFit, Provisions, Cleans
<1>9. ASSUME res' = Idle PROVE WorkersInHand'
  BY <1>5, <1>9 DEF WorkersInHand
<1>10. CASE BeginResources
  <2>1. aw = NoOp /\ st = NoOp /\ op' = op
    BY <1>10, <1>4 DEF BeginResources, LockFree
  <2>2. res'.pc = "provision" /\ res'.cur = NoMember /\ res'.todo = In({"reserved"})
    BY <1>10 DEF BeginResources, Idle
  <2>3. WorkersInHand'
    BY <1>1, <1>3, <2>2 DEF WorkersInHand, In
  <2> QED
    BY <1>2, <1>8, <2>1, <2>3
<1>11. CASE BeginCleanup
  <2>1. aw = NoOp /\ st = NoOp /\ op' = op
    BY <1>11, <1>4 DEF BeginCleanup, OneOperation
  <2>2. \/ res' = Idle
        \/ res'.pc = "clean" /\ res'.cur = NoMember /\ res'.todo = Unclean
    BY <1>11, <1>3 DEF BeginCleanup, Pass
  <2>3. WorkersInHand'
    BY <1>1, <1>3, <1>9, <2>2 DEF WorkersInHand, Unclean, MembersFit
  <2> QED
    BY <1>2, <1>8, <2>1, <2>3
<1>12. CASE EndResources
  <2>1. aw = NoOp /\ st = NoOp /\ op' = op
    BY <1>12, <1>4 DEF EndResources, OneOperation
  <2> QED
    BY <1>2, <1>8, <1>9, <1>12, <2>1 DEF EndResources
<1>13. ASSUME NEW k \in Provisions \cup Cleans, NEW m \in Members,
              st = NoOp, op' = Sent(k, m),
              k \in Provisions => res'.pc = "provision",
              k \in Cleans => res'.pc = "clean",
              k \in Provisions => member[m].state = "reserved",
              k \in {"session", "commit"} => box[m] = "ready",
              k = "commit" => session[m] = "yes",
              k \in Cleans => member[m].state = "failed",
              k \in {"retire", "mark"} => session[m] = "no",
              k = "mark" => box[m] \in {"none", "retired"}
       PROVE  OneOperation' /\ OperationsFit'
  <2>1. /\ op'["awaited"].kind = k /\ op'["awaited"].member = m
        /\ op'["awaited"].state = "sent" /\ op'["stray"] = NoOp
    BY <1>3, <1>13 DEF Sent
  <2>2. OneOperation'
    BY <1>3, <1>13, <2>1 DEF OneOperation, Provisions, Cleans
  <2>3. OperationFits("awaited")'
    BY <1>1, <1>13, <2>1 DEF OperationFits, Provisions, Cleans
  <2> QED
    BY <1>3, <1>7, <2>1, <2>2, <2>3 DEF OperationsFit
<1>14. ASSUME NEW m \in Members, Start(m) \/ Clean(m)
       PROVE  OneOperation' /\ WorkersInHand' /\ OperationsFit'
  <2>1. aw = NoOp /\ st = NoOp /\ m \in res.todo
    BY <1>14, <1>4 DEF Start, Clean, OneOperation
  <2>2. /\ Taken(m).pc = res.pc /\ Taken(m).cur = m
        /\ Taken(m).todo = res.todo \ {m}
    BY <1>3 DEF Taken, Pass
  <2>3. Start(m) => member[m].state = "reserved"
    BY <2>1 DEF Start, WorkersInHand
  <2>4. Clean(m) => member[m].state = "failed"
    BY <2>1 DEF Clean, WorkersInHand
  <2>5. CASE Start(m)
    <3>1. CASE expired = "yes" \/ res.late = "yes"
      <4>1. /\ op' = op /\ res.pc = "provision" /\ res'.pc = "catch"
            /\ res'.cur = m /\ res'.todo = res.todo \ {m}
        BY <1>3, <2>2, <2>5, <3>1 DEF Start, Taken, Pass
      <4> QED
        BY <1>1, <1>8, <2>1, <4>1 DEF WorkersInHand
    <3>2. CASE ~(expired = "yes" \/ res.late = "yes")
      <4>1. /\ op' = Sent("count", m) /\ res.pc = "provision"
            /\ res' = Taken(m)
        BY <2>5, <3>2 DEF Start
      <4>2. OneOperation' /\ OperationsFit'
        BY <1>13, <2>1, <2>2, <2>3, <2>5, <4>1 DEF Provisions, Cleans
      <4> QED
        BY <1>1, <2>1, <2>2, <4>1, <4>2 DEF WorkersInHand
    <3> QED
      BY <3>1, <3>2
  <2>6. CASE Clean(m)
    <3>1. CASE res.late = "yes"
      BY <1>8, <1>9, <2>1, <2>6, <3>1 DEF Clean
    <3>2. CASE res.late # "yes"
      <4> DEFINE k == IF session[m] = "yes" THEN "delete" ELSE "retire"
      <4>1. /\ op' = Sent(k, m) /\ res.pc = "clean" /\ res' = Taken(m)
        BY <2>6, <3>2 DEF Clean
      <4>2. /\ k \in Cleans /\ k \notin Provisions /\ k \notin {"session", "commit", "mark"}
            /\ k = "retire" => session[m] = "no"
        BY DEF Cleans, Provisions, SwarmTypeOK
      <4>3. OneOperation' /\ OperationsFit'
        BY <1>13, <2>1, <2>2, <2>4, <2>6, <4>1, <4>2
      <4> QED
        BY <1>1, <2>1, <2>2, <4>1, <4>3 DEF WorkersInHand
    <3> QED
      BY <3>1, <3>2
  <2> QED
    BY <1>14, <2>5, <2>6
<1>15. /\ Over["awaited"] = NoOp /\ Over["stray"] = st
  BY <1>3 DEF Over
<1>16. ASSUME aw # NoOp
       PROVE  /\ \/ Thrown = Idle
                 \/ /\ res.pc = "provision" /\ Thrown.pc = "catch"
                    /\ Thrown.cur = res.cur /\ Thrown.todo = res.todo
              /\ res' = Thrown => WorkersInHand'
  <2>1. \/ Thrown = Idle
        \/ /\ res.pc = "provision" /\ Thrown.pc = "catch"
           /\ Thrown.cur = res.cur /\ Thrown.todo = res.todo
    BY <1>3, <1>4, <1>16 DEF Thrown, Pass
  <2> QED
    BY <1>1, <1>4, <1>9, <1>16, <2>1 DEF WorkersInHand
<1>17. CASE Returns
  <2>1. aw # NoOp /\ aw.state = "landed" /\ st = NoOp
    BY <1>17, <1>4 DEF Returns
  <2>2. CASE Following(aw) = "none"
    <3>1. /\ op' = Over /\ res'.cur = NoMember /\ res'.pc = res.pc
          /\ res'.todo = res.todo
      BY <1>3, <1>17, <2>2 DEF Returns, Pass
    <3>2. WorkersInHand'
      BY <1>1, <1>3, <1>4, <2>1, <3>1 DEF WorkersInHand
    <3> QED
      BY <1>2, <1>8, <1>15, <2>1, <3>1, <3>2
  <2>3. CASE Following(aw) # "none" /\ res.late = "yes"
    BY <1>2, <1>8, <1>15, <1>16, <1>17, <2>1, <2>3 DEF Returns
  <2>4. CASE Following(aw) # "none" /\ res.late # "yes"
    <3> DEFINE k == Following(aw)
               m == aw.member
    <3>1. op' = Sent(k, m) /\ res' = res /\ m \in Members
      BY <1>4, <1>17, <2>1, <2>4 DEF Returns
    <3>2. OperationFits("awaited") /\ session[m] \in {"no", "yes"}
      BY <1>3, <3>1 DEF OperationsFit, SwarmTypeOK
    <3>3. \/ aw.kind = "count" /\ k = "create"
          \/ aw.kind = "create" /\ k = "session"
          \/ aw.kind = "session" /\ k = "commit"
          \/ aw.kind = "delete" /\ k = "retire" /\ session[m] # "yes"
          \/ aw.kind = "retire" /\ k = "mark"
      BY <2>4 DEF Following, After
    <3>4. /\ k \in Provisions \cup Cleans
          /\ k \in Provisions => res'.pc = "provision"
          /\ k \in Cleans => res'.pc = "clean"
      BY <3>1, <3>3 DEF OneOperation, Provisions, Cleans
    <3>5. /\ k \in Provisions => member[m].state = "reserved"
          /\ k \in {"session", "commit"} => box[m] = "ready"
          /\ k = "commit" => session[m] = "yes"
          /\ k \in Cleans => member[m].state = "failed"
          /\ k \in {"retire", "mark"} => session[m] = "no"
          /\ k = "mark" => box[m] \in {"none", "retired"}
      BY <2>1, <3>2, <3>3 DEF OperationFits, Provisions, Cleans
    <3>6. OneOperation' /\ OperationsFit'
      BY <1>13, <2>1, <3>1, <3>4, <3>5
    <3>7. WorkersInHand'
      BY <1>1, <3>1 DEF WorkersInHand
    <3> QED
      BY <1>2, <3>6, <3>7
  <2> QED
    BY <2>2, <2>3, <2>4
<1>18. CASE Throws
  <2>1. aw # NoOp /\ st = NoOp
    BY <1>18, <1>4 DEF Throws, NoOp
  <2> QED
    BY <1>2, <1>8, <1>15, <1>16, <1>18, <2>1 DEF Throws
<1>19. CASE Settles
  <2>1. op'["awaited"] = NoOp /\ op'["stray"] = NoOp /\ res' = res
    BY <1>19, <1>3, <1>4 DEF Settles
  <2>2. WorkersInHand'
    BY <1>1, <2>1 DEF WorkersInHand
  <2> QED
    BY <1>2, <1>8, <2>1, <2>2
<1>20. CASE DeadlinePasses
  <2>1. /\ op' = op /\ res'.pc = res.pc /\ res'.cur = res.cur
        /\ res'.todo = res.todo
    BY <1>20, <1>3 DEF DeadlinePasses, Pass
  <2>2. OneOperation' /\ WorkersInHand'
    BY <1>1, <2>1 DEF OneOperation, WorkersInHand
  <2> QED
    BY <1>2, <1>6, <2>1, <2>2
<1>21. CASE TimesOut
  <2>1. aw # NoOp /\ st = NoOp
    BY <1>21, <1>4 DEF TimesOut
  <2>2. op'["awaited"] = NoOp /\ op'["stray"] = aw
    BY <1>3, <1>21 DEF TimesOut, Over
  <2>3. Thrown \in Pass
    BY <1>3, ThrownType
  <2>4. /\ res'.pc = Thrown.pc /\ res'.cur = Thrown.cur
        /\ res'.todo = Thrown.todo
    BY <1>21, <2>3 DEF TimesOut, Pass
  <2>5. /\ res'.pc \in {"idle", "catch"} /\ WorkersInHand'
    BY <1>1, <1>4, <1>5, <1>16, <2>1, <2>4 DEF WorkersInHand
  <2>6. OneOperation'
    BY <1>3, <1>4, <1>5, <2>1, <2>2, <2>5 DEF OneOperation, Provisions, Cleans
  <2>7. OperationFits("stray")'
    BY <1>1, <1>3, <2>2 DEF OperationsFit, OperationFits
  <2> QED
    BY <1>2, <1>3, <1>7, <2>2, <2>5, <2>6, <2>7 DEF OperationsFit
<1> QED
  BY <1>2, <1>10, <1>11, <1>12, <1>14, <1>17, <1>18, <1>19, <1>20, <1>21 DEF Turn

(* What the pass over the resources leaves of the invariant.                 *)
LEMMA ResourceInv ==
    ASSUME SwarmInv, SwarmTypeOK',
           \/ ResourceStep \/ DeadlinePasses \/ TimesOut \/ CrashResources
    PROVE  SwarmInv'
<1> USE DEF SwarmInv
<1>1. /\ UNCHANGED <<call, note, del, run>>
      /\ \A m \in Members : RowStep(member[m], member'[m])
  BY ResourceMembers
<1>2. /\ \A m \in Members : member[m].state = "ready" => member'[m].state = "ready"
      /\ \A m \in Members : member[m].state # "none" => member'[m].state # "none"
      /\ \A m \in Members : member'[m].cleanup = "yes" => member'[m].state = "failed"
  BY <1>1 DEF RowStep, MembersFit
<1>3. /\ \A n \in Notes : n[2] \in Members
      /\ del.todo \subseteq Notes /\ del.cur \subseteq Notes
      /\ \A c \in Calls : call[c].audience \subseteq Members
  BY DEF Notes, SwarmTypeOK
<1>4. MembersFit'
  BY <1>1, <1>2, <1>3 DEF MembersFit
<1>5. FailedGetsNoWork' /\ NotifiedOnce' /\ RequestOnce'
  BY <1>1, <1>2, <1>3 DEF FailedGetsNoWork, NotifiedOnce, RequestOnce, Written
<1>6. CASE Turn
  BY <1>4, <1>5, <1>6, TurnInv
<1>7. ASSUME NEW w \in Wait, Lands(w) PROVE SwarmInv'
  BY <1>4, <1>5, <1>7, LandsInv
<1>8. CASE Catch
  <2>1. /\ UNCHANGED <<box, session, op>> /\ res.cur \in Members
        /\ op["awaited"] = NoOp /\ Wait = {"awaited", "stray"}
        /\ res \in Pass /\ res.todo \subseteq Members
        /\ NoMember \notin Members
        /\ \A m \in Members : member[m] \in Member
    BY <1>8, SwarmAssumption
       DEF Catch, WorkersInHand, SwarmTypeOK, worldVars, Wait, Pass
  <2>2. /\ \A m \in Members \ {res.cur} : member'[m] = member[m]
        /\ \/ member'[res.cur] = member[res.cur]
           \/ /\ member[res.cur].state = "reserved"
              /\ member'[res.cur].state = "failed"
              /\ member'[res.cur].cleanup = "yes"
    <3>1. CASE UNCHANGED member
      BY <3>1
    <3>2. CASE /\ member[res.cur].state = "reserved"
               /\ member' = [member EXCEPT ![res.cur] =
                               [@ EXCEPT !.state = "failed", !.cleanup = "yes"]]
      BY <2>1, <3>2 DEF Member, SwarmTypeOK
    <3>3. member \in [Members -> Member]
      BY DEF SwarmTypeOK
    <3> QED
      BY <1>8, <2>1, <3>1, <3>2, <3>3 DEF Catch, GivenUp
  <2>3. \/ res' = Idle
        \/ /\ res'.pc = "provision" /\ res'.cur = NoMember /\ op["stray"] = NoOp
           /\ res'.todo = res.todo
    BY <1>8, <2>1 DEF Catch, Pass
  <2>4. WorkersInHand'
    BY <1>8, <2>1, <2>2, <2>3 DEF WorkersInHand, Idle, Catch
  <2>5. OneOperation'
    BY <2>1, <2>3 DEF OneOperation, Idle, NoOp, Provisions, Cleans
  <2>6. OperationsFit'
    <3>1. OperationFits("awaited")'
      BY <2>1 DEF OperationFits, NoOp, Provisions, Cleans
    <3>2. OperationFits("stray")'
      <4>1. OperationFits("stray")
        BY <2>1 DEF OperationsFit
      <4>2. op["stray"] = NoOp \/ op["stray"].member \in Members
        BY <2>1 DEF OneOperation
      <4>3. CASE op["stray"] = NoOp
        BY <2>1, <4>3 DEF OperationFits, NoOp, Provisions, Cleans
      <4>4. CASE op["stray"].member \in Members \ {res.cur}
        BY <2>1, <2>2, <4>1, <4>4 DEF OperationFits
      <4>5. CASE op["stray"].member = res.cur
        BY <2>1, <2>2, <4>1, <4>5 DEF OperationFits, Provisions, Cleans
      <4> QED
        BY <4>2, <4>3, <4>4, <4>5
    <3> QED
      BY <2>1, <3>1, <3>2 DEF OperationsFit
  <2>7. ReadyIsEquipped' /\ CleanedLeavesNothing'
    BY <2>1, <2>2 DEF ReadyIsEquipped, CleanedLeavesNothing, In, Unclean
  <2> QED
    BY <1>4, <1>5, <2>4, <2>5, <2>6, <2>7
<1>9. CASE CrashResources
  <2>1. /\ UNCHANGED <<member, session>> /\ res' = Idle
        /\ op' = [w \in Wait |-> NoOp]
        /\ \/ box' = box
           \/ \E w \in Wait : op[w].state = "sent" /\ box' = HalfProvided(op[w])
    BY <1>9 DEF CrashResources
  <2>2. OneOperation' /\ WorkersInHand' /\ OperationsFit'
    <3>1. \A w \in Wait : op'[w] = NoOp
      BY <2>1
    <3>2. OperationsFit'
      BY <3>1 DEF OperationsFit, OperationFits, NoOp, Provisions, Cleans
    <3> QED
      BY <2>1, <3>1, <3>2
         DEF OneOperation, WorkersInHand, Idle, Wait, NoOp, Provisions, Cleans
  <2>3. ReadyIsEquipped' /\ CleanedLeavesNothing'
    <3>1. CASE box' = box
      BY <2>1, <3>1 DEF ReadyIsEquipped, CleanedLeavesNothing, In, Unclean
    <3>2. ASSUME NEW w \in Wait, op[w].state = "sent", box' = HalfProvided(op[w]),
                 box' # box
          PROVE  ReadyIsEquipped' /\ CleanedLeavesNothing'
      <4>1. /\ op[w].kind = "create"
            /\ box' = [box EXCEPT ![op[w].member] = "provisioning"]
        BY <3>2 DEF HalfProvided
      <4>2. \/ member[op[w].member].state = "reserved"
            \/ member[op[w].member].cleanup = "yes"
        BY <4>1 DEF OperationsFit, OperationFits, Provisions
      <4>3. box \in [Members -> {"none", "provisioning", "ready", "retired"}]
        BY DEF SwarmTypeOK
      <4> QED
        BY <2>1, <4>1, <4>2, <4>3
           DEF ReadyIsEquipped, CleanedLeavesNothing, In, Unclean
    <3> QED
      BY <2>1, <3>1, <3>2
  <2> QED
    BY <1>4, <1>5, <2>2, <2>3
<1> QED
  BY <1>6, <1>7, <1>8, <1>9 DEF ResourceStep, Turn

-----------------------------------------------------------------------------
(* Whatever fails, outlives its timeout or dies, and in whatever order the   *)
(* callers and the two passes take their steps: the inductive invariant of   *)
(* the swarm holds, and each of its parts with it.                           *)
THEOREM SwarmInvariance == SwarmSpec => []SwarmInv
<1>1. SwarmInit => SwarmInv
  <2> SUFFICES ASSUME SwarmInit PROVE SwarmInv
    OBVIOUS
  <2>1. SwarmTypeOK
    <3>1. res \in Pass /\ op \in [Wait -> Operation] /\ op["awaited"] = NoOp
      BY PassUpdate, OperationUpdate DEF SwarmInit, Wait
    <3>2. faults \in 0..MaxFaults
      BY SwarmAssumption DEF SwarmInit
    <3>3. member \in [Members -> Member]
      BY DEF SwarmInit, Member
    <3>4. del \in [todo : SUBSET Notes, dead : SUBSET Notes, cur : SUBSET Notes]
      BY DEF SwarmInit, NoDelivery
    <3> QED
      BY <3>1, <3>2, <3>3, <3>4 DEF SwarmInit, SwarmTypeOK
  <2>2. \A w \in Wait : op[w] = NoOp
    BY DEF SwarmInit
  <2>3. OneOperation /\ WorkersInHand /\ OperationsFit
    BY <2>2 DEF SwarmInit, OneOperation, WorkersInHand, OperationsFit,
                OperationFits, Idle, NoOp, Wait, Provisions, Cleans
  <2>4. MembersFit
    BY DEF SwarmInit, MembersFit, Notes, NoDelivery
  <2>5. /\ ReadyIsEquipped /\ FailedGetsNoWork /\ CleanedLeavesNothing
        /\ NotifiedOnce /\ RequestOnce
    BY DEF SwarmInit, ReadyIsEquipped, FailedGetsNoWork, CleanedLeavesNothing,
           NotifiedOnce, RequestOnce, Written, In
  <2> QED
    BY <2>1, <2>3, <2>4, <2>5 DEF SwarmInv
<1>2. SwarmInv /\ [SwarmNext]_swarmVars => SwarmInv'
  <2> SUFFICES ASSUME SwarmInv, [SwarmNext]_swarmVars PROVE SwarmInv'
    OBVIOUS
  <2>1. SwarmTypeOK'
    BY SwarmStepType DEF SwarmInv
  <2>2. CASE UNCHANGED swarmVars
    BY <2>2 DEF swarmVars, apiVars, worldVars, deliveryVars, SwarmInv,
         SwarmTypeOK, OneOperation, WorkersInHand, OperationsFit, OperationFits,
         MembersFit, ReadyIsEquipped, FailedGetsNoWork, CleanedLeavesNothing,
         NotifiedOnce, RequestOnce, Written, In, Unclean
  <2> QED
    BY <2>1, <2>2, ApiStep, ResourceInv, DeliveryInv DEF SwarmNext
<1> QED
  BY <1>1, <1>2, PTL DEF SwarmSpec

(* The variables keep their shapes, and an operation is awaited by the pass  *)
(* that has its worker in hand.                                              *)
THEOREM SwarmTypeCorrect == SwarmSpec => []SwarmTypeOK
  BY SwarmInvariance, PTL DEF SwarmInv

(* A request is carried out once, however often and by whichever attempt of  *)
(* the run it is made: the transaction of the swarm looks it up again.       *)
THEOREM RequestOnceAlways == SwarmSpec => []RequestOnce
  BY SwarmInvariance, PTL DEF SwarmInv

(* A ready worker keeps its computer and its session: what outlived its      *)
(* timeout keeps the lock, so that no cleanup runs beside it.                *)
THEOREM ReadyIsEquippedAlways == SwarmSpec => []ReadyIsEquipped
  BY SwarmInvariance, PTL DEF SwarmInv

(* Delivery decides from the swarm it read, and a worker that was ready then *)
(* is ready for good: no run is enqueued for one that failed.                *)
THEOREM FailedGetsNoWorkAlways == SwarmSpec => []FailedGetsNoWork
  BY SwarmInvariance, PTL DEF SwarmInv

(* A worker marked as cleaned up left no computer and no session, although   *)
(* its provisioning may have gone on after it was given up.                  *)
THEOREM CleanedLeavesNothingAlways == SwarmSpec => []CleanedLeavesNothing
  BY SwarmInvariance, PTL DEF SwarmInv

(* The key of a notification's run keeps a second pass from enqueueing it.   *)
THEOREM NotifiedOnceAlways == SwarmSpec => []NotifiedOnce
  BY SwarmInvariance, PTL DEF SwarmInv

-----------------------------------------------------------------------------
(* The budgets, with what they need to be inductive: only finitely many      *)
(* requests were written, and a pass delivers notifications that are there.  *)
Spent == Members \ In({"none"})

BudgetInv ==
    /\ BudgetHeld
    /\ IsFiniteSet(Written) /\ IsFiniteSet(Noted)
    /\ del.todo \cup del.cur \subseteq Noted

(* Adding to a finite set costs at most what is added.                       *)
LEMMA UnionCost ==
    ASSUME NEW S, IsFiniteSet(S), NEW T, IsFiniteSet(T), NEW U \in SUBSET (S \cup T)
    PROVE  /\ IsFiniteSet(U)
           /\ Cardinality(U) \in Nat /\ Cardinality(S) \in Nat
           /\ Cardinality(T) \in Nat
           /\ Cardinality(U) <= Cardinality(S) + Cardinality(T)
<1>1. IsFiniteSet(S \cup T) /\ IsFiniteSet(S \cap T)
  BY FS_Union, FS_Subset
<1>2. /\ Cardinality(S \cup T) = Cardinality(S) + Cardinality(T) - Cardinality(S \cap T)
      /\ Cardinality(S) \in Nat /\ Cardinality(T) \in Nat
      /\ Cardinality(S \cap T) \in Nat /\ Cardinality(S \cup T) \in Nat
  BY <1>1, FS_Union, FS_CardinalityType
<1>3. IsFiniteSet(U) /\ Cardinality(U) <= Cardinality(S \cup T)
  BY <1>1, FS_Subset
<1>4. Cardinality(U) \in Nat
  BY <1>3, FS_CardinalityType
<1> QED
  BY <1>2, <1>3, <1>4

(* A request that is written stays within the budgets it was checked with.   *)
LEMMA ReserveBudget ==
    ASSUME SwarmInv, BudgetInv, NEW c \in Calls,
           NEW workers \in SUBSET Members, NEW recipients \in SUBSET Members,
           Affordable(workers, recipients), Reserve(c, workers, recipients),
           del' = del
    PROVE  BudgetInv'
<1> USE DEF SwarmInv, BudgetInv
<1>1. /\ IsFiniteSet(Members) /\ IsFiniteSet(workers) /\ IsFiniteSet(recipients)
      /\ Spent \in SUBSET Members /\ IsFiniteSet(Spent)
      /\ {Agents, Messages, Notifications} \subseteq Nat
  BY SwarmAssumption, FS_Subset DEF Spent
<1>2. Spent' \subseteq Spent \cup workers
  <2>1. \A m \in Members : m \notin workers => member'[m] = member[m]
    BY DEF Reserve
  <2> QED
    BY <2>1 DEF Spent, In
<1>3. 1 + Cardinality(Spent') <= Agents
  <2>1. /\ Cardinality(Spent') <= Cardinality(Spent) + Cardinality(workers)
        /\ Cardinality(Spent') \in Nat /\ Cardinality(Spent) \in Nat
        /\ Cardinality(workers) \in Nat
    BY <1>1, <1>2, UnionCost
  <2>2. 1 + Cardinality(Spent) + Cardinality(workers) <= Agents
    BY DEF Affordable, Spent
  <2> QED
    BY <1>1, <2>1, <2>2
<1>4. IsFiniteSet(Written') /\ Cardinality(Written') <= Messages
  <2>1. Written' = Written \cup {c}
    BY DEF Reserve, Written, SwarmTypeOK
  <2>2. /\ IsFiniteSet(Written \cup {c})
        /\ Cardinality(Written \cup {c}) <= Cardinality(Written) + 1
        /\ Cardinality(Written \cup {c}) \in Nat /\ Cardinality(Written) \in Nat
    <3>1. IsFiniteSet({c}) /\ Cardinality({c}) = 1
      BY FS_Singleton
    <3>2. IsFiniteSet(Written)
      OBVIOUS
    <3> HIDE DEF SwarmInv, BudgetInv
    <3> QED
      BY <3>1, <3>2, UnionCost
  <2>3. Cardinality(Written) < Messages
    BY DEF Affordable
  <2> QED
    BY <1>1, <2>1, <2>2, <2>3
<1>5. Noted \subseteq Noted' /\ Noted' \subseteq Noted \cup ({c} \X recipients)
  BY DEF Reserve, Noted
<1>6. IsFiniteSet(Noted') /\ Cardinality(Noted') <= Notifications
  <2>1. /\ IsFiniteSet({c} \X recipients)
        /\ Cardinality({c} \X recipients) = 1 * Cardinality(recipients)
    <3>1. IsFiniteSet({c}) /\ Cardinality({c}) = 1
      BY FS_Singleton
    <3>2. /\ IsFiniteSet({c} \X recipients)
          /\ Cardinality({c} \X recipients) = Cardinality({c}) * Cardinality(recipients)
      BY <1>1, <3>1, FS_Product
    <3> QED
      BY <3>1, <3>2
  <2>2. Cardinality(recipients) \in Nat
    BY <1>1, FS_CardinalityType
  <2>3. /\ IsFiniteSet(Noted') /\ Cardinality(Noted') \in Nat
        /\ Cardinality(Noted') <= Cardinality(Noted) + Cardinality({c} \X recipients)
        /\ Cardinality(Noted) \in Nat
    BY <1>5, <2>1, UnionCost
  <2>4. Cardinality(Noted) + Cardinality(recipients) <= Notifications
    BY DEF Affordable
  <2> QED
    BY <1>1, <2>1, <2>2, <2>3, <2>4
<1> QED
  BY <1>3, <1>4, <1>5, <1>6 DEF BudgetHeld, Spent

(* A step that reserves nobody and notifies nobody keeps them.               *)
LEMMA FrugalStep ==
    ASSUME BudgetInv, Spent' = Spent, Written' = Written, Noted' = Noted,
           del'.todo \cup del'.cur \subseteq Noted
    PROVE  BudgetInv'
  BY DEF BudgetInv, BudgetHeld, Spent

(* Concurrent requests together stay within the budgets, for every value of  *)
(* the settings: the transaction checks them with what it is about to write. *)
THEOREM BudgetHeldAlways == SwarmSpec => []BudgetHeld
<1>1. SwarmInit => BudgetInv
  <2> SUFFICES ASSUME SwarmInit PROVE BudgetInv
    OBVIOUS
  <2>1. Spent = {} /\ Written = {} /\ Noted = {} /\ del.todo \cup del.cur = {}
    BY DEF SwarmInit, Spent, In, Written, Noted, NoDelivery
  <2>2. {Agents, Messages, Notifications} \subseteq Nat /\ Agents >= 2
    BY SwarmAssumption
  <2> QED
    BY <2>1, <2>2, FS_EmptySet DEF BudgetInv, BudgetHeld, Spent
<1>2. SwarmInv /\ SwarmInv' /\ BudgetInv /\ [SwarmNext]_swarmVars => BudgetInv'
  <2> SUFFICES ASSUME SwarmInv, SwarmInv', BudgetInv, [SwarmNext]_swarmVars
               PROVE  BudgetInv'
    OBVIOUS
  <2>1. CASE UNCHANGED <<member, call, note, del>>
    BY <2>1, FrugalStep DEF Spent, Written, Noted, In, BudgetInv
  <2>2. CASE UNCHANGED swarmVars \/ RunReplaced \/ Expire
    BY <2>1, <2>2 DEF swarmVars, apiVars, deliveryVars, RunReplaced, Expire
  <2>3. ASSUME NEW c \in Calls, NEW pc \in {"refused", "answered"},
               Answers(c, pc), call[c].pc # "written", del' = del
        PROVE  BudgetInv'
    <3>1. Written' = Written
      BY <2>3 DEF Answers, Written, SwarmInv, SwarmTypeOK
    <3> QED
      BY <2>3, <3>1, FrugalStep DEF Answers, Spent, Noted, In, BudgetInv
  <2>4. ASSUME NEW c \in Calls, Read(c) PROVE BudgetInv'
    <3>1. call[c].pc # "written" /\ del' = del
      BY <2>4 DEF Read
    <3>2. CASE /\ UNCHANGED <<member, note>>
               /\ \E a : call' = [call EXCEPT ![c].pc = "read", ![c].audience = a]
      <4>1. Written' = Written
        BY <3>1, <3>2 DEF Written, SwarmInv, SwarmTypeOK
      <4> QED
        BY <3>1, <3>2, <4>1, FrugalStep DEF Spent, Noted, In, BudgetInv
    <3> QED
      BY <2>3, <2>4, <3>1, <3>2 DEF Read
  <2>5. ASSUME NEW c \in Calls, Write(c, Fresh) PROVE BudgetInv'
    <3> DEFINE workers == IF CallOf[c].kind = "spawn" THEN {Fresh} ELSE {}
               recipients == workers \cup call[c].audience
    <3>1. call[c].pc # "written" /\ del' = del
      BY <2>5 DEF Write
    <3>2. CASE /\ Affordable(workers, recipients)
               /\ Reserve(c, workers, recipients)
      <4>1. workers \in SUBSET Members
        <5>1. CASE CallOf[c].kind = "spawn"
          BY <3>2, <5>1, FreshIsNone
        <5> QED
          BY <5>1
      <4>2. recipients \in SUBSET Members
        BY <4>1 DEF SwarmInv, SwarmTypeOK
      <4> QED
        BY <3>1, <3>2, <4>1, <4>2, ReserveBudget
    <3> QED
      BY <2>3, <2>5, <3>1, <3>2 DEF Write
  <2>6. CASE \/ ResourceStep \/ DeadlinePasses \/ TimesOut \/ CrashResources
    <3>1. /\ UNCHANGED <<call, note, del>>
          /\ \A m \in Members : RowStep(member[m], member'[m])
      BY <2>6, ResourceMembers
    <3>2. Spent' = Spent
      BY <3>1 DEF Spent, In, RowStep
    <3> QED
      BY <3>1, <3>2, FrugalStep DEF Written, Noted, BudgetInv
  <2>7. CASE BeginDelivery
    <3>1. /\ UNCHANGED <<member, call, note>>
          /\ del'.todo \cup del'.cur \subseteq Undelivered
      BY <2>7 DEF BeginDelivery, Delivers, apiVars
    <3>2. Undelivered \subseteq Noted
      BY DEF Undelivered, Noted
    <3> QED
      BY <3>1, <3>2, FrugalStep DEF Written, Noted, Spent, In
  <2>8. ASSUME NEW n \in Notes, MarkFailed(n) \/ Enqueue(n) \/ MarkQueued(n)
        PROVE  BudgetInv'
    <3>1. /\ UNCHANGED <<member, call>> /\ n \in Noted
          /\ del'.todo \cup del'.cur \subseteq del.todo \cup del.cur
          /\ \/ note' = note
             \/ \E s \in {"failed", "queued"} : note' = [note EXCEPT ![n] = s]
      <4>1. del \in [todo : SUBSET Notes, dead : SUBSET Notes, cur : SUBSET Notes]
        BY DEF SwarmInv, SwarmTypeOK
      <4>2. CASE MarkFailed(n)
        BY <4>1, <4>2 DEF MarkFailed, Delivers, apiVars, BudgetInv
      <4>3. CASE Enqueue(n)
        BY <4>1, <4>3 DEF Enqueue, Delivers, apiVars, BudgetInv
      <4>4. CASE MarkQueued(n)
        BY <4>1, <4>4 DEF MarkQueued, Delivers, apiVars, BudgetInv
      <4> QED
        BY <2>8, <4>2, <4>3, <4>4
    <3>2. Noted' = Noted
      BY <3>1 DEF Noted, SwarmInv, SwarmTypeOK
    <3> QED
      BY <3>1, <3>2, FrugalStep DEF Written, Spent, In, BudgetInv
  <2>9. CASE CrashDelivery
    BY <2>9, FrugalStep
       DEF CrashDelivery, NoDelivery, Delivers, apiVars, Written, Noted, Spent, In
  <2>10. ASSUME NEW n \in Notes, Execute(n) PROVE BudgetInv'
    BY <2>1, <2>10 DEF Execute, Delivers, apiVars
  <2> QED
    BY <2>2, <2>4, <2>5, <2>6, <2>7, <2>8, <2>9, <2>10 DEF SwarmNext, DeliveryStep
<1>3. BudgetInv => BudgetHeld
  BY DEF BudgetInv
<1> QED
  BY <1>1, <1>2, <1>3, SwarmInvariance, PTL DEF SwarmSpec
=============================================================================
