--------------------- MODULE BackgroundOwnershipProofs ----------------------
(***************************************************************************)
(* Proofs about the ownership record, for every set of processes,          *)
(* deployments and requests and any number of generations.                 *)
(***************************************************************************)
EXTENDS BackgroundOwnership, TLAPS

(* An admission of the current generation is one of the desired deployment,  *)
(* no admission is of a later generation, ownership is enabled exactly       *)
(* beyond generation 0, and retirement is complete: drained and not ready.   *)
AdmissionsAreCurrent ==
    /\ own.enabled = "no" <=> own.generation = 0
    /\ \A i \in Instances :
         /\ member[i].generation <= own.generation
         /\ member[i].ready = "yes" => member[i].state = "admitted"
         /\ member[i].retired = "yes" =>
              member[i].state = "drained" /\ member[i].ready = "no"
         /\ /\ member[i].state = "admitted"
            /\ member[i].generation = own.generation
            /\ own.enabled = "yes"
            => DeploymentOf[i] = own.desired

(* The inductive invariant.                                                  *)
OwnershipInv == OwnershipTypeOK /\ AdmissionsAreCurrent /\ OneOwner

(* An update of a member's fields yields a member.                           *)
LEMMA MemberUpdate ==
    ASSUME NEW m \in Member, NEW g \in Nat,
           NEW state \in {"drained", "relinquished", "admitted"},
           NEW ready \in {"no", "yes"}, NEW retired \in {"no", "yes"}
    PROVE  /\ [m EXCEPT !.state = state, !.generation = g] \in Member
           /\ [m EXCEPT !.state = state, !.ready = ready,
                        !.generation = g] \in Member
           /\ [m EXCEPT !.state = state, !.ready = ready] \in Member
           /\ [m EXCEPT !.ready = ready] \in Member
           /\ [m EXCEPT !.state = state, !.retired = retired,
                        !.ready = ready] \in Member
  BY DEF Member

(* Every request keeps the shapes of the record and of its members.          *)
LEMMA OwnershipStepType ==
    OwnershipTypeOK /\ [OwnershipNext]_ownershipVars => OwnershipTypeOK'
<1> SUFFICES ASSUME OwnershipTypeOK, [OwnershipNext]_ownershipVars
             PROVE  OwnershipTypeOK'
  OBVIOUS
<1>a. /\ own \in Ownership /\ own.generation \in Nat
      /\ member \in [Instances -> Member]
  BY DEF OwnershipTypeOK, Ownership
<1>1. ASSUME NEW i \in Instances, Register(i) PROVE OwnershipTypeOK'
  BY <1>a, <1>1, MemberUpdate DEF Register, OwnershipTypeOK
<1>2. ASSUME NEW i \in Instances, NEW g \in Generations,
             NEW legacyEnabled \in {"no", "yes"}, Admit(i, g, legacyEnabled)
      PROVE  OwnershipTypeOK'
  BY <1>a, <1>2, MemberUpdate DEF Admit, OwnershipTypeOK
<1>3. ASSUME NEW i \in Instances, NEW g \in Generations, MarkReady(i, g)
      PROVE  OwnershipTypeOK'
  BY <1>a, <1>3, MemberUpdate DEF MarkReady, OwnershipTypeOK
<1>4. ASSUME NEW i \in Instances, NEW g \in Generations,
             NEW next \in {"relinquished", "drained"}, Acknowledge(i, g, next)
      PROVE  OwnershipTypeOK'
  BY <1>a, <1>4, MemberUpdate DEF Acknowledge, OwnershipTypeOK
<1>5. ASSUME NEW id \in RequestIds, NEW g \in Generations,
             NEW d \in Deployments \cup {NoDeployment}, NEW c \in SUBSET Tasks,
             Transition(id, g, d, c)
      PROVE  OwnershipTypeOK'
  BY <1>a, <1>5 DEF Transition, OwnershipTypeOK, Ownership
<1>6. ASSUME NEW id \in RequestIds, NEW g \in Generations,
             NEW proofs \in Evidence, Retire(id, g, proofs)
      PROVE  OwnershipTypeOK'
  <2>1. own' \in Ownership
    BY <1>a, <1>6 DEF Retire, Ownership
  <2>2. \A i \in Instances : [member[i] EXCEPT !.state = "drained",
                              !.retired = "yes", !.ready = "no"] \in Member
    BY <1>a, MemberUpdate
  <2> QED
    BY <1>a, <1>6, <2>1, <2>2 DEF Retire, OwnershipTypeOK
<1>7. CASE UNCHANGED ownershipVars
  BY <1>7 DEF ownershipVars, OwnershipTypeOK
<1> QED
  BY <1>1, <1>2, <1>3, <1>4, <1>5, <1>6, <1>7 DEF OwnershipNext

(* OwnershipInv is inductive.                                                *)
LEMMA OwnershipStep ==
    OwnershipInv /\ [OwnershipNext]_ownershipVars => OwnershipInv'
<1> SUFFICES ASSUME OwnershipInv, [OwnershipNext]_ownershipVars
             PROVE  (AdmissionsAreCurrent /\ OneOwner)'
  BY OwnershipStepType DEF OwnershipInv
<1>1. ASSUME NEW i \in Instances, Register(i)
      PROVE  (AdmissionsAreCurrent /\ OneOwner)'
  BY <1>1 DEF Register, Enrolled, OwnershipInv, OwnershipTypeOK, Ownership, Member,
         Generations, AdmissionsAreCurrent, OneOwner
<1>2. ASSUME NEW i \in Instances, NEW g \in Generations,
             NEW legacyEnabled \in {"no", "yes"}, Admit(i, g, legacyEnabled)
      PROVE  (AdmissionsAreCurrent /\ OneOwner)'
  BY <1>2 DEF Admit, Admissible, MayAdmit, Enrolled, OwnershipInv, OwnershipTypeOK, Ownership, Member,
         Generations, AdmissionsAreCurrent, OneOwner
<1>3. ASSUME NEW i \in Instances, NEW g \in Generations, MarkReady(i, g)
      PROVE  (AdmissionsAreCurrent /\ OneOwner)'
  BY <1>3 DEF MarkReady, Activated, Enrolled, OwnershipInv, OwnershipTypeOK, Ownership, Member,
         Generations, AdmissionsAreCurrent, OneOwner
<1>4. ASSUME NEW i \in Instances, NEW g \in Generations,
             NEW next \in {"relinquished", "drained"}, Acknowledge(i, g, next)
      PROVE  (AdmissionsAreCurrent /\ OneOwner)'
  BY <1>4 DEF Acknowledge, Acknowledgeable, Enrolled, OwnershipInv, OwnershipTypeOK, Ownership, Member,
         Generations, AdmissionsAreCurrent, OneOwner
<1>5. ASSUME NEW id \in RequestIds, NEW g \in Generations,
             NEW d \in Deployments \cup {NoDeployment}, NEW c \in SUBSET Tasks,
             Transition(id, g, d, c)
      PROVE  (AdmissionsAreCurrent /\ OneOwner)'
  BY <1>5 DEF Transition, OwnershipInv, OwnershipTypeOK, Ownership, Member,
         Generations, AdmissionsAreCurrent, OneOwner
<1>6. ASSUME NEW id \in RequestIds, NEW g \in Generations,
             NEW proofs \in Evidence, Retire(id, g, proofs)
      PROVE  (AdmissionsAreCurrent /\ OneOwner)'
  <2>1. own' = [own EXCEPT !.lastRequest = id] /\ own \in Ownership
    BY <1>6 DEF Retire, OwnershipInv, OwnershipTypeOK
  <2>2. /\ own'.generation = own.generation /\ own'.enabled = own.enabled
        /\ own'.desired = own.desired
    BY <2>1 DEF Ownership
  <2>3. ASSUME NEW i \in Instances
        PROVE  \/ member'[i] = member[i]
               \/ /\ member'[i].state = "drained" /\ member'[i].ready = "no"
                  /\ member'[i].generation = member[i].generation
    BY <1>6, <2>3 DEF Retire, OwnershipInv, OwnershipTypeOK, Member
  <2> QED
    BY <2>2, <2>3 DEF OwnershipInv, AdmissionsAreCurrent, OneOwner
<1>7. CASE UNCHANGED ownershipVars
  BY <1>7 DEF ownershipVars, OwnershipInv, OwnershipTypeOK, Ownership, Member,
         Generations, AdmissionsAreCurrent, OneOwner
<1> QED
  BY <1>1, <1>2, <1>3, <1>4, <1>5, <1>6, <1>7 DEF OwnershipNext

(* OwnershipInv holds in every reachable state.                              *)
THEOREM OwnershipInvariance == OwnershipSpec => []OwnershipInv
<1>1. OwnershipInit => OwnershipInv
  BY DEF OwnershipInit, OwnershipInv, OwnershipTypeOK, Ownership, Member,
         AdmissionsAreCurrent, OneOwner
<1> QED
  BY <1>1, OwnershipStep, PTL DEF OwnershipSpec

(* The record stays well formed.                                             *)
THEOREM OwnershipTypeCorrect == OwnershipSpec => []OwnershipTypeOK
  BY OwnershipInvariance, PTL DEF OwnershipInv

(* Beyond the legacy generation, one deployment owns the background work.    *)
THEOREM OneOwnerAlways == OwnershipSpec => []OneOwner
  BY OwnershipInvariance, PTL DEF OwnershipInv

(* Readiness in the current generation is readiness of the desired owner.    *)
THEOREM ReadyMeansDesiredAlways == OwnershipSpec => []ReadyMeansDesired
<1>1. OwnershipInv => ReadyMeansDesired
  BY DEF OwnershipInv, AdmissionsAreCurrent, ReadyMeansDesired
<1> QED
  BY <1>1, OwnershipInvariance, PTL

(* No request brings a retired process back.                                 *)
THEOREM RetiredIsFinalAlways == OwnershipSpec => RetiredIsFinal
<1> DEFINE Final == \A i \in Instances :
                      member[i].retired = "yes" => member'[i] = member[i]
<1>1. ASSUME OwnershipInv, [OwnershipNext]_ownershipVars
      PROVE  [Final]_ownershipVars
  <2>1. ASSUME NEW i \in Instances,
               \/ Register(i)
               \/ \E g \in Generations :
                    \/ \E e \in {"no", "yes"} : Admit(i, g, e)
                    \/ MarkReady(i, g)
                    \/ \E next \in {"relinquished", "drained"} :
                         Acknowledge(i, g, next)
        PROVE  Final
    <3>1. member[i].retired = "no"
      BY <1>1, <2>1 DEF Register, Admit, Admissible, MarkReady, Activated,
         Acknowledge, Acknowledgeable, Enrolled, OwnershipInv, OwnershipTypeOK, Member,
         AdmissionsAreCurrent
    <3>2. \A j \in Instances \ {i} : member'[j] = member[j]
      BY <1>1, <2>1 DEF Register, Admit, MarkReady, Acknowledge,
         OwnershipInv, OwnershipTypeOK
    <3> QED
      BY <3>1, <3>2
  <2>2. ASSUME NEW id \in RequestIds, NEW g \in Generations,
               NEW d \in Deployments \cup {NoDeployment},
               NEW c \in SUBSET Tasks, Transition(id, g, d, c)
        PROVE  Final
    BY <2>2 DEF Transition
  <2>3. ASSUME NEW id \in RequestIds, NEW g \in Generations,
               NEW proofs \in Evidence, Retire(id, g, proofs)
        PROVE  Final
    <3>1. ASSUME NEW i \in Instances, member[i].retired = "yes"
          PROVE  [member[i] EXCEPT !.state = "drained", !.retired = "yes",
                                   !.ready = "no"] = member[i]
      BY <1>1, <3>1 DEF OwnershipInv, OwnershipTypeOK, Member,
                        AdmissionsAreCurrent
    <3> QED
      BY <2>3, <3>1 DEF Retire
  <2> QED
    BY <1>1, <2>1, <2>2, <2>3 DEF OwnershipNext
<1> QED
  BY <1>1, OwnershipInvariance, PTL DEF OwnershipSpec, RetiredIsFinal
=============================================================================
