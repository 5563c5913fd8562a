------------------------ MODULE BackgroundOwnership -------------------------
(***************************************************************************)
(* The shared record that decides which deployment runs background work    *)
(* (src/runs/background-ownership.ts), under its most general client: any  *)
(* process and any operator may send any request, with any expected        *)
(* generation, however stale, in any order and any number of times.        *)
(*                                                                         *)
(* Every operation is one transaction on one row (SELECT ... FOR UPDATE,   *)
(* then UPDATE), hence one step; a request that the code rejects with      *)
(* BackgroundOwnershipConflict changes nothing and is no step.             *)
(***************************************************************************)
EXTENDS Naturals, FiniteSets

CONSTANTS Instances,     \* processes, by instanceId
          Deployments,   \* deployment revisions
          DeploymentOf,  \* deployment of each process
          Tasks,         \* infrastructure tasks (task ARNs)
          NoTask,        \* a process without task metadata
          TaskOf,        \* task each process runs in
          NoDeployment,  \* a pause: no deployment is desired
          RequestIds,    \* ids of the operator's requests
          NoRequest,     \* no request was applied yet
          MaxGeneration  \* bound: ownership generations

ASSUME BackgroundOwnershipAssumption ==
    /\ DeploymentOf \in [Instances -> Deployments]
    /\ NoTask \notin Tasks
    /\ TaskOf \in [Instances -> Tasks \cup {NoTask}]
    /\ NoDeployment \notin Deployments
    /\ NoRequest \notin RequestIds
    /\ MaxGeneration \in Nat

VARIABLES
    own,    \* enabled, generation, desiredDeploymentId and lastRequestId
    member  \* the enrolled processes

ownershipVars == <<own, member>>

(* "absent": the process is not enrolled.                                    *)
Member == [state : {"absent", "drained", "relinquished", "admitted"},
           generation : Nat, retired : {"no", "yes"}, ready : {"no", "yes"}]

Ownership == [enabled : {"no", "yes"}, generation : Nat,
              desired : Deployments \cup {NoDeployment},
              lastRequest : RequestIds \cup {NoRequest}]

OwnershipInit ==
    /\ own = [enabled |-> "no", generation |-> 0, desired |-> NoDeployment,
              lastRequest |-> NoRequest]
    /\ member = [i \in Instances |-> [state |-> "absent", generation |-> 0,
                                      retired |-> "no", ready |-> "no"]]

(* Mutant of Enrolled: retirement is not checked.                            *)
EnrolledOnce(i) == member[i].state # "absent"

Enrolled(i) == member[i].state # "absent" /\ member[i].retired = "no"

(* A process enrolls once, unless its task was retired.                      *)
Register(i) ==
    /\ member[i].state = "absent"
    /\ TaskOf[i] # NoTask => \A j \in Instances :
           TaskOf[j] = TaskOf[i] => member[j].retired = "no"
    /\ member' = [member EXCEPT ![i].state = "drained",
                                ![i].generation = own.generation]
    /\ UNCHANGED own

(* The first transition names the tasks of all enrolled processes exactly;   *)
(* an empty cohort is a transition without bootstrapTaskArns.                *)
CohortMatches(cohort) ==
    /\ cohort # {}
    /\ cohort = {TaskOf[i] : i \in {j \in Instances : Enrolled(j)}}

(* The next generation belongs to another deployment, or to none.            *)
(* lastRequest stands for lastRequestId: the replay of the request that was  *)
(* applied last is acknowledged without effect.                              *)
Transition(id, expected, desired, cohort) ==
    /\ own.lastRequest # id
    /\ own.generation = expected
    /\ own.generation < MaxGeneration
    /\ \/ own.enabled = "no" /\ CohortMatches(cohort)
       \/ own.enabled = "yes" /\ cohort = {}
    /\ desired # NoDeployment =>
         \E i \in Instances : Enrolled(i) /\ DeploymentOf[i] = desired
    /\ own' = [enabled |-> "yes", generation |-> own.generation + 1,
               desired |-> desired, lastRequest |-> id]
    /\ UNCHANGED member

(* Mutant of MayAdmit: the successor does not wait for the earlier owners.   *)
MayAdmitAtOnce(i, legacyEnabled) ==
    \/ own.enabled = "yes" /\ own.desired = DeploymentOf[i]
    \/ own.enabled = "no" /\ legacyEnabled = "yes"

(* The successor is admitted only once no earlier owner is.                  *)
MayAdmit(i, legacyEnabled) ==
    \/ /\ own.enabled = "yes"
       /\ own.desired = DeploymentOf[i]
       /\ \A j \in Instances : member[j].state = "admitted" =>
              member[j].generation = own.generation
    \/ own.enabled = "no" /\ legacyEnabled = "yes"

Admissible(i, expected, legacyEnabled) ==
    /\ own.generation = expected
    /\ Enrolled(i)
    /\ MayAdmit(i, legacyEnabled)

Admit(i, expected, legacyEnabled) ==
    /\ Admissible(i, expected, legacyEnabled)
    /\ member' = [member EXCEPT ![i].state = "admitted", ![i].ready = "no",
                                ![i].generation = own.generation]
    /\ UNCHANGED own

(* Mutant of Activated: readiness is recorded in any admission.              *)
ActivatedUnadmitted(i, generation) ==
    /\ own.generation = generation
    /\ Enrolled(i)
    /\ member[i].generation = generation

Activated(i, generation) ==
    /\ own.generation = generation
    /\ Enrolled(i)
    /\ member[i].generation = generation
    /\ member[i].state = "admitted"
    /\ own.enabled = "yes" => own.desired = DeploymentOf[i]

MarkReady(i, generation) ==
    /\ Activated(i, generation)
    /\ member' = [member EXCEPT ![i].ready = "yes"]
    /\ UNCHANGED own

(* A process reports that it stopped claiming, then that its work is done.   *)
(* It may do so in any generation, for the admission it names.               *)
Acknowledgeable(i, generation, next) ==
    /\ Enrolled(i)
    /\ member[i].generation = generation
    /\ member[i].state \notin {"drained", next}
    /\ next = "drained" => member[i].state = "relinquished"

Acknowledge(i, generation, next) ==
    /\ Acknowledgeable(i, generation, next)
    /\ member' = [member EXCEPT ![i].state = next, ![i].ready = "no"]
    /\ UNCHANGED own

(* The operator proves that the tasks of these processes are gone: proofs    *)
(* gives, for each of them, the generation it was seen in.                   *)
EvidenceMatches(proofs) ==
    /\ DOMAIN proofs # {}
    /\ \A i \in DOMAIN proofs :
         /\ member[i].state # "absent"
         /\ TaskOf[i] # NoTask
         /\ member[i].generation = proofs[i]

Retire(id, expected, proofs) ==
    /\ own.generation = expected
    /\ own.lastRequest # id
    /\ EvidenceMatches(proofs)
    /\ member' = [i \in Instances |->
         IF i \in DOMAIN proofs
         THEN [member[i] EXCEPT !.state = "drained", !.retired = "yes",
                                !.ready = "no"]
         ELSE member[i]]
    /\ own' = [own EXCEPT !.lastRequest = id]

Generations == 0 .. MaxGeneration
Evidence == UNION {[gone -> Generations] : gone \in SUBSET Instances}

OwnershipNext ==
    \/ \E i \in Instances :
         \/ Register(i)
         \/ \E g \in Generations :
              \/ \E legacyEnabled \in {"no", "yes"} : Admit(i, g, legacyEnabled)
              \/ MarkReady(i, g)
              \/ \E next \in {"relinquished", "drained"} : Acknowledge(i, g, next)
    \/ \E id \in RequestIds, g \in Generations :
         \/ \E d \in Deployments \cup {NoDeployment},
               c \in SUBSET Tasks : Transition(id, g, d, c)
         \/ \E proofs \in Evidence : Retire(id, g, proofs)

OwnershipSpec == OwnershipInit /\ [][OwnershipNext]_ownershipVars

-----------------------------------------------------------------------------
(* The record and its members have the shapes above.                         *)
OwnershipTypeOK == own \in Ownership /\ member \in [Instances -> Member]

(* All admitted processes were admitted in one generation, and beyond the    *)
(* legacy generation 0 they belong to one deployment: whatever requests are  *)
(* delayed, repeated or crossed, two deployments never own the work at once. *)
OneOwner ==
    \A i, j \in Instances :
        member[i].state = "admitted" /\ member[j].state = "admitted" =>
            /\ member[i].generation = member[j].generation
            /\ member[i].generation > 0 => DeploymentOf[i] = DeploymentOf[j]

(* A ready process of the current generation belongs to the deployment that  *)
(* is desired now: what an operator concludes from the status is true.       *)
ReadyMeansDesired ==
    \A i \in Instances :
        /\ member[i].ready = "yes"
        /\ member[i].generation = own.generation
        /\ own.enabled = "yes"
        => member[i].state = "admitted" /\ DeploymentOf[i] = own.desired

(* A retired process never returns, whatever it still has in flight.         *)
RetiredIsFinal ==
    [][\A i \in Instances :
         member[i].retired = "yes" => member'[i] = member[i]]_ownershipVars
=============================================================================
