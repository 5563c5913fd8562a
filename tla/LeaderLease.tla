---------------------------- MODULE LeaderLease ----------------------------
(***************************************************************************)
(* One key of the leader lease (src/persistence/leader-lease.ts): a        *)
(* PostgreSQL advisory lock taken on a session of its own, held while      *)
(* hold() runs its callback.  The lock goes with the session, so a process *)
(* whose session was cut still runs its callback: first without knowing    *)
(* ("cut"), then, once the connection reported its error, with the promise *)
(* "lost" resolved.  The sweeps and drains that use a lease extend this    *)
(* module.                                                                 *)
(***************************************************************************)
EXTENDS Integers, Sequences, FiniteSets

CONSTANTS Processes, \* the processes that compete for the lease
          NoProcess

ASSUME LeaderLeaseAssumption == NoProcess \notin Processes

VARIABLES
    holder, \* the process whose live session has the advisory lock
    hold    \* what each process is in: no hold(), or one in the state shown

leaseVars == <<holder, hold>>

LeaseTypeOK ==
    /\ holder \in Processes \cup {NoProcess}
    /\ hold \in [Processes -> {"none", "held", "cut", "lost"}]

LeaseInit ==
    /\ holder = NoProcess
    /\ hold = [p \in Processes |-> "none"]

Freed(p) == IF holder = p THEN NoProcess ELSE holder

-----------------------------------------------------------------------------
(* pg_try_advisory_lock won; a process that loses returns null and changes   *)
(* nothing, and one that is already in hold() returns at once.               *)
TryLock(p) ==
    /\ hold[p] = "none"
    /\ holder = NoProcess
    /\ holder' = p
    /\ hold' = [hold EXCEPT ![p] = "held"]

(* The server ends the session, and with it the lock.                        *)
SessionCut(p) ==
    /\ hold[p] = "held"
    /\ holder' = Freed(p)
    /\ hold' = [hold EXCEPT ![p] = "cut"]

(* drop(): the error event of the connection resolves "lost".                *)
LossNoticed(p) ==
    /\ hold[p] = "cut"
    /\ hold' = [hold EXCEPT ![p] = "lost"]
    /\ UNCHANGED holder

(* Mutant of Unlock: hold() returns without unlocking.                       *)
UnlockForgotten(p) ==
    /\ hold[p] # "none"
    /\ hold' = [hold EXCEPT ![p] = "none"]
    /\ UNCHANGED holder

(* The callback returned.  The unlock frees the lock; where it fails the     *)
(* session is destroyed, which frees it too.  A process that dies frees it   *)
(* the same way.                                                             *)
Unlock(p) ==
    /\ hold[p] # "none"
    /\ holder' = Freed(p)
    /\ hold' = [hold EXCEPT ![p] = "none"]

(* What a lease may do, whatever runs under it.                              *)
LeaseNext ==
    \E p \in Processes :
        TryLock(p) \/ SessionCut(p) \/ LossNoticed(p) \/ Unlock(p)

LeaseSpec == LeaseInit /\ [][LeaseNext]_leaseVars

-----------------------------------------------------------------------------
(* Two processes are inside hold() at once only when the session of one of   *)
(* them was cut: the code that runs under the lease has one executor, except *)
(* for the ones that do not know yet, or still finish a step, after a loss.  *)
OneLeader ==
    \A p, q \in Processes :
        p # q /\ hold[p] = "held" => hold[q] \in {"none", "cut", "lost"}
=============================================================================
