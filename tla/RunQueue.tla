------------------------------ MODULE RunQueue ------------------------------
(***************************************************************************)
(* What the durable run queue promises its clients (the RunStore interface *)
(* of src/runs/run-store.ts): every operation is one atomic step that      *)
(* decides from the row as it is.  RunStore, in which claim(), fail() and  *)
(* reapExpired() take several statements and decide from what an earlier   *)
(* one returned, is shown to implement it.                                 *)
(*                                                                         *)
(* The queue promises exclusion, not order: a claim may pass over an       *)
(* earlier run that was inserted after the claim looked.                   *)
(***************************************************************************)
EXTENDS RunRow

VARIABLES
    run,     \* the runs table
    backoff, \* runs whose retry_after is still ahead of the clock
    issued   \* tokens issued so far for each run (a token is a fresh UUID)

queueVars == <<run, backoff, issued>>

QueueInit ==
    /\ run = [r \in Runs |-> NewRow]
    /\ backoff = {}
    /\ issued = [r \in Runs |-> 0]

Owns(r, t) == run[r].token = t /\ run[r].status = "running"

Enqueue(r) ==
    /\ run[r].status = "unborn"
    /\ DedupKeyOf[r] # NoKey => \A s \in Runs : run[s].key # DedupKeyOf[r]
    /\ run' = [run EXCEPT ![r].status = "pending", ![r].key = DedupKeyOf[r]]
    /\ UNCHANGED <<backoff, issued>>

Claim(r) ==
    /\ run[r].status = "pending"
    /\ r \notin backoff
    /\ \A s \in Siblings(r) : run[s].status # "running"
    /\ issued[r] < MaxTokens
    /\ issued' = [issued EXCEPT ![r] = @ + 1]
    /\ run' = [run EXCEPT ![r] = Leased(@, issued[r] + 1)]
    /\ UNCHANGED backoff

Heartbeat(r, t) ==
    /\ Owns(r, t)
    /\ run' = [run EXCEPT ![r].lease = "live"]
    /\ UNCHANGED <<backoff, issued>>

ReleaseLease(r, t) ==
    /\ Owns(r, t)
    /\ run' = [run EXCEPT ![r] = Unleased(@, "pending")]
    /\ UNCHANGED <<backoff, issued>>

Complete(r, t, result) ==
    /\ Owns(r, t)
    /\ run' = [run EXCEPT ![r] = Completed(@, result)]
    /\ UNCHANGED <<backoff, issued>>

(* A failed or reaped attempt goes back into the queue, at once or after its *)
(* back-off, or is parked: decided from the row at this very step.           *)
Retire(r, t, retry, charge) ==
    /\ Owns(r, t)
    /\ run' = [run EXCEPT ![r] = IF Retries(@, retry, charge)
                                 THEN Requeued(@, charge)
                                 ELSE Parked(@, charge)]
    /\ backoff' = IF Retries(run[r], retry, charge)
                  THEN IF retry = "later" THEN backoff \cup {r}
                                          ELSE backoff \ {r}
                  ELSE backoff
    /\ UNCHANGED issued

(* Mutant of Fence: the fence sets no expiry, so no later sweep finds it.    *)
FenceForever(r) ==
    /\ run[r].status = "running"
    /\ run[r].lease = "lapsed"
    /\ issued[r] < MaxTokens
    /\ issued' = [issued EXCEPT ![r] = @ + 1]
    /\ run' = [run EXCEPT ![r].token = issued[r] + 1, ![r].lease = "none"]
    /\ UNCHANGED backoff

(* The reaper takes a lapsed lease over with a token nobody runs under.      *)
Fence(r) ==
    /\ run[r].status = "running"
    /\ run[r].lease = "lapsed"
    /\ issued[r] < MaxTokens
    /\ issued' = [issued EXCEPT ![r] = @ + 1]
    /\ run' = [run EXCEPT ![r].token = issued[r] + 1, ![r].lease = "live"]
    /\ UNCHANGED backoff

Withdraw(r) ==
    /\ run[r].status = "pending"
    /\ run' = [run EXCEPT ![r].status = "withdrawn", ![r].key = NoKey]
    /\ UNCHANGED <<backoff, issued>>

LeaseLapses(r) ==
    /\ run[r].lease = "live"
    /\ run' = [run EXCEPT ![r].lease = "lapsed"]
    /\ UNCHANGED <<backoff, issued>>

BackoffEnds(r) ==
    /\ r \in backoff
    /\ backoff' = backoff \ {r}
    /\ UNCHANGED <<run, issued>>

QueueNext ==
    \E r \in Runs :
        \/ Enqueue(r) \/ Claim(r) \/ Fence(r) \/ Withdraw(r)
        \/ LeaseLapses(r) \/ BackoffEnds(r)
        \/ \E t \in Tokens :
             \/ Heartbeat(r, t) \/ ReleaseLease(r, t)
             \/ \E result \in {"answer", "session_busy"} : Complete(r, t, result)
             \/ \E retry \in {"no", "now", "later"}, charge \in {0, 1} :
                    Retire(r, t, retry, charge)

QueueSpec == QueueInit /\ [][QueueNext]_queueVars
=============================================================================
