------------------------------- MODULE RunRow -------------------------------
(***************************************************************************)
(* A row of the runs table and the decisions made from one row             *)
(* (src/runs/run-store.ts, and the schema of postgres-run-store.ts).       *)
(* Shared by the queue's abstract specification RunQueue and by its        *)
(* implementation RunStore.                                                *)
(*                                                                         *)
(* Time is abstracted to what the statements compare it with: a lease is   *)
(* "live" or "lapsed" (lease_expires_at <= now).                           *)
(***************************************************************************)
EXTENDS Naturals, FiniteSets

CONSTANTS Runs,        \* run ids; their order is the order of (created_at, seq)
          Sessions,    \* session (thread) ids
          SessionOf,   \* session_id of each run
          DedupKeys,   \* idempotency keys
          DedupKeyOf,  \* key each run's enqueue carries, or NoKey
          NoKey,       \* a request without a key
          MaxAttempts, \* max_attempts: the error budget of a run
          MaxClaims,   \* the store's maxClaims option
          MaxTokens    \* bound: lease tokens issued per run

ASSUME RunRowAssumption ==
    /\ Runs \subseteq Nat
    /\ SessionOf \in [Runs -> Sessions]
    /\ NoKey \notin DedupKeys
    /\ DedupKeyOf \in [Runs -> DedupKeys \cup {NoKey}]
    /\ MaxAttempts \in Nat \ {0}
    /\ MaxClaims \in Nat \ {0}
    /\ MaxTokens \in Nat

NoToken == 0
Tokens == 1 .. MaxTokens

Terminal == {"done", "failed"}
Finished == Terminal \cup {"withdrawn"}

(* One row.  "unborn": not inserted yet; "withdrawn": deleted while pending. *)
Row == [status : {"unborn", "pending", "running", "withdrawn"} \cup Terminal,
        token : Nat, lease : {"none", "live", "lapsed"},
        attempts : Nat, errorAttempts : Nat, key : DedupKeys \cup {NoKey},
        result : {"none", "answer", "session_busy", "error"}]

NewRow == [status |-> "unborn", token |-> NoToken, lease |-> "none",
           attempts |-> 0, errorAttempts |-> 0, key |-> NoKey,
           result |-> "none"]

Siblings(r) == {s \in Runs \ {r} : SessionOf[s] = SessionOf[r]}

(* A claim: a fresh token, a live lease, one more attempt.                   *)
Leased(row, token) ==
    [row EXCEPT !.status = "running", !.token = token, !.lease = "live",
                !.attempts = @ + 1]

(* Mutant of Unleased: the lease token is left in the row.                   *)
UnleasedKeepingToken(row, status) ==
    [row EXCEPT !.status = status, !.lease = "none"]

(* The row after its lease columns are cleared and its status set.           *)
Unleased(row, status) ==
    [row EXCEPT !.status = status, !.token = NoToken, !.lease = "none"]

(* Mutant of KeyAfter: every completion frees the idempotency key.           *)
KeyAlwaysFreed(row, result) == NoKey

(* releasesDedupKey: a session_busy refusal frees the idempotency key.       *)
KeyAfter(row, result) == IF result = "session_busy" THEN NoKey ELSE row.key

(* Mutant of Completed: the completed row keeps its lease columns.           *)
CompletedKeepingLease(row, result) ==
    [row EXCEPT !.status = "done", !.result = result,
                !.key = KeyAfter(row, result)]

Completed(row, result) ==
    [Unleased(row, "done") EXCEPT !.result = result,
                                  !.key = KeyAfter(row, result)]

(* Mutant of Retries: the error budget is compared off by one.               *)
RetriesOffByOne(row, retry, charge) ==
    /\ retry # "no"
    /\ row.errorAttempts + charge <= MaxAttempts
    /\ row.attempts < MaxClaims

(* retire()'s decision, from the copy of the row its caller holds.           *)
Retries(row, retry, charge) ==
    /\ retry # "no"
    /\ row.errorAttempts + charge < MaxAttempts
    /\ row.attempts < MaxClaims

(* error_attempts=error_attempts+$n: the increment is on the stored column.  *)
Charged(row, charge) == [row EXCEPT !.errorAttempts = @ + charge]

Requeued(row, charge) == Unleased(Charged(row, charge), "pending")

Parked(row, charge) ==
    [Unleased(Charged(row, charge), "failed") EXCEPT !.result = "error"]
=============================================================================
