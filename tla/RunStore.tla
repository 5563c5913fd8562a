------------------------------ MODULE RunStore ------------------------------
(***************************************************************************)
(* The durable run queue (src/runs/run-store.ts and its PostgreSQL         *)
(* implementation postgres-run-store.ts) under its most general client:    *)
(* any process may, at any time, call any operation with any lease token   *)
(* it was ever handed, however stale.                                      *)
(*                                                                         *)
(* A step is one SQL statement.  What an operation keeps in process memory *)
(* between two statements (the candidate a claim's snapshot chose, the     *)
(* rows a reaper selected, the row fail() read before retire()) is in the  *)
(* variables claims, scans and retires, so statements of other processes   *)
(* interleave with it and a crash can drop it.                             *)
(*                                                                         *)
(* Besides what RunRow abstracts, a run is or is not in its retry back-off *)
(* (retry_after > now), and is or is not older than the reaper's maxAgeMs; *)
(* the clock moves each of them at any moment.                             *)
(***************************************************************************)
EXTENDS RunRow

CONSTANTS ClaimsInFlight,  \* bound: claim statements in flight
          ScansInFlight,   \* bound: selected rows not yet fenced
          RetiresInFlight  \* bound: retire() calls in flight

ASSUME RunStoreAssumption ==
    {ClaimsInFlight, ScansInFlight, RetiresInFlight} \subseteq Nat

VARIABLES
    run,     \* the runs table
    backoff, \* runs whose retry_after is still ahead of the clock
    aged,    \* runs whose started_at is more than maxAgeMs ago
    issued,  \* tokens issued so far for each run (a token is a fresh UUID)
    claims,  \* claim statements that chose their candidate, not yet committed
    scans,   \* expired leases a reaper selected and has not tried to fence yet
    retires  \* retire() calls whose UPDATE has not run yet

vars == <<run, backoff, aged, issued, claims, scans, retires>>

(* A claim statement: its candidate and the rows its snapshot showed.        *)
ClaimCall == [run : Runs, seen : SUBSET Runs]

(* A row selected as expired, as the reaper remembers it.                    *)
ScanCall == [run : Runs, token : Nat, attempts : Nat, errorAttempts : Nat,
             retry : {"no", "now"}]

(* Arguments of retire(): the remembered row, whether it may be retried (at  *)
(* once or after a delay), and the errors it is charged.                     *)
RetireCall == [run : Runs, token : Nat, attempts : Nat, errorAttempts : Nat,
               retry : {"no", "now", "later"}, charge : {0, 1}]

Exists(r) == run[r].status \notin {"unborn", "withdrawn"}

Init ==
    /\ run = [r \in Runs |-> NewRow]
    /\ backoff = {}
    /\ aged = {}
    /\ issued = [r \in Runs |-> 0]
    /\ claims = {}
    /\ scans = {}
    /\ retires = {}

-----------------------------------------------------------------------------
(* INSERT ... ON CONFLICT (idempotency_key) DO NOTHING.  A conflicting       *)
(* insert changes nothing: enqueue then returns the row that holds the key.  *)
(* created_at is read before the statement runs, so inserts land in any      *)
(* order of Runs.                                                            *)
Enqueue(r) ==
    /\ run[r].status = "unborn"
    /\ DedupKeyOf[r] # NoKey =>
         \A s \in Runs : run[s].key # DedupKeyOf[r]
    /\ run' = [run EXCEPT ![r].status = "pending", ![r].key = DedupKeyOf[r]]
    /\ UNCHANGED <<backoff, aged, issued, claims, scans, retires>>

(* Mutant of Blocks: an earlier pending sibling does not block.              *)
BlocksWithoutOrder(s, r) ==
    \/ run[s].status = "running"
    \/ run[s].status = "pending" /\ s \in backoff

(* A sibling that keeps r from being chosen by a claim.                      *)
Blocks(s, r) ==
    \/ run[s].status = "running"
    \/ run[s].status = "pending" /\ (s \in backoff \/ s < r)

(* The subquery of a claim picks its candidate in the statement's snapshot.  *)
ClaimSelect(r) ==
    /\ Cardinality(claims) < ClaimsInFlight
    /\ run[r].status = "pending"
    /\ r \notin backoff
    /\ \A s \in Siblings(r) : ~Blocks(s, r)
    /\ claims' = claims \cup
         {[run |-> r, seen |-> {s \in Siblings(r) : Exists(s)}]}
    /\ UNCHANGED <<run, backoff, aged, issued, scans, retires>>

(* Mutant of Claimable: no unique index on the running rows of a session.    *)
ClaimableWithoutIndex(c) ==
    /\ run[c.run].status = "pending"
    /\ c.run \notin backoff

(* The row lock re-checks the candidate's own columns, not the siblings the  *)
(* snapshot showed; the unique index on running rows stops a second one.     *)
Claimable(c) ==
    /\ run[c.run].status = "pending"
    /\ c.run \notin backoff
    /\ \A s \in Siblings(c.run) : run[s].status # "running"

ClaimCommit(c) ==
    /\ Claimable(c)
    /\ issued[c.run] < MaxTokens
    /\ issued' = [issued EXCEPT ![c.run] = @ + 1]
    /\ run' = [run EXCEPT ![c.run] = Leased(@, issued[c.run] + 1)]
    /\ claims' = claims \ {c}
    /\ UNCHANGED <<backoff, aged, scans, retires>>

(* Nothing to claim any more, or a unique violation: claim returns null.     *)
ClaimNull(c) ==
    /\ ~Claimable(c)
    /\ claims' = claims \ {c}
    /\ UNCHANGED <<run, backoff, aged, issued, scans, retires>>

(* A heartbeat moves lease_expires_at past the now of every earlier scan, so *)
(* the fence of a remembered row can no longer match.                        *)
Heartbeat(r, t) ==
    /\ run[r].token = t
    /\ run[r].status = "running"
    /\ run' = [run EXCEPT ![r].lease = "live"]
    /\ scans' = {c \in scans : c.run # r}
    /\ UNCHANGED <<backoff, aged, issued, claims, retires>>

ReleaseLease(r, t) ==
    /\ run[r].token = t
    /\ run[r].status = "running"
    /\ run' = [run EXCEPT ![r] = Unleased(@, "pending")]
    /\ UNCHANGED <<backoff, aged, issued, claims, scans, retires>>

(* complete() matches the token alone, not the status.                       *)
Complete(r, t, result) ==
    /\ run[r].token = t
    /\ run' = [run EXCEPT ![r] = Completed(@, result)]
    /\ UNCHANGED <<backoff, aged, issued, claims, scans, retires>>

(* Mutant of FailRead: an error is charged twice.                            *)
FailReadChargingTwice(r, t, retry) ==
    /\ Cardinality(retires) < RetiresInFlight
    /\ Exists(r)
    /\ run[r].token = t
    /\ retires' = retires \cup
         {[run |-> r, token |-> t, attempts |-> run[r].attempts,
           errorAttempts |-> run[r].errorAttempts, retry |-> retry,
           charge |-> 2]}
    /\ UNCHANGED <<run, backoff, aged, issued, claims, scans>>

(* fail(): the row is read, then handed to retire().                         *)
FailRead(r, t, retry) ==
    /\ Cardinality(retires) < RetiresInFlight
    /\ Exists(r)
    /\ run[r].token = t
    /\ retires' = retires \cup
         {[run |-> r, token |-> t, attempts |-> run[r].attempts,
           errorAttempts |-> run[r].errorAttempts, retry |-> retry,
           charge |-> 1]}
    /\ UNCHANGED <<run, backoff, aged, issued, claims, scans>>

Lapsed(r) == run[r].status = "running" /\ run[r].lease = "lapsed"

(* reapExpired's SELECT remembers every row whose lease has lapsed.          *)
ReapScan ==
    LET Remembered(r) == [run |-> r, token |-> run[r].token,
                          attempts |-> run[r].attempts,
                          errorAttempts |-> run[r].errorAttempts,
                          retry |-> IF r \in aged THEN "no" ELSE "now"]
        found == {Remembered(r) : r \in {r \in Runs : Lapsed(r)}}
    IN /\ found # {}
       /\ Cardinality(scans \cup found) <= ScansInFlight
       /\ scans' = scans \cup found
       /\ UNCHANGED <<run, backoff, aged, issued, claims, retires>>

(* Mutant of Fenceable: the fence does not match the remembered token.       *)
FenceableByAnyToken(c) == Lapsed(c.run)

Fenceable(c) == Lapsed(c.run) /\ run[c.run].token = c.token

(* The fence: a fresh token nobody runs under, held for FENCE_HOLD_MS while  *)
(* the session lease is force-released, then retired without an error count. *)
ReapFence(c) ==
    /\ Fenceable(c)
    /\ issued[c.run] < MaxTokens
    /\ Cardinality(retires) < RetiresInFlight
    /\ issued' = [issued EXCEPT ![c.run] = @ + 1]
    /\ run' = [run EXCEPT ![c.run].token = issued[c.run] + 1,
                          ![c.run].lease = "live"]
    /\ scans' = scans \ {c}
    /\ retires' = retires \cup
         {[run |-> c.run, token |-> issued[c.run] + 1, attempts |-> c.attempts,
           errorAttempts |-> c.errorAttempts, retry |-> c.retry,
           charge |-> 0]}
    /\ UNCHANGED <<backoff, aged, claims>>

ReapSkip(c) ==
    /\ ~Fenceable(c)
    /\ scans' = scans \ {c}
    /\ UNCHANGED <<run, backoff, aged, issued, claims, retires>>

(* Mutant of Retirable: the update does not match the remembered token.      *)
RetirableByAnyToken(c) == run[c.run].status = "running"

Retirable(c) == run[c.run].token = c.token /\ run[c.run].status = "running"

(* retire()'s UPDATE puts the run back into the queue ...                    *)
RetireRequeue(c) ==
    /\ Retirable(c)
    /\ Retries(c, c.retry, c.charge)
    /\ run' = [run EXCEPT ![c.run] = Requeued(@, c.charge)]
    /\ backoff' = IF c.retry = "later" THEN backoff \cup {c.run}
                                       ELSE backoff \ {c.run}
    /\ retires' = retires \ {c}
    /\ UNCHANGED <<aged, issued, claims, scans>>

(* ... or parks it as failed.                                                *)
RetirePark(c) ==
    /\ Retirable(c)
    /\ ~Retries(c, c.retry, c.charge)
    /\ run' = [run EXCEPT ![c.run] = Parked(@, c.charge)]
    /\ retires' = retires \ {c}
    /\ UNCHANGED <<backoff, aged, issued, claims, scans>>

RetireNoop(c) ==
    /\ ~Retirable(c)
    /\ retires' = retires \ {c}
    /\ UNCHANGED <<run, backoff, aged, issued, claims, scans>>

(* withdraw(), and the DELETE of steerQueued(): a pending row disappears.    *)
Withdraw(r) ==
    /\ run[r].status = "pending"
    /\ run' = [run EXCEPT ![r].status = "withdrawn", ![r].key = NoKey]
    /\ UNCHANGED <<backoff, aged, issued, claims, scans, retires>>

-----------------------------------------------------------------------------
(* Time passes a lease's expiry, a back-off's end, a run's maximum age.      *)
LeaseLapses(r) ==
    /\ run[r].lease = "live"
    /\ run' = [run EXCEPT ![r].lease = "lapsed"]
    /\ UNCHANGED <<backoff, aged, issued, claims, scans, retires>>

BackoffEnds(r) ==
    /\ r \in backoff
    /\ backoff' = backoff \ {r}
    /\ UNCHANGED <<run, aged, issued, claims, scans, retires>>

RunAges(r) ==
    /\ run[r].attempts > 0
    /\ run[r].status \in {"pending", "running"}
    /\ r \notin aged
    /\ aged' = aged \cup {r}
    /\ UNCHANGED <<run, backoff, issued, claims, scans, retires>>

(* A process dies between two statements of a call it had begun.             *)
CrashClaim(c) ==
    /\ claims' = claims \ {c}
    /\ UNCHANGED <<run, backoff, aged, issued, scans, retires>>

CrashReaper ==
    /\ scans # {}
    /\ scans' = {}
    /\ UNCHANGED <<run, backoff, aged, issued, claims, retires>>

CrashRetire(c) ==
    /\ retires' = retires \ {c}
    /\ UNCHANGED <<run, backoff, aged, issued, claims, scans>>

Next ==
    \/ \E r \in Runs :
         \/ Enqueue(r) \/ ClaimSelect(r) \/ Withdraw(r)
         \/ LeaseLapses(r) \/ BackoffEnds(r) \/ RunAges(r)
         \/ \E t \in Tokens :
              \/ Heartbeat(r, t) \/ ReleaseLease(r, t)
              \/ \E result \in {"answer", "session_busy"} :
                     Complete(r, t, result)
              \/ \E retry \in {"no", "now", "later"} : FailRead(r, t, retry)
    \/ \E c \in claims : ClaimCommit(c) \/ ClaimNull(c) \/ CrashClaim(c)
    \/ ReapScan \/ CrashReaper
    \/ \E c \in scans : ReapFence(c) \/ ReapSkip(c)
    \/ \E c \in retires :
         RetireRequeue(c) \/ RetirePark(c) \/ RetireNoop(c) \/ CrashRetire(c)

Spec == Init /\ [][Next]_vars

(* The queue as its clients see it: the same table, with the statements in   *)
(* flight hidden.                                                            *)
Queue == INSTANCE RunQueue
           WITH run <- run, backoff <- backoff, issued <- issued

(* The statements of claim(), fail() and reapExpired(), however they are     *)
(* interleaved with each other and with crashes, look like the atomic        *)
(* operations of the queue: deciding from what an earlier statement returned *)
(* is indistinguishable from deciding at the moment of the update.           *)
ImplementsQueue == Queue!QueueSpec

-----------------------------------------------------------------------------
(* Every variable holds rows, tokens and calls of the shapes above.          *)
TypeOK ==
    /\ run \in [Runs -> Row]
    /\ backoff \subseteq Runs
    /\ aged \subseteq Runs
    /\ issued \in [Runs -> Nat]
    /\ claims \subseteq ClaimCall
    /\ scans \subseteq ScanCall
    /\ retires \subseteq RetireCall

(* At most one run of a session is running, although a claim decides on a    *)
(* snapshot that other claims, retires and inserts have since overtaken.     *)
OneRunningPerSession ==
    \A r, s \in Runs :
        /\ run[r].status = "running"
        /\ run[s].status = "running"
        /\ SessionOf[r] = SessionOf[s]
        => r = s

(* A row carries a lease exactly while it is running: what lets complete()   *)
(* match the token without looking at the status.                            *)
LeaseIffRunning ==
    \A r \in Runs :
        /\ (run[r].token # NoToken) <=> (run[r].status = "running")
        /\ (run[r].lease # "none") <=> (run[r].status = "running")

(* What a reaper or fail() remembers of a row is still the row's content as  *)
(* long as the token it will match is the row's token, however many          *)
(* statements ran in between: deciding from the remembered copy is safe.     *)
RememberedRowIsCurrent ==
    \A c \in scans \cup retires :
        run[c.run].token = c.token =>
            /\ run[c.run].attempts = c.attempts
            /\ run[c.run].errorAttempts = c.errorAttempts

(* A run that can still execute has error budget left, and no run is ever    *)
(* charged more errors than max_attempts.                                    *)
ErrorBudgetRespected ==
    \A r \in Runs :
        /\ run[r].status \notin Terminal => run[r].errorAttempts < MaxAttempts
        /\ run[r].errorAttempts <= MaxAttempts

(* A request that is resent under the same idempotency key never yields two  *)
(* runs that are live or were answered: a second run is accepted only after  *)
(* the first was withdrawn or refused because the session was busy.          *)
OneEffectiveRunPerKey ==
    \A r, s \in Runs :
        /\ DedupKeyOf[r] # NoKey
        /\ DedupKeyOf[r] = DedupKeyOf[s]
        /\ Exists(r) /\ run[r].result # "session_busy"
        /\ Exists(s) /\ run[s].result # "session_busy"
        => r = s

(* A finished or withdrawn run is never touched again, whatever stale token, *)
(* remembered row or delayed statement is still in flight for it.            *)
FinishedIsFinal ==
    [][\A r \in Runs :
         run[r].status \in Finished => run'[r] = run[r]]_vars

(* When a run starts, every earlier run of its session that its claim could  *)
(* see has finished or left the queue: turns of a session start in order.    *)
NoOvertaking ==
    [][\A r \in Runs :
         (run[r].status = "pending" /\ run'[r].status = "running") =>
             \E c \in claims :
                 /\ c.run = r
                 /\ \A s \in c.seen :
                        s < r => run[s].status \in Finished]_vars

(* A run leaves the running state only for a reason the token justifies: the *)
(* lease that is current changes hands only through the reaper, and only     *)
(* after it lapsed.                                                          *)
LeaseTakenOnlyWhenLapsed ==
    [][\A r \in Runs :
         (/\ run[r].status = "running"
          /\ run'[r].status = "running"
          /\ run'[r].token # run[r].token) => run[r].lease = "lapsed"]_vars
=============================================================================
