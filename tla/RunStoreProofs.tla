--------------------------- MODULE RunStoreProofs ---------------------------
(***************************************************************************)
(* Proofs about the run queue, for every set of runs and sessions and for  *)
(* every value of the budgets and bounds.                                  *)
(***************************************************************************)
EXTENDS RunStore, TLAPS

(* The queue starts with well-formed rows and no call in flight.             *)
LEMMA InitType == Init => TypeOK
  BY RunRowAssumption
     DEF Init, TypeOK, NewRow, NoToken, Row, Terminal, ClaimCall, ScanCall,
         RetireCall

(* Clearing the lease columns of a row gives a row.                          *)
LEMMA UnleasedType ==
    ASSUME NEW row \in Row, NEW status \in {"pending", "done", "failed"}
    PROVE  Unleased(row, status) \in Row
  BY DEF Unleased, NoToken, Row, Terminal

(* Leasing a row gives a row.                                                *)
LEMMA LeasedType ==
    ASSUME NEW row \in Row, NEW token \in Nat
    PROVE  Leased(row, token) \in Row
<1>1. row.attempts + 1 \in Nat
  BY DEF Row
<1> QED
  BY <1>1 DEF Leased, Row, Terminal

(* Every statement keeps the shapes of the table and of the calls in flight. *)
LEMMA StepType == TypeOK /\ [Next]_vars => TypeOK'
<1> SUFFICES ASSUME TypeOK, [Next]_vars PROVE TypeOK'
  OBVIOUS
<1> USE DEF TypeOK
<1>1. ASSUME NEW r \in Runs, Enqueue(r) PROVE TypeOK'
  <2>1. DedupKeyOf[r] \in DedupKeys \cup {NoKey}
    BY RunRowAssumption
  <2>2. [run[r] EXCEPT !.status = "pending", !.key = DedupKeyOf[r]] \in Row
    BY <2>1 DEF Row, Terminal
  <2> QED
    BY <1>1, <2>2 DEF Enqueue
<1>2. ASSUME NEW r \in Runs, ClaimSelect(r) PROVE TypeOK'
  BY <1>2 DEF ClaimSelect, ClaimCall, Siblings
<1>3. ASSUME NEW r \in Runs, Withdraw(r) PROVE TypeOK'
  <2>1. [run[r] EXCEPT !.status = "withdrawn", !.key = NoKey] \in Row
    BY DEF Row, Terminal
  <2> QED
    BY <1>3, <2>1 DEF Withdraw
<1>4. ASSUME NEW r \in Runs, LeaseLapses(r) PROVE TypeOK'
  BY <1>4 DEF LeaseLapses, Row, Terminal
<1>5. ASSUME NEW r \in Runs, BackoffEnds(r) PROVE TypeOK'
  BY <1>5 DEF BackoffEnds, Row, Terminal
<1>6. ASSUME NEW r \in Runs, RunAges(r) PROVE TypeOK'
  BY <1>6 DEF RunAges, Row, Terminal
<1>7. ASSUME NEW r \in Runs, NEW t \in Tokens, Heartbeat(r, t) PROVE TypeOK'
  BY <1>7 DEF Heartbeat, Row, Terminal
<1>8. ASSUME NEW r \in Runs, NEW t \in Tokens, ReleaseLease(r, t) PROVE TypeOK'
  <2>1. Unleased(run[r], "pending") \in Row
    BY UnleasedType
  <2> QED
    BY <1>8, <2>1 DEF ReleaseLease
<1>9. ASSUME NEW r \in Runs, NEW t \in Tokens,
             NEW result \in {"answer", "session_busy"}, Complete(r, t, result)
      PROVE TypeOK'
  <2>1. Unleased(run[r], "done") \in Row
    BY UnleasedType
  <2>2. KeyAfter(run[r], result) \in DedupKeys \cup {NoKey}
    BY DEF KeyAfter, Row
  <2>3. Completed(run[r], result) \in Row
    BY <2>1, <2>2 DEF Completed, Row, Terminal
  <2> QED
    BY <1>9, <2>3 DEF Complete
<1>10. ASSUME NEW r \in Runs, NEW t \in Tokens,
              NEW retry \in {"no", "now", "later"}, FailRead(r, t, retry)
       PROVE TypeOK'
  BY <1>10 DEF FailRead, RetireCall, Row, Tokens
<1>11. ASSUME NEW c \in claims, ClaimCommit(c) PROVE TypeOK'
  <2>1. c.run \in Runs /\ issued[c.run] + 1 \in Nat
    BY DEF ClaimCall
  <2>2. Leased(run[c.run], issued[c.run] + 1) \in Row
    BY <2>1, LeasedType
  <2> QED
    BY <1>11, <2>1, <2>2 DEF ClaimCommit
<1>12. ASSUME NEW c \in claims, ClaimNull(c) \/ CrashClaim(c) PROVE TypeOK'
  BY <1>12 DEF ClaimNull, CrashClaim
<1>13. CASE ReapScan
  BY <1>13 DEF ReapScan, ScanCall, Row, Lapsed
<1>14. CASE CrashReaper
  BY <1>14 DEF CrashReaper
<1>15. ASSUME NEW c \in scans, ReapFence(c) PROVE TypeOK'
  <2> DEFINE t == issued[c.run] + 1
  <2>1. c \in ScanCall /\ c.run \in Runs /\ t \in Nat
    BY DEF ScanCall
  <2>2. [run[c.run] EXCEPT !.token = t, !.lease = "live"] \in Row
    <3> HIDE DEF t
    <3>1. run[c.run] \in Row
      BY <2>1
    <3> HIDE DEF TypeOK
    <3> QED
      BY <2>1, <3>1 DEF Row, Terminal
  <2>3. run' \in [Runs -> Row]
    BY <1>15, <2>1, <2>2 DEF ReapFence
  <2>4. [run |-> c.run, token |-> t, attempts |-> c.attempts,
         errorAttempts |-> c.errorAttempts, retry |-> c.retry, charge |-> 0]
          \in RetireCall
    BY <2>1 DEF ScanCall, RetireCall
  <2>5. retires' \subseteq RetireCall /\ scans' \subseteq ScanCall
    BY <1>15, <2>4 DEF ReapFence
  <2>6. issued' \in [Runs -> Nat]
    BY <1>15, <2>1 DEF ReapFence
  <2> QED
    BY <1>15, <2>3, <2>5, <2>6 DEF ReapFence
<1>16. ASSUME NEW c \in scans, ReapSkip(c) PROVE TypeOK'
  BY <1>16 DEF ReapSkip
<1>17. ASSUME NEW c \in retires, RetireRequeue(c) \/ RetirePark(c) PROVE TypeOK'
  <2>1. c \in RetireCall /\ run[c.run] \in Row /\ c.run \in Runs
    BY DEF RetireCall
  <2>2. Charged(run[c.run], c.charge) \in Row
    BY <2>1 DEF Charged, RetireCall, Row
  <2>3. Requeued(run[c.run], c.charge) \in Row
    BY <2>2, UnleasedType DEF Requeued
  <2>4. Parked(run[c.run], c.charge) \in Row
    BY <2>2, UnleasedType DEF Parked, Row, Terminal
  <2> QED
    BY <1>17, <2>1, <2>3, <2>4 DEF RetireRequeue, RetirePark
<1>18. ASSUME NEW c \in retires, RetireNoop(c) \/ CrashRetire(c) PROVE TypeOK'
  BY <1>18 DEF RetireNoop, CrashRetire
<1>19. CASE UNCHANGED vars
  BY <1>19 DEF vars
<1> QED
  BY <1>1, <1>2, <1>3, <1>4, <1>5, <1>6, <1>7, <1>8, <1>9, <1>10, <1>11,
     <1>12, <1>13, <1>14, <1>15, <1>16, <1>17, <1>18, <1>19 DEF Next

(* The table and the calls in flight are always well formed.                 *)
THEOREM TypeCorrect == Spec => []TypeOK
<1> QED
  BY InitType, StepType, PTL DEF Spec
-----------------------------------------------------------------------------
(* What one step may do to the row of one run, column by column.             *)
SameCounts(r) ==
    /\ run'[r].attempts = run[r].attempts
    /\ run'[r].errorAttempts = run[r].errorAttempts

SameRequest(r) == run'[r].key = run[r].key /\ run'[r].result = run[r].result

NoLease(r) == run'[r].token = NoToken /\ run'[r].lease = "none"

SameLease(r) ==
    run'[r].token = run[r].token /\ run'[r].lease = run[r].lease

Inserted(r) ==
    /\ run[r].status = "unborn" /\ run'[r].status = "pending"
    /\ run'[r].key = DedupKeyOf[r] /\ run'[r].result = run[r].result
    /\ DedupKeyOf[r] # NoKey => \A s \in Runs : run[s].key # DedupKeyOf[r]
    /\ SameCounts(r) /\ SameLease(r)

Deleted(r) ==
    /\ run[r].status = "pending" /\ run'[r].status = "withdrawn"
    /\ run'[r].key = NoKey /\ run'[r].result = run[r].result
    /\ SameCounts(r) /\ SameLease(r)

Started(r) ==
    /\ run[r].status = "pending" /\ run'[r].status = "running"
    /\ \A s \in Siblings(r) : run[s].status # "running"
    /\ run'[r].token = issued[r] + 1 /\ run'[r].lease = "live"
    /\ run'[r].attempts = run[r].attempts + 1
    /\ run'[r].errorAttempts = run[r].errorAttempts
    /\ SameRequest(r)

Timed(r) ==
    /\ run'[r].status = run[r].status /\ run'[r].token = run[r].token
    /\ run[r].status = "running" \/ run[r].lease = "live"
    /\ run'[r].lease # "none"
    /\ SameCounts(r) /\ SameRequest(r)

Fenced(r) ==
    /\ run[r].status = "running" /\ run'[r].status = "running"
    /\ run[r].lease = "lapsed" /\ run'[r].lease = "live"
    /\ run'[r].token = issued[r] + 1
    /\ SameCounts(r) /\ SameRequest(r)

Released(r) ==
    /\ run[r].status = "running" /\ run'[r].status = "pending"
    /\ NoLease(r) /\ SameCounts(r) /\ SameRequest(r)

CompletedAt(r) ==
    /\ run[r].token # NoToken /\ run'[r].status = "done"
    /\ run'[r].result # "session_busy" => run'[r].key = run[r].key
    /\ run'[r].key \in {NoKey, run[r].key}
    /\ NoLease(r) /\ SameCounts(r)

RequeuedAt(r) ==
    /\ run[r].status = "running" /\ run'[r].status = "pending"
    /\ \E c \in retires :
         /\ c.run = r /\ run[r].token = c.token /\ Retries(c, c.retry, c.charge)
         /\ run'[r].errorAttempts = run[r].errorAttempts + c.charge
    /\ run'[r].attempts = run[r].attempts
    /\ NoLease(r) /\ SameRequest(r)

ParkedAt(r) ==
    /\ run[r].status = "running" /\ run'[r].status = "failed"
    /\ run'[r].errorAttempts
         \in {run[r].errorAttempts, run[r].errorAttempts + 1}
    /\ run'[r].attempts = run[r].attempts
    /\ run'[r].key = run[r].key /\ run'[r].result = "error"
    /\ NoLease(r)

RowStep(r) ==
    /\ \A s \in Runs \ {r} : run'[s] = run[s]
    /\ \/ /\ Started(r) \/ Fenced(r)
          /\ issued' = [issued EXCEPT ![r] = @ + 1]
       \/ /\ \/ Inserted(r) \/ Deleted(r) \/ Timed(r) \/ Released(r)
             \/ CompletedAt(r) \/ RequeuedAt(r) \/ ParkedAt(r)
          /\ UNCHANGED issued

(* A step that changes the table changes one row, in one of these ways.      *)
LEMMA TableStep ==
    TypeOK /\ [Next]_vars =>
        UNCHANGED <<run, issued>> \/ \E r \in Runs : RowStep(r)
<1> SUFFICES ASSUME TypeOK, [Next]_vars
             PROVE  UNCHANGED <<run, issued>> \/ \E r \in Runs : RowStep(r)
  OBVIOUS
<1> USE DEF TypeOK, RowStep
<1>1. ASSUME NEW r \in Runs, Enqueue(r) PROVE RowStep(r)
  BY <1>1 DEF Enqueue, Row, Inserted, SameCounts, SameLease
<1>2. ASSUME NEW r \in Runs, Withdraw(r) PROVE RowStep(r)
  BY <1>2 DEF Withdraw, Row, Deleted, SameCounts, SameLease
<1>3. ASSUME NEW r \in Runs, LeaseLapses(r) PROVE RowStep(r)
  BY <1>3 DEF LeaseLapses, Row, Timed, SameCounts, SameRequest
<1>4. ASSUME NEW r \in Runs, NEW t \in Tokens, Heartbeat(r, t) PROVE RowStep(r)
  BY <1>4 DEF Heartbeat, Row, Timed, SameCounts, SameRequest
<1>5. ASSUME NEW r \in Runs, NEW t \in Tokens, ReleaseLease(r, t)
      PROVE  RowStep(r)
  BY <1>5 DEF ReleaseLease, Unleased, Row, Released, NoLease, SameCounts,
              SameRequest
<1>6. ASSUME NEW r \in Runs, NEW t \in Tokens,
             NEW result \in {"answer", "session_busy"}, Complete(r, t, result)
      PROVE  RowStep(r)
  <2>1. run[r].token # NoToken
    BY <1>6 DEF Complete, Tokens, NoToken
  <2> QED
    BY <1>6, <2>1 DEF Complete, Completed, Unleased, KeyAfter, Row,
                      CompletedAt, NoLease, SameCounts
<1>7. ASSUME NEW c \in claims, ClaimCommit(c) PROVE RowStep(c.run)
  BY <1>7 DEF ClaimCommit, Claimable, ClaimCall, Leased, Row, Started,
              SameRequest
<1>8. ASSUME NEW c \in scans, ReapFence(c) PROVE RowStep(c.run)
  BY <1>8 DEF ReapFence, Fenceable, Lapsed, ScanCall, Row, Fenced, SameCounts,
              SameRequest
<1>9. ASSUME NEW c \in retires, RetireRequeue(c) PROVE RowStep(c.run)
  BY <1>9 DEF RetireRequeue, Retirable, Requeued, Charged, Unleased,
              RetireCall, Row, RequeuedAt, NoLease, SameRequest
<1>10. ASSUME NEW c \in retires, RetirePark(c) PROVE RowStep(c.run)
  BY <1>10 DEF RetirePark, Retirable, Parked, Charged, Unleased, RetireCall,
               Row, ParkedAt, NoLease
<1>11. CASE UNCHANGED vars
  BY <1>11 DEF vars
<1>12. \A c \in claims \cup scans \cup retires : c.run \in Runs
  BY DEF ClaimCall, ScanCall, RetireCall
<1>13. /\ \A r \in Runs : ClaimSelect(r) \/ BackoffEnds(r) \/ RunAges(r)
                          => UNCHANGED <<run, issued>>
       /\ \A r \in Runs, t \in Tokens, retry \in {"no", "now", "later"} :
            FailRead(r, t, retry) => UNCHANGED <<run, issued>>
       /\ \A c \in claims : ClaimNull(c) \/ CrashClaim(c)
                             => UNCHANGED <<run, issued>>
       /\ \A c \in scans : ReapSkip(c) => UNCHANGED <<run, issued>>
       /\ \A c \in retires : RetireNoop(c) \/ CrashRetire(c)
                              => UNCHANGED <<run, issued>>
       /\ ReapScan \/ CrashReaper => UNCHANGED <<run, issued>>
  BY DEF ClaimSelect, BackoffEnds, RunAges, FailRead, ClaimNull, CrashClaim,
         ReapScan, CrashReaper, ReapSkip, RetireNoop, CrashRetire
<1> HIDE DEF TypeOK, RowStep
<1> QED
  BY <1>1, <1>2, <1>3, <1>4, <1>5, <1>6, <1>7, <1>8, <1>9, <1>10, <1>11, <1>12,
     <1>13 DEF Next
-----------------------------------------------------------------------------
(* A token in use was issued: a fresh one differs from every remembered one. *)
TokensIssued ==
    /\ \A r \in Runs : run[r].token <= issued[r]
    /\ \A c \in scans \cup retires : c.token \in 1 .. issued[c.run]

(* The bound on tokens is respected.                                         *)
WithinBound == \A r \in Runs : issued[r] <= MaxTokens

(* A row holds its request's key until it is refused as busy or withdrawn.   *)
KeyHeld ==
    \A r \in Runs :
        /\ run[r].key \in {NoKey, DedupKeyOf[r]}
        /\ Exists(r) /\ run[r].result # "session_busy" =>
               run[r].key = DedupKeyOf[r]
        /\ run[r].result = "session_busy" => run[r].status = "done"

(* Every earlier run a claim's snapshot showed has finished, and stays so.   *)
SeenFinished ==
    \A c \in claims : \A s \in c.seen : s < c.run => run[s].status \in Finished

(* A row gains its lease when it starts and loses it when it stops.          *)
LEMMA StepLease ==
    TypeOK /\ LeaseIffRunning /\ [Next]_vars
        => LeaseIffRunning'
<1> SUFFICES ASSUME TypeOK, LeaseIffRunning, [Next]_vars
             PROVE  LeaseIffRunning'
  OBVIOUS
<1>1. CASE UNCHANGED run
  BY <1>1 DEF LeaseIffRunning
<1>2. ASSUME NEW r \in Runs, RowStep(r) PROVE LeaseIffRunning'
  BY <1>2, StepType DEF TypeOK, RowStep, LeaseIffRunning,
     Inserted, Deleted, Started, Timed, Fenced, Released, CompletedAt, RequeuedAt,
     ParkedAt, SameCounts, SameRequest, SameLease, NoLease, NoToken, Row
<1> QED
  BY <1>1, <1>2, TableStep

(* The unique index admits one running row per session.                      *)
LEMMA StepOneRunning ==
    TypeOK /\ LeaseIffRunning /\ OneRunningPerSession /\ [Next]_vars
        => OneRunningPerSession'
<1> SUFFICES ASSUME TypeOK, LeaseIffRunning, OneRunningPerSession, [Next]_vars
             PROVE  OneRunningPerSession'
  OBVIOUS
<1>1. CASE UNCHANGED run
  BY <1>1 DEF OneRunningPerSession, LeaseIffRunning
<1>2. ASSUME NEW r \in Runs, RowStep(r) PROVE OneRunningPerSession'
  BY <1>2, StepType DEF TypeOK, RowStep, OneRunningPerSession, LeaseIffRunning,
     Inserted, Deleted, Started, Timed, Fenced, Released, CompletedAt, RequeuedAt,
     ParkedAt, SameCounts, SameRequest, SameLease, NoLease, NoToken, Row, Siblings
<1> QED
  BY <1>1, <1>2, TableStep

(* Errors are charged from a current copy, so the budget is never overrun.   *)
LEMMA StepBudget ==
    TypeOK /\ LeaseIffRunning /\ RememberedRowIsCurrent /\ ErrorBudgetRespected /\ [Next]_vars
        => ErrorBudgetRespected'
<1> SUFFICES ASSUME TypeOK, LeaseIffRunning, RememberedRowIsCurrent, ErrorBudgetRespected, [Next]_vars
             PROVE  ErrorBudgetRespected'
  OBVIOUS
<1>1. CASE UNCHANGED run
  BY <1>1 DEF LeaseIffRunning, RememberedRowIsCurrent, ErrorBudgetRespected
<1>2. ASSUME NEW r \in Runs, RowStep(r) PROVE ErrorBudgetRespected'
  <2> USE DEF TypeOK, RowStep, ErrorBudgetRespected, SameCounts, Row, Terminal
  <2>1. CASE RequeuedAt(r)
    <3>1. PICK c \in retires :
            /\ c.run = r /\ run[r].token = c.token /\ Retries(c, c.retry, c.charge)
            /\ run'[r].errorAttempts = run[r].errorAttempts + c.charge
      BY <2>1 DEF RequeuedAt
    <3>2. run'[r].errorAttempts < MaxAttempts
      BY <3>1 DEF RememberedRowIsCurrent, Retries
    <3> QED
      BY <1>2, <3>2, RunRowAssumption, StepType
  <2>2. CASE ParkedAt(r)
    BY <1>2, <2>2, RunRowAssumption, StepType DEF ParkedAt
  <2>3. CASE CompletedAt(r)
    BY <1>2, <2>3, StepType DEF CompletedAt, LeaseIffRunning
  <2>4. CASE Inserted(r)
    <3>1. run'[r].errorAttempts < MaxAttempts
      BY <1>2, <2>4, RunRowAssumption DEF Inserted
    <3> QED
      BY <1>2, <3>1, RunRowAssumption, StepType
  <2>5. CASE Timed(r)
    BY <1>2, <2>5, StepType DEF Timed
  <2>6. CASE Deleted(r) \/ Started(r) \/ Fenced(r) \/ Released(r)
    BY <1>2, <2>6, StepType DEF Deleted, Started, Fenced, Released
  <2> QED
    BY <1>2, <2>1, <2>2, <2>3, <2>4, <2>5, <2>6
<1> QED
  BY <1>1, <1>2, TableStep

(* Keys are freed by withdrawal and by a busy refusal only.                  *)
LEMMA StepKey ==
    TypeOK /\ LeaseIffRunning /\ KeyHeld /\ [Next]_vars
        => KeyHeld'
<1> SUFFICES ASSUME TypeOK, LeaseIffRunning, KeyHeld, [Next]_vars
             PROVE  KeyHeld'
  OBVIOUS
<1>1. CASE UNCHANGED run
  BY <1>1 DEF LeaseIffRunning, KeyHeld, Exists
<1>2. ASSUME NEW r \in Runs, RowStep(r) PROVE KeyHeld'
  <2> USE RunRowAssumption DEF TypeOK, RowStep, KeyHeld, Exists, Row
  <2>1. CASE Inserted(r) \/ Deleted(r)
    BY <1>2, <2>1, StepType DEF Inserted, Deleted
  <2>2. CASE CompletedAt(r)
    BY <1>2, <2>2, StepType DEF CompletedAt, LeaseIffRunning
  <2>3. CASE Started(r) \/ Timed(r) \/ Fenced(r) \/ Released(r) \/ RequeuedAt(r)
    BY <1>2, <2>3, StepType
       DEF Started, Timed, Fenced, Released, RequeuedAt, SameRequest
  <2>4. CASE ParkedAt(r)
    BY <1>2, <2>4, StepType DEF ParkedAt
  <2> QED
    BY <1>2, <2>1, <2>2, <2>3, <2>4
<1> QED
  BY <1>1, <1>2, TableStep

(* A second run is accepted for a key only when no effective run holds it.   *)
LEMMA StepEffective ==
    TypeOK /\ LeaseIffRunning /\ KeyHeld /\ OneEffectiveRunPerKey /\ [Next]_vars
        => OneEffectiveRunPerKey'
<1> SUFFICES ASSUME TypeOK, LeaseIffRunning, KeyHeld, OneEffectiveRunPerKey, [Next]_vars
             PROVE  OneEffectiveRunPerKey'
  OBVIOUS
<1>1. CASE UNCHANGED run
  BY <1>1 DEF LeaseIffRunning, KeyHeld, OneEffectiveRunPerKey, Exists
<1>2. ASSUME NEW r \in Runs, RowStep(r) PROVE OneEffectiveRunPerKey'
  <2> USE DEF TypeOK, RowStep, KeyHeld, Exists, Row, OneEffectiveRunPerKey
  <2>1. CASE Inserted(r)
    BY <1>2, <2>1, StepType DEF Inserted
  <2>2. CASE Deleted(r)
    BY <1>2, <2>2, StepType DEF Deleted
  <2>3. CASE CompletedAt(r)
    BY <1>2, <2>3, StepType DEF CompletedAt, LeaseIffRunning
  <2>4. CASE Started(r) \/ Timed(r) \/ Fenced(r) \/ Released(r) \/ RequeuedAt(r)
    BY <1>2, <2>4, StepType
       DEF Started, Timed, Fenced, Released, RequeuedAt, SameRequest
  <2>5. CASE ParkedAt(r)
    BY <1>2, <2>5, StepType DEF ParkedAt
  <2> QED
    BY <1>2, <2>1, <2>2, <2>3, <2>4, <2>5
<1> QED
  BY <1>1, <1>2, TableStep

(* A finished or withdrawn row is out of reach of every statement.           *)
LEMMA FinishedStays ==
    TypeOK /\ LeaseIffRunning /\ [Next]_vars =>
        \A r \in Runs : run[r].status \in Finished => run'[r] = run[r]
<1> SUFFICES ASSUME TypeOK, LeaseIffRunning, [Next]_vars, NEW r \in Runs,
                    run[r].status \in Finished, NEW q \in Runs, RowStep(q)
             PROVE  r # q
  BY TableStep DEF RowStep
<1> QED
  BY DEF RowStep, LeaseIffRunning, Finished, Terminal, Inserted, Deleted,
         Started, Timed, Fenced, Released, CompletedAt, RequeuedAt, ParkedAt

(* A row that keeps its token keeps its counters; a new token is fresh.      *)
LEMMA TokenStep ==
    TypeOK /\ LeaseIffRunning /\ [Next]_vars =>
        \A r \in Runs :
            \/ run'[r].token \in {NoToken, issued[r] + 1}
            \/ run'[r].token = run[r].token /\ SameCounts(r)
<1> SUFFICES ASSUME TypeOK, LeaseIffRunning, [Next]_vars, NEW r \in Runs,
                    NEW q \in Runs, RowStep(q)
             PROVE  \/ run'[r].token \in {NoToken, issued[r] + 1}
                    \/ run'[r].token = run[r].token /\ SameCounts(r)
  BY TableStep DEF SameCounts
<1>1. CASE r # q
  BY <1>1 DEF RowStep, SameCounts
<1>2. CASE r = q
  BY <1>2 DEF RowStep, Inserted, Deleted, Started, Timed, Fenced, Released,
              CompletedAt, RequeuedAt, ParkedAt, NoLease, SameLease
<1> QED
  BY <1>1, <1>2

(* Only a scan, a fence and a failed turn begin to retire a run.             *)
LEMMA CallsShrink ==
    [Next]_vars =>
        \/ scans' \cup retires' \subseteq scans \cup retires
        \/ ReapScan
        \/ \E c \in scans : ReapFence(c)
        \/ \E r \in Runs, t \in Tokens, retry \in {"no", "now", "later"} :
              FailRead(r, t, retry)
  BY DEF Next, vars, Enqueue, ClaimSelect, Withdraw, LeaseLapses, BackoffEnds,
     RunAges, Heartbeat, ReleaseLease, Complete, ClaimCommit, ClaimNull,
     CrashClaim, CrashReaper, ReapSkip, RetireRequeue, RetirePark, RetireNoop,
     CrashRetire

(* Tokens are issued one at a time, and a row never runs ahead of the count. *)
LEMMA IssueStep ==
    TypeOK /\ LeaseIffRunning /\ TokensIssued /\ [Next]_vars =>
        \A r \in Runs : issued'[r] >= issued[r] /\ run'[r].token <= issued'[r]
<1> SUFFICES ASSUME TypeOK, LeaseIffRunning, TokensIssued, [Next]_vars
             PROVE  \A r \in Runs : /\ issued'[r] >= issued[r]
                                    /\ run'[r].token <= issued'[r]
  OBVIOUS
<1> USE DEF TypeOK, TokensIssued, Row
<1>1. CASE UNCHANGED <<run, issued>>
  BY <1>1
<1>2. ASSUME NEW q \in Runs, RowStep(q)
      PROVE  \A r \in Runs : issued'[r] >= issued[r] /\ run'[r].token <= issued'[r]
  BY <1>2 DEF RowStep, Inserted, Deleted, Started, Timed, Fenced, Released,
              CompletedAt, RequeuedAt, ParkedAt, NoLease, SameLease, NoToken
<1> QED
  BY <1>1, <1>2, TableStep

(* Tokens only grow past the remembered ones.                                *)
LEMMA StepTokens ==
    TypeOK /\ LeaseIffRunning /\ TokensIssued /\ [Next]_vars => TokensIssued'
<1> SUFFICES ASSUME TypeOK, LeaseIffRunning, TokensIssued, [Next]_vars,
                    NEW c \in scans' \cup retires'
             PROVE  c.token \in 1 .. issued'[c.run]
  BY IssueStep DEF TokensIssued
<1> USE StepType, IssueStep DEF TypeOK, Row
<1>1. CASE c \in scans \cup retires
  BY <1>1 DEF TokensIssued, ScanCall, RetireCall
<1>2. CASE ReapScan
  BY <1>1, <1>2 DEF ReapScan, Lapsed, LeaseIffRunning, TokensIssued, NoToken
<1>3. ASSUME NEW s \in scans, ReapFence(s) PROVE c.token \in 1 .. issued'[c.run]
  BY <1>1, <1>3 DEF ReapFence, ScanCall
<1>4. ASSUME NEW r \in Runs, NEW t \in Tokens,
             NEW retry \in {"no", "now", "later"}, FailRead(r, t, retry)
      PROVE  c.token \in 1 .. issued'[c.run]
  BY <1>1, <1>4 DEF FailRead, Tokens, TokensIssued
<1> QED
  BY <1>1, <1>2, <1>3, <1>4, CallsShrink

(* A claim and a fence issue a token only below the bound.                   *)
LEMMA StepBound == TypeOK /\ WithinBound /\ [Next]_vars => WithinBound'
<1> SUFFICES ASSUME TypeOK, WithinBound, [Next]_vars PROVE WithinBound'
  OBVIOUS
<1> USE RunRowAssumption DEF TypeOK, WithinBound
<1>1. ASSUME NEW c \in claims, ClaimCommit(c) PROVE WithinBound'
  BY <1>1 DEF ClaimCommit, ClaimCall
<1>2. ASSUME NEW c \in scans, ReapFence(c) PROVE WithinBound'
  BY <1>2 DEF ReapFence, ScanCall
<1>3. CASE UNCHANGED issued
  BY <1>3
<1> QED
  BY <1>1, <1>2, <1>3 DEF Next, vars, Enqueue, ClaimSelect, Withdraw,
     LeaseLapses, BackoffEnds, RunAges, Heartbeat, ReleaseLease, Complete,
     FailRead, ClaimNull, CrashClaim, ReapScan, CrashReaper, ReapSkip,
     RetireRequeue, RetirePark, RetireNoop, CrashRetire

(* A remembered row goes stale only by losing its token.                     *)
LEMMA StepRemembered ==
    TypeOK /\ LeaseIffRunning /\ TokensIssued /\ RememberedRowIsCurrent
    /\ [Next]_vars => RememberedRowIsCurrent'
<1> DEFINE Current(c) == run'[c.run].token = c.token =>
                           /\ run'[c.run].attempts = c.attempts
                           /\ run'[c.run].errorAttempts = c.errorAttempts
<1> SUFFICES ASSUME TypeOK, LeaseIffRunning, TokensIssued,
                    RememberedRowIsCurrent, [Next]_vars,
                    NEW c \in scans' \cup retires'
             PROVE  Current(c)
  BY DEF RememberedRowIsCurrent
<1> USE DEF TypeOK, Row
<1>1. CASE c \in scans \cup retires
  <2>1. c.run \in Runs
    BY <1>1 DEF ScanCall, RetireCall
  <2>2. c.token # NoToken /\ c.token # issued[c.run] + 1
    BY <1>1, <2>1 DEF TokensIssued, NoToken
  <2> QED
    BY <1>1, <2>1, <2>2, TokenStep DEF RememberedRowIsCurrent, SameCounts
<1>2. CASE ReapScan
  BY <1>1, <1>2 DEF ReapScan
<1>3. ASSUME NEW s \in scans, ReapFence(s) PROVE Current(c)
  BY <1>1, <1>3 DEF ReapFence, Fenceable, ScanCall, RememberedRowIsCurrent
<1>4. ASSUME NEW r \in Runs, NEW t \in Tokens,
             NEW retry \in {"no", "now", "later"}, FailRead(r, t, retry)
      PROVE  Current(c)
  BY <1>1, <1>4 DEF FailRead
<1> QED
  BY <1>1, <1>2, <1>3, <1>4, CallsShrink

(* A claim is blocked by every earlier live run it can see.                  *)
LEMMA StepSeen ==
    TypeOK /\ LeaseIffRunning /\ SeenFinished /\ [Next]_vars => SeenFinished'
<1> SUFFICES ASSUME TypeOK, LeaseIffRunning, SeenFinished, [Next]_vars
             PROVE  SeenFinished'
  OBVIOUS
<1>1. CASE claims' \subseteq claims
  BY <1>1, FinishedStays DEF SeenFinished, TypeOK, ClaimCall
<1>2. ASSUME NEW r \in Runs, ClaimSelect(r) PROVE SeenFinished'
  BY <1>2 DEF ClaimSelect, Siblings, Exists, Blocks, SeenFinished, Finished,
              Terminal, TypeOK, Row
<1> QED
  BY <1>1, <1>2 DEF Next, vars, Enqueue, Withdraw, LeaseLapses, BackoffEnds,
     RunAges, Heartbeat, ReleaseLease, Complete, FailRead, ClaimCommit,
     ClaimNull, CrashClaim, ReapScan, CrashReaper, ReapFence, ReapSkip,
     RetireRequeue, RetirePark, RetireNoop, CrashRetire
-----------------------------------------------------------------------------
(* The inductive invariant: the checked invariants, and what they rest on.   *)
IInv ==
    /\ TypeOK
    /\ LeaseIffRunning
    /\ TokensIssued
    /\ WithinBound
    /\ RememberedRowIsCurrent
    /\ ErrorBudgetRespected
    /\ OneRunningPerSession
    /\ KeyHeld
    /\ OneEffectiveRunPerKey
    /\ SeenFinished

(* IInv is inductive, hence holds in every reachable state.                  *)
THEOREM Invariance == Spec => []IInv
<1>1. Init => IInv
  <2> SUFFICES ASSUME Init PROVE IInv
    OBVIOUS
  <2>1. \A r \in Runs : run[r] = NewRow
    BY DEF Init
  <2>2. TypeOK
    BY InitType
  <2>3. LeaseIffRunning /\ OneRunningPerSession
    BY <2>1 DEF NewRow, NoToken, LeaseIffRunning, OneRunningPerSession
  <2>6. ErrorBudgetRespected
    <3>1. 0 < MaxAttempts
      BY RunRowAssumption
    <3> QED
      BY <2>1, <3>1, RunRowAssumption DEF NewRow, ErrorBudgetRespected
  <2>4. KeyHeld /\ OneEffectiveRunPerKey
    BY <2>1 DEF NewRow, Exists, KeyHeld, OneEffectiveRunPerKey
  <2>5. TokensIssued /\ WithinBound /\ RememberedRowIsCurrent /\ SeenFinished
    BY <2>1, RunRowAssumption
       DEF Init, NewRow, NoToken, TokensIssued, WithinBound, RememberedRowIsCurrent,
                SeenFinished
  <2> QED
    BY <2>2, <2>3, <2>4, <2>5, <2>6 DEF IInv
<1>2. IInv /\ [Next]_vars => IInv'
  BY StepType, StepLease, StepTokens, StepBound, StepRemembered, StepBudget,
     StepOneRunning, StepKey, StepEffective, StepSeen DEF IInv
<1> QED
  BY <1>1, <1>2, PTL DEF Spec

(* One running run per session, whatever claims, reapers and stale workers   *)
(* are interleaved with each other.                                          *)
THEOREM OneRunningPerSessionAlways == Spec => []OneRunningPerSession
  BY Invariance, PTL DEF IInv

(* A row is leased exactly while it runs: complete() may ignore the status.  *)
THEOREM LeaseIffRunningAlways == Spec => []LeaseIffRunning
  BY Invariance, PTL DEF IInv

(* retire() never decides from a stale copy of a row it still owns.          *)
THEOREM RememberedRowIsCurrentAlways == Spec => []RememberedRowIsCurrent
  BY Invariance, PTL DEF IInv

(* No run is charged past its error budget, and a live run has budget left.  *)
THEOREM ErrorBudgetRespectedAlways == Spec => []ErrorBudgetRespected
  BY Invariance, PTL DEF IInv

(* A resent request never has two runs that are live or were answered.       *)
THEOREM OneEffectiveRunPerKeyAlways == Spec => []OneEffectiveRunPerKey
  BY Invariance, PTL DEF IInv

(* No statement changes a run that finished or was withdrawn.                *)
THEOREM FinishedIsFinalAlways == Spec => FinishedIsFinal
<1>1. IInv /\ [Next]_vars =>
        [\A r \in Runs : run[r].status \in Finished => run'[r] = run[r]]_vars
  BY FinishedStays DEF IInv
<1> QED
  BY <1>1, Invariance, PTL DEF Spec, FinishedIsFinal

(* Turns of a session start in the order of (created_at, seq), as far as the *)
(* claim could see.                                                          *)
THEOREM NoOvertakingAlways == Spec => NoOvertaking
<1> DEFINE Ordered(r) ==
      (run[r].status = "pending" /\ run'[r].status = "running") =>
          \E c \in claims :
              /\ c.run = r
              /\ \A s \in c.seen : s < r => run[s].status \in Finished
<1>1. IInv /\ [Next]_vars => [\A r \in Runs : Ordered(r)]_vars
  <2> SUFFICES ASSUME IInv, [Next]_vars, NEW r \in Runs,
                      run[r].status = "pending", run'[r].status = "running"
               PROVE  \E c \in claims :
                          /\ c.run = r
                          /\ \A s \in c.seen : s < r => run[s].status \in Finished
    OBVIOUS
  <2>1. PICK q \in Runs : RowStep(q)
    BY TableStep DEF IInv
  <2>2. r = q /\ issued' # issued
    BY <2>1 DEF RowStep, Inserted, Deleted, Started, Timed, Fenced, Released,
                CompletedAt, RequeuedAt, ParkedAt, IInv, TypeOK
  <2>3. \E c \in claims : ClaimCommit(c) /\ c.run = r
    <3>1. (\E c \in claims : ClaimCommit(c)) \/ (\E c \in scans : ReapFence(c))
      BY <2>2 DEF Next, vars, Enqueue, ClaimSelect, Withdraw, LeaseLapses,
         BackoffEnds, RunAges, Heartbeat, ReleaseLease, Complete, FailRead,
         ClaimNull, CrashClaim, ReapScan, CrashReaper, ReapSkip, RetireRequeue,
         RetirePark, RetireNoop, CrashRetire
    <3>2. ASSUME NEW c \in scans, ReapFence(c) PROVE FALSE
      BY <3>2 DEF ReapFence, Fenceable, Lapsed, IInv, TypeOK, ScanCall, Row
    <3>3. ASSUME NEW c \in claims, ClaimCommit(c) PROVE c.run = r
      BY <3>3 DEF ClaimCommit, IInv, TypeOK, ClaimCall, Row
    <3> QED
      BY <3>1, <3>2, <3>3
  <2> QED
    BY <2>3 DEF IInv, SeenFinished
<1> QED
  BY <1>1, Invariance, PTL DEF Spec, NoOvertaking

(* A running run's lease is taken over only after it lapsed.                 *)
THEOREM LeaseTakenOnlyWhenLapsedAlways == Spec => LeaseTakenOnlyWhenLapsed
<1> DEFINE Kept(r) ==
      (/\ run[r].status = "running"
       /\ run'[r].status = "running"
       /\ run'[r].token # run[r].token) => run[r].lease = "lapsed"
<1>1. IInv /\ [Next]_vars => [\A r \in Runs : Kept(r)]_vars
  BY TableStep DEF RowStep, Inserted, Deleted, Started, Timed, Fenced,
     Released, CompletedAt, RequeuedAt, ParkedAt, IInv
<1> QED
  BY <1>1, Invariance, PTL DEF Spec, LeaseTakenOnlyWhenLapsed
-----------------------------------------------------------------------------
(* The queue's operations on rows are the store's.                           *)
LEMMA SameRowOperations ==
    /\ Queue!Tokens = Tokens /\ Queue!NewRow = NewRow
    /\ \A r \in Runs : Queue!Siblings(r) = Siblings(r)
    /\ \A row, x : /\ Queue!Leased(row, x) = Leased(row, x)
                   /\ Queue!Unleased(row, x) = Unleased(row, x)
                   /\ Queue!Completed(row, x) = Completed(row, x)
                   /\ Queue!Requeued(row, x) = Requeued(row, x)
                   /\ Queue!Parked(row, x) = Parked(row, x)
    /\ \A row, retry, charge :
         Queue!Retries(row, retry, charge) <=> Retries(row, retry, charge)
  BY DEF Queue!Tokens, Tokens, Queue!NewRow, NewRow, Queue!NoToken, NoToken,
         Queue!Siblings, Siblings, Queue!Leased, Leased, Queue!Unleased,
         Unleased, Queue!Completed, Completed, Queue!KeyAfter, KeyAfter,
         Queue!Requeued, Requeued, Queue!Charged, Charged, Queue!Parked,
         Parked, Queue!Retries, Retries

(* A token issued within the bound is one a client may present.              *)
LEMMA IssuedWithinBound ==
    ASSUME NEW n \in Nat, n <= MaxTokens, NEW t \in 1 .. n
    PROVE  t \in Tokens
  BY RunRowAssumption DEF Tokens

(* A step of the implementation is an atomic operation of the queue, or is   *)
(* invisible in the table.  Retiring needs that the remembered row is the    *)
(* stored one whenever its token still matches.                              *)
LEMMA QueueStep == IInv /\ [Next]_vars => [Queue!QueueNext]_(Queue!queueVars)
<1> SUFFICES ASSUME IInv, Next
             PROVE  Queue!QueueNext \/ UNCHANGED Queue!queueVars
  BY DEF vars, Queue!queueVars
<1> USE SameRowOperations DEF IInv, TypeOK, Queue!QueueNext, Queue!queueVars
<1>1. ASSUME NEW r \in Runs,
             Enqueue(r) \/ Withdraw(r) \/ LeaseLapses(r) \/ BackoffEnds(r)
      PROVE  Queue!QueueNext
  BY <1>1 DEF Enqueue, Withdraw, LeaseLapses, BackoffEnds, Queue!Enqueue,
              Queue!Withdraw, Queue!LeaseLapses, Queue!BackoffEnds
<1>2. ASSUME NEW r \in Runs, NEW t \in Tokens,
             Heartbeat(r, t) \/ ReleaseLease(r, t)
      PROVE  Queue!QueueNext
  BY <1>2 DEF Heartbeat, ReleaseLease, Queue!Heartbeat, Queue!ReleaseLease,
              Queue!Owns
<1>3. ASSUME NEW r \in Runs, NEW t \in Tokens,
             NEW result \in {"answer", "session_busy"}, Complete(r, t, result)
      PROVE  Queue!QueueNext
  <2>1. run[r].status = "running"
    BY <1>3 DEF Complete, LeaseIffRunning, Tokens, NoToken
  <2> QED
    BY <1>3, <2>1 DEF Complete, Queue!Complete, Queue!Owns
<1>4. ASSUME NEW c \in claims, ClaimCommit(c) PROVE Queue!QueueNext
  <2>1. c.run \in Runs
    BY DEF ClaimCall
  <2>2. Queue!Claim(c.run)
    BY <1>4, <2>1 DEF ClaimCommit, Claimable, Queue!Claim
  <2> QED
    BY <2>1, <2>2
<1>5. ASSUME NEW c \in scans, ReapFence(c) PROVE Queue!QueueNext
  <2>1. c.run \in Runs
    BY DEF ScanCall
  <2>2. Queue!Fence(c.run)
    BY <1>5, <2>1 DEF ReapFence, Fenceable, Lapsed, Queue!Fence
  <2> QED
    BY <2>1, <2>2
<1>6. ASSUME NEW c \in retires, RetireRequeue(c) \/ RetirePark(c)
      PROVE  Queue!QueueNext
  <2>1. c.run \in Runs /\ c.retry \in {"no", "now", "later"}
        /\ c.charge \in {0, 1}
    BY DEF RetireCall
  <2>2. Retirable(c)
    BY <1>6 DEF RetireRequeue, RetirePark
  <2>3. /\ run[c.run].attempts = c.attempts
        /\ run[c.run].errorAttempts = c.errorAttempts
    BY <2>2 DEF Retirable, RememberedRowIsCurrent
  <2>4. Retries(run[c.run], c.retry, c.charge) <=> Retries(c, c.retry, c.charge)
    BY <2>3 DEF Retries
  <2>5. Queue!Retire(c.run, c.token, c.retry, c.charge)
    <3>1. CASE RetireRequeue(c)
      BY <3>1, <2>1, <2>2, <2>4
         DEF RetireRequeue, Retirable, Queue!Retire, Queue!Owns
    <3>2. CASE RetirePark(c)
      BY <3>2, <2>1, <2>2, <2>4
         DEF RetirePark, Retirable, Queue!Retire, Queue!Owns
    <3> QED
      BY <1>6, <3>1, <3>2
  <2>6. c.token \in Tokens
    <3>1. c.token \in 1 .. issued[c.run] /\ issued[c.run] <= MaxTokens
      BY <2>1 DEF TokensIssued, WithinBound
    <3>2. issued[c.run] \in Nat
      BY <2>1
    <3> QED
      BY ONLY <3>1, <3>2, IssuedWithinBound
  <2> QED
    BY <2>1, <2>5, <2>6
<1> QED
  BY <1>1, <1>2, <1>3, <1>4, <1>5, <1>6
     DEF Next, ClaimSelect, RunAges, FailRead, ClaimNull, CrashClaim, ReapScan,
         CrashReaper, ReapSkip, RetireNoop, CrashRetire

(* The PostgreSQL store implements the queue its clients rely on.            *)
THEOREM StoreImplementsQueue == Spec => ImplementsQueue
<1>1. Init => Queue!QueueInit
  BY SameRowOperations DEF Init, Queue!QueueInit
<1> QED
  BY <1>1, QueueStep, Invariance, PTL DEF Spec, ImplementsQueue, Queue!QueueSpec
=============================================================================
