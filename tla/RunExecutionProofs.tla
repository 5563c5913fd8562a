------------------------- MODULE RunExecutionProofs -------------------------
(***************************************************************************)
(* Proofs about the execution of runs, for every set of runs, sessions,    *)
(* workers and reapers and every budget.  TurnsDoNotInterleave and the     *)
(* theorems about the queue's use hold under all faults: what attempts and *)
(* sweeps do to the runs table is a behaviour of RunQueue.                 *)
(* The other properties are those of a calm environment:                   *)
(* processes crash, but the live ones renew their leases and nobody drains *)
(* (NeverRefusedBusy), and turn boundaries are stored (the answers).       *)
(***************************************************************************)
EXTENDS RunExecution, TLAPS, FiniteSetTheorems

-----------------------------------------------------------------------------
(* Under all faults: one writer at a time.                                   *)

(* Calls in progress are about runs of the table.                            *)
CallsFit ==
    /\ \A w \in Workers : worker[w].pc # "idle" => worker[w].run \in Runs
    /\ \A w \in Workers :
           drain[w].pc \in {"beaten", "unlocked"} => drain[w].run \in Runs
    /\ \A p \in Reapers : reaper[p].pc # "idle" => reaper[p].run \in Runs

(* Leases are issued in order, and a transcript is written in that order:    *)
(* the lease in force is at least as late as any that wrote.                 *)
WrittenInOrder(s) ==
    /\ \A i \in DOMAIN log[s] : log[s][i].lease <= leases
    /\ lease[s].state = "live" =>
           /\ lease[s].token <= leases
           /\ \A i \in DOMAIN log[s] : log[s][i].lease <= lease[s].token
    /\ \A i, k \in DOMAIN log[s] : i <= k => log[s][i].lease <= log[s][k].lease

ShapeInv ==
    /\ ExecTypeOK
    /\ issued \in [Runs -> Nat] /\ leases \in Nat
    /\ CallsFit

WriterInv == ShapeInv /\ \A s \in Sessions : WrittenInOrder(s)

-----------------------------------------------------------------------------
(* In a calm environment: whoever is alive owns its run.                     *)

(* At these steps an attempt has the session's lease.                        *)
Writing == {"ask", "note", "answer", "unlock", "backfill", "erred", "abandon"}

NobodyDrains == stopped = {} /\ \A w \in Workers : drain[w] = NoDrain

OneRunning ==
    \A r \in Runs : \A s \in Siblings(r) :
        run[r].status = "running" => run[s].status # "running"

(* A worker's attempt, and a reaper's sweep, is under a lease that it keeps  *)
(* alive, and nobody else is at that run.                                    *)
OwnsRun(c) == run[c.run].status = "running" /\ run[c.run].token = c.token
                                            /\ run[c.run].lease = "live"

WorkersOwn ==
    /\ \A w \in Workers : IF worker[w].pc = "idle" THEN worker[w].run = 0
                                                   ELSE OwnsRun(worker[w])
    /\ \A w, v \in Workers :
           w # v /\ worker[w].run = worker[v].run => worker[w].run = 0

ReapersOwn ==
    /\ \A p \in Reapers : IF reaper[p].pc = "idle" THEN reaper[p].run = 0
                                                   ELSE OwnsRun(reaper[p])
    /\ \A p, q \in Reapers :
           p # q /\ reaper[p].run = reaper[q].run => reaper[p].run = 0
    /\ \A p \in Reapers, w \in Workers :
           reaper[p].run = worker[w].run => reaper[p].run = 0

(* A session lease is that of the attempt that writes, or of one that died   *)
(* and whose run no reaper has passed on yet.                                *)
HeldBy(s, r) ==
    /\ SessionOf[r] = s /\ run[r].status = "running"
    /\ \/ \E w \in Workers : /\ worker[w].run = r /\ worker[w].pc \in Writing
                             /\ worker[w].lease = lease[s].token
       \/ /\ \A w \in Workers : worker[w].run # r
          /\ \A p \in Reapers : reaper[p].run = r => reaper[p].pc = "fenced"

LeaseHeld(s) == lease[s].state = "live" => \E r \in Runs : HeldBy(s, r)

NoneBusy ==
    /\ \A w \in Workers : worker[w].result # "session_busy"
    /\ NeverRefusedBusy

CalmInv ==
    /\ NobodyDrains /\ OneRunning /\ WorkersOwn /\ ReapersOwn
    /\ \A s \in Sessions : LeaseHeld(s)
    /\ NoneBusy

-----------------------------------------------------------------------------
(* Where turn boundaries are stored too: the answers.                        *)

Of(r, i) == i \in DOMAIN log[SessionOf[r]] /\ log[SessionOf[r]][i].run = r

Says(r, i, kind) == Of(r, i) /\ log[SessionOf[r]][i].kind = kind

Unfinished(r) == run[r].status \in {"unborn", "pending", "running"}

(* A turn precedes the siblings that wait for a retry, so turns nest.        *)
ClaimedFirst ==
    /\ \A r \in Runs : run[r].status = "running" => run[r].attempts > 0
    /\ \A r \in Runs : run[r].status = "unborn" => run[r].attempts = 0
    /\ \A r \in Runs : \A i \in Nat : Of(r, i) => run[r].attempts > 0

WaitingLater ==
    \A r \in Runs : \A q \in Siblings(r) :
        /\ run[r].status = "running" /\ run[q].status = "pending"
        /\ run[q].attempts > 0
        => q > r

Nested ==
    /\ \A r \in Runs : \A q \in Siblings(r) : \A i, j \in Nat :
           Of(q, i) /\ Of(r, j) /\ i < j /\ Unfinished(q) => q > r
    /\ \A r \in Runs : \A q \in Siblings(r) : \A i, j, k \in Nat :
           Of(q, i) /\ Of(r, j) /\ Of(q, k) /\ i < j /\ j < k => ~Unfinished(r)

InItsSession ==
    \A s \in Sessions : \A i \in DOMAIN log[s] : SessionOf[log[s][i].run] = s

(* The boundary of a turn is an entry of its run, later than which the run   *)
(* does not ask; answers come after it, and after an ask.                    *)
BoundaryFits(r) ==
    /\ \A b \in Nat : turnUserSeq[r] = b /\ b # 0 =>
           /\ Says(r, b, "ask") \/ Says(r, b, "note")
           /\ \A j \in Nat : Says(r, j, "ask") => j <= b
    /\ \A i \in Nat : Says(r, i, "answer") =>
           turnUserSeq[r] # 0 /\ turnUserSeq[r] < i
    /\ \A i \in Nat : Says(r, i, "answer") \/ Says(r, i, "note") =>
           \E j \in Nat : j < i /\ Says(r, j, "ask")
    /\ \A i, j \in Nat : Says(r, i, "answer") /\ Says(r, j, "answer") =>
           i = j \/ Interrupted(r)
    /\ run[r].result = "answer" => \E i \in Nat : Says(r, i, "answer")

(* What an attempt at run r knows of it.                                     *)
AttemptFits(w, r) ==
    LET a == worker[w] IN
    /\ a.number <= 1 => a.recorded = "none"
    /\ a.number <= 1 /\ a.pc \in {"claimed", "start", "acquire", "ask", "backfill"}
       => \A i \in Nat : ~Of(r, i)
    /\ a.pc \in {"acquire", "ask", "note", "answer"} =>
           Interrupted(r) \/ \A i \in Nat : ~Says(r, i, "answer")
    /\ a.pc \in {"acquire", "ask"} =>
           (a.recorded = "none" <=> turnUserSeq[r] = 0)
    /\ a.pc = "backfill" => turnUserSeq[r] = 0
    /\ a.pc \in {"note", "answer"} => \E i \in Nat : Says(r, i, "ask")
    /\ a.pc = "note" => \A b \in Nat : a.seq = b =>
           /\ b # 0
           /\ Says(r, b, "ask") \/ Says(r, b, "note")
           /\ \A j \in Nat : Says(r, j, "ask") => j <= b
    /\ a.pc = "answer" => turnUserSeq[r] # 0
    /\ a.result = "answer" => \E i \in Nat : Says(r, i, "answer")
    /\ a.pc \in {"unlock", "complete"} => a.result = "answer"

AnswerInv ==
    /\ ClaimedFirst /\ WaitingLater /\ Nested /\ InItsSession
    /\ \A r \in Runs : BoundaryFits(r)
    /\ \A w \in Workers, r \in Runs : worker[w].run = r => AttemptFits(w, r)

-----------------------------------------------------------------------------
(* Rows of the queue.                                                        *)

(* A row keeps its shape whatever a queue operation does to it.              *)
LEMMA RowShapes ==
    ASSUME NEW row \in Row
    PROVE  /\ \A token \in Nat :
                /\ Leased(row, token) \in Row
                /\ [row EXCEPT !.token = token, !.lease = "live"] \in Row
           /\ \A status \in {"pending", "done", "failed"} :
                Unleased(row, status) \in Row
           /\ \A result \in {"none", "answer", "session_busy"} :
                Completed(row, result) \in Row
           /\ \A charge \in {0, 1} :
                Requeued(row, charge) \in Row /\ Parked(row, charge) \in Row
           /\ \A st \in {"live", "lapsed"} : [row EXCEPT !.lease = st] \in Row
           /\ [row EXCEPT !.status = "withdrawn", !.key = NoKey] \in Row
           /\ \A key \in DedupKeys \cup {NoKey} :
                [row EXCEPT !.status = "pending", !.key = key] \in Row
<1>1. \A token \in Nat :
        /\ Leased(row, token) \in Row
        /\ [row EXCEPT !.token = token, !.lease = "live"] \in Row
  <2>1. row.attempts + 1 \in Nat
    BY DEF Row
  <2> QED
    BY <2>1 DEF Leased, Row, Terminal
<1>2. \A x \in Row : \A status \in {"pending", "done", "failed"} :
        Unleased(x, status) \in Row
  BY DEF Unleased, NoToken, Row, Terminal
<1>3. ASSUME NEW result \in {"none", "answer", "session_busy"}
      PROVE  Completed(row, result) \in Row
  <2>1. Unleased(row, "done") \in Row
    BY <1>2
  <2>2. KeyAfter(row, result) \in DedupKeys \cup {NoKey}
    BY DEF KeyAfter, Row
  <2> QED
    BY <2>1, <2>2 DEF Completed, Row, Terminal
<1>4. ASSUME NEW charge \in {0, 1}
      PROVE  Requeued(row, charge) \in Row /\ Parked(row, charge) \in Row
  <2>1. Charged(row, charge) \in Row
    BY DEF Charged, Row
  <2>2. /\ Unleased(Charged(row, charge), "pending") \in Row
        /\ Unleased(Charged(row, charge), "failed") \in Row
    BY <2>1, <1>2
  <2> QED
    BY <2>2 DEF Requeued, Parked, Row, Terminal
<1>5. /\ \A st \in {"live", "lapsed"} : [row EXCEPT !.lease = st] \in Row
      /\ [row EXCEPT !.status = "withdrawn", !.key = NoKey] \in Row
      /\ \A key \in DedupKeys \cup {NoKey} :
           [row EXCEPT !.status = "pending", !.key = key] \in Row
  BY DEF Row, Terminal
<1> QED
  BY <1>1, <1>2, <1>3, <1>4, <1>5

(* What an attempt at its completion reports.                                *)
Reported(result) ==
    \E w \in Workers : worker[w].pc = "complete" /\ worker[w].result = result

(* What any operation of the queue on a run does.                            *)
QueueStep(r) ==
    \/ Enqueue(r) \/ Claim(r) \/ Fence(r) \/ Withdraw(r)
    \/ LeaseLapses(r) \/ BackoffEnds(r)
    \/ \E t \in Nat :
         \/ Heartbeat(r, t) \/ ReleaseLease(r, t)
         \/ \E result \in {"none", "answer", "session_busy"} :
                Reported(result) /\ Complete(r, t, result)
         \/ \E retry \in {"no", "now", "later"}, charge \in {0, 1} :
                Retire(r, t, retry, charge)

QueueOK == run \in [Runs -> Row] /\ issued \in [Runs -> Nat]

(* The queue's operations keep its shape and touch one row.                  *)
LEMMA QueueKeeps ==
    ASSUME QueueOK, NEW r \in Runs, QueueStep(r)
    PROVE  QueueOK' /\ \A s \in Runs \ {r} : run'[s] = run[s]
<1>1. run[r] \in Row /\ issued[r] \in Nat /\ issued[r] + 1 \in Nat
  BY DEF QueueOK
<1>2. DedupKeyOf[r] \in DedupKeys \cup {NoKey}
  BY RunRowAssumption
<1>3. ASSUME NEW x \in Row, run' = [run EXCEPT ![r] = x],
             issued' \in [Runs -> Nat]
      PROVE  QueueOK' /\ \A s \in Runs \ {r} : run'[s] = run[s]
  BY <1>3 DEF QueueOK
<1>4. CASE Enqueue(r)
  <2>1. run' = [run EXCEPT ![r] = [run[r] EXCEPT !.status = "pending",
                                                 !.key = DedupKeyOf[r]]]
    BY <1>4 DEF Enqueue
  <2> QED
    BY <2>1, <1>1, <1>2, <1>3, <1>4, RowShapes DEF Enqueue, QueueOK
<1>5. CASE Claim(r)
  BY <1>5, <1>1, <1>3, RowShapes DEF Claim, QueueOK
<1>6. CASE Fence(r)
  <2>1. run' = [run EXCEPT ![r] = [run[r] EXCEPT !.token = issued[r] + 1,
                                                 !.lease = "live"]]
    BY <1>6 DEF Fence
  <2> QED
    BY <2>1, <1>1, <1>3, <1>6, RowShapes DEF Fence, QueueOK
<1>7. CASE Withdraw(r)
  <2>1. run' = [run EXCEPT ![r] = [run[r] EXCEPT !.status = "withdrawn",
                                                 !.key = NoKey]]
    BY <1>7 DEF Withdraw
  <2> QED
    BY <2>1, <1>1, <1>3, <1>7, RowShapes DEF Withdraw, QueueOK
<1>8. CASE LeaseLapses(r)
  BY <1>8, <1>1, <1>3, RowShapes DEF LeaseLapses, QueueOK
<1>9. CASE BackoffEnds(r)
  BY <1>9 DEF BackoffEnds, QueueOK
<1>10. CASE \E t \in Nat : Heartbeat(r, t)
  BY <1>10, <1>1, <1>3, RowShapes DEF Heartbeat, QueueOK
<1>11. CASE \E t \in Nat : ReleaseLease(r, t)
  BY <1>11, <1>1, <1>3, RowShapes DEF ReleaseLease, QueueOK
<1>12. ASSUME NEW t \in Nat, NEW result \in {"none", "answer", "session_busy"},
              Complete(r, t, result)
       PROVE  QueueOK' /\ \A s \in Runs \ {r} : run'[s] = run[s]
  BY <1>12, <1>1, <1>3, RowShapes DEF Complete, QueueOK
<1>13. ASSUME NEW t \in Nat, NEW retry \in {"no", "now", "later"},
              NEW charge \in {0, 1}, Retire(r, t, retry, charge)
       PROVE  QueueOK' /\ \A s \in Runs \ {r} : run'[s] = run[s]
  BY <1>13, <1>1, <1>3, RowShapes DEF Retire, QueueOK
<1> QED
  BY <1>4, <1>5, <1>6, <1>7, <1>8, <1>9, <1>10, <1>11, <1>12, <1>13
  DEF QueueStep

-----------------------------------------------------------------------------
(* The steps of an attempt.                                                  *)

SameRun(a, v) == v.run = a.run /\ v.token = a.token /\ v.number = a.number

Kept(a, v) ==
    /\ SameRun(a, v) /\ v.recorded = a.recorded
    /\ v.lease = a.lease /\ v.seq = a.seq /\ v.result = a.result

(* The turn goes on, or takes the error path, without touching the session.  *)
Moves(w) ==
    LET a == worker[w] v == worker'[w] IN
    /\ UNCHANGED sessionVars /\ Kept(a, v)
    /\ \/ a.pc = "claimed" /\ v.pc = "start"
       \/ a.pc \in {"start", "acquire"} /\ v.pc = "fail"
       \/ a.pc \in {"ask", "answer"} /\ v.pc \in {"abandon", "erred"}
       \/ a.pc = "ask" /\ v.pc = "backfill" /\ ~Resumes(w)
       \/ a.pc = "note" /\ v.pc = "answer" /\ "note_lost" \in Faults
       \/ a.pc = "backfill" /\ v.pc = "erred"
       \/ a.pc = "erred" /\ v.pc = "abandon"

Reads(w) ==
    LET a == worker[w] v == worker'[w] IN
    /\ UNCHANGED sessionVars /\ a.pc = "start"
    /\ v.lease = a.lease /\ v.seq = a.seq
    /\ v.recorded = IF a.number > 1 THEN RecordedTurn(a.run) ELSE "none"
    /\ IF v.recorded = "answer" THEN v.pc = "complete" /\ v.result = "answer"
                                ELSE v.pc = "acquire" /\ v.result = "none"

Takes(w) ==
    LET a == worker[w] v == worker'[w] IN
    /\ a.pc = "acquire" /\ v.pc = "ask"
    /\ lease[Session(w)].state # "live"
    /\ leases' = leases + 1 /\ v.lease = leases + 1
    /\ lease' = [lease EXCEPT ![Session(w)] = [token |-> leases + 1, state |-> "live"]]
    /\ v.recorded = a.recorded /\ v.seq = a.seq /\ v.result = a.result
    /\ UNCHANGED <<log, turnUserSeq>>

IsRefused(w) ==
    LET a == worker[w] v == worker'[w] IN
    /\ UNCHANGED sessionVars /\ a.pc = "acquire" /\ v.pc = "complete"
    /\ v.result = "session_busy" /\ lease[Session(w)].state = "live"

Writes(w, kind) ==
    LET a == worker[w] v == worker'[w] IN
    /\ HoldsLease(w) /\ Append1(w, kind)
    /\ UNCHANGED <<lease, leases, turnUserSeq>>
    /\ v.lease = a.lease /\ v.recorded = a.recorded
    /\ \/ /\ a.pc = "ask" /\ kind = (IF Resumes(w) THEN "note" ELSE "ask")
          /\ v.pc = "note" /\ v.result = a.result /\ v.seq = Len(log'[Session(w)])
       \/ /\ a.pc = "answer" /\ kind = "answer"
          /\ v.pc = "unlock" /\ v.result = "answer"
       \/ /\ a.pc = "backfill" /\ kind = "ask"
          /\ v.pc = "erred" /\ v.result = a.result
       \/ /\ a.pc = "erred" /\ kind = "failure"
          /\ v.pc = "abandon" /\ v.result = a.result

Notes(w) ==
    LET a == worker[w] v == worker'[w] IN
    /\ a.pc = "note" /\ v.pc = "answer" /\ Kept(a, v)
    /\ turnUserSeq' = IF turnUserSeq[a.run] = 0
                      THEN [turnUserSeq EXCEPT ![a.run] = a.seq] ELSE turnUserSeq
    /\ UNCHANGED <<lease, leases, log>>

Unlocks(w) ==
    LET a == worker[w] v == worker'[w] IN
    /\ \/ a.pc = "unlock" /\ v.pc = "complete"
       \/ a.pc = "abandon" /\ v.pc = "fail"
    /\ Kept(a, v)
    /\ lease' = LeaseAfterRelease(w)
    /\ UNCHANGED <<leases, log, turnUserSeq>>

Kinds == {"ask", "note", "answer", "failure"}

(* The steps that continue an attempt.                                       *)
TurnStep(w) ==
    \/ Begin(w) \/ ReadRecorded(w) \/ AcquireSession(w) \/ RefuseBusy(w)
    \/ AppendAsk(w) \/ NoteTurn(w) \/ NoteLost(w) \/ AppendAnswer(w)
    \/ RecordFailure(w) \/ Unlock(w) \/ TurnAborts(w)
    \/ \E retry \in {"later", "no"} : TurnThrows(w, retry)

TurnEffect(w) ==
    \/ Moves(w) \/ Reads(w) \/ Takes(w) \/ IsRefused(w) \/ Notes(w) \/ Unlocks(w)
    \/ \E kind \in Kinds : Writes(w, kind)

OnlyTurn(w) ==
    /\ UNCHANGED <<queueVars, stopped, drain, reaperVars>>
    /\ worker' = [worker EXCEPT ![w] = worker'[w]]
    /\ worker'[w] \in Attempt /\ SameRun(worker[w], worker'[w])

(* The steps that continue an attempt, by their effect.                      *)
LEMMA TurnSteps ==
    ASSUME worker \in [Workers -> Attempt], log \in [Sessions -> Seq(Entry)],
           leases \in Nat, SessionOf \in [Runs -> Sessions],
           NEW w \in Workers, worker[w].run \in Runs, TurnStep(w)
    PROVE  OnlyTurn(w) /\ TurnEffect(w)
<1> DEFINE a == worker[w]
           v == worker'[w]
<1>0. a \in Attempt
  OBVIOUS
<1>1. CASE Begin(w)
  <2>1. v = [a EXCEPT !.pc = "start"]
    BY <1>1 DEF Begin, Goto
  <2>2. v \in Attempt /\ Kept(a, v) /\ v.pc = "start"
    BY <1>0, <2>1 DEF Attempt, Kept, SameRun
  <2>3. OnlyTurn(w)
    BY <1>1, <2>1, <2>2 DEF Begin, Goto, OnlyTurn, Kept
  <2> QED
    BY <1>1, <2>2, <2>3 DEF Begin, TurnEffect, Moves

<1>2. CASE ReadRecorded(w)
  <2> DEFINE rec == IF a.number > 1 THEN RecordedTurn(a.run) ELSE "none"
             pc == IF rec = "answer" THEN "complete" ELSE "acquire"
             res == IF rec = "answer" THEN "answer" ELSE "none"
  <2>1. rec \in {"none", "partial", "answer"}
    BY DEF RecordedTurn
  <2>2. pc \in {"complete", "acquire"} /\ res \in {"none", "answer"}
    OBVIOUS
  <2>3. worker' = [worker EXCEPT ![w].recorded = rec, ![w].pc = pc, ![w].result = res]
    BY <1>2 DEF ReadRecorded
  <2>4. IF rec = "answer" THEN pc = "complete" /\ res = "answer"
                          ELSE pc = "acquire" /\ res = "none"
    OBVIOUS
  <2>5. rec = IF a.number > 1 THEN RecordedTurn(a.run) ELSE "none"
    OBVIOUS
  <2> HIDE DEF rec, pc, res
  <2>6. v = [a EXCEPT !.recorded = rec, !.pc = pc, !.result = res]
    BY <2>3
  <2>7. /\ v \in Attempt /\ SameRun(a, v)
        /\ v.recorded = rec /\ v.pc = pc /\ v.result = res
        /\ v.lease = a.lease /\ v.seq = a.seq
    <3>1. [a EXCEPT !.recorded = rec, !.pc = pc, !.result = res] \in Attempt
      <4> HIDE DEF a
      <4> DEFINE b == [a EXCEPT !.recorded = rec]
                 c == [b EXCEPT !.pc = pc]
      <4>1. b \in Attempt
        BY <1>0, <2>1 DEF Attempt
      <4>2. [a EXCEPT !.recorded = rec, !.pc = pc, !.result = res]
              = [c EXCEPT !.result = res]
        BY <1>0 DEF Attempt
      <4> HIDE DEF b
      <4>3. c \in Attempt
        BY <2>2, <4>1 DEF Attempt
      <4> HIDE DEF c
      <4>4. [c EXCEPT !.result = res] \in Attempt
        BY <2>2, <4>3 DEF Attempt
      <4> QED
        BY <4>2, <4>4
    <3>2. /\ v.recorded = rec /\ v.pc = pc /\ v.result = res
          /\ v.lease = a.lease /\ v.seq = a.seq
      BY <1>0, <2>6 DEF Attempt
    <3>3. SameRun(a, v)
      BY <1>0, <2>6 DEF Attempt, SameRun
    <3> QED
      BY <2>6, <3>1, <3>2, <3>3
  <2>8. OnlyTurn(w)
    BY <1>2, <2>3, <2>6, <2>7 DEF ReadRecorded, OnlyTurn
  <2> QED
    BY <1>2, <2>4, <2>5, <2>7, <2>8 DEF ReadRecorded, TurnEffect, Reads
<1>3. CASE AcquireSession(w)
  <2>1. v = [a EXCEPT !.lease = leases + 1, !.pc = "ask"]
    BY <1>3 DEF AcquireSession
  <2>2. /\ v \in Attempt /\ SameRun(a, v) /\ v.pc = "ask"
        /\ v.lease = leases + 1 /\ v.recorded = a.recorded
        /\ v.seq = a.seq /\ v.result = a.result
    <3>1. \A n \in Nat : LET x == [a EXCEPT !.lease = n, !.pc = "ask"]
                         IN  /\ x \in Attempt /\ SameRun(a, x) /\ x.pc = "ask"
                             /\ x.lease = n /\ x.recorded = a.recorded
                             /\ x.seq = a.seq /\ x.result = a.result
      BY <1>0 DEF Attempt, SameRun
    <3>2. leases + 1 \in Nat
      OBVIOUS
    <3> QED
      BY <2>1, <3>1, <3>2
  <2>3. OnlyTurn(w)
    BY <1>3, <2>1, <2>2 DEF AcquireSession, OnlyTurn
  <2> QED
    BY <1>3, <2>2, <2>3 DEF AcquireSession, TurnEffect, Takes
<1>4. CASE RefuseBusy(w)
  <2>1. v = [a EXCEPT !.result = "session_busy", !.pc = "complete"]
    BY <1>4 DEF RefuseBusy
  <2>2. v \in Attempt /\ SameRun(a, v) /\ v.pc = "complete"
    BY <1>0, <2>1 DEF Attempt, SameRun
  <2>3. OnlyTurn(w)
    BY <1>4, <2>1, <2>2 DEF RefuseBusy, OnlyTurn
  <2> QED
    BY <1>4, <2>2, <2>3 DEF RefuseBusy, TurnEffect, IsRefused
<1>5. ASSUME NEW retry \in {"later", "no"}, Throws(w, retry)
      PROVE  /\ worker' = [worker EXCEPT ![w] = v]
             /\ v \in Attempt /\ Kept(a, v)
             /\ \/ v.pc \in {"abandon", "erred"}
                \/ v.pc = "backfill" /\ a.pc = "ask" /\ ~Resumes(w)
  <2>1. PICK pc \in {"abandon", "erred", "backfill"} :
          /\ worker' = [worker EXCEPT ![w].pc = pc, ![w].retry = retry]
          /\ pc = "backfill" => a.pc = "ask" /\ ~Resumes(w)
    BY <1>5 DEF Throws
  <2>2. v = [a EXCEPT !.pc = pc, !.retry = retry]
    BY <2>1
  <2>3. v \in Attempt /\ Kept(a, v) /\ v.pc = pc
    BY <1>0, <2>2 DEF Attempt, Kept, SameRun
  <2> QED
    BY <2>1, <2>2, <2>3
<1>6. CASE AppendAsk(w)
  <2>1. CASE HoldsLease(w)
    <3> DEFINE kind == IF Resumes(w) THEN "note" ELSE "ask"
    <3>1. kind \in Kinds
      BY DEF Kinds
    <3>2. Append1(w, kind)
      BY <1>6, <2>1 DEF AppendAsk
    <3>3. /\ Session(w) \in Sessions
          /\ [kind |-> kind, run |-> a.run, lease |-> a.lease] \in Entry
      BY <1>0, <3>1 DEF Entry, Kinds, Attempt, Session
    <3>4. log'[Session(w)] \in Seq(Entry)
      BY <3>2, <3>3 DEF Append1
    <3>5. Len(log'[Session(w)]) \in Nat
      BY <3>4
    <3>6. worker' = [worker EXCEPT ![w].seq = Len(log'[Session(w)]), ![w].pc = "note"]
      BY <1>6, <2>1 DEF AppendAsk
    <3> HIDE DEF kind
    <3>7. \A n \in Nat : LET x == [a EXCEPT !.seq = n, !.pc = "note"]
                         IN  /\ x \in Attempt /\ SameRun(a, x) /\ x.pc = "note"
                             /\ x.seq = n /\ x.lease = a.lease
                             /\ x.recorded = a.recorded /\ x.result = a.result
      BY <1>0 DEF Attempt, SameRun
    <3>8. v = [a EXCEPT !.seq = Len(log'[Session(w)]), !.pc = "note"]
      BY <3>6
    <3>9. /\ v \in Attempt /\ SameRun(a, v) /\ v.pc = "note"
          /\ v.seq = Len(log'[Session(w)]) /\ v.lease = a.lease
          /\ v.recorded = a.recorded /\ v.result = a.result
      BY <3>5, <3>7, <3>8
    <3>10. OnlyTurn(w)
      BY <1>6, <3>6, <3>8, <3>9 DEF AppendAsk, OnlyTurn
    <3>11. Writes(w, kind)
      BY <1>6, <2>1, <3>2, <3>9 DEF AppendAsk, Writes, kind
    <3> QED
      BY <3>1, <3>10, <3>11 DEF TurnEffect
  <2>2. CASE ~HoldsLease(w)
    <3>1. Throws(w, "later") /\ UNCHANGED log
      BY <1>6, <2>2 DEF AppendAsk
    <3>2. OnlyTurn(w)
      BY <1>5, <1>6, <3>1 DEF AppendAsk, OnlyTurn, Kept
    <3> QED
      BY <1>5, <1>6, <3>1, <3>2 DEF AppendAsk, TurnEffect, Moves, sessionVars
  <2> QED
    BY <2>1, <2>2
<1>7. CASE NoteTurn(w)
  <2>1. v = [a EXCEPT !.pc = "answer"]
    BY <1>7 DEF NoteTurn, Goto
  <2>2. v \in Attempt /\ Kept(a, v) /\ v.pc = "answer"
    BY <1>0, <2>1 DEF Attempt, Kept, SameRun
  <2>3. OnlyTurn(w)
    BY <1>7, <2>1, <2>2 DEF NoteTurn, Goto, OnlyTurn, Kept
  <2> QED
    BY <1>7, <2>2, <2>3 DEF NoteTurn, TurnEffect, Notes
<1>8. CASE NoteLost(w)
  <2>1. v = [a EXCEPT !.pc = "answer"]
    BY <1>8 DEF NoteLost, Goto
  <2>2. v \in Attempt /\ Kept(a, v) /\ v.pc = "answer"
    BY <1>0, <2>1 DEF Attempt, Kept, SameRun
  <2>3. OnlyTurn(w)
    BY <1>8, <2>1, <2>2 DEF NoteLost, Goto, OnlyTurn, Kept
  <2> QED
    BY <1>8, <2>2, <2>3 DEF NoteLost, TurnEffect, Moves
<1>9. CASE AppendAnswer(w)
  <2>1. CASE HoldsLease(w)
    <3>1. /\ Append1(w, "answer")
          /\ worker' = [worker EXCEPT ![w].pc = "unlock", ![w].result = "answer"]
      BY <1>9, <2>1 DEF AppendAnswer
    <3>2. v = [a EXCEPT !.pc = "unlock", !.result = "answer"]
      BY <3>1
    <3>3. /\ v \in Attempt /\ SameRun(a, v) /\ v.pc = "unlock"
          /\ v.result = "answer" /\ v.lease = a.lease /\ v.recorded = a.recorded
      BY <1>0, <3>2 DEF Attempt, SameRun
    <3>4. OnlyTurn(w)
      BY <1>9, <3>1, <3>2, <3>3 DEF AppendAnswer, OnlyTurn
    <3>5. Writes(w, "answer")
      BY <1>9, <2>1, <3>1, <3>3 DEF AppendAnswer, Writes
    <3> QED
      BY <3>4, <3>5 DEF TurnEffect, Kinds
  <2>2. CASE ~HoldsLease(w)
    <3>1. Throws(w, "later") /\ UNCHANGED log
      BY <1>9, <2>2 DEF AppendAnswer
    <3>2. OnlyTurn(w)
      BY <1>5, <1>9, <3>1 DEF AppendAnswer, OnlyTurn, Kept
    <3> QED
      BY <1>5, <1>9, <3>1, <3>2 DEF AppendAnswer, TurnEffect, Moves, sessionVars
  <2> QED
    BY <2>1, <2>2
<1>10. CASE RecordFailure(w)
  <2>1. PICK pc \in {"erred", "abandon"} :
          /\ Goto(w, pc)
          /\ \/ a.pc = "backfill" /\ pc = "erred"
                /\ (IF HoldsLease(w) THEN Append1(w, "ask") ELSE UNCHANGED log)
             \/ a.pc = "erred" /\ pc = "abandon"
                /\ (IF HoldsLease(w) THEN Append1(w, "failure") ELSE UNCHANGED log)
    BY <1>10 DEF RecordFailure
  <2>2. v = [a EXCEPT !.pc = pc]
    BY <2>1 DEF Goto
  <2>3. v \in Attempt /\ Kept(a, v) /\ v.pc = pc
    BY <1>0, <2>2 DEF Attempt, Kept, SameRun
  <2>4. OnlyTurn(w)
    BY <1>10, <2>1, <2>2, <2>3 DEF RecordFailure, Goto, OnlyTurn, Kept
  <2>5. CASE ~HoldsLease(w)
    BY <1>10, <2>1, <2>3, <2>4, <2>5
    DEF RecordFailure, TurnEffect, Moves, sessionVars
  <2>6. CASE HoldsLease(w) /\ a.pc = "backfill"
    <3>1. Writes(w, "ask")
      BY <1>10, <2>1, <2>3, <2>6 DEF RecordFailure, Writes, Kept
    <3> QED
      BY <2>4, <3>1 DEF TurnEffect, Kinds
  <2>7. CASE HoldsLease(w) /\ a.pc = "erred"
    <3>1. Writes(w, "failure")
      BY <1>10, <2>1, <2>3, <2>7 DEF RecordFailure, Writes, Kept
    <3> QED
      BY <2>4, <3>1 DEF TurnEffect, Kinds
  <2> QED
    BY <2>1, <2>5, <2>6, <2>7
<1>11. CASE Unlock(w)
  <2>1. PICK pc \in {"complete", "fail"} :
          /\ Goto(w, pc)
          /\ \/ a.pc = "unlock" /\ pc = "complete"
             \/ a.pc = "abandon" /\ pc = "fail"
    BY <1>11 DEF Unlock
  <2>2. v = [a EXCEPT !.pc = pc]
    BY <2>1 DEF Goto
  <2>3. v \in Attempt /\ Kept(a, v) /\ v.pc = pc
    BY <1>0, <2>2 DEF Attempt, Kept, SameRun
  <2>4. OnlyTurn(w)
    BY <1>11, <2>1, <2>2, <2>3 DEF Unlock, Goto, OnlyTurn, Kept
  <2> QED
    BY <1>11, <2>1, <2>3, <2>4 DEF Unlock, TurnEffect, Unlocks
<1>12. CASE TurnAborts(w)
  <2>1. v = [a EXCEPT !.pc = "abandon"]
    BY <1>12 DEF TurnAborts, Goto
  <2>2. v \in Attempt /\ Kept(a, v) /\ v.pc = "abandon"
    BY <1>0, <2>1 DEF Attempt, Kept, SameRun
  <2>3. OnlyTurn(w)
    BY <1>12, <2>1, <2>2 DEF TurnAborts, Goto, OnlyTurn, Kept
  <2> QED
    BY <1>12, <2>2, <2>3 DEF TurnAborts, TurnEffect, Moves
<1>13. ASSUME NEW retry \in {"later", "no"}, TurnThrows(w, retry)
       PROVE  OnlyTurn(w) /\ TurnEffect(w)
  <2>1. CASE a.pc \in {"start", "acquire"}
    <3>1. worker' = [worker EXCEPT ![w].pc = "fail", ![w].retry = retry]
      BY <1>13, <2>1 DEF TurnThrows
    <3>2. v = [a EXCEPT !.pc = "fail", !.retry = retry]
      BY <3>1
    <3>3. v \in Attempt /\ Kept(a, v) /\ v.pc = "fail"
      BY <1>0, <3>2 DEF Attempt, Kept, SameRun
    <3>4. OnlyTurn(w)
      BY <1>13, <3>1, <3>2, <3>3 DEF TurnThrows, OnlyTurn, Kept
    <3> QED
      BY <1>13, <2>1, <3>3, <3>4 DEF TurnThrows, TurnEffect, Moves
  <2>2. CASE a.pc \in {"ask", "answer"}
    <3>1. Throws(w, retry)
      BY <1>13, <2>2 DEF TurnThrows
    <3>2. OnlyTurn(w)
      BY <1>5, <1>13, <3>1 DEF TurnThrows, OnlyTurn, Kept
    <3> QED
      BY <1>5, <1>13, <2>2, <3>1, <3>2 DEF TurnThrows, TurnEffect, Moves
  <2> QED
    BY <1>13, <2>1, <2>2 DEF TurnThrows
<1> QED
  BY <1>1, <1>2, <1>3, <1>4, <1>6, <1>7, <1>8, <1>9, <1>10, <1>11, <1>12, <1>13
  DEF TurnStep

(* What a claimed attempt starts from.                                       *)
ClaimedFor(w, r) ==
    LET v == worker'[w] IN
    /\ worker' = [worker EXCEPT ![w] = v]
    /\ v \in Attempt /\ v.pc = "claimed" /\ v.run = r
    /\ v.token = run'[r].token /\ v.number = run'[r].attempts
    /\ v.recorded = "none" /\ v.lease = 0 /\ v.seq = 0 /\ v.result = "none"

(* The record a claim leaves in its worker.                                  *)
LEMMA ClaimShape ==
    ASSUME worker \in [Workers -> Attempt], QueueOK',
           NEW w \in Workers, NEW r \in Runs, ClaimRun(w, r)
    PROVE  ClaimedFor(w, r)
<1> DEFINE token == run'[r].token
           number == run'[r].attempts
           final == ErrorParks(run'[r])
<1>1. token \in Nat /\ number \in Nat
  BY DEF QueueOK, Row
<1>2. final \in BOOLEAN
  BY DEF ErrorParks, Retries
<1>3. worker' = [worker EXCEPT ![w] =
        [Idle EXCEPT !.pc = "claimed", !.run = r, !.token = token,
                     !.number = number, !.final = final]]
  BY DEF ClaimRun
<1> HIDE DEF token, number, final
<1>4. LET v == [Idle EXCEPT !.pc = "claimed", !.run = r, !.token = token,
                            !.number = number, !.final = final]
      IN  /\ v \in Attempt /\ v.pc = "claimed" /\ v.run = r
          /\ v.token = token /\ v.number = number
          /\ v.recorded = "none" /\ v.lease = 0 /\ v.seq = 0 /\ v.result = "none"
  BY <1>1, <1>2 DEF Idle, Attempt, NoToken
<1>5. worker'[w] = [Idle EXCEPT !.pc = "claimed", !.run = r, !.token = token,
                                !.number = number, !.final = final]
  BY <1>3
<1> QED
  BY <1>3, <1>4, <1>5 DEF ClaimedFor, token, number

-----------------------------------------------------------------------------
(* The kinds of steps.                                                       *)

(* The steps that end an attempt.                                            *)
EndStep(w) == HandBack(w) \/ CompleteRun(w) \/ FailRun(w) \/ WorkerDies(w)

DrainingStep(w) == Stop(w) \/ DrainStep(w)

ReapingStep(p) == ReaperStep(p) \/ ReaperDies(p)

(* The steps of the queue's clients and of its clock.                        *)
OuterStep(r) ==
    \/ EnqueueRun(r) \/ WithdrawRun(r) \/ RunLeaseLapses(r) \/ RetryIsDue(r)

StepKinds ==
    \/ \E w \in Workers :
         \/ TurnStep(w) \/ EndStep(w) \/ DrainingStep(w) \/ WorkerBeats(w)
         \/ \E r \in Runs : ClaimRun(w, r)
    \/ \E p \in Reapers : ReapingStep(p)
    \/ \E r \in Runs : OuterStep(r)
    \/ \E s \in Sessions : SessionLeaseLapses(s)

(* There are no other steps.                                                 *)
LEMMA ExecSteps == ExecNext => StepKinds
  BY Zenon DEF ExecNext, WorkerStep, StepKinds, TurnStep, EndStep, DrainingStep,
     ReapingStep, OuterStep

(* A step leaves the queue alone or is one operation on one run.             *)
LEMMA QueueMoves ==
    ASSUME ShapeInv, StepKinds
    PROVE  UNCHANGED queueVars \/ \E r \in Runs : QueueStep(r)
<1> USE DEF ShapeInv, ExecTypeOK, CallsFit
<1>1. ASSUME NEW w \in Workers, TurnStep(w)
      PROVE  UNCHANGED queueVars
  BY <1>1 DEF TurnStep, Begin, ReadRecorded, AcquireSession, RefuseBusy, AppendAsk,
     NoteTurn, NoteLost, AppendAnswer, RecordFailure, Unlock, TurnAborts, TurnThrows
<1>2. ASSUME NEW w \in Workers, EndStep(w)
      PROVE  UNCHANGED queueVars \/ \E r \in Runs : QueueStep(r)
  <2>1. worker[w] \in Attempt
    OBVIOUS
  <2>2. /\ worker[w].token \in Nat /\ worker[w].retry \in {"no", "now", "later"}
        /\ worker[w].result \in {"none", "answer", "session_busy"}
    BY <2>1 DEF Attempt
  <2>3. CASE HandBack(w)
    BY <2>2, <2>3 DEF HandBack, QueueStep
  <2>4. CASE CompleteRun(w)
    <3>1. CASE ~Owns(worker[w].run, worker[w].token) /\ UNCHANGED queueVars
      BY <3>1
    <3>2. CASE Complete(worker[w].run, worker[w].token, worker[w].result)
      <4>1. worker[w].run \in Runs /\ Reported(worker[w].result)
        BY <2>4 DEF CompleteRun, Reported
      <4> QED
        <5> HIDE DEF ShapeInv, ExecTypeOK, CallsFit
        <5> QED
          BY <2>2, <3>2, <4>1, Zenon DEF QueueStep
    <3> QED
      BY <2>4, <3>1, <3>2 DEF CompleteRun
  <2>5. CASE FailRun(w)
    <3>1. CASE ~Owns(worker[w].run, worker[w].token) /\ UNCHANGED queueVars
      BY <3>1
    <3>2. CASE Retire(worker[w].run, worker[w].token, worker[w].retry, 1)
      <4>1. worker[w].run \in Runs /\ 1 \in {0, 1}
        BY <2>5 DEF FailRun
      <4> QED
        <5> HIDE DEF ShapeInv, ExecTypeOK, CallsFit
        <5> QED
          BY <2>2, <3>2, <4>1, Zenon DEF QueueStep
    <3> QED
      BY <2>5, <3>1, <3>2 DEF FailRun
  <2>6. CASE WorkerDies(w)
    BY <2>6 DEF WorkerDies
  <2> QED
    BY <1>2, <2>3, <2>4, <2>5, <2>6 DEF EndStep
<1>3. ASSUME NEW w \in Workers, DrainingStep(w)
      PROVE  UNCHANGED queueVars \/ \E r \in Runs : QueueStep(r)
  <2>1. /\ worker[w] \in Attempt
        /\ drain[w] \in [pc : {"none", "beaten", "unlocked", "done"},
                         run : Runs \cup {0}, token : Nat]
    OBVIOUS
  <2>2. worker[w].token \in Nat /\ drain[w].token \in Nat
    BY <2>1 DEF Attempt
  <2>3. CASE Stop(w)
    BY <2>3 DEF Stop
  <2>4. CASE DrainBeat(w)
    BY <2>2, <2>4 DEF DrainBeat, InFlight, QueueStep
  <2>5. CASE DrainUnlock(w)
    BY <2>5 DEF DrainUnlock
  <2>6. CASE DrainRelease(w)
    BY <2>2, <2>6 DEF DrainRelease, QueueStep
  <2> QED
    BY <1>3, <2>3, <2>4, <2>5, <2>6 DEF DrainingStep, DrainStep
<1>4. ASSUME NEW w \in Workers, WorkerBeats(w)
      PROVE  \E r \in Runs : QueueStep(r)
  <2>1. worker[w] \in Attempt
    OBVIOUS
  <2>2. worker[w].token \in Nat
    BY <2>1 DEF Attempt
  <2> QED
    BY <1>4, <2>2 DEF WorkerBeats, InFlight, QueueStep
<1>5. ASSUME NEW w \in Workers, NEW r \in Runs, ClaimRun(w, r)
      PROVE  QueueStep(r)
  BY <1>5 DEF ClaimRun, QueueStep
<1>6. ASSUME NEW p \in Reapers, ReapingStep(p)
      PROVE  UNCHANGED queueVars \/ \E r \in Runs : QueueStep(r)
  <2>1. reaper[p].token \in Nat
    OBVIOUS
  <2>2. CASE \E r \in Runs : ReaperFence(p, r)
    BY <2>2 DEF ReaperFence, QueueStep
  <2>3. CASE ReaperUnlock(p)
    BY <2>3 DEF ReaperUnlock
  <2>4. ASSUME NEW retry \in {"now", "no"}, ReaperRetire(p, retry)
        PROVE  UNCHANGED queueVars \/ \E r \in Runs : QueueStep(r)
    <3>1. CASE ~Owns(reaper[p].run, reaper[p].token) /\ UNCHANGED queueVars
      BY <3>1
    <3>2. CASE Retire(reaper[p].run, reaper[p].token, retry, 0)
      <4>1. /\ reaper[p].run \in Runs /\ 0 \in {0, 1}
            /\ retry \in {"no", "now", "later"}
        BY <2>4 DEF ReaperRetire
      <4> QED
        <5> HIDE DEF ShapeInv, ExecTypeOK, CallsFit
        <5> QED
          BY <2>1, <3>2, <4>1, Zenon DEF QueueStep
    <3> QED
      BY <2>4, <3>1, <3>2 DEF ReaperRetire
  <2>5. CASE ReaperDies(p)
    BY <2>5 DEF ReaperDies
  <2> QED
    BY <1>6, <2>2, <2>3, <2>4, <2>5 DEF ReapingStep, ReaperStep
<1>7. ASSUME NEW r \in Runs, OuterStep(r)
      PROVE  QueueStep(r)
  BY <1>7 DEF OuterStep, EnqueueRun, WithdrawRun, RunLeaseLapses, RetryIsDue,
     QueueStep
<1>8. ASSUME NEW s \in Sessions, SessionLeaseLapses(s)
      PROVE  UNCHANGED queueVars
  BY <1>8 DEF SessionLeaseLapses
<1> QED
  BY <1>1, <1>2, <1>3, <1>4, <1>5, <1>6, <1>7, <1>8 DEF StepKinds

-----------------------------------------------------------------------------
(* Sessions.                                                                 *)

SessionOK ==
    /\ lease \in [Sessions -> [token : Nat, state : {"none", "live", "lapsed"}]]
    /\ leases \in Nat
    /\ log \in [Sessions -> Seq(Entry)]

(* A fresh lease is issued, an entry is written under the lease in force, or *)
(* a lease ends.                                                             *)
Issues(s) ==
    /\ leases' = leases + 1
    /\ lease' = [lease EXCEPT ![s] = [token |-> leases + 1, state |-> "live"]]
    /\ UNCHANGED log

Extends(s, e) ==
    /\ lease[s] = [token |-> e.lease, state |-> "live"]
    /\ log' = [log EXCEPT ![s] = Append(@, e)]
    /\ UNCHANGED <<lease, leases>>

Expires(s, n, state) ==
    /\ lease' = [lease EXCEPT ![s] = [token |-> n, state |-> state]]
    /\ UNCHANGED <<leases, log>>

SessionChange ==
    \/ UNCHANGED <<lease, leases, log>>
    \/ \E s \in Sessions :
         \/ Issues(s)
         \/ \E e \in Entry : Extends(s, e)
         \/ \E n \in Nat, state \in {"none", "lapsed"} : Expires(s, n, state)

(* Releasing a session's lease.                                              *)
LEMMA Freeing ==
    ASSUME NEW s \in Sessions, lease' = [lease EXCEPT ![s] = FreeLease],
           UNCHANGED <<leases, log>>
    PROVE  SessionChange
<1>1. Expires(s, 0, "none")
  BY DEF Expires, FreeLease
<1>2. 0 \in Nat /\ "none" \in {"none", "lapsed"}
  OBVIOUS
<1> QED
  BY <1>1, <1>2, Zenon DEF SessionChange

(* What a step of an attempt does to the sessions.                           *)
LEMMA TurnSession ==
    ASSUME NEW w \in Workers, worker[w] \in Attempt, worker[w].run \in Runs,
           OnlyTurn(w), TurnEffect(w), turnUserSeq \in [Runs -> Nat]
    PROVE  SessionChange /\ turnUserSeq' \in [Runs -> Nat]
<1>1. Session(w) \in Sessions
  BY RunRowAssumption DEF Session
<1>2. CASE Moves(w) \/ Reads(w) \/ IsRefused(w)
  BY <1>2 DEF Moves, Reads, IsRefused, sessionVars, SessionChange
<1>3. CASE Takes(w)
  BY <1>1, <1>3 DEF Takes, SessionChange, Issues
<1>4. CASE Notes(w)
  <2>1. worker[w].seq \in Nat
    BY DEF Attempt
  <2> QED
    BY <1>4, <2>1 DEF Notes, SessionChange
<1>5. CASE Unlocks(w)
  <2>1. CASE lease' = lease
    BY <1>5, <2>1 DEF Unlocks, SessionChange
  <2>2. CASE lease' = [lease EXCEPT ![Session(w)] = FreeLease]
    BY <1>1, <1>5, <2>2, Freeing DEF Unlocks
  <2> QED
    BY <1>5, <2>1, <2>2 DEF Unlocks, LeaseAfterRelease
<1>6. ASSUME NEW kind \in Kinds, Writes(w, kind)
      PROVE  SessionChange /\ turnUserSeq' \in [Runs -> Nat]
  <2> DEFINE e == [kind |-> kind, run |-> worker[w].run, lease |-> worker[w].lease]
  <2>1. e \in Entry /\ e.lease = worker[w].lease
    BY DEF Entry, Kinds, Attempt
  <2>2. Extends(Session(w), e)
    BY <1>6 DEF Writes, Extends, HoldsLease, Append1
  <2> HIDE DEF e
  <2> QED
    BY <1>1, <1>6, <2>1, <2>2 DEF Writes, SessionChange
<1> QED
  BY <1>2, <1>3, <1>4, <1>5, <1>6 DEF TurnEffect

(* What any step does to the sessions.                                       *)
LEMMA SessionMoves ==
    ASSUME ShapeInv, StepKinds
    PROVE  SessionChange /\ turnUserSeq' \in [Runs -> Nat]
<1>1. ASSUME NEW w \in Workers, TurnStep(w)
      PROVE  SessionChange /\ turnUserSeq' \in [Runs -> Nat]
  <2>1. worker[w].pc # "idle"
    BY <1>1 DEF TurnStep, Begin, ReadRecorded, AcquireSession, RefuseBusy,
       AppendAsk, NoteTurn, NoteLost, AppendAnswer, RecordFailure, Unlock,
       TurnAborts, TurnThrows
  <2>2. worker[w] \in Attempt /\ worker[w].run \in Runs
    BY <2>1 DEF ShapeInv, ExecTypeOK, CallsFit
  <2>3. OnlyTurn(w) /\ TurnEffect(w)
    BY <1>1, <2>2, TurnSteps, RunRowAssumption DEF ShapeInv, ExecTypeOK
  <2> QED
    BY <2>2, <2>3, TurnSession DEF ShapeInv, ExecTypeOK
<1>2. ASSUME UNCHANGED sessionVars
      PROVE  SessionChange /\ turnUserSeq' \in [Runs -> Nat]
  BY <1>2 DEF sessionVars, SessionChange, ShapeInv, ExecTypeOK
<1>3. ASSUME NEW r \in Runs, lease' = [lease EXCEPT ![SessionOf[r]] = FreeLease],
             UNCHANGED <<leases, log, turnUserSeq>>
      PROVE  SessionChange /\ turnUserSeq' \in [Runs -> Nat]
  BY <1>3, Freeing, RunRowAssumption DEF ShapeInv, ExecTypeOK
<1>4. ASSUME NEW w \in Workers,
             EndStep(w) \/ WorkerBeats(w) \/ \E r \in Runs : ClaimRun(w, r)
      PROVE  UNCHANGED sessionVars
  BY <1>4 DEF EndStep, HandBack, CompleteRun, FailRun, WorkerDies, WorkerBeats,
     ClaimRun
<1>5. ASSUME NEW w \in Workers, DrainingStep(w)
      PROVE  SessionChange /\ turnUserSeq' \in [Runs -> Nat]
  <2>1. CASE DrainUnlock(w)
    BY <1>3, <2>1 DEF DrainUnlock, ShapeInv, CallsFit
  <2>2. CASE Stop(w) \/ DrainBeat(w) \/ DrainRelease(w)
    BY <1>2, <2>2 DEF Stop, DrainBeat, DrainRelease
  <2> QED
    BY <1>5, <2>1, <2>2 DEF DrainingStep, DrainStep
<1>6. ASSUME NEW p \in Reapers, ReapingStep(p)
      PROVE  SessionChange /\ turnUserSeq' \in [Runs -> Nat]
  <2>1. CASE ReaperUnlock(p)
    BY <1>3, <2>1 DEF ReaperUnlock, ShapeInv, CallsFit
  <2>2. CASE \/ \E r \in Runs : ReaperFence(p, r)
             \/ \E retry \in {"now", "no"} : ReaperRetire(p, retry)
             \/ ReaperDies(p)
    BY <1>2, <2>2 DEF ReaperFence, ReaperRetire, ReaperDies
  <2> QED
    BY <1>6, <2>1, <2>2 DEF ReapingStep, ReaperStep
<1>7. ASSUME NEW r \in Runs, OuterStep(r)
      PROVE  UNCHANGED sessionVars
  BY <1>7 DEF OuterStep, EnqueueRun, WithdrawRun, RunLeaseLapses, RetryIsDue
<1>8. ASSUME NEW s \in Sessions, SessionLeaseLapses(s)
      PROVE  SessionChange /\ turnUserSeq' \in [Runs -> Nat]
  <2>1. lease[s] \in [token : Nat, state : {"none", "live", "lapsed"}]
    BY DEF ShapeInv, ExecTypeOK
  <2>2. lease' = [lease EXCEPT ![s] = [lease[s] EXCEPT !.state = "lapsed"]]
    BY <1>8 DEF SessionLeaseLapses
  <2>3. /\ lease[s].token \in Nat /\ "lapsed" \in {"none", "lapsed"}
        /\ [lease[s] EXCEPT !.state = "lapsed"] =
               [token |-> lease[s].token, state |-> "lapsed"]
    BY <2>1
  <2>4. Expires(s, lease[s].token, "lapsed")
    BY <1>8, <2>2, <2>3 DEF SessionLeaseLapses, Expires
  <2>5. SessionChange
    BY <2>3, <2>4, Zenon DEF SessionChange
  <2> QED
    BY <1>8, <2>5 DEF SessionLeaseLapses, ShapeInv, ExecTypeOK
<1> QED
  BY <1>1, <1>2, <1>4, <1>5, <1>6, <1>7, <1>8 DEF StepKinds

(* Appending an entry to a transcript.                                       *)
LEMMA LogFacts ==
    ASSUME NEW entries \in Seq(Entry), NEW e \in Entry
    PROVE  LET n == Len(entries)
               longer == Append(entries, e)
           IN  /\ n \in Nat /\ DOMAIN entries = 1 .. n
               /\ \A i \in 1 .. n : /\ entries[i] \in Entry
                                    /\ entries[i].lease \in Nat
                                    /\ entries[i].run \in Runs
               /\ longer \in Seq(Entry) /\ Len(longer) = n + 1
               /\ DOMAIN longer = 1 .. n + 1 /\ longer[n + 1] = e
               /\ \A i \in 1 .. n : longer[i] = entries[i]
<1>1. \A x \in Entry : x.lease \in Nat /\ x.run \in Runs
  BY DEF Entry
<1>2. \A i \in 1 .. Len(entries) : entries[i] \in Entry
  OBVIOUS
<1> QED
  BY <1>1, <1>2

(* The order of writing survives every change of the sessions.               *)
LEMMA OrderKept ==
    ASSUME SessionOK, SessionChange, \A s \in Sessions : WrittenInOrder(s)
    PROVE  SessionOK' /\ \A s \in Sessions : WrittenInOrder(s)'
<1> USE DEF SessionOK
<1>1. CASE UNCHANGED <<lease, leases, log>>
  BY <1>1 DEF WrittenInOrder
<1>2. ASSUME NEW s \in Sessions, Issues(s)
      PROVE  SessionOK' /\ \A t \in Sessions : WrittenInOrder(t)'
  <2>1. leases' \in Nat /\ leases' = leases + 1 /\ UNCHANGED log
    BY <1>2 DEF Issues
  <2>2. lease' \in [Sessions -> [token : Nat, state : {"none", "live", "lapsed"}]]
    BY <1>2, <2>1 DEF Issues
  <2>3. /\ lease'[s].token = leases'
        /\ \A t \in Sessions \ {s} : lease'[t] = lease[t]
    BY <1>2, <2>1 DEF Issues
  <2>4. \A t \in Sessions : \A i \in DOMAIN log[t] : log[t][i].lease \in Nat
    <3>1. \A t \in Sessions : \A i \in DOMAIN log[t] : log[t][i] \in Entry
      OBVIOUS
    <3> QED
      BY <3>1 DEF Entry
  <2>5. ASSUME NEW t \in Sessions
        PROVE  WrittenInOrder(t)'
    <3>1. log'[t] = log[t]
      BY <2>1
    <3>2. \A i \in DOMAIN log[t] : log[t][i].lease <= leases'
      BY <2>1, <2>4 DEF WrittenInOrder
    <3>3. CASE t = s
      BY <2>1, <2>3, <3>1, <3>2, <3>3 DEF WrittenInOrder
    <3>4. CASE t # s
      <4>1. lease'[t] = lease[t] /\ lease[t].token \in Nat
        BY <2>3, <3>4
      <4> QED
        BY <2>1, <3>1, <3>2, <4>1 DEF WrittenInOrder
    <3> QED
      BY <3>3, <3>4
  <2> QED
    BY <2>1, <2>2, <2>5
<1>3. ASSUME NEW s \in Sessions, NEW e \in Entry, Extends(s, e)
      PROVE  SessionOK' /\ \A t \in Sessions : WrittenInOrder(t)'
  <2>1. /\ log' = [log EXCEPT ![s] = Append(log[s], e)]
        /\ UNCHANGED <<lease, leases>>
        /\ lease[s].token = e.lease /\ lease[s].state = "live"
    BY <1>3 DEF Extends
  <2>2. log[s] \in Seq(Entry) /\ Append(log[s], e) \in Seq(Entry)
    OBVIOUS
  <2>3. log' \in [Sessions -> Seq(Entry)]
    BY <2>1, <2>2
  <2>4. e.lease \in Nat /\ e.lease <= leases
    BY <2>1 DEF WrittenInOrder, Entry
  <2>5. ASSUME NEW t \in Sessions
        PROVE  WrittenInOrder(t)'
    <3>1. CASE t # s
      BY <2>1, <3>1 DEF WrittenInOrder
    <3>2. CASE t = s
      <4> DEFINE old == log[s]
                 n == Len(log[s])
      <4>1. /\ n \in Nat /\ DOMAIN old = 1 .. n
            /\ DOMAIN log'[s] = 1 .. n + 1 /\ log'[s][n + 1] = e
            /\ \A i \in 1 .. n : log'[s][i] = old[i] /\ old[i].lease \in Nat
        <5>1. log'[s] = Append(log[s], e)
          BY <2>1
        <5> HIDE DEF SessionOK
        <5> QED
          BY <2>2, <5>1, LogFacts
      <4>2. /\ \A i \in 1 .. n : old[i].lease <= e.lease
            /\ \A i, k \in 1 .. n : i <= k => old[i].lease <= old[k].lease
        BY <2>1, <4>1 DEF WrittenInOrder
      <4> HIDE DEF old, n
      <4>3. \A i \in DOMAIN log'[s] :
              /\ log'[s][i].lease <= e.lease /\ log'[s][i].lease \in Nat
              /\ i \in 1 .. n \/ i = n + 1
        <5>1. \A i \in 1 .. n + 1 : i \in 1 .. n \/ i = n + 1
          BY <4>1
        <5> QED
          BY <2>4, <4>1, <4>2, <5>1
      <4>4. \A i, k \in DOMAIN log'[s] :
              i <= k => log'[s][i].lease <= log'[s][k].lease
        <5>1. ASSUME NEW i \in DOMAIN log'[s], NEW k \in DOMAIN log'[s], i <= k
              PROVE  log'[s][i].lease <= log'[s][k].lease
          <6>1. CASE k = n + 1
            BY <4>1, <4>3, <6>1
          <6>2. CASE k # n + 1
            <7>1. i \in 1 .. n /\ k \in 1 .. n
              BY <4>1, <5>1, <6>2
            <7> QED
              BY <4>1, <4>2, <5>1, <7>1
          <6> QED
            BY <6>1, <6>2
        <5> QED
          BY <5>1
      <4> QED
        BY <2>1, <2>4, <3>2, <4>3, <4>4 DEF WrittenInOrder
    <3> QED
      BY <3>1, <3>2
  <2> QED
    BY <2>1, <2>3, <2>5
<1>4. ASSUME NEW s \in Sessions, NEW n \in Nat, NEW state \in {"none", "lapsed"},
             Expires(s, n, state)
      PROVE  SessionOK' /\ \A t \in Sessions : WrittenInOrder(t)'
  <2>1. lease' \in [Sessions -> [token : Nat, state : {"none", "live", "lapsed"}]]
    BY <1>4 DEF Expires
  <2>2. /\ lease'[s].state # "live" /\ UNCHANGED <<leases, log>>
        /\ \A t \in Sessions \ {s} : lease'[t] = lease[t]
    BY <1>4 DEF Expires
  <2> QED
    BY <2>1, <2>2 DEF WrittenInOrder
<1> QED
  BY <1>1, <1>2, <1>3, <1>4 DEF SessionChange

-----------------------------------------------------------------------------
(* Type correctness, and one writer at a time.                               *)

Drainer == [pc : {"none", "beaten", "unlocked", "done"},
            run : Runs \cup {0}, token : Nat]

Sweep == [pc : {"idle", "fenced", "unlocked"}, run : Runs \cup {0}, token : Nat]

AttemptsOK ==
    /\ worker \in [Workers -> Attempt]
    /\ \A w \in Workers : worker[w].pc # "idle" => worker[w].run \in Runs

DrainsOK ==
    /\ drain \in [Workers -> Drainer]
    /\ \A w \in Workers :
           drain[w].pc \in {"beaten", "unlocked"} => drain[w].run \in Runs

SweepsOK ==
    /\ reaper \in [Reapers -> Sweep]
    /\ \A p \in Reapers : reaper[p].pc # "idle" => reaper[p].run \in Runs

SlotsOK == AttemptsOK /\ DrainsOK /\ SweepsOK /\ stopped \subseteq Workers

(* One attempt changes.                                                      *)
LEMMA AttemptMoves ==
    ASSUME AttemptsOK, NEW w \in Workers, NEW x \in Attempt,
           x.pc # "idle" => x.run \in Runs,
           worker' = [worker EXCEPT ![w] = x]
    PROVE  AttemptsOK'
  BY DEF AttemptsOK

(* The progress of one drain changes.                                        *)
LEMMA DrainMoves ==
    ASSUME DrainsOK, NEW w \in Workers, NEW x \in Drainer,
           x.pc \in {"beaten", "unlocked"} => x.run \in Runs,
           drain' = [drain EXCEPT ![w] = x]
    PROVE  DrainsOK'
  BY DEF DrainsOK

(* One sweep changes.                                                        *)
LEMMA SweepMoves ==
    ASSUME SweepsOK, NEW p \in Reapers, NEW x \in Sweep,
           x.pc # "idle" => x.run \in Runs,
           reaper' = [reaper EXCEPT ![p] = x]
    PROVE  SweepsOK'
  BY DEF SweepsOK

(* Nothing changes.                                                          *)
LEMMA SlotsStay ==
    ASSUME SlotsOK
    PROVE  /\ worker' = worker => AttemptsOK'
           /\ drain' = drain => DrainsOK'
           /\ reaper' = reaper => SweepsOK'
           /\ stopped' = stopped => stopped' \subseteq Workers
  BY DEF SlotsOK, AttemptsOK, DrainsOK, SweepsOK

(* Where a drain or a sweep stands, moved on.                                *)
LEMMA SlotShapes ==
    /\ Idle \in Attempt /\ Idle.pc = "idle"
    /\ NoDrain \in Drainer /\ NoDrain.pc = "none"
    /\ NoReap \in Sweep /\ NoReap.pc = "idle"
    /\ \A x \in Drainer, pc \in {"unlocked", "done"} :
         LET y == [x EXCEPT !.pc = pc]
         IN  y \in Drainer /\ y.pc = pc /\ y.run = x.run
    /\ \A x \in Sweep :
         LET y == [x EXCEPT !.pc = "unlocked"]
         IN  y \in Sweep /\ y.run = x.run
<1>1. Idle \in Attempt /\ Idle.pc = "idle"
  BY DEF Idle, Attempt, NoToken
<1>2. NoDrain \in Drainer /\ NoDrain.pc = "none"
  BY DEF NoDrain, Drainer, NoToken
<1>3. NoReap \in Sweep /\ NoReap.pc = "idle"
  BY DEF NoReap, Sweep, NoToken
<1>4. \A x \in Drainer, pc \in {"unlocked", "done"} :
         LET y == [x EXCEPT !.pc = pc]
         IN  y \in Drainer /\ y.pc = pc /\ y.run = x.run
  BY DEF Drainer
<1>5. \A x \in Sweep :
         LET y == [x EXCEPT !.pc = "unlocked"]
         IN  y \in Sweep /\ y.run = x.run
  BY DEF Sweep
<1> QED
  BY <1>1, <1>2, <1>3, <1>4, <1>5

(* Workers, drains and reapers keep their shapes.                            *)
LEMMA SlotsKept ==
    ASSUME SlotsOK, QueueOK', QueueOK, SessionOK, StepKinds
    PROVE  SlotsOK'
<1>1. ASSUME UNCHANGED <<worker, stopped, drain, reaper>>
      PROVE  SlotsOK'
  BY <1>1, SlotsStay DEF SlotsOK
<1>2. ASSUME NEW w \in Workers, TurnStep(w)
      PROVE  SlotsOK'
  <2>1. worker[w].pc # "idle"
    BY <1>2 DEF TurnStep, Begin, ReadRecorded, AcquireSession, RefuseBusy,
       AppendAsk, NoteTurn, NoteLost, AppendAnswer, RecordFailure, Unlock,
       TurnAborts, TurnThrows
  <2>2. worker \in [Workers -> Attempt] /\ worker[w].run \in Runs
    BY <2>1 DEF SlotsOK, AttemptsOK
  <2>3. OnlyTurn(w)
    BY <1>2, <2>2, TurnSteps, RunRowAssumption DEF SessionOK
  <2>4. worker'[w].run \in Runs
    BY <2>2, <2>3 DEF OnlyTurn, SameRun
  <2>5. AttemptsOK'
    BY <2>3, <2>4, AttemptMoves DEF SlotsOK, OnlyTurn
  <2> QED
    BY <2>3, <2>5, SlotsStay DEF SlotsOK, OnlyTurn, reaperVars
<1>3. ASSUME NEW w \in Workers, EndStep(w)
      PROVE  SlotsOK'
  <2>1. /\ worker' = [worker EXCEPT ![w] = Idle] /\ UNCHANGED reaper
        /\ stopped' \subseteq stopped
        /\ drain' = drain \/ drain' = [drain EXCEPT ![w] = NoDrain]
    BY <1>3 DEF EndStep, HandBack, CompleteRun, FailRun, WorkerDies, reaperVars
  <2>2. AttemptsOK'
    BY <2>1, SlotShapes, AttemptMoves DEF SlotsOK
  <2>3. DrainsOK'
    <3>1. CASE drain' = drain
      BY <3>1, SlotsStay
    <3>2. CASE drain' = [drain EXCEPT ![w] = NoDrain]
      <4>1. NoDrain \in Drainer /\ NoDrain.pc \notin {"beaten", "unlocked"}
        BY SlotShapes
      <4> QED
        BY <3>2, <4>1, DrainMoves DEF SlotsOK
    <3> QED
      BY <2>1, <3>1, <3>2
  <2>4. SweepsOK' /\ stopped' \subseteq Workers
    BY <2>1, SlotsStay DEF SlotsOK
  <2> QED
    BY <2>2, <2>3, <2>4 DEF SlotsOK
<1>4. ASSUME NEW w \in Workers, DrainingStep(w)
      PROVE  SlotsOK'
  <2>1. CASE Stop(w)
    BY <2>1, SlotsStay DEF Stop, reaperVars, SlotsOK
  <2>2. ASSUME NEW x \in Drainer, x.pc \in {"beaten", "unlocked"} => x.run \in Runs,
               drain' = [drain EXCEPT ![w] = x],
               UNCHANGED <<worker, stopped, reaperVars>>
        PROVE  SlotsOK'
    <3>1. DrainsOK'
      BY <2>2, DrainMoves DEF SlotsOK
    <3> QED
      BY <2>2, <3>1, SlotsStay DEF SlotsOK, reaperVars
  <2>3. drain[w] \in Drainer /\ drain \in [Workers -> Drainer]
    BY DEF SlotsOK, DrainsOK
  <2>4. ASSUME NEW pc \in {"unlocked", "done"},
               drain' = [drain EXCEPT ![w].pc = pc],
               pc = "unlocked" => drain[w].run \in Runs,
               UNCHANGED <<worker, stopped, reaperVars>>
        PROVE  SlotsOK'
    <3> DEFINE x == [drain[w] EXCEPT !.pc = pc]
    <3>1. x \in Drainer /\ x.pc = pc /\ x.run = drain[w].run
      BY <2>3, SlotShapes
    <3>2. drain' = [drain EXCEPT ![w] = x]
      BY <2>3, <2>4
    <3> HIDE DEF x
    <3>3. x.pc \in {"beaten", "unlocked"} => x.run \in Runs
      BY <2>4, <3>1
    <3> QED
      BY <2>2, <2>4, <3>1, <3>2, <3>3
  <2>5. CASE DrainBeat(w)
    <3> DEFINE x == [pc |-> "beaten", run |-> worker[w].run,
                     token |-> worker[w].token]
    <3>1. UNCHANGED <<worker, stopped, reaperVars>>
      BY <2>5 DEF DrainBeat
    <3>2. \/ drain' = [drain EXCEPT ![w] = x]
          \/ drain' = [drain EXCEPT ![w].pc = "done"]
      BY <2>5 DEF DrainBeat
    <3>3. worker[w].run \in Runs /\ worker[w].token \in Nat
      <4>1. worker[w] \in Attempt /\ worker[w].run \in Runs
        BY <2>5 DEF DrainBeat, InFlight, SlotsOK, AttemptsOK
      <4> QED
        BY <4>1 DEF Attempt
    <3>4. x \in Drainer /\ x.run \in Runs
      BY <3>3 DEF Drainer
    <3> HIDE DEF x
    <3>5. CASE drain' = [drain EXCEPT ![w] = x]
      BY <2>2, <3>1, <3>4, <3>5
    <3>6. CASE drain' = [drain EXCEPT ![w].pc = "done"]
      BY <2>4, <3>1, <3>6
    <3> QED
      BY <3>2, <3>5, <3>6
  <2>6. CASE DrainUnlock(w)
    <3>1. drain[w].run \in Runs
      BY <2>6 DEF DrainUnlock, SlotsOK, DrainsOK
    <3>2. /\ drain' = [drain EXCEPT ![w].pc = "unlocked"]
          /\ UNCHANGED <<worker, stopped, reaperVars>>
      BY <2>6 DEF DrainUnlock
    <3> QED
      BY <2>4, <3>1, <3>2
  <2>7. CASE DrainRelease(w)
    <3>1. /\ drain' = [drain EXCEPT ![w].pc = "done"]
          /\ UNCHANGED <<worker, stopped, reaperVars>>
      BY <2>7 DEF DrainRelease
    <3> QED
      BY <2>4, <3>1
  <2> QED
    BY <1>4, <2>1, <2>5, <2>6, <2>7 DEF DrainingStep, DrainStep
<1>5. ASSUME NEW w \in Workers, NEW r \in Runs, ClaimRun(w, r)
      PROVE  SlotsOK'
  <2>1. ClaimedFor(w, r)
    BY <1>5, ClaimShape DEF SlotsOK, AttemptsOK
  <2>2. AttemptsOK'
    BY <2>1, AttemptMoves DEF ClaimedFor, SlotsOK
  <2>3. UNCHANGED <<stopped, drain, reaper>>
    BY <1>5 DEF ClaimRun, reaperVars
  <2> QED
    BY <2>2, <2>3, SlotsStay DEF SlotsOK
<1>6. ASSUME NEW p \in Reapers, ReapingStep(p)
      PROVE  SlotsOK'
  <2>1. ASSUME NEW x \in Sweep, x.pc # "idle" => x.run \in Runs,
               reaper' = [reaper EXCEPT ![p] = x], UNCHANGED attemptVars
        PROVE  SlotsOK'
    <3>1. SweepsOK'
      BY <2>1, SweepMoves DEF SlotsOK
    <3> QED
      BY <2>1, <3>1, SlotsStay DEF SlotsOK, attemptVars
  <2>2. ASSUME NEW r \in Runs, ReaperFence(p, r)
        PROVE  SlotsOK'
    <3> DEFINE x == [pc |-> "fenced", run |-> r, token |-> run'[r].token]
    <3>1. reaper' = [reaper EXCEPT ![p] = x] /\ UNCHANGED attemptVars
      BY <2>2 DEF ReaperFence
    <3>2. run'[r].token \in Nat
      BY DEF QueueOK, Row
    <3>3. x \in Sweep /\ x.run \in Runs
      BY <3>2 DEF Sweep
    <3> HIDE DEF x
    <3> QED
      BY <2>1, <3>1, <3>3
  <2>3. CASE ReaperUnlock(p)
    <3> DEFINE x == [reaper[p] EXCEPT !.pc = "unlocked"]
    <3>1. /\ reaper' = [reaper EXCEPT ![p].pc = "unlocked"]
          /\ UNCHANGED attemptVars /\ reaper[p].pc = "fenced"
      BY <2>3 DEF ReaperUnlock
    <3>2. /\ reaper \in [Reapers -> Sweep] /\ reaper[p] \in Sweep
          /\ reaper[p].run \in Runs
      BY <3>1 DEF SlotsOK, SweepsOK
    <3>3. x \in Sweep /\ x.run \in Runs
      BY <3>2, SlotShapes
    <3>4. reaper' = [reaper EXCEPT ![p] = x]
      BY <3>1, <3>2
    <3> HIDE DEF x
    <3> QED
      BY <2>1, <3>1, <3>3, <3>4
  <2>4. CASE ReaperDies(p) \/ \E retry \in {"now", "no"} : ReaperRetire(p, retry)
    <3>1. reaper' = [reaper EXCEPT ![p] = NoReap] /\ UNCHANGED attemptVars
      BY <2>4 DEF ReaperDies, ReaperRetire
    <3> QED
      BY <2>1, <3>1, SlotShapes
  <2> QED
    BY <1>6, <2>2, <2>3, <2>4 DEF ReapingStep, ReaperStep
<1>7. ASSUME UNCHANGED <<attemptVars, reaperVars>>
      PROVE  SlotsOK'
  BY <1>1, <1>7 DEF attemptVars, reaperVars
<1>8. ASSUME NEW w \in Workers, WorkerBeats(w)
      PROVE  UNCHANGED <<attemptVars, reaperVars>>
  BY <1>8 DEF WorkerBeats
<1>9. ASSUME NEW r \in Runs, OuterStep(r)
      PROVE  UNCHANGED <<attemptVars, reaperVars>>
  BY <1>9 DEF OuterStep, EnqueueRun, WithdrawRun, RunLeaseLapses, RetryIsDue
<1>10. ASSUME NEW s \in Sessions, SessionLeaseLapses(s)
       PROVE  UNCHANGED <<attemptVars, reaperVars>>
  BY <1>10 DEF SessionLeaseLapses
<1> QED
  BY <1>2, <1>3, <1>4, <1>5, <1>6, <1>7, <1>8, <1>9, <1>10 DEF StepKinds

(* Shapes and the order of writing are invariant, under all faults.          *)
LEMMA WriterStep ==
    ASSUME WriterInv, [ExecNext]_execVars
    PROVE  WriterInv'
<1>1. CASE ExecNext
  <2>1. StepKinds
    BY <1>1, ExecSteps
  <2>2. ShapeInv /\ QueueOK /\ SessionOK
    BY DEF WriterInv, ShapeInv, ExecTypeOK, QueueOK, SessionOK
  <2>a. SlotsOK
    BY <2>2 DEF ShapeInv, ExecTypeOK, CallsFit, SlotsOK, AttemptsOK, DrainsOK,
       SweepsOK, Drainer, Sweep
  <2>3. QueueOK'
    <3>1. CASE UNCHANGED queueVars
      BY <2>2, <3>1 DEF QueueOK, queueVars
    <3>2. CASE \E r \in Runs : QueueStep(r)
      BY <2>2, <3>2, QueueKeeps
    <3> QED
      BY <2>1, <2>2, <3>1, <3>2, QueueMoves
  <2>4. SlotsOK'
    BY <2>1, <2>2, <2>a, <2>3, SlotsKept
  <2>5. SessionChange /\ turnUserSeq' \in [Runs -> Nat]
    BY <2>1, <2>2, SessionMoves
  <2>6. SessionOK' /\ \A s \in Sessions : WrittenInOrder(s)'
    BY <2>2, <2>5, OrderKept DEF WriterInv
  <2>7. /\ worker' \in [Workers -> Attempt] /\ stopped' \subseteq Workers
        /\ drain' \in [Workers -> Drainer] /\ reaper' \in [Reapers -> Sweep]
        /\ CallsFit'
    BY <2>4 DEF CallsFit, SlotsOK, AttemptsOK, DrainsOK, SweepsOK
  <2> QED
    BY <2>3, <2>5, <2>6, <2>7
    DEF WriterInv, ShapeInv, ExecTypeOK, QueueOK, SessionOK, Drainer, Sweep
<1>2. CASE UNCHANGED execVars
  BY <1>2 DEF execVars, queueVars, attemptVars, reaperVars, sessionVars, WriterInv,
     ShapeInv, ExecTypeOK, CallsFit, WrittenInOrder
<1> QED
  BY <1>1, <1>2

(* The program starts with empty transcripts.                                *)
LEMMA WriterStart == ExecInit => WriterInv
<1> SUFFICES ASSUME ExecInit PROVE WriterInv
  OBVIOUS
<1> USE DEF ExecInit, QueueInit
<1>1. NewRow \in Row
  BY DEF NewRow, Row, NoToken, Terminal
<1>2. Idle \in Attempt /\ Idle.pc = "idle"
  BY DEF Idle, Attempt, NoToken
<1>3. /\ NoDrain \in [pc : {"none", "beaten", "unlocked", "done"},
                      run : Runs \cup {0}, token : Nat]
      /\ NoReap \in [pc : {"idle", "fenced", "unlocked"},
                     run : Runs \cup {0}, token : Nat]
      /\ NoDrain.pc = "none" /\ NoReap.pc = "idle"
  BY DEF NoDrain, NoReap, NoToken
<1>4. /\ FreeLease \in [token : Nat, state : {"none", "live", "lapsed"}]
      /\ FreeLease.state # "live"
  BY DEF FreeLease
<1>5. ShapeInv
  <2>1. ExecTypeOK
    BY <1>1, <1>2, <1>3, <1>4 DEF ExecTypeOK
  <2>2. CallsFit
    BY <1>2, <1>3 DEF CallsFit
  <2> QED
    BY <2>1, <2>2 DEF ShapeInv
<1>6. \A s \in Sessions : WrittenInOrder(s)
  BY <1>4 DEF WrittenInOrder
<1> QED
  BY <1>5, <1>6 DEF WriterInv

(* The writers' invariant holds of every behaviour.                          *)
THEOREM WriterInvariant == ExecSpec => []WriterInv
  BY WriterStart, WriterStep, PTL DEF ExecSpec

(* Attempts, leases, transcripts and calls in progress keep their shapes,    *)
(* whichever of the faults occur.                                            *)
THEOREM ExecTypeCorrect == ExecSpec => []ExecTypeOK
<1>1. WriterInv => ExecTypeOK
  BY DEF WriterInv, ShapeInv
<1> QED
  BY <1>1, WriterInvariant, PTL

(* One writer at a time, under all faults: an append re-reads the session's  *)
(* lease in its own transaction, so an attempt that stalled, was drained or  *)
(* was fenced never writes into the turn of its successor.                   *)
THEOREM TurnsDoNotInterleaveAlways == ExecSpec => []TurnsDoNotInterleave
<1>1. ASSUME WriterInv
      PROVE  TurnsDoNotInterleave
  <2> SUFFICES ASSUME NEW s \in Sessions,
                      NEW i \in DOMAIN log[s], NEW k \in DOMAIN log[s],
                      NEW j \in i .. k, log[s][i].lease = log[s][k].lease
               PROVE  log[s][j].lease = log[s][i].lease
    BY DEF TurnsDoNotInterleave
  <2>1. log[s] \in Seq(Entry)
    BY <1>1 DEF WriterInv, ShapeInv, ExecTypeOK
  <2>2. j \in DOMAIN log[s] /\ i <= j /\ j <= k
    BY <2>1
  <2>3. \A x \in Entry : x.lease \in Nat
    BY DEF Entry
  <2>4. log[s][i].lease \in Nat /\ log[s][j].lease \in Nat /\ log[s][k].lease \in Nat
    BY <2>1, <2>2, <2>3
  <2> QED
    BY <1>1, <2>2, <2>4 DEF WriterInv, WrittenInOrder
<1> QED
  BY <1>1, WriterInvariant, PTL

-----------------------------------------------------------------------------
(* The steps of a calm environment.                                          *)

Calm == "stall" \notin Faults /\ "drain" \notin Faults

Same(row, x) == x.attempts = row.attempts /\ x.result = row.result

(* What the operations of the queue do to the columns the proofs look at.    *)
LEMMA RowFacts ==
    ASSUME NEW row \in Row
    PROVE  /\ \A token \in Nat :
                LET x == Leased(row, token)
                IN  /\ x.status = "running" /\ x.token = token /\ x.lease = "live"
                    /\ x.attempts = row.attempts + 1 /\ x.result = row.result
           /\ \A token \in Nat :
                LET x == [row EXCEPT !.token = token, !.lease = "live"]
                IN  /\ x.status = row.status /\ x.token = token /\ x.lease = "live"
                    /\ Same(row, x)
           /\ \A result \in {"none", "answer", "session_busy"} :
                LET x == Completed(row, result)
                IN  /\ x.status = "done" /\ x.attempts = row.attempts
                    /\ x.result = result
           /\ \A charge \in {0, 1} :
                LET x == Requeued(row, charge)
                    y == Parked(row, charge)
                IN  /\ x.status = "pending" /\ Same(row, x)
                    /\ y.status = "failed" /\ y.attempts = row.attempts
                    /\ y.result = "error"
           /\ LET x == [row EXCEPT !.lease = "lapsed"]
              IN  x.status = row.status /\ x.token = row.token /\ Same(row, x)
           /\ LET x == [row EXCEPT !.status = "withdrawn", !.key = NoKey]
              IN  x.status = "withdrawn" /\ Same(row, x)
           /\ \A key \in DedupKeys \cup {NoKey} :
                LET x == [row EXCEPT !.status = "pending", !.key = key]
                IN  x.status = "pending" /\ Same(row, x)
<1> USE DEF Same
<1>1. \A token \in Nat :
        LET x == Leased(row, token)
        IN  /\ x.status = "running" /\ x.token = token /\ x.lease = "live"
            /\ x.attempts = row.attempts + 1 /\ x.result = row.result
  BY DEF Row, Leased
<1>2. \A token \in Nat :
        LET x == [row EXCEPT !.token = token, !.lease = "live"]
        IN  /\ x.status = row.status /\ x.token = token /\ x.lease = "live"
            /\ Same(row, x)
  BY DEF Row
<1>3. \A r2 \in Row : \A status \in {"pending", "done", "failed"} :
        LET x == Unleased(r2, status)
        IN  x \in Row /\ x.status = status /\ Same(r2, x)
  <2>1. \A r2 \in Row : \A status \in {"pending", "done", "failed"} :
          Unleased(r2, status) \in Row
    BY RowShapes
  <2>2. \A r2 \in Row : \A status \in {"pending", "done", "failed"} :
          Unleased(r2, status).status = status /\ Same(r2, Unleased(r2, status))
    BY DEF Unleased, Row
  <2> QED
    BY <2>1, <2>2
<1>4. \A result \in {"none", "answer", "session_busy"} :
        LET x == Completed(row, result)
        IN  x.status = "done" /\ x.attempts = row.attempts /\ x.result = result
  BY <1>3 DEF Completed, Row
<1>5. \A charge \in {0, 1} :
        LET x == Requeued(row, charge)
            y == Parked(row, charge)
        IN  /\ x.status = "pending" /\ Same(row, x)
            /\ y.status = "failed" /\ y.attempts = row.attempts
            /\ y.result = "error"
  <2>1. \A charge \in {0, 1} : Charged(row, charge) \in Row /\ Same(row, Charged(row, charge))
    BY DEF Charged, Row
  <2>2. \A charge \in {0, 1} :
          /\ Requeued(row, charge).status = "pending"
          /\ Same(row, Requeued(row, charge))
    BY <1>3, <2>1 DEF Requeued
  <2>3. \A charge \in {0, 1} :
          /\ Parked(row, charge).status = "failed"
          /\ Parked(row, charge).attempts = row.attempts
          /\ Parked(row, charge).result = "error"
    BY <1>3, <2>1 DEF Parked, Row
  <2> QED
    BY <2>2, <2>3
<1>6. /\ LET x == [row EXCEPT !.lease = "lapsed"]
         IN  x.status = row.status /\ x.token = row.token /\ Same(row, x)
      /\ LET x == [row EXCEPT !.status = "withdrawn", !.key = NoKey]
         IN  x.status = "withdrawn" /\ Same(row, x)
      /\ \A key \in DedupKeys \cup {NoKey} :
           LET x == [row EXCEPT !.status = "pending", !.key = key]
           IN  x.status = "pending" /\ Same(row, x)
  BY DEF Row
<1> HIDE DEF Same
<1> QED
  BY <1>1, <1>2, <1>4, <1>5, <1>6

-----------------------------------------------------------------------------
(* The queue as the attempts use it, under all faults.                       *)

(* The tokens of a run are issued in order, and a lease carries one of them. *)
TokenFits(row, n) ==
    n <= MaxTokens /\ (row.status = "running" => row.token \in 1 .. n)

TokensFit == \A r \in Runs : TokenFits(run[r], issued[r])

(* An attempt that reports has something to report.                          *)
ResultsFit ==
    \A w \in Workers :
        worker[w].pc \in {"unlock", "complete"} => worker[w].result # "none"

(* Only a running run is leased.                                             *)
Tidy(row) == row.status # "running" => row.lease = "none"

UseInv ==
    /\ WriterInv /\ TokensFit /\ ResultsFit /\ OneRunning
    /\ \A r \in Runs : Tidy(run[r])

(* A finished run is not touched again.                                      *)
FinishedStays ==
    \A r \in Runs : run[r].status \in Finished => run'[r] = run[r]

(* What an operation does to its own row, to the tokens and to the siblings. *)
QueueEffect(r) ==
    /\ TokenFits(run'[r], issued'[r])
    /\ \A s \in Runs \ {r} : run'[s] = run[s] /\ issued'[s] = issued[s]
    /\ run'[r].status = "running" /\ run[r].status # "running" =>
           \A s \in Siblings(r) : run[s].status # "running"

LEMMA QueueEffects ==
    ASSUME QueueOK, NEW r \in Runs, QueueStep(r), TokenFits(run[r], issued[r])
    PROVE  QueueEffect(r)
<1> DEFINE row == run[r]
           n == issued[r]
<1>1. row \in Row /\ n \in Nat /\ n + 1 \in Nat /\ MaxTokens \in Nat
  BY RunRowAssumption DEF QueueOK
<1>2. DedupKeyOf[r] \in DedupKeys \cup {NoKey}
  BY RunRowAssumption
<1>3. ASSUME NEW x \in Row, run' = [run EXCEPT ![r] = x], UNCHANGED issued,
             x.status = "running" => row.status = "running" /\ x.token = row.token
      PROVE  QueueEffect(r)
  BY <1>3 DEF QueueEffect, QueueOK, TokenFits
<1>4. ASSUME NEW x \in Row, run' = [run EXCEPT ![r] = x], n < MaxTokens,
             issued' = [issued EXCEPT ![r] = n + 1], x.token = n + 1,
             row.status = "running" \/ \A s \in Siblings(r) : run[s].status # "running"
      PROVE  QueueEffect(r)
  <2>1. n + 1 <= MaxTokens /\ x.token \in 1 .. n + 1
    BY <1>1, <1>4
  <2> HIDE DEF n
  <2>2. run'[r] = x /\ issued'[r] = n + 1
    BY <1>4 DEF QueueOK
  <2>3. \A s \in Runs \ {r} : run'[s] = run[s] /\ issued'[s] = issued[s]
    BY <1>4 DEF QueueOK
  <2> QED
    BY <1>4, <2>1, <2>2, <2>3 DEF QueueEffect, TokenFits
<1> HIDE DEF row, n
<1>5. CASE Enqueue(r)
  <2>1. run' = [run EXCEPT ![r] = [row EXCEPT !.status = "pending",
                                              !.key = DedupKeyOf[r]]]
    BY <1>5 DEF Enqueue, row
  <2>2. [row EXCEPT !.status = "pending", !.key = DedupKeyOf[r]] \in Row
    BY <1>1, <1>2, RowShapes
  <2>3. [row EXCEPT !.status = "pending", !.key = DedupKeyOf[r]].status = "pending"
    BY <1>1 DEF Row
  <2> QED
    BY <2>1, <2>2, <2>3, <1>3, <1>5 DEF Enqueue
<1>6. CASE Claim(r)
  <2>1. /\ run' = [run EXCEPT ![r] = Leased(row, n + 1)]
        /\ n < MaxTokens /\ issued' = [issued EXCEPT ![r] = n + 1]
        /\ \A s \in Siblings(r) : run[s].status # "running"
    BY <1>6 DEF Claim, row, n
  <2>2. Leased(row, n + 1) \in Row
    BY <1>1, RowShapes
  <2>3. Leased(row, n + 1).token = n + 1
    BY <1>1 DEF Leased, Row
  <2> QED
    BY <2>1, <2>2, <2>3, <1>4
<1>7. CASE Fence(r)
  <2>1. /\ run' = [run EXCEPT ![r] = [row EXCEPT !.token = n + 1, !.lease = "live"]]
        /\ n < MaxTokens /\ issued' = [issued EXCEPT ![r] = n + 1]
        /\ row.status = "running"
    BY <1>7 DEF Fence, row, n
  <2>2. [row EXCEPT !.token = n + 1, !.lease = "live"] \in Row
    BY <1>1, RowShapes
  <2>3. [row EXCEPT !.token = n + 1, !.lease = "live"].token = n + 1
    BY <1>1 DEF Row
  <2> QED
    BY <2>1, <2>2, <2>3, <1>4
<1>8. CASE Withdraw(r)
  <2>1. run' = [run EXCEPT ![r] = [row EXCEPT !.status = "withdrawn", !.key = NoKey]]
    BY <1>8 DEF Withdraw, row
  <2>2. [row EXCEPT !.status = "withdrawn", !.key = NoKey] \in Row
    BY <1>1, RowShapes
  <2>3. [row EXCEPT !.status = "withdrawn", !.key = NoKey].status = "withdrawn"
    BY <1>1 DEF Row
  <2> QED
    BY <2>1, <2>2, <2>3, <1>3, <1>8 DEF Withdraw
<1>9. CASE LeaseLapses(r)
  <2>1. run' = [run EXCEPT ![r] = [row EXCEPT !.lease = "lapsed"]] /\ UNCHANGED issued
    BY <1>9 DEF LeaseLapses, row
  <2>2. [row EXCEPT !.lease = "lapsed"] \in Row
    BY <1>1, RowShapes
  <2>3. LET x == [row EXCEPT !.lease = "lapsed"]
        IN  x.status = row.status /\ x.token = row.token
    BY <1>1 DEF Row
  <2> QED
    BY <2>1, <2>2, <2>3, <1>3
<1>10. CASE BackoffEnds(r)
  BY <1>10 DEF BackoffEnds, QueueEffect
<1>11. ASSUME NEW t \in Nat, Heartbeat(r, t)
       PROVE  QueueEffect(r)
  <2>1. run' = [run EXCEPT ![r] = [row EXCEPT !.lease = "live"]] /\ UNCHANGED issued
    BY <1>11 DEF Heartbeat, row
  <2>2. [row EXCEPT !.lease = "live"] \in Row
    BY <1>1, RowShapes
  <2>3. LET x == [row EXCEPT !.lease = "live"]
        IN  x.status = row.status /\ x.token = row.token
    BY <1>1 DEF Row
  <2> QED
    BY <2>1, <2>2, <2>3, <1>3
<1>12. ASSUME NEW t \in Nat, ReleaseLease(r, t)
       PROVE  QueueEffect(r)
  <2>1. run' = [run EXCEPT ![r] = Unleased(row, "pending")] /\ UNCHANGED issued
    BY <1>12 DEF ReleaseLease, row
  <2>2. Unleased(row, "pending") \in Row
    BY <1>1, RowShapes
  <2>3. Unleased(row, "pending").status = "pending"
    BY <1>1 DEF Unleased, Row
  <2> QED
    BY <2>1, <2>2, <2>3, <1>3
<1>13. ASSUME NEW t \in Nat, NEW result \in {"none", "answer", "session_busy"},
              Complete(r, t, result)
       PROVE  QueueEffect(r)
  <2>1. run' = [run EXCEPT ![r] = Completed(row, result)] /\ UNCHANGED issued
    BY <1>13 DEF Complete, row
  <2>2. Completed(row, result) \in Row
    BY <1>1, RowShapes
  <2>3. Completed(row, result).status = "done"
    BY <1>1 DEF Completed, Unleased, Row
  <2> QED
    BY <2>1, <2>2, <2>3, <1>3
<1>14. ASSUME NEW t \in Nat, NEW retry \in {"no", "now", "later"},
              NEW charge \in {0, 1}, Retire(r, t, retry, charge)
       PROVE  QueueEffect(r)
  <2>1. UNCHANGED issued /\ \/ run' = [run EXCEPT ![r] = Requeued(row, charge)]
                            \/ run' = [run EXCEPT ![r] = Parked(row, charge)]
    BY <1>14 DEF Retire, row
  <2>2. Requeued(row, charge) \in Row /\ Parked(row, charge) \in Row
    BY <1>1, RowShapes
  <2>3. Charged(row, charge) \in Row
    BY <1>1 DEF Charged, Row
  <2>4. Requeued(row, charge).status = "pending"
    BY <2>3 DEF Requeued, Unleased, Row
  <2>5. Parked(row, charge).status = "failed"
    BY <2>3 DEF Parked, Unleased, Row
  <2> QED
    BY <2>1, <2>2, <2>4, <2>5, <1>3
<1> QED
  BY <1>5, <1>6, <1>7, <1>8, <1>9, <1>10, <1>11, <1>12, <1>13, <1>14 DEF QueueStep

(* Whatever ends a lease clears it, and a finished run has none to act on.   *)
LEMMA TidyKept ==
    ASSUME QueueOK, NEW r \in Runs, QueueStep(r), Tidy(run[r])
    PROVE  /\ Tidy(run'[r])
           /\ run[r].status \in Finished => run'[r] = run[r]
<1> DEFINE row == run[r]
<1>1. row \in Row
  BY DEF QueueOK
<1>2. ASSUME NEW x, run' = [run EXCEPT ![r] = x], Tidy(x),
             row.status \notin Finished
      PROVE  Tidy(run'[r]) /\ (row.status \in Finished => run'[r] = row)
  BY <1>2 DEF QueueOK
<1> HIDE DEF row
<1>3. /\ ~("pending" \in Finished) /\ ~("running" \in Finished)
      /\ ~("unborn" \in Finished)
  BY DEF Finished, Terminal
<1>4. CASE Enqueue(r)
  <2>1. /\ run' = [run EXCEPT ![r] = [row EXCEPT !.status = "pending",
                                                 !.key = DedupKeyOf[r]]]
        /\ row.status = "unborn" /\ row.lease = "none"
    BY <1>4 DEF Enqueue, row, Tidy
  <2>2. Tidy([row EXCEPT !.status = "pending", !.key = DedupKeyOf[r]])
    BY <1>1, <2>1 DEF Row, Tidy
  <2> QED
    BY <1>2, <1>3, <2>1, <2>2 DEF row
<1>5. CASE Claim(r)
  <2>1. run' = [run EXCEPT ![r] = Leased(row, issued[r] + 1)] /\ row.status = "pending"
    BY <1>5 DEF Claim, row
  <2>2. Tidy(Leased(row, issued[r] + 1))
    BY <1>1 DEF Leased, Row, Tidy
  <2> QED
    BY <1>2, <1>3, <2>1, <2>2 DEF row
<1>6. CASE Fence(r)
  <2>1. /\ run' = [run EXCEPT ![r] = [row EXCEPT !.token = issued[r] + 1,
                                                 !.lease = "live"]]
        /\ row.status = "running"
    BY <1>6 DEF Fence, row
  <2>2. Tidy([row EXCEPT !.token = issued[r] + 1, !.lease = "live"])
    BY <1>1, <2>1 DEF Row, Tidy
  <2> QED
    BY <1>2, <1>3, <2>1, <2>2 DEF row
<1>7. CASE Withdraw(r)
  <2>1. /\ run' = [run EXCEPT ![r] = [row EXCEPT !.status = "withdrawn",
                                                 !.key = NoKey]]
        /\ row.status = "pending" /\ row.lease = "none"
    BY <1>7 DEF Withdraw, row, Tidy
  <2>2. Tidy([row EXCEPT !.status = "withdrawn", !.key = NoKey])
    BY <1>1, <2>1 DEF Row, Tidy
  <2> QED
    BY <1>2, <1>3, <2>1, <2>2 DEF row
<1>8. CASE LeaseLapses(r)
  <2>1. /\ run' = [run EXCEPT ![r] = [row EXCEPT !.lease = "lapsed"]]
        /\ row.status = "running"
    BY <1>8 DEF LeaseLapses, row, Tidy
  <2>2. Tidy([row EXCEPT !.lease = "lapsed"])
    BY <1>1, <2>1 DEF Row, Tidy
  <2> QED
    BY <1>2, <1>3, <2>1, <2>2 DEF row
<1>9. CASE BackoffEnds(r)
  BY <1>9 DEF BackoffEnds
<1>10. ASSUME NEW t \in Nat, Heartbeat(r, t)
       PROVE  Tidy(run'[r]) /\ (row.status \in Finished => run'[r] = row)
  <2>1. run' = [run EXCEPT ![r] = [row EXCEPT !.lease = "live"]] /\ row.status = "running"
    BY <1>10 DEF Heartbeat, Owns, row
  <2>2. Tidy([row EXCEPT !.lease = "live"])
    BY <1>1, <2>1 DEF Row, Tidy
  <2> QED
    BY <1>2, <1>3, <2>1, <2>2
<1>11. ASSUME NEW t \in Nat, ReleaseLease(r, t)
       PROVE  Tidy(run'[r]) /\ (row.status \in Finished => run'[r] = row)
  <2>1. run' = [run EXCEPT ![r] = Unleased(row, "pending")] /\ row.status = "running"
    BY <1>11 DEF ReleaseLease, Owns, row
  <2>2. Tidy(Unleased(row, "pending"))
    BY <1>1 DEF Unleased, Row, Tidy
  <2> QED
    BY <1>2, <1>3, <2>1, <2>2
<1>12. ASSUME NEW t \in Nat, NEW result \in {"none", "answer", "session_busy"},
              Complete(r, t, result)
       PROVE  Tidy(run'[r]) /\ (row.status \in Finished => run'[r] = row)
  <2>1. run' = [run EXCEPT ![r] = Completed(row, result)] /\ row.status = "running"
    BY <1>12 DEF Complete, Owns, row
  <2>2. Tidy(Completed(row, result))
    BY <1>1 DEF Completed, Unleased, Row, Tidy
  <2> QED
    BY <1>2, <1>3, <2>1, <2>2
<1>13. ASSUME NEW t \in Nat, NEW retry \in {"no", "now", "later"},
              NEW charge \in {0, 1}, Retire(r, t, retry, charge)
       PROVE  Tidy(run'[r]) /\ (row.status \in Finished => run'[r] = row)
  <2>1. /\ \/ run' = [run EXCEPT ![r] = Requeued(row, charge)]
           \/ run' = [run EXCEPT ![r] = Parked(row, charge)]
        /\ row.status = "running"
    BY <1>13 DEF Retire, Owns, row
  <2>2. Charged(row, charge) \in Row
    BY <1>1 DEF Charged, Row
  <2>3. Tidy(Requeued(row, charge))
    BY <2>2 DEF Requeued, Unleased, Row, Tidy
  <2>4. Tidy(Parked(row, charge))
    BY <2>2 DEF Parked, Unleased, Row, Tidy
  <2> QED
    BY <1>2, <1>3, <2>1, <2>3, <2>4
<1> QED
  BY <1>4, <1>5, <1>6, <1>7, <1>8, <1>9, <1>10, <1>11, <1>12, <1>13
  DEF QueueStep, row

(* An operation is one that the queue's specification allows.                *)
LEMMA QueueAllows ==
    ASSUME NEW r \in Runs, TokenFits(run[r], issued[r]), issued[r] \in Nat,
           QueueStep(r), ~Reported("none")
    PROVE  QueueNext
<1>1. ASSUME NEW t \in Nat, Owns(r, t)
      PROVE  t \in Tokens
  BY <1>1, RunRowAssumption DEF Owns, TokenFits, Tokens
<1>2. CASE \/ Enqueue(r) \/ Claim(r) \/ Fence(r) \/ Withdraw(r)
           \/ LeaseLapses(r) \/ BackoffEnds(r)
  BY <1>2, Zenon DEF QueueNext
<1>3. ASSUME NEW t \in Nat, Heartbeat(r, t) \/ ReleaseLease(r, t)
      PROVE  QueueNext
  <2>1. t \in Tokens
    BY <1>1, <1>3 DEF Heartbeat, ReleaseLease
  <2> QED
    BY <1>3, <2>1, Zenon DEF QueueNext
<1>4. ASSUME NEW t \in Nat, NEW result \in {"none", "answer", "session_busy"},
             Reported(result), Complete(r, t, result)
      PROVE  QueueNext
  <2>1. t \in Tokens
    BY <1>1, <1>4 DEF Complete
  <2>2. result \in {"answer", "session_busy"}
    BY <1>4
  <2> QED
    BY <1>4, <2>1, <2>2, Zenon DEF QueueNext
<1>5. ASSUME NEW t \in Nat, NEW retry \in {"no", "now", "later"},
             NEW charge \in {0, 1}, Retire(r, t, retry, charge)
      PROVE  QueueNext
  <2>1. t \in Tokens
    BY <1>1, <1>5 DEF Retire
  <2> QED
    BY <1>5, <2>1, Zenon DEF QueueNext
<1> QED
  BY <1>2, <1>3, <1>4, <1>5 DEF QueueStep

(* An attempt keeps its result until it reports it.                          *)
LEMMA ResultsKept ==
    ASSUME ShapeInv, QueueOK', ResultsFit, StepKinds
    PROVE  ResultsFit'
<1>1. worker \in [Workers -> Attempt]
  BY DEF ShapeInv, ExecTypeOK
<1>2. ASSUME NEW w \in Workers, worker' = [worker EXCEPT ![w] = worker'[w]],
             worker'[w].pc \in {"unlock", "complete"} => worker'[w].result # "none"
      PROVE  ResultsFit'
  BY <1>1, <1>2 DEF ResultsFit
<1>3. ASSUME UNCHANGED worker
      PROVE  ResultsFit'
  BY <1>3 DEF ResultsFit
<1>4. ASSUME NEW w \in Workers, TurnStep(w)
      PROVE  ResultsFit'
  <2>1. worker[w].pc # "idle"
    BY <1>4 DEF TurnStep, Begin, ReadRecorded, AcquireSession, RefuseBusy,
       AppendAsk, NoteTurn, NoteLost, AppendAnswer, RecordFailure, Unlock,
       TurnAborts, TurnThrows
  <2>2. worker[w].run \in Runs
    BY <2>1 DEF ShapeInv, CallsFit
  <2>3. OnlyTurn(w) /\ TurnEffect(w)
    BY <1>4, <2>2, TurnSteps, RunRowAssumption DEF ShapeInv, ExecTypeOK
  <2>4. worker'[w].pc \in {"unlock", "complete"} => worker'[w].result # "none"
    <3>1. CASE Moves(w) \/ Reads(w) \/ Takes(w) \/ IsRefused(w) \/ Notes(w)
      BY <3>1 DEF Moves, Reads, Takes, IsRefused, Notes
    <3>2. CASE Unlocks(w)
      BY <3>2 DEF Unlocks, Kept, ResultsFit
    <3>3. CASE \E kind \in Kinds : Writes(w, kind)
      BY <3>3 DEF Writes
    <3> QED
      BY <2>3, <3>1, <3>2, <3>3 DEF TurnEffect
  <2> QED
    BY <1>2, <2>3, <2>4 DEF OnlyTurn
<1>5. ASSUME NEW w \in Workers, EndStep(w)
      PROVE  ResultsFit'
  <2>1. worker' = [worker EXCEPT ![w] = Idle] /\ Idle.pc = "idle"
    BY <1>5 DEF EndStep, HandBack, CompleteRun, FailRun, WorkerDies, Idle
  <2> QED
    BY <1>1, <1>2, <2>1
<1>6. ASSUME NEW w \in Workers, NEW r \in Runs, ClaimRun(w, r)
      PROVE  ResultsFit'
  BY <1>1, <1>2, <1>6, ClaimShape DEF ClaimedFor
<1>7. ASSUME NEW w \in Workers, DrainingStep(w) \/ WorkerBeats(w)
      PROVE  UNCHANGED worker
  BY <1>7 DEF DrainingStep, DrainStep, Stop, DrainBeat, DrainUnlock, DrainRelease,
     WorkerBeats, attemptVars
<1>8. ASSUME NEW p \in Reapers, ReapingStep(p)
      PROVE  UNCHANGED worker
  BY <1>8 DEF ReapingStep, ReaperStep, ReaperDies, ReaperFence, ReaperUnlock,
     ReaperRetire, attemptVars
<1>9. ASSUME NEW r \in Runs, OuterStep(r)
      PROVE  UNCHANGED worker
  BY <1>9 DEF OuterStep, EnqueueRun, WithdrawRun, RunLeaseLapses, RetryIsDue,
     attemptVars
<1>10. ASSUME NEW s \in Sessions, SessionLeaseLapses(s)
       PROVE  UNCHANGED worker
  BY <1>10 DEF SessionLeaseLapses, attemptVars
<1> QED
  BY <1>3, <1>4, <1>5, <1>6, <1>7, <1>8, <1>9, <1>10 DEF StepKinds

(* A step of an execution is a step of the queue, or leaves it alone.        *)
LEMMA UseStep ==
    ASSUME UseInv, [ExecNext]_execVars
    PROVE  UseInv' /\ [QueueNext]_queueVars /\ FinishedStays
<1> DEFINE RowsFit == TokensFit /\ OneRunning /\ \A r \in Runs : Tidy(run[r])
<1>1. WriterInv'
  BY WriterStep DEF UseInv
<1>2. ShapeInv /\ QueueOK /\ QueueOK'
  BY <1>1 DEF UseInv, WriterInv, ShapeInv, ExecTypeOK, QueueOK
<1>3. ASSUME UNCHANGED queueVars
      PROVE  RowsFit' /\ [QueueNext]_queueVars /\ FinishedStays
  BY <1>3 DEF UseInv, TokensFit, TokenFits, OneRunning, queueVars, Tidy,
     FinishedStays
<1>4. CASE ExecNext
  <2>1. StepKinds
    BY <1>4, ExecSteps
  <2>2. ResultsFit'
    BY <1>2, <2>1, ResultsKept DEF UseInv
  <2>3. ~Reported("none")
    BY DEF Reported, UseInv, ResultsFit
  <2>4. ASSUME NEW r \in Runs, QueueStep(r)
        PROVE  RowsFit' /\ [QueueNext]_queueVars /\ FinishedStays
    <3>1. QueueEffect(r)
      BY <1>2, <2>4, QueueEffects DEF UseInv, TokensFit
    <3>2. TokensFit'
      BY <3>1 DEF QueueEffect, TokensFit, TokenFits, UseInv
    <3>3. OneRunning'
      BY <3>1 DEF QueueEffect, OneRunning, Siblings, UseInv
    <3>4. (\A s \in Runs : Tidy(run[s]))' /\ FinishedStays
      BY <1>2, <2>4, <3>1, TidyKept DEF QueueEffect, UseInv, FinishedStays, Tidy
    <3>5. QueueNext
      BY <1>2, <2>3, <2>4, QueueAllows DEF UseInv, TokensFit, QueueOK
    <3> QED
      BY <3>2, <3>3, <3>4, <3>5
  <2>5. RowsFit' /\ [QueueNext]_queueVars /\ FinishedStays
    BY <1>2, <1>3, <2>1, <2>4, QueueMoves
  <2> QED
    BY <1>1, <2>2, <2>5 DEF UseInv
<1>5. CASE UNCHANGED execVars
  <2>1. UNCHANGED queueVars /\ UNCHANGED worker
    BY <1>5 DEF execVars, attemptVars
  <2>2. ResultsFit'
    BY <2>1 DEF UseInv, ResultsFit
  <2> QED
    BY <1>1, <1>3, <2>1, <2>2 DEF UseInv
<1> QED
  BY <1>4, <1>5

(* No run is claimed at the start.                                           *)
LEMMA UseStart == ExecInit => UseInv
<1> SUFFICES ASSUME ExecInit PROVE UseInv
  OBVIOUS
<1>1. WriterInv
  BY WriterStart
<1>2. /\ NewRow.status # "running" /\ NewRow.lease = "none"
      /\ Idle.pc = "idle" /\ 0 <= MaxTokens
  BY RunRowAssumption DEF NewRow, Idle
<1>3. TokensFit /\ OneRunning /\ \A r \in Runs : Tidy(run[r])
  BY <1>2 DEF ExecInit, QueueInit, TokensFit, TokenFits, OneRunning, Siblings, Tidy
<1>4. ResultsFit
  BY <1>2 DEF ExecInit, ResultsFit
<1> QED
  BY <1>1, <1>3, <1>4 DEF UseInv

(* The inductive invariant of the queue's use holds under all faults.        *)
THEOREM UseInvariant == ExecSpec => []UseInv
  BY UseStart, UseStep, PTL DEF ExecSpec

(* The attempts, reapers and drains use the queue through its interface: an  *)
(* execution, seen at the runs table, is a behaviour of the queue that       *)
(* StoreImplementsQueue shows the PostgreSQL store to implement.  In         *)
(* particular complete() never reports an empty result, and no call acts     *)
(* under a token that was not issued for its run.                            *)
THEOREM ExecUsesQueue == ExecSpec => QueueSpec
<1>1. ExecInit => QueueInit
  BY DEF ExecInit
<1>2. UseInv /\ [ExecNext]_execVars => [QueueNext]_queueVars
  BY UseStep
<1> QED
  BY <1>1, <1>2, UseInvariant, PTL DEF ExecSpec, QueueSpec

(* One attempt of a session runs at a time, under all faults: a sibling is   *)
(* claimed only when no row of the session is running, so a run that was     *)
(* reaped, drained or abandoned does not run beside its successor.           *)
THEOREM OneRunningAlways == ExecSpec => []OneRunning
<1>1. UseInv => OneRunning
  BY DEF UseInv
<1> QED
  BY <1>1, UseInvariant, PTL

(* What a client was told stands, under all faults: an attempt that goes on  *)
(* after its run was reaped, handed back or withdrawn changes nothing of a   *)
(* run that meanwhile finished.                                              *)
THEOREM FinishedStaysFinished == ExecSpec => [][FinishedStays]_execVars
<1>1. UseInv /\ [ExecNext]_execVars => FinishedStays
  BY UseStep
<1> QED
  BY <1>1, UseInvariant, PTL DEF ExecSpec

-----------------------------------------------------------------------------
(* The kinds of steps, with what each does to the row of its run.            *)
OnlyRow(r) == run' = [run EXCEPT ![r] = run'[r]]

Continues(w) ==
    /\ worker[w].pc # "idle" /\ OnlyTurn(w) /\ TurnEffect(w)

Finishes(w) ==
    LET a == worker[w]
        row == run[a.run]
        x == run'[a.run]
    IN  /\ a.pc \in {"complete", "fail"} /\ OnlyRow(a.run)
        /\ x.status \in {"pending", "done", "failed"} /\ x.attempts = row.attempts
        /\ \/ x.result = row.result \/ x.result = "error"
           \/ a.pc = "complete" /\ x.result = a.result
        /\ worker' = [worker EXCEPT ![w] = Idle]
        /\ UNCHANGED <<stopped, drain, reaperVars, sessionVars>>

Perishes(w) ==
    /\ worker[w].pc # "idle"
    /\ worker' = [worker EXCEPT ![w] = Idle]
    /\ UNCHANGED <<queueVars, stopped, drain, reaperVars, sessionVars>>

Claims(w, r) ==
    LET row == run[r] x == run'[r] IN
    /\ worker[w].pc = "idle" /\ InOrder(r) /\ row.status = "pending"
    /\ \A s \in Siblings(r) : run[s].status # "running"
    /\ OnlyRow(r) /\ x.status = "running" /\ x.lease = "live"
    /\ x.attempts = row.attempts + 1 /\ x.result = row.result
    /\ ClaimedFor(w, r)
    /\ UNCHANGED <<stopped, drain, reaperVars, sessionVars>>

Fences(p, r) ==
    LET row == run[r] x == run'[r] IN
    /\ reaper[p].pc = "idle" /\ row.status = "running" /\ row.lease = "lapsed"
    /\ OnlyRow(r) /\ x.status = "running" /\ x.lease = "live" /\ Same(row, x)
    /\ reaper' = [reaper EXCEPT ![p] = [pc |-> "fenced", run |-> r, token |-> x.token]]
    /\ UNCHANGED <<deaths, attemptVars, sessionVars>>

Retires(p) ==
    LET r == reaper[p].run
        row == run[r]
        x == run'[r]
    IN  /\ reaper[p].pc = "unlocked" /\ OnlyRow(r)
        /\ x.status \in {"pending", "failed"} /\ x.attempts = row.attempts
        /\ x.result = row.result \/ x.result = "error"
        /\ reaper' = [reaper EXCEPT ![p] = NoReap]
        /\ UNCHANGED <<deaths, attemptVars, sessionVars>>

Outside(r) ==
    LET row == run[r] x == run'[r] IN
    /\ OnlyRow(r) /\ Same(row, x)
    /\ \/ row.status = "unborn" /\ x.status = "pending"
       \/ row.status = "pending" /\ x.status = "withdrawn"
       \/ ~RunAttended(r) /\ x.status = row.status /\ x.token = row.token
       \/ x = row
    /\ UNCHANGED <<attemptVars, reaperVars, sessionVars>>

CalmKinds ==
    \/ \E w \in Workers : Continues(w) \/ Finishes(w) \/ Perishes(w)
    \/ \E w \in Workers, r \in Runs : Claims(w, r)
    \/ \E p \in Reapers : ReaperUnlock(p) \/ Retires(p) \/ ReaperDies(p)
    \/ \E p \in Reapers, r \in Runs : Fences(p, r)
    \/ \E r \in Runs : Outside(r)
    \/ \E s \in Sessions : SessionLeaseLapses(s)

(* An update of one row.                                                     *)
LEMMA RowSet ==
    ASSUME run \in [Runs -> Row], NEW r \in Runs, NEW x,
           run' = [run EXCEPT ![r] = x]
    PROVE  run'[r] = x /\ OnlyRow(r)
  BY DEF OnlyRow

(* A retired run waits for its retry or is parked.                           *)
LEMMA RetireFacts ==
    ASSUME QueueOK, NEW r \in Runs, NEW t \in Nat,
           NEW retry \in {"no", "now", "later"}, NEW charge \in {0, 1},
           Retire(r, t, retry, charge)
    PROVE  /\ OnlyRow(r) /\ run'[r].status \in {"pending", "failed"}
           /\ run'[r].attempts = run[r].attempts
           /\ run'[r].result = run[r].result \/ run'[r].result = "error"
<1>1. run[r] \in Row
  BY DEF QueueOK
<1>2. CASE run' = [run EXCEPT ![r] = Requeued(run[r], charge)]
  <2>1. run'[r] = Requeued(run[r], charge) /\ OnlyRow(r)
    BY <1>2, RowSet DEF QueueOK
  <2> QED
    BY <1>1, <2>1, RowFacts DEF Same
<1>3. CASE run' = [run EXCEPT ![r] = Parked(run[r], charge)]
  <2>1. run'[r] = Parked(run[r], charge) /\ OnlyRow(r)
    BY <1>3, RowSet DEF QueueOK
  <2> QED
    BY <1>1, <2>1, RowFacts DEF Same
<1> QED
  BY <1>2, <1>3 DEF Retire

(* In a calm environment every step is of one of these kinds: whoever takes  *)
(* part in a step still owns its run.                                        *)
LEMMA CalmSteps ==
    ASSUME ShapeInv, NobodyDrains, WorkersOwn, ReapersOwn, Calm, StepKinds
    PROVE  CalmKinds
<1> USE DEF ShapeInv, ExecTypeOK, CallsFit
<1>0. QueueOK /\ \A r \in Runs : run[r] \in Row /\ issued[r] + 1 \in Nat
  BY DEF QueueOK
<1>1. ASSUME NEW w \in Workers, TurnStep(w)
      PROVE  Continues(w)
  <2>1. worker[w].pc # "idle"
    BY <1>1 DEF TurnStep, Begin, ReadRecorded, AcquireSession, RefuseBusy,
       AppendAsk, NoteTurn, NoteLost, AppendAnswer, RecordFailure, Unlock,
       TurnAborts, TurnThrows
  <2> QED
    BY <1>1, <2>1, TurnSteps, RunRowAssumption DEF Continues
<1>2. ASSUME NEW w \in Workers, EndStep(w)
      PROVE  Finishes(w) \/ Perishes(w)
  <2>1. worker[w] \in Attempt
    OBVIOUS
  <2>2. /\ worker[w].token \in Nat /\ worker[w].retry \in {"no", "now", "later"}
        /\ worker[w].result \in {"none", "answer", "session_busy"}
    BY <2>1 DEF Attempt
  <2>3. ~HandBack(w)
    BY DEF HandBack, NobodyDrains
  <2>4. CASE CompleteRun(w)
    <3>1. worker[w].pc = "complete" /\ worker[w].run \in Runs
      BY <2>4 DEF CompleteRun
    <3>2. Owns(worker[w].run, worker[w].token)
      BY <3>1 DEF WorkersOwn, OwnsRun, Owns
    <3> DEFINE x == Completed(run[worker[w].run], worker[w].result)
    <3>3. run' = [run EXCEPT ![worker[w].run] = x]
      BY <2>4, <3>2 DEF CompleteRun, Complete
    <3>4. run'[worker[w].run] = x /\ OnlyRow(worker[w].run)
      <4> HIDE DEF x
      <4> QED
        BY <3>1, <3>3 DEF OnlyRow
    <3>5. /\ run'[worker[w].run].status = "done"
          /\ run'[worker[w].run].attempts = run[worker[w].run].attempts
          /\ run'[worker[w].run].result = worker[w].result
      BY <1>0, <2>2, <3>1, <3>4, RowFacts DEF Same
    <3> QED
      BY <2>4, <3>1, <3>4, <3>5 DEF CompleteRun, Finishes
  <2>5. CASE FailRun(w)
    <3>1. worker[w].pc = "fail" /\ worker[w].run \in Runs /\ 1 \in {0, 1}
      BY <2>5 DEF FailRun
    <3>2. Owns(worker[w].run, worker[w].token)
      BY <3>1 DEF WorkersOwn, OwnsRun, Owns
    <3>3. Retire(worker[w].run, worker[w].token, worker[w].retry, 1)
      BY <2>5, <3>2 DEF FailRun
    <3>4. /\ OnlyRow(worker[w].run)
          /\ run'[worker[w].run].status \in {"pending", "failed"}
          /\ run'[worker[w].run].attempts = run[worker[w].run].attempts
          /\ \/ run'[worker[w].run].result = run[worker[w].run].result
             \/ run'[worker[w].run].result = "error"
      BY <1>0, <2>2, <3>1, <3>3, RetireFacts
    <3> QED
      BY <2>5, <3>1, <3>4 DEF FailRun, Finishes
  <2>6. CASE WorkerDies(w)
    <3>1. w \notin stopped /\ stopped = {} /\ drain[w] = NoDrain
      BY DEF NobodyDrains
    <3>2. drain' = drain /\ stopped' = stopped
      BY <2>6, <3>1 DEF WorkerDies
    <3> QED
      BY <2>6, <3>1, <3>2 DEF WorkerDies, Perishes
  <2> QED
    BY <1>2, <2>3, <2>4, <2>5, <2>6 DEF EndStep
<1>3. ASSUME NEW w \in Workers
      PROVE  ~DrainingStep(w)
  BY DEF DrainingStep, DrainStep, Stop, DrainBeat, DrainUnlock, DrainRelease,
     NobodyDrains, NoDrain, Calm
<1>4. ASSUME NEW w \in Workers
      PROVE  ~WorkerBeats(w)
  BY DEF WorkerBeats, InFlight, WorkersOwn, OwnsRun
<1>5. ASSUME NEW w \in Workers, NEW r \in Runs, ClaimRun(w, r), QueueOK'
      PROVE  Claims(w, r)
  <2>1. run' = [run EXCEPT ![r] = Leased(run[r], issued[r] + 1)]
    BY <1>5 DEF ClaimRun, Claim
  <2>2. run'[r] = Leased(run[r], issued[r] + 1) /\ OnlyRow(r)
    BY <2>1, RowSet
  <2>3. ClaimedFor(w, r)
    BY <1>5, ClaimShape
  <2>4. /\ run'[r].status = "running" /\ run'[r].lease = "live"
        /\ run'[r].attempts = run[r].attempts + 1 /\ run'[r].result = run[r].result
    BY <1>0, <2>2, RowFacts DEF Same
  <2> QED
    BY <1>5, <2>2, <2>3, <2>4 DEF ClaimRun, Claim, Claims
<1>6. ASSUME NEW p \in Reapers, ReapingStep(p)
      PROVE  \/ ReaperUnlock(p) \/ Retires(p) \/ ReaperDies(p)
             \/ \E r \in Runs : Fences(p, r)
  <2>1. ASSUME NEW r \in Runs, ReaperFence(p, r)
        PROVE  Fences(p, r)
    <3>1. run' = [run EXCEPT ![r] = [run[r] EXCEPT !.token = issued[r] + 1,
                                                   !.lease = "live"]]
      BY <2>1 DEF ReaperFence, Fence
    <3>2. /\ run'[r] = [run[r] EXCEPT !.token = issued[r] + 1, !.lease = "live"]
          /\ OnlyRow(r)
      BY <3>1, RowSet
    <3>3. run'[r].status = run[r].status /\ run'[r].lease = "live" /\ Same(run[r], run'[r])
      BY <1>0, <3>2, RowFacts DEF Same
    <3> QED
      BY <2>1, <3>2, <3>3 DEF ReaperFence, Fence, Fences
  <2>2. ASSUME NEW retry \in {"now", "no"}, ReaperRetire(p, retry)
        PROVE  Retires(p)
    <3>1. /\ reaper[p].pc = "unlocked" /\ reaper[p].run \in Runs
          /\ reaper[p].token \in Nat /\ 0 \in {0, 1}
          /\ retry \in {"no", "now", "later"}
      BY <2>2 DEF ReaperRetire
    <3>2. Owns(reaper[p].run, reaper[p].token)
      BY <3>1 DEF ReapersOwn, OwnsRun, Owns
    <3>3. Retire(reaper[p].run, reaper[p].token, retry, 0)
      BY <2>2, <3>2 DEF ReaperRetire
    <3>4. /\ OnlyRow(reaper[p].run)
          /\ run'[reaper[p].run].status \in {"pending", "failed"}
          /\ run'[reaper[p].run].attempts = run[reaper[p].run].attempts
          /\ \/ run'[reaper[p].run].result = run[reaper[p].run].result
             \/ run'[reaper[p].run].result = "error"
      BY <1>0, <3>1, <3>3, RetireFacts
    <3> QED
      BY <2>2, <3>1, <3>4 DEF ReaperRetire, Retires
  <2> QED
    BY <1>6, <2>1, <2>2 DEF ReapingStep, ReaperStep
<1>7. ASSUME NEW r \in Runs, OuterStep(r)
      PROVE  Outside(r)
  <2>1. CASE EnqueueRun(r)
    <3>1. run' = [run EXCEPT ![r] = [run[r] EXCEPT !.status = "pending",
                                                   !.key = DedupKeyOf[r]]]
      BY <2>1 DEF EnqueueRun, Enqueue
    <3>2. /\ run'[r] = [run[r] EXCEPT !.status = "pending", !.key = DedupKeyOf[r]]
          /\ OnlyRow(r)
      BY <3>1, RowSet
    <3>3. run'[r].status = "pending" /\ Same(run[r], run'[r])
      BY <1>0, <3>2, RowFacts, RunRowAssumption DEF Same
    <3> QED
      BY <2>1, <3>2, <3>3 DEF EnqueueRun, Enqueue, Outside
  <2>2. CASE WithdrawRun(r)
    <3>1. run' = [run EXCEPT ![r] = [run[r] EXCEPT !.status = "withdrawn",
                                                   !.key = NoKey]]
      BY <2>2 DEF WithdrawRun, Withdraw
    <3>2. /\ run'[r] = [run[r] EXCEPT !.status = "withdrawn", !.key = NoKey]
          /\ OnlyRow(r)
      BY <3>1, RowSet
    <3>3. run'[r].status = "withdrawn" /\ Same(run[r], run'[r])
      BY <1>0, <3>2, RowFacts DEF Same
    <3> QED
      BY <2>2, <3>2, <3>3 DEF WithdrawRun, Withdraw, Outside
  <2>3. CASE RunLeaseLapses(r)
    <3>1. run' = [run EXCEPT ![r] = [run[r] EXCEPT !.lease = "lapsed"]]
      BY <2>3 DEF RunLeaseLapses, LeaseLapses
    <3>2. run'[r] = [run[r] EXCEPT !.lease = "lapsed"] /\ OnlyRow(r)
      BY <3>1, RowSet
    <3>3. /\ run'[r].status = run[r].status /\ run'[r].token = run[r].token
          /\ Same(run[r], run'[r])
      BY <1>0, <3>2, RowFacts DEF Same
    <3> QED
      BY <2>3, <3>2, <3>3 DEF RunLeaseLapses, Outside, Calm
  <2>4. CASE RetryIsDue(r)
    <3>1. run' = run
      BY <2>4 DEF RetryIsDue, BackoffEnds
    <3> QED
      BY <2>4, <3>1 DEF RetryIsDue, Outside, OnlyRow, Same
  <2> QED
    BY <1>7, <2>1, <2>2, <2>3, <2>4 DEF OuterStep
<1>8. QueueOK'
  <2>1. CASE UNCHANGED queueVars
    BY <1>0, <2>1 DEF QueueOK, queueVars
  <2>2. CASE \E r \in Runs : QueueStep(r)
    BY <1>0, <2>2, QueueKeeps
  <2> QED
    BY <2>1, <2>2, QueueMoves
<1> QED
  BY <1>1, <1>2, <1>3, <1>4, <1>5, <1>6, <1>7, <1>8 DEF StepKinds, CalmKinds

(* How a step of an attempt treats the session's lease.                      *)
LEMMA TurnLease ==
    ASSUME NEW w \in Workers, TurnEffect(w)
    PROVE  /\ worker'[w].pc # "idle"
           /\ \/ /\ UNCHANGED lease
                 /\ worker[w].pc \in Writing =>
                      worker'[w].pc \in Writing /\ worker'[w].lease = worker[w].lease
              \/ Takes(w)
              \/ Unlocks(w)
<1> USE DEF Writing
<1>1. CASE Moves(w)
  BY <1>1 DEF Moves, Kept, sessionVars
<1>2. CASE Reads(w) \/ IsRefused(w) \/ Takes(w) \/ Unlocks(w)
  BY <1>2 DEF Reads, IsRefused, Takes, Unlocks, sessionVars
<1>3. CASE Notes(w)
  BY <1>3 DEF Notes, Kept
<1>4. CASE \E kind \in Kinds : Writes(w, kind)
  BY <1>4 DEF Writes
<1> QED
  BY <1>1, <1>2, <1>3, <1>4 DEF TurnEffect

(* Nobody is at a run that is not running or whose lease has lapsed.         *)
LEMMA NobodyAt ==
    ASSUME ShapeInv, WorkersOwn, ReapersOwn, NEW r \in Runs,
           run[r].status # "running" \/ run[r].lease # "live"
    PROVE  /\ \A w \in Workers : worker[w].run # r
           /\ \A p \in Reapers : reaper[p].run # r
  BY RunExecutionAssumption DEF WorkersOwn, ReapersOwn, OwnsRun

OwnersInv == NobodyDrains /\ OneRunning /\ WorkersOwn /\ ReapersOwn

(* In a calm environment whoever is alive keeps its run.                     *)
LEMMA OwnersKept ==
    ASSUME ShapeInv, OwnersInv, CalmKinds
    PROVE  OwnersInv'
<1> USE RunExecutionAssumption
<1>0. /\ Idle.run = 0 /\ Idle.pc = "idle" /\ NoReap.run = 0 /\ NoReap.pc = "idle"
      /\ 0 \notin Runs
  BY DEF Idle, NoReap
<1>1. /\ worker \in [Workers -> Attempt] /\ run \in [Runs -> Row]
      /\ DOMAIN reaper = Reapers
      /\ \A w \in Workers : worker[w].pc # "idle" => worker[w].run \in Runs
      /\ \A p \in Reapers : reaper[p].pc # "idle" => reaper[p].run \in Runs
  BY DEF ShapeInv, ExecTypeOK, CallsFit
<1>2. ASSUME NEW w \in Workers, Continues(w)
      PROVE  OwnersInv'
  <2>1. /\ worker' = [worker EXCEPT ![w] = worker'[w]]
        /\ worker'[w].run = worker[w].run /\ worker'[w].token = worker[w].token
        /\ worker'[w].pc # "idle" /\ worker[w].pc # "idle"
        /\ UNCHANGED <<run, stopped, drain, reaper>>
    BY <1>2, TurnLease DEF Continues, OnlyTurn, SameRun, queueVars, reaperVars
  <2>2. \A x \in Workers : /\ worker'[x].run = worker[x].run
                           /\ worker'[x].token = worker[x].token
                           /\ worker'[x].pc = "idle" <=> worker[x].pc = "idle"
    BY <1>1, <2>1
  <2> QED
    BY <2>1, <2>2 DEF OwnersInv, NobodyDrains, OneRunning, WorkersOwn, ReapersOwn,
       OwnsRun
<1>3. ASSUME NEW w \in Workers, Finishes(w)
      PROVE  OwnersInv'
  <2> DEFINE r == worker[w].run
  <2>1. /\ worker' = [worker EXCEPT ![w] = Idle] /\ r \in Runs
        /\ UNCHANGED <<stopped, drain, reaper>>
        /\ run'[r].status # "running" /\ \A s \in Runs \ {r} : run'[s] = run[s]
    BY <1>1, <1>3 DEF Finishes, OnlyRow, reaperVars
  <2>2. /\ \A x \in Workers \ {w} : worker'[x] = worker[x] /\ worker[x].run # r
        /\ \A p \in Reapers : reaper[p].run # r
        /\ worker'[w] = Idle
    BY <1>0, <1>1, <2>1 DEF OwnersInv, WorkersOwn, ReapersOwn
  <2> HIDE DEF r
  <2>3. NobodyDrains' /\ OneRunning'
    BY <2>1 DEF OwnersInv, NobodyDrains, OneRunning, Siblings
  <2>4. WorkersOwn'
    BY <1>0, <1>1, <2>1, <2>2 DEF OwnersInv, WorkersOwn, OwnsRun
  <2>5. ReapersOwn'
    BY <1>0, <1>1, <2>1, <2>2 DEF OwnersInv, ReapersOwn, OwnsRun
  <2> QED
    BY <2>3, <2>4, <2>5 DEF OwnersInv
<1>4. ASSUME NEW w \in Workers, Perishes(w)
      PROVE  OwnersInv'
  <2>1. /\ worker'[w] = Idle /\ \A x \in Workers \ {w} : worker'[x] = worker[x]
        /\ UNCHANGED <<run, stopped, drain, reaper>>
    BY <1>1, <1>4 DEF Perishes, queueVars, reaperVars
  <2> QED
    BY <1>0, <2>1 DEF OwnersInv, NobodyDrains, OneRunning, WorkersOwn, ReapersOwn,
       OwnsRun
<1>5. ASSUME NEW w \in Workers, NEW r \in Runs, Claims(w, r)
      PROVE  OwnersInv'
  <2>1. /\ worker'[w].pc = "claimed" /\ worker'[w].run = r
        /\ worker'[w].token = run'[r].token
        /\ \A x \in Workers \ {w} : worker'[x] = worker[x]
        /\ UNCHANGED <<stopped, drain, reaper>>
        /\ run'[r].status = "running" /\ run'[r].lease = "live"
        /\ \A s \in Runs \ {r} : run'[s] = run[s]
        /\ \A s \in Siblings(r) : run[s].status # "running"
        /\ run[r].status = "pending"
    BY <1>1, <1>5 DEF Claims, ClaimedFor, OnlyRow, reaperVars
  <2>2. /\ \A x \in Workers : worker[x].run # r
        /\ \A p \in Reapers : reaper[p].run # r
    BY <2>1, NobodyAt DEF OwnersInv
  <2>3. NobodyDrains' /\ OneRunning'
    BY <2>1 DEF OwnersInv, NobodyDrains, OneRunning, Siblings
  <2>4. WorkersOwn'
    BY <1>0, <1>1, <2>1, <2>2 DEF OwnersInv, WorkersOwn, OwnsRun
  <2>5. ReapersOwn'
    BY <1>0, <1>1, <2>1, <2>2 DEF OwnersInv, ReapersOwn, OwnsRun
  <2> QED
    BY <2>3, <2>4, <2>5 DEF OwnersInv
<1>6. ASSUME NEW p \in Reapers, ReaperUnlock(p)
      PROVE  OwnersInv'
  <2>1. /\ UNCHANGED <<run, worker, stopped, drain>>
        /\ \A q \in Reapers : /\ reaper'[q].run = reaper[q].run
                              /\ reaper'[q].token = reaper[q].token
                              /\ reaper'[q].pc = "idle" <=> reaper[q].pc = "idle"
    BY <1>6 DEF ReaperUnlock, queueVars, attemptVars, ShapeInv, ExecTypeOK
  <2> QED
    BY <2>1 DEF OwnersInv, NobodyDrains, OneRunning, WorkersOwn, ReapersOwn, OwnsRun
<1>7. ASSUME NEW p \in Reapers, Retires(p)
      PROVE  OwnersInv'
  <2> DEFINE r == reaper[p].run
  <2>1. /\ reaper'[p] = NoReap /\ r \in Runs
        /\ \A q \in Reapers \ {p} : reaper'[q] = reaper[q]
        /\ UNCHANGED <<worker, stopped, drain>>
        /\ run'[r].status # "running" /\ \A s \in Runs \ {r} : run'[s] = run[s]
    BY <1>1, <1>7 DEF Retires, OnlyRow, attemptVars
  <2>2. /\ \A x \in Workers : worker[x].run # r
        /\ \A q \in Reapers \ {p} : reaper[q].run # r
    BY <1>0, <2>1 DEF OwnersInv, ReapersOwn
  <2> HIDE DEF r
  <2>3. NobodyDrains' /\ OneRunning'
    BY <2>1 DEF OwnersInv, NobodyDrains, OneRunning, Siblings
  <2>4. WorkersOwn'
    BY <1>0, <1>1, <2>1, <2>2 DEF OwnersInv, WorkersOwn, OwnsRun
  <2>5. ReapersOwn'
    BY <1>0, <1>1, <2>1, <2>2 DEF OwnersInv, ReapersOwn, OwnsRun
  <2> QED
    BY <2>3, <2>4, <2>5 DEF OwnersInv
<1>8. ASSUME NEW p \in Reapers, ReaperDies(p)
      PROVE  OwnersInv'
  <2>1. /\ reaper'[p] = NoReap /\ \A q \in Reapers \ {p} : reaper'[q] = reaper[q]
        /\ UNCHANGED <<run, worker, stopped, drain>>
    BY <1>1, <1>8 DEF ReaperDies, queueVars, attemptVars
  <2> QED
    BY <1>0, <2>1 DEF OwnersInv, NobodyDrains, OneRunning, WorkersOwn, ReapersOwn,
       OwnsRun
<1>9. ASSUME NEW p \in Reapers, NEW r \in Runs, Fences(p, r)
      PROVE  OwnersInv'
  <2>1. /\ reaper'[p].pc = "fenced" /\ reaper'[p].run = r
        /\ reaper'[p].token = run'[r].token
        /\ \A q \in Reapers \ {p} : reaper'[q] = reaper[q]
        /\ UNCHANGED <<worker, stopped, drain>>
        /\ run'[r].status = run[r].status /\ run'[r].status = "running"
        /\ run'[r].lease = "live" /\ run[r].lease = "lapsed"
        /\ \A s \in Runs \ {r} : run'[s] = run[s]
    BY <1>1, <1>9 DEF Fences, OnlyRow, attemptVars
  <2>2. /\ \A x \in Workers : worker[x].run # r
        /\ \A q \in Reapers : reaper[q].run # r
    BY <2>1, NobodyAt DEF OwnersInv
  <2>3. NobodyDrains' /\ OneRunning'
    <3>1. \A s \in Runs : run'[s].status = run[s].status
      BY <2>1
    <3> QED
      BY <2>1, <3>1 DEF OwnersInv, NobodyDrains, OneRunning, Siblings
  <2>4. WorkersOwn'
    BY <1>0, <1>1, <2>1, <2>2 DEF OwnersInv, WorkersOwn, OwnsRun
  <2>5. ReapersOwn'
    BY <1>0, <1>1, <2>1, <2>2 DEF OwnersInv, ReapersOwn, OwnsRun
  <2> QED
    BY <2>3, <2>4, <2>5 DEF OwnersInv
<1>10. ASSUME NEW r \in Runs, Outside(r)
       PROVE  OwnersInv'
  <2>1. /\ UNCHANGED <<worker, stopped, drain, reaper>>
        /\ \A s \in Runs \ {r} : run'[s] = run[s]
        /\ run'[r].status = "running" => run[r].status = "running"
    BY <1>1, <1>10 DEF Outside, OnlyRow, attemptVars, reaperVars
  <2>2. run'[r] = run[r] \/ /\ \A x \in Workers : worker[x].run # r
                            /\ \A p \in Reapers : reaper[p].run # r
    <3>1. CASE run[r].status # "running"
      BY <3>1, NobodyAt DEF OwnersInv
    <3>2. CASE ~RunAttended(r)
      BY <1>0, <3>2 DEF RunAttended, OwnersInv, WorkersOwn, ReapersOwn, OwnsRun
    <3> QED
      BY <1>10, <3>1, <3>2 DEF Outside
  <2>3. NobodyDrains' /\ OneRunning'
    BY <2>1 DEF OwnersInv, NobodyDrains, OneRunning, Siblings
  <2>4. WorkersOwn'
    BY <1>0, <1>1, <2>1, <2>2 DEF OwnersInv, WorkersOwn, OwnsRun
  <2>5. ReapersOwn'
    BY <1>0, <1>1, <2>1, <2>2 DEF OwnersInv, ReapersOwn, OwnsRun
  <2> QED
    BY <2>3, <2>4, <2>5 DEF OwnersInv
<1>11. ASSUME NEW s \in Sessions, SessionLeaseLapses(s)
       PROVE  OwnersInv'
  BY <1>11 DEF SessionLeaseLapses, queueVars, attemptVars, reaperVars, OwnersInv,
     NobodyDrains, OneRunning, WorkersOwn, ReapersOwn, OwnsRun
<1> QED
  BY <1>2, <1>3, <1>4, <1>5, <1>6, <1>7, <1>8, <1>9, <1>10, <1>11 DEF CalmKinds

(* The running run of a session is the one that holds its lease.             *)
LEMMA Holder ==
    ASSUME OneRunning, NEW s \in Sessions, NEW r \in Runs, NEW q \in Runs,
           HeldBy(s, q), SessionOf[r] = s, run[r].status = "running"
    PROVE  q = r
  BY DEF HeldBy, OneRunning, Siblings

(* A session's lease stays with the attempt that writes, or with its run     *)
(* until the reaper has freed the session.                                   *)
LEMMA LeasesKept ==
    ASSUME ShapeInv, OwnersInv, \A s \in Sessions : LeaseHeld(s), CalmKinds,
           NEW t \in Sessions
    PROVE  LeaseHeld(t)'
<1>0. Idle.run = 0 /\ NoReap.run = 0 /\ 0 \notin Runs /\ FreeLease.state # "live"
  BY RunExecutionAssumption DEF Idle, NoReap, FreeLease
<1>1. /\ worker \in [Workers -> Attempt] /\ run \in [Runs -> Row]
      /\ DOMAIN reaper = Reapers /\ DOMAIN lease = Sessions
      /\ \A w \in Workers : worker[w].pc # "idle" => worker[w].run \in Runs
      /\ \A p \in Reapers : reaper[p].pc # "idle" => reaper[p].run \in Runs
      /\ \A r \in Runs : SessionOf[r] \in Sessions
  BY RunRowAssumption DEF ShapeInv, ExecTypeOK, CallsFit
<1>2. OneRunning /\ WorkersOwn /\ ReapersOwn
  BY DEF OwnersInv
<1> SUFFICES ASSUME lease'[t].state = "live"
             PROVE  \E r \in Runs : HeldBy(t, r)'
  BY DEF LeaseHeld
<1>3. ASSUME NEW w \in Workers, Continues(w)
      PROVE  \E r \in Runs : HeldBy(t, r)'
  <2> DEFINE r == worker[w].run
  <2>1. /\ worker' = [worker EXCEPT ![w] = worker'[w]]
        /\ worker'[w].run = r /\ r \in Runs
        /\ UNCHANGED <<run, reaper>>
        /\ \A x \in Workers \ {w} : worker'[x] = worker[x]
        /\ \A x \in Workers : worker'[x].run = worker[x].run
    BY <1>1, <1>3 DEF Continues, OnlyTurn, SameRun, queueVars, reaperVars
  <2>2. run[r].status = "running" /\ Session(w) = SessionOf[r]
    BY <1>2, <1>3 DEF Continues, WorkersOwn, OwnsRun, Session
  <2>3. ASSUME lease'[t] = lease[t],
               worker[w].pc \in Writing /\ SessionOf[r] = t =>
                 worker'[w].pc \in Writing /\ worker'[w].lease = worker[w].lease
        PROVE  \E q \in Runs : HeldBy(t, q)'
    <3>1. PICK q \in Runs : HeldBy(t, q)
      BY <2>3 DEF LeaseHeld
    <3> HIDE DEF r
    <3>2. CASE \E x \in Workers : /\ worker[x].run = q /\ worker[x].pc \in Writing
                                  /\ worker[x].lease = lease[t].token
      <4>1. PICK x \in Workers : /\ worker[x].run = q /\ worker[x].pc \in Writing
                                 /\ worker[x].lease = lease[t].token
        BY <3>2
      <4>2. x = w => q = r
        BY <4>1 DEF r
      <4>3. worker'[x].pc \in Writing /\ worker'[x].lease = worker[x].lease
        BY <2>1, <2>3, <3>1, <4>1, <4>2 DEF HeldBy
      <4>4. HeldBy(t, q)'
        BY <2>1, <2>3, <3>1, <4>1, <4>3 DEF HeldBy
      <4> QED
        BY <4>4
    <3>3. CASE ~ \E x \in Workers : /\ worker[x].run = q /\ worker[x].pc \in Writing
                                    /\ worker[x].lease = lease[t].token
      <4>1. HeldBy(t, q)'
        BY <2>1, <3>1, <3>3 DEF HeldBy
      <4> QED
        BY <4>1
    <3> QED
      BY <3>2, <3>3
  <2>4. CASE /\ UNCHANGED lease
             /\ worker[w].pc \in Writing =>
                  worker'[w].pc \in Writing /\ worker'[w].lease = worker[w].lease
    BY <2>3, <2>4
  <2>5. CASE Takes(w)
    <3>1. CASE t = Session(w)
      <4>1. lease'[t].token = worker'[w].lease /\ worker'[w].pc \in Writing
        BY <1>1, <2>5, <3>1 DEF Takes, Writing
      <4>2. HeldBy(t, r)'
        BY <2>1, <2>2, <3>1, <4>1 DEF HeldBy
      <4> QED
        BY <2>1, <4>2
    <3>2. CASE t # Session(w)
      BY <1>1, <2>2, <2>3, <2>5, <3>2 DEF Takes
    <3> QED
      BY <3>1, <3>2
  <2>6. CASE Unlocks(w)
    <3>1. CASE t = Session(w)
      <4>1. lease[t].token # worker[w].lease /\ lease' = lease
        BY <1>0, <1>1, <2>6, <3>1 DEF Unlocks, LeaseAfterRelease
      <4>2. PICK q \in Runs : HeldBy(t, q)
        BY <4>1 DEF LeaseHeld
      <4>3. q = r
        BY <1>2, <2>1, <2>2, <3>1, <4>2, Holder
      <4>4. \A x \in Workers : worker[x].run = r => x = w
        BY <1>0, <1>2, <2>1 DEF WorkersOwn
      <4> QED
        BY <4>1, <4>2, <4>3, <4>4 DEF HeldBy
    <3>2. CASE t # Session(w)
      <4>1. lease'[t] = lease[t]
        BY <1>1, <2>6, <3>2 DEF Unlocks, LeaseAfterRelease
      <4> QED
        BY <2>2, <2>3, <3>2, <4>1
    <3> QED
      BY <3>1, <3>2
  <2> QED
    BY <1>3, <2>4, <2>5, <2>6, TurnLease DEF Continues
<1>4. ASSUME NEW r \in Runs, NEW q \in Runs, HeldBy(t, q), q # r,
             lease'[t] = lease[t],
             \A s \in Runs \ {r} : run'[s].status = run[s].status,
             \A w \in Workers : worker[w].run = q \/ worker'[w].run = q =>
                 worker'[w] = worker[w],
             \A p \in Reapers : reaper'[p].run = q => reaper'[p] = reaper[p]
      PROVE  \E x \in Runs : HeldBy(t, x)'
  <2>1. run'[q].status = "running" /\ SessionOf[q] = t
    BY <1>4 DEF HeldBy
  <2>2. CASE \E x \in Workers : /\ worker[x].run = q /\ worker[x].pc \in Writing
                                /\ worker[x].lease = lease[t].token
    <3>1. HeldBy(t, q)'
      BY <1>4, <2>1, <2>2 DEF HeldBy
    <3> QED
      BY <3>1
  <2>3. CASE ~ \E x \in Workers : /\ worker[x].run = q /\ worker[x].pc \in Writing
                                  /\ worker[x].lease = lease[t].token
    <3>1. HeldBy(t, q)'
      BY <1>4, <2>1, <2>3 DEF HeldBy
    <3> QED
      BY <3>1
  <2> QED
    BY <2>2, <2>3
<1>5. ASSUME NEW w \in Workers, Finishes(w)
      PROVE  \E r \in Runs : HeldBy(t, r)'
  <2> DEFINE r == worker[w].run
  <2>1. /\ worker' = [worker EXCEPT ![w] = Idle] /\ r \in Runs
        /\ UNCHANGED <<reaper, lease>> /\ worker[w].pc \notin Writing
        /\ \A s \in Runs \ {r} : run'[s] = run[s]
    BY <1>1, <1>5 DEF Finishes, OnlyRow, reaperVars, sessionVars, Writing
  <2>2. PICK q \in Runs : HeldBy(t, q)
    BY <2>1 DEF LeaseHeld
  <2>3. \A x \in Workers : worker[x].run = r => x = w
    BY <1>0, <1>2, <2>1 DEF WorkersOwn
  <2>4. q # r
    BY <2>1, <2>2, <2>3 DEF HeldBy
  <2> QED
    BY <1>0, <1>1, <1>4, <2>1, <2>2, <2>4
<1>6. ASSUME NEW w \in Workers, Perishes(w)
      PROVE  \E r \in Runs : HeldBy(t, r)'
  <2> DEFINE r == worker[w].run
  <2>1. /\ worker' = [worker EXCEPT ![w] = Idle] /\ r \in Runs
        /\ UNCHANGED <<run, reaper, lease>>
    BY <1>1, <1>6 DEF Perishes, queueVars, reaperVars, sessionVars
  <2>2. PICK q \in Runs : HeldBy(t, q)
    BY <2>1 DEF LeaseHeld
  <2>3. CASE q # r
    BY <1>0, <1>1, <1>4, <2>1, <2>2, <2>3
  <2>4. CASE q = r
    <3>1. /\ \A x \in Workers : worker[x].run = r => x = w
          /\ \A p \in Reapers : reaper[p].run # r
      BY <1>0, <1>2, <2>1 DEF WorkersOwn, ReapersOwn
    <3>2. \A x \in Workers : worker'[x].run # q
      BY <1>0, <1>1, <2>1, <2>4, <3>1
    <3>3. HeldBy(t, q)'
      BY <2>1, <2>2, <2>4, <3>1, <3>2 DEF HeldBy
    <3> QED
      BY <3>3
  <2> QED
    BY <2>3, <2>4
<1>7. ASSUME NEW w \in Workers, NEW r \in Runs, Claims(w, r)
      PROVE  \E x \in Runs : HeldBy(t, x)'
  <2>1. /\ worker' = [worker EXCEPT ![w] = worker'[w]]
        /\ worker'[w].run = r /\ worker[w].pc = "idle"
        /\ UNCHANGED <<reaper, lease>> /\ run[r].status = "pending"
        /\ \A s \in Runs \ {r} : run'[s] = run[s]
    BY <1>1, <1>7 DEF Claims, ClaimedFor, OnlyRow, reaperVars, sessionVars
  <2>2. PICK q \in Runs : HeldBy(t, q)
    BY <2>1 DEF LeaseHeld
  <2>3. q # r /\ worker[w].run = 0
    BY <1>2, <2>1, <2>2 DEF HeldBy, WorkersOwn
  <2> QED
    BY <1>0, <1>1, <1>4, <2>1, <2>2, <2>3
<1>8. ASSUME NEW p \in Reapers, ReaperUnlock(p)
      PROVE  \E r \in Runs : HeldBy(t, r)'
  <2> DEFINE r == reaper[p].run
  <2>1. /\ UNCHANGED <<run, worker>> /\ r \in Runs
        /\ lease' = [lease EXCEPT ![SessionOf[r]] = FreeLease]
        /\ \A q \in Reapers \ {p} : reaper'[q] = reaper[q]
        /\ reaper'[p].run = r
    BY <1>1, <1>8 DEF ReaperUnlock, queueVars, attemptVars, ShapeInv, ExecTypeOK
  <2>2. t # SessionOf[r] /\ lease'[t] = lease[t]
    BY <1>0, <1>1, <2>1
  <2>3. PICK q \in Runs : HeldBy(t, q)
    BY <2>2 DEF LeaseHeld
  <2>4. q # r
    BY <2>2, <2>3 DEF HeldBy
  <2> HIDE DEF r
  <2> QED
    BY <1>4, <2>1, <2>2, <2>3, <2>4
<1>9. ASSUME NEW p \in Reapers, Retires(p)
      PROVE  \E r \in Runs : HeldBy(t, r)'
  <2> DEFINE r == reaper[p].run
  <2>1. /\ reaper' = [reaper EXCEPT ![p] = NoReap] /\ r \in Runs
        /\ UNCHANGED <<worker, lease>> /\ reaper[p].pc = "unlocked"
        /\ \A s \in Runs \ {r} : run'[s] = run[s]
    BY <1>1, <1>9 DEF Retires, OnlyRow, attemptVars, sessionVars
  <2>2. PICK q \in Runs : HeldBy(t, q)
    BY <2>1 DEF LeaseHeld
  <2>3. \A x \in Workers : worker[x].run # r
    BY <1>0, <1>2, <2>1 DEF ReapersOwn
  <2>4. q # r
    BY <2>1, <2>2, <2>3 DEF HeldBy
  <2> QED
    BY <1>0, <1>1, <1>4, <2>1, <2>2, <2>4
<1>10. ASSUME NEW p \in Reapers, ReaperDies(p)
       PROVE  \E r \in Runs : HeldBy(t, r)'
  <2>1. /\ reaper' = [reaper EXCEPT ![p] = NoReap] /\ UNCHANGED <<run, worker, lease>>
    BY <1>10 DEF ReaperDies, queueVars, attemptVars, sessionVars
  <2>2. PICK q \in Runs : HeldBy(t, q)
    BY <2>1 DEF LeaseHeld
  <2>3. \A x \in Reapers : reaper'[x].run = q => reaper'[x] = reaper[x]
    BY <1>0, <1>1, <2>1
  <2>4. HeldBy(t, q)'
    BY <2>1, <2>2, <2>3 DEF HeldBy
  <2> QED
    BY <2>4
<1>11. ASSUME NEW p \in Reapers, NEW r \in Runs, Fences(p, r)
       PROVE  \E x \in Runs : HeldBy(t, x)'
  <2>1. /\ reaper'[p].run = r /\ reaper'[p].pc = "fenced"
        /\ \A x \in Reapers \ {p} : reaper'[x] = reaper[x]
        /\ UNCHANGED <<worker, lease>> /\ run[r].lease = "lapsed"
        /\ run'[r].status = "running" /\ run[r].status = "running"
        /\ \A s \in Runs \ {r} : run'[s] = run[s]
    BY <1>1, <1>11 DEF Fences, OnlyRow, attemptVars, sessionVars
  <2>2. PICK q \in Runs : HeldBy(t, q)
    BY <2>1 DEF LeaseHeld
  <2>3. /\ \A x \in Workers : worker[x].run # r
        /\ \A x \in Reapers : reaper[x].run # r
    BY <1>2, <2>1, NobodyAt
  <2>4. CASE q = r
    <3>1. HeldBy(t, q)'
      BY <2>1, <2>2, <2>3, <2>4 DEF HeldBy
    <3> QED
      BY <3>1
  <2>5. CASE q # r
    BY <1>4, <2>1, <2>2, <2>5
  <2> QED
    BY <2>4, <2>5
<1>12. ASSUME NEW r \in Runs, Outside(r)
       PROVE  \E x \in Runs : HeldBy(t, x)'
  <2>1. /\ UNCHANGED <<worker, reaper, lease>>
        /\ \A s \in Runs \ {r} : run'[s] = run[s]
        /\ run[r].status = "running" => run'[r].status = "running"
    BY <1>1, <1>12 DEF Outside, OnlyRow, attemptVars, reaperVars, sessionVars
  <2>2. PICK q \in Runs : HeldBy(t, q)
    BY <2>1 DEF LeaseHeld
  <2>3. run'[q].status = "running"
    BY <2>1, <2>2 DEF HeldBy
  <2>4. HeldBy(t, q)'
    BY <2>1, <2>2, <2>3 DEF HeldBy
  <2> QED
    BY <2>4
<1>13. ASSUME NEW s \in Sessions, SessionLeaseLapses(s)
       PROVE  \E r \in Runs : HeldBy(t, r)'
  <2>1. t # s /\ lease'[t] = lease[t] /\ UNCHANGED <<run, worker, reaper>>
    BY <1>13 DEF SessionLeaseLapses, queueVars, attemptVars, reaperVars, ShapeInv,
       ExecTypeOK
  <2> QED
    BY <2>1 DEF LeaseHeld, HeldBy
<1> QED
  BY <1>3, <1>5, <1>6, <1>7, <1>8, <1>9, <1>10, <1>11, <1>12, <1>13 DEF CalmKinds

(* A claimed attempt finds its session free.                                 *)
LEMMA NotRefused ==
    ASSUME ShapeInv, OwnersInv, \A s \in Sessions : LeaseHeld(s),
           NEW w \in Workers, worker[w].pc = "acquire"
    PROVE  ~IsRefused(w)
<1> SUFFICES ASSUME IsRefused(w) PROVE FALSE
  OBVIOUS
<1> DEFINE r == worker[w].run
<1>1. r \in Runs /\ Session(w) = SessionOf[r] /\ SessionOf[r] \in Sessions
  BY RunRowAssumption DEF ShapeInv, CallsFit, Session
<1>2. OneRunning /\ WorkersOwn /\ run[r].status = "running"
  BY DEF OwnersInv, WorkersOwn, OwnsRun
<1>3. PICK q \in Runs : HeldBy(SessionOf[r], q)
  BY <1>1 DEF IsRefused, LeaseHeld
<1>4. q = r
  BY <1>1, <1>2, <1>3, Holder
<1>5. \A x \in Workers : worker[x].run = r => x = w
  BY <1>1, <1>2, RunExecutionAssumption DEF WorkersOwn
<1> QED
  BY <1>3, <1>4, <1>5 DEF HeldBy, Writing

(* No attempt, and so no run, ends as busy.                                  *)
LEMMA BusyKept ==
    ASSUME ShapeInv, CalmInv, CalmKinds
    PROVE  NoneBusy'
<1>1. /\ OwnersInv /\ NoneBusy
      /\ worker \in [Workers -> Attempt] /\ run \in [Runs -> Row]
  BY DEF CalmInv, OwnersInv, ShapeInv, ExecTypeOK
<1>2. /\ \A w \in Workers : worker[w].result # "session_busy"
      /\ \A r \in Runs : run[r].result # "session_busy"
      /\ Idle.result # "session_busy"
  BY <1>1 DEF NoneBusy, NeverRefusedBusy, Idle
<1>3. ASSUME NEW w \in Workers, UNCHANGED run,
             worker' = [worker EXCEPT ![w] = worker'[w]],
             worker'[w].result # "session_busy"
      PROVE  NoneBusy'
  BY <1>1, <1>2, <1>3 DEF NoneBusy, NeverRefusedBusy
<1>4. ASSUME UNCHANGED worker, NEW r \in Runs, OnlyRow(r),
             run'[r].result # "session_busy"
      PROVE  NoneBusy'
  BY <1>1, <1>2, <1>4 DEF NoneBusy, NeverRefusedBusy, OnlyRow
<1>5. ASSUME NEW w \in Workers, Continues(w)
      PROVE  NoneBusy'
  <2>1. ~IsRefused(w)
    BY <1>1, NotRefused DEF IsRefused, CalmInv
  <2>2. worker'[w].result # "session_busy"
    <3>1. CASE Moves(w) \/ Notes(w) \/ Unlocks(w)
      BY <1>2, <3>1 DEF Moves, Notes, Unlocks, Kept
    <3>2. CASE Reads(w) \/ Takes(w)
      BY <1>2, <3>2 DEF Reads, Takes
    <3>3. CASE \E kind \in Kinds : Writes(w, kind)
      BY <1>2, <3>3 DEF Writes
    <3> QED
      BY <1>5, <2>1, <3>1, <3>2, <3>3 DEF Continues, TurnEffect
  <2> QED
    BY <1>3, <1>5, <2>2 DEF Continues, OnlyTurn, queueVars
<1>6. ASSUME NEW w \in Workers, Finishes(w)
      PROVE  NoneBusy'
  <2> DEFINE r == worker[w].run
  <2>1. /\ r \in Runs /\ OnlyRow(r) /\ worker' = [worker EXCEPT ![w] = Idle]
        /\ run'[r].result # "session_busy"
    BY <1>2, <1>6 DEF Finishes, ShapeInv, CallsFit
  <2>2. \A x \in Workers : worker'[x].result # "session_busy"
    BY <1>1, <1>2, <2>1
  <2>3. \A q \in Runs : run'[q].result # "session_busy"
    BY <1>1, <1>2, <2>1 DEF OnlyRow
  <2> QED
    BY <2>2, <2>3 DEF NoneBusy, NeverRefusedBusy
<1>7. ASSUME NEW w \in Workers, Perishes(w)
      PROVE  NoneBusy'
  <2>1. \A x \in Workers : worker'[x].result # "session_busy"
    BY <1>1, <1>2, <1>7 DEF Perishes
  <2> QED
    BY <1>2, <1>7, <2>1 DEF Perishes, queueVars, NoneBusy, NeverRefusedBusy
<1>8. ASSUME NEW w \in Workers, NEW r \in Runs, Claims(w, r)
      PROVE  NoneBusy'
  <2>1. \A x \in Workers : worker'[x].result # "session_busy"
    BY <1>1, <1>2, <1>8 DEF Claims, ClaimedFor
  <2>2. \A q \in Runs : run'[q].result # "session_busy"
    BY <1>1, <1>2, <1>8 DEF Claims, OnlyRow
  <2> QED
    BY <2>1, <2>2 DEF NoneBusy, NeverRefusedBusy
<1>9. ASSUME UNCHANGED <<worker, run>>
      PROVE  NoneBusy'
  BY <1>1, <1>9 DEF NoneBusy, NeverRefusedBusy
<1>10. ASSUME NEW p \in Reapers, ReaperUnlock(p) \/ ReaperDies(p)
       PROVE  UNCHANGED <<worker, run>>
  BY <1>10 DEF ReaperUnlock, ReaperDies, queueVars, attemptVars
<1>11. ASSUME NEW p \in Reapers, Retires(p)
       PROVE  NoneBusy'
  BY <1>2, <1>4, <1>11 DEF Retires, attemptVars, ShapeInv, CallsFit
<1>12. ASSUME NEW p \in Reapers, NEW r \in Runs, Fences(p, r)
       PROVE  NoneBusy'
  BY <1>2, <1>4, <1>12 DEF Fences, Same, attemptVars
<1>13. ASSUME NEW r \in Runs, Outside(r)
       PROVE  NoneBusy'
  BY <1>2, <1>4, <1>13 DEF Outside, Same, attemptVars
<1>14. ASSUME NEW s \in Sessions, SessionLeaseLapses(s)
       PROVE  UNCHANGED <<worker, run>>
  BY <1>14 DEF SessionLeaseLapses, queueVars, attemptVars
<1> QED
  BY <1>5, <1>6, <1>7, <1>8, <1>9, <1>10, <1>11, <1>12, <1>13, <1>14 DEF CalmKinds

(* The calm invariant survives every step of a calm environment.             *)
LEMMA CalmStep ==
    ASSUME Calm, WriterInv, CalmInv, [ExecNext]_execVars
    PROVE  CalmInv'
<1>1. ShapeInv /\ OwnersInv
  BY DEF WriterInv, CalmInv, OwnersInv
<1>2. CASE ExecNext
  <2>1. CalmKinds
    BY <1>1, <1>2, ExecSteps, CalmSteps DEF OwnersInv
  <2>2. OwnersInv'
    BY <1>1, <2>1, OwnersKept
  <2>3. \A s \in Sessions : LeaseHeld(s)'
    BY <1>1, <2>1, LeasesKept DEF CalmInv
  <2>4. NoneBusy'
    BY <1>1, <2>1, BusyKept
  <2> QED
    BY <2>2, <2>3, <2>4 DEF CalmInv, OwnersInv
<1>3. CASE UNCHANGED execVars
  BY <1>3 DEF execVars, queueVars, attemptVars, reaperVars, sessionVars, CalmInv,
     NobodyDrains, OneRunning, WorkersOwn, ReapersOwn, OwnsRun, LeaseHeld, HeldBy,
     NoneBusy, NeverRefusedBusy
<1> QED
  BY <1>2, <1>3

(* The calm invariant holds initially.                                       *)
LEMMA CalmStart == ExecInit => CalmInv
<1> SUFFICES ASSUME ExecInit PROVE CalmInv
  OBVIOUS
<1>1. /\ \A w \in Workers : worker[w] = Idle /\ drain[w] = NoDrain
      /\ \A p \in Reapers : reaper[p] = NoReap
      /\ \A r \in Runs : run[r] = NewRow
      /\ \A s \in Sessions : lease[s] = FreeLease
      /\ stopped = {}
  BY DEF ExecInit, QueueInit
<1>2. /\ Idle.pc = "idle" /\ Idle.run = 0 /\ Idle.result = "none"
      /\ NoReap.pc = "idle" /\ NoReap.run = 0 /\ FreeLease.state = "none"
      /\ NewRow.status = "unborn" /\ NewRow.result = "none"
  BY DEF Idle, NoReap, FreeLease, NewRow
<1>3. NobodyDrains /\ OneRunning
  BY <1>1, <1>2 DEF NobodyDrains, OneRunning, Siblings
<1>4. WorkersOwn /\ ReapersOwn
  BY <1>1, <1>2 DEF WorkersOwn, ReapersOwn
<1>5. NoneBusy /\ \A s \in Sessions : LeaseHeld(s)
  BY <1>1, <1>2 DEF NoneBusy, NeverRefusedBusy, LeaseHeld
<1> QED
  BY <1>3, <1>4, <1>5 DEF CalmInv

(* In a calm environment, however often workers and reapers crash, everybody *)
(* who is alive owns its run and the session's lease is nobody else's.       *)
THEOREM CalmInvariant ==
    ASSUME Calm
    PROVE  ExecSpec => [](WriterInv /\ CalmInv)
<1>1. ExecInit => WriterInv /\ CalmInv
  BY WriterStart, CalmStart
<1>2. WriterInv /\ CalmInv /\ [ExecNext]_execVars => WriterInv' /\ CalmInv'
  BY WriterStep, CalmStep
<1> QED
  BY <1>1, <1>2, PTL DEF ExecSpec

(* A claimed run is not refused because of a dead attempt's lease: the       *)
(* reaper frees the session before it puts the run back, and no sibling is   *)
(* claimed in between.                                                       *)
THEOREM NeverRefusedBusyAlways ==
    ASSUME Calm
    PROVE  ExecSpec => []NeverRefusedBusy
<1>1. CalmInv => NeverRefusedBusy
  BY DEF CalmInv, NoneBusy
<1> QED
  BY <1>1, CalmInvariant, PTL

-----------------------------------------------------------------------------
(* Transcripts grow at the end.                                              *)

(* r wrote an entry of this kind as the n+1st of its session.                *)
Wrote(r, kind, n) ==
    /\ \A q \in Runs : \A i \in Nat :
         Of(q, i)' <=> Of(q, i) \/ (q = r /\ i = n + 1)
    /\ \A q \in Runs : \A i \in Nat : \A k \in Kinds :
         Says(q, i, k)' <=> Says(q, i, k) \/ (q = r /\ i = n + 1 /\ k = kind)
    /\ \A q \in Runs : \A i \in Nat :
         Of(q, i) /\ SessionOf[q] = SessionOf[r] => i <= n /\ i # 0
    /\ \A q \in Runs : Interrupted(q) => Interrupted(q)'

(* The effect of a write on who said what.                                   *)
LEMMA LogGrows ==
    ASSUME log \in [Sessions -> Seq(Entry)], InItsSession,
           NEW w \in Workers, worker[w] \in Attempt,
           NEW r \in Runs, worker[w].run = r,
           NEW kind \in Kinds, Writes(w, kind)
    PROVE  /\ InItsSession'
           /\ \E n \in Nat : Len(log'[SessionOf[r]]) = n + 1 /\ Wrote(r, kind, n)
<1> DEFINE s == SessionOf[r]
           n == Len(log[s])
           e == [kind |-> kind, run |-> r, lease |-> worker[w].lease]
<1>1. s \in Sessions /\ \A q \in Runs : SessionOf[q] \in Sessions
  BY RunRowAssumption
<1>2. e \in Entry /\ e.kind = kind /\ e.run = r
  BY DEF Entry, Kinds, Attempt
<1>3. log' = [log EXCEPT ![s] = Append(log[s], e)]
  BY DEF Writes, Append1, Session
<1> HIDE DEF e
<1>4. /\ log'[s] = Append(log[s], e) /\ log[s] \in Seq(Entry)
      /\ \A t \in Sessions \ {s} : log'[t] = log[t]
  BY <1>1, <1>3
<1>5. /\ n \in Nat /\ DOMAIN log[s] = 1 .. n
      /\ Len(log'[s]) = n + 1
      /\ DOMAIN log'[s] = 1 .. n + 1 /\ log'[s][n + 1] = e
      /\ \A i \in 1 .. n : log'[s][i] = log[s][i]
  BY <1>2, <1>4, LogFacts
<1> HIDE DEF s, n
<1>6. ASSUME NEW q \in Runs, NEW i \in Nat
      PROVE  /\ Of(q, i)' <=> Of(q, i) \/ (q = r /\ i = n + 1)
             /\ \A k \in Kinds :
                  Says(q, i, k)' <=> Says(q, i, k) \/ (q = r /\ i = n + 1 /\ k = kind)
             /\ Of(q, i) /\ SessionOf[q] = s => i <= n /\ i # 0
  <2>1. CASE SessionOf[q] # s
    <3>1. log'[SessionOf[q]] = log[SessionOf[q]] /\ q # r
      BY <1>1, <1>4, <2>1 DEF s
    <3> QED
      BY <2>1, <3>1 DEF Of, Says
  <2>2. CASE SessionOf[q] = s /\ i \in 1 .. n
    <3>1. /\ i \in DOMAIN log[s] /\ i \in DOMAIN log'[s] /\ i # n + 1
          /\ log'[s][i] = log[s][i] /\ i <= n /\ i # 0
      BY <1>5, <2>2
    <3> QED
      BY <2>2, <3>1 DEF Of, Says
  <2>3. CASE SessionOf[q] = s /\ i = n + 1
    <3>1. i \in DOMAIN log'[s] /\ i \notin DOMAIN log[s] /\ log'[s][i] = e
      BY <1>5, <2>3
    <3> QED
      BY <1>2, <2>3, <3>1 DEF Of, Says
  <2>4. CASE SessionOf[q] = s /\ i \notin 1 .. n /\ i # n + 1
    <3>1. i \notin DOMAIN log[s] /\ i \notin DOMAIN log'[s]
      BY <1>5, <2>4
    <3> QED
      BY <2>4, <3>1 DEF Of, Says
  <2> QED
    BY <2>1, <2>2, <2>3, <2>4
<1>7. ASSUME NEW q \in Runs, Interrupted(q)
      PROVE  Interrupted(q)'
  <2>1. CASE SessionOf[q] # s
    <3>1. log'[SessionOf[q]] = log[SessionOf[q]]
      BY <1>1, <1>4, <2>1
    <3> QED
      BY <1>7, <3>1 DEF Interrupted
  <2>2. CASE SessionOf[q] = s
    <3>1. \A i \in DOMAIN log[s] : i \in DOMAIN log'[s] /\ log'[s][i] = log[s][i]
      BY <1>5
    <3> QED
      BY <1>7, <2>2, <3>1 DEF Interrupted
  <2> QED
    BY <2>1, <2>2
<1>8. InItsSession'
  <2> SUFFICES ASSUME NEW t \in Sessions, NEW i \in DOMAIN log'[t]
               PROVE  SessionOf[log'[t][i].run] = t
    BY DEF InItsSession
  <2>1. CASE t # s
    BY <1>4, <2>1 DEF InItsSession
  <2>2. CASE t = s /\ i \in 1 .. n
    <3>1. i \in DOMAIN log[s] /\ log'[t][i] = log[s][i]
      BY <1>5, <2>2
    <3> QED
      BY <1>1, <2>2, <3>1 DEF InItsSession
  <2>3. CASE t = s /\ i = n + 1
    BY <1>2, <1>5, <2>3 DEF s
  <2>4. t = s => i \in 1 .. n \/ i = n + 1
    BY <1>5
  <2> QED
    BY <2>1, <2>2, <2>3, <2>4
<1>9. Wrote(r, kind, n)
  BY <1>6, <1>7 DEF Wrote, s
<1> QED
  BY <1>5, <1>8, <1>9 DEF s

(* A step that leaves the transcripts alone.                                 *)
LEMMA LogStays ==
    ASSUME UNCHANGED log
    PROVE  /\ InItsSession => InItsSession'
           /\ \A q \in Runs : \A i \in Nat : Of(q, i)' <=> Of(q, i)
           /\ \A q \in Runs : \A i \in Nat : \A k \in Kinds :
                Says(q, i, k)' <=> Says(q, i, k)
           /\ \A q \in Runs : Interrupted(q)' <=> Interrupted(q)
  BY DEF InItsSession, Of, Says, Interrupted

(* What a retry reads back: an answer it finds is its own, and an answer it  *)
(* misses is behind another run's turn.                                      *)
LEMMA ReadBack ==
    ASSUME log \in [Sessions -> Seq(Entry)], turnUserSeq \in [Runs -> Nat],
           InItsSession, Nested, \A q \in Runs : BoundaryFits(q),
           NEW r \in Runs, run[r].status = "running"
    PROVE  /\ RecordedTurn(r) = "answer" => \E i \in Nat : Says(r, i, "answer")
           /\ RecordedTurn(r) # "answer" =>
                Interrupted(r) \/ \A i \in Nat : ~Says(r, i, "answer")
           /\ RecordedTurn(r) = "none" <=> turnUserSeq[r] = 0
<1> DEFINE s == SessionOf[r]
           b == turnUserSeq[r]
           n == Len(log[s])
<1>1. /\ s \in Sessions /\ b \in Nat /\ n \in Nat /\ DOMAIN log[s] = 1 .. n
      /\ \A i \in 1 .. n : log[s][i].run \in Runs
  <2>1. s \in Sessions
    BY RunRowAssumption
  <2>2. log[s] \in Seq(Entry)
    BY <2>1
  <2>3. \A x \in Entry : x.run \in Runs
    BY DEF Entry
  <2>4. n \in Nat /\ DOMAIN log[s] = 1 .. n /\ \A i \in 1 .. n : log[s][i] \in Entry
    BY <2>2
  <2> QED
    BY <2>1, <2>3, <2>4
<1>2. CASE b = 0
  BY <1>2 DEF RecordedTurn, BoundaryFits
<1>3. CASE b # 0
  <2>1. /\ RecordedTurn(r) # "none"
        /\ RecordedTurn(r) = "answer" <=> AnsweredAt(s, b)
    BY <1>3 DEF RecordedTurn
  <2>2. /\ Of(r, b) /\ \A j \in Nat : Says(r, j, "ask") => j <= b
        /\ \A i \in Nat : Says(r, i, "answer") => b < i
    BY <1>1, <1>3 DEF BoundaryFits, Says
  <2>3. b \in 1 .. n /\ log[s][b].run = r
    BY <1>1, <2>2 DEF Of
  <2>4. ASSUME AnsweredAt(s, b)
        PROVE  \E i \in Nat : Says(r, i, "answer")
    <3>1. PICK i \in b + 1 .. n :
            /\ log[s][i].kind = "answer"
            /\ \A j \in b + 1 .. i : log[s][j].kind # "ask"
      BY <2>4 DEF AnsweredAt
    <3>2. i \in Nat /\ i \in 1 .. n /\ b < i
      BY <1>1, <2>3
    <3>3. PICK q \in Runs : q = log[s][i].run
      BY <1>1, <3>2
    <3>4. SessionOf[q] = s /\ Says(q, i, "answer")
      BY <1>1, <3>1, <3>2, <3>3 DEF InItsSession, Says, Of
    <3>5. CASE q = r
      BY <3>2, <3>4, <3>5
    <3>6. CASE q # r
      <4>1. PICK j \in Nat : j < i /\ Says(q, j, "ask")
        BY <3>2, <3>4 DEF BoundaryFits
      <4>2. j \in 1 .. n /\ log[s][j].kind = "ask" /\ log[s][j].run = q
        BY <1>1, <3>4, <4>1 DEF Says, Of
      <4>3. j < b
        BY <1>1, <2>3, <3>1, <3>2, <3>6, <4>1, <4>2
      <4>4. q \in Siblings(r) /\ Of(q, j) /\ Of(q, i)
        BY <3>4, <3>6, <4>1 DEF Siblings, Says
      <4>5. ~Unfinished(r)
        BY <1>1, <2>2, <3>2, <4>3, <4>4 DEF Nested
      <4> QED
        BY <4>5 DEF Unfinished
    <3> QED
      BY <3>5, <3>6
  <2>5. ASSUME ~AnsweredAt(s, b), NEW i \in Nat, Says(r, i, "answer")
        PROVE  Interrupted(r)
    <3>1. /\ b < i /\ i \in 1 .. n /\ i \in b + 1 .. n
          /\ log[s][i].kind = "answer" /\ log[s][i].run = r
      BY <1>1, <2>2, <2>5 DEF Says, Of
    <3>2. PICK j \in b + 1 .. i : log[s][j].kind = "ask"
      BY <2>5, <3>1 DEF AnsweredAt
    <3>3. j \in 1 .. n /\ j \in Nat /\ b < j /\ j < i
      BY <1>1, <3>1, <3>2
    <3>4. log[s][j].run # r
      BY <1>1, <2>2, <3>2, <3>3 DEF Says, Of
    <3> QED
      BY <1>1, <2>3, <3>1, <3>3, <3>4 DEF Interrupted
  <2> QED
    BY <1>3, <2>1, <2>4, <2>5
<1> QED
  BY <1>2, <1>3

(* An attempt asks only where no boundary is stored, and resumes only a turn *)
(* that was asked.                                                           *)
LEMMA Resuming ==
    ASSUME log \in [Sessions -> Seq(Entry)], turnUserSeq \in [Runs -> Nat],
           NEW w \in Workers, worker[w] \in Attempt, worker[w].pc = "ask",
           NEW r \in Runs, worker[w].run = r, AttemptFits(w, r), BoundaryFits(r)
    PROVE  /\ ~Resumes(w) => turnUserSeq[r] = 0
           /\ Resumes(w) => \E i \in Nat : Says(r, i, "ask")
<1>1. worker[w].number \in Nat
  BY DEF Attempt
<1>2. turnUserSeq[r] # 0 => \E i \in Nat : Says(r, i, "ask")
  BY DEF BoundaryFits
<1>3. turnUserSeq[r] # 0 => \E i \in Nat : Of(r, i)
  BY <1>2 DEF Says
<1>4. ASSUME TrailingPartial(r)
      PROVE  \E i \in Nat : Says(r, i, "ask")
  <2>1. log[SessionOf[r]] \in Seq(Entry)
    BY RunRowAssumption
  <2>2. PICK i \in 1 .. Len(log[SessionOf[r]]) :
          log[SessionOf[r]][i].kind = "ask" /\ log[SessionOf[r]][i].run = r
    BY <1>4 DEF TrailingPartial
  <2>3. i \in Nat /\ i \in DOMAIN log[SessionOf[r]]
    BY <2>1
  <2> QED
    BY <2>2, <2>3 DEF Says, Of
<1>5. CASE worker[w].number > 1
  BY <1>2, <1>4, <1>5 DEF Resumes, AttemptFits
<1>6. CASE worker[w].number <= 1
  BY <1>1, <1>3, <1>6 DEF Resumes, AttemptFits
<1> QED
  BY <1>1, <1>5, <1>6

-----------------------------------------------------------------------------
(* Turns nest.                                                               *)

(* What a step does to the status of a run.                                  *)
RowMoves(r) ==
    LET row == run[r] x == run'[r] IN
    /\ \A q \in Runs \ {r} : run'[q].status = run[q].status /\ Same(run[q], run'[q])
    /\ \/ x.status = row.status /\ x.attempts = row.attempts
       \/ /\ row.status = "pending" /\ x.status = "running"
          /\ x.attempts = row.attempts + 1
          /\ InOrder(r) /\ \A q \in Siblings(r) : run[q].status # "running"
       \/ /\ row.status = "running" /\ x.status \in {"pending", "done", "failed"}
          /\ x.attempts = row.attempts
       \/ /\ row.status = "unborn" /\ x.status = "pending"
          /\ x.attempts = row.attempts
       \/ /\ row.status = "pending" /\ x.status = "withdrawn"
          /\ x.attempts = row.attempts
    /\ \/ x.result = row.result \/ x.result = "error"
       \/ \E w \in Workers : /\ worker[w].run = r /\ worker[w].pc = "complete"
                             /\ x.result = worker[w].result

(* A step moves at most one run.                                             *)
LEMMA RowMove ==
    ASSUME ShapeInv, OwnersInv, CalmKinds
    PROVE  UNCHANGED run \/ \E r \in Runs : RowMoves(r)
<1>1. /\ run \in [Runs -> Row] /\ WorkersOwn /\ ReapersOwn
      /\ \A w \in Workers : worker[w].pc # "idle" =>
             worker[w].run \in Runs /\ run[worker[w].run].status = "running"
      /\ \A p \in Reapers : reaper[p].pc # "idle" =>
             reaper[p].run \in Runs /\ run[reaper[p].run].status = "running"
  BY DEF ShapeInv, ExecTypeOK, CallsFit, OwnersInv, WorkersOwn, ReapersOwn, OwnsRun
<1>2. ASSUME NEW r \in Runs, OnlyRow(r)
      PROVE  \A q \in Runs \ {r} : run'[q].status = run[q].status /\ Same(run[q], run'[q])
  BY <1>1, <1>2 DEF OnlyRow, Same
<1>3. ASSUME NEW w \in Workers, Continues(w) \/ Perishes(w)
      PROVE  UNCHANGED run
  BY <1>3 DEF Continues, Perishes, OnlyTurn, queueVars
<1>4. ASSUME NEW w \in Workers, Finishes(w)
      PROVE  \E r \in Runs : RowMoves(r)
  <2>1. PICK r \in Runs : r = worker[w].run /\ run[r].status = "running"
    BY <1>1, <1>4 DEF Finishes
  <2>2. OnlyRow(r)
    BY <1>4, <2>1 DEF Finishes, OnlyRow
  <2>3. /\ run'[r].status \in {"pending", "done", "failed"}
        /\ run'[r].attempts = run[r].attempts
        /\ \/ run'[r].result = run[r].result \/ run'[r].result = "error"
           \/ worker[w].pc = "complete" /\ run'[r].result = worker[w].result
    BY <1>4, <2>1 DEF Finishes
  <2>4. RowMoves(r)
    BY <1>2, <2>1, <2>2, <2>3 DEF RowMoves
  <2> QED
    BY <2>4
<1>5. ASSUME NEW w \in Workers, NEW r \in Runs, Claims(w, r)
      PROVE  RowMoves(r)
  BY <1>2, <1>5 DEF Claims, RowMoves
<1>6. ASSUME NEW p \in Reapers, ReaperUnlock(p) \/ ReaperDies(p)
      PROVE  UNCHANGED run
  BY <1>6 DEF ReaperUnlock, ReaperDies, queueVars
<1>7. ASSUME NEW p \in Reapers, Retires(p)
      PROVE  \E r \in Runs : RowMoves(r)
  <2>1. PICK r \in Runs : r = reaper[p].run /\ run[r].status = "running"
    BY <1>1, <1>7 DEF Retires
  <2>2. OnlyRow(r)
    BY <1>7, <2>1 DEF Retires, OnlyRow
  <2>3. /\ run'[r].status \in {"pending", "failed"}
        /\ run'[r].attempts = run[r].attempts
        /\ run'[r].result = run[r].result \/ run'[r].result = "error"
    BY <1>7, <2>1 DEF Retires
  <2>4. RowMoves(r)
    BY <1>2, <2>1, <2>2, <2>3 DEF RowMoves
  <2> QED
    BY <2>4
<1>8. ASSUME NEW p \in Reapers, NEW r \in Runs, Fences(p, r)
      PROVE  RowMoves(r)
  BY <1>2, <1>8 DEF Fences, RowMoves, Same
<1>9. ASSUME NEW r \in Runs, Outside(r)
      PROVE  RowMoves(r)
  BY <1>2, <1>9 DEF Outside, RowMoves, Same
<1>10. ASSUME NEW s \in Sessions, SessionLeaseLapses(s)
       PROVE  UNCHANGED run
  BY <1>10 DEF SessionLeaseLapses, queueVars
<1> QED
  BY <1>3, <1>4, <1>5, <1>6, <1>7, <1>8, <1>9, <1>10 DEF CalmKinds

(* A step extends a transcript only if it is an attempt's write.             *)
LEMMA LogMove ==
    ASSUME CalmKinds
    PROVE  \/ UNCHANGED log
           \/ \E w \in Workers : Continues(w) /\ \E kind \in Kinds : Writes(w, kind)
<1>1. ASSUME NEW w \in Workers, Continues(w), ~ \E kind \in Kinds : Writes(w, kind)
      PROVE  UNCHANGED log
  BY <1>1 DEF Continues, TurnEffect, Moves, Reads, Takes, IsRefused, Notes, Unlocks,
     sessionVars
<1>2. ASSUME NEW w \in Workers,
             Finishes(w) \/ Perishes(w) \/ \E r \in Runs : Claims(w, r)
      PROVE  UNCHANGED log
  BY <1>2 DEF Finishes, Perishes, Claims, sessionVars
<1>3. ASSUME NEW p \in Reapers,
             \/ ReaperUnlock(p) \/ Retires(p) \/ ReaperDies(p)
             \/ \E r \in Runs : Fences(p, r)
      PROVE  UNCHANGED log
  BY <1>3 DEF ReaperUnlock, Retires, ReaperDies, Fences, sessionVars
<1>4. ASSUME NEW r \in Runs, Outside(r)
      PROVE  UNCHANGED log
  BY <1>4 DEF Outside, sessionVars
<1>5. ASSUME NEW s \in Sessions, SessionLeaseLapses(s)
      PROVE  UNCHANGED log
  BY <1>5 DEF SessionLeaseLapses
<1> QED
  BY <1>1, <1>2, <1>3, <1>4, <1>5 DEF CalmKinds

OrderInv == ClaimedFirst /\ WaitingLater /\ Nested /\ InItsSession

(* Turns stay nested.                                                        *)
LEMMA NestedKept ==
    ASSUME ShapeInv, OwnersInv, OrderInv, CalmKinds
    PROVE  OrderInv'
<1>1. /\ run \in [Runs -> Row] /\ \A r \in Runs : run[r].attempts \in Nat
      /\ log \in [Sessions -> Seq(Entry)] /\ worker \in [Workers -> Attempt]
      /\ OneRunning /\ Runs \subseteq Nat
  <2>1. \A r \in Runs : run[r] \in Row
    BY DEF ShapeInv, ExecTypeOK
  <2> QED
    BY <2>1, RunRowAssumption DEF ShapeInv, ExecTypeOK, OwnersInv, Row
<1>2. ASSUME UNCHANGED log
      PROVE  OrderInv'
  <2>1. InItsSession' /\ \A q \in Runs : \A i \in Nat : Of(q, i)' <=> Of(q, i)
    BY <1>2, LogStays DEF OrderInv
  <2>2. ASSUME UNCHANGED run
        PROVE  OrderInv'
    <3>1. \A q \in Runs : Unfinished(q)' <=> Unfinished(q)
      BY <2>2 DEF Unfinished
    <3>2. ClaimedFirst' /\ WaitingLater'
      BY <2>1, <2>2 DEF OrderInv, ClaimedFirst, WaitingLater
    <3>3. Nested'
      BY <2>1, <3>1 DEF OrderInv, Nested, Siblings
    <3> QED
      BY <2>1, <3>2, <3>3 DEF OrderInv
  <2>3. ASSUME NEW r \in Runs, RowMoves(r)
        PROVE  OrderInv'
    <3>1. /\ \A q \in Runs : run'[q].attempts >= run[q].attempts
          /\ \A q \in Runs : run'[q].attempts \in Nat
          /\ \A q \in Runs : Unfinished(q)' => Unfinished(q)
      BY <1>1, <2>3 DEF RowMoves, Same, Unfinished
    <3>2. ClaimedFirst'
      <4>1. \A q \in Runs : run'[q].status = "running" => run'[q].attempts > 0
        BY <1>1, <2>3 DEF RowMoves, Same, OrderInv, ClaimedFirst
      <4>2. \A q \in Runs : run'[q].status = "unborn" => run'[q].attempts = 0
        BY <1>1, <2>3 DEF RowMoves, Same, OrderInv, ClaimedFirst
      <4>3. \A q \in Runs : \A i \in Nat : Of(q, i)' => run'[q].attempts > 0
        BY <1>1, <2>1, <3>1 DEF OrderInv, ClaimedFirst
      <4> QED
        BY <4>1, <4>2, <4>3 DEF ClaimedFirst
    <3>3. WaitingLater'
      <4> SUFFICES ASSUME NEW x \in Runs, NEW q \in Siblings(x),
                          run'[x].status = "running", run'[q].status = "pending",
                          run'[q].attempts > 0
                   PROVE  q > x
        BY DEF WaitingLater, Siblings
      <4>1. q \in Runs /\ q # x /\ SessionOf[q] = SessionOf[x] /\ x \in Siblings(q)
        BY DEF Siblings
      <4>2. CASE x = r /\ run[r].status = "pending"
        <5>1. InOrder(r) /\ run[q].status = "pending"
          BY <2>3, <4>1, <4>2 DEF RowMoves
        <5> QED
          BY <4>2, <5>1 DEF InOrder
      <4>3. CASE x = r /\ run[r].status # "pending"
        BY <2>3, <4>1, <4>3 DEF RowMoves, Same, OrderInv, WaitingLater
      <4>4. CASE q = r
        <5>1. run[x].status = "running"
          BY <2>3, <4>1, <4>4 DEF RowMoves
        <5>2. run[r].status # "running"
          BY <1>1, <4>1, <4>4, <5>1 DEF OneRunning
        <5>3. run[r].status = "pending" /\ run[r].attempts > 0
          BY <1>1, <2>3, <4>4, <5>2 DEF RowMoves, OrderInv, ClaimedFirst
        <5> QED
          BY <4>4, <5>1, <5>3 DEF OrderInv, WaitingLater
      <4>5. CASE x # r /\ q # r
        BY <2>3, <4>1, <4>5 DEF RowMoves, Same, OrderInv, WaitingLater
      <4> QED
        BY <4>2, <4>3, <4>4, <4>5
    <3>4. Nested'
      BY <2>1, <3>1 DEF OrderInv, Nested, Siblings
    <3> QED
      BY <2>1, <3>2, <3>3, <3>4 DEF OrderInv
  <2> QED
    BY <2>2, <2>3, RowMove
<1>3. ASSUME NEW w \in Workers, Continues(w), NEW kind \in Kinds, Writes(w, kind)
      PROVE  OrderInv'
  <2>1. PICK r \in Runs : worker[w].run = r /\ run[r].status = "running"
    BY <1>3 DEF Continues, ShapeInv, CallsFit, OwnersInv, WorkersOwn, OwnsRun
  <2>2. UNCHANGED run
    BY <1>3 DEF Continues, OnlyTurn, queueVars
  <2>3. InItsSession' /\ \E n \in Nat : Wrote(r, kind, n)
    BY <1>1, <1>3, <2>1, LogGrows DEF OrderInv
  <2>4. PICK n \in Nat : Wrote(r, kind, n)
    BY <2>3
  <2>5. /\ \A q \in Runs : \A i \in Nat :
             Of(q, i)' <=> Of(q, i) \/ (q = r /\ i = n + 1)
        /\ \A q \in Runs : \A i \in Nat :
             Of(q, i) /\ SessionOf[q] = SessionOf[r] => i <= n
    BY <2>4 DEF Wrote
  <2>6. ClaimedFirst' /\ WaitingLater'
    BY <2>1, <2>2, <2>5 DEF OrderInv, ClaimedFirst, WaitingLater
  <2>7. ASSUME NEW q \in Siblings(r), NEW i \in Nat, Of(q, i), Unfinished(q)
        PROVE  q > r
    <3>1. q \in Runs /\ run[q].attempts > 0 /\ run[q].attempts \in Nat
      BY <1>1, <2>7 DEF OrderInv, ClaimedFirst, Siblings
    <3>2. run[q].status # "running" /\ run[q].status # "unborn"
      BY <1>1, <2>1, <2>7, <3>1 DEF OneRunning, OrderInv, ClaimedFirst
    <3>3. run[q].status = "pending"
      BY <2>7, <3>2 DEF Unfinished
    <3> QED
      BY <2>1, <2>7, <3>1, <3>3 DEF OrderInv, WaitingLater
  <2>8. Nested'
    <3>1. ASSUME NEW x \in Runs, NEW q \in Siblings(x), NEW i \in Nat, NEW j \in Nat,
                 Of(q, i)', Of(x, j)', i < j, Unfinished(q)
          PROVE  q > x
      <4>1. q \in Runs /\ q # x /\ SessionOf[q] = SessionOf[x]
        BY DEF Siblings
      <4>2. CASE Of(q, i) /\ Of(x, j)
        BY <3>1, <4>2 DEF OrderInv, Nested
      <4>3. CASE Of(q, i) /\ x = r
        BY <2>7, <3>1, <4>3
      <4>4. CASE q = r /\ i = n + 1 /\ Of(x, j)
        BY <1>1, <2>5, <3>1, <4>1, <4>4
      <4> QED
        BY <2>5, <3>1, <4>1, <4>2, <4>3, <4>4
    <3>2. ASSUME NEW x \in Runs, NEW q \in Siblings(x),
                 NEW i \in Nat, NEW j \in Nat, NEW k \in Nat,
                 Of(q, i)', Of(x, j)', Of(q, k)', i < j, j < k
          PROVE  ~Unfinished(x)
      <4>1. q \in Runs /\ q # x /\ SessionOf[q] = SessionOf[x] /\ x \in Siblings(q)
        BY DEF Siblings
      <4>2. CASE q = r
        <5>1. Of(x, j) /\ j <= n
          BY <2>5, <3>2, <4>1, <4>2
        <5>2. Of(q, i)
          <6>1. i # n + 1
            BY <3>2, <5>1
          <6> QED
            BY <2>5, <3>2, <4>1, <6>1
        <5>3. CASE Of(q, k)
          BY <3>2, <5>1, <5>2, <5>3 DEF OrderInv, Nested
        <5>4. CASE Unfinished(x)
          <6>1. x > r
            BY <2>7, <4>1, <4>2, <5>1, <5>4
          <6>2. Unfinished(q)
            BY <2>1, <4>2 DEF Unfinished
          <6>3. q > x
            BY <3>2, <5>1, <5>2, <6>2 DEF OrderInv, Nested
          <6> QED
            BY <1>1, <4>2, <6>1, <6>3
        <5> QED
          BY <5>4
      <4>3. CASE x = r
        <5>1. Of(q, i) /\ Of(q, k) /\ k <= n
          BY <2>5, <3>2, <4>1, <4>3
        <5>2. Of(x, j)
          BY <2>5, <3>2, <5>1
        <5> QED
          BY <3>2, <5>1, <5>2 DEF OrderInv, Nested
      <4>4. CASE q # r /\ x # r
        BY <2>5, <3>2, <4>1, <4>4 DEF OrderInv, Nested
      <4> QED
        BY <4>2, <4>3, <4>4
    <3>3. \A q \in Runs : Unfinished(q)' <=> Unfinished(q)
      BY <2>2 DEF Unfinished
    <3> QED
      BY <3>1, <3>2, <3>3 DEF Nested, Siblings
  <2> QED
    BY <2>3, <2>6, <2>8 DEF OrderInv
<1> QED
  BY <1>2, <1>3, LogMove

-----------------------------------------------------------------------------
(* Answers.                                                                  *)

SaysSame(q) ==
    /\ \A i \in Nat : Of(q, i)' <=> Of(q, i)
    /\ \A i \in Nat : \A k \in Kinds : Says(q, i, k)' <=> Says(q, i, k)
    /\ Interrupted(q) => Interrupted(q)'

(* A run about which nothing is written keeps its boundary, and whoever is   *)
(* at it and does not move keeps what it knows.                              *)
LEMMA Bystander ==
    ASSUME NEW q \in Runs, SaysSame(q), turnUserSeq'[q] = turnUserSeq[q],
           BoundaryFits(q)
    PROVE  /\ (run'[q].result = "answer" =>
                  run[q].result = "answer" \/ \E i \in Nat : Says(q, i, "answer"))
              => BoundaryFits(q)'
           /\ \A x \in Workers :
                AttemptFits(x, q) /\ worker'[x] = worker[x] => AttemptFits(x, q)'
<1>1. {"ask", "note", "answer"} \subseteq Kinds
  BY DEF Kinds
<1>2. /\ \A i \in Nat : Of(q, i)' <=> Of(q, i)
      /\ \A i \in Nat : Says(q, i, "ask")' <=> Says(q, i, "ask")
      /\ \A i \in Nat : Says(q, i, "note")' <=> Says(q, i, "note")
      /\ \A i \in Nat : Says(q, i, "answer")' <=> Says(q, i, "answer")
      /\ Interrupted(q) => Interrupted(q)'
  BY <1>1 DEF SaysSame
<1>3. ASSUME run'[q].result = "answer" =>
               run[q].result = "answer" \/ \E i \in Nat : Says(q, i, "answer")
      PROVE  BoundaryFits(q)'
  BY <1>2, <1>3 DEF BoundaryFits
<1>4. ASSUME NEW x \in Workers, AttemptFits(x, q), worker'[x] = worker[x]
      PROVE  AttemptFits(x, q)'
  BY <1>2, <1>4 DEF AttemptFits
<1> QED
  BY <1>3, <1>4

Knowing ==
    /\ \A r \in Runs : BoundaryFits(r)
    /\ \A w \in Workers, r \in Runs : worker[w].run = r => AttemptFits(w, r)

(* Steps that touch neither a transcript nor a boundary, and after which the *)
(* attempts that moved know what they should.                                *)
LEMMA QuietStep ==
    ASSUME Knowing, UNCHANGED <<log, turnUserSeq>>,
           \A r \in Runs : run'[r].result = "answer" =>
               run[r].result = "answer" \/ \E i \in Nat : Says(r, i, "answer"),
           \A x \in Workers, q \in Runs : worker'[x].run = q =>
               worker'[x] = worker[x] \/ AttemptFits(x, q)'
    PROVE  Knowing'
<1>1. \A q \in Runs : SaysSame(q) /\ turnUserSeq'[q] = turnUserSeq[q]
  BY LogStays DEF SaysSame
<1>2. ASSUME NEW q \in Runs
      PROVE  BoundaryFits(q)'
  BY <1>1, Bystander DEF Knowing
<1>3. ASSUME NEW x \in Workers, NEW q \in Runs, worker'[x].run = q
      PROVE  AttemptFits(x, q)'
  <2>1. CASE worker'[x] = worker[x]
    <3>1. AttemptFits(x, q)
      BY <1>3, <2>1 DEF Knowing
    <3> QED
      BY <1>1, <2>1, <3>1, Bystander DEF Knowing
  <2> QED
    BY <1>3, <2>1
<1> QED
  BY <1>2, <1>3 DEF Knowing

(* A step of an attempt that writes nothing.                                 *)
LEMMA SilentTurn ==
    ASSUME ShapeInv, OrderInv, Knowing, NEW w \in Workers, NEW r \in Runs,
           worker[w].run = r, run[r].status = "running", worker[w].pc # "idle",
           OnlyTurn(w), "note_lost" \notin Faults,
           Moves(w) \/ Reads(w) \/ Takes(w) \/ Unlocks(w)
    PROVE  AttemptFits(w, r)'
<1>1. /\ worker[w] \in Attempt /\ log \in [Sessions -> Seq(Entry)]
      /\ turnUserSeq \in [Runs -> Nat] /\ AttemptFits(w, r) /\ BoundaryFits(r)
  BY DEF ShapeInv, ExecTypeOK, Knowing
<1>2. UNCHANGED <<log, turnUserSeq>>
  BY DEF Moves, Reads, Takes, Unlocks, sessionVars
<1>3. /\ \A i \in Nat : Of(r, i)' <=> Of(r, i)
      /\ \A i \in Nat : Says(r, i, "ask")' <=> Says(r, i, "ask")
      /\ \A i \in Nat : Says(r, i, "note")' <=> Says(r, i, "note")
      /\ \A i \in Nat : Says(r, i, "answer")' <=> Says(r, i, "answer")
      /\ Interrupted(r)' <=> Interrupted(r)
  BY <1>2, LogStays DEF Kinds
<1>4. worker'[w].number = worker[w].number /\ worker[w].number \in Nat
  BY <1>1 DEF OnlyTurn, SameRun, Attempt
<1>5. CASE Moves(w)
  <2>1. /\ worker'[w].recorded = worker[w].recorded
        /\ worker'[w].result = worker[w].result
    BY <1>5 DEF Moves, Kept
  <2>2. worker'[w].pc = "backfill" => worker[w].pc = "ask" /\ turnUserSeq[r] = 0
    BY <1>1, <1>5, Resuming DEF Moves
  <2>3. worker'[w].pc \in {"start", "fail", "abandon", "erred", "backfill"}
    BY <1>5 DEF Moves
  <2>4. worker'[w].pc = "start" => worker[w].pc = "claimed"
    BY <1>5 DEF Moves
  <2> QED
    BY <1>1, <1>2, <1>3, <1>4, <2>1, <2>2, <2>3, <2>4 DEF AttemptFits
<1>6. CASE Reads(w)
  <2>1. /\ worker[w].pc = "start"
        /\ worker'[w].recorded = IF worker[w].number > 1 THEN RecordedTurn(r) ELSE "none"
        /\ worker'[w].recorded = "answer" =>
             worker'[w].pc = "complete" /\ worker'[w].result = "answer"
        /\ worker'[w].recorded # "answer" =>
             worker'[w].pc = "acquire" /\ worker'[w].result = "none"
    BY <1>6 DEF Reads
  <2>2. /\ RecordedTurn(r) = "answer" => \E i \in Nat : Says(r, i, "answer")
        /\ RecordedTurn(r) # "answer" =>
             Interrupted(r) \/ \A i \in Nat : ~Says(r, i, "answer")
        /\ RecordedTurn(r) = "none" <=> turnUserSeq[r] = 0
    BY <1>1, ReadBack DEF OrderInv, Knowing
  <2>3. CASE worker[w].number > 1
    BY <1>2, <1>3, <1>4, <2>1, <2>2, <2>3 DEF AttemptFits
  <2>4. CASE worker[w].number <= 1
    <3>1. \A i \in Nat : ~Of(r, i)
      BY <1>1, <2>1, <2>4 DEF AttemptFits
    <3>2. turnUserSeq[r] = 0 /\ \A i \in Nat : ~Says(r, i, "answer")
      BY <1>1, <3>1 DEF BoundaryFits, Says
    <3>3. worker'[w].recorded = "none"
      BY <1>4, <2>1, <2>4
    <3> QED
      BY <1>2, <1>3, <1>4, <2>1, <3>1, <3>2, <3>3 DEF AttemptFits
  <2> QED
    BY <1>4, <2>3, <2>4
<1>7. CASE Takes(w)
  BY <1>1, <1>2, <1>3, <1>4, <1>7 DEF Takes, AttemptFits
<1>8. CASE Unlocks(w)
  <2>1. /\ worker'[w].recorded = worker[w].recorded
        /\ worker'[w].result = worker[w].result
        /\ \/ worker[w].pc = "unlock" /\ worker'[w].pc = "complete"
           \/ worker[w].pc = "abandon" /\ worker'[w].pc = "fail"
    BY <1>8 DEF Unlocks, Kept
  <2> QED
    BY <1>1, <1>2, <1>3, <1>4, <2>1 DEF AttemptFits
<1> QED
  BY <1>5, <1>6, <1>7, <1>8

(* Storing the boundary of a turn.                                           *)
LEMMA NotedTurn ==
    ASSUME ShapeInv, Knowing, NEW w \in Workers, NEW r \in Runs,
           worker[w].run = r, OnlyTurn(w), Notes(w)
    PROVE  /\ BoundaryFits(r)' /\ AttemptFits(w, r)'
           /\ \A q \in Runs \ {r} : SaysSame(q) /\ turnUserSeq'[q] = turnUserSeq[q]
<1>1. /\ worker[w] \in Attempt /\ turnUserSeq \in [Runs -> Nat]
      /\ AttemptFits(w, r) /\ BoundaryFits(r)
  BY DEF ShapeInv, ExecTypeOK, Knowing
<1>2. /\ UNCHANGED log /\ worker[w].pc = "note" /\ worker'[w].pc = "answer"
      /\ worker'[w].number = worker[w].number
      /\ worker'[w].recorded = worker[w].recorded
      /\ worker'[w].result = worker[w].result
      /\ turnUserSeq' = IF turnUserSeq[r] = 0
                        THEN [turnUserSeq EXCEPT ![r] = worker[w].seq]
                        ELSE turnUserSeq
      /\ UNCHANGED run
  BY DEF Notes, Kept, SameRun, OnlyTurn, queueVars
<1>3. worker[w].seq \in Nat
  BY <1>1 DEF Attempt
<1>4. /\ turnUserSeq'[r] = IF turnUserSeq[r] = 0 THEN worker[w].seq ELSE turnUserSeq[r]
      /\ \A q \in Runs \ {r} : turnUserSeq'[q] = turnUserSeq[q]
  BY <1>1, <1>2
<1>5. /\ \A i \in Nat : Of(r, i)' <=> Of(r, i)
      /\ \A i \in Nat : Says(r, i, "ask")' <=> Says(r, i, "ask")
      /\ \A i \in Nat : Says(r, i, "note")' <=> Says(r, i, "note")
      /\ \A i \in Nat : Says(r, i, "answer")' <=> Says(r, i, "answer")
      /\ Interrupted(r)' <=> Interrupted(r)
      /\ \A q \in Runs : SaysSame(q)
  BY <1>2, LogStays DEF Kinds, SaysSame
<1>6. CASE turnUserSeq[r] = 0
  <2>1. turnUserSeq'[r] = worker[w].seq
    BY <1>4, <1>6
  <2>2. \A i \in Nat : ~Says(r, i, "answer")
    BY <1>1, <1>6 DEF BoundaryFits
  <2>3. PICK b \in Nat : b = worker[w].seq
    BY <1>3
  <2>4. /\ b # 0
        /\ Says(r, b, "ask") \/ Says(r, b, "note")
        /\ \A j \in Nat : Says(r, j, "ask") => j <= b
    BY <1>1, <1>2, <2>3 DEF AttemptFits
  <2>5. BoundaryFits(r)'
    BY <1>1, <1>2, <1>5, <2>1, <2>2, <2>3, <2>4 DEF BoundaryFits
  <2>6. AttemptFits(w, r)'
    BY <1>1, <1>2, <1>5, <2>1, <2>3, <2>4 DEF AttemptFits
  <2> QED
    BY <1>4, <1>5, <2>5, <2>6
<1>7. CASE turnUserSeq[r] # 0
  <2>1. turnUserSeq'[r] = turnUserSeq[r]
    BY <1>4, <1>7
  <2>2. BoundaryFits(r)'
    BY <1>1, <1>2, <1>5, <2>1 DEF BoundaryFits
  <2>3. AttemptFits(w, r)'
    BY <1>1, <1>2, <1>5, <1>7, <2>1 DEF AttemptFits
  <2> QED
    BY <1>4, <1>5, <2>2, <2>3
<1> QED
  BY <1>6, <1>7

(* Writing an entry.                                                         *)
LEMMA WrittenTurn ==
    ASSUME ShapeInv, OrderInv, Knowing, NEW w \in Workers, NEW r \in Runs,
           worker[w].run = r, OnlyTurn(w), NEW kind \in Kinds, Writes(w, kind)
    PROVE  /\ BoundaryFits(r)' /\ AttemptFits(w, r)'
           /\ \A q \in Runs \ {r} : SaysSame(q) /\ turnUserSeq'[q] = turnUserSeq[q]
<1>1. /\ worker[w] \in Attempt /\ turnUserSeq \in [Runs -> Nat]
      /\ log \in [Sessions -> Seq(Entry)]
      /\ AttemptFits(w, r) /\ BoundaryFits(r) /\ InItsSession
  BY DEF ShapeInv, ExecTypeOK, Knowing, OrderInv
<1>2. /\ UNCHANGED <<turnUserSeq, run>>
      /\ worker'[w].number = worker[w].number
      /\ worker'[w].recorded = worker[w].recorded
      /\ worker[w].number \in Nat /\ worker'[w].seq \in Nat
  BY <1>1 DEF Writes, SameRun, OnlyTurn, queueVars, Attempt
<1>3. PICK n \in Nat : Len(log'[SessionOf[r]]) = n + 1 /\ Wrote(r, kind, n)
  BY <1>1, LogGrows
<1>4. /\ \A i \in Nat : Of(r, i)' <=> Of(r, i) \/ i = n + 1
      /\ \A i \in Nat : \A k \in Kinds :
           Says(r, i, k)' <=> Says(r, i, k) \/ (i = n + 1 /\ k = kind)
      /\ \A i \in Nat : Of(r, i) => i <= n /\ i # 0
      /\ Interrupted(r) => Interrupted(r)'
      /\ \A q \in Runs \ {r} : SaysSame(q)
  BY <1>3 DEF Wrote, SaysSame
<1>5. /\ \A i \in Nat :
           Says(r, i, "ask")' <=> Says(r, i, "ask") \/ (i = n + 1 /\ kind = "ask")
      /\ \A i \in Nat :
           Says(r, i, "note")' <=> Says(r, i, "note") \/ (i = n + 1 /\ kind = "note")
      /\ \A i \in Nat :
           Says(r, i, "answer")' <=> Says(r, i, "answer") \/ (i = n + 1 /\ kind = "answer")
  BY <1>4 DEF Kinds
<1>6. /\ \A i \in Nat : Says(r, i, "ask") => i <= n
      /\ \A i \in Nat : Says(r, i, "answer") => i <= n
      /\ turnUserSeq[r] \in Nat /\ turnUserSeq[r] <= n
  BY <1>1, <1>4 DEF Says, BoundaryFits
<1>7. CASE worker[w].pc = "ask"
  <2>1. /\ kind = (IF Resumes(w) THEN "note" ELSE "ask")
        /\ worker'[w].pc = "note" /\ worker'[w].result = worker[w].result
        /\ worker'[w].seq = Len(log'[Session(w)])
    BY <1>7 DEF Writes
  <2>2. worker'[w].seq = n + 1
    BY <1>3, <2>1 DEF Session
  <2>3. /\ kind = "ask" => turnUserSeq[r] = 0
        /\ kind = "note" => \E i \in Nat : Says(r, i, "ask")
        /\ kind \in {"ask", "note"}
    BY <1>1, <1>7, <2>1, Resuming
  <2>4. BoundaryFits(r)'
    <3>1. \A b \in Nat : turnUserSeq'[r] = b /\ b # 0 =>
            /\ Says(r, b, "ask")' \/ Says(r, b, "note")'
            /\ \A j \in Nat : Says(r, j, "ask")' => j <= b
      BY <1>1, <1>2, <1>5, <2>3 DEF BoundaryFits
    <3>2. \A i \in Nat : Says(r, i, "answer")' =>
            turnUserSeq'[r] # 0 /\ turnUserSeq'[r] < i
      BY <1>1, <1>2, <1>5, <2>3 DEF BoundaryFits
    <3>3. \A i \in Nat : Says(r, i, "answer")' \/ Says(r, i, "note")' =>
            \E j \in Nat : j < i /\ Says(r, j, "ask")'
      <4>1. kind = "note" => \E j \in Nat : j < n + 1 /\ Says(r, j, "ask")
        BY <1>6, <2>3
      <4> QED
        BY <1>1, <1>5, <2>3, <4>1 DEF BoundaryFits
    <3>4. \A i, j \in Nat : Says(r, i, "answer")' /\ Says(r, j, "answer")' =>
            i = j \/ Interrupted(r)'
      BY <1>1, <1>4, <1>5, <2>3 DEF BoundaryFits
    <3>5. run'[r].result = "answer" => \E i \in Nat : Says(r, i, "answer")'
      BY <1>1, <1>2, <1>5 DEF BoundaryFits
    <3> QED
      BY <3>1, <3>2, <3>3, <3>4, <3>5 DEF BoundaryFits
  <2>5. AttemptFits(w, r)'
    <3>1. \E i \in Nat : Says(r, i, "ask")'
      BY <1>5, <2>3
    <3>2. /\ Says(r, n + 1, "ask")' \/ Says(r, n + 1, "note")'
          /\ n + 1 # 0 /\ n + 1 \in Nat
          /\ \A j \in Nat : Says(r, j, "ask")' => j <= n + 1
      BY <1>5, <1>6, <2>3
    <3>3. Interrupted(r)' \/ \A i \in Nat : ~Says(r, i, "answer")'
      BY <1>1, <1>4, <1>5, <1>7, <2>3 DEF AttemptFits
    <3>4. worker'[w].result = "answer" => \E i \in Nat : Says(r, i, "answer")'
      BY <1>1, <1>5, <2>1 DEF AttemptFits
    <3>5. worker'[w].number <= 1 => worker'[w].recorded = "none"
      BY <1>1, <1>2 DEF AttemptFits
    <3> QED
      BY <2>1, <2>2, <3>1, <3>2, <3>3, <3>4, <3>5 DEF AttemptFits
  <2> QED
    BY <1>2, <1>4, <2>4, <2>5
<1>8. CASE worker[w].pc = "answer"
  <2>1. kind = "answer" /\ worker'[w].pc = "unlock" /\ worker'[w].result = "answer"
    BY <1>8 DEF Writes
  <2>2. /\ turnUserSeq[r] # 0 /\ \E i \in Nat : Says(r, i, "ask")
        /\ Interrupted(r) \/ \A i \in Nat : ~Says(r, i, "answer")
    BY <1>1, <1>8 DEF AttemptFits
  <2>3. Says(r, n + 1, "answer")' /\ n + 1 \in Nat
    BY <1>5, <2>1
  <2>4. BoundaryFits(r)'
    <3>1. \A b \in Nat : turnUserSeq'[r] = b /\ b # 0 =>
            /\ Says(r, b, "ask")' \/ Says(r, b, "note")'
            /\ \A j \in Nat : Says(r, j, "ask")' => j <= b
      BY <1>1, <1>2, <1>5, <2>1 DEF BoundaryFits
    <3>2. \A i \in Nat : Says(r, i, "answer")' =>
            turnUserSeq'[r] # 0 /\ turnUserSeq'[r] < i
      BY <1>1, <1>2, <1>5, <1>6, <2>2 DEF BoundaryFits
    <3>3. \A i \in Nat : Says(r, i, "answer")' \/ Says(r, i, "note")' =>
            \E j \in Nat : j < i /\ Says(r, j, "ask")'
      <4>1. \E j \in Nat : j < n + 1 /\ Says(r, j, "ask")
        BY <1>6, <2>2
      <4> QED
        BY <1>1, <1>5, <2>1, <4>1 DEF BoundaryFits
    <3>4. \A i, j \in Nat : Says(r, i, "answer")' /\ Says(r, j, "answer")' =>
            i = j \/ Interrupted(r)'
      BY <1>1, <1>4, <1>5, <2>2 DEF BoundaryFits
    <3> QED
      BY <2>3, <3>1, <3>2, <3>3, <3>4 DEF BoundaryFits
  <2>5. AttemptFits(w, r)'
    BY <1>1, <1>2, <2>1, <2>3 DEF AttemptFits
  <2> QED
    BY <1>2, <1>4, <2>4, <2>5
<1>9. CASE worker[w].pc = "backfill" \/ worker[w].pc = "erred"
  <2>1. /\ worker'[w].result = worker[w].result
        /\ worker'[w].pc \in {"erred", "abandon"}
        /\ kind = "ask" => worker[w].pc = "backfill"
        /\ kind \in {"ask", "failure"}
    BY <1>9 DEF Writes
  <2>2. kind = "ask" => turnUserSeq[r] = 0
    BY <1>1, <2>1 DEF AttemptFits
  <2>3. BoundaryFits(r)'
    BY <1>1, <1>2, <1>4, <1>5, <2>1, <2>2 DEF BoundaryFits
  <2>4. AttemptFits(w, r)'
    BY <1>1, <1>2, <1>5, <2>1 DEF AttemptFits
  <2> QED
    BY <1>2, <1>4, <2>3, <2>4
<1> QED
  BY <1>7, <1>8, <1>9 DEF Writes

(* Boundaries and attempts stay right.                                       *)
LEMMA KnowingKept ==
    ASSUME ShapeInv, CalmInv, OrderInv, Knowing, CalmKinds,
           "note_lost" \notin Faults
    PROVE  Knowing'
<1>0. /\ OwnersInv /\ 0 \notin Runs /\ Idle.run = 0
      /\ worker \in [Workers -> Attempt] /\ run \in [Runs -> Row]
  BY RunExecutionAssumption DEF CalmInv, OwnersInv, Idle, ShapeInv, ExecTypeOK
<1>1. ASSUME NEW w \in Workers, Continues(w)
      PROVE  Knowing'
  <2>1. PICK r \in Runs : worker[w].run = r /\ run[r].status = "running"
    BY <1>0, <1>1 DEF Continues, ShapeInv, CallsFit, OwnersInv, WorkersOwn, OwnsRun
  <2>2. /\ worker[w].pc # "idle" /\ OnlyTurn(w) /\ TurnEffect(w)
        /\ UNCHANGED run /\ worker'[w].run = r
        /\ \A x \in Workers \ {w} : worker'[x] = worker[x] /\ worker[x].run # r
    BY <1>0, <1>1, <2>1 DEF Continues, OnlyTurn, SameRun, queueVars, OwnersInv,
       WorkersOwn
  <2>3. ~IsRefused(w)
    BY <1>0, NotRefused DEF IsRefused, CalmInv
  <2>4. CASE Moves(w) \/ Reads(w) \/ Takes(w) \/ Unlocks(w)
    <3>1. AttemptFits(w, r)'
      BY <2>1, <2>2, <2>4, SilentTurn
    <3>2. UNCHANGED <<log, turnUserSeq>>
      BY <2>4 DEF Moves, Reads, Takes, Unlocks, sessionVars
    <3>3. \A x \in Workers, q \in Runs : worker'[x].run = q =>
            worker'[x] = worker[x] \/ AttemptFits(x, q)'
      BY <2>2, <3>1
    <3> QED
      BY <2>2, <3>2, <3>3, QuietStep
  <2>5. ASSUME BoundaryFits(r)', AttemptFits(w, r)',
               \A q \in Runs \ {r} : SaysSame(q) /\ turnUserSeq'[q] = turnUserSeq[q]
        PROVE  Knowing'
    <3>1. ASSUME NEW q \in Runs
          PROVE  BoundaryFits(q)'
      <4>1. CASE q = r
        BY <2>5, <4>1
      <4>2. CASE q # r
        BY <2>2, <2>5, <4>2, Bystander DEF Knowing
      <4> QED
        BY <4>1, <4>2
    <3>2. ASSUME NEW x \in Workers, NEW q \in Runs, worker'[x].run = q
          PROVE  AttemptFits(x, q)'
      <4>1. CASE x = w
        BY <2>2, <2>5, <3>2, <4>1
      <4>2. CASE x # w
        <5>1. worker'[x] = worker[x] /\ q # r
          BY <2>2, <3>2, <4>2
        <5>2. AttemptFits(x, q)
          BY <3>2, <5>1 DEF Knowing
        <5> QED
          BY <2>5, <5>1, <5>2, Bystander DEF Knowing
      <4> QED
        BY <4>1, <4>2
    <3> QED
      BY <3>1, <3>2 DEF Knowing
  <2>6. CASE Notes(w)
    BY <2>1, <2>2, <2>5, <2>6, NotedTurn
  <2>7. ASSUME NEW kind \in Kinds, Writes(w, kind)
        PROVE  Knowing'
    BY <2>1, <2>2, <2>5, <2>7, WrittenTurn
  <2> QED
    BY <2>2, <2>3, <2>4, <2>6, <2>7 DEF TurnEffect
<1>2. ASSUME UNCHANGED <<log, turnUserSeq, worker>>,
             UNCHANGED run \/ \E r \in Runs : RowMoves(r)
      PROVE  Knowing'
  <2>1. \A q \in Runs : run'[q].result = "answer" =>
          run[q].result = "answer" \/ \E i \in Nat : Says(q, i, "answer")
    <3>1. ASSUME NEW r \in Runs, RowMoves(r), NEW q \in Runs, run'[q].result = "answer"
          PROVE  run[q].result = "answer" \/ \E i \in Nat : Says(q, i, "answer")
      BY <3>1 DEF RowMoves, Same, Knowing, AttemptFits
    <3> QED
      BY <1>2, <3>1
  <2> QED
    BY <1>2, <2>1, QuietStep
<1>3. ASSUME NEW w \in Workers, Finishes(w) \/ Perishes(w)
      PROVE  Knowing'
  <2>1. /\ worker' = [worker EXCEPT ![w] = Idle] /\ UNCHANGED <<log, turnUserSeq>>
    BY <1>3 DEF Finishes, Perishes, sessionVars
  <2>2. \A x \in Workers, q \in Runs : worker'[x].run = q => worker'[x] = worker[x]
    BY <1>0, <2>1
  <2>3. \A q \in Runs : run'[q].result = "answer" =>
          run[q].result = "answer" \/ \E i \in Nat : Says(q, i, "answer")
    <3>1. ASSUME NEW r \in Runs, RowMoves(r), NEW q \in Runs, run'[q].result = "answer"
          PROVE  run[q].result = "answer" \/ \E i \in Nat : Says(q, i, "answer")
      BY <3>1 DEF RowMoves, Same, Knowing, AttemptFits
    <3> QED
      BY <1>0, <3>1, RowMove
  <2> QED
    BY <2>1, <2>2, <2>3, QuietStep
<1>4. ASSUME NEW w \in Workers, NEW r \in Runs, Claims(w, r)
      PROVE  Knowing'
  <2>1. /\ UNCHANGED <<log, turnUserSeq>> /\ ClaimedFor(w, r) /\ OnlyRow(r)
        /\ run'[r].attempts = run[r].attempts + 1 /\ run'[r].result = run[r].result
    BY <1>4 DEF Claims, sessionVars
  <2>2. /\ worker'[w].pc = "claimed" /\ worker'[w].run = r
        /\ worker'[w].number = run[r].attempts + 1
        /\ worker'[w].recorded = "none" /\ worker'[w].result = "none"
        /\ \A x \in Workers \ {w} : worker'[x] = worker[x]
    BY <1>0, <2>1 DEF ClaimedFor
  <2>3. \A q \in Runs : run'[q].result = run[q].result
    BY <1>0, <2>1 DEF OnlyRow
  <2>4. run[r].attempts \in Nat
    <3>1. run[r] \in Row
      BY <1>0
    <3> QED
      BY <3>1 DEF Row
  <2>5. worker'[w].number <= 1 => \A i \in Nat : ~Of(r, i)
    BY <2>2, <2>4 DEF OrderInv, ClaimedFirst
  <2>6. worker'[w].number <= 1 => \A i \in Nat : ~Of(r, i)'
    BY <2>1, <2>5, LogStays
  <2>7. AttemptFits(w, r)'
    BY <2>2, <2>6 DEF AttemptFits
  <2>8. \A x \in Workers, q \in Runs : worker'[x].run = q =>
          worker'[x] = worker[x] \/ AttemptFits(x, q)'
    BY <2>2, <2>7
  <2> QED
    BY <2>1, <2>3, <2>8, QuietStep
<1>5. ASSUME NEW p \in Reapers,
             \/ ReaperUnlock(p) \/ Retires(p) \/ ReaperDies(p)
             \/ \E r \in Runs : Fences(p, r)
      PROVE  UNCHANGED <<log, turnUserSeq, worker>>
  BY <1>5 DEF ReaperUnlock, Retires, ReaperDies, Fences, sessionVars, attemptVars
<1>6. ASSUME NEW r \in Runs, Outside(r)
      PROVE  UNCHANGED <<log, turnUserSeq, worker>>
  BY <1>6 DEF Outside, sessionVars, attemptVars
<1>7. ASSUME NEW s \in Sessions, SessionLeaseLapses(s)
      PROVE  UNCHANGED <<log, turnUserSeq, worker>>
  BY <1>7 DEF SessionLeaseLapses, attemptVars
<1> QED
  BY <1>0, <1>1, <1>2, <1>3, <1>4, <1>5, <1>6, <1>7, RowMove DEF CalmKinds

(* The answers' invariant survives every step.                               *)
LEMMA AnswerStep ==
    ASSUME Calm, "note_lost" \notin Faults, WriterInv, CalmInv, AnswerInv,
           [ExecNext]_execVars
    PROVE  AnswerInv'
<1>1. ShapeInv /\ OwnersInv /\ OrderInv /\ Knowing
  BY DEF WriterInv, CalmInv, OwnersInv, AnswerInv, OrderInv, Knowing
<1>2. CASE ExecNext
  <2>1. CalmKinds
    BY <1>1, <1>2, ExecSteps, CalmSteps DEF OwnersInv
  <2>2. OrderInv' /\ Knowing'
    BY <1>1, <2>1, NestedKept, KnowingKept
  <2> QED
    BY <2>2 DEF AnswerInv, OrderInv, Knowing
<1>3. CASE UNCHANGED execVars
  <2>1. UNCHANGED <<run, worker, log, turnUserSeq>>
    BY <1>3 DEF execVars, queueVars, attemptVars, sessionVars
  <2>2. OrderInv'
    <3>1. InItsSession' /\ \A q \in Runs : \A i \in Nat : Of(q, i)' <=> Of(q, i)
      BY <1>1, <2>1, LogStays DEF OrderInv
    <3>2. \A q \in Runs : Unfinished(q)' <=> Unfinished(q)
      BY <2>1 DEF Unfinished
    <3>3. ClaimedFirst' /\ WaitingLater'
      BY <1>1, <2>1, <3>1 DEF OrderInv, ClaimedFirst, WaitingLater
    <3>4. Nested'
      BY <1>1, <3>1, <3>2 DEF OrderInv, Nested, Siblings
    <3> QED
      BY <3>1, <3>3, <3>4 DEF OrderInv
  <2>3. Knowing'
    BY <1>1, <2>1, QuietStep
  <2> QED
    BY <2>2, <2>3 DEF AnswerInv, OrderInv, Knowing
<1> QED
  BY <1>2, <1>3

(* The answers' invariant holds initially.                                   *)
LEMMA AnswerStart == ExecInit => AnswerInv
<1> SUFFICES ASSUME ExecInit PROVE AnswerInv
  OBVIOUS
<1>1. /\ \A w \in Workers : worker[w] = Idle
      /\ \A r \in Runs : run[r] = NewRow /\ turnUserSeq[r] = 0
      /\ \A s \in Sessions : log[s] = <<>>
  BY DEF ExecInit, QueueInit
<1>2. /\ Idle.run = 0 /\ 0 \notin Runs /\ NewRow.status = "unborn"
      /\ NewRow.attempts = 0 /\ NewRow.result = "none"
  BY RunExecutionAssumption DEF Idle, NewRow
<1>3. \A r \in Runs : \A i \in Nat : ~Of(r, i)
  BY <1>1, RunRowAssumption DEF Of
<1>4. ClaimedFirst /\ WaitingLater /\ Nested
  BY <1>1, <1>2, <1>3 DEF ClaimedFirst, WaitingLater, Nested, Siblings
<1>5. InItsSession
  BY <1>1 DEF InItsSession
<1>6. \A r \in Runs : BoundaryFits(r)
  BY <1>1, <1>2, <1>3 DEF BoundaryFits, Says
<1> QED
  BY <1>1, <1>2, <1>4, <1>5, <1>6 DEF AnswerInv

(* Turns nest, boundaries fit and attempts know what they left behind, in a  *)
(* calm environment that stores the boundaries.                              *)
THEOREM AnswerInvariant ==
    ASSUME Calm, "note_lost" \notin Faults
    PROVE  ExecSpec => [](WriterInv /\ CalmInv /\ AnswerInv)
<1>1. ExecInit => WriterInv /\ CalmInv /\ AnswerInv
  BY WriterStart, CalmStart, AnswerStart
<1>2. WriterInv /\ CalmInv /\ AnswerInv /\ [ExecNext]_execVars
      => WriterInv' /\ CalmInv' /\ AnswerInv'
  BY WriterStep, CalmStep, AnswerStep
<1> QED
  BY <1>1, <1>2, PTL DEF ExecSpec

(* A run reported as answered has its own answer in the transcript: turnAtSeq *)
(* never replays a sibling's, because a sibling that answers past a run's    *)
(* boundary without asking there would have been interrupted by a run that   *)
(* is still open.                                                            *)
THEOREM AnsweredRunHasItsAnswerAlways ==
    ASSUME Calm, "note_lost" \notin Faults
    PROVE  ExecSpec => []AnsweredRunHasItsAnswer
<1>1. AnswerInv => AnsweredRunHasItsAnswer
  BY DEF AnswerInv, BoundaryFits, AnsweredRunHasItsAnswer, Says, Of
<1> QED
  BY <1>1, AnswerInvariant, PTL

(* No run is answered twice, wherever its attempts and the reapers crash,    *)
(* unless another run's turn came between two of its attempts.               *)
THEOREM AnsweredAtMostOnceAlways ==
    ASSUME Calm, "note_lost" \notin Faults
    PROVE  ExecSpec => []AnsweredAtMostOnce
<1>1. ASSUME WriterInv, AnswerInv
      PROVE  AnsweredAtMostOnce
  <2> SUFFICES ASSUME NEW r \in Runs, ~Interrupted(r)
               PROVE  Cardinality(Answers(r)) <= 1
    BY DEF AnsweredAtMostOnce
  <2>1. log[SessionOf[r]] \in Seq(Entry)
    BY <1>1, RunRowAssumption DEF WriterInv, ShapeInv, ExecTypeOK
  <2>2. \A i \in Answers(r) : i \in Nat /\ Says(r, i, "answer")
    BY <2>1 DEF Answers, Says, Of
  <2>3. \A i, j \in Answers(r) : i = j
    BY <1>1, <2>2 DEF AnswerInv, BoundaryFits
  <2>4. CASE Answers(r) = {}
    BY <2>4, FS_EmptySet
  <2>5. ASSUME NEW i \in Answers(r)
        PROVE  Cardinality(Answers(r)) <= 1
    <3>1. Answers(r) = {i}
      BY <2>3
    <3>2. Cardinality({i}) = 1
      BY FS_Singleton, Zenon
    <3> QED
      BY <3>1, <3>2
  <2> QED
    BY <2>4, <2>5
<1> QED
  BY <1>1, AnswerInvariant, PTL
=============================================================================
