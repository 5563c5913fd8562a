---------------------------- MODULE RunExecution ----------------------------
(***************************************************************************)
(* Executing queued runs: workers (src/runs/worker.ts) take runs from the  *)
(* queue and drive each attempt's turn (the part of src/core/orchestrator  *)
(* .ts that touches shared state), under the session's write lease and     *)
(* into the session's transcript (src/sessions/postgres-session-store.ts); *)
(* reapers (src/runs/reaper.ts) take over the runs of dead workers; a      *)
(* shutting-down worker hands its run back.                                *)
(*                                                                         *)
(* The queue is RunQueue: every operation on it is one step, which         *)
(* StoreImplementsQueue justifies for the PostgreSQL store.  A transaction *)
(* of the session store is one step.  Everything between two steps of an   *)
(* attempt is open to every other worker, reaper, crash and expiry.        *)
(*                                                                         *)
(* Crashes of workers and reapers are always possible.  Faults selects the *)
(* further ways in which the environment may misbehave:                    *)
(*   "stall"     a live process misses its beats, so its leases lapse;     *)
(*   "drain"     a process is told to stop and hands its run back;         *)
(*   "note_lost" the write of a turn's boundary fails, which is swallowed; *)
(*   "skew"      inserts land out of the order of their created_at.        *)
(***************************************************************************)
EXTENDS RunQueue, Sequences

CONSTANTS Workers,        \* worker slots, each filled by one process at a time
          Reapers,        \* processes that may run a reap sweep
          Faults,         \* the environment's faults, see above
          MaxReaperDeaths \* bound: reaper crashes in a behaviour

ASSUME RunExecutionAssumption ==
    /\ Faults \subseteq {"stall", "drain", "note_lost", "skew"}
    /\ MaxReaperDeaths \in Nat
    /\ 0 \notin Runs

VARIABLES
    worker,      \* the attempt each worker is executing
    stopped,     \* workers told to claim no more
    drain,       \* progress of each worker's releaseInFlight
    reaper,      \* the fenced run each reaper is retiring
    deaths,      \* reaper crashes so far
    lease,       \* session_leases: the write lease of each session
    leases,      \* session lease tokens issued so far, over all sessions
    log,         \* session_entries: the transcript of each session
    turnUserSeq  \* runs.turn_user_seq: where a run's turn begins, 0 if null

attemptVars == <<worker, stopped, drain>>
reaperVars == <<reaper, deaths>>
sessionVars == <<lease, leases, log, turnUserSeq>>
execVars == <<queueVars, attemptVars, reaperVars, sessionVars>>

(* An attempt, by the next shared step it takes: "claimed" and "start"       *)
(* before and after the run is registered as in flight, then the turn        *)
(* proper, the error path ("backfill", "erred", "abandon", "fail") and the   *)
(* success path ("unlock", "complete").                                      *)
Attempt == [pc : {"idle", "claimed", "start", "acquire", "ask", "note",
                  "answer", "unlock", "complete", "backfill", "erred",
                  "abandon", "fail"},
            run : Runs \cup {0}, token : Nat,
            number : Nat, final : BOOLEAN,
            recorded : {"none", "partial", "answer"},
            lease : Nat, seq : Nat,
            result : {"none", "answer", "session_busy"},
            retry : {"no", "later"}]

Idle == [pc |-> "idle", run |-> 0, token |-> NoToken, number |-> 0,
         final |-> FALSE, recorded |-> "none", lease |-> 0, seq |-> 0,
         result |-> "none", retry |-> "later"]

NoDrain == [pc |-> "none", run |-> 0, token |-> NoToken]
NoReap == [pc |-> "idle", run |-> 0, token |-> NoToken]

Entry == [kind : {"ask", "note", "answer", "failure"}, run : Runs, lease : Nat]

FreeLease == [token |-> 0, state |-> "none"]

ExecInit ==
    /\ QueueInit
    /\ worker = [w \in Workers |-> Idle]
    /\ stopped = {}
    /\ drain = [w \in Workers |-> NoDrain]
    /\ reaper = [p \in Reapers |-> NoReap]
    /\ deaths = 0
    /\ lease = [s \in Sessions |-> FreeLease]
    /\ leases = 0
    /\ log = [s \in Sessions |-> <<>>]
    /\ turnUserSeq = [r \in Runs |-> 0]

Session(w) == SessionOf[worker[w].run]

(* Mutant of HoldsLease: any unexpired lease on the session will do.         *)
HoldsAnyLease(w) == lease[Session(w)].state = "live"

(* withLease's test: the lease row still carries the token and is unexpired. *)
HoldsLease(w) == lease[Session(w)] = [token |-> worker[w].lease, state |-> "live"]

Append1(w, kind) ==
    log' = [log EXCEPT ![Session(w)] =
                Append(@, [kind |-> kind, run |-> worker[w].run,
                           lease |-> worker[w].lease])]

Goto(w, pc) == worker' = [worker EXCEPT ![w].pc = pc]

-----------------------------------------------------------------------------
(* Reading the transcript.                                                   *)

(* Mutant of AnsweredAt: the scan does not stop at the next user entry.      *)
AnsweredAnywhereAfter(s, seq) ==
    \E i \in seq + 1 .. Len(log[s]) : log[s][i].kind = "answer"

(* turnAtSeq: the answer between a turn's user entry and the next user entry *)
(* that is not a resume note.                                                *)
AnsweredAt(s, seq) ==
    \E i \in seq + 1 .. Len(log[s]) :
        /\ log[s][i].kind = "answer"
        /\ \A j \in seq + 1 .. i : log[s][j].kind # "ask"

(* Mutant of RecordedTurn: a recorded answer is not recognised.              *)
RecordedTurnIgnoringAnswers(r) ==
    IF turnUserSeq[r] = 0 THEN "none" ELSE "partial"

(* recordedTurnForRun: what earlier attempts of this run left behind.        *)
RecordedTurn(r) ==
    IF turnUserSeq[r] = 0 THEN "none"
    ELSE IF AnsweredAt(SessionOf[r], turnUserSeq[r]) THEN "answer"
    ELSE "partial"

(* findTrailingPartialTurn: the transcript ends in this run's ask, followed  *)
(* by no answer.  Runs of a session have different texts.                    *)
TrailingPartial(r) ==
    LET entries == log[SessionOf[r]]
    IN \E i \in 1 .. Len(entries) :
          /\ entries[i].kind = "ask" /\ entries[i].run = r
          /\ \A j \in i + 1 .. Len(entries) :
                 entries[j].kind \in {"note", "failure"}

(* A retry resumes with a system note instead of asking again.               *)
Resumes(w) ==
    /\ worker[w].number > 1
    /\ worker[w].recorded # "none" \/ TrailingPartial(worker[w].run)

-----------------------------------------------------------------------------
(* The queue's order: a claim takes the earliest run of its session, and     *)
(* none while a sibling waits for its retry.                                 *)
InOrder(r) ==
    \A s \in Siblings(r) : run[s].status = "pending" => s > r /\ s \notin backoff

EnqueueRun(r) ==
    /\ Enqueue(r)
    /\ "skew" \in Faults \/ \A s \in Siblings(r) :
           s < r => run[s].status # "unborn"
    /\ UNCHANGED <<attemptVars, reaperVars, sessionVars>>

WithdrawRun(r) ==
    /\ Withdraw(r)
    /\ UNCHANGED <<attemptVars, reaperVars, sessionVars>>

(* errorParks: an error of this attempt would park the run.                  *)
ErrorParks(row) == ~Retries(row, "later", 1)

ClaimRun(w, r) ==
    /\ worker[w].pc = "idle"
    /\ w \notin stopped
    /\ InOrder(r)
    /\ Claim(r)
    /\ worker' = [worker EXCEPT ![w] =
         [Idle EXCEPT !.pc = "claimed", !.run = r, !.token = run'[r].token,
                      !.number = run'[r].attempts,
                      !.final = ErrorParks(run'[r])]]
    /\ UNCHANGED <<stopped, drain, reaperVars, sessionVars>>

(* The claim returned after the worker was stopped: it is handed back.       *)
HandBack(w) ==
    /\ worker[w].pc = "claimed"
    /\ w \in stopped
    /\ \/ ReleaseLease(worker[w].run, worker[w].token)
       \/ ~Owns(worker[w].run, worker[w].token) /\ UNCHANGED queueVars
    /\ worker' = [worker EXCEPT ![w] = Idle]
    /\ UNCHANGED <<stopped, drain, reaperVars, sessionVars>>

Begin(w) ==
    /\ worker[w].pc = "claimed"
    /\ w \notin stopped
    /\ Goto(w, "start")
    /\ UNCHANGED <<queueVars, stopped, drain, reaperVars, sessionVars>>

(* A retry looks for its recorded turn before it takes the session's lease;  *)
(* an answer found there is replayed without taking it.                      *)
ReadRecorded(w) ==
    LET recorded == IF worker[w].number > 1 THEN RecordedTurn(worker[w].run)
                                            ELSE "none"
    IN /\ worker[w].pc = "start"
       /\ worker' = [worker EXCEPT
            ![w].recorded = recorded,
            ![w].pc = IF recorded = "answer" THEN "complete" ELSE "acquire",
            ![w].result = IF recorded = "answer" THEN "answer" ELSE "none"]
       /\ UNCHANGED <<queueVars, stopped, drain, reaperVars, sessionVars>>

(* acquireLease grants a free or expired lease ...                           *)
AcquireSession(w) ==
    /\ worker[w].pc = "acquire"
    /\ lease[Session(w)].state # "live"
    /\ leases' = leases + 1
    /\ lease' = [lease EXCEPT ![Session(w)] =
                    [token |-> leases + 1, state |-> "live"]]
    /\ worker' = [worker EXCEPT ![w].lease = leases + 1, ![w].pc = "ask"]
    /\ UNCHANGED <<queueVars, stopped, drain, reaperVars, log, turnUserSeq>>

(* ... and a turn does not wait for another turn: it is refused as busy.  It *)
(* would wait turnLeaseWaitMs for a background holder, and there is none here.*)
RefuseBusy(w) ==
    /\ worker[w].pc = "acquire"
    /\ lease[Session(w)].state = "live"
    /\ worker' = [worker EXCEPT ![w].result = "session_busy",
                                ![w].pc = "complete"]
    /\ UNCHANGED <<queueVars, stopped, drain, reaperVars, sessionVars>>

(* Where an attempt continues after an error thrown under its lease: only a  *)
(* final, non-cancelled error is recorded in the transcript, after the       *)
(* user's message if that was not appended yet and was already built.        *)
Throws(w, retry) ==
    LET recordsIt == retry = "no" \/ worker[w].final
        unasked == worker[w].pc = "ask" /\ ~Resumes(w)
        next == IF ~recordsIt THEN {"abandon"}
                ELSE IF unasked THEN {"backfill", "erred"}
                ELSE {"erred"}
    IN \E pc \in next :
          worker' = [worker EXCEPT ![w].pc = pc, ![w].retry = retry]

(* The turn's user entry: the message, or a note that resumes a partial turn.*)
AppendAsk(w) ==
    /\ worker[w].pc = "ask"
    /\ \/ /\ HoldsLease(w)
          /\ Append1(w, IF Resumes(w) THEN "note" ELSE "ask")
          /\ worker' = [worker EXCEPT ![w].seq = Len(log'[Session(w)]),
                                      ![w].pc = "note"]
       \/ ~HoldsLease(w) /\ Throws(w, "later") /\ UNCHANGED log
    /\ UNCHANGED <<queueVars, stopped, drain, reaperVars, lease, leases,
                   turnUserSeq>>

(* noteTurnUserSeq sets the boundary of a run's turn once.                   *)
NoteTurn(w) ==
    /\ worker[w].pc = "note"
    /\ turnUserSeq' = IF turnUserSeq[worker[w].run] = 0
                      THEN [turnUserSeq EXCEPT ![worker[w].run] = worker[w].seq]
                      ELSE turnUserSeq
    /\ Goto(w, "answer")
    /\ UNCHANGED <<queueVars, stopped, drain, reaperVars, lease, leases, log>>

NoteLost(w) ==
    /\ "note_lost" \in Faults
    /\ worker[w].pc = "note"
    /\ Goto(w, "answer")
    /\ UNCHANGED <<queueVars, stopped, drain, reaperVars, sessionVars>>

AppendAnswer(w) ==
    /\ worker[w].pc = "answer"
    /\ \/ /\ HoldsLease(w)
          /\ Append1(w, "answer")
          /\ worker' = [worker EXCEPT ![w].pc = "unlock", ![w].result = "answer"]
       \/ ~HoldsLease(w) /\ Throws(w, "later") /\ UNCHANGED log
    /\ UNCHANGED <<queueVars, stopped, drain, reaperVars, lease, leases,
                   turnUserSeq>>

(* The turn fails: before it has the lease, the error goes straight to       *)
(* fail(); under the lease, through the failure record and the unlock.       *)
TurnThrows(w, retry) ==
    /\ \/ /\ worker[w].pc \in {"start", "acquire"}
          /\ worker' = [worker EXCEPT ![w].pc = "fail", ![w].retry = retry]
       \/ worker[w].pc \in {"ask", "answer"} /\ Throws(w, retry)
    /\ UNCHANGED <<queueVars, stopped, drain, reaperVars, sessionVars>>

(* Three lost beats abort the turn; a cancelled turn records no failure.     *)
TurnAborts(w) ==
    /\ worker[w].pc \in {"ask", "answer"}
    /\ ~Owns(worker[w].run, worker[w].token)
    /\ Goto(w, "abandon")
    /\ UNCHANGED <<queueVars, stopped, drain, reaperVars, sessionVars>>

(* The failure's entries; an append without a valid lease is swallowed.      *)
RecordFailure(w) ==
    /\ \/ worker[w].pc = "backfill" /\ Goto(w, "erred")
          /\ (IF HoldsLease(w) THEN Append1(w, "ask") ELSE UNCHANGED log)
       \/ worker[w].pc = "erred" /\ Goto(w, "abandon")
          /\ (IF HoldsLease(w) THEN Append1(w, "failure") ELSE UNCHANGED log)
    /\ UNCHANGED <<queueVars, stopped, drain, reaperVars, lease, leases,
                   turnUserSeq>>

(* releaseLease deletes the lease row only if it still carries the token.    *)
LeaseAfterRelease(w) ==
    IF lease[Session(w)].token = worker[w].lease
    THEN [lease EXCEPT ![Session(w)] = FreeLease] ELSE lease

Unlock(w) ==
    /\ \/ worker[w].pc = "unlock" /\ Goto(w, "complete")
       \/ worker[w].pc = "abandon" /\ Goto(w, "fail")
    /\ lease' = LeaseAfterRelease(w)
    /\ UNCHANGED <<queueVars, stopped, drain, reaperVars, leases, log,
                   turnUserSeq>>

(* complete() under a lost lease changes nothing, and neither does the       *)
(* fail() that follows it.                                                   *)
CompleteRun(w) ==
    /\ worker[w].pc = "complete"
    /\ \/ Complete(worker[w].run, worker[w].token, worker[w].result)
       \/ ~Owns(worker[w].run, worker[w].token) /\ UNCHANGED queueVars
    /\ worker' = [worker EXCEPT ![w] = Idle]
    /\ UNCHANGED <<stopped, drain, reaperVars, sessionVars>>

FailRun(w) ==
    /\ worker[w].pc = "fail"
    /\ \/ Retire(worker[w].run, worker[w].token, worker[w].retry, 1)
       \/ ~Owns(worker[w].run, worker[w].token) /\ UNCHANGED queueVars
    /\ worker' = [worker EXCEPT ![w] = Idle]
    /\ UNCHANGED <<stopped, drain, reaperVars, sessionVars>>

-----------------------------------------------------------------------------
(* Shutdown: claims stop, and when the drain overruns, releaseInFlight hands *)
(* back the run in flight while its turn goes on.                            *)
Stop(w) ==
    /\ "drain" \in Faults
    /\ w \notin stopped
    /\ stopped' = stopped \cup {w}
    /\ UNCHANGED <<queueVars, worker, drain, reaperVars, sessionVars>>

InFlight(w) == worker[w].pc \notin {"idle", "claimed"}

DrainBeat(w) ==
    LET held == worker[w] IN
    /\ w \in stopped /\ InFlight(w)
    /\ drain[w].pc = "none"
    /\ \/ /\ Heartbeat(held.run, held.token)
          /\ drain' = [drain EXCEPT ![w] =
               [pc |-> "beaten", run |-> held.run, token |-> held.token]]
       \/ /\ ~Owns(held.run, held.token)
          /\ drain' = [drain EXCEPT ![w].pc = "done"]
          /\ UNCHANGED queueVars
    /\ UNCHANGED <<worker, stopped, reaperVars, sessionVars>>

DrainUnlock(w) ==
    /\ drain[w].pc = "beaten"
    /\ drain' = [drain EXCEPT ![w].pc = "unlocked"]
    /\ lease' = [lease EXCEPT ![SessionOf[drain[w].run]] = FreeLease]
    /\ UNCHANGED <<queueVars, worker, stopped, reaperVars, leases, log,
                   turnUserSeq>>

DrainRelease(w) ==
    /\ drain[w].pc = "unlocked"
    /\ \/ ReleaseLease(drain[w].run, drain[w].token)
       \/ ~Owns(drain[w].run, drain[w].token) /\ UNCHANGED queueVars
    /\ drain' = [drain EXCEPT ![w].pc = "done"]
    /\ UNCHANGED <<worker, stopped, reaperVars, sessionVars>>

(* The process exits or is killed; a fresh one takes its slot.               *)
WorkerDies(w) ==
    /\ worker[w].pc # "idle" \/ w \in stopped
    /\ worker' = [worker EXCEPT ![w] = Idle]
    /\ stopped' = stopped \ {w}
    /\ drain' = [drain EXCEPT ![w] = NoDrain]
    /\ UNCHANGED <<queueVars, reaperVars, sessionVars>>

-----------------------------------------------------------------------------
(* The reaper fences a lapsed run, frees the session its dead attempt may    *)
(* still hold, and only then puts the run back.                              *)
ReaperFence(p, r) ==
    /\ reaper[p].pc = "idle"
    /\ Fence(r)
    /\ reaper' = [reaper EXCEPT ![p] =
                     [pc |-> "fenced", run |-> r, token |-> run'[r].token]]
    /\ UNCHANGED <<deaths, attemptVars, sessionVars>>

(* Mutant of ReaperUnlock: the dead attempt's session lease is left alone.   *)
ReaperUnlockSkipped(p) ==
    /\ reaper[p].pc = "fenced"
    /\ reaper' = [reaper EXCEPT ![p].pc = "unlocked"]
    /\ UNCHANGED <<queueVars, deaths, attemptVars, sessionVars>>

ReaperUnlock(p) ==
    /\ reaper[p].pc = "fenced"
    /\ reaper' = [reaper EXCEPT ![p].pc = "unlocked"]
    /\ lease' = [lease EXCEPT ![SessionOf[reaper[p].run]] = FreeLease]
    /\ UNCHANGED <<queueVars, deaths, attemptVars, leases, log, turnUserSeq>>

(* retry = "no": the run is older than maxAgeMs.                             *)
ReaperRetire(p, retry) ==
    /\ reaper[p].pc = "unlocked"
    /\ \/ Retire(reaper[p].run, reaper[p].token, retry, 0)
       \/ ~Owns(reaper[p].run, reaper[p].token) /\ UNCHANGED queueVars
    /\ reaper' = [reaper EXCEPT ![p] = NoReap]
    /\ UNCHANGED <<deaths, attemptVars, sessionVars>>

ReaperDies(p) ==
    /\ reaper[p].pc # "idle"
    /\ deaths < MaxReaperDeaths
    /\ deaths' = deaths + 1
    /\ reaper' = [reaper EXCEPT ![p] = NoReap]
    /\ UNCHANGED <<queueVars, attemptVars, sessionVars>>

-----------------------------------------------------------------------------
(* Time.  A process that is alive and not stalled renews its leases.         *)
RunAttended(r) ==
    \/ \E w \in Workers : worker[w].run = r /\ worker[w].token = run[r].token
    \/ \E p \in Reapers : reaper[p].run = r /\ reaper[p].token = run[r].token

RunLeaseLapses(r) ==
    /\ "stall" \in Faults \/ ~RunAttended(r)
    /\ LeaseLapses(r)
    /\ UNCHANGED <<attemptVars, reaperVars, sessionVars>>

WorkerBeats(w) ==
    /\ InFlight(w)
    /\ worker[w].pc # "complete" /\ worker[w].pc # "fail"
    /\ run[worker[w].run].lease = "lapsed"
    /\ Heartbeat(worker[w].run, worker[w].token)
    /\ UNCHANGED <<attemptVars, reaperVars, sessionVars>>

SessionLeaseLapses(s) ==
    /\ lease[s].state = "live"
    /\ \/ "stall" \in Faults
       \/ \A w \in Workers : worker[w].lease # lease[s].token
    /\ lease' = [lease EXCEPT ![s].state = "lapsed"]
    /\ UNCHANGED <<queueVars, attemptVars, reaperVars, leases, log, turnUserSeq>>

RetryIsDue(r) ==
    /\ BackoffEnds(r)
    /\ UNCHANGED <<attemptVars, reaperVars, sessionVars>>

-----------------------------------------------------------------------------
WorkerStep(w) ==
    \/ HandBack(w) \/ Begin(w) \/ ReadRecorded(w)
    \/ AcquireSession(w) \/ RefuseBusy(w)
    \/ AppendAsk(w) \/ NoteTurn(w) \/ NoteLost(w) \/ AppendAnswer(w)
    \/ RecordFailure(w) \/ Unlock(w) \/ CompleteRun(w) \/ FailRun(w)

DrainStep(w) == DrainBeat(w) \/ DrainUnlock(w) \/ DrainRelease(w)

ReaperStep(p) ==
    \/ \E r \in Runs : ReaperFence(p, r)
    \/ ReaperUnlock(p)
    \/ \E retry \in {"now", "no"} : ReaperRetire(p, retry)

ExecNext ==
    \/ \E r \in Runs :
         EnqueueRun(r) \/ WithdrawRun(r) \/ RunLeaseLapses(r) \/ RetryIsDue(r)
    \/ \E w \in Workers :
         \/ \E r \in Runs : ClaimRun(w, r)
         \/ WorkerStep(w) \/ DrainStep(w)
         \/ \E retry \in {"later", "no"} : TurnThrows(w, retry)
         \/ TurnAborts(w) \/ WorkerBeats(w) \/ Stop(w) \/ WorkerDies(w)
    \/ \E p \in Reapers : ReaperStep(p) \/ ReaperDies(p)
    \/ \E s \in Sessions : SessionLeaseLapses(s)

ExecSpec == ExecInit /\ [][ExecNext]_execVars

(* Live workers and reapers make progress, and clocks do advance.            *)
ExecFairness ==
    /\ \A w \in Workers :
         /\ WF_execVars(\E r \in Runs : ClaimRun(w, r))
         /\ WF_execVars(WorkerStep(w))
    /\ \A p \in Reapers : WF_execVars(ReaperStep(p))
    /\ \A r \in Runs : WF_execVars(RunLeaseLapses(r)) /\ WF_execVars(RetryIsDue(r))
    /\ \A s \in Sessions : WF_execVars(SessionLeaseLapses(s))

FairExecSpec == ExecSpec /\ ExecFairness

-----------------------------------------------------------------------------
(* Attempts, leases and transcripts have the shapes above.                   *)
ExecTypeOK ==
    /\ run \in [Runs -> Row]
    /\ worker \in [Workers -> Attempt]
    /\ stopped \subseteq Workers
    /\ drain \in [Workers -> [pc : {"none", "beaten", "unlocked", "done"},
                              run : Runs \cup {0}, token : Nat]]
    /\ reaper \in [Reapers -> [pc : {"idle", "fenced", "unlocked"},
                               run : Runs \cup {0}, token : Nat]]
    /\ lease \in [Sessions -> [token : Nat, state : {"none", "live", "lapsed"}]]
    /\ log \in [Sessions -> Seq(Entry)]
    /\ turnUserSeq \in [Runs -> Nat]

(* One writer at a time: the entries appended under one session lease are    *)
(* contiguous in the transcript, whichever attempts stalled, were drained,   *)
(* or had their lease taken away in the middle of a turn.                    *)
TurnsDoNotInterleave ==
    \A s \in Sessions : \A i, k \in DOMAIN log[s] : \A j \in i .. k :
        log[s][i].lease = log[s][k].lease => log[s][j].lease = log[s][i].lease

(* A run reported as answered has its own answer in the transcript, whether  *)
(* its last attempt produced it or replayed what an earlier one recorded.    *)
AnsweredRunHasItsAnswer ==
    \A r \in Runs :
        run[r].result = "answer" =>
            \E i \in DOMAIN log[SessionOf[r]] :
                /\ log[SessionOf[r]][i].kind = "answer"
                /\ log[SessionOf[r]][i].run = r

Answers(r) == {i \in DOMAIN log[SessionOf[r]] :
                 /\ log[SessionOf[r]][i].kind = "answer"
                 /\ log[SessionOf[r]][i].run = r}

(* Another run's turn came between two attempts of r.  This takes a run that *)
(* is inserted after r was claimed with an earlier created_at, and ends the  *)
(* scan of turnAtSeq before the answer of the resumed turn.                  *)
Interrupted(r) ==
    \E i, j, k \in DOMAIN log[SessionOf[r]] :
        /\ i < j /\ j < k
        /\ log[SessionOf[r]][i].run = r /\ log[SessionOf[r]][k].run = r
        /\ log[SessionOf[r]][j].run # r

(* A retry replays the recorded answer instead of asking again: no run is    *)
(* answered twice, wherever its earlier attempts crashed, unless it was      *)
(* interrupted by another.                                                   *)
AnsweredAtMostOnce ==
    \A r \in Runs : Cardinality(Answers(r)) <= 1 \/ Interrupted(r)

(* The session is free when a run is claimed: an attempt is never refused    *)
(* because of the lease a dead and reaped attempt left behind.  A drained    *)
(* one may take the lease after it was handed back, see DrainUnlock.         *)
NeverRefusedBusy == \A r \in Runs : run[r].result # "session_busy"

(* Every run that was enqueued is eventually answered, refused, failed or    *)
(* withdrawn, although workers may crash in every attempt and reapers in the *)
(* middle of a sweep.                                                        *)
EveryRunFinishes ==
    \A r \in Runs :
        run[r].status = "pending" ~> run[r].status \in Finished
=============================================================================
