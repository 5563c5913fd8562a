----------------------------- MODULE RunSignals -----------------------------
(***************************************************************************)
(* Steering and stopping one run while it executes: signalRun() in         *)
(* src/api/app-turn.ts, the durable signals of                             *)
(* src/runs/postgres-run-signal-store.ts, the poll of each attempt         *)
(* (startSignalPoll() in src/runs/run-signal-store.ts with the handlers of *)
(* src/harness/pi-harness.ts), and replayOrphanedRunSignals() in           *)
(* src/api/app-helpers.ts, which the sender, the onTerminal hook and the   *)
(* orphan sweeper call for a run that ended.                               *)
(*                                                                         *)
(* An attempt streams, finishes and completes its run; one that lost the   *)
(* run's lease goes on beside its successor until it notices.              *)
(*                                                                         *)
(* Faults selects what may go wrong, MaxFaults times in all:               *)
(*   "crash"   the worker of an attempt dies;                              *)
(*   "stall"   an attempt loses the lease of its run;                      *)
(*   "ack"     an acknowledgement fails;                                   *)
(*   "death"   a process dies in the middle of a replay;                   *)
(*   "refuse"  the enqueue of a replay fails, or its answer is lost;       *)
(*   "denied"  the turn of a subagent's replay is refused;                 *)
(*   "blocked" it waits for an approval.                                   *)
(***************************************************************************)
EXTENDS Integers, FiniteSets

CONSTANTS Steers, Aborts, \* the signals that may be sent
          Threads,        \* the kinds of thread: "plain", "subagent"
          MaxAttempts,    \* bound: attempts a run may be allowed
          Faults, MaxFaults

ASSUME SignalAssumption ==
    /\ Steers \cap Aborts = {}
    /\ {"sweep", "none"} \cap (Steers \cup Aborts) = {}
    /\ Threads \subseteq {"plain", "subagent"}
    /\ MaxAttempts \in Nat \ {0} /\ MaxFaults \in Nat
    /\ Faults \subseteq {"crash", "stall", "ack", "death", "refuse", "denied",
                       "blocked"}

Signals == Steers \cup Aborts
Attempts == 1..MaxAttempts
NoSignal == "none"

(* Everyone who may replay: each sender, and the sweeper, which does what    *)
(* the terminal hook does, and again.                                        *)
Replayers == Signals \cup {"sweep"}

VARIABLES
    thread,   \* the kind of thread the run is on
    wordless, \* steers that are attachments without text
    run,      \* its status, its last attempt, and how many it is allowed
    attempt,  \* each attempt with its signal poll
    signal,   \* run_signals: unsent, pending, or consumed
    sender,   \* where each call of signalRun() is, and its answer
    replay,   \* each replay in progress
    noted,    \* steers in the transcript of the session
    turns,    \* fresh runs enqueued for each steer
    lost,     \* steers consumed in vain: see Acknowledge, Discard, DropPlain,
              \* Deny and Die
    unsure,   \* steers given up by a replay though a run of theirs may be
    unacked,  \* steers whose acknowledgement failed
    faults    \* faults so far

runVars == <<thread, wordless, run, attempt, noted>>
replayVars == <<replay, turns, unsure>>
signalVars == <<runVars, signal, sender, replayVars, lost, unacked, faults>>

(* todo is what is left of the drain, cur the steer in hand; folded are the  *)
(* steers its agent session accepted, heard the ones in the history it       *)
(* started with.                                                             *)
Attempt == [phase : {"none", "streaming", "finishing", "over"},
            poll : {"idle", "drain", "steer", "ack"},
            todo : SUBSET Signals, cur : Steers \cup {NoSignal},
            declined : SUBSET Steers, folded : SUBSET Steers,
            heard : SUBSET Steers]

SignalTypeOK ==
    /\ thread \in Threads
    /\ run \in [status : {"pending", "running", "done", "failed"},
               attempt : 0..MaxAttempts, max : Attempts]
    /\ attempt \in [Attempts -> Attempt]
    /\ \A a \in Attempts :
         /\ attempt[a].cur # NoSignal <=> attempt[a].poll \in {"steer", "ack"}
         /\ attempt[a].phase \in {"none", "over"} => attempt[a].poll = "idle"
    /\ signal \in [Signals -> {"unsent", "pending", "consumed"}]
    /\ sender \in [Signals -> {"new", "send", "check", "drain", "accepted",
                               "terminal", "replayed", "error"}]
    /\ replay \in [Replayers -> [todo : SUBSET Signals, vain : BOOLEAN]]
    /\ wordless \subseteq Steers /\ noted \subseteq Steers
    /\ lost \subseteq Steers /\ unsure \subseteq Steers
    /\ unacked \subseteq Steers
    /\ turns \in [Steers -> Nat]
    /\ faults \in 0..MaxFaults

NoAttempt == [phase |-> "none", poll |-> "idle", todo |-> {}, cur |-> NoSignal,
              declined |-> {}, folded |-> {}, heard |-> {}]

NoReplay == [todo |-> {}, vain |-> FALSE]

SignalInit ==
    /\ thread \in Threads /\ wordless \in SUBSET Steers
    /\ run \in [status : {"pending"}, attempt : {0}, max : Attempts]
    /\ attempt = [a \in Attempts |-> NoAttempt]
    /\ signal = [s \in Signals |-> "unsent"]
    /\ sender = [s \in Signals |-> "new"]
    /\ replay = [r \in Replayers |-> NoReplay]
    /\ noted = {} /\ lost = {} /\ unsure = {} /\ unacked = {}
    /\ turns = [s \in Steers |-> 0]
    /\ faults = 0

Fault(name) ==
    /\ name \in Faults /\ faults < MaxFaults
    /\ faults' = faults + 1

NoFault == UNCHANGED faults

Pending == {s \in Signals : signal[s] = "pending"}
Terminal == run.status \in {"done", "failed"}
Current(a) == run.status = "running" /\ run.attempt = a

-----------------------------------------------------------------------------
(* The run.                                                                  *)

(* A worker claims the run; every attempt starts with a poll of its own.     *)
Claim ==
    /\ run.status = "pending" /\ run.attempt < run.max
    /\ run' = [run EXCEPT !.status = "running", !.attempt = @ + 1]
    /\ attempt' = [attempt EXCEPT ![run.attempt + 1].phase = "streaming",
                                  ![run.attempt + 1].heard = noted]
    /\ UNCHANGED <<thread, wordless, noted, signal, sender, replayVars, lost,
                   unacked, faults>>

(* The reaper gives up a run whose attempts are used up.                     *)
GiveUp ==
    /\ run.status = "pending" /\ run.attempt = run.max
    /\ run' = [run EXCEPT !.status = "failed"]
    /\ UNCHANGED <<thread, wordless, attempt, noted, signal, sender,
                   replayVars, lost, unacked, faults>>

(* The model is through, or an abandoned attempt notices.                    *)
Finish(a) ==
    /\ attempt[a].phase = "streaming"
    /\ attempt' = [attempt EXCEPT ![a].phase = "finishing"]
    /\ UNCHANGED <<thread, wordless, run, noted, signal, sender, replayVars,
                   lost, unacked, faults>>

(* An attempt that is gone, without effect or with what it took.             *)
Gone == [NoAttempt EXCEPT !.phase = "over"]
GoneWith(w) == [Gone EXCEPT !.folded = w.folded, !.heard = w.heard]

(* The poll is stopped, its drain awaited, and the run completed; the        *)
(* completion of an abandoned attempt is fenced off.                         *)
Complete(a) ==
    /\ attempt[a].phase = "finishing" /\ attempt[a].poll = "idle"
    /\ run' = IF Current(a) THEN [run EXCEPT !.status = "done"] ELSE run
    /\ attempt' = [attempt EXCEPT ![a] = IF Current(a) THEN GoneWith(@)
                                         ELSE Gone]
    /\ UNCHANGED <<thread, wordless, noted, signal, sender, replayVars, lost,
                   unacked, faults>>

Crash(a) ==
    /\ Current(a)
    /\ Fault("crash")
    /\ run' = [run EXCEPT !.status = "pending"]
    /\ attempt' = [attempt EXCEPT ![a] = Gone]
    /\ UNCHANGED <<thread, wordless, noted, signal, sender, replayVars, lost,
                   unacked>>

Stall(a) ==
    /\ Current(a)
    /\ Fault("stall")
    /\ run' = [run EXCEPT !.status = "pending"]
    /\ UNCHANGED <<thread, wordless, attempt, noted, signal, sender,
                   replayVars, lost, unacked>>

-----------------------------------------------------------------------------
(* The poll of an attempt.                                                   *)

Polls(a, w) ==
    /\ attempt' = [attempt EXCEPT ![a] = w]
    /\ UNCHANGED <<thread, wordless, run, sender, replayVars>>

(* Mutant of Drain: the poll asks for steers only.                           *)
DrainSteers(a) ==
    LET w == attempt[a]
        todo == (Pending \cap Steers) \ w.declined
    IN
    /\ w.phase \in {"streaming", "finishing"} /\ w.poll = "idle"
    /\ todo # {}
    /\ Polls(a, [w EXCEPT !.poll = "drain", !.todo = todo])
    /\ UNCHANGED <<noted, signal, lost, unacked, faults>>

(* drain() reads what is pending; nothing else is worth a drain here.        *)
Drain(a) ==
    LET w == attempt[a]
        todo == Pending \ w.declined
    IN
    /\ w.phase \in {"streaming", "finishing"} /\ w.poll = "idle"
    /\ todo # {}
    /\ Polls(a, [w EXCEPT !.poll = "drain", !.todo = todo])
    /\ UNCHANGED <<noted, signal, lost, unacked, faults>>

Rest(w, s) ==
    [w EXCEPT !.todo = @ \ {s}, !.cur = NoSignal,
              !.poll = IF w.todo \subseteq {s} THEN "idle" ELSE "drain"]

(* onAbort() ends the stream.  The signal stays, for an attempt to come.     *)
Abort(a, s) ==
    /\ attempt[a].poll = "drain" /\ s \in attempt[a].todo \cap Aborts
    /\ Polls(a, [Rest(attempt[a], s) EXCEPT !.phase = "finishing"])
    /\ UNCHANGED <<noted, signal, lost, unacked, faults>>

Declined(w, s) == [Rest(w, s) EXCEPT !.declined = @ \cup {s}]

(* onSteer(): while the agent streams, the steer enters the transcript; the  *)
(* append of an attempt without the lease fails, and the failure is          *)
(* swallowed.                                                                *)
Steer(a, s) ==
    LET w == attempt[a] IN
    /\ w.poll = "drain" /\ s \in w.todo \cap Steers
    /\ IF w.phase = "streaming"
       THEN /\ Polls(a, [w EXCEPT !.poll = "steer", !.cur = s])
            /\ noted' = IF Current(a) THEN noted \cup {s} ELSE noted
       ELSE Polls(a, Declined(w, s)) /\ UNCHANGED noted
    /\ UNCHANGED <<signal, lost, unacked, faults>>

(* Mutant of Fold: a steer that came too late is acknowledged all the same.  *)
FoldLate(a) ==
    LET w == attempt[a] IN
    /\ w.poll = "steer"
    /\ Polls(a, [w EXCEPT !.poll = "ack", !.folded = IF w.phase = "streaming"
                                     THEN @ \cup {w.cur} ELSE @])
    /\ UNCHANGED <<noted, signal, lost, unacked, faults>>

(* The stream may have ended meanwhile.                                      *)
Fold(a) ==
    LET w == attempt[a] IN
    /\ w.poll = "steer"
    /\ Polls(a, IF w.phase = "streaming"
                THEN [w EXCEPT !.poll = "ack", !.folded = @ \cup {w.cur}]
                ELSE Declined(w, w.cur))
    /\ UNCHANGED <<noted, signal, lost, unacked, faults>>

(* The steer is consumed, also where an attempt without the lease took it:   *)
(* its successor may never hear of it.                                       *)
Acknowledge(a) ==
    LET w == attempt[a] IN
    /\ w.poll = "ack"
    /\ \/ /\ NoFault
          /\ signal' = [signal EXCEPT ![w.cur] = "consumed"]
          /\ lost' = IF Current(a) THEN lost ELSE lost \cup {w.cur}
          /\ UNCHANGED unacked
       \/ /\ Fault("ack")
          /\ unacked' = unacked \cup {w.cur}
          /\ UNCHANGED <<signal, lost>>
    /\ Polls(a, Rest(w, w.cur))
    /\ UNCHANGED noted

-----------------------------------------------------------------------------
(* signalRun().                                                              *)

Sends(s, pc) ==
    /\ sender' = [sender EXCEPT ![s] = pc]
    /\ UNCHANGED <<runVars, turns, lost, unsure, unacked, faults>>

ReadRun(s) ==
    /\ sender[s] = "new"
    /\ Sends(s, IF Terminal THEN "terminal" ELSE "send")
    /\ UNCHANGED <<signal, replay>>

Send(s) ==
    /\ sender[s] = "send"
    /\ signal' = [signal EXCEPT ![s] = "pending"]
    /\ Sends(s, "check")
    /\ UNCHANGED replay

(* replayOrphanedRunSignals() up to its loop: on a plain thread the signals  *)
(* are taken, on a subagent's thread only read.                              *)
Take(r) ==
    /\ replay[r] = NoReplay
    /\ replay' = [replay EXCEPT ![r].todo = Pending]
    /\ signal' = IF thread = "plain"
                 THEN [s \in Signals |->
                         IF s \in Pending THEN "consumed" ELSE signal[s]]
                 ELSE signal

(* Mutant of Recheck: the run ended, and the steer is refused as it stands.  *)
RecheckRefusing(s) ==
    /\ sender[s] = "check"
    /\ Sends(s, IF Terminal THEN "terminal" ELSE "accepted")
    /\ UNCHANGED <<signal, replay>>

(* The sender looks again: if the run ended, it replays what is pending.     *)
Recheck(s) ==
    /\ sender[s] = "check"
    /\ IF Terminal
       THEN Take(s) /\ Sends(s, "drain")
       ELSE Sends(s, "accepted") /\ UNCHANGED <<signal, replay>>

(* The answer.  A steer the sender did not drain itself is taken to have     *)
(* been replayed by whoever did.                                             *)
Answer(s) ==
    /\ sender[s] = "drain" /\ replay[s].todo = {}
    /\ Sends(s, IF s \in Aborts \/ replay[s].vain THEN "terminal"
                ELSE "replayed")
    /\ replay' = [replay EXCEPT ![s] = NoReplay]
    /\ UNCHANGED signal

-----------------------------------------------------------------------------
(* Replaying: todo is what is left of the list, and vain tells a sender that *)
(* its own steer was on it and got no run that the replay knows of.          *)

(* Mutant of Sweep: the signals of a failed run are left alone.              *)
SweepDoneOnly ==
    /\ run.status = "done" /\ Pending # {}
    /\ Take("sweep")
    /\ UNCHANGED <<runVars, sender, turns, lost, unsure, unacked, faults>>

(* The onTerminal hook, or the orphan sweeper, as long as there is need.     *)
Sweep ==
    /\ Terminal /\ Pending # {}
    /\ Take("sweep")
    /\ UNCHANGED <<runVars, sender, turns, lost, unsure, unacked, faults>>

(* Mutant of Enqueued: the run of a subagent's replay has no key.            *)
EnqueuedUnkeyed(s) == [turns EXCEPT ![s] = @ + 1]

(* A fresh run; on a subagent's thread it is keyed by the signal.            *)
Enqueued(s) ==
    IF thread = "subagent" THEN [turns EXCEPT ![s] = 1]
    ELSE [turns EXCEPT ![s] = @ + 1]

Handled(r, s, vain) ==
    replay' = [replay EXCEPT ![r] =
                 [todo |-> @.todo \ {s}, vain |-> @.vain \/ (vain /\ r = s)]]

Consumed(s) == signal' = [signal EXCEPT ![s] = "consumed"]

(* The caller of a sender whose replay fails gets an error.                  *)
FailedSender(r) ==
    IF r \in Signals THEN [sender EXCEPT ![r] = "error"] ELSE sender

Ends(r) ==
    /\ replay' = [replay EXCEPT ![r] = NoReplay]
    /\ sender' = FailedSender(r)

(* A subagent's thread takes no steer without text.                          *)
Worthless(s) == s \in Aborts \/ (thread = "subagent" /\ s \in wordless)

(* An abort is discarded, and so is a steer of attachments for a subagent:   *)
(* its sender is told that somebody else replayed it.                        *)
Discard(r, s) ==
    /\ Worthless(s) /\ NoFault
    /\ Handled(r, s, FALSE) /\ Consumed(s)
    /\ lost' = lost \cup ({s} \cap Steers)
    /\ UNCHANGED <<sender, turns, unsure>>

Requeue(r, s) ==
    /\ ~Worthless(s) /\ NoFault
    /\ Handled(r, s, FALSE) /\ Consumed(s)
    /\ turns' = Enqueued(s)
    /\ UNCHANGED <<sender, lost, unsure>>

(* The enqueue of a plain replay fails: the steer is dropped, and its sender *)
(* told so, whether there is a run or not.                                   *)
DropPlain(r, s) ==
    /\ ~Worthless(s) /\ thread = "plain" /\ Fault("refuse")
    /\ Handled(r, s, TRUE)
    /\ \/ lost' = lost \cup {s} /\ UNCHANGED <<turns, unsure>>
       \/ turns' = Enqueued(s) /\ unsure' = unsure \cup {s} /\ UNCHANGED lost
    /\ UNCHANGED <<signal, sender>>

(* On a subagent's thread the error ends the replay, after the enqueue or    *)
(* without it, and what was not acknowledged stays.                          *)
FailSubagent(r, s) ==
    /\ ~Worthless(s) /\ thread = "subagent" /\ Fault("refuse")
    /\ Ends(r)
    /\ turns' \in {turns, Enqueued(s)}
    /\ UNCHANGED <<signal, lost, unsure>>

(* A refused turn gives up the steer; another replay may have been luckier.  *)
Deny(r, s) ==
    /\ ~Worthless(s) /\ thread = "subagent" /\ Fault("denied")
    /\ Handled(r, s, TRUE) /\ Consumed(s)
    /\ lost' = lost \cup {s}
    /\ unsure' = IF \/ turns[s] > 0
                    \/ \E q \in Replayers \ {r} : s \in replay[q].todo
                 THEN unsure \cup {s} ELSE unsure
    /\ UNCHANGED <<sender, turns>>

(* A turn that is neither refused nor a run leaves the steer pending.        *)
Postpone(r, s) ==
    /\ ~Worthless(s) /\ thread = "subagent" /\ Fault("blocked")
    /\ Handled(r, s, FALSE)
    /\ UNCHANGED <<signal, sender, turns, lost, unsure>>

(* One signal of the list.                                                   *)
Replay(r, s) ==
    /\ s \in replay[r].todo
    /\ \/ Discard(r, s) \/ Requeue(r, s) \/ DropPlain(r, s)
       \/ FailSubagent(r, s) \/ Deny(r, s) \/ Postpone(r, s)
    /\ UNCHANGED <<runVars, unacked>>

(* The process that replays dies, here or between an enqueue and its         *)
(* acknowledgement.  What it took, and did not enqueue, is gone.             *)
Die(r, s) ==
    /\ s \in replay[r].todo
    /\ Fault("death")
    /\ Ends(r)
    /\ \/ /\ lost' = IF thread = "plain"
                     THEN lost \cup (replay[r].todo \cap Steers) ELSE lost
          /\ UNCHANGED turns
       \/ /\ thread = "subagent" /\ ~Worthless(s)
          /\ turns' = Enqueued(s)
          /\ UNCHANGED lost
    /\ UNCHANGED <<runVars, signal, unsure, unacked>>

-----------------------------------------------------------------------------
PollStep(a) ==
    \/ Drain(a) \/ Fold(a) \/ Acknowledge(a)
    \/ \E s \in Aborts : Abort(a, s)
    \/ \E s \in Steers : Steer(a, s)

SenderStep(s) == Send(s) \/ Recheck(s) \/ Answer(s)

ReplayStep(r) == \E s \in Signals : Replay(r, s)

SignalNext ==
    \/ Claim \/ GiveUp
    \/ \E a \in Attempts : Finish(a) \/ Complete(a) \/ Crash(a) \/ Stall(a)
    \/ \E a \in Attempts : PollStep(a)
    \/ \E s \in Signals : ReadRun(s) \/ SenderStep(s)
    \/ Sweep
    \/ \E r \in Replayers : ReplayStep(r)
    \/ \E r \in Replayers, s \in Signals : Die(r, s)

SignalSpec == SignalInit /\ [][SignalNext]_signalVars

-----------------------------------------------------------------------------
Sent == {s \in Signals : signal[s] # "unsent"}

(* The steer has reached the agent: the last attempt took it or started with *)
(* it in its history, or will; or it has a run of its own.  That of a failed *)
(* run is left in the transcript, like the message that began the run.       *)
Reached(s) ==
    \/ turns[s] > 0
    \/ s \in noted /\ run.status \in {"pending", "failed"}
    \/ /\ run.attempt > 0
       /\ s \in attempt[run.attempt].folded \cup attempt[run.attempt].heard

(* A stored steer is pending, or in the hands of a replay, or has reached    *)
(* the agent: no interleaving of poll, completion, retry and the three       *)
(* replays loses it.  What may lose it is on record: the death of a plain    *)
(* replay, a failed enqueue there, a subagent's turn that is refused or has  *)
(* no text, and an attempt that had lost its lease.                          *)
SteerNotLost ==
    \A s \in Sent \cap Steers :
        \/ s \in Pending \cup lost
        \/ \E r \in Replayers : s \in replay[r].todo
        \/ Reached(s)

(* A steer gets at most one run of its own, however many replays race and    *)
(* die, and none if the attempt that completed the run had taken it, unless  *)
(* its acknowledgement failed.                                               *)
SteerHandledOnce ==
    \A s \in Steers :
        /\ turns[s] <= 1
        /\ turns[s] = 1 /\ s \notin unacked =>
               \A a \in Attempts :
                   attempt[a].phase = "over" => s \notin attempt[a].folded

(* A stop outlives the attempt that obeyed it: until the run has ended it    *)
(* stays pending for whoever takes the run next.                             *)
AbortSurvives ==
    ~Terminal => \A s \in Sent \cap Aborts : s \in Pending

(* A caller refused with "terminal" may send its message again as a new one: *)
(* its steer has not reached the agent that completed the run, has no run of *)
(* its own and will not get one.  Where an enqueue took effect and its       *)
(* answer was lost, or one replay of a subagent's was refused and another    *)
(* was not, it is on record as unsure.                                       *)
RefusedMeansUnhandled ==
    \A s \in Steers :
        sender[s] = "terminal" =>
            /\ s \notin Pending
            /\ \/ s \in unsure
               \/ turns[s] = 0 /\ \A r \in Replayers : s \notin replay[r].todo
            /\ s \in unacked \/ \A a \in Attempts :
                   attempt[a].phase = "over" => s \notin attempt[a].folded

(* A stop ends the run, however often the run is retried.                    *)
AbortEndsRun == \A s \in Aborts : s \in Pending ~> Terminal

(* A stored steer reaches the agent, or is on record as lost.                *)
SteerSettles == \A s \in Steers : s \in Pending ~> Reached(s) \/ s \in lost

(* Polls, senders and the sweeper's replays go on, runs are claimed, and an  *)
(* attempt that is finishing completes.  An attempt need not end by itself.  *)
FairSignalSpec ==
    /\ SignalSpec
    /\ WF_signalVars(Claim) /\ WF_signalVars(GiveUp)
    /\ \A a \in Attempts :
         WF_signalVars(PollStep(a)) /\ SF_signalVars(Complete(a))
    /\ \A s \in Signals : WF_signalVars(SenderStep(s))
    /\ WF_signalVars(Sweep)
    /\ \A r \in Replayers : WF_signalVars(ReplayStep(r))
=============================================================================
