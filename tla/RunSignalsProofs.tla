-------------------------- MODULE RunSignalsProofs --------------------------
(***************************************************************************)
(* Proofs about the steering of a run, for any number of signals, attempts *)
(* and faults.                                                             *)
(***************************************************************************)
EXTENDS RunSignals, TLAPS

(* The run and its attempts: no attempt but those that were claimed, and the *)
(* one that completed the run is over.                                       *)
RunFits ==
    /\ run.status \in {"running", "done"} => run.attempt > 0
    /\ run.status = "done" => attempt[run.attempt].phase = "over"
    /\ \A a \in Attempts : a > run.attempt => attempt[a] = NoAttempt

(* What the attempt with the lease knows is in the transcript.               *)
NotesFit ==
    \A a \in Attempts :
        /\ attempt[a].poll = "ack" => attempt[a].cur \in attempt[a].folded
        /\ Current(a) =>
             /\ attempt[a].folded \cup attempt[a].heard \subseteq noted
             /\ attempt[a].cur # NoSignal => attempt[a].cur \in noted

(* Nobody knows of a signal that is not stored.                              *)
UnsentUnknown ==
    \A s \in Signals :
        /\ sender[s] \in {"new", "send"} => signal[s] = "unsent"
        /\ signal[s] = "unsent" =>
             /\ s \in Steers => turns[s] = 0
             /\ \A r \in Replayers : s \notin replay[r].todo
             /\ \A a \in Attempts :
                  /\ s \notin attempt[a].todo \cup attempt[a].folded
                  /\ s # attempt[a].cur

(* Only the signals of a run that ended are replayed.                        *)
ReplayAfterEnd ==
    /\ ~Terminal => /\ \A r \in Replayers : replay[r] = NoReplay
                    /\ \A s \in Steers : turns[s] = 0
    /\ \A s \in Signals : sender[s] \in {"terminal", "drain"} => Terminal

(* On a plain thread each signal is taken by one replay.                     *)
TakenOnce ==
    thread = "plain" =>
        /\ \A r \in Replayers : \A s \in replay[r].todo : signal[s] = "consumed"
        /\ \A r, q \in Replayers : r # q => replay[r].todo \cap replay[q].todo = {}
        /\ \A s \in Steers :
             /\ turns[s] > 0 => signal[s] = "consumed"
             /\ turns[s] <= 1
             /\ \A r \in Replayers : s \in replay[r].todo => turns[s] = 0

(* On a subagent's thread a replay may be given up at any point.             *)
NothingTaken ==
    thread = "subagent" =>
        \A s \in Steers :
            /\ turns[s] <= 1
            /\ \A r \in Replayers :
                 s \in replay[r].todo => s \in Pending \cup lost \/ turns[s] > 0

(* The steer has no run and gets none, or is on record as unsure.            *)
NoRun(s) ==
    \/ s \in unsure
    \/ turns[s] = 0 /\ \A r \in Replayers : s \notin replay[r].todo

(* What a sender's own replay gave up is consumed, and will get no run.      *)
VainFits ==
    \A s \in Steers : replay[s].vain => signal[s] = "consumed" /\ NoRun(s)

(* A steer that an attempt took is acknowledged before the run completes.    *)
FoldedFits ==
    \A a \in Attempts :
        /\ \A s \in attempt[a].folded :
             \/ s \in unacked \/ signal[s] = "consumed"
             \/ attempt[a].poll = "ack" /\ attempt[a].cur = s
        /\ attempt[a].phase = "over" =>
             \A s \in attempt[a].folded \ unacked :
                 /\ signal[s] = "consumed" /\ turns[s] = 0 /\ ~replay[s].vain
                 /\ \A r \in Replayers : s \notin replay[r].todo

(* Where a steer is that was stored, and is neither pending nor lost.        *)
SteerKept ==
    \A s \in Sent \cap Steers :
        \/ s \in Pending \cup lost
        \/ \E r \in Replayers : s \in replay[r].todo
        \/ turns[s] > 0
        \/ /\ s \in noted
           /\ run.status \in {"running", "done"} =>
                s \in attempt[run.attempt].folded \cup attempt[run.attempt].heard

(* The inductive invariant.                                                  *)
SignalInv ==
    /\ SignalTypeOK
    /\ RunFits /\ NotesFit /\ UnsentUnknown /\ ReplayAfterEnd
    /\ TakenOnce /\ NothingTaken /\ VainFits /\ FoldedFits /\ SteerKept
    /\ AbortSurvives /\ RefusedMeansUnhandled

-----------------------------------------------------------------------------
(* The shapes that the attempts and their polls take.                        *)
LEMMA AttemptShapes ==
    /\ NoAttempt \in Attempt /\ Gone \in Attempt
    /\ \A w \in Attempt : GoneWith(w) \in Attempt
    /\ Gone.phase = "over" /\ Gone.poll = "idle" /\ Gone.cur = NoSignal
    /\ Gone.todo = {} /\ Gone.folded = {} /\ Gone.heard = {}
    /\ \A w \in Attempt :
         /\ GoneWith(w).phase = "over" /\ GoneWith(w).poll = "idle"
         /\ GoneWith(w).cur = NoSignal /\ GoneWith(w).todo = {}
         /\ GoneWith(w).folded = w.folded /\ GoneWith(w).heard = w.heard
<1>1. NoAttempt \in Attempt
  BY DEF NoAttempt, Attempt, NoSignal
<1>2. Gone \in Attempt
  BY DEF Gone, NoAttempt, Attempt, NoSignal
<1>3. \A w \in Attempt : GoneWith(w) \in Attempt
  BY DEF GoneWith, Gone, NoAttempt, Attempt, NoSignal
<1> QED
  BY <1>1, <1>2, <1>3 DEF GoneWith, Gone, NoAttempt, NoSignal

(* The poll is done with a signal: what else it reads stays.                 *)
LEMMA RestShape ==
    ASSUME NEW w \in Attempt, NEW s \in Signals
    PROVE  /\ Rest(w, s) \in Attempt
           /\ Rest(w, s).phase = w.phase /\ Rest(w, s).poll \in {"idle", "drain"}
           /\ Rest(w, s).cur = NoSignal /\ Rest(w, s).todo = w.todo \ {s}
           /\ Rest(w, s).folded = w.folded /\ Rest(w, s).heard = w.heard
           /\ Rest(w, s).declined = w.declined
  BY DEF Rest, Attempt

(* The agent declined a steer: the poll is done with it and remembers that.  *)
LEMMA DeclinedShape ==
    ASSUME NEW w \in Attempt, NEW s \in Steers
    PROVE  /\ Declined(w, s) \in Attempt
           /\ Declined(w, s).phase = w.phase
           /\ Declined(w, s).poll \in {"idle", "drain"}
           /\ Declined(w, s).cur = NoSignal /\ Declined(w, s).todo = w.todo \ {s}
           /\ Declined(w, s).folded = w.folded /\ Declined(w, s).heard = w.heard
  BY RestShape DEF Declined, Signals, Attempt

(* What a step of a poll does to its attempt: from w to v.                   *)
PollEffect(a, w, v) ==
    /\ v \in Attempt /\ attempt' = [attempt EXCEPT ![a] = v]
    /\ UNCHANGED <<thread, wordless, run, sender, replay, turns, unsure>>
    /\ w.phase \in {"streaming", "finishing"} /\ v.phase \in {"streaming", "finishing"}
    /\ v.cur # NoSignal <=> v.poll \in {"steer", "ack"}
    /\ v.todo \subseteq w.todo \cup Pending
    /\ v.heard = w.heard
    /\ noted \subseteq noted' /\ noted' \subseteq noted \cup Steers
    /\ v.cur \in {w.cur, NoSignal} \/ v.cur \in w.todo \cap Steers
    /\ Current(a) /\ v.cur # NoSignal => v.cur \in noted' \/ v.cur = w.cur
    /\ \/ v.folded = w.folded /\ v.poll # "ack"
       \/ /\ w.cur \in Steers /\ w.poll = "steer"
          /\ v.folded = w.folded \cup {w.cur}
          /\ v.poll = "ack" /\ v.cur = w.cur

(* The steps of a poll, by what they do to the signals.                      *)
LEMMA PollSteps ==
    ASSUME SignalTypeOK, NEW a \in Attempts, PollStep(a)
    PROVE  /\ PollEffect(a, attempt[a], attempt'[a])
           /\ \/ /\ UNCHANGED <<signal, lost, unacked, faults>>
                 /\ attempt[a].poll # "ack"
              \/ /\ attempt[a].poll = "ack" /\ Acknowledge(a)
                 /\ attempt'[a].cur = NoSignal
<1> DEFINE w == attempt[a]
<1>1. /\ attempt \in [Attempts -> Attempt] /\ w \in Attempt
      /\ w.cur # NoSignal <=> w.poll \in {"steer", "ack"}
      /\ w.phase \in {"none", "over"} => w.poll = "idle"
      /\ NoSignal \notin Steers
  BY SignalAssumption DEF SignalTypeOK, NoSignal
<1>2. /\ w.phase \in {"none", "streaming", "finishing", "over"}
      /\ w.poll \in {"idle", "drain", "steer", "ack"}
      /\ w.cur \in Steers \cup {NoSignal}
  BY <1>1 DEF Attempt
<1>3. ASSUME NEW v, Polls(a, v)
      PROVE  /\ attempt' = [attempt EXCEPT ![a] = v] /\ attempt'[a] = v
             /\ UNCHANGED <<thread, wordless, run, sender, replay, turns, unsure>>
  BY <1>1, <1>3 DEF Polls, replayVars
<1>4. CASE Drain(a)
  <2> DEFINE v == [w EXCEPT !.poll = "drain", !.todo = Pending \ w.declined]
  <2>1. Polls(a, v) /\ UNCHANGED <<noted, signal, lost, unacked, faults>>
    BY <1>4 DEF Drain
  <2>2. /\ v \in Attempt /\ v.phase = w.phase /\ v.poll = "drain"
        /\ v.todo \subseteq Pending /\ v.cur = w.cur /\ v.folded = w.folded
        /\ v.heard = w.heard
    BY <1>1 DEF Attempt, Pending
  <2>3. w.phase \in {"streaming", "finishing"} /\ w.poll = "idle"
    BY <1>4 DEF Drain
  <2> QED
    BY <1>1, <1>2, <1>3, <2>1, <2>2, <2>3 DEF PollEffect
<1>5. ASSUME NEW s \in Aborts, Abort(a, s)
      PROVE  /\ PollEffect(a, attempt[a], attempt'[a])
             /\ UNCHANGED <<signal, lost, unacked, faults>>
             /\ attempt[a].poll # "ack"
  <2> DEFINE v == [Rest(w, s) EXCEPT !.phase = "finishing"]
  <2>1. /\ Polls(a, v) /\ UNCHANGED <<noted, signal, lost, unacked, faults>>
        /\ w.poll = "drain"
    BY <1>5 DEF Abort
  <2>2. /\ v \in Attempt /\ v.phase = "finishing" /\ v.poll \in {"idle", "drain"}
        /\ v.todo \subseteq w.todo /\ v.cur = NoSignal /\ v.folded = w.folded
        /\ v.heard = w.heard
    BY <1>1, RestShape DEF Attempt, Signals
  <2> QED
    BY <1>1, <1>2, <1>3, <2>1, <2>2 DEF PollEffect
<1>6. ASSUME NEW s \in Steers, Steer(a, s)
      PROVE  /\ PollEffect(a, attempt[a], attempt'[a])
             /\ UNCHANGED <<signal, lost, unacked, faults>>
             /\ attempt[a].poll # "ack"
  <2>1. /\ UNCHANGED <<signal, lost, unacked, faults>> /\ w.poll = "drain"
        /\ s \in w.todo \cap Steers
    BY <1>6 DEF Steer
  <2>2. CASE w.phase = "streaming"
    <3> DEFINE v == [w EXCEPT !.poll = "steer", !.cur = s]
    <3>1. /\ Polls(a, v)
          /\ noted' = IF Current(a) THEN noted \cup {s} ELSE noted
      BY <1>6, <2>2 DEF Steer
    <3>2. /\ v \in Attempt /\ v.phase = w.phase /\ v.poll = "steer"
          /\ v.todo = w.todo /\ v.cur = s /\ v.folded = w.folded
          /\ v.heard = w.heard
      BY <1>1 DEF Attempt
    <3>3. /\ attempt' = [attempt EXCEPT ![a] = v] /\ attempt'[a] = v
          /\ UNCHANGED <<thread, wordless, run, sender, replay, turns, unsure>>
      BY <1>3, <3>1
    <3>4. /\ noted \subseteq noted' /\ noted' \subseteq noted \cup Steers
          /\ (Current(a) => s \in noted')
      BY <3>1
    <3> HIDE DEF v
    <3> QED
      BY <1>1, <2>1, <2>2, <3>2, <3>3, <3>4 DEF PollEffect
  <2>3. CASE w.phase # "streaming"
    <3>1. Polls(a, Declined(w, s)) /\ noted' = noted
      BY <1>6, <2>3 DEF Steer
    <3> QED
      BY <1>1, <1>2, <1>3, <2>1, <2>3, <3>1, DeclinedShape DEF PollEffect
  <2> QED
    BY <2>2, <2>3
<1>7. CASE Fold(a)
  <2>1. /\ UNCHANGED <<noted, signal, lost, unacked, faults>> /\ w.poll = "steer"
        /\ w.cur \in Steers
    BY <1>1, <1>2, <1>7 DEF Fold
  <2>2. CASE w.phase = "streaming"
    <3> DEFINE v == [w EXCEPT !.poll = "ack", !.folded = @ \cup {w.cur}]
    <3>1. Polls(a, v)
      BY <1>7, <2>2 DEF Fold
    <3>2. /\ v \in Attempt /\ v.phase = w.phase /\ v.poll = "ack"
          /\ v.todo = w.todo /\ v.cur = w.cur /\ v.folded = w.folded \cup {w.cur}
          /\ v.heard = w.heard
      BY <1>1, <2>1 DEF Attempt
    <3> QED
      BY <1>1, <1>2, <1>3, <2>1, <2>2, <3>1, <3>2 DEF PollEffect
  <2>3. CASE w.phase # "streaming"
    <3>1. Polls(a, Declined(w, w.cur))
      BY <1>7, <2>3 DEF Fold
    <3> QED
      BY <1>1, <1>2, <1>3, <2>1, <2>3, <3>1, DeclinedShape DEF PollEffect
  <2> QED
    BY <2>2, <2>3
<1>8. CASE Acknowledge(a)
  <2>1. /\ w.poll = "ack" /\ w.cur \in Steers /\ noted' = noted
        /\ Polls(a, Rest(w, w.cur))
    BY <1>1, <1>2, <1>8 DEF Acknowledge
  <2>2. w.cur \in Signals
    BY <2>1 DEF Signals
  <2> QED
    BY <1>1, <1>2, <1>3, <1>8, <2>1, <2>2, RestShape DEF PollEffect
<1> QED
  BY <1>4, <1>5, <1>6, <1>7, <1>8 DEF PollStep

(* A replay that starts holds what was pending.                              *)
LEMMA TakeEffect ==
    ASSUME SignalTypeOK, NEW r \in Replayers, Take(r)
    PROVE  /\ replay[r] = NoReplay
           /\ replay'[r].todo = Pending /\ replay'[r].vain = FALSE
           /\ \A q \in Replayers \ {r} : replay'[q] = replay[q]
           /\ replay' \in [Replayers -> [todo : SUBSET Signals, vain : BOOLEAN]]
           /\ signal' \in [Signals -> {"unsent", "pending", "consumed"}]
           /\ thread = "plain" => \A s \in Signals :
                signal'[s] = IF s \in Pending THEN "consumed" ELSE signal[s]
           /\ thread # "plain" => signal' = signal
<1>1. Pending \in SUBSET Signals
  BY DEF Pending
<1> DEFINE v == [replay[r] EXCEPT !.todo = Pending]
<1>2. replay' = [replay EXCEPT ![r] = v] /\ replay[r] = NoReplay
  BY DEF Take
<1>3. /\ v.todo = Pending /\ v.vain = FALSE
      /\ v \in [todo : SUBSET Signals, vain : BOOLEAN]
  <2>1. /\ replay[r] \in [todo : SUBSET Signals, vain : BOOLEAN]
        /\ replay[r].vain = FALSE
    BY <1>2 DEF NoReplay
  <2> QED
    BY <1>1, <2>1
<1>4. replay \in [Replayers -> [todo : SUBSET Signals, vain : BOOLEAN]]
  BY DEF SignalTypeOK
<1> HIDE DEF v
<1>5. /\ replay'[r] = v /\ \A q \in Replayers \ {r} : replay'[q] = replay[q]
      /\ replay' \in [Replayers -> [todo : SUBSET Signals, vain : BOOLEAN]]
  BY <1>2, <1>3, <1>4
<1>6. /\ signal' \in [Signals -> {"unsent", "pending", "consumed"}]
      /\ thread = "plain" => \A s \in Signals :
           signal'[s] = IF s \in Pending THEN "consumed" ELSE signal[s]
      /\ thread # "plain" => signal' = signal
  BY DEF Take, SignalTypeOK
<1> QED
  BY <1>2, <1>3, <1>5, <1>6

(* The steps of the run keep the shapes.                                     *)
LEMMA RunType ==
    ASSUME SignalTypeOK,
           \/ Claim \/ GiveUp
           \/ \E a \in Attempts : Finish(a) \/ Complete(a) \/ Crash(a) \/ Stall(a)
    PROVE  SignalTypeOK'
<1> USE DEF SignalTypeOK
<1>a. MaxAttempts \in Nat \ {0} /\ MaxFaults \in Nat
  BY SignalAssumption
<1>1. CASE Claim
  <2>1. run.attempt + 1 \in Attempts
    BY <1>1, <1>a DEF Claim, Attempts
  <2> DEFINE b == run.attempt + 1
             v == [attempt[b] EXCEPT !.phase = "streaming", !.heard = noted]
  <2>2. attempt' = [attempt EXCEPT ![b] = v]
    BY <1>1, <2>1 DEF Claim
  <2>3. /\ v \in Attempt /\ v.phase = "streaming" /\ v.cur = attempt[b].cur
        /\ v.poll = attempt[b].poll
    <3>1. attempt[b] \in Attempt /\ noted \subseteq Steers
      BY <2>1
    <3> QED
      BY <3>1 DEF Attempt
  <2>4. run' \in [status : {"pending", "running", "done", "failed"},
                  attempt : 0..MaxAttempts, max : Attempts]
    <3>1. b \in 0..MaxAttempts
      BY <2>1, <1>a DEF Attempts
    <3> QED
      BY <1>1, <3>1 DEF Claim
  <2>5. UNCHANGED <<thread, wordless, noted, signal, sender, replay, turns, lost,
                    unsure, unacked, faults>>
    BY <1>1 DEF Claim, replayVars
  <2>6. /\ attempt' \in [Attempts -> Attempt]
        /\ \A a \in Attempts :
             /\ attempt'[a].cur # NoSignal <=> attempt'[a].poll \in {"steer", "ack"}
             /\ attempt'[a].phase \in {"none", "over"} => attempt'[a].poll = "idle"
    BY <2>1, <2>2, <2>3
  <2> QED
    BY <2>4, <2>5, <2>6
<1>2. CASE GiveUp
  BY <1>2 DEF GiveUp, replayVars
<1>3. ASSUME NEW a \in Attempts, Finish(a) PROVE SignalTypeOK'
  <2> DEFINE v == [attempt[a] EXCEPT !.phase = "finishing"]
  <2>1. attempt' = [attempt EXCEPT ![a] = v]
    BY <1>3 DEF Finish
  <2>2. /\ v \in Attempt /\ v.phase = "finishing" /\ v.cur = attempt[a].cur
        /\ v.poll = attempt[a].poll
    <3>1. attempt[a] \in Attempt
      OBVIOUS
    <3> QED
      BY <3>1 DEF Attempt
  <2> QED
    BY <1>3, <2>1, <2>2 DEF Finish, replayVars
<1>4. ASSUME NEW a \in Attempts, Complete(a) PROVE SignalTypeOK'
  <2> DEFINE v == IF Current(a) THEN GoneWith(attempt[a]) ELSE Gone
  <2>1. attempt' = [attempt EXCEPT ![a] = v]
    BY <1>4 DEF Complete
  <2>2. v \in Attempt /\ v.poll = "idle" /\ v.cur = NoSignal
    BY AttemptShapes
  <2>3. run' \in [status : {"pending", "running", "done", "failed"},
                  attempt : 0..MaxAttempts, max : Attempts]
    BY <1>4 DEF Complete
  <2> QED
    BY <1>4, <2>1, <2>2, <2>3 DEF Complete, replayVars
<1>5. ASSUME NEW a \in Attempts, Crash(a) PROVE SignalTypeOK'
  <2>1. faults' \in 0..MaxFaults
    BY <1>5, <1>a DEF Crash, Fault
  <2>2. run' \in [status : {"pending", "running", "done", "failed"},
                  attempt : 0..MaxAttempts, max : Attempts]
    BY <1>5 DEF Crash
  <2> QED
    BY <1>5, <2>1, <2>2, AttemptShapes DEF Crash, replayVars
<1>6. ASSUME NEW a \in Attempts, Stall(a) PROVE SignalTypeOK'
  <2>1. faults' \in 0..MaxFaults
    BY <1>6, <1>a DEF Stall, Fault
  <2> QED
    BY <1>6, <2>1 DEF Stall, replayVars
<1> QED
  BY <1>1, <1>2, <1>3, <1>4, <1>5, <1>6

(* The steps of a poll keep them.                                            *)
LEMMA PollType ==
    ASSUME SignalTypeOK, NEW a \in Attempts, PollStep(a)
    PROVE  SignalTypeOK'
<1>1. PollEffect(a, attempt[a], attempt'[a])
  BY PollSteps
<1>2. /\ signal' \in [Signals -> {"unsent", "pending", "consumed"}]
      /\ lost' \subseteq Steers /\ unacked' \subseteq Steers
      /\ faults' \in 0..MaxFaults
  <2>1. CASE UNCHANGED <<signal, lost, unacked, faults>>
    BY <2>1 DEF SignalTypeOK
  <2>2. CASE Acknowledge(a)
    <3>1. attempt[a].cur \in Steers /\ MaxFaults \in Nat
      BY <2>2, SignalAssumption DEF Acknowledge, SignalTypeOK, Attempt
    <3> QED
      BY <2>2, <3>1 DEF Acknowledge, SignalTypeOK, Fault, NoFault
  <2> QED
    BY <2>1, <2>2, PollSteps
<1> QED
  BY <1>1, <1>2 DEF PollEffect, SignalTypeOK

(* The senders and the replays keep them.                                    *)
LEMMA ReplayType ==
    ASSUME SignalTypeOK,
           \/ \E s \in Signals : ReadRun(s) \/ SenderStep(s)
           \/ Sweep
           \/ \E r \in Replayers : ReplayStep(r)
           \/ \E r \in Replayers, s \in Signals : Die(r, s)
    PROVE  SignalTypeOK'
<1> USE DEF SignalTypeOK, runVars
<1>a. /\ Signals \subseteq Replayers /\ "sweep" \in Replayers /\ MaxFaults \in Nat
      /\ NoReplay \in [todo : SUBSET Signals, vain : BOOLEAN]
  BY SignalAssumption DEF Replayers, NoReplay
<1>b. ASSUME NEW s \in Steers PROVE Enqueued(s) \in [Steers -> Nat]
  <2>1. turns[s] + 1 \in Nat
    OBVIOUS
  <2> QED
    BY <2>1 DEF Enqueued
<1>1. ASSUME NEW s \in Signals, ReadRun(s) PROVE SignalTypeOK'
  BY <1>1 DEF ReadRun, Sends
<1>2. ASSUME NEW s \in Signals, Send(s) PROVE SignalTypeOK'
  BY <1>2 DEF Send, Sends
<1>3. ASSUME NEW s \in Signals, Recheck(s) PROVE SignalTypeOK'
  <2>1. CASE Terminal
    <3>1. Take(s) /\ sender' = [sender EXCEPT ![s] = "drain"]
      BY <1>3, <2>1 DEF Recheck, Sends
    <3>2. UNCHANGED <<thread, wordless, run, attempt, noted, turns, lost, unsure,
                      unacked, faults>>
      BY <1>3, <2>1 DEF Recheck, Sends
    <3> QED
      BY <1>a, <3>1, <3>2, TakeEffect
  <2>2. CASE ~Terminal
    BY <1>3, <2>2 DEF Recheck, Sends
  <2> QED
    BY <2>1, <2>2
<1>4. ASSUME NEW s \in Signals, Answer(s) PROVE SignalTypeOK'
  BY <1>4, <1>a DEF Answer, Sends
<1>5. CASE Sweep
  BY <1>5, <1>a, TakeEffect DEF Sweep
<1>7. ASSUME NEW r \in Replayers, NEW s \in Signals, Replay(r, s) PROVE SignalTypeOK'
  <2>1. replay' \in [Replayers -> [todo : SUBSET Signals, vain : BOOLEAN]]
    <3>1. replay \in [Replayers -> [todo : SUBSET Signals, vain : BOOLEAN]]
      OBVIOUS
    <3>2. CASE Ends(r)
      BY <1>a, <3>1, <3>2 DEF Ends
    <3>3. ASSUME NEW vain \in BOOLEAN, Handled(r, s, vain)
          PROVE  replay' \in [Replayers -> [todo : SUBSET Signals, vain : BOOLEAN]]
      <4> DEFINE v == [todo |-> replay[r].todo \ {s},
                       vain |-> replay[r].vain \/ (vain /\ r = s)]
      <4>1. v \in [todo : SUBSET Signals, vain : BOOLEAN]
        BY <3>1
      <4>2. replay' = [replay EXCEPT ![r] = v]
        BY <3>3 DEF Handled
      <4> HIDE DEF v
      <4> QED
        BY <3>1, <4>1, <4>2
    <3>4. Ends(r) \/ Handled(r, s, TRUE) \/ Handled(r, s, FALSE)
      <4>1. Discard(r, s) \/ Requeue(r, s) \/ Postpone(r, s) => Handled(r, s, FALSE)
        BY DEF Discard, Requeue, Postpone
      <4>2. DropPlain(r, s) \/ Deny(r, s) => Handled(r, s, TRUE)
        BY DEF DropPlain, Deny
      <4>3. FailSubagent(r, s) => Ends(r)
        BY DEF FailSubagent
      <4> QED
        BY <1>7, <4>1, <4>2, <4>3 DEF Replay
    <3> QED
      BY <3>2, <3>3, <3>4
  <2>2. turns' \in [Steers -> Nat]
    <3>1. turns' = turns \/ (s \in Steers /\ turns' = Enqueued(s))
      BY <1>7 DEF Replay, Discard, Requeue, DropPlain, FailSubagent, Deny,
         Postpone, Worthless, Signals
    <3> QED
      BY <1>b, <3>1
  <2>3. /\ signal' \in [Signals -> {"unsent", "pending", "consumed"}]
        /\ lost' \subseteq Steers /\ unsure' \subseteq Steers
    BY <1>7 DEF Replay, Discard, Requeue, DropPlain, FailSubagent, Deny,
         Postpone, Worthless, Signals, Consumed
  <2>4. sender' \in [Signals -> {"new", "send", "check", "drain", "accepted",
                                 "terminal", "replayed", "error"}]
    <3>1. sender' = sender \/ sender' = FailedSender(r)
      BY <1>7 DEF Replay, Ends, Discard, Requeue, DropPlain, FailSubagent, Deny,
         Postpone
    <3> QED
      BY <3>1 DEF FailedSender
  <2>5. faults' \in 0..MaxFaults
    <3>1. faults' = faults \/ (faults < MaxFaults /\ faults' = faults + 1)
      BY <1>7 DEF Replay, Fault, NoFault, Discard, Requeue, DropPlain,
         FailSubagent, Deny, Postpone
    <3> QED
      BY <1>a, <3>1
  <2> QED
    BY <1>7, <2>1, <2>2, <2>3, <2>4, <2>5 DEF Replay
<1>8. ASSUME NEW r \in Replayers, NEW s \in Signals, Die(r, s) PROVE SignalTypeOK'
  <2>1. replay' \in [Replayers -> [todo : SUBSET Signals, vain : BOOLEAN]]
    BY <1>8, <1>a DEF Die, Ends
  <2>2. turns' \in [Steers -> Nat] /\ lost' \subseteq Steers
    BY <1>8, <1>b DEF Die, Worthless, Signals
  <2>3. sender' \in [Signals -> {"new", "send", "check", "drain", "accepted",
                                 "terminal", "replayed", "error"}]
    BY <1>8 DEF Die, Ends, FailedSender
  <2>4. faults' \in 0..MaxFaults
    BY <1>8, <1>a DEF Die, Fault
  <2> QED
    BY <1>8, <2>1, <2>2, <2>3, <2>4 DEF Die
<1> QED
  BY <1>1, <1>2, <1>3, <1>4, <1>5, <1>7, <1>8 DEF SenderStep, ReplayStep

(* Every step keeps them.                                                    *)
LEMMA SignalStepType ==
    ASSUME SignalTypeOK, [SignalNext]_signalVars
    PROVE  SignalTypeOK'
<1>1. CASE UNCHANGED signalVars
  BY <1>1 DEF signalVars, runVars, replayVars, SignalTypeOK
<1> QED
  BY <1>1, RunType, PollType, ReplayType DEF SignalNext

-----------------------------------------------------------------------------
(* What the steps of the run do: the attempts forget, and only the one that  *)
(* completes the run is over with what it took.                              *)
RunEffect ==
    /\ UNCHANGED <<thread, wordless, signal, sender, replay, turns, lost, unsure,
                       unacked, noted>>
    /\ Terminal => Terminal'
    /\ \A a \in Attempts :
         /\ attempt'[a].todo \subseteq attempt[a].todo
         /\ attempt'[a].folded \subseteq attempt[a].folded
         /\ attempt'[a].cur \in {attempt[a].cur, NoSignal}
         /\ \/ attempt'[a].poll = attempt[a].poll /\ attempt'[a].cur = attempt[a].cur
            \/ attempt'[a].poll = "idle" /\ attempt'[a].folded = {}
            \/ attempt'[a].poll = "idle" /\ attempt[a].poll = "idle"
         /\ \/ attempt'[a].phase # "over" \/ attempt'[a].folded = {}
            \/ attempt'[a].phase = attempt[a].phase
            \/ attempt[a].poll = "idle" /\ ~Terminal

(* The parts of the invariant that such a step leaves alone.                 *)
LEMMA RunEffectKeeps ==
    ASSUME SignalInv, SignalTypeOK', RunEffect
    PROVE  /\ UnsentUnknown' /\ ReplayAfterEnd' /\ TakenOnce' /\ NothingTaken'
           /\ VainFits' /\ FoldedFits' /\ AbortSurvives' /\ RefusedMeansUnhandled'
<1> USE DEF SignalInv
<1>1. /\ UNCHANGED <<thread, wordless, signal, sender, replay, turns, lost, unsure,
                       unacked, noted>>
      /\ Pending' = Pending /\ Sent' = Sent
      /\ Terminal => Terminal'
  BY DEF RunEffect, Pending, Sent
<1>2. \A a \in Attempts :
         /\ attempt'[a].todo \subseteq attempt[a].todo
         /\ attempt'[a].folded \subseteq attempt[a].folded
         /\ attempt'[a].cur \in {attempt[a].cur, NoSignal}
  BY DEF RunEffect
<1>3. NoSignal \notin Signals
  BY SignalAssumption DEF Signals, NoSignal
<1>4. UnsentUnknown'
  BY <1>1, <1>2, <1>3 DEF UnsentUnknown
<1>5. ReplayAfterEnd' /\ AbortSurvives'
  BY <1>1 DEF ReplayAfterEnd, AbortSurvives
<1>6. TakenOnce'
  BY <1>1 DEF TakenOnce
<1>7. NothingTaken' /\ VainFits'
  BY <1>1 DEF NothingTaken, VainFits, NoRun
<1>8. FoldedFits'
  <2> SUFFICES ASSUME NEW a \in Attempts
               PROVE  /\ \A s \in attempt'[a].folded :
                           \/ s \in unacked \/ signal[s] = "consumed"
                           \/ attempt'[a].poll = "ack" /\ attempt'[a].cur = s
                      /\ attempt'[a].phase = "over" =>
                           \A s \in attempt'[a].folded \ unacked :
                             /\ signal[s] = "consumed" /\ turns[s] = 0
                             /\ ~replay[s].vain
                             /\ \A r \in Replayers : s \notin replay[r].todo
    BY <1>1 DEF FoldedFits
  <2>1. /\ \A s \in attempt[a].folded :
             \/ s \in unacked \/ signal[s] = "consumed"
             \/ attempt[a].poll = "ack" /\ attempt[a].cur = s
        /\ attempt[a].phase = "over" =>
             \A s \in attempt[a].folded \ unacked :
               /\ signal[s] = "consumed" /\ turns[s] = 0 /\ ~replay[s].vain
               /\ \A r \in Replayers : s \notin replay[r].todo
    BY DEF FoldedFits
  <2>2. /\ \/ attempt'[a].poll = attempt[a].poll /\ attempt'[a].cur = attempt[a].cur
           \/ attempt'[a].poll = "idle" /\ attempt'[a].folded = {}
           \/ attempt'[a].poll = "idle" /\ attempt[a].poll = "idle"
        /\ \/ attempt'[a].phase # "over" \/ attempt'[a].folded = {}
           \/ attempt'[a].phase = attempt[a].phase
           \/ attempt[a].poll = "idle" /\ ~Terminal
    BY DEF RunEffect
  <2>3. ~Terminal => /\ \A s \in Steers : turns[s] = 0
                     /\ \A r \in Replayers : replay[r].todo = {} /\ ~replay[r].vain
    BY DEF ReplayAfterEnd, NoReplay
  <2>4. attempt[a].folded \subseteq Steers /\ Steers \subseteq Replayers
    BY DEF SignalTypeOK, Attempt, Replayers, Signals
  <2> QED
    BY <1>2, <2>1, <2>2, <2>3, <2>4
<1>9. RefusedMeansUnhandled'
  <2> SUFFICES ASSUME NEW s \in Steers, sender[s] = "terminal"
               PROVE  /\ s \notin Pending /\ NoRun(s)
                      /\ s \in unacked \/ \A a \in Attempts :
                           attempt'[a].phase = "over" => s \notin attempt'[a].folded
    BY <1>1 DEF RefusedMeansUnhandled, NoRun
  <2>1. Terminal
    BY DEF ReplayAfterEnd, Signals
  <2>2. /\ s \notin Pending /\ NoRun(s)
        /\ s \in unacked \/ \A a \in Attempts :
                   attempt[a].phase = "over" => s \notin attempt[a].folded
    BY DEF RefusedMeansUnhandled, NoRun
  <2> QED
    BY <1>2, <2>1, <2>2 DEF RunEffect
<1> QED
  BY <1>4, <1>5, <1>6, <1>7, <1>8, <1>9

(* What the steps of the run leave of the inductive invariant.               *)
LEMMA RunInv ==
    ASSUME SignalInv, SignalTypeOK',
           \/ Claim \/ GiveUp
           \/ \E a \in Attempts : Finish(a) \/ Complete(a) \/ Crash(a) \/ Stall(a)
    PROVE  SignalInv'
<1> USE DEF SignalInv
<1>a. /\ attempt \in [Attempts -> Attempt]
      /\ \A a \in Attempts : attempt[a] \in Attempt
      /\ run.attempt \in Nat /\ Attempts \subseteq Nat
      /\ run \in [status : {"pending", "running", "done", "failed"},
                  attempt : 0..MaxAttempts, max : Attempts]
  BY SignalAssumption DEF SignalTypeOK, Attempts
<1>b. SUFFICES RunEffect /\ RunFits' /\ NotesFit' /\ SteerKept'
  BY RunEffectKeeps
<1>c. ASSUME RunEffect,
             \A s \in noted :
               run'.status \in {"running", "done"} =>
                 \/ run.status = "pending" /\ s \in attempt'[run'.attempt].heard
                 \/ /\ run.status \in {"running", "done"}
                    /\ s \in attempt[run.attempt].folded \cup attempt[run.attempt].heard
                       => s \in attempt'[run'.attempt].folded
                                 \cup attempt'[run'.attempt].heard
      PROVE  SteerKept'
  <2>1. /\ UNCHANGED <<signal, replay, turns, lost, unsure, noted>>
        /\ Pending' = Pending /\ Sent' = Sent
    BY <1>c DEF RunEffect, Pending, Sent
  <2> QED
    BY <1>c, <2>1 DEF SteerKept
<1>1. CASE Claim
  <2> DEFINE b == run.attempt + 1
             v == [attempt[b] EXCEPT !.phase = "streaming", !.heard = noted]
  <2>1. b \in Attempts
    BY <1>1, SignalAssumption DEF Claim, Attempts, SignalTypeOK
  <2>2. attempt' = [attempt EXCEPT ![b] = v] /\ attempt'[b] = v
    BY <1>1, <1>a, <2>1 DEF Claim
  <2>3. attempt[b] = NoAttempt
    BY <1>a, <2>1 DEF RunFits
  <2>4. /\ v.phase = "streaming" /\ v.heard = noted /\ v.poll = "idle"
        /\ v.cur = NoSignal /\ v.folded = {} /\ v.todo = {}
        /\ attempt[b].poll = "idle" /\ attempt[b].cur = NoSignal
    BY <2>3 DEF NoAttempt
  <2>5. /\ run.status = "pending" /\ run'.status = "running" /\ run'.attempt = b
        /\ UNCHANGED <<thread, wordless, signal, sender, replay, turns, lost, unsure,
                       unacked, noted>>
    BY <1>1, <1>a DEF Claim, replayVars
  <2>6. \A c \in Attempts \ {b} : attempt'[c] = attempt[c]
    BY <1>a, <2>2
  <2>7. RunEffect
    <3>1. Terminal => Terminal'
      BY <2>5 DEF Terminal
    <3> QED
      BY <2>2, <2>4, <2>5, <2>6, <3>1 DEF RunEffect
  <2>8. RunFits'
    BY <1>a, <2>1, <2>5, <2>6 DEF RunFits
  <2>9. NotesFit'
    <3>1. \A c \in Attempts : Current(c)' => c = b
      BY <2>5 DEF Current
    <3> QED
      BY <2>2, <2>4, <2>5, <2>6, <3>1 DEF NotesFit
  <2>10. SteerKept'
    BY <1>c, <2>2, <2>4, <2>5, <2>7
  <2> QED
    BY <2>7, <2>8, <2>9, <2>10
<1>2. CASE GiveUp
  <2>1. /\ run.status = "pending" /\ run'.status = "failed"
        /\ run'.attempt = run.attempt /\ attempt' = attempt
        /\ UNCHANGED <<thread, wordless, signal, sender, replay, turns, lost, unsure,
                       unacked, noted>>
    BY <1>2, <1>a DEF GiveUp, replayVars
  <2>2. RunEffect
    BY <2>1 DEF RunEffect, Terminal
  <2>3. RunFits' /\ NotesFit'
    BY <2>1 DEF RunFits, NotesFit, Current
  <2> QED
    BY <1>c, <2>1, <2>2, <2>3
<1>3. ASSUME NEW a \in Attempts, Finish(a)
      PROVE  RunEffect /\ RunFits' /\ NotesFit' /\ SteerKept'
  <2> DEFINE v == [attempt[a] EXCEPT !.phase = "finishing"]
  <2>1. /\ attempt' = [attempt EXCEPT ![a] = v] /\ attempt'[a] = v
        /\ attempt[a].phase = "streaming" /\ run' = run
        /\ UNCHANGED <<thread, wordless, signal, sender, replay, turns, lost, unsure,
                       unacked, noted>>
    BY <1>3, <1>a DEF Finish, replayVars
  <2>2. /\ v.phase = "finishing" /\ v.heard = attempt[a].heard
        /\ v.poll = attempt[a].poll /\ v.cur = attempt[a].cur
        /\ v.folded = attempt[a].folded /\ v.todo = attempt[a].todo
    <3>1. attempt[a] \in Attempt
      BY <1>a
    <3> QED
      BY <3>1 DEF Attempt
  <2>3. \A c \in Attempts \ {a} : attempt'[c] = attempt[c]
    BY <1>a, <2>1
  <2>8. Terminal => Terminal'
    BY <2>1 DEF Terminal
  <2>4. RunEffect
    BY <2>1, <2>2, <2>3, <2>8 DEF RunEffect
  <2>5. RunFits'
    <3>1. /\ attempt[a] # NoAttempt
          /\ run.status = "done" => run.attempt # a
      BY <2>1 DEF RunFits, NoAttempt
    <3>2. run.status = "done" => run.attempt \in Attempts
      BY <1>a, SignalAssumption DEF RunFits, Attempts
    <3> QED
      BY <2>1, <2>3, <3>1, <3>2 DEF RunFits
  <2>6. NotesFit'
    <3>1. \A c \in Attempts : /\ Current(c)' <=> Current(c)
                              /\ attempt'[c].heard = attempt[c].heard
                              /\ attempt'[c].poll = attempt[c].poll
                              /\ attempt'[c].cur = attempt[c].cur
                              /\ attempt'[c].folded = attempt[c].folded
      BY <2>1, <2>2, <2>3 DEF Current
    <3> QED
      BY <2>1, <3>1 DEF NotesFit
  <2>7. SteerKept'
    <3>1. run.status \in {"running", "done"} => run.attempt \in Attempts
      BY <1>a, SignalAssumption DEF RunFits, Attempts
    <3> QED
      BY <1>c, <2>1, <2>2, <2>3, <2>4, <3>1 DEF SteerKept
  <2> QED
    BY <2>4, <2>5, <2>6, <2>7
<1>4. ASSUME NEW a \in Attempts, Complete(a)
      PROVE  RunEffect /\ RunFits' /\ NotesFit' /\ SteerKept'
  <2> DEFINE v == IF Current(a) THEN GoneWith(attempt[a]) ELSE Gone
  <2>1. /\ attempt' = [attempt EXCEPT ![a] = v] /\ attempt'[a] = v
        /\ attempt[a].phase = "finishing" /\ attempt[a].poll = "idle"
        /\ UNCHANGED <<thread, wordless, signal, sender, replay, turns, lost, unsure,
                       unacked, noted>>
    BY <1>4, <1>a DEF Complete, replayVars
  <2>2. /\ v.phase = "over" /\ v.poll = "idle" /\ v.cur = NoSignal /\ v.todo = {}
        /\ Current(a) => /\ v.folded = attempt[a].folded
                         /\ v.heard = attempt[a].heard
        /\ ~Current(a) => v.folded = {}
    BY <1>a, AttemptShapes
  <2>3. \A c \in Attempts \ {a} : attempt'[c] = attempt[c]
    BY <1>a, <2>1
  <2>4. /\ run'.attempt = run.attempt
        /\ Current(a) => run.status = "running" /\ run.attempt = a
                           /\ run'.status = "done"
        /\ ~Current(a) => run'.status = run.status
    BY <1>4, <1>a DEF Complete, Current
  <2>5. run.status = "done" => run.attempt # a
    BY <2>1 DEF RunFits
  <2>6. ~Current(a) /\ run.status \in {"running", "done"} => run.attempt # a
    BY <2>5 DEF Current
  <2>7. RunEffect
    <3>1. (Current(a) => ~Terminal) /\ (Terminal => Terminal')
      BY <2>4 DEF Terminal, Current
    <3> QED
      BY <2>1, <2>2, <2>3, <3>1 DEF RunEffect
  <2>8. RunFits'
    <3>1. a <= run.attempt
      BY <1>a, <2>1 DEF RunFits, NoAttempt
    <3> QED
      BY <1>a, <2>1, <2>2, <2>3, <2>4, <3>1 DEF RunFits
  <2>9. NotesFit'
    <3>1. \A c \in Attempts : Current(c)' => Current(c) /\ c # a
      BY <2>4 DEF Current
    <3> QED
      BY <2>1, <2>2, <2>3, <3>1 DEF NotesFit
  <2>10. SteerKept'
    <3>1. run.status \in {"running", "done"} => run.attempt \in Attempts
      BY <1>a, SignalAssumption DEF RunFits, Attempts
    <3>2. CASE Current(a)
      BY <1>c, <2>1, <2>2, <2>4, <2>7, <3>2
    <3>3. CASE ~Current(a)
      BY <1>c, <2>3, <2>4, <2>6, <2>7, <3>1, <3>3
    <3> QED
      BY <3>2, <3>3
  <2> QED
    BY <2>7, <2>8, <2>9, <2>10
<1>5. ASSUME NEW a \in Attempts, Crash(a)
      PROVE  RunEffect /\ RunFits' /\ NotesFit' /\ SteerKept'
  <2>1. /\ attempt' = [attempt EXCEPT ![a] = Gone] /\ attempt'[a] = Gone
        /\ run.status = "running" /\ run.attempt = a
        /\ run'.status = "pending" /\ run'.attempt = run.attempt
        /\ UNCHANGED <<thread, wordless, signal, sender, replay, turns, lost, unsure,
                       unacked, noted>>
    BY <1>5, <1>a DEF Crash, Current, replayVars
  <2>2. \A c \in Attempts \ {a} : attempt'[c] = attempt[c]
    BY <1>a, <2>1
  <2>3. RunEffect
    <3>1. Terminal => Terminal'
      BY <2>1 DEF Terminal
    <3> QED
      BY <2>1, <2>2, <3>1, AttemptShapes DEF RunEffect
  <2>4. RunFits'
    BY <1>a, <2>1, <2>2 DEF RunFits
  <2>5. NotesFit'
    BY <2>1, <2>2, AttemptShapes DEF NotesFit, Current
  <2> QED
    BY <1>c, <2>1, <2>3, <2>4, <2>5
<1>6. ASSUME NEW a \in Attempts, Stall(a)
      PROVE  RunEffect /\ RunFits' /\ NotesFit' /\ SteerKept'
  <2>1. /\ run.status = "running" /\ run'.status = "pending"
        /\ run'.attempt = run.attempt /\ attempt' = attempt
        /\ UNCHANGED <<thread, wordless, signal, sender, replay, turns, lost, unsure,
                       unacked, noted>>
    BY <1>6, <1>a DEF Stall, Current, replayVars
  <2>2. RunEffect
    BY <2>1 DEF RunEffect, Terminal
  <2>3. RunFits' /\ NotesFit'
    BY <2>1 DEF RunFits, NotesFit, Current
  <2> QED
    BY <1>c, <2>1, <2>2, <2>3
<1> QED
  BY <1>1, <1>2, <1>3, <1>4, <1>5, <1>6

(* What the steps of a poll leave of it.                                     *)
LEMMA PollInv ==
    ASSUME SignalInv, SignalTypeOK', NEW a \in Attempts, PollStep(a)
    PROVE  SignalInv'
<1> USE DEF SignalInv
<1> DEFINE w == attempt[a]
           v == attempt'[a]
<1>1. PollEffect(a, w, v)
  BY PollSteps
<1>2. /\ UNCHANGED <<thread, wordless, run, sender, replay, turns, unsure>>
      /\ \A b \in Attempts \ {a} : attempt'[b] = attempt[b]
      /\ \A b \in Attempts : Current(b)' <=> Current(b)
      /\ Terminal' <=> Terminal
      /\ w.phase \in {"streaming", "finishing"} /\ v.phase \in {"streaming", "finishing"}
  BY <1>1 DEF PollEffect, Current, Terminal, SignalTypeOK
<1>3. /\ w.cur \in Steers \cup {NoSignal} /\ NoSignal \notin Signals
      /\ Steers \subseteq Signals /\ w.folded \subseteq Steers
      /\ w.cur # NoSignal <=> w.poll \in {"steer", "ack"}
      /\ v.cur # NoSignal <=> v.poll \in {"steer", "ack"}
      /\ w.todo \subseteq Signals /\ v.folded \subseteq Steers
  BY SignalAssumption DEF SignalTypeOK, Attempt, Signals, NoSignal
<1>4. /\ \A s \in Signals : signal'[s] = signal[s] \/ signal'[s] = "consumed"
      /\ \A s \in Signals :
           signal[s] # "consumed" /\ signal'[s] = "consumed" =>
             /\ w.poll = "ack" /\ s = w.cur
             /\ Current(a) \/ s \in lost'
      /\ lost \subseteq lost' /\ unacked \subseteq unacked'
      /\ w.poll = "ack" => /\ v.cur = NoSignal /\ v.folded = w.folded
                           /\ signal'[w.cur] = "consumed" \/ w.cur \in unacked'
  <2>1. CASE UNCHANGED <<signal, lost, unacked>> /\ w.poll # "ack"
    BY <2>1
  <2>2. CASE w.poll = "ack" /\ Acknowledge(a) /\ v.cur = NoSignal
    <3>1. v.folded = w.folded
      BY <1>1, <1>3, <2>2 DEF PollEffect
    <3>2. w.cur \in Signals /\ signal \in [Signals -> {"unsent", "pending", "consumed"}]
      BY <1>3, <2>2 DEF SignalTypeOK
    <3> QED
      BY <2>2, <3>1, <3>2 DEF Acknowledge
  <2> QED
    BY <2>1, <2>2, PollSteps
<1>5. \A s \in Signals : signal'[s] = "unsent" <=> signal[s] = "unsent"
  <2>1. w.poll = "ack" => signal[w.cur] # "unsent"
    BY <1>3 DEF UnsentUnknown
  <2> QED
    BY <1>4, <2>1
<1>6. /\ RunFits'
  <2>1. a > run.attempt => FALSE
    BY <1>2 DEF RunFits, NoAttempt
  <2>2. run.status = "done" => run.attempt # a
    BY <1>2 DEF RunFits
  <2>3. run.status = "done" => run.attempt \in Attempts
    BY SignalAssumption DEF RunFits, SignalTypeOK, Attempts
  <2> QED
    BY <1>2, <2>1, <2>2, <2>3 DEF RunFits
<1>7. NotesFit'
  <2>1. v.poll = "ack" => v.cur \in v.folded
    BY <1>1 DEF PollEffect
  <2>2. noted \subseteq noted'
    BY <1>1 DEF PollEffect
  <2>3. ASSUME Current(a)
        PROVE  /\ v.folded \cup v.heard \subseteq noted'
               /\ v.cur # NoSignal => v.cur \in noted'
    <3>1. /\ w.folded \cup w.heard \subseteq noted
          /\ w.cur # NoSignal => w.cur \in noted
      BY <2>3 DEF NotesFit
    <3>2. v.heard = w.heard /\ v.folded \subseteq w.folded \cup ({w.cur} \cap Steers)
      BY <1>1 DEF PollEffect
    <3>3. v.cur # NoSignal => v.cur \in noted' \/ v.cur = w.cur
      BY <1>1, <2>3 DEF PollEffect
    <3> QED
      BY <1>3, <2>2, <3>1, <3>2, <3>3
  <2> QED
    BY <1>2, <2>1, <2>2, <2>3 DEF NotesFit
<1>8. UnsentUnknown'
  <2>1. \A s \in Signals : signal[s] = "unsent" =>
          s \notin v.todo \cup v.folded /\ s # v.cur
    <3>1. /\ v.todo \subseteq w.todo \cup Pending
          /\ v.folded \subseteq w.folded \cup {w.cur}
          /\ v.cur \in {w.cur, NoSignal} \cup w.todo
      BY <1>1 DEF PollEffect
    <3> QED
      BY <1>3, <3>1 DEF UnsentUnknown, Pending
  <2> QED
    BY <1>2, <1>5, <2>1 DEF UnsentUnknown
<1>9. ReplayAfterEnd'
  BY <1>2 DEF ReplayAfterEnd
<1>10. TakenOnce'
  <2>1. \A r \in Replayers : replay[r].todo \subseteq Signals
    BY DEF SignalTypeOK
  <2> QED
    BY <1>2, <1>3, <1>4, <2>1 DEF TakenOnce
<1>16. VainFits'
  BY <1>2, <1>3, <1>4 DEF VainFits, NoRun
<1>11. NothingTaken'
  <2>1. \A s \in Steers : s \in Pending \cup lost => s \in Pending' \cup lost'
                                                      \/ ~Terminal
    BY <1>3, <1>4 DEF Pending, Terminal, Current
  <2>2. ~Terminal => \A r \in Replayers : replay[r].todo = {}
    BY DEF ReplayAfterEnd, NoReplay
  <2> QED
    BY <1>2, <2>1, <2>2 DEF NothingTaken
<1>12. FoldedFits'
  <2>1. \A b \in Attempts : attempt[b].folded \subseteq Signals
    BY <1>3 DEF SignalTypeOK, Attempt
  <2>2. \A b \in Attempts \ {a} : \A s \in attempt[b].folded :
           \/ s \in unacked' \/ signal'[s] = "consumed"
           \/ attempt[b].poll = "ack" /\ attempt[b].cur = s
    BY <1>4, <2>1 DEF FoldedFits
  <2>3. \A s \in v.folded :
           \/ s \in unacked' \/ signal'[s] = "consumed"
           \/ v.poll = "ack" /\ v.cur = s
    <3>1. ASSUME NEW s \in w.folded PROVE s \in unacked' \/ signal'[s] = "consumed"
      BY <1>4, <2>1 DEF FoldedFits
    <3>2. \/ v.folded = w.folded
          \/ v.folded = w.folded \cup {w.cur} /\ v.poll = "ack" /\ v.cur = w.cur
      BY <1>1 DEF PollEffect
    <3> QED
      BY <3>1, <3>2
  <2>4. \A b \in Attempts \ {a} : attempt[b].phase = "over" =>
          \A s \in attempt[b].folded \ unacked' :
             /\ signal'[s] = "consumed" /\ turns[s] = 0 /\ ~replay[s].vain
             /\ \A r \in Replayers : s \notin replay[r].todo
    BY <1>4, <2>1 DEF FoldedFits
  <2> QED
    BY <1>2, <2>2, <2>3, <2>4 DEF FoldedFits
<1>13. SteerKept'
  <2>1. Sent' = Sent
    BY <1>5 DEF Sent
  <2> SUFFICES ASSUME NEW s \in Sent \cap Steers
               PROVE  \/ s \in Pending' \cup lost'
                      \/ \E r \in Replayers : s \in replay[r].todo
                      \/ turns[s] > 0
                      \/ /\ s \in noted'
                         /\ run.status \in {"running", "done"} =>
                              s \in attempt'[run.attempt].folded
                                      \cup attempt'[run.attempt].heard
    BY <1>2, <2>1 DEF SteerKept
  <2>2. noted \subseteq noted' /\ w.folded \subseteq v.folded /\ v.heard = w.heard
    BY <1>1 DEF PollEffect
  <2>3. CASE s \in Pending /\ s \notin Pending'
    <3>1. w.poll = "ack" /\ s = w.cur /\ (Current(a) \/ s \in lost')
      BY <1>3, <1>4, <2>3 DEF Pending
    <3>2. Current(a) => s \in noted /\ s \in w.folded /\ run.attempt = a
      BY <1>3, <3>1 DEF NotesFit, Current
    <3> QED
      BY <2>2, <3>1, <3>2
  <2>4. CASE s \notin Pending
    <3>1. run.status \in {"running", "done"} => run.attempt \in Attempts
      BY SignalAssumption DEF RunFits, SignalTypeOK, Attempts
    <3> QED
      BY <1>2, <1>4, <2>2, <2>4, <3>1 DEF SteerKept
  <2> QED
    BY <2>3, <2>4
<1>14. AbortSurvives'
  <2>1. Sent' = Sent
    BY <1>5 DEF Sent
  <2>2. \A s \in Aborts : s \in Pending => s \in Pending'
    <3>1. w.poll = "ack" => w.cur \in Steers
      BY <1>3
    <3> QED
      BY <1>4, <3>1, SignalAssumption DEF Pending, Signals
  <2> QED
    BY <1>2, <2>1, <2>2 DEF AbortSurvives
<1>15. RefusedMeansUnhandled'
  <2>1. Pending' \subseteq Pending
    BY <1>4 DEF Pending
  <2>2. \A b \in Attempts : attempt'[b].phase = "over" => attempt'[b] = attempt[b]
    BY <1>2
  <2> QED
    BY <1>2, <1>4, <2>1, <2>2 DEF RefusedMeansUnhandled
<1> QED
  BY <1>6, <1>7, <1>8, <1>9, <1>10, <1>11, <1>12, <1>13, <1>14, <1>15, <1>16

(* The senders and the replays leave the run alone.                          *)
LEMMA RunVarsKept ==
    ASSUME SignalInv, UNCHANGED runVars
    PROVE  /\ RunFits' /\ NotesFit' /\ (Terminal' <=> Terminal)
           /\ UNCHANGED <<thread, wordless, run, attempt, noted>>
  BY DEF SignalInv, runVars, RunFits, NotesFit, Current, Terminal

(* A replay that starts keeps the invariant.                                 *)
LEMMA TakeInv ==
    ASSUME SignalInv, SignalTypeOK', NEW r \in Replayers, Take(r), Terminal,
           UNCHANGED <<runVars, turns, lost, unsure, unacked>>,
           \A s \in Signals : sender'[s] \in {sender[s], "drain"}
    PROVE  SignalInv'
<1> USE DEF SignalInv
<1>1. /\ RunFits' /\ NotesFit' /\ Terminal'
      /\ UNCHANGED <<thread, wordless, run, attempt, noted, turns, lost, unsure,
                       unacked>>
      /\ Steers \subseteq Signals
  BY RunVarsKept DEF Signals
<1>2. /\ replay'[r].todo = Pending /\ ~replay'[r].vain
      /\ \A q \in Replayers \ {r} : replay'[q] = replay[q]
      /\ thread = "plain" => \A s \in Signals :
           signal'[s] = IF s \in Pending THEN "consumed" ELSE signal[s]
      /\ thread # "plain" => signal' = signal
      /\ replay[r].todo = {} /\ ~replay[r].vain
  <2>1. NoReplay.todo = {} /\ NoReplay.vain = FALSE
    BY DEF NoReplay
  <2> QED
    BY <2>1, TakeEffect
<1>3. \A s \in Signals : /\ signal'[s] = "unsent" <=> signal[s] = "unsent"
                         /\ signal[s] = "consumed" => signal'[s] = "consumed"
  BY <1>2 DEF Pending
<1>4. UnsentUnknown'
  BY <1>1, <1>2, <1>3 DEF UnsentUnknown, Pending
<1>5. ReplayAfterEnd' /\ AbortSurvives'
  BY <1>1, <1>2 DEF ReplayAfterEnd, AbortSurvives
<1>6. TakenOnce'
  <2> SUFFICES ASSUME thread = "plain" PROVE TakenOnce'
    BY <1>1 DEF TakenOnce
  <2>1. \A q \in Replayers : replay[q].todo \subseteq Signals
    BY DEF SignalTypeOK
  <2>2. /\ \A q \in Replayers : \A s \in replay[q].todo : signal[s] = "consumed"
        /\ \A p, q \in Replayers : p # q => replay[p].todo \cap replay[q].todo = {}
        /\ \A s \in Steers :
             /\ turns[s] > 0 => signal[s] = "consumed"
             /\ turns[s] <= 1
             /\ \A q \in Replayers : s \in replay[q].todo => turns[s] = 0
    BY DEF TakenOnce
  <2>3. \A s \in Pending : s \in Signals /\ signal[s] = "pending"
    BY DEF Pending
  <2>4. \A q \in Replayers : \A s \in replay'[q].todo : signal'[s] = "consumed"
    BY <1>2, <1>3, <2>1, <2>2, <2>3
  <2>5. \A p, q \in Replayers : p # q => replay'[p].todo \cap replay'[q].todo = {}
    BY <1>2, <2>2, <2>3
  <2>6. \A s \in Steers :
             /\ turns[s] > 0 => signal'[s] = "consumed"
             /\ turns[s] <= 1
             /\ \A q \in Replayers : s \in replay'[q].todo => turns[s] = 0
    <3>1. \A s \in Steers : turns[s] \in Nat
      BY DEF SignalTypeOK
    <3> QED
      BY <1>1, <1>2, <1>3, <2>2, <2>3, <3>1
  <2> QED
    BY <1>1, <2>4, <2>5, <2>6 DEF TakenOnce
<1>7. NothingTaken'
  <2> SUFFICES ASSUME thread = "subagent" PROVE NothingTaken'
    BY <1>1 DEF NothingTaken
  <2>1. signal' = signal /\ Pending' = Pending
    BY <1>2 DEF Pending
  <2> QED
    BY <1>1, <1>2, <2>1 DEF NothingTaken
<1>11. VainFits'
  <2>1. \A s \in Signals : signal[s] = "consumed" => s \notin Pending
    BY DEF Pending
  <2>2. \A s \in Steers : replay'[s].vain => replay[s].vain
    BY <1>2 DEF Replayers, Signals
  <2> QED
    BY <1>1, <1>2, <1>3, <2>1, <2>2 DEF VainFits, NoRun
<1>8. FoldedFits'
  <2>1. \A a \in Attempts : attempt[a].folded \subseteq Signals
    BY <1>1 DEF SignalTypeOK, Attempt
  <2>2. \A s \in Signals : signal[s] = "consumed" => s \notin Pending
    BY DEF Pending
  <2>3. \A s \in Signals : replay'[s].vain => replay[s].vain
    BY <1>2 DEF Replayers
  <2> QED
    BY <1>1, <1>2, <1>3, <2>1, <2>2, <2>3 DEF FoldedFits
<1>9. SteerKept'
  <2>1. Sent' = Sent
    BY <1>3 DEF Sent
  <2>2. \A s \in Signals : s \notin Pending => signal'[s] = signal[s] /\ s \notin Pending'
    BY <1>2 DEF Pending
  <2> QED
    BY <1>1, <1>2, <2>1, <2>2 DEF SteerKept
<1>10. RefusedMeansUnhandled'
  <2>1. Pending' \subseteq Pending
    BY <1>2 DEF Pending
  <2> QED
    BY <1>1, <1>2, <2>1 DEF RefusedMeansUnhandled
<1> QED
  BY <1>1, <1>4, <1>5, <1>6, <1>7, <1>8, <1>9, <1>10, <1>11

(* What the senders leave of the invariant.                                  *)
LEMMA SenderInv ==
    ASSUME SignalInv, SignalTypeOK', NEW s \in Signals, ReadRun(s) \/ SenderStep(s)
    PROVE  SignalInv'
<1> USE DEF SignalInv
<1>a. /\ UNCHANGED <<turns, lost, unsure, unacked>> /\ UNCHANGED runVars
      /\ \A t \in Signals \ {s} : sender'[t] = sender[t]
  BY DEF ReadRun, SenderStep, Send, Recheck, Answer, Sends, SignalTypeOK
<1>b. /\ RunFits' /\ NotesFit' /\ (Terminal' <=> Terminal)
      /\ UNCHANGED <<thread, wordless, run, attempt, noted>>
  BY <1>a, RunVarsKept
<1>c. Signals \subseteq Replayers /\ Steers \subseteq Signals
  BY DEF Replayers, Signals
<1>d. ASSUME UNCHANGED <<signal, replay>>, sender'[s] \notin {"new", "drain"},
             sender'[s] = "send" => signal[s] = "unsent",
             sender'[s] = "terminal" => Terminal /\ signal[s] = "unsent"
      PROVE  SignalInv'
  <2>1. Pending' = Pending /\ Sent' = Sent
    BY <1>d DEF Pending, Sent
  <2>2. UnsentUnknown'
    BY <1>a, <1>b, <1>d DEF UnsentUnknown
  <2>3. ReplayAfterEnd' /\ AbortSurvives'
    BY <1>a, <1>b, <1>d, <2>1 DEF ReplayAfterEnd, AbortSurvives
  <2>4. TakenOnce'
    BY <1>a, <1>b, <1>d DEF TakenOnce
  <2>5. NothingTaken' /\ FoldedFits' /\ SteerKept'
    BY <1>a, <1>b, <1>d, <2>1 DEF NothingTaken, FoldedFits, SteerKept
  <2>7. VainFits'
    BY <1>a, <1>d DEF VainFits, NoRun
  <2>6. RefusedMeansUnhandled'
    <3>2. s \in Steers /\ sender'[s] = "terminal" =>
            /\ turns[s] = 0 /\ s \notin Pending
            /\ \A r \in Replayers : s \notin replay[r].todo
            /\ \A a \in Attempts : s \notin attempt[a].folded
      BY <1>c, <1>d DEF UnsentUnknown, Pending
    <3> QED
      BY <1>a, <1>b, <1>c, <1>d, <2>1, <3>2 DEF RefusedMeansUnhandled
  <2> QED
    BY <1>b, <2>2, <2>3, <2>4, <2>5, <2>6, <2>7
<1>1. CASE ReadRun(s)
  <2>1. /\ UNCHANGED <<signal, replay>> /\ sender[s] = "new"
        /\ sender'[s] = IF Terminal THEN "terminal" ELSE "send"
    BY <1>1 DEF ReadRun, Sends, SignalTypeOK
  <2> QED
    BY <1>d, <2>1 DEF UnsentUnknown
<1>2. CASE Send(s)
  <2>1. /\ sender[s] = "send" /\ sender'[s] = "check" /\ replay' = replay
        /\ signal'[s] = "pending" /\ \A t \in Signals \ {s} : signal'[t] = signal[t]
    BY <1>2 DEF Send, Sends, SignalTypeOK
  <2>2. signal[s] = "unsent"
    BY <2>1 DEF UnsentUnknown
  <2>3. Pending' = Pending \cup {s} /\ Sent' = Sent \cup {s}
    BY <2>1 DEF Pending, Sent
  <2>4. UnsentUnknown'
    BY <1>a, <1>b, <2>1 DEF UnsentUnknown
  <2>5. ReplayAfterEnd' /\ AbortSurvives'
    BY <1>a, <1>b, <2>1, <2>3 DEF ReplayAfterEnd, AbortSurvives
  <2>6. /\ s \in Steers => turns[s] = 0
        /\ \A r \in Replayers : s \notin replay[r].todo
        /\ \A a \in Attempts : s \notin attempt[a].folded
        /\ s \in Steers => ~replay[s].vain
    <3>1. s \in Steers => ~replay[s].vain
      BY <2>2 DEF VainFits
    <3> QED
      BY <2>2, <3>1 DEF UnsentUnknown
  <2>11. VainFits'
    <3>1. \A t \in Steers : NoRun(t)' <=> NoRun(t)
      BY <1>a, <2>1 DEF NoRun
    <3> QED
      BY <1>c, <2>1, <2>6, <3>1 DEF VainFits
  <2>7. TakenOnce'
    <3>1. \A r \in Replayers : replay[r].todo \subseteq Signals
      BY DEF SignalTypeOK
    <3> QED
      BY <1>a, <1>b, <1>c, <2>1, <2>6, <3>1 DEF TakenOnce
  <2>8. NothingTaken' /\ SteerKept'
    BY <1>a, <1>b, <2>1, <2>3 DEF NothingTaken, SteerKept
  <2>9. FoldedFits'
    <3>1. \A a \in Attempts : attempt[a].folded \subseteq Signals
      BY <1>c DEF SignalTypeOK, Attempt
    <3> QED
      BY <1>a, <1>b, <2>1, <2>6, <3>1 DEF FoldedFits
  <2>10. RefusedMeansUnhandled'
    BY <1>a, <1>b, <1>c, <2>1, <2>3 DEF RefusedMeansUnhandled
  <2> QED
    BY <1>b, <2>4, <2>5, <2>7, <2>8, <2>9, <2>10, <2>11
<1>3. CASE Recheck(s)
  <2>1. CASE Terminal
    <3>1. Take(s) /\ \A t \in Signals : sender'[t] \in {sender[t], "drain"}
      BY <1>3, <2>1, <1>a DEF Recheck, Sends, SignalTypeOK
    <3> QED
      BY <1>a, <1>c, <2>1, <3>1, TakeInv
  <2>2. CASE ~Terminal
    BY <1>3, <1>d, <2>2 DEF Recheck, Sends, SignalTypeOK
  <2> QED
    BY <2>1, <2>2
<1>4. CASE Answer(s)
  <2>1. /\ sender[s] = "drain" /\ replay[s].todo = {} /\ signal' = signal
        /\ \A r \in Replayers \ {s} : replay'[r] = replay[r]
        /\ replay'[s].todo = {} /\ ~replay'[s].vain /\ replay'[s] = NoReplay
        /\ sender'[s] \in {"terminal", "replayed"}
        /\ s \in Steers /\ sender'[s] = "terminal" => replay[s].vain
    BY <1>4, <1>c, SignalAssumption DEF Answer, Sends, SignalTypeOK, NoReplay
  <2>2. Pending' = Pending /\ Sent' = Sent
    BY <2>1 DEF Pending, Sent
  <2>3. UnsentUnknown'
    BY <1>a, <1>b, <1>c, <2>1 DEF UnsentUnknown
  <2>4. Terminal
    BY <2>1 DEF ReplayAfterEnd
  <2>5. ReplayAfterEnd' /\ AbortSurvives'
    BY <1>a, <1>b, <1>c, <2>1, <2>2, <2>4 DEF ReplayAfterEnd, AbortSurvives
  <2>6. TakenOnce'
    BY <1>a, <1>b, <1>c, <2>1 DEF TakenOnce
  <2>10. /\ \A r \in Replayers : replay'[r].todo = replay[r].todo
         /\ \A r \in Replayers : replay'[r].vain => replay[r].vain
    BY <1>c, <2>1
  <2>7. NothingTaken' /\ SteerKept'
    BY <1>a, <1>b, <2>1, <2>2, <2>10 DEF NothingTaken, SteerKept
  <2>11. FoldedFits'
    <3>1. \A a \in Attempts : attempt[a].folded \subseteq Replayers
      BY <1>c DEF SignalTypeOK, Attempt
    <3> QED
      BY <1>a, <1>b, <2>1, <2>10, <3>1 DEF FoldedFits
  <2>8. RefusedMeansUnhandled'
    <3>1. ASSUME s \in Steers, sender'[s] = "terminal"
          PROVE  /\ s \notin Pending
                 /\ NoRun(s)
                 /\ \A a \in Attempts : attempt[a].phase = "over" =>
                      s \notin attempt[a].folded \ unacked
      <4>1. replay[s].vain
        BY <2>1, <3>1
      <4> QED
        BY <3>1, <4>1 DEF Pending, VainFits, FoldedFits
    <3>2. \A t \in Steers : NoRun(t) => NoRun(t)'
      BY <1>a, <1>c, <2>1 DEF NoRun
    <3>3. \A t \in Steers \ {s} : sender'[t] = "terminal" => NoRun(t)
      BY <1>a, <1>c DEF RefusedMeansUnhandled, NoRun
    <3>4. \A t \in Steers : sender'[t] = "terminal" => NoRun(t)'
      BY <1>a, <1>c, <2>1, <3>1, <3>2, <3>3
    <3> QED
      BY <1>a, <1>b, <1>c, <2>1, <2>2, <3>1, <3>4 DEF RefusedMeansUnhandled, NoRun
  <2>9. VainFits'
    BY <1>a, <1>b, <1>c, <2>1 DEF VainFits, NoRun
  <2> QED
    BY <1>b, <2>3, <2>5, <2>6, <2>7, <2>8, <2>9, <2>11
<1> QED
  BY <1>1, <1>2, <1>3, <1>4 DEF SenderStep

(* What may happen to one signal of one list, whatever becomes of the list.  *)
ListStep(r, s) ==
    /\ s \in replay[r].todo
    /\ \A q \in Replayers \ {r} : replay'[q] = replay[q]
    /\ replay'[r].todo \in {replay[r].todo \ {s}, {}}
    /\ replay'[r].vain =>
         \/ replay[r].vain
         \/ r = s /\ (s \in Steers => signal'[s] = "consumed" /\ NoRun(s)')
    /\ \A t \in Signals : sender'[t] \in {sender[t], "error"}
    /\ \A t \in Signals : \/ signal'[t] = signal[t]
                          \/ t = s /\ signal'[t] = "consumed"
    /\ \A t \in Steers : \/ turns'[t] = turns[t]
                         \/ t = s /\ turns'[t] = turns[t] + 1 /\ thread = "plain"
                         \/ t = s /\ turns'[t] = 1 /\ thread = "subagent"
    /\ lost \subseteq lost' /\ unsure \subseteq unsure'
    /\ s \in Steers /\ signal'[s] # signal[s] => turns'[s] > 0 \/ s \in lost'
    /\ thread = "plain" =>
         \A t \in Steers \cap (replay[r].todo \ replay'[r].todo) :
             t \in lost' \/ turns'[t] > 0

(* What the sweeper and the steps of the replays leave of it.                *)
LEMMA ReplayInv ==
    ASSUME SignalInv, SignalTypeOK',
           \/ Sweep
           \/ \E r \in Replayers : ReplayStep(r)
           \/ \E r \in Replayers, s \in Signals : Die(r, s)
    PROVE  SignalInv'
<1> USE DEF SignalInv
<1>a. UNCHANGED <<unacked>> /\ UNCHANGED runVars
  BY DEF Sweep, ReplayStep, Replay, Die
<1>b. /\ RunFits' /\ NotesFit' /\ (Terminal' <=> Terminal)
      /\ UNCHANGED <<thread, wordless, run, attempt, noted>>
  BY <1>a, RunVarsKept
<1>c. /\ Signals \subseteq Replayers /\ Steers \subseteq Signals
      /\ "sweep" \in Replayers /\ thread \in {"plain", "subagent"}
      /\ \A r \in Replayers : replay[r].todo \subseteq Signals
      /\ \A s \in Steers : turns[s] \in Nat
      /\ \A a \in Attempts : attempt[a].folded \subseteq Steers
      /\ replay \in [Replayers -> [todo : SUBSET Signals, vain : BOOLEAN]]
  BY SignalAssumption DEF Replayers, Signals, SignalTypeOK, Attempt
<1>1. CASE Sweep
  BY <1>1, <1>c, TakeInv DEF Sweep
<1>3. ASSUME NEW r \in Replayers, NEW s \in Signals, ListStep(r, s)
      PROVE  SignalInv'
  <2>1. Terminal /\ signal[s] # "unsent"
    BY <1>3, <1>c DEF ListStep, ReplayAfterEnd, NoReplay, UnsentUnknown
  <2>2. \A q \in Replayers : replay'[q].todo \subseteq replay[q].todo
    BY <1>3 DEF ListStep
  <2>3. /\ \A t \in Signals : signal'[t] = "unsent" <=> signal[t] = "unsent"
        /\ \A t \in Signals : signal[t] = "consumed" => signal'[t] = "consumed"
        /\ Sent' = Sent /\ Pending' \subseteq Pending
    BY <1>3, <2>1 DEF ListStep, Sent, Pending
  <2>4. UnsentUnknown'
    BY <1>3, <1>b, <2>1, <2>2, <2>3 DEF ListStep, UnsentUnknown
  <2>5. ReplayAfterEnd' /\ AbortSurvives'
    BY <1>3, <1>b, <1>c, <2>1, <2>2 DEF ListStep, ReplayAfterEnd, AbortSurvives
  <2>6. TakenOnce'
    <3> SUFFICES ASSUME thread = "plain" PROVE TakenOnce'
      BY <1>b DEF TakenOnce
    <3>1. /\ \A q \in Replayers : \A t \in replay[q].todo : signal[t] = "consumed"
          /\ \A p, q \in Replayers : p # q => replay[p].todo \cap replay[q].todo = {}
          /\ \A t \in Steers :
               /\ turns[t] > 0 => signal[t] = "consumed"
               /\ turns[t] <= 1
               /\ \A q \in Replayers : t \in replay[q].todo => turns[t] = 0
      BY DEF TakenOnce
    <3>2. \A q \in Replayers : \A t \in replay'[q].todo : signal'[t] = "consumed"
      BY <1>c, <2>2, <2>3, <3>1
    <3>3. \A p, q \in Replayers : p # q => replay'[p].todo \cap replay'[q].todo = {}
      BY <2>2, <3>1
    <3>4. \A q \in Replayers : s \notin replay'[q].todo
      BY <1>3, <1>c, <3>1 DEF ListStep
    <3>5. signal[s] = "consumed"
      BY <1>3, <1>c, <3>1 DEF ListStep
    <3>6. \A t \in Steers :
               /\ turns'[t] > 0 => signal'[t] = "consumed"
               /\ turns'[t] <= 1
               /\ \A q \in Replayers : t \in replay'[q].todo => turns'[t] = 0
      BY <1>3, <1>c, <2>2, <2>3, <3>1, <3>4, <3>5 DEF ListStep
    <3> QED
      BY <1>b, <3>2, <3>3, <3>6 DEF TakenOnce
  <2>7. NothingTaken'
    <3> SUFFICES ASSUME thread = "subagent", NEW t \in Steers
                 PROVE  /\ turns'[t] <= 1
                        /\ \A q \in Replayers :
                             t \in replay'[q].todo =>
                                  t \in Pending' \cup lost' \/ turns'[t] > 0
      BY <1>b DEF NothingTaken
    <3>1. turns'[t] <= 1 /\ (turns[t] > 0 => turns'[t] > 0)
      BY <1>3, <1>c DEF ListStep, NothingTaken
    <3>2. t \in Pending => t \in Pending' \cup lost' \/ turns'[t] > 0
      BY <1>3, <1>c DEF ListStep, Pending
    <3>3. \A q \in Replayers :
             t \in replay'[q].todo => t \in Pending' \cup lost' \/ turns'[t] > 0
      BY <1>3, <2>2, <3>1, <3>2 DEF ListStep, NothingTaken
    <3> QED
      BY <3>1, <3>3
  <2>11. ASSUME NEW t \in Steers \ {s}
         PROVE  NoRun(t) => NoRun(t)'
    BY <1>3, <1>c, <2>2 DEF ListStep, NoRun
  <2>12. NoRun(s) => s \in unsure /\ NoRun(s)'
    BY <1>3 DEF ListStep, NoRun
  <2>13. VainFits'
    <3> SUFFICES ASSUME NEW t \in Steers, replay'[t].vain
                 PROVE  signal'[t] = "consumed" /\ NoRun(t)'
      BY DEF VainFits
    <3>1. CASE replay[t].vain
      BY <1>c, <2>3, <2>11, <2>12, <3>1 DEF VainFits
    <3>2. CASE ~replay[t].vain
      <4>1. t = r /\ r = s
        BY <1>3, <1>c, <3>2 DEF ListStep
      <4> QED
        BY <1>3, <3>2, <4>1 DEF ListStep
    <3> QED
      BY <3>1, <3>2
  <2>8. FoldedFits'
    <3>1. \A a \in Attempts : attempt[a].phase = "over" =>
             s \notin attempt[a].folded \ unacked
      BY <1>3, <1>c DEF ListStep, FoldedFits
    <3>2. \A t \in Steers \ {s} : replay'[t].vain => replay[t].vain
      BY <1>3, <1>c DEF ListStep
    <3>3. ASSUME NEW a \in Attempts, NEW t \in attempt[a].folded
          PROVE  \/ t \in unacked \/ signal'[t] = "consumed"
                 \/ attempt[a].poll = "ack" /\ attempt[a].cur = t
      BY <1>c, <2>3 DEF FoldedFits
    <3>4. ASSUME NEW a \in Attempts, attempt[a].phase = "over",
                 NEW t \in attempt[a].folded \ unacked
          PROVE  /\ signal'[t] = "consumed" /\ turns'[t] = 0 /\ ~replay'[t].vain
                 /\ \A q \in Replayers : t \notin replay'[q].todo
      <4>1. t \in Steers \ {s}
        BY <1>c, <3>1, <3>4
      <4>2. /\ signal[t] = "consumed" /\ turns[t] = 0 /\ ~replay[t].vain
            /\ \A q \in Replayers : t \notin replay[q].todo
        BY <3>4 DEF FoldedFits
      <4>3. turns'[t] = turns[t]
        BY <1>3, <4>1 DEF ListStep
      <4> QED
        BY <1>c, <2>2, <2>3, <3>2, <4>1, <4>2, <4>3
    <3> QED
      BY <1>a, <1>b, <3>3, <3>4 DEF FoldedFits
  <2>9. SteerKept'
    <3> SUFFICES ASSUME NEW t \in Sent \cap Steers
                 PROVE  \/ t \in Pending' \cup lost'
                        \/ \E q \in Replayers : t \in replay'[q].todo
                        \/ turns'[t] > 0
                        \/ /\ t \in noted
                           /\ run.status \in {"running", "done"} =>
                                t \in attempt[run.attempt].folded
                                        \cup attempt[run.attempt].heard
      BY <1>b, <2>3 DEF SteerKept
    <3>1. turns[t] > 0 => turns'[t] > 0
      BY <1>3, <1>c DEF ListStep
    <3>2. t \in Pending => t \in Pending' \cup lost' \/ turns'[t] > 0
      BY <1>3, <1>c DEF ListStep, Pending
    <3>3. t \in replay[r].todo => \/ t \in Pending' \cup lost'
                                  \/ t \in replay'[r].todo \/ turns'[t] > 0
      <4>1. CASE thread = "plain"
        BY <1>3, <4>1 DEF ListStep
      <4>2. CASE thread = "subagent"
        BY <1>3, <3>1, <3>2, <4>2 DEF ListStep, NothingTaken
      <4> QED
        BY <1>c, <4>1, <4>2
    <3> QED
      BY <1>3, <3>1, <3>2, <3>3 DEF ListStep, SteerKept
  <2>10. RefusedMeansUnhandled'
    <3> SUFFICES ASSUME NEW t \in Steers, sender'[t] = "terminal"
                 PROVE  /\ t \notin Pending' /\ NoRun(t)'
                        /\ t \in unacked \/ \A a \in Attempts :
                             attempt[a].phase = "over" => t \notin attempt[a].folded
      BY <1>a, <1>b DEF RefusedMeansUnhandled, NoRun
    <3>1. sender[t] = "terminal"
      BY <1>3, <1>c DEF ListStep
    <3>2. /\ t \notin Pending /\ NoRun(t)
          /\ t \in unacked \/ \A a \in Attempts :
                   attempt[a].phase = "over" => t \notin attempt[a].folded
      BY <3>1 DEF RefusedMeansUnhandled, NoRun
    <3> QED
      BY <2>3, <2>11, <2>12, <3>2
  <2> QED
    BY <1>b, <2>4, <2>5, <2>6, <2>7, <2>8, <2>9, <2>10, <2>13
<1>4. /\ NoReplay.todo = {} /\ NoReplay.vain = FALSE
      /\ \A r \in Replayers : \A t \in Signals : FailedSender(r)[t] \in {sender[t], "error"}
  BY DEF NoReplay, FailedSender, SignalTypeOK
<1>5. ASSUME NEW s \in Steers
      PROVE  /\ \A t \in Steers \ {s} : Enqueued(s)[t] = turns[t]
             /\ thread = "subagent" => Enqueued(s)[s] = 1
             /\ thread = "plain" => Enqueued(s)[s] = turns[s] + 1
             /\ Enqueued(s)[s] > 0
  BY <1>c DEF Enqueued, SignalTypeOK
<1>6. ASSUME NEW r \in Replayers, NEW s \in Signals, Replay(r, s)
      PROVE  ListStep(r, s)
  <2>1. /\ s \in replay[r].todo
        /\ signal \in [Signals -> {"unsent", "pending", "consumed"}]
        /\ s \notin Aborts => s \in Steers
    BY <1>6 DEF Replay, SignalTypeOK, Signals
  <2>2. ASSUME NEW vain \in BOOLEAN, Handled(r, s, vain)
        PROVE  /\ replay'[r].todo = replay[r].todo \ {s}
               /\ replay'[r].vain <=> replay[r].vain \/ (vain /\ r = s)
               /\ \A q \in Replayers \ {r} : replay'[q] = replay[q]
    BY <1>c, <2>2 DEF Handled
  <2>3. ASSUME Consumed(s)
        PROVE  /\ \A t \in Signals : \/ signal'[t] = signal[t]
                                     \/ t = s /\ signal'[t] = "consumed"
               /\ signal'[s] = "consumed"
    BY <2>1, <2>3 DEF Consumed
  <2>4. ASSUME Ends(r)
        PROVE  /\ replay'[r].todo = {} /\ ~replay'[r].vain
               /\ \A q \in Replayers \ {r} : replay'[q] = replay[q]
               /\ \A t \in Signals : sender'[t] \in {sender[t], "error"}
    BY <1>c, <1>4, <2>4 DEF Ends
  <2>5. ASSUME s \in Steers, turns' = Enqueued(s)
        PROVE  /\ \A t \in Steers :
                    \/ turns'[t] = turns[t]
                    \/ t = s /\ turns'[t] = turns[t] + 1 /\ thread = "plain"
                    \/ t = s /\ turns'[t] = 1 /\ thread = "subagent"
               /\ turns'[s] > 0
    BY <1>c, <1>5, <2>5
  <2>6. CASE Discard(r, s)
    <3>1. /\ Handled(r, s, FALSE) /\ Consumed(s) /\ UNCHANGED <<sender, turns, unsure>>
          /\ lost' = lost \cup ({s} \cap Steers)
      BY <2>6 DEF Discard
    <3> QED
      BY <2>1, <2>2, <2>3, <3>1 DEF ListStep
  <2>7. CASE Requeue(r, s)
    <3>1. /\ Handled(r, s, FALSE) /\ Consumed(s) /\ UNCHANGED <<sender, lost, unsure>>
          /\ s \in Steers /\ turns' = Enqueued(s)
      BY <2>1, <2>7 DEF Requeue, Worthless
    <3> QED
      BY <2>1, <2>2, <2>3, <2>5, <3>1 DEF ListStep
  <2>8. CASE DropPlain(r, s)
    <3>1. /\ Handled(r, s, TRUE) /\ UNCHANGED <<signal, sender>>
          /\ s \in Steers /\ thread = "plain"
          /\ \/ lost' = lost \cup {s} /\ UNCHANGED <<turns, unsure>>
             \/ /\ turns' = Enqueued(s) /\ unsure' = unsure \cup {s}
                /\ lost' = lost
      BY <2>1, <2>8 DEF DropPlain, Worthless
    <3>2. /\ signal[s] = "consumed" /\ turns[s] = 0
          /\ \A q \in Replayers \ {r} : s \notin replay[q].todo
      BY <2>1, <3>1 DEF TakenOnce
    <3>3. \A q \in Replayers : s \notin replay'[q].todo
      BY <2>2, <3>1, <3>2
    <3>4. NoRun(s)'
      BY <3>1, <3>2, <3>3 DEF NoRun
    <3>5. /\ \A t \in Steers :
               \/ turns'[t] = turns[t]
               \/ t = s /\ turns'[t] = turns[t] + 1 /\ thread = "plain"
               \/ t = s /\ turns'[t] = 1 /\ thread = "subagent"
          /\ s \in lost' \/ turns'[s] > 0
          /\ lost \subseteq lost' /\ unsure \subseteq unsure'
      BY <2>5, <3>1
    <3> QED
      BY <2>1, <2>2, <3>1, <3>2, <3>4, <3>5 DEF ListStep
  <2>9. CASE FailSubagent(r, s)
    <3>1. /\ Ends(r) /\ UNCHANGED <<signal, lost, unsure>>
          /\ s \in Steers /\ thread = "subagent" /\ turns' \in {turns, Enqueued(s)}
      BY <2>1, <2>9 DEF FailSubagent, Worthless
    <3> QED
      BY <2>1, <2>4, <2>5, <3>1 DEF ListStep
  <2>10. CASE Deny(r, s)
    <3>1. /\ Handled(r, s, TRUE) /\ Consumed(s) /\ UNCHANGED <<sender, turns>>
          /\ s \in Steers /\ thread = "subagent" /\ lost' = lost \cup {s}
          /\ unsure' = IF \/ turns[s] > 0
                          \/ \E q \in Replayers \ {r} : s \in replay[q].todo
                       THEN unsure \cup {s} ELSE unsure
      BY <2>1, <2>10 DEF Deny, Worthless
    <3>2. NoRun(s)'
      <4>1. \A q \in Replayers \ {r} : s \in replay'[q].todo => s \in unsure'
        BY <2>2, <3>1
      <4>2. turns'[s] > 0 => s \in unsure'
        BY <3>1
      <4>3. s \notin replay'[r].todo
        BY <2>2, <3>1
      <4> QED
        BY <1>c, <3>1, <4>1, <4>2, <4>3 DEF NoRun
    <3>3. lost \subseteq lost' /\ unsure \subseteq unsure' /\ s \in lost'
      BY <3>1
    <3> QED
      BY <2>1, <2>2, <2>3, <3>1, <3>2, <3>3 DEF ListStep
  <2>11. CASE Postpone(r, s)
    <3>1. /\ Handled(r, s, FALSE) /\ UNCHANGED <<signal, sender, turns, lost, unsure>>
          /\ s \in Steers /\ thread = "subagent"
      BY <2>1, <2>11 DEF Postpone, Worthless
    <3> QED
      BY <2>1, <2>2, <3>1 DEF ListStep
  <2> QED
    BY <1>6, <2>6, <2>7, <2>8, <2>9, <2>10, <2>11 DEF Replay
<1>7. ASSUME NEW r \in Replayers, NEW s \in Signals, Die(r, s)
      PROVE  ListStep(r, s)
  <2>1. /\ s \in replay[r].todo /\ UNCHANGED <<signal, unsure>>
        /\ sender' = FailedSender(r) /\ replay' = [replay EXCEPT ![r] = NoReplay]
        /\ s \notin Aborts => s \in Steers
    BY <1>7 DEF Die, Ends, Signals
  <2>2. /\ replay'[r].todo = {} /\ ~replay'[r].vain
        /\ \A q \in Replayers \ {r} : replay'[q] = replay[q]
    BY <1>c, <1>4, <2>1
  <2>4. CASE /\ lost' = IF thread = "plain"
                        THEN lost \cup (replay[r].todo \cap Steers) ELSE lost
             /\ turns' = turns
    BY <1>4, <2>1, <2>2, <2>4 DEF ListStep
  <2>5. CASE /\ thread = "subagent" /\ s \in Steers
             /\ turns' = Enqueued(s) /\ lost' = lost
    <3>1. \A t \in Steers : \/ turns'[t] = turns[t]
                            \/ t = s /\ turns'[t] = 1 /\ thread = "subagent"
      BY <1>5, <2>5
    <3> QED
      BY <1>4, <2>1, <2>2, <2>5, <3>1 DEF ListStep
  <2> QED
    BY <1>7, <2>1, <2>4, <2>5 DEF Die, Worthless
<1> QED
  BY <1>1, <1>3, <1>6, <1>7 DEF ReplayStep

-----------------------------------------------------------------------------
(* For any number of signals, attempts and faults, whoever replays beside    *)
(* whom: the inductive invariant holds.                                      *)
THEOREM SignalInvariance == SignalSpec => []SignalInv
<1>1. SignalInit => SignalInv
  <2> SUFFICES ASSUME SignalInit PROVE SignalInv
    OBVIOUS
  <2>a. /\ MaxAttempts \in Nat \ {0} /\ MaxFaults \in Nat
        /\ \A r \in Replayers : replay[r] = NoReplay
        /\ \A a \in Attempts : attempt[a] = NoAttempt
        /\ NoReplay.todo = {} /\ NoReplay.vain = FALSE
        /\ Signals \subseteq Replayers
        /\ NoAttempt.phase = "none" /\ NoAttempt.poll = "idle"
        /\ NoAttempt.cur = NoSignal /\ NoAttempt.todo = {}
        /\ NoAttempt.folded = {} /\ NoAttempt.heard = {}
        /\ NoReplay \in [todo : SUBSET Signals, vain : BOOLEAN]
        /\ run.status = "pending" /\ run.attempt = 0
        /\ NoSignal \notin Signals /\ Steers \subseteq Signals
    BY SignalAssumption
       DEF SignalInit, NoReplay, NoAttempt, Signals, NoSignal, Replayers
  <2>1. SignalTypeOK
    BY <2>a, AttemptShapes DEF SignalInit, SignalTypeOK
  <2>2. RunFits /\ NotesFit
    BY <2>a DEF RunFits, NotesFit, Current
  <2>3. UnsentUnknown /\ ReplayAfterEnd /\ FoldedFits
    BY <2>a DEF SignalInit, UnsentUnknown, ReplayAfterEnd, FoldedFits
  <2>4. TakenOnce /\ NothingTaken /\ VainFits
    BY <2>a DEF SignalInit, TakenOnce, NothingTaken, VainFits
  <2>5. SteerKept /\ AbortSurvives /\ RefusedMeansUnhandled
    BY <2>a DEF SignalInit, SteerKept, AbortSurvives, RefusedMeansUnhandled, Sent
  <2> QED
    BY <2>1, <2>2, <2>3, <2>4, <2>5 DEF SignalInv
<1>2. SignalInv /\ [SignalNext]_signalVars => SignalInv'
  <2> SUFFICES ASSUME SignalInv, [SignalNext]_signalVars PROVE SignalInv'
    OBVIOUS
  <2>1. SignalTypeOK'
    BY SignalStepType DEF SignalInv
  <2>2. CASE UNCHANGED signalVars
    BY <2>2 DEF signalVars, runVars, replayVars, SignalInv, SignalTypeOK, RunFits,
         NotesFit, UnsentUnknown, ReplayAfterEnd, TakenOnce, NothingTaken,
         VainFits, NoRun,
         FoldedFits, SteerKept, AbortSurvives, RefusedMeansUnhandled, Current,
         Terminal, Pending, Sent
  <2> QED
    BY <2>1, <2>2, RunInv, PollInv, SenderInv, ReplayInv DEF SignalNext
<1> QED
  BY <1>1, <1>2, PTL DEF SignalSpec

(* The variables keep their shapes.                                          *)
THEOREM SignalTypeCorrect == SignalSpec => []SignalTypeOK
  BY SignalInvariance, PTL DEF SignalInv

(* A stored steer is pending, in the hands of a replay, has reached the      *)
(* agent, or is on record as lost.                                           *)
THEOREM SteerNotLostAlways == SignalSpec => []SteerNotLost
<1>1. SignalInv => SteerNotLost
  <2> SUFFICES ASSUME SignalInv, NEW s \in Sent \cap Steers,
                      s \notin Pending \cup lost,
                      \A r \in Replayers : s \notin replay[r].todo
               PROVE  Reached(s)
    BY DEF SteerNotLost
  <2>1. \/ turns[s] > 0
        \/ /\ s \in noted
           /\ run.status \in {"running", "done"} =>
                s \in attempt[run.attempt].folded \cup attempt[run.attempt].heard
    BY DEF SignalInv, SteerKept
  <2>2. /\ run.status \in {"pending", "running", "done", "failed"}
        /\ run.status \in {"running", "done"} => run.attempt > 0
    BY DEF SignalInv, SignalTypeOK, RunFits
  <2> QED
    BY <2>1, <2>2 DEF Reached
<1> QED
  BY <1>1, SignalInvariance, PTL

(* A steer gets one run of its own at most, and none besides the attempt     *)
(* that took it and completed the run.                                       *)
THEOREM SteerHandledOnceAlways == SignalSpec => []SteerHandledOnce
<1>1. SignalInv => SteerHandledOnce
  <2> SUFFICES ASSUME SignalInv, NEW s \in Steers
               PROVE  /\ turns[s] <= 1
                      /\ turns[s] = 1 /\ s \notin unacked =>
                           \A a \in Attempts :
                             attempt[a].phase = "over" => s \notin attempt[a].folded
    BY DEF SteerHandledOnce
  <2>1. turns[s] <= 1
    BY SignalAssumption DEF SignalInv, SignalTypeOK, TakenOnce, NothingTaken
  <2>2. \A a \in Attempts : attempt[a].phase = "over" =>
          \A t \in attempt[a].folded \ unacked : turns[t] = 0
    BY DEF SignalInv, FoldedFits
  <2> QED
    BY <2>1, <2>2
<1> QED
  BY <1>1, SignalInvariance, PTL

(* A caller refused with "terminal" may send its message again, or its steer *)
(* is on record as one whose replay may have had an effect all the same.     *)
THEOREM RefusedMeansUnhandledAlways == SignalSpec => []RefusedMeansUnhandled
  BY SignalInvariance, PTL DEF SignalInv

(* A stop is pending until the run has ended: no poll consumes it.           *)
THEOREM AbortSurvivesAlways == SignalSpec => []AbortSurvives
  BY SignalInvariance, PTL DEF SignalInv
=============================================================================
