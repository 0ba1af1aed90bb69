---------------------------- MODULE WrapAction ----------------------------
(***************************************************************************)
(* One guarded call: wrapAction (src/shim.ts) with awaitWithDefault        *)
(* (src/core/defaults.ts), against any adapter, any clock and any sink.    *)
(*                                                                         *)
(* The adapter is what its type allows: a deliver() that takes any time    *)
(* and may throw, and a promise that is fulfilled, once, with any value of *)
(* Candidates, or rejected, or never settles; it may settle while deliver  *)
(* is still running.  The reaction to a settled promise is a microtask: it *)
(* runs before any timer, but the clock may have moved on since.           *)
(***************************************************************************)
EXTENDS Countersign, Integers

CONSTANTS
  Candidates,    \* [Intents -> SUBSET Resolution]: what an adapter may yield
  NoResolution,
  MaxTimer,      \* MAX_TIMER_MS
  ClockSteps,    \* TRUE: the wall clock may be stepped
  MaxTime        \* bound: the wall clock stays within 0..MaxTime

VARIABLES
  now,           \* Date.now()
  timer,         \* ticks until the Default timer fires; NoTimer when unarmed
  intent,        \* the Intent of the call; NoIntent before it is created
  pc,            \* how far the call has come
  adapter,       \* the adapter's promise: [state, value]
  reacted,       \* TRUE once the guarded reaction has run
  winner,        \* the Resolution that came out of the race
  log,           \* what the receipt sink holds, durably
  settledAt,     \* history: when the adapter's promise settled, and in which pc
  wonAt          \* history: the wall clock and the timer when the race ended

vars == <<now, timer, intent, pc, adapter, reacted, winner, log, settledAt, wonAt>>

NoTimer  == -1
NoIntent == "none"
Never    == [time |-> MaxTime + 1, pc |-> "idle"]

ASSUME WrapAssumption ==
  /\ Candidates \in [Intents -> SUBSET Resolution]
  /\ NoResolution \notin Resolution
  /\ NoIntent \notin Intents
  /\ MaxTimer \in Nat \ {0} /\ MaxTime \in Nat
  /\ ClockSteps \in BOOLEAN

Init ==
  /\ now \in 0..MaxTime
  /\ timer = NoTimer
  /\ intent = NoIntent
  /\ pc = "idle"
  /\ adapter = [state |-> "pending", value |-> NoResolution]
  /\ reacted = FALSE
  /\ winner = NoResolution
  /\ log = {}
  /\ settledAt = Never
  /\ wonAt = [time |-> 0, timer |-> NoTimer]

Expired == now >= Deadline[intent]

-----------------------------------------------------------------------------
(* wrapAction up to delivery                                               *)

(* createIntent, then the checks that refuse a configuration before        *)
(* anything is delivered.  created_at is now and timeout is in range.      *)
Wrap(i) ==
  /\ pc = "idle"
  /\ Deadline[i] - now \in 1..MaxTimer
  /\ intent' = i
  /\ pc' = IF WellFormed(i) /\ Deliverable(i) THEN "delivering" ELSE "refused"
  /\ UNCHANGED <<now, timer, adapter, reacted, winner, log, settledAt, wonAt>>

\* deliver() throws: nobody was asked, the action does not run.
DeliveryFails ==
  /\ pc = "delivering"
  /\ pc' = "failed"
  /\ UNCHANGED <<now, timer, intent, adapter, reacted, winner, log, settledAt, wonAt>>

-----------------------------------------------------------------------------
(* The adapter                                                             *)

AdapterSettles(state, r) ==
  /\ pc \in {"delivering", "racing"}
  /\ adapter.state = "pending"
  /\ adapter' = [state |-> state, value |-> r]
  /\ settledAt' = [time |-> now, pc |-> pc]
  /\ UNCHANGED <<now, timer, intent, pc, reacted, winner, log, wonAt>>

AdapterResolves ==
  intent # NoIntent /\ \E r \in Candidates[intent] : AdapterSettles("fulfilled", r)
AdapterRejects  == AdapterSettles("rejected", NoResolution)

-----------------------------------------------------------------------------
(* awaitWithDefault                                                        *)

\* Mutant: the winner of the race is not verified.
ConcludeUnverified(r) ==
  /\ winner' = r
  /\ pc' = "recording"
  /\ timer' = NoTimer
  /\ wonAt' = [time |-> now, timer |-> timer]

\* Mutant: the timer that lost the race stays armed.
ConcludeKeepsTimer(r) ==
  /\ winner' = r
  /\ pc' = IF VerifyResolution(intent, r) THEN "recording" ELSE "failed"
  /\ wonAt' = [time |-> now, timer |-> timer]
  /\ UNCHANGED timer

\* The end of the race: clear the timer, then verifyResolution returns or throws.
Conclude(r) ==
  /\ winner' = r
  /\ pc' = IF VerifyResolution(intent, r) THEN "recording" ELSE "failed"
  /\ timer' = NoTimer
  /\ wonAt' = [time |-> now, timer |-> timer]

\* Mutant: no Default timer.
DeliveredNoTimer ==
  LET remaining == Deadline[intent] - now
  IN  /\ pc = "delivering"
      /\ \/ /\ remaining <= 0
            /\ Conclude(MintDefault(intent, now))
         \/ /\ remaining > 0
            /\ pc' = "racing"
            /\ UNCHANGED <<timer, winner, wonAt>>
      /\ UNCHANGED <<now, intent, adapter, reacted, log, settledAt>>

(* deliver() returned: compute what remains of the window; past it the     *)
(* Default is minted, otherwise the race starts.                           *)
Delivered ==
  LET remaining == Deadline[intent] - now
  IN  /\ pc = "delivering"
      /\ \/ /\ remaining > MaxTimer
            /\ pc' = "failed"
            /\ UNCHANGED <<timer, winner, wonAt>>
         \/ /\ remaining <= 0
            /\ Conclude(MintDefault(intent, now))
         \/ /\ remaining \in 1..MaxTimer
            /\ pc' = "racing"
            /\ timer' = remaining
            /\ UNCHANGED <<winner, wonAt>>
      /\ UNCHANGED <<now, intent, adapter, reacted, log, settledAt>>

\* isEarlyDefaultDelivery: exactly what the runtime would mint itself.
IsEarlyDefault(i, r) ==
  \E c \in r.receipts :
    /\ r.receipts = {c}
    /\ c.policy = "default"
    /\ c.decision = DefaultDecision(i)
    /\ c.intent = i
    /\ Norm[c.actor] = TimeoutActor
    /\ VerifyCountersignature(c, Authority)

\* Mutant: every late answer is replaced by the Default, a veto too.
LateOutcomeNoException(i) == MintDefault(i, now)

\* The handlers of `guarded` run after the deadline: the Default, except
\* that a veto is never turned into an approve.
LateOutcome(i) ==
  IF /\ adapter.state = "fulfilled"
     /\ DefaultDecision(i) = "approve"
     /\ adapter.value.decision = "reject"
  THEN adapter.value
  ELSE MintDefault(i, now)

\* Mutant: a Default the adapter delivers early is taken at its word.
ReactTakesEarlyDefault ==
  /\ pc = "racing" /\ ~reacted
  /\ adapter.state # "pending"
  /\ reacted' = TRUE
  /\ \/ Expired /\ Conclude(LateOutcome(intent))
     \/ ~Expired /\ adapter.state = "fulfilled" /\ Conclude(adapter.value)
     \/ /\ ~Expired /\ adapter.state = "rejected"
        /\ pc' = "failed" /\ timer' = NoTimer
        /\ UNCHANGED <<winner, wonAt>>
  /\ UNCHANGED <<now, intent, adapter, log, settledAt>>

\* Mutant: an adapter error is treated as silence and left to the timer.
ReactErrorIsSilence ==
  /\ pc = "racing" /\ ~reacted
  /\ adapter.state # "pending"
  /\ reacted' = TRUE
  /\ \/ Expired /\ Conclude(LateOutcome(intent))
     \/ ~Expired /\ adapter.state = "fulfilled" /\ Conclude(adapter.value)
     \/ ~Expired /\ adapter.state = "rejected" /\ UNCHANGED <<pc, timer, winner, wonAt>>
  /\ UNCHANGED <<now, intent, adapter, log, settledAt>>

(* guarded: the reaction to the adapter's promise.                         *)
React ==
  /\ pc = "racing" /\ ~reacted
  /\ adapter.state # "pending"
  /\ reacted' = TRUE
  /\ \/ /\ Expired
        /\ Conclude(LateOutcome(intent))
     \/ /\ ~Expired
        /\ adapter.state = "fulfilled"
        /\ IsEarlyDefault(intent, adapter.value)   \* a promise that never settles
        /\ UNCHANGED <<pc, timer, winner, wonAt>>
     \/ /\ ~Expired
        /\ adapter.state = "fulfilled"
        /\ ~IsEarlyDefault(intent, adapter.value)
        /\ Conclude(adapter.value)
     \/ /\ ~Expired
        /\ adapter.state = "rejected"
        /\ pc' = "failed"
        /\ timer' = NoTimer
        /\ UNCHANGED <<winner, wonAt>>
  /\ UNCHANGED <<now, intent, adapter, log, settledAt>>

\* A due timer is a macrotask: pending reactions go first.
TimerFires ==
  /\ pc = "racing"
  /\ timer = 0
  /\ adapter.state = "pending" \/ reacted
  /\ Conclude(MintDefault(intent, now))
  /\ UNCHANGED <<now, intent, adapter, reacted, log, settledAt>>

-----------------------------------------------------------------------------
(* Record before acting                                                    *)

\* receiptLog.record resolved: the receipts are durable.
RecordSucceeds ==
  /\ pc = "recording"
  /\ log' = log \cup {winner}
  /\ pc' = "recorded"
  /\ UNCHANGED <<now, timer, intent, adapter, reacted, winner, settledAt, wonAt>>

\* Mutant: a failure to record is ignored.
RecordFailsIgnored ==
  /\ pc = "recording"
  /\ pc' = "recorded"
  /\ UNCHANGED <<now, timer, intent, adapter, reacted, winner, log, settledAt, wonAt>>

\* record threw, whether or not the receipts reached the disk.
RecordFails ==
  /\ pc = "recording"
  /\ log' \in {log, log \cup {winner}}
  /\ pc' = "failed"
  /\ UNCHANGED <<now, timer, intent, adapter, reacted, winner, settledAt, wonAt>>

\* Run the action, or throw IntentRejectedError.
Act ==
  /\ pc = "recorded"
  /\ pc' = IF winner.decision = "approve" THEN "ran" ELSE "rejected"
  /\ UNCHANGED <<now, timer, intent, adapter, reacted, winner, log, settledAt, wonAt>>

\* The process dies at any point; only the log survives.
Crash ==
  /\ pc \in {"delivering", "racing", "recording", "recorded"}
  /\ pc' = "crashed"
  /\ timer' = NoTimer
  /\ log' \in {log} \cup (IF pc = "recording" THEN {log \cup {winner}} ELSE {})
  /\ UNCHANGED <<now, intent, adapter, reacted, winner, settledAt, wonAt>>

-----------------------------------------------------------------------------
(* The clocks; a tick beyond MaxTime changes nothing the call can see      *)

Tick ==
  /\ now < MaxTime \/ timer > 0
  /\ now' = IF now < MaxTime THEN now + 1 ELSE now
  /\ timer' = IF timer > 0 THEN timer - 1 ELSE timer
  /\ UNCHANGED <<intent, pc, adapter, reacted, winner, log, settledAt, wonAt>>

StepClock ==
  /\ ClockSteps
  /\ now' \in 0..MaxTime \ {now}
  /\ UNCHANGED <<timer, intent, pc, adapter, reacted, winner, log, settledAt, wonAt>>

Next ==
  \/ \E i \in Intents : Wrap(i)
  \/ Delivered \/ DeliveryFails
  \/ AdapterResolves \/ AdapterRejects
  \/ React \/ TimerFires
  \/ RecordSucceeds \/ RecordFails \/ Act \/ Crash
  \/ Tick \/ StepClock

Spec == Init /\ [][Next]_vars

(* Node runs a due reaction and a due timer, time passes, and the append   *)
(* of the receipts returns or throws.  Nothing is assumed of deliver(), of *)
(* the adapter's promise or of the approvers.                              *)
FairSpec ==
  /\ Spec
  /\ WF_vars(React) /\ WF_vars(TimerFires)
  /\ WF_vars(RecordSucceeds \/ RecordFails) /\ WF_vars(Act)
  /\ WF_vars(Tick)

-----------------------------------------------------------------------------
(* Properties                                                              *)

TypeOK ==
  /\ now \in 0..MaxTime
  /\ timer \in 0..MaxTimer \cup {NoTimer}
  /\ timer # NoTimer <=> pc = "racing"
  /\ intent \in Intents \cup {NoIntent}
  /\ pc \in {"idle", "refused", "delivering", "racing", "recording", "recorded",
             "ran", "rejected", "failed", "crashed"}
  /\ pc \notin {"idle"} => intent \in Intents
  /\ adapter \in [state: {"pending", "fulfilled", "rejected"},
                  value: Resolution \cup {NoResolution}]
  /\ reacted \in BOOLEAN
  /\ winner \in Resolution \cup {NoResolution}
  /\ log \subseteq {winner} /\ NoResolution \notin log

Signed(i, a, d, c) ==
  /\ c.intent = i /\ c.decision = d
  /\ Norm[c.actor] = a /\ c.key = TrustedKey(i, a)

Silence(i) == Default[i] = "approve" /\ Quorum[i] = 1

(* The guarded function runs only if a quorum of distinct listed approvers *)
(* signed an approval of this very Intent with the keys it binds them to,  *)
(* or if the Intent says that silence approves and the runtime's Default   *)
(* decided, whatever the adapter yields and whatever the clock does.       *)
RunOnlyIfAuthorised ==
  pc = "ran" =>
    \/ \E S \in SUBSET Approvers(intent) :
         /\ Cardinality(S) >= Quorum[intent]
         /\ \A a \in S : \E c \in winner.receipts : Signed(intent, a, "approve", c)
    \/ Silence(intent) /\ winner.policy = "default"

(* Record before acting: the function runs only once the receipts of the   *)
(* decision that let it are durable, and what ends a call in a rejection   *)
(* is on record too.                                                       *)
RecordedBeforeActing == pc \in {"ran", "rejected"} => winner \in log

Vetoed ==
  /\ adapter.state = "fulfilled"
  /\ adapter.value.decision = "reject"
  /\ VerifyResolution(intent, adapter.value)
  /\ settledAt.time < Deadline[intent]

(* A listed approver's reject that the adapter yields while it is awaited  *)
(* never ends in the function running, even when the reaction to it runs   *)
(* after the deadline or the timer is already due.                         *)
VetoHonoured == Vetoed /\ settledAt.pc = "racing" => pc # "ran"

(* The same, for every reject that came inside the window: what the        *)
(* comment in awaitWithDefault promises ("Converting a human's NO into a   *)
(* YES is the one outcome this gate must never produce").                  *)
NoNeverBecomesYes == Vetoed => pc # "ran"

(* A Default decides only once the deadline was reached on one of the two  *)
(* clocks: none that the adapter hands over early ever wins.               *)
DefaultNotEarly ==
  winner # NoResolution /\ pc # "failed" /\ winner.policy = "default" =>
    wonAt.time >= Deadline[intent] \/ wonAt.timer = 0

\* A Default that decides because the adapter was silent verifies, even when
\* the clock that dates its receipt went back after the timer was armed.
MintedDefaultVerifies ==
  winner # NoResolution /\ adapter.state = "pending" =>
    VerifyResolution(intent, winner)

(* A broken channel is not silence: when the adapter's promise rejects,    *)
(* the function runs only if the Default had already decided by the time   *)
(* the error was seen.  And silence is not an error: the Default that      *)
(* mintDefault makes is one that the runtime's own verification accepts,   *)
(* wherever the wall clock was stepped in the meantime.                    *)
ErrorIsNotSilence ==
  /\ pc = "ran" /\ adapter.state = "rejected" => wonAt.time >= Deadline[intent]
  /\ MintedDefaultVerifies

(* No guarded call hangs: once it waits for an answer it ends, although    *)
(* the adapter may never settle its promise and the wall clock may be      *)
(* stepped again and again.                                                *)
EveryCallEnds ==
  pc = "racing" ~> pc \in {"ran", "rejected", "failed", "crashed"}
=============================================================================
