------------------------- MODULE PendingDecisions -------------------------
(***************************************************************************)
(* PendingDecisions (src/adapter.ts): the book-keeping every adapter       *)
(* shares.  Each method runs to completion on the event loop, so each is   *)
(* one action.  What interleaves is who calls which method when, the two   *)
(* clocks (Date.now() and the monotonic clock behind setTimeout), and the  *)
(* reapers, which an event-loop stall can delay for any time.              *)
(*                                                                         *)
(* A call of wait() is named by a member of Calls; the promise it creates, *)
(* when it creates one, has the same name.                                 *)
(***************************************************************************)
EXTENDS Countersign, Integers

CONSTANTS
  Calls,           \* names of wait() calls
  NoResolution,    \* the value of a promise that has not been fulfilled
  MaxTimer,        \* setTimeout's ceiling: a longer delay fires after 1 ms
  ClockSteps,      \* the ways the wall clock may be stepped, e.g. by NTP
  MaxTime,         \* bound: the monotonic clock stops here
  MaxStep,         \* bound: the latest reading a step of the wall clock lands on
  MaxAborts        \* bound: how often abortAll is called

VARIABLES
  now,             \* Date.now()
  mono,            \* the clock setTimeout measures delays with
  entries,         \* intent id -> [promise, approvals]
  resolved,        \* tombstones: intent id -> Resolution
  timers,          \* armed reapers: promise of the entry -> when it is due
  promises,        \* every promise wait() created
  returned,        \* history: call -> the promise wait() returned to it
  aborts           \* history: how often abortAll ran

vars == <<now, mono, entries, resolved, timers, promises, returned, aborts>>

ASSUME PendingAssumption ==
  /\ \A i \in Intents : WellFormed(i) /\ Deliverable(i)
  /\ NoResolution \notin Resolution
  /\ MaxTimer \in Nat \ {0}
  /\ ClockSteps \subseteq {"forward", "back"}
  /\ MaxTime \in Nat /\ MaxStep \in Nat /\ MaxAborts \in Nat

IsEntry(e) ==
  /\ e \in [promise: Calls, approvals: {e.approvals}]
  /\ DOMAIN e.approvals \subseteq Actors
  /\ e.approvals \in [DOMAIN e.approvals -> Receipt]

Promise == [intent: Intents, state: {"pending", "fulfilled", "rejected"},
            value: Resolution \cup {NoResolution}, epoch: Nat]

NewPromise(i, state, value) ==
  [intent |-> i, state |-> state, value |-> value, epoch |-> aborts]

Fulfil(p, r) == [promises EXCEPT ![p].state = "fulfilled", ![p].value = r]

RejectAll(ps) ==
  [p \in DOMAIN promises |->
     IF p \in ps THEN [promises[p] EXCEPT !.state = "rejected"] ELSE promises[p]]

Init ==
  /\ now = 0 /\ mono = 0
  /\ entries = EmptyMap /\ resolved = EmptyMap /\ timers = EmptyMap
  /\ promises = EmptyMap /\ returned = EmptyMap
  /\ aborts = 0

-----------------------------------------------------------------------------
(* wait                                                                    *)

Expired(i) == now >= Deadline[i]

\* setTimeout(reaper, max(0, remaining)), with setTimeout's own clamping.
ReaperDue(i) ==
  LET remaining == Deadline[i] - now
  IN  mono + (IF remaining > MaxTimer THEN 1 ELSE IF remaining < 0 THEN 0 ELSE remaining)

\* A tombstone before its deadline answers at once with the recorded outcome.
WaitReplay(w, i) ==
  /\ i \in DOMAIN resolved
  /\ ~Expired(i)
  /\ promises' = MapSet(promises, w, NewPromise(i, "fulfilled", resolved[i]))
  /\ returned' = MapSet(returned, w, w)
  /\ UNCHANGED <<entries, resolved, timers>>

\* Mutant: the second wait() gets a promise no entry will ever settle.
WaitJoinOwnPromise(w, i) ==
  /\ i \in DOMAIN resolved => Expired(i)
  /\ resolved' = MapDelete(resolved, {i})
  /\ i \in DOMAIN entries
  /\ returned' = MapSet(returned, w, w)
  /\ UNCHANGED <<entries, timers, promises>>

\* A live entry's promise is shared by every wait() for its intent.
WaitJoin(w, i) ==
  /\ i \in DOMAIN resolved => Expired(i)
  /\ resolved' = MapDelete(resolved, {i})
  /\ i \in DOMAIN entries
  /\ returned' = MapSet(returned, w, entries[i].promise)
  /\ UNCHANGED <<entries, timers, promises>>

\* Mutant: a second wait() overwrites the entry of the first.
WaitRegisterOverwrites(w, i) ==
  /\ i \in DOMAIN resolved => Expired(i)
  /\ resolved' = MapDelete(resolved, {i})
  /\ promises' = MapSet(promises, w, NewPromise(i, "pending", NoResolution))
  /\ entries'  = MapSet(entries, i, [promise |-> w, approvals |-> EmptyMap])
  /\ timers'   = MapSet(timers, w, ReaperDue(i))
  /\ returned' = MapSet(returned, w, w)

\* Mutant: no reaper is armed.
WaitRegisterNoReaper(w, i) ==
  /\ i \in DOMAIN resolved => Expired(i)
  /\ resolved' = MapDelete(resolved, {i})
  /\ i \notin DOMAIN entries
  /\ promises' = MapSet(promises, w, NewPromise(i, "pending", NoResolution))
  /\ entries'  = MapSet(entries, i, [promise |-> w, approvals |-> EmptyMap])
  /\ returned' = MapSet(returned, w, w)
  /\ UNCHANGED timers

\* Otherwise a fresh entry, promise and reaper.
WaitRegister(w, i) ==
  /\ i \in DOMAIN resolved => Expired(i)
  /\ resolved' = MapDelete(resolved, {i})
  /\ i \notin DOMAIN entries
  /\ promises' = MapSet(promises, w, NewPromise(i, "pending", NoResolution))
  /\ entries'  = MapSet(entries, i, [promise |-> w, approvals |-> EmptyMap])
  /\ timers'   = MapSet(timers, w, ReaperDue(i))
  /\ returned' = MapSet(returned, w, w)

Wait(w, i) ==
  /\ w \notin DOMAIN returned
  /\ WaitReplay(w, i) \/ WaitJoin(w, i) \/ WaitRegister(w, i)
  /\ UNCHANGED <<now, mono, aborts>>

\* The reaper evicts its own entry and leaves the promise pending.
Reap(w) ==
  /\ w \in DOMAIN timers
  /\ mono >= timers[w]
  /\ timers' = MapDelete(timers, {w})
  /\ LET i == promises[w].intent
         own == i \in DOMAIN entries /\ entries[i].promise = w
     IN  entries' = IF own THEN MapDelete(entries, {i}) ELSE entries
  /\ UNCHANGED <<now, mono, resolved, promises, returned, aborts>>

-----------------------------------------------------------------------------
(* settle and record                                                       *)

\* A decision that reaches a live entry at or after the deadline evicts it.
EvictLate(i) ==
  /\ Expired(i)
  /\ timers'  = MapDelete(timers, {entries[i].promise})
  /\ entries' = MapDelete(entries, {i})
  /\ UNCHANGED <<resolved, promises>>

\* Mutant: no tombstone.
FinishNoTombstone(i, decision, receipts) ==
  LET p == entries[i].promise
      r == [decision |-> decision, policy |-> "approver",
            receipts |-> receipts, stamp |-> now]
  IN  /\ timers'   = MapDelete(timers, {p})
      /\ entries'  = MapDelete(entries, {i})
      /\ promises' = Fulfil(p, r)
      /\ UNCHANGED resolved

\* Mutant: expired tombstones are not swept.
FinishNoSweep(i, decision, receipts) ==
  LET p == entries[i].promise
      r == [decision |-> decision, policy |-> "approver",
            receipts |-> receipts, stamp |-> now]
  IN  /\ timers'   = MapDelete(timers, {p})
      /\ entries'  = MapDelete(entries, {i})
      /\ resolved' = MapSet(resolved, i, r)
      /\ promises' = Fulfil(p, r)

\* finish: sweep the expired tombstones, leave one for i, settle the promise.
Finish(i, decision, receipts) ==
  LET p == entries[i].promise
      r == [decision |-> decision, policy |-> "approver",
            receipts |-> receipts, stamp |-> now]
      swept == MapDelete(resolved, {j \in DOMAIN resolved : Expired(j)})
  IN  /\ timers'   = MapDelete(timers, {p})
      /\ entries'  = MapDelete(entries, {i})
      /\ resolved' = MapSet(swept, i, r)
      /\ promises' = Fulfil(p, r)

\* Mutant: approvals are counted by the raw spelling of the actor.
AcceptRawActor(i, c) ==
  LET approvals == MapSet(entries[i].approvals, c.actor, c)
  IN  \/ /\ c.decision = "reject"
         /\ Finish(i, "reject", {c})
      \/ /\ c.decision = "approve"
         /\ Cardinality(DOMAIN approvals) >= Quorum[i]
         /\ Finish(i, "approve", MapValues(approvals))
      \/ /\ c.decision = "approve"
         /\ Cardinality(DOMAIN approvals) < Quorum[i]
         /\ entries' = [entries EXCEPT ![i].approvals = approvals]
         /\ UNCHANGED <<resolved, timers, promises>>

\* Mutant: one approval more than the quorum is needed.
AcceptOffByOne(i, c) ==
  LET approvals == MapSet(entries[i].approvals, Norm[c.actor], c)
  IN  \/ /\ c.decision = "reject"
         /\ Finish(i, "reject", {c})
      \/ /\ c.decision = "approve"
         /\ Cardinality(DOMAIN approvals) > Quorum[i]
         /\ Finish(i, "approve", MapValues(approvals))
      \/ /\ c.decision = "approve"
         /\ Cardinality(DOMAIN approvals) <= Quorum[i]
         /\ entries' = [entries EXCEPT ![i].approvals = approvals]
         /\ UNCHANGED <<resolved, timers, promises>>

\* What settle and record do with a receipt they have accepted: a reject
\* vetoes, an approve counts once per canonical actor.
Accept(i, c) ==
  LET approvals == MapSet(entries[i].approvals, Norm[c.actor], c)
  IN  \/ /\ c.decision = "reject"
         /\ Finish(i, "reject", {c})
      \/ /\ c.decision = "approve"
         /\ Cardinality(DOMAIN approvals) >= Quorum[i]
         /\ Finish(i, "approve", MapValues(approvals))
      \/ /\ c.decision = "approve"
         /\ Cardinality(DOMAIN approvals) < Quorum[i]
         /\ entries' = [entries EXCEPT ![i].approvals = approvals]
         /\ UNCHANGED <<resolved, timers, promises>>

ApproverSet(i) == Vouched[i] \ {TimeoutActor}

(* settle: the server vouches for a listed vouched approver.  An actor it  *)
(* does not list changes nothing, as does an unknown intent.               *)
Settle(i, d, actor) ==
  /\ i \in DOMAIN entries
  /\ \/ EvictLate(i)
     \/ /\ ~Expired(i)
        /\ Norm[actor] \in ApproverSet(i)
        /\ Accept(i, SignDecision(i, d, actor, Authority, "approver"))
  /\ UNCHANGED <<now, mono, returned, aborts>>

KeyedApprovers(i) == Keyed[i] \ {TimeoutActor}

\* Mutant: the clock is left to the reaper.
RecordNoDeadline(c) ==
  /\ c.intent \in DOMAIN entries
  /\ c.policy = "approver"
  /\ Norm[c.actor] \in KeyedApprovers(c.intent)
  /\ VerifyCountersignature(c, KeyOf[Norm[c.actor]])
  /\ Accept(c.intent, c)
  /\ UNCHANGED <<now, mono, returned, aborts>>

(* record: a keyed approver brings a receipt they signed themselves.       *)
Record(c) ==
  /\ c.intent \in DOMAIN entries
  /\ \/ EvictLate(c.intent)
     \/ /\ ~Expired(c.intent)
        /\ c.policy = "approver"
        /\ Norm[c.actor] \in KeyedApprovers(c.intent)
        /\ VerifyCountersignature(c, KeyOf[Norm[c.actor]])
        /\ Accept(c.intent, c)
  /\ UNCHANGED <<now, mono, returned, aborts>>

-----------------------------------------------------------------------------
(* cancel and abortAll                                                     *)

\* Mutant: the reaper of a cancelled entry stays armed.
CancelKeepsTimer(i) ==
  /\ i \in DOMAIN entries
  /\ entries'  = MapDelete(entries, {i})
  /\ promises' = RejectAll({entries[i].promise})
  /\ UNCHANGED <<now, mono, timers, resolved, returned, aborts>>

\* cancel: not terminal, so it leaves no tombstone and the intent can retry.
Cancel(i) ==
  /\ i \in DOMAIN entries
  /\ timers'   = MapDelete(timers, {entries[i].promise})
  /\ entries'  = MapDelete(entries, {i})
  /\ promises' = RejectAll({entries[i].promise})
  /\ UNCHANGED <<now, mono, resolved, returned, aborts>>

\* abortAll: the adapter closes; live entries and tombstones are dropped.
AbortAll ==
  /\ aborts < MaxAborts
  /\ aborts' = aborts + 1
  /\ LET live == {entries[i].promise : i \in DOMAIN entries}
     IN  /\ timers'   = MapDelete(timers, live)
         /\ promises' = RejectAll(live)
  /\ entries' = EmptyMap
  /\ resolved' = EmptyMap
  /\ UNCHANGED <<now, mono, returned>>

-----------------------------------------------------------------------------
(* The clocks                                                              *)

Tick ==
  /\ mono < MaxTime
  /\ now' = now + 1 /\ mono' = mono + 1
  /\ UNCHANGED <<entries, resolved, timers, promises, returned, aborts>>

StepClock ==
  /\ now' \in 0..MaxStep
  /\ \/ "forward" \in ClockSteps /\ now' > now
     \/ "back" \in ClockSteps /\ now' < now
  /\ UNCHANGED <<mono, entries, resolved, timers, promises, returned, aborts>>

Next ==
  \/ \E w \in Calls, i \in Intents : Wait(w, i)
  \/ \E w \in Calls : Reap(w)
  \/ \E i \in Intents, d \in Decisions, a \in Spellings : Settle(i, d, a)
  \/ \E c \in Receipt : Record(c)
  \/ \E i \in Intents : Cancel(i)
  \/ AbortAll
  \/ Tick
  \/ StepClock

Spec == Init /\ [][Next]_vars

(* The clock advances and an armed timer fires once it is due (setTimeout  *)
(* gives both); no approver, caller or operator has to do anything.        *)
FairSpec == Spec /\ WF_vars(Tick) /\ \A w \in Calls : WF_vars(Reap(w))

-----------------------------------------------------------------------------
(* Properties                                                              *)

TypeOK ==
  /\ now \in Nat /\ mono \in Nat /\ aborts \in Nat
  /\ DOMAIN entries \subseteq Intents
  /\ \A i \in DOMAIN entries : IsEntry(entries[i])
  /\ DOMAIN resolved \subseteq Intents
  /\ \A i \in DOMAIN resolved : resolved[i] \in Resolution
  /\ DOMAIN timers \subseteq DOMAIN promises
  /\ \A w \in DOMAIN timers : timers[w] \in Nat
  /\ DOMAIN promises \subseteq Calls
  /\ \A p \in DOMAIN promises : promises[p] \in Promise
  /\ DOMAIN returned \subseteq Calls
  /\ \A w \in DOMAIN returned : returned[w] \in DOMAIN promises

Fulfilled(p) == promises[p].state = "fulfilled"

(* Every resolution settle() or record() hands out is one verifyResolution *)
(* accepts.  The two were written separately and check separately: were    *)
(* they to disagree, an approver would be told "approved" and the runtime  *)
(* would then refuse the receipts.                                         *)
ResolutionsVerify ==
  \A p \in DOMAIN promises :
    Fulfilled(p) => VerifyResolution(promises[p].intent, promises[p].value)

(* No decision is taken at or after the deadline, even when a stalled      *)
(* event loop leaves the reaper overdue and the entry still in the map.    *)
DecidedInWindow ==
  \A p \in DOMAIN promises :
    Fulfilled(p) => promises[p].value.stamp < Deadline[promises[p].intent]

(* Finality: whatever sequence of waits, decisions, cancels, retries and   *)
(* evictions an intent goes through, all the promises for it that were     *)
(* fulfilled between two abortAll calls carry the same resolution.         *)
Finality ==
  \A p, q \in DOMAIN promises :
    /\ Fulfilled(p) /\ Fulfilled(q)
    /\ promises[p].intent = promises[q].intent
    /\ promises[p].epoch = promises[q].epoch
    => promises[p].value = promises[q].value

\* Who waits, in a window setTimeout can wait out, waits on a live entry.
WaitersServed ==
  \A p \in DOMAIN promises :
    promises[p].state = "pending" =>
      LET i == promises[p].intent
      IN  \/ i \in DOMAIN entries /\ entries[i].promise = p
          \/ Expired(i)
          \/ Deadline[i] > MaxTimer

\* Every entry has an armed reaper of its own, and no other is armed.
ReapersMatchEntries ==
  /\ \A i \in DOMAIN entries : entries[i].promise \in DOMAIN timers
  /\ \A w \in DOMAIN timers : \E i \in DOMAIN entries : entries[i].promise = w

(* A promise somebody waits on is only ever abandoned by its deadline, or  *)
(* by a reaper that setTimeout ran early because the window exceeds its    *)
(* ceiling: a second wait, a cancel, an abort or another intent's reaper   *)
(* never orphans it.  For that no way an entry leaves the map may leak its *)
(* timer: a reaper, early or late, meets the entry it was armed for and no *)
(* later one.                                                              *)
NoStrandedWaiter == WaitersServed /\ ReapersMatchEntries

(* The tombstone map stays bounded: after a decision leaves a tombstone,   *)
(* none in the map is past its deadline.                                   *)
TombstonesSwept ==
  [][\A i \in DOMAIN resolved' \ DOMAIN resolved :
       \A j \in DOMAIN resolved' : now < Deadline[j]]_resolved

(* Nothing is leaked for ever: every entry leaves the map, although no     *)
(* approver ever answers.                                                  *)
EntriesEvicted ==
  \A i \in Intents : i \in DOMAIN entries ~> i \notin DOMAIN entries

(* The abstract gate, with the votes of the live entry and the decisions   *)
(* of the promises fulfilled since the last abortAll.                      *)
GateVotes ==
  [i \in Intents |-> IF i \in DOMAIN entries THEN DOMAIN entries[i].approvals ELSE {}]

GateVerdict ==
  [i \in Intents |->
     {promises[p].value.decision : p \in {q \in DOMAIN promises :
        Fulfilled(q) /\ promises[q].intent = i /\ promises[q].epoch = aborts}}]

Gate == INSTANCE QuorumGate WITH
  Listed <- [i \in Intents |-> Approvers(i)],
  clock <- now, votes <- GateVotes, verdict <- GateVerdict

(* PendingDecisions implements the abstract M-of-N gate with a veto.       *)
GateSpec == Gate!Spec
=============================================================================
