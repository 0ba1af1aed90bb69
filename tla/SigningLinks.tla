--------------------------- MODULE SigningLinks ---------------------------
(***************************************************************************)
(* SigningLinkAdapter (src/adapters/signing-link.ts) over SigningServer    *)
(* (src/signing.ts) over PendingDecisions: keyed approvers decide through  *)
(* single-use links.                                                       *)
(*                                                                         *)
(* A caller runs deliver() and then awaitResolution(), as wrapAction does; *)
(* one that never delivered may ask again for the resolution of an intent  *)
(* somebody else delivered, as a supervisor does.  deliver() suspends once, *)
(* in its race of the notifications, the wait and the deadline; what       *)
(* follows the race is microtasks, so it belongs to the step that ends it. *)
(* The wall clock is not stepped here.                                     *)
(***************************************************************************)
EXTENDS Countersign, Integers

CONSTANTS
  Callers,         \* each delivers at most once and awaits at most once
  NoResolution,
  MaxTimer,
  MaxTime          \* bound on the clock

VARIABLES
  now, mono, entries, resolved, timers, promises, returned, aborts,
  consumed,        \* SigningServer.consumed: <<intent, actor>> -> expiry
  closed,          \* SigningLinkAdapter.closed
  captured,        \* SigningLinkAdapter.captured: intent -> promise
  reclaims,        \* armed deadline timers of deliver(): caller -> due
  deliveries,      \* caller -> [intent, state, told, erred]
  waits,           \* caller -> [intent, promise] of its awaitResolution()
  uses             \* history: <<intent, actor>> -> decisions recorded

ASSUME SigningLinksAssumption ==
  /\ \A i \in Intents : WellFormed(i) /\ Deliverable(i)
  /\ NoResolution \notin Resolution
  /\ MaxTimer \in Nat \ {0} /\ MaxTime \in Nat

Calls == Callers \X {"deliver", "await"}
Refused == << >>   \* awaitResolution answered with a rejection of its own

PD == INSTANCE PendingDecisions WITH ClockSteps <- {}, MaxStep <- 0, MaxAborts <- 1

pdVars == <<now, mono, entries, resolved, timers, promises, returned, aborts>>
vars == <<pdVars, consumed, closed, captured, reclaims, deliveries, waits, uses>>

Links == Intents \X Actors

Delivery == [intent: Intents, state: {"notifying", "returned", "failed"},
             told: SUBSET Actors, erred: SUBSET Actors]

Init ==
  /\ PD!Init
  /\ consumed = EmptyMap /\ closed = FALSE /\ captured = EmptyMap
  /\ reclaims = EmptyMap /\ deliveries = EmptyMap /\ waits = EmptyMap
  /\ uses = [l \in Links |-> 0]

Expired(i) == now >= Deadline[i]

\* The links of i exist once some delivery of i has made them.
LinkOut(i) == \E d \in DOMAIN deliveries : deliveries[d].intent = i

\* What deliver() races: the promise it captured.
Awaited(d) == returned[<<d, "deliver">>]

-----------------------------------------------------------------------------
(* deliver                                                                 *)

\* Mutant: what no longer has an entry counts as settled (isPending).
SettledNotPending(p) ==
  promises'[p].state # "pending" \/ promises'[p].intent \notin DOMAIN entries'

\* `settled`: a decision, a cancel or an abort, but not the reaper.
Settled(p) == promises'[p].state # "pending"

\* Mutant: the wait is not in the race.
WokenNever(ds) == ds

\* The deliveries of ds whose wait has settled return without an error.
Woken(ds) ==
  [d \in DOMAIN ds |->
     IF ds[d].state = "notifying" /\ Settled(Awaited(d))
     THEN [ds[d] EXCEPT !.state = "returned"] ELSE ds[d]]

\* Mutant: a closed adapter still delivers.
DeliverAfterClose(d, i) ==
  /\ d \notin DOMAIN deliveries \cup DOMAIN waits
  /\ Vouched[i] = {}
  /\ PD!Wait(<<d, "deliver">>, i)
  /\ LET p == returned'[<<d, "deliver">>]
     IN  /\ captured' = MapSet(captured, i, p)
         /\ deliveries' = MapSet(deliveries, d,
              [intent |-> i, told |-> {}, erred |-> {},
               state |-> IF Settled(p) THEN "returned" ELSE "notifying"])
  /\ reclaims' = MapSet(reclaims, d, PD!ReaperDue(i))
  /\ UNCHANGED <<consumed, closed, waits, uses>>

(* Register the wait and capture its promise before any link goes out.  A  *)
(* vouched approver is refused before that, and so is a closed adapter.    *)
Deliver(d, i) ==
  /\ d \notin DOMAIN deliveries \cup DOMAIN waits
  /\ ~closed
  /\ Vouched[i] = {}
  /\ PD!Wait(<<d, "deliver">>, i)
  /\ LET p == returned'[<<d, "deliver">>]
     IN  /\ captured' = MapSet(captured, i, p)
         /\ deliveries' = MapSet(deliveries, d,
              [intent |-> i, told |-> {}, erred |-> {},
               state |-> IF Settled(p) THEN "returned" ELSE "notifying"])
  /\ reclaims' = MapSet(reclaims, d, PD!ReaperDue(i))
  /\ UNCHANGED <<consumed, closed, waits, uses>>

\* server.cancel, which does nothing when the intent has no entry.
CancelWait(i) == PD!Cancel(i) \/ (i \notin DOMAIN entries /\ UNCHANGED pdVars)

\* Nobody was told, or not everybody and silence approves.
DeliveryFailed(delivery) ==
  \/ delivery.told = {}
  \/ delivery.told # Keyed[delivery.intent] /\ Default[delivery.intent] = "approve"

\* The race of d ended with the wait unsettled: return, or fail closed.
AfterRace(d, ds, kept) ==
  LET i == ds[d].intent
  IN  \/ /\ ~DeliveryFailed(ds[d])
         /\ deliveries' = [ds EXCEPT ![d].state = "returned"]
         /\ captured' = kept
         /\ UNCHANGED pdVars
      \/ /\ DeliveryFailed(ds[d])
         /\ CancelWait(i)
         /\ deliveries' = Woken([ds EXCEPT ![d].state = "failed"])
         /\ captured' = MapDelete(kept, {i})

\* A notification of d ends; after the last one the race is over.
Notified(d, a, outcome) ==
  /\ d \in DOMAIN deliveries
  /\ deliveries[d].state = "notifying"
  /\ a \in Keyed[deliveries[d].intent] \ (deliveries[d].told \cup deliveries[d].erred)
  /\ LET ds == [deliveries EXCEPT ![d][outcome] = @ \cup {a}]
         all == ds[d].told \cup ds[d].erred = Keyed[ds[d].intent]
     IN  \/ all /\ AfterRace(d, ds, captured)
         \/ ~all /\ deliveries' = ds /\ UNCHANGED <<pdVars, captured>>
  /\ UNCHANGED <<consumed, closed, reclaims, waits, uses>>

\* Mutant: the deadline ends the race but the captured promise stays.
DeadlineTimerKeepsCaptured(d) ==
  /\ d \in DOMAIN reclaims
  /\ mono >= reclaims[d]
  /\ reclaims' = MapDelete(reclaims, {d})
  /\ \/ /\ deliveries[d].state = "notifying"
        /\ AfterRace(d, deliveries, captured)
     \/ /\ deliveries[d].state # "notifying"
        /\ UNCHANGED <<pdVars, deliveries, captured>>
  /\ UNCHANGED <<consumed, closed, waits, uses>>

\* deliver()'s timer: it reclaims the captured promise and ends the race.
DeadlineTimer(d) ==
  /\ d \in DOMAIN reclaims
  /\ mono >= reclaims[d]
  /\ reclaims' = MapDelete(reclaims, {d})
  /\ LET kept == MapDelete(captured, {deliveries[d].intent})
     IN  \/ /\ deliveries[d].state = "notifying"
            /\ AfterRace(d, deliveries, kept)
         \/ /\ deliveries[d].state # "notifying"
            /\ captured' = kept
            /\ UNCHANGED <<pdVars, deliveries>>
  /\ UNCHANGED <<consumed, closed, waits, uses>>

-----------------------------------------------------------------------------
(* awaitResolution                                                         *)

\* Mutant: a closed adapter still registers waits.
AwaitResolutionAfterClose(d, i) ==
  /\ d \notin DOMAIN waits
  /\ LinkOut(i)
  /\ d \in DOMAIN deliveries =>
       deliveries[d].intent = i /\ deliveries[d].state = "returned"
  /\ \/ /\ i \in DOMAIN captured
        /\ waits' = MapSet(waits, d, [intent |-> i, promise |-> captured[i]])
        /\ UNCHANGED pdVars
     \/ /\ i \notin DOMAIN captured /\ Expired(i)
        /\ waits' = MapSet(waits, d, [intent |-> i, promise |-> Refused])
        /\ UNCHANGED pdVars
     \/ /\ i \notin DOMAIN captured /\ ~Expired(i)
        /\ PD!Wait(<<d, "await">>, i)
        /\ waits' = MapSet(waits, d,
             [intent |-> i, promise |-> returned'[<<d, "await">>]])
  /\ UNCHANGED <<consumed, closed, captured, reclaims, deliveries, uses>>

(* The captured promise; without one, a refusal when the adapter is closed *)
(* or the deadline has passed, and otherwise a wait of its own.            *)
AwaitResolution(d, i) ==
  /\ d \notin DOMAIN waits
  /\ LinkOut(i)
  /\ d \in DOMAIN deliveries =>
       deliveries[d].intent = i /\ deliveries[d].state = "returned"
  /\ \/ /\ i \in DOMAIN captured
        /\ waits' = MapSet(waits, d, [intent |-> i, promise |-> captured[i]])
        /\ UNCHANGED pdVars
     \/ /\ i \notin DOMAIN captured
        /\ closed \/ Expired(i)
        /\ waits' = MapSet(waits, d, [intent |-> i, promise |-> Refused])
        /\ UNCHANGED pdVars
     \/ /\ i \notin DOMAIN captured
        /\ ~closed /\ ~Expired(i)
        /\ PD!Wait(<<d, "await">>, i)
        /\ waits' = MapSet(waits, d,
             [intent |-> i, promise |-> returned'[<<d, "await">>]])
  /\ UNCHANGED <<consumed, closed, captured, reclaims, deliveries, uses>>

-----------------------------------------------------------------------------
(* SigningServer.post                                                      *)

Pruned == MapDelete(consumed, {l \in DOMAIN consumed : now >= consumed[l]})

\* Mutant: only the link that completes the quorum is spent.
PostSpendsLastOnly(i, s, d, valid) ==
  LET link == <<i, Norm[s]>>
  IN  /\ LinkOut(i) /\ Norm[s] \in Keyed[i]
      /\ ~Expired(i) /\ valid
      /\ link \notin DOMAIN Pruned /\ i \in DOMAIN entries
      /\ PD!Record(SignDecision(i, d, s, KeyOf[Norm[s]], "approver"))
      /\ consumed' = IF i \in DOMAIN entries' THEN Pruned
                                              ELSE MapSet(Pruned, link, Deadline[i])
      /\ uses' = [uses EXCEPT ![link] = @ + 1]
      /\ deliveries' = Woken(deliveries)
      /\ UNCHANGED <<closed, captured, reclaims, waits>>

(* The record phase of POST /sign, for a decision d under the link of s.   *)
(* The token is valid until the deadline; `valid` says that the assertion  *)
(* verifies and its click time is acceptable.  A spent link, an intent no  *)
(* longer pending and a bad assertion are refused; otherwise record()      *)
(* counts the decision and the link is spent.                              *)
Post(i, s, d, valid) ==
  LET link == <<i, Norm[s]>>
      live == link \notin DOMAIN Pruned /\ i \in DOMAIN entries
  IN  /\ LinkOut(i) /\ Norm[s] \in Keyed[i]
      /\ ~Expired(i)
      /\ \/ /\ ~(live /\ valid)
            /\ consumed' = Pruned
            /\ UNCHANGED <<pdVars, uses, deliveries>>
         \/ /\ live /\ valid
            /\ PD!Record(SignDecision(i, d, s, KeyOf[Norm[s]], "approver"))
            /\ consumed' = MapSet(Pruned, link, Deadline[i])
            /\ uses' = [uses EXCEPT ![link] = @ + 1]
            /\ deliveries' = Woken(deliveries)
      /\ UNCHANGED <<closed, captured, reclaims, waits>>

-----------------------------------------------------------------------------
(* close, the reaper and the clock                                         *)

\* Mutant: close() empties `captured`.
CloseClearsCaptured ==
  /\ closed' = TRUE
  /\ PD!AbortAll
  /\ deliveries' = Woken(deliveries)
  /\ captured' = EmptyMap
  /\ UNCHANGED <<consumed, reclaims, waits, uses>>

\* close: no new work, and every in-flight wait is rejected.
Close ==
  /\ closed' = TRUE
  /\ PD!AbortAll
  /\ deliveries' = Woken(deliveries)
  /\ UNCHANGED <<consumed, captured, reclaims, waits, uses>>

Reap(w) ==
  /\ PD!Reap(w)
  /\ UNCHANGED <<consumed, closed, captured, reclaims, deliveries, waits, uses>>

Tick ==
  /\ PD!Tick
  /\ UNCHANGED <<consumed, closed, captured, reclaims, deliveries, waits, uses>>

Next ==
  \/ \E d \in Callers, i \in Intents : Deliver(d, i) \/ AwaitResolution(d, i)
  \/ \E d \in Callers, a \in Actors, outcome \in {"told", "erred"} :
       Notified(d, a, outcome)
  \/ \E d \in Callers : DeadlineTimer(d)
  \/ \E i \in Intents, s \in Spellings, d \in Decisions, valid \in BOOLEAN :
       Post(i, s, d, valid)
  \/ Close
  \/ \E w \in Calls : Reap(w)
  \/ Tick

Spec == Init /\ [][Next]_vars

-----------------------------------------------------------------------------
(* Properties                                                              *)

TypeOK ==
  /\ PD!TypeOK
  /\ DOMAIN consumed \subseteq Links /\ \A l \in DOMAIN consumed : consumed[l] \in Nat
  /\ closed \in BOOLEAN
  /\ DOMAIN captured \subseteq Intents
  /\ \A i \in DOMAIN captured :
       captured[i] \in DOMAIN promises /\ promises[captured[i]].intent = i
  /\ DOMAIN reclaims \subseteq DOMAIN deliveries
  /\ DOMAIN deliveries \subseteq Callers
  /\ \A d \in DOMAIN deliveries : deliveries[d] \in Delivery
  /\ \A d \in DOMAIN deliveries :
       deliveries[d].state = "notifying" => promises[Awaited(d)].state = "pending"
  /\ DOMAIN waits \subseteq Callers
  /\ uses \in [Links -> Nat]

Pending(p)   == promises[p].state = "pending"
Fulfilled(p) == promises[p].state = "fulfilled"

(* A link decides at most once, whatever is cancelled, redelivered, closed *)
(* or pruned in between: no replay, and no approve followed by a veto from *)
(* a second tab (SigningServer.post, `consumed`).                          *)
LinkSingleUse == \A l \in Links : uses[l] <= 1

(* An intent has one outcome: all its promises that were ever fulfilled    *)
(* carry the same resolution, although close() drops the tombstones and    *)
(* the server keeps answering the links afterwards.                        *)
OneOutcome ==
  \A p, q \in DOMAIN promises :
    Fulfilled(p) /\ Fulfilled(q) /\ promises[p].intent = promises[q].intent
    => promises[p].value = promises[q].value

(* A decision that lands while the links are still going out is what       *)
(* awaitResolution() will answer in the window, although its entry is gone *)
(* and close() may have dropped its tombstone.                             *)
DecisionReturnable ==
  \A d \in DOMAIN deliveries :
    LET i == deliveries[d].intent
    IN  Fulfilled(Awaited(d)) /\ ~Expired(i) =>
          /\ i \in DOMAIN captured
          /\ promises[captured[i]] = promises[Awaited(d)]

(* deliver() fails closed: where silence approves, it returns without      *)
(* having told everybody only if its wait settled, by a decision or by an  *)
(* error.  The reaper, which evicts the entry, must not look like that.    *)
FailsClosed ==
  \A d \in DOMAIN deliveries :
    /\ deliveries[d].state = "returned"
    /\ DeliveryFailed(deliveries[d])
    => ~Pending(Awaited(d))

(* close() releases everybody: inside the window nobody waits on a promise *)
(* of a closed adapter that could still turn into a Default.               *)
ClosedReleasesWaiters ==
  \A w \in DOMAIN waits :
    closed /\ waits[w].promise # Refused /\ ~Expired(waits[w].intent) =>
      ~Pending(waits[w].promise)

(* What the comment in deliver() says: "the approve-Default must not fire  *)
(* while a named approver never got their veto link".  A caller that       *)
(* delivered waits, in the window, for an answer that silence would        *)
(* approve only if every approver was told by some delivery.               *)
NoSilentApprove ==
  \A d \in DOMAIN waits \cap DOMAIN deliveries :
    LET i == waits[d].intent
        told == UNION {deliveries[e].told : e \in {f \in DOMAIN deliveries :
                                                     deliveries[f].intent = i}}
    IN  /\ Default[i] = "approve"
        /\ waits[d].promise # Refused
        /\ Pending(waits[d].promise)
        => told = Keyed[i]

(* What the comment on the tombstones says: "a cancel/abort is not         *)
(* terminal, so a failed delivery can still retry".  An approver of a live *)
(* entry has been counted in it or can still decide.                       *)
RetryCanDecide ==
  \A i \in DOMAIN entries, a \in Actors :
    a \in Keyed[i] /\ ~Expired(i) /\ <<i, a>> \in DOMAIN consumed =>
      a \in DOMAIN entries[i].approvals

(* Nothing outlives the deadline: a delivery that still races and a        *)
(* promise that is still captured have an armed deadline timer, whoever    *)
(* redelivered, failed or closed in between.  So no hung notifier hangs    *)
(* deliver(), and `captured` does not grow for ever.                       *)
DeadlineReclaims ==
  /\ \A d \in DOMAIN deliveries :
       deliveries[d].state = "notifying" => d \in DOMAIN reclaims
  /\ \A i \in DOMAIN captured :
       \E d \in DOMAIN reclaims : deliveries[d].intent = i
=============================================================================
