------------------------ MODULE SigningLinks_proofs ------------------------
(***************************************************************************)
(* Proofs about SigningLinkAdapter and SigningServer.  Every step of       *)
(* theirs is one of PendingDecisions or leaves its state alone, so what is *)
(* proved of PendingDecisions holds here, too; the adapter's own           *)
(* properties are proved on top of it.                                     *)
(***************************************************************************)
EXTENDS SigningLinks, TLAPS

P == INSTANCE PendingDecisions_proofs WITH ClockSteps <- {}, MaxStep <- 0, MaxAborts <- 1

-----------------------------------------------------------------------------
(* PendingDecisions and the theorems about it, as used here                *)

LEMMA PAssumptions == P!CountersignAssumption /\ P!PendingAssumption
  <1>1. P!CountersignAssumption
    BY CountersignAssumption DEF P!CountersignAssumption, Decisions, P!Decisions
  <1>2. P!PendingAssumption
    BY SigningLinksAssumption
    DEF P!PendingAssumption, WellFormed, Deliverable, P!WellFormed, P!Deliverable,
        Approvers, P!Approvers, Decisions, P!Decisions, Policies, P!Policies,
        Resolution, P!Resolution, Receipt, P!Receipt,
        Cardinality, P!Cardinality, IsFiniteSet, P!IsFiniteSet
  <1> QED  BY <1>1, <1>2

LEMMA SameInit == PD!Init => P!Init
  BY DEF PD!Init, P!Init, PD!EmptyMap, P!EmptyMap

LEMMA SameWait == ASSUME NEW w, NEW i, PD!Wait(w, i)  PROVE P!Wait(w, i)
  BY DEF PD!Wait, P!Wait, PD!WaitReplay, P!WaitReplay, PD!WaitJoin, P!WaitJoin,
         PD!WaitRegister, P!WaitRegister, PD!NewPromise, P!NewPromise, PD!Expired, P!Expired,
         PD!MapSet, P!MapSet, PD!MapDelete, P!MapDelete, PD!EmptyMap, P!EmptyMap,
         PD!ReaperDue, P!ReaperDue

LEMMA SameReap == ASSUME NEW w, PD!Reap(w)  PROVE P!Reap(w)
  BY DEF PD!Reap, P!Reap, PD!MapDelete, P!MapDelete

LEMMA SameRecord == ASSUME NEW c, PD!Record(c)  PROVE P!Record(c)
  BY DEF PD!Record, P!Record, PD!EvictLate, P!EvictLate, PD!Accept, P!Accept,
         PD!Finish, P!Finish, PD!Fulfil, P!Fulfil, PD!Expired, P!Expired,
         PD!KeyedApprovers, P!KeyedApprovers,
         PD!VerifyCountersignature, P!VerifyCountersignature,
         PD!MapSet, P!MapSet, PD!MapDelete, P!MapDelete, PD!MapValues, P!MapValues,
         PD!Cardinality, P!Cardinality

LEMMA SameCancel == ASSUME NEW i, PD!Cancel(i)  PROVE P!Cancel(i)
  BY DEF PD!Cancel, P!Cancel, PD!RejectAll, P!RejectAll, PD!MapDelete, P!MapDelete

LEMMA SameAbortAll == PD!AbortAll => P!AbortAll
  BY DEF PD!AbortAll, P!AbortAll, PD!RejectAll, P!RejectAll, PD!MapDelete, P!MapDelete,
         PD!EmptyMap, P!EmptyMap

LEMMA SameTick == PD!Tick => P!Tick
  BY DEF PD!Tick, P!Tick

LEMMA SameTypeOK == P!TypeOK => PD!TypeOK
  BY DEF PD!TypeOK, P!TypeOK, PD!IsEntry, P!IsEntry, PD!Promise, P!Promise,
         PD!Receipt, P!Receipt, PD!Resolution, P!Resolution, PD!Decisions, P!Decisions,
         PD!Policies, P!Policies

-----------------------------------------------------------------------------
(* Every step is one of PendingDecisions, or leaves its state alone        *)

DeliveriesTyped ==
  DOMAIN deliveries \subseteq Callers /\ \A d \in DOMAIN deliveries : deliveries[d] \in Delivery

(* A settled wait ends the race of the deliveries it woke and changes      *)
(* nothing else of them.                                                   *)
LEMMA WokenFacts ==
  ASSUME NEW ds
  PROVE  /\ DOMAIN Woken(ds) = DOMAIN ds
         /\ \A d \in DOMAIN ds : ds[d] \in Delivery =>
              /\ Woken(ds)[d] \in Delivery
              /\ Woken(ds)[d].intent = ds[d].intent
              /\ Woken(ds)[d].told = ds[d].told /\ Woken(ds)[d].erred = ds[d].erred
              /\ Woken(ds)[d].state = IF ds[d].state = "notifying" /\ Settled(Awaited(d))
                                      THEN "returned" ELSE ds[d].state
  BY DEF Woken, Delivery

(* ds is deliveries, but for whom the delivery d has told. *)
Progress(ds, d) ==
  /\ DOMAIN ds = DOMAIN deliveries
  /\ \A e \in DOMAIN ds :
       /\ ds[e] \in Delivery
       /\ ds[e].intent = deliveries[e].intent /\ ds[e].state = deliveries[e].state
       /\ e # d => ds[e] = deliveries[e]

(* A notification that comes back leaves the race on, or ends it and runs  *)
(* the rest of deliver().                                                  *)
LEMMA NotifiedFacts ==
  ASSUME DeliveriesTyped, NEW d \in Callers, NEW a \in Actors, NEW outcome \in {"told", "erred"},
         Notified(d, a, outcome)
  PROVE  /\ d \in DOMAIN deliveries /\ deliveries[d].state = "notifying"
         /\ UNCHANGED <<consumed, closed, reclaims, waits, uses>>
         /\ \E ds : /\ Progress(ds, d)
                    /\ \/ AfterRace(d, ds, captured)
                       \/ deliveries' = ds /\ UNCHANGED <<pdVars, captured>>
  <1> DEFINE ds == [deliveries EXCEPT ![d][outcome] = @ \cup {a}]
  <1>1. /\ d \in DOMAIN deliveries /\ deliveries[d].state = "notifying"
        /\ \/ AfterRace(d, ds, captured)
           \/ deliveries' = ds /\ UNCHANGED <<pdVars, captured>>
        /\ UNCHANGED <<consumed, closed, reclaims, waits, uses>>
    BY DEF Notified
  <1>2. deliveries[d] \in Delivery  BY <1>1 DEF DeliveriesTyped
  <1>3. /\ ds[d] \in Delivery
        /\ ds[d].intent = deliveries[d].intent /\ ds[d].state = deliveries[d].state
    BY <1>1, <1>2 DEF Delivery
  <1>4. DOMAIN ds = DOMAIN deliveries /\ \A e \in DOMAIN ds : e # d => ds[e] = deliveries[e]
    BY <1>1
  <1>5. Progress(ds, d)
    <2> HIDE DEF ds
    <2> QED  BY <1>3, <1>4 DEF Progress, DeliveriesTyped
  <1> QED  BY <1>1, <1>5

(* The deadline timer releases what was captured for its intent, and ends  *)
(* the race if that is still on.                                           *)
LEMMA DeadlineTimerFacts ==
  ASSUME DeliveriesTyped, NEW d \in Callers, DeadlineTimer(d), DOMAIN reclaims \subseteq DOMAIN deliveries
  PROVE  LET kept == MapDelete(captured, {deliveries[d].intent})
         IN  /\ d \in DOMAIN reclaims /\ d \in DOMAIN deliveries /\ mono >= reclaims[d]
             /\ reclaims' = MapDelete(reclaims, {d})
             /\ Progress(deliveries, d)
             /\ \/ deliveries[d].state = "notifying" /\ AfterRace(d, deliveries, kept)
                \/ /\ deliveries[d].state # "notifying"
                   /\ captured' = kept /\ UNCHANGED <<pdVars, deliveries>>
             /\ UNCHANGED <<consumed, closed, waits, uses>>
  BY DEF DeadlineTimer, Progress, DeliveriesTyped

(* The two ways a race ends with the wait unsettled. *)
LEMMA AfterRaceFacts ==
  ASSUME NEW d \in DOMAIN deliveries, NEW ds, NEW kept, Progress(ds, d), AfterRace(d, ds, kept)
  PROVE  LET i == deliveries[d].intent
         IN  /\ DOMAIN deliveries' = DOMAIN deliveries
             /\ \A e \in DOMAIN deliveries :
                  /\ deliveries'[e] \in Delivery /\ deliveries'[e].intent = deliveries[e].intent
                  /\ DeliveryFailed(deliveries'[e]) = DeliveryFailed(ds[e])
             /\ \/ /\ ~DeliveryFailed(ds[d]) /\ deliveries'[d].state = "returned"
                   /\ \A e \in DOMAIN deliveries : e # d => deliveries'[e] = deliveries[e]
                   /\ captured' = kept /\ UNCHANGED pdVars
                \/ /\ deliveries'[d].state = "failed"
                   /\ \A e \in DOMAIN deliveries : e # d =>
                        \/ deliveries'[e] = deliveries[e]
                           /\ ~(deliveries[e].state = "notifying" /\ Settled(Awaited(e)))
                        \/ deliveries'[e].state = "returned" /\ Settled(Awaited(e))
                   /\ captured' = MapDelete(kept, {i}) /\ CancelWait(i)
  <1> DEFINE i == deliveries[d].intent
  <1>0. ds[d].intent = i /\ ds[d] \in Delivery /\ DOMAIN ds = DOMAIN deliveries
    BY DEF Progress
  <1>1. CASE /\ ~DeliveryFailed(ds[d])
             /\ deliveries' = [ds EXCEPT ![d].state = "returned"]
             /\ captured' = kept /\ UNCHANGED pdVars
    <2>1. /\ deliveries'[d] = [ds[d] EXCEPT !.state = "returned"]
          /\ DOMAIN deliveries' = DOMAIN deliveries
          /\ \A e \in DOMAIN deliveries : e # d => deliveries'[e] = ds[e]
      BY <1>0, <1>1
    <2>2. /\ deliveries'[d] \in Delivery /\ deliveries'[d].intent = i
          /\ deliveries'[d].told = ds[d].told /\ deliveries'[d].state = "returned"
      BY <1>0, <2>1 DEF Delivery
    <2> QED  BY <1>0, <1>1, <2>1, <2>2 DEF Progress, DeliveryFailed
  <1>2. CASE /\ CancelWait(i)
             /\ deliveries' = Woken([ds EXCEPT ![d].state = "failed"])
             /\ captured' = MapDelete(kept, {i})
    <2> DEFINE fs == [ds EXCEPT ![d].state = "failed"]
    <2>1. /\ fs[d] = [ds[d] EXCEPT !.state = "failed"]
          /\ DOMAIN fs = DOMAIN deliveries
          /\ \A e \in DOMAIN deliveries : e # d => fs[e] = ds[e]
      BY <1>0
    <2> HIDE DEF fs
    <2>2. /\ fs[d] \in Delivery /\ fs[d].intent = i
          /\ fs[d].told = ds[d].told /\ fs[d].state = "failed"
      BY <1>0, <2>1 DEF Delivery
    <2>3. \A e \in DOMAIN fs : fs[e] \in Delivery /\ fs[e].intent = deliveries[e].intent
                               /\ fs[e].told = ds[e].told
      BY <1>0, <2>1, <2>2 DEF Progress
    <2>4. deliveries' = Woken(fs)  BY <1>2 DEF fs
    <2>5. /\ DOMAIN deliveries' = DOMAIN deliveries
          /\ \A e \in DOMAIN fs :
               /\ deliveries'[e] \in Delivery
               /\ deliveries'[e].intent = fs[e].intent
               /\ deliveries'[e].told = fs[e].told /\ deliveries'[e].erred = fs[e].erred
               /\ deliveries'[e].state = IF fs[e].state = "notifying" /\ Settled(Awaited(e))
                                         THEN "returned" ELSE fs[e].state
      BY <2>1, <2>3, <2>4, WokenFacts
    <2>6. \A e \in DOMAIN fs : DeliveryFailed(deliveries'[e]) = DeliveryFailed(ds[e])
      BY <2>1, <2>3, <2>5 DEF DeliveryFailed, Progress
    <2>7. ASSUME NEW e \in DOMAIN deliveries, e # d
          PROVE  \/ deliveries'[e] = deliveries[e]
                    /\ ~(deliveries[e].state = "notifying" /\ Settled(Awaited(e)))
                 \/ deliveries'[e].state = "returned" /\ Settled(Awaited(e))
      <3>1. fs[e] = deliveries[e] /\ deliveries[e] \in Delivery  BY <2>1, <2>7 DEF Progress
      <3>2. CASE deliveries[e].state = "notifying" /\ Settled(Awaited(e))
        BY <2>1, <2>5, <3>1, <3>2
      <3>3. CASE ~(deliveries[e].state = "notifying" /\ Settled(Awaited(e)))
        <4>1. deliveries'[e] = fs[e]  BY <2>1, <2>4, <3>1, <3>3 DEF Woken
        <4> QED  BY <3>1, <3>3, <4>1
      <3> QED  BY <3>2, <3>3
    <2>8. deliveries'[d].state = "failed"  BY <2>1, <2>2, <2>5
    <2> QED  BY <1>2, <2>1, <2>3, <2>5, <2>6, <2>7, <2>8
  <1> QED  BY <1>0, <1>1, <1>2 DEF AfterRace

Structure == DeliveriesTyped /\ DOMAIN reclaims \subseteq DOMAIN deliveries

(* deliver() waits, captures the promise it got and arms its deadline      *)
(* timer.                                                                  *)
LEMMA DeliverFacts ==
  ASSUME Structure, NEW d \in Callers, NEW i \in Intents, Deliver(d, i)
  PROVE  LET p == returned'[<<d, "deliver">>]
         IN  /\ d \notin DOMAIN deliveries /\ ~closed /\ P!Wait(<<d, "deliver">>, i)
             /\ captured' = MapSet(captured, i, p)
             /\ DOMAIN deliveries' = DOMAIN deliveries \cup {d}
             /\ \A e \in DOMAIN deliveries : deliveries'[e] = deliveries[e]
             /\ deliveries'[d] \in Delivery /\ deliveries'[d].intent = i
             /\ deliveries'[d].state = IF Settled(p) THEN "returned" ELSE "notifying"
             /\ reclaims' = MapSet(reclaims, d, PD!ReaperDue(i))
             /\ UNCHANGED <<consumed, closed, waits, uses>>
  <1>1. PD!Wait(<<d, "deliver">>, i)  BY DEF Deliver
  <1> QED  BY <1>1, SameWait DEF Deliver, MapSet, Delivery

(* A POST prunes the spent links; if it decides, it does so by record()    *)
(* through a link not spent before, and spends it.                         *)
LEMMA PostFacts ==
  ASSUME NEW i \in Intents, NEW s \in Spellings, NEW d \in Decisions, NEW valid \in BOOLEAN,
         Post(i, s, d, valid)
  PROVE  /\ ~Expired(i) /\ <<i, Norm[s]>> \in Links
         /\ UNCHANGED <<closed, captured, reclaims, waits>>
         /\ \/ consumed' = Pruned /\ UNCHANGED <<pdVars, uses, deliveries>>
            \/ /\ <<i, Norm[s]>> \notin DOMAIN Pruned
               /\ \E c \in P!Receipt : P!Record(c)
               /\ consumed' = MapSet(Pruned, <<i, Norm[s]>>, Deadline[i])
               /\ uses' = [uses EXCEPT ![<<i, Norm[s]>>] = @ + 1]
               /\ deliveries' = Woken(deliveries)
  <1> DEFINE c == SignDecision(i, d, s, KeyOf[Norm[s]], "approver")
  <1>1. Norm[s] \in Actors /\ KeyOf[Norm[s]] \in Keys  BY CountersignAssumption
  <1>2. c \in P!Receipt
    BY <1>1 DEF SignDecision, P!Receipt, Decisions, P!Decisions, P!Policies
  <1>3. PD!Record(c) => P!Record(c)  BY SameRecord
  <1> HIDE DEF c
  <1>4. /\ ~Expired(i) /\ UNCHANGED <<closed, captured, reclaims, waits>>
        /\ \/ consumed' = Pruned /\ UNCHANGED <<pdVars, uses, deliveries>>
           \/ /\ <<i, Norm[s]>> \notin DOMAIN Pruned
              /\ PD!Record(c)
              /\ consumed' = MapSet(Pruned, <<i, Norm[s]>>, Deadline[i])
              /\ uses' = [uses EXCEPT ![<<i, Norm[s]>>] = @ + 1]
              /\ deliveries' = Woken(deliveries)
    BY DEF Post, c
  <1> QED  BY <1>1, <1>2, <1>3, <1>4 DEF Links

LEMMA CloseFacts ==
  ASSUME Close
  PROVE  /\ closed' = TRUE /\ P!AbortAll /\ deliveries' = Woken(deliveries)
         /\ UNCHANGED <<consumed, captured, reclaims, waits, uses>>
  BY SameAbortAll DEF Close

LEMMA CancelWaitFacts ==
  ASSUME NEW i, CancelWait(i)
  PROVE  P!Cancel(i) \/ (i \notin DOMAIN entries /\ UNCHANGED pdVars)
  BY SameCancel DEF CancelWait

(* awaitResolution() hands out the captured promise, refuses on a closed   *)
(* adapter, or waits afresh.                                               *)
LEMMA AwaitFacts ==
  ASSUME NEW d \in Callers, NEW i \in Intents, AwaitResolution(d, i)
  PROVE  /\ UNCHANGED <<consumed, closed, captured, reclaims, deliveries, uses>>
         /\ \/ /\ i \in DOMAIN captured
               /\ waits' = MapSet(waits, d, [intent |-> i, promise |-> captured[i]])
               /\ UNCHANGED pdVars
            \/ /\ waits' = MapSet(waits, d, [intent |-> i, promise |-> Refused])
               /\ UNCHANGED pdVars
            \/ /\ ~closed /\ P!Wait(<<d, "await">>, i)
               /\ waits' = MapSet(waits, d, [intent |-> i, promise |-> returned'[<<d, "await">>]])
  BY SameWait DEF AwaitResolution

LEMMA StructureHolds == Spec => []Structure
  <1>1. Init => Structure
    BY DEF Init, Structure, DeliveriesTyped, EmptyMap
  <1>2. Structure /\ [Next]_vars => Structure'
    <2> SUFFICES ASSUME Structure, [Next]_vars  PROVE Structure'  OBVIOUS
    <2>1. ASSUME NEW d \in Callers, NEW i \in Intents, Deliver(d, i)  PROVE Structure'
      <3>1. /\ DOMAIN deliveries' = DOMAIN deliveries \cup {d}
            /\ \A e \in DOMAIN deliveries : deliveries'[e] = deliveries[e]
            /\ deliveries'[d] \in Delivery
        BY <2>1, DeliverFacts
      <3>2. DOMAIN reclaims' = DOMAIN reclaims \cup {d}  BY <2>1, DeliverFacts DEF MapSet
      <3> QED  BY <3>1, <3>2 DEF Structure, DeliveriesTyped
    <2>2. ASSUME NEW d \in Callers, NEW a \in Actors, NEW outcome \in {"told", "erred"},
                 Notified(d, a, outcome)
          PROVE  Structure'
      <3>1. PICK ds : /\ Progress(ds, d)
                      /\ \/ AfterRace(d, ds, captured)
                         \/ deliveries' = ds
        BY <2>2, NotifiedFacts DEF Structure
      <3>2. d \in DOMAIN deliveries /\ reclaims' = reclaims  BY <2>2, NotifiedFacts DEF Structure
      <3> QED  BY <3>1, <3>2, AfterRaceFacts DEF Structure, DeliveriesTyped, Progress
    <2>3. ASSUME NEW d \in Callers, DeadlineTimer(d)  PROVE Structure'
      <3>1. /\ d \in DOMAIN deliveries /\ Progress(deliveries, d)
            /\ DOMAIN reclaims' \subseteq DOMAIN reclaims
            /\ \/ AfterRace(d, deliveries, MapDelete(captured, {deliveries[d].intent}))
               \/ deliveries' = deliveries
        BY <2>3, DeadlineTimerFacts DEF Structure, MapDelete
      <3> QED  BY <3>1, AfterRaceFacts DEF Structure, DeliveriesTyped
    <2>4. ASSUME reclaims' = reclaims, deliveries' = Woken(deliveries) \/ deliveries' = deliveries
          PROVE  Structure'
      BY <2>4, WokenFacts DEF Structure, DeliveriesTyped
    <2>5. ASSUME NEW i \in Intents, NEW s \in Spellings, NEW d \in Decisions, NEW valid \in BOOLEAN,
                 Post(i, s, d, valid)
          PROVE  Structure'
      BY <2>4, <2>5, PostFacts
    <2>6. CASE Close  BY <2>4, <2>6, CloseFacts
    <2>7. ASSUME NEW d \in Callers, NEW i \in Intents, AwaitResolution(d, i)  PROVE Structure'
      BY <2>4, <2>7, AwaitFacts
    <2>8. CASE \E w \in Calls : Reap(w)  BY <2>4, <2>8 DEF Reap
    <2>9. CASE Tick  BY <2>4, <2>9 DEF Tick
    <2>10. CASE UNCHANGED vars  BY <2>4, <2>10 DEF vars
    <2> QED  BY <2>1, <2>2, <2>3, <2>5, <2>6, <2>7, <2>8, <2>9, <2>10 DEF Next
  <1> QED  BY <1>1, <1>2, PTL DEF Spec

LEMMA StepMaps ==
  ASSUME Structure, [Next]_vars
  PROVE  [P!Next]_(P!vars)
  <1> DEFINE Goal == [P!Next]_(P!vars)
  <1>1. ASSUME UNCHANGED pdVars  PROVE Goal  BY <1>1 DEF pdVars, P!vars
  <1>2. ASSUME NEW w \in Calls, NEW i \in Intents, P!Wait(w, i)  PROVE Goal
    BY <1>2 DEF P!Next
  <1>3. ASSUME NEW i \in Intents, P!Cancel(i)  PROVE Goal  BY <1>3 DEF P!Next
  <1>4. ASSUME NEW c \in P!Receipt, P!Record(c)  PROVE Goal  BY <1>4 DEF P!Next
  <1>5. ASSUME NEW w \in Calls, P!Reap(w)  PROVE Goal  BY <1>5 DEF P!Next
  <1>6. ASSUME P!AbortAll \/ P!Tick  PROVE Goal  BY <1>6 DEF P!Next
  <1>7. ASSUME NEW d \in DOMAIN deliveries, NEW ds, NEW kept, Progress(ds, d), AfterRace(d, ds, kept)
        PROVE  Goal
    <2> HIDE DEF Goal
    <2>1. deliveries[d].intent \in Intents  BY DEF Structure, DeliveriesTyped, Delivery
    <2>2. UNCHANGED pdVars \/ CancelWait(deliveries[d].intent)  BY <1>7, AfterRaceFacts
    <2> QED  BY <1>1, <1>3, <2>1, <2>2, CancelWaitFacts
  <1>8. \A d \in Callers : <<d, "deliver">> \in Calls /\ <<d, "await">> \in Calls  BY DEF Calls
  <1> HIDE DEF Goal
  <1>9. ASSUME NEW d \in Callers, NEW i \in Intents, Deliver(d, i)  PROVE Goal
    BY <1>2, <1>8, <1>9, DeliverFacts
  <1>10. ASSUME NEW d \in Callers, NEW i \in Intents, AwaitResolution(d, i)  PROVE Goal
    BY <1>1, <1>2, <1>8, <1>10, AwaitFacts
  <1>11. ASSUME NEW d \in Callers, NEW a \in Actors, NEW outcome \in {"told", "erred"},
                Notified(d, a, outcome)
         PROVE  Goal
    BY <1>1, <1>7, <1>11, NotifiedFacts DEF Structure
  <1>12. ASSUME NEW d \in Callers, DeadlineTimer(d)  PROVE Goal
    BY <1>1, <1>7, <1>12, DeadlineTimerFacts DEF Structure
  <1>13. ASSUME NEW i \in Intents, NEW s \in Spellings, NEW d \in Decisions, NEW valid \in BOOLEAN,
                Post(i, s, d, valid)
         PROVE  Goal
    BY <1>1, <1>4, <1>13, PostFacts
  <1>14. ASSUME Close  PROVE Goal  BY <1>6, <1>14, CloseFacts
  <1>15. ASSUME NEW w \in Calls, Reap(w)  PROVE Goal  BY <1>5, <1>15, SameReap DEF Reap
  <1>16. ASSUME Tick  PROVE Goal  BY <1>6, <1>16, SameTick DEF Tick
  <1>17. ASSUME UNCHANGED vars  PROVE Goal  BY <1>1, <1>17 DEF vars, pdVars
  <1>18. Goal
    BY <1>9, <1>10, <1>11, <1>12, <1>13, <1>14, <1>15, <1>16, <1>17 DEF Next
  <1> QED  BY <1>18 DEF Goal

(* The signing links are a use of PendingDecisions: whatever happens to    *)
(* deliveries, links and close(), the book-keeping only ever takes steps   *)
(* of its own specification, and so implements the quorum gate as well.    *)
THEOREM ImplementsPending == Spec => P!Spec
  <1>1. Init => P!Init  BY SameInit DEF Init
  <1>2. Structure /\ [Next]_vars => [P!Next]_(P!vars)  BY StepMaps
  <1> QED  BY <1>1, <1>2, StructureHolds, PTL DEF Spec, P!Spec

\* The gate of QuorumGate.
THEOREM ImplementsGate == Spec => P!GateSpec
  <1>1. P!Spec => P!GateSpec  BY P!ImplementsGate, PAssumptions
  <1> QED  BY <1>1, ImplementsPending, PTL

-----------------------------------------------------------------------------
(* Links are spent once, and an intent has one outcome                     *)

PInv == P!Inv1 /\ P!Inv3

LEMMA PInvHolds == Spec => []PInv
  <1>1. P!Spec => []P!Inv1  BY P!Inv1Holds, PAssumptions
  <1>2. P!Spec => []P!Inv3  BY P!Inv3Holds, PAssumptions
  <1> QED  BY <1>1, <1>2, ImplementsPending, PTL DEF PInv

\* A step of PendingDecisions other than wait() and abortAll().
Quiet ==
  \/ \E c \in P!Receipt : P!Record(c)
  \/ \E i \in Intents : P!Cancel(i)
  \/ \E w \in Calls : P!Reap(w)
  \/ P!Tick
  \/ UNCHANGED pdVars

(* A step other than wait() and abortAll() makes no promise and no entry,  *)
(* and takes no clock back.                                                *)
LEMMA QuietFacts ==
  ASSUME PInv, Quiet
  PROVE  /\ DOMAIN promises' = DOMAIN promises /\ DOMAIN entries' \subseteq DOMAIN entries
         /\ aborts' = aborts /\ now \in Nat /\ now' \in Nat /\ now <= now'
         /\ returned' = returned
         /\ [P!Next]_(P!vars)
  <1> DEFINE G == /\ DOMAIN promises' = DOMAIN promises /\ DOMAIN entries' \subseteq DOMAIN entries
                  /\ aborts' = aborts /\ now' \in Nat /\ now <= now' /\ returned' = returned
  <1>0. now \in Nat  BY DEF PInv, P!Inv1, P!TypeOK
  <1>1. ASSUME UNCHANGED <<now, aborts, returned>>,
               DOMAIN promises' = DOMAIN promises, DOMAIN entries' \subseteq DOMAIN entries
        PROVE  G
    BY <1>0, <1>1
  <1>2. ASSUME NEW c \in P!Receipt, P!Record(c)  PROVE G
    <2>1. UNCHANGED <<now, aborts, returned>>  BY <1>2 DEF P!Record
    <2>2. DOMAIN promises' = DOMAIN promises
      BY <1>2 DEF P!Record, P!EvictLate, P!Accept, P!Finish, P!Fulfil
    <2>3. DOMAIN entries' \subseteq DOMAIN entries
      BY <1>2 DEF P!Record, P!EvictLate, P!Accept, P!Finish, P!MapDelete
    <2> QED  BY <1>1, <2>1, <2>2, <2>3
  <1>3. ASSUME NEW i \in Intents, P!Cancel(i)  PROVE G
    BY <1>1, <1>3 DEF P!Cancel, P!RejectAll, P!MapDelete
  <1>4. ASSUME NEW w \in Calls, P!Reap(w)  PROVE G
    BY <1>1, <1>4 DEF P!Reap, P!MapDelete
  <1>5. ASSUME P!Tick  PROVE G  BY <1>0, <1>5 DEF P!Tick
  <1>6. ASSUME UNCHANGED pdVars  PROVE G  BY <1>1, <1>6 DEF pdVars
  <1> HIDE DEF G
  <1>7. G  BY <1>2, <1>3, <1>4, <1>5, <1>6 DEF Quiet
  <1>8. [P!Next]_(P!vars)  BY DEF Quiet, P!Next, pdVars, P!vars
  <1> QED  BY <1>0, <1>7, <1>8 DEF G

\* The record phase of POST /sign, as far as the links are concerned.
LinkStep ==
  \/ UNCHANGED <<consumed, uses>>
  \/ consumed' = Pruned /\ UNCHANGED uses
  \/ \E l \in Links :
       /\ ~Expired(l[1]) /\ l \notin DOMAIN Pruned
       /\ consumed' = MapSet(Pruned, l, Deadline[l[1]])
       /\ uses' = [uses EXCEPT ![l] = @ + 1]

(* Every step is a wait() of an open adapter, close(), or a quiet step of  *)
(* PendingDecisions with what it does to the links.                        *)
LEMMA StepKinds ==
  ASSUME Structure, [Next]_vars
  PROVE  \/ /\ ~closed /\ UNCHANGED <<closed, consumed, uses>>
            /\ \E w \in Calls, i \in Intents : P!Wait(w, i)
         \/ closed' = TRUE /\ P!AbortAll /\ UNCHANGED <<consumed, uses>>
         \/ closed' = closed /\ Quiet /\ LinkStep
  <1> DEFINE A == /\ ~closed /\ UNCHANGED <<closed, consumed, uses>>
                  /\ \E w \in Calls, i \in Intents : P!Wait(w, i)
             B == closed' = TRUE /\ P!AbortAll /\ UNCHANGED <<consumed, uses>>
             C == closed' = closed /\ Quiet /\ LinkStep
  <1>1. \A d \in Callers : <<d, "deliver">> \in Calls /\ <<d, "await">> \in Calls  BY DEF Calls
  <1>2. ASSUME NEW d \in Callers, NEW i \in Intents, Deliver(d, i)  PROVE A
    <2>1. /\ ~closed /\ UNCHANGED <<closed, consumed>> /\ P!Wait(<<d, "deliver">>, i)
          /\ UNCHANGED uses
      BY <1>2, DeliverFacts
    <2> QED  BY <1>1, <2>1
  <1>3. ASSUME UNCHANGED <<closed, consumed, uses>>, Quiet  PROVE C
    BY <1>3 DEF LinkStep
  <1>4. ASSUME NEW d \in Callers, NEW i \in Intents, AwaitResolution(d, i)  PROVE A \/ C
    <2>1. UNCHANGED <<closed, consumed, uses>>  BY <1>4, AwaitFacts
    <2>2. UNCHANGED pdVars \/ (~closed /\ P!Wait(<<d, "await">>, i))  BY <1>4, AwaitFacts
    <2>3. CASE UNCHANGED pdVars
      <3>1. Quiet  BY <2>3 DEF Quiet
      <3> HIDE DEF C
      <3> QED  BY <1>3, <2>1, <3>1
    <2>4. CASE ~closed /\ P!Wait(<<d, "await">>, i)  BY <1>1, <2>1, <2>4
    <2> QED  BY <2>2, <2>3, <2>4
  <1>5. ASSUME NEW d \in DOMAIN deliveries, NEW ds, NEW kept, Progress(ds, d), AfterRace(d, ds, kept)
        PROVE  Quiet
    <2>1. deliveries[d].intent \in Intents  BY DEF Structure, DeliveriesTyped, Delivery
    <2>2. UNCHANGED pdVars \/ CancelWait(deliveries[d].intent)  BY <1>5, AfterRaceFacts
    <2> QED  BY <2>1, <2>2, CancelWaitFacts DEF Quiet
  <1> HIDE DEF A, B, C
  <1>6. ASSUME NEW d \in Callers, NEW a \in Actors, NEW outcome \in {"told", "erred"},
               Notified(d, a, outcome)
        PROVE  C
    <2>1. UNCHANGED <<closed, consumed, uses>>  BY <1>6, NotifiedFacts DEF Structure
    <2>2. \/ \E ds : Progress(ds, d) /\ AfterRace(d, ds, captured)
          \/ UNCHANGED pdVars
      BY <1>6, NotifiedFacts DEF Structure
    <2>3. d \in DOMAIN deliveries  BY <1>6, NotifiedFacts DEF Structure
    <2>4. Quiet  BY <1>5, <2>2, <2>3 DEF Quiet
    <2> QED  BY <1>3, <2>1, <2>4
  <1>7. ASSUME NEW d \in Callers, DeadlineTimer(d)  PROVE C
    <2>1. UNCHANGED <<closed, consumed, uses>>  BY <1>7, DeadlineTimerFacts DEF Structure
    <2>2. /\ d \in DOMAIN deliveries /\ Progress(deliveries, d)
          /\ \/ AfterRace(d, deliveries, MapDelete(captured, {deliveries[d].intent}))
             \/ UNCHANGED pdVars
      BY <1>7, DeadlineTimerFacts DEF Structure
    <2>3. Quiet  BY <1>5, <2>2 DEF Quiet
    <2> QED  BY <1>3, <2>1, <2>3
  <1>8. ASSUME NEW i \in Intents, NEW s \in Spellings, NEW d \in Decisions, NEW valid \in BOOLEAN,
               Post(i, s, d, valid)
        PROVE  C
    <2>1. ~Expired(i) /\ <<i, Norm[s]>> \in Links /\ closed' = closed  BY <1>8, PostFacts
    <2>2. CASE consumed' = Pruned /\ UNCHANGED <<pdVars, uses, deliveries>>
      BY <2>1, <2>2 DEF C, Quiet, LinkStep
    <2>3. CASE /\ <<i, Norm[s]>> \notin DOMAIN Pruned
               /\ \E c \in P!Receipt : P!Record(c)
               /\ consumed' = MapSet(Pruned, <<i, Norm[s]>>, Deadline[i])
               /\ uses' = [uses EXCEPT ![<<i, Norm[s]>>] = @ + 1]
      <3>1. Quiet  BY <2>3 DEF Quiet
      <3>2. LinkStep
        <4> DEFINE l == <<i, Norm[s]>>
        <4>1. l[1] = i /\ l \in Links  BY <2>1
        <4> HIDE DEF l
        <4>2. /\ ~Expired(l[1]) /\ l \notin DOMAIN Pruned
              /\ consumed' = MapSet(Pruned, l, Deadline[l[1]])
              /\ uses' = [uses EXCEPT ![l] = @ + 1]
          BY <2>1, <2>3, <4>1 DEF l
        <4> QED  BY <4>1, <4>2 DEF LinkStep
      <3> QED  BY <2>1, <3>1, <3>2 DEF C
    <2> QED  BY <1>8, <2>2, <2>3, PostFacts
  <1>9. ASSUME Close  PROVE B  BY <1>9, CloseFacts DEF B
  <1>10. ASSUME NEW w \in Calls, Reap(w)  PROVE C
    <2>1. UNCHANGED <<closed, consumed, uses>> /\ P!Reap(w)  BY <1>10, SameReap DEF Reap
    <2> QED  BY <1>3, <2>1 DEF Quiet
  <1>11. ASSUME Tick  PROVE C
    <2>1. UNCHANGED <<closed, consumed, uses>> /\ P!Tick  BY <1>11, SameTick DEF Tick
    <2> QED  BY <1>3, <2>1 DEF Quiet
  <1>12. ASSUME UNCHANGED vars  PROVE C
    <2>1. UNCHANGED <<closed, consumed, uses>> /\ UNCHANGED pdVars  BY <1>12 DEF vars
    <2> QED  BY <1>3, <2>1 DEF Quiet
  <1>13. A \/ B \/ C
    BY <1>2, <1>4, <1>6, <1>7, <1>8, <1>9, <1>10, <1>11, <1>12 DEF Next
  <1> QED  BY <1>13 DEF A, B, C

(* wait() takes no time and closes nothing.                                *)
LEMMA WaitFacts ==
  ASSUME PInv, NEW w, NEW i, P!Wait(w, i)
  PROVE  UNCHANGED <<now, mono, aborts>> /\ now \in Nat
  BY DEF P!Wait, PInv, P!Inv1, P!TypeOK

(* A used link stays in `consumed` until its token has expired. *)
LinkInv ==
  /\ uses \in [Links -> Nat]
  /\ DOMAIN consumed \subseteq Links
  /\ \A l \in DOMAIN consumed : consumed[l] = Deadline[l[1]]
  /\ \A l \in Links : /\ uses[l] <= 1
                      /\ uses[l] > 0 /\ ~Expired(l[1]) => l \in DOMAIN consumed

LEMMA StepLinks ==
  ASSUME Structure, PInv, LinkInv, [Next]_vars
  PROVE  LinkInv'
  <1>0. /\ \A l \in Links : l[1] \in Intents
        /\ \A i \in Intents : Deadline[i] \in Nat
    BY CountersignAssumption DEF Links
  <1>1. LinkStep /\ now \in Nat /\ now' \in Nat /\ now <= now'
    <2>1. CASE closed' = closed /\ Quiet /\ LinkStep  BY <2>1, QuietFacts
    <2>2. CASE UNCHANGED <<consumed, uses>> /\ \E w \in Calls, i \in Intents : P!Wait(w, i)
      BY <2>2, WaitFacts DEF LinkStep
    <2>3. CASE P!AbortAll /\ UNCHANGED <<consumed, uses>>
      <3>1. now \in Nat /\ now' = now  BY <2>3 DEF P!AbortAll, PInv, P!Inv1, P!TypeOK
      <3> QED  BY <2>3, <3>1 DEF LinkStep
    <2> QED  BY <2>1, <2>2, <2>3, StepKinds
  <1>2. \A i \in Intents : ~Expired(i)' => ~Expired(i)  BY <1>0, <1>1 DEF Expired
  <1>3. /\ DOMAIN Pruned \subseteq DOMAIN consumed
        /\ \A l \in DOMAIN Pruned : Pruned[l] = consumed[l]
        /\ \A l \in DOMAIN consumed : ~Expired(l[1]) => l \in DOMAIN Pruned
    BY DEF Pruned, MapDelete, LinkInv, Expired
  <1>4. CASE UNCHANGED <<consumed, uses>>  BY <1>0, <1>2, <1>4 DEF LinkInv
  <1>5. CASE consumed' = Pruned /\ UNCHANGED uses
    BY <1>0, <1>2, <1>3, <1>5 DEF LinkInv
  <1>6. ASSUME NEW l \in Links, ~Expired(l[1]), l \notin DOMAIN Pruned,
               consumed' = MapSet(Pruned, l, Deadline[l[1]]), uses' = [uses EXCEPT ![l] = @ + 1]
        PROVE  LinkInv'
    <2>1. uses[l] = 0  BY <1>3, <1>6 DEF LinkInv
    <2>2. uses' \in [Links -> Nat] /\ uses'[l] = 1 /\ \A k \in Links : k # l => uses'[k] = uses[k]
      BY <1>6, <2>1 DEF LinkInv
    <2>3. /\ DOMAIN consumed' = DOMAIN Pruned \cup {l} /\ consumed'[l] = Deadline[l[1]]
          /\ \A k \in DOMAIN Pruned : consumed'[k] = consumed[k]
      BY <1>3, <1>6 DEF MapSet
    <2>4. DOMAIN consumed' \subseteq Links /\ \A k \in DOMAIN consumed' : consumed'[k] = Deadline[k[1]]
      BY <1>3, <2>3 DEF LinkInv
    <2>5. ASSUME NEW k \in Links
          PROVE  uses'[k] <= 1 /\ (uses'[k] > 0 /\ ~Expired(k[1])' => k \in DOMAIN consumed')
      <3>1. CASE k = l  BY <2>2, <2>3, <3>1
      <3>2. CASE k # l  BY <1>0, <1>2, <1>3, <2>2, <2>3, <3>2 DEF LinkInv
      <3> QED  BY <3>1, <3>2
    <2> QED  BY <2>2, <2>4, <2>5 DEF LinkInv
  <1> QED  BY <1>1, <1>4, <1>5, <1>6 DEF LinkStep

LEMMA LinksHold == Spec => []LinkInv
  <1>1. Init => LinkInv
    BY DEF Init, LinkInv, EmptyMap
  <1>2. Structure /\ PInv /\ LinkInv /\ [Next]_vars => LinkInv'  BY StepLinks
  <1> QED  BY <1>1, <1>2, StructureHolds, PInvHolds, PTL DEF Spec

(* However often an intent is cancelled, delivered and closed again, and   *)
(* whatever is pruned, a link decides at most once.                        *)
THEOREM LinksAreSingleUse == Spec => []LinkSingleUse
  <1>1. LinkInv => LinkSingleUse  BY DEF LinkInv, LinkSingleUse
  <1> QED  BY <1>1, LinksHold, PTL

(* Nothing is awaited and nothing decided on a closed adapter, so all      *)
(* promises are of its one epoch.                                          *)
ClosedInv ==
  /\ closed => DOMAIN entries = {}
  /\ closed \in BOOLEAN /\ (~closed => aborts = 0)
  /\ \A p \in DOMAIN promises : promises[p].epoch = 0

LEMMA StepClosed ==
  ASSUME Structure, PInv, ClosedInv, [Next]_vars
  PROVE  ClosedInv'
  <1>1. \A p \in DOMAIN promises : p \in DOMAIN promises' /\ promises'[p].epoch = promises[p].epoch
    BY StepMaps, P!PromisesPersist, PAssumptions DEF PInv
  <1>2. CASE closed' = closed /\ Quiet /\ LinkStep
    BY <1>1, <1>2, QuietFacts DEF ClosedInv
  <1>3. CASE /\ ~closed /\ closed' = closed
             /\ \E w \in Calls, i \in Intents : P!Wait(w, i)
    <2>1. PICK w \in Calls, i \in Intents : P!Wait(w, i)  BY <1>3
    <2>2. aborts' = aborts  BY <2>1, WaitFacts
    <2>3. \A p \in DOMAIN promises' : p \in DOMAIN promises \/ promises'[p].epoch = aborts
      BY <2>1 DEF P!Wait, P!WaitReplay, P!WaitJoin, P!WaitRegister, P!MapSet, P!NewPromise
    <2> QED  BY <1>1, <1>3, <2>2, <2>3 DEF ClosedInv
  <1>4. CASE closed' = TRUE /\ P!AbortAll
    <2>1. DOMAIN promises' = DOMAIN promises /\ DOMAIN entries' = {}
      BY <1>4 DEF P!AbortAll, P!RejectAll, P!EmptyMap
    <2> QED  BY <1>1, <1>4, <2>1 DEF ClosedInv
  <1> QED  BY <1>2, <1>3, <1>4, StepKinds

LEMMA ClosedHolds == Spec => []ClosedInv
  <1>1. Init => ClosedInv  BY DEF Init, ClosedInv, PD!Init, PD!EmptyMap
  <1>2. Structure /\ PInv /\ ClosedInv /\ [Next]_vars => ClosedInv'  BY StepClosed
  <1> QED  BY <1>1, <1>2, StructureHolds, PInvHolds, PTL DEF Spec

(* All promises of an intent that were ever fulfilled carry the same       *)
(* resolution, although close() drops the tombstones.                      *)
THEOREM OutcomesAgree == Spec => []OneOutcome
  <1>1. PInv /\ ClosedInv => OneOutcome
    BY DEF PInv, P!Inv3, P!Finality, P!Fulfilled, ClosedInv, OneOutcome, Fulfilled
  <1> QED  BY <1>1, PInvHolds, ClosedHolds, PTL

-----------------------------------------------------------------------------
(* Deliveries and their waits                                              *)

(* A delivery has a wait for its intent, races no longer than that wait is *)
(* pending, and fails closed.                                              *)
DeliveryOK(d) ==
  /\ <<d, "deliver">> \in DOMAIN returned
  /\ promises[Awaited(d)].intent = deliveries[d].intent
  /\ deliveries[d].state = "notifying" => promises[Awaited(d)].state = "pending"
  /\ deliveries[d].state = "returned" /\ DeliveryFailed(deliveries[d]) =>
       promises[Awaited(d)].state # "pending"

DeliveryInv == \A d \in DOMAIN deliveries : DeliveryOK(d)

(* Promises are never withdrawn, and a settled one never changes; a call   *)
(* keeps the promise it was given.                                         *)
LEMMA Persist ==
  ASSUME Structure, PInv, [Next]_vars
  PROVE  /\ \A p \in DOMAIN promises :
              /\ p \in DOMAIN promises'
              /\ promises'[p].intent = promises[p].intent
              /\ promises'[p].epoch = promises[p].epoch
              /\ promises[p].state # "pending" => promises'[p] = promises[p]
         /\ \A w \in DOMAIN returned : w \in DOMAIN returned' /\ returned'[w] = returned[w]
  BY StepMaps, P!PromisesPersist, PAssumptions DEF PInv

(* wait() returns a promise for its intent and leaves the others alone. *)
LEMMA WaitReturns ==
  ASSUME PInv, NEW w \in Calls, NEW i \in Intents, P!Wait(w, i)
  PROVE  /\ w \in DOMAIN returned' /\ returned'[w] \in DOMAIN promises'
         /\ promises'[returned'[w]].intent = i
         /\ \A p \in DOMAIN promises : p \in DOMAIN promises' /\ promises'[p] = promises[p]
  <1>1. w \notin DOMAIN promises
    BY DEF P!Wait, PInv, P!Inv1, P!PromisesReturned
  <1>2. CASE P!WaitReplay(w, i)
    BY <1>1, <1>2 DEF P!WaitReplay, P!MapSet, P!NewPromise
  <1>3. CASE P!WaitJoin(w, i)
    BY <1>3 DEF P!WaitJoin, P!MapSet, PInv, P!Inv1, P!EntryPromises
  <1>4. CASE P!WaitRegister(w, i)
    BY <1>1, <1>4 DEF P!WaitRegister, P!MapSet, P!NewPromise
  <1> QED  BY <1>2, <1>3, <1>4 DEF P!Wait

(* What a step does to a delivery there was: what it races or has failed   *)
(* with depends on its wait alone.                                         *)
Moves(e) ==
  /\ e \in DOMAIN deliveries'
  /\ deliveries'[e].intent = deliveries[e].intent
  /\ deliveries'[e].state = "notifying" =>
       deliveries[e].state = "notifying" /\ promises'[Awaited(e)].state = "pending"
  /\ deliveries'[e].state = "returned" /\ DeliveryFailed(deliveries'[e]) =>
       \/ deliveries'[e] = deliveries[e]
       \/ promises'[Awaited(e)].state # "pending"

(* What one step may do to a delivery in progress.                         *)
LEMMA StepMoves ==
  ASSUME Structure, PInv, DeliveryInv, [Next]_vars, NEW e \in DOMAIN deliveries
  PROVE  Moves(e)
  <1>0. /\ Awaited(e) \in DOMAIN promises
        /\ deliveries[e].state = "notifying" => promises[Awaited(e)].state = "pending"
        /\ deliveries[e] \in Delivery
    BY DEF DeliveryInv, DeliveryOK, Awaited, PInv, P!Inv1, P!TypeOK, Structure, DeliveriesTyped
  <1>1. ASSUME deliveries'[e] = deliveries[e], e \in DOMAIN deliveries',
               promises'[Awaited(e)] = promises[Awaited(e)]
        PROVE  Moves(e)
    BY <1>0, <1>1 DEF Moves
  <1>2. ASSUME deliveries' = Woken(deliveries)  PROVE Moves(e)
    <2>1. /\ e \in DOMAIN deliveries' /\ deliveries'[e].intent = deliveries[e].intent
          /\ deliveries'[e].state = IF deliveries[e].state = "notifying" /\ Settled(Awaited(e))
                                    THEN "returned" ELSE deliveries[e].state
      BY <1>0, <1>2, WokenFacts
    <2>2. CASE deliveries[e].state = "notifying" /\ Settled(Awaited(e))
      BY <1>0, <2>1, <2>2 DEF Moves, Settled
    <2>3. CASE ~(deliveries[e].state = "notifying" /\ Settled(Awaited(e)))
      <3>1. deliveries'[e] = deliveries[e]  BY <1>2, <2>3 DEF Woken
      <3> QED  BY <1>0, <2>1, <2>3, <3>1 DEF Moves, Settled
    <2> QED  BY <2>2, <2>3
  <1>3. ASSUME NEW d \in DOMAIN deliveries, NEW ds, NEW kept, deliveries[d].state = "notifying",
               Progress(ds, d), AfterRace(d, ds, kept)
        PROVE  Moves(e)
    <2>1. /\ e \in DOMAIN deliveries' /\ deliveries'[e].intent = deliveries[e].intent
          /\ DeliveryFailed(deliveries'[e]) = DeliveryFailed(ds[e])
      BY <1>3, AfterRaceFacts
    <2>2. \/ /\ ~DeliveryFailed(ds[d]) /\ deliveries'[d].state = "returned"
             /\ e # d => deliveries'[e] = deliveries[e]
             /\ UNCHANGED pdVars
          \/ /\ deliveries'[d].state = "failed"
             /\ e # d => \/ deliveries'[e] = deliveries[e]
                            /\ ~(deliveries[e].state = "notifying" /\ Settled(Awaited(e)))
                         \/ deliveries'[e].state = "returned" /\ Settled(Awaited(e))
      BY <1>3, AfterRaceFacts
    <2>3. CASE e = d  BY <2>1, <2>2, <2>3 DEF Moves
    <2>4. CASE e # d /\ UNCHANGED pdVars /\ deliveries'[e] = deliveries[e]
      BY <1>1, <2>1, <2>4 DEF pdVars
    <2>5. CASE /\ deliveries'[e] = deliveries[e]
               /\ ~(deliveries[e].state = "notifying" /\ Settled(Awaited(e)))
      BY <1>0, <2>1, <2>5 DEF Moves, Settled
    <2>6. CASE deliveries'[e].state = "returned" /\ Settled(Awaited(e))
      BY <2>1, <2>6 DEF Moves, Settled
    <2> QED  BY <2>2, <2>3, <2>4, <2>5, <2>6
  <1>4. ASSUME NEW w \in Calls, NEW i \in Intents, P!Wait(w, i), e \in DOMAIN deliveries',
               deliveries'[e] = deliveries[e]
        PROVE  Moves(e)
    BY <1>0, <1>1, <1>4, WaitReturns
  <1>5. \A d \in Callers : <<d, "deliver">> \in Calls /\ <<d, "await">> \in Calls  BY DEF Calls
  <1>6. ASSUME NEW d \in Callers, NEW i \in Intents, Deliver(d, i)  PROVE Moves(e)
    <2>1. /\ P!Wait(<<d, "deliver">>, i) /\ e \in DOMAIN deliveries'
          /\ deliveries'[e] = deliveries[e]
      BY <1>6, DeliverFacts
    <2> QED  BY <1>4, <1>5, <2>1
  <1>7. ASSUME UNCHANGED <<promises, deliveries>>  PROVE Moves(e)  BY <1>1, <1>7
  <1>8. ASSUME NEW d \in Callers, NEW i \in Intents, AwaitResolution(d, i)  PROVE Moves(e)
    <2>1. deliveries' = deliveries /\ (UNCHANGED pdVars \/ P!Wait(<<d, "await">>, i))
      BY <1>8, AwaitFacts
    <2> QED  BY <1>4, <1>5, <1>7, <2>1 DEF pdVars
  <1>9. ASSUME NEW d \in Callers, NEW a \in Actors, NEW outcome \in {"told", "erred"},
               Notified(d, a, outcome)
        PROVE  Moves(e)
    <2>1. /\ d \in DOMAIN deliveries /\ deliveries[d].state = "notifying"
          /\ \E ds : /\ Progress(ds, d)
                     /\ \/ AfterRace(d, ds, captured)
                        \/ deliveries' = ds /\ UNCHANGED <<pdVars, captured>>
      BY <1>9, NotifiedFacts DEF Structure
    <2>2. PICK ds : /\ Progress(ds, d)
                    /\ \/ AfterRace(d, ds, captured)
                       \/ deliveries' = ds /\ UNCHANGED <<pdVars, captured>>
      BY <2>1
    <2>3. CASE AfterRace(d, ds, captured)  BY <1>3, <2>1, <2>2, <2>3
    <2>4. CASE deliveries' = ds /\ UNCHANGED <<pdVars, captured>>
      <3>1. CASE e # d  BY <1>1, <2>2, <2>4, <3>1 DEF Progress, pdVars
      <3>2. CASE e = d  BY <1>0, <2>1, <2>2, <2>4, <3>2 DEF Progress, pdVars, Moves
      <3> QED  BY <3>1, <3>2
    <2> QED  BY <2>2, <2>3, <2>4
  <1>10. ASSUME NEW d \in Callers, DeadlineTimer(d)  PROVE Moves(e)
    <2>1. /\ d \in DOMAIN deliveries /\ Progress(deliveries, d)
          /\ \/ /\ deliveries[d].state = "notifying"
                /\ AfterRace(d, deliveries, MapDelete(captured, {deliveries[d].intent}))
             \/ UNCHANGED <<pdVars, deliveries>>
      BY <1>10, DeadlineTimerFacts DEF Structure
    <2> QED  BY <1>3, <1>7, <2>1 DEF pdVars
  <1>11. ASSUME NEW i \in Intents, NEW s \in Spellings, NEW d \in Decisions, NEW valid \in BOOLEAN,
                Post(i, s, d, valid)
         PROVE  Moves(e)
    <2>1. UNCHANGED <<pdVars, deliveries>> \/ deliveries' = Woken(deliveries)
      BY <1>11, PostFacts
    <2> QED  BY <1>2, <1>7, <2>1 DEF pdVars
  <1>12. ASSUME Close  PROVE Moves(e)  BY <1>2, <1>12, CloseFacts
  <1>13. ASSUME NEW w \in Calls, Reap(w)  PROVE Moves(e)
    BY <1>7, <1>13, SameReap DEF Reap, P!Reap
  <1>14. ASSUME Tick  PROVE Moves(e)  BY <1>7, <1>14, SameTick DEF Tick, P!Tick
  <1>15. ASSUME UNCHANGED vars  PROVE Moves(e)  BY <1>7, <1>15 DEF vars, pdVars
  <1> QED
    BY <1>6, <1>8, <1>9, <1>10, <1>11, <1>12, <1>13, <1>14, <1>15 DEF Next

\* Only deliver() adds a delivery.
LEMMA NewDelivery ==
  ASSUME Structure, [Next]_vars, NEW e \in DOMAIN deliveries', e \notin DOMAIN deliveries
  PROVE  e \in Callers /\ \E i \in Intents : Deliver(e, i)
  <1>1. ASSUME DOMAIN deliveries' = DOMAIN deliveries  PROVE FALSE  BY <1>1
  <1>2. ASSUME NEW d \in Callers, NEW i \in Intents, Deliver(d, i)  PROVE e = d
    BY <1>2, DeliverFacts
  <1>3. ASSUME NEW d \in Callers, NEW i \in Intents, AwaitResolution(d, i)  PROVE FALSE
    BY <1>1, <1>3, AwaitFacts
  <1>4. ASSUME NEW d \in Callers, NEW a \in Actors, NEW outcome \in {"told", "erred"},
               Notified(d, a, outcome)
        PROVE  FALSE
    <2>1. d \in DOMAIN deliveries  BY <1>4, NotifiedFacts DEF Structure
    <2>2. PICK ds : Progress(ds, d) /\ (AfterRace(d, ds, captured) \/ deliveries' = ds)
      BY <1>4, NotifiedFacts DEF Structure
    <2> QED  BY <1>1, <2>1, <2>2, AfterRaceFacts DEF Progress
  <1>5. ASSUME NEW d \in Callers, DeadlineTimer(d)  PROVE FALSE
    <2>1. /\ d \in DOMAIN deliveries /\ Progress(deliveries, d)
          /\ \/ AfterRace(d, deliveries, MapDelete(captured, {deliveries[d].intent}))
             \/ deliveries' = deliveries
      BY <1>5, DeadlineTimerFacts DEF Structure
    <2> QED  BY <1>1, <2>1, AfterRaceFacts
  <1>6. ASSUME deliveries' = Woken(deliveries) \/ deliveries' = deliveries  PROVE FALSE
    BY <1>1, <1>6 DEF Woken
  <1>7. ASSUME NEW i \in Intents, NEW s \in Spellings, NEW d \in Decisions, NEW valid \in BOOLEAN,
               Post(i, s, d, valid)
        PROVE  FALSE
    BY <1>6, <1>7, PostFacts
  <1> QED
    BY <1>2, <1>3, <1>4, <1>5, <1>6, <1>7, CloseFacts DEF Next, Reap, Tick, vars

LEMMA StepDeliveries ==
  ASSUME Structure, PInv, DeliveryInv, [Next]_vars
  PROVE  DeliveryInv'
  <1> SUFFICES ASSUME NEW e \in DOMAIN deliveries'  PROVE DeliveryOK(e)'
    BY DEF DeliveryInv
  <1>1. CASE e \in DOMAIN deliveries
    <2>1. DeliveryOK(e) /\ Moves(e) /\ Awaited(e) \in DOMAIN promises
      BY <1>1, StepMoves DEF DeliveryInv, DeliveryOK, Awaited, PInv, P!Inv1, P!TypeOK
    <2>2. <<e, "deliver">> \in DOMAIN returned' /\ Awaited(e)' = Awaited(e)
      BY <2>1, Persist DEF DeliveryOK, Awaited
    <2>3. /\ promises'[Awaited(e)].intent = promises[Awaited(e)].intent
          /\ promises[Awaited(e)].state # "pending" => promises'[Awaited(e)] = promises[Awaited(e)]
      BY <2>1, Persist
    <2> QED  BY <2>1, <2>2, <2>3 DEF DeliveryOK, Moves
  <1>2. CASE e \notin DOMAIN deliveries
    <2>1. PICK i \in Intents : Deliver(e, i)  BY <1>2, NewDelivery
    <2>2. e \in Callers /\ <<e, "deliver">> \in Calls  BY <1>2, NewDelivery DEF Calls
    <2>3. /\ P!Wait(<<e, "deliver">>, i) /\ deliveries'[e].intent = i
          /\ deliveries'[e].state = IF Settled(returned'[<<e, "deliver">>])
                                    THEN "returned" ELSE "notifying"
      BY <2>1, <2>2, DeliverFacts
    <2>4. <<e, "deliver">> \in DOMAIN returned' /\ promises'[returned'[<<e, "deliver">>]].intent = i
      BY <2>2, <2>3, WaitReturns
    <2> QED  BY <2>3, <2>4 DEF DeliveryOK, Awaited, Settled
  <1> QED  BY <1>1, <1>2

LEMMA DeliveriesHold == Spec => []DeliveryInv
  <1>1. Init => DeliveryInv  BY DEF Init, DeliveryInv, EmptyMap
  <1>2. Structure /\ PInv /\ DeliveryInv /\ [Next]_vars => DeliveryInv'  BY StepDeliveries
  <1> QED  BY <1>1, <1>2, StructureHolds, PInvHolds, PTL DEF Spec

(* Where silence approves, a delivery that did not reach everybody returns *)
(* only when its wait was settled, whoever redelivers, cancels or closes.  *)
THEOREM DeliveryFailsClosed == Spec => []FailsClosed
  <1>1. DeliveryInv => FailsClosed
    BY DEF DeliveryInv, DeliveryOK, FailsClosed, Pending
  <1> QED  BY <1>1, DeliveriesHold, PTL

-----------------------------------------------------------------------------
(* Captured promises and the timers that reclaim them                      *)

\* The intent of a delivery whose race failed, and whose wait is cancelled.
FailedRace(i) ==
  /\ CancelWait(i)
  /\ \E d \in DOMAIN deliveries : deliveries[d].intent = i /\ deliveries[d].state = "notifying"

(* What becomes of `captured` and of the timers, unless something is       *)
(* delivered.                                                              *)
CaptureKept ==
  /\ \A i \in DOMAIN captured' : i \in DOMAIN captured /\ captured'[i] = captured[i]
  /\ \A i \in DOMAIN captured : i \in DOMAIN captured' \/ FailedRace(i)
       \/ \E d \in DOMAIN reclaims : deliveries[d].intent = i /\ mono >= reclaims[d]
  /\ \A d \in DOMAIN reclaims' : d \in DOMAIN reclaims /\ reclaims'[d] = reclaims[d]
  /\ \A d \in DOMAIN reclaims : d \in DOMAIN reclaims' \/
       /\ deliveries[d].intent \notin DOMAIN captured'
       /\ deliveries'[d].state # "notifying"

(* Only a deliver() captures another promise in place of the captured one. *)
LEMMA StepKeepsCaptured ==
  ASSUME Structure, [Next]_vars
  PROVE  CaptureKept \/ \E d \in Callers, i \in Intents : Deliver(d, i)
  <1>1. ASSUME UNCHANGED <<captured, reclaims>>  PROVE CaptureKept
    BY <1>1 DEF CaptureKept
  <1>2. ASSUME NEW d \in Callers, NEW i \in Intents, AwaitResolution(d, i)  PROVE CaptureKept
    BY <1>1, <1>2, AwaitFacts
  <1>3. ASSUME NEW d \in Callers, NEW a \in Actors, NEW outcome \in {"told", "erred"},
               Notified(d, a, outcome)
        PROVE  CaptureKept
    <2>1. /\ d \in DOMAIN deliveries /\ deliveries[d].state = "notifying" /\ reclaims' = reclaims
          /\ \E ds : /\ Progress(ds, d)
                     /\ AfterRace(d, ds, captured) \/ captured' = captured
      BY <1>3, NotifiedFacts DEF Structure
    <2>2. \/ captured' = captured
          \/ /\ captured' = MapDelete(captured, {deliveries[d].intent})
             /\ CancelWait(deliveries[d].intent)
      BY <2>1, AfterRaceFacts
    <2>3. CASE captured' = captured  BY <1>1, <2>1, <2>3
    <2>4. CASE /\ captured' = MapDelete(captured, {deliveries[d].intent})
               /\ CancelWait(deliveries[d].intent)
      <3>1. FailedRace(deliveries[d].intent)  BY <2>1, <2>4 DEF FailedRace
      <3> QED  BY <2>1, <2>4, <3>1 DEF CaptureKept, MapDelete
    <2> QED  BY <2>2, <2>3, <2>4
  <1>4. ASSUME NEW d \in Callers, DeadlineTimer(d)  PROVE CaptureKept
    <2> DEFINE i == deliveries[d].intent
    <2>1. /\ d \in DOMAIN reclaims /\ d \in DOMAIN deliveries /\ mono >= reclaims[d]
          /\ reclaims' = MapDelete(reclaims, {d})
          /\ Progress(deliveries, d)
          /\ \/ deliveries[d].state = "notifying"
                /\ AfterRace(d, deliveries, MapDelete(captured, {i}))
             \/ /\ deliveries[d].state # "notifying"
                /\ captured' = MapDelete(captured, {i}) /\ UNCHANGED <<pdVars, deliveries>>
      BY <1>4, DeadlineTimerFacts DEF Structure
    <2>2. deliveries'[d].state # "notifying"  BY <2>1, AfterRaceFacts
    <2>3. captured' = MapDelete(captured, {i}) \/ captured' = MapDelete(MapDelete(captured, {i}), {i})
      BY <2>1, AfterRaceFacts
    <2>4. /\ DOMAIN captured' = DOMAIN captured \ {i}
          /\ \A j \in DOMAIN captured' : captured'[j] = captured[j]
      BY <2>3 DEF MapDelete
    <2>5. DOMAIN reclaims' = DOMAIN reclaims \ {d} /\ \A e \in DOMAIN reclaims' : reclaims'[e] = reclaims[e]
      BY <2>1 DEF MapDelete
    <2> QED  BY <2>1, <2>2, <2>4, <2>5 DEF CaptureKept
  <1>5. ASSUME NEW i \in Intents, NEW s \in Spellings, NEW d \in Decisions, NEW valid \in BOOLEAN,
               Post(i, s, d, valid)
        PROVE  CaptureKept
    BY <1>1, <1>5, PostFacts
  <1> QED
    BY <1>1, <1>2, <1>3, <1>4, <1>5, CloseFacts DEF Next, Reap, Tick, vars

(* A captured promise is one of its intent's, and an armed timer of one of *)
(* its deliveries will reclaim it; a delivery that races has one, too.     *)
CaptureInv ==
  /\ DOMAIN captured \subseteq Intents
  /\ \A i \in DOMAIN captured :
       captured[i] \in DOMAIN promises /\ promises[captured[i]].intent = i
  /\ DeadlineReclaims

LEMMA StepCaptured ==
  ASSUME Structure, PInv, DeliveryInv, CaptureInv, [Next]_vars
  PROVE  CaptureInv'
  <1>0. \A e \in DOMAIN deliveries :
          /\ e \in DOMAIN deliveries' /\ deliveries'[e].intent = deliveries[e].intent
          /\ deliveries'[e].state = "notifying" => deliveries[e].state = "notifying"
    BY StepMoves DEF Moves
  <1>1. \A p \in DOMAIN promises : p \in DOMAIN promises' /\ promises'[p].intent = promises[p].intent
    BY Persist
  <1>2. ASSUME CaptureKept, DOMAIN deliveries' = DOMAIN deliveries  PROVE CaptureInv'
    <2>1. \A i \in DOMAIN captured' :
            i \in Intents /\ captured'[i] \in DOMAIN promises' /\ promises'[captured'[i]].intent = i
      BY <1>1, <1>2 DEF CaptureKept, CaptureInv
    <2>2. \A d \in DOMAIN deliveries' : deliveries'[d].state = "notifying" => d \in DOMAIN reclaims'
      BY <1>0, <1>2 DEF CaptureKept, CaptureInv, DeadlineReclaims
    <2>3. \A i \in DOMAIN captured' : \E d \in DOMAIN reclaims' : deliveries'[d].intent = i
      <3> SUFFICES ASSUME NEW i \in DOMAIN captured'
                   PROVE  \E d \in DOMAIN reclaims' : deliveries'[d].intent = i
        OBVIOUS
      <3>1. i \in DOMAIN captured  BY <1>2 DEF CaptureKept
      <3>2. PICK d \in DOMAIN reclaims : deliveries[d].intent = i
        BY <3>1 DEF CaptureInv, DeadlineReclaims
      <3>3. d \in DOMAIN reclaims'  BY <1>2, <3>2 DEF CaptureKept
      <3> QED  BY <1>0, <3>2, <3>3 DEF Structure
    <2> QED  BY <2>1, <2>2, <2>3 DEF CaptureInv, DeadlineReclaims
  <1>3. ASSUME NEW d \in Callers, NEW i \in Intents, Deliver(d, i)  PROVE CaptureInv'
    <2> DEFINE p == returned'[<<d, "deliver">>]
    <2>0. <<d, "deliver">> \in Calls  BY DEF Calls
    <2>1. /\ P!Wait(<<d, "deliver">>, i)
          /\ captured' = MapSet(captured, i, p)
          /\ DOMAIN deliveries' = DOMAIN deliveries \cup {d}
          /\ deliveries'[d].intent = i
          /\ reclaims' = MapSet(reclaims, d, PD!ReaperDue(i))
      BY <1>3, DeliverFacts
    <2>2. p \in DOMAIN promises' /\ promises'[p].intent = i  BY <2>0, <2>1, WaitReturns
    <2> HIDE DEF p
    <2>3. /\ DOMAIN captured' = DOMAIN captured \cup {i} /\ captured'[i] = p
          /\ \A j \in DOMAIN captured : j # i => captured'[j] = captured[j]
      BY <2>1 DEF MapSet
    <2>4. DOMAIN reclaims' = DOMAIN reclaims \cup {d}  BY <2>1 DEF MapSet
    <2>5. \A j \in DOMAIN captured' :
            j \in Intents /\ captured'[j] \in DOMAIN promises' /\ promises'[captured'[j]].intent = j
      BY <1>1, <2>2, <2>3 DEF CaptureInv
    <2>6. \A e \in DOMAIN deliveries' : deliveries'[e].state = "notifying" => e \in DOMAIN reclaims'
      BY <1>0, <2>1, <2>4 DEF CaptureInv, DeadlineReclaims
    <2>7. \A j \in DOMAIN captured' : \E e \in DOMAIN reclaims' : deliveries'[e].intent = j
      <3> SUFFICES ASSUME NEW j \in DOMAIN captured'
                   PROVE  \E e \in DOMAIN reclaims' : deliveries'[e].intent = j
        OBVIOUS
      <3>1. CASE j = i  BY <2>1, <2>4, <3>1
      <3>2. CASE j # i
        <4>1. PICK e \in DOMAIN reclaims : deliveries[e].intent = j
          BY <2>3, <3>2 DEF CaptureInv, DeadlineReclaims
        <4> QED  BY <1>0, <2>4, <4>1 DEF Structure
      <3> QED  BY <3>1, <3>2
    <2> QED  BY <2>5, <2>6, <2>7 DEF CaptureInv, DeadlineReclaims
  <1>4. CASE DOMAIN deliveries' = DOMAIN deliveries
    BY <1>2, <1>3, <1>4, StepKeepsCaptured
  <1>5. CASE DOMAIN deliveries' # DOMAIN deliveries
    <2>1. PICK e \in DOMAIN deliveries' : e \notin DOMAIN deliveries  BY <1>0, <1>5
    <2> QED  BY <1>3, <2>1, NewDelivery
  <1> QED  BY <1>4, <1>5

LEMMA CapturedHold == Spec => []CaptureInv
  <1>1. Init => CaptureInv
    BY DEF Init, CaptureInv, DeadlineReclaims, EmptyMap
  <1>2. Structure /\ PInv /\ DeliveryInv /\ CaptureInv /\ [Next]_vars => CaptureInv'
    BY StepCaptured
  <1> QED  BY <1>1, <1>2, StructureHolds, PInvHolds, DeliveriesHold, PTL DEF Spec

(* Whoever redelivers, fails or closes in between, a delivery that races   *)
(* and a captured promise have an armed deadline timer.                    *)
THEOREM DeadlineEndsEverything == Spec => []DeadlineReclaims
  BY CapturedHold, PTL DEF CaptureInv

-----------------------------------------------------------------------------
(* Types                                                                   *)

WaitsInv ==
  /\ DOMAIN waits \subseteq Callers
  /\ \A d \in DOMAIN waits :
       /\ waits[d].intent \in Intents
       /\ waits[d].promise # Refused =>
            /\ waits[d].promise \in DOMAIN promises
            /\ promises[waits[d].promise].intent = waits[d].intent

LEMMA StepWaits ==
  ASSUME Structure, PInv, CaptureInv, WaitsInv, [Next]_vars
  PROVE  WaitsInv'
  <1>1. \A p \in DOMAIN promises : p \in DOMAIN promises' /\ promises'[p].intent = promises[p].intent
    BY Persist
  <1>2. ASSUME waits' = waits  PROVE WaitsInv'  BY <1>1, <1>2 DEF WaitsInv
  <1>3. ASSUME NEW d \in Callers, NEW i \in Intents, NEW p,
               waits' = MapSet(waits, d, [intent |-> i, promise |-> p]),
               p # Refused => p \in DOMAIN promises' /\ promises'[p].intent = i
        PROVE  WaitsInv'
    <2>1. /\ DOMAIN waits' = DOMAIN waits \cup {d}
          /\ waits'[d].intent = i /\ waits'[d].promise = p
          /\ \A e \in DOMAIN waits : e # d => waits'[e] = waits[e]
      BY <1>3 DEF MapSet
    <2> QED  BY <1>1, <1>3, <2>1 DEF WaitsInv
  <1>4. ASSUME NEW d \in Callers, NEW i \in Intents, AwaitResolution(d, i)  PROVE WaitsInv'
    <2>0. <<d, "await">> \in Calls  BY DEF Calls
    <2>1. CASE /\ i \in DOMAIN captured
               /\ waits' = MapSet(waits, d, [intent |-> i, promise |-> captured[i]])
               /\ UNCHANGED pdVars
      BY <1>1, <1>3, <2>1 DEF CaptureInv
    <2>2. CASE waits' = MapSet(waits, d, [intent |-> i, promise |-> Refused])
      BY <1>3, <2>2
    <2>3. CASE /\ P!Wait(<<d, "await">>, i)
               /\ waits' = MapSet(waits, d, [intent |-> i, promise |-> returned'[<<d, "await">>]])
      BY <1>3, <2>0, <2>3, WaitReturns
    <2> QED  BY <1>4, <2>1, <2>2, <2>3, AwaitFacts
  <1>5. ASSUME NEW d \in Callers, NEW i \in Intents, Deliver(d, i)  PROVE waits' = waits
    BY <1>5 DEF Deliver
  <1>6. ASSUME NEW d \in Callers, NEW a \in Actors, NEW outcome \in {"told", "erred"},
               Notified(d, a, outcome)
        PROVE  waits' = waits
    BY <1>6 DEF Notified
  <1>7. ASSUME NEW d \in Callers, DeadlineTimer(d)  PROVE waits' = waits
    BY <1>7 DEF DeadlineTimer
  <1>8. ASSUME NEW i \in Intents, NEW s \in Spellings, NEW d \in Decisions, NEW valid \in BOOLEAN,
               Post(i, s, d, valid)
        PROVE  waits' = waits
    BY <1>8, PostFacts
  <1> QED
    BY <1>2, <1>4, <1>5, <1>6, <1>7, <1>8, CloseFacts DEF Next, Reap, Tick, vars

LEMMA WaitsHold == Spec => []WaitsInv
  <1>1. Init => WaitsInv  BY DEF Init, WaitsInv, EmptyMap
  <1>2. Structure /\ PInv /\ CaptureInv /\ WaitsInv /\ [Next]_vars => WaitsInv'  BY StepWaits
  <1> QED  BY <1>1, <1>2, StructureHolds, PInvHolds, CapturedHold, PTL DEF Spec

(* Type correctness, with the promises of links, deliveries and captures.  *)
THEOREM TypeCorrect == Spec => []TypeOK
  <1>1. Structure /\ PInv /\ LinkInv /\ ClosedInv /\ DeliveryInv /\ CaptureInv /\ WaitsInv => TypeOK
    <2> SUFFICES ASSUME Structure, PInv, LinkInv, ClosedInv, DeliveryInv, CaptureInv, WaitsInv
                 PROVE  TypeOK
      OBVIOUS
    <2>1. PD!TypeOK  BY SameTypeOK DEF PInv, P!Inv1
    <2>2. \A l \in DOMAIN consumed : consumed[l] \in Nat
      <3>1. \A l \in Links : Deadline[l[1]] \in Nat  BY CountersignAssumption DEF Links
      <3> QED  BY <3>1 DEF LinkInv
    <2>3. \A d \in DOMAIN deliveries :
            deliveries[d].state = "notifying" => promises[Awaited(d)].state = "pending"
      BY DEF DeliveryInv, DeliveryOK
    <2> QED
      BY <2>1, <2>2, <2>3
      DEF TypeOK, Structure, DeliveriesTyped, LinkInv, ClosedInv, CaptureInv, WaitsInv
  <1> QED
    BY <1>1, StructureHolds, PInvHolds, LinksHold, ClosedHolds, DeliveriesHold, CapturedHold,
       WaitsHold, PTL

-----------------------------------------------------------------------------
(* close(), and the answer that awaitResolution() returns                  *)

(* Every window is short enough for setTimeout to wait out.                *)
WindowsFit == \A i \in Intents : Deadline[i] <= MaxTimer

\* Who still waits, in the window, waits on a live entry.
WaitersLive ==
  \A p \in DOMAIN promises :
    promises[p].state = "pending" =>
      LET i == promises[p].intent
      IN  Expired(i) \/ (i \in DOMAIN entries /\ entries[i].promise = p)

LEMMA WaitersLiveHold == ASSUME WindowsFit PROVE Spec => []WaitersLive
  <1>1. P!Spec => []P!Waiters  BY P!WaitersHold, PAssumptions
  <1>2. PInv /\ P!Waiters => WaitersLive
    <2> SUFFICES ASSUME PInv, P!Waiters, NEW p \in DOMAIN promises,
                        promises[p].state = "pending"
                 PROVE  LET i == promises[p].intent
                        IN  Expired(i) \/ (i \in DOMAIN entries /\ entries[i].promise = p)
      BY DEF WaitersLive
    <2>1. promises[p].intent \in Intents  BY DEF PInv, P!Inv1, P!TypeOK, P!Promise
    <2>2. ~(Deadline[promises[p].intent] > MaxTimer)
      BY <2>1, PAssumptions, SigningLinksAssumption DEF WindowsFit
    <2> QED  BY <2>2 DEF P!Waiters, P!WaitersServed, P!Expired, Expired
  <1> QED  BY <1>1, <1>2, PInvHolds, ImplementsPending, PTL

LEMMA PendingIsLive ==
  ASSUME WaitersLive, NEW p \in DOMAIN promises, promises[p].state = "pending",
         ~Expired(promises[p].intent)
  PROVE  promises[p].intent \in DOMAIN entries /\ entries[promises[p].intent].promise = p
  BY DEF WaitersLive

(* close() leaves nobody waiting, in the window, on a promise that only    *)
(* the Default could answer.                                               *)
THEOREM CloseReleases == ASSUME WindowsFit PROVE Spec => []ClosedReleasesWaiters
  <1>1. WaitersLive /\ ClosedInv /\ WaitsInv => ClosedReleasesWaiters
    <2> SUFFICES ASSUME WaitersLive, ClosedInv, WaitsInv, NEW w \in DOMAIN waits, closed,
                        waits[w].promise # Refused, ~Expired(waits[w].intent),
                        Pending(waits[w].promise)
                 PROVE  FALSE
      BY DEF ClosedReleasesWaiters
    <2>1. /\ waits[w].promise \in DOMAIN promises
          /\ promises[waits[w].promise].intent = waits[w].intent
      BY DEF WaitsInv
    <2>2. waits[w].intent \in DOMAIN entries  BY <2>1, PendingIsLive DEF Pending
    <2> QED  BY <2>2 DEF ClosedInv
  <1> QED  BY <1>1, WaitersLiveHold, ClosedHolds, WaitsHold, PTL

\* The timer of a delivery is not due before its deadline.
ReclaimsNotEarly ==
  \A d \in DOMAIN reclaims :
    /\ reclaims[d] \in Nat
    /\ reclaims[d] + now >= Deadline[deliveries[d].intent] + mono

(* In the window, the answer of a delivery whose wait was not rejected is  *)
(* captured: the promise itself while it is pending, and afterwards one    *)
(* with the same outcome, since a redelivery replays the tombstone.        *)
Answered(d) ==
  LET i == deliveries[d].intent
      p == Awaited(d)
  IN  ~Expired(i) /\ promises[p].state # "rejected" =>
        /\ i \in DOMAIN captured
        /\ promises[captured[i]] = promises[p]
        /\ promises[p].state = "pending" => captured[i] = p

AnswersInv == \A d \in DOMAIN deliveries : Answered(d)

(* The two clocks move together, by one.                                   *)
LEMMA ClocksMove ==
  ASSUME Structure, PInv, [Next]_vars
  PROVE  /\ now \in Nat /\ mono \in Nat
         /\ \/ now' = now /\ mono' = mono
            \/ now' = now + 1 /\ mono' = mono + 1
  <1>1. now \in Nat /\ mono \in Nat  BY DEF PInv, P!Inv1, P!TypeOK
  <1>2. ASSUME Quiet
        PROVE  \/ now' = now /\ mono' = mono
               \/ now' = now + 1 /\ mono' = mono + 1
    BY <1>2 DEF Quiet, P!Record, P!Cancel, P!Reap, P!Tick, pdVars
  <1>3. ASSUME NEW w, NEW i, P!Wait(w, i)  PROVE now' = now /\ mono' = mono
    BY <1>3 DEF P!Wait
  <1>4. ASSUME P!AbortAll  PROVE now' = now /\ mono' = mono  BY <1>4 DEF P!AbortAll
  <1> QED  BY <1>1, <1>2, <1>3, <1>4, StepKinds

LEMMA LaterIsLater ==
  ASSUME NEW r \in Nat, NEW e \in Nat, NEW n \in Nat, NEW m \in Nat, r + n >= e + m
  PROVE  r + (n + 1) >= e + (m + 1) /\ (m >= r => n >= e)
  OBVIOUS

(* No deadline timer becomes due early: the clocks advance together, and   *)
(* setTimeout can wait out every window.                                   *)
LEMMA StepReclaims ==
  ASSUME WindowsFit, Structure, PInv, DeliveryInv, ReclaimsNotEarly, [Next]_vars
  PROVE  ReclaimsNotEarly'
  <1>0. /\ now \in Nat /\ mono \in Nat
        /\ \/ now' = now /\ mono' = mono
           \/ now' = now + 1 /\ mono' = mono + 1
        /\ \A i \in Intents : Deadline[i] \in Nat
    BY ClocksMove, CountersignAssumption
  <1>1. ASSUME NEW d \in DOMAIN reclaims, reclaims'[d] = reclaims[d]
        PROVE  /\ reclaims'[d] \in Nat
               /\ reclaims'[d] + now' >= Deadline[deliveries'[d].intent] + mono'
    <2>1. /\ deliveries'[d].intent = deliveries[d].intent /\ deliveries[d].intent \in Intents
      BY StepMoves DEF Moves, Structure, DeliveriesTyped, Delivery
    <2>2. /\ reclaims[d] \in Nat
          /\ reclaims[d] + now >= Deadline[deliveries[d].intent] + mono
      BY DEF ReclaimsNotEarly
    <2>3. Deadline[deliveries[d].intent] \in Nat  BY <1>0, <2>1
    <2> HIDE DEF Structure, PInv, DeliveryInv
    <2>4. reclaims[d] + now' >= Deadline[deliveries[d].intent] + mono'
      BY <1>0, <2>2, <2>3, LaterIsLater
    <2> QED  BY <1>1, <2>1, <2>2, <2>4
  <1>2. ASSUME NEW d \in Callers, NEW i \in Intents, Deliver(d, i)  PROVE ReclaimsNotEarly'
    <2>1. /\ reclaims' = MapSet(reclaims, d, PD!ReaperDue(i)) /\ deliveries'[d].intent = i
          /\ P!Wait(<<d, "deliver">>, i) /\ d \notin DOMAIN deliveries
      BY <1>2, DeliverFacts
    <2>2. /\ DOMAIN reclaims' = DOMAIN reclaims \cup {d} /\ reclaims'[d] = PD!ReaperDue(i)
          /\ \A e \in DOMAIN reclaims : e # d => reclaims'[e] = reclaims[e]
          /\ d \notin DOMAIN reclaims
      BY <2>1 DEF MapSet, Structure
    <2>3. now' = now /\ mono' = mono  BY <2>1, WaitFacts
    <2>4. reclaims'[d] \in Nat /\ reclaims'[d] + now' >= Deadline[i] + mono'
      <3>1. Deadline[i] \in Nat /\ Deadline[i] <= MaxTimer /\ MaxTimer \in Nat
        BY CountersignAssumption, SigningLinksAssumption DEF WindowsFit
      <3>2. reclaims'[d] = mono + (IF Deadline[i] - now < 0 THEN 0 ELSE Deadline[i] - now)
        BY <1>0, <2>2, <3>1 DEF PD!ReaperDue
      <3> QED  BY <1>0, <2>3, <3>1, <3>2
    <2> QED  BY <1>1, <2>1, <2>2, <2>4 DEF ReclaimsNotEarly
  <1>3. CASE CaptureKept  BY <1>1, <1>3 DEF CaptureKept, ReclaimsNotEarly
  <1> QED  BY <1>2, <1>3, StepKeepsCaptured

LEMMA ReclaimsHold == ASSUME WindowsFit PROVE Spec => []ReclaimsNotEarly
  <1>1. Init => ReclaimsNotEarly  BY DEF Init, ReclaimsNotEarly, EmptyMap
  <1>2. Structure /\ PInv /\ DeliveryInv /\ ReclaimsNotEarly /\ [Next]_vars => ReclaimsNotEarly'
    BY StepReclaims
  <1> QED  BY <1>1, <1>2, StructureHolds, PInvHolds, DeliveriesHold, PTL DEF Spec

(* While an answer can still come or be replayed, an intent has no other   *)
(* fulfilled promise than the one its live entry excludes.                 *)
LEMMA LiveMeansUndecided ==
  ASSUME PInv, ClosedInv, NEW i \in DOMAIN entries, ~Expired(i),
         NEW p \in DOMAIN promises, promises[p].intent = i
  PROVE  promises[p].state # "fulfilled"
  <1>1. promises[p].epoch = aborts  BY DEF ClosedInv
  <1>2. i \notin DOMAIN resolved  BY DEF PInv, P!Inv3, P!LiveUndecided
  <1> QED  BY <1>1, <1>2 DEF PInv, P!Inv3, P!TombstonesKept, P!Fulfilled, P!Expired, Expired

\* What a redelivery captures has the outcome of every earlier delivery.
LEMMA WaitRepeats ==
  ASSUME PInv, ClosedInv, WaitersLive, ~closed, NEW w \in Calls, NEW i \in Intents, P!Wait(w, i),
         ~Expired(i), NEW q \in DOMAIN promises, promises[q].intent = i,
         promises[q].state # "rejected"
  PROVE  /\ promises'[returned'[w]] = promises'[q] /\ promises'[q] = promises[q]
         /\ promises[q].state = "pending" => returned'[w] = q
  <1>0. w \notin DOMAIN promises  BY DEF P!Wait, PInv, P!Inv1, P!PromisesReturned
  <1>1. promises'[q] = promises[q]  BY WaitReturns
  <1>2. promises[q].epoch = aborts /\ promises[q] \in P!Promise
    BY DEF ClosedInv, PInv, P!Inv1, P!TypeOK
  <1>3. CASE promises[q].state = "pending"
    <2>1. i \in DOMAIN entries /\ entries[i].promise = q  BY <1>3, PendingIsLive
    <2>2. i \notin DOMAIN resolved  BY <2>1 DEF PInv, P!Inv3, P!LiveUndecided
    <2>3. P!WaitJoin(w, i)  BY <2>1, <2>2 DEF P!Wait, P!WaitReplay, P!WaitRegister
    <2>4. returned'[w] = q  BY <2>1, <2>3 DEF P!WaitJoin, P!MapSet
    <2> QED  BY <1>1, <2>4
  <1>4. CASE promises[q].state = "fulfilled"
    <2>1. i \in DOMAIN resolved /\ resolved[i] = promises[q].value
      BY <1>2, <1>4 DEF PInv, P!Inv3, P!TombstonesKept, P!Fulfilled, P!Expired, Expired
    <2>2. P!WaitReplay(w, i)
      BY <2>1 DEF P!Wait, P!WaitJoin, P!WaitRegister, P!Expired, Expired
    <2>3. /\ returned'[w] = w
          /\ promises'[w] = [intent |-> i, state |-> "fulfilled", value |-> resolved[i], epoch |-> aborts]
      BY <1>0, <2>2 DEF P!WaitReplay, P!MapSet, P!NewPromise
    <2>4. promises[q] = [intent |-> i, state |-> "fulfilled", value |-> resolved[i], epoch |-> aborts]
      BY <1>2, <1>4, <2>1 DEF P!Promise
    <2> QED  BY <1>1, <1>4, <2>3, <2>4
  <1> QED  BY <1>2, <1>3, <1>4 DEF P!Promise

\* A cancelled race leaves its intent without an answer to return.
LEMMA FailedRaceRejects ==
  ASSUME Structure, PInv, ClosedInv, DeliveryInv, WaitersLive, NEW i \in Intents, FailedRace(i),
         ~Expired(i), NEW p \in DOMAIN promises, promises[p].intent = i
  PROVE  promises'[p].state = "rejected"
  <1>1. PICK d \in DOMAIN deliveries : deliveries[d].intent = i /\ deliveries[d].state = "notifying"
    BY DEF FailedRace
  <1>2. /\ Awaited(d) \in DOMAIN promises /\ promises[Awaited(d)].intent = i
        /\ promises[Awaited(d)].state = "pending"
    BY <1>1 DEF DeliveryInv, DeliveryOK, Awaited, PInv, P!Inv1, P!TypeOK
  <1>3. i \in DOMAIN entries  BY <1>2, PendingIsLive
  <1>4. P!Cancel(i)  BY <1>3, CancelWaitFacts DEF FailedRace
  <1>5. promises[p] \in P!Promise /\ promises[p].state # "fulfilled"
    BY <1>3, LiveMeansUndecided DEF PInv, P!Inv1, P!TypeOK
  <1>6. promises' = P!RejectAll({entries[i].promise})  BY <1>4 DEF P!Cancel
  <1>7. CASE promises[p].state = "pending"
    <2>1. p = entries[i].promise  BY <1>7, PendingIsLive
    <2> QED  BY <1>5, <1>6, <2>1 DEF P!RejectAll, P!Promise
  <1>8. CASE promises[p].state = "rejected"
    BY <1>5, <1>6, <1>8 DEF P!RejectAll, P!Promise
  <1> QED  BY <1>5, <1>7, <1>8 DEF P!Promise

(* The answers owed stay captured: a redelivery inside the window joins    *)
(* the live entry or replays the tombstone, and a deadline timer comes too *)
(* late to matter.                                                         *)
LEMMA StepAnswers ==
  ASSUME Structure, PInv, ClosedInv, DeliveryInv, CaptureInv, WaitersLive, ReclaimsNotEarly,
         AnswersInv, [Next]_vars
  PROVE  AnswersInv'
  <1> SUFFICES ASSUME NEW e \in DOMAIN deliveries'  PROVE Answered(e)'
    BY DEF AnswersInv
  <1>1. CASE e \in DOMAIN deliveries
    <2>0. PICK i, p : i = deliveries[e].intent /\ p = Awaited(e)  OBVIOUS
    <2>1. /\ i \in Intents /\ deliveries'[e].intent = i
          /\ <<e, "deliver">> \in DOMAIN returned /\ p \in DOMAIN promises /\ promises[p].intent = i
      BY <1>1, <2>0, StepMoves
      DEF Moves, Structure, DeliveriesTyped, Delivery, DeliveryInv, DeliveryOK, Awaited, PInv,
          P!Inv1, P!TypeOK
    <2>2. /\ Awaited(e)' = p
          /\ promises[p].state # "pending" => promises'[p] = promises[p]
      BY <2>0, <2>1, Persist DEF Awaited
    <2> SUFFICES ASSUME ~Expired(i)', promises'[p].state # "rejected"
                 PROVE  /\ i \in DOMAIN captured'
                        /\ promises'[captured'[i]] = promises'[p]
                        /\ promises'[p].state = "pending" => captured'[i] = p
      BY <2>1, <2>2 DEF Answered
    <2>3. ~Expired(i)
      <3>1. Deadline[i] \in Nat /\ now \in Nat /\ (now' = now \/ now' = now + 1)
        BY <2>1, ClocksMove, CountersignAssumption
      <3> QED  BY <3>1 DEF Expired
    <2>4. promises[p].state # "rejected"  BY <2>2
    <2>5. /\ i \in DOMAIN captured /\ promises[captured[i]] = promises[p]
          /\ promises[p].state = "pending" => captured[i] = p
          /\ captured[i] \in DOMAIN promises
      BY <1>1, <2>0, <2>3, <2>4 DEF AnswersInv, Answered, CaptureInv
    <2>6. promises'[p].state = "pending" => promises[p].state = "pending"  BY <2>2
    <2>7. promises'[captured[i]] = promises'[p]
      <3>1. CASE promises[p].state = "pending"  BY <2>5, <3>1
      <3>2. CASE promises[p].state # "pending"  BY <2>2, <2>5, <3>2, Persist
      <3> QED  BY <3>1, <3>2
    <2>8. CASE CaptureKept
      <3>1. ~FailedRace(i)  BY <2>1, <2>3, FailedRaceRejects
      <3>2. \A d \in DOMAIN reclaims : deliveries[d].intent = i => ~(mono >= reclaims[d])
        <4> SUFFICES ASSUME NEW d \in DOMAIN reclaims, deliveries[d].intent = i, mono >= reclaims[d]
                     PROVE  FALSE
          OBVIOUS
        <4>1. /\ reclaims[d] \in Nat /\ reclaims[d] + now >= Deadline[i] + mono
              /\ now \in Nat /\ mono \in Nat /\ Deadline[i] \in Nat
          BY <2>1, ClocksMove, CountersignAssumption DEF ReclaimsNotEarly
        <4> QED  BY <2>3, <4>1, LaterIsLater DEF Expired
      <3>3. i \in DOMAIN captured'  BY <2>5, <2>8, <3>1, <3>2 DEF CaptureKept
      <3>4. captured'[i] = captured[i]  BY <2>8, <3>3 DEF CaptureKept
      <3> QED  BY <2>5, <2>6, <2>7, <3>3, <3>4
    <2>9. ASSUME NEW d \in Callers, NEW j \in Intents, Deliver(d, j)
          PROVE  /\ i \in DOMAIN captured'
                 /\ promises'[captured'[i]] = promises'[p]
                 /\ promises'[p].state = "pending" => captured'[i] = p
      <3>0. <<d, "deliver">> \in Calls  BY DEF Calls
      <3>1. /\ ~closed /\ P!Wait(<<d, "deliver">>, j)
            /\ captured' = MapSet(captured, j, returned'[<<d, "deliver">>])
        BY <2>9, DeliverFacts
      <3>2. i \in DOMAIN captured'
            /\ captured'[i] = IF i = j THEN returned'[<<d, "deliver">>] ELSE captured[i]
        BY <2>5, <3>1 DEF MapSet
      <3>3. CASE i # j  BY <2>5, <2>6, <2>7, <3>2, <3>3
      <3>4. CASE i = j
        <4>1. /\ promises'[returned'[<<d, "deliver">>]] = promises'[p]
              /\ promises[p].state = "pending" => returned'[<<d, "deliver">>] = p
          BY <2>1, <2>3, <2>4, <3>0, <3>1, <3>4, WaitRepeats
        <4> QED  BY <2>6, <3>2, <3>4, <4>1
      <3> QED  BY <3>3, <3>4
    <2> QED  BY <2>8, <2>9, StepKeepsCaptured
  <1>2. CASE e \notin DOMAIN deliveries
    <2>1. PICK i \in Intents : Deliver(e, i)  BY <1>2, NewDelivery
    <2>2. /\ captured' = MapSet(captured, i, Awaited(e)') /\ deliveries'[e].intent = i
      BY <1>2, <2>1, NewDelivery, DeliverFacts DEF Awaited
    <2>3. i \in DOMAIN captured' /\ captured'[i] = Awaited(e)'  BY <2>2 DEF MapSet
    <2> QED  BY <2>2, <2>3 DEF Answered
  <1> QED  BY <1>1, <1>2

(* In the window a decision that lands while the links are still going out *)
(* is what awaitResolution() returns, whatever fails, is redelivered or    *)
(* closed in between.                                                      *)
THEOREM DecisionsReturn == ASSUME WindowsFit PROVE Spec => []DecisionReturnable
  <1>1. Init => AnswersInv  BY DEF Init, AnswersInv, EmptyMap
  <1>2. Structure /\ PInv /\ ClosedInv /\ DeliveryInv /\ CaptureInv /\ WaitersLive
        /\ ReclaimsNotEarly /\ AnswersInv /\ [Next]_vars => AnswersInv'
    BY StepAnswers
  <1>3. AnswersInv => DecisionReturnable
    BY DEF AnswersInv, Answered, DecisionReturnable, Fulfilled
  <1> QED
    BY <1>1, <1>2, <1>3, StructureHolds, PInvHolds, ClosedHolds, DeliveriesHold, CapturedHold,
       WaitersLiveHold, ReclaimsHold, PTL DEF Spec
=============================================================================
