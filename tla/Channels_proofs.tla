-------------------------- MODULE Channels_proofs --------------------------
(***************************************************************************)
(* Proofs about the channel adapters.  As with the signing links, every    *)
(* step of theirs is one of PendingDecisions or leaves its state alone,    *)
(* and the theorems about PendingDecisions hold here, too.                 *)
(***************************************************************************)
EXTENDS Channels, SequenceTheorems, TLAPS

P == INSTANCE PendingDecisions_proofs WITH Calls <- Callers, ClockSteps <- {}, MaxStep <- 0

-----------------------------------------------------------------------------
(* PendingDecisions and the theorems about it, as used here                *)

LEMMA PAssumptions == P!CountersignAssumption /\ P!PendingAssumption
  <1>1. P!CountersignAssumption
    BY CountersignAssumption DEF P!CountersignAssumption, Decisions, P!Decisions
  <1>2. P!PendingAssumption
    BY ChannelsAssumption
    DEF P!PendingAssumption, WellFormed, Deliverable, P!WellFormed, P!Deliverable,
        Approvers, P!Approvers, Decisions, P!Decisions, Policies, P!Policies,
        Resolution, P!Resolution, Receipt, P!Receipt,
        Cardinality, P!Cardinality, IsFiniteSet, P!IsFiniteSet
  <1> QED  BY <1>1, <1>2

LEMMA SameInit == PD!Init => P!Init
  BY DEF PD!Init, P!Init, PD!EmptyMap, P!EmptyMap

LEMMA SameWait == ASSUME NEW w, NEW i, PD!Wait(w, i)  PROVE P!Wait(w, i)
  BY DEF PD!Wait, P!Wait, PD!WaitReplay, P!WaitReplay, PD!WaitJoin, P!WaitJoin,
         PD!WaitRegister, P!WaitRegister, PD!NewPromise, P!NewPromise, PD!Expired, P!Expired,
         PD!MapSet, P!MapSet, PD!MapDelete, P!MapDelete, PD!EmptyMap, P!EmptyMap,
         PD!ReaperDue, P!ReaperDue

LEMMA SameReap == ASSUME NEW w, PD!Reap(w)  PROVE P!Reap(w)
  BY DEF PD!Reap, P!Reap, PD!MapDelete, P!MapDelete

LEMMA SameSettle ==
  ASSUME NEW i, NEW d, NEW a, PD!Settle(i, d, a)  PROVE P!Settle(i, d, a)
  BY DEF PD!Settle, P!Settle, PD!EvictLate, P!EvictLate, PD!Accept, P!Accept,
         PD!Finish, P!Finish, PD!Fulfil, P!Fulfil, PD!Expired, P!Expired,
         PD!ApproverSet, P!ApproverSet, PD!SignDecision, P!SignDecision,
         PD!MapSet, P!MapSet, PD!MapDelete, P!MapDelete, PD!MapValues, P!MapValues,
         PD!Cardinality, P!Cardinality

LEMMA SameAbortAll == PD!AbortAll => P!AbortAll
  BY DEF PD!AbortAll, P!AbortAll, PD!RejectAll, P!RejectAll, PD!MapDelete, P!MapDelete,
         PD!EmptyMap, P!EmptyMap

LEMMA SameTick == PD!Tick => P!Tick
  BY DEF PD!Tick, P!Tick

LEMMA SameTypeOK == P!TypeOK => PD!TypeOK
  BY DEF PD!TypeOK, P!TypeOK, PD!IsEntry, P!IsEntry, PD!Promise, P!Promise,
         PD!Receipt, P!Receipt, PD!Resolution, P!Resolution, PD!Decisions, P!Decisions,
         PD!Policies, P!Policies

-----------------------------------------------------------------------------
(* Messages, presses and the polling loop                                  *)

Message == [intent: Intents, buttons: BOOLEAN, returned: BOOLEAN]

\* A press on a message that was posted.
Posted == {press \in Press : press.message \in DOMAIN messages}

(* Updates that were fetched stay the oldest ones until they are handled:  *)
(* `offset` moves with them.                                               *)
BatchIsOldest ==
  /\ Len(poller.batch) <= Len(presses)
  /\ \A k \in 1..Len(poller.batch) : poller.batch[k] = presses[k]

Structure ==
  /\ channel \in Channel
  /\ DOMAIN messages \subseteq Callers /\ \A m \in DOMAIN messages : messages[m] \in Message
  /\ presses \in Seq(Posted)
  /\ poller \in [pc: {"off", "fetching", "handling"}, batch: Seq(Posted)]
  /\ poller.pc # "off" => channel = "poll"
  /\ poller.pc # "handling" => poller.batch = <<>>
  /\ BatchIsOldest
  /\ edits \subseteq DOMAIN messages
  /\ DOMAIN decided \subseteq Intents
  /\ told \in [Intents -> Seq(Decisions)]

\* What a decision does to the state of PendingDecisions.
Settles(i) ==
  UNCHANGED pdVars \/ \E d \in Decisions, a \in Spellings : P!Settle(i, d, a)

(* A press either decides, and its presser is told, or is answered null    *)
(* and nobody is.                                                          *)
LEMMA SettleFacts ==
  ASSUME NEW i \in Intents, NEW d \in Decisions, NEW a \in Spellings
  PROVE  /\ SettleResolves(i, d, a) => /\ P!Settle(i, d, a) /\ i \in DOMAIN resolved'
                                       /\ told' = [told EXCEPT ![i] = Append(@, d)]
         /\ SettleNull(i, d, a) => Settles(i) /\ told' = told
  BY SameSettle DEF SettleResolves, SettleNull, Settles

(* Handling a press settles the intent of its message.                     *)
LEMMA HandleFacts ==
  ASSUME Structure, NEW press \in Posted, Handle(press)
  PROVE  LET i == messages[press.message].intent
         IN  /\ i \in Intents /\ press.decision \in Decisions /\ press.actor \in Spellings
             /\ press.message \in DOMAIN messages
             /\ \/ /\ SettleResolves(i, press.decision, press.actor)
                   /\ edits' = edits \cup {press.message}
                \/ SettleNull(i, press.decision, press.actor) /\ edits' = edits
  BY ChannelsAssumption DEF Structure, Posted, Press, Message, Handle

\* The parts of Structure that only depend on what is posted.
LEMMA MessagesGrow ==
  ASSUME Structure, NEW m, NEW rec \in Message, m \in Callers,
         messages' = MapSet(messages, m, rec)
  PROVE  /\ DOMAIN messages' = DOMAIN messages \cup {m}
         /\ \A k \in DOMAIN messages' : messages'[k] \in Message
         /\ Posted \subseteq Posted' /\ Seq(Posted) \subseteq Seq(Posted')
  <1>1. /\ DOMAIN messages' = DOMAIN messages \cup {m}
        /\ \A k \in DOMAIN messages' : messages'[k] = IF k = m THEN rec ELSE messages[k]
    BY DEF MapSet
  <1>2. \A k \in DOMAIN messages' : messages'[k] \in Message  BY <1>1 DEF Structure
  <1>3. Posted \subseteq Posted'  BY <1>1 DEF Posted, Press
  <1>4. Seq(Posted) \subseteq Seq(Posted')  BY <1>3
  <1> QED  BY <1>1, <1>2, <1>3, <1>4

(* Telling a decision keeps the record of what was told well typed.        *)
LEMMA ToldGrows ==
  ASSUME told \in [Intents -> Seq(Decisions)], NEW i \in Intents, NEW d \in Decisions,
         told' = told \/ told' = [told EXCEPT ![i] = Append(@, d)]
  PROVE  told' \in [Intents -> Seq(Decisions)]
  <1>1. Append(told[i], d) \in Seq(Decisions)  OBVIOUS
  <1> QED  BY <1>1

LEMMA StructureStep ==
  ASSUME Structure, [Next]_vars  PROVE Structure'
  <1> USE DEF Structure
  <1>1. ASSUME NEW d \in Callers, NEW i \in Intents, Deliver(d, i)  PROVE Structure'
    <2>1. PICK ok \in BOOLEAN :
            messages' = MapSet(messages, d, [intent |-> i, buttons |-> TRUE, returned |-> ok])
      BY <1>1 DEF Deliver
    <2>2. /\ UNCHANGED <<channel, presses, poller, edits, decided, told>>
      BY <1>1 DEF Deliver
    <2>3. [intent |-> i, buttons |-> TRUE, returned |-> ok] \in Message  BY DEF Message
    <2>4. /\ DOMAIN messages' = DOMAIN messages \cup {d}
          /\ \A k \in DOMAIN messages' : messages'[k] \in Message
          /\ Seq(Posted) \subseteq Seq(Posted')
      BY <2>1, <2>3, MessagesGrow
    <2> QED  BY <2>2, <2>4 DEF BatchIsOldest
  <1>2. ASSUME NEW pc \in {"off", "fetching"}, poller' = [Off EXCEPT !.pc = pc] \/ poller' = Off,
               poller'.pc # "off" => channel = "poll",
               UNCHANGED <<channel, messages, presses, edits, decided, told>>
        PROVE  Structure'
    <2>1. poller' = [pc |-> poller'.pc, batch |-> <<>>] /\ poller'.pc \in {"off", "fetching"}
      BY <1>2 DEF Off
    <2>2. Posted' = Posted  BY <1>2 DEF Posted
    <2>3. Len(poller'.batch) = 0 /\ poller'.batch \in Seq(Posted')
      <3>1. poller'.batch = <<>>  BY <2>1
      <3> QED  BY <3>1
    <2>4. BatchIsOldest'  BY <1>2, <2>3 DEF BatchIsOldest
    <2> QED  BY <1>2, <2>1, <2>2, <2>3, <2>4
  <1>3. ASSUME UNCHANGED channelVars, channel' = channel  PROVE Structure'
    BY <1>3 DEF channelVars, BatchIsOldest, Posted
  <1>4. ASSUME NEW d \in Callers, NEW i \in Intents, AwaitResolution(d, i)  PROVE Structure'
    <2>1. /\ UNCHANGED <<channel, messages, presses, edits, decided, told>>
          /\ poller' = poller \/ (poller' = [Off EXCEPT !.pc = "fetching"] /\ channel = "poll")
      BY <1>4 DEF AwaitResolution
    <2> QED  BY <1>2, <1>3, <2>1 DEF channelVars
  <1>5. ASSUME NEW m \in Callers, EditMessage(m)  PROVE Structure'
    <2>1. /\ m \in edits /\ edits' = edits \ {m}
          /\ messages' \in {messages, [messages EXCEPT ![m].buttons = FALSE]}
          /\ UNCHANGED <<channel, presses, poller, decided, told>>
      BY <1>5 DEF EditMessage
    <2>2. DOMAIN messages' = DOMAIN messages /\ \A k \in DOMAIN messages : messages'[k] \in Message
      BY <2>1 DEF Message
    <2>3. Posted' = Posted  BY <2>2 DEF Posted
    <2> QED  BY <2>1, <2>2, <2>3 DEF BatchIsOldest
  <1>6. ASSUME NEW m \in Callers, NEW d \in Decisions, NEW a \in Users, PressButton(m, d, a)
        PROVE  Structure'
    <2> DEFINE press == [message |-> m, decision |-> d, actor |-> a]
    <2>1. press \in Posted  BY <1>6 DEF PressButton, Posted, Press
    <2>2. /\ presses' = Append(presses, press)
          /\ UNCHANGED <<channel, messages, poller, edits, decided, told>>
      BY <1>6 DEF PressButton
    <2> HIDE DEF press
    <2>3. Posted' = Posted  BY <2>2 DEF Posted
    <2>4. presses' \in Seq(Posted) /\ Len(presses') = Len(presses) + 1
          /\ \A k \in 1..Len(presses) : presses'[k] = presses[k]
      BY <2>1, <2>2
    <2>5. BatchIsOldest'
      <3>1. Len(poller.batch) \in Nat /\ Len(presses) \in Nat  OBVIOUS
      <3> QED  BY <2>2, <2>4, <3>1 DEF BatchIsOldest
    <2> QED  BY <2>2, <2>3, <2>4, <2>5
  <1>7. ASSUME NEW press \in Posted, Handle(press)
        PROVE  edits' \subseteq DOMAIN messages /\ told' \in [Intents -> Seq(Decisions)]
    <2> DEFINE i == messages[press.message].intent
    <2>1. /\ i \in Intents /\ press.decision \in Decisions /\ press.actor \in Spellings
          /\ press.message \in DOMAIN messages
          /\ \/ SettleResolves(i, press.decision, press.actor) /\ edits' = edits \cup {press.message}
             \/ SettleNull(i, press.decision, press.actor) /\ edits' = edits
      BY <1>7, HandleFacts
    <2>2. told' = told \/ told' = [told EXCEPT ![i] = Append(@, press.decision)]
      BY <2>1, SettleFacts
    <2>3. told' \in [Intents -> Seq(Decisions)]  BY <2>1, <2>2, ToldGrows
    <2> QED  BY <2>1, <2>3
  <1>8. ASSUME NEW k \in DOMAIN presses, Webhook(k)  PROVE Structure'
    <2>0. k \in 1..Len(presses) /\ presses[k] \in Posted  OBVIOUS
    <2>1. /\ channel = "webhook" /\ Handle(presses[k])
          /\ \/ presses' = SubSeq(presses, 1, k - 1) \o SubSeq(presses, k + 1, Len(presses))
             \/ presses' = presses
          /\ UNCHANGED <<channel, messages, poller, decided>>
      BY <1>8 DEF Webhook
    <2>2. edits' \subseteq DOMAIN messages /\ told' \in [Intents -> Seq(Decisions)]
      BY <1>7, <2>0, <2>1
    <2>3. Posted' = Posted  BY <2>1 DEF Posted
    <2>4. presses' \in Seq(Posted)
      <3>1. /\ SubSeq(presses, 1, k - 1) \in Seq(Posted)
            /\ SubSeq(presses, k + 1, Len(presses)) \in Seq(Posted)
        BY <2>0
      <3>2. SubSeq(presses, 1, k - 1) \o SubSeq(presses, k + 1, Len(presses)) \in Seq(Posted)
        BY <3>1, ConcatProperties
      <3> QED  BY <2>1, <3>2
    <2>5. Len(poller.batch) = 0  BY <2>1
    <2>6. BatchIsOldest'  BY <2>1, <2>4, <2>5 DEF BatchIsOldest
    <2> QED  BY <2>1, <2>2, <2>3, <2>4, <2>6
  <1>9. CASE FetchReturns
    <2>1. /\ poller.pc = "fetching" /\ poller' = [pc |-> "handling", batch |-> presses]
          /\ UNCHANGED <<channel, messages, presses, edits, decided, told>>
      BY <1>9 DEF FetchReturns
    <2>2. Posted' = Posted  BY <2>1 DEF Posted
    <2>3. BatchIsOldest'  BY <2>1 DEF BatchIsOldest
    <2> QED  BY <2>1, <2>2, <2>3
  <1>10. CASE FetchFails \/ BatchEnds
    <2>1. /\ UNCHANGED <<channel, messages, presses, edits, decided, told>>
          /\ channel = "poll"
          /\ poller' = [Off EXCEPT !.pc = "fetching"] \/ poller' = Off
      BY <1>10 DEF FetchFails, BatchEnds, LoopChecks
    <2> QED  BY <1>2, <2>1
  <1>11. CASE HandleUpdate
    <2>1. /\ poller.pc = "handling" /\ poller.batch # <<>>
          /\ Handle(Head(poller.batch)) /\ presses' = Tail(presses)
          /\ poller' = [poller EXCEPT !.batch = Tail(@)]
          /\ UNCHANGED <<channel, messages, decided>>
      BY <1>11 DEF HandleUpdate
    <2>2. /\ poller.batch \in Seq(Posted) /\ Len(poller.batch) \in Nat \ {0}
          /\ Head(poller.batch) \in Posted /\ Tail(poller.batch) \in Seq(Posted)
          /\ Len(Tail(poller.batch)) = Len(poller.batch) - 1
          /\ \A k \in 1..Len(Tail(poller.batch)) : Tail(poller.batch)[k] = poller.batch[k + 1]
      BY <2>1
    <2>3. presses # <<>>  BY <2>2 DEF BatchIsOldest
    <2>4. /\ Tail(presses) \in Seq(Posted) /\ Len(Tail(presses)) = Len(presses) - 1
          /\ Len(presses) \in Nat
          /\ \A k \in 1..Len(Tail(presses)) : Tail(presses)[k] = presses[k + 1]
      BY <2>3
    <2>5. Posted' = Posted  BY <2>1 DEF Posted
    <2>6. edits' \subseteq DOMAIN messages /\ told' \in [Intents -> Seq(Decisions)]
      BY <1>7, <2>1, <2>2
    <2>7. poller' \in [pc: {"off", "fetching", "handling"}, batch: Seq(Posted)]
          /\ poller'.pc = "handling" /\ poller'.batch = Tail(poller.batch)
      BY <2>1, <2>2
    <2>8. BatchIsOldest'
      <3> DEFINE n == Len(poller.batch)
      <3>1. /\ n \in Nat \ {0} /\ n <= Len(presses)
            /\ \A k \in 1..n : poller.batch[k] = presses[k]
        BY <2>2 DEF BatchIsOldest
      <3>2. Len(poller'.batch) = n - 1 /\ Len(presses') = Len(presses) - 1
        BY <2>1, <2>2, <2>4, <2>7
      <3>3. ASSUME NEW k \in 1..(n - 1)  PROVE poller'.batch[k] = presses'[k]
        <4>1. k \in 1..(Len(presses) - 1) /\ k + 1 \in 1..n  BY <2>4, <3>1
        <4> QED  BY <2>1, <2>2, <2>4, <2>7, <3>1, <4>1
      <3> HIDE DEF n
      <3> QED  BY <2>4, <3>1, <3>2, <3>3 DEF BatchIsOldest
    <2> QED  BY <2>1, <2>4, <2>5, <2>6, <2>7, <2>8
  <1>12. ASSUME NEW i \in Intents, NEW d \in Decisions, Confirm(i, d)  PROVE Structure'
    <2>0. Mailbox \in Spellings  BY ChannelsAssumption
    <2>1. /\ \/ SettleResolves(i, d, Mailbox) /\ decided' = MapSet(Pruned, i, Deadline[i])
             \/ SettleNull(i, d, Mailbox) /\ UNCHANGED decided
          /\ UNCHANGED <<channel, messages, presses, poller, edits>>
      BY <1>12 DEF Confirm
    <2>2. told' \in [Intents -> Seq(Decisions)]
      <3>1. told' = told \/ told' = [told EXCEPT ![i] = Append(@, d)]
        BY <2>0, <2>1, SettleFacts
      <3> QED  BY <3>1, ToldGrows
    <2>3. DOMAIN decided' \subseteq Intents  BY <2>1 DEF MapSet, Pruned, MapDelete
    <2>4. Posted' = Posted  BY <2>1 DEF Posted
    <2> QED  BY <2>1, <2>2, <2>3, <2>4 DEF BatchIsOldest
  <1>13. CASE Close \/ \E w \in Callers : Reap(w)  BY <1>3, <1>13 DEF Close, Reap
  <1>14. CASE Tick  BY <1>3, <1>14 DEF Tick
  <1>15. CASE UNCHANGED vars  BY <1>3, <1>15 DEF vars
  <1> QED
    BY <1>1, <1>4, <1>5, <1>6, <1>8, <1>9, <1>10, <1>11, <1>12, <1>13, <1>14, <1>15 DEF Next

LEMMA StructureHolds == Spec => []Structure
  <1>1. Init => Structure
    BY DEF Init, Structure, EmptyMap, Off, Channel, BatchIsOldest
  <1> QED  BY <1>1, StructureStep, PTL DEF Spec

-----------------------------------------------------------------------------
(* Every step is one of PendingDecisions, or leaves its state alone        *)

LEMMA StepMaps ==
  ASSUME Structure, [Next]_vars
  PROVE  [P!Next]_(P!vars)
  <1> DEFINE Goal == [P!Next]_(P!vars)
  <1>1. ASSUME UNCHANGED pdVars  PROVE Goal  BY <1>1 DEF pdVars, P!vars
  <1>2. ASSUME NEW i \in Intents, Settles(i)  PROVE Goal
    <2>1. CASE UNCHANGED pdVars  BY <1>1, <2>1
    <2>2. CASE \E d \in Decisions, a \in Spellings : P!Settle(i, d, a)
      BY <2>2 DEF P!Next, Decisions, P!Decisions
    <2> HIDE DEF Goal
    <2> QED  BY <1>2, <2>1, <2>2 DEF Settles
  <1>3. ASSUME NEW i \in Intents, NEW d \in Decisions, NEW a \in Spellings,
               SettleResolves(i, d, a) \/ SettleNull(i, d, a)
        PROVE  Goal
    <2>1. Settles(i)  BY <1>3, SettleFacts DEF Settles
    <2> HIDE DEF Goal
    <2> QED  BY <1>2, <2>1
  <1>4. ASSUME NEW w \in Callers, NEW i \in Intents, P!Wait(w, i)  PROVE Goal
    BY <1>4 DEF P!Next
  <1>5. ASSUME NEW w \in Callers, P!Reap(w)  PROVE Goal  BY <1>5 DEF P!Next
  <1>6. ASSUME P!AbortAll \/ P!Tick  PROVE Goal  BY <1>6 DEF P!Next
  <1> HIDE DEF Goal
  <1>7. ASSUME NEW press \in Posted, Handle(press)  PROVE Goal
    <2>1. /\ messages[press.message].intent \in Intents
          /\ press.decision \in Decisions /\ press.actor \in Spellings
          /\ \/ SettleResolves(messages[press.message].intent, press.decision, press.actor)
             \/ SettleNull(messages[press.message].intent, press.decision, press.actor)
      BY <1>7, HandleFacts
    <2> QED  BY <1>3, <2>1
  <1>8. ASSUME NEW d \in Callers, NEW i \in Intents, Deliver(d, i) \/ AwaitResolution(d, i)
        PROVE  Goal
    BY <1>1, <1>4, <1>8, SameWait DEF Deliver, AwaitResolution
  <1>9. ASSUME NEW k \in DOMAIN presses, Webhook(k)  PROVE Goal
    <2>1. presses[k] \in Posted  BY DEF Structure
    <2> QED  BY <1>7, <1>9, <2>1 DEF Webhook
  <1>10. ASSUME HandleUpdate  PROVE Goal
    <2>1. Head(poller.batch) \in Posted  BY <1>10 DEF HandleUpdate, Structure
    <2> QED  BY <1>7, <1>10, <2>1 DEF HandleUpdate
  <1>11. ASSUME NEW i \in Intents, NEW d \in Decisions, Confirm(i, d)  PROVE Goal
    BY <1>3, <1>11, ChannelsAssumption DEF Confirm
  <1>12. ASSUME \/ \E m \in Callers : EditMessage(m)
                \/ \E m \in Callers, d \in Decisions, a \in Users : PressButton(m, d, a)
                \/ FetchReturns \/ FetchFails \/ BatchEnds \/ UNCHANGED vars
         PROVE  Goal
    BY <1>1, <1>12 DEF EditMessage, PressButton, FetchReturns, FetchFails, BatchEnds, vars
  <1>13. ASSUME Close \/ Tick \/ \E w \in Callers : Reap(w)  PROVE Goal
    BY <1>5, <1>6, <1>13, SameAbortAll, SameTick, SameReap DEF Close, Tick, Reap
  <1>14. Goal  BY <1>8, <1>9, <1>10, <1>11, <1>12, <1>13 DEF Next
  <1> QED  BY <1>14 DEF Goal

(* The channel adapters are a use of PendingDecisions, whatever the        *)
(* channel delivers, repeats or loses; and so they implement the gate.     *)
THEOREM ImplementsPending == Spec => P!Spec
  <1>1. Init => P!Init  BY SameInit DEF Init
  <1>2. Structure /\ [Next]_vars => [P!Next]_(P!vars)  BY StepMaps
  <1> QED  BY <1>1, <1>2, StructureHolds, PTL DEF Spec, P!Spec

\* The gate of QuorumGate.
THEOREM ImplementsGate == Spec => P!GateSpec
  <1>1. P!Spec => P!GateSpec  BY P!ImplementsGate, PAssumptions
  <1> QED  BY <1>1, ImplementsPending, PTL

PInv == P!Inv1 /\ P!Inv3

LEMMA PInvHolds == Spec => []PInv
  <1>1. P!Spec => []P!Inv1  BY P!Inv1Holds, PAssumptions
  <1>2. P!Spec => []P!Inv3  BY P!Inv3Holds, PAssumptions
  <1> QED  BY <1>1, <1>2, ImplementsPending, PTL DEF PInv

(* Type correctness: a batch is made of the oldest updates still unhandled *)
(* and every press is one on a message that was posted.                    *)
THEOREM TypeCorrect == Spec => []TypeOK
  <1>1. Structure /\ PInv => TypeOK
    <2> SUFFICES ASSUME Structure, PInv  PROVE TypeOK  OBVIOUS
    <2>1. PD!TypeOK  BY SameTypeOK DEF PInv, P!Inv1
    <2>2. \A k \in 1..Len(presses) : presses[k] \in Posted  BY DEF Structure
    <2>3. poller.batch = SubSeq(presses, 1, Len(poller.batch))
      <3>1. poller.batch \in Seq(Posted) /\ presses \in Seq(Posted)  BY DEF Structure
      <3> DEFINE n == Len(poller.batch)
      <3>2. n \in Nat /\ n <= Len(presses) /\ \A k \in 1..n : poller.batch[k] = presses[k]
        BY <3>1 DEF Structure, BatchIsOldest
      <3> HIDE DEF n
      <3>3. \A k \in 1..n : presses[k] \in Posted  BY <3>1, <3>2
      <3>4. /\ SubSeq(presses, 1, n) \in Seq(Posted) /\ Len(SubSeq(presses, 1, n)) = n
            /\ \A k \in 1..n : SubSeq(presses, 1, n)[k] = presses[k]
        <4>1. /\ SubSeq(presses, 1, n) \in Seq(Posted)
              /\ Len(SubSeq(presses, 1, n)) = IF 1 <= n THEN n - 1 + 1 ELSE 0
              /\ \A k \in 1..(n - 1 + 1) : SubSeq(presses, 1, n)[k] = presses[1 + k - 1]
          BY <3>2, <3>3, SubSeqProperties
        <4> QED  BY <3>2, <4>1
      <3>5. poller.batch = SubSeq(presses, 1, n)  BY <3>1, <3>2, <3>4, SeqEqual DEF n
      <3> QED  BY <3>5 DEF n
    <2> QED  BY <2>1, <2>2, <2>3 DEF TypeOK, Structure, Posted
  <1> QED  BY <1>1, StructureHolds, PInvHolds, PTL

-----------------------------------------------------------------------------
(* Decided once, and decidable while open                                  *)

\* What is decided keeps its tombstone until the deadline.
Done(i) == ~Closed /\ ~Expired(i) => i \in DOMAIN resolved

(* Closed, expired and decided are for good.                               *)
LEMMA DonePersists ==
  ASSUME Structure, PInv, [Next]_vars
  PROVE  /\ Closed => Closed'
         /\ \A i \in Intents : (Expired(i) => Expired(i)') /\ (Done(i) => Done(i)')
  <1>1. /\ aborts \in Nat /\ aborts' \in Nat /\ aborts <= aborts'
        /\ \A i \in Intents : P!Expired(i) => P!Expired(i)'
        /\ aborts' = aborts =>
             \A i \in DOMAIN resolved : i \in DOMAIN resolved' \/ P!Expired(i)'
    BY StepMaps, P!TombstonesPersist, PAssumptions DEF PInv
  <1>2. Closed => Closed'  BY <1>1 DEF Closed
  <1>3. ~Closed' => aborts' = aborts  BY <1>1 DEF Closed
  <1>4. \A i \in Intents : Expired(i) => Expired(i)'  BY <1>1 DEF P!Expired, Expired
  <1>5. aborts' = aborts => \A i \in DOMAIN resolved : i \in DOMAIN resolved' \/ Expired(i)'
    BY <1>1 DEF P!Expired, Expired
  <1> QED  BY <1>2, <1>3, <1>4, <1>5 DEF Done

(* A decision that resolves an intent finds it open, undecided, and leaves *)
(* its tombstone.                                                          *)
LEMMA ResolveFacts ==
  ASSUME Structure, PInv, NEW i \in Intents, NEW d \in Decisions, NEW a \in Spellings,
         SettleResolves(i, d, a)
  PROVE  /\ i \in DOMAIN entries /\ ~Expired(i)
         /\ i \notin DOMAIN resolved /\ i \in DOMAIN resolved'
         /\ told' = [told EXCEPT ![i] = Append(@, d)]
  <1>1. P!Settle(i, d, a) /\ i \in DOMAIN resolved' /\ told' = [told EXCEPT ![i] = Append(@, d)]
    BY SettleFacts
  <1>2. i \in DOMAIN entries  BY <1>1 DEF P!Settle
  <1>3. i \notin DOMAIN resolved  BY <1>2 DEF PInv, P!Inv3, P!LiveUndecided
  <1>4. ~P!EvictLate(i)  BY <1>1, <1>3 DEF P!EvictLate
  <1>5. ~Expired(i)  BY <1>1, <1>4 DEF P!Settle, P!Expired, Expired
  <1> QED  BY <1>1, <1>2, <1>3, <1>5

\* A step that decides nothing.
Undecided ==
  /\ told' = told /\ decided' = decided /\ edits' \subseteq edits
  /\ \A m \in DOMAIN messages' :
       ~messages'[m].buttons => m \in DOMAIN messages /\ (m \in edits \/ ~messages[m].buttons)

\* A step that decides i.
Decides(i) ==
  /\ \E d \in Decisions, a \in Spellings : SettleResolves(i, d, a)
  /\ messages' = messages
  /\ \A m \in edits' : m \in edits \/ messages[m].intent = i
  /\ \/ channel # "email" /\ decided' = decided
     \/ i \notin DOMAIN decided /\ decided' = MapSet(Pruned, i, Deadline[i])

(* What a step does to the adapter's own maps: nothing is decided, or one  *)
(* intent is, with all that goes with it.                                  *)
LEMMA StepEffects ==
  ASSUME Structure, [Next]_vars
  PROVE  /\ channel' = channel
         /\ \A m \in DOMAIN messages :
              m \in DOMAIN messages' /\ messages'[m].intent = messages[m].intent
         /\ Undecided \/ \E i \in Intents : Decides(i)
  <1> DEFINE Kept == \A m \in DOMAIN messages :
                       m \in DOMAIN messages' /\ messages'[m].intent = messages[m].intent
             Goal == channel' = channel /\ Kept /\ (Undecided \/ \E i \in Intents : Decides(i))
  <1>1. ASSUME UNCHANGED <<channel, told, decided, edits, messages>>  PROVE Goal
    BY <1>1 DEF Undecided
  <1>2. ASSUME NEW d \in Callers, NEW i \in Intents, Deliver(d, i)  PROVE Goal
    <2>1. PICK ok : messages' = MapSet(messages, d, [intent |-> i, buttons |-> TRUE, returned |-> ok])
      BY <1>2 DEF Deliver
    <2>2. UNCHANGED <<channel, edits, decided, told>> /\ d \notin DOMAIN messages
      BY <1>2 DEF Deliver
    <2>3. /\ DOMAIN messages' = DOMAIN messages \cup {d} /\ messages'[d].buttons
          /\ \A m \in DOMAIN messages : messages'[m] = messages[m]
      BY <2>1, <2>2 DEF MapSet
    <2> QED  BY <2>2, <2>3 DEF Undecided
  <1>3. ASSUME NEW m \in Callers, EditMessage(m)  PROVE Goal
    <2>1. /\ m \in edits /\ edits' = edits \ {m} /\ m \in DOMAIN messages
          /\ messages' = messages \/ messages' = [messages EXCEPT ![m].buttons = FALSE]
          /\ UNCHANGED <<channel, decided, told>>
      BY <1>3 DEF EditMessage, Structure
    <2>2. /\ DOMAIN messages' = DOMAIN messages
          /\ \A k \in DOMAIN messages :
               /\ messages'[k].intent = messages[k].intent
               /\ k # m => messages'[k] = messages[k]
      BY <2>1 DEF Structure, Message
    <2>3. \A k \in DOMAIN messages' :
            ~messages'[k].buttons => k \in DOMAIN messages /\ (k \in edits \/ ~messages[k].buttons)
      BY <2>1, <2>2
    <2>4. Undecided  BY <2>1, <2>3 DEF Undecided
    <2> QED  BY <2>1, <2>2, <2>4
  <1>4. ASSUME NEW press \in Posted, Handle(press), channel # "email",
               UNCHANGED <<channel, messages, decided>>
        PROVE  Goal
    <2>0. PICK i \in Intents : i = messages[press.message].intent  BY <1>4, HandleFacts
    <2>1. /\ press.decision \in Decisions /\ press.actor \in Spellings
          /\ \/ SettleResolves(i, press.decision, press.actor) /\ edits' = edits \cup {press.message}
             \/ SettleNull(i, press.decision, press.actor) /\ edits' = edits
      BY <1>4, <2>0, HandleFacts
    <2>2. CASE SettleResolves(i, press.decision, press.actor) /\ edits' = edits \cup {press.message}
      <3>1. Decides(i)  BY <1>4, <2>0, <2>1, <2>2 DEF Decides
      <3> QED  BY <1>4, <3>1
    <2>3. CASE SettleNull(i, press.decision, press.actor) /\ edits' = edits
      BY <1>1, <1>4, <2>1, <2>3, SettleFacts
    <2> QED  BY <2>1, <2>2, <2>3
  <1>5. ASSUME NEW i \in Intents, NEW d \in Decisions, Confirm(i, d)  PROVE Goal
    <2>0. Mailbox \in Spellings  BY ChannelsAssumption
    <2>1. /\ i \notin DOMAIN decided
          /\ \/ SettleResolves(i, d, Mailbox) /\ decided' = MapSet(Pruned, i, Deadline[i])
             \/ SettleNull(i, d, Mailbox) /\ UNCHANGED decided
          /\ UNCHANGED <<channel, messages, presses, poller, edits>>
      BY <1>5 DEF Confirm, CheckToken
    <2>2. CASE SettleResolves(i, d, Mailbox) /\ decided' = MapSet(Pruned, i, Deadline[i])
      <3>1. Decides(i)  BY <2>0, <2>1, <2>2 DEF Decides
      <3> QED  BY <2>1, <3>1
    <2>3. CASE SettleNull(i, d, Mailbox) /\ UNCHANGED decided
      BY <1>1, <2>0, <2>1, <2>3, SettleFacts
    <2> QED  BY <2>1, <2>2, <2>3
  <1> HIDE DEF Goal
  <1>6. ASSUME NEW k \in DOMAIN presses, Webhook(k)  PROVE Goal
    <2>1. presses[k] \in Posted  BY DEF Structure
    <2> QED  BY <1>4, <1>6, <2>1 DEF Webhook
  <1>7. ASSUME HandleUpdate  PROVE Goal
    <2>1. Head(poller.batch) \in Posted /\ channel = "poll"  BY <1>7 DEF HandleUpdate, Structure
    <2> QED  BY <1>4, <1>7, <2>1 DEF HandleUpdate
  <1>8. ASSUME \/ \E d \in Callers, i \in Intents : AwaitResolution(d, i)
               \/ \E m \in Callers, d \in Decisions, a \in Users : PressButton(m, d, a)
               \/ FetchReturns \/ FetchFails \/ BatchEnds
               \/ Close \/ Tick \/ (\E w \in Callers : Reap(w)) \/ UNCHANGED vars
        PROVE  Goal
    BY <1>1, <1>8
    DEF AwaitResolution, PressButton, FetchReturns, FetchFails, BatchEnds, Close, Tick, Reap,
        vars, channelVars
  <1>9. Goal  BY <1>2, <1>3, <1>5, <1>6, <1>7, <1>8 DEF Next
  <1> QED  BY <1>9 DEF Goal

(* Whoever was told that an intent is decided, whatever link is dead and   *)
(* whatever message loses or has lost its buttons, there is a tombstone.   *)
DoneInv ==
  /\ \A i \in Intents : told[i] # <<>> => Done(i)
  /\ \A i \in DOMAIN decided : Done(i)
  /\ \A m \in edits : Done(messages[m].intent)
  /\ \A m \in DOMAIN messages : ~messages[m].buttons => Done(messages[m].intent)

(* Buttons and links go only with a decision, and a decided intent stays   *)
(* decided.                                                                *)
LEMMA StepDone ==
  ASSUME Structure, PInv, DoneInv, [Next]_vars
  PROVE  DoneInv'
  <1>1. \A i \in Intents : Done(i) => Done(i)'  BY DonePersists
  <1>2. /\ \A m \in DOMAIN messages :
             /\ m \in DOMAIN messages' /\ messages'[m].intent = messages[m].intent
             /\ messages[m].intent \in Intents
        /\ edits \subseteq DOMAIN messages /\ DOMAIN decided \subseteq Intents
    BY StepEffects DEF Structure, Message
  <1>3. \A m \in DOMAIN messages : Done(messages[m].intent) => Done(messages[m].intent)'
    <2> SUFFICES ASSUME NEW m \in DOMAIN messages, Done(messages[m].intent)
                 PROVE  Done(messages[m].intent)'
      OBVIOUS
    <2>1. PICK i \in Intents : i = messages[m].intent  BY <1>2
    <2>2. Done(i)'  BY <1>1, <2>1
    <2> QED  BY <1>2, <2>1, <2>2
  <1>4. CASE Undecided
    <2>1. \A i \in Intents : told'[i] # <<>> => Done(i)'  BY <1>1, <1>4 DEF Undecided, DoneInv
    <2>2. \A i \in DOMAIN decided' : Done(i)'  BY <1>1, <1>2, <1>4 DEF Undecided, DoneInv
    <2> QED  BY <1>2, <1>3, <1>4, <2>1, <2>2 DEF Undecided, DoneInv
  <1>5. ASSUME NEW i \in Intents, Decides(i)  PROVE DoneInv'
    <2>1. PICK d \in Decisions, a \in Spellings : SettleResolves(i, d, a)  BY <1>5 DEF Decides
    <2>2. i \in DOMAIN resolved' /\ told' = [told EXCEPT ![i] = Append(@, d)]
      BY <2>1, ResolveFacts
    <2>3. Done(i)'  BY <2>2 DEF Done
    <2>4. \A j \in Intents : told'[j] # <<>> => Done(j)'
      <3> SUFFICES ASSUME NEW j \in Intents, told'[j] # <<>>  PROVE Done(j)'  OBVIOUS
      <3>1. CASE j = i  BY <2>3, <3>1
      <3>2. CASE j # i
        <4>1. told'[j] = told[j]  BY <2>2, <3>2 DEF Structure
        <4> QED  BY <1>1, <4>1 DEF DoneInv
      <3> QED  BY <3>1, <3>2
    <2>5. \A j \in DOMAIN decided' : Done(j)'
      <3>1. \A j \in DOMAIN decided' : j = i \/ j \in DOMAIN decided
        BY <1>5 DEF Decides, MapSet, Pruned, MapDelete
      <3> SUFFICES ASSUME NEW j \in DOMAIN decided'  PROVE Done(j)'  OBVIOUS
      <3>2. CASE j = i  BY <2>3, <3>2
      <3>3. CASE j # i  BY <1>1, <1>2, <3>1, <3>3 DEF DoneInv
      <3> QED  BY <3>2, <3>3
    <2>6. \A m \in DOMAIN messages : messages[m].intent = i => Done(messages[m].intent)'
      <3> SUFFICES ASSUME NEW m \in DOMAIN messages, messages[m].intent = i
                   PROVE  Done(messages[m].intent)'
        OBVIOUS
      <3>1. messages'[m].intent = i  BY <1>2
      <3> QED  BY <2>3, <3>1 DEF Done, Expired
    <2>7. edits' \subseteq DOMAIN messages'  BY StructureStep DEF Structure
    <2>8. \A m \in edits' : Done(messages[m].intent)'
      <3> SUFFICES ASSUME NEW m \in edits'  PROVE Done(messages[m].intent)'  OBVIOUS
      <3>1. /\ m \in DOMAIN messages /\ (m \in edits \/ messages[m].intent = i)
        BY <1>5, <2>7 DEF Decides
      <3>2. CASE m \in edits  BY <1>3, <3>1, <3>2 DEF DoneInv
      <3>3. CASE messages[m].intent = i  BY <2>6, <3>1, <3>3
      <3> QED  BY <3>1, <3>2, <3>3
    <2>9. \A m \in DOMAIN messages' : ~messages'[m].buttons => Done(messages[m].intent)'
      <3> SUFFICES ASSUME NEW m \in DOMAIN messages', ~messages'[m].buttons
                   PROVE  Done(messages[m].intent)'
        OBVIOUS
      <3>1. m \in DOMAIN messages /\ ~messages[m].buttons  BY <1>5 DEF Decides
      <3> QED  BY <1>3, <3>1 DEF DoneInv
    <2> QED  BY <2>4, <2>5, <2>8, <2>9 DEF DoneInv
  <1> QED  BY <1>4, <1>5, StepEffects

LEMMA DoneHolds == Spec => []DoneInv
  <1>1. Init => DoneInv  BY DEF Init, DoneInv, EmptyMap
  <1>2. Structure /\ PInv /\ DoneInv /\ [Next]_vars => DoneInv'  BY StepDone
  <1> QED  BY <1>1, <1>2, StructureHolds, PInvHolds, PTL DEF Spec

(* No press of a stranger, no press that came too early and no press on    *)
(* another message takes away the buttons or the links of an intent that   *)
(* is still open.                                                          *)
THEOREM OpenStaysDecidable == Spec => []DecidableWhileOpen
  <1>1. Structure /\ PInv /\ DoneInv => DecidableWhileOpen
    <2> SUFFICES ASSUME Structure, PInv, DoneInv, NEW i \in DOMAIN entries, ~Closed, ~Expired(i)
                 PROVE  /\ i \notin DOMAIN decided
                        /\ \A m \in DOMAIN messages : messages[m].intent = i => messages[m].buttons
      BY DEF DecidableWhileOpen
    <2>1. i \notin DOMAIN resolved  BY DEF PInv, P!Inv3, P!LiveUndecided
    <2>2. ~Done(i)  BY <2>1 DEF Done
    <2> QED  BY <2>2 DEF DoneInv
  <1> QED  BY <1>1, StructureHolds, PInvHolds, DoneHolds, PTL

(* An intent is told as decided at most once until the adapter closes, and *)
(* over e-mail even then: its links stay dead until they expire.           *)
OnceInv ==
  /\ \A i \in DOMAIN decided : decided[i] = Deadline[i]
  /\ \A i \in Intents :
       /\ ~Closed \/ channel = "email" => Len(told[i]) <= 1
       /\ channel = "email" /\ told[i] # <<>> /\ ~Expired(i) => i \in DOMAIN decided

(* No second press on an intent is told that it was recorded.              *)
LEMMA StepOnce ==
  ASSUME Structure, PInv, DoneInv, OnceInv, [Next]_vars
  PROVE  OnceInv'
  <1>1. /\ (Closed => Closed') /\ channel' = channel
        /\ \A i \in Intents : Expired(i) => Expired(i)'
    BY DonePersists, StepEffects
  <1>2. CASE Undecided
    <2>1. told' = told /\ decided' = decided  BY <1>2 DEF Undecided
    <2> QED  BY <1>1, <2>1 DEF OnceInv, Closed, Expired
  <1>3. ASSUME NEW i \in Intents, Decides(i)  PROVE OnceInv'
    <2>1. PICK d \in Decisions, a \in Spellings : SettleResolves(i, d, a)  BY <1>3 DEF Decides
    <2>2. ~Expired(i) /\ i \notin DOMAIN resolved /\ told' = [told EXCEPT ![i] = Append(@, d)]
      BY <2>1, ResolveFacts
    <2>3. ~Closed \/ channel = "email" => told[i] = <<>>
      BY <1>3, <2>2 DEF Decides, OnceInv, DoneInv, Done
    <2>4. /\ told'[i] = Append(told[i], d)
          /\ \A j \in Intents : j # i => told'[j] = told[j]
      BY <2>2 DEF Structure
    <2>5. ~Closed \/ channel = "email" => Len(told'[i]) = 1  BY <2>3, <2>4
    <2>6. \A j \in DOMAIN decided : ~Expired(j) => j \in DOMAIN Pruned
      BY DEF OnceInv, Pruned, MapDelete, Expired
    <2>7. \A j \in DOMAIN decided' : decided'[j] = Deadline[j]
      BY <1>3 DEF Decides, OnceInv, Pruned, MapDelete, MapSet
    <2>8. channel = "email" => /\ i \in DOMAIN decided'
                               /\ \A j \in DOMAIN decided : ~Expired(j) => j \in DOMAIN decided'
      BY <1>3, <2>6 DEF Decides, MapSet
    <2>9. ASSUME NEW j \in Intents
          PROVE  /\ ~Closed' \/ channel' = "email" => Len(told'[j]) <= 1
                 /\ channel' = "email" /\ told'[j] # <<>> /\ ~Expired(j)' => j \in DOMAIN decided'
      <3>1. CASE j = i
        <4>1. ASSUME ~Closed' \/ channel' = "email"  PROVE Len(told'[i]) <= 1
          <5>1. Len(told'[i]) = 1  BY <1>1, <2>5, <4>1
          <5> QED  BY <5>1
        <4> QED  BY <1>1, <2>8, <3>1, <4>1
      <3>2. CASE j # i  BY <1>1, <2>4, <2>8, <3>2 DEF OnceInv, Closed, Expired
      <3> QED  BY <3>1, <3>2
    <2> QED  BY <2>7, <2>9 DEF OnceInv
  <1> QED  BY <1>2, <1>3, StepEffects

(* At most one press or link is ever told that it was recorded.            *)
THEOREM ToldOnce == Spec => []DecidedOnce
  <1>1. Init => OnceInv
    <2>1. Init => \A i \in Intents : told[i] = <<>>  BY DEF Init
    <2>2. Len(<<>>) = 0  OBVIOUS
    <2> QED  BY <2>1, <2>2 DEF Init, OnceInv, EmptyMap
  <1>2. Structure /\ PInv /\ DoneInv /\ OnceInv /\ [Next]_vars => OnceInv'  BY StepOnce
  <1>3. OnceInv => DecidedOnce  BY DEF OnceInv, DecidedOnce
  <1> QED  BY <1>1, <1>2, <1>3, StructureHolds, PInvHolds, DoneHolds, PTL DEF Spec
=============================================================================
