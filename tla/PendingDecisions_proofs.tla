---------------------- MODULE PendingDecisions_proofs ----------------------
(***************************************************************************)
(* TLAPS proofs about PendingDecisions, for every set of intents, calls,   *)
(* actors and keys the assumptions admit: its resolutions verify and are   *)
(* final, it implements QuorumGate, decisions fall into the window, every  *)
(* live entry has its reaper, and nobody is left waiting before the        *)
(* deadline.                                                               *)
(***************************************************************************)
EXTENDS PendingDecisions, FiniteSetTheorems, TLAPS

-----------------------------------------------------------------------------
(* Entries and their promises                                              *)

(* The promise of a live entry is pending, is for the entry's intent and   *)
(* was created since the last abortAll.                                    *)
EntryPromises ==
  \A i \in DOMAIN entries :
    /\ entries[i].promise \in DOMAIN promises
    /\ promises[entries[i].promise].state = "pending"
    /\ promises[entries[i].promise].intent = i
    /\ promises[entries[i].promise].epoch = aborts

(* A promise has the name of a wait() that returned.                       *)
PromisesReturned == DOMAIN promises \subseteq DOMAIN returned

Inv1 == TypeOK /\ EntryPromises /\ PromisesReturned



(* wait() preserves the invariant.                                         *)
LEMMA WaitPreserves ==
  ASSUME Inv1, NEW w \in Calls, NEW i \in Intents, Wait(w, i)
  PROVE  Inv1'
  <1> USE DEF Inv1, MapSet, MapDelete
  <1>1. w \notin DOMAIN promises
    BY DEF Wait, PromisesReturned
  <1>2. CASE WaitReplay(w, i)
    <2>1. TypeOK'
      BY <1>1, <1>2 DEF Wait, WaitReplay, TypeOK, Promise, NewPromise
    <2>2. EntryPromises'
      BY <1>1, <1>2 DEF Wait, WaitReplay, EntryPromises
    <2>3. PromisesReturned'
      BY <1>1, <1>2 DEF Wait, WaitReplay, PromisesReturned
    <2> QED BY <2>1, <2>2, <2>3
  <1>3. CASE WaitJoin(w, i)
    <2>1. TypeOK'
      BY <1>3 DEF Wait, WaitJoin, TypeOK, EntryPromises
    <2>2. EntryPromises'
      BY <1>3 DEF Wait, WaitJoin, EntryPromises
    <2>3. PromisesReturned'
      BY <1>3 DEF Wait, WaitJoin, PromisesReturned
    <2> QED BY <2>1, <2>2, <2>3
  <1>4. CASE WaitRegister(w, i)
    <2>1. TypeOK'
      BY <1>1, <1>4, CountersignAssumption, PendingAssumption DEF Wait, WaitRegister, TypeOK, Promise, NewPromise,
         IsEntry, EmptyMap, ReaperDue
    <2>2. EntryPromises'
      BY <1>1, <1>4 DEF Wait, WaitRegister, EntryPromises, NewPromise
    <2>3. PromisesReturned'
      BY <1>4 DEF Wait, WaitRegister, PromisesReturned
    <2> QED BY <2>1, <2>2, <2>3
  <1> QED BY <1>2, <1>3, <1>4 DEF Wait

(* A firing reaper preserves the invariant.                                *)
LEMMA ReapPreserves ==
  ASSUME Inv1, NEW w \in Calls, Reap(w)
  PROVE  Inv1'
  <1> USE DEF Inv1, MapDelete
  <1>1. TypeOK'
    BY DEF Reap, TypeOK, IsEntry
  <1>2. EntryPromises'
    BY DEF Reap, EntryPromises
  <1>3. PromisesReturned'
    BY DEF Reap, PromisesReturned
  <1> QED BY <1>1, <1>2, <1>3

(* So does the eviction of an entry by a late decision.                    *)
LEMMA EvictLatePreserves ==
  ASSUME Inv1, NEW i \in DOMAIN entries, EvictLate(i),
         UNCHANGED <<now, mono, returned, aborts>>
  PROVE  Inv1'
  <1> USE DEF Inv1, MapDelete
  <1>1. TypeOK'
    BY DEF EvictLate, TypeOK, IsEntry
  <1>2. EntryPromises'
    BY DEF EvictLate, EntryPromises
  <1>3. PromisesReturned'
    BY DEF EvictLate, PromisesReturned
  <1> QED BY <1>1, <1>2, <1>3

(* finish preserves the invariant, whatever receipts it is given.          *)
LEMMA FinishPreserves ==
  ASSUME Inv1, NEW i \in DOMAIN entries,
         NEW d \in Decisions, NEW rs \in SUBSET Receipt, Finish(i, d, rs),
         UNCHANGED <<now, mono, returned, aborts>>
  PROVE  Inv1'
  <1> USE DEF Inv1, MapDelete, MapSet
  <1> DEFINE r == [decision |-> d, policy |-> "approver", receipts |-> rs, stamp |-> now]
  <1>1. r \in Resolution
    BY DEF TypeOK, Resolution, Policies
  <1>2. /\ timers'   = MapDelete(timers, {entries[i].promise})
        /\ entries'  = MapDelete(entries, {i})
        /\ promises' = Fulfil(entries[i].promise, r)
        /\ resolved' = MapSet(MapDelete(resolved, {j \in DOMAIN resolved : Expired(j)}), i, r)
    BY DEF Finish
  <1> HIDE DEF r
  <1>3. TypeOK'
    <2>1. \A j \in DOMAIN entries' : IsEntry(entries'[j])
      BY <1>2 DEF TypeOK
    <2>2. DOMAIN resolved' \subseteq Intents /\ \A j \in DOMAIN resolved' : resolved'[j] \in Resolution
      BY <1>1, <1>2 DEF TypeOK
    <2>3. DOMAIN promises' = DOMAIN promises /\ \A p \in DOMAIN promises' : promises'[p] \in Promise
      BY <1>1, <1>2 DEF TypeOK, Fulfil, Promise
    <2> QED BY <1>2, <2>1, <2>2, <2>3 DEF TypeOK, IsEntry
  <1>4. EntryPromises'
    BY <1>2 DEF EntryPromises, Fulfil
  <1>5. PromisesReturned'
    BY <1>2 DEF PromisesReturned, Fulfil
  <1> QED BY <1>3, <1>4, <1>5

(* So does every outcome of an accepted receipt.                           *)
LEMMA AcceptPreserves ==
  ASSUME Inv1, NEW i \in DOMAIN entries, NEW c \in Receipt, Accept(i, c),
         UNCHANGED <<now, mono, returned, aborts>>
  PROVE  Inv1'
  <1> DEFINE approvals == MapSet(entries[i].approvals, Norm[c.actor], c)
  <1>1. /\ IsEntry(entries[i])
        /\ DOMAIN approvals \subseteq Actors
        /\ approvals \in [DOMAIN approvals -> Receipt]
    BY CountersignAssumption DEF Inv1, TypeOK, IsEntry, MapSet, Receipt
  <1>2. MapValues(approvals) \subseteq Receipt
    BY <1>1 DEF MapValues
  <1>3. CASE Finish(i, "reject", {c})
    BY <1>3, FinishPreserves DEF Decisions
  <1>4. CASE Finish(i, "approve", MapValues(approvals))
    BY <1>2, <1>4, FinishPreserves DEF Decisions
  <1>5. CASE entries' = [entries EXCEPT ![i].approvals = approvals]
             /\ UNCHANGED <<resolved, timers, promises>>
    <2> HIDE DEF approvals
    <2>1. DOMAIN entries' = DOMAIN entries /\ \A j \in DOMAIN entries : entries'[j].promise = entries[j].promise
      BY <1>1, <1>5 DEF IsEntry
    <2>2. \A j \in DOMAIN entries' : IsEntry(entries'[j])
      BY <1>1, <1>5 DEF Inv1, TypeOK, IsEntry
    <2>3. TypeOK'
      BY <1>5, <2>1, <2>2 DEF Inv1, TypeOK, IsEntry
    <2> QED BY <1>5, <2>1, <2>3 DEF Inv1, EntryPromises, PromisesReturned
  <1> QED BY <1>3, <1>4, <1>5 DEF Accept

(* cancel preserves the invariant.                                         *)
LEMMA CancelPreserves ==
  ASSUME Inv1, NEW i \in Intents, Cancel(i)
  PROVE  Inv1'
  <1> USE DEF Inv1, MapDelete
  <1>1. TypeOK'
    <2>1. DOMAIN promises' = DOMAIN promises /\ \A p \in DOMAIN promises' : promises'[p] \in Promise
      BY DEF Cancel, RejectAll, TypeOK, Promise
    <2> QED BY <2>1 DEF Cancel, TypeOK, IsEntry
  <1>2. EntryPromises'
    BY DEF Cancel, RejectAll, EntryPromises
  <1>3. PromisesReturned'
    BY DEF Cancel, RejectAll, PromisesReturned
  <1> QED BY <1>1, <1>2, <1>3

(* abortAll preserves the invariant.                                       *)
LEMMA AbortAllPreserves ==
  ASSUME Inv1, AbortAll
  PROVE  Inv1'
  <1> USE DEF Inv1, MapDelete, EmptyMap
  <1>1. TypeOK'
    <2>1. DOMAIN promises' = DOMAIN promises /\ \A p \in DOMAIN promises' : promises'[p] \in Promise
      <3>1. DOMAIN promises' = DOMAIN promises
        BY DEF AbortAll, RejectAll
      <3>2. ASSUME NEW p \in DOMAIN promises PROVE promises'[p] \in Promise
        <4>1. promises[p] \in Promise
          BY DEF TypeOK
        <4>2. \/ promises'[p] = promises[p]
              \/ promises'[p] = [promises[p] EXCEPT !.state = "rejected"]
          BY DEF AbortAll, RejectAll
        <4> QED BY <4>1, <4>2 DEF Promise
      <3> QED BY <3>1, <3>2
    <2>2. DOMAIN timers' \subseteq DOMAIN timers /\ \A w \in DOMAIN timers' : timers'[w] = timers[w]
      BY DEF AbortAll
    <2>3. DOMAIN entries' = {} /\ DOMAIN resolved' = {}
      BY DEF AbortAll
    <2>4. aborts' \in Nat /\ now' = now /\ mono' = mono /\ returned' = returned
      BY DEF AbortAll, TypeOK
    <2> QED BY <2>1, <2>2, <2>3, <2>4 DEF TypeOK
  <1>2. EntryPromises'
    BY DEF AbortAll, EntryPromises
  <1>3. PromisesReturned'
    BY DEF AbortAll, RejectAll, PromisesReturned
  <1> QED BY <1>1, <1>2, <1>3

(* The invariant holds in every reachable state.                           *)
LEMMA Inv1Holds == Spec => []Inv1
  <1>1. Init => Inv1
    BY DEF Init, Inv1, TypeOK, EntryPromises, PromisesReturned, EmptyMap
  <1>2. Inv1 /\ [Next]_vars => Inv1'
    <2> SUFFICES ASSUME Inv1, [Next]_vars PROVE Inv1'
      OBVIOUS
    <2>1. ASSUME NEW w \in Calls, NEW i \in Intents, Wait(w, i) PROVE Inv1'
      BY <2>1, WaitPreserves
    <2>2. ASSUME NEW w \in Calls, Reap(w) PROVE Inv1'
      BY <2>2, ReapPreserves
    <2>3. ASSUME NEW i \in Intents, NEW d \in Decisions, NEW a \in Spellings, Settle(i, d, a)
          PROVE Inv1'
      <3>1. SignDecision(i, d, a, Authority, "approver") \in Receipt
        BY CountersignAssumption DEF SignDecision, Receipt, Policies
      <3> QED BY <2>3, <3>1, EvictLatePreserves, AcceptPreserves DEF Settle
    <2>4. ASSUME NEW c \in Receipt, Record(c) PROVE Inv1'
      BY <2>4, EvictLatePreserves, AcceptPreserves DEF Record
    <2>5. ASSUME NEW i \in Intents, Cancel(i) PROVE Inv1'
      BY <2>5, CancelPreserves
    <2>6. CASE AbortAll
      BY <2>6, AbortAllPreserves
    <2>7. CASE Tick
      BY <2>7 DEF Tick, Inv1, TypeOK, IsEntry, EntryPromises, PromisesReturned
    <2>8. CASE StepClock
      BY <2>8 DEF StepClock, Inv1, TypeOK, IsEntry, EntryPromises, PromisesReturned
    <2>9. CASE UNCHANGED vars
      BY <2>9 DEF vars, Inv1, TypeOK, IsEntry, EntryPromises, PromisesReturned
    <2> QED BY <2>1, <2>2, <2>3, <2>4, <2>5, <2>6, <2>7, <2>8, <2>9 DEF Next
  <1> QED BY <1>1, <1>2, PTL DEF Spec

(* Type correctness, for every value of the constants and with or without  *)
(* steps of the wall clock.                                                *)
THEOREM TypeCorrect == Spec => []TypeOK
  BY Inv1Holds, PTL DEF Inv1

(* A promise keeps its intent and its epoch, once settled it never changes *)
(* again, and a wait() has returned what it has returned.                  *)
LEMMA PromisesPersist ==
  ASSUME Inv1, [Next]_vars
  PROVE  /\ \A p \in DOMAIN promises :
              /\ p \in DOMAIN promises'
              /\ promises'[p].intent = promises[p].intent
              /\ promises'[p].epoch = promises[p].epoch
              /\ promises[p].state # "pending" => promises'[p] = promises[p]
         /\ \A w \in DOMAIN returned : w \in DOMAIN returned' /\ returned'[w] = returned[w]
  <1> DEFINE Kept(p) == /\ p \in DOMAIN promises'
                        /\ promises'[p].intent = promises[p].intent
                        /\ promises'[p].epoch = promises[p].epoch
                        /\ promises[p].state # "pending" => promises'[p] = promises[p]
             Goal == /\ \A p \in DOMAIN promises : Kept(p)
                     /\ \A w \in DOMAIN returned :
                          w \in DOMAIN returned' /\ returned'[w] = returned[w]
  <1>0. /\ \A p \in DOMAIN promises : promises[p] \in Promise
        /\ DOMAIN promises \subseteq DOMAIN returned
        /\ \A i \in DOMAIN entries : promises[entries[i].promise].state = "pending"
    BY DEF Inv1, TypeOK, PromisesReturned, EntryPromises
  <1>1. ASSUME NEW w \in Calls, NEW i \in Intents, Wait(w, i)  PROVE Goal
    BY <1>0, <1>1 DEF Wait, WaitReplay, WaitJoin, WaitRegister, MapSet
  <1>2. ASSUME NEW ps, promises' = RejectAll(ps), returned' = returned,
               \A p \in ps : promises[p].state = "pending"
        PROVE  Goal
    <2>1. \A p \in DOMAIN promises : promises'[p] = IF p \in ps
            THEN [promises[p] EXCEPT !.state = "rejected"] ELSE promises[p]
      BY <1>2 DEF RejectAll
    <2>2. \A p \in DOMAIN promises : Kept(p)  BY <1>0, <1>2, <2>1 DEF RejectAll, Promise
    <2> QED BY <1>2, <2>2
  <1>3. ASSUME NEW i \in DOMAIN entries, NEW d, NEW rs, Finish(i, d, rs), returned' = returned
        PROVE  Goal
    <2> DEFINE p0 == entries[i].promise
    <2>1. PICK r : promises' = Fulfil(p0, r)  BY <1>3 DEF Finish
    <2>2. p0 \in DOMAIN promises /\ promises[p0].state = "pending"
      BY DEF Inv1, EntryPromises
    <2> HIDE DEF p0
    <2>3. \A p \in DOMAIN promises : Kept(p)  BY <1>0, <2>1, <2>2 DEF Fulfil, Promise
    <2> QED BY <1>3, <2>3
  <1>4. ASSUME UNCHANGED <<promises, returned>>  PROVE Goal
    BY <1>4
  <1>5. ASSUME NEW i \in DOMAIN entries, NEW c, Accept(i, c), returned' = returned  PROVE Goal
    BY <1>3, <1>4, <1>5 DEF Accept
  <1> HIDE DEF Goal
  <1>6. ASSUME NEW i \in Intents, NEW d \in Decisions, NEW a \in Spellings, Settle(i, d, a)
        PROVE  Goal
    BY <1>4, <1>5, <1>6 DEF Settle, EvictLate
  <1>7. ASSUME NEW c \in Receipt, Record(c)  PROVE Goal
    BY <1>4, <1>5, <1>7 DEF Record, EvictLate
  <1>8. ASSUME NEW i \in Intents, Cancel(i)  PROVE Goal
    BY <1>0, <1>2, <1>8 DEF Cancel
  <1>9. ASSUME AbortAll  PROVE Goal
    BY <1>0, <1>2, <1>9 DEF AbortAll
  <1>10. ASSUME \/ \E w \in Calls : Reap(w)
                \/ Tick \/ StepClock \/ UNCHANGED vars
         PROVE  Goal
    BY <1>4, <1>10 DEF Reap, Tick, StepClock, vars
  <1>11. Goal  BY <1>1, <1>6, <1>7, <1>8, <1>9, <1>10 DEF Next
  <1> QED BY <1>11 DEF Goal

(* Expiry is for good unless the clock goes back, and a tombstone lasts    *)
(* until its deadline unless abortAll drops it.                            *)
LEMMA TombstonesPersist ==
  ASSUME Inv1, [Next]_vars, "back" \notin ClockSteps
  PROVE  /\ aborts \in Nat /\ aborts' \in Nat /\ aborts <= aborts'
         /\ \A i \in Intents : Expired(i) => Expired(i)'
         /\ aborts' = aborts =>
              \A i \in DOMAIN resolved : i \in DOMAIN resolved' \/ Expired(i)'
  <1> DEFINE Goal == /\ aborts' \in Nat /\ aborts <= aborts'
                     /\ now' \in Nat /\ now <= now'
                     /\ aborts' = aborts =>
                          \A i \in DOMAIN resolved : i \in DOMAIN resolved' \/ Expired(i)
  <1>0. now \in Nat /\ aborts \in Nat /\ DOMAIN resolved \subseteq Intents
    BY DEF Inv1, TypeOK
  <1>1. ASSUME now' = now, aborts' = aborts,
               \A i \in DOMAIN resolved : i \in DOMAIN resolved' \/ Expired(i)
        PROVE  Goal
    BY <1>0, <1>1
  <1>2. ASSUME NEW w \in Calls, NEW i \in Intents, Wait(w, i)  PROVE Goal
    BY <1>1, <1>2 DEF Wait, WaitReplay, WaitJoin, WaitRegister, MapDelete
  <1>3. ASSUME NEW i, NEW c, Accept(i, c), now' = now, aborts' = aborts  PROVE Goal
    <2>1. \A j \in DOMAIN resolved : j \in DOMAIN resolved' \/ Expired(j)
      BY <1>3 DEF Accept, Finish, MapSet, MapDelete
    <2> QED  BY <1>1, <1>3, <2>1
  <1>4. ASSUME resolved' = resolved, now' = now, aborts' = aborts  PROVE Goal
    BY <1>1, <1>4
  <1>5. ASSUME AbortAll  PROVE Goal  BY <1>0, <1>5 DEF AbortAll
  <1>6. ASSUME Tick \/ StepClock  PROVE Goal  BY <1>0, <1>6 DEF Tick, StepClock
  <1> HIDE DEF Goal
  <1>7. ASSUME NEW i \in Intents, NEW d \in Decisions, NEW a \in Spellings, Settle(i, d, a)
        PROVE  Goal
    BY <1>3, <1>4, <1>7 DEF Settle, EvictLate
  <1>8. ASSUME NEW c \in Receipt, Record(c)  PROVE Goal
    BY <1>3, <1>4, <1>8 DEF Record, EvictLate
  <1>9. Goal
    BY <1>2, <1>4, <1>5, <1>6, <1>7, <1>8 DEF Next, Reap, Cancel, vars
  <1>10. \A i \in Intents : Expired(i) => Expired(i)'
    BY <1>0, <1>9, CountersignAssumption DEF Goal, Expired
  <1> QED  BY <1>0, <1>9, <1>10 DEF Goal

-----------------------------------------------------------------------------
(* The receipts a live entry has collected, and what it resolves to        *)

(* c is a receipt of approver a for intent i that the intent's signed      *)
(* approver list admits and the key a's mode requires has signed.          *)
Sound(i, a, c) ==
  /\ a \in Approvers(i) /\ a # TimeoutActor
  /\ Norm[c.actor] = a
  /\ c.intent = i /\ c.policy = "approver"
  /\ VerifyCountersignature(c, TrustedKey(i, a))

ApprovalsSound ==
  \A i \in DOMAIN entries : \A a \in DOMAIN entries[i].approvals :
    /\ Sound(i, a, entries[i].approvals[a])
    /\ entries[i].approvals[a].decision = "approve"

TombstonesVerify == \A i \in DOMAIN resolved : VerifyResolution(i, resolved[i])

Inv2 == ApprovalsSound /\ TombstonesVerify /\ ResolutionsVerify

(* What settle signs for a vouched approver is sound ...                   *)
LEMMA SettledIsSound ==
  ASSUME NEW i \in Intents, NEW d \in Decisions, NEW s \in Spellings,
         Norm[s] \in ApproverSet(i)
  PROVE  Sound(i, Norm[s], SignDecision(i, d, s, Authority, "approver"))
  BY PendingAssumption
  DEF Sound, ApproverSet, SignDecision, VerifyCountersignature, TrustedKey, Approvers, WellFormed

(* ... and so is what record admits.                                       *)
LEMMA RecordedIsSound ==
  ASSUME NEW c \in Receipt,
         c.policy = "approver",
         Norm[c.actor] \in KeyedApprovers(c.intent),
         VerifyCountersignature(c, KeyOf[Norm[c.actor]])
  PROVE  Sound(c.intent, Norm[c.actor], c)
  BY DEF Sound, KeyedApprovers, VerifyCountersignature, TrustedKey, Approvers

(* A veto by one sound receipt verifies.                                   *)
LEMMA VetoVerifies ==
  ASSUME NEW i \in Intents, NEW c \in Receipt, NEW t,
         Sound(i, Norm[c.actor], c), c.decision = "reject"
  PROVE  VerifyResolution(i, [decision |-> "reject", policy |-> "approver",
                              receipts |-> {c}, stamp |-> t])
  BY PendingAssumption
  DEF VerifyResolution, ApproverProof, Sound, Decisions, Deliverable

(* A quorum of sound approvals verifies.                                   *)
LEMMA QuorumVerifies ==
  ASSUME NEW i \in Intents, NEW m, NEW t,
         \A a \in DOMAIN m : Sound(i, a, m[a]) /\ m[a].decision = "approve",
         Cardinality(DOMAIN m) >= Quorum[i]
  PROVE  VerifyResolution(i, [decision |-> "approve", policy |-> "approver",
                              receipts |-> MapValues(m), stamp |-> t])
  <1> DEFINE r == [decision |-> "approve", policy |-> "approver",
                   receipts |-> MapValues(m), stamp |-> t]
  <1>1. {Norm[c.actor] : c \in MapValues(m)} = DOMAIN m
    BY DEF MapValues, Sound
  <1>2. MapValues(m) # {}
    <2>1. Quorum[i] \in Nat \ {0}
      BY PendingAssumption DEF WellFormed
    <2>2. Cardinality({}) = 0
      BY FS_EmptySet
    <2>3. DOMAIN m # {}
      <3> SUFFICES ASSUME DOMAIN m = {} PROVE FALSE
        OBVIOUS
      <3>1. Cardinality(DOMAIN m) = 0
        BY <2>2
      <3> QED BY <2>1, <3>1
    <2> QED BY <2>3 DEF MapValues
  <1>3. \A c \in MapValues(m) : c.intent = i /\ c.decision = "approve" /\ Sound(i, Norm[c.actor], c)
    BY DEF MapValues, Sound
  <1>4. ApproverProof(i, r)
    BY <1>1, <1>3, PendingAssumption DEF ApproverProof, Sound, Deliverable
  <1> QED
    BY <1>2, <1>3, <1>4, PendingAssumption DEF VerifyResolution, Decisions, Deliverable

(* Fulfilling the promise of entry i with a resolution that verifies, and  *)
(* leaving it as the tombstone, keeps every fulfilled promise verified.    *)
LEMMA FinishKeepsInv2 ==
  ASSUME Inv1, Inv2, NEW i \in DOMAIN entries, NEW d, NEW rs, Finish(i, d, rs),
         VerifyResolution(i, [decision |-> d, policy |-> "approver", receipts |-> rs, stamp |-> now])
  PROVE  Inv2'
  <1> USE DEF Inv2, MapDelete, MapSet
  <1>1. ApprovalsSound'
    BY DEF Finish, ApprovalsSound
  <1>2. TombstonesVerify'
    BY DEF Finish, TombstonesVerify
  <1>3. ResolutionsVerify'
    BY DEF Finish, ResolutionsVerify, Fulfilled, Fulfil, Inv1, EntryPromises, TypeOK, Promise
  <1> QED BY <1>1, <1>2, <1>3

(* An accepted sound receipt keeps Inv2.                                   *)
LEMMA AcceptKeepsInv2 ==
  ASSUME Inv1, Inv2, NEW i \in DOMAIN entries, NEW c \in Receipt,
         Sound(i, Norm[c.actor], c), Accept(i, c)
  PROVE  Inv2'
  <1> DEFINE approvals == MapSet(entries[i].approvals, Norm[c.actor], c)
  <1>0. i \in Intents
    BY DEF Inv1, TypeOK
  <1>1. CASE c.decision = "reject" /\ Finish(i, "reject", {c})
    BY <1>0, <1>1, VetoVerifies, FinishKeepsInv2
  <1>2. ASSUME c.decision = "approve"
        PROVE  \A a \in DOMAIN approvals : Sound(i, a, approvals[a]) /\ approvals[a].decision = "approve"
    BY <1>2 DEF MapSet, Inv2, ApprovalsSound
  <1>3. CASE /\ c.decision = "approve" /\ Cardinality(DOMAIN approvals) >= Quorum[i]
             /\ Finish(i, "approve", MapValues(approvals))
    <2> HIDE DEF approvals
    <2> QED BY <1>0, <1>2, <1>3, QuorumVerifies, FinishKeepsInv2
  <1>4. CASE /\ c.decision = "approve"
             /\ entries' = [entries EXCEPT ![i].approvals = approvals]
             /\ UNCHANGED <<resolved, timers, promises>>
    <2> HIDE DEF approvals
    <2>1. IsEntry(entries[i])
      BY DEF Inv1, TypeOK
    <2>2. entries'[i].approvals = approvals /\ \A j \in DOMAIN entries \ {i} : entries'[j] = entries[j]
      BY <1>4, <2>1 DEF IsEntry
    <2>3. ApprovalsSound'
      BY <1>2, <1>4, <2>2 DEF Inv2, ApprovalsSound
    <2> QED BY <1>4, <2>3 DEF Inv2, TombstonesVerify, ResolutionsVerify, Fulfilled
  <1> QED BY <1>1, <1>3, <1>4 DEF Accept

(* Every collected approval is sound, and every tombstone and every        *)
(* fulfilled promise carries a resolution verifyResolution accepts.        *)
LEMMA Inv2Holds == Spec => []Inv2
  <1>1. Init => Inv2
    BY DEF Init, Inv2, ApprovalsSound, TombstonesVerify, ResolutionsVerify, EmptyMap
  <1>2. Inv1 /\ Inv2 /\ [Next]_vars => Inv2'
    <2> SUFFICES ASSUME Inv1, Inv2, [Next]_vars PROVE Inv2'
      OBVIOUS
    <2> USE DEF Inv2, MapDelete, MapSet
    <2>1. ASSUME NEW w \in Calls, NEW i \in Intents, Wait(w, i) PROVE Inv2'
      <3>1. w \notin DOMAIN promises
        BY <2>1 DEF Wait, Inv1, PromisesReturned
      <3>2. ApprovalsSound'
        BY <2>1 DEF Wait, WaitReplay, WaitJoin, WaitRegister, ApprovalsSound, EmptyMap
      <3>3. TombstonesVerify'
        BY <2>1 DEF Wait, WaitReplay, WaitJoin, WaitRegister, TombstonesVerify
      <3>4. ResolutionsVerify'
        BY <2>1, <3>1 DEF Wait, WaitReplay, WaitJoin, WaitRegister, ResolutionsVerify,
           TombstonesVerify, Fulfilled, NewPromise
      <3> QED BY <3>2, <3>3, <3>4
    <2>2. ASSUME NEW w \in Calls, Reap(w) PROVE Inv2'
      BY <2>2 DEF Reap, ApprovalsSound, TombstonesVerify, ResolutionsVerify, Fulfilled
    <2>3. ASSUME NEW i \in DOMAIN entries, EvictLate(i) PROVE Inv2'
      BY <2>3 DEF EvictLate, ApprovalsSound, TombstonesVerify, ResolutionsVerify, Fulfilled
    <2>4. ASSUME NEW i \in Intents, NEW d \in Decisions, NEW a \in Spellings, Settle(i, d, a)
          PROVE Inv2'
      <3> DEFINE c == SignDecision(i, d, a, Authority, "approver")
      <3>1. c \in Receipt /\ c.actor = a
        BY CountersignAssumption DEF SignDecision, Receipt, Policies
      <3>2. CASE EvictLate(i)
        BY <2>3, <2>4, <3>2 DEF Settle
      <3>3. CASE Norm[a] \in ApproverSet(i) /\ Accept(i, c)
        <4>1. Sound(i, Norm[c.actor], c)
          BY <3>1, <3>3, SettledIsSound
        <4> QED BY <2>4, <3>1, <3>3, <4>1, AcceptKeepsInv2 DEF Settle
      <3> QED BY <2>4, <3>2, <3>3 DEF Settle
    <2>5. ASSUME NEW c \in Receipt, Record(c) PROVE Inv2'
      BY <2>3, <2>5, RecordedIsSound, AcceptKeepsInv2 DEF Record
    <2>6. ASSUME NEW i \in Intents, Cancel(i) PROVE Inv2'
      BY <2>6 DEF Cancel, RejectAll, ApprovalsSound, TombstonesVerify, ResolutionsVerify, Fulfilled,
         Inv1, TypeOK, Promise
    <2>7. CASE AbortAll
      BY <2>7 DEF AbortAll, RejectAll, EmptyMap, ApprovalsSound, TombstonesVerify, ResolutionsVerify,
         Fulfilled, Inv1, TypeOK, Promise
    <2>8. CASE Tick \/ StepClock \/ UNCHANGED vars
      BY <2>8 DEF Tick, StepClock, vars, ApprovalsSound, TombstonesVerify, ResolutionsVerify, Fulfilled
    <2> QED BY <2>1, <2>2, <2>4, <2>5, <2>6, <2>7, <2>8 DEF Next
  <1> QED BY <1>1, <1>2, Inv1Holds, PTL DEF Spec

(* What the pending-decision book-keeping resolves, verifyResolution       *)
(* accepts: in particular an approve has Quorum distinct listed approvers  *)
(* behind it, each under the key their mode requires.                      *)
THEOREM ResolutionsAlwaysVerify == Spec => []ResolutionsVerify
  BY Inv2Holds, PTL DEF Inv2

(* The tombstones stay as few as the intents still inside their windows:   *)
(* only finish() leaves one, and when it does it has swept every expired   *)
(* one and its own intent is not expired.                                  *)
THEOREM TombstonesAreSwept == Spec => TombstonesSwept
  <1> DEFINE Swept == \A i \in DOMAIN resolved' \ DOMAIN resolved :
                        \A j \in DOMAIN resolved' : now < Deadline[j]
  <1>1. ASSUME Inv1, NEW i \in Intents, ~Expired(i), NEW d, NEW rs, Finish(i, d, rs)
        PROVE  Swept
    <2>1. DOMAIN resolved' = {j \in DOMAIN resolved : ~Expired(j)} \cup {i}
      BY <1>1 DEF Finish, MapSet, MapDelete
    <2>2. \A j \in Intents : ~Expired(j) => now < Deadline[j]
      BY <1>1, CountersignAssumption DEF Expired, Inv1, TypeOK
    <2> QED  BY <1>1, <2>1, <2>2 DEF Inv1, TypeOK
  <1>2. ASSUME Inv1, NEW i \in Intents, ~Expired(i), NEW c, Accept(i, c)  PROVE Swept
    <2>1. CASE \E d, rs : Finish(i, d, rs)  BY <1>1, <1>2, <2>1
    <2>2. CASE UNCHANGED resolved  BY <2>2
    <2> QED  BY <1>2, <2>1, <2>2 DEF Accept
  <1>3. ASSUME DOMAIN resolved' \subseteq DOMAIN resolved  PROVE Swept
    BY <1>3
  <1>4. ASSUME Inv1, [Next]_vars  PROVE [Swept]_resolved
    <2>1. ASSUME NEW w \in Calls, NEW i \in Intents, Wait(w, i)  PROVE Swept
      BY <1>3, <2>1 DEF Wait, WaitReplay, WaitJoin, WaitRegister, MapDelete
    <2>2. ASSUME NEW i \in Intents, NEW d \in Decisions, NEW a \in Spellings, Settle(i, d, a)
          PROVE  Swept
      BY <1>2, <1>3, <1>4, <2>2 DEF Settle, EvictLate
    <2>3. ASSUME NEW c \in Receipt, Record(c)  PROVE Swept
      <3>1. c.intent \in Intents  BY DEF Receipt
      <3> QED  BY <1>2, <1>3, <1>4, <2>3, <3>1 DEF Record, EvictLate
    <2>4. CASE AbortAll  BY <1>3, <2>4 DEF AbortAll, EmptyMap
    <2>5. CASE \/ \E w \in Calls : Reap(w)
               \/ \E i \in Intents : Cancel(i)
               \/ Tick \/ StepClock \/ UNCHANGED vars
      BY <2>5 DEF Reap, Cancel, Tick, StepClock, vars
    <2> QED  BY <1>4, <2>1, <2>2, <2>3, <2>4, <2>5 DEF Next
  <1> QED  BY <1>4, Inv1Holds, PTL DEF Spec, TombstonesSwept

-----------------------------------------------------------------------------
(* Finality, when nobody steps the wall clock                              *)

\* An intent never has a live entry and a tombstone.
LiveUndecided == DOMAIN entries \cap DOMAIN resolved = {}

EpochsBounded == \A p \in DOMAIN promises : promises[p].epoch <= aborts

\* Until its deadline, a decision taken since the last abortAll has a tombstone.
TombstonesKept ==
  \A p \in DOMAIN promises :
    Fulfilled(p) /\ promises[p].epoch = aborts /\ ~Expired(promises[p].intent) =>
      /\ promises[p].intent \in DOMAIN resolved
      /\ resolved[promises[p].intent] = promises[p].value

Inv3 == LiveUndecided /\ EpochsBounded /\ TombstonesKept /\ Finality

(* A step that leaves promises, tombstones and entries alone, or only      *)
(* removes entries, keeps Inv3 as long as the clock does not go back.      *)
LEMMA QuietKeepsInv3 ==
  ASSUME Inv1, Inv3, UNCHANGED <<resolved, promises, aborts>>,
         DOMAIN entries' \subseteq DOMAIN entries,
         now' \in Nat, now <= now'
  PROVE  Inv3'
  <1> USE DEF Inv3, Inv1
  <1>1. \A i \in Intents : Expired(i) => Expired(i)'
    BY CountersignAssumption DEF Expired, TypeOK
  <1>2. LiveUndecided' /\ EpochsBounded' /\ Finality'
    BY DEF LiveUndecided, EpochsBounded, Finality, Fulfilled
  <1>3. TombstonesKept'
    BY <1>1 DEF TombstonesKept, Fulfilled, TypeOK, Promise
  <1> QED BY <1>2, <1>3

(* wait() keeps Inv3: a replayed promise repeats the tombstone, which is   *)
(* what every fulfilled promise of the intent carries.                     *)
LEMMA WaitKeepsInv3 ==
  ASSUME Inv1, Inv3, NEW w \in Calls, NEW i \in Intents, Wait(w, i)
  PROVE  Inv3'
  <1> USE DEF Inv3, Inv1, MapSet, MapDelete
  <1>1. w \notin DOMAIN promises /\ aborts' = aborts /\ now' = now /\ aborts \in Nat
    BY DEF Wait, PromisesReturned, TypeOK
  <1>2. CASE WaitReplay(w, i)
    <2>1. LiveUndecided'
      BY <1>2 DEF WaitReplay, LiveUndecided
    <2>2. EpochsBounded'
      BY <1>1, <1>2 DEF WaitReplay, EpochsBounded, NewPromise
    <2>3. TombstonesKept'
      BY <1>1, <1>2 DEF WaitReplay, TombstonesKept, NewPromise, Fulfilled, Expired
    <2>4. Finality'
      BY <1>1, <1>2 DEF WaitReplay, TombstonesKept, Finality, NewPromise, Fulfilled
    <2> QED BY <2>1, <2>2, <2>3, <2>4
  <1>3. CASE WaitJoin(w, i)
    BY <1>1, <1>3 DEF WaitJoin, LiveUndecided, EpochsBounded, TombstonesKept, Finality, Fulfilled, Expired
  <1>4. CASE WaitRegister(w, i)
    <2>1. LiveUndecided'
      BY <1>4 DEF WaitRegister, LiveUndecided
    <2>2. EpochsBounded'
      BY <1>1, <1>4 DEF WaitRegister, EpochsBounded, NewPromise
    <2>3. TombstonesKept'
      BY <1>1, <1>4 DEF WaitRegister, TombstonesKept, NewPromise, Fulfilled, Expired
    <2>4. Finality'
      BY <1>1, <1>4 DEF WaitRegister, Finality, NewPromise, Fulfilled
    <2> QED BY <2>1, <2>2, <2>3, <2>4
  <1> QED BY <1>2, <1>3, <1>4 DEF Wait

(* finish keeps Inv3: it runs before the deadline on an intent without a   *)
(* tombstone, so no promise of the intent was fulfilled before it.         *)
LEMMA FinishKeepsInv3 ==
  ASSUME Inv1, Inv3, NEW i \in DOMAIN entries, ~Expired(i),
         NEW d, NEW rs, Finish(i, d, rs), UNCHANGED <<now, aborts>>
  PROVE  Inv3'
  <1> USE DEF Inv3, Inv1, MapSet, MapDelete
  <1> DEFINE p0 == entries[i].promise
             r  == [decision |-> d, policy |-> "approver", receipts |-> rs, stamp |-> now]
  <1>1. /\ entries'  = MapDelete(entries, {i})
        /\ promises' = Fulfil(p0, r)
        /\ resolved' = MapSet(MapDelete(resolved, {j \in DOMAIN resolved : Expired(j)}), i, r)
    BY DEF Finish
  <1>2. p0 \in DOMAIN promises /\ promises[p0].intent = i /\ promises[p0].epoch = aborts
    BY DEF EntryPromises
  <1>3. \A q \in DOMAIN promises :
          promises[q].intent = i /\ promises[q].epoch = aborts => ~Fulfilled(q)
    BY DEF TombstonesKept, LiveUndecided
  <1>4. DOMAIN promises' = DOMAIN promises
    BY <1>1 DEF Fulfil
  <1>5. \A q \in DOMAIN promises \ {p0} : promises'[q] = promises[q]
    BY <1>1 DEF Fulfil
  <1>6. /\ promises'[p0].intent = i /\ promises'[p0].epoch = aborts
        /\ promises'[p0].value = r /\ promises'[p0].state = "fulfilled"
    <2>1. promises[p0] \in Promise
      BY <1>2 DEF TypeOK
    <2> HIDE DEF r
    <2> QED BY <1>1, <1>2, <2>1 DEF Fulfil, Promise
  <1> HIDE DEF p0, r
  <1>7. LiveUndecided'
    BY <1>1 DEF LiveUndecided
  <1>8. EpochsBounded'
    BY <1>2, <1>4, <1>5, <1>6 DEF EpochsBounded
  <1>9. TombstonesKept'
    BY <1>1, <1>3, <1>4, <1>5, <1>6 DEF TombstonesKept, Fulfilled, Expired
  <1>10. Finality'
    <2> SUFFICES ASSUME NEW p \in DOMAIN promises', NEW q \in DOMAIN promises',
                        Fulfilled(p)', Fulfilled(q)',
                        promises'[p].intent = promises'[q].intent,
                        promises'[p].epoch = promises'[q].epoch
                 PROVE  promises'[p].value = promises'[q].value
      BY DEF Finality
    <2>1. CASE p = p0 \/ q = p0
      BY <2>1, <1>3, <1>4, <1>5, <1>6 DEF Fulfilled
    <2>2. CASE p # p0 /\ q # p0
      BY <2>2, <1>4, <1>5 DEF Finality, Fulfilled
    <2> QED BY <2>1, <2>2
  <1> QED BY <1>7, <1>8, <1>9, <1>10

(* So does every outcome of an accepted receipt.                           *)
LEMMA AcceptKeepsInv3 ==
  ASSUME Inv1, Inv3, NEW i \in DOMAIN entries, ~Expired(i), NEW c, Accept(i, c),
         UNCHANGED <<now, aborts>>
  PROVE  Inv3'
  <1>1. CASE \E d, rs : Finish(i, d, rs)
    BY <1>1, FinishKeepsInv3
  <1>2. CASE /\ entries' = [entries EXCEPT ![i].approvals = MapSet(entries[i].approvals, Norm[c.actor], c)]
             /\ UNCHANGED <<resolved, timers, promises>>
    <2>1. DOMAIN entries' = DOMAIN entries /\ now' \in Nat /\ now <= now'
      BY <1>2 DEF Inv1, TypeOK
    <2> QED BY <1>2, <2>1, QuietKeepsInv3
  <1> QED BY <1>1, <1>2 DEF Accept

(* A step that rejects promises keeps Inv3, if it drops the tombstones     *)
(* only when it also opens a new epoch.                                    *)
LEMMA RejectKeepsInv3 ==
  ASSUME Inv1, Inv3, NEW ps, promises' = RejectAll(ps), now' = now,
         DOMAIN entries' \subseteq DOMAIN entries,
         \/ aborts' = aborts /\ resolved' = resolved
         \/ aborts' = aborts + 1 /\ DOMAIN resolved' = {}
  PROVE  Inv3'
  <1> USE DEF Inv3, Inv1
  <1>1. DOMAIN promises' = DOMAIN promises
    BY DEF RejectAll
  <1>2. \A p \in DOMAIN promises :
          /\ promises'[p].intent = promises[p].intent
          /\ promises'[p].epoch = promises[p].epoch
          /\ promises'[p].value = promises[p].value
          /\ Fulfilled(p)' => Fulfilled(p)
    BY DEF RejectAll, Fulfilled, TypeOK, Promise
  <1>3. \A p \in DOMAIN promises : promises[p].epoch \in Nat /\ aborts \in Nat
    BY DEF TypeOK, Promise
  <1>4. LiveUndecided' /\ EpochsBounded'
    BY <1>1, <1>2, <1>3 DEF LiveUndecided, EpochsBounded
  <1>5. TombstonesKept'
    BY <1>1, <1>2, <1>3 DEF TombstonesKept, EpochsBounded, Expired
  <1>6. Finality'
    BY <1>1, <1>2 DEF Finality
  <1> QED BY <1>4, <1>5, <1>6

(* With a wall clock nobody steps back, Inv3 holds in every reachable state. *)
LEMMA Inv3Holds == ASSUME "back" \notin ClockSteps PROVE Spec => []Inv3
  <1>1. Init => Inv3
    BY DEF Init, Inv3, LiveUndecided, EpochsBounded, TombstonesKept, Finality, EmptyMap
  <1>2. Inv1 /\ Inv3 /\ [Next]_vars => Inv3'
    <2> SUFFICES ASSUME Inv1, Inv3, [Next]_vars PROVE Inv3'
      OBVIOUS
    <2>0. now \in Nat /\ now <= now
      BY DEF Inv1, TypeOK
    <2>1. ASSUME NEW w \in Calls, NEW i \in Intents, Wait(w, i) PROVE Inv3'
      BY <2>1, WaitKeepsInv3
    <2>2. ASSUME NEW w \in Calls, Reap(w) PROVE Inv3'
      BY <2>0, <2>2, QuietKeepsInv3 DEF Reap, MapDelete
    <2>3. ASSUME NEW i \in Intents, EvictLate(i), UNCHANGED <<now, aborts>> PROVE Inv3'
      BY <2>0, <2>3, QuietKeepsInv3 DEF EvictLate, MapDelete
    <2>4. ASSUME NEW i \in Intents, NEW d \in Decisions, NEW a \in Spellings, Settle(i, d, a)
          PROVE Inv3'
      BY <2>3, <2>4, AcceptKeepsInv3 DEF Settle
    <2>5. ASSUME NEW c \in Receipt, Record(c) PROVE Inv3'
      <3>1. c.intent \in Intents
        BY DEF Receipt
      <3> QED BY <2>3, <2>5, <3>1, AcceptKeepsInv3 DEF Record
    <2>6. ASSUME NEW i \in Intents, Cancel(i) PROVE Inv3'
      BY <2>6, RejectKeepsInv3 DEF Cancel, MapDelete
    <2>7. CASE AbortAll
      <3>1. DOMAIN entries' = {} /\ DOMAIN resolved' = {}
        BY <2>7 DEF AbortAll, EmptyMap
      <3> QED BY <2>7, <3>1, RejectKeepsInv3 DEF AbortAll
    <2>8. CASE Tick
      BY <2>0, <2>8, QuietKeepsInv3 DEF Tick
    <2>9. CASE StepClock
      <3>1. now' \in Nat /\ now <= now'
        BY <2>0, <2>9, PendingAssumption DEF StepClock
      <3> QED BY <2>9, <3>1, QuietKeepsInv3 DEF StepClock
    <2>10. CASE UNCHANGED vars
      BY <2>0, <2>10, QuietKeepsInv3 DEF vars
    <2> QED BY <2>1, <2>2, <2>4, <2>5, <2>6, <2>7, <2>8, <2>9, <2>10 DEF Next
  <1> QED BY <1>1, <1>2, Inv1Holds, PTL DEF Spec

(* Finality: between two abortAll calls every fulfilled promise of an      *)
(* intent carries the same resolution, provided the wall clock is not      *)
(* stepped back.  (Else it does not hold: run finality_clock_step.)        *)
THEOREM DecisionsAreFinal == ASSUME "back" \notin ClockSteps PROVE Spec => []Finality
  BY Inv3Holds, PTL DEF Inv3

-----------------------------------------------------------------------------
(* PendingDecisions implements QuorumGate                                  *)

\* Every tombstone repeats a resolution some promise was fulfilled with.
TombstonesBacked ==
  \A i \in DOMAIN resolved :
    \E p \in DOMAIN promises :
      /\ Fulfilled(p) /\ promises[p].intent = i /\ promises[p].epoch = aborts
      /\ promises[p].value = resolved[i]

\* p was fulfilled for i since the last abortAll.
DecidedBy(p, i) ==
  p \in DOMAIN promises /\ Fulfilled(p) /\ promises[p].intent = i /\ promises[p].epoch = aborts

LEMMA VerdictOf ==
  ASSUME NEW i \in Intents
  PROVE  /\ \A p : DecidedBy(p, i) => promises[p].value.decision \in GateVerdict[i]
         /\ \A d \in GateVerdict[i] : \E p : DecidedBy(p, i) /\ promises[p].value.decision = d
  BY DEF GateVerdict, DecidedBy

(* The verdicts after a step, from the promises after it.                  *)
LEMMA VerdictOfPrimed ==
  ASSUME NEW i \in Intents
  PROVE  /\ \A p : DecidedBy(p, i)' => promises'[p].value.decision \in GateVerdict'[i]
         /\ \A d \in GateVerdict'[i] : \E p : DecidedBy(p, i)' /\ promises'[p].value.decision = d
  BY DEF GateVerdict, DecidedBy

(* Before its deadline a live entry's intent is undecided.                 *)
LEMMA LiveIsOpen ==
  ASSUME Inv1, Inv3, NEW i \in DOMAIN entries, ~Expired(i)
  PROVE  Gate!Open(i)
  <1>1. i \in Intents /\ now \in Nat /\ Deadline[i] \in Nat
    BY CountersignAssumption DEF Inv1, TypeOK
  <1>2. \A p : ~DecidedBy(p, i)
    BY DEF DecidedBy, Inv3, TombstonesKept, LiveUndecided
  <1>3. GateVerdict[i] = {}
    BY <1>1, <1>2, VerdictOf
  <1> QED BY <1>1, <1>3 DEF Gate!Open, Expired

(* A step that fulfils nothing and stays in its epoch leaves the verdicts  *)
(* alone.                                                                  *)
LEMMA NothingFulfilled ==
  ASSUME aborts' = aborts, DOMAIN promises \subseteq DOMAIN promises',
         \A p \in DOMAIN promises :
           /\ promises'[p].intent = promises[p].intent
           /\ promises'[p].epoch = promises[p].epoch
           /\ promises'[p].value = promises[p].value
           /\ Fulfilled(p)' <=> Fulfilled(p),
         \A p \in DOMAIN promises' \ DOMAIN promises : ~Fulfilled(p)'
  PROVE  GateVerdict' = GateVerdict
  <1>1. \A p, i : DecidedBy(p, i)' <=> DecidedBy(p, i)
    BY DEF DecidedBy
  <1>2. \A p, i : DecidedBy(p, i) => promises'[p].value.decision = promises[p].value.decision
    BY DEF DecidedBy
  <1>3. \A i \in Intents : GateVerdict'[i] = GateVerdict[i]
    <2> SUFFICES ASSUME NEW i \in Intents PROVE GateVerdict'[i] = GateVerdict[i]
      OBVIOUS
    <2>1. ASSUME NEW d \in GateVerdict[i] PROVE d \in GateVerdict'[i]
      BY <1>1, <1>2, VerdictOf, VerdictOfPrimed
    <2>2. ASSUME NEW d \in GateVerdict'[i] PROVE d \in GateVerdict[i]
      BY <1>1, <1>2, VerdictOf, VerdictOfPrimed
    <2> QED BY <2>1, <2>2
  <1> QED BY <1>3 DEF GateVerdict

(* Removing entry i, or nothing, withdraws the request or stutters.        *)
LEMMA RemovalWithdraws ==
  ASSUME Inv1, NEW i \in Intents, entries' = MapDelete(entries, {i}), now' = now,
         GateVerdict' = GateVerdict
  PROVE  Gate!Withdraw(i)
  <1>1. GateVotes' = [GateVotes EXCEPT ![i] = {}]
    BY DEF GateVotes, MapDelete
  <1> QED BY <1>1 DEF Gate!Withdraw

(* finish gives an open gate its verdict and clears the votes.             *)
LEMMA FinishDecides ==
  ASSUME Inv1, Inv3, NEW i \in DOMAIN entries, ~Expired(i),
         NEW d \in Decisions, NEW rs, Finish(i, d, rs), UNCHANGED <<now, aborts>>
  PROVE  /\ GateVerdict' = [GateVerdict EXCEPT ![i] = {d}]
         /\ GateVotes' = [GateVotes EXCEPT ![i] = {}]
  <1> DEFINE p0 == entries[i].promise
             r  == [decision |-> d, policy |-> "approver", receipts |-> rs, stamp |-> now]
  <1>0. i \in Intents
    BY DEF Inv1, TypeOK
  <1>1. entries' = MapDelete(entries, {i}) /\ promises' = Fulfil(p0, r)
    BY DEF Finish
  <1>2. p0 \in DOMAIN promises /\ promises[p0].intent = i /\ promises[p0].epoch = aborts
    BY DEF Inv1, EntryPromises
  <1>3. \A p : ~DecidedBy(p, i)
    BY DEF DecidedBy, Inv3, TombstonesKept, LiveUndecided
  <1>4. DOMAIN promises' = DOMAIN promises /\ \A q \in DOMAIN promises \ {p0} : promises'[q] = promises[q]
    BY <1>1 DEF Fulfil
  <1>5. /\ promises'[p0].intent = i /\ promises'[p0].epoch = aborts
        /\ promises'[p0].value = r /\ promises'[p0].state = "fulfilled"
    <2>1. promises[p0] \in Promise
      BY <1>2 DEF Inv1, TypeOK
    <2> HIDE DEF r
    <2> QED BY <1>1, <1>2, <2>1 DEF Fulfil, Promise
  <1>6. r.decision = d
    OBVIOUS
  <1> HIDE DEF p0, r
  <1>7. \A p : DecidedBy(p, i)' <=> p = p0
    BY <1>2, <1>3, <1>4, <1>5 DEF DecidedBy, Fulfilled
  <1>8. GateVerdict'[i] = {d}
    BY <1>0, <1>5, <1>6, <1>7, VerdictOfPrimed
  <1>9. ASSUME NEW j \in Intents \ {i} PROVE GateVerdict'[j] = GateVerdict[j]
    <2>1. \A p : DecidedBy(p, j)' <=> DecidedBy(p, j)
      BY <1>2, <1>4, <1>5 DEF DecidedBy, Fulfilled
    <2>2. \A p : DecidedBy(p, j) => promises'[p] = promises[p]
      BY <1>2, <1>4 DEF DecidedBy
    <2>3. ASSUME NEW e \in GateVerdict[j] PROVE e \in GateVerdict'[j]
      BY <2>1, <2>2, VerdictOf, VerdictOfPrimed
    <2>4. ASSUME NEW e \in GateVerdict'[j] PROVE e \in GateVerdict[j]
      BY <2>1, <2>2, VerdictOf, VerdictOfPrimed
    <2> QED BY <2>3, <2>4
  <1>10. GateVerdict' = [GateVerdict EXCEPT ![i] = {d}]
    BY <1>8, <1>9 DEF GateVerdict
  <1>11. GateVotes' = [GateVotes EXCEPT ![i] = {}]
    BY <1>1 DEF GateVotes, MapDelete
  <1> QED BY <1>10, <1>11

\* The gate's module has a copy of FiniteSets of its own.
LEMMA GateCardinality == \A S : Gate!Cardinality(S) = Cardinality(S)
  BY DEF Gate!Cardinality, Cardinality, Gate!IsFiniteSet, IsFiniteSet

(* An accepted receipt is a vote or a veto of the gate.                    *)
LEMMA AcceptIsVote ==
  ASSUME Inv1, Inv2, Inv3, NEW i \in DOMAIN entries, ~Expired(i),
         NEW c \in Receipt, Norm[c.actor] \in Approvers(i),
         Accept(i, c), UNCHANGED <<now, aborts>>
  PROVE  Gate!Next
  <1> DEFINE a == Norm[c.actor]
             approvals == MapSet(entries[i].approvals, a, c)
  <1>1. i \in Intents /\ Gate!Open(i) /\ now' = now
    BY LiveIsOpen DEF Inv1, TypeOK
  <1>2. DOMAIN approvals = GateVotes[i] \cup {a}
    BY <1>1 DEF GateVotes, MapSet
  <1>3. CASE Finish(i, "reject", {c})
    <2>1. Gate!Veto(i)
      BY <1>1, <1>3, FinishDecides DEF Gate!Veto, Decisions
    <2> QED BY <1>1, <2>1 DEF Gate!Next
  <1>4. CASE Cardinality(DOMAIN approvals) >= Quorum[i] /\ Finish(i, "approve", MapValues(approvals))
    <2>1. Gate!Approve(i, a)
      <3>1. /\ GateVerdict' = [GateVerdict EXCEPT ![i] = {"approve"}]
            /\ GateVotes' = [GateVotes EXCEPT ![i] = {}]
        BY <1>4, FinishDecides DEF Decisions
      <3>2. Cardinality(GateVotes[i] \cup {a}) >= Quorum[i]
        BY <1>2, <1>4
      <3> HIDE DEF approvals, a
      <3> QED BY <1>1, <3>1, <3>2, GateCardinality DEF Gate!Approve
    <2> QED BY <1>1, <2>1 DEF Gate!Next
  <1>5. CASE /\ Cardinality(DOMAIN approvals) < Quorum[i]
             /\ entries' = [entries EXCEPT ![i].approvals = approvals]
             /\ UNCHANGED <<resolved, timers, promises>>
    <2>1. GateVerdict' = GateVerdict
      BY <1>5 DEF GateVerdict, Fulfilled
    <2>2. GateVotes' = [GateVotes EXCEPT ![i] = DOMAIN approvals]
      <3>1. IsEntry(entries[i])
        BY DEF Inv1, TypeOK
      <3> HIDE DEF approvals
      <3>2. DOMAIN entries' = DOMAIN entries /\ entries'[i].approvals = approvals
            /\ \A j \in DOMAIN entries \ {i} : entries'[j] = entries[j]
        BY <1>5, <3>1 DEF IsEntry
      <3> QED BY <3>2 DEF GateVotes
    <2>3. /\ Cardinality(GateVotes[i] \cup {a}) < Quorum[i]
          /\ GateVotes' = [GateVotes EXCEPT ![i] = GateVotes[i] \cup {a}]
      BY <1>2, <1>5, <2>2
    <2>4. Gate!Approve(i, a)
      <3> HIDE DEF approvals, a
      <3> QED BY <1>1, <2>1, <2>3, GateCardinality DEF Gate!Approve
    <2> QED BY <1>1, <2>4 DEF Gate!Next
  <1> QED BY <1>3, <1>4, <1>5 DEF Accept

(* A step that leaves tombstones and promises alone keeps them backed.     *)
LEMMA QuietKeepsBacked ==
  ASSUME TombstonesBacked, UNCHANGED <<resolved, promises, aborts>>
  PROVE  TombstonesBacked'
  BY DEF TombstonesBacked, Fulfilled

(* finish backs the tombstone it leaves with the promise it fulfils.       *)
LEMMA FinishKeepsBacked ==
  ASSUME Inv1, Inv3, TombstonesBacked, NEW i \in DOMAIN entries,
         NEW d, NEW rs, Finish(i, d, rs), UNCHANGED <<now, aborts>>
  PROVE  TombstonesBacked'
  <1> DEFINE p0 == entries[i].promise
             r  == [decision |-> d, policy |-> "approver", receipts |-> rs, stamp |-> now]
  <1>1. /\ promises' = Fulfil(p0, r)
        /\ resolved' = MapSet(MapDelete(resolved, {j \in DOMAIN resolved : Expired(j)}), i, r)
    BY DEF Finish
  <1>2. /\ p0 \in DOMAIN promises /\ promises[p0] \in Promise
        /\ promises[p0].intent = i /\ promises[p0].epoch = aborts /\ ~Fulfilled(p0)
    BY DEF Inv1, EntryPromises, TypeOK, Fulfilled
  <1> HIDE DEF p0, r
  <1>3. /\ DOMAIN promises' = DOMAIN promises
        /\ \A q \in DOMAIN promises \ {p0} : promises'[q] = promises[q]
        /\ promises'[p0].intent = i /\ promises'[p0].epoch = aborts
        /\ promises'[p0].value = r /\ promises'[p0].state = "fulfilled"
    BY <1>1, <1>2 DEF Fulfil, Promise
  <1>4. /\ resolved'[i] = r
        /\ \A j \in DOMAIN resolved' \ {i} : j \in DOMAIN resolved /\ resolved'[j] = resolved[j]
    BY <1>1 DEF MapSet, MapDelete
  <1> QED BY <1>2, <1>3, <1>4 DEF TombstonesBacked, Fulfilled

(* Every tombstone is backed, in every reachable state.                    *)
LEMMA BackedHolds == ASSUME "back" \notin ClockSteps PROVE Spec => []TombstonesBacked
  <1>1. Init => TombstonesBacked
    BY DEF Init, TombstonesBacked, EmptyMap
  <1>2. Inv1 /\ Inv3 /\ TombstonesBacked /\ [Next]_vars => TombstonesBacked'
    <2> SUFFICES ASSUME Inv1, Inv3, TombstonesBacked, [Next]_vars PROVE TombstonesBacked'
      OBVIOUS
    <2>1. ASSUME NEW w \in Calls, NEW i \in Intents, Wait(w, i) PROVE TombstonesBacked'
      <3>1. w \notin DOMAIN promises
        BY <2>1 DEF Wait, Inv1, PromisesReturned
      <3>2. /\ \A q \in DOMAIN promises : q \in DOMAIN promises' /\ promises'[q] = promises[q]
            /\ \A j \in DOMAIN resolved' : j \in DOMAIN resolved /\ resolved'[j] = resolved[j]
            /\ aborts' = aborts
        BY <2>1, <3>1 DEF Wait, WaitReplay, WaitJoin, WaitRegister, MapSet, MapDelete
      <3> QED BY <3>2 DEF TombstonesBacked, Fulfilled
    <2>2. ASSUME NEW i \in DOMAIN entries, NEW c, Accept(i, c), UNCHANGED <<now, aborts>>
          PROVE  TombstonesBacked'
      <3>1. CASE \E d, rs : Finish(i, d, rs)
        BY <2>2, <3>1, FinishKeepsBacked
      <3>2. CASE UNCHANGED <<resolved, promises>>
        BY <2>2, <3>2, QuietKeepsBacked
      <3> QED BY <2>2, <3>1, <3>2 DEF Accept
    <2>3. ASSUME NEW i \in Intents, NEW d \in Decisions, NEW a \in Spellings, Settle(i, d, a)
          PROVE TombstonesBacked'
      BY <2>2, <2>3, QuietKeepsBacked DEF Settle, EvictLate
    <2>4. ASSUME NEW c \in Receipt, Record(c) PROVE TombstonesBacked'
      BY <2>2, <2>4, QuietKeepsBacked DEF Record, EvictLate
    <2>5. ASSUME NEW i \in Intents, Cancel(i) PROVE TombstonesBacked'
      <3>1. /\ DOMAIN promises' = DOMAIN promises
            /\ \A p \in DOMAIN promises : Fulfilled(p) => promises'[p] = promises[p]
        BY <2>5 DEF Cancel, RejectAll, Fulfilled, Inv1, EntryPromises
      <3>2. resolved' = resolved /\ aborts' = aborts
        BY <2>5 DEF Cancel
      <3> QED BY <3>1, <3>2 DEF TombstonesBacked, Fulfilled
    <2>6. CASE AbortAll
      BY <2>6 DEF AbortAll, TombstonesBacked, EmptyMap
    <2>7. CASE \E w \in Calls : Reap(w)
      BY <2>7, QuietKeepsBacked DEF Reap
    <2>8. CASE Tick \/ StepClock \/ UNCHANGED vars
      BY <2>8, QuietKeepsBacked DEF Tick, StepClock, vars
    <2> QED BY <2>1, <2>3, <2>4, <2>5, <2>6, <2>7, <2>8 DEF Next
  <1> QED BY <1>1, <1>2, Inv1Holds, Inv3Holds, PTL DEF Spec

(* A wait() is a stuttering step of the gate.                              *)
LEMMA WaitStutters ==
  ASSUME Inv1, Inv3, TombstonesBacked, NEW w \in Calls, NEW i \in Intents, Wait(w, i)
  PROVE  UNCHANGED <<now, GateVotes, GateVerdict>>
  <1>1. w \notin DOMAIN promises /\ aborts' = aborts /\ now' = now
    BY DEF Wait, Inv1, PromisesReturned
  <1>2. CASE WaitReplay(w, i)
    <2>1. GateVotes' = GateVotes
      BY <1>2 DEF WaitReplay, GateVotes
    <2>2. /\ DOMAIN promises' = DOMAIN promises \cup {w}
          /\ \A p \in DOMAIN promises : promises'[p] = promises[p]
          /\ promises'[w].intent = i /\ promises'[w].value = resolved[i]
      BY <1>1, <1>2 DEF WaitReplay, MapSet, NewPromise
    <2>3. PICK q \in DOMAIN promises : DecidedBy(q, i) /\ promises[q].value = resolved[i]
      BY <1>2 DEF WaitReplay, TombstonesBacked, DecidedBy
    <2>4. ASSUME NEW j \in Intents PROVE GateVerdict'[j] = GateVerdict[j]
      <3>1. \A p : DecidedBy(p, j) => DecidedBy(p, j)' /\ promises'[p] = promises[p]
        BY <1>1, <2>2 DEF DecidedBy, Fulfilled
      <3>2. \A p : DecidedBy(p, j)' /\ p # w => DecidedBy(p, j) /\ promises'[p] = promises[p]
        BY <1>1, <2>2 DEF DecidedBy, Fulfilled
      <3>3. DecidedBy(w, j)' => j = i
        BY <2>2 DEF DecidedBy
      <3>4. ASSUME NEW d \in GateVerdict[j] PROVE d \in GateVerdict'[j]
        BY <3>1, VerdictOf, VerdictOfPrimed
      <3>5. ASSUME NEW d \in GateVerdict'[j] PROVE d \in GateVerdict[j]
        <4>1. PICK p : DecidedBy(p, j)' /\ promises'[p].value.decision = d
          BY VerdictOfPrimed
        <4>2. CASE p # w
          BY <3>2, <4>1, <4>2, VerdictOf
        <4>3. CASE p = w
          BY <2>2, <2>3, <3>3, <4>1, <4>3, VerdictOf
        <4> QED BY <4>2, <4>3
      <3> QED BY <3>4, <3>5
    <2> QED BY <1>1, <2>1, <2>4 DEF GateVerdict
  <1>3. CASE WaitJoin(w, i)
    BY <1>1, <1>3 DEF WaitJoin, GateVotes, GateVerdict, Fulfilled
  <1>4. CASE WaitRegister(w, i)
    <2>1. GateVotes' = GateVotes
      BY <1>4 DEF WaitRegister, GateVotes, MapSet, EmptyMap
    <2>2. GateVerdict' = GateVerdict
      BY <1>1, <1>4, NothingFulfilled DEF WaitRegister, MapSet, NewPromise, Fulfilled
    <2> QED BY <1>1, <2>1, <2>2
  <1> QED BY <1>2, <1>3, <1>4 DEF Wait

(* Every step of PendingDecisions is a step of the gate, or a stutter.     *)
LEMMA StepsRefine ==
  ASSUME "back" \notin ClockSteps, Inv1, Inv2, Inv3, TombstonesBacked, [Next]_vars
  PROVE  [Gate!Next]_<<now, GateVotes, GateVerdict>>
  <1>1. ASSUME NEW w \in Calls, NEW i \in Intents, Wait(w, i)
        PROVE  [Gate!Next]_<<now, GateVotes, GateVerdict>>
    BY <1>1, WaitStutters
  <1>2. ASSUME NEW w \in Calls, Reap(w)
        PROVE  [Gate!Next]_<<now, GateVotes, GateVerdict>>
    <2>1. GateVerdict' = GateVerdict /\ now' = now
      BY <1>2 DEF Reap, GateVerdict, Fulfilled
    <2>2. CASE entries' = entries
      BY <2>1, <2>2 DEF GateVotes
    <2>3. ASSUME NEW i \in DOMAIN entries, entries' = MapDelete(entries, {i})
          PROVE Gate!Next
      <3>1. i \in Intents
        BY DEF Inv1, TypeOK
      <3>2. Gate!Withdraw(i)
        BY <2>1, <2>3, <3>1, RemovalWithdraws
      <3> QED BY <3>1, <3>2 DEF Gate!Next
    <2> QED BY <1>2, <2>2, <2>3 DEF Reap
  <1>3. ASSUME NEW i \in DOMAIN entries, EvictLate(i), UNCHANGED <<now, aborts>>
        PROVE  Gate!Next
    <2>1. i \in Intents /\ GateVerdict' = GateVerdict
      BY <1>3 DEF Inv1, TypeOK, EvictLate, GateVerdict, Fulfilled
    <2>2. Gate!Withdraw(i)
      BY <1>3, <2>1, RemovalWithdraws DEF EvictLate
    <2> QED BY <2>1, <2>2 DEF Gate!Next
  <1>4. ASSUME NEW i \in Intents, NEW d \in Decisions, NEW a \in Spellings, Settle(i, d, a)
        PROVE  Gate!Next
    <2> DEFINE c == SignDecision(i, d, a, Authority, "approver")
    <2>1. c \in Receipt /\ c.actor = a
      BY CountersignAssumption DEF SignDecision, Receipt, Policies
    <2>2. CASE EvictLate(i)
      BY <1>3, <1>4, <2>2 DEF Settle
    <2>3. CASE ~Expired(i) /\ Norm[a] \in ApproverSet(i) /\ Accept(i, c)
      BY <1>4, <2>1, <2>3, AcceptIsVote DEF Settle, ApproverSet, Approvers
    <2> QED BY <1>4, <2>2, <2>3 DEF Settle
  <1>5. ASSUME NEW c \in Receipt, Record(c)
        PROVE  Gate!Next
    <2>1. CASE EvictLate(c.intent)
      BY <1>3, <1>5, <2>1 DEF Record
    <2>2. CASE ~Expired(c.intent) /\ Norm[c.actor] \in KeyedApprovers(c.intent) /\ Accept(c.intent, c)
      BY <1>5, <2>2, AcceptIsVote DEF Record, KeyedApprovers, Approvers
    <2> QED BY <1>5, <2>1, <2>2 DEF Record
  <1>6. ASSUME NEW i \in Intents, Cancel(i)
        PROVE  Gate!Next
    <2>1. GateVerdict' = GateVerdict
      <3>1. /\ DOMAIN promises' = DOMAIN promises
            /\ \A p \in DOMAIN promises :
                 /\ promises'[p].intent = promises[p].intent
                 /\ promises'[p].epoch = promises[p].epoch
                 /\ promises'[p].value = promises[p].value
                 /\ Fulfilled(p)' <=> Fulfilled(p)
        BY <1>6 DEF Cancel, RejectAll, Fulfilled, Inv1, EntryPromises, TypeOK, Promise
      <3> QED BY <1>6, <3>1, NothingFulfilled DEF Cancel
    <2>2. Gate!Withdraw(i)
      BY <1>6, <2>1, RemovalWithdraws DEF Cancel
    <2> QED BY <2>2 DEF Gate!Next
  <1>7. CASE AbortAll
    <2>1. GateVotes' = [i \in Intents |-> {}]
      BY <1>7 DEF AbortAll, GateVotes, EmptyMap
    <2>2. \A p, i : ~DecidedBy(p, i)'
      BY <1>7 DEF AbortAll, RejectAll, DecidedBy, Inv1, Inv3, EpochsBounded, TypeOK, Promise
    <2>3. GateVerdict' = [i \in Intents |-> {}]
      <3>1. \A i \in Intents : GateVerdict'[i] = {}
        BY <2>2, VerdictOfPrimed
      <3> QED BY <3>1 DEF GateVerdict
    <2>4. Gate!Reset
      BY <1>7, <2>1, <2>3 DEF AbortAll, Gate!Reset
    <2> QED BY <2>4 DEF Gate!Next
  <1>8. CASE Tick
    <2>1. Gate!Tick
      BY <1>8 DEF Tick, Gate!Tick, GateVotes, GateVerdict, Fulfilled, Inv1, TypeOK
    <2> QED BY <2>1 DEF Gate!Next
  <1>9. CASE StepClock
    <2>1. now \in Nat /\ now' \in Nat /\ now' > now
      BY <1>9, PendingAssumption DEF StepClock, Inv1, TypeOK
    <2>2. Gate!Tick
      BY <1>9, <2>1 DEF StepClock, Gate!Tick, GateVotes, GateVerdict, Fulfilled
    <2> QED BY <2>2 DEF Gate!Next
  <1>10. CASE UNCHANGED vars
    BY <1>10 DEF vars, GateVotes, GateVerdict, Fulfilled
  <1> QED BY <1>1, <1>2, <1>4, <1>5, <1>6, <1>7, <1>8, <1>9, <1>10 DEF Next

(* Unless the wall clock is stepped back, the pending-decision book-keeping *)
(* implements the abstract M-of-N gate with a veto.                        *)
THEOREM ImplementsGate == ASSUME "back" \notin ClockSteps PROVE Spec => GateSpec
  <1>1. Init => Gate!Init
    BY DEF Init, Gate!Init, GateVotes, GateVerdict, EmptyMap
  <1>2. Inv1 /\ Inv2 /\ Inv3 /\ TombstonesBacked /\ [Next]_vars => [Gate!Next]_Gate!vars
    BY StepsRefine DEF Gate!vars
  <1> QED BY <1>1, <1>2, Inv1Holds, Inv2Holds, Inv3Holds, BackedHolds, PTL DEF Spec, GateSpec, Gate!Spec

-----------------------------------------------------------------------------
(* The window                                                              *)

TombstonesInWindow == \A i \in DOMAIN resolved : resolved[i].stamp < Deadline[i]

Window == DecidedInWindow /\ TombstonesInWindow

(* A decision taken before the deadline stays in the window.               *)
LEMMA FinishInWindow ==
  ASSUME Inv1, Window, NEW i \in DOMAIN entries, ~Expired(i), NEW d, NEW rs, Finish(i, d, rs)
  PROVE  Window'
  <1> USE DEF Inv1, Window
  <1>1. now < Deadline[i]
    BY CountersignAssumption DEF Expired, TypeOK
  <1>2. TombstonesInWindow'
    BY <1>1 DEF TombstonesInWindow, Finish, MapSet, MapDelete
  <1>3. DecidedInWindow'
    <2>1. entries[i].promise \in DOMAIN promises /\ promises[entries[i].promise].intent = i
      BY DEF EntryPromises
    <2> QED BY <1>1, <2>1 DEF DecidedInWindow, Finish, Fulfil, Fulfilled, TypeOK, Promise
  <1> QED BY <1>2, <1>3

(* Steps that fulfil no promise and leave no tombstone keep the window.    *)
LEMMA QuietKeepsWindow ==
  ASSUME Window,
         DOMAIN resolved' \subseteq DOMAIN resolved,
         \A i \in DOMAIN resolved' : resolved'[i] = resolved[i],
         DOMAIN promises' = DOMAIN promises,
         \A p \in DOMAIN promises :
           promises'[p] = promises[p] \/ promises'[p].state # "fulfilled"
  PROVE  Window'
  BY DEF Window, DecidedInWindow, TombstonesInWindow, Fulfilled

(* Nor does wait() leave it: it replays tombstones.                        *)
LEMMA WaitKeepsWindow ==
  ASSUME Inv1, Window, NEW w \in Calls, NEW i \in Intents, Wait(w, i)
  PROVE  Window'
  <1>1. w \notin DOMAIN promises
    BY DEF Wait, Inv1, PromisesReturned
  <1>2. TombstonesInWindow'
    BY DEF Wait, WaitReplay, WaitJoin, WaitRegister, Window, TombstonesInWindow, MapDelete
  <1>3. DecidedInWindow'
    BY <1>1 DEF Wait, WaitReplay, WaitJoin, WaitRegister, Window, TombstonesInWindow,
       DecidedInWindow, Fulfilled, NewPromise, MapSet
  <1> QED BY <1>2, <1>3 DEF Window

(* The window is kept in every reachable state, whatever the clocks do.    *)
LEMMA WindowHolds == Spec => []Window
  <1>1. Init => Window
    BY DEF Init, Window, DecidedInWindow, TombstonesInWindow, EmptyMap
  <1>2. Inv1 /\ Window /\ [Next]_vars => Window'
    <2> SUFFICES ASSUME Inv1, Window, [Next]_vars PROVE Window'
      OBVIOUS
    <2>1. ASSUME NEW w \in Calls, NEW i \in Intents, Wait(w, i) PROVE Window'
      BY <2>1, WaitKeepsWindow
    <2>2. ASSUME NEW w \in Calls, Reap(w) PROVE Window'
      BY <2>2, QuietKeepsWindow DEF Reap
    <2>3. ASSUME NEW i, EvictLate(i) PROVE Window'
      BY <2>3, QuietKeepsWindow DEF EvictLate
    <2>4. ASSUME NEW i \in DOMAIN entries, NEW c, ~Expired(i), Accept(i, c) PROVE Window'
      <3>1. CASE \E d, rs : Finish(i, d, rs)
        BY <2>4, <3>1, FinishInWindow
      <3>2. CASE UNCHANGED <<resolved, promises>>
        BY <3>2, QuietKeepsWindow
      <3> QED BY <2>4, <3>1, <3>2 DEF Accept
    <2>5. ASSUME NEW i \in Intents, NEW d \in Decisions, NEW a \in Spellings, Settle(i, d, a)
          PROVE Window'
      BY <2>3, <2>4, <2>5 DEF Settle
    <2>6. ASSUME NEW c \in Receipt, Record(c) PROVE Window'
      BY <2>3, <2>4, <2>6 DEF Record
    <2>7. ASSUME NEW i \in Intents, Cancel(i) PROVE Window'
      <3>1. /\ DOMAIN promises' = DOMAIN promises
            /\ \A p \in DOMAIN promises :
                 promises'[p] = promises[p] \/ promises'[p].state # "fulfilled"
        BY <2>7 DEF Cancel, RejectAll, Inv1, TypeOK, Promise
      <3> QED BY <2>7, <3>1, QuietKeepsWindow DEF Cancel
    <2>8. CASE AbortAll
      <3>1. /\ DOMAIN promises' = DOMAIN promises
            /\ \A p \in DOMAIN promises :
                 promises'[p] = promises[p] \/ promises'[p].state # "fulfilled"
        BY <2>8 DEF AbortAll, RejectAll, Inv1, TypeOK, Promise
      <3>2. DOMAIN resolved' = {}
        BY <2>8 DEF AbortAll, EmptyMap
      <3> QED BY <3>1, <3>2, QuietKeepsWindow
    <2>9. CASE Tick \/ StepClock \/ UNCHANGED vars
      BY <2>9, QuietKeepsWindow DEF Tick, StepClock, vars
    <2> QED BY <2>1, <2>2, <2>5, <2>6, <2>7, <2>8, <2>9 DEF Next
  <1> QED BY <1>1, <1>2, Inv1Holds, PTL DEF Spec

(* No promise is ever fulfilled with a decision taken at or after the      *)
(* deadline, for any intents, callers and steps of the wall clock.         *)
THEOREM DecisionsInWindow == Spec => []DecidedInWindow
  BY WindowHolds, PTL DEF Window

-----------------------------------------------------------------------------
(* The reapers                                                             *)

(* Entries that leave the map with their timers leave the others theirs.   *)
LEMMA LeavingKeepsReapers ==
  ASSUME Inv1, ReapersMatchEntries,
         DOMAIN entries' \subseteq DOMAIN entries,
         \A i \in DOMAIN entries' : entries'[i].promise = entries[i].promise,
         timers' = MapDelete(timers, {entries[i].promise : i \in DOMAIN entries \ DOMAIN entries'})
  PROVE  ReapersMatchEntries'
  <1>1. \A i, j \in DOMAIN entries : entries[i].promise = entries[j].promise => i = j
    BY DEF Inv1, EntryPromises
  <1> QED BY <1>1 DEF ReapersMatchEntries, MapDelete

LEMMA StepReapers ==
  ASSUME Inv1, ReapersMatchEntries, [Next]_vars
  PROVE  ReapersMatchEntries'
  <1>0. \A i \in DOMAIN entries : promises[entries[i].promise].intent = i
    BY DEF Inv1, EntryPromises
  <1>1. ASSUME NEW w \in Calls, NEW i \in Intents, Wait(w, i) PROVE ReapersMatchEntries'
    <2>1. CASE WaitReplay(w, i) \/ WaitJoin(w, i)
      BY <2>1 DEF WaitReplay, WaitJoin, ReapersMatchEntries
    <2>2. CASE WaitRegister(w, i)
      BY <2>2 DEF WaitRegister, ReapersMatchEntries, MapSet
    <2> QED BY <1>1, <2>1, <2>2 DEF Wait
  <1>2. ASSUME NEW i \in DOMAIN entries, entries' = MapDelete(entries, {i}),
               timers' = MapDelete(timers, {entries[i].promise})
        PROVE  ReapersMatchEntries'
    <2>1. {entries[j].promise : j \in DOMAIN entries \ DOMAIN entries'} = {entries[i].promise}
      BY <1>2 DEF MapDelete
    <2> QED BY <1>2, <2>1, LeavingKeepsReapers DEF MapDelete
  <1>3. ASSUME NEW w \in Calls, Reap(w) PROVE ReapersMatchEntries'
    <2>1. PICK i \in DOMAIN entries : entries[i].promise = w
      BY <1>3 DEF Reap, ReapersMatchEntries
    <2>2. entries' = MapDelete(entries, {i}) /\ timers' = MapDelete(timers, {w})
      BY <1>0, <1>3, <2>1 DEF Reap
    <2> QED BY <1>2, <2>1, <2>2
  <1>4. ASSUME NEW i \in DOMAIN entries, NEW c, Accept(i, c) PROVE ReapersMatchEntries'
    <2>1. ASSUME NEW d, NEW rs, Finish(i, d, rs) PROVE ReapersMatchEntries'
      BY <1>2, <2>1 DEF Finish
    <2>2. CASE /\ entries' = [entries EXCEPT ![i].approvals =
                                MapSet(entries[i].approvals, Norm[c.actor], c)]
               /\ UNCHANGED timers
      <3>1. /\ DOMAIN entries' = DOMAIN entries
            /\ \A j \in DOMAIN entries : entries'[j].promise = entries[j].promise
        BY <2>2 DEF Inv1, TypeOK, IsEntry
      <3> QED BY <2>2, <3>1 DEF ReapersMatchEntries
    <2> QED BY <1>4, <2>1, <2>2 DEF Accept
  <1>5. ASSUME NEW i \in DOMAIN entries, EvictLate(i) PROVE ReapersMatchEntries'
    BY <1>2, <1>5 DEF EvictLate
  <1>6. ASSUME NEW i \in Intents, NEW d \in Decisions, NEW a \in Spellings, Settle(i, d, a)
        PROVE  ReapersMatchEntries'
    BY <1>4, <1>5, <1>6 DEF Settle
  <1>7. ASSUME NEW c \in Receipt, Record(c) PROVE ReapersMatchEntries'
    BY <1>4, <1>5, <1>7 DEF Record
  <1>8. ASSUME NEW i \in Intents, Cancel(i) PROVE ReapersMatchEntries'
    BY <1>2, <1>8 DEF Cancel
  <1>9. CASE AbortAll
    <2>1. DOMAIN entries' = {}
      BY <1>9 DEF AbortAll, EmptyMap
    <2>2. timers' = MapDelete(timers, {entries[i].promise : i \in DOMAIN entries})
      BY <1>9 DEF AbortAll
    <2> QED BY <2>1, <2>2 DEF ReapersMatchEntries, MapDelete
  <1>10. CASE Tick \/ StepClock \/ UNCHANGED vars
    BY <1>10 DEF Tick, StepClock, vars, ReapersMatchEntries
  <1> QED BY <1>1, <1>3, <1>6, <1>7, <1>8, <1>9, <1>10 DEF Next

(* However an entry leaves the map, its timer goes with it, and while it   *)
(* is live it has one: for any windows and steps of the wall clock.        *)
THEOREM ReapersMatch == Spec => []ReapersMatchEntries
  <1>1. Init => ReapersMatchEntries
    BY DEF Init, ReapersMatchEntries, EmptyMap
  <1>2. Inv1 /\ ReapersMatchEntries /\ [Next]_vars => ReapersMatchEntries'
    BY StepReapers
  <1> QED BY <1>1, <1>2, Inv1Holds, PTL DEF Spec

\* A reaper setTimeout does not clamp is not due before the deadline.
ReapersNotEarly ==
  \A w \in DOMAIN timers :
    \/ timers[w] + now >= Deadline[promises[w].intent] + mono
    \/ Deadline[promises[w].intent] > MaxTimer

Waiters == ReapersNotEarly /\ WaitersServed

(* Entries that leave the map with their timers, when their promise is     *)
(* settled, the deadline has passed, or the timer was clamped, strand      *)
(* nobody.                                                                 *)
LEMMA LeavingKeepsWaiters ==
  ASSUME Inv1, Waiters, UNCHANGED <<now, mono>>,
         DOMAIN entries' \subseteq DOMAIN entries,
         \A i \in DOMAIN entries' : entries'[i].promise = entries[i].promise,
         timers' = MapDelete(timers, {entries[i].promise : i \in DOMAIN entries \ DOMAIN entries'}),
         DOMAIN promises' = DOMAIN promises,
         \A p \in DOMAIN promises :
           /\ promises'[p].intent = promises[p].intent
           /\ promises'[p].state = "pending" => promises[p].state = "pending",
         \A i \in DOMAIN entries \ DOMAIN entries' :
           \/ Expired(i) \/ Deadline[i] > MaxTimer
           \/ promises'[entries[i].promise].state # "pending"
  PROVE  Waiters'
  <1> USE DEF Waiters, Inv1
  <1>1. ReapersNotEarly'
    BY DEF ReapersNotEarly, MapDelete, TypeOK
  <1>2. WaitersServed'
    BY DEF WaitersServed, Expired
  <1> QED BY <1>1, <1>2

(* A fresh entry comes with its reaper, no earlier than the deadline       *)
(* unless its window is longer than setTimeout's ceiling.                  *)
LEMMA WaitKeepsWaiters ==
  ASSUME Inv1, Waiters, NEW w \in Calls, NEW i \in Intents, Wait(w, i)
  PROVE  Waiters'
  <1> USE DEF Waiters, Inv1, MapSet
  <1>1. w \notin DOMAIN promises /\ w \notin DOMAIN timers
    BY DEF Wait, PromisesReturned, TypeOK
  <1>2. now' = now /\ mono' = mono
    BY DEF Wait
  <1>3. CASE WaitReplay(w, i) \/ WaitJoin(w, i)
    <2>1. /\ entries' = entries /\ timers' = timers
          /\ \A p \in DOMAIN promises : p \in DOMAIN promises' /\ promises'[p] = promises[p]
          /\ \A p \in DOMAIN promises' \ DOMAIN promises : promises'[p].state = "fulfilled"
      BY <1>1, <1>3 DEF WaitReplay, WaitJoin, NewPromise
    <2> QED BY <1>2, <2>1
            DEF ReapersNotEarly, WaitersServed, Expired, TypeOK
  <1>4. CASE WaitRegister(w, i)
    <2>1. timers'[w] + now >= Deadline[i] + mono \/ Deadline[i] > MaxTimer
      <3>1. /\ now \in Nat /\ mono \in Nat /\ Deadline[i] \in Nat /\ MaxTimer \in Nat
            /\ timers'[w] = ReaperDue(i)
        BY <1>4, CountersignAssumption, PendingAssumption DEF WaitRegister, TypeOK
      <3> QED BY <3>1 DEF ReaperDue
    <2>2. ReapersNotEarly'
      BY <1>1, <1>2, <1>4, <2>1 DEF WaitRegister, ReapersNotEarly, NewPromise, TypeOK
    <2>3. WaitersServed'
      BY <1>1, <1>2, <1>4 DEF WaitRegister, WaitersServed, NewPromise, Expired
    <2> QED BY <2>2, <2>3
  <1> QED BY <1>3, <1>4 DEF Wait

LEMMA LaterIsLater ==
  ASSUME NEW d \in Nat, NEW e \in Nat, NEW n \in Nat, NEW m \in Nat,
         NEW n1 \in Nat, NEW m1 \in Nat, d + n >= e + m, n1 - n >= m1 - m
  PROVE  d + n1 >= e + m1
  OBVIOUS

(* Time passes: what was expired stays so.                                 *)
LEMMA TimeKeepsWaiters ==
  ASSUME Inv1, Waiters, UNCHANGED <<entries, timers, promises>>,
         now' \in Nat, mono' \in Nat, now' >= now, now' - now >= mono' - mono
  PROVE  Waiters'
  <1> USE DEF Waiters, Inv1
  <1>1. ReapersNotEarly'
    <2> SUFFICES ASSUME NEW w \in DOMAIN timers, ~(Deadline[promises[w].intent] > MaxTimer)
                 PROVE  timers[w] + now' >= Deadline[promises[w].intent] + mono'
      BY DEF ReapersNotEarly
    <2>1. /\ timers[w] \in Nat /\ Deadline[promises[w].intent] \in Nat
          /\ now \in Nat /\ mono \in Nat
      BY CountersignAssumption DEF TypeOK, Promise
    <2>2. timers[w] + now >= Deadline[promises[w].intent] + mono
      BY DEF ReapersNotEarly
    <2> QED BY <2>1, <2>2, LaterIsLater
  <1>2. \A i \in Intents : Expired(i) => Expired(i)'
    <2> SUFFICES ASSUME NEW i \in Intents, Expired(i) PROVE Expired(i)'
      OBVIOUS
    <2>1. Deadline[i] \in Nat /\ now \in Nat
      BY CountersignAssumption DEF TypeOK
    <2> QED BY <2>1 DEF Expired
  <1>3. WaitersServed'
    <2>1. \A p \in DOMAIN promises : promises[p].intent \in Intents
      BY DEF TypeOK, Promise
    <2> QED BY <1>2, <2>1 DEF WaitersServed
  <1> QED BY <1>1, <1>3

LEMMA WaitersHold == ASSUME "back" \notin ClockSteps PROVE Spec => []Waiters
  <1>1. Init => Waiters
    BY DEF Init, Waiters, ReapersNotEarly, WaitersServed, EmptyMap
  <1>2. Inv1 /\ ReapersMatchEntries /\ Waiters /\ [Next]_vars => Waiters'
    <2> SUFFICES ASSUME Inv1, ReapersMatchEntries, Waiters, [Next]_vars PROVE Waiters'
      OBVIOUS
    <2>0. \A i \in DOMAIN entries :
            /\ i \in Intents /\ entries[i].promise \in DOMAIN promises
            /\ promises[entries[i].promise].intent = i
      BY DEF Inv1, TypeOK, EntryPromises
    <2>1. ASSUME NEW w \in Calls, NEW i \in Intents, Wait(w, i) PROVE Waiters'
      BY <2>1, WaitKeepsWaiters
    <2>2. ASSUME NEW w \in Calls, Reap(w) PROVE Waiters'
      <3>1. PICK i \in DOMAIN entries : entries[i].promise = w
        BY <2>2 DEF Reap, ReapersMatchEntries
      <3>2. entries' = MapDelete(entries, {i}) /\ timers' = MapDelete(timers, {w})
        BY <2>0, <2>2, <3>1 DEF Reap
      <3>3. Expired(i) \/ Deadline[i] > MaxTimer
        <4>1. /\ timers[w] \in Nat /\ now \in Nat /\ mono \in Nat /\ Deadline[i] \in Nat
              /\ mono >= timers[w]
          BY <2>0, <2>2, CountersignAssumption DEF Reap, Inv1, TypeOK
        <4>2. timers[w] + now >= Deadline[i] + mono \/ Deadline[i] > MaxTimer
          BY <2>0, <2>2, <3>1 DEF Reap, Waiters, ReapersNotEarly
        <4> QED BY <4>1, <4>2 DEF Expired
      <3>4. {entries[j].promise : j \in DOMAIN entries \ DOMAIN entries'} = {w}
        <4>1. DOMAIN entries \ DOMAIN entries' = {i}
          BY <3>2 DEF MapDelete
        <4> QED BY <3>1, <4>1
      <3>5. UNCHANGED <<now, mono, promises>>
        BY <2>2 DEF Reap
      <3> QED BY <3>2, <3>3, <3>4, <3>5, LeavingKeepsWaiters DEF MapDelete
    <2>3. ASSUME NEW i \in DOMAIN entries, UNCHANGED <<now, mono>>,
                 entries' = MapDelete(entries, {i}),
                 timers' = MapDelete(timers, {entries[i].promise}),
                 DOMAIN promises' = DOMAIN promises,
                 \A p \in DOMAIN promises :
                   /\ promises'[p].intent = promises[p].intent
                   /\ promises'[p].state = "pending" => promises[p].state = "pending",
                 Expired(i) \/ promises'[entries[i].promise].state # "pending"
          PROVE  Waiters'
      <3>1. {entries[j].promise : j \in DOMAIN entries \ DOMAIN entries'} = {entries[i].promise}
        BY <2>3 DEF MapDelete
      <3> QED BY <2>3, <3>1, LeavingKeepsWaiters DEF MapDelete
    <2>4. ASSUME NEW i \in DOMAIN entries, EvictLate(i), UNCHANGED <<now, mono>> PROVE Waiters'
      BY <2>3, <2>4 DEF EvictLate
    <2>5. ASSUME NEW i \in DOMAIN entries, NEW c, Accept(i, c), UNCHANGED <<now, mono>>
          PROVE  Waiters'
      <3>1. CASE \E d, rs : Finish(i, d, rs)
        <4>1. /\ DOMAIN promises' = DOMAIN promises
              /\ \A p \in DOMAIN promises :
                   /\ promises'[p].intent = promises[p].intent
                   /\ promises'[p].state = "pending" => promises[p].state = "pending"
              /\ promises'[entries[i].promise].state # "pending"
          BY <2>0, <3>1 DEF Finish, Fulfil, Inv1, TypeOK, Promise
        <4> QED BY <2>3, <2>5, <3>1, <4>1 DEF Finish
      <3>2. CASE /\ entries' = [entries EXCEPT ![i].approvals =
                                  MapSet(entries[i].approvals, Norm[c.actor], c)]
                 /\ UNCHANGED <<resolved, timers, promises>>
        <4>1. /\ DOMAIN entries' = DOMAIN entries
              /\ \A j \in DOMAIN entries : entries'[j].promise = entries[j].promise
          BY <3>2 DEF Inv1, TypeOK, IsEntry
        <4> QED BY <2>5, <3>2, <4>1
                DEF Waiters, ReapersNotEarly, WaitersServed, Expired
      <3> QED BY <2>5, <3>1, <3>2 DEF Accept
    <2>6. ASSUME NEW i \in Intents, NEW d \in Decisions, NEW a \in Spellings, Settle(i, d, a)
          PROVE Waiters'
      BY <2>4, <2>5, <2>6 DEF Settle
    <2>7. ASSUME NEW c \in Receipt, Record(c) PROVE Waiters'
      BY <2>4, <2>5, <2>7 DEF Record
    <2>8. ASSUME NEW i \in Intents, Cancel(i) PROVE Waiters'
      <3>1. /\ DOMAIN promises' = DOMAIN promises
            /\ \A p \in DOMAIN promises :
                 /\ promises'[p].intent = promises[p].intent
                 /\ promises'[p].state = "pending" => promises[p].state = "pending"
            /\ promises'[entries[i].promise].state # "pending"
        BY <2>0, <2>8 DEF Cancel, RejectAll, Inv1, TypeOK, Promise
      <3> QED BY <2>3, <2>8, <3>1 DEF Cancel
    <2>9. CASE AbortAll
      <3>1. /\ DOMAIN promises' = DOMAIN promises
            /\ \A p \in DOMAIN promises :
                 /\ promises'[p].intent = promises[p].intent
                 /\ promises'[p].state = "pending" => promises[p].state = "pending"
            /\ \A i \in DOMAIN entries : promises'[entries[i].promise].state # "pending"
        BY <2>0, <2>9 DEF AbortAll, RejectAll, Inv1, TypeOK, Promise
      <3>2. DOMAIN entries' = {} /\ UNCHANGED <<now, mono>>
        BY <2>9 DEF AbortAll, EmptyMap
      <3>3. {entries[i].promise : i \in DOMAIN entries \ DOMAIN entries'}
              = {entries[i].promise : i \in DOMAIN entries}
        BY <3>2
      <3>4. timers' = MapDelete(timers, {entries[i].promise : i \in DOMAIN entries})
        BY <2>9 DEF AbortAll
      <3> QED BY <3>1, <3>2, <3>3, <3>4, LeavingKeepsWaiters
    <2>10. CASE Tick \/ StepClock
      <3>1. /\ now' \in Nat /\ mono' \in Nat /\ now' >= now /\ now' - now >= mono' - mono
        BY <2>10, PendingAssumption DEF Tick, StepClock, Inv1, TypeOK
      <3>2. UNCHANGED <<entries, timers, promises>>
        BY <2>10 DEF Tick, StepClock
      <3> QED BY <3>1, <3>2, TimeKeepsWaiters
    <2>11. CASE UNCHANGED vars
      BY <2>11 DEF vars, Waiters, ReapersNotEarly, WaitersServed, Expired
    <2> QED BY <2>1, <2>2, <2>6, <2>7, <2>8, <2>9, <2>10, <2>11 DEF Next
  <1> QED BY <1>1, <1>2, Inv1Holds, ReapersMatch, PTL DEF Spec

(* While the wall clock never goes back, no second wait, cancel, abort or  *)
(* reaper leaves somebody waiting on a promise nothing will settle while   *)
(* the deadline is still to come, unless the window is longer than         *)
(* setTimeout can wait; and no timer is left behind for a later entry.     *)
THEOREM NobodyIsStranded == ASSUME "back" \notin ClockSteps PROVE Spec => []NoStrandedWaiter
  BY WaitersHold, ReapersMatch, PTL DEF Waiters, NoStrandedWaiter
=============================================================================
