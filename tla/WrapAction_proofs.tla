------------------------- MODULE WrapAction_proofs -------------------------
(***************************************************************************)
(* TLAPS proofs about WrapAction, for every set of intents, candidates and *)
(* keys the assumptions admit, and a wall clock that may be stepped.       *)
(***************************************************************************)
EXTENDS WrapAction, TLAPS

-----------------------------------------------------------------------------
(* What the pure functions return                                          *)

LEMMA DefaultDecisionType ==
  ASSUME NEW i \in Intents
  PROVE  DefaultDecision(i) \in Decisions
  BY CountersignAssumption DEF DefaultDecision, Decisions

LEMMA MintDefaultShape ==
  ASSUME NEW i \in Intents, NEW t \in Nat
  PROVE  /\ MintDefault(i, t) \in Resolution
         /\ MintDefault(i, t).decision = DefaultDecision(i)
         /\ MintDefault(i, t).policy = "default"
  <1>1. SignDecision(i, DefaultDecision(i), TimeoutActor, Authority, "default") \in Receipt
    BY DefaultDecisionType, CountersignAssumption DEF SignDecision, Receipt, Policies
  <1>2. (IF t >= Deadline[i] THEN t ELSE Deadline[i]) \in Nat
    BY CountersignAssumption
  <1> QED
    BY <1>1, <1>2, DefaultDecisionType DEF MintDefault, Resolution, Policies

(* What mintDefault mints, verifyResolution accepts, whatever the clock.   *)
LEMMA MintDefaultVerifies ==
  ASSUME NEW i \in Intents, NEW t \in Nat, WellFormed(i), Deliverable(i)
  PROVE  VerifyResolution(i, MintDefault(i, t))
  <1> DEFINE c == SignDecision(i, DefaultDecision(i), TimeoutActor, Authority, "default")
             r == MintDefault(i, t)
  <1>1. /\ r.receipts = {c} /\ r.decision = DefaultDecision(i) /\ r.policy = "default"
        /\ r.stamp = IF t >= Deadline[i] THEN t ELSE Deadline[i]
    BY DEF MintDefault
  <1>2. /\ c.intent = i /\ c.decision = DefaultDecision(i) /\ c.policy = "default"
        /\ c.actor = TimeoutActor /\ c.key = Authority
    BY DEF SignDecision
  <1> HIDE DEF c, r
  <1>3. r.stamp >= Deadline[i]
    BY <1>1, CountersignAssumption
  <1>4. DefaultProof(i, r)
    BY <1>1, <1>2, <1>3, CountersignAssumption DEF DefaultProof, VerifyCountersignature
  <1>5. VerifyResolution(i, r)
    BY <1>1, <1>2, <1>4, DefaultDecisionType DEF VerifyResolution, Deliverable
  <1> QED BY <1>5 DEF r

(* A verified Default is one the runtime recognises when it comes early.   *)
LEMMA VerifiedDefaultIsRecognised ==
  ASSUME NEW i, NEW r, VerifyResolution(i, r), r.policy = "default"
  PROVE  IsEarlyDefault(i, r)
  BY DEF VerifyResolution, DefaultProof, IsEarlyDefault

LEMMA EarlyDefaultDecides ==
  ASSUME NEW i, NEW r, VerifyResolution(i, r), IsEarlyDefault(i, r)
  PROVE  r.decision = DefaultDecision(i)
  BY DEF VerifyResolution, IsEarlyDefault

(* What verifyResolution lets through as an approval is one: a quorum of   *)
(* distinct listed approvers signed it, or silence approves.               *)
LEMMA VerifiedApprovalIsAuthorised ==
  ASSUME NEW i \in Intents, NEW r, VerifyResolution(i, r), r.decision = "approve"
  PROVE  \/ \E S \in SUBSET Approvers(i) :
              /\ Cardinality(S) >= Quorum[i]
              /\ \A a \in S : \E c \in r.receipts : Signed(i, a, "approve", c)
         \/ Silence(i) /\ r.policy = "default"
  <1>1. CASE r.policy = "approver" /\ ApproverProof(i, r)
    <2> DEFINE S == {Norm[c.actor] : c \in r.receipts}
    <2>1. S \in SUBSET Approvers(i)
      BY <1>1 DEF ApproverProof
    <2>2. Cardinality(S) >= Quorum[i]
      BY <1>1 DEF ApproverProof
    <2>3. ASSUME NEW a \in S
          PROVE  \E c \in r.receipts : Signed(i, a, "approve", c)
      <3>1. PICK c \in r.receipts : a = Norm[c.actor]
        OBVIOUS
      <3>2. c.intent = i /\ c.decision = "approve"
        BY DEF VerifyResolution
      <3>3. c.key = TrustedKey(i, a)
        BY <1>1, <3>1 DEF ApproverProof, VerifyCountersignature
      <3> QED BY <3>1, <3>2, <3>3 DEF Signed
    <2> HIDE DEF S
    <2> QED BY <2>1, <2>2, <2>3
  <1>2. CASE r.policy = "default" /\ DefaultProof(i, r)
    <2>1. DefaultDecision(i) = "approve"
      BY <1>2 DEF DefaultProof
    <2>2. Quorum[i] = 1 /\ Default[i] = "approve"
      BY <2>1 DEF DefaultDecision, VerifyResolution, WellFormed
    <2> QED BY <1>2, <2>2 DEF Silence
  <1> QED BY <1>1, <1>2 DEF VerifyResolution

-----------------------------------------------------------------------------
(* The inductive invariant                                                 *)

Won == {"recording", "recorded", "ran", "rejected"}

\* Nothing is delivered for an Intent the checks refuse.
DeliveredIsSound ==
  pc \notin {"idle", "refused"} =>
    intent \in Intents /\ WellFormed(intent) /\ Deliverable(intent)

NothingWonYet ==
  pc \in {"idle", "refused", "delivering", "racing"} => winner = NoResolution /\ log = {}

WinnerVerified ==
  pc \in Won => winner \in Resolution /\ VerifyResolution(intent, winner)

OnRecord == pc \in {"recorded", "ran", "rejected"} => winner \in log

OnlyApprovalsRun == pc = "ran" => winner.decision = "approve"

\* How far the call has come tells what the adapter's promise may be.
AdapterInStep ==
  /\ adapter.state = "fulfilled" => adapter.value \in Resolution
  /\ pc \in {"idle", "refused"} => adapter.state = "pending"
  /\ settledAt.pc = "racing" => pc \notin {"idle", "refused", "delivering"}
  /\ pc = "racing" /\ reacted => adapter.state = "fulfilled"
  /\ pc \in {"idle", "refused", "delivering"} => ~reacted

\* The veto is still going to decide, or has decided.
VetoStands ==
  Vetoed /\ settledAt.pc = "racing" =>
    /\ pc = "racing" /\ reacted => DefaultDecision(intent) = "reject"
    /\ pc \in Won => winner.decision = "reject"

\* Why the winner won.
WonForAReason ==
  winner # NoResolution /\ pc # "failed" =>
    /\ winner.policy = "default" => wonAt.time >= Deadline[intent] \/ wonAt.timer = 0
    /\ adapter.state = "rejected" => wonAt.time >= Deadline[intent]

Inv ==
  /\ TypeOK /\ DeliveredIsSound /\ NothingWonYet /\ WinnerVerified /\ OnRecord
  /\ OnlyApprovalsRun /\ AdapterInStep /\ VetoStands /\ WonForAReason
  /\ MintedDefaultVerifies

LEMMA InitInv == ASSUME Init PROVE Inv
  BY WrapAssumption DEF Init, Inv, TypeOK, NoTimer, NoIntent, Never, DeliveredIsSound,
     NothingWonYet, WinnerVerified, OnRecord, OnlyApprovalsRun, AdapterInStep, VetoStands,
     WonForAReason, MintedDefaultVerifies, Vetoed, Won

LEMMA WrapPreserves ==
  ASSUME Inv, NEW i \in Intents, Wrap(i)
  PROVE  Inv'
  <1> USE DEF Inv
  <1>1. TypeOK'
    BY DEF Wrap, TypeOK
  <1>2. DeliveredIsSound'
    BY DEF Wrap, DeliveredIsSound
  <1>3. NothingWonYet' /\ WinnerVerified' /\ OnRecord' /\ OnlyApprovalsRun' /\ WonForAReason'
    BY DEF Wrap, NothingWonYet, WinnerVerified, OnRecord, OnlyApprovalsRun, WonForAReason, Won
  <1>4. AdapterInStep' /\ VetoStands'
    BY DEF Wrap, AdapterInStep, VetoStands, Vetoed, Won
  <1>5. MintedDefaultVerifies'
    BY DEF Wrap, MintedDefaultVerifies, NothingWonYet
  <1> QED BY <1>1, <1>2, <1>3, <1>4, <1>5

LEMMA DeliveryFailsPreserves ==
  ASSUME Inv, DeliveryFails
  PROVE  Inv'
  BY DEF Inv, DeliveryFails, TypeOK, DeliveredIsSound, NothingWonYet, WinnerVerified, OnRecord,
     OnlyApprovalsRun, AdapterInStep, VetoStands, Vetoed, WonForAReason, MintedDefaultVerifies, Won

LEMMA AdapterPreserves ==
  ASSUME Inv, AdapterResolves \/ AdapterRejects
  PROVE  Inv'
  <1> USE DEF Inv
  <1>1. PICK state \in {"fulfilled", "rejected"}, r \in Resolution \cup {NoResolution} :
          /\ AdapterSettles(state, r)
          /\ state = "fulfilled" => r \in Resolution
    <2>1. CASE AdapterResolves
      BY <2>1, WrapAssumption DEF AdapterResolves, TypeOK
    <2>2. CASE AdapterRejects
      BY <2>2 DEF AdapterRejects
    <2> QED BY <2>1, <2>2
  <1>2. TypeOK'
    BY <1>1 DEF AdapterSettles, TypeOK
  <1>3. /\ DeliveredIsSound' /\ NothingWonYet' /\ WinnerVerified' /\ OnRecord'
        /\ OnlyApprovalsRun' /\ WonForAReason'
    BY <1>1 DEF AdapterSettles, DeliveredIsSound, NothingWonYet, WinnerVerified, OnRecord,
       OnlyApprovalsRun, WonForAReason, Won
  <1>4. AdapterInStep'
    BY <1>1 DEF AdapterSettles, AdapterInStep
  <1>5. VetoStands'
    BY <1>1 DEF AdapterSettles, AdapterInStep, VetoStands, Won
  <1>6. MintedDefaultVerifies'
    BY <1>1 DEF AdapterSettles, MintedDefaultVerifies, NothingWonYet
  <1> QED BY <1>2, <1>3, <1>4, <1>5, <1>6

(* The end of the race, for any r that may win it.                         *)
LEMMA ConcludePreserves ==
  ASSUME Inv, pc \in {"delivering", "racing"},
         NEW r \in Resolution, Conclude(r),
         UNCHANGED <<now, intent, adapter, log, settledAt>>,
         reacted' \in BOOLEAN,
         Vetoed /\ settledAt.pc = "racing" => r.decision = "reject",
         VerifyResolution(intent, r) /\ r.policy = "default" => now >= Deadline[intent] \/ timer = 0,
         adapter.state = "rejected" => now >= Deadline[intent],
         adapter.state = "pending" => VerifyResolution(intent, r)
  PROVE  Inv'
  <1> USE DEF Inv
  <1>1. pc' = IF VerifyResolution(intent, r) THEN "recording" ELSE "failed"
    BY DEF Conclude
  <1>2. /\ winner' = r /\ timer' = NoTimer
        /\ wonAt' = [time |-> now, timer |-> timer]
    BY DEF Conclude
  <1>3. log = {} /\ intent \in Intents
    BY DEF NothingWonYet, DeliveredIsSound
  <1>4. TypeOK'
    BY <1>1, <1>2, <1>3 DEF TypeOK, NoTimer
  <1>5. DeliveredIsSound' /\ NothingWonYet' /\ OnRecord' /\ OnlyApprovalsRun' /\ AdapterInStep'
    BY <1>1, <1>2 DEF DeliveredIsSound, NothingWonYet, OnRecord, OnlyApprovalsRun, AdapterInStep
  <1>6. WinnerVerified' /\ MintedDefaultVerifies'
    BY <1>1, <1>2 DEF WinnerVerified, MintedDefaultVerifies, Won
  <1>7. VetoStands'
    BY <1>1, <1>2 DEF VetoStands, Vetoed
  <1>8. WonForAReason'
    BY <1>1, <1>2 DEF WonForAReason, Won
  <1> QED BY <1>4, <1>5, <1>6, <1>7, <1>8

LEMMA DeliveredPreserves ==
  ASSUME Inv, Delivered
  PROVE  Inv'
  <1> USE DEF Inv
  <1>0. /\ pc = "delivering" /\ UNCHANGED <<now, intent, adapter, reacted, log, settledAt>>
        /\ intent \in Intents /\ now \in Nat /\ reacted \in BOOLEAN
        /\ WellFormed(intent) /\ Deliverable(intent)
    BY WrapAssumption DEF Delivered, TypeOK, DeliveredIsSound
  <1>1. CASE pc' = "failed" /\ UNCHANGED <<timer, winner, wonAt>>
    BY <1>0, <1>1 DEF TypeOK, DeliveredIsSound, NothingWonYet, WinnerVerified, OnRecord,
       OnlyApprovalsRun, AdapterInStep, VetoStands, Vetoed, WonForAReason, MintedDefaultVerifies, Won
  <1>2. CASE Deadline[intent] - now <= 0 /\ Conclude(MintDefault(intent, now))
    <2>1. MintDefault(intent, now) \in Resolution /\ VerifyResolution(intent, MintDefault(intent, now))
      BY <1>0, MintDefaultShape, MintDefaultVerifies
    <2>2. now >= Deadline[intent]
      BY <1>0, <1>2, CountersignAssumption
    <2>3. ~(settledAt.pc = "racing")
      BY <1>0 DEF AdapterInStep
    <2> QED BY <1>0, <1>2, <2>1, <2>2, <2>3, ConcludePreserves
  <1>3. CASE /\ Deadline[intent] - now \in 1..MaxTimer
             /\ pc' = "racing" /\ timer' = Deadline[intent] - now
             /\ UNCHANGED <<winner, wonAt>>
    <2>1. timer' \in 0..MaxTimer /\ timer' # NoTimer
      BY <1>3, WrapAssumption DEF NoTimer
    <2>2. TypeOK'
      BY <1>0, <1>3, <2>1 DEF TypeOK
    <2> QED
      BY <1>0, <1>3, <2>2 DEF DeliveredIsSound, NothingWonYet, WinnerVerified, OnRecord,
         OnlyApprovalsRun, AdapterInStep, VetoStands, Vetoed, WonForAReason, MintedDefaultVerifies, Won
  <1> QED BY <1>1, <1>2, <1>3 DEF Delivered

LEMMA ReactPreserves ==
  ASSUME Inv, React
  PROVE  Inv'
  <1> USE DEF Inv
  <1>0. /\ pc = "racing" /\ ~reacted /\ reacted' = TRUE /\ reacted' \in BOOLEAN
        /\ adapter.state # "pending" /\ UNCHANGED <<now, intent, adapter, log, settledAt>>
        /\ intent \in Intents /\ now \in Nat
        /\ adapter.state = "fulfilled" => adapter.value \in Resolution
    BY WrapAssumption DEF React, TypeOK, DeliveredIsSound, AdapterInStep
  <1>1. CASE Expired /\ Conclude(LateOutcome(intent))
    <2>1. now >= Deadline[intent]
      BY <1>1 DEF Expired
    <2>2. LateOutcome(intent) \in Resolution
      BY <1>0, MintDefaultShape DEF LateOutcome
    <2>3. Vetoed => LateOutcome(intent).decision = "reject"
      <3>1. DefaultDecision(intent) \in {"approve", "reject"}
        BY <1>0, DefaultDecisionType DEF Decisions
      <3> QED BY <1>0, <3>1, MintDefaultShape DEF LateOutcome, Vetoed
    <2> QED BY <1>0, <1>1, <2>1, <2>2, <2>3, ConcludePreserves
  <1>2. CASE /\ adapter.state = "fulfilled"
             /\ IsEarlyDefault(intent, adapter.value)
             /\ UNCHANGED <<pc, timer, winner, wonAt>>
    <2>1. Vetoed => DefaultDecision(intent) = "reject"
      BY <1>2, EarlyDefaultDecides DEF Vetoed
    <2>2. VetoStands'
      BY <1>0, <1>2, <2>1 DEF VetoStands, Vetoed, Won
    <2>3. TypeOK'
      BY <1>0, <1>2 DEF TypeOK
    <2> QED
      BY <1>0, <1>2, <2>2, <2>3 DEF DeliveredIsSound, NothingWonYet, WinnerVerified, OnRecord,
         OnlyApprovalsRun, AdapterInStep, WonForAReason, MintedDefaultVerifies, Won
  <1>3. CASE /\ adapter.state = "fulfilled"
             /\ ~IsEarlyDefault(intent, adapter.value)
             /\ Conclude(adapter.value)
    <2>1. ~(VerifyResolution(intent, adapter.value) /\ adapter.value.policy = "default")
      BY <1>3, VerifiedDefaultIsRecognised
    <2>2. Vetoed => adapter.value.decision = "reject"
      BY DEF Vetoed
    <2> QED BY <1>0, <1>3, <2>1, <2>2, ConcludePreserves
  <1>4. CASE pc' = "failed" /\ timer' = NoTimer /\ UNCHANGED <<winner, wonAt>>
    <2>1. TypeOK'
      BY <1>0, <1>4 DEF TypeOK
    <2> QED
      BY <1>0, <1>4, <2>1 DEF DeliveredIsSound, NothingWonYet, WinnerVerified, OnRecord,
         OnlyApprovalsRun, AdapterInStep, VetoStands, Vetoed, WonForAReason, MintedDefaultVerifies, Won
  <1> QED BY <1>1, <1>2, <1>3, <1>4 DEF React

LEMMA TimerFiresPreserves ==
  ASSUME Inv, TimerFires
  PROVE  Inv'
  <1> USE DEF Inv
  <1>0. /\ pc = "racing" /\ timer = 0 /\ (adapter.state = "pending" \/ reacted)
        /\ Conclude(MintDefault(intent, now))
        /\ UNCHANGED <<now, intent, adapter, log, settledAt>> /\ reacted' \in BOOLEAN
        /\ intent \in Intents /\ now \in Nat
        /\ WellFormed(intent) /\ Deliverable(intent)
    BY WrapAssumption DEF TimerFires, TypeOK, DeliveredIsSound
  <1>1. /\ MintDefault(intent, now) \in Resolution
        /\ MintDefault(intent, now).decision = DefaultDecision(intent)
        /\ VerifyResolution(intent, MintDefault(intent, now))
    BY <1>0, MintDefaultShape, MintDefaultVerifies
  <1>2. adapter.state # "rejected"
    BY <1>0 DEF AdapterInStep
  <1>3. Vetoed /\ settledAt.pc = "racing" => DefaultDecision(intent) = "reject"
    BY <1>0 DEF VetoStands, Vetoed
  <1> QED BY <1>0, <1>1, <1>2, <1>3, ConcludePreserves

LEMMA RecordPreserves ==
  ASSUME Inv, RecordSucceeds \/ RecordFails \/ Act \/ Crash
  PROVE  Inv'
  <1> USE DEF Inv
  <1>0. pc \in Won => winner \in Resolution /\ winner # NoResolution
    BY WrapAssumption DEF WinnerVerified
  <1>1. /\ UNCHANGED <<now, intent, adapter, reacted, winner, settledAt, wonAt>>
        /\ pc' \in {"recorded", "ran", "rejected", "failed", "crashed"}
        /\ pc \in {"delivering", "racing", "recording", "recorded"}
        /\ pc' \in Won \cup {"failed"} => pc \in Won
        /\ timer' = NoTimer
    BY DEF RecordSucceeds, RecordFails, Act, Crash, TypeOK, Won
  <1>2. /\ log \subseteq log' /\ log' \subseteq log \cup {winner}
        /\ pc \notin Won => log' = log
        /\ pc' = "recorded" => winner \in log'
        /\ pc' \in {"ran", "rejected"} => pc = "recorded"
        /\ pc' = "ran" => winner.decision = "approve"
    BY DEF RecordSucceeds, RecordFails, Act, Crash, Won
  <1>3. TypeOK'
    BY <1>0, <1>1, <1>2 DEF TypeOK
  <1>4. DeliveredIsSound' /\ WinnerVerified' /\ NothingWonYet'
    BY <1>1 DEF DeliveredIsSound, WinnerVerified, NothingWonYet, Won
  <1>5. OnRecord' /\ OnlyApprovalsRun'
    BY <1>1, <1>2 DEF OnRecord, OnlyApprovalsRun
  <1>6. AdapterInStep' /\ VetoStands'
    BY <1>1 DEF AdapterInStep, VetoStands, Vetoed, Won
  <1>7. WonForAReason' /\ MintedDefaultVerifies'
    <2>1. pc # "failed"
      BY <1>1
    <2> QED BY <1>1, <2>1 DEF WonForAReason, MintedDefaultVerifies
  <1> QED BY <1>3, <1>4, <1>5, <1>6, <1>7

LEMMA ClockPreserves ==
  ASSUME Inv, Tick \/ StepClock
  PROVE  Inv'
  <1> USE DEF Inv
  <1>1. UNCHANGED <<intent, pc, adapter, reacted, winner, log, settledAt, wonAt>>
    BY DEF Tick, StepClock
  <1>2. TypeOK'
    BY WrapAssumption DEF Tick, StepClock, TypeOK, NoTimer
  <1> QED
    BY <1>1, <1>2 DEF DeliveredIsSound, NothingWonYet, WinnerVerified, OnRecord,
       OnlyApprovalsRun, AdapterInStep, VetoStands, Vetoed, WonForAReason, MintedDefaultVerifies, Won

LEMMA NextPreserves ==
  ASSUME Inv, [Next]_vars
  PROVE  Inv'
  <1>1. CASE UNCHANGED vars
    BY <1>1 DEF vars, Inv, TypeOK, DeliveredIsSound, NothingWonYet, WinnerVerified, OnRecord,
       OnlyApprovalsRun, AdapterInStep, VetoStands, Vetoed, WonForAReason, MintedDefaultVerifies, Won
  <1>2. CASE Next
    BY <1>2, WrapPreserves, DeliveryFailsPreserves, AdapterPreserves, DeliveredPreserves,
       ReactPreserves, TimerFiresPreserves, RecordPreserves, ClockPreserves DEF Next
  <1> QED BY <1>1, <1>2

LEMMA Invariance == Spec => []Inv
  <1>1. Init => Inv
    BY InitInv
  <1>2. Inv /\ [Next]_vars => Inv'
    BY NextPreserves
  <1> QED BY <1>1, <1>2, PTL DEF Spec

-----------------------------------------------------------------------------
(* What a guarded call guarantees, whatever the adapter, the sink and the  *)
(* wall clock do                                                           *)

(* The types of a guarded call's state; the Default timer is armed exactly *)
(* during the race, so whatever ends it clears the timer.                  *)
THEOREM TypeCorrect == Spec => []TypeOK
  <1>1. Inv => TypeOK
    BY DEF Inv
  <1> QED BY <1>1, Invariance, PTL

(* The guarded function runs only on a quorum of distinct listed approvers *)
(* or on a silence that approves (shim.ts, verifyResolution).              *)
THEOREM RunsOnlyWhenAuthorised == Spec => []RunOnlyIfAuthorised
  <1>1. Inv => RunOnlyIfAuthorised
    BY VerifiedApprovalIsAuthorised DEF Inv, DeliveredIsSound, WinnerVerified, OnlyApprovalsRun,
       RunOnlyIfAuthorised, Won
  <1> QED BY <1>1, Invariance, PTL

(* The receipts are durable before the function runs, and before a         *)
(* rejection is reported (shim.ts, "Persist the receipts before acting").  *)
THEOREM RecordsBeforeActing == Spec => []RecordedBeforeActing
  <1>1. Inv => RecordedBeforeActing
    BY DEF Inv, OnRecord, RecordedBeforeActing
  <1> QED BY <1>1, Invariance, PTL

(* A veto the adapter yields during the race is honoured, however late its *)
(* reaction runs (awaitWithDefault, `guarded`).                            *)
THEOREM VetoIsHonoured == Spec => []VetoHonoured
  <1>1. Inv => VetoHonoured
    BY DEF Inv, VetoStands, OnlyApprovalsRun, VetoHonoured, Won
  <1> QED BY <1>1, Invariance, PTL

(* No Default decides before its time (awaitWithDefault, the early-Default *)
(* exception).                                                             *)
THEOREM DefaultsAreNotEarly == Spec => []DefaultNotEarly
  <1>1. Inv => DefaultNotEarly
    BY DEF Inv, WonForAReason, DefaultNotEarly, Won
  <1> QED BY <1>1, Invariance, PTL

(* An adapter's error is never taken for silence, and silence never ends   *)
(* in a failed verification (awaitWithDefault, CS-28; mintDefault).        *)
THEOREM ErrorsAreNotSilence == Spec => []ErrorIsNotSilence
  <1>1. Inv => ErrorIsNotSilence
    BY WrapAssumption DEF Inv, WinnerVerified, WonForAReason, ErrorIsNotSilence, Won
  <1> QED BY <1>1, Invariance, PTL

(* The Default the runtime mints always verifies (mintDefault against      *)
(* verifyResolution).                                                      *)
THEOREM MintedDefaultsVerify == Spec => []MintedDefaultVerifies
  <1>1. Inv => MintedDefaultVerifies
    BY DEF Inv
  <1> QED BY <1>1, Invariance, PTL
=============================================================================
