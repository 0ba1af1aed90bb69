---------------------------- MODULE MCWrapAction ----------------------------
(***************************************************************************)
(* Three intents that can be delivered: `auto` (one vouched approver,      *)
(* silence approves), `safe` (the same, silence rejects) and `duo` (two    *)
(* keyed approvers, both needed); and two that wrapAction refuses: `held`  *)
(* binds a keyed approver to the authority key, `self` was authored with   *)
(* it.  Candidates holds what an adapter may yield, right or wrong.        *)
(***************************************************************************)
EXTENDS WrapAction

CONSTANTS auto, safe, duo, held, self,
          sam, ann, ANN, bob, eve, timeout,
          kAnn, kBob, kEve, kAuth, kAgent

MCNorm == [s \in Spellings |-> IF s = ANN THEN ann ELSE s]
MCVouched == [i \in Intents |-> IF i \in {auto, safe, self} THEN {sam} ELSE {}]
MCKeyed == [i \in Intents |-> CASE i = duo -> {ann, bob} [] i = held -> {eve} [] OTHER -> {}]
MCKeyOf == [a \in Actors |-> CASE a = ann -> kAnn [] a = bob -> kBob
                                [] a = eve -> kAuth [] OTHER -> kAgent]
MCAgentKey == [i \in Intents |-> IF i = self THEN kAuth ELSE kAgent]
MCQuorum == [i \in Intents |-> IF i = duo THEN 2 ELSE 1]
MCDefault == [i \in Intents |-> IF i = auto THEN "approve" ELSE "reject"]
MCDeadline == [i \in Intents |-> IF i = auto THEN 3 ELSE 2]

Other(d) == CHOOSE e \in Decisions : e # d
Resolved(i, d, policy, receipts) ==
  [decision |-> d, policy |-> policy, receipts |-> receipts, stamp |-> Deadline[i]]
By(i, d, actor, key) == SignDecision(i, d, actor, key, "approver")
Timed(i, d, key) == SignDecision(i, d, timeout, key, "default")

Human(i) ==
  IF i = duo
  THEN {Resolved(i, "approve", "approver", rs) : rs \in
          { {By(i, "approve", ann, kAnn), By(i, "approve", bob, kBob)},
            {By(i, "approve", ann, kAnn), By(i, "approve", ANN, kAnn)},
            {By(i, "approve", ann, kAnn), By(i, "approve", bob, kAuth)} }}
       \cup {Resolved(i, "reject", "approver", {By(i, "reject", bob, kBob)})}
  ELSE {Resolved(i, d, "approver", {By(i, d, sam, k)}) :
          d \in Decisions, k \in {kAuth, kEve}}

MCCandidates == [i \in Intents |->
  Human(i)
  \cup {Resolved(i, d, "approver", {By(i, d, eve, kAuth)}) : d \in Decisions}
  \cup {Resolved(i, d, p, {Timed(i, d, kAuth)}) : d \in Decisions, p \in Policies}
  \cup {Resolved(i, "approve", "approver", {})}
  \cup {Resolved(i, "approve", "default", {Timed(i, "reject", kAuth)})}]
=============================================================================
