---------------------------- MODULE Countersign ----------------------------
(***************************************************************************)
(* The protocol core (src/core): Intents, receipts (Countersignatures),    *)
(* Resolutions, and the pure functions the runtime, the adapters and an    *)
(* independent verifier all decide with.                                   *)
(*                                                                         *)
(* Cryptography is modelled by what it does: a receipt carries the key     *)
(* that really signed it, so "the signature verifies under key k" is       *)
(* "k is that key".  A receipt that verifies under no trusted key carries  *)
(* a key outside every approver's binding (a Stranger's).                  *)
(***************************************************************************)
EXTENDS Naturals, FiniteSets, JsMap

CONSTANTS
  Intents,        \* intent ids; the fields of each are the functions below
  Actors,         \* canonical identities: the values normalizeActor returns
  Spellings,      \* raw actor strings, as a channel or a receipt spells them
  Norm,           \* normalizeActor: [Spellings -> Actors]
  TimeoutActor,   \* "default:timeout", reserved for the runtime's Default
  Vouched,        \* [Intents -> SUBSET Actors]: approvers of mode "vouched"
  Keyed,          \* [Intents -> SUBSET Actors]: approvers of mode "keyed"
  KeyOf,          \* [Actors -> Keys]: the key bound to a keyed approver
  Keys,           \* signing keys
  Authority,      \* the authority key of the deployment
  AgentKey,       \* [Intents -> Keys]: the key the Intent was authored with
  Quorum,         \* [Intents -> Nat]
  Default,        \* [Intents -> Decisions]: what silence means
  Deadline        \* [Intents -> Nat]: created_at + timeout

Decisions == {"approve", "reject"}
Policies  == {"approver", "default"}

Approvers(i) == Vouched[i] \cup Keyed[i]

(* assertIntentInvariants and validateApprovers: the rules createIntent    *)
(* enforces at authorship and every verifier re-checks.                    *)
WellFormed(i) ==
  /\ Approvers(i) # {}
  /\ TimeoutActor \notin Approvers(i)
  /\ Vouched[i] \cap Keyed[i] = {}
  /\ \A a, b \in Keyed[i] : KeyOf[a] = KeyOf[b] => a = b
  /\ Quorum[i] \in Nat \ {0}
  /\ Quorum[i] > 1 => Vouched[i] = {} /\ Default[i] = "reject"
  /\ Quorum[i] <= Cardinality(Approvers(i))
  /\ Default[i] \in Decisions

(* assertDeliverable: configurations that verifyResolution would reject    *)
(* only after a human has answered.                                        *)
Deliverable(i) ==
  /\ AgentKey[i] # Authority
  /\ \A a \in Keyed[i] : KeyOf[a] # Authority

Receipt == [intent: Intents, actor: Spellings, decision: Decisions,
            policy: Policies, key: Keys]

(* `stamp` is the clock reading at which the Resolution came to be: for a  *)
(* vouched decision and for a Default, the signed timestamp of its last    *)
(* receipt.  `receipts` is the array countersignatures without its order.  *)
Resolution == [decision: Decisions, policy: Policies,
               receipts: SUBSET Receipt, stamp: Nat]

(* signDecision *)
SignDecision(i, d, actor, key, policy) ==
  [intent |-> i, actor |-> actor, decision |-> d, policy |-> policy, key |-> key]

(* verifyCountersignature with trustedKeys *)
VerifyCountersignature(c, trusted) == c.key = trusted

\* The key an approver's mode requires: their own when keyed, else the authority's.
TrustedKey(i, a) == IF a \in Keyed[i] THEN KeyOf[a] ELSE Authority

(* What silence produces: a multi-person quorum always fails closed.       *)
DefaultDecision(i) == IF Quorum[i] > 1 THEN "reject" ELSE Default[i]

\* Mutant: stamped with the wall clock, wherever it went.
MintDefaultStampedNow(i, t) ==
  [decision |-> DefaultDecision(i), policy |-> "default",
   receipts |-> {SignDecision(i, DefaultDecision(i), TimeoutActor, Authority, "default")},
   stamp    |-> t]

(* mintDefault, at wall-clock time t: stamped at max(t, deadline).         *)
MintDefault(i, t) ==
  [decision |-> DefaultDecision(i), policy |-> "default",
   receipts |-> {SignDecision(i, DefaultDecision(i), TimeoutActor, Authority, "default")},
   stamp    |-> IF t >= Deadline[i] THEN t ELSE Deadline[i]]

(* The first proof verifyResolution accepts: listed approvers decided.     *)
ApproverProof(i, r) ==
  /\ \A c \in r.receipts :
       /\ c.policy = "approver"
       /\ Norm[c.actor] # TimeoutActor
       /\ Norm[c.actor] \in Approvers(i)
       /\ Norm[c.actor] \in Keyed[i] => KeyOf[Norm[c.actor]] # Authority
       /\ VerifyCountersignature(c, TrustedKey(i, Norm[c.actor]))
  /\ r.decision = "approve" =>
       Cardinality({Norm[c.actor] : c \in r.receipts}) >= Quorum[i]

(* The second: exactly the Default the Intent declared, not before its     *)
(* deadline.                                                               *)
DefaultProof(i, r) ==
  /\ r.decision = DefaultDecision(i)
  /\ \E c \in r.receipts :
       /\ r.receipts = {c}
       /\ c.policy = "default"
       /\ Norm[c.actor] = TimeoutActor
       /\ VerifyCountersignature(c, Authority)
  /\ r.stamp >= Deadline[i]

(* verifyResolution: TRUE where the code returns, FALSE where it throws.   *)
VerifyResolution(i, r) ==
  /\ WellFormed(i)
  /\ AgentKey[i] # Authority
  /\ r.receipts # {}
  /\ r.decision \in Decisions
  /\ \A c \in r.receipts : c.intent = i /\ c.decision = r.decision
  /\ \/ r.policy = "approver" /\ ApproverProof(i, r)
     \/ r.policy = "default"  /\ DefaultProof(i, r)

ASSUME CountersignAssumption ==
  /\ Norm \in [Spellings -> Actors]
  /\ TimeoutActor \in Spellings /\ Norm[TimeoutActor] = TimeoutActor
  /\ Vouched \in [Intents -> SUBSET Actors] /\ Keyed \in [Intents -> SUBSET Actors]
  /\ KeyOf \in [Actors -> Keys] /\ Authority \in Keys
  /\ AgentKey \in [Intents -> Keys]
  /\ Quorum \in [Intents -> Nat] /\ Deadline \in [Intents -> Nat]
  /\ Default \in [Intents -> Decisions]
=============================================================================
