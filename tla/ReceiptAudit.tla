---------------------------- MODULE ReceiptAudit ----------------------------
(***************************************************************************)
(* ReceiptLog.verifyAll (src/receipt-log.ts): what an auditor is told of   *)
(* one stored receipt, and what the console shows of it.                   *)
(*                                                                         *)
(* A stored receipt is the receipt, its signed timestamp, and whether its  *)
(* signature (for a passkey: its assertion) verifies over what it says     *)
(* now.  A key and the passkey descriptor of it are one member of Keys.    *)
(* Absent options are empty sets: the code refuses empty arrays.           *)
(***************************************************************************)
EXTENDS Countersign

CONSTANT Passkeys     \* the keys held by WebAuthn authenticators

Stored == [cs: Receipt, stamp: Nat, intact: BOOLEAN]

Store(c, t) == [cs |-> c, stamp |-> t, intact |-> TRUE]

(* VerifyAllOptions the code accepts: an authority key or an agent pin has *)
(* no effect without the Intents, and is refused.                          *)
Options ==
  {o \in [intents: SUBSET Intents, authority: SUBSET Keys, agents: SUBSET Keys,
          trusted: SUBSET Keys, webauthn: BOOLEAN] :
     o.authority \cup o.agents # {} => o.intents # {}}

\* What an auditor with everything at hand asks for.
FullAudit == [intents |-> Intents, authority |-> {Authority}, agents |-> {},
              trusted |-> {}, webauthn |-> TRUE]

\* What the console asks for: it holds neither the Intents nor the authority key.
ConsoleAudit(webauthn) == [intents |-> {}, authority |-> {}, agents |-> {},
                           trusted |-> {}, webauthn |-> webauthn]

-----------------------------------------------------------------------------
(* Is a supplied Intent a trust anchor?                                    *)

Authentic(o, i) ==
  /\ WellFormed(i)
  /\ AgentKey[i] \notin o.authority
  /\ o.agents # {} => AgentKey[i] \in o.agents

-----------------------------------------------------------------------------
(* The binding of a receipt to its Intent                                  *)

Listed(r) == Norm[r.cs.actor] \in Approvers(r.cs.intent) \ {TimeoutActor}
InKeyedSlot(r) == Listed(r) /\ Norm[r.cs.actor] \in Keyed[r.cs.intent]
IsTimeoutDefault(r) == r.cs.policy = "default" /\ Norm[r.cs.actor] = TimeoutActor

\* Nobody the Intent knows, or not what they can have said.
Misbound(o, r) ==
  \/ ~Listed(r) /\ ~IsTimeoutDefault(r)
  \/ Listed(r) /\ r.cs.policy # "approver"
  \/ IsTimeoutDefault(r) /\ r.cs.decision # DefaultDecision(r.cs.intent)
  \/ IsTimeoutDefault(r) /\ r.stamp < Deadline[r.cs.intent]

\* Signed by another key than the slot calls for.
WrongKey(o, r) ==
  LET own == KeyOf[Norm[r.cs.actor]]
  IN  \/ InKeyedSlot(r) /\ (own \in o.authority \/ ~VerifyCountersignature(r.cs, own))
      \/ ~InKeyedSlot(r) /\ r.cs.key \notin o.authority

\* `trustedKeys` narrows down who may fill a keyed slot; without Intents, anyone.
NotAllowed(o, r) == o.trusted # {} /\ r.cs.key \notin o.trusted

BindingFault(o, r) ==
  IF Misbound(o, r) THEN "untrusted-key"
  ELSE IF o.authority = {} THEN "missing-authority-key"
  ELSE IF WrongKey(o, r) \/ (InKeyedSlot(r) /\ NotAllowed(o, r)) THEN "untrusted-key"
  ELSE "none"

\* Mutant: the signature of a receipt is not checked.
AuditFaultUnsigned(o, r) ==
  IF r.cs.key \in Passkeys /\ ~o.webauthn THEN "missing-webauthn-policy"
  ELSE IF o.intents = {} THEN (IF NotAllowed(o, r) THEN "untrusted-key" ELSE "none")
  ELSE IF r.cs.intent \notin o.intents THEN "unknown-intent"
  ELSE IF ~Authentic(o, r.cs.intent) THEN "unverified-intent"
  ELSE BindingFault(o, r)

(* The fault of a stored receipt, or "none".  A passkey receipt cannot be  *)
(* checked without the policy of the relying party, forged or not.         *)
AuditFault(o, r) ==
  IF r.cs.key \in Passkeys /\ ~o.webauthn THEN "missing-webauthn-policy"
  ELSE IF ~r.intact THEN "invalid-signature"
  ELSE IF o.intents = {} THEN (IF NotAllowed(o, r) THEN "untrusted-key" ELSE "none")
  ELSE IF r.cs.intent \notin o.intents THEN "unknown-intent"
  ELSE IF ~Authentic(o, r.cs.intent) THEN "unverified-intent"
  ELSE BindingFault(o, r)

\* loadAuditData: the label the console puts on a receipt.
SignatureStatus(o, r) ==
  LET reason == AuditFault(o, r)
  IN  IF reason = "none" THEN "valid"
      ELSE IF reason = "missing-webauthn-policy" THEN "unverifiable" ELSE "invalid"
=============================================================================
