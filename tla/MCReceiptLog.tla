---------------------------- MODULE MCReceiptLog ----------------------------
(***************************************************************************)
(* Four record() calls: `quorum`, the approvals of two keyed people, one   *)
(* of them (bob) with a passkey; `veto`, the refusal of a vouched          *)
(* approver; `silence`, the Default of an intent with a quorum of two; and *)
(* `nothing`, a resolution without receipts.  Each has an intent of its    *)
(* own, named after it.                                                    *)
(***************************************************************************)
EXTENDS ReceiptLog

CONSTANTS quorum, veto, silence, nothing, sam, ann, ANN, bob, timeout,
          kAnn, kBob, kAuth, kAgent

MCNorm == [s \in Spellings |-> IF s = ANN THEN ann ELSE s]
MCVouched == [i \in Intents |-> IF i = veto THEN {sam} ELSE {}]
MCKeyed == [i \in Intents |-> IF i = veto THEN {} ELSE {ann, bob}]
MCKeyOf == [a \in Actors |-> CASE a = ann -> kAnn [] a = bob -> kBob [] OTHER -> kAgent]
MCAgentKey == [i \in Intents |-> kAgent]
MCQuorum == [i \in Intents |-> IF i = veto THEN 1 ELSE 2]
MCDefault == [i \in Intents |-> IF i = veto THEN "approve" ELSE "reject"]
MCDeadline == [i \in Intents |-> 3]

Signed(i, d, actor, key, t) == Store(SignDecision(i, d, actor, key, "approver"), t)

MCReceiptsOf == [c \in Calls |->
  CASE c = quorum  -> <<Signed(quorum, "approve", ANN, kAnn, 1),
                        Signed(quorum, "approve", bob, kBob, 2)>>
    [] c = veto    -> <<Signed(veto, "reject", sam, kAuth, 2)>>
    [] c = silence -> <<Store(SignDecision(silence, "reject", timeout, kAuth, "default"), 3)>>
    [] OTHER       -> <<>>]
=============================================================================
