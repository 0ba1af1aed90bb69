-------------------------- MODULE MCSigningLinks --------------------------
(***************************************************************************)
(* Two passkey approvers.  `pay` goes ahead on silence or on either        *)
(* approver's word; `wire` needs both and is refused on silence.           *)
(***************************************************************************)
EXTENDS SigningLinks, TLC

CONSTANTS pay, wire, ann, bob, kAnn, kBob, kAuth, kAgent, timeout

MCNorm == [s \in Spellings |-> s]
MCVouched == [i \in Intents |-> {}]
MCKeyed == [i \in Intents |-> {ann, bob}]
MCKeyOf == [a \in Actors |-> CASE a = ann -> kAnn [] a = bob -> kBob [] OTHER -> kAgent]
MCAgentKey == [i \in Intents |-> kAgent]
MCQuorum == [i \in Intents |-> IF i = pay THEN 1 ELSE 2]
MCDefault == [i \in Intents |-> IF i = pay THEN "approve" ELSE "reject"]
MCDeadline == [i \in Intents |-> IF i = pay THEN 1 ELSE 2]

CallerSymmetry == Permutations(Callers)
=============================================================================
