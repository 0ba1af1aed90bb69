---------------------------- MODULE MCEnrollment ----------------------------
(***************************************************************************)
(* Runs that enroll two people, revoke one of them under another spelling  *)
(* of the name, and enroll them again; one run lacks the proof of          *)
(* possession and one uses another organisation's key.  `one` needs ann,   *)
(* `both` needs ann and bob.                                               *)
(***************************************************************************)
EXTENDS Enrollment, TLC

CONSTANTS one, both, ann, ANN, bob, timeout, kAnn, kBob, kAuth, kAgent, kOrg, kOther

MCNorm == [s \in Spellings |-> IF s = ANN THEN ann ELSE s]
MCVouched == [i \in Intents |-> {}]
MCKeyed == [i \in Intents |-> IF i = one THEN {ann} ELSE {ann, bob}]
MCKeyOf == [a \in Actors |-> CASE a = ann -> kAnn [] a = bob -> kBob [] OTHER -> kAgent]
MCAgentKey == [i \in Intents |-> kAgent]
MCQuorum == [i \in Intents |-> Cardinality(Keyed[i])]
MCDefault == [i \in Intents |-> "reject"]
MCDeadline == [i \in Intents |-> 1]

Request(typ, actor, key, proof, org) ==
  [typ |-> typ, actor |-> actor, key |-> key, proof |-> proof, org |-> org]

MCRequests ==
  {Request("enroll", ann, kAnn, kAnn, kOrg), Request("enroll", bob, kBob, kBob, kOrg),
   Request("revoke", ANN, kAnn, kAgent, kOrg),
   Request("enroll", bob, kBob, kAgent, kOrg), Request("revoke", ann, kAnn, kAgent, kOther)}

Symmetry == Permutations(Runs)
=============================================================================
