------------------------ MODULE MCPendingDecisions ------------------------
(***************************************************************************)
(* Two intents.  `duo` needs two keyed approvers, one of whom has a       *)
(* second spelling of his identity; `solo` needs its vouched approver.     *)
(* Everybody tries to decide both.                                         *)
(***************************************************************************)
EXTENDS PendingDecisions

CONSTANTS solo, duo, ann, bob, BOB, sam, kAnn, kBob, kAuth, kAgent, timeout

MCNorm == [s \in Spellings |-> IF s = BOB THEN bob ELSE s]
MCVouched == [i \in Intents |-> IF i = solo THEN {sam} ELSE {}]
MCKeyed == [i \in Intents |-> IF i = solo THEN {} ELSE {ann, bob}]
MCKeyOf == [a \in Actors |-> CASE a = ann -> kAnn [] a = bob -> kBob [] OTHER -> kAgent]
MCAgentKey == [i \in Intents |-> kAgent]
MCQuorum == [i \in Intents |-> IF i = solo THEN 1 ELSE 2]
MCDefault == [i \in Intents |-> IF i = solo THEN "approve" ELSE "reject"]
MCDeadline == [i \in Intents |-> IF i = duo THEN 1 ELSE 2]
=============================================================================
