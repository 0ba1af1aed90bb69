----------------------------- MODULE MCChannels -----------------------------
(***************************************************************************)
(* Ann may decide both intents; the mailbox is an approver of `pay` only.  *)
(***************************************************************************)
EXTENDS Channels

CONSTANTS pay, wire, ann, mail, kAuth, kAgent, timeout

MCNorm == [s \in Spellings |-> s]
MCVouched == [i \in Intents |-> IF i = pay THEN {ann, mail} ELSE {ann}]
MCKeyed == [i \in Intents |-> {}]
MCKeyOf == [a \in Actors |-> kAgent]
MCAgentKey == [i \in Intents |-> kAgent]
MCQuorum == [i \in Intents |-> 1]
MCDefault == [i \in Intents |-> "reject"]
MCDeadline == [i \in Intents |-> IF i = pay THEN 1 ELSE 2]
MCMaxPresses == [c \in Channel |-> IF c = "poll" THEN 2 ELSE 1]
=============================================================================
