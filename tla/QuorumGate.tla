---------------------------- MODULE QuorumGate ----------------------------
(***************************************************************************)
(* What the pending-decision book-keeping promises, without promises,      *)
(* entries, tombstones or timers: an M-of-N gate with a veto.  Every       *)
(* Intent receives at most one verdict, while its window is open, from its *)
(* listed approvers: `reject` on the first veto, `approve` when Quorum     *)
(* distinct identities have approved within one request.                   *)
(***************************************************************************)
EXTENDS Naturals, FiniteSets

CONSTANTS Intents, Listed, Quorum, Deadline

VARIABLES
  clock,
  votes,     \* [Intents -> set of identities that have approved so far]
  verdict    \* [Intents -> {} while undecided, or {the decision}]

vars == <<clock, votes, verdict>>

Open(i) == clock < Deadline[i] /\ verdict[i] = {}

Init ==
  /\ clock = 0
  /\ votes   = [i \in Intents |-> {}]
  /\ verdict = [i \in Intents |-> {}]

\* One more approver, who completes the quorum or does not.
Approve(i, a) ==
  LET approvers == votes[i] \cup {a}
  IN  /\ Open(i)
      /\ \/ /\ Cardinality(approvers) >= Quorum[i]
            /\ verdict' = [verdict EXCEPT ![i] = {"approve"}]
            /\ votes'   = [votes EXCEPT ![i] = {}]
         \/ /\ Cardinality(approvers) < Quorum[i]
            /\ votes' = [votes EXCEPT ![i] = approvers]
            /\ UNCHANGED verdict
      /\ UNCHANGED clock

Veto(i) ==
  /\ Open(i)
  /\ verdict' = [verdict EXCEPT ![i] = {"reject"}]
  /\ votes'   = [votes EXCEPT ![i] = {}]
  /\ UNCHANGED clock

\* A request ends undecided (cancelled, or its window closed): votes are lost.
Withdraw(i) ==
  /\ votes' = [votes EXCEPT ![i] = {}]
  /\ UNCHANGED <<clock, verdict>>

\* The component is shut down and starts afresh.
Reset ==
  /\ votes'   = [i \in Intents |-> {}]
  /\ verdict' = [i \in Intents |-> {}]
  /\ UNCHANGED clock

Tick == clock' \in Nat /\ clock' > clock /\ UNCHANGED <<votes, verdict>>

Next ==
  \/ \E i \in Intents : Veto(i) \/ Withdraw(i) \/ \E a \in Listed[i] : Approve(i, a)
  \/ Reset
  \/ Tick

Spec == Init /\ [][Next]_vars
=============================================================================
