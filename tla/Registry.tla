------------------------------ MODULE Registry ------------------------------
(***************************************************************************)
(* ApproverRegistry (src/registry.ts): the log of enrollments and          *)
(* revocations that anchors keyed approvers to an organisation.            *)
(*                                                                         *)
(* A record is [typ, actor, key, org, prev]; `prev` is the record it is    *)
(* chained to (SHA-256 is injective), and its signature verifies under the *)
(* key in `org`.  A log is the sequence of the records of a file.          *)
(***************************************************************************)
EXTENDS Countersign, Sequences

CONSTANT NoRecord      \* the null of a first record's `prev`

LastRecord(log) == IF log = <<>> THEN NoRecord ELSE log[Len(log)]

\* head: what is anchored outside the registry.
RegistryHead(log) == [length |-> Len(log), tip |-> LastRecord(log)]

ChainIntact(log, org) ==
  \A k \in 1..Len(log) :
    /\ log[k].org = org
    /\ log[k].prev = IF k = 1 THEN NoRecord ELSE log[k - 1]

\* Mutant: the anchored head is held to its length only.
VerifyChainLengthOnly(log, org, head) ==
  /\ ChainIntact(log, org)
  /\ Len(log) >= head.length

(* verifyChain: the log may have grown since the head was taken.  Without  *)
(* an anchor, the head is that of the empty log, which every log extends.  *)
VerifyChain(log, org, head) ==
  /\ ChainIntact(log, org)
  /\ Len(log) >= head.length
  /\ head.tip = LastRecord(SubSeq(log, 1, head.length))

NoAnchor == RegistryHead(<<>>)

\* activeKeys: the keys whose last record under the actor's name enrolls them.
ActiveKeys(log, actor) ==
  {key \in Keys : \E k \in 1..Len(log) :
     /\ log[k].typ = "enroll"
     /\ log[k].key = key /\ Norm[log[k].actor] = Norm[actor]
     /\ \A n \in (k + 1)..Len(log) :
          ~(log[n].key = key /\ Norm[log[n].actor] = Norm[actor])}

\* enroll and revoke: `q.proof` is the key that signed the proof of possession.
Enrollable(log, q) == q.proof = q.key /\ q.key \notin ActiveKeys(log, q.actor)
Revocable(log, q)  == q.key \in ActiveKeys(log, q.actor)

\* append: one organisation root throughout.
SameRoot(log, q) == log # <<>> => LastRecord(log).org = q.org

NewRecord(log, q) ==
  [typ |-> q.typ, actor |-> q.actor, key |-> q.key, org |-> q.org,
   prev |-> LastRecord(log)]

\* assertApproversEnrolled: TRUE where the code returns, FALSE where it throws.
AssertApproversEnrolled(i, log, org, head) ==
  /\ WellFormed(i)
  /\ org # Authority
  /\ VerifyChain(log, org, head)
  /\ \A a \in Keyed[i] : \E s \in Spellings :
       Norm[s] = a /\ KeyOf[a] \in ActiveKeys(log, s)
=============================================================================
