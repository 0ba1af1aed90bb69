----------------------------- MODULE PolicyLog -----------------------------
(***************************************************************************)
(* PolicyLog (src/policy/log.ts): the signed, hash-chained log of an       *)
(* organisation's admins, roles and rules; and resolveRule                 *)
(* (src/policy/resolve.ts), which turns a rule into the fields of an       *)
(* Intent.                                                                 *)
(*                                                                         *)
(* An entry is [seq, prev, change, signer, version]; `prev` is the entry   *)
(* it is chained to (SHA-256 is injective) and the key that signed it is   *)
(* its signer.  A change is [kind, org, id, safe, value]: `id` is the key  *)
(* of an admin change, else the id of the role or rule; `safe` tells       *)
(* whether its optional fields are strings; `value` is the members of a    *)
(* role, or [name, roles, quorum, default, timeout, action, tier] of a     *)
(* rule.  A request is [action, tier, summary].                            *)
(***************************************************************************)
EXTENDS Naturals, FiniteSets, Sequences

CONSTANTS
  Actors, Spellings, Norm, TimeoutActor,   \* as in module Countersign
  Keys, Agent, Authority,
  Enrolled,      \* registry.activeKeyMap(): [Actors -> SUBSET Keys]
  Canonical,     \* the admin keys in their canonical encoding
  Strings,       \* the orgs that are strings; others equal nothing once reloaded
  Requests,      \* what agents ask of a rule
  Unset,         \* an optional field left out
  NoEntry        \* the null of the genesis entry's `prev`

Tiers == {"low", "medium", "high", "critical"}

MaxTimeoutSeconds == 2147483

ASSUME PolicyLogAssumption ==
  /\ Norm \in [Spellings -> Actors]
  /\ Enrolled \in [Actors -> SUBSET Keys]
  /\ \A a \in Actors : IsFiniteSet(Enrolled[a])
  /\ Unset \notin Tiers \cup {""}

\* The types of a change's fields, as far as they are looked at.
TypedChange(c) ==
  /\ c.kind = "role-set" => c.value \subseteq Spellings
  /\ c.kind = "rule-set" => c.value.quorum \in Nat

LastEntry(log) == IF log = <<>> THEN NoEntry ELSE log[Len(log)]

\* head
PolicyHead(log) == [length |-> Len(log), tip |-> LastEntry(log)]

-----------------------------------------------------------------------------
(* foldState: what was set under an id and neither set again nor removed   *)

Live(log, set, remove) ==
  {k \in 1..Len(log) :
     /\ log[k].change.kind = set
     /\ \A n \in (k + 1)..Len(log) :
          ~(log[n].change.kind \in {set, remove} /\ log[n].change.id = log[k].change.id)}

State(log, set, remove) == {log[k].change : k \in Live(log, set, remove)}

Admins(log) == State(log, "admin-add", "admin-revoke")
Roles(log)  == State(log, "role-set", "role-delete")
Rules(log)  == State(log, "rule-set", "rule-delete")

AdminKeys(log) == {a.id : a \in Admins(log)}

Kinds == {"admin-add", "admin-revoke", "role-set", "role-delete", "rule-set", "rule-delete"}

\* foldState throws on any other kind of change.
Foldable(log) == \A k \in 1..Len(log) : log[k].change.kind \in Kinds

-----------------------------------------------------------------------------
(* What a change must satisfy                                              *)

ValidRole(c) ==
  /\ c.org \in Strings
  /\ c.value # {}
  /\ \A m, n \in c.value : Norm[m] = Norm[n] => m = n

\* Mutant: silence may approve for any quorum.
ValidRuleSilenceApproves(c) ==
  /\ c.org \in Strings
  /\ c.value.roles # {}
  /\ c.value.quorum >= 1 /\ c.value.timeout \in 1..MaxTimeoutSeconds
  /\ c.value.default \in {"approve", "reject"}
  /\ c.value.tier \in Tiers \cup {Unset}

ValidRule(c) ==
  /\ c.org \in Strings
  /\ c.value.roles # {}
  /\ c.value.quorum >= 1 /\ c.value.timeout \in 1..MaxTimeoutSeconds
  /\ c.value.default \in {"approve", "reject"}
  /\ c.value.tier \in Tiers \cup {Unset}
  /\ c.value.quorum > 1 => c.value.default = "reject"

SameOrg(a, b) == a = b /\ a \in Strings

\* append: a library user's change, checked against the state before it.
CanAppend(log, c, signer) ==
  /\ IF log = <<>>
     THEN c.kind = "admin-add" /\ c.id = signer
     ELSE SameOrg(c.org, log[1].change.org) /\ signer \in AdminKeys(log)
  /\ c.kind \in Kinds
  /\ c.kind = "admin-add" => c.id \notin AdminKeys(log)
  /\ c.kind = "admin-revoke" => c.id \in AdminKeys(log) /\ Cardinality(AdminKeys(log)) > 1
  /\ c.kind = "role-set" => ValidRole(c)
  /\ c.kind = "rule-set" => ValidRule(c)
  /\ c.kind = "role-delete" => \E r \in Roles(log) : r.id = c.id
  /\ c.kind = "rule-delete" => \E r \in Rules(log) : r.id = c.id

SignedEntry(head, c, signer, version) ==
  [seq |-> head.length, prev |-> head.tip, change |-> c, signer |-> signer,
   version |-> version]

-----------------------------------------------------------------------------
(* verifyChain: of a whole log.  It does not look at what a delete removes *)
(* nor at the kind or the version of an entry.                             *)

\* Mutant: the link to the entry before is not checked.
EntryVerifiesUnlinked(before, e) ==
  /\ e.seq = Len(before)
  /\ IF before = <<>>
     THEN e.change.kind = "admin-add" /\ e.change.id = e.signer
     ELSE e.signer \in AdminKeys(before) /\ SameOrg(e.change.org, before[1].change.org)
  /\ e.change.kind = "admin-add" => e.change.id \notin AdminKeys(before)
  /\ e.change.kind = "admin-revoke" =>
       e.change.id \in AdminKeys(before) /\ Cardinality(AdminKeys(before)) > 1
  /\ e.change.kind = "role-set" => ValidRole(e.change)
  /\ e.change.kind = "rule-set" => ValidRule(e.change)

EntryVerifies(before, e) ==
  /\ e.seq = Len(before)
  /\ e.prev = LastEntry(before)
  /\ IF before = <<>>
     THEN e.change.kind = "admin-add" /\ e.change.id = e.signer
     ELSE e.signer \in AdminKeys(before) /\ SameOrg(e.change.org, before[1].change.org)
  /\ e.change.kind = "admin-add" => e.change.id \notin AdminKeys(before)
  /\ e.change.kind = "admin-revoke" =>
       e.change.id \in AdminKeys(before) /\ Cardinality(AdminKeys(before)) > 1
  /\ e.change.kind = "role-set" => ValidRole(e.change)
  /\ e.change.kind = "rule-set" => ValidRule(e.change)

VerifyChain(log) == \A k \in 1..Len(log) : EntryVerifies(SubSeq(log, 1, k - 1), log[k])

-----------------------------------------------------------------------------
(* resolveRule                                                             *)

RoleExists(log, org, id) == \E r \in Roles(log) : r.id = id /\ r.org = org

\* Where an id entered the state: a later set of the same id keeps its place.
EnteredAt(log, id) ==
  CHOOSE k \in 1..Len(log) :
    /\ log[k].change.kind = "rule-set" /\ log[k].change.id = id
    /\ \A n \in 1..Len(log) :
         /\ log[n].change.id = id
         => /\ log[n].change.kind = "rule-delete" => n < k
            /\ log[n].change.kind = "rule-set" /\ n < k =>
                 \E d \in n..k : log[d].change.kind = "rule-delete" /\ log[d].change.id = id

\* getRule: names are not unique; the rule that entered first is meant.
RulesNamed(log, org, name) == {r \in Rules(log) : r.org = org /\ r.value.name = name}
RuleNamed(log, org, name) ==
  CHOOSE r \in RulesNamed(log, org, name) :
    \A s \in RulesNamed(log, org, name) : EnteredAt(log, r.id) <= EnteredAt(log, s.id)

Members(log, rule) ==
  {Norm[m] : m \in UNION {r.value : r \in {s \in Roles(log) :
                            s.id \in rule.value.roles /\ s.org = rule.org}}}

\* Neither left out nor the empty string.
Given(x) == x \notin {Unset, ""}

\* A field of the request, even an empty one, overrides the rule's.
Effective(requested, ruled) == IF requested = Unset THEN ruled ELSE requested

\* The IntentFields resolveRule returns: the approvers, all keyed, with their one key.
IntentFields(log, org, name, q) ==
  LET rule == RuleNamed(log, org, name)
  IN  [approvers |-> Members(log, rule), quorum |-> rule.value.quorum,
       default |-> rule.value.default, timeout |-> rule.value.timeout,
       action |-> Effective(q.action, rule.value.action),
       tier |-> Effective(q.tier, rule.value.tier), summary |-> q.summary]

\* TRUE where resolveRule returns, FALSE where it throws.  A request's tier
\* may be any text.
Resolves(log, org, name, q) ==
  /\ VerifyChain(log)
  /\ RulesNamed(log, org, name) # {}
  /\ LET rule == RuleNamed(log, org, name)
         f == IntentFields(log, org, name, q)
     IN  /\ ValidRule(rule)
         /\ \A id \in rule.value.roles : RoleExists(log, org, id)
         /\ f.approvers # {}
         /\ Cardinality(f.approvers) >= f.quorum
         /\ \A a \in f.approvers : Cardinality(Enrolled[a]) = 1
         /\ Given(f.action) /\ Given(f.tier) /\ Given(f.summary)

\* The protocol core with the one Intent such fields make.
AsIntent(f) == INSTANCE Countersign WITH
  Intents  <- {f},
  Vouched  <- [i \in {f} |-> {}],
  Keyed    <- [i \in {f} |-> f.approvers],
  KeyOf    <- [a \in Actors |-> CHOOSE k \in Keys : k \in Enrolled[a]],
  AgentKey <- [i \in {f} |-> Agent],
  Quorum   <- [i \in {f} |-> f.quorum],
  Default  <- [i \in {f} |-> f.default],
  Deadline <- [i \in {f} |-> f.timeout]

\* createIntent of such fields does not throw, for an agent with a valid identity.
CreatesIntent(f) ==
  /\ Given(f.action) /\ Given(f.summary)
  /\ f.tier \in Tiers
  /\ f.timeout \in 1..MaxTimeoutSeconds
  /\ AsIntent(f)!WellFormed(f)
=============================================================================
