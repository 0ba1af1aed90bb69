----------------------------- MODULE MCConsole -----------------------------
(***************************************************************************)
(* An org with an admin, a second one who may be added and revoked, and    *)
(* one whose key is an alias nobody can sign with here; a role and two     *)
(* rules for it, of one name.  The console starts                          *)
(* from nothing, or from a log made with the library in which the root     *)
(* admin added a second one under an alias.                                *)
(***************************************************************************)
EXTENDS Console, TLC

CONSTANTS acme, objectOrg, root, deputy, alias, finance, refund, payout,
          ann, ANN, bob, timeout, kAnn, kBob, kAgent, kAuth

MCNorm == [s \in Spellings |-> IF s = ANN THEN ann ELSE s]
MCEnrolled == [a \in Actors |-> CASE a = ann -> {kAnn} [] a = bob -> {kBob} [] OTHER -> {}]

Change(kind, org, id, safe, value) ==
  [kind |-> kind, org |-> org, id |-> id, safe |-> safe, value |-> value]
Nothing == "none"
\* The rule of both names, which may leave action and tier to the request.
Rule(quorum, default, timeout_seconds, action, tier) ==
  [name |-> "refund", roles |-> {finance}, quorum |-> quorum, default |-> default,
   timeout |-> timeout_seconds, action |-> action, tier |-> tier]
SetRule(id, rule) == Change("rule-set", acme, id, TRUE, rule)

Request(action, tier, summary) == [action |-> action, tier |-> tier, summary |-> summary]
MCRequests ==
  {Request(Unset, Unset, "order 7"), Request("transfer", "low", "order 7"),
   Request("", Unset, "order 7"), Request("transfer", "severe", "order 7"),
   Request("transfer", "low", "")}

AddAdmin(key) == Change("admin-add", acme, key, TRUE, Nothing)

MCChanges ==
  {AddAdmin(root), AddAdmin(deputy), AddAdmin(alias),
   Change("admin-add", objectOrg, root, TRUE, Nothing),
   Change("admin-revoke", acme, root, TRUE, Nothing),
   Change("role-set", acme, finance, TRUE, {ANN, bob}),
   Change("role-set", acme, finance, TRUE, {ann, ANN}),
   Change("role-set", acme, finance, FALSE, {ann, bob}),
   Change("role-delete", acme, finance, TRUE, Nothing),
   SetRule(refund, Rule(2, "reject", 60, "refund", "high")),
   SetRule(refund, Rule(2, "approve", 60, "refund", "high")),
   SetRule(refund, Rule(2, "reject", MaxTimeoutSeconds + 1, "refund", "high")),
   SetRule(refund, Rule(2, "reject", 60, "refund", "severe")),
   SetRule(payout, Rule(1, "approve", MaxTimeoutSeconds, Unset, Unset)),
   Change("rule-delete", acme, payout, TRUE, Nothing),
   Change("unknown", acme, finance, TRUE, Nothing)}

MCSubmissions == (MCChanges \X {"0.2"}) \cup {<<AddAdmin(deputy), "0.1">>}

Genesis == SignedEntry(PolicyHead(<<>>), AddAdmin(root), root, "0.2")
MCSeeds ==
  {<<>>,
   <<Genesis, SignedEntry(PolicyHead(<<Genesis>>), AddAdmin(alias), root, "0.2")>>}

Symmetry == Permutations(Servers)
=============================================================================
