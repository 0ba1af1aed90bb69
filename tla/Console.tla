------------------------------ MODULE Console ------------------------------
(***************************************************************************)
(* The console's write path (apps/console/lib/write.ts) on a shared policy *)
(* file.  An admin's browser fetches the head, signs a change against it   *)
(* and submits it; a server process reads the file, validates the log with *)
(* the entry added, reads the file again to compare heads, and replaces    *)
(* it.  One server process handles one submission at a time, but processes *)
(* do not lock each other out: between any two file operations of one,     *)
(* another replaces the file, or a backup is restored.                     *)
(***************************************************************************)
EXTENDS PolicyLog

CONSTANTS
  Servers,       \* server processes, each with an admin's browser
  Submissions,   \* what admins may submit: pairs of a change and the version
                 \* their browser puts into the entry; "0.2" is the current one
  Signers,       \* the keys that can sign in a browser
  Seeds,         \* logs made with the library before the console is used
  MaxLog,        \* bound: the entries of the log
  MaxRestores    \* bound: how often the file is restored from a backup

VARIABLES
  file,      \* policy.jsonl: always a complete log, it is replaced by rename
  server,    \* server -> [pc, head (fetched), log (read), candidate], and as
             \* history seen and checked: the file when the head was fetched
             \* and when the heads were compared
  origin,    \* history: the log the console started from
  restores

vars == <<file, server, origin, restores>>

ASSUME ConsoleAssumption ==
  /\ Signers \subseteq Canonical
  /\ MaxLog \in Nat /\ MaxRestores \in Nat
  /\ \A sub \in Submissions : TypedChange(sub[1])
  /\ \A log \in Seeds : log \in Seq({log[k] : k \in DOMAIN log})
  /\ \A log \in Seeds : \A k \in 1..Len(log) :
       /\ TypedChange(log[k].change)
       /\ CanAppend(SubSeq(log, 1, k - 1), log[k].change, log[k].signer)
       /\ log[k] = SignedEntry(PolicyHead(SubSeq(log, 1, k - 1)), log[k].change,
                               log[k].signer, "0.2")

IdleServer == [pc |-> "idle", head |-> PolicyHead(<<>>), log |-> <<>>, candidate |-> <<>>,
               seen |-> <<>>, checked |-> <<>>]

Init ==
  /\ file \in Seeds
  /\ origin = file
  /\ server = [w \in Servers |-> IdleServer]
  /\ restores = 0

-----------------------------------------------------------------------------
(* What the console accepts                                                *)

\* loadConsoleState shows the log without a fault.
RenderSafe(log) ==
  /\ VerifyChain(log) /\ Foldable(log)
  /\ log # <<>> => log[1].change.org \in Strings
  /\ \A c \in Admins(log) \cup Roles(log) \cup Rules(log) : c.safe

RolesExist(log) == \A r \in Rules(log) : \A id \in r.value.roles : RoleExists(log, r.org, id)

HasUsableAdmin(log) == AdminKeys(log) \cap Canonical # {}

\* Mutant: the roles of the rule that is set, not of every rule, must exist.
ValidTransitionOneWay(log, e) ==
  LET post == Append(log, e)
      c == e.change
  IN  /\ VerifyChain(post) /\ Foldable(post)
      /\ e.version = "0.2"
      /\ c.org \in Strings
      /\ c.kind \in {"admin-add", "role-set", "rule-set"} => c.safe
      /\ c.kind = "admin-add" => c.id \in Canonical
      /\ c.kind = "rule-set" => \A id \in c.value.roles : RoleExists(post, c.org, id)
      /\ c.kind = "role-delete" => RoleExists(log, c.org, c.id)
      /\ c.kind = "rule-delete" => \E r \in Rules(log) : r.id = c.id /\ r.org = c.org
      /\ c.kind = "admin-revoke" => HasUsableAdmin(post)

(* applySignedEntry: the log with the entry verifies and folds, and the    *)
(* change leaves no rule without its roles, nor the org without an admin.  *)
ValidTransition(log, e) ==
  LET post == Append(log, e)
      c == e.change
  IN  /\ VerifyChain(post) /\ Foldable(post)
      /\ e.version = "0.2"
      /\ c.org \in Strings
      /\ c.kind \in {"admin-add", "role-set", "rule-set"} => c.safe
      /\ c.kind = "admin-add" => c.id \in Canonical
      /\ RolesExist(post)
      /\ c.kind = "role-delete" => RoleExists(log, c.org, c.id)
      /\ c.kind = "rule-delete" => \E r \in Rules(log) : r.id = c.id /\ r.org = c.org
      /\ c.kind = "admin-revoke" => HasUsableAdmin(post)

-----------------------------------------------------------------------------
(* The steps of a submission                                               *)

\* policyHead: what the browser signs its entry against.
FetchHead(w) ==
  /\ server[w].pc = "idle"
  /\ Len(file) < MaxLog
  /\ server' = [server EXCEPT ![w] = [IdleServer EXCEPT !.pc = "signing",
                                        !.head = PolicyHead(file), !.seen = file]]
  /\ UNCHANGED <<file, origin, restores>>

\* signPolicyEntry, then applySignedEntry up to its last check of the entry.
Submit(w, c, version, signer) ==
  /\ server[w].pc = "signing"
  /\ Len(file) < MaxLog
  /\ LET e == SignedEntry(server[w].head, c, signer, version)
     IN  server' = [server EXCEPT ![w] =
           IF ValidTransition(file, e)
           THEN [@ EXCEPT !.pc = "validated", !.log = file, !.candidate = Append(file, e)]
           ELSE IdleServer]
  /\ UNCHANGED <<file, origin, restores>>

\* Mutant: only the length of the log is compared.
HeadUnchangedLengthOnly(w) == Len(file) = Len(server[w].log)

HeadUnchanged(w) == PolicyHead(file) = PolicyHead(server[w].log)

\* The optimistic check: the file is read again.
Recheck(w) ==
  /\ server[w].pc = "validated"
  /\ server' = [server EXCEPT ![w] =
       IF HeadUnchanged(w) THEN [@ EXCEPT !.pc = "checked", !.checked = file] ELSE IdleServer]
  /\ UNCHANGED <<file, origin, restores>>

\* The file is replaced by a complete new one, and the admin told "ok" ...
Save(w) ==
  /\ server[w].pc = "checked"
  /\ file' = server[w].candidate
  /\ server' = [server EXCEPT ![w] = IdleServer]
  /\ UNCHANGED <<origin, restores>>

\* ... or a file operation fails or the process dies, and it stays as it is.
GiveUp(w) ==
  /\ server[w].pc # "idle"
  /\ server' = [server EXCEPT ![w] = IdleServer]
  /\ UNCHANGED <<file, origin, restores>>

\* An older copy of the file is put back.
Restore ==
  /\ restores < MaxRestores /\ restores' = restores + 1
  /\ \E n \in Len(origin)..(Len(file) - 1) : file' = SubSeq(file, 1, n)
  /\ UNCHANGED <<server, origin>>

Next ==
  \/ \E w \in Servers :
       \/ FetchHead(w)
       \/ \E sub \in Submissions, s \in Signers : Submit(w, sub[1], sub[2], s)
       \/ Recheck(w)
       \/ Save(w)
       \/ GiveUp(w)
  \/ Restore

Spec == Init /\ [][Next]_vars

-----------------------------------------------------------------------------
(* Properties                                                              *)

IsPrefixOf(s, t) == Len(s) <= Len(t) /\ SubSeq(t, 1, Len(s)) = s

TypeOK ==
  /\ VerifyChain(file) /\ IsPrefixOf(origin, file)
  /\ restores \in 0..MaxRestores
  /\ \A w \in Servers :
       /\ server[w].pc \in {"idle", "signing", "validated", "checked"}
       /\ server[w].pc \in {"validated", "checked"} =>
            /\ IsPrefixOf(server[w].log, server[w].candidate)
            /\ server[w].head = PolicyHead(server[w].log)

(* An organisation the console keeps usable: its pages show the log        *)
(* without a fault, every rule has its roles, and some admin can sign.     *)
Usable(log) == RenderSafe(log) /\ RolesExist(log) /\ HasUsableAdmin(log)

(* Whatever valid changes admins submit, concurrently and from any state   *)
(* they saw, the console never turns a usable policy into one that its own *)
(* pages refuse to show, that has a rule without its roles, or that nobody *)
(* can administer any more.                                                *)
ConsoleKeepsPolicyUsable == origin = <<>> \/ Usable(origin) => file = <<>> \/ Usable(file)

(* In a usable policy every rule is good for an Intent: if its people are  *)
(* enrolled and enough, and the request brings a summary and whatever of   *)
(* action and risk tier the rule leaves open, resolveRule returns, and     *)
(* createIntent accepts what it returns.  It refuses only if two of the    *)
(* people share a key, one has the reserved name, or the request names a   *)
(* risk tier that does not exist: resolveRule looks at none of these.      *)
UsableRulesMakeIntents ==
  Usable(file) =>
    \A r \in Rules(file), q \in Requests :
      LET people == Members(file, RuleNamed(file, r.org, r.value.name))
          f == IntentFields(file, r.org, r.value.name, q)
      IN  /\ \A a \in people : Cardinality(Enrolled[a]) = 1
          /\ Cardinality(people) >= f.quorum
          /\ Given(f.action) /\ Given(f.tier) /\ Given(f.summary)
          => /\ Resolves(file, r.org, r.value.name, q)
             /\ \/ CreatesIntent(f)
                \/ TimeoutActor \in people
                \/ \E a, b \in people : a # b /\ Enrolled[a] = Enrolled[b]
                \/ q.tier \notin Tiers \cup {Unset}

(* No change is lost behind the console's back: whatever was in the file   *)
(* when a server compared heads is still there after its save, and the     *)
(* entry it adds follows exactly the log its admin saw when signing.  (A   *)
(* change saved after that comparison may be lost: there is no lock.)      *)
CheckedChangesKept ==
  [][\A w \in Servers :
       server[w].pc = "checked" /\ file' # file /\ file' = server[w].candidate
       => /\ IsPrefixOf(server[w].checked, file')
          /\ Len(file') = Len(server[w].seen) + 1 /\ IsPrefixOf(server[w].seen, file')]_vars
=============================================================================
