----------------------------- MODULE Enrollment -----------------------------
(***************************************************************************)
(* The enroll CLI (scripts/enroll.ts) on a shared registry file.  A run of *)
(* it reads the file, verifies it under the organisation key it was given, *)
(* and appends one record.  Runs do not lock each other out: between the   *)
(* read and the append of one, others append, die amid an append, or the   *)
(* file is replaced by a backup.  A run is one process; whatever it does   *)
(* between two file operations is one step.                                *)
(***************************************************************************)
EXTENDS Registry, JsonLines

CONSTANTS
  Runs,          \* runs of the CLI
  Requests,      \* what they are asked for: records [typ, actor, key, proof, org]
  Org,           \* the organisation root verifiers trust
  NoRequest,
  MaxDeaths,     \* bound: how many runs die amid their append
  MaxLosses      \* bound: how often records of the file are lost

VARIABLES
  lines, terminated,   \* the registry file (JsonLines)
  cli,         \* run -> [pc, request, registry, open]: the log it loaded,
               \* and whether the file it read lacked its last newline
  anchor,      \* registry.head() at some point, kept outside
  anchored,    \* history: the log when it was taken
  losses, deaths

vars == <<lines, terminated, cli, anchor, anchored, losses, deaths>>

ASSUME EnrollmentAssumption ==
  /\ NoRequest \notin Requests
  /\ \A q \in Requests :
       /\ q.typ \in {"enroll", "revoke"}
       /\ q.actor \in Spellings /\ {q.key, q.proof, q.org} \subseteq Keys
  /\ Org \in Keys \ {Authority}
  /\ MaxDeaths \in Nat /\ MaxLosses \in Nat

NotRun == [pc |-> "none", request |-> NoRequest, registry |-> <<>>, open |-> FALSE]
Dead   == [NotRun EXCEPT !.pc = "died"]

Init ==
  /\ lines = <<>> /\ terminated = TRUE
  /\ cli = [p \in Runs |-> NotRun]
  /\ anchor = NoAnchor /\ anchored = <<>>
  /\ losses = 0 /\ deaths = 0

-----------------------------------------------------------------------------
(* The CLI                                                                 *)

\* Mutant: the registry that was read is not verified.
AcceptableUnverified(log, q) ==
  IF q.typ = "revoke" THEN Revocable(log, q) ELSE Enrollable(log, q)

Acceptable(log, q) ==
  /\ log # <<>> => VerifyChain(log, q.org, NoAnchor)
  /\ SameRoot(log, q)
  /\ IF q.typ = "revoke" THEN Revocable(log, q) ELSE Enrollable(log, q)

\* The read, and every check on what was read.
Load(p, q) ==
  /\ cli[p].pc = "none"
  /\ AllParse(lines)
  /\ Acceptable(Records(lines), q)
  /\ cli' = [cli EXCEPT ![p] = [pc |-> "append", request |-> q,
                                registry |-> Records(lines),
                                open |-> lines # <<>> /\ ~terminated]]
  /\ UNCHANGED <<lines, terminated, anchor, anchored, losses, deaths>>

Refuse(p, q) ==
  /\ cli[p].pc = "none"
  /\ ~AllParse(lines) \/ ~Acceptable(Records(lines), q)
  /\ cli' = [cli EXCEPT ![p] = Dead]
  /\ UNCHANGED <<lines, terminated, anchor, anchored, losses, deaths>>

RecordOf(p) == NewRecord(cli[p].registry, cli[p].request)

\* Mutant: the file is taken to end in a newline.
SeparatedNever(p) == FALSE

\* sep: the line is set off from what was there when the file was read.
Separated(p) == cli[p].open

\* Mutant: the whole registry is written anew.
WriteRecordRewrites(p) ==
  /\ cli[p].pc = "append"
  /\ lines' = [k \in 1..Len(cli[p].registry) |-> <<Whole(cli[p].registry[k])>>]
                \o <<<<Whole(RecordOf(p))>>>>
  /\ terminated' = TRUE
  /\ cli' = [cli EXCEPT ![p].pc = "reported"]
  /\ UNCHANGED <<anchor, anchored, losses, deaths>>

(* The append, and the report on standard output.  A separator in front of *)
(* a line that starts on its own makes a blank line, which readers skip.   *)
WriteRecord(p) ==
  /\ cli[p].pc = "append"
  /\ lines' = WriteAtEnd(lines, terminated \/ Separated(p), <<Whole(RecordOf(p))>>)
  /\ terminated' = TRUE
  /\ cli' = [cli EXCEPT ![p].pc = "reported"]
  /\ UNCHANGED <<anchor, anchored, losses, deaths>>

\* The run dies amid the append: nothing, part or all of its text is there.
Die(p) ==
  /\ cli[p].pc = "append"
  /\ deaths < MaxDeaths /\ deaths' = deaths + 1
  /\ \E started \in {terminated, terminated \/ Separated(p)} :
     \E left \in CutOffAtLine(lines, started, <<Whole(RecordOf(p))>>)
                 \cup CutOffInside(lines, started, <<Whole(RecordOf(p))>>) :
       lines' = left[1] /\ terminated' = left[2]
  /\ cli' = [cli EXCEPT ![p] = Dead]
  /\ UNCHANGED <<anchor, anchored, losses>>

-----------------------------------------------------------------------------
(* The file and its readers                                                *)

\* Some records are lost: an older copy is restored, or lines are cut out.
Lose ==
  /\ losses < MaxLosses /\ losses' = losses + 1
  /\ AllParse(lines)
  /\ \E j \in 1..Len(lines), k \in 1..Len(lines) :
       /\ j <= k
       /\ lines' = SubSeq(lines, 1, j - 1) \o SubSeq(lines, k + 1, Len(lines))
  /\ terminated' = TRUE
  /\ UNCHANGED <<cli, anchor, anchored, deaths>>

\* head(): somebody checkpoints the registry outside the writers' reach.
TakeAnchor ==
  /\ AllParse(lines)
  /\ anchored' = Records(lines)
  /\ anchor' = RegistryHead(Records(lines))
  /\ UNCHANGED <<lines, terminated, cli, losses, deaths>>

Next ==
  \/ \E p \in Runs, q \in Requests : Load(p, q) \/ Refuse(p, q)
  \/ \E p \in Runs : WriteRecord(p) \/ Die(p)
  \/ Lose
  \/ TakeAnchor

Spec == Init /\ [][Next]_vars

-----------------------------------------------------------------------------
(* Properties                                                              *)

Reads == AllParse(lines)
Verifies == Reads /\ ChainIntact(Records(lines), Org)

TypeOK ==
  /\ terminated \in BOOLEAN
  /\ \A k \in 1..Len(lines) : lines[k] # <<>>
  /\ lines = <<>> => terminated
  /\ \A p \in Runs :
       /\ cli[p].pc \in {"none", "append", "reported", "died"}
       /\ cli[p].request \in Requests <=> cli[p].pc \in {"append", "reported"}
       /\ cli[p].registry # <<>> => ChainIntact(cli[p].registry, cli[p].request.org)
  /\ losses \in 0..MaxLosses /\ deaths \in 0..MaxDeaths

(* Other runs never make a reported change vanish silently: whatever they  *)
(* did between its read and its append, a registry that lost no records    *)
(* and still reads and verifies contains its record.  (One that lost its   *)
(* tail verifies without it; that takes an anchor to notice.)              *)
ReportedChangesStand ==
  losses = 0 /\ Verifies =>
    \A p \in Runs : cli[p].pc = "reported" =>
      \E k \in 1..Len(lines) : Records(lines)[k] = RecordOf(p)

(* An anchored revocation holds: when assertApproversEnrolled passes with  *)
(* the head of a log that verified, every keyed approver's key was active  *)
(* in that log, or the organisation enrolled it afterwards.  Records lost, *)
(* forked or restored never bring a key back.  (head() does not verify,    *)
(* and the head of a forked log covers no more than its last record.)      *)
AnchoredRevocationHolds ==
  \A i \in Intents, org \in Keys :
    /\ ChainIntact(anchored, org)
    /\ Reads /\ AssertApproversEnrolled(i, Records(lines), org, anchor)
    =>
      \A a \in Keyed[i] :
        \/ \E s \in Spellings : Norm[s] = a /\ KeyOf[a] \in ActiveKeys(anchored, s)
        \/ \E k \in (Len(anchored) + 1)..Len(lines) :
             LET rec == Records(lines)[k]
             IN  rec.typ = "enroll" /\ Norm[rec.actor] = a /\ rec.key = KeyOf[a]

(* A run that nobody interfered with leaves a registry that reads and      *)
(* verifies, with its record last and in force, even after a run that died *)
(* before writing its newline.                                             *)
SoloRunSucceeds ==
  [][\A p \in Runs :
       /\ cli[p].pc = "append" /\ cli'[p].pc = "reported"
       /\ Reads /\ Records(lines) = cli[p].registry
       /\ cli[p].open = (lines # <<>> /\ ~terminated)
       => /\ AllParse(lines')
          /\ ChainIntact(Records(lines'), cli[p].request.org)
          /\ (cli[p].request.key \in ActiveKeys(Records(lines'), cli[p].request.actor)
                <=> cli[p].request.typ = "enroll")]_vars
=============================================================================
