---------------------------- MODULE ReceiptLog ----------------------------
(***************************************************************************)
(* ReceiptLog (src/receipt-log.ts): the append-only, hash-chained file of  *)
(* receipts a runtime writes before it acts.  Concurrent record() calls    *)
(* are serialised through a promise chain; each write makes the directory, *)
(* recovers the chain head from the file once, and appends its lines.      *)
(* Between any two of these awaits other calls arrive, the process may     *)
(* die, and a reader may checkpoint head().                                *)
(*                                                                         *)
(* The text of the file is that of module JsonLines; an entry is [seq,     *)
(* prev, receipt], and its link hash is the entry itself (SHA-256 is       *)
(* injective).  The file has one writing process, as the class requires.   *)
(* Besides it, the file may be edited by hand: what an auditor makes of    *)
(* that is verifyAll, the walk of the chain here and the verdict on each   *)
(* receipt in module ReceiptAudit.                                         *)
(***************************************************************************)
EXTENDS ReceiptAudit, JsonLines

CONSTANTS
  Calls,        \* names of record() calls
  ReceiptsOf,   \* [Calls -> Seq(Stored)]: resolution.countersignatures
  Genesis,      \* CHAIN_GENESIS
  NoCall, NoHash, \* undefined
  MaxFaults,    \* bound: how many operations fail, processes die or edits are made
  MaxEdits      \* bound: how many of these are edits of the file by hand

VARIABLES
  file,         \* the lines of the file
  terminated,   \* does the file end with a newline?
  queue,        \* the calls waiting on `tail`, in the order they were made
  writer,       \* the write in progress: [pc, call]
  ensuredDir,
  headState,    \* [count, lastHash], or NoHead
  outcome,      \* call -> what became of its promise
  made,         \* history: the calls in the order they were made
  anchor,       \* a head() taken at some point, kept outside
  anchored,     \* history: the entries of the log when it was taken
  faults,       \* history: how many operations have failed
  torn,         \* history: has an append left part of its text behind, other
                \* than whole lines by a process that died?
  edits         \* history: how often the file has been edited by hand

vars == <<file, terminated, queue, writer, ensuredDir, headState, outcome, made,
          anchor, anchored, faults, torn, edits>>

\* The head before it is recovered from the file.
NoHead == [length |-> 0, hash |-> NoHash]

(* A sink is given what verifyResolution accepted, as it was signed; each  *)
(* call has the receipts of an Intent of its own, a Default has one.       *)
ASSUME ReceiptLogAssumption ==
  /\ NoCall \notin Calls /\ NoHash # Genesis
  /\ MaxFaults \in Nat /\ MaxEdits \in Nat
  /\ \A c \in Calls :
       /\ ReceiptsOf[c] \in Seq(Stored)
       /\ \A k \in DOMAIN ReceiptsOf[c] : ReceiptsOf[c][k].intact
       /\ \/ ReceiptsOf[c] = <<>>
          \/ \E i \in Intents, d \in Decisions, p \in Policies :
               /\ p = "default" => Len(ReceiptsOf[c]) = 1
               /\ VerifyResolution(i,
                    [decision |-> d, policy |-> p,
                     receipts |-> {ReceiptsOf[c][k].cs : k \in DOMAIN ReceiptsOf[c]},
                     stamp |-> ReceiptsOf[c][Len(ReceiptsOf[c])].stamp])
  /\ \A a, b \in Calls : a # b =>
       \A j \in DOMAIN ReceiptsOf[a], k \in DOMAIN ReceiptsOf[b] :
         ReceiptsOf[a][j].cs.intent # ReceiptsOf[b][k].cs.intent

Idle == [pc |-> "idle", call |-> NoCall]

Init ==
  /\ file = <<>> /\ terminated = TRUE
  /\ queue = <<>> /\ writer = Idle
  /\ ensuredDir = FALSE /\ headState = NoHead
  /\ outcome = [c \in Calls |-> "none"]
  /\ made = <<>>
  /\ anchor = [length |-> 0, hash |-> Genesis] /\ anchored = <<>>
  /\ faults = 0 /\ torn = FALSE /\ edits = 0

-----------------------------------------------------------------------------
(* The file                                                                *)

Readable == AllParse(file)
Entry(k) == file[k][1].record

\* The head parseLines yields: its length and the hash of the last entry.
FileHead ==
  [length |-> Len(file), hash |-> IF file = <<>> THEN Genesis ELSE Entry(Len(file))]

\* walkChain over the parsed lines, with and without an anchor.
Chained(log) ==
  \A k \in 1..Len(log) :
    /\ log[k].seq = k - 1
    /\ log[k].prev = IF k = 1 THEN Genesis ELSE log[k - 1]

Linked == Chained(Records(file))

MatchesAnchor(a) ==
  /\ Len(file) >= a.length
  /\ a.hash = IF a.length = 0 THEN Genesis ELSE Entry(a.length)

-----------------------------------------------------------------------------
(* record and the queue                                                    *)

\* Mutant: the newest call goes first.
RecordNewestFirst(c) ==
  /\ outcome[c] = "none" /\ ReceiptsOf[c] # <<>>
  /\ made' = Append(made, c)
  /\ queue' = <<c>> \o queue
  /\ outcome' = [outcome EXCEPT ![c] = "pending"]
  /\ UNCHANGED <<file, terminated, writer, ensuredDir, headState, anchor, anchored, faults, torn, edits>>

\* record: a resolution without receipts resolves at once, others queue up.
Record(c) ==
  /\ outcome[c] = "none"
  /\ made' = Append(made, c)
  /\ \/ /\ ReceiptsOf[c] = <<>>
        /\ outcome' = [outcome EXCEPT ![c] = "resolved"]
        /\ UNCHANGED queue
     \/ /\ ReceiptsOf[c] # <<>>
        /\ outcome' = [outcome EXCEPT ![c] = "pending"]
        /\ queue' = Append(queue, c)
  /\ UNCHANGED <<file, terminated, writer, ensuredDir, headState, anchor, anchored, faults, torn, edits>>

\* The write before this one ended, one way or the other: appendChained runs.
Start ==
  /\ writer.pc = "idle"
  /\ queue # <<>>
  /\ writer' = [pc |-> "mkdir", call |-> Head(queue)]
  /\ queue' = Tail(queue)
  /\ UNCHANGED <<file, terminated, ensuredDir, headState, outcome, made, anchor, anchored,
                 faults, torn, edits>>

\* Mutant: `tail` stays rejected, and no later write ever runs.
RejectPoisonsTail ==
  /\ outcome' = [outcome EXCEPT ![writer.call] = "rejected"]
  /\ writer' = [pc |-> "rejected", call |-> NoCall]

\* The call sees its error; `tail` swallows it.
Reject ==
  /\ outcome' = [outcome EXCEPT ![writer.call] = "rejected"]
  /\ writer' = Idle

Fault == faults + edits < MaxFaults /\ faults' = faults + 1

-----------------------------------------------------------------------------
(* appendChained                                                           *)

MakeDir ==
  /\ writer.pc = "mkdir"
  /\ \/ /\ ensuredDir' = TRUE
        /\ writer' = [writer EXCEPT !.pc = "head"]
        /\ UNCHANGED <<outcome, faults>>
     \/ ~ensuredDir /\ Fault /\ Reject /\ UNCHANGED ensuredDir
  /\ UNCHANGED <<file, terminated, queue, headState, made, anchor, anchored, torn, edits>>

\* ensureHead: the cached head, else the one of the file; a line that does
\* not parse, or a read error, rejects the call.
EnsureHead ==
  /\ writer.pc = "head"
  /\ \/ /\ headState # NoHead \/ Readable
        /\ headState' = IF headState # NoHead THEN headState ELSE FileHead
        /\ writer' = [writer EXCEPT !.pc = "append"]
        /\ UNCHANGED <<outcome, faults>>
     \/ headState = NoHead /\ ~Readable /\ Reject /\ UNCHANGED <<headState, faults>>
     \/ headState = NoHead /\ Fault /\ Reject /\ UNCHANGED headState
  /\ UNCHANGED <<file, terminated, queue, ensuredDir, made, anchor, anchored, torn, edits>>

\* The entries a write appends, each linked onto the one before it.
Entries(head, receipts) ==
  LET entry[k \in 1..Len(receipts)] ==
        [seq |-> head.length + k - 1,
         prev |-> IF k = 1 THEN head.hash ELSE entry[k - 1],
         receipt |-> receipts[k]]
  IN  [k \in 1..Len(receipts) |-> entry[k]]

Writing == Entries(headState, ReceiptsOf[writer.call])

WholeAll(entries) == [k \in 1..Len(entries) |-> Whole(entries[k])]

\* Mutant: the cached head is not moved.
AppendSucceedsStaleHead ==
  /\ writer.pc = "append"
  /\ file' = WriteAtEnd(file, terminated, WholeAll(Writing))
  /\ terminated' = TRUE
  /\ outcome' = [outcome EXCEPT ![writer.call] = "resolved"]
  /\ writer' = Idle
  /\ UNCHANGED <<queue, ensuredDir, headState, made, anchor, anchored, faults, torn, edits>>

AppendSucceeds ==
  /\ writer.pc = "append"
  /\ file' = WriteAtEnd(file, terminated, WholeAll(Writing))
  /\ terminated' = TRUE
  /\ headState' = [length |-> headState.length + Len(Writing), hash |-> Writing[Len(Writing)]]
  /\ outcome' = [outcome EXCEPT ![writer.call] = "resolved"]
  /\ writer' = Idle
  /\ UNCHANGED <<queue, ensuredDir, made, anchor, anchored, faults, torn, edits>>

(* An append that did not complete left whole lines only, or some text     *)
(* after the last of them.                                                 *)
LeavesLines == \E left \in CutOffAtLine(file, terminated, WholeAll(Writing)) :
                 file' = left[1] /\ terminated' = left[2]

LeavesText == \E left \in CutOffInside(file, terminated, WholeAll(Writing)) :
                file' = left[1] /\ terminated' = left[2]

\* Mutant: the error of appendFile is swallowed and the call resolves.
AppendFailsSwallowed ==
  /\ writer.pc = "append"
  /\ Fault
  /\ outcome' = [outcome EXCEPT ![writer.call] = "resolved"]
  /\ writer' = Idle
  /\ UNCHANGED <<file, terminated, queue, ensuredDir, headState, made, anchor, anchored, torn, edits>>

\* appendFile throws (a full disk, an I/O error): headState stays as it was.
AppendFails ==
  /\ writer.pc = "append"
  /\ Fault
  /\ LeavesLines \/ LeavesText
  /\ torn' = (torn \/ file' # file)
  /\ Reject
  /\ UNCHANGED <<queue, ensuredDir, headState, made, anchor, anchored, edits>>

-----------------------------------------------------------------------------
(* Crash and restart; the reader                                           *)

\* Mutant: the calls of the dead process stay queued.
CrashKeepsQueue ==
  /\ Fault
  /\ UNCHANGED <<file, terminated, queue, made, anchor, anchored, torn, edits>>
  /\ writer' = Idle
  /\ ensuredDir' = FALSE /\ headState' = NoHead
  /\ outcome' = [c \in Calls |-> IF outcome[c] = "pending" THEN "lost" ELSE outcome[c]]

\* The process dies, maybe amid an append, and a new one opens the same file.
Crash ==
  /\ Fault
  /\ \/ UNCHANGED <<file, terminated, torn>>
     \/ writer.pc = "append" /\ LeavesLines /\ UNCHANGED torn
     \/ writer.pc = "append" /\ LeavesText /\ torn' = TRUE
  /\ queue' = <<>> /\ writer' = Idle
  /\ ensuredDir' = FALSE /\ headState' = NoHead
  /\ outcome' = [c \in Calls |-> IF outcome[c] = "pending" THEN "lost" ELSE outcome[c]]
  /\ UNCHANGED <<made, anchor, anchored, edits>>

\* head(): somebody checkpoints the head outside the writer's reach.
TakeAnchor ==
  /\ Readable
  /\ anchor' = FileHead
  /\ anchored' = Records(file)
  /\ UNCHANGED <<file, terminated, queue, writer, ensuredDir, headState, outcome, made,
                 faults, torn, edits>>

Rechained(entries) ==
  Entries([length |-> 0, hash |-> Genesis],
          [n \in 1..Len(entries) |-> entries[n].receipt])

EditedEntries(k) ==
  LET lost    == SubSeq(Records(file), 1, k - 1) \o SubSeq(Records(file), k + 1, Len(file))
      changed == [Records(file) EXCEPT ![k].receipt.intact = FALSE]
  IN  {lost, Rechained(lost), changed, Rechained(changed)}

(* The file is edited by hand: an entry is lost, or its receipt changed,   *)
(* and the links after it are left alone or computed anew.                 *)
Edit ==
  /\ edits < MaxEdits /\ faults + edits < MaxFaults /\ edits' = edits + 1
  /\ Readable /\ terminated
  /\ \E k \in 1..Len(file) : \E entries \in EditedEntries(k) :
       file' = [n \in 1..Len(entries) |-> <<Whole(entries[n])>>]
  /\ UNCHANGED <<terminated, queue, writer, ensuredDir, headState, outcome, made,
                 anchor, anchored, faults, torn>>

Write == Start \/ MakeDir \/ EnsureHead \/ AppendSucceeds \/ AppendFails

Next ==
  \/ \E c \in Calls : Record(c)
  \/ Start \/ MakeDir \/ EnsureHead \/ AppendSucceeds \/ AppendFails
  \/ Crash
  \/ TakeAnchor
  \/ Edit

Spec == Init /\ [][Next]_vars

\* Every file operation a write awaits returns or throws.
FairSpec == Spec /\ WF_vars(Write)

-----------------------------------------------------------------------------
(* Properties                                                              *)

TypeOK ==
  /\ terminated \in BOOLEAN /\ ensuredDir \in BOOLEAN
  /\ writer.pc \in {"idle", "mkdir", "head", "append"}
  /\ writer.call \in Calls \cup {NoCall}
  /\ writer.call = NoCall <=> writer.pc = "idle"
  /\ writer.pc = "append" => headState # NoHead
  /\ faults \in 0..MaxFaults
  /\ outcome \in [Calls -> {"none", "pending", "resolved", "rejected", "lost"}]
  /\ {c \in Calls : outcome[c] = "pending"} =
       {queue[k] : k \in 1..Len(queue)} \cup ({writer.call} \ {NoCall})

\* Where the receipts of call c begin in the file, if they are there.
RecordedAt(c, k) ==
  LET rs == ReceiptsOf[c]
  IN  /\ k + Len(rs) - 1 <= Len(file)
      /\ \A j \in 1..Len(rs) :
           /\ Parses(file[k + j - 1])
           /\ Entry(k + j - 1).receipt = rs[j]

(* The contract of a ReceiptSink: when record() resolved, all the receipts *)
(* of the resolution are in the log, readable, together and in order.      *)
(* wrapAction runs the guarded function on the strength of it.             *)
AcknowledgedIsRemembered ==
  \A c \in Calls : outcome[c] = "resolved" =>
    \E k \in 1..Len(file) + 1 : RecordedAt(c, k)

Untouched == ~torn /\ edits = 0

(* A log neither torn (by an append cut off after part of its text) nor    *)
(* edited always verifies, after any number of concurrent records,         *)
(* restarts, and writes that failed or died on a line boundary: it reads,  *)
(* its chain is intact, it agrees with every head taken earlier, it holds  *)
(* what was acknowledged, an audit finds no fault, and the console, which  *)
(* has fewer means to verify with, calls none of its receipts invalid.     *)
(* What a torn log still promises is LossIsLoud.                           *)
HonestLogVerifies ==
  Untouched =>
    /\ Readable /\ Linked /\ MatchesAnchor(anchor)
    /\ AcknowledgedIsRemembered
    /\ \A k \in 1..Len(file) :
         /\ AuditFault(FullAudit, Entry(k).receipt) = "none"
         /\ \A webauthn \in BOOLEAN :
              SignatureStatus(ConsoleAudit(webauthn), Entry(k).receipt) # "invalid"

(* Whatever an append was cut off by, a loss is never silent: while the    *)
(* log reads, everything acknowledged is in it, its chain broken or not.   *)
LossIsLoud == edits = 0 /\ Readable => AcknowledgedIsRemembered

(* An audit against a head kept elsewhere catches what was edited by hand: *)
(* when it passes, the log still begins with the entries that head covers, *)
(* and every receipt in it is one that a record() call was given.  Entries *)
(* written since the head was taken may be missing.  (head() does not walk *)
(* the chain: it covers a log only if that log was intact.)                *)
EditsAreCaught ==
  /\ Readable /\ Linked /\ MatchesAnchor(anchor)
  /\ \A k \in 1..Len(file) : AuditFault(FullAudit, Entry(k).receipt) = "none"
  => /\ Chained(anchored) => SubSeq(Records(file), 1, anchor.length) = anchored
     /\ \A k \in 1..Len(file) : \E m \in 1..Len(made) :
          \E n \in DOMAIN ReceiptsOf[made[m]] : ReceiptsOf[made[m]][n] = Entry(k).receipt

(* Write order is call order: the receipts of an earlier call precede      *)
(* those of a later one.                                                   *)
WriteOrder ==
  edits = 0 => \A m, n \in 1..Len(made) : \A j, k \in 1..Len(file) :
    /\ m < n
    /\ ReceiptsOf[made[m]] # <<>> /\ RecordedAt(made[m], j)
    /\ ReceiptsOf[made[n]] # <<>> /\ RecordedAt(made[n], k)
    => j < k

(* No record() hangs: a write that failed does not block the ones queued   *)
(* behind it.                                                              *)
EveryRecordEnds ==
  \A c \in Calls : outcome[c] = "pending" ~> outcome[c] # "pending"
=============================================================================
