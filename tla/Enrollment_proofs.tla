------------------------- MODULE Enrollment_proofs -------------------------
(***************************************************************************)
(* Proofs about the enroll CLI and the registry it appends to.             *)
(***************************************************************************)
EXTENDS Enrollment, LogLemmas

(* What the other invariants rest on: the file is lines of pieces, a run   *)
(* is a record of four fields, and an anchor is the head of `anchored`.    *)
Shape ==
  /\ IsFile(lines)
  /\ cli = [p \in Runs |-> [pc |-> cli[p].pc, request |-> cli[p].request,
                            registry |-> cli[p].registry, open |-> cli[p].open]]
  /\ \A p \in Runs : IsSeq(cli[p].registry) /\ cli[p].open \in BOOLEAN
  /\ IsSeq(anchored) /\ anchor = RegistryHead(anchored)

IInv == TypeOK /\ Shape

LEMMA InitIInv == Init => IInv
  <1> SUFFICES ASSUME Init  PROVE IInv  OBVIOUS
  <1> USE DEF Init
  <1>1. lines = <<>> /\ Len(<<>>) = 0 /\ IsSeq(<<>>)  BY EmptyFacts
  <1>2. \A p \in Runs : cli[p] = NotRun  OBVIOUS
  <1>3. TypeOK
    <2>1. MaxLosses \in Nat /\ MaxDeaths \in Nat /\ NoRequest \notin Requests
      BY EnrollmentAssumption
    <2> QED  BY <1>1, <1>2, <2>1 DEF TypeOK, NotRun
  <1>4. Shape
    <2>1. IsFile(lines)  BY <1>1 DEF IsFile
    <2>2. cli = [p \in Runs |-> [pc |-> cli[p].pc, request |-> cli[p].request,
                                registry |-> cli[p].registry, open |-> cli[p].open]]
      BY DEF NotRun
    <2>3. \A p \in Runs : IsSeq(cli[p].registry) /\ cli[p].open \in BOOLEAN
      BY <1>1, <1>2 DEF NotRun
    <2> QED  BY <1>1, <2>1, <2>2, <2>3 DEF Shape, NoAnchor
  <1> QED  BY <1>3, <1>4 DEF IInv

-----------------------------------------------------------------------------
(* What each step does to the file                                         *)

(* Amid an append, the file ends in a newline or has lines. *)
LEMMA StartedFile ==
  ASSUME IInv, NEW p \in Runs
  PROVE  lines = <<>> => (terminated \/ Separated(p))
  BY DEF IInv, TypeOK

OnePiece(p) == <<Whole(RecordOf(p))>>

(* The one line a run writes.                                              *)
LEMMA OnePieceFacts ==
  ASSUME NEW p
  PROVE  /\ IsSeq(OnePiece(p)) /\ Len(OnePiece(p)) = 1
         /\ OnePiece(p)[1] = Whole(RecordOf(p)) /\ OnePiece(p) # <<>>
  BY SingletonFacts DEF OnePiece

(* A run's append writes its record at the end of the file, as it is by    *)
(* then.                                                                   *)
LEMMA WriteStep ==
  ASSUME IInv, NEW p \in Runs, WriteRecord(p)
  PROVE  /\ IsFile(lines') /\ lines' # <<>>
         /\ lines' = WriteAtEnd(lines, terminated \/ Separated(p), OnePiece(p))
  <1>1. IsFile(lines)  BY DEF IInv, Shape
  <1>2. lines' = WriteAtEnd(lines, terminated \/ Separated(p), OnePiece(p))
    BY DEF WriteRecord, OnePiece
  <1>3. IsSeq(OnePiece(p)) /\ OnePiece(p) # <<>>  BY OnePieceFacts
  <1> QED  BY <1>1, <1>2, <1>3, StartedFile, WriteKeepsFile, WriteIsNotEmpty

(* A run that dies writes its record, a part of it, or nothing.            *)
LEMMA DieStep ==
  ASSUME IInv, NEW p \in Runs, Die(p)
  PROVE  /\ IsFile(lines') /\ terminated' \in BOOLEAN /\ (lines' = <<>> => terminated')
         /\ \E t, ps : /\ t \in BOOLEAN /\ (lines = <<>> => t)
                       /\ IsSeq(ps) /\ lines' = WriteAtEnd(lines, t, ps)
                       /\ (\A k \in 1..Len(ps) : ps[k].whole) =>
                            \E m \in 0..Len(OnePiece(p)) : ps = SubSeq(OnePiece(p), 1, m)
  <1>1. IsFile(lines) /\ terminated \in BOOLEAN /\ cli[p].open \in BOOLEAN
    BY DEF IInv, Shape, TypeOK
  <1>2. PICK started \in {terminated, terminated \/ Separated(p)} :
          \E left \in CutOffAtLine(lines, started, OnePiece(p))
                      \cup CutOffInside(lines, started, OnePiece(p)) :
            lines' = left[1] /\ terminated' = left[2]
    BY DEF Die, OnePiece
  <1>3. PICK left \in CutOffAtLine(lines, started, OnePiece(p))
                      \cup CutOffInside(lines, started, OnePiece(p)) :
          lines' = left[1] /\ terminated' = left[2]
    BY <1>2
  <1>4. started \in BOOLEAN  BY <1>1 DEF Separated
  <1>5. lines = <<>> => started  BY <1>1 DEF IInv, TypeOK
  <1>6. IsSeq(OnePiece(p))  BY OnePieceFacts
  <1>7. /\ left[2] \in BOOLEAN /\ (left[1] = <<>> => left[2])
        /\ \E ps : /\ IsSeq(ps) /\ left[1] = WriteAtEnd(lines, started, ps)
                   /\ (\A k \in 1..Len(ps) : ps[k].whole) =>
                        \E m \in 0..Len(OnePiece(p)) : ps = SubSeq(OnePiece(p), 1, m)
    BY <1>1, <1>4, <1>5, <1>6, CutOffFacts
  <1>8. PICK ps : /\ IsSeq(ps) /\ left[1] = WriteAtEnd(lines, started, ps)
                  /\ (\A k \in 1..Len(ps) : ps[k].whole) =>
                       \E m \in 0..Len(OnePiece(p)) : ps = SubSeq(OnePiece(p), 1, m)
    BY <1>7
  <1>9. IsFile(lines')  BY <1>1, <1>3, <1>5, <1>8, WriteKeepsFile
  <1> QED  BY <1>3, <1>4, <1>5, <1>7, <1>8, <1>9

(* Lines lost leave a file of lines.                                       *)
LEMMA LoseStep ==
  ASSUME IInv, Lose
  PROVE  IsFile(lines')
  <1>0. IsFile(lines) /\ IsSeq(lines) /\ Len(lines) \in Nat  BY IsSeqLen DEF IInv, Shape, IsFile
  <1>1. PICK j \in 1..Len(lines), k \in 1..Len(lines) :
          /\ j <= k
          /\ lines' = SubSeq(lines, 1, j - 1) \o SubSeq(lines, k + 1, Len(lines))
    BY DEF Lose
  <1> DEFINE b == SubSeq(lines, 1, j - 1)
             a == SubSeq(lines, k + 1, Len(lines))
             L == Len(lines)
  <1>2. /\ j - 1 \in Nat /\ j - 1 <= L /\ k + 1 \in Nat \ {0} /\ k + 1 <= L + 1
        /\ L - (k + 1) + 1 = L - k /\ L - k \in Nat
    BY <1>0
  <1>3. IsSeq(b) /\ Len(b) = j - 1 /\ \A n \in 1..(j - 1) : b[n] = lines[n]
    BY <1>0, <1>2, PrefixFacts
  <1>4. IsSeq(a) /\ Len(a) = L - k /\ \A n \in 1..(L - k) : a[n] = lines[k + 1 + n - 1]
    <2>0. IsSeq(lines) /\ k + 1 \in Nat \ {0} /\ L \in Nat /\ L <= Len(lines) /\ k + 1 <= L + 1
      BY <1>0, <1>2
    <2> HIDE DEF L
    <2>1. /\ IsSeq(SubSeq(lines, k + 1, L)) /\ Len(SubSeq(lines, k + 1, L)) = L - (k + 1) + 1
          /\ \A n \in 1..(L - (k + 1) + 1) : SubSeq(lines, k + 1, L)[n] = lines[k + 1 + n - 1]
      BY <2>0, SubSeqFacts
    <2> USE DEF L
    <2> QED  BY <1>2, <2>1
  <1> HIDE DEF a, b
  <1>5. /\ IsSeq(b \o a) /\ Len(b \o a) = j - 1 + (L - k)
        /\ \A n \in 1..(j - 1) : (b \o a)[n] = lines[n]
        /\ \A n \in 1..(L - k) : (b \o a)[j - 1 + n] = lines[k + 1 + n - 1]
    <2>0. IsSeq(b) /\ IsSeq(a)  BY <1>3, <1>4
    <2>1. /\ IsSeq(b \o a) /\ Len(b \o a) = Len(b) + Len(a)
          /\ \A n \in 1..Len(b) : (b \o a)[n] = b[n]
          /\ \A n \in 1..Len(a) : (b \o a)[Len(b) + n] = a[n]
      BY <2>0, ConcatFacts
    <2> QED  BY <1>3, <1>4, <2>1
  <1> DEFINE w == b \o a
  <1>6. lines' = w  BY <1>1 DEF a, b
  <1> HIDE DEF w, L
  <1>7. ASSUME NEW n \in 1..Len(w)  PROVE \E m \in 1..L : w[n] = lines[m]
    <2>0. L \in Nat /\ Len(w) = j - 1 + (L - k)  BY <1>0, <1>5 DEF w, L
    <2>1. CASE n <= j - 1
      <3>1. n \in 1..(j - 1)  BY <1>2, <2>0, <2>1
      <3>2. n \in 1..L  BY <1>2, <2>0, <3>1
      <3> QED  BY <1>5, <3>1, <3>2 DEF w
    <2>2. CASE ~(n <= j - 1)
      <3> DEFINE m == n - (j - 1)
      <3>1. m \in 1..(L - k) /\ j - 1 + m = n /\ k + 1 + m - 1 \in 1..L
        BY <1>1, <1>2, <2>0, <2>2 DEF L
      <3>2. w[n] = lines[k + 1 + m - 1]
        <4> HIDE DEF m
        <4> QED  BY <1>5, <3>1 DEF w
      <3> HIDE DEF m
      <3> QED  BY <3>1, <3>2
    <2> QED  BY <2>1, <2>2
  <1>8. \A n \in 1..Len(w) : IsSeq(w[n]) /\ w[n] # <<>>  BY <1>0, <1>7 DEF IsFile, L
  <1>9. IsSeq(w)  BY <1>5 DEF w
  <1> QED  BY <1>6, <1>8, <1>9 DEF IsFile

-----------------------------------------------------------------------------
(* The invariant                                                           *)

(* A run moves on; its request and what it read stay.                      *)
LEMMA WithPc ==
  ASSUME NEW c, NEW pc,
         c = [pc |-> c.pc, request |-> c.request, registry |-> c.registry, open |-> c.open]
  PROVE  [c EXCEPT !.pc = pc] =
           [pc |-> pc, request |-> c.request, registry |-> c.registry, open |-> c.open]
  OBVIOUS

LEMMA DeadRun ==
  Dead = [pc |-> "died", request |-> NoRequest, registry |-> <<>>, open |-> FALSE]
  <1>1. /\ NotRun.request = NoRequest /\ NotRun.registry = <<>> /\ NotRun.open = FALSE
        /\ NotRun = [pc |-> NotRun.pc, request |-> NotRun.request, registry |-> NotRun.registry,
                     open |-> NotRun.open]
    BY DEF NotRun
  <1> QED  BY <1>1, WithPc DEF Dead

LEMMA StepIInv ==
  ASSUME IInv, [Next]_vars
  PROVE  IInv'
  <1>0. TypeOK /\ Shape  BY DEF IInv
  <1> DEFINE RunOK(c) ==
        /\ c = [pc |-> c.pc, request |-> c.request, registry |-> c.registry, open |-> c.open]
        /\ IsSeq(c.registry) /\ c.open \in BOOLEAN
        /\ c.pc \in {"none", "append", "reported", "died"}
        /\ c.request \in Requests <=> c.pc \in {"append", "reported"}
        /\ c.registry # <<>> => ChainIntact(c.registry, c.request.org)
      FileOK ==
        /\ IsFile(lines') /\ terminated' \in BOOLEAN /\ (lines' = <<>> => terminated')
        /\ IsSeq(anchored') /\ anchor' = RegistryHead(anchored')
        /\ losses' \in 0..MaxLosses /\ deaths' \in 0..MaxDeaths
  <1> HIDE DEF RunOK, FileOK
  <1>2. \A p \in Runs : RunOK(cli[p])  BY <1>0 DEF Shape, TypeOK, RunOK
  <1>3. ASSUME \A p \in Runs : RunOK(cli'[p]), FileOK, cli' = [p \in Runs |-> cli'[p]]
        PROVE  IInv'
    <2>1. TypeOK'
      <3>1. \A p \in Runs :
              /\ cli'[p].pc \in {"none", "append", "reported", "died"}
              /\ cli'[p].request \in Requests <=> cli'[p].pc \in {"append", "reported"}
              /\ cli'[p].registry # <<>> => ChainIntact(cli'[p].registry, cli'[p].request.org)
        BY <1>3 DEF RunOK
      <3>2. \A k \in 1..Len(lines') : lines'[k] # <<>>  BY <1>3 DEF FileOK, IsFile
      <3> QED  BY <1>3, <3>1, <3>2 DEF TypeOK, FileOK
    <2>2. cli' = [p \in Runs |-> [pc |-> cli'[p].pc, request |-> cli'[p].request,
                                  registry |-> cli'[p].registry, open |-> cli'[p].open]]
      <3>1. \A p \in Runs : cli'[p] = [pc |-> cli'[p].pc, request |-> cli'[p].request,
                                      registry |-> cli'[p].registry, open |-> cli'[p].open]
        BY <1>3 DEF RunOK
      <3>2. cli' = [p \in Runs |-> cli'[p]]  BY <1>3
      <3> QED  BY <3>1, <3>2
    <2>3. \A p \in Runs : IsSeq(cli'[p].registry) /\ cli'[p].open \in BOOLEAN
      BY <1>3 DEF RunOK
    <2>4. Shape'  BY <1>3, <2>2, <2>3 DEF Shape, FileOK
    <2> QED  BY <2>1, <2>4 DEF IInv
  <1>4. RunOK(Dead)
    <2>1. Dead = [pc |-> "died", request |-> NoRequest, registry |-> <<>>, open |-> FALSE]
      BY DeadRun
    <2>2. NoRequest \notin Requests  BY EnrollmentAssumption
    <2> QED  BY <2>1, <2>2, EmptyFacts DEF RunOK
  <1>5. cli = [p \in Runs |-> cli[p]]  BY <1>0 DEF Shape
  <1>6. IsFile(lines) /\ terminated \in BOOLEAN /\ (lines = <<>> => terminated)
          /\ IsSeq(anchored) /\ anchor = RegistryHead(anchored)
          /\ losses \in 0..MaxLosses /\ deaths \in 0..MaxDeaths
          /\ MaxLosses \in Nat /\ MaxDeaths \in Nat
    BY <1>0, EnrollmentAssumption DEF TypeOK, Shape
  <1>7. ASSUME NEW p \in Runs, cli' = [cli EXCEPT ![p] = Dead]
        PROVE  (\A r \in Runs : RunOK(cli'[r])) /\ cli' = [r \in Runs |-> cli'[r]]
    <2>1. \A r \in Runs : cli'[r] = IF r = p THEN Dead ELSE cli[r]  BY <1>5, <1>7
    <2> QED  BY <1>2, <1>4, <1>5, <1>7, <2>1
  <1>1. ASSUME NEW p \in Runs, NEW q \in Requests, Load(p, q)  PROVE IInv'
    <2> DEFINE new == [pc |-> "append", request |-> q, registry |-> Records(lines),
                       open |-> lines # <<>> /\ ~terminated]
    <2>1. cli' = [cli EXCEPT ![p] = new]  BY <1>1 DEF Load
    <2>2. IsSeq(Records(lines))  BY <1>6, RecordsFacts DEF IsFile
    <2>3. Records(lines) # <<>> => ChainIntact(Records(lines), q.org)
      BY <1>1 DEF Load, Acceptable, VerifyChain
    <2>4. RunOK(new)  BY <2>2, <2>3 DEF RunOK
    <2> HIDE DEF new
    <2>5. \A r \in Runs : cli'[r] = IF r = p THEN new ELSE cli[r]  BY <1>5, <2>1
    <2>6. \A r \in Runs : RunOK(cli'[r])  BY <1>2, <2>4, <2>5
    <2>7. cli' = [r \in Runs |-> cli'[r]]  BY <1>5, <2>1
    <2>8. FileOK  BY <1>1, <1>6 DEF Load, FileOK
    <2> QED  BY <1>3, <2>6, <2>7, <2>8
  <1>8. ASSUME NEW p \in Runs, NEW q \in Requests, Refuse(p, q)  PROVE IInv'
    <2>1. FileOK  BY <1>6, <1>8 DEF Refuse, FileOK
    <2> QED  BY <1>3, <1>7, <1>8, <2>1 DEF Refuse
  <1>9. ASSUME NEW p \in Runs, WriteRecord(p)  PROVE IInv'
    <2>1. FileOK
      <3>1. IsFile(lines')  BY <1>9, WriteStep
      <3> QED  BY <1>6, <1>9, <3>1 DEF WriteRecord, FileOK
    <2>2. cli' = [cli EXCEPT ![p].pc = "reported"] /\ cli[p].pc = "append"
      BY <1>9 DEF WriteRecord
    <2>3. \A r \in Runs : cli'[r] = IF r = p THEN [cli[p] EXCEPT !.pc = "reported"] ELSE cli[r]
      BY <1>5, <2>2
    <2>4. RunOK([cli[p] EXCEPT !.pc = "reported"])
      <3>1. RunOK(cli[p])  BY <1>2
      <3>2. [cli[p] EXCEPT !.pc = "reported"] =
              [pc |-> "reported", request |-> cli[p].request, registry |-> cli[p].registry,
               open |-> cli[p].open]
        BY <3>1 DEF RunOK
      <3> QED  BY <2>2, <3>1, <3>2 DEF RunOK
    <2>5. \A r \in Runs : RunOK(cli'[r])  BY <1>2, <2>3, <2>4
    <2>6. cli' = [r \in Runs |-> cli'[r]]  BY <1>5, <2>2
    <2> QED  BY <1>3, <2>1, <2>5, <2>6
  <1>10. ASSUME NEW p \in Runs, Die(p)  PROVE IInv'
    <2>1. FileOK
      <3>1. IsFile(lines') /\ terminated' \in BOOLEAN /\ (lines' = <<>> => terminated')
        BY <1>10, DieStep
      <3>2. deaths' \in 0..MaxDeaths  BY <1>6, <1>10 DEF Die
      <3> QED  BY <1>6, <1>10, <3>1, <3>2 DEF Die, FileOK
    <2> QED  BY <1>3, <1>7, <1>10, <2>1 DEF Die
  <1>11. ASSUME UNCHANGED cli, FileOK  PROVE IInv'
    <2>1. (\A p \in Runs : RunOK(cli'[p])) /\ cli' = [p \in Runs |-> cli'[p]]
      BY <1>2, <1>5, <1>11
    <2> QED  BY <1>3, <1>11, <2>1
  <1>12. CASE Lose
    <2>1. IsFile(lines')  BY <1>12, LoseStep
    <2>2. losses' \in 0..MaxLosses  BY <1>6, <1>12 DEF Lose
    <2>3. FileOK  BY <1>6, <1>12, <2>1, <2>2 DEF Lose, FileOK
    <2> QED  BY <1>11, <1>12, <2>3 DEF Lose
  <1>13. CASE TakeAnchor
    <2>1. IsSeq(Records(lines))  BY <1>6, RecordsFacts DEF IsFile
    <2>2. FileOK  BY <1>6, <1>13, <2>1 DEF TakeAnchor, FileOK
    <2> QED  BY <1>11, <1>13, <2>2 DEF TakeAnchor
  <1>14. CASE UNCHANGED vars
    <2>1. FileOK  BY <1>6, <1>14 DEF vars, FileOK
    <2> QED  BY <1>11, <1>14, <2>1 DEF vars
  <1> QED  BY <1>1, <1>8, <1>9, <1>10, <1>12, <1>13, <1>14 DEF Next

THEOREM Inductive == Spec => []IInv
  <1>1. Init => IInv  BY InitIInv
  <1>2. IInv /\ [Next]_vars => IInv'  BY StepIInv
  <1> QED  BY <1>1, <1>2, PTL DEF Spec

(* Type correctness of the CLI's runs and of the registry file.            *)
THEOREM TypeCorrect == Spec => []TypeOK
  <1>1. IInv => TypeOK  BY DEF IInv
  <1> QED  BY <1>1, Inductive, PTL

-----------------------------------------------------------------------------
(* Reported changes                                                        *)

(* A registry that verifies after pieces were written at its end verified  *)
(* before, and begins with the records it had.                             *)
LEMMA VerifiesBefore ==
  ASSUME IsFile(lines), NEW t, lines = <<>> => t, NEW ps, IsSeq(ps),
         lines' = WriteAtEnd(lines, t, ps), Verifies'
  PROVE  /\ Verifies /\ lines' = lines \o NewLines(ps) /\ Len(lines') = Len(lines) + Len(ps)
         /\ \A k \in 1..Len(lines) : k \in 1..Len(lines') /\ Records(lines)[k] = Records(lines')[k]
  <1>1. IsSeq(lines) /\ Len(lines) \in Nat /\ Len(ps) \in Nat  BY IsSeqLen DEF IsFile
  <1>2. AllParse(WriteAtEnd(lines, t, ps))  BY DEF Verifies, Reads
  <1>3. lines' = lines \o NewLines(ps) /\ AllParse(lines)  BY <1>2, ReadsAfterWrite
  <1>4. /\ Len(lines') = Len(lines) + Len(ps)
        /\ \A k \in 1..Len(lines) : lines'[k] = lines[k]
    BY <1>3, RecordsAfterWrite
  <1>5. IsFile(lines')  BY WriteKeepsFile
  <1>6. \A k \in 1..Len(lines) : k \in 1..Len(lines')  BY <1>1, <1>4
  <1>7. /\ Len(Records(lines)) = Len(lines)
        /\ \A k \in 1..Len(lines) : Records(lines)[k] = lines[k][1].record
    BY <1>1, RecordsFacts
  <1>8. /\ Len(Records(lines')) = Len(lines')
        /\ \A k \in 1..Len(lines') : Records(lines')[k] = lines'[k][1].record
    BY <1>5, RecordsFacts DEF IsFile
  <1>9. \A k \in 1..Len(lines) : Records(lines)[k] = Records(lines')[k]
    BY <1>4, <1>6, <1>7, <1>8
  <1>10. ChainIntact(Records(lines), Org)
    <2> SUFFICES ASSUME NEW k \in 1..Len(lines)
                 PROVE  /\ Records(lines)[k].org = Org
                        /\ Records(lines)[k].prev =
                             IF k = 1 THEN NoRecord ELSE Records(lines)[k - 1]
      BY <1>7 DEF ChainIntact
    <2>1. k \in 1..Len(Records(lines'))  BY <1>6, <1>8
    <2>2. /\ Records(lines')[k].org = Org
          /\ Records(lines')[k].prev = IF k = 1 THEN NoRecord ELSE Records(lines')[k - 1]
      BY <2>1 DEF Verifies, ChainIntact
    <2>3. k # 1 => k - 1 \in 1..Len(lines)  BY <1>1
    <2> QED  BY <1>9, <2>2, <2>3
  <1> QED  BY <1>3, <1>4, <1>6, <1>9, <1>10 DEF Verifies, Reads

(* The record of a run does not change once the run has loaded the log. *)
LEMMA RecordStands ==
  ASSUME IInv, Next, NEW p \in Runs, cli[p].pc = "reported"
  PROVE  cli'[p].pc = "reported" /\ RecordOf(p)' = RecordOf(p)
  <1>0. cli = [r \in Runs |-> cli[r]]  BY DEF IInv, Shape
  <1>1. UNCHANGED cli[p]
    <2>1. ASSUME NEW r \in Runs, NEW q \in Requests, Load(r, q)  PROVE UNCHANGED cli[p]
      BY <1>0, <2>1 DEF Load
    <2>2. ASSUME NEW r \in Runs, NEW q \in Requests, Refuse(r, q)  PROVE UNCHANGED cli[p]
      BY <1>0, <2>2 DEF Refuse
    <2>3. ASSUME NEW r \in Runs, WriteRecord(r)  PROVE UNCHANGED cli[p]
      BY <1>0, <2>3 DEF WriteRecord
    <2>4. ASSUME NEW r \in Runs, Die(r)  PROVE UNCHANGED cli[p]
      BY <1>0, <2>4 DEF Die
    <2> QED  BY <2>1, <2>2, <2>3, <2>4 DEF Next, Lose, TakeAnchor
  <1> QED  BY <1>1 DEF RecordOf

(* No append hides a reported record without breaking the chain: one that  *)
(* does not follow the last record is a fork.                              *)
LEMMA StepReportedChangesStand ==
  ASSUME IInv, ReportedChangesStand, [Next]_vars
  PROVE  ReportedChangesStand'
  <1> DEFINE InFile(r) == \E k \in 1..Len(lines) : Records(lines)[k] = r
  <1> SUFFICES ASSUME losses' = 0, Verifies', NEW p \in Runs, cli'[p].pc = "reported"
               PROVE  InFile(RecordOf(p))'
    BY DEF ReportedChangesStand
  <1>0. IsFile(lines) /\ terminated \in BOOLEAN /\ losses \in Nat
          /\ cli = [r \in Runs |-> cli[r]]
    BY EnrollmentAssumption DEF IInv, TypeOK, Shape
  <1>1. CASE UNCHANGED <<lines, losses, cli>>
    BY <1>1 DEF ReportedChangesStand, Verifies, Reads, RecordOf
  <1>2. ASSUME losses = 0, cli[p].pc = "reported", Next, NEW t, lines = <<>> => t, NEW ps, IsSeq(ps),
               lines' = WriteAtEnd(lines, t, ps)
        PROVE  InFile(RecordOf(p))'
    <2>1. /\ Verifies
          /\ \A k \in 1..Len(lines) : k \in 1..Len(lines') /\ Records(lines)[k] = Records(lines')[k]
      BY <1>0, <1>2, VerifiesBefore
    <2>2. PICK k \in 1..Len(lines) : Records(lines)[k] = RecordOf(p)
      BY <1>2, <2>1 DEF ReportedChangesStand
    <2>3. RecordOf(p)' = RecordOf(p)  BY <1>2, RecordStands
    <2> QED  BY <2>1, <2>2, <2>3
  <1>3. ASSUME NEW q \in Runs, WriteRecord(q)  PROVE InFile(RecordOf(p))'
    <2>1. /\ lines' = WriteAtEnd(lines, terminated \/ Separated(q), OnePiece(q))
          /\ losses = 0 /\ Next
      BY <1>3, WriteStep DEF WriteRecord, Next
    <2>2. IsSeq(OnePiece(q)) /\ Len(OnePiece(q)) = 1 /\ OnePiece(q)[1] = Whole(RecordOf(q))
      BY OnePieceFacts
    <2>3. lines = <<>> => (terminated \/ Separated(q))  BY StartedFile
    <2>4. CASE p # q
      <3>1. cli[p].pc = "reported"  BY <1>0, <1>3, <2>4 DEF WriteRecord
      <3> QED  BY <1>2, <2>1, <2>2, <2>3, <3>1
    <2>5. CASE p = q
      <3>1. /\ lines' = lines \o NewLines(OnePiece(q))
            /\ Len(lines') = Len(lines) + Len(OnePiece(q))
        BY <1>0, <2>1, <2>2, <2>3, VerifiesBefore
      <3>2. \A k \in 1..Len(OnePiece(q)) : lines'[Len(lines) + k] = <<OnePiece(q)[k]>>
        BY <1>0, <2>2, <3>1, RecordsAfterWrite
      <3>3. lines'[Len(lines) + 1] = <<Whole(RecordOf(q))>>  BY <2>2, <3>2
      <3>4. Len(lines) \in Nat /\ Len(lines') = Len(lines) + 1  BY <1>0, <2>2, <3>1, IsSeqLen DEF IsFile
      <3>5. IsFile(lines')  BY <1>3, WriteStep
      <3>6. Len(lines) + 1 \in 1..Len(lines')  BY <3>4
      <3>7. Records(lines')[Len(lines) + 1] = lines'[Len(lines) + 1][1].record
        BY <3>5, <3>6, RecordsFacts DEF IsFile
      <3>8. Records(lines')[Len(lines) + 1] = RecordOf(q)  BY <3>3, <3>7 DEF Whole
      <3>9. RecordOf(q)' = RecordOf(q)
        <4>1. cli'[q] = [cli[q] EXCEPT !.pc = "reported"]  BY <1>0, <1>3 DEF WriteRecord
        <4>2. cli[q] = [pc |-> cli[q].pc, request |-> cli[q].request,
                        registry |-> cli[q].registry, open |-> cli[q].open]
          BY DEF IInv, Shape
        <4>3. cli'[q].registry = cli[q].registry /\ cli'[q].request = cli[q].request
          BY <4>1, <4>2
        <4> QED  BY <4>3 DEF RecordOf
      <3> QED  BY <2>5, <3>6, <3>8, <3>9
    <2> QED  BY <2>4, <2>5
  <1>4. ASSUME NEW q \in Runs, Die(q)  PROVE InFile(RecordOf(p))'
    <2>1. PICK t, ps : /\ t \in BOOLEAN /\ (lines = <<>> => t)
                       /\ IsSeq(ps) /\ lines' = WriteAtEnd(lines, t, ps)
      BY <1>4, DieStep
    <2>2. losses = 0 /\ Next  BY <1>4 DEF Die, Next
    <2>3. cli[p].pc = "reported"
      <3>1. cli' = [cli EXCEPT ![q] = Dead]  BY <1>4 DEF Die
      <3>2. cli'[p] = IF p = q THEN Dead ELSE cli[p]  BY <1>0, <3>1
      <3>3. Dead.pc # "reported"  BY DeadRun
      <3> QED  BY <3>2, <3>3
    <2> QED  BY <1>2, <2>1, <2>2, <2>3
  <1>5. CASE Lose
    <2>1. losses' = losses + 1  BY <1>5 DEF Lose
    <2> QED  BY <1>0, <2>1
  <1>6. ASSUME NEW q \in Runs, NEW r \in Requests, Load(q, r) \/ Refuse(q, r)
        PROVE  InFile(RecordOf(p))'
    <2>1. UNCHANGED <<lines, losses>>  BY <1>6 DEF Load, Refuse
    <2>2. cli'[q].pc # "reported"
      <3>1. CASE Load(q, r)  BY <1>0, <3>1 DEF Load
      <3>2. CASE Refuse(q, r)  BY <1>0, <3>2, DeadRun DEF Refuse
      <3> QED  BY <1>6, <3>1, <3>2
    <2>3. p # q  BY <2>2
    <2>4. cli'[p] = cli[p]  BY <1>0, <1>6, <2>3 DEF Load, Refuse
    <2> QED  BY <2>1, <2>4 DEF ReportedChangesStand, Verifies, Reads, RecordOf
  <1>7. CASE TakeAnchor \/ UNCHANGED vars  BY <1>1, <1>7 DEF TakeAnchor, vars
  <1> QED  BY <1>3, <1>4, <1>5, <1>6, <1>7 DEF Next

(* A change the CLI reported stays in the registry, whatever other runs do *)
(* between its read and its append, as long as no records are lost and the *)
(* registry verifies.                                                      *)
THEOREM ReportedStand == Spec => []ReportedChangesStand
  <1>1. Init => ReportedChangesStand  BY DEF Init, ReportedChangesStand, NotRun
  <1>2. IInv /\ ReportedChangesStand /\ [Next]_vars => ReportedChangesStand'
    BY StepReportedChangesStand
  <1> QED  BY <1>1, <1>2, Inductive, PTL DEF Spec

-----------------------------------------------------------------------------
(* Anchored revocations                                                    *)

(* Two chains with the same record at the same place are the same up to    *)
(* there: `prev` holds the record before.                                  *)
LEMMA ChainsMeet ==
  ASSUME NEW a, NEW log, NEW org, ChainIntact(a, org), ChainIntact(log, org),
         IsSeq(a), IsSeq(log), Len(a) <= Len(log), Len(a) > 0 => a[Len(a)] = log[Len(a)]
  PROVE  \A k \in 1..Len(a) : a[k] = log[k]
  <1>0. Len(a) \in Nat /\ Len(log) \in Nat  BY IsSeqLen
  <1> DEFINE n == Len(a)
             T == {k \in 1..n : a[k] # log[k]}
  <1> HIDE DEF n
  <1> SUFFICES ASSUME T # {}  PROVE FALSE  BY DEF n
  <1>1. n \in Nat /\ n <= Len(log) /\ T \subseteq 0..n  BY <1>0 DEF n
  <1>2. PICK k \in T : \A m \in T : m <= k
    <2> HIDE DEF T
    <2> QED  BY <1>1, GreatestElement
  <1>3. k \in 1..n /\ a[k] # log[k]  OBVIOUS
  <1>4. k # n  BY <1>0, <1>3 DEF n
  <1>5. k + 1 \in 1..n /\ k + 1 \in 1..Len(log) /\ k + 1 # 1 /\ k + 1 - 1 = k /\ ~(k + 1 <= k)
    BY <1>0, <1>1, <1>3, <1>4
  <1>6. a[k + 1] = log[k + 1]  BY <1>2, <1>5
  <1>7. a[k + 1].prev = a[k + 1 - 1]  BY <1>5 DEF ChainIntact, n
  <1>8. log[k + 1].prev = log[k + 1 - 1]  BY <1>5 DEF ChainIntact
  <1> QED  BY <1>3, <1>5, <1>6, <1>7, <1>8

(* A log that verifies against the head of another one begins with it. *)
LEMMA AnchorCovers ==
  ASSUME NEW a, NEW log, NEW org, IsSeq(a), IsSeq(log), ChainIntact(a, org),
         VerifyChain(log, org, RegistryHead(a))
  PROVE  Len(a) <= Len(log) /\ \A k \in 1..Len(a) : a[k] = log[k]
  <1>0. /\ Len(a) \in Nat /\ (a # <<>> <=> Len(a) > 0)
        /\ Len(log) \in Nat
    BY IsSeqLen
  <1>1. /\ ChainIntact(log, org) /\ Len(log) >= Len(a)
        /\ LastRecord(a) = LastRecord(SubSeq(log, 1, Len(a)))
    BY DEF VerifyChain, RegistryHead
  <1>2. Len(a) <= Len(log)  BY <1>0, <1>1
  <1>3. ASSUME Len(a) > 0  PROVE a[Len(a)] = log[Len(a)]
    <2> DEFINE t == SubSeq(log, 1, Len(a))
    <2>1. IsSeq(t) /\ Len(t) = Len(a) /\ \A k \in 1..Len(a) : t[k] = log[k]
      BY <1>0, <1>2, PrefixFacts
    <2> HIDE DEF t
    <2>2. t # <<>> /\ a # <<>>  BY <1>0, <1>3, <2>1, IsSeqLen
    <2>3. a[Len(a)] = t[Len(t)]  BY <1>1, <2>2 DEF LastRecord, t
    <2>4. Len(a) \in 1..Len(a)  BY <1>0, <1>3
    <2> QED  BY <2>1, <2>3, <2>4
  <1> QED  BY <1>1, <1>2, <1>3, ChainsMeet

(* A registry that passes against the head of an intact log begins with    *)
(* that log, so what it adds was enrolled since.                           *)
LEMMA AnchoredHolds == IInv => AnchoredRevocationHolds
  <1> SUFFICES ASSUME IInv, NEW i \in Intents, NEW org \in Keys,
                      ChainIntact(anchored, org), Reads,
                      AssertApproversEnrolled(i, Records(lines), org, anchor),
                      NEW a \in Keyed[i]
               PROVE  \/ \E s \in Spellings : Norm[s] = a /\ KeyOf[a] \in ActiveKeys(anchored, s)
                      \/ \E k \in (Len(anchored) + 1)..Len(lines) :
                           LET rec == Records(lines)[k]
                           IN  rec.typ = "enroll" /\ Norm[rec.actor] = a /\ rec.key = KeyOf[a]
    BY DEF AnchoredRevocationHolds
  <1> DEFINE log == Records(lines)
             n   == Len(anchored)
  <1>1. /\ IsSeq(anchored) /\ anchor = RegistryHead(anchored) /\ n \in Nat
        /\ IsSeq(log) /\ Len(log) = Len(lines) /\ Len(log) \in Nat
    BY RecordsFacts, IsSeqLen DEF IInv, Shape, IsFile
  <1>2. VerifyChain(log, org, anchor)  BY DEF AssertApproversEnrolled
  <1>3. PICK s \in Spellings : Norm[s] = a /\ KeyOf[a] \in ActiveKeys(log, s)
    BY DEF AssertApproversEnrolled
  <1> HIDE DEF log
  <1>4. n <= Len(log) /\ \A k \in 1..n : anchored[k] = log[k]  BY <1>1, <1>2, AnchorCovers
  <1>5. KeyOf[a] \in Keys  BY <1>3 DEF ActiveKeys
  <1>6. PICK k \in 1..Len(log) :
          /\ log[k].typ = "enroll"
          /\ log[k].key = KeyOf[a] /\ Norm[log[k].actor] = Norm[s]
          /\ \A m \in (k + 1)..Len(log) :
               ~(log[m].key = KeyOf[a] /\ Norm[log[m].actor] = Norm[s])
    BY <1>3 DEF ActiveKeys
  <1> HIDE DEF n
  <1>7. CASE k <= n
    <2>1. k \in 1..n /\ \A m \in (k + 1)..n : m \in 1..n /\ m \in (k + 1)..Len(log)
      BY <1>1, <1>4, <1>7
    <2>2. /\ anchored[k].typ = "enroll"
          /\ anchored[k].key = KeyOf[a] /\ Norm[anchored[k].actor] = Norm[s]
          /\ \A m \in (k + 1)..n :
               ~(anchored[m].key = KeyOf[a] /\ Norm[anchored[m].actor] = Norm[s])
      BY <1>4, <1>6, <2>1
    <2>3. KeyOf[a] \in ActiveKeys(anchored, s)  BY <1>5, <2>1, <2>2 DEF ActiveKeys, n
    <2> QED  BY <1>3, <2>3
  <1>8. CASE ~(k <= n)
    <2>1. k \in (n + 1)..Len(lines)  BY <1>1, <1>8
    <2> QED  BY <1>3, <1>6, <2>1 DEF log, n
  <1> QED  BY <1>7, <1>8

(* An anchored revocation holds: whatever was lost, forked or restored, a  *)
(* registry that passes against an anchored head of a log that verified    *)
(* has no key active that was not active there or enrolled since.          *)
THEOREM RevocationHolds == Spec => []AnchoredRevocationHolds
  BY AnchoredHolds, Inductive, PTL

-----------------------------------------------------------------------------
(* A run that nobody interfered with                                       *)

(* What a run appends to the log it read is a chain again.                 *)
LEMMA ChainGrows ==
  ASSUME NEW log, IsSeq(log), NEW q, log # <<>> => ChainIntact(log, q.org)
  PROVE  ChainIntact(Append(log, NewRecord(log, q)), q.org)
  <1> DEFINE r == NewRecord(log, q)
             post == Append(log, r)
  <1>0. Len(log) \in Nat /\ (log # <<>> <=> Len(log) > 0)  BY IsSeqLen
  <1>1. r.org = q.org /\ r.prev = LastRecord(log)  BY DEF NewRecord
  <1> HIDE DEF r
  <1>2. /\ Len(post) = Len(log) + 1 /\ \A k \in 1..Len(log) : post[k] = log[k]
        /\ post[Len(log) + 1] = r
    BY AppendFacts
  <1> HIDE DEF post
  <1> SUFFICES ASSUME NEW k \in 1..Len(post)
               PROVE  /\ post[k].org = q.org
                      /\ post[k].prev = IF k = 1 THEN NoRecord ELSE post[k - 1]
    BY DEF ChainIntact, post, r
  <1>3. CASE k = Len(log) + 1
    <2>1. post[k] = r  BY <1>2, <1>3
    <2>2. CASE log = <<>>
      <3>1. k = 1  BY <1>0, <1>3, <2>2
      <3> QED  BY <1>1, <2>1, <2>2, <3>1 DEF LastRecord
    <2>3. CASE log # <<>>
      <3>1. k # 1 /\ k - 1 = Len(log) /\ k - 1 \in 1..Len(log)  BY <1>0, <1>3, <2>3
      <3>2. post[k - 1] = LastRecord(log)  BY <1>2, <2>3, <3>1 DEF LastRecord
      <3> QED  BY <1>1, <2>1, <3>1, <3>2
    <2> QED  BY <2>2, <2>3
  <1>4. CASE k # Len(log) + 1
    <2>1. k \in 1..Len(log) /\ log # <<>> /\ (k # 1 => k - 1 \in 1..Len(log))
      BY <1>0, <1>2, <1>4
    <2>2. /\ log[k].org = q.org
          /\ log[k].prev = IF k = 1 THEN NoRecord ELSE log[k - 1]
      BY <2>1 DEF ChainIntact
    <2> QED  BY <1>2, <2>1, <2>2
  <1> QED  BY <1>3, <1>4

(* The last record decides. *)
LEMMA LastDecides ==
  ASSUME NEW log, IsSeq(log), NEW q \in Requests
  PROVE  q.key \in ActiveKeys(Append(log, NewRecord(log, q)), q.actor) <=> q.typ = "enroll"
  <1> DEFINE r == NewRecord(log, q)
             post == Append(log, r)
             last == Len(log) + 1
  <1>0. Len(log) \in Nat  BY IsSeqLen
  <1>1. r.typ = q.typ /\ r.key = q.key /\ r.actor = q.actor  BY DEF NewRecord
  <1> HIDE DEF r
  <1>2. Len(post) = last /\ post[last] = r  BY AppendFacts
  <1>3. q.key \in Keys  BY EnrollmentAssumption
  <1> HIDE DEF post
  <1>4. last \in 1..last /\ (last + 1)..last = {} /\ \A k \in 1..last : k # last => last \in (k + 1)..last
    BY <1>0
  <1> HIDE DEF last
  <1>5. ASSUME q.typ = "enroll"  PROVE q.key \in ActiveKeys(post, q.actor)
    BY <1>1, <1>2, <1>3, <1>4, <1>5 DEF ActiveKeys
  <1>6. ASSUME q.key \in ActiveKeys(post, q.actor)  PROVE q.typ = "enroll"
    <2>1. PICK k \in 1..last :
            /\ post[k].typ = "enroll"
            /\ \A m \in (k + 1)..last :
                 ~(post[m].key = q.key /\ Norm[post[m].actor] = Norm[q.actor])
      BY <1>2, <1>6 DEF ActiveKeys
    <2>2. k = last  BY <1>1, <1>2, <1>4, <2>1
    <2> QED  BY <1>1, <1>2, <2>1, <2>2
  <1> QED  BY <1>5, <1>6 DEF post, r

SoloStep ==
  \A p \in Runs :
    /\ cli[p].pc = "append" /\ cli'[p].pc = "reported"
    /\ Reads /\ Records(lines) = cli[p].registry
    /\ cli[p].open = (lines # <<>> /\ ~terminated)
    => /\ AllParse(lines')
       /\ ChainIntact(Records(lines'), cli[p].request.org)
       /\ (cli[p].request.key \in ActiveKeys(Records(lines'), cli[p].request.actor)
             <=> cli[p].request.typ = "enroll")

(* A run that wrote to the file it had read leaves a registry that         *)
(* verifies, with its change in force.                                     *)
LEMMA StepSolo ==
  ASSUME IInv, [Next]_vars
  PROVE  SoloStep
  <1> SUFFICES ASSUME NEW p \in Runs, cli[p].pc = "append", cli'[p].pc = "reported",
                      Reads, Records(lines) = cli[p].registry,
                      cli[p].open = (lines # <<>> /\ ~terminated)
               PROVE  /\ AllParse(lines')
                      /\ ChainIntact(Records(lines'), cli[p].request.org)
                      /\ (cli[p].request.key \in ActiveKeys(Records(lines'), cli[p].request.actor)
                            <=> cli[p].request.typ = "enroll")
    BY DEF SoloStep
  <1> DEFINE q == cli[p].request
             log == Records(lines)
             r == RecordOf(p)
  <1>0. /\ IsFile(lines) /\ IsSeq(lines) /\ cli = [s \in Runs |-> cli[s]] /\ Len(lines) \in Nat
        /\ lines = <<>> => terminated
        /\ q \in Requests /\ (log # <<>> => ChainIntact(log, q.org))
    BY IsSeqLen DEF IInv, Shape, TypeOK, IsFile
  <1>1. WriteRecord(p)
    <2>1. ASSUME NEW s \in Runs, NEW d \in Requests, Load(s, d)  PROVE FALSE
      BY <1>0, <2>1 DEF Load
    <2>2. ASSUME NEW s \in Runs, NEW d \in Requests, Refuse(s, d)  PROVE FALSE
      BY <1>0, <2>2, DeadRun DEF Refuse
    <2>3. ASSUME NEW s \in Runs, WriteRecord(s)  PROVE s = p
      BY <1>0, <2>3 DEF WriteRecord
    <2>4. ASSUME NEW s \in Runs, Die(s)  PROVE FALSE
      BY <1>0, <2>4, DeadRun DEF Die
    <2> QED  BY <2>1, <2>2, <2>3, <2>4 DEF Next, Lose, TakeAnchor, vars
  <1>2. terminated \/ Separated(p)  BY <1>0 DEF Separated
  <1>3. IsSeq(OnePiece(p)) /\ Len(OnePiece(p)) = 1 /\ OnePiece(p)[1] = Whole(r)
    BY OnePieceFacts
  <1>4. lines' = lines \o NewLines(OnePiece(p))  BY <1>0, <1>1, <1>2, <1>3, WriteStep, WriteOnNewLine
  <1>5. \A k \in 1..Len(OnePiece(p)) : OnePiece(p)[k].whole  BY <1>3 DEF Whole
  <1>6. AllParse(lines')
    <2>1. AllParse(lines) /\ IsFile(lines) /\ IsSeq(OnePiece(p))  BY <1>0, <1>3 DEF Reads
    <2>2. AllParse(lines \o NewLines(OnePiece(p)))  BY <1>5, <2>1, RecordsAfterWrite
    <2> QED  BY <1>4, <2>2
  <1>7. Records(lines') = Append(log, r)  BY <1>0, <1>4, RecordsOfOneMore DEF OnePiece
  <1>8. r = NewRecord(log, q)  BY DEF RecordOf
  <1>9. IsSeq(log)  BY <1>0, RecordsFacts
  <1>10. ChainIntact(Records(lines'), q.org)
    <2> HIDE DEF log, r, q
    <2> QED  BY <1>0, <1>7, <1>8, <1>9, ChainGrows
  <1>11. q.key \in ActiveKeys(Records(lines'), q.actor) <=> q.typ = "enroll"
    <2> HIDE DEF log, r, q
    <2> QED  BY <1>0, <1>7, <1>8, <1>9, LastDecides
  <1> QED  BY <1>6, <1>10, <1>11

(* A run that nobody interfered with leaves a registry that verifies, with *)
(* its change in force, even behind a line another run died on.            *)
THEOREM SoloRuns == Spec => SoloRunSucceeds
  <1>1. IInv /\ [Next]_vars => [SoloStep]_vars  BY StepSolo
  <1> QED  BY <1>1, Inductive, PTL DEF Spec, SoloRunSucceeds, SoloStep
=============================================================================
