-------------------------- MODULE ReceiptLog_proofs --------------------------
(***************************************************************************)
(* The theorems about the receipt log, for any calls, receipts, faults and *)
(* edits: it writes in call order, an untouched one always verifies, what  *)
(* it loses shows, and an audit catches an edit.                           *)
(*                                                                         *)
(* verifyAll and verifyResolution decide by rules written twice, in        *)
(* another order.  They agree: what the runtime acted on raises no alarm   *)
(* in an audit, and what an audit lets pass is what the runtime accepts.   *)
(***************************************************************************)
EXTENDS ReceiptLog, LogLemmas, FiniteSetTheorems

-----------------------------------------------------------------------------
(* The audit of one receipt                                                *)

(* The audits an honest log should pass: the deployment's own authority    *)
(* key, and allowlists that leave out nobody who signed.                   *)
Fits(o, i, c) ==
  /\ o \in Options
  /\ o.authority = {Authority} /\ i \in o.intents
  /\ o.agents = {} \/ AgentKey[i] \in o.agents
  /\ o.trusted = {} \/ c.key \in o.trusted
  /\ c.key \in Passkeys => o.webauthn

(* An auditor with fitting options takes the Intent of an accepted         *)
(* resolution for authentic.                                               *)
LEMMA AuthenticIntents ==
  ASSUME NEW o, NEW i \in Intents, NEW r, NEW c, Fits(o, i, c), VerifyResolution(i, r)
  PROVE  Authentic(o, i)
  BY DEF Fits, VerifyResolution, Authentic

(* A receipt of a resolution the runtime accepts is well bound, a named    *)
(* approver's and a Default alike.                                         *)
LEMMA AcceptedReceiptsBind ==
  ASSUME NEW o, NEW i \in Intents, NEW r, NEW s \in Stored, s.cs \in r.receipts,
         r.policy = "default" => s.stamp = r.stamp,
         Fits(o, i, s.cs), VerifyResolution(i, r)
  PROVE  BindingFault(o, s) = "none"
  <1> DEFINE c == s.cs
  <1>1. /\ c \in Receipt /\ c.intent = i /\ c.decision = r.decision /\ s.stamp \in Nat
        /\ o.authority = {Authority}
        /\ o.trusted = {} \/ c.key \in o.trusted
    BY DEF VerifyResolution, Stored, Fits
  <1>2. Deadline[i] \in Nat /\ Norm[c.actor] \in Actors
    BY <1>1, CountersignAssumption DEF Receipt
  <1>3. CASE r.policy = "approver"
    <2>1. /\ c.policy = "approver" /\ Listed(s)
          /\ InKeyedSlot(s) => KeyOf[Norm[c.actor]] # Authority /\ c.key = KeyOf[Norm[c.actor]]
          /\ ~InKeyedSlot(s) => c.key = Authority
      BY <1>1, <1>3
         DEF VerifyResolution, ApproverProof, DefaultProof, Listed, InKeyedSlot, TrustedKey,
             VerifyCountersignature
    <2>2. ~Misbound(o, s)
      BY <1>1, <2>1 DEF Misbound, IsTimeoutDefault
    <2>3. ~WrongKey(o, s) /\ ~NotAllowed(o, s)
      BY <1>1, <2>1 DEF WrongKey, NotAllowed, VerifyCountersignature
    <2> QED BY <1>1, <2>2, <2>3 DEF BindingFault
  <1>4. CASE r.policy = "default"
    <2>1. /\ c.policy = "default" /\ Norm[c.actor] = TimeoutActor /\ c.key = Authority
          /\ c.decision = DefaultDecision(i) /\ s.stamp >= Deadline[i]
      BY <1>1, <1>4 DEF VerifyResolution, DefaultProof, VerifyCountersignature
    <2>2. ~Listed(s) /\ ~InKeyedSlot(s) /\ IsTimeoutDefault(s)
      BY <1>1, <2>1 DEF Listed, InKeyedSlot, IsTimeoutDefault
    <2>3. ~(s.stamp < Deadline[s.cs.intent])
      BY <1>1, <1>2, <2>1
    <2>4. ~Misbound(o, s) /\ ~WrongKey(o, s)
      BY <1>1, <2>1, <2>2, <2>3 DEF Misbound, WrongKey
    <2> QED BY <1>1, <2>2, <2>4 DEF BindingFault
  <1> QED BY <1>3, <1>4 DEF VerifyResolution

(* No false alarm: a receipt of a resolution that verifyResolution accepts *)
(* has no fault in verifyAll, whatever fitting options the auditor gives.  *)
THEOREM HonestReceiptsPass ==
  ASSUME NEW o, NEW i \in Intents, NEW r, NEW s \in Stored, s.intact, s.cs \in r.receipts,
         r.policy = "default" => s.stamp = r.stamp,
         Fits(o, i, s.cs), VerifyResolution(i, r)
  PROVE  AuditFault(o, s) = "none"
  <1>1. BindingFault(o, s) = "none"
    BY AcceptedReceiptsBind
  <1>2. Authentic(o, i)
    BY AuthenticIntents
  <1>3. s.cs.intent = i
    BY DEF VerifyResolution
  <1> QED BY <1>1, <1>2, <1>3 DEF AuditFault, Fits

(* No missed forgery: what an audit with the Intents and the authority key *)
(* lets pass, the runtime would have accepted: a Default and a refusal by  *)
(* themselves, an approval where one is enough.                            *)
THEOREM PassedReceiptsDecide ==
  ASSUME NEW s \in Stored, AuditFault(FullAudit, s) = "none",
         \/ s.cs.policy = "default" \/ s.cs.decision = "reject"
         \/ Quorum[s.cs.intent] = 1
  PROVE  VerifyResolution(s.cs.intent,
           [decision |-> s.cs.decision, policy |-> s.cs.policy,
            receipts |-> {s.cs}, stamp |-> s.stamp])
  <1> DEFINE c == s.cs
             i == s.cs.intent
             r == [decision |-> s.cs.decision, policy |-> s.cs.policy,
                   receipts |-> {s.cs}, stamp |-> s.stamp]
  <1>1. /\ i \in Intents /\ c.decision \in Decisions /\ c.policy \in Policies
        /\ s.stamp \in Nat /\ Deadline[i] \in Nat
        /\ r.decision = c.decision /\ r.policy = c.policy /\ r.receipts = {c}
        /\ r.stamp = s.stamp
    BY CountersignAssumption DEF Stored, Receipt
  <1>2. /\ FullAudit.intents = Intents /\ FullAudit.authority = {Authority}
        /\ FullAudit.agents = {} /\ FullAudit.trusted = {} /\ FullAudit.webauthn = TRUE
    BY DEF FullAudit
  <1>3. Authentic(FullAudit, i) /\ BindingFault(FullAudit, s) = "none"
    BY <1>1, <1>2 DEF AuditFault
  <1>4. WellFormed(i) /\ AgentKey[i] # Authority
    BY <1>2, <1>3 DEF Authentic
  <1>5. ~Misbound(FullAudit, s) /\ ~WrongKey(FullAudit, s)
    BY <1>2, <1>3 DEF BindingFault
  <1> HIDE DEF r
  <1>6. CASE Listed(s)
    <2>1. /\ c.policy = "approver" /\ Norm[c.actor] \in Approvers(i)
          /\ Norm[c.actor] # TimeoutActor
      BY <1>5, <1>6 DEF Misbound, Listed
    <2>2. /\ Norm[c.actor] \in Keyed[i] => KeyOf[Norm[c.actor]] # Authority
          /\ VerifyCountersignature(c, TrustedKey(i, Norm[c.actor]))
      BY <1>2, <1>5, <1>6 DEF WrongKey, InKeyedSlot, VerifyCountersignature, TrustedKey
    <2>3. r.decision = "approve" => Cardinality({Norm[x.actor] : x \in r.receipts}) >= Quorum[i]
      <3>1. {Norm[x.actor] : x \in r.receipts} = {Norm[c.actor]}
        BY <1>1
      <3>2. Cardinality({Norm[c.actor]}) = 1
        BY FS_Singleton
      <3>3. r.decision = "approve" => Quorum[i] = 1
        BY <1>1, <2>1
      <3> QED BY <3>1, <3>2, <3>3
    <2>4. ApproverProof(i, r)
      BY <1>1, <2>1, <2>2, <2>3 DEF ApproverProof
    <2> QED BY <1>1, <1>4, <2>1, <2>4 DEF VerifyResolution, r
  <1>7. CASE ~Listed(s)
    <2>1. /\ c.policy = "default" /\ Norm[c.actor] = TimeoutActor
          /\ c.decision = DefaultDecision(i) /\ ~(s.stamp < Deadline[i])
      BY <1>5, <1>7 DEF Misbound, IsTimeoutDefault
    <2>2. VerifyCountersignature(c, Authority)
      BY <1>2, <1>5, <1>7 DEF WrongKey, InKeyedSlot, VerifyCountersignature
    <2>3. DefaultProof(i, r)
      BY <1>1, <2>1, <2>2 DEF DefaultProof
    <2> QED BY <1>1, <1>4, <2>1, <2>3 DEF VerifyResolution, r
  <1> QED BY <1>6, <1>7

-----------------------------------------------------------------------------
(* The entries a write appends                                             *)

(* The entries of a write, each made of the one before it: that there are  *)
(* such follows from a least counterexample, which stands for induction.   *)
AreEntries(f, h, rs, n) ==
  f = [k \in 1..n |-> [seq |-> h.length + k - 1,
                       prev |-> IF k = 1 THEN h.hash ELSE f[k - 1],
                       receipt |-> rs[k]]]

(* The recursive definition of the chained entries has a solution of every *)
(* length: were there a least length without one, the solution one shorter *)
(* could be extended.                                                      *)
LEMMA EntriesExist ==
  ASSUME NEW h, NEW rs, NEW N \in Nat
  PROVE  \E f : AreEntries(f, h, rs, N)
  <1> DEFINE T == {n \in Nat : ~ \E f : AreEntries(f, h, rs, n)}
  <1>0. SUFFICES ASSUME T # {}  PROVE FALSE  OBVIOUS
  <1>1. T \subseteq Nat  OBVIOUS
  <1>2. PICK n \in T : \A m \in T : n <= m
    <2> HIDE DEF T
    <2> QED  BY <1>0, <1>1, LeastElement
  <1>3. n \in Nat /\ ~ \E f : AreEntries(f, h, rs, n)  OBVIOUS
  <1>4. CASE n = 0
    <2> DEFINE f == [k \in 1..n |-> h]
    <2>1. 1..n = {}  BY <1>4
    <2>2. AreEntries(f, h, rs, n)  BY <2>1 DEF AreEntries
    <2> QED  BY <1>3, <2>2
  <1>5. CASE n # 0
    <2>1. n - 1 \in Nat /\ ~(n <= n - 1)  BY <1>3, <1>5
    <2>2. PICK g : AreEntries(g, h, rs, n - 1)
      <3>1. n - 1 \notin T  BY <1>2, <2>1
      <3> QED  BY <2>1, <3>1
    <2> DEFINE f == [k \in 1..n |-> [seq |-> h.length + k - 1,
                                    prev |-> IF k = 1 THEN h.hash ELSE g[k - 1],
                                    receipt |-> rs[k]]]
    <2>3. ASSUME NEW k \in 1..n, k # 1  PROVE f[k - 1] = g[k - 1]
      <3>1. k - 1 \in 1..(n - 1) /\ k - 1 \in 1..n  BY <1>3, <2>3
      <3> DEFINE j == k - 1
      <3>2. j \in 1..(n - 1) /\ j \in 1..n  BY <3>1
      <3> HIDE DEF j
      <3>3. f[j] = [seq |-> h.length + j - 1,
                    prev |-> IF j = 1 THEN h.hash ELSE g[j - 1],
                    receipt |-> rs[j]]
        BY <3>2
      <3>4. g[j] = [seq |-> h.length + j - 1,
                    prev |-> IF j = 1 THEN h.hash ELSE g[j - 1],
                    receipt |-> rs[j]]
        BY <2>2, <3>2 DEF AreEntries
      <3> QED  BY <3>3, <3>4 DEF j
    <2>4. \A k \in 1..n : (IF k = 1 THEN h.hash ELSE g[k - 1]) = (IF k = 1 THEN h.hash ELSE f[k - 1])
      <3> HIDE DEF f
      <3> QED  BY <2>3
    <2>5. AreEntries(f, h, rs, n)  BY <2>4 DEF AreEntries
    <2> QED  BY <1>3, <2>5
  <1> QED  BY <1>4, <1>5

(* What append() chains: the receipts in their order, numbered and linked  *)
(* from the head on.                                                       *)
LEMMA EntriesFacts ==
  ASSUME NEW h, NEW rs, IsSeq(rs)
  PROVE  /\ IsSeq(Entries(h, rs)) /\ Len(Entries(h, rs)) = Len(rs)
         /\ \A k \in 1..Len(rs) :
              Entries(h, rs)[k] = [seq |-> h.length + k - 1,
                                   prev |-> IF k = 1 THEN h.hash ELSE Entries(h, rs)[k - 1],
                                   receipt |-> rs[k]]
  <1> DEFINE n == Len(rs)
             F == CHOOSE f : AreEntries(f, h, rs, n)
             E == Entries(h, rs)
  <1>1. n \in Nat  BY IsSeqLen
  <1>2. AreEntries(F, h, rs, n)
    <2> HIDE DEF n
    <2>1. \E f : AreEntries(f, h, rs, n)  BY <1>1, EntriesExist
    <2> QED  BY <2>1
  <1>3. E = [k \in 1..n |-> F[k]]  BY DEF Entries, AreEntries
  <1> HIDE DEF F, E, n
  <1>4. IsSeq(E) /\ Len(E) = n
    <2>1. E = [k \in 1..n |-> E[k]]  BY <1>3
    <2> QED  BY <1>1, <2>1, FunctionIsSeq
  <1>5. ASSUME NEW k \in 1..n
        PROVE  E[k] = [seq |-> h.length + k - 1,
                       prev |-> IF k = 1 THEN h.hash ELSE E[k - 1],
                       receipt |-> rs[k]]
    <2>1. E[k] = F[k]  BY <1>3
    <2>2. k # 1 => k - 1 \in 1..n  BY <1>1
    <2>3. k # 1 => E[k - 1] = F[k - 1]  BY <1>3, <2>2
    <2> QED  BY <1>2, <2>1, <2>3 DEF AreEntries
  <1> QED  BY <1>4, <1>5 DEF E, n

-----------------------------------------------------------------------------
(* The receipts a call was given                                           *)

Own(c, r) == \E n \in DOMAIN ReceiptsOf[c] : ReceiptsOf[c][n] = r

(* What a record() call is given: a sequence of unaltered receipts.        *)
LEMMA CallFacts ==
  ASSUME NEW c \in Calls
  PROVE  /\ IsSeq(ReceiptsOf[c])
         /\ Len(ReceiptsOf[c]) \in Nat /\ DOMAIN ReceiptsOf[c] = 1..Len(ReceiptsOf[c])
         /\ ReceiptsOf[c] # <<>> <=> Len(ReceiptsOf[c]) > 0
         /\ \A n \in 1..Len(ReceiptsOf[c]) : ReceiptsOf[c][n] \in Stored /\ ReceiptsOf[c][n].intact
  <1>1. /\ ReceiptsOf[c] \in Seq(Stored)
        /\ \A n \in DOMAIN ReceiptsOf[c] : ReceiptsOf[c][n].intact
    BY ReceiptLogAssumption
  <1>2. IsSeq(ReceiptsOf[c]) /\ DOMAIN ReceiptsOf[c] = 1..Len(ReceiptsOf[c])
    BY <1>1, IsSeqIntro
  <1>3. \A n \in 1..Len(ReceiptsOf[c]) : ReceiptsOf[c][n] \in Stored
    BY <1>1, ElementOfSeq
  <1> QED  BY <1>1, <1>2, <1>3, IsSeqLen

(* A receipt belongs to one call only.                                     *)
LEMMA OwnFacts ==
  ASSUME NEW c \in Calls, NEW r, Own(c, r)
  PROVE  /\ r \in Stored /\ r.intact
         /\ \A d \in Calls : Own(d, r) => d = c
  <1>1. PICK n \in DOMAIN ReceiptsOf[c] : ReceiptsOf[c][n] = r  BY DEF Own
  <1>2. r \in Stored /\ r.intact  BY <1>1, CallFacts
  <1>3. ASSUME NEW d \in Calls, Own(d, r), d # c  PROVE FALSE
    <2>1. PICK m \in DOMAIN ReceiptsOf[d] : ReceiptsOf[d][m] = r  BY <1>3 DEF Own
    <2>2. ReceiptsOf[d][m].cs.intent # ReceiptsOf[c][n].cs.intent
      BY <1>1, <1>3, <2>1, ReceiptLogAssumption
    <2> QED  BY <1>1, <2>1, <2>2
  <1> QED  BY <1>2, <1>3

(* What a call was given raises no alarm, neither in a full audit nor on   *)
(* the audit page of the console.                                          *)
LEMMA GivenPasses ==
  ASSUME NEW c \in Calls, NEW s, Own(c, s)
  PROVE  /\ AuditFault(FullAudit, s) = "none"
         /\ \A webauthn \in BOOLEAN : SignatureStatus(ConsoleAudit(webauthn), s) # "invalid"
  <1> DEFINE rs == ReceiptsOf[c]
  <1>1. s \in Stored /\ s.intact  BY OwnFacts
  <1>2. PICK n \in 1..Len(rs) : rs[n] = s  BY CallFacts DEF Own
  <1>3. rs # <<>> /\ Len(rs) \in Nat  BY <1>2, CallFacts
  <1>4. PICK i \in Intents, d \in Decisions, p \in Policies :
          /\ p = "default" => Len(rs) = 1
          /\ VerifyResolution(i,
               [decision |-> d, policy |-> p,
                receipts |-> {rs[k].cs : k \in DOMAIN rs}, stamp |-> rs[Len(rs)].stamp])
    BY <1>3, ReceiptLogAssumption
  <1> DEFINE r == [decision |-> d, policy |-> p,
                   receipts |-> {rs[k].cs : k \in DOMAIN rs}, stamp |-> rs[Len(rs)].stamp]
  <1>5. s.cs \in r.receipts  BY <1>2, CallFacts
  <1>6. r.policy = "default" => s.stamp = r.stamp
    <2> SUFFICES ASSUME p = "default"  PROVE s.stamp = rs[Len(rs)].stamp  OBVIOUS
    <2>1. Len(rs) = 1 /\ n = 1  BY <1>2, <1>4
    <2> QED  BY <1>2, <2>1
  <1>7. VerifyResolution(i, r)  BY <1>4
  <1> HIDE DEF r
  <1>8. Fits(FullAudit, i, s.cs)
    <2>1. Authority \in Keys  BY CountersignAssumption
    <2>2. FullAudit \in Options  BY <2>1 DEF FullAudit, Options
    <2> QED  BY <2>2 DEF Fits, FullAudit
  <1>9. AuditFault(FullAudit, s) = "none"  BY <1>1, <1>5, <1>6, <1>7, <1>8, HonestReceiptsPass
  <1>10. ASSUME NEW w \in BOOLEAN  PROVE SignatureStatus(ConsoleAudit(w), s) # "invalid"
    BY <1>1 DEF SignatureStatus, AuditFault, ConsoleAudit, NotAllowed
  <1> QED  BY <1>9, <1>10

-----------------------------------------------------------------------------
(* The invariant                                                           *)

IsEntry(e) ==
  e = [seq |-> e.seq, prev |-> e.prev, receipt |-> e.receipt] /\ e.receipt \in Stored

IsHead(h) == h = [length |-> h.length, hash |-> h.hash] /\ h.length \in Nat

LastOf(log) == IF Len(log) = 0 THEN Genesis ELSE log[Len(log)]

Shape ==
  /\ IsFile(file) /\ (file = <<>> => terminated)
  /\ queue \in Seq(Calls) /\ made \in Seq(Calls)
  /\ writer = [pc |-> writer.pc, call |-> writer.call]
  /\ IsHead(headState) /\ IsHead(anchor)
  /\ IsSeq(anchored) /\ anchor.length = Len(anchored) /\ anchor.hash = LastOf(anchored)
  /\ edits \in Nat
  /\ torn \in BOOLEAN

\* Call c stands before call d in a list of calls.
Before(list, c, d) == \E m, n \in 1..Len(list) : m < n /\ list[m] = c /\ list[n] = d

(* The calls that wait do so in the order they were made, behind the one   *)
(* that is being written.                                                  *)
QueueInv ==
  /\ \A m, n \in 1..Len(made) : made[m] = made[n] => m = n
  /\ \A m \in 1..Len(made) : outcome[made[m]] # "none"
  /\ \A c \in Calls : outcome[c] # "none" => \E m \in 1..Len(made) : made[m] = c
  /\ \A a \in 1..Len(queue) : ReceiptsOf[queue[a]] # <<>>
  /\ writer.call # NoCall => ReceiptsOf[writer.call] # <<>>
  /\ \A a, b \in 1..Len(queue) : a < b => Before(made, queue[a], queue[b])
  /\ writer.call # NoCall => \A a \in 1..Len(queue) : Before(made, writer.call, queue[a])

(* Every receipt that can be read was given to a record() call, or was     *)
(* changed by hand and does not verify any more.                           *)
SourceInv ==
  \A k \in 1..Len(file) : Parses(file[k]) =>
    /\ IsEntry(Entry(k))
    /\ \/ \E m \in 1..Len(made) : Own(made[m], Entry(k).receipt)
       \/ edits # 0 /\ ~Entry(k).receipt.intact

(* The receipts in the file stand in the order of their calls, which were  *)
(* made before any call that is still to be written.                       *)
OrderInv ==
  edits = 0 =>
    /\ \A j \in 1..Len(file), m, n \in 1..Len(made) :
         /\ Parses(file[j]) /\ Own(made[m], Entry(j).receipt)
         /\ outcome[made[n]] = "pending"
         => m < n
    /\ \A j, k \in 1..Len(file), m, n \in 1..Len(made) :
         /\ Parses(file[j]) /\ Own(made[m], Entry(j).receipt)
         /\ Parses(file[k]) /\ Own(made[n], Entry(k).receipt)
         /\ m < n
         => j < k

(* An untouched log is whole lines, a chain, and what its head says.       *)
HonestInv ==
  Untouched =>
    /\ Readable /\ terminated /\ Linked
    /\ headState # NoHead => headState = FileHead
    /\ Len(anchored) <= Len(file) /\ \A k \in 1..Len(anchored) : anchored[k] = Entry(k)

IInv == Shape /\ TypeOK /\ QueueInv /\ SourceInv /\ OrderInv /\ LossIsLoud /\ HonestInv

-----------------------------------------------------------------------------
(* What the write in progress appends                                      *)

(* The write in progress chains the receipts of its call to the cached     *)
(* head.                                                                   *)
LEMMA WritingFacts ==
  ASSUME Shape, TypeOK, QueueInv, writer.pc = "append"
  PROVE  /\ writer.call \in Calls
         /\ IsSeq(Writing) /\ Len(Writing) = Len(ReceiptsOf[writer.call])
         /\ Len(Writing) \in Nat /\ Len(Writing) > 0
         /\ \A k \in 1..Len(Writing) :
              /\ Writing[k] = [seq |-> headState.length + k - 1,
                               prev |-> IF k = 1 THEN headState.hash ELSE Writing[k - 1],
                               receipt |-> ReceiptsOf[writer.call][k]]
              /\ IsEntry(Writing[k]) /\ Own(writer.call, Writing[k].receipt)
         /\ IsSeq(WholeAll(Writing)) /\ Len(WholeAll(Writing)) = Len(Writing)
         /\ \A k \in 1..Len(Writing) : WholeAll(Writing)[k] = Whole(Writing[k])
  <1>1. writer.call \in Calls /\ writer.call # NoCall  BY DEF TypeOK
  <1> DEFINE rs == ReceiptsOf[writer.call]
  <1>2. /\ IsSeq(rs) /\ Len(rs) \in Nat /\ Len(rs) > 0 /\ DOMAIN rs = 1..Len(rs)
        /\ \A n \in 1..Len(rs) : rs[n] \in Stored
    BY <1>1, CallFacts DEF QueueInv
  <1>3. /\ IsSeq(Writing) /\ Len(Writing) = Len(rs)
        /\ \A k \in 1..Len(rs) :
             Writing[k] = [seq |-> headState.length + k - 1,
                           prev |-> IF k = 1 THEN headState.hash ELSE Writing[k - 1],
                           receipt |-> rs[k]]
    <2>0. IsSeq(rs)  BY <1>2
    <2> DEFINE h == headState
    <2> HIDE DEF rs, h
    <2>1. /\ IsSeq(Entries(h, rs)) /\ Len(Entries(h, rs)) = Len(rs)
          /\ \A k \in 1..Len(rs) :
               Entries(h, rs)[k] = [seq |-> h.length + k - 1,
                                    prev |-> IF k = 1 THEN h.hash ELSE Entries(h, rs)[k - 1],
                                    receipt |-> rs[k]]
      BY <2>0, EntriesFacts
    <2>2. Writing = Entries(h, rs)  BY DEF Writing, h, rs
    <2> QED  BY <2>1, <2>2 DEF h
  <1> DEFINE W == Writing
  <1>4. ASSUME NEW k \in 1..Len(W)  PROVE IsEntry(W[k]) /\ Own(writer.call, W[k].receipt)
    <2>1. W[k] = [seq |-> headState.length + k - 1,
                  prev |-> IF k = 1 THEN headState.hash ELSE W[k - 1],
                  receipt |-> rs[k]]
      BY <1>3
    <2>2. k \in DOMAIN rs /\ rs[k] \in Stored  BY <1>2, <1>3
    <2> HIDE DEF W, rs
    <2>3. W[k].receipt = rs[k] /\ IsEntry(W[k])  BY <2>1, <2>2 DEF IsEntry
    <2> QED  BY <2>2, <2>3 DEF Own, rs
  <1>5. /\ IsSeq(WholeAll(W)) /\ Len(WholeAll(W)) = Len(W)
        /\ \A k \in 1..Len(W) : WholeAll(W)[k] = Whole(W[k])
    <2>1. Len(W) \in Nat  BY <1>2, <1>3
    <2> HIDE DEF W
    <2>2. WholeAll(W) = [k \in 1..Len(W) |-> WholeAll(W)[k]]  BY DEF WholeAll
    <2>3. \A k \in 1..Len(W) : WholeAll(W)[k] = Whole(W[k])  BY DEF WholeAll
    <2> QED  BY <2>1, <2>2, <2>3, FunctionIsSeq
  <1> QED  BY <1>1, <1>2, <1>3, <1>4, <1>5

(* The pieces a write put down before it ended or was cut off.             *)
Pieces(ps) ==
  /\ writer.pc = "append"
  /\ IsSeq(ps) /\ Len(ps) <= Len(Writing)
  /\ \A k \in 1..Len(ps) : ps[k].record = Writing[k]

(* The end of a write, of whatever kind, leaves the file alone or writes   *)
(* pieces at its end.                                                      *)
LEMMA WriteStep ==
  ASSUME Shape, TypeOK, QueueInv, AppendSucceeds \/ AppendFails \/ Crash
  PROVE  /\ IsFile(file') /\ terminated' \in BOOLEAN /\ (file' = <<>> => terminated')
         /\ \/ file' = file
            \/ \E ps : Pieces(ps) /\ file' = WriteAtEnd(file, terminated, ps)
  <1>1. IsFile(file) /\ terminated \in BOOLEAN /\ (file = <<>> => terminated)
    BY DEF Shape, TypeOK
  <1> DEFINE all == WholeAll(Writing)
  <1>2. CASE AppendSucceeds
    <2>1. writer.pc = "append" /\ file' = WriteAtEnd(file, terminated, all) /\ terminated' = TRUE
      BY <1>2 DEF AppendSucceeds
    <2>2. /\ IsSeq(all) /\ Len(all) = Len(Writing) /\ Len(Writing) \in Nat
          /\ \A k \in 1..Len(all) : all[k].record = Writing[k]
      <3>1. /\ IsSeq(all) /\ Len(all) = Len(Writing) /\ Len(Writing) \in Nat
            /\ \A k \in 1..Len(Writing) : all[k] = Whole(Writing[k])
        BY <2>1, WritingFacts
      <3> HIDE DEF all
      <3>2. \A k \in 1..Len(all) : all[k] = Whole(Writing[k])  BY <3>1
      <3>3. \A e : Whole(e).record = e  BY DEF Whole
      <3>4. \A k \in 1..Len(all) : all[k].record = Writing[k]  BY <3>2, <3>3
      <3> QED  BY <3>1, <3>4
    <2>3. Pieces(all)  BY <2>1, <2>2 DEF Pieces
    <2> HIDE DEF all
    <2>4. IsFile(file')  BY <1>1, <2>1, <2>2, WriteKeepsFile
    <2> QED  BY <2>1, <2>3, <2>4
  <1>3. ASSUME writer.pc = "append", LeavesLines \/ LeavesText
        PROVE  /\ IsFile(file') /\ terminated' \in BOOLEAN /\ (file' = <<>> => terminated')
               /\ \E ps : Pieces(ps) /\ file' = WriteAtEnd(file, terminated, ps)
    <2>1. PICK left \in CutOffAtLine(file, terminated, all) \cup CutOffInside(file, terminated, all) :
            file' = left[1] /\ terminated' = left[2]
      BY <1>3 DEF LeavesLines, LeavesText
    <2>2. /\ IsSeq(all) /\ Len(all) = Len(Writing) /\ Len(Writing) \in Nat
          /\ \A k \in 1..Len(Writing) : all[k].record = Writing[k]
      <3>1. /\ IsSeq(all) /\ Len(all) = Len(Writing) /\ Len(Writing) \in Nat
            /\ \A k \in 1..Len(Writing) : all[k] = Whole(Writing[k])
        BY <1>3, WritingFacts
      <3> HIDE DEF all
      <3>2. \A e : Whole(e).record = e  BY DEF Whole
      <3>3. \A k \in 1..Len(Writing) : all[k].record = Writing[k]  BY <3>1, <3>2
      <3> QED  BY <3>1, <3>3
    <2> HIDE DEF all
    <2>3. /\ left[2] \in BOOLEAN /\ (left[1] = <<>> => left[2])
          /\ \E ps : /\ IsSeq(ps) /\ left[1] = WriteAtEnd(file, terminated, ps)
                     /\ Len(ps) <= Len(all)
                     /\ \A k \in 1..Len(ps) : ps[k].record = all[k].record
      <3>1. IsSeq(all)  BY <2>2
      <3> QED  BY <1>1, <3>1, CutOffFacts
    <2>4. PICK ps : /\ IsSeq(ps) /\ left[1] = WriteAtEnd(file, terminated, ps)
                    /\ Len(ps) <= Len(all)
                    /\ \A k \in 1..Len(ps) : ps[k].record = all[k].record
      BY <2>3
    <2>5. Len(ps) \in Nat  BY <2>4, IsSeqLen
    <2>6. \A k \in 1..Len(ps) : k \in 1..Len(Writing)  BY <2>2, <2>4, <2>5
    <2>7. Pieces(ps)  BY <1>3, <2>2, <2>4, <2>6 DEF Pieces
    <2>8. IsFile(file')  BY <1>1, <2>1, <2>4, WriteKeepsFile
    <2> QED  BY <2>1, <2>3, <2>4, <2>7, <2>8
  <1>4. CASE AppendFails  BY <1>3, <1>4 DEF AppendFails
  <1>5. CASE Crash  BY <1>1, <1>3, <1>5 DEF Crash
  <1> QED  BY <1>2, <1>4, <1>5

(* A line that can be read was there before, or has a receipt of the call  *)
(* that was written.                                                       *)
LEMMA LinesFrom ==
  ASSUME Shape, TypeOK, QueueInv, AppendSucceeds \/ AppendFails \/ Crash,
         NEW k \in 1..Len(file'), Parses(file'[k])
  PROVE  \/ k \in 1..Len(file) /\ file'[k] = file[k]
         \/ /\ k > Len(file) /\ writer.pc = "append" /\ writer.call \in Calls
            /\ IsEntry(file'[k][1].record) /\ Own(writer.call, file'[k][1].record.receipt)
  <1>1. \/ file' = file
        \/ \E ps : Pieces(ps) /\ file' = WriteAtEnd(file, terminated, ps)
    BY WriteStep
  <1>2. CASE file' = file  BY <1>2
  <1>3. CASE \E ps : Pieces(ps) /\ file' = WriteAtEnd(file, terminated, ps)
    <2>1. PICK ps : Pieces(ps) /\ file' = WriteAtEnd(file, terminated, ps)  BY <1>3
    <2>2. IsSeq(ps) /\ Len(ps) \in Nat  BY <2>1, IsSeqLen DEF Pieces
    <2>3. IsFile(file) /\ (file = <<>> => terminated)  BY DEF Shape
    <2>4. PICK w : w = WriteAtEnd(file, terminated, ps)  OBVIOUS
    <2>5. \/ k \in 1..Len(file) /\ file'[k] = file[k]
          \/ k > Len(file) /\ \E m \in 1..Len(ps) : file'[k] = <<ps[m]>>
      <3>1. file' = w  BY <2>1, <2>4
      <3>2. /\ IsFile(file) /\ (file = <<>> => terminated) /\ IsSeq(ps)
            /\ w = WriteAtEnd(file, terminated, ps) /\ k \in 1..Len(w) /\ Parses(w[k])
        BY <2>2, <2>3, <2>4, <3>1
      <3>3. \/ k \in 1..Len(file) /\ w[k] = file[k]
            \/ k > Len(file) /\ \E m \in 1..Len(ps) : w[k] = <<ps[m]>>
        BY <3>2, ParsedAfterWrite
      <3> QED  BY <3>1, <3>3
    <2>6. ASSUME k > Len(file), NEW m \in 1..Len(ps), file'[k] = <<ps[m]>>
          PROVE  /\ k > Len(file) /\ writer.pc = "append" /\ writer.call \in Calls
                 /\ IsEntry(file'[k][1].record) /\ Own(writer.call, file'[k][1].record.receipt)
      <3>1. writer.pc = "append" /\ Len(ps) <= Len(Writing) /\ ps[m].record = Writing[m]
        BY <2>1 DEF Pieces
      <3>2. Len(Writing) \in Nat  BY <3>1, WritingFacts
      <3>3. m \in 1..Len(Writing)  BY <2>2, <3>1, <3>2
      <3>4. file'[k][1].record = Writing[m]  BY <2>6, <3>1
      <3> QED  BY <2>6, <3>1, <3>3, <3>4, WritingFacts
    <2> QED  BY <2>5, <2>6
  <1> QED  BY <1>1, <1>2, <1>3

-----------------------------------------------------------------------------
(* What an edit leaves                                                     *)

Sourced(e) ==
  /\ IsEntry(e)
  /\ \/ \E m \in 1..Len(made) : Own(made[m], e.receipt)
     \/ ~e.receipt.intact

SourcedLog(log) == IsSeq(log) /\ \A k \in 1..Len(log) : Sourced(log[k])

(* Computing the links anew changes no receipt.                            *)
LEMMA RechainedIsSourced ==
  ASSUME NEW log, SourcedLog(log)
  PROVE  SourcedLog(Rechained(log))
  <1> DEFINE rs == [n \in 1..Len(log) |-> log[n].receipt]
             h  == [length |-> 0, hash |-> Genesis]
  <1>1. IsSeq(log) /\ Len(log) \in Nat  BY IsSeqLen DEF SourcedLog
  <1>2. IsSeq(rs) /\ Len(rs) = Len(log)
    <2>1. rs = [n \in 1..Len(log) |-> rs[n]]  OBVIOUS
    <2> HIDE DEF rs
    <2> QED  BY <1>1, <2>1, FunctionIsSeq
  <1>3. \A n \in 1..Len(log) : rs[n] = log[n].receipt  OBVIOUS
  <1>4. Rechained(log) = Entries(h, rs)  BY DEF Rechained
  <1> HIDE DEF rs, h
  <1>5. /\ IsSeq(Entries(h, rs)) /\ Len(Entries(h, rs)) = Len(rs)
        /\ \A k \in 1..Len(rs) :
             Entries(h, rs)[k] = [seq |-> h.length + k - 1,
                                  prev |-> IF k = 1 THEN h.hash ELSE Entries(h, rs)[k - 1],
                                  receipt |-> rs[k]]
    BY <1>2, EntriesFacts
  <1> DEFINE E == Entries(h, rs)
  <1>6. ASSUME NEW k \in 1..Len(log)  PROVE Sourced(E[k])
    <2>1. E[k] = [seq |-> h.length + k - 1,
                  prev |-> IF k = 1 THEN h.hash ELSE E[k - 1],
                  receipt |-> log[k].receipt]
      BY <1>2, <1>3, <1>5
    <2>2. Sourced(log[k])  BY DEF SourcedLog
    <2> HIDE DEF E
    <2>3. E[k].receipt = log[k].receipt
          /\ E[k] = [seq |-> E[k].seq, prev |-> E[k].prev, receipt |-> E[k].receipt]
      BY <2>1
    <2> QED  BY <2>2, <2>3 DEF Sourced, IsEntry
  <1> QED  BY <1>2, <1>4, <1>5, <1>6 DEF SourcedLog

(* An edit by hand leaves whole lines, with receipts that were there or    *)
(* were altered.                                                           *)
LEMMA EditStep ==
  ASSUME Shape, TypeOK, SourceInv, Edit
  PROVE  /\ IsFile(file')
         /\ \A k \in 1..Len(file') : \E e : file'[k] = <<Whole(e)>> /\ Sourced(e)
  <1> DEFINE R == Records(file)
  <1>1. IsSeq(file) /\ Len(file) \in Nat /\ Readable  BY IsSeqLen DEF Shape, IsFile, Edit
  <1>2. PICK k \in 1..Len(file) : \E log \in EditedEntries(k) :
               file' = [n \in 1..Len(log) |-> <<Whole(log[n])>>]
    BY DEF Edit
  <1>3. PICK log \in EditedEntries(k) : file' = [n \in 1..Len(log) |-> <<Whole(log[n])>>]
    BY <1>2
  <1>4. IsSeq(R) /\ Len(R) = Len(file) /\ \A n \in 1..Len(file) : R[n] = file[n][1].record
    BY <1>1, RecordsFacts
  <1>5. SourcedLog(R)
    <2> SUFFICES ASSUME NEW n \in 1..Len(R)  PROVE Sourced(R[n])  BY <1>4 DEF SourcedLog
    <2>1. n \in 1..Len(file) /\ Parses(file[n]) /\ R[n] = Entry(n)
      BY <1>1, <1>4 DEF Readable, AllParse, Entry
    <2> QED  BY <2>1 DEF SourceInv, Sourced
  <1> DEFINE lost == SubSeq(R, 1, k - 1) \o SubSeq(R, k + 1, Len(file))
             changed == [R EXCEPT ![k].receipt.intact = FALSE]
  <1>6. log \in {lost, Rechained(lost), changed, Rechained(changed)}  BY DEF EditedEntries
  <1> HIDE DEF R
  <1>7. SourcedLog(lost)
    <2>1. k \in 1..Len(R) /\ k <= k /\ IsSeq(R)  BY <1>1, <1>4
    <2> DEFINE w == SubSeq(R, 1, k - 1) \o SubSeq(R, k + 1, Len(R))
    <2>2. IsSeq(w) /\ \A n \in 1..Len(w) : \E m \in 1..Len(R) : w[n] = R[m]
      BY <2>1, CutOutFacts
    <2>3. lost = w  BY <1>4
    <2> HIDE DEF w, lost
    <2> QED  BY <1>5, <2>2, <2>3 DEF SourcedLog
  <1>8. SourcedLog(changed)
    <2> DEFINE x == [R[k] EXCEPT !.receipt.intact = FALSE]
    <2>0. DOMAIN R = 1..Len(file)  BY <1>4, IsSeqLen
    <2>1. changed = [n \in 1..Len(file) |-> IF n = k THEN x ELSE R[n]]  BY <2>0
    <2>2. Sourced(x)
      <3>1. Sourced(R[k])  BY <1>4, <1>5 DEF SourcedLog
      <3>2. /\ R[k] = [seq |-> R[k].seq, prev |-> R[k].prev, receipt |-> R[k].receipt]
            /\ R[k].receipt \in Stored
        BY <3>1 DEF Sourced, IsEntry
      <3> DEFINE r == [R[k].receipt EXCEPT !.intact = FALSE]
      <3>3. r \in Stored /\ ~r.intact  BY <3>2 DEF Stored
      <3>4. x = [seq |-> R[k].seq, prev |-> R[k].prev, receipt |-> r]
        <4> DEFINE y == R[k]
        <4> HIDE DEF y
        <4>1. y = [seq |-> y.seq, prev |-> y.prev, receipt |-> y.receipt]  BY <3>2 DEF y
        <4>2. [y EXCEPT !.receipt.intact = FALSE] = [y EXCEPT !.receipt = r]  BY DEF r, y
        <4> HIDE DEF r
        <4>3. [y EXCEPT !.receipt = r] = [seq |-> y.seq, prev |-> y.prev, receipt |-> r]
          BY <4>1
        <4> QED  BY <4>2, <4>3 DEF y
      <3> HIDE DEF x, r
      <3> QED  BY <3>3, <3>4 DEF Sourced, IsEntry
    <2> HIDE DEF changed, x
    <2>3. IsSeq(changed) /\ Len(changed) = Len(file)
      <3>1. changed = [n \in 1..Len(file) |-> changed[n]]  BY <2>1
      <3> QED  BY <1>1, <3>1, FunctionIsSeq
    <2>4. \A n \in 1..Len(file) : Sourced(changed[n])  BY <1>4, <1>5, <2>1, <2>2 DEF SourcedLog
    <2> QED  BY <2>3, <2>4 DEF SourcedLog
  <1> HIDE DEF lost, changed
  <1>9. SourcedLog(log)  BY <1>6, <1>7, <1>8, RechainedIsSourced
  <1>10. Len(log) \in Nat  BY <1>9, IsSeqLen DEF SourcedLog
  <1>11. IsSeq(file') /\ Len(file') = Len(log)
    <2>1. file' = [n \in 1..Len(log) |-> (file')[n]]  BY <1>3
    <2> DEFINE f == file'
    <2>2. f = [n \in 1..Len(log) |-> f[n]]  BY <2>1
    <2> HIDE DEF f
    <2>3. IsSeq(f) /\ Len(f) = Len(log)  BY <1>10, <2>2, FunctionIsSeq
    <2> QED  BY <2>3 DEF f
  <1>12. ASSUME NEW n \in 1..Len(log)  PROVE file'[n] = <<Whole(log[n])>>
    BY <1>3
  <1>13. \A n \in 1..Len(log) : IsSeq(file'[n]) /\ file'[n] # <<>>
    BY <1>12, SingletonFacts
  <1>14. IsFile(file')  BY <1>11, <1>13 DEF IsFile
  <1> QED  BY <1>9, <1>11, <1>12, <1>14 DEF SourcedLog

-----------------------------------------------------------------------------
(* The steps                                                               *)

LEMMA Initially == Init => IInv
  <1> SUFFICES ASSUME Init  PROVE IInv  OBVIOUS
  <1>1. IsFile(<<>>) /\ IsSeq(<<>>) /\ Len(<<>>) = 0  BY EmptyFacts DEF IsFile
  <1>2. file = <<>> /\ queue = <<>> /\ made = <<>> /\ anchored = <<>>  BY DEF Init
  <1>3. Shape
    <2>1. queue \in Seq(Calls) /\ made \in Seq(Calls)  BY <1>2
    <2>2. IsHead(headState) /\ IsHead(anchor)
      BY DEF Init, NoHead, IsHead
    <2>3. anchor.length = Len(anchored) /\ anchor.hash = LastOf(anchored)
      BY <1>1, <1>2 DEF Init, LastOf
    <2> QED  BY <1>1, <1>2, <2>1, <2>2, <2>3 DEF Init, Shape, Idle
  <1>4. TypeOK
    <2>1. {queue[k] : k \in 1..Len(queue)} = {}  BY <1>1, <1>2
    <2>2. /\ terminated \in BOOLEAN /\ ensuredDir \in BOOLEAN
          /\ writer.pc = "idle" /\ writer.call = NoCall
          /\ faults = 0 /\ outcome = [c \in Calls |-> "none"]
      BY DEF Init, Idle
    <2>3. faults \in 0..MaxFaults  BY <2>2, ReceiptLogAssumption
    <2>4. /\ outcome \in [Calls -> {"none", "pending", "resolved", "rejected", "lost"}]
          /\ {c \in Calls : outcome[c] = "pending"} = {}
      BY <2>2
    <2> QED  BY <2>1, <2>2, <2>3, <2>4 DEF TypeOK
  <1>5. QueueInv  BY <1>1, <1>2 DEF Init, QueueInv, Idle
  <1>6. SourceInv /\ OrderInv  BY <1>1, <1>2 DEF SourceInv, OrderInv
  <1>7. LossIsLoud  BY DEF Init, LossIsLoud, AcknowledgedIsRemembered
  <1>8. HonestInv
    <2>1. Len(file) = 0 /\ Len(anchored) = 0 /\ Len(Records(file)) = 0
      <3>1. IsSeq(file)  BY <1>1, <1>2
      <3> QED  BY <1>1, <1>2, <3>1, RecordsFacts
    <2> QED  BY <2>1 DEF Init, HonestInv, Readable, AllParse, Linked, Chained
  <1> QED  BY <1>3, <1>4, <1>5, <1>6, <1>7, <1>8 DEF IInv

\* The steps that leave the file alone.
Quiet ==
  \/ \E c \in Calls : Record(c)
  \/ Start \/ MakeDir \/ EnsureHead
  \/ TakeAnchor
  \/ UNCHANGED vars

\* The steps that end a write.
Ending == AppendSucceeds \/ AppendFails \/ Crash

(* Every step leaves the file alone, ends a write, or is an edit by hand.  *)
LEMMA Steps == [Next]_vars => Quiet \/ Ending \/ Edit
  BY DEF Next, Quiet, Ending

LEMMA QuietFile == ASSUME Quiet PROVE UNCHANGED <<file, terminated, torn, edits>>
  BY DEF Quiet, Record, Start, MakeDir, EnsureHead, TakeAnchor, vars

(* The head recovered from a file is that of the records in it.            *)
LEMMA HeadOfFile ==
  ASSUME IsFile(file)
  PROVE  /\ IsHead(FileHead) /\ FileHead # NoHead
         /\ FileHead.length = Len(Records(file)) /\ FileHead.hash = LastOf(Records(file))
  <1>1. /\ IsSeq(file) /\ Len(file) \in Nat /\ (file # <<>> <=> Len(file) > 0)
    BY IsSeqLen DEF IsFile
  <1>2. Len(Records(file)) = Len(file)
        /\ \A k \in 1..Len(file) : Records(file)[k] = file[k][1].record
    BY <1>1, RecordsFacts
  <1>3. file # <<>> => Len(file) \in 1..Len(file) /\ Len(file) # 0  BY <1>1
  <1>4. file = <<>> => Len(file) = 0  BY <1>1
  <1>5. FileHead.hash = LastOf(Records(file))
    BY <1>2, <1>3, <1>4 DEF FileHead, LastOf, Entry
  <1>6. FileHead # NoHead
    BY <1>1, <1>3, ReceiptLogAssumption DEF FileHead, NoHead
  <1> QED  BY <1>1, <1>2, <1>5, <1>6 DEF FileHead, IsHead

(* Every step keeps the shapes of the file, the queue and the heads.       *)
LEMMA ShapeStep == ASSUME IInv, [Next]_vars PROVE Shape'
  <1> USE DEF IInv
  <1>1. Shape  OBVIOUS
  <1>2. CASE Quiet
    <2>1. file' = file /\ terminated' = terminated /\ torn' = torn /\ edits' = edits
      BY <1>2, QuietFile
    <2>2. IsFile(file')  BY <1>1, <2>1 DEF Shape
    <2>3. queue' \in Seq(Calls) /\ made' \in Seq(Calls)
      <3>1. queue \in Seq(Calls) /\ made \in Seq(Calls)  BY DEF Shape
      <3>2. ASSUME NEW c \in Calls, Record(c)  PROVE queue' \in Seq(Calls) /\ made' \in Seq(Calls)
        <4>1. made' = Append(made, c) /\ (queue' = queue \/ queue' = Append(queue, c))
          BY <3>2 DEF Record
        <4>2. Append(made, c) \in Seq(Calls) /\ Append(queue, c) \in Seq(Calls)  BY <3>1
        <4> QED  BY <3>1, <4>1, <4>2, Zenon
      <3>3. CASE Start
        BY <3>1, <3>3 DEF Start
      <3> QED  BY <1>2, <3>1, <3>2, <3>3 DEF Quiet, MakeDir, EnsureHead, TakeAnchor, vars
    <2>4. writer' = [pc |-> writer'.pc, call |-> writer'.call]
      <3>1. writer = [pc |-> writer.pc, call |-> writer.call]  BY DEF Shape
      <3> QED  BY <1>2, <3>1
           DEF Quiet, Record, Start, MakeDir, EnsureHead, TakeAnchor, vars, Reject, Idle
    <2>5. IsHead(headState')
      <3>1. IsHead(headState) /\ IsHead(FileHead)  BY HeadOfFile DEF Shape
      <3> QED  BY <1>2, <3>1 DEF Quiet, Record, Start, MakeDir, EnsureHead, TakeAnchor, vars
    <2>6. /\ IsHead(anchor') /\ IsSeq(anchored') /\ anchor'.length = Len(anchored')
          /\ anchor'.hash = LastOf(anchored')
      <3>1. CASE TakeAnchor
        <4>1. IsSeq(Records(file))  BY RecordsFacts DEF Shape, IsFile
        <4>2. IsFile(file)  BY DEF Shape
        <4> QED  BY <3>1, <4>1, <4>2, HeadOfFile DEF TakeAnchor
      <3>2. CASE ~TakeAnchor
        <4>1. anchor' = anchor /\ anchored' = anchored
          BY <1>2, <3>2 DEF Quiet, Record, Start, MakeDir, EnsureHead, vars
        <4> QED  BY <1>1, <4>1 DEF Shape
      <3> QED  BY <3>1, <3>2
    <2> QED  BY <1>1, <2>1, <2>2, <2>3, <2>4, <2>5, <2>6 DEF Shape
  <1>3. CASE Ending
    <2>1. IsFile(file') /\ (file' = <<>> => terminated')  BY <1>3, WriteStep DEF Ending
    <2>2. queue' \in Seq(Calls) /\ made' \in Seq(Calls)
      <3>1. queue \in Seq(Calls) /\ made \in Seq(Calls)  BY DEF Shape
      <3>2. made' = made /\ (queue' = queue \/ queue' = <<>>)
        BY <1>3 DEF Ending, AppendSucceeds, AppendFails, Crash
      <3>3. <<>> \in Seq(Calls)  OBVIOUS
      <3> QED  BY <3>1, <3>2, <3>3, Zenon
    <2>3. writer' = [pc |-> writer'.pc, call |-> writer'.call]
      BY <1>3 DEF Ending, AppendSucceeds, AppendFails, Crash, Reject, Idle
    <2>4. IsHead(headState')
      <3>1. IsHead(headState)  BY DEF Shape
      <3>2. CASE AppendSucceeds
        <4>1. Len(Writing) \in Nat  BY <3>2, WritingFacts DEF AppendSucceeds
        <4> QED  BY <3>1, <3>2, <4>1 DEF AppendSucceeds, IsHead
      <3>3. IsHead(NoHead)  BY DEF NoHead, IsHead
      <3> QED  BY <1>3, <3>1, <3>2, <3>3 DEF Ending, AppendFails, Crash
    <2>5. UNCHANGED <<anchor, anchored, edits>>
      BY <1>3 DEF Ending, AppendSucceeds, AppendFails, Crash
    <2>6. torn' \in BOOLEAN
      BY <1>3 DEF Shape, Ending, AppendSucceeds, AppendFails, Crash
    <2> QED  BY <1>1, <2>1, <2>2, <2>3, <2>4, <2>5, <2>6 DEF Shape
  <1>4. CASE Edit
    <2>1. IsFile(file')  BY <1>4, EditStep
    <2>2. /\ terminated = TRUE /\ edits' = edits + 1
          /\ UNCHANGED <<terminated, queue, writer, headState, made, anchor, anchored, torn>>
      BY <1>4 DEF Edit, TypeOK
    <2> QED  BY <1>1, <2>1, <2>2 DEF Shape
  <1> QED  BY <1>2, <1>3, <1>4, Steps

-----------------------------------------------------------------------------
(* The queue                                                               *)

Members(list) == {list[k] : k \in 1..Len(list)}

(* The calls in a queue that one was appended to.                          *)
LEMMA AppendMembers ==
  ASSUME NEW list \in Seq(Calls), NEW c \in Calls
  PROVE  Members(Append(list, c)) = Members(list) \cup {c}
  <1>1. /\ Len(Append(list, c)) = Len(list) + 1 /\ Len(list) \in Nat
        /\ \A k \in 1..Len(list) : Append(list, c)[k] = list[k]
        /\ Append(list, c)[Len(list) + 1] = c
    OBVIOUS
  <1> QED  BY <1>1 DEF Members

(* A queue and what remains when its first call is taken out.              *)
LEMMA TailFacts ==
  ASSUME NEW list \in Seq(Calls), list # <<>>
  PROVE  /\ Len(list) \in Nat /\ Len(list) > 0 /\ Head(list) = list[1] /\ Head(list) \in Calls
         /\ Tail(list) \in Seq(Calls) /\ Len(Tail(list)) = Len(list) - 1
         /\ \A k \in 1..Len(Tail(list)) : Tail(list)[k] = list[k + 1]
         /\ Members(list) = {Head(list)} \cup Members(Tail(list))
  <1>1. /\ Len(list) \in Nat /\ Len(list) > 0 /\ Head(list) = list[1] /\ Head(list) \in Calls
        /\ Tail(list) \in Seq(Calls) /\ Len(Tail(list)) = Len(list) - 1
        /\ \A k \in 1..Len(Tail(list)) : Tail(list)[k] = list[k + 1]
    OBVIOUS
  <1>2. \A k \in 1..Len(list) : k = 1 \/ (k - 1 \in 1..Len(Tail(list)) /\ k - 1 + 1 = k)  BY <1>1
  <1>3. \A k \in 1..Len(Tail(list)) : k + 1 \in 1..Len(list)  BY <1>1
  <1>4. Members(list) \subseteq {Head(list)} \cup Members(Tail(list))
    <2> SUFFICES ASSUME NEW k \in 1..Len(list), k # 1  PROVE list[k] \in Members(Tail(list))
      BY <1>1 DEF Members
    <2>1. k - 1 \in 1..Len(Tail(list)) /\ Tail(list)[k - 1] = list[k]  BY <1>1, <1>2
    <2> QED  BY <2>1 DEF Members
  <1>5. {Head(list)} \cup Members(Tail(list)) \subseteq Members(list)
    BY <1>1, <1>3 DEF Members
  <1> QED  BY <1>1, <1>4, <1>5

(* A call that is written waits no more.                                   *)
LEMMA WriterNotQueued ==
  ASSUME Shape, TypeOK, QueueInv
  PROVE  writer.call # NoCall => writer.call \notin Members(queue)
  <1> SUFFICES ASSUME writer.call # NoCall, NEW a \in 1..Len(queue), queue[a] = writer.call
               PROVE  FALSE
    BY DEF Members
  <1>1. PICK m, n \in 1..Len(made) : m < n /\ made[m] = writer.call /\ made[n] = queue[a]
    BY DEF QueueInv, Before
  <1>2. m = n  BY <1>1 DEF QueueInv
  <1> QED  BY <1>1, <1>2

PendingCalls == {c \in Calls : outcome[c] = "pending"}

(* Every step keeps the types, and the waiting calls pending.              *)
LEMMA TypeStep == ASSUME IInv, [Next]_vars PROVE TypeOK'
  <1> USE DEF IInv
  <1>1. Shape /\ TypeOK /\ QueueInv  OBVIOUS
  <1>2. /\ queue \in Seq(Calls) /\ edits \in Nat /\ MaxFaults \in Nat /\ NoCall \notin Calls
        /\ faults \in 0..MaxFaults
        /\ outcome \in [Calls -> {"none", "pending", "resolved", "rejected", "lost"}]
        /\ PendingCalls = Members(queue) \cup ({writer.call} \ {NoCall})
    BY <1>1, ReceiptLogAssumption DEF Shape, TypeOK, PendingCalls, Members
  <1>3. faults' \in 0..MaxFaults
    <2>1. Fault => faults' \in 0..MaxFaults  BY <1>2 DEF Fault
    <2>2. Fault \/ faults' = faults
      BY DEF Next, Record, Start, MakeDir, EnsureHead, AppendSucceeds, AppendFails, Crash,
             TakeAnchor, Edit, vars
    <2> QED  BY <1>2, <2>1, <2>2
  <1>4. terminated' \in BOOLEAN /\ ensuredDir' \in BOOLEAN
    <2>1. CASE Ending
      BY <1>1, <2>1, WriteStep DEF Ending, AppendSucceeds, AppendFails, Crash, TypeOK
    <2>2. CASE Quiet \/ Edit
      BY <1>1, <2>2
         DEF Quiet, Edit, Record, Start, MakeDir, EnsureHead, TakeAnchor, vars, TypeOK
    <2> QED  BY <2>1, <2>2, Steps
  <1> DEFINE Rest ==
        /\ writer'.pc \in {"idle", "mkdir", "head", "append"}
        /\ writer'.call \in Calls \cup {NoCall}
        /\ (writer'.call = NoCall <=> writer'.pc = "idle")
        /\ (writer'.pc = "append" => headState' # NoHead)
        /\ outcome' \in [Calls -> {"none", "pending", "resolved", "rejected", "lost"}]
        /\ PendingCalls' = Members(queue') \cup ({writer'.call} \ {NoCall})
  <1>5. Rest => TypeOK'
    <2> SUFFICES ASSUME Rest  PROVE TypeOK'  OBVIOUS
    <2>1. {c \in Calls : outcome'[c] = "pending"} =
             {queue'[k] : k \in 1..Len(queue')} \cup ({writer'.call} \ {NoCall})
      BY DEF PendingCalls, Members
    <2> QED  BY <1>3, <1>4, <2>1 DEF TypeOK
  <1> HIDE DEF Rest
  <1> SUFFICES Rest  BY <1>5
  <1>6. ASSUME writer' = writer, queue' = queue, outcome' = outcome, headState' = headState
        PROVE  Rest
    <2>1. PendingCalls' = PendingCalls  BY <1>6 DEF PendingCalls
    <2> QED  BY <1>1, <1>2, <1>6, <2>1 DEF Rest, TypeOK
  <1>7. ASSUME NEW o \in {"resolved", "rejected"}, writer.pc # "idle",
               outcome' = [outcome EXCEPT ![writer.call] = o],
               writer' = Idle, queue' = queue
        PROVE  Rest
    <2>1. writer.call \in Calls /\ writer.call # NoCall  BY <1>1, <1>7 DEF TypeOK
    <2>2. PendingCalls' = PendingCalls \ {writer.call}
      BY <1>2, <1>7, <2>1 DEF PendingCalls
    <2>3. writer.call \notin Members(queue)  BY <1>1, <2>1, WriterNotQueued
    <2>4. PendingCalls' = Members(queue')  BY <1>2, <1>7, <2>1, <2>2, <2>3
    <2>5. writer'.pc = "idle" /\ writer'.call = NoCall  BY <1>7 DEF Idle
    <2>6. outcome' \in [Calls -> {"none", "pending", "resolved", "rejected", "lost"}]
      BY <1>2, <1>7
    <2> QED  BY <2>4, <2>5, <2>6 DEF Rest
  <1>8. ASSUME NEW c \in Calls, Record(c)  PROVE Rest
    <2>1. /\ outcome[c] = "none" /\ writer' = writer /\ headState' = headState
          /\ \/ outcome' = [outcome EXCEPT ![c] = "resolved"] /\ queue' = queue
             \/ outcome' = [outcome EXCEPT ![c] = "pending"] /\ queue' = Append(queue, c)
      BY <1>8 DEF Record
    <2>2. CASE outcome' = [outcome EXCEPT ![c] = "resolved"] /\ queue' = queue
      <3>1. PendingCalls' = PendingCalls  BY <1>2, <2>1, <2>2 DEF PendingCalls
      <3> QED  BY <1>1, <1>2, <2>1, <2>2, <3>1 DEF Rest, TypeOK
    <2>3. CASE outcome' = [outcome EXCEPT ![c] = "pending"] /\ queue' = Append(queue, c)
      <3>1. PendingCalls' = PendingCalls \cup {c}  BY <1>2, <2>1, <2>3 DEF PendingCalls
      <3>2. Members(queue') = Members(queue) \cup {c}  BY <1>2, <2>3, AppendMembers
      <3> QED  BY <1>1, <1>2, <2>1, <2>3, <3>1, <3>2 DEF Rest, TypeOK
    <2> QED  BY <2>1, <2>2, <2>3
  <1>9. CASE Start
    <2>1. /\ writer.pc = "idle" /\ queue # <<>> /\ outcome' = outcome /\ headState' = headState
          /\ writer' = [pc |-> "mkdir", call |-> Head(queue)] /\ queue' = Tail(queue)
      BY <1>9 DEF Start
    <2>2. Head(queue) \in Calls /\ Members(queue) = {Head(queue)} \cup Members(Tail(queue))
      BY <1>2, <2>1, TailFacts
    <2>3. writer.call = NoCall  BY <1>1, <2>1 DEF TypeOK
    <2>4. PendingCalls' = PendingCalls  BY <2>1 DEF PendingCalls
    <2>5. Head(queue) # NoCall  BY <1>2, <2>2
    <2>6. PendingCalls' = Members(queue') \cup ({writer'.call} \ {NoCall})
      BY <1>2, <2>1, <2>2, <2>3, <2>4, <2>5
    <2>7. writer'.pc = "mkdir" /\ writer'.call = Head(queue)  BY <2>1
    <2> QED  BY <1>2, <2>1, <2>2, <2>5, <2>6, <2>7 DEF Rest
  <1>10. ASSUME NEW pc \in {"head", "append"}, writer.pc # "idle",
                writer' = [writer EXCEPT !.pc = pc], queue' = queue, outcome' = outcome,
                pc = "append" => headState' # NoHead
         PROVE  Rest
    <2>1. writer = [pc |-> writer.pc, call |-> writer.call]  BY <1>1 DEF Shape
    <2>2. writer'.pc = pc /\ writer'.call = writer.call  BY <1>10, <2>1
    <2>3. PendingCalls' = PendingCalls  BY <1>10 DEF PendingCalls
    <2> QED  BY <1>1, <1>2, <1>10, <2>2, <2>3 DEF Rest, TypeOK
  <1>11. CASE MakeDir
    <2>1. CASE writer' = [writer EXCEPT !.pc = "head"]
      BY <1>10, <1>11, <2>1 DEF MakeDir, Reject, Idle
    <2>2. CASE Reject  BY <1>7, <1>11, <2>2 DEF MakeDir, Reject
    <2> QED  BY <1>11, <2>1, <2>2 DEF MakeDir
  <1>12. CASE EnsureHead
    <2>1. FileHead # NoHead  BY <1>1, HeadOfFile DEF Shape
    <2>2. CASE ~Reject
      <3>1. /\ writer.pc = "head" /\ writer' = [writer EXCEPT !.pc = "append"]
            /\ headState' = IF headState # NoHead THEN headState ELSE FileHead
            /\ queue' = queue /\ outcome' = outcome
        BY <1>12, <2>2 DEF EnsureHead
      <3>2. headState' # NoHead  BY <2>1, <3>1
      <3> QED  BY <1>10, <3>1, <3>2
    <2>3. CASE Reject
      <3>1. writer.pc = "head" /\ queue' = queue  BY <1>12 DEF EnsureHead
      <3> QED  BY <1>7, <2>3, <3>1 DEF Reject
    <2> QED  BY <2>2, <2>3
  <1>13. CASE AppendSucceeds  BY <1>7, <1>13 DEF AppendSucceeds
  <1>14. CASE AppendFails  BY <1>7, <1>14 DEF AppendFails, Reject
  <1>15. CASE Crash
    <2>1. /\ queue' = <<>> /\ writer' = Idle
          /\ outcome' = [c \in Calls |-> IF outcome[c] = "pending" THEN "lost" ELSE outcome[c]]
      BY <1>15 DEF Crash
    <2>2. PendingCalls' = {}  BY <1>2, <2>1 DEF PendingCalls
    <2>3. Members(queue') = {}  BY <2>1, EmptyFacts DEF Members
    <2> QED  BY <1>2, <2>1, <2>2, <2>3 DEF Rest, Idle
  <1>16. CASE TakeAnchor \/ Edit \/ UNCHANGED vars
    BY <1>6, <1>16 DEF TakeAnchor, Edit, vars
  <1> QED
    BY <1>8, <1>9, <1>11, <1>12, <1>13, <1>14, <1>15, <1>16 DEF Next

\* What QueueInv says of the calls that were made, and of those that wait.
MadeOnce(list, o) ==
  /\ \A m, n \in 1..Len(list) : list[m] = list[n] => m = n
  /\ \A m \in 1..Len(list) : o[list[m]] # "none"
  /\ \A c \in Calls : o[c] # "none" => \E m \in 1..Len(list) : list[m] = c

InOrder(list, q, w) ==
  /\ \A a \in 1..Len(q) : ReceiptsOf[q[a]] # <<>>
  /\ w # NoCall => ReceiptsOf[w] # <<>>
  /\ \A a, b \in 1..Len(q) : a < b => Before(list, q[a], q[b])
  /\ w # NoCall => \A a \in 1..Len(q) : Before(list, w, q[a])

(* The queue invariant in two parts, over the variables each depends on.   *)
LEMMA QueueInvParts == QueueInv <=> MadeOnce(made, outcome) /\ InOrder(made, queue, writer.call)
  BY DEF QueueInv, MadeOnce, InOrder

LEMMA QueueInvPartsPrime ==
  MadeOnce(made', outcome') /\ InOrder(made', queue', writer'.call) => QueueInv'
  BY DEF QueueInv, MadeOnce, InOrder

(* A later call does not change the order of the earlier ones.             *)
LEMMA BeforeGrows ==
  ASSUME NEW list \in Seq(Calls), NEW c \in Calls, NEW a, NEW b, Before(list, a, b)
  PROVE  Before(Append(list, c), a, b)
  <1>1. PICK m, n \in 1..Len(list) : m < n /\ list[m] = a /\ list[n] = b  BY DEF Before
  <1>2. /\ m \in 1..Len(Append(list, c)) /\ n \in 1..Len(Append(list, c))
        /\ Append(list, c)[m] = a /\ Append(list, c)[n] = b
    BY <1>1
  <1> QED  BY <1>1, <1>2 DEF Before

(* Calls enter the queue as they are made and leave it at its front.       *)
LEMMA QueueStep == ASSUME IInv, [Next]_vars PROVE QueueInv'
  <1> USE DEF IInv
  <1>1. Shape /\ TypeOK /\ QueueInv  OBVIOUS
  <1>2. /\ MadeOnce(made, outcome) /\ InOrder(made, queue, writer.call)
        /\ queue \in Seq(Calls) /\ made \in Seq(Calls)
        /\ writer.call \in Calls \cup {NoCall}
        /\ outcome \in [Calls -> {"none", "pending", "resolved", "rejected", "lost"}]
        /\ \A a \in 1..Len(queue) : queue[a] \in Calls /\ outcome[queue[a]] = "pending"
        /\ writer.call # NoCall => outcome[writer.call] = "pending"
    <2>1. {c \in Calls : outcome[c] = "pending"} =
            {queue[k] : k \in 1..Len(queue)} \cup ({writer.call} \ {NoCall})
      BY <1>1 DEF TypeOK
    <2> QED  BY <1>1, <2>1, QueueInvParts DEF Shape, TypeOK
  \* A list of calls is the same, and more of them have ended.
  <1>3. ASSUME made' = made,
               \A c \in Calls : outcome'[c] = "none" <=> outcome[c] = "none"
        PROVE  MadeOnce(made', outcome')
    <2>1. \A m \in 1..Len(made) : made[m] \in Calls  BY <1>2
    <2> QED  BY <1>2, <1>3, <2>1 DEF MadeOnce
  <1>4. ASSUME made' = made, queue' = queue, writer'.call = writer.call
        PROVE  InOrder(made', queue', writer'.call)
    BY <1>2, <1>4
  <1>5. ASSUME made' = made, queue' = queue, writer' = Idle
        PROVE  InOrder(made', queue', writer'.call)
    <2>1. writer'.call = NoCall  BY <1>5 DEF Idle
    <2> QED  BY <1>2, <1>5, <2>1 DEF InOrder
  <1>6. ASSUME NEW o \in {"resolved", "rejected"}, writer.pc # "idle", made' = made,
               outcome' = [outcome EXCEPT ![writer.call] = o],
               writer' = Idle, queue' = queue
        PROVE  QueueInv'
    <2>1. writer.call \in Calls /\ outcome[writer.call] = "pending"
      BY <1>1, <1>2, <1>6 DEF TypeOK
    <2>2. \A c \in Calls : outcome'[c] = "none" <=> outcome[c] = "none"
      BY <1>2, <1>6, <2>1
    <2> QED  BY <1>3, <1>5, <1>6, <2>2, QueueInvPartsPrime
  <1>7. ASSUME made' = made, outcome' = outcome, queue' = queue, writer'.call = writer.call
        PROVE  QueueInv'
    BY <1>2, <1>7, QueueInvPartsPrime
  <1>8. ASSUME NEW c \in Calls, Record(c)  PROVE QueueInv'
    <2>1. /\ outcome[c] = "none" /\ made' = Append(made, c) /\ writer' = writer
          /\ \/ outcome' = [outcome EXCEPT ![c] = "resolved"] /\ queue' = queue
             \/ /\ outcome' = [outcome EXCEPT ![c] = "pending"] /\ queue' = Append(queue, c)
                /\ ReceiptsOf[c] # <<>>
      BY <1>8 DEF Record
    <2>2. \A d \in Calls : outcome'[d] # "none" <=> outcome[d] # "none" \/ d = c
      BY <1>2, <2>1
    <2>3. /\ Len(made) \in Nat /\ Len(made') = Len(made) + 1
          /\ \A m \in 1..Len(made) : made'[m] = made[m] /\ made[m] \in Calls /\ made[m] # c
          /\ made'[Len(made) + 1] = c
      BY <1>2, <2>1 DEF MadeOnce
    <2>4. MadeOnce(made', outcome')
      <3>1. ASSUME NEW m \in 1..Len(made'), NEW n \in 1..Len(made'), made'[m] = made'[n]
            PROVE  m = n
        <4>1. m \in 1..Len(made) \/ m = Len(made) + 1  BY <2>3
        <4>2. n \in 1..Len(made) \/ n = Len(made) + 1  BY <2>3
        <4> QED  BY <1>2, <2>3, <3>1, <4>1, <4>2 DEF MadeOnce
      <3>2. ASSUME NEW m \in 1..Len(made')  PROVE outcome'[made'[m]] # "none"
        <4>1. m \in 1..Len(made) \/ m = Len(made) + 1  BY <2>3
        <4> QED  BY <1>2, <2>2, <2>3, <4>1 DEF MadeOnce
      <3>3. ASSUME NEW d \in Calls, outcome'[d] # "none"
            PROVE  \E m \in 1..Len(made') : made'[m] = d
        <4>1. CASE d = c
          <5>1. Len(made) + 1 \in 1..Len(made')  BY <2>3
          <5> QED  BY <2>3, <4>1, <5>1
        <4>2. CASE d # c
          <5>1. PICK m \in 1..Len(made) : made[m] = d  BY <1>2, <2>2, <3>3, <4>2 DEF MadeOnce
          <5>2. m \in 1..Len(made')  BY <2>3
          <5> QED  BY <2>3, <5>1, <5>2
        <4> QED  BY <4>1, <4>2
      <3> QED  BY <3>1, <3>2, <3>3 DEF MadeOnce
    <2>5. \A a, b : Before(made, a, b) => Before(made', a, b)
      BY <1>2, <2>1, BeforeGrows
    <2>6. \A d \in Calls : outcome[d] = "pending" => Before(made', d, c)
      <3> SUFFICES ASSUME NEW d \in Calls, outcome[d] = "pending"  PROVE Before(made', d, c)
        OBVIOUS
      <3>1. PICK m \in 1..Len(made) : made[m] = d  BY <1>2 DEF MadeOnce
      <3>2. m \in 1..Len(made') /\ Len(made) + 1 \in 1..Len(made') /\ m < Len(made) + 1
        BY <2>3
      <3> QED  BY <2>3, <3>1, <3>2 DEF Before
    <2>7. InOrder(made', queue', writer'.call)
      <3>1. CASE queue' = queue  BY <1>2, <2>1, <2>5, <3>1 DEF InOrder
      <3>2. CASE queue' = Append(queue, c) /\ ReceiptsOf[c] # <<>>
        <4>1. /\ Len(queue) \in Nat /\ Len(queue') = Len(queue) + 1
              /\ \A a \in 1..Len(queue) : queue'[a] = queue[a]
              /\ queue'[Len(queue) + 1] = c
          BY <1>2, <3>2
        <4>2. \A a \in 1..Len(queue') :
                 (a \in 1..Len(queue) /\ queue'[a] = queue[a]) \/ (a = Len(queue) + 1 /\ queue'[a] = c)
          BY <4>1
        <4>3. ASSUME NEW a \in 1..Len(queue'), NEW b \in 1..Len(queue'), a < b
              PROVE  Before(made', queue'[a], queue'[b])
          <5>1. a \in 1..Len(queue) /\ queue'[a] = queue[a]  BY <4>1, <4>2, <4>3
          <5>2. CASE b \in 1..Len(queue) /\ queue'[b] = queue[b]
            BY <1>2, <2>5, <4>3, <5>1, <5>2 DEF InOrder
          <5>3. CASE queue'[b] = c
            BY <1>2, <2>6, <5>1, <5>3
          <5> QED  BY <4>2, <5>2, <5>3
        <4>4. ASSUME NEW a \in 1..Len(queue'), writer.call # NoCall
              PROVE  Before(made', writer.call, queue'[a])
          <5>1. CASE a \in 1..Len(queue) /\ queue'[a] = queue[a]
            BY <1>2, <2>5, <4>4, <5>1 DEF InOrder
          <5>2. CASE queue'[a] = c
            BY <1>2, <2>6, <4>4, <5>2
          <5> QED  BY <4>2, <5>1, <5>2
        <4>5. \A a \in 1..Len(queue') : ReceiptsOf[queue'[a]] # <<>>
          BY <1>2, <3>2, <4>2 DEF InOrder
        <4> QED  BY <1>2, <2>1, <4>3, <4>4, <4>5 DEF InOrder
      <3> QED  BY <2>1, <3>1, <3>2
    <2> QED  BY <2>4, <2>7, QueueInvPartsPrime
  <1>9. CASE Start
    <2>1. /\ queue # <<>> /\ outcome' = outcome /\ made' = made
          /\ writer'.call = Head(queue) /\ queue' = Tail(queue)
      BY <1>9 DEF Start
    <2>2. /\ Len(queue) \in Nat /\ Len(queue) > 0 /\ writer'.call = queue[1]
          /\ Len(queue') = Len(queue) - 1
          /\ \A k \in 1..Len(queue') : queue'[k] = queue[k + 1]
      BY <1>2, <2>1, TailFacts
    <2>3. /\ 1 \in 1..Len(queue)
          /\ \A k \in 1..Len(queue') : k + 1 \in 1..Len(queue) /\ 1 < k + 1
      BY <2>2
    <2>4. ASSUME NEW a \in 1..Len(queue'), NEW b \in 1..Len(queue'), a < b
          PROVE  Before(made, queue'[a], queue'[b])
      <3>1. a + 1 < b + 1  BY <2>4
      <3> QED  BY <1>2, <2>2, <2>3, <3>1 DEF InOrder
    <2>5. InOrder(made', queue', writer'.call)
      BY <1>2, <2>1, <2>2, <2>3, <2>4 DEF InOrder
    <2> QED  BY <1>2, <2>1, <2>5, QueueInvPartsPrime
  <1>10. CASE MakeDir \/ EnsureHead
    <2>1. made' = made /\ queue' = queue /\ writer.pc # "idle"
      BY <1>10 DEF MakeDir, EnsureHead
    <2>2. CASE Reject  BY <1>6, <2>1, <2>2 DEF Reject
    <2>3. CASE ~Reject
      <3>1. \E pc \in {"head", "append"} : writer' = [writer EXCEPT !.pc = pc]
        BY <1>10, <2>3 DEF MakeDir, EnsureHead
      <3>2. outcome' = outcome  BY <1>10, <2>3 DEF MakeDir, EnsureHead
      <3>3. writer = [pc |-> writer.pc, call |-> writer.call]  BY <1>1 DEF Shape
      <3>4. writer'.call = writer.call  BY <3>1, <3>3
      <3> QED  BY <1>7, <2>1, <3>2, <3>4
    <2> QED  BY <2>2, <2>3
  <1>11. CASE AppendSucceeds  BY <1>6, <1>11 DEF AppendSucceeds
  <1>12. CASE AppendFails  BY <1>6, <1>12 DEF AppendFails, Reject
  <1>13. CASE Crash
    <2>1. /\ queue' = <<>> /\ writer' = Idle /\ made' = made
          /\ outcome' = [c \in Calls |-> IF outcome[c] = "pending" THEN "lost" ELSE outcome[c]]
      BY <1>13 DEF Crash
    <2>2. \A c \in Calls : outcome'[c] = "none" <=> outcome[c] = "none"
      BY <1>2, <2>1
    <2>3. writer'.call = NoCall /\ Len(queue') = 0  BY <2>1, EmptyFacts DEF Idle
    <2>4. InOrder(made', queue', writer'.call)  BY <2>3 DEF InOrder
    <2> QED  BY <1>3, <2>1, <2>2, <2>4, QueueInvPartsPrime
  <1>14. CASE TakeAnchor \/ Edit \/ UNCHANGED vars
    BY <1>7, <1>14 DEF TakeAnchor, Edit, vars
  <1> QED
    BY <1>8, <1>9, <1>10, <1>11, <1>12, <1>13, <1>14 DEF Next

\* The calls made so far stay the first of the list.
LEMMA MadeGrows ==
  ASSUME Shape, [Next]_vars
  PROVE  /\ Len(made) \in Nat /\ Len(made') \in Nat
         /\ \A m \in 1..Len(made) : m \in 1..Len(made') /\ made'[m] = made[m] /\ made[m] \in Calls
         /\ \A m \in 1..Len(made') :
              \/ m \in 1..Len(made)
              \/ m = Len(made) + 1 /\ made'[m] \in Calls /\ outcome[made'[m]] = "none"
  <1>1. made \in Seq(Calls)  BY DEF Shape
  <1>2. CASE made' = made
    BY <1>1, <1>2
  <1>3. ASSUME NEW c \in Calls, Record(c)
        PROVE  /\ Len(made) \in Nat /\ Len(made') \in Nat
               /\ \A m \in 1..Len(made) :
                    m \in 1..Len(made') /\ made'[m] = made[m] /\ made[m] \in Calls
               /\ \A m \in 1..Len(made') :
                    \/ m \in 1..Len(made)
                    \/ m = Len(made) + 1 /\ made'[m] \in Calls /\ outcome[made'[m]] = "none"
    <2>1. made' = Append(made, c) /\ outcome[c] = "none"  BY <1>3 DEF Record
    <2>2. /\ Len(made) \in Nat /\ Len(made') = Len(made) + 1
          /\ \A m \in 1..Len(made) : made'[m] = made[m] /\ made[m] \in Calls
          /\ made'[Len(made) + 1] = c
      BY <1>1, <2>1
    <2> QED  BY <2>1, <2>2
  <1>4. made' = made \/ \E c \in Calls : Record(c)
    BY DEF Next, Start, MakeDir, EnsureHead, AppendSucceeds, AppendFails, Crash, TakeAnchor, Edit,
           vars
  <1> QED  BY <1>2, <1>3, <1>4

\* Only a call that was just made begins to wait, and an ended write waits no more.
LEMMA PendingShrinks ==
  ASSUME Shape, TypeOK, [Next]_vars, NEW c \in Calls, outcome'[c] = "pending"
  PROVE  /\ outcome[c] = "pending" \/ Record(c)
         /\ Ending => outcome[c] = "pending" /\ c # writer.call
  <1>1. outcome \in [Calls -> {"none", "pending", "resolved", "rejected", "lost"}]
        /\ writer.call \in Calls \cup {NoCall}
    BY DEF TypeOK
  <1>2. ASSUME NEW d \in Calls, Record(d)  PROVE outcome[c] = "pending" \/ Record(c)
    BY <1>1, <1>2 DEF Record
  <1>3. ASSUME Reject \/ outcome' = outcome  PROVE outcome[c] = "pending"
    BY <1>1, <1>3 DEF Reject
  <1>4. CASE Ending
    <2>1. ASSUME NEW o \in {"resolved", "rejected"}, writer.pc = "append",
                 outcome' = [outcome EXCEPT ![writer.call] = o]
          PROVE  outcome[c] = "pending" /\ c # writer.call
      <3>1. writer.call \in Calls  BY <2>1 DEF TypeOK
      <3> QED  BY <1>1, <2>1, <3>1
    <2>2. ~Crash
      <3> SUFFICES ASSUME Crash  PROVE FALSE  OBVIOUS
      <3>1. outcome' = [x \in Calls |-> IF outcome[x] = "pending" THEN "lost" ELSE outcome[x]]
        BY DEF Crash
      <3> QED  BY <3>1
    <2> QED  BY <1>4, <2>1, <2>2 DEF Ending, AppendSucceeds, AppendFails, Reject
  <1>5. CASE ~Ending
    BY <1>2, <1>3, <1>5 DEF Next, Ending, Start, MakeDir, EnsureHead, TakeAnchor, Edit, vars
  <1> QED  BY <1>4, <1>5

-----------------------------------------------------------------------------
(* Where the receipts in the file come from, and in which order they stand *)

\* The call that is written was made.
LEMMA WriterMade ==
  ASSUME Shape, TypeOK, QueueInv, writer.call \in Calls
  PROVE  \E m \in 1..Len(made) : made[m] = writer.call
  <1>1. writer.call # NoCall  BY ReceiptLogAssumption
  <1>2. outcome[writer.call] = "pending"  BY <1>1 DEF TypeOK
  <1> QED  BY <1>2 DEF QueueInv

LEMMA EndingLeaves == ASSUME Ending PROVE UNCHANGED <<made, anchor, anchored, edits>>
  BY DEF Ending, AppendSucceeds, AppendFails, Crash

(* No step puts a receipt into the file that was not given or altered.     *)
LEMMA SourceStep == ASSUME IInv, [Next]_vars PROVE SourceInv'
  <1>1. Shape /\ TypeOK /\ QueueInv /\ SourceInv  BY DEF IInv
  <1>2. /\ \A m \in 1..Len(made) : m \in 1..Len(made') /\ made'[m] = made[m]
        /\ edits \in Nat
    BY <1>1, MadeGrows DEF Shape
  <1> SUFFICES ASSUME NEW k \in 1..Len(file'), Parses(file'[k])
               PROVE  /\ IsEntry(file'[k][1].record)
                      /\ \/ \E m \in 1..Len(made') : Own(made'[m], file'[k][1].record.receipt)
                         \/ edits' # 0 /\ ~file'[k][1].record.receipt.intact
    BY DEF SourceInv, Entry
  <1>3. ASSUME k \in 1..Len(file), file'[k] = file[k], edits' = edits
        PROVE  /\ IsEntry(file'[k][1].record)
               /\ \/ \E m \in 1..Len(made') : Own(made'[m], file'[k][1].record.receipt)
                  \/ edits' # 0 /\ ~file'[k][1].record.receipt.intact
    BY <1>1, <1>2, <1>3 DEF SourceInv, Entry
  <1>4. CASE Quiet  BY <1>3, <1>4, QuietFile
  <1>5. CASE Ending
    <2>1. edits' = edits /\ made' = made  BY <1>5, EndingLeaves
    <2>2. CASE k \in 1..Len(file) /\ file'[k] = file[k]  BY <1>3, <2>1, <2>2
    <2>3. CASE /\ writer.call \in Calls /\ IsEntry(file'[k][1].record)
               /\ Own(writer.call, file'[k][1].record.receipt)
      <3>1. PICK m \in 1..Len(made) : made[m] = writer.call  BY <1>1, <2>3, WriterMade
      <3> QED  BY <2>1, <2>3, <3>1
    <2> QED  BY <1>1, <1>5, <2>2, <2>3, LinesFrom DEF Ending
  <1>6. CASE Edit
    <2>1. PICK e : file'[k] = <<Whole(e)>> /\ Sourced(e)  BY <1>1, <1>6, EditStep
    <2>2. file'[k][1].record = e  BY <2>1 DEF Whole
    <2>3. edits' # 0 /\ made' = made  BY <1>2, <1>6 DEF Edit
    <2> QED  BY <2>1, <2>2, <2>3 DEF Sourced
  <1> QED  BY <1>4, <1>5, <1>6, Steps

(* A write ends with its receipts behind those of all earlier calls, and   *)
(* none of a later call is there.                                          *)
LEMMA OrderStep == ASSUME IInv, [Next]_vars PROVE OrderInv'
  <1>1. Shape /\ TypeOK /\ QueueInv /\ SourceInv /\ OrderInv  BY DEF IInv
  <1>2. edits \in Nat  BY <1>1 DEF Shape
  <1> DEFINE R(k) == file[k][1].record.receipt
             Q(k) == file'[k][1].record.receipt
  <1> SUFFICES ASSUME edits' = 0
               PROVE  /\ \A j \in 1..Len(file'), m, n \in 1..Len(made') :
                           Parses(file'[j]) /\ Own(made'[m], Q(j)) /\ outcome'[made'[n]] = "pending"
                             => m < n
                      /\ \A j, k \in 1..Len(file'), m, n \in 1..Len(made') :
                           /\ Parses(file'[j]) /\ Own(made'[m], Q(j))
                           /\ Parses(file'[k]) /\ Own(made'[n], Q(k))
                           /\ m < n
                           => j < k
    BY DEF OrderInv, Entry
  <1>3. ~Edit /\ edits = 0
    <2>1. ~Edit  BY <1>2 DEF Edit
    <2> QED  BY <2>1, Steps, QuietFile, EndingLeaves
  <1>4. /\ \A j \in 1..Len(file), m, n \in 1..Len(made) :
             Parses(file[j]) /\ Own(made[m], R(j)) /\ outcome[made[n]] = "pending" => m < n
        /\ \A j, k \in 1..Len(file), m, n \in 1..Len(made) :
             /\ Parses(file[j]) /\ Own(made[m], R(j)) /\ Parses(file[k]) /\ Own(made[n], R(k))
             /\ m < n
             => j < k
    BY <1>1, <1>3 DEF OrderInv, Entry
  <1>5. \A j \in 1..Len(file) : Parses(file[j]) => \E m \in 1..Len(made) : Own(made[m], R(j))
    BY <1>1, <1>3 DEF SourceInv, Entry
  <1> HIDE DEF R, Q
  <1>6. /\ \A a, b \in 1..Len(made) : made[a] = made[b] => a = b
        /\ \A a \in 1..Len(made) : outcome[made[a]] # "none"
    BY <1>1 DEF QueueInv
  <1>7. /\ Len(made) \in Nat /\ Len(made') \in Nat
        /\ \A m \in 1..Len(made) : m \in 1..Len(made') /\ made'[m] = made[m] /\ made[m] \in Calls
        /\ \A m \in 1..Len(made') :
             \/ m \in 1..Len(made)
             \/ m = Len(made) + 1 /\ made'[m] \in Calls /\ outcome[made'[m]] = "none"
    BY <1>1, MadeGrows
  <1>8. CASE Quiet
    <2>1. file' = file  BY <1>8, QuietFile
    <2>2. \A k : Q(k) = R(k)  BY <2>1 DEF Q, R
    <2>3. ASSUME NEW j \in 1..Len(file), NEW m \in 1..Len(made'), Parses(file[j]), Own(made'[m], R(j))
          PROVE  m \in 1..Len(made) /\ made'[m] = made[m]
      <3>1. PICK a \in 1..Len(made) : Own(made[a], R(j))  BY <1>5, <2>3
      <3>2. made'[m] \in Calls /\ made[a] \in Calls  BY <1>7
      <3>3. made'[m] = made[a]  BY <2>3, <3>1, <3>2, OwnFacts
      <3> QED  BY <1>6, <1>7, <3>3
    <2>4. ASSUME NEW j \in 1..Len(file), NEW m \in 1..Len(made'), NEW n \in 1..Len(made'),
                 Parses(file[j]), Own(made'[m], R(j)), outcome'[made'[n]] = "pending"
          PROVE  m < n
      <3>1. m \in 1..Len(made) /\ made'[m] = made[m]  BY <2>3, <2>4
      <3>2. CASE n \in 1..Len(made)
        <4>1. made'[n] = made[n] /\ made[n] \in Calls /\ outcome[made[n]] # "none"
          BY <1>6, <1>7, <3>2
        <4>2. outcome[made[n]] = "pending"
          BY <1>1, <2>4, <4>1, PendingShrinks DEF Record
        <4> QED  BY <1>4, <2>4, <3>1, <3>2, <4>2
      <3>3. CASE n = Len(made) + 1  BY <1>7, <3>1, <3>3
      <3> QED  BY <1>7, <3>2, <3>3
    <2>5. ASSUME NEW j \in 1..Len(file), NEW k \in 1..Len(file),
                 NEW m \in 1..Len(made'), NEW n \in 1..Len(made'),
                 Parses(file[j]), Own(made'[m], R(j)), Parses(file[k]), Own(made'[n], R(k)), m < n
          PROVE  j < k
      <3>1. m \in 1..Len(made) /\ made'[m] = made[m]  BY <2>3, <2>5
      <3>2. n \in 1..Len(made) /\ made'[n] = made[n]  BY <2>3, <2>5
      <3> QED  BY <1>4, <2>5, <3>1, <3>2
    <2> QED  BY <2>1, <2>2, <2>4, <2>5
  <1>9. CASE Ending
    <2>1. made' = made  BY <1>9, EndingLeaves
    \* A line that reads was there before, or belongs to the call that was written.
    <2>2. ASSUME NEW j \in 1..Len(file'), Parses(file'[j])
          PROVE  \/ j \in 1..Len(file) /\ file'[j] = file[j] /\ Q(j) = R(j)
                 \/ j > Len(file) /\ writer.call \in Calls /\ Own(writer.call, Q(j))
      BY <1>1, <1>9, <2>2, LinesFrom DEF Ending, Q, R
    <2>3. Len(file) \in Nat /\ Len(file') \in Nat
      <3>1. IsFile(file) /\ IsFile(file')  BY <1>1, <1>9, WriteStep DEF Ending, Shape
      <3> QED  BY <3>1, IsSeqLen DEF IsFile
    <2>4. ASSUME NEW j \in 1..Len(file'), NEW m \in 1..Len(made), Own(made[m], Q(j)),
                 writer.call \in Calls, Own(writer.call, Q(j))
          PROVE  made[m] = writer.call /\ outcome[made[m]] = "pending"
      <3>1. made[m] = writer.call  BY <1>7, <2>4, OwnFacts
      <3>2. writer.call # NoCall  BY <2>4, ReceiptLogAssumption
      <3>3. outcome[writer.call] = "pending"  BY <1>1, <3>2 DEF TypeOK
      <3> QED  BY <3>1, <3>3
    <2>5. ASSUME NEW j \in 1..Len(file'), NEW m \in 1..Len(made), NEW n \in 1..Len(made),
                 Parses(file'[j]), Own(made[m], Q(j)), outcome'[made[n]] = "pending"
          PROVE  m < n
      <3>1. made[n] \in Calls  BY <1>7
      <3>2. outcome[made[n]] = "pending" /\ made[n] # writer.call
        BY <1>1, <1>9, <2>5, <3>1, PendingShrinks
      <3>3. CASE j \in 1..Len(file) /\ file'[j] = file[j] /\ Q(j) = R(j)
        BY <1>4, <2>5, <3>2, <3>3
      <3>4. CASE writer.call \in Calls /\ Own(writer.call, Q(j))
        <4>1. made[m] = writer.call  BY <2>4, <2>5, <3>4
        <4>2. PICK a \in 1..Len(queue) : queue[a] = made[n]
          <5>1. made[n] \in {queue[a] : a \in 1..Len(queue)} \cup ({writer.call} \ {NoCall})
            BY <1>1, <3>1, <3>2 DEF TypeOK
          <5> QED  BY <3>2, <5>1
        <4>3. writer.call # NoCall  BY <3>4, ReceiptLogAssumption
        <4>4. Before(made, writer.call, made[n])  BY <1>1, <4>2, <4>3 DEF QueueInv
        <4>5. PICK x, y \in 1..Len(made) : x < y /\ made[x] = writer.call /\ made[y] = made[n]
          BY <4>4 DEF Before
        <4>6. x = m /\ y = n  BY <1>6, <4>1, <4>5
        <4> QED  BY <4>5, <4>6
      <3> QED  BY <2>2, <2>5, <3>3, <3>4
    <2>6. ASSUME NEW j \in 1..Len(file'), NEW k \in 1..Len(file'),
                 NEW m \in 1..Len(made), NEW n \in 1..Len(made),
                 Parses(file'[j]), Own(made[m], Q(j)), Parses(file'[k]), Own(made[n], Q(k)), m < n
          PROVE  j < k
      <3>1. CASE k \in 1..Len(file) /\ file'[k] = file[k] /\ Q(k) = R(k)
        <4>1. CASE j \in 1..Len(file) /\ file'[j] = file[j] /\ Q(j) = R(j)
          BY <1>4, <2>6, <3>1, <4>1
        <4>2. CASE writer.call \in Calls /\ Own(writer.call, Q(j))
          <5>1. outcome[made[m]] = "pending"  BY <2>4, <2>6, <4>2
          <5>2. n < m  BY <1>4, <2>6, <3>1, <5>1
          <5> QED  BY <1>7, <2>6, <5>2
        <4> QED  BY <2>2, <2>6, <4>1, <4>2
      <3>2. CASE k > Len(file) /\ writer.call \in Calls /\ Own(writer.call, Q(k))
        <4>1. CASE j \in 1..Len(file)  BY <2>3, <3>2, <4>1
        <4>2. CASE writer.call \in Calls /\ Own(writer.call, Q(j))
          <5>1. made[m] = writer.call /\ made[n] = writer.call  BY <2>4, <2>6, <3>2, <4>2
          <5>2. m = n  BY <1>6, <5>1
          <5> QED  BY <1>7, <2>6, <5>2
        <4> QED  BY <2>2, <2>6, <4>1, <4>2
      <3> QED  BY <2>2, <2>6, <3>1, <3>2
    <2> QED  BY <2>1, <2>5, <2>6
  <1> QED  BY <1>3, <1>8, <1>9, Steps

-----------------------------------------------------------------------------
(* What was acknowledged                                                   *)

\* The file of the next state begins with the lines of this one.
FileGrows ==
  /\ Len(file) \in Nat /\ Len(file') \in Nat /\ Len(file) <= Len(file')
  /\ \A k \in 1..Len(file) : k \in 1..Len(file') /\ file'[k] = file[k]

\* A file that reads after a write is the one before it, and what was written.
LEMMA ReadableGrows ==
  ASSUME Shape, TypeOK, QueueInv, Ending, Readable'
  PROVE  Readable /\ FileGrows
  <1>1. IsFile(file) /\ (file = <<>> => terminated)  BY DEF Shape
  <1>2. IsSeq(file) /\ Len(file) \in Nat  BY <1>1, IsSeqLen DEF IsFile
  <1>3. CASE file' = file  BY <1>2, <1>3 DEF Readable, FileGrows
  <1>4. ASSUME NEW ps, Pieces(ps), file' = WriteAtEnd(file, terminated, ps)
        PROVE  Readable /\ FileGrows
    <2>1. IsSeq(ps) /\ Len(ps) \in Nat  BY <1>4, IsSeqLen DEF Pieces
    <2>2. AllParse(file')  BY DEF Readable
    <2>3. AllParse(WriteAtEnd(file, terminated, ps))  BY <1>4, <2>2
    <2>4. IsFile(file) /\ (file = <<>> => terminated) /\ IsSeq(ps)
            /\ AllParse(WriteAtEnd(file, terminated, ps))
      BY <1>1, <2>1, <2>3
    <2>5. WriteAtEnd(file, terminated, ps) = file \o NewLines(ps) /\ AllParse(file)
      BY ONLY <2>4, ReadsAfterWrite, ZenonT(30)
    <2>6. /\ Len(file \o NewLines(ps)) = Len(file) + Len(ps)
          /\ \A k \in 1..Len(file) : (file \o NewLines(ps))[k] = file[k]
      BY <1>1, <2>1, RecordsAfterWrite
    <2>7. file' = file \o NewLines(ps)  BY <1>4, <2>5
    <2> QED  BY <1>2, <2>1, <2>5, <2>6, <2>7 DEF Readable, FileGrows
  <1> QED  BY <1>3, <1>4, WriteStep DEF Ending

(* What is recorded at some place of the file stays there while the file   *)
(* only grows.                                                             *)
LEMMA RecordedStays ==
  ASSUME FileGrows, NEW c \in Calls, NEW k \in 1..Len(file) + 1, RecordedAt(c, k)
  PROVE  k \in 1..Len(file') + 1 /\ RecordedAt(c, k)'
  <1> DEFINE rs == ReceiptsOf[c]
  <1>1. Len(rs) \in Nat /\ Len(file) \in Nat /\ Len(file') \in Nat /\ Len(file) <= Len(file')
    BY CallFacts DEF FileGrows
  <1>2. /\ k + Len(rs) - 1 <= Len(file)
        /\ \A j \in 1..Len(rs) :
             Parses(file[k + j - 1]) /\ file[k + j - 1][1].record.receipt = rs[j]
    BY DEF RecordedAt, Entry
  <1>3. k + Len(rs) - 1 <= Len(file') /\ k \in 1..Len(file') + 1  BY <1>1, <1>2
  <1>4. ASSUME NEW j \in 1..Len(rs)
        PROVE  Parses(file'[k + j - 1]) /\ file'[k + j - 1][1].record.receipt = rs[j]
    <2>1. k + j - 1 \in 1..Len(file)  BY <1>1, <1>2
    <2>2. file'[k + j - 1] = file[k + j - 1]  BY <2>1 DEF FileGrows
    <2> QED  BY <1>2, <2>2
  <1> QED  BY <1>3, <1>4 DEF RecordedAt, Entry

\* Where the call that is written begins in the file once it is there.
LEMMA WrittenIsRecorded ==
  ASSUME Shape, TypeOK, QueueInv, AppendSucceeds, Readable',
         NEW c \in Calls, c = writer.call
  PROVE  \E k \in 1..Len(file') + 1 : RecordedAt(c, k)'
  <1> DEFINE all == WholeAll(Writing)
             rs  == ReceiptsOf[c]
             L   == Len(file)
  <1>1. writer.pc = "append" /\ file' = WriteAtEnd(file, terminated, all) /\ writer' = Idle
    BY DEF AppendSucceeds
  <1>2. /\ IsSeq(all) /\ Len(all) = Len(rs) /\ Len(rs) \in Nat
        /\ \A k \in 1..Len(rs) : all[k] = Whole(Writing[k]) /\ Writing[k].receipt = rs[k]
    <2> DEFINE W == Writing
    <2>1. /\ Len(W) = Len(rs) /\ Len(W) \in Nat
          /\ \A k \in 1..Len(W) : W[k] = [seq |-> headState.length + k - 1,
                                          prev |-> IF k = 1 THEN headState.hash ELSE W[k - 1],
                                          receipt |-> rs[k]]
          /\ IsSeq(all) /\ Len(all) = Len(W) /\ \A k \in 1..Len(W) : all[k] = Whole(W[k])
      BY <1>1, WritingFacts
    <2> HIDE DEF W, all, rs
    <2>2. ASSUME NEW k \in 1..Len(W)  PROVE W[k].receipt = rs[k]
      <3>1. W[k] = [seq |-> headState.length + k - 1,
                    prev |-> IF k = 1 THEN headState.hash ELSE W[k - 1],
                    receipt |-> rs[k]]
        BY <2>1
      <3> QED  BY <3>1
    <2> QED  BY <2>1, <2>2 DEF W
  <1> HIDE DEF all, rs
  <1>3. IsFile(file) /\ (file = <<>> => terminated) /\ IsSeq(all)
          /\ AllParse(WriteAtEnd(file, terminated, all))
    <2>1. AllParse(file')  BY DEF Readable
    <2> QED  BY <1>1, <1>2, <2>1 DEF Shape
  <1>4. /\ WriteAtEnd(file, terminated, all) = file \o NewLines(all)
        /\ \A k \in 1..Len(all) : all[k].whole
    BY ONLY <1>3, ReadsAfterWrite, ZenonT(30)
  <1>5. /\ Len(file') = L + Len(all)
        /\ \A k \in 1..Len(all) : (file')[L + k] = <<all[k]>>
    BY <1>1, <1>3, <1>4, RecordsAfterWrite
  <1>6. L \in Nat  BY <1>3, IsSeqLen DEF IsFile
  <1>7. L + 1 \in 1..Len(file') + 1 /\ L + 1 + Len(rs) - 1 <= Len(file')
    BY <1>2, <1>5, <1>6
  <1>8. ASSUME NEW j \in 1..Len(rs)
        PROVE  Parses((file')[L + 1 + j - 1]) /\ (file')[L + 1 + j - 1][1].record.receipt = rs[j]
    <2>1. L + 1 + j - 1 = L + j  BY <1>2, <1>6
    <2>2. (file')[L + j] = <<all[j]>> /\ all[j].whole /\ all[j] = Whole(Writing[j])
            /\ Writing[j].receipt = rs[j]
      BY <1>2, <1>4, <1>5
    <2>3. (file')[L + 1 + j - 1] = <<Whole(Writing[j])>>  BY <2>1, <2>2
    <2>4. \A e : /\ Len(<<Whole(e)>>) = 1 /\ <<Whole(e)>>[1].whole
                 /\ <<Whole(e)>>[1].record.receipt = e.receipt
      BY DEF Whole
    <2> QED  BY <2>2, <2>3, <2>4 DEF Parses
  <1>9. PICK k : k = L + 1  OBVIOUS
  <1>10. RecordedAt(c, k)'
    BY <1>7, <1>8, <1>9 DEF RecordedAt, Entry, rs
  <1> QED  BY <1>7, <1>9, <1>10

(* A write is acknowledged only when its lines are in the file, each on    *)
(* its own or glued to a fragment that then does not read.                 *)
LEMMA LossStep == ASSUME IInv, [Next]_vars PROVE LossIsLoud'
  <1>1. Shape /\ TypeOK /\ QueueInv /\ LossIsLoud  BY DEF IInv
  <1>2. /\ outcome \in [Calls -> {"none", "pending", "resolved", "rejected", "lost"}]
        /\ edits \in Nat
    BY <1>1 DEF TypeOK, Shape
  <1> SUFFICES ASSUME edits' = 0, Readable', NEW c \in Calls, outcome'[c] = "resolved"
               PROVE  \E k \in 1..Len(file') + 1 : RecordedAt(c, k)'
    BY DEF LossIsLoud, AcknowledgedIsRemembered
  <1>3. ~Edit /\ edits = 0
    <2>1. ~Edit  BY <1>2 DEF Edit
    <2> QED  BY <2>1, Steps, QuietFile, EndingLeaves
  <1>4. Readable /\ FileGrows
    <2>1. CASE Quiet
      <3>1. IsSeq(file) /\ file' = file  BY <1>1, <2>1, QuietFile DEF Shape, IsFile
      <3>2. Len(file) \in Nat  BY <3>1, IsSeqLen
      <3> QED  BY <3>1, <3>2 DEF Readable, FileGrows
    <2>2. CASE Ending  BY <1>1, <2>2, ReadableGrows
    <2> QED  BY <1>3, <2>1, <2>2, Steps
  <1>5. CASE outcome[c] = "resolved"
    <2>1. PICK k \in 1..Len(file) + 1 : RecordedAt(c, k)
      BY <1>1, <1>3, <1>4, <1>5 DEF LossIsLoud, AcknowledgedIsRemembered
    <2> QED  BY <1>4, <2>1, RecordedStays
  <1>6. CASE outcome[c] # "resolved"
    <2>1. Record(c) \/ AppendSucceeds
      <3>1. ASSUME NEW d \in Calls, Record(d)  PROVE d = c
        BY <1>2, <1>6, <3>1 DEF Record
      <3>2. ~Reject  BY <1>2, <1>6 DEF Reject
      <3>3. outcome' # outcome  BY <1>6
      <3>4. ~Crash
        <4> SUFFICES ASSUME Crash  PROVE FALSE  OBVIOUS
        <4>1. outcome' = [x \in Calls |-> IF outcome[x] = "pending" THEN "lost" ELSE outcome[x]]
          BY DEF Crash
        <4> QED  BY <1>6, <4>1
      <3> QED  BY <3>1, <3>2, <3>3, <3>4
             DEF Next, Start, MakeDir, EnsureHead, AppendFails, TakeAnchor, Edit, vars
    <2>2. CASE Record(c)
      <3>1. ReceiptsOf[c] = <<>>  BY <1>2, <1>6, <2>2 DEF Record
      <3>2. Len(ReceiptsOf[c]) = 0  BY <3>1, EmptyFacts
      <3>3. PICK k : k = 1  OBVIOUS
      <3>4. k \in 1..Len(file') + 1 /\ k + 0 - 1 <= Len(file') /\ 1..0 = {}
        BY <1>4, <3>3 DEF FileGrows
      <3>5. RecordedAt(c, k)'  BY <3>2, <3>4 DEF RecordedAt
      <3> QED  BY <3>4, <3>5
    <2>3. CASE AppendSucceeds
      <3>1. writer.pc = "append" /\ outcome' = [outcome EXCEPT ![writer.call] = "resolved"]
        BY <2>3 DEF AppendSucceeds
      <3>2. c = writer.call  BY <1>2, <1>6, <3>1
      <3> QED  BY <1>1, <2>3, <3>2, WrittenIsRecorded
    <2> QED  BY <2>1, <2>2, <2>3
  <1> QED  BY <1>5, <1>6

-----------------------------------------------------------------------------
(* An untouched log                                                        *)

\* A write on an untouched file leaves some of its lines behind the others.
LEMMA HonestWrite ==
  ASSUME Shape, TypeOK, QueueInv, HonestInv, Ending, Untouched, torn' = FALSE
  PROVE  /\ terminated'
         /\ \/ file' = file
            \/ /\ writer.pc = "append"
               /\ \E n \in 0..Len(Writing) :
                    /\ file' = file \o NewLines(SubSeq(WholeAll(Writing), 1, n))
                    /\ AppendSucceeds => n = Len(Writing)
  <1>1. IsFile(file) /\ terminated = TRUE  BY DEF Shape, TypeOK, HonestInv
  <1> DEFINE all == WholeAll(Writing)
  <1>2. ASSUME writer.pc = "append"
        PROVE  IsSeq(all) /\ Len(all) = Len(Writing) /\ Len(Writing) \in Nat
    BY <1>2, WritingFacts
  <1> HIDE DEF all
  <1>3. ASSUME NEW ps, IsSeq(ps)  PROVE WriteAtEnd(file, terminated, ps) = file \o NewLines(ps)
    BY <1>1, <1>3, WriteOnNewLine
  <1>4. CASE AppendSucceeds
    <2>1. /\ writer.pc = "append" /\ file' = WriteAtEnd(file, terminated, all) /\ terminated' = TRUE
      BY <1>4 DEF AppendSucceeds, all
    <2>2. IsSeq(all) /\ Len(all) = Len(Writing) /\ Len(Writing) \in Nat  BY <1>2, <2>1
    <2>3. SubSeq(all, 1, Len(Writing)) = all  BY <2>2, WholePrefix
    <2>4. file' = file \o NewLines(SubSeq(all, 1, Len(Writing)))  BY <1>3, <2>1, <2>2, <2>3
    <2>5. Len(Writing) \in 0..Len(Writing)  BY <2>2
    <2> QED  BY <2>1, <2>4, <2>5 DEF all
  <1>5. ASSUME writer.pc = "append", LeavesLines
        PROVE  /\ terminated'
               /\ \E n \in 0..Len(Writing) : file' = file \o NewLines(SubSeq(all, 1, n))
    <2>1. PICK n \in 0..Len(all) :
            /\ file' = WriteAtEnd(file, terminated, SubSeq(all, 1, n))
            /\ terminated' = (terminated \/ n > 0)
      <3>1. PICK left \in CutOffAtLine(file, terminated, all) :
                   file' = left[1] /\ terminated' = left[2]
        BY <1>5 DEF LeavesLines, all
      <3>2. PICK n \in 0..Len(all) :
              left = <<WriteAtEnd(file, terminated, SubSeq(all, 1, n)), terminated \/ n > 0>>
        BY <3>1 DEF CutOffAtLine
      <3> QED  BY <3>1, <3>2
    <2>2. IsSeq(all) /\ Len(all) = Len(Writing) /\ Len(Writing) \in Nat  BY <1>2, <1>5
    <2>3. n \in Nat /\ n <= Len(all) /\ n \in 0..Len(Writing)  BY <2>2
    <2>4. IsSeq(SubSeq(all, 1, n))  BY <2>2, <2>3, PrefixFacts
    <2>5. file' = file \o NewLines(SubSeq(all, 1, n))  BY <1>3, <2>1, <2>4
    <2> QED  BY <1>1, <2>1, <2>3, <2>5
  <1>6. ASSUME writer.pc = "append", LeavesText  PROVE file' # file
    <2>1. PICK n \in 0..(Len(all) - 1) : \E last :
            file' = WriteAtEnd(file, terminated, Append(SubSeq(all, 1, n), last))
      <3>1. PICK left \in CutOffInside(file, terminated, all) :
                   file' = left[1] /\ terminated' = left[2]
        BY <1>6 DEF LeavesText, all
      <3>2. PICK n \in 0..(Len(all) - 1) :
              \E last \in {all[n + 1], Cut(all[n + 1].record)} :
                left = <<WriteAtEnd(file, terminated, Append(SubSeq(all, 1, n), last)), FALSE>>
        BY <3>1 DEF CutOffInside
      <3> QED  BY <3>1, <3>2
    <2>2. PICK last : file' = WriteAtEnd(file, terminated, Append(SubSeq(all, 1, n), last))
      BY <2>1
    <2>3. IsSeq(all) /\ Len(all) \in Nat  BY <1>2, <1>6
    <2>4. n \in Nat /\ n <= Len(all)  BY <2>3
    <2>5. IsSeq(SubSeq(all, 1, n)) /\ Len(SubSeq(all, 1, n)) = n  BY <2>3, <2>4, PrefixFacts
    <2> DEFINE first == SubSeq(all, 1, n)
               ps    == Append(first, last)
    <2> HIDE DEF first
    <2>6. IsSeq(first) /\ Len(first) = n  BY <2>5 DEF first
    <2>7. IsSeq(ps) /\ Len(ps) = n + 1  BY <2>6, AppendFacts
    <2> HIDE DEF ps
    <2>8. file' = file \o NewLines(ps)  BY <1>3, <2>2, <2>7 DEF ps, first
    <2>9. Len(file \o NewLines(ps)) = Len(file) + Len(ps)  BY <1>1, <2>7, RecordsAfterWrite
    <2>10. Len(file) \in Nat  BY <1>1, IsSeqLen DEF IsFile
    <2> QED  BY <2>4, <2>7, <2>8, <2>9, <2>10
  <1>7. CASE AppendFails
    <2>1. file' = file /\ writer.pc = "append" /\ (LeavesLines \/ LeavesText)
      BY <1>7 DEF AppendFails
    <2> QED  BY <1>5, <1>6, <2>1
  <1>8. CASE Crash
    <2>1. CASE file' = file /\ terminated' = terminated  BY <1>1, <2>1
    <2>2. CASE writer.pc = "append" /\ LeavesLines
      <3>1. writer.call \in Calls /\ outcome[writer.call] = "pending"
        BY <2>2, ReceiptLogAssumption DEF TypeOK
      <3>2. outcome'[writer.call] = "lost"  BY <1>8, <3>1 DEF Crash
      <3>3. ~AppendSucceeds
        <4> SUFFICES ASSUME AppendSucceeds  PROVE FALSE  OBVIOUS
        <4>1. outcome' = [outcome EXCEPT ![writer.call] = "resolved"]  BY DEF AppendSucceeds
        <4> QED  BY <3>1, <3>2, <4>1 DEF TypeOK
      <3> QED  BY <1>5, <2>2, <3>3 DEF all
    <2>3. ~(LeavesText /\ torn' = TRUE)  OBVIOUS
    <2> QED  BY <1>8, <2>1, <2>2, <2>3 DEF Crash
  <1> QED  BY <1>4, <1>7, <1>8 DEF Ending

\* The entries of an untouched log after a write: those before it, then new ones.
LEMMA HonestLines ==
  ASSUME Shape, TypeOK, QueueInv, HonestInv, Ending, Untouched, torn' = FALSE
  PROVE  /\ terminated' /\ FileGrows /\ Readable'
         /\ \A k \in 1..Len(file') :
              \/ k \in 1..Len(file)
              \/ /\ writer.pc = "append" /\ k - Len(file) \in 1..Len(Writing)
                 /\ file'[k][1].record = Writing[k - Len(file)]
         /\ AppendSucceeds => Len(file') = Len(file) + Len(Writing)
  <1>1. IsFile(file) /\ AllParse(file)  BY DEF Shape, HonestInv, Readable
  <1>2. Len(file) \in Nat  BY <1>1, IsSeqLen DEF IsFile
  <1>3. terminated'  BY HonestWrite
  <1>4. CASE file' = file /\ ~AppendSucceeds
    BY <1>1, <1>2, <1>3, <1>4 DEF FileGrows, Readable
  <1>5. ASSUME writer.pc = "append", NEW n \in 0..Len(Writing),
               file' = file \o NewLines(SubSeq(WholeAll(Writing), 1, n)),
               AppendSucceeds => n = Len(Writing)
        PROVE  /\ FileGrows /\ Readable'
               /\ \A k \in 1..Len(file') :
                    \/ k \in 1..Len(file)
                    \/ /\ k - Len(file) \in 1..Len(Writing)
                       /\ file'[k][1].record = Writing[k - Len(file)]
               /\ AppendSucceeds => Len(file') = Len(file) + Len(Writing)
    <2> DEFINE all == WholeAll(Writing)
               ps  == SubSeq(all, 1, n)
               L   == Len(file)
    <2>1. /\ IsSeq(all) /\ Len(all) = Len(Writing) /\ Len(Writing) \in Nat
          /\ \A k \in 1..Len(Writing) : all[k] = Whole(Writing[k])
      BY <1>5, WritingFacts
    <2> HIDE DEF all
    <2>2. n \in Nat /\ n <= Len(all)  BY <2>1
    <2>3. IsSeq(ps) /\ Len(ps) = n /\ \A k \in 1..n : ps[k] = all[k]
      BY <2>1, <2>2, PrefixFacts
    <2>4. file' = file \o NewLines(ps)  BY <1>5 DEF all
    <2> HIDE DEF ps
    <2>5. \A k \in 1..n : ps[k] = Whole(Writing[k])  BY <2>1, <2>2, <2>3
    <2>6. \A e : Whole(e).whole /\ Whole(e).record = e  BY DEF Whole
    <2>7. \A k \in 1..Len(ps) : ps[k].whole  BY <2>3, <2>5, <2>6
    <2>8. /\ Len(file') = L + n
          /\ \A k \in 1..L : (file')[k] = file[k]
          /\ \A k \in 1..n : (file')[L + k] = <<ps[k]>>
          /\ AllParse(file')
      BY <1>1, <2>3, <2>4, <2>7, RecordsAfterWrite
    <2>9. FileGrows /\ Readable'  BY <1>2, <2>2, <2>8 DEF FileGrows, Readable
    <2>10. ASSUME NEW k \in 1..Len(file'), k \notin 1..L
           PROVE  /\ k - L \in 1..Len(Writing)
                  /\ file'[k][1].record = Writing[k - L]
      <3> DEFINE j == k - L
      <3>1. j \in 1..n /\ j \in 1..Len(Writing) /\ L + j = k
        BY <1>2, <2>1, <2>2, <2>8, <2>10
      <3> HIDE DEF j
      <3>2. file'[k] = <<Whole(Writing[j])>>  BY <2>5, <2>8, <3>1
      <3>3. file'[k][1].record = Writing[j]  BY <2>6, <3>2
      <3> QED  BY <3>1, <3>3 DEF j
    <2>11. AppendSucceeds => Len(file') = L + Len(Writing)  BY <1>5, <2>8
    <2> QED  BY <2>9, <2>10, <2>11
  <1>6. CASE AppendSucceeds /\ file' = file
    <2>1. file' = WriteAtEnd(file, terminated, WholeAll(Writing)) /\ writer.pc = "append"
      BY <1>6 DEF AppendSucceeds
    <2> DEFINE all == WholeAll(Writing)
    <2>2. IsSeq(all) /\ Len(all) \in Nat /\ Len(all) > 0  BY <2>1, WritingFacts
    <2> HIDE DEF all
    <2>3. file' = file \o NewLines(all)
      BY <1>1, <2>1, <2>2, WriteOnNewLine DEF HonestInv, all
    <2>4. Len(file \o NewLines(all)) = Len(file) + Len(all)  BY <1>1, <2>2, RecordsAfterWrite
    <2> QED  BY <1>2, <1>6, <2>2, <2>3, <2>4
  <1> QED  BY <1>3, <1>4, <1>5, <1>6, HonestWrite

(* A write on a log of whole lines leaves whole lines, chained on; one     *)
(* that leaves a fragment is remembered as torn.                           *)
LEMMA HonestStep == ASSUME IInv, [Next]_vars PROVE HonestInv'
  <1>1. Shape /\ TypeOK /\ QueueInv /\ HonestInv  BY DEF IInv
  <1>2. edits \in Nat /\ IsFile(file) /\ IsSeq(file) /\ Len(file) \in Nat
    BY <1>1, IsSeqLen DEF Shape, IsFile
  <1> SUFFICES ASSUME torn' = FALSE, edits' = 0  PROVE HonestInv'
    BY <1>1, ShapeStep DEF HonestInv, Untouched, Shape
  <1>3. ~Edit /\ Untouched
    <2>1. ~Edit  BY <1>2 DEF Edit
    <2>2. Ending => edits' = edits /\ (torn => torn')
      BY DEF Ending, AppendSucceeds, AppendFails, Crash
    <2> QED  BY <2>1, <2>2, Steps, QuietFile DEF Untouched
  <1>4. /\ Readable /\ terminated /\ Linked
        /\ headState # NoHead => headState = FileHead
        /\ Len(anchored) <= Len(file) /\ \A k \in 1..Len(anchored) : anchored[k] = Entry(k)
        /\ Len(anchored) \in Nat
    BY <1>1, <1>3, IsSeqLen DEF HonestInv, Shape
  <1>5. CASE Quiet
    <2>1. file' = file /\ terminated' = terminated  BY <1>5, QuietFile
    <2>2. FileHead' = FileHead /\ Records(file') = Records(file)
      BY <2>1 DEF FileHead, Entry
    <2>3. Readable' /\ terminated' /\ Linked'  BY <1>4, <2>1, <2>2 DEF Readable, Linked
    <2>4. headState' # NoHead => headState' = FileHead'
      BY <1>4, <1>5, <2>2 DEF Quiet, Record, Start, MakeDir, EnsureHead, TakeAnchor, vars
    <2>5. Len(anchored') <= Len(file') /\ \A k \in 1..Len(anchored') : anchored'[k] = Entry(k)'
      <3>1. CASE anchored' = anchored  BY <1>4, <2>1, <3>1 DEF Entry
      <3>2. CASE anchored' = Records(file)
        <4>1. /\ Len(Records(file)) = Len(file)
              /\ \A k \in 1..Len(file) : Records(file)[k] = file[k][1].record
          BY <1>2, RecordsFacts
        <4> QED  BY <1>2, <2>1, <3>2, <4>1 DEF Entry
      <3> QED
        BY <1>5, <3>1, <3>2 DEF Quiet, Record, Start, MakeDir, EnsureHead, TakeAnchor, vars
    <2> QED  BY <2>3, <2>4, <2>5 DEF HonestInv
  <1>6. CASE Ending
    <2>1. /\ terminated' /\ FileGrows /\ Readable'
          /\ \A k \in 1..Len(file') :
               \/ k \in 1..Len(file)
               \/ /\ writer.pc = "append" /\ k - Len(file) \in 1..Len(Writing)
                  /\ file'[k][1].record = Writing[k - Len(file)]
          /\ AppendSucceeds => Len(file') = Len(file) + Len(Writing)
      BY <1>1, <1>3, <1>6, HonestLines
    <2> DEFINE L    == Len(file)
               E(k) == file[k][1].record
               F(k) == file'[k][1].record
               W    == Writing
    <2>2. /\ L \in Nat /\ Len(file') \in Nat /\ L <= Len(file')
          /\ \A k \in 1..L : k \in 1..Len(file') /\ F(k) = E(k)
      BY <2>1 DEF FileGrows
    <2>3. \A k \in 1..L : E(k).seq = k - 1 /\ E(k).prev = IF k = 1 THEN Genesis ELSE E(k - 1)
      <3> DEFINE R == Records(file)
      <3>1. Len(R) = L /\ \A k \in 1..L : R[k] = E(k)  BY <1>2, RecordsFacts
      <3>2. \A k \in 1..Len(R) : R[k].seq = k - 1 /\ R[k].prev = IF k = 1 THEN Genesis ELSE R[k - 1]
        BY <1>4 DEF Linked, Chained
      <3> HIDE DEF R, E
      <3>3. \A k \in 1..L : k # 1 => k - 1 \in 1..L  BY <1>2
      <3> QED  BY <3>1, <3>2, <3>3
    <2>4. ASSUME writer.pc = "append"
          PROVE  /\ headState.length = L
                 /\ headState.hash = IF L = 0 THEN Genesis ELSE E(L)
                 /\ Len(W) \in Nat /\ Len(W) > 0
                 /\ \A j \in 1..Len(W) :
                      /\ W[j].seq = L + j - 1
                      /\ W[j].prev = IF j = 1 THEN headState.hash ELSE W[j - 1]
      <3>1. headState = FileHead  BY <1>1, <1>4, <2>4 DEF TypeOK
      <3>2. file = <<>> <=> L = 0  BY <1>2, IsSeqLen
      <3>3. headState.length = L /\ headState.hash = IF L = 0 THEN Genesis ELSE E(L)
        BY <3>1, <3>2 DEF FileHead, Entry
      <3>4. /\ Len(W) \in Nat /\ Len(W) > 0
            /\ \A j \in 1..Len(W) :
                 W[j] = [seq |-> headState.length + j - 1,
                         prev |-> IF j = 1 THEN headState.hash ELSE W[j - 1],
                         receipt |-> ReceiptsOf[writer.call][j]]
        BY <1>1, <2>4, WritingFacts
      <3> HIDE DEF W, L, E
      <3>5. ASSUME NEW j \in 1..Len(W)
            PROVE  /\ W[j].seq = L + j - 1
                   /\ W[j].prev = IF j = 1 THEN headState.hash ELSE W[j - 1]
        <4>1. W[j] = [seq |-> headState.length + j - 1,
                      prev |-> IF j = 1 THEN headState.hash ELSE W[j - 1],
                      receipt |-> ReceiptsOf[writer.call][j]]
          BY <3>4
        <4> QED  BY <3>3, <4>1
      <3> QED  BY <3>3, <3>4, <3>5
    <2>5. \A k \in 1..Len(file') :
            \/ k \in 1..L
            \/ writer.pc = "append" /\ k - L \in 1..Len(W) /\ F(k) = W[k - L]
      BY <2>1
    <2> HIDE DEF L, E, F, W
    <2>6. ASSUME NEW k \in 1..Len(file')
          PROVE  F(k).seq = k - 1 /\ F(k).prev = IF k = 1 THEN Genesis ELSE F(k - 1)
      <3>1. CASE k \in 1..L
        <4>1. k # 1 => k - 1 \in 1..L  BY <2>2, <3>1
        <4> QED  BY <2>2, <2>3, <3>1, <4>1
      <3>2. CASE k \notin 1..L
        <4> DEFINE j == k - L
        <4>1. writer.pc = "append" /\ j \in 1..Len(W) /\ F(k) = W[j]  BY <2>5, <3>2
        <4>2. k = L + j /\ j \in Nat /\ j >= 1  BY <2>2, <4>1
        <4> HIDE DEF j
        <4>3. F(k).seq = k - 1
          <5>1. W[j].seq = L + j - 1  BY <2>4, <4>1
          <5> QED  BY <2>2, <4>1, <4>2, <5>1
        <4>4. CASE j = 1
          <5>1. F(k).prev = IF L = 0 THEN Genesis ELSE E(L)  BY <2>4, <4>1, <4>4
          <5>2. k - 1 = L /\ (k = 1 <=> L = 0) /\ (L # 0 => L \in 1..L)  BY <2>2, <4>2, <4>4
          <5> QED  BY <2>2, <4>3, <5>1, <5>2
        <4>5. CASE j # 1
          <5>1. F(k).prev = W[j - 1]  BY <2>4, <4>1, <4>5
          <5>2. k # 1 /\ k - 1 \in 1..Len(file') /\ k - 1 \notin 1..L /\ k - 1 - L = j - 1
            BY <2>2, <4>2, <4>5
          <5>3. F(k - 1) = W[j - 1]  BY <2>5, <5>2
          <5> QED  BY <4>3, <5>1, <5>2, <5>3
        <4> QED  BY <4>4, <4>5
      <3> QED  BY <3>1, <3>2
    <2>7. IsFile(file') /\ IsSeq(file')  BY <1>1, <1>6, WriteStep DEF Ending, IsFile
    <2>8. Linked'
      <3> DEFINE R == Records(file')
      <3>1. Len(R) = Len(file') /\ \A k \in 1..Len(file') : R[k] = F(k)
        BY <2>7, RecordsFacts DEF F
      <3> HIDE DEF R
      <3>2. \A k \in 1..Len(file') : k # 1 => k - 1 \in 1..Len(file')  BY <2>2
      <3>3. \A k \in 1..Len(R) : R[k].seq = k - 1 /\ R[k].prev = IF k = 1 THEN Genesis ELSE R[k - 1]
        BY <2>6, <3>1, <3>2
      <3> QED  BY <3>3 DEF Linked, Chained, R
    <2>9. headState' # NoHead => headState' = FileHead'
      <3>1. CASE AppendSucceeds
        <4>1. /\ writer.pc = "append"
              /\ headState' = [length |-> headState.length + Len(W), hash |-> W[Len(W)]]
          BY <3>1 DEF AppendSucceeds, W
        <4>2. Len(file') = L + Len(W) /\ Len(W) \in Nat /\ Len(W) > 0
          BY <2>1, <2>4, <3>1, <4>1 DEF L, W
        <4>3. Len(file') \in 1..Len(file') /\ Len(file') \notin 1..L
                /\ Len(file') - L = Len(W) /\ Len(file') # 0
          BY <2>2, <4>2
        <4>4. F(Len(file')) = W[Len(W)]  BY <2>5, <4>3
        <4>5. file' # <<>>  BY <2>7, <4>3, EmptyFacts
        <4>6. FileHead' = [length |-> Len(file'), hash |-> F(Len(file'))]
          BY <4>5 DEF FileHead, Entry, F
        <4>7. headState.length = L  BY <2>4, <4>1
        <4> QED  BY <4>1, <4>2, <4>4, <4>6, <4>7
      <3>2. CASE AppendFails
        <4>1. file' = file /\ headState' = headState
          BY <3>2 DEF AppendFails
        <4>2. FileHead' = FileHead  BY <4>1 DEF FileHead, Entry
        <4> QED  BY <1>4, <4>1, <4>2
      <3>3. CASE Crash  BY <3>3 DEF Crash
      <3> QED  BY <1>6, <3>1, <3>2, <3>3 DEF Ending
    <2>10. Len(anchored') <= Len(file') /\ \A k \in 1..Len(anchored') : anchored'[k] = Entry(k)'
      <3>1. anchored' = anchored  BY <1>6, EndingLeaves
      <3>2. Len(anchored) <= L /\ Len(anchored) \in Nat /\ \A k \in 1..Len(anchored) : anchored[k] = E(k)
        BY <1>4 DEF L, E, Entry
      <3>3. Len(anchored) <= Len(file') /\ \A k \in 1..Len(anchored) : k \in 1..L
        BY <2>2, <3>2
      <3>4. ASSUME NEW k \in 1..Len(anchored)  PROVE anchored[k] = F(k)
        BY <2>2, <3>2, <3>3
      <3> QED  BY <3>1, <3>3, <3>4 DEF F, Entry
    <2> QED  BY <2>1, <2>8, <2>9, <2>10 DEF HonestInv
  <1> QED  BY <1>3, <1>5, <1>6, Steps

-----------------------------------------------------------------------------
(* What follows from the invariant                                         *)

(* An untouched log reads, links, agrees with every head taken earlier and *)
(* passes the audit.                                                       *)
LEMMA HonestFollows == IInv => HonestLogVerifies
  <1> SUFFICES ASSUME IInv, Untouched
               PROVE  /\ Readable /\ Linked /\ MatchesAnchor(anchor)
                      /\ AcknowledgedIsRemembered
                      /\ \A k \in 1..Len(file) :
                           /\ AuditFault(FullAudit, Entry(k).receipt) = "none"
                           /\ \A webauthn \in BOOLEAN :
                                SignatureStatus(ConsoleAudit(webauthn), Entry(k).receipt) # "invalid"
    BY DEF HonestLogVerifies
  <1>1. /\ Readable /\ Linked /\ edits = 0
        /\ Len(anchored) <= Len(file) /\ \A k \in 1..Len(anchored) : anchored[k] = Entry(k)
    BY DEF IInv, HonestInv, Untouched
  <1>2. /\ IsSeq(file) /\ Len(file) \in Nat /\ Len(anchored) \in Nat
        /\ anchor.length = Len(anchored) /\ anchor.hash = LastOf(anchored)
        /\ made \in Seq(Calls)
    BY IsSeqLen DEF IInv, Shape, IsFile
  <1>3. MatchesAnchor(anchor)
    <2>1. Len(anchored) # 0 => Len(anchored) \in 1..Len(anchored)  BY <1>2
    <2> QED  BY <1>1, <1>2, <2>1 DEF MatchesAnchor, LastOf
  <1>4. AcknowledgedIsRemembered  BY <1>1 DEF IInv, LossIsLoud
  <1>5. ASSUME NEW k \in 1..Len(file)
        PROVE  /\ AuditFault(FullAudit, Entry(k).receipt) = "none"
               /\ \A webauthn \in BOOLEAN :
                    SignatureStatus(ConsoleAudit(webauthn), Entry(k).receipt) # "invalid"
    <2>1. Parses(file[k])  BY <1>1 DEF Readable, AllParse
    <2>2. PICK m \in 1..Len(made) : Own(made[m], Entry(k).receipt)
      BY <1>1, <2>1 DEF IInv, SourceInv
    <2>3. made[m] \in Calls  BY <1>2, <2>2
    <2> QED  BY <2>2, <2>3, GivenPasses
  <1> QED  BY <1>1, <1>3, <1>4, <1>5

(* Receipts in the order of their calls are what WriteOrder asks for.      *)
LEMMA OrderFollows == IInv => WriteOrder
  <1> SUFFICES ASSUME IInv, edits = 0,
                      NEW m \in 1..Len(made), NEW n \in 1..Len(made),
                      NEW j \in 1..Len(file), NEW k \in 1..Len(file), m < n,
                      ReceiptsOf[made[m]] # <<>>, RecordedAt(made[m], j),
                      ReceiptsOf[made[n]] # <<>>, RecordedAt(made[n], k)
               PROVE  j < k
    BY DEF WriteOrder
  <1>1. made \in Seq(Calls) /\ IsSeq(file) /\ Len(file) \in Nat
    BY IsSeqLen DEF IInv, Shape, IsFile
  <1>2. ASSUME NEW c \in Calls, NEW i \in 1..Len(file), ReceiptsOf[c] # <<>>, RecordedAt(c, i)
        PROVE  Parses(file[i]) /\ Own(c, Entry(i).receipt)
    <2>1. 1 \in 1..Len(ReceiptsOf[c]) /\ DOMAIN ReceiptsOf[c] = 1..Len(ReceiptsOf[c])
      BY <1>2, CallFacts
    <2>2. i + 1 - 1 = i  BY <1>1
    <2>3. Parses(file[i]) /\ Entry(i).receipt = ReceiptsOf[c][1]
      BY <1>2, <2>1, <2>2 DEF RecordedAt
    <2> QED  BY <2>1, <2>3 DEF Own
  <1>3. made[m] \in Calls /\ made[n] \in Calls  BY <1>1
  <1>4. /\ Parses(file[j]) /\ Own(made[m], Entry(j).receipt)
        /\ Parses(file[k]) /\ Own(made[n], Entry(k).receipt)
    BY <1>2, <1>3
  <1> QED  BY <1>4 DEF IInv, OrderInv

(* Two chains with the same entry at the same place are the same up to     *)
(* there: `prev` is the hash of the entry before.                          *)
LEMMA ChainsMeet ==
  ASSUME NEW a, NEW log, Chained(a), Chained(log), IsSeq(a), IsSeq(log),
         Len(a) <= Len(log), Len(a) > 0 => a[Len(a)] = log[Len(a)]
  PROVE  \A k \in 1..Len(a) : a[k] = log[k]
  <1>0. Len(a) \in Nat /\ Len(log) \in Nat  BY IsSeqLen
  <1> DEFINE n == Len(a)
             T == {k \in 1..n : a[k] # log[k]}
  <1> HIDE DEF n
  <1> SUFFICES ASSUME T # {}  PROVE FALSE  BY DEF n
  <1>1. n \in Nat /\ n <= Len(log) /\ T \subseteq 0..n  BY <1>0 DEF n
  <1>2. PICK k \in T : \A m \in T : m <= k
    <2> HIDE DEF T
    <2> QED  BY <1>1, GreatestElement
  <1>3. k \in 1..n /\ a[k] # log[k]  OBVIOUS
  <1>4. k # n  BY <1>0, <1>3 DEF n
  <1>5. k + 1 \in 1..n /\ k + 1 \in 1..Len(log) /\ k + 1 # 1 /\ k + 1 - 1 = k /\ ~(k + 1 <= k)
    BY <1>0, <1>1, <1>3, <1>4
  <1>6. a[k + 1] = log[k + 1]  BY <1>2, <1>5
  <1>7. a[k + 1].prev = a[k + 1 - 1]  BY <1>5 DEF Chained, n
  <1>8. log[k + 1].prev = log[k + 1 - 1]  BY <1>5 DEF Chained
  <1> QED  BY <1>3, <1>5, <1>6, <1>7, <1>8

\* A receipt that passes any audit was not changed since it was signed.
LEMMA PassesOnlyIntact ==
  ASSUME NEW s, AuditFault(FullAudit, s) = "none"  PROVE s.intact
  BY DEF AuditFault

(* An audit passes only unaltered receipts, and two chains that meet at    *)
(* the anchored head agree up to it.                                       *)
LEMMA EditsFollow == IInv => EditsAreCaught
  <1> SUFFICES ASSUME IInv, Readable, Linked, MatchesAnchor(anchor),
                      \A k \in 1..Len(file) : AuditFault(FullAudit, Entry(k).receipt) = "none"
               PROVE  /\ Chained(anchored) => SubSeq(Records(file), 1, anchor.length) = anchored
                      /\ \A k \in 1..Len(file) : \E m \in 1..Len(made) :
                           \E n \in DOMAIN ReceiptsOf[made[m]] :
                             ReceiptsOf[made[m]][n] = Entry(k).receipt
    BY DEF EditsAreCaught
  <1>1. /\ IsSeq(file) /\ Len(file) \in Nat
        /\ IsSeq(anchored) /\ Len(anchored) \in Nat
        /\ anchor.length = Len(anchored) /\ anchor.hash = LastOf(anchored)
    BY IsSeqLen DEF IInv, Shape, IsFile
  <1>2. ASSUME Chained(anchored)  PROVE SubSeq(Records(file), 1, Len(anchored)) = anchored
    <2> DEFINE R == Records(file)
               L == Len(anchored)
    <2>1. IsSeq(R) /\ Len(R) = Len(file) /\ \A k \in 1..Len(file) : R[k] = Entry(k)
      BY <1>1, RecordsFacts DEF Entry
    <2>2. Chained(R)  BY DEF Linked
    <2>3. L <= Len(file) /\ LastOf(anchored) = IF L = 0 THEN Genesis ELSE Entry(L)
      BY <1>1 DEF MatchesAnchor
    <2> HIDE DEF R
    <2>4. L <= Len(R) /\ (L > 0 => anchored[L] = R[L])
      <3>1. L > 0 => L \in 1..Len(file) /\ L # 0  BY <1>1, <2>3
      <3> QED  BY <1>1, <2>1, <2>3, <3>1 DEF LastOf
    <2>5. \A k \in 1..L : anchored[k] = R[k]  BY <1>1, <1>2, <2>1, <2>2, <2>4, ChainsMeet
    <2>6. /\ IsSeq(SubSeq(R, 1, L)) /\ Len(SubSeq(R, 1, L)) = L
          /\ \A k \in 1..L : SubSeq(R, 1, L)[k] = R[k]
      BY <1>1, <2>1, <2>4, PrefixFacts
    <2>7. SubSeq(R, 1, L) = anchored
      <3> DEFINE t == SubSeq(R, 1, L)
      <3>1. IsSeq(t) /\ IsSeq(anchored) /\ Len(t) = Len(anchored)
              /\ \A k \in 1..Len(t) : t[k] = anchored[k]
        BY <1>1, <2>5, <2>6
      <3> HIDE DEF t
      <3>2. t = anchored  BY <3>1, SeqEquality
      <3> QED  BY <3>2 DEF t
    <2> QED  BY <2>7 DEF R
  <1>3. ASSUME NEW k \in 1..Len(file)
        PROVE  \E m \in 1..Len(made) : Own(made[m], Entry(k).receipt)
    <2>1. Parses(file[k])  BY DEF Readable, AllParse
    <2>2. Entry(k).receipt.intact  BY PassesOnlyIntact
    <2> QED  BY <2>1, <2>2 DEF IInv, SourceInv
  <1> QED  BY <1>1, <1>2, <1>3 DEF Own

-----------------------------------------------------------------------------
(* The theorems                                                            *)

LEMMA Inductive == Spec => []IInv
  <1>1. IInv /\ [Next]_vars => IInv'
    BY ShapeStep, TypeStep, QueueStep, SourceStep, OrderStep, LossStep, HonestStep DEF IInv
  <1> QED  BY <1>1, Initially, PTL DEF Spec

(* The states stay those described, and exactly the calls that wait and    *)
(* the one that is written are pending.                                    *)
THEOREM TypeCorrect == Spec => []TypeOK
  <1>1. IInv => TypeOK  BY DEF IInv
  <1> QED  BY <1>1, Inductive, PTL

(* A log neither torn (by an append cut off after part of its text) nor    *)
(* edited always verifies and holds all that was acknowledged, whatever    *)
(* calls, restarts, and writes that failed or died on a line boundary      *)
(* there were.                                                             *)
THEOREM HonestVerifies == Spec => []HonestLogVerifies
  BY HonestFollows, Inductive, PTL

(* While the log reads, nothing acknowledged is missing from it.           *)
THEOREM LossesShow == Spec => []LossIsLoud
  <1>1. IInv => LossIsLoud  BY DEF IInv
  <1> QED  BY <1>1, Inductive, PTL

(* The receipts of an earlier call precede those of a later one, for any   *)
(* number of calls made while others wait.                                 *)
THEOREM WritesInOrder == Spec => []WriteOrder
  BY OrderFollows, Inductive, PTL

(* An audit against a head kept elsewhere catches every edit of what that  *)
(* head covers, and every receipt that no record() call was given.         *)
THEOREM EditsCaught == Spec => []EditsAreCaught
  BY EditsFollow, Inductive, PTL
=============================================================================
