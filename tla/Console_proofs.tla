--------------------------- MODULE Console_proofs ---------------------------
(***************************************************************************)
(* Proofs about the console's write path and the policy log it keeps.      *)
(***************************************************************************)
EXTENDS Console, LogLemmas, FiniteSetTheorems

-----------------------------------------------------------------------------
(* Logs that verify                                                        *)

LEMMA LastOfSeq ==
  ASSUME NEW log, IsSeq(log), log # <<>>
  PROVE  LastEntry(log) = log[Len(log)] /\ Len(log) \in 1..Len(log)
  BY IsSeqLen DEF LastEntry

(* The entries of a log that verifies are linked. *)
LEMMA Links ==
  ASSUME NEW log, IsSeq(log), VerifyChain(log), NEW k \in 1..Len(log), k # 1
  PROVE  k - 1 \in 1..Len(log) /\ log[k].prev = log[k - 1]
  <1>0. Len(log) \in Nat  BY IsSeqLen
  <1>1. k - 1 \in 1..Len(log) /\ k - 1 \in Nat /\ k - 1 <= Len(log) /\ k - 1 # 0
    BY <1>0
  <1> DEFINE before == SubSeq(log, 1, k - 1)
  <1>2. EntryVerifies(before, log[k])  BY DEF VerifyChain
  <1>3. IsSeq(before) /\ Len(before) = k - 1 /\ \A n \in 1..(k - 1) : before[n] = log[n]
    BY <1>1, PrefixFacts
  <1> HIDE DEF before
  <1>4. before # <<>>  BY <1>1, <1>3, IsSeqLen
  <1>5. log[k].prev = before[k - 1]  BY <1>2, <1>3, <1>4, LastOfSeq DEF EntryVerifies
  <1>6. k - 1 \in 1..(k - 1)  BY <1>1
  <1> QED  BY <1>1, <1>3, <1>5, <1>6

(* A head determines the log it is the head of: two logs that verify and   *)
(* have the same head are the same.                                        *)
LEMMA SameHead ==
  ASSUME NEW a, NEW b, IsSeq(a), IsSeq(b), VerifyChain(a), VerifyChain(b),
         PolicyHead(a) = PolicyHead(b)
  PROVE  a = b
  <1>1. Len(a) = Len(b) /\ LastEntry(a) = LastEntry(b)  BY DEF PolicyHead
  <1>2. Len(a) \in Nat  BY IsSeqLen
  <1> DEFINE n == Len(a)
             T == {k \in 1..n : a[k] # b[k]}
  <1>3. T = {}
    <2> SUFFICES ASSUME T # {}  PROVE FALSE  OBVIOUS
    <2> HIDE DEF n
    <2>0. n \in Nat /\ n = Len(a) /\ n = Len(b)  BY <1>1, <1>2 DEF n
    <2>1. T \subseteq 0..n  BY <2>0
    <2>2. PICK k \in T : \A m \in T : m <= k
      <3> HIDE DEF T
      <3> QED  BY <2>0, <2>1, GreatestElement
    <2>3. k \in 1..n /\ a[k] # b[k]  OBVIOUS
    <2>4. CASE k = n
      <3>1. a # <<>> /\ b # <<>>  BY <2>0, <2>3, IsSeqLen
      <3>2. a[n] = b[n]  BY <1>1, <2>0, <3>1, LastOfSeq
      <3> QED  BY <2>3, <2>4, <3>2
    <2>5. CASE k # n
      <3>1. k + 1 \in 1..n /\ k + 1 # 1 /\ k + 1 - 1 = k /\ ~(k + 1 <= k)  BY <2>0, <2>3, <2>5
      <3>2. a[k + 1] = b[k + 1]  BY <2>2, <3>1
      <3>3. a[k + 1].prev = a[k] /\ b[k + 1].prev = b[k]
        <4>1. k + 1 \in 1..Len(a) /\ k + 1 \in 1..Len(b)  BY <2>0, <3>1
        <4>2. a[k + 1].prev = a[k + 1 - 1]  BY <3>1, <4>1, Links
        <4>3. b[k + 1].prev = b[k + 1 - 1]  BY <3>1, <4>1, Links
        <4> QED  BY <3>1, <4>2, <4>3
      <3> QED  BY <2>3, <3>2, <3>3
    <2> QED  BY <2>4, <2>5
  <1>4. \A k \in 1..Len(a) : a[k] = b[k]  BY <1>3
  <1> QED  BY <1>1, <1>4, SeqEquality

(* Every prefix of a log that verifies does, too.                          *)
LEMMA PrefixVerifies ==
  ASSUME NEW log, IsSeq(log), VerifyChain(log), NEW n \in Nat, n <= Len(log)
  PROVE  VerifyChain(SubSeq(log, 1, n))
  <1>0. Len(log) \in Nat  BY IsSeqLen
  <1> DEFINE t == SubSeq(log, 1, n)
  <1>1. IsSeq(t) /\ Len(t) = n /\ \A k \in 1..n : t[k] = log[k]  BY PrefixFacts
  <1>2. \A k \in 1..n : SubSeq(t, 1, k - 1) = SubSeq(log, 1, k - 1)
    <2> SUFFICES ASSUME NEW k \in 1..n
                 PROVE  SubSeq(t, 1, k - 1) = SubSeq(log, 1, k - 1)
      OBVIOUS
    <2>1. k - 1 \in Nat /\ k - 1 <= n  OBVIOUS
    <2> QED  BY <2>1, PrefixOfPrefix
  <1> HIDE DEF t
  <1>3. ASSUME NEW k \in 1..Len(t)  PROVE EntryVerifies(SubSeq(t, 1, k - 1), t[k])
    <2>1. k \in 1..n /\ k \in 1..Len(log)  BY <1>0, <1>1
    <2>2. EntryVerifies(SubSeq(log, 1, k - 1), log[k])  BY <2>1 DEF VerifyChain
    <2> QED  BY <1>1, <1>2, <2>1, <2>2
  <1> QED  BY <1>3 DEF VerifyChain, t

(* A log made with the library verifies. *)
LEMMA SeedsVerify ==
  ASSUME NEW log \in Seeds
  PROVE  IsSeq(log) /\ VerifyChain(log)
  <1>1. IsSeq(log)  BY ConsoleAssumption DEF IsSeq
  <1>2. ASSUME NEW k \in 1..Len(log)  PROVE EntryVerifies(SubSeq(log, 1, k - 1), log[k])
    <2> DEFINE before == SubSeq(log, 1, k - 1)
               e      == log[k]
    <2>1. /\ CanAppend(before, e.change, e.signer)
          /\ e = SignedEntry(PolicyHead(before), e.change, e.signer, "0.2")
      BY ConsoleAssumption
    <2> HIDE DEF before, e
    <2>2. e.seq = Len(before) /\ e.prev = LastEntry(before)
      BY <2>1 DEF SignedEntry, PolicyHead
    <2>3. EntryVerifies(before, e)  BY <2>1, <2>2 DEF EntryVerifies, CanAppend
    <2> QED  BY <2>3 DEF before, e
  <1> QED  BY <1>1, <1>2 DEF VerifyChain

(* The entry a log was extended with carries the head of that log. *)
LEMMA EntryCarriesHead ==
  ASSUME NEW log, IsSeq(log), NEW e, VerifyChain(Append(log, e))
  PROVE  EntryVerifies(log, e)
  <1>0. Len(log) \in Nat  BY IsSeqLen
  <1> DEFINE post == Append(log, e)
  <1>1. Len(post) = Len(log) + 1 /\ post[Len(log) + 1] = e  BY AppendFacts
  <1>2. SubSeq(post, 1, Len(log)) = log  BY <1>0, PrefixOfAppend, WholePrefix
  <1> HIDE DEF post
  <1>3. Len(log) + 1 \in 1..Len(post) /\ Len(log) + 1 - 1 = Len(log)  BY <1>0, <1>1
  <1>4. EntryVerifies(SubSeq(post, 1, Len(log) + 1 - 1), post[Len(log) + 1])
    BY <1>3 DEF VerifyChain, post
  <1> QED  BY <1>1, <1>2, <1>3, <1>4

(* An entry appended leaves what was there.                                *)
LEMMA AppendExtends ==
  ASSUME NEW log, IsSeq(log), NEW e
  PROVE  IsPrefixOf(log, Append(log, e))
  <1>0. Len(log) \in Nat  BY IsSeqLen
  <1>1. SubSeq(Append(log, e), 1, Len(log)) = log  BY <1>0, PrefixOfAppend, WholePrefix
  <1>2. Len(log) <= Len(Append(log, e))  BY <1>0, AppendFacts
  <1> QED  BY <1>1, <1>2 DEF IsPrefixOf

LEMMA ExtendsTransitive ==
  ASSUME NEW a, IsSeq(a), NEW log, IsSeq(log), NEW e, IsPrefixOf(a, log)
  PROVE  IsPrefixOf(a, Append(log, e))
  <1>0. Len(a) \in Nat /\ Len(log) \in Nat  BY IsSeqLen
  <1>1. Len(a) <= Len(log) /\ SubSeq(log, 1, Len(a)) = a  BY DEF IsPrefixOf
  <1>2. SubSeq(Append(log, e), 1, Len(a)) = a  BY <1>0, <1>1, PrefixOfAppend
  <1>3. Len(a) <= Len(Append(log, e))  BY <1>0, <1>1, AppendFacts
  <1> QED  BY <1>2, <1>3 DEF IsPrefixOf

-----------------------------------------------------------------------------
(* The invariant                                                           *)

ServerFields == {"pc", "head", "log", "candidate", "seen", "checked"}

(* What a server holds: a head and a log that were the file's, and an      *)
(* entry that follows that very log.                                       *)
ServerOK(c) ==
  /\ DOMAIN c = ServerFields
  /\ c.pc \in {"idle", "signing", "validated", "checked"}
  /\ IsSeq(c.seen) /\ VerifyChain(c.seen) /\ c.head = PolicyHead(c.seen)
  /\ c.pc \in {"validated", "checked"} =>
       /\ c.log = c.seen /\ IsPrefixOf(origin, c.log)
       /\ \E e : /\ c.candidate = Append(c.log, e) /\ VerifyChain(c.candidate)
                 /\ TypedChange(e.change) /\ ValidTransition(c.log, e)
  /\ c.pc = "checked" => c.checked = c.log

Typed(log) == \A k \in 1..Len(log) : TypedChange(log[k].change)

IInv ==
  /\ IsSeq(file) /\ VerifyChain(file) /\ Typed(file)
  /\ IsSeq(origin) /\ VerifyChain(origin) /\ IsPrefixOf(origin, file)
  /\ restores \in 0..MaxRestores
  /\ server = [w \in Servers |-> server[w]]
  /\ \A w \in Servers : ServerOK(server[w]) /\ Typed(server[w].seen)

LEMMA EmptyLog == IsSeq(<<>>) /\ VerifyChain(<<>>) /\ Typed(<<>>)
  <1>1. IsSeq(<<>>) /\ Len(<<>>) = 0  BY EmptyFacts
  <1> QED  BY <1>1 DEF VerifyChain, Typed

LEMMA IdleOK == ServerOK(IdleServer) /\ Typed(IdleServer.seen)
  <1>1. /\ DOMAIN IdleServer = ServerFields
        /\ IdleServer.pc = "idle" /\ IdleServer.seen = <<>>
        /\ IdleServer.head = PolicyHead(<<>>)
    BY DEF IdleServer, ServerFields
  <1> QED  BY <1>1, EmptyLog DEF ServerOK

LEMMA InitIInv == Init => IInv
  <1> SUFFICES ASSUME Init  PROVE IInv  OBVIOUS
  <1>1. file \in Seeds /\ origin = file /\ server = [w \in Servers |-> IdleServer] /\ restores = 0
    BY DEF Init
  <1>2. IsSeq(file) /\ VerifyChain(file)  BY <1>1, SeedsVerify
  <1>3. Typed(file)  BY <1>1, ConsoleAssumption DEF Typed
  <1>4. Len(file) \in Nat /\ IsPrefixOf(origin, file)  BY <1>1, <1>2, IsSeqLen, WholePrefix DEF IsPrefixOf
  <1>5. restores \in 0..MaxRestores  BY <1>1, ConsoleAssumption
  <1> QED  BY <1>1, <1>2, <1>3, <1>4, <1>5, IdleOK DEF IInv

(* A step of server w that leaves the file alone. *)
LEMMA ServerStep ==
  ASSUME IInv, NEW w \in Servers, NEW c, server' = [server EXCEPT ![w] = c],
         ServerOK(c), Typed(c.seen), UNCHANGED <<file, origin, restores>>
  PROVE  IInv'
  <1>1. \A v \in Servers : server'[v] = IF v = w THEN c ELSE server[v]  BY DEF IInv
  <1>2. server' = [v \in Servers |-> server'[v]]  BY DEF IInv
  <1>3. \A v \in Servers : ServerOK(server'[v]) /\ Typed(server'[v].seen)  BY <1>1 DEF IInv
  <1>4. \A v \in Servers : ServerOK(server[v])' /\ Typed(server[v].seen)'
    BY <1>3 DEF ServerOK
  <1> QED  BY <1>2, <1>4 DEF IInv

LEMMA FetchStep ==
  ASSUME IInv, NEW w \in Servers, FetchHead(w)
  PROVE  IInv'
  <1> DEFINE c == [IdleServer EXCEPT !.pc = "signing", !.head = PolicyHead(file), !.seen = file]
  <1>1. server' = [server EXCEPT ![w] = c] /\ UNCHANGED <<file, origin, restores>>
    BY DEF FetchHead
  <1>2. DOMAIN c = ServerFields /\ c.pc = "signing" /\ c.head = PolicyHead(file) /\ c.seen = file
    <2>1. DOMAIN IdleServer = ServerFields  BY IdleOK DEF ServerOK
    <2> QED  BY <2>1 DEF ServerFields
  <1> HIDE DEF c
  <1>3. ServerOK(c) /\ Typed(c.seen)  BY <1>2 DEF ServerOK, IInv
  <1> QED  BY <1>1, <1>3, ServerStep

(* Giving up a submission keeps the invariant.                             *)
LEMMA ToIdle ==
  ASSUME IInv, NEW w \in Servers, server' = [server EXCEPT ![w] = IdleServer],
         UNCHANGED <<file, origin, restores>>
  PROVE  IInv'
  BY IdleOK, ServerStep

LEMMA SubmitStep ==
  ASSUME IInv, NEW w \in Servers, NEW sub \in Submissions, NEW s \in Signers,
         Submit(w, sub[1], sub[2], s)
  PROVE  IInv'
  <1> DEFINE e == SignedEntry(server[w].head, sub[1], s, sub[2])
             old == server[w]
             c == [old EXCEPT !.pc = "validated", !.log = file, !.candidate = Append(file, e)]
  <1>1. /\ server' = [server EXCEPT ![w] = IF ValidTransition(file, e) THEN c ELSE IdleServer]
        /\ UNCHANGED <<file, origin, restores>>
    BY DEF Submit
  <1>2. CASE ~ValidTransition(file, e)  BY <1>1, <1>2, ToIdle
  <1>3. CASE ValidTransition(file, e)
    <2>0. ServerOK(old) /\ Typed(old.seen)  BY DEF IInv
    <2>1. /\ e.seq = old.head.length /\ e.prev = old.head.tip /\ e.change = sub[1]
      BY DEF SignedEntry
    <2> HIDE DEF e, old
    <2>2. /\ DOMAIN c = ServerFields /\ c.pc = "validated" /\ c.head = old.head /\ c.seen = old.seen
          /\ c.log = file /\ c.candidate = Append(file, e)
      <3>1. DOMAIN old = ServerFields  BY <2>0 DEF ServerOK
      <3> QED  BY <3>1 DEF ServerFields
    <2> HIDE DEF c
    <2>3. VerifyChain(Append(file, e))  BY <1>3 DEF ValidTransition
    <2>4. IsSeq(file) /\ VerifyChain(file) /\ IsPrefixOf(origin, file)  BY DEF IInv
    <2>5. EntryVerifies(file, e)  BY <2>3, <2>4, EntryCarriesHead
    <2>6. old.seen = file
      <3>1. IsSeq(old.seen) /\ VerifyChain(old.seen) /\ old.head = PolicyHead(old.seen)
        BY <2>0 DEF ServerOK
      <3>2. PolicyHead(old.seen) = PolicyHead(file)
        BY <2>1, <2>5, <3>1 DEF EntryVerifies, PolicyHead
      <3> QED  BY <2>4, <3>1, <3>2, SameHead
    <2>7. TypedChange(e.change)  BY <2>1, ConsoleAssumption
    <2>8. ServerOK(c)  BY <1>3, <2>0, <2>2, <2>3, <2>4, <2>6, <2>7 DEF ServerOK
    <2>9. Typed(c.seen)  BY <2>0, <2>2
    <2>10. server' = [server EXCEPT ![w] = c]  BY <1>1, <1>3
    <2> QED  BY <1>1, <2>8, <2>9, <2>10, ServerStep
  <1> QED  BY <1>2, <1>3

LEMMA RecheckStep ==
  ASSUME IInv, NEW w \in Servers, Recheck(w)
  PROVE  IInv'
  <1> DEFINE old == server[w]
             c == [old EXCEPT !.pc = "checked", !.checked = file]
  <1>1. /\ server' = [server EXCEPT ![w] = IF HeadUnchanged(w) THEN c ELSE IdleServer]
        /\ old.pc = "validated" /\ UNCHANGED <<file, origin, restores>>
    BY DEF Recheck
  <1>2. CASE ~HeadUnchanged(w)  BY <1>1, <1>2, ToIdle
  <1>3. CASE HeadUnchanged(w)
    <2>0. ServerOK(old) /\ Typed(old.seen)  BY DEF IInv
    <2>1. PolicyHead(file) = PolicyHead(old.log)  BY <1>3 DEF HeadUnchanged
    <2> HIDE DEF old
    <2>2. /\ DOMAIN c = ServerFields /\ c.pc = "checked" /\ c.head = old.head /\ c.seen = old.seen
          /\ c.log = old.log /\ c.candidate = old.candidate /\ c.checked = file
      <3>1. DOMAIN old = ServerFields  BY <2>0 DEF ServerOK
      <3> QED  BY <3>1 DEF ServerFields
    <2> HIDE DEF c
    <2>3. IsSeq(old.log) /\ VerifyChain(old.log) /\ old.log = old.seen
      BY <1>1, <2>0 DEF ServerOK
    <2>4. IsSeq(file) /\ VerifyChain(file)  BY DEF IInv
    <2>5. file = old.log  BY <2>1, <2>3, <2>4, SameHead
    <2>6. ServerOK(c)  BY <1>1, <2>0, <2>2, <2>5 DEF ServerOK
    <2>7. Typed(c.seen)  BY <2>0, <2>2
    <2>8. server' = [server EXCEPT ![w] = c]  BY <1>1, <1>3
    <2> QED  BY <1>1, <2>6, <2>7, <2>8, ServerStep
  <1> QED  BY <1>2, <1>3

(* A typed change keeps the log typed.                                     *)
LEMMA TypedAppend ==
  ASSUME NEW log, IsSeq(log), NEW e, Typed(log), TypedChange(e.change)
  PROVE  Typed(Append(log, e))
  <1> DEFINE post == Append(log, e)
  <1>1. Len(log) \in Nat  BY IsSeqLen
  <1>2. /\ Len(post) = Len(log) + 1 /\ \A k \in 1..Len(log) : post[k] = log[k]
        /\ post[Len(log) + 1] = e
    BY AppendFacts
  <1> HIDE DEF post
  <1>3. ASSUME NEW k \in 1..Len(post)  PROVE TypedChange(post[k].change)
    <2>1. CASE k = Len(log) + 1  BY <1>2, <2>1
    <2>2. CASE k # Len(log) + 1
      <3>1. k \in 1..Len(log)  BY <1>1, <1>2, <2>2
      <3> QED  BY <1>2, <3>1 DEF Typed
    <2> QED  BY <2>1, <2>2
  <1> QED  BY <1>3 DEF Typed, post

LEMMA SaveStep ==
  ASSUME IInv, NEW w \in Servers, Save(w)
  PROVE  IInv'
  <1> DEFINE old == server[w]
  <1>1. /\ old.pc = "checked" /\ file' = old.candidate
        /\ server' = [server EXCEPT ![w] = IdleServer] /\ UNCHANGED <<origin, restores>>
    BY DEF Save
  <1>2. ServerOK(old) /\ Typed(old.seen)  BY DEF IInv
  <1> HIDE DEF old
  <1>3. IsSeq(old.log) /\ Typed(old.log) /\ IsPrefixOf(origin, old.log)
    BY <1>1, <1>2 DEF ServerOK
  <1>4. PICK e : /\ old.candidate = Append(old.log, e) /\ VerifyChain(old.candidate)
                 /\ TypedChange(e.change)
    BY <1>1, <1>2 DEF ServerOK
  <1>5. IsSeq(file') /\ VerifyChain(file')  BY <1>1, <1>3, <1>4, AppendFacts
  <1>6. Typed(file')  BY <1>1, <1>3, <1>4, TypedAppend
  <1>7. IsPrefixOf(origin, file')
    <2>1. IsSeq(origin)  BY DEF IInv
    <2> QED  BY <1>1, <1>3, <1>4, <2>1, ExtendsTransitive
  <1>8. \A v \in Servers : server'[v] = IF v = w THEN IdleServer ELSE server[v]
    BY <1>1 DEF IInv
  <1>9. \A v \in Servers : ServerOK(server'[v]) /\ Typed(server'[v].seen)
    BY <1>8, IdleOK DEF IInv
  <1>10. \A v \in Servers : ServerOK(server[v])' /\ Typed(server[v].seen)'
    BY <1>1, <1>9 DEF ServerOK
  <1>11. server' = [v \in Servers |-> server'[v]]  BY <1>1 DEF IInv
  <1>12. UNCHANGED <<origin, restores>>  BY <1>1
  <1> QED  BY <1>5, <1>6, <1>7, <1>10, <1>11, <1>12 DEF IInv, Typed

LEMMA RestoreStep ==
  ASSUME IInv, Restore
  PROVE  IInv'
  <1>0. /\ IsSeq(file) /\ VerifyChain(file) /\ Typed(file) /\ Len(file) \in Nat
        /\ IsSeq(origin) /\ Len(origin) \in Nat /\ IsPrefixOf(origin, file)
        /\ restores \in Nat /\ MaxRestores \in Nat
    BY IsSeqLen, ConsoleAssumption DEF IInv
  <1>1. PICK n \in Len(origin)..(Len(file) - 1) : file' = SubSeq(file, 1, n)
    BY DEF Restore
  <1>2. n \in Nat /\ n <= Len(file) /\ Len(origin) <= n  BY <1>0
  <1>3. IsSeq(file') /\ Len(file') = n /\ \A k \in 1..n : file'[k] = file[k]
    BY <1>0, <1>1, <1>2, PrefixFacts
  <1>4. VerifyChain(file')  BY <1>0, <1>1, <1>2, PrefixVerifies
  <1>5. Typed(file')
    <2>1. \A k \in 1..n : k \in 1..Len(file)  BY <1>0, <1>2
    <2> QED  BY <1>0, <1>3, <2>1 DEF Typed
  <1>6. IsPrefixOf(origin, file')
    <2>1. SubSeq(file, 1, Len(origin)) = origin  BY <1>0 DEF IsPrefixOf
    <2>2. SubSeq(file', 1, Len(origin)) = origin  BY <1>0, <1>1, <1>2, <2>1, PrefixOfPrefix
    <2> QED  BY <1>2, <1>3, <2>2 DEF IsPrefixOf
  <1>7. UNCHANGED <<server, origin>> /\ restores' \in 0..MaxRestores  BY <1>0 DEF Restore
  <1>8. \A v \in Servers : ServerOK(server[v])' /\ Typed(server[v].seen)'
    BY <1>7 DEF IInv, ServerOK
  <1> QED  BY <1>3, <1>4, <1>5, <1>6, <1>7, <1>8 DEF IInv, Typed

LEMMA StepIInv ==
  ASSUME IInv, [Next]_vars
  PROVE  IInv'
  <1>1. CASE UNCHANGED vars
    <2>1. \A v \in Servers : ServerOK(server[v])' /\ Typed(server[v].seen)'
      BY <1>1 DEF vars, IInv, ServerOK
    <2> QED  BY <1>1, <2>1 DEF vars, IInv, Typed
  <1>2. ASSUME NEW w \in Servers, GiveUp(w)  PROVE IInv'  BY <1>2, ToIdle DEF GiveUp
  <1> QED  BY <1>1, <1>2, FetchStep, SubmitStep, RecheckStep, SaveStep, RestoreStep DEF Next

THEOREM Inductive == Spec => []IInv
  <1>1. Init => IInv  BY InitIInv
  <1>2. IInv /\ [Next]_vars => IInv'  BY StepIInv
  <1> QED  BY <1>1, <1>2, PTL DEF Spec

LEMMA Types == IInv => TypeOK
  <1> SUFFICES ASSUME IInv  PROVE TypeOK  OBVIOUS
  <1>1. ASSUME NEW w \in Servers, server[w].pc \in {"validated", "checked"}
        PROVE  /\ IsPrefixOf(server[w].log, server[w].candidate)
               /\ server[w].head = PolicyHead(server[w].log)
    <2> DEFINE c == server[w]
    <2>1. ServerOK(c)  BY DEF IInv
    <2> HIDE DEF c
    <2>2. IsSeq(c.log) /\ c.log = c.seen /\ c.head = PolicyHead(c.log)
            /\ \E e : c.candidate = Append(c.log, e)
      BY <1>1, <2>1 DEF ServerOK, c
    <2> QED  BY <2>2, AppendExtends DEF c
  <1>2. \A w \in Servers : server[w].pc \in {"idle", "signing", "validated", "checked"}
    BY DEF IInv, ServerOK
  <1> QED  BY <1>1, <1>2 DEF IInv, TypeOK

(* The policy file always holds a log that verifies, extending the one the *)
(* console started from, and so would every save that is under way.        *)
THEOREM TypeCorrect == Spec => []TypeOK
  BY Inductive, Types, PTL

-----------------------------------------------------------------------------
(* Changes that were there when heads were compared                        *)

CheckedStep ==
  \A w \in Servers :
    server[w].pc = "checked" /\ file' # file /\ file' = server[w].candidate
    => /\ IsPrefixOf(server[w].checked, file')
       /\ Len(file') = Len(server[w].seen) + 1 /\ IsPrefixOf(server[w].seen, file')

LEMMA StepChecked == IInv => CheckedStep
  <1> SUFFICES ASSUME IInv, NEW w \in Servers, server[w].pc = "checked",
                      file' = server[w].candidate
               PROVE  /\ IsPrefixOf(server[w].checked, file')
                      /\ Len(file') = Len(server[w].seen) + 1
                      /\ IsPrefixOf(server[w].seen, file')
    BY DEF CheckedStep
  <1> DEFINE c == server[w]
  <1>1. ServerOK(c)  BY DEF IInv
  <1> HIDE DEF c
  <1>2. IsSeq(c.log) /\ c.log = c.seen /\ c.checked = c.log /\ \E e : c.candidate = Append(c.log, e)
    BY <1>1 DEF ServerOK, c
  <1>3. PICK e : c.candidate = Append(c.log, e)  BY <1>2
  <1>4. IsPrefixOf(c.log, Append(c.log, e)) /\ Len(Append(c.log, e)) = Len(c.log) + 1
    BY <1>2, AppendExtends, AppendFacts
  <1> QED  BY <1>2, <1>3, <1>4 DEF c

(* No change is lost behind the console's back: a save extends the file as *)
(* it was when heads were compared, by one entry, and that entry follows   *)
(* the log its admin saw.                                                  *)
THEOREM ChangesKept == Spec => CheckedChangesKept
  <1>1. IInv /\ [Next]_vars => [CheckedStep]_vars  BY StepChecked
  <1> QED  BY <1>1, Inductive, PTL DEF Spec, CheckedChangesKept, CheckedStep

-----------------------------------------------------------------------------
(* What one more entry does to the state a log folds to                    *)

(* What one entry does to a set of live changes: it may set its own        *)
(* change, or remove, and leaves the other kinds alone.                    *)
LEMMA StateOfAppend ==
  ASSUME NEW log, IsSeq(log), NEW e, NEW set, NEW remove
  PROVE  /\ State(Append(log, e), set, remove) \subseteq State(log, set, remove) \cup {e.change}
         /\ \A x \in State(Append(log, e), set, remove) : x.kind = set
         /\ e.change.kind = set => e.change \in State(Append(log, e), set, remove)
         /\ e.change.kind \notin {set, remove} =>
              State(log, set, remove) \subseteq State(Append(log, e), set, remove)
  <1> DEFINE post == Append(log, e)
             L    == Len(log)
  <1>1. L \in Nat /\ Len(post) = L + 1 /\ (\A k \in 1..L : post[k] = log[k]) /\ post[L + 1] = e
    BY IsSeqLen, AppendFacts
  <1> HIDE DEF post
  <1>2. ASSUME NEW k \in Live(post, set, remove)  PROVE k = L + 1 \/ k \in Live(log, set, remove)
    <2> SUFFICES ASSUME k # L + 1  PROVE k \in Live(log, set, remove)  OBVIOUS
    <2> HIDE DEF L
    <2>1. k \in 1..L /\ \A n \in (k + 1)..L : n \in 1..L /\ n \in (k + 1)..(L + 1)
      BY <1>1 DEF Live
    <2>2. /\ post[k].change.kind = set
          /\ \A n \in (k + 1)..(L + 1) :
               ~(post[n].change.kind \in {set, remove} /\ post[n].change.id = post[k].change.id)
      BY <1>1 DEF Live
    <2>3. /\ log[k].change.kind = set
          /\ \A n \in (k + 1)..L :
               ~(log[n].change.kind \in {set, remove} /\ log[n].change.id = log[k].change.id)
      BY <1>1, <2>1, <2>2
    <2> QED  BY <2>1, <2>3 DEF Live, L
  <1>3. ASSUME NEW x \in State(post, set, remove)  PROVE x \in State(log, set, remove) \cup {e.change}
    <2>1. PICK k \in Live(post, set, remove) : x = post[k].change  BY DEF State
    <2>2. CASE k = L + 1  BY <1>1, <2>1, <2>2
    <2>3. CASE k # L + 1
      <3>1. k \in Live(log, set, remove)  BY <1>2, <2>3
      <3>2. post[k] = log[k]  BY <1>1, <3>1 DEF Live
      <3> QED  BY <2>1, <3>1, <3>2 DEF State
    <2> QED  BY <2>2, <2>3
  <1>4. ASSUME e.change.kind = set  PROVE e.change \in State(post, set, remove)
    <2> HIDE DEF L
    <2>1. L + 1 \in 1..(L + 1) /\ (L + 1 + 1)..(L + 1) = {}  BY <1>1
    <2>2. L + 1 \in Live(post, set, remove)  BY <1>1, <1>4, <2>1 DEF Live
    <2> QED  BY <1>1, <2>2 DEF State
  <1>5. ASSUME e.change.kind \notin {set, remove}, NEW x \in State(log, set, remove)
        PROVE  x \in State(post, set, remove)
    <2>1. PICK k \in Live(log, set, remove) : x = log[k].change  BY DEF State
    <2> HIDE DEF L
    <2>2. k \in 1..L /\ k \in 1..(L + 1)  BY <1>1 DEF Live, L
    <2>3. /\ log[k].change.kind = set
          /\ \A n \in (k + 1)..L :
               ~(log[n].change.kind \in {set, remove} /\ log[n].change.id = log[k].change.id)
      BY DEF Live, L
    <2>4. ASSUME NEW n \in (k + 1)..(L + 1)
          PROVE  ~(post[n].change.kind \in {set, remove} /\ post[n].change.id = post[k].change.id)
      <3>1. CASE n = L + 1  BY <1>1, <1>5, <3>1
      <3>2. CASE n # L + 1
        <4>1. n \in (k + 1)..L /\ n \in 1..L  BY <1>1, <2>2, <3>2
        <4> QED  BY <1>1, <2>2, <2>3, <4>1
      <3> QED  BY <3>1, <3>2
    <2>5. k \in Live(post, set, remove)  BY <1>1, <2>2, <2>3, <2>4 DEF Live
    <2> QED  BY <1>1, <2>1, <2>2, <2>5 DEF State
  <1>6. \A x \in State(post, set, remove) : x.kind = set  BY DEF State, Live
  <1> QED  BY <1>3, <1>4, <1>5, <1>6 DEF post

LEMMA EmptyState ==
  ASSUME NEW set, NEW remove
  PROVE  State(<<>>, set, remove) = {}
  <1>1. Len(<<>>) = 0  BY EmptyFacts
  <1> QED  BY <1>1 DEF State, Live

-----------------------------------------------------------------------------
(* The console keeps the policy usable                                     *)

(* A valid transition of an empty or usable log makes a usable one. *)
LEMMA UsableAfter ==
  ASSUME NEW log, IsSeq(log), log = <<>> \/ Usable(log), NEW e, ValidTransition(log, e)
  PROVE  Usable(Append(log, e))
  <1> DEFINE post == Append(log, e)
             c    == e.change
  <1>0. /\ VerifyChain(post) /\ Foldable(post) /\ c.org \in Strings
        /\ c.kind \in {"admin-add", "role-set", "rule-set"} => c.safe
        /\ c.kind = "admin-add" => c.id \in Canonical
        /\ RolesExist(post)
        /\ c.kind = "admin-revoke" => HasUsableAdmin(post)
    BY DEF ValidTransition
  <1>1. log = <<>> => c.kind = "admin-add"
    <2>1. EntryVerifies(log, e)  BY <1>0, EntryCarriesHead
    <2> QED  BY <2>1 DEF EntryVerifies
  <1>2. /\ Len(log) \in Nat /\ (log # <<>> <=> Len(log) > 0)
        /\ Len(post) = Len(log) + 1 /\ (\A k \in 1..Len(log) : post[k] = log[k])
        /\ post[Len(log) + 1] = e
    BY IsSeqLen, AppendFacts
  <1>3. /\ Admins(post) \subseteq Admins(log) \cup {c}
        /\ Roles(post) \subseteq Roles(log) \cup {c}
        /\ Rules(post) \subseteq Rules(log) \cup {c}
        /\ \A d \in Admins(post) \cup Roles(post) \cup Rules(post) :
             d.kind \in {"admin-add", "role-set", "rule-set"}
        /\ c.kind = "admin-add" => c \in Admins(post)
        /\ c.kind \notin {"admin-add", "admin-revoke"} => Admins(log) \subseteq Admins(post)
    BY StateOfAppend DEF Admins, Roles, Rules
  <1>4. log = <<>> => Admins(log) = {} /\ Roles(log) = {} /\ Rules(log) = {}
    BY EmptyState DEF Admins, Roles, Rules
  <1> HIDE DEF post, c
  <1>5. \A d \in Admins(post) \cup Roles(post) \cup Rules(post) : d.safe
    <2>1. \A d \in Admins(log) \cup Roles(log) \cup Rules(log) : d.safe
      BY <1>4 DEF Usable, RenderSafe
    <2> QED  BY <1>0, <1>3, <2>1
  <1>6. post[1].change.org \in Strings
    <2>1. CASE log = <<>>
      <3>1. post[1] = e  BY <1>2, <2>1
      <3> QED  BY <1>0, <3>1 DEF c
    <2>2. CASE log # <<>>
      <3>1. 1 \in 1..Len(log)  BY <1>2, <2>2
      <3>2. post[1] = log[1]  BY <1>2, <3>1
      <3> QED  BY <2>2, <3>2 DEF Usable, RenderSafe
    <2> QED  BY <2>1, <2>2
  <1>7. HasUsableAdmin(post)
    <2>1. CASE c.kind = "admin-revoke"  BY <1>0, <2>1
    <2>2. CASE c.kind = "admin-add"
      <3>1. c.id \in AdminKeys(post) \cap Canonical  BY <1>0, <1>3, <2>2 DEF AdminKeys
      <3> QED  BY <3>1 DEF HasUsableAdmin
    <2>3. CASE c.kind \notin {"admin-add", "admin-revoke"}
      <3>1. HasUsableAdmin(log)  BY <1>1, <2>3 DEF Usable
      <3>2. PICK a \in Admins(log) : a.id \in Canonical  BY <3>1 DEF HasUsableAdmin, AdminKeys
      <3>3. a \in Admins(post)  BY <1>3, <2>3
      <3> QED  BY <3>2, <3>3 DEF HasUsableAdmin, AdminKeys
    <2> QED  BY <2>1, <2>2, <2>3
  <1> QED  BY <1>0, <1>5, <1>6, <1>7 DEF Usable, RenderSafe, post

(* From where the console started on, a log was usable all along. *)
AllAlong(log) ==
  \A n \in Len(origin)..Len(log) : SubSeq(log, 1, n) = <<>> \/ Usable(SubSeq(log, 1, n))

UsableInv ==
  origin = <<>> \/ Usable(origin) =>
    /\ AllAlong(file)
    /\ \A w \in Servers : server[w].pc \in {"validated", "checked"} => AllAlong(server[w].log)

(* A log usable all along is usable as it stands.                          *)
LEMMA AllAlongEnd ==
  ASSUME NEW log, IsSeq(log), IsSeq(origin), IsPrefixOf(origin, log), AllAlong(log)
  PROVE  log = <<>> \/ Usable(log)
  <1>1. Len(log) \in Nat /\ Len(origin) \in Nat /\ Len(origin) <= Len(log)
    BY IsSeqLen DEF IsPrefixOf
  <1>2. Len(log) \in Len(origin)..Len(log)  BY <1>1
  <1>3. SubSeq(log, 1, Len(log)) = log  BY WholePrefix
  <1> QED  BY <1>2, <1>3 DEF AllAlong

(* A valid transition keeps a log usable all along.                        *)
LEMMA AllAlongAppend ==
  ASSUME NEW log, IsSeq(log), IsSeq(origin), IsPrefixOf(origin, log), AllAlong(log),
         NEW e, ValidTransition(log, e)
  PROVE  AllAlong(Append(log, e))
  <1> DEFINE post == Append(log, e)
  <1>1. Len(log) \in Nat /\ Len(origin) \in Nat /\ Len(post) = Len(log) + 1 /\ IsSeq(post)
    BY IsSeqLen, AppendFacts
  <1>2. Usable(post)  BY AllAlongEnd, UsableAfter
  <1>3. \A n \in Nat : n <= Len(log) => SubSeq(post, 1, n) = SubSeq(log, 1, n)
    BY PrefixOfAppend
  <1>4. SubSeq(post, 1, Len(post)) = post  BY <1>1, WholePrefix
  <1> HIDE DEF post
  <1>5. ASSUME NEW n \in Len(origin)..Len(post)
        PROVE  SubSeq(post, 1, n) = <<>> \/ Usable(SubSeq(post, 1, n))
    <2>1. CASE n = Len(post)  BY <1>2, <1>4, <2>1
    <2>2. CASE n # Len(post)
      <3>1. n \in Nat /\ n <= Len(log) /\ n \in Len(origin)..Len(log)  BY <1>1, <2>2
      <3> QED  BY <1>3, <3>1 DEF AllAlong
    <2> QED  BY <2>1, <2>2
  <1> QED  BY <1>5 DEF AllAlong, post

LEMMA InitUsable == Init => UsableInv
  <1> SUFFICES ASSUME Init, origin = <<>> \/ Usable(origin)
               PROVE  AllAlong(file) /\ \A w \in Servers : server[w].pc = "idle"
    BY DEF UsableInv
  <1>1. file = origin /\ server = [w \in Servers |-> IdleServer] /\ file \in Seeds  BY DEF Init
  <1>2. IsSeq(origin)  BY <1>1, SeedsVerify
  <1>3. Len(origin) \in Nat /\ SubSeq(origin, 1, Len(origin)) = origin
    BY <1>2, IsSeqLen, WholePrefix
  <1>4. \A m \in Nat : \A n \in m..m : n = m  OBVIOUS
  <1>5. AllAlong(file)  BY <1>1, <1>3, <1>4 DEF AllAlong
  <1>6. \A w \in Servers : server[w].pc = "idle"  BY <1>1 DEF IdleServer
  <1> QED  BY <1>5, <1>6

(* No submission, save or restore puts an unusable log into the file: what *)
(* is saved was validated against the very log it extends, and a backup of *)
(* the console's own is a prefix of it.                                    *)
LEMMA StepUsable ==
  ASSUME IInv, UsableInv, [Next]_vars
  PROVE  UsableInv'
  <1>0. UNCHANGED origin  BY DEF Next, vars, FetchHead, Submit, Recheck, Save, GiveUp, Restore
  <1> SUFFICES ASSUME origin = <<>> \/ Usable(origin)
               PROVE  /\ AllAlong(file')
                      /\ \A w \in Servers :
                           server'[w].pc \in {"validated", "checked"} => AllAlong(server'[w].log)
    BY <1>0 DEF UsableInv, AllAlong
  <1>1. /\ AllAlong(file) /\ IsSeq(file) /\ IsSeq(origin) /\ IsPrefixOf(origin, file)
        /\ \A w \in Servers : server[w].pc \in {"validated", "checked"} => AllAlong(server[w].log)
        /\ \A w \in Servers : ServerOK(server[w]) /\ server = [v \in Servers |-> server[v]]
    BY DEF UsableInv, IInv
  <1> DEFINE Held(c) == c.pc \in {"validated", "checked"} => AllAlong(c.log)
  <1>2. \A w \in Servers : Held(server[w])  BY <1>1
  <1>3. Held(IdleServer)  BY DEF IdleServer
  <1>4. ASSUME NEW w \in Servers, NEW c, server' = [server EXCEPT ![w] = c], Held(c)
        PROVE  \A v \in Servers : Held(server'[v])
    <2> HIDE DEF Held
    <2>1. \A v \in Servers : server'[v] = IF v = w THEN c ELSE server[v]  BY <1>1, <1>4
    <2> QED  BY <1>2, <1>4, <2>1
  <1>5. ASSUME NEW w \in Servers, FetchHead(w)  PROVE AllAlong(file') /\ \A v \in Servers : Held(server'[v])
    <2> DEFINE c == [IdleServer EXCEPT !.pc = "signing", !.head = PolicyHead(file), !.seen = file]
    <2>1. server' = [server EXCEPT ![w] = c] /\ file' = file  BY <1>5 DEF FetchHead
    <2>2. c.pc = "signing"
      <3>1. DOMAIN IdleServer = ServerFields  BY IdleOK DEF ServerOK
      <3> QED  BY <3>1 DEF ServerFields
    <2> HIDE DEF c
    <2>3. Held(c)  BY <2>2
    <2> HIDE DEF Held
    <2> QED  BY <1>1, <1>4, <2>1, <2>3
  <1>6. ASSUME NEW w \in Servers, NEW sub \in Submissions, NEW s \in Signers,
               Submit(w, sub[1], sub[2], s)
        PROVE  AllAlong(file') /\ \A v \in Servers : Held(server'[v])
    <2> DEFINE e == SignedEntry(server[w].head, sub[1], s, sub[2])
               new == [server[w] EXCEPT !.pc = "validated", !.log = file,
                                        !.candidate = Append(file, e)]
               c == IF ValidTransition(file, e) THEN new ELSE IdleServer
    <2>1. server' = [server EXCEPT ![w] = c] /\ file' = file  BY <1>6 DEF Submit
    <2> HIDE DEF e
    <2>2. new.log = file
      <3>1. DOMAIN server[w] = ServerFields  BY <1>1 DEF ServerOK
      <3> QED  BY <3>1 DEF ServerFields
    <2> HIDE DEF new
    <2>3. Held(new)  BY <1>1, <2>2
    <2>4. Held(c)
      <3> HIDE DEF Held
      <3> QED  BY <1>3, <2>3
    <2> HIDE DEF Held, c
    <2> QED  BY <1>1, <1>4, <2>1, <2>4
  <1>7. ASSUME NEW w \in Servers, Recheck(w)  PROVE AllAlong(file') /\ \A v \in Servers : Held(server'[v])
    <2> DEFINE new == [server[w] EXCEPT !.pc = "checked", !.checked = file]
               c == IF HeadUnchanged(w) THEN new ELSE IdleServer
    <2>1. server' = [server EXCEPT ![w] = c] /\ file' = file /\ server[w].pc = "validated"
      BY <1>7 DEF Recheck
    <2>2. new.log = server[w].log
      <3>1. DOMAIN server[w] = ServerFields  BY <1>1 DEF ServerOK
      <3> QED  BY <3>1 DEF ServerFields
    <2> HIDE DEF new
    <2>3. Held(new)  BY <1>1, <2>1, <2>2
    <2>4. Held(c)
      <3> HIDE DEF Held
      <3> QED  BY <1>3, <2>3
    <2> HIDE DEF Held, c
    <2> QED  BY <1>1, <1>4, <2>1, <2>4
  <1>8. ASSUME NEW w \in Servers, Save(w)  PROVE AllAlong(file') /\ \A v \in Servers : Held(server'[v])
    <2>1. /\ server' = [server EXCEPT ![w] = IdleServer] /\ file' = server[w].candidate
          /\ server[w].pc = "checked"
      BY <1>8 DEF Save
    <2> DEFINE c == server[w]
    <2>2. ServerOK(c) /\ AllAlong(c.log)  BY <1>1, <2>1
    <2>3. Typed(c.seen) /\ IsSeq(c.log) /\ IsPrefixOf(origin, c.log)
            /\ \E e : c.candidate = Append(c.log, e) /\ ValidTransition(c.log, e)
      <3> HIDE DEF c
      <3>1. c.pc = "checked" /\ Typed(c.seen)  BY <2>1 DEF c, IInv
      <3> QED  BY <2>2, <3>1 DEF ServerOK
    <2> HIDE DEF c
    <2>4. PICK e : c.candidate = Append(c.log, e) /\ ValidTransition(c.log, e)  BY <2>3
    <2>5. AllAlong(Append(c.log, e))  BY <1>1, <2>2, <2>3, <2>4, AllAlongAppend
    <2>6. AllAlong(file')  BY <2>1, <2>4, <2>5 DEF c
    <2> HIDE DEF Held
    <2> QED  BY <1>3, <1>4, <2>1, <2>6
  <1>9. ASSUME NEW w \in Servers, GiveUp(w)  PROVE AllAlong(file') /\ \A v \in Servers : Held(server'[v])
    <2>1. server' = [server EXCEPT ![w] = IdleServer] /\ file' = file  BY <1>9 DEF GiveUp
    <2> HIDE DEF Held
    <2> QED  BY <1>1, <1>3, <1>4, <2>1
  <1>10. ASSUME Restore  PROVE AllAlong(file') /\ \A v \in Servers : Held(server'[v])
    <2>0. Len(file) \in Nat /\ Len(origin) \in Nat  BY <1>1, IsSeqLen
    <2>1. PICK n \in Len(origin)..(Len(file) - 1) : file' = SubSeq(file, 1, n)
      BY <1>10 DEF Restore
    <2>2. n \in Nat /\ n <= Len(file)  BY <2>0
    <2>3. Len(file') = n  BY <1>1, <2>1, <2>2, PrefixFacts
    <2>4. ASSUME NEW m \in Len(origin)..Len(file')
          PROVE  SubSeq(file', 1, m) = <<>> \/ Usable(SubSeq(file', 1, m))
      <3>1. m \in Nat /\ m <= n /\ m \in Len(origin)..Len(file)  BY <2>0, <2>2, <2>3
      <3>2. SubSeq(file', 1, m) = SubSeq(file, 1, m)  BY <1>1, <2>1, <2>2, <3>1, PrefixOfPrefix
      <3> QED  BY <1>1, <3>1, <3>2 DEF AllAlong
    <2>5. AllAlong(file')  BY <2>4 DEF AllAlong
    <2>6. server' = server  BY <1>10 DEF Restore
    <2> HIDE DEF Held
    <2> QED  BY <1>2, <2>5, <2>6
  <1>11. ASSUME UNCHANGED vars  PROVE AllAlong(file') /\ \A v \in Servers : Held(server'[v])
    <2>1. server' = server /\ file' = file  BY <1>11 DEF vars
    <2> HIDE DEF Held
    <2> QED  BY <1>1, <1>2, <2>1
  <1> DEFINE Kept == AllAlong(file') /\ \A v \in Servers : Held(server'[v])
  <1>12. Kept
    <2> HIDE DEF Held
    <2>1. ASSUME NEW w \in Servers,
                 \E sub \in Submissions, s \in Signers : Submit(w, sub[1], sub[2], s)
          PROVE  Kept
      <3>1. PICK sub \in Submissions, s \in Signers : Submit(w, sub[1], sub[2], s)  BY <2>1
      <3> QED  BY <3>1, <1>6
    <2>2. ASSUME NEW w \in Servers, FetchHead(w) \/ Recheck(w) \/ Save(w) \/ GiveUp(w)
          PROVE  Kept
      BY <2>2, <1>5, <1>7, <1>8, <1>9
    <2>3. CASE Restore  BY <2>3, <1>10
    <2>4. CASE UNCHANGED vars  BY <2>4, <1>11
    <2> HIDE DEF Kept
    <2> QED  BY <2>1, <2>2, <2>3, <2>4 DEF Next
  <1> QED  BY <1>12

(* Whatever valid changes admins submit, concurrently and from any state   *)
(* they saw, and whatever backup of the console's own is restored, a       *)
(* usable policy stays one its pages show, whose rules have their roles,   *)
(* and that some admin can administer.                                     *)
THEOREM PolicyUsable == Spec => []ConsoleKeepsPolicyUsable
  <1>1. Init => UsableInv  BY InitUsable
  <1>2. IInv /\ UsableInv /\ [Next]_vars => UsableInv'  BY StepUsable
  <1>3. IInv /\ UsableInv => ConsoleKeepsPolicyUsable
    BY AllAlongEnd DEF IInv, UsableInv, ConsoleKeepsPolicyUsable
  <1> QED  BY <1>1, <1>2, <1>3, Inductive, PTL DEF Spec

-----------------------------------------------------------------------------
(* The rules of a usable policy are good for an Intent                     *)

IsEntering(log, id, k) ==
  /\ log[k].change.kind = "rule-set" /\ log[k].change.id = id
  /\ \A n \in 1..Len(log) :
       /\ log[n].change.id = id
       => /\ log[n].change.kind = "rule-delete" => n < k
          /\ log[n].change.kind = "rule-set" /\ n < k =>
               \E d \in n..k : log[d].change.kind = "rule-delete" /\ log[d].change.id = id

(* A rule of the state entered it somewhere: at the first of its sets that *)
(* no delete follows.                                                      *)
LEMMA RuleEntered ==
  ASSUME NEW log, IsSeq(log), NEW r \in Rules(log)
  PROVE  EnteredAt(log, r.id) \in 1..Len(log)
  <1> DEFINE L == Len(log)
             id == r.id
             Sets == {k \in 1..L : log[k].change.kind = "rule-set" /\ log[k].change.id = id}
             Deletes == {k \in 1..L : log[k].change.kind = "rule-delete" /\ log[k].change.id = id}
             T == {k \in Sets : \A n \in Deletes : n < k}
  <1>0. L \in Nat  BY IsSeqLen
  <1>1. PICK k \in Live(log, "rule-set", "rule-delete") : r = log[k].change
    BY DEF Rules, State
  <1>2. /\ k \in 1..L /\ log[k].change.kind = "rule-set" /\ log[k].change.id = id
        /\ \A n \in (k + 1)..L : n \notin Deletes
    BY <1>1 DEF Live
  <1> HIDE DEF L, id
  <1>3. k \in T
    <2>1. ASSUME NEW n \in Deletes  PROVE n < k
      <3>1. n \in 1..L /\ n # k  BY <1>2
      <3>2. n \notin (k + 1)..L  BY <1>2
      <3> QED  BY <1>0, <1>2, <3>1, <3>2
    <2> QED  BY <1>2, <2>1
  <1>4. PICK f \in T : \A m \in T : f <= m
    <2>1. T \subseteq Nat /\ T # {}  BY <1>0, <1>3
    <2> HIDE DEF T
    <2> QED  BY <2>1, LeastElement
  <1>5. ASSUME NEW n \in Sets, n < f
        PROVE  \E d \in n..f : d \in Deletes
    <2>1. n \in Nat /\ f \in Nat  BY <1>0
    <2>2. n \notin T  BY <1>4, <1>5, <2>1
    <2>3. PICK d \in Deletes : ~(d < n)  BY <1>5, <2>2
    <2>4. d < f /\ d \in Nat  BY <1>4
    <2> QED  BY <2>1, <2>3, <2>4
  <1>6. f \in 1..L /\ IsEntering(log, id, f)
    <2>1. f \in 1..L /\ log[f].change.kind = "rule-set" /\ log[f].change.id = id  OBVIOUS
    <2>2. ASSUME NEW n \in 1..L, log[n].change.id = id, log[n].change.kind = "rule-delete"
          PROVE  n < f
      BY <2>2
    <2>3. ASSUME NEW n \in 1..L, log[n].change.id = id, log[n].change.kind = "rule-set", n < f
          PROVE  \E d \in n..f : log[d].change.kind = "rule-delete" /\ log[d].change.id = id
      <3>1. n \in Sets  BY <2>3
      <3>2. PICK d \in n..f : d \in Deletes  BY <1>5, <2>3, <3>1
      <3> QED  BY <3>2
    <2> HIDE DEF T
    <2> QED  BY <2>1, <2>2, <2>3 DEF IsEntering, L
  <1>7. EnteredAt(log, id) = CHOOSE m \in 1..L : IsEntering(log, id, m)
    BY DEF EnteredAt, IsEntering, L
  <1> QED  BY <1>6, <1>7 DEF id, L

(* getRule finds a rule where there is one of the name. *)
LEMMA RuleFound ==
  ASSUME NEW log, IsSeq(log), NEW org, NEW name, RulesNamed(log, org, name) # {}
  PROVE  RuleNamed(log, org, name) \in RulesNamed(log, org, name)
  <1> DEFINE N == RulesNamed(log, org, name)
             At(r) == EnteredAt(log, r.id)
             V == {At(r) : r \in N}
  <1>1. \A r \in N : At(r) \in Nat
    <2>1. \A r \in N : r \in Rules(log)  BY DEF RulesNamed
    <2>2. \A r \in N : At(r) \in 1..Len(log)  BY <2>1, RuleEntered
    <2> HIDE DEF At, N
    <2> QED  BY <2>2, IsSeqLen
  <1> HIDE DEF At, N
  <1>2. V \subseteq Nat /\ V # {}  BY <1>1 DEF N
  <1>3. PICK v \in V : \A w \in V : v <= w
    <2> HIDE DEF V
    <2> QED  BY <1>2, LeastElement
  <1>4. PICK r \in N : v = At(r)  OBVIOUS
  <1>5. \A s \in N : At(r) <= At(s)  BY <1>3, <1>4
  <1>6. RuleNamed(log, org, name) = CHOOSE x \in N : \A s \in N : At(x) <= At(s)
    BY DEF RuleNamed, N, At
  <1> QED  BY <1>5, <1>6 DEF N

(* What a log that verifies holds of its rules and roles. *)
LEMMA LiveEntries ==
  ASSUME NEW log, IsSeq(log), VerifyChain(log), Typed(log)
  PROVE  /\ \A r \in Rules(log) : ValidRule(r) /\ r.value.quorum \in Nat
         /\ \A r \in Roles(log) : ValidRole(r) /\ r.value \subseteq Spellings
  <1>1. \A k \in 1..Len(log) :
          /\ log[k].change.kind = "rule-set" => ValidRule(log[k].change)
          /\ log[k].change.kind = "role-set" => ValidRole(log[k].change)
    BY DEF VerifyChain, EntryVerifies
  <1>2. \A k \in 1..Len(log) :
          /\ log[k].change.kind = "rule-set" => log[k].change.value.quorum \in Nat
          /\ log[k].change.kind = "role-set" => log[k].change.value \subseteq Spellings
    BY DEF Typed, TypedChange
  <1>3. ASSUME NEW r \in Rules(log)  PROVE ValidRule(r) /\ r.value.quorum \in Nat
    <2>1. PICK k \in 1..Len(log) : log[k].change.kind = "rule-set" /\ r = log[k].change
      BY DEF Rules, State, Live
    <2> QED  BY <1>1, <1>2, <2>1
  <1>4. ASSUME NEW r \in Roles(log)  PROVE ValidRole(r) /\ r.value \subseteq Spellings
    <2>1. PICK k \in 1..Len(log) : log[k].change.kind = "role-set" /\ r = log[k].change
      BY DEF Roles, State, Live
    <2> QED  BY <1>1, <1>2, <2>1
  <1> QED  BY <1>3, <1>4

(* An actor with one enrolled key has the key resolveRule picks.           *)
LEMMA OneKey ==
  ASSUME NEW a \in Actors, Cardinality(Enrolled[a]) = 1
  PROVE  Enrolled[a] = {CHOOSE k \in Keys : k \in Enrolled[a]}
  <1>1. IsFiniteSet(Enrolled[a]) /\ Enrolled[a] \subseteq Keys  BY PolicyLogAssumption
  <1>2. PICK k : Enrolled[a] = {k}  BY <1>1, FS_Singleton
  <1> QED  BY <1>1, <1>2

(* What the core asks of an Intent, spelt out for the fields of a rule.    *)
LEMMA WellFormedFields ==
  ASSUME NEW f, f.approvers \subseteq Actors, f.approvers # {},
         TimeoutActor \notin f.approvers,
         \A a \in f.approvers : Cardinality(Enrolled[a]) = 1,
         \A a, b \in f.approvers : Enrolled[a] = Enrolled[b] => a = b,
         f.quorum \in Nat, f.quorum >= 1, f.quorum <= Cardinality(f.approvers),
         f.default \in {"approve", "reject"}, f.quorum > 1 => f.default = "reject"
  PROVE  AsIntent(f)!WellFormed(f)
  <1> DEFINE Key == [a \in Actors |-> CHOOSE k \in Keys : k \in Enrolled[a]]
  <1>1. \A a \in f.approvers : Enrolled[a] = {Key[a]}  BY OneKey
  <1> HIDE DEF Key
  <1>2. \A a, b \in f.approvers : Key[a] = Key[b] => a = b  BY <1>1
  <1>3. AsIntent(f)!Approvers(f) = f.approvers  BY DEF AsIntent!Approvers
  <1>4. AsIntent(f)!Cardinality(f.approvers) = Cardinality(f.approvers)
    BY DEF AsIntent!Cardinality, Cardinality, IsFiniteSet, AsIntent!IsFiniteSet
  <1> QED  BY <1>2, <1>3, <1>4 DEF AsIntent!WellFormed, AsIntent!Decisions, Key

(* Whatever usable policy is in the file, a rule of it whose people are    *)
(* enrolled and enough resolves, for a request that brings a summary and   *)
(* the action and risk tier the rule leaves open, to fields createIntent   *)
(* accepts, unless two of the people share a key, one has the reserved     *)
(* name, or the request names a tier that does not exist.                  *)
THEOREM RulesMakeIntents == Spec => []UsableRulesMakeIntents
  <1>1. IInv => UsableRulesMakeIntents
    <2> SUFFICES ASSUME IInv, Usable(file), NEW r \in Rules(file), NEW q \in Requests
                 PROVE  LET people == Members(file, RuleNamed(file, r.org, r.value.name))
                            f == IntentFields(file, r.org, r.value.name, q)
                        IN  /\ \A a \in people : Cardinality(Enrolled[a]) = 1
                            /\ Cardinality(people) >= f.quorum
                            /\ Given(f.action) /\ Given(f.tier) /\ Given(f.summary)
                            => /\ Resolves(file, r.org, r.value.name, q)
                               /\ \/ CreatesIntent(f)
                                  \/ TimeoutActor \in people
                                  \/ \E a, b \in people : a # b /\ Enrolled[a] = Enrolled[b]
                                  \/ q.tier \notin Tiers \cup {Unset}
      BY DEF UsableRulesMakeIntents
    <2> DEFINE N == RulesNamed(file, r.org, r.value.name)
               rule == RuleNamed(file, r.org, r.value.name)
               people == Members(file, rule)
               f == IntentFields(file, r.org, r.value.name, q)
    <2>1. r \in N  BY DEF RulesNamed
    <2>2. IsSeq(file) /\ VerifyChain(file) /\ Typed(file)  BY DEF IInv
    <2>3. rule \in Rules(file) /\ rule.org = r.org
      <3>1. rule \in N  BY <2>1, <2>2, RuleFound
      <3> QED  BY <3>1 DEF RulesNamed
    <2> HIDE DEF rule
    <2>4. ValidRule(rule) /\ rule.value.quorum \in Nat  BY <2>2, <2>3, LiveEntries
    <2>5. \A id \in rule.value.roles : RoleExists(file, r.org, id)
      BY <2>3 DEF Usable, RolesExist
    <2>6. people \subseteq Actors
      <3>1. \A s \in Roles(file) : s.value \subseteq Spellings  BY <2>2, LiveEntries
      <3>2. Norm \in [Spellings -> Actors]  BY PolicyLogAssumption
      <3> HIDE DEF f
      <3> QED  BY <3>1, <3>2 DEF Members
    <2>7. people # {}
      <3>1. PICK id \in rule.value.roles : TRUE  BY <2>4 DEF ValidRule
      <3>2. PICK s \in Roles(file) : s.id = id /\ s.org = r.org  BY <2>5, <3>1 DEF RoleExists
      <3>3. PICK m \in s.value : TRUE  BY <2>2, <3>2, LiveEntries DEF ValidRole
      <3>4. Norm[m] \in people  BY <2>3, <3>1, <3>2, <3>3 DEF Members
      <3> QED  BY <3>4
    <2>8. /\ f.approvers = people /\ f.quorum = rule.value.quorum
          /\ f.default = rule.value.default /\ f.timeout = rule.value.timeout
          /\ f.tier = IF q.tier = Unset THEN rule.value.tier ELSE q.tier
      BY DEF IntentFields, Effective, rule
    <2> SUFFICES ASSUME \A a \in people : Cardinality(Enrolled[a]) = 1,
                        Cardinality(people) >= f.quorum,
                        Given(f.action), Given(f.tier), Given(f.summary)
                 PROVE  /\ Resolves(file, r.org, r.value.name, q)
                        /\ \/ CreatesIntent(f)
                           \/ TimeoutActor \in people
                           \/ \E a, b \in people : a # b /\ Enrolled[a] = Enrolled[b]
                           \/ q.tier \notin Tiers \cup {Unset}
      BY DEF rule
    <2> HIDE DEF people, f
    <2>9. Resolves(file, r.org, r.value.name, q)
      BY <2>1, <2>2, <2>4, <2>5, <2>7, <2>8 DEF Resolves, people, f, rule
    <2>10. ASSUME TimeoutActor \notin people, q.tier \in Tiers \cup {Unset},
                  \A a, b \in people : Enrolled[a] = Enrolled[b] => a = b
           PROVE  CreatesIntent(f)
      <3>1. IsFiniteSet(people) => Cardinality(people) \in Nat  BY FS_CardinalityType
      <3>2. /\ f.quorum \in Nat /\ f.quorum >= 1 /\ f.quorum <= Cardinality(f.approvers)
            /\ f.default \in {"approve", "reject"} /\ (f.quorum > 1 => f.default = "reject")
        BY <2>4, <2>8, <3>1 DEF ValidRule
      <3>3. AsIntent(f)!WellFormed(f)  BY <2>6, <2>7, <2>8, <2>10, <3>2, WellFormedFields
      <3>4. f.timeout \in 1..MaxTimeoutSeconds  BY <2>4, <2>8 DEF ValidRule
      <3>5. f.tier \in Tiers
        <4>1. rule.value.tier \in Tiers \cup {Unset}  BY <2>4 DEF ValidRule
        <4> QED  BY <2>8, <2>10, <4>1 DEF Given
      <3> QED  BY <3>3, <3>4, <3>5 DEF CreatesIntent
    <2> QED  BY <2>9, <2>10
  <1> QED  BY <1>1, Inductive, PTL DEF Spec
=============================================================================
