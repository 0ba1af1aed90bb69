----------------------------- MODULE LogLemmas -----------------------------
(***************************************************************************)
(* Facts about sequences whose elements belong to no set named in advance: *)
(* a log record holds the record before it, so the logs of this project    *)
(* range over no such set.  IsSeq says that a value is a sequence of its   *)
(* own elements; the facts are those of SequenceTheorems restated for it.  *)
(***************************************************************************)
EXTENDS JsonLines, SequenceTheorems, WellFoundedInduction, TLAPS

IsSeq(s) == s \in Seq({s[k] : k \in DOMAIN s})

(* A sequence over any set is a sequence of its own elements.              *)
LEMMA IsSeqIntro ==
  ASSUME NEW S, NEW s \in Seq(S)
  PROVE  IsSeq(s) /\ Len(s) \in Nat /\ DOMAIN s = 1..Len(s)
  <1>1. Len(s) \in Nat /\ DOMAIN s = 1..Len(s) /\ s \in [1..Len(s) -> S]  BY LenProperties
  <1>2. s \in [1..Len(s) -> {s[k] : k \in DOMAIN s}]  BY <1>1
  <1>3. s \in Seq({s[k] : k \in DOMAIN s})  BY <1>1, <1>2, SeqDef
  <1> QED  BY <1>1, <1>3 DEF IsSeq

(* The length and the domain of a sequence.                                *)
LEMMA IsSeqLen ==
  ASSUME NEW s, IsSeq(s)
  PROVE  /\ Len(s) \in Nat /\ DOMAIN s = 1..Len(s)
         /\ s # <<>> <=> Len(s) > 0
  <1> DEFINE S == {s[k] : k \in DOMAIN s}
  <1>1. s \in Seq(S)  BY DEF IsSeq
  <1>2. Len(s) \in Nat /\ DOMAIN s = 1..Len(s)  BY <1>1, LenProperties
  <1>3. s # <<>> => Len(s) \in Nat \ {0}  BY <1>1, EmptySeq
  <1>4. Len(<<>>) = 0  OBVIOUS
  <1> QED  BY <1>2, <1>3, <1>4

(* A function on 1..n is a sequence of length n. *)
LEMMA FunctionIsSeq ==
  ASSUME NEW n \in Nat, NEW s, s = [k \in 1..n |-> s[k]]
  PROVE  IsSeq(s) /\ Len(s) = n
  <1> DEFINE S == {s[k] : k \in 1..n}
  <1>1. DOMAIN s = 1..n  OBVIOUS
  <1>2. s \in [1..n -> S]  OBVIOUS
  <1>3. s \in Seq(S)  BY <1>2, SeqDef
  <1>4. IsSeq(s)  BY <1>1, <1>3 DEF IsSeq
  <1>5. Len(s) = n
    <2>1. Len(s) \in Nat /\ DOMAIN s = 1..Len(s)  BY <1>3, LenProperties
    <2>2. 1..n = 1..Len(s)  BY <1>1, <2>1
    <2> QED  BY <2>1, <2>2
  <1> QED  BY <1>4, <1>5

(* Sequences with the same elements are equal. *)
LEMMA SeqEquality ==
  ASSUME NEW s, NEW t, IsSeq(s), IsSeq(t), Len(s) = Len(t),
         \A k \in 1..Len(s) : s[k] = t[k]
  PROVE  s = t
  <1> DEFINE S == {s[k] : k \in DOMAIN s} \cup {t[k] : k \in DOMAIN t}
  <1>1. s \in Seq(S)
    <2>1. s \in Seq({s[k] : k \in DOMAIN s})  BY DEF IsSeq
    <2> QED  BY <2>1, SeqMonotonic
  <1>2. t \in Seq(S)
    <2>1. t \in Seq({t[k] : k \in DOMAIN t})  BY DEF IsSeq
    <2> QED  BY <2>1, SeqMonotonic
  <1> HIDE DEF S
  <1> QED  BY <1>1, <1>2, SeqEqual

(* Concatenation, element by element.                                      *)
LEMMA ConcatFacts ==
  ASSUME NEW s, NEW t, IsSeq(s), IsSeq(t)
  PROVE  /\ IsSeq(s \o t)
         /\ Len(s \o t) = Len(s) + Len(t)
         /\ \A k \in 1..Len(s) : (s \o t)[k] = s[k]
         /\ \A k \in 1..Len(t) : (s \o t)[Len(s) + k] = t[k]
  <1> DEFINE S == {s[k] : k \in DOMAIN s} \cup {t[k] : k \in DOMAIN t}
  <1>1. s \in Seq(S)
    <2>1. s \in Seq({s[k] : k \in DOMAIN s})  BY DEF IsSeq
    <2> QED  BY <2>1, SeqMonotonic
  <1>2. t \in Seq(S)
    <2>1. t \in Seq({t[k] : k \in DOMAIN t})  BY DEF IsSeq
    <2> QED  BY <2>1, SeqMonotonic
  <1> HIDE DEF S
  <1>3. /\ s \o t \in Seq(S)
        /\ Len(s \o t) = Len(s) + Len(t)
        /\ \A i \in 1 .. Len(s) + Len(t) : (s \o t)[i] =
                     IF i <= Len(s) THEN s[i] ELSE t[i - Len(s)]
    BY <1>1, <1>2, ConcatProperties
  <1>4. Len(s) \in Nat /\ Len(t) \in Nat  BY IsSeqLen
  <1>5. IsSeq(s \o t)  BY <1>3, IsSeqIntro
  <1>6. \A k \in 1..Len(s) : (s \o t)[k] = s[k]  BY <1>3, <1>4
  <1>7. ASSUME NEW k \in 1..Len(t)  PROVE (s \o t)[Len(s) + k] = t[k]
    <2>1. Len(s) + k \in 1..Len(s) + Len(t) /\ ~(Len(s) + k <= Len(s)) /\ Len(s) + k - Len(s) = k
      BY <1>4
    <2>2. (s \o t)[Len(s) + k] = t[Len(s) + k - Len(s)]  BY <1>3, <2>1
    <2> QED  BY <2>1, <2>2
  <1> QED  BY <1>3, <1>5, <1>6, <1>7

(* Sequences of one element.                                               *)
LEMMA SingletonFacts ==
  ASSUME NEW e
  PROVE  IsSeq(<<e>>) /\ Len(<<e>>) = 1 /\ <<e>>[1] = e /\ <<e>> # <<>>
  <1>1. <<e>> \in Seq({e})  OBVIOUS
  <1> QED  BY <1>1, IsSeqIntro

LEMMA EmptyFacts == IsSeq(<<>>) /\ Len(<<>>) = 0
  <1>1. <<>> \in Seq({})  OBVIOUS
  <1> QED  BY <1>1, IsSeqIntro

(* Append, element by element, and as a concatenation.                     *)
LEMMA AppendFacts ==
  ASSUME NEW s, IsSeq(s), NEW e
  PROVE  /\ IsSeq(Append(s, e))
         /\ Append(s, e) = s \o <<e>>
         /\ Len(Append(s, e)) = Len(s) + 1
         /\ \A k \in 1..Len(s) : Append(s, e)[k] = s[k]
         /\ Append(s, e)[Len(s) + 1] = e
         /\ Append(s, e) # <<>>
  <1> DEFINE S == {s[k] : k \in DOMAIN s} \cup {e}
  <1>1. s \in Seq(S)
    <2>1. s \in Seq({s[k] : k \in DOMAIN s})  BY DEF IsSeq
    <2> QED  BY <2>1, SeqMonotonic
  <1>2. e \in S  OBVIOUS
  <1> HIDE DEF S
  <1>3. Append(s, e) \in Seq(S)  BY <1>1, <1>2
  <1>4. Append(s, e) = s \o <<e>>  BY <1>1, <1>2
  <1>5. IsSeq(Append(s, e))  BY <1>3, IsSeqIntro
  <1>6. IsSeq(<<e>>) /\ Len(<<e>>) = 1 /\ <<e>>[1] = e  BY SingletonFacts
  <1>7. /\ Len(s \o <<e>>) = Len(s) + 1
        /\ \A k \in 1..Len(s) : (s \o <<e>>)[k] = s[k]
        /\ (s \o <<e>>)[Len(s) + 1] = e
    <2>1. /\ Len(s \o <<e>>) = Len(s) + Len(<<e>>)
          /\ \A k \in 1..Len(s) : (s \o <<e>>)[k] = s[k]
          /\ \A k \in 1..Len(<<e>>) : (s \o <<e>>)[Len(s) + k] = <<e>>[k]
      BY <1>6, ConcatFacts
    <2>2. 1 \in 1..Len(<<e>>)  BY <1>6
    <2> QED  BY <1>6, <2>1, <2>2
  <1>8. Len(s) + 1 > 0  BY IsSeqLen
  <1>9. Append(s, e) # <<>>  BY <1>4, <1>5, <1>7, <1>8, IsSeqLen
  <1> QED  BY <1>4, <1>5, <1>7, <1>9

(* A contiguous part of a sequence, element by element.                    *)
LEMMA SubSeqFacts ==
  ASSUME NEW s, IsSeq(s), NEW m \in Nat \ {0}, NEW n \in Nat, n <= Len(s), m <= n + 1
  PROVE  /\ IsSeq(SubSeq(s, m, n))
         /\ Len(SubSeq(s, m, n)) = n - m + 1
         /\ \A k \in 1..(n - m + 1) : SubSeq(s, m, n)[k] = s[m + k - 1]
  <1> DEFINE S == {s[k] : k \in DOMAIN s}
  <1>1. Len(s) \in Nat /\ DOMAIN s = 1..Len(s)  BY IsSeqLen
  <1>2. \A i \in m..n : s[i] \in S
    <2> SUFFICES ASSUME NEW i \in m..n  PROVE i \in DOMAIN s  OBVIOUS
    <2> QED  BY <1>1
  <1> HIDE DEF S
  <1>3. /\ SubSeq(s,m,n) \in Seq(S)
        /\ Len(SubSeq(s,m,n)) = IF m<=n THEN n-m+1 ELSE 0
        /\ \A i \in 1 .. n-m+1 : SubSeq(s,m,n)[i] = s[m+i-1]
    BY <1>2, SubSeqProperties
  <1>4. IsSeq(SubSeq(s, m, n))  BY <1>3, IsSeqIntro
  <1>5. (IF m <= n THEN n - m + 1 ELSE 0) = n - m + 1  OBVIOUS
  <1> QED  BY <1>3, <1>4, <1>5

(* The first n elements. *)
LEMMA PrefixFacts ==
  ASSUME NEW s, IsSeq(s), NEW n \in Nat, n <= Len(s)
  PROVE  /\ IsSeq(SubSeq(s, 1, n)) /\ Len(SubSeq(s, 1, n)) = n
         /\ \A k \in 1..n : SubSeq(s, 1, n)[k] = s[k]
  <1>1. /\ IsSeq(SubSeq(s, 1, n)) /\ Len(SubSeq(s, 1, n)) = n - 1 + 1
        /\ \A k \in 1..(n - 1 + 1) : SubSeq(s, 1, n)[k] = s[1 + k - 1]
    BY SubSeqFacts
  <1>2. n - 1 + 1 = n /\ \A k \in 1..n : 1 + k - 1 = k  OBVIOUS
  <1> QED  BY <1>1, <1>2

(* A sequence is its own longest prefix.                                   *)
LEMMA WholePrefix ==
  ASSUME NEW s, IsSeq(s)
  PROVE  SubSeq(s, 1, Len(s)) = s
  <1>1. Len(s) \in Nat  BY IsSeqLen
  <1>2. /\ IsSeq(SubSeq(s, 1, Len(s))) /\ Len(SubSeq(s, 1, Len(s))) = Len(s)
        /\ \A k \in 1..Len(s) : SubSeq(s, 1, Len(s))[k] = s[k]
    BY <1>1, PrefixFacts
  <1> QED  BY <1>2, SeqEquality

(* A prefix of a prefix is a prefix of the whole.                          *)
LEMMA PrefixOfPrefix ==
  ASSUME NEW s, IsSeq(s), NEW n \in Nat, n <= Len(s), NEW m \in Nat, m <= n
  PROVE  SubSeq(SubSeq(s, 1, n), 1, m) = SubSeq(s, 1, m)
  <1>0. Len(s) \in Nat  BY IsSeqLen
  <1> DEFINE t == SubSeq(s, 1, n)
  <1>1. IsSeq(t) /\ Len(t) = n /\ \A k \in 1..n : t[k] = s[k]  BY PrefixFacts
  <1> HIDE DEF t
  <1>2. IsSeq(SubSeq(t, 1, m)) /\ Len(SubSeq(t, 1, m)) = m
          /\ \A k \in 1..m : SubSeq(t, 1, m)[k] = t[k]
    BY <1>1, PrefixFacts
  <1>3. IsSeq(SubSeq(s, 1, m)) /\ Len(SubSeq(s, 1, m)) = m
          /\ \A k \in 1..m : SubSeq(s, 1, m)[k] = s[k]
    BY <1>0, PrefixFacts
  <1>4. \A k \in 1..m : k \in 1..n  OBVIOUS
  <1>5. \A k \in 1..m : SubSeq(t, 1, m)[k] = SubSeq(s, 1, m)[k]  BY <1>1, <1>2, <1>3, <1>4
  <1>6. SubSeq(t, 1, m) = SubSeq(s, 1, m)  BY <1>2, <1>3, <1>5, SeqEquality
  <1> QED  BY <1>6 DEF t

(* Appending leaves what was there. *)
LEMMA PrefixOfAppend ==
  ASSUME NEW s, IsSeq(s), NEW e, NEW n \in Nat, n <= Len(s)
  PROVE  SubSeq(Append(s, e), 1, n) = SubSeq(s, 1, n)
  <1>0. Len(s) \in Nat  BY IsSeqLen
  <1> DEFINE t == Append(s, e)
  <1>1. IsSeq(t) /\ Len(t) = Len(s) + 1 /\ \A k \in 1..Len(s) : t[k] = s[k]  BY AppendFacts
  <1> HIDE DEF t
  <1>2. IsSeq(SubSeq(t, 1, n)) /\ Len(SubSeq(t, 1, n)) = n
          /\ \A k \in 1..n : SubSeq(t, 1, n)[k] = t[k]
    BY <1>0, <1>1, PrefixFacts
  <1>3. IsSeq(SubSeq(s, 1, n)) /\ Len(SubSeq(s, 1, n)) = n
          /\ \A k \in 1..n : SubSeq(s, 1, n)[k] = s[k]
    BY PrefixFacts
  <1>4. \A k \in 1..n : k \in 1..Len(s)  BY <1>0
  <1>5. \A k \in 1..n : SubSeq(t, 1, n)[k] = SubSeq(s, 1, n)[k]  BY <1>1, <1>2, <1>3, <1>4
  <1>6. SubSeq(t, 1, n) = SubSeq(s, 1, n)  BY <1>2, <1>3, <1>5, SeqEquality
  <1> QED  BY <1>6 DEF t

(* A sequence without the elements from the j-th to the k-th. *)
LEMMA CutOutFacts ==
  ASSUME NEW s, IsSeq(s), NEW j \in 1..Len(s), NEW k \in 1..Len(s), j <= k
  PROVE  /\ IsSeq(SubSeq(s, 1, j - 1) \o SubSeq(s, k + 1, Len(s)))
         /\ \A n \in 1..Len(SubSeq(s, 1, j - 1) \o SubSeq(s, k + 1, Len(s))) :
              \E m \in 1..Len(s) : (SubSeq(s, 1, j - 1) \o SubSeq(s, k + 1, Len(s)))[n] = s[m]
  <1> DEFINE L == Len(s)
             b == SubSeq(s, 1, j - 1)
             a == SubSeq(s, k + 1, L)
             w == b \o a
  <1>1. L \in Nat  BY IsSeqLen
  <1>2. /\ j - 1 \in Nat /\ j - 1 <= L /\ k + 1 \in Nat \ {0} /\ k + 1 <= L + 1
        /\ L - (k + 1) + 1 = L - k /\ L - k \in Nat
    BY <1>1
  <1>3. IsSeq(b) /\ Len(b) = j - 1 /\ \A n \in 1..(j - 1) : b[n] = s[n]
    BY <1>2, PrefixFacts
  <1>4. IsSeq(a) /\ Len(a) = L - k /\ \A n \in 1..(L - k) : a[n] = s[k + 1 + n - 1]
    <2>0. k + 1 \in Nat \ {0} /\ L \in Nat /\ L <= Len(s) /\ k + 1 <= L + 1
      BY <1>1, <1>2
    <2> HIDE DEF L
    <2>1. /\ IsSeq(SubSeq(s, k + 1, L)) /\ Len(SubSeq(s, k + 1, L)) = L - (k + 1) + 1
          /\ \A n \in 1..(L - (k + 1) + 1) : SubSeq(s, k + 1, L)[n] = s[k + 1 + n - 1]
      BY <2>0, SubSeqFacts
    <2> USE DEF L
    <2> QED  BY <1>2, <2>1
  <1> HIDE DEF a, b
  <1>5. /\ IsSeq(w) /\ Len(w) = j - 1 + (L - k)
        /\ \A n \in 1..(j - 1) : w[n] = s[n]
        /\ \A n \in 1..(L - k) : w[j - 1 + n] = s[k + 1 + n - 1]
    <2>0. IsSeq(b) /\ IsSeq(a)  BY <1>3, <1>4
    <2>1. /\ IsSeq(w) /\ Len(w) = Len(b) + Len(a)
          /\ \A n \in 1..Len(b) : w[n] = b[n]
          /\ \A n \in 1..Len(a) : w[Len(b) + n] = a[n]
      BY <2>0, ConcatFacts
    <2> QED  BY <1>3, <1>4, <2>1
  <1> HIDE DEF w
  <1>6. ASSUME NEW n \in 1..Len(w)  PROVE \E m \in 1..L : w[n] = s[m]
    <2>1. CASE n <= j - 1
      <3>1. n \in 1..(j - 1) /\ n \in 1..L  BY <1>2, <1>5, <2>1
      <3> QED  BY <1>5, <3>1
    <2>2. CASE ~(n <= j - 1)
      <3> DEFINE m == n - (j - 1)
      <3>1. m \in 1..(L - k) /\ j - 1 + m = n /\ k + 1 + m - 1 \in 1..L
        BY <1>1, <1>2, <1>5, <2>2
      <3> HIDE DEF m, L
      <3>2. w[n] = s[k + 1 + m - 1]  BY <1>5, <3>1
      <3> QED  BY <3>1, <3>2
    <2> QED  BY <2>1, <2>2
  <1> QED  BY <1>5, <1>6 DEF w, a, b

-----------------------------------------------------------------------------
(* Least elements: what stands here for induction over the natural numbers *)

(* The usual order of the naturals as a relation, for the theorems on      *)
(* well-founded relations.                                                 *)
LEMMA LessThan ==
  \E R : IsWellFoundedOn(R, Nat) /\ \A m, n \in Nat : <<m, n>> \in R <=> m < n
  <1> DEFINE R == OpToRel(<, Nat)
  <1>1. IsWellFoundedOn(R, Nat)  BY NatLessThanWellFounded
  <1>2. \A m, n \in Nat : <<m, n>> \in R <=> m < n  BY DEF OpToRel
  <1> HIDE DEF R
  <1> QED  BY <1>1, <1>2

(* A set of naturals that is not empty has a least element: what takes the *)
(* place of an induction here.                                             *)
LEMMA LeastElement ==
  ASSUME NEW T, T \subseteq Nat, T # {}
  PROVE  \E n \in T : \A m \in T : n <= m
  <1>0. PICK R : IsWellFoundedOn(R, Nat) /\ \A m, n \in Nat : <<m, n>> \in R <=> m < n
    BY LessThan
  <1>1. \E n \in T : \A m \in T : ~(<<m, n>> \in R)
    <2>1. IsWellFoundedOn(R, Nat)  BY <1>0
    <2> QED  BY <2>1, WFMin
  <1>2. PICK n \in T : \A m \in T : ~(<<m, n>> \in R)  BY <1>1
  <1>3. \A m \in T : ~(m < n)  BY <1>0, <1>2
  <1> QED  BY <1>2, <1>3

(* The greatest element of a set of numbers with a bound. *)
LEMMA GreatestElement ==
  ASSUME NEW b \in Nat, NEW T, T \subseteq 0..b, T # {}
  PROVE  \E n \in T : \A m \in T : m <= n
  <1> DEFINE U == {d \in Nat : b - d \in T}
  <1>1. U \subseteq Nat /\ U # {}
    <2>1. PICK n \in T : TRUE  OBVIOUS
    <2>2. b - n \in Nat /\ b - (b - n) = n  BY <2>1
    <2> QED  BY <2>1, <2>2
  <1>2. PICK u \in U : \A v \in U : u <= v
    <2> HIDE DEF U
    <2> QED  BY <1>1, LeastElement
  <1>3. u \in Nat /\ b - u \in T  OBVIOUS
  <1>4. ASSUME NEW m \in T  PROVE m <= b - u
    <2>1. m \in 0..b  OBVIOUS
    <2>2. b - m \in Nat /\ b - (b - m) = m  BY <2>1
    <2>3. b - m \in U  BY <2>2
    <2>4. u <= b - m  BY <1>2, <2>3
    <2> QED  BY <1>3, <2>1, <2>4
  <1> QED  BY <1>3, <1>4

-----------------------------------------------------------------------------
(* What appending to a file does                                           *)

(* The lines of a file: sequences of at least one piece. *)
IsFile(lines) ==
  IsSeq(lines) /\ \A k \in 1..Len(lines) : IsSeq(lines[k]) /\ lines[k] # <<>>

(* The records of the lines of a file, one for each.                       *)
LEMMA RecordsFacts ==
  ASSUME NEW lines, IsSeq(lines)
  PROVE  /\ IsSeq(Records(lines)) /\ Len(Records(lines)) = Len(lines)
         /\ \A k \in 1..Len(lines) : Records(lines)[k] = lines[k][1].record
  <1>1. Len(lines) \in Nat  BY IsSeqLen
  <1>2. Records(lines) = [k \in 1..Len(lines) |-> Records(lines)[k]]  BY DEF Records
  <1>3. \A k \in 1..Len(lines) : Records(lines)[k] = lines[k][1].record  BY DEF Records
  <1> QED  BY <1>1, <1>2, <1>3, FunctionIsSeq

(* The lines a write puts down, one piece on each. *)
NewLines(pieces) == [k \in 1..Len(pieces) |-> <<pieces[k]>>]

(* Pieces written each on a line of its own.                               *)
LEMMA NewLinesFacts ==
  ASSUME NEW pieces, IsSeq(pieces)
  PROVE  /\ IsFile(NewLines(pieces)) /\ Len(NewLines(pieces)) = Len(pieces)
         /\ \A k \in 1..Len(pieces) : NewLines(pieces)[k] = <<pieces[k]>>
  <1>1. Len(pieces) \in Nat  BY IsSeqLen
  <1>2. NewLines(pieces) = [k \in 1..Len(pieces) |-> NewLines(pieces)[k]]  BY DEF NewLines
  <1>3. \A k \in 1..Len(pieces) : NewLines(pieces)[k] = <<pieces[k]>>  BY DEF NewLines
  <1>4. IsSeq(NewLines(pieces)) /\ Len(NewLines(pieces)) = Len(pieces)
    BY <1>1, <1>2, FunctionIsSeq
  <1>5. ASSUME NEW k \in 1..Len(pieces)
        PROVE  IsSeq(NewLines(pieces)[k]) /\ NewLines(pieces)[k] # <<>>
    <2>1. NewLines(pieces)[k] = <<pieces[k]>>  BY <1>3
    <2>2. IsSeq(<<pieces[k]>>) /\ <<pieces[k]>> # <<>>  BY SingletonFacts
    <2> QED  BY <2>1, <2>2
  <1> QED  BY <1>3, <1>4, <1>5 DEF IsFile

(* On a file that ends in a newline, or with nothing to write. *)
LEMMA WriteOnNewLine ==
  ASSUME NEW lines, IsFile(lines), NEW t, NEW pieces, IsSeq(pieces), t \/ pieces = <<>>
  PROVE  /\ WriteAtEnd(lines, t, pieces) = lines \o NewLines(pieces)
         /\ IsFile(WriteAtEnd(lines, t, pieces))
  <1> DEFINE new == NewLines(pieces)
             w   == lines \o new
  <1>1. WriteAtEnd(lines, t, pieces) = w  BY DEF WriteAtEnd, NewLines
  <1>2. IsFile(new)  BY NewLinesFacts
  <1> HIDE DEF new
  <1>3. IsSeq(lines) /\ IsSeq(new) /\ Len(lines) \in Nat /\ Len(new) \in Nat
    BY <1>2, IsSeqLen DEF IsFile
  <1>4. /\ IsSeq(w) /\ Len(w) = Len(lines) + Len(new)
        /\ \A k \in 1..Len(lines) : w[k] = lines[k]
        /\ \A k \in 1..Len(new) : w[Len(lines) + k] = new[k]
    BY <1>3, ConcatFacts
  <1> HIDE DEF w
  <1>5. ASSUME NEW k \in 1..Len(w)  PROVE IsSeq(w[k]) /\ w[k] # <<>>
    <2>1. CASE k <= Len(lines)
      <3>1. k \in 1..Len(lines)  BY <1>3, <2>1
      <3> QED  BY <1>4, <3>1 DEF IsFile
    <2>2. CASE ~(k <= Len(lines))
      <3>1. k - Len(lines) \in 1..Len(new) /\ Len(lines) + (k - Len(lines)) = k
        BY <1>3, <1>4, <2>2
      <3>2. w[k] = new[k - Len(lines)]  BY <1>4, <3>1
      <3> QED  BY <1>2, <3>1, <3>2 DEF IsFile
    <2> QED  BY <2>1, <2>2
  <1>6. IsFile(w)  BY <1>4, <1>5 DEF IsFile
  <1> QED  BY <1>1, <1>6 DEF w, new

(* Behind a last line without its newline, the first piece is lost in it:  *)
(* that line parses no more, whatever was on it.                           *)
LEMMA WriteGlued ==
  ASSUME NEW lines, IsFile(lines), lines # <<>>, NEW t, NEW pieces, IsSeq(pieces),
         ~(t \/ pieces = <<>>)
  PROVE  /\ IsFile(WriteAtEnd(lines, t, pieces))
         /\ Len(lines) \in 1..Len(WriteAtEnd(lines, t, pieces))
         /\ ~Parses(WriteAtEnd(lines, t, pieces)[Len(lines)])
         /\ \A k \in 1..Len(WriteAtEnd(lines, t, pieces)) :
              \/ k = Len(lines)
              \/ k \in 1..Len(lines) /\ WriteAtEnd(lines, t, pieces)[k] = lines[k]
              \/ k > Len(lines) /\ \E m \in 1..Len(pieces) :
                                    WriteAtEnd(lines, t, pieces)[k] = <<pieces[m]>>
  <1> DEFINE new  == NewLines(pieces)
             L    == Len(lines)
             glue == lines[L] \o new[1]
             old  == [lines EXCEPT ![L] = glue]
             w    == old \o Tail(new)
  <1>1. WriteAtEnd(lines, t, pieces) = w  BY DEF WriteAtEnd, NewLines
  <1>2. IsFile(new) /\ Len(new) = Len(pieces) /\ \A k \in 1..Len(pieces) : new[k] = <<pieces[k]>>
    BY NewLinesFacts
  <1>3. Len(pieces) \in Nat /\ Len(pieces) > 0  BY IsSeqLen
  <1>4. L \in Nat /\ L > 0 /\ L \in 1..L /\ DOMAIN lines = 1..L  BY IsSeqLen DEF IsFile
  <1>5. new[1] = <<pieces[1]>>  BY <1>2, <1>3
  <1>6. IsSeq(lines[L]) /\ lines[L] # <<>>  BY <1>4 DEF IsFile
  <1>7. IsSeq(glue) /\ Len(glue) # 0 /\ Len(glue) # 1
    <2>1. Len(lines[L]) \in Nat /\ Len(lines[L]) > 0  BY <1>6, IsSeqLen
    <2>2. IsSeq(new[1]) /\ Len(new[1]) = 1  BY <1>5, SingletonFacts
    <2>3. IsSeq(glue) /\ Len(glue) = Len(lines[L]) + Len(new[1])  BY <1>6, <2>2, ConcatFacts
    <2> QED  BY <2>1, <2>2, <2>3
  <1> HIDE DEF glue
  <1>8. glue # <<>> /\ ~Parses(glue)  BY <1>7, EmptyFacts DEF Parses
  <1>9. old = [k \in 1..L |-> old[k]] /\ old[L] = glue
          /\ \A k \in 1..L : k # L => old[k] = lines[k]
    BY <1>4
  <1> HIDE DEF old
  <1>10. IsSeq(old) /\ Len(old) = L  BY <1>4, <1>9, FunctionIsSeq
  <1> HIDE DEF L
  <1>11. IsSeq(Tail(new)) /\ Len(Tail(new)) \in Nat /\ Len(Tail(new)) = Len(new) - 1
          /\ \A k \in 1..Len(Tail(new)) : Tail(new)[k] = new[k + 1]
    <2> DEFINE S == {new[k] : k \in DOMAIN new}
    <2>1. new \in Seq(S)  BY <1>2 DEF IsFile, IsSeq
    <2>2. new # <<>>  BY <1>2, <1>3, IsSeqLen DEF IsFile
    <2> HIDE DEF S, new
    <2>3. /\ Tail(new) \in Seq(S) /\ Len(Tail(new)) = Len(new)-1
          /\ \A i \in 1 .. Len(Tail(new)) : Tail(new)[i] = new[i+1]
      BY <2>1, <2>2, HeadTailProperties
    <2>4. IsSeq(Tail(new)) /\ Len(Tail(new)) \in Nat  BY <2>3, IsSeqIntro
    <2> QED  BY <2>3, <2>4
  <1> HIDE DEF new
  <1>12. /\ IsSeq(w) /\ Len(w) = L + Len(Tail(new))
         /\ \A k \in 1..L : w[k] = old[k]
         /\ \A k \in 1..Len(Tail(new)) : w[L + k] = Tail(new)[k]
    BY <1>10, <1>11, ConcatFacts
  <1> HIDE DEF w
  <1>13. L \in 1..Len(w) /\ w[L] = glue  BY <1>4, <1>9, <1>11, <1>12
  <1>14. ASSUME NEW k \in 1..Len(w)  PROVE IsSeq(w[k]) /\ w[k] # <<>>
    <2>1. CASE k = L  BY <1>7, <1>8, <1>13, <2>1
    <2>2. CASE k < L
      <3>1. k \in 1..L /\ k # L  BY <1>4, <1>11, <1>12, <2>2
      <3>2. w[k] = lines[k]  BY <1>9, <1>12, <3>1
      <3>3. IsSeq(lines[k]) /\ lines[k] # <<>>  BY <3>1 DEF IsFile, L
      <3> QED  BY <3>2, <3>3
    <2>3. CASE k > L
      <3>1. k - L \in 1..Len(Tail(new)) /\ L + (k - L) = k  BY <1>4, <1>11, <1>12, <2>3
      <3>2. w[k] = new[k - L + 1]  BY <1>11, <1>12, <3>1
      <3>3. k - L + 1 \in 1..Len(new)  BY <1>2, <1>3, <1>11, <3>1
      <3> QED  BY <1>2, <3>2, <3>3 DEF IsFile
    <2>4. k \in Nat  BY <1>4, <1>11, <1>12
    <2> QED  BY <1>4, <2>1, <2>2, <2>3, <2>4
  <1>15. IsFile(w)  BY <1>12, <1>14 DEF IsFile
  <1>16. ASSUME NEW k \in 1..Len(w), k # L
         PROVE  \/ k \in 1..L /\ w[k] = lines[k]
                \/ k > L /\ \E m \in 1..Len(pieces) : w[k] = <<pieces[m]>>
    <2>1. CASE k < L
      <3>1. k \in 1..L  BY <1>4, <1>11, <1>12, <2>1
      <3> QED  BY <1>9, <1>12, <1>16, <3>1
    <2>2. CASE k > L
      <3>1. k - L \in 1..Len(Tail(new)) /\ L + (k - L) = k  BY <1>4, <1>11, <1>12, <2>2
      <3>2. w[k] = new[k - L + 1]  BY <1>11, <1>12, <3>1
      <3>3. k - L + 1 \in 1..Len(pieces)  BY <1>2, <1>3, <1>11, <3>1
      <3>4. w[k] = <<pieces[k - L + 1]>>  BY <1>2, <3>2, <3>3
      <3> QED  BY <2>2, <3>3, <3>4
    <2>3. k \in Nat  BY <1>4, <1>11, <1>12
    <2> QED  BY <1>4, <1>16, <2>1, <2>2, <2>3
  <1> QED  BY <1>1, <1>8, <1>13, <1>15, <1>16 DEF L

(* A file that reads after a write read before it, and the write is there, *)
(* piece by piece, behind what the file held.                              *)
LEMMA ReadsAfterWrite ==
  ASSUME NEW lines, IsFile(lines), NEW t, lines = <<>> => t, NEW pieces, IsSeq(pieces),
         AllParse(WriteAtEnd(lines, t, pieces))
  PROVE  /\ WriteAtEnd(lines, t, pieces) = lines \o NewLines(pieces)
         /\ AllParse(lines) /\ \A k \in 1..Len(pieces) : pieces[k].whole
  <1> DEFINE new == NewLines(pieces)
             w   == WriteAtEnd(lines, t, pieces)
  <1>1. t \/ pieces = <<>>
    <2> SUFFICES ASSUME ~(t \/ pieces = <<>>)  PROVE FALSE  OBVIOUS
    <2>1. lines # <<>>  OBVIOUS
    <2>2. Len(lines) \in 1..Len(w) /\ ~Parses(w[Len(lines)])  BY <2>1, WriteGlued
    <2> QED  BY <2>2 DEF AllParse
  <1>2. w = lines \o new  BY <1>1, WriteOnNewLine
  <1>3. IsFile(new) /\ Len(new) = Len(pieces) /\ \A k \in 1..Len(pieces) : new[k] = <<pieces[k]>>
    BY NewLinesFacts
  <1> HIDE DEF new
  <1>4. IsSeq(lines) /\ IsSeq(new) /\ Len(lines) \in Nat /\ Len(new) \in Nat
    BY <1>3, IsSeqLen DEF IsFile
  <1>5. /\ Len(w) = Len(lines) + Len(new)
        /\ \A k \in 1..Len(lines) : w[k] = lines[k]
        /\ \A k \in 1..Len(new) : w[Len(lines) + k] = new[k]
    BY <1>2, <1>4, ConcatFacts
  <1> HIDE DEF w
  <1>6. \A k \in 1..Len(w) : Parses(w[k])  BY DEF w, AllParse
  <1>7. AllParse(lines)
    <2> SUFFICES ASSUME NEW k \in 1..Len(lines)  PROVE Parses(lines[k])  BY DEF AllParse
    <2>1. k \in 1..Len(w)  BY <1>4, <1>5
    <2> QED  BY <1>5, <1>6, <2>1
  <1>8. ASSUME NEW k \in 1..Len(pieces)  PROVE pieces[k].whole
    <2>1. k \in 1..Len(new) /\ Len(lines) + k \in 1..Len(w)  BY <1>3, <1>4, <1>5
    <2>2. Parses(new[k])  BY <1>5, <1>6, <2>1
    <2>3. Parses(<<pieces[k]>>)  BY <1>3, <2>2
    <2> QED  BY <2>3 DEF Parses
  <1> QED  BY <1>2, <1>7, <1>8 DEF w, new

(* A line that parses after a write parsed before it, or is a new one. *)
LEMMA ParsedAfterWrite ==
  ASSUME NEW lines, NEW t, NEW pieces, NEW w, NEW k,
         IsFile(lines), lines = <<>> => t, IsSeq(pieces),
         w = WriteAtEnd(lines, t, pieces), k \in 1..Len(w), Parses(w[k])
  PROVE  \/ k \in 1..Len(lines) /\ w[k] = lines[k]
         \/ k > Len(lines) /\ \E m \in 1..Len(pieces) : w[k] = <<pieces[m]>>
  <1> DEFINE new == NewLines(pieces)
  <1>1. CASE t \/ pieces = <<>>
    <2>1. w = lines \o new  BY <1>1, WriteOnNewLine
    <2>2. IsFile(new) /\ Len(new) = Len(pieces) /\ \A m \in 1..Len(pieces) : new[m] = <<pieces[m]>>
      BY NewLinesFacts
    <2> HIDE DEF new
    <2>3. IsSeq(lines) /\ IsSeq(new) /\ Len(lines) \in Nat /\ Len(new) \in Nat
      BY <2>2, IsSeqLen DEF IsFile
    <2>4. /\ Len(w) = Len(lines) + Len(new)
          /\ \A m \in 1..Len(lines) : w[m] = lines[m]
          /\ \A m \in 1..Len(new) : w[Len(lines) + m] = new[m]
      BY <2>1, <2>3, ConcatFacts
    <2>5. k \in 1..Len(w)  OBVIOUS
    <2>6. CASE k <= Len(lines)
      <3>1. k \in 1..Len(lines)  BY <2>3, <2>5, <2>6
      <3> QED  BY <2>4, <3>1
    <2>7. CASE ~(k <= Len(lines))
      <3>1. k > Len(lines) /\ k - Len(lines) \in 1..Len(pieces) /\ Len(lines) + (k - Len(lines)) = k
        BY <2>2, <2>3, <2>4, <2>5, <2>7
      <3>2. w[k] = <<pieces[k - Len(lines)]>>  BY <2>2, <2>4, <3>1
      <3> QED  BY <3>1, <3>2
    <2> QED  BY <2>6, <2>7
  <1>2. CASE ~(t \/ pieces = <<>>)
    <2>1. lines # <<>>  BY <1>2
    <2>2. k # Len(lines)  BY <1>2, <2>1, WriteGlued
    <2> QED  BY <1>2, <2>1, <2>2, WriteGlued
  <1> QED  BY <1>1, <1>2

(* What a file of whole lines says after whole lines were added to it. *)
LEMMA RecordsAfterWrite ==
  ASSUME NEW lines, IsFile(lines), NEW pieces, IsSeq(pieces)
  PROVE  /\ Len(lines \o NewLines(pieces)) = Len(lines) + Len(pieces)
         /\ \A k \in 1..Len(lines) : (lines \o NewLines(pieces))[k] = lines[k]
         /\ \A k \in 1..Len(pieces) :
              (lines \o NewLines(pieces))[Len(lines) + k] = <<pieces[k]>>
         /\ AllParse(lines) /\ (\A k \in 1..Len(pieces) : pieces[k].whole)
              => AllParse(lines \o NewLines(pieces))
  <1> DEFINE new == NewLines(pieces)
             w   == lines \o new
  <1>1. IsFile(new) /\ Len(new) = Len(pieces) /\ \A k \in 1..Len(pieces) : new[k] = <<pieces[k]>>
    BY NewLinesFacts
  <1> HIDE DEF new
  <1>2. IsSeq(lines) /\ IsSeq(new) /\ Len(lines) \in Nat /\ Len(new) \in Nat
    BY <1>1, IsSeqLen DEF IsFile
  <1>3. /\ Len(w) = Len(lines) + Len(new)
        /\ \A k \in 1..Len(lines) : w[k] = lines[k]
        /\ \A k \in 1..Len(new) : w[Len(lines) + k] = new[k]
    BY <1>2, ConcatFacts
  <1> HIDE DEF w
  <1>4. ASSUME AllParse(lines), \A k \in 1..Len(pieces) : pieces[k].whole
        PROVE  AllParse(w)
    <2> SUFFICES ASSUME NEW k \in 1..Len(w)  PROVE Parses(w[k])  BY DEF AllParse
    <2>1. CASE k <= Len(lines)
      <3>1. k \in 1..Len(lines)  BY <1>2, <2>1
      <3> QED  BY <1>3, <1>4, <3>1 DEF AllParse
    <2>2. CASE ~(k <= Len(lines))
      <3>1. k - Len(lines) \in 1..Len(pieces) /\ Len(lines) + (k - Len(lines)) = k
        BY <1>1, <1>2, <1>3, <2>2
      <3>2. w[k] = <<pieces[k - Len(lines)]>>  BY <1>1, <1>3, <3>1
      <3>3. pieces[k - Len(lines)].whole  BY <1>4, <3>1
      <3> QED  BY <3>2, <3>3 DEF Parses
    <2> QED  BY <2>1, <2>2
  <1> QED  BY <1>1, <1>3, <1>4 DEF w, new

(* One record written on a new line adds itself to what is read.           *)
LEMMA RecordsOfOneMore ==
  ASSUME NEW lines, IsFile(lines), NEW r
  PROVE  Records(lines \o NewLines(<<Whole(r)>>)) = Append(Records(lines), r)
  <1> DEFINE pieces == <<Whole(r)>>
             w      == lines \o NewLines(pieces)
             log    == Records(lines)
             longer == Append(log, r)
             post   == Records(w)
             L      == Len(lines)
  <1>1. IsSeq(lines) /\ L \in Nat  BY IsSeqLen DEF IsFile
  <1>2. IsSeq(pieces) /\ Len(pieces) = 1 /\ pieces[1] = Whole(r)  BY SingletonFacts
  <1>3. IsSeq(log) /\ Len(log) = L /\ \A k \in 1..L : log[k] = lines[k][1].record
    BY <1>1, RecordsFacts
  <1> HIDE DEF log, L
  <1>4. IsSeq(longer) /\ Len(longer) = L + 1 /\ (\A k \in 1..L : longer[k] = log[k])
          /\ longer[L + 1] = r
    <2>0. IsSeq(log)  BY <1>3
    <2>1. IsSeq(longer) /\ Len(longer) = Len(log) + 1 /\ (\A k \in 1..Len(log) : longer[k] = log[k])
            /\ longer[Len(log) + 1] = r
      BY <2>0, AppendFacts
    <2> QED  BY <1>3, <2>1
  <1> HIDE DEF longer, pieces
  <1>5. Len(w) = L + 1 /\ (\A k \in 1..L : w[k] = lines[k]) /\ w[L + 1] = <<Whole(r)>>
    <2>1. /\ Len(w) = Len(lines) + Len(pieces)
          /\ \A k \in 1..Len(lines) : w[k] = lines[k]
          /\ \A k \in 1..Len(pieces) : w[Len(lines) + k] = <<pieces[k]>>
      BY <1>2, RecordsAfterWrite
    <2>2. 1 \in 1..Len(pieces)  BY <1>2
    <2> QED  BY <1>2, <2>1, <2>2 DEF L
  <1>6. IsSeq(w)
    <2>1. IsFile(NewLines(pieces))  BY <1>2, NewLinesFacts
    <2> QED  BY <1>1, <2>1, ConcatFacts DEF IsFile
  <1> HIDE DEF w
  <1>7. IsSeq(post) /\ Len(post) = Len(w) /\ \A k \in 1..Len(w) : post[k] = w[k][1].record
    BY <1>6, RecordsFacts
  <1> HIDE DEF post
  <1>8. ASSUME NEW k \in 1..(L + 1)  PROVE post[k] = longer[k]
    <2>1. post[k] = w[k][1].record  BY <1>5, <1>7
    <2>2. CASE k = L + 1  BY <1>4, <1>5, <2>1, <2>2 DEF Whole
    <2>3. CASE k # L + 1
      <3>1. k \in 1..L  BY <1>1, <2>3
      <3> QED  BY <1>3, <1>4, <1>5, <2>1, <3>1
    <2> QED  BY <2>2, <2>3
  <1>9. post = longer  BY <1>4, <1>5, <1>7, <1>8, SeqEquality
  <1> QED  BY <1>9 DEF post, w, longer, log, pieces

(* Whatever is written at its end, a file stays a file.                    *)
LEMMA WriteKeepsFile ==
  ASSUME NEW lines, IsFile(lines), NEW t, lines = <<>> => t, NEW pieces, IsSeq(pieces)
  PROVE  IsFile(WriteAtEnd(lines, t, pieces))
  <1>1. CASE t \/ pieces = <<>>  BY <1>1, WriteOnNewLine
  <1>2. CASE ~(t \/ pieces = <<>>)
    <2>1. lines # <<>>  BY <1>2
    <2> QED  BY <1>2, <2>1, WriteGlued
  <1> QED  BY <1>1, <1>2

(* What was written is not empty. *)
LEMMA WriteIsNotEmpty ==
  ASSUME NEW lines, IsFile(lines), NEW t, lines = <<>> => t, NEW pieces, IsSeq(pieces),
         pieces # <<>>
  PROVE  WriteAtEnd(lines, t, pieces) # <<>>
  <1> DEFINE w == WriteAtEnd(lines, t, pieces)
  <1>1. Len(lines) \in Nat /\ Len(pieces) \in Nat /\ Len(pieces) > 0  BY IsSeqLen DEF IsFile
  <1>2. CASE t
    <2>1. w = lines \o NewLines(pieces)  BY <1>2, WriteOnNewLine
    <2>2. Len(lines \o NewLines(pieces)) = Len(lines) + Len(pieces)  BY RecordsAfterWrite
    <2>3. Len(w) # 0  BY <1>1, <2>1, <2>2
    <2> QED  BY <2>3, EmptyFacts
  <1>3. CASE ~t
    <2>1. lines # <<>> /\ ~(t \/ pieces = <<>>)  BY <1>3
    <2>2. Len(lines) \in 1..Len(w)  BY <2>1, WriteGlued
    <2> HIDE DEF w
    <2>3. w # <<>>  BY <2>2, EmptyFacts
    <2> QED  BY <2>3 DEF w
  <1> QED  BY <1>2, <1>3

(* What a write that was cut off left behind is the result of writing some *)
(* pieces: the first of those to be written, up to whether they are whole. *)
LEMMA CutOffFacts ==
  ASSUME NEW lines, IsFile(lines), NEW t \in BOOLEAN, lines = <<>> => t,
         NEW pieces, IsSeq(pieces),
         NEW left \in CutOffAtLine(lines, t, pieces) \cup CutOffInside(lines, t, pieces)
  PROVE  /\ left[2] \in BOOLEAN /\ (left[1] = <<>> => left[2])
         /\ \E ps : /\ IsSeq(ps) /\ left[1] = WriteAtEnd(lines, t, ps)
                    /\ Len(ps) <= Len(pieces)
                    /\ \A k \in 1..Len(ps) : ps[k].record = pieces[k].record
                    /\ (\A k \in 1..Len(ps) : ps[k].whole) =>
                         \E m \in 0..Len(pieces) : ps = SubSeq(pieces, 1, m)
  <1>0. Len(pieces) \in Nat  BY IsSeqLen
  <1>1. CASE left \in CutOffAtLine(lines, t, pieces)
    <2>1. PICK n \in 0..Len(pieces) :
            left = <<WriteAtEnd(lines, t, SubSeq(pieces, 1, n)), t \/ n > 0>>
      BY <1>1 DEF CutOffAtLine
    <2> DEFINE ps == SubSeq(pieces, 1, n)
    <2>2. n \in Nat /\ n <= Len(pieces)  BY <1>0
    <2>3. IsSeq(ps) /\ Len(ps) = n /\ \A k \in 1..n : ps[k] = pieces[k]  BY <2>2, PrefixFacts
    <2>4. left[1] = WriteAtEnd(lines, t, ps)  BY <2>1
    <2>5. left[2] = (t \/ n > 0)  BY <2>1
    <2>6. \E m \in 0..Len(pieces) : ps = SubSeq(pieces, 1, m)  OBVIOUS
    <2> HIDE DEF ps
    <2>7. ASSUME left[1] = <<>>  PROVE left[2]
      <3>0. IsSeq(ps)  BY <2>3
      <3>1. ps = <<>>  BY <3>0, <2>4, <2>7, WriteIsNotEmpty
      <3>2. left[1] = lines \o NewLines(ps) /\ Len(lines \o NewLines(ps)) = Len(lines) + Len(ps)
        BY <2>3, <2>4, <3>1, WriteOnNewLine, RecordsAfterWrite
      <3>3. Len(lines) \in Nat /\ (lines # <<>> <=> Len(lines) > 0)  BY IsSeqLen DEF IsFile
      <3>4. Len(lines) = 0
        <4>1. Len(left[1]) = 0  BY <2>7, EmptyFacts
        <4> QED  BY <2>3, <3>1, <3>2, <3>3, <4>1, EmptyFacts
      <3>5. lines = <<>>  BY <3>3, <3>4
      <3> QED  BY <2>5, <3>5
    <2> QED  BY <2>2, <2>3, <2>4, <2>5, <2>6, <2>7
  <1>2. CASE left \in CutOffInside(lines, t, pieces)
    <2>1. PICK n \in 0..(Len(pieces) - 1) :
            \E last \in {pieces[n + 1], Cut(pieces[n + 1].record)} :
              left = <<WriteAtEnd(lines, t, Append(SubSeq(pieces, 1, n), last)), FALSE>>
      BY <1>2 DEF CutOffInside
    <2>2. PICK last \in {pieces[n + 1], Cut(pieces[n + 1].record)} :
            left = <<WriteAtEnd(lines, t, Append(SubSeq(pieces, 1, n), last)), FALSE>>
      BY <2>1
    <2> DEFINE first == SubSeq(pieces, 1, n)
               ps == Append(first, last)
    <2>3. n \in Nat /\ n <= Len(pieces) /\ n + 1 \in 1..Len(pieces)
            /\ n + 1 \in 0..Len(pieces) /\ n + 1 <= Len(pieces)
      BY <1>0
    <2>4. IsSeq(first) /\ Len(first) = n /\ \A k \in 1..n : first[k] = pieces[k]
      BY <2>3, PrefixFacts
    <2> HIDE DEF first
    <2>5. IsSeq(ps) /\ Len(ps) = n + 1 /\ (\A k \in 1..n : ps[k] = first[k]) /\ ps[n + 1] = last
            /\ ps # <<>>
      BY <2>4, AppendFacts
    <2>6. left[1] = WriteAtEnd(lines, t, ps) /\ left[2] = FALSE  BY <2>2 DEF first
    <2> HIDE DEF ps
    <2>7. left[1] # <<>>  BY <2>5, <2>6, WriteIsNotEmpty
    <2>8. ASSUME \A k \in 1..Len(ps) : ps[k].whole
          PROVE  \E m \in 0..Len(pieces) : ps = SubSeq(pieces, 1, m)
      <3>1. n + 1 \in 1..Len(ps)  BY <2>3, <2>5
      <3>2. last.whole  BY <2>5, <2>8, <3>1
      <3>3. last = pieces[n + 1]  BY <3>2 DEF Cut
      <3> DEFINE longer == SubSeq(pieces, 1, n + 1)
      <3>4. /\ IsSeq(longer) /\ Len(longer) = n + 1
            /\ \A k \in 1..(n + 1) : longer[k] = pieces[k]
        BY <2>3, PrefixFacts
      <3> HIDE DEF longer
      <3>5. ASSUME NEW k \in 1..(n + 1)  PROVE ps[k] = longer[k]
        <4>1. CASE k = n + 1  BY <2>5, <3>3, <3>4, <4>1
        <4>2. CASE k # n + 1
          <5>1. k \in 1..n  BY <2>3, <4>2
          <5> QED  BY <2>4, <2>5, <3>4, <5>1
        <4> QED  BY <4>1, <4>2
      <3>6. ps = longer  BY <2>5, <3>4, <3>5, SeqEquality
      <3> QED  BY <2>3, <3>6 DEF longer
    <2>9. ASSUME NEW k \in 1..Len(ps)  PROVE ps[k].record = pieces[k].record
      <3>1. CASE k = n + 1  BY <2>2, <2>5, <3>1 DEF Cut
      <3>2. CASE k # n + 1
        <4>1. k \in 1..n  BY <2>3, <2>5, <3>2
        <4> QED  BY <2>4, <2>5, <4>1
      <3> QED  BY <3>1, <3>2
    <2> QED  BY <2>3, <2>5, <2>6, <2>7, <2>8, <2>9
  <1> QED  BY <1>1, <1>2
=============================================================================
