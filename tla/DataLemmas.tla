----------------------------- MODULE DataLemmas ------------------------------
(***************************************************************************)
(* Facts about sets of naturals, recursive sums over 0 .. n and sequences  *)
(* of sequences, which the proofs about the components cite.  Induction is *)
(* stated for a set, so that a proof uses it like any other fact.          *)
(***************************************************************************)
EXTENDS Integers, SequencesExt, SequenceTheorems, TLAPS, WellFoundedInduction

(***************************************************************************)
(* A set of naturals that is not empty has a least element.                *)
(***************************************************************************)
LEMMA LeastElement ==
  ASSUME NEW S \in SUBSET Nat, S # {}
  PROVE  \E m \in S : \A n \in S : m <= n
<1> DEFINE R == OpToRel(<, Nat)
<1>1. IsWellFoundedOn(R, Nat)  BY NatLessThanWellFounded
<1>2. R = {p \in Nat \X Nat : p[1] < p[2]}  BY DEF OpToRel
<1> HIDE DEF R
<1>3. PICK m \in S : \A n \in S : <<n, m>> \notin R  BY <1>1, WFMin
<1>4. \A n \in S : ~ (n < m)  BY <1>2, <1>3
<1>. QED  BY <1>4

(***************************************************************************)
(* A set of naturals that holds 0 and with n also n + 1 holds them all.    *)
(***************************************************************************)
LEMMA SetInduction ==
  ASSUME NEW S \in SUBSET Nat, 0 \in S, \A n \in S : n + 1 \in S
  PROVE  S = Nat
<1> SUFFICES ASSUME Nat \ S # {} PROVE FALSE  OBVIOUS
<1>1. PICK m \in Nat \ S : \A n \in Nat \ S : m <= n  BY LeastElement
<1>2. m - 1 \in Nat /\ m - 1 \in S  BY <1>1
<1>. QED  BY <1>1, <1>2

(***************************************************************************)
(* The prefix sums of w over 1 .. n exist ...                              *)
(***************************************************************************)
SumsTo(f, n, w) ==
  /\ f[0] = 0
  /\ \A i \in 1 .. n : f[i] = f[i - 1] + w[i]

LEMMA SumsExist ==
  ASSUME NEW n \in Nat, NEW w, \A i \in 1 .. n : w[i] \in Nat
  PROVE  \E f \in [0 .. n -> Nat] : SumsTo(f, n, w)
<1> DEFINE S == {m \in Nat : m <= n => \E f \in [0 .. m -> Nat] : SumsTo(f, m, w)}
<1>1. 0 \in S
  <2>1. SumsTo([i \in 0 .. 0 |-> 0], 0, w)  BY DEF SumsTo
  <2>. QED  BY <2>1
<1>2. ASSUME NEW m \in S PROVE m + 1 \in S
  <2> SUFFICES ASSUME m + 1 <= n PROVE \E f \in [0 .. m + 1 -> Nat] : SumsTo(f, m + 1, w)  BY <1>2
  <2>1. PICK f \in [0 .. m -> Nat] : SumsTo(f, m, w)  BY <1>2
  <2> DEFINE g == [i \in 0 .. m + 1 |-> IF i <= m THEN f[i] ELSE f[m] + w[m + 1]]
  <2>2. m \in Nat /\ m + 1 \in 1 .. n /\ w[m + 1] \in Nat  BY <1>2
  <2>3. f[m] \in Nat /\ f[0] = 0 /\ \A i \in 0 .. m : f[i] \in Nat  BY <2>1, <2>2 DEF SumsTo
  <2>4. g \in [0 .. m + 1 -> Nat] /\ g[0] = 0  BY <2>2, <2>3
  <2>5. ASSUME NEW i \in 1 .. m + 1 PROVE g[i] = g[i - 1] + w[i]
    <3>1. CASE i <= m  BY <2>1, <2>2, <3>1 DEF SumsTo
    <3>2. CASE i = m + 1  BY <2>2, <3>2
    <3>. QED  BY <2>2, <3>1, <3>2
  <2>. QED  BY <2>4, <2>5 DEF SumsTo
<1> HIDE DEF S
<1>3. S = Nat  BY <1>1, <1>2, SetInduction DEF S
<1>. QED  BY <1>3 DEF S

(***************************************************************************)
(* ... and two of them agree as far as the weights they sum do.            *)
(***************************************************************************)
LEMMA SumsAgree ==
  ASSUME NEW n \in Nat, NEW m \in Nat, n <= m,
         NEW v, NEW w, \A i \in 1 .. n : v[i] = w[i],
         NEW f, SumsTo(f, n, v), NEW g, SumsTo(g, m, w)
  PROVE  \A i \in 0 .. n : f[i] = g[i]
<1> DEFINE S == {i \in Nat : i <= n => f[i] = g[i]}
<1>1. 0 \in S  BY DEF SumsTo
<1>2. ASSUME NEW i \in S PROVE i + 1 \in S
  <2> SUFFICES ASSUME i + 1 <= n PROVE f[i + 1] = g[i + 1]  BY <1>2
  <2>1. i \in Nat /\ i + 1 \in 1 .. n /\ i + 1 \in 1 .. m /\ f[i] = g[i]  BY <1>2
  <2>2. f[i + 1] = f[i] + v[i + 1] /\ g[i + 1] = g[i] + w[i + 1]  BY <2>1 DEF SumsTo
  <2>. QED  BY <2>1, <2>2
<1> HIDE DEF S
<1>3. S = Nat  BY <1>1, <1>2, SetInduction DEF S
<1>. QED  BY <1>3 DEF S

-----------------------------------------------------------------------------
(* Sequences of sequences. *)

\* What is where in a concatenation.
LEMMA ConcatPlaces ==
  ASSUME NEW S, NEW s \in Seq(S), NEW t \in Seq(S)
  PROVE  /\ s \o t \in Seq(S) /\ Len(s \o t) = Len(s) + Len(t)
         /\ \A i \in 1 .. Len(s) : (s \o t)[i] = s[i]
         /\ \A i \in 1 .. Len(t) : (s \o t)[Len(s) + i] = t[i]
<1>1. /\ Len(s) \in Nat /\ Len(t) \in Nat
      /\ s \o t \in Seq(S) /\ Len(s \o t) = Len(s) + Len(t)
      /\ \A i \in 1 .. Len(s) + Len(t) : (s \o t)[i] = IF i <= Len(s) THEN s[i] ELSE t[i - Len(s)]
  BY LenProperties, ConcatProperties
<1>2. ASSUME NEW i \in 1 .. Len(s) PROVE (s \o t)[i] = s[i]
  <2>1. i \in 1 .. Len(s) + Len(t) /\ i <= Len(s)  BY <1>1
  <2>. QED  BY <1>1, <2>1
<1>3. ASSUME NEW i \in 1 .. Len(t) PROVE (s \o t)[Len(s) + i] = t[i]
  <2>1. Len(s) + i \in 1 .. Len(s) + Len(t) /\ ~(Len(s) + i <= Len(s)) /\ (Len(s) + i) - Len(s) = i
    BY <1>1
  <2>. QED  BY <1>1, <2>1
<1>. QED  BY <1>1, <1>2, <1>3

\* The sequence f of the concatenations that FlattenSeq runs through.
Concats(f, ss) ==
  f = [i \in 1 .. Len(ss) |-> IF i = 1 THEN ss[i] ELSE f[i - 1] \o ss[i]]

ConcatsUpTo(f, ss, m) == \A i \in 1 .. m : f[i] = IF i = 1 THEN ss[i] ELSE f[i - 1] \o ss[i]

LEMMA ConcatsExist ==
  ASSUME NEW S, NEW ss \in Seq(Seq(S))
  PROVE  \E f \in [1 .. Len(ss) -> Seq(S)] : Concats(f, ss)
<1> DEFINE N == Len(ss)
           T == {m \in Nat : m <= N => \E f \in [1 .. m -> Seq(S)] : ConcatsUpTo(f, ss, m)}
<1>1. N \in Nat /\ \A i \in 1 .. N : ss[i] \in Seq(S)  BY LenProperties, ElementOfSeq
<1>2. 0 \in T
  <2>1. [i \in 1 .. 0 |-> <<>>] \in [1 .. 0 -> Seq(S)]  OBVIOUS
  <2>2. ConcatsUpTo([i \in 1 .. 0 |-> <<>>], ss, 0)  BY DEF ConcatsUpTo
  <2>. QED  BY <2>1, <2>2
<1>3. ASSUME NEW m \in T PROVE m + 1 \in T
  <2> SUFFICES ASSUME m + 1 <= N
               PROVE  \E f \in [1 .. m + 1 -> Seq(S)] : ConcatsUpTo(f, ss, m + 1)
    BY <1>3
  <2>1. m \in Nat /\ m + 1 \in 1 .. N /\ ss[m + 1] \in Seq(S)  BY <1>1, <1>3
  <2>2. PICK f \in [1 .. m -> Seq(S)] : ConcatsUpTo(f, ss, m)  BY <1>1, <1>3, <2>1
  <2> DEFINE last == IF m = 0 THEN ss[m + 1] ELSE f[m] \o ss[m + 1]
             g == [i \in 1 .. m + 1 |-> IF i <= m THEN f[i] ELSE last]
  <2>3. last \in Seq(S)
    <3>1. CASE m = 0  BY <2>1, <3>1
    <3>2. CASE m # 0
      <4>1. f[m] \in Seq(S)  BY <2>1, <2>2, <3>2
      <4>. QED  BY <2>1, <3>2, <4>1, ConcatProperties
    <3>. QED  BY <3>1, <3>2
  <2>4. g \in [1 .. m + 1 -> Seq(S)]  BY <2>1, <2>2, <2>3
  <2>5. ASSUME NEW i \in 1 .. m + 1
        PROVE  g[i] = IF i = 1 THEN ss[i] ELSE g[i - 1] \o ss[i]
    <3>1. CASE i <= m
      <4>1. i \in 1 .. m /\ g[i] = f[i] /\ (i # 1 => g[i - 1] = f[i - 1])  BY <2>1, <3>1
      <4>. QED  BY <2>2, <4>1 DEF ConcatsUpTo
    <3>2. CASE i = m + 1
      <4>1. g[i] = last /\ (i # 1 => m # 0 /\ g[i - 1] = f[m])  BY <2>1, <3>2
      <4>. QED  BY <2>1, <3>2, <4>1
    <3>. QED  BY <2>1, <3>1, <3>2
  <2>6. ConcatsUpTo(g, ss, m + 1)  BY <2>5 DEF ConcatsUpTo
  <2>. QED  BY <2>4, <2>6
<1>4. T = Nat
  <2>1. T \in SUBSET Nat  OBVIOUS
  <2> HIDE DEF T
  <2>. QED  BY <1>2, <1>3, <2>1, SetInduction
<1>5. N \in Nat /\ N <= N  BY <1>1
<1>6. PICK f \in [1 .. N -> Seq(S)] : ConcatsUpTo(f, ss, N)  BY <1>4, <1>5
<1>7. Concats(f, ss)  BY <1>6 DEF Concats, ConcatsUpTo
<1>. QED  BY <1>7

LEMMA ConcatsUpToEnd ==
  ASSUME NEW f, NEW ss, Len(ss) \in Nat, Concats(f, ss), NEW n \in Nat, n <= Len(ss)
  PROVE  ConcatsUpTo(f, ss, n)
<1> DEFINE N == Len(ss)
           G(i) == IF i = 1 THEN ss[i] ELSE f[i - 1] \o ss[i]
<1>1. f = [i \in 1 .. N |-> G(i)]  BY DEF Concats
<1>2. \A i \in 1 .. n : i \in 1 .. N  OBVIOUS
<1> HIDE DEF G, N
<1>3. \A i \in 1 .. n : f[i] = G(i)  BY <1>1, <1>2
<1>. QED  BY <1>3 DEF ConcatsUpTo, G

\* Two of them agree as far as the sequences they join do.
Agree(s, t, n) == \A i \in 1 .. n : s[i] = t[i]

LEMMA ConcatsAgree ==
  ASSUME NEW n \in Nat, NEW ss, NEW tt, Agree(ss, tt, n),
         NEW f, ConcatsUpTo(f, ss, n), NEW g, ConcatsUpTo(g, tt, n)
  PROVE  Agree(f, g, n)
<1> DEFINE T == {i \in Nat : i \in 1 .. n => f[i] = g[i]}
<1>1. 0 \in T  OBVIOUS
<1>2. ASSUME NEW i \in T PROVE i + 1 \in T
  <2> SUFFICES ASSUME i + 1 \in 1 .. n PROVE f[i + 1] = g[i + 1]  BY <1>2
  <2>1. /\ i \in Nat /\ i + 1 \in 1 .. n
        /\ (i + 1) - 1 = i /\ ss[i + 1] = tt[i + 1] /\ (i # 0 => f[i] = g[i])
    BY <1>2 DEF Agree
  <2>2. /\ f[i + 1] = IF i + 1 = 1 THEN ss[i + 1] ELSE f[(i + 1) - 1] \o ss[i + 1]
        /\ g[i + 1] = IF i + 1 = 1 THEN tt[i + 1] ELSE g[(i + 1) - 1] \o tt[i + 1]
    BY <2>1 DEF ConcatsUpTo
  <2>. QED  BY <2>1, <2>2
<1>3. T = Nat
  <2>1. T \in SUBSET Nat  OBVIOUS
  <2> HIDE DEF T
  <2>. QED  BY <1>1, <1>2, <2>1, SetInduction
<1>. QED  BY <1>3 DEF Agree

(***************************************************************************)
(* FlattenSeq joins its sequences: the last of one or more of them to the  *)
(* others.                                                                 *)
(***************************************************************************)
LEMMA FlattenIs ==
  ASSUME NEW S, NEW ss \in Seq(Seq(S)), NEW f, Concats(f, ss)
  PROVE  FlattenSeq(ss) = IF Len(ss) = 0 THEN <<>> ELSE f[Len(ss)]
<1> DEFINE Rec(g) == g = [i \in 1 .. Len(ss) |-> IF i = 1 THEN ss[i] ELSE g[i - 1] \o ss[i]]
<1>1. CASE Len(ss) = 0
  BY <1>1, EmptySeq DEF FlattenSeq
<1>2. CASE Len(ss) # 0
  <2> DEFINE g == CHOOSE h : Rec(h)
  <2>1. FlattenSeq(ss) = g[Len(ss)]  BY <1>2 DEF FlattenSeq
  <2>2. Rec(f)  BY DEF Concats
  <2> HIDE DEF Rec
  <2>3. Rec(g)  BY <2>2
  <2> HIDE DEF g
  <2>5. Len(ss) \in Nat /\ Len(ss) <= Len(ss) /\ Len(ss) \in 1 .. Len(ss)  BY <1>2, LenProperties
  <2>7. Concats(g, ss)  BY <2>3 DEF Rec, Concats
  <2>4. ConcatsUpTo(g, ss, Len(ss)) /\ ConcatsUpTo(f, ss, Len(ss))
    BY <2>5, <2>7, ConcatsUpToEnd
  <2>6. g[Len(ss)] = f[Len(ss)]  BY <2>4, <2>5, ConcatsAgree DEF Agree
  <2>. QED  BY <1>2, <2>1, <2>6
<1>. QED  BY <1>1, <1>2

LEMMA FlattenEmpty == FlattenSeq(<<>>) = <<>>
BY DEF FlattenSeq

LEMMA FlattenAppend ==
  ASSUME NEW S, NEW ss \in Seq(Seq(S)), NEW s \in Seq(S)
  PROVE  /\ FlattenSeq(ss) \in Seq(S)
         /\ FlattenSeq(Append(ss, s)) = FlattenSeq(ss) \o s
<1> DEFINE n == Len(ss)
           tt == Append(ss, s)
<1>1. /\ n \in Nat /\ tt \in Seq(Seq(S)) /\ Len(tt) = n + 1 /\ tt[n + 1] = s
      /\ \A i \in 1 .. n : tt[i] = ss[i]
  BY LenProperties, AppendProperties
<1>2. PICK f \in [1 .. n -> Seq(S)] : Concats(f, ss)  BY ConcatsExist
<1>3. PICK g \in [1 .. n + 1 -> Seq(S)] : Concats(g, tt)  BY <1>1, ConcatsExist
<1> HIDE DEF n, tt
<1>4. \A i \in 1 .. n : f[i] = g[i]
  <2>1. n \in Nat /\ n <= Len(tt) /\ Len(tt) \in Nat  BY <1>1
  <2>4. Agree(ss, tt, n)  BY <1>1 DEF Agree
  <2>2. ConcatsUpTo(f, ss, n)  BY <1>1, <1>2, ConcatsUpToEnd DEF n
  <2>3. ConcatsUpTo(g, tt, n)  BY <1>1, <1>3, <2>1, ConcatsUpToEnd
  <2>5. Agree(f, g, n)  BY <2>1, <2>2, <2>3, <2>4, ConcatsAgree
  <2>. QED  BY <2>5 DEF Agree
<1>5. FlattenSeq(ss) = IF n = 0 THEN <<>> ELSE f[n]  BY <1>2, FlattenIs DEF n
<1>6. FlattenSeq(tt) = g[n + 1]  BY <1>1, <1>3, FlattenIs
<1>7. g[n + 1] = IF n = 0 THEN s ELSE g[n] \o s
  <2>1. n + 1 \in 1 .. Len(tt) /\ (n + 1) - 1 = n /\ (n + 1 = 1 <=> n = 0)  BY <1>1
  <2>2. g[n + 1] = IF n + 1 = 1 THEN tt[n + 1] ELSE g[(n + 1) - 1] \o tt[n + 1]
    BY <1>3, <2>1 DEF Concats
  <2>. QED  BY <1>1, <2>1, <2>2
<1>8. CASE n = 0
  BY <1>5, <1>6, <1>7, <1>8, ConcatEmptySeq DEF tt
<1>9. CASE n # 0
  <2>1. f[n] \in Seq(S) /\ f[n] = g[n]  BY <1>1, <1>2, <1>4, <1>9
  <2>. QED  BY <1>5, <1>6, <1>7, <1>9, <2>1 DEF tt
<1>. QED  BY <1>8, <1>9

\* A prefix one longer is the prefix and one element.
LEMMA LongerPrefix ==
  ASSUME NEW S, NEW s \in Seq(S), NEW n \in 1 .. Len(s)
  PROVE  SubSeq(s, 1, n) = Append(SubSeq(s, 1, n - 1), s[n])
<1>1. 1 \in 1 .. Len(s) /\ n \in 1 .. Len(s) /\ s[n] \in S  BY ElementOfSeq
<1>2. SubSeq(s, 1, n) = SubSeq(s, 1, n - 1) \o <<s[n]>>  BY <1>1, SubSeqRecursiveSecond
<1>3. SubSeq(s, 1, n - 1) \in Seq(S)
  <2>1. n - 1 \in Int /\ \A i \in 1 .. n - 1 : s[i] \in S  BY ElementOfSeq
  <2>. QED  BY <2>1, SubSeqProperties
<1>. QED  BY <1>1, <1>2, <1>3, AppendIsConcat

LEMMA FlattenConcat ==
  ASSUME NEW S, NEW ss \in Seq(Seq(S)), NEW tt \in Seq(Seq(S))
  PROVE  FlattenSeq(ss \o tt) = FlattenSeq(ss) \o FlattenSeq(tt)
<1> DEFINE N == Len(tt)
           pre(k) == SubSeq(tt, 1, k)
           T == {k \in Nat : k <= N => FlattenSeq(ss \o pre(k)) = FlattenSeq(ss) \o FlattenSeq(pre(k))}
<1>1. N \in Nat /\ pre(0) = <<>> /\ pre(N) = tt  BY LenProperties, SubSeqEmpty, SubSeqFull
<1>2. 0 \in T
  <2>1. ss \o pre(0) = ss  BY <1>1, ConcatEmptySeq
  <2>2. FlattenSeq(ss) \in Seq(S)
    <3>1. <<>> \in Seq(S)  BY EmptySeq
    <3>. QED  BY <3>1, FlattenAppend
  <2>. QED  BY <1>1, <2>1, <2>2, FlattenEmpty, ConcatEmptySeq
<1>3. ASSUME NEW k \in T PROVE k + 1 \in T
  <2> SUFFICES ASSUME k + 1 <= N
               PROVE  FlattenSeq(ss \o pre(k + 1)) = FlattenSeq(ss) \o FlattenSeq(pre(k + 1))
    BY <1>3
  <2>1. /\ k \in Nat /\ k + 1 \in 1 .. Len(tt) /\ (k + 1) - 1 = k
        /\ FlattenSeq(ss \o pre(k)) = FlattenSeq(ss) \o FlattenSeq(pre(k))
    BY <1>1, <1>3
  <2> DEFINE p == SubSeq(tt, 1, k)
             s == tt[k + 1]
  <2>2. s \in Seq(S)  BY <2>1, ElementOfSeq
  <2>3. p \in Seq(Seq(S))
    <3>1. k \in Int /\ \A i \in 1 .. k : tt[i] \in Seq(S)  BY <2>1, ElementOfSeq
    <3>. QED  BY <3>1, SubSeqProperties
  <2>4. pre(k + 1) = Append(p, s)  BY <2>1, LongerPrefix
  <2>5. FlattenSeq(ss \o p) = FlattenSeq(ss) \o FlattenSeq(p)  BY <2>1
  <2> HIDE DEF p, s, pre
  <2>6. ss \o Append(p, s) = Append(ss \o p, s) /\ ss \o p \in Seq(Seq(S))
    <3>1. /\ Append(p, s) = p \o <<s>> /\ <<s>> \in Seq(Seq(S))
      BY <2>2, <2>3, AppendIsConcat
    <3>2. ss \o p \in Seq(Seq(S))  BY <2>3, ConcatProperties
    <3>3. Append(ss \o p, s) = (ss \o p) \o <<s>>  BY <2>2, <3>2, AppendIsConcat
    <3>4. (ss \o p) \o <<s>> = ss \o (p \o <<s>>)  BY ONLY ss \in Seq(Seq(S)), <2>3, <3>1, ConcatAssociative
    <3>. QED  BY <3>1, <3>2, <3>3, <3>4
  <2>7. /\ FlattenSeq(Append(ss \o p, s)) = FlattenSeq(ss \o p) \o s
        /\ FlattenSeq(Append(p, s)) = FlattenSeq(p) \o s
        /\ FlattenSeq(ss) \in Seq(S) /\ FlattenSeq(p) \in Seq(S)
    BY <2>2, <2>3, <2>6, FlattenAppend
  <2>8. (FlattenSeq(ss) \o FlattenSeq(p)) \o s = FlattenSeq(ss) \o (FlattenSeq(p) \o s)
  <3> DEFINE a == FlattenSeq(ss)
             b == FlattenSeq(p)
  <3>1. a \in Seq(S) /\ b \in Seq(S) /\ s \in Seq(S)  BY <2>2, <2>7
  <3> HIDE DEF a, b
  <3>2. (a \o b) \o s = a \o (b \o s)  BY ONLY <3>1, ConcatAssociative
  <3>. QED  BY <3>2 DEF a, b
  <2>. QED  BY <2>4, <2>5, <2>6, <2>7, <2>8
<1>4. T = Nat
  <2>1. T \in SUBSET Nat  OBVIOUS
  <2> HIDE DEF T
  <2>. QED  BY <1>2, <1>3, <2>1, SetInduction
<1>5. N \in T /\ N <= N  BY <1>1, <1>4
<1>. QED  BY <1>1, <1>5

(***************************************************************************)
(* Where the sequences begin and end in what they are joined to.           *)
(***************************************************************************)
EndOf(ss, k) == Len(FlattenSeq(SubSeq(ss, 1, k)))

LEMMA PrefixType ==
  ASSUME NEW S, NEW s \in Seq(S), NEW k \in 0 .. Len(s)
  PROVE  SubSeq(s, 1, k) \in Seq(S) /\ Len(SubSeq(s, 1, k)) = k
<1>1. k \in Int /\ 1 \in Int /\ k >= 0 /\ \A i \in 1 .. k : s[i] \in S
  BY LenProperties, ElementOfSeq
<1>. QED  BY <1>1, SubSeqProperties

LEMMA SuffixType ==
  ASSUME NEW S, NEW s \in Seq(S), NEW k \in 0 .. Len(s)
  PROVE  /\ SubSeq(s, k + 1, Len(s)) \in Seq(S)
         /\ SubSeq(s, 1, k) \o SubSeq(s, k + 1, Len(s)) = s
<1> DEFINE m == k + 1
           l == Len(s)
<1>1. m \in Int /\ l \in Int /\ \A i \in m .. l : s[i] \in S  BY LenProperties, ElementOfSeq
<1>2. 1 \in 1 .. l + 1 /\ k \in 1 - 1 .. l /\ l \in k .. l  BY LenProperties
<1> HIDE DEF m, l
<1>3. SubSeq(s, m, l) \in Seq(S)  BY <1>1, SubSeqProperties
<1>4. SubSeq(s, 1, k) \o SubSeq(s, k + 1, l) = SubSeq(s, 1, l)
  BY <1>2, ConcatAdjacentSubSeq DEF l
<1>. QED  BY <1>3, <1>4, SubSeqFull DEF m, l

LEMMA EndOfType ==
  ASSUME NEW S, NEW ss \in Seq(Seq(S)), NEW k \in 0 .. Len(ss)
  PROVE  EndOf(ss, k) \in Nat
<1>1. SubSeq(ss, 1, k) \in Seq(Seq(S))  BY PrefixType
<1>2. <<>> \in Seq(S)  BY EmptySeq
<1>3. FlattenSeq(SubSeq(ss, 1, k)) \in Seq(S)  BY <1>1, <1>2, FlattenAppend
<1>. QED  BY <1>3, LenProperties DEF EndOf

LEMMA FlattenPlaces ==
  ASSUME NEW S, NEW ss \in Seq(Seq(S)), NEW k \in 1 .. Len(ss)
  PROVE  /\ EndOf(ss, k) = EndOf(ss, k - 1) + Len(ss[k])
         /\ \A m \in 1 .. Len(ss[k]) : FlattenSeq(ss)[EndOf(ss, k - 1) + m] = ss[k][m]
<1> DEFINE a == SubSeq(ss, 1, k - 1)
           b == SubSeq(ss, k + 1, Len(ss))
           s == ss[k]
<1>1. Len(ss) \in Nat /\ k \in 0 .. Len(ss) /\ k - 1 \in 0 .. Len(ss)  BY LenProperties
<1>2. a \in Seq(Seq(S)) /\ b \in Seq(Seq(S)) /\ s \in Seq(S)
  BY <1>1, PrefixType, SuffixType, ElementOfSeq
<1>3. SubSeq(ss, 1, k) = Append(a, s)  BY LongerPrefix
<1>4. ss = Append(a, s) \o b  BY <1>1, <1>3, SuffixType
<1> HIDE DEF a, b, s
<1>5. Append(a, s) \in Seq(Seq(S))  BY <1>2, AppendProperties
<1> DEFINE x == FlattenSeq(a)
           y == FlattenSeq(b)
           z == FlattenSeq(Append(a, s))
<1>6. x \in Seq(S) /\ z = x \o s  BY <1>2, FlattenAppend
<1>7. y \in Seq(S) /\ z \in Seq(S)  BY <1>2, <1>5, FlattenAppend
<1>8. FlattenSeq(Append(a, s) \o b) = z \o y  BY ONLY <1>2, <1>5, FlattenConcat
<1>9. FlattenSeq(ss) = z \o y  BY <1>4, <1>8
<1>10. EndOf(ss, k - 1) = Len(x) /\ EndOf(ss, k) = Len(z)  BY <1>3 DEF EndOf, a
<1> HIDE DEF x, y, z
<1>11. Len(z) = Len(x) + Len(s) /\ Len(x) \in Nat /\ Len(s) \in Nat /\ Len(y) \in Nat
       /\ \A m \in 1 .. Len(x) + Len(s) : (x \o s)[m] = IF m <= Len(x) THEN x[m] ELSE s[m - Len(x)]
  BY <1>2, <1>6, <1>7, ConcatProperties, LenProperties
<1>12. \A m \in 1 .. Len(z) + Len(y) : (z \o y)[m] = IF m <= Len(z) THEN z[m] ELSE y[m - Len(z)]
  BY <1>7, ConcatProperties
<1>13. ASSUME NEW m \in 1 .. Len(s) PROVE FlattenSeq(ss)[Len(x) + m] = s[m]
  <2>1. /\ Len(x) + m \in 1 .. Len(x) + Len(s) /\ Len(x) + m \in 1 .. Len(z) + Len(y)
        /\ Len(x) + m <= Len(z) /\ ~(Len(x) + m <= Len(x)) /\ (Len(x) + m) - Len(x) = m
    BY <1>11
  <2>. QED  BY <1>6, <1>9, <1>11, <1>12, <2>1
<1>. QED  BY <1>10, <1>11, <1>13 DEF s

LEMMA FlattenEnds ==
  ASSUME NEW S, NEW ss \in Seq(Seq(S))
  PROVE  EndOf(ss, 0) = 0 /\ EndOf(ss, Len(ss)) = Len(FlattenSeq(ss))
<1>1. SubSeq(ss, 1, 0) = <<>> /\ SubSeq(ss, 1, Len(ss)) = ss  BY SubSeqEmpty, SubSeqFull
<1>2. Len(<<>>) = 0  BY EmptySeq
<1>. QED  BY <1>1, <1>2, FlattenEmpty DEF EndOf

LEMMA EndsInOrder ==
  ASSUME NEW S, NEW ss \in Seq(Seq(S)), NEW k \in 0 .. Len(ss), NEW i \in 0 .. k
  PROVE  EndOf(ss, i) <= EndOf(ss, k)
<1> DEFINE N == Len(ss)
           T == {d \in Nat : i + d <= N => EndOf(ss, i) <= EndOf(ss, i + d)}
<1>1. N \in Nat /\ i \in 0 .. N  BY LenProperties
<1>2. 0 \in T
  <2>1. EndOf(ss, i) \in Nat  BY <1>1, EndOfType
  <2>. QED  BY <2>1
<1>3. ASSUME NEW d \in T PROVE d + 1 \in T
  <2> SUFFICES ASSUME i + (d + 1) <= N PROVE EndOf(ss, i) <= EndOf(ss, i + (d + 1))  BY <1>3
  <2> DEFINE n == i + (d + 1)
  <2>1. n \in 1 .. Len(ss) /\ n - 1 = i + d /\ n - 1 \in 0 .. Len(ss) /\ EndOf(ss, i) <= EndOf(ss, n - 1)
    BY <1>1, <1>3
  <2> HIDE DEF n, T
  <2>2. EndOf(ss, n) = EndOf(ss, n - 1) + Len(ss[n])  BY <2>1, FlattenPlaces
  <2>3. Len(ss[n]) \in Nat /\ EndOf(ss, n - 1) \in Nat /\ EndOf(ss, i) \in Nat
    <3>1. ss[n] \in Seq(S)  BY <2>1, ElementOfSeq
    <3>. QED  BY <1>1, <2>1, <3>1, LenProperties, EndOfType
  <2>4. EndOf(ss, i) <= EndOf(ss, n)  BY <2>1, <2>2, <2>3
  <2>. QED  BY <2>4 DEF n
<1>4. T = Nat
  <2>1. T \in SUBSET Nat  OBVIOUS
  <2> HIDE DEF T
  <2>. QED  BY <1>2, <1>3, <2>1, SetInduction
<1>5. k - i \in Nat /\ i + (k - i) = k /\ i + (k - i) <= N
  <2>1. k \in Nat /\ k <= N /\ i \in Nat /\ i <= k  BY <1>1
  <2>. QED  BY ONLY <2>1
<1> DEFINE d == k - i
<1>6. d \in T  BY <1>4, <1>5
<1> HIDE DEF d
<1>7. i + d <= N => EndOf(ss, i) <= EndOf(ss, i + d)  BY <1>6
<1>. QED  BY <1>5, <1>7 DEF d

\* Every place belongs to one of them.
LEMMA PlaceIsIn ==
  ASSUME NEW S, NEW ss \in Seq(Seq(S)), NEW p \in 1 .. Len(FlattenSeq(ss))
  PROVE  \E k \in 1 .. Len(ss) : p - EndOf(ss, k - 1) \in 1 .. Len(ss[k])
<1> DEFINE N == Len(ss)
           T == {k \in 0 .. N : p <= EndOf(ss, k)}
<1>1. N \in Nat /\ p <= EndOf(ss, N) /\ EndOf(ss, 0) = 0 /\ p \in Nat /\ p > 0
  <2>1. Len(FlattenSeq(ss)) = EndOf(ss, N) /\ EndOf(ss, 0) = 0  BY FlattenEnds
  <2>2. N \in Nat /\ N \in 0 .. N  BY LenProperties
  <2>3. EndOf(ss, N) \in Nat  BY <2>2, EndOfType
  <2>. QED  BY <2>1, <2>2, <2>3
<1>2. T \in SUBSET Nat /\ N \in T  BY <1>1
<1>3. PICK k \in T : \A i \in T : k <= i
  <2> HIDE DEF T
  <2>. QED  BY <1>2, LeastElement
<1>4. k \in 1 .. N /\ p <= EndOf(ss, k) /\ k - 1 \in 0 .. N
  <2>1. k # 0  BY <1>1
  <2>. QED  BY <1>1, <2>1
<1>5. k - 1 \notin T  BY <1>3, <1>4
<1>6. ~(p <= EndOf(ss, k - 1))  BY <1>4, <1>5
<1> HIDE DEF T, N
<1>7. EndOf(ss, k) = EndOf(ss, k - 1) + Len(ss[k])  BY <1>4, FlattenPlaces DEF N
<1>8. EndOf(ss, k - 1) \in Nat /\ Len(ss[k]) \in Nat
  <2>1. ss[k] \in Seq(S)  BY <1>4, ElementOfSeq DEF N
  <2>. QED  BY <1>4, <2>1, EndOfType, LenProperties DEF N
<1>9. p - EndOf(ss, k - 1) \in 1 .. Len(ss[k])  BY <1>1, <1>4, <1>6, <1>7, <1>8
<1>. QED  BY <1>4, <1>9 DEF N
=============================================================================
