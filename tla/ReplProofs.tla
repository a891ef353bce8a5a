----------------------------- MODULE ReplProofs -----------------------------
(***************************************************************************)
(* What Repl promises, for every buffer, store and vocabulary.             *)
(***************************************************************************)
EXTENDS Repl, DataLemmas, SequenceTheorems

Entry == [key : Names \ LongNames, text : TextType]

-----------------------------------------------------------------------------
(* The length of joined lines. *)

Weight(ls) == [n \in 1 .. Len(ls) |-> LineLen[ls[n]] + (IF n > 1 THEN 1 ELSE 0)]

(***************************************************************************)
(* LenTo, the recursion that adds up the lines of the buffer and their     *)
(* newlines (sage_bridge.h, ml_len), is the sum it was meant to be.        *)
(***************************************************************************)
LEMMA LenToSums ==
  ASSUME NEW ls \in Seq(Lines)
  PROVE  /\ LenTo(ls) \in [0 .. Len(ls) -> Nat]
         /\ SumsTo(LenTo(ls), Len(ls), Weight(ls))
<1> DEFINE N == Len(ls)
           Step(g, n) == IF n = 0 THEN 0
                         ELSE g[n - 1] + LineLen[ls[n]] + (IF n > 1 THEN 1 ELSE 0)
           Rec(g) == g = [n \in 0 .. N |-> Step(g, n)]
<1>1. N \in Nat /\ \A n \in 1 .. N : ls[n] \in Lines  BY LenProperties, ElementOfSeq
<1>2. \A n \in 1 .. N : LineLen[ls[n]] \in Nat  BY <1>1, ReplAssumption
<1>3. \A n \in 1 .. N : Weight(ls)[n] = LineLen[ls[n]] + (IF n > 1 THEN 1 ELSE 0)
                        /\ Weight(ls)[n] \in Nat  BY <1>2 DEF Weight
<1>4. PICK f \in [0 .. N -> Nat] : SumsTo(f, N, Weight(ls))  BY <1>1, <1>3, SumsExist
<1>5. Rec(f)
  <2>1. ASSUME NEW n \in 0 .. N PROVE f[n] = Step(f, n)
    <3>1. CASE n = 0  BY <1>4, <3>1 DEF SumsTo
    <3>2. CASE n # 0
      <4>1. n \in 1 .. N /\ n - 1 \in 0 .. N  BY <1>1, <3>2
      <4>2. f[n] = f[n - 1] + Weight(ls)[n]  BY <1>4, <4>1 DEF SumsTo
      <4>3. Weight(ls)[n] = LineLen[ls[n]] + (IF n > 1 THEN 1 ELSE 0)  BY <1>3, <4>1
      <4>4. f[n - 1] \in Nat /\ LineLen[ls[n]] \in Nat  BY <1>2, <1>4, <4>1
      <4>. QED  BY <3>2, <4>2, <4>3, <4>4
    <3>. QED  BY <3>1, <3>2
  <2>2. f = [n \in 0 .. N |-> f[n]]  BY <1>4
  <2>. QED  BY <2>1, <2>2
<1>6. LenTo(ls) = CHOOSE g : Rec(g)  BY DEF LenTo
<1> HIDE DEF Rec
<1>7. Rec(LenTo(ls))  BY <1>5, <1>6
<1> DEFINE g == LenTo(ls)
<1> HIDE DEF g
<1>8. g = [n \in 0 .. N |-> Step(g, n)]  BY <1>7 DEF Rec, g
<1>9. \A n \in 0 .. N : g[n] = Step(g, n)  BY <1>8
<1>10. \A n \in 0 .. N : g[n] = f[n]
  <2> DEFINE S == {n \in Nat : n <= N => g[n] = f[n]}
  <2>1. 0 \in S  BY <1>1, <1>4, <1>9 DEF SumsTo
  <2>2. ASSUME NEW n \in S PROVE n + 1 \in S
    <3> SUFFICES ASSUME n + 1 <= N PROVE g[n + 1] = f[n + 1]  BY <2>2
    <3>1. n \in Nat /\ n + 1 \in 0 .. N /\ n + 1 \in 1 .. N /\ g[n] = f[n] /\ (n + 1) - 1 = n
      BY <1>1, <2>2
    <3>2. g[n + 1] = Step(g, n + 1) /\ f[n + 1] = Step(f, n + 1)
      BY <1>5, <1>9, <3>1 DEF Rec
    <3>. QED  BY <3>1, <3>2
  <2> HIDE DEF S
  <2>3. S = Nat  BY <2>1, <2>2, SetInduction DEF S
  <2>. QED  BY <2>3, <1>1 DEF S
<1>11. g = f  BY <1>4, <1>8, <1>10
<1>. QED  BY <1>4, <1>11 DEF g

(***************************************************************************)
(* The empty buffer has no length; a line joined to it (the newline goes   *)
(* in front of a line that is not the first) adds its own and the          *)
(* newline's; and only the empty buffer has no length.                     *)
(***************************************************************************)
LEMMA JoinedEmpty == JoinedLen(<<>>) = 0
<1>1. <<>> \in Seq(Lines) /\ Len(<<>>) = 0  BY EmptySeq
<1>2. SumsTo(LenTo(<<>>), 0, Weight(<<>>))  BY <1>1, LenToSums
<1>. QED  BY <1>1, <1>2 DEF JoinedLen, SumsTo

LEMMA JoinedAppend ==
  ASSUME NEW ls \in Seq(Lines), NEW l \in Lines
  PROVE  /\ JoinedLen(ls) \in Nat
         /\ JoinedLen(Append(ls, l)) = JoinedLen(ls) + LineLen[l] + (IF ls = <<>> THEN 0 ELSE 1)
<1> DEFINE n == Len(ls)
           ms == Append(ls, l)
<1>1. /\ n \in Nat /\ ms \in Seq(Lines) /\ Len(ms) = n + 1 /\ ms[n + 1] = l
      /\ \A i \in 1 .. n : ms[i] = ls[i]
  BY LenProperties, AppendProperties
<1>2. n = 0 <=> ls = <<>>  BY EmptySeq
<1>3. /\ LenTo(ls) \in [0 .. n -> Nat] /\ SumsTo(LenTo(ls), n, Weight(ls))
      /\ SumsTo(LenTo(ms), n + 1, Weight(ms))
  BY <1>1, LenToSums
<1> HIDE DEF ms
<1>4. \A i \in 1 .. n : Weight(ls)[i] = Weight(ms)[i]
  <2>1. \A i \in 1 .. n : i \in 1 .. Len(ms)  BY <1>1
  <2>. QED  BY <1>1, <2>1 DEF Weight
<1>5. \A i \in 0 .. n : LenTo(ls)[i] = LenTo(ms)[i]
  <2> DEFINE v == Weight(ls)
             w == Weight(ms)
             f == LenTo(ls)
             g == LenTo(ms)
             m == n + 1
  <2>1. n \in Nat /\ m \in Nat /\ n <= m  BY <1>1
  <2>2. SumsTo(f, n, v) /\ SumsTo(g, m, w) /\ \A i \in 1 .. n : v[i] = w[i]  BY <1>3, <1>4
  <2> HIDE DEF n, m, v, w, f, g
  <2>3. \A i \in 0 .. n : f[i] = g[i]  BY ONLY <2>1, <2>2, SumsAgree
  <2>. QED  BY <2>3 DEF f, g
<1>6. LenTo(ms)[n + 1] = LenTo(ms)[(n + 1) - 1] + Weight(ms)[n + 1]
  <2>1. n + 1 \in 1 .. n + 1  BY <1>1
  <2>. QED  BY <2>1, <1>3 DEF SumsTo
<1>7. Weight(ms)[n + 1] = LineLen[l] + (IF n + 1 > 1 THEN 1 ELSE 0)  BY <1>1 DEF Weight
<1>8. LineLen[l] \in Nat  BY ReplAssumption
<1>9. LenTo(ls)[n] \in Nat /\ LenTo(ms)[(n + 1) - 1] = LenTo(ls)[n]  BY <1>1, <1>3, <1>5
<1>10. JoinedLen(ls) = LenTo(ls)[n] /\ JoinedLen(ms) = LenTo(ms)[n + 1]
  BY <1>1 DEF JoinedLen
<1>11. JoinedLen(ms) = JoinedLen(ls) + LineLen[l] + (IF ls = <<>> THEN 0 ELSE 1)
  BY <1>1, <1>2, <1>6, <1>7, <1>8, <1>9, <1>10
<1>. QED  BY <1>9, <1>10, <1>11 DEF ms

LEMMA JoinedPositive ==
  ASSUME NEW ls \in Seq(Lines)
  PROVE  JoinedLen(ls) \in Nat /\ (JoinedLen(ls) = 0 <=> ls = <<>>)
<1>1. CASE ls = <<>>  BY <1>1, JoinedEmpty
<1>2. CASE ls # <<>>
  <2>1. PICK s \in Seq(Lines), l \in Lines : ls = Append(s, l)
    BY <1>2, SequenceEmptyOrAppend
  <2>2. JoinedLen(s) \in Nat /\ LineLen[l] \in Nat \ {0}  BY JoinedAppend, ReplAssumption
  <2>. QED  BY <1>2, <2>1, <2>2, JoinedAppend
<1>. QED  BY <1>1, <1>2

LEMMA JoinedOne ==
  ASSUME NEW l \in Lines
  PROVE  <<l>> \in Seq(Lines) /\ JoinedLen(<<l>>) = LineLen[l]
<1>1. <<>> \in Seq(Lines) /\ Append(<<>>, l) = <<l>>  BY EmptySeq
<1>2. LineLen[l] \in Nat  BY ReplAssumption
<1>3. JoinedLen(<<l>>) = 0 + LineLen[l] + 0  BY <1>1, JoinedAppend, JoinedEmpty
<1>. QED  BY <1>2, <1>3

-----------------------------------------------------------------------------
(* The store. *)

(***************************************************************************)
(* A lookup (flash_store_find) of a key that is stored finds an entry of   *)
(* that key, and no earlier entry has it.                                  *)
(***************************************************************************)
FirstIn(lg, k) ==
  CHOOSE i \in DOMAIN lg : lg[i].key = k /\ \A j \in DOMAIN lg : lg[j].key = k => i <= j

LEMMA FirstOfKey ==
  ASSUME NEW lg \in Seq(Entry), NEW k, \E i \in DOMAIN lg : lg[i].key = k
  PROVE  /\ FirstIn(lg, k) \in 1 .. Len(lg) /\ lg[FirstIn(lg, k)].key = k
         /\ \A j \in 1 .. Len(lg) : lg[j].key = k => FirstIn(lg, k) <= j
<1> DEFINE S == {i \in 1 .. Len(lg) : lg[i].key = k}
           First(f) == /\ f \in DOMAIN lg /\ lg[f].key = k
                       /\ \A j \in DOMAIN lg : lg[j].key = k => f <= j
<1>1. Len(lg) \in Nat /\ DOMAIN lg = 1 .. Len(lg)  BY LenProperties
<1>2. S \in SUBSET Nat /\ S # {}  BY <1>1
<1>3. PICK m \in S : \A i \in S : m <= i  BY <1>2, LeastElement
<1>4. First(m)  BY <1>1, <1>3
<1>5. First(FirstIn(lg, k))  BY <1>4 DEF FirstIn
<1>. QED  BY <1>1, <1>5

LEMMA FirstEntryFound ==
  ASSUME log \in Seq(Entry), NEW k, Stored(k)
  PROVE  /\ FirstEntry(k) \in 1 .. Len(log) /\ log[FirstEntry(k)].key = k
         /\ \A j \in 1 .. Len(log) : log[j].key = k => FirstEntry(k) <= j
<1>1. \E i \in DOMAIN log : log[i].key = k  BY DEF Stored
<1>2. FirstEntry(k) = FirstIn(log, k)  BY DEF FirstEntry, FirstIn
<1>. QED  BY <1>1, <1>2, FirstOfKey

(***************************************************************************)
(* A lookup returns a text of the store.                                   *)
(***************************************************************************)
LEMMA LookupType ==
  ASSUME log \in Seq(Entry), NEW k, Stored(k)
  PROVE  Lookup(k) \in TextType
<1>1. FirstEntry(k) \in 1 .. Len(log)  BY FirstEntryFound
<1>2. log[FirstEntry(k)] \in Entry  BY <1>1, ElementOfSeq
<1>. QED  BY <1>2 DEF Lookup, Entry

(***************************************************************************)
(* What an entry that a compaction keeps may rely on: flash_store_put      *)
(* leaves it where it is.                                                  *)
(***************************************************************************)
KeepsPrefix ==
  \A i \in 1 .. Len(log) : i <= LogCap => i \in 1 .. Len(log)' /\ log'[i] = log[i]

LEMMA PutKeepsPrefix ==
  ASSUME log \in Seq(Entry), NEW k \in Names, NEW t \in TextType, StorePut(k, t)
  PROVE  /\ log' \in Seq(Entry) /\ KeepsPrefix
         /\ Storable(k, t) => /\ Len(log)' = (IF Len(log) < LogCap THEN Len(log) ELSE LogCap) + 1
                              /\ log'[Len(log)'] = [key |-> k, text |-> t]
<1> DEFINE n == IF Len(log) < LogCap THEN Len(log) ELSE LogCap
           e == [key |-> k, text |-> t]
<1>1. /\ Len(log) \in Nat /\ LogCap \in Nat /\ n \in Nat /\ n <= Len(log)
      /\ \A i \in 1 .. Len(log) : log[i] \in Entry /\ (i <= LogCap => i <= n)
  BY LenProperties, ElementOfSeq, ReplAssumption
<1>2. CASE Storable(k, t)
  <2>1. log' = Append(Kept, e)  BY <1>2 DEF StorePut
  <2>2. /\ Kept \in Seq(Entry) /\ Len(Kept) = n
        /\ \A i \in 1 .. n : Kept[i] = log[i]
    <3>1. n \in Int /\ 1 \in Int /\ \A i \in 1 .. n : log[i] \in Entry  BY <1>1
    <3>2. /\ SubSeq(log, 1, n) \in Seq(Entry)
          /\ Len(SubSeq(log, 1, n)) = IF 1 <= n THEN n - 1 + 1 ELSE 0
          /\ \A i \in 1 .. n - 1 + 1 : SubSeq(log, 1, n)[i] = log[1 + i - 1]
      BY <3>1, SubSeqProperties
    <3>3. Kept = SubSeq(log, 1, n)  BY DEF Kept
    <3> HIDE DEF n
    <3>. QED  BY <1>1, <3>2, <3>3
  <2>3. e \in Entry  BY <1>2 DEF Storable, Entry
  <2> HIDE DEF n, e
  <2>4. /\ log' \in Seq(Entry) /\ Len(log)' = n + 1 /\ log'[n + 1] = e
        /\ \A i \in 1 .. n : log'[i] = log[i]
    BY <2>1, <2>2, <2>3, AppendProperties
  <2>5. KeepsPrefix  BY <1>1, <2>4 DEF KeepsPrefix
  <2>. QED  BY <2>4, <2>5 DEF n, e
<1>3. CASE ~ Storable(k, t)
  <2>1. log' = log  BY <1>3 DEF StorePut
  <2>. QED  BY <1>1, <1>3, <2>1 DEF KeepsPrefix
<1>. QED  BY <1>2, <1>3

(***************************************************************************)
(* So a lookup that finds a kept entry finds the same text afterwards.     *)
(***************************************************************************)
LEMMA PrefixFreezes ==
  ASSUME log \in Seq(Entry), log' \in Seq(Entry), KeepsPrefix,
         NEW k, Stored(k), FirstEntry(k) <= LogCap
  PROVE  Stored(k)' /\ Lookup(k)' = Lookup(k)
<1> DEFINE f == FirstEntry(k)
<1>1. /\ f \in 1 .. Len(log) /\ log[f].key = k
      /\ \A j \in 1 .. Len(log) : log[j].key = k => f <= j
  BY FirstEntryFound
<1>2. Len(log) \in Nat /\ Len(log)' \in Nat /\ DOMAIN log' = 1 .. Len(log)'
  BY LenProperties
<1>3. f \in 1 .. Len(log)' /\ log'[f] = log[f]  BY <1>1 DEF KeepsPrefix
<1>4. Stored(k)'  BY <1>1, <1>2, <1>3 DEF Stored
<1> DEFINE g == FirstEntry(k)'
<1>5. /\ g \in 1 .. Len(log)' /\ log'[g].key = k
      /\ \A j \in 1 .. Len(log)' : log'[j].key = k => g <= j
  <2>1. \E i \in DOMAIN log' : log'[i].key = k  BY <1>4 DEF Stored
  <2>2. g = FirstIn(log', k)  BY DEF FirstEntry, FirstIn
  <2>. QED  BY <2>1, <2>2, FirstOfKey
<1> HIDE DEF f, g
<1>6. g <= f  BY <1>1, <1>3, <1>5
<1>7. LogCap \in Nat /\ f <= LogCap  BY ReplAssumption DEF f
<1>8. g \in 1 .. Len(log) /\ g <= LogCap  BY <1>1, <1>2, <1>5, <1>6, <1>7
<1>9. log'[g] = log[g]  BY <1>8 DEF KeepsPrefix
<1>10. f = g  BY <1>1, <1>2, <1>5, <1>6, <1>8, <1>9
<1>. QED  BY <1>3, <1>4, <1>10 DEF Lookup, f, g

-----------------------------------------------------------------------------
(* The dictionary. *)

(***************************************************************************)
(* dict_set gives a key its value, adds the key if it is new, and leaves   *)
(* every other variable as it was.                                         *)
(***************************************************************************)
LEMMA DictSetKeeps ==
  ASSUME NEW d \in Seq(VarType), NEW k \in Names \ LongNames, NEW v \in ValueType
  PROVE  /\ DictSet(d, k, v) \in Seq(VarType)
         /\ DictKeys(DictSet(d, k, v)) = DictKeys(d) \cup {k}
         /\ \A i \in DOMAIN DictSet(d, k, v) :
              \/ DictSet(d, k, v)[i] = [key |-> k, val |-> v]
              \/ i \in DOMAIN d /\ DictSet(d, k, v)[i] = d[i]
<1> DEFINE e == [key |-> k, val |-> v]
           r == DictSet(d, k, v)
<1>1. /\ Len(d) \in Nat /\ DOMAIN d = 1 .. Len(d) /\ d \in [1 .. Len(d) -> VarType]
      /\ \A i \in 1 .. Len(d) : d[i] \in VarType
  BY LenProperties, ElementOfSeq
<1>2. e \in VarType  BY DEF VarType
<1>3. CASE \E i \in DOMAIN d : d[i].key = k
  <2>1. r = [i \in 1 .. Len(d) |-> IF d[i].key = k THEN e ELSE d[i]]
    BY <1>1, <1>3 DEF DictSet
  <2> HIDE DEF r, e
  <2>2. r \in [1 .. Len(d) -> VarType]  BY <1>1, <1>2, <2>1
  <2>3. r \in Seq(VarType) /\ DOMAIN r = 1 .. Len(d)  BY <1>1, <2>2, SeqDef
  <2>4. \A i \in 1 .. Len(d) : r[i].key = d[i].key  BY <2>1 DEF e
  <2>5. DictKeys(r) = DictKeys(d) \cup {k}
    <3>1. DictKeys(r) = DictKeys(d)  BY <1>1, <2>3, <2>4 DEF DictKeys
    <3>2. k \in DictKeys(d)  BY <1>3 DEF DictKeys
    <3>. QED  BY <3>1, <3>2
  <2>6. \A i \in DOMAIN r : r[i] = e \/ (i \in DOMAIN d /\ r[i] = d[i])
    BY <1>1, <2>1, <2>3
  <2>. QED  BY <2>3, <2>5, <2>6 DEF r, e
<1>4. CASE ~ \E i \in DOMAIN d : d[i].key = k
  <2>1. r = Append(d, e)  BY <1>4 DEF DictSet
  <2> HIDE DEF r, e
  <2>2. /\ r \in Seq(VarType) /\ Len(r) = Len(d) + 1 /\ r[Len(d) + 1] = e
        /\ \A i \in 1 .. Len(d) : r[i] = d[i]
    BY <1>2, <2>1, AppendProperties
  <2>3. DOMAIN r = 1 .. Len(d) + 1  BY <2>2, LenProperties
  <2>4. DOMAIN r = DOMAIN d \cup {Len(d) + 1}  BY <1>1, <2>3
  <2>5. DictKeys(r) = DictKeys(d) \cup {k}
    <3>1. e.key = k  BY DEF e
    <3>. QED  BY <1>1, <2>2, <2>4, <3>1 DEF DictKeys
  <2>6. \A i \in DOMAIN r : r[i] = e \/ (i \in DOMAIN d /\ r[i] = d[i])
    BY <1>1, <2>2, <2>4
  <2>. QED  BY <2>2, <2>5, <2>6 DEF r, e
<1>. QED  BY <1>3, <1>4

(***************************************************************************)
(* A value becomes a text that the store accepts: a number or a boolean is *)
(* formatted into valbuf, a string is cut to it, and valbuf is not larger  *)
(* than a value may be (sage_bridge.h, the loop that persists variables).  *)
(***************************************************************************)
LEMMA TextOfStorable ==
  ASSUME NEW v \in ValueType
  PROVE  TextOf(v) \in TextType /\ TextOf(v).len <= MaxValLen
<1>1. /\ v.text \in TextType /\ v.text.len \in Nat
      /\ v.type \in {"number", "bool"} => v.text.len < ValBuf
  BY DEF ValueType, TextType
<1>2. /\ OtherText \in TextType /\ OtherText.len \in Nat /\ OtherText.len < ValBuf
      /\ ClippedText \in TextType /\ ClippedText.len \in Nat /\ ClippedText.len < ValBuf
  BY ValueAssumption, ReplAssumption DEF TextType
<1>3. ValBuf \in Nat /\ MaxValLen \in Nat /\ ValBuf <= MaxValLen  BY ReplAssumption
<1>4. \/ TextOf(v) = v.text /\ v.text.len < ValBuf
      \/ TextOf(v) = ClippedText
      \/ TextOf(v) = OtherText
  <2>1. CASE v.type = "string"  BY <2>1 DEF TextOf
  <2>2. CASE v.type \in {"number", "bool"}  BY <1>1, <2>2 DEF TextOf
  <2>3. CASE v.type \notin {"number", "bool", "string"}  BY <2>3 DEF TextOf
  <2>. QED  BY <2>1, <2>2, <2>3
<1>. QED  BY <1>1, <1>2, <1>3, <1>4

(***************************************************************************)
(* The keys that are listed are those of the first entries of the log.     *)
(***************************************************************************)
LEMMA ListedProperties ==
  ASSUME log \in Seq(Entry)
  PROVE  /\ Len(Listed) = IF Len(log) < KeysMax THEN Len(log) ELSE KeysMax
         /\ Len(Listed) \in Nat /\ DOMAIN Listed = 1 .. Len(Listed)
         /\ \A i \in 1 .. Len(Listed) :
              /\ i \in 1 .. Len(log) /\ Listed[i] = log[i].key
              /\ Listed[i] \in Names \ LongNames /\ Stored(Listed[i])
<1> DEFINE n == IF Len(log) < KeysMax THEN Len(log) ELSE KeysMax
<1>1. /\ Len(log) \in Nat /\ DOMAIN log = 1 .. Len(log) /\ n \in Nat
      /\ \A i \in 1 .. n : i \in 1 .. Len(log)
      /\ \A i \in 1 .. Len(log) : log[i] \in Entry
  BY LenProperties, ElementOfSeq, ReplAssumption
<1>2. \A i \in 1 .. n : log[i].key \in Names \ LongNames /\ Stored(log[i].key)
  BY <1>1 DEF Entry, Stored
<1>3. Listed = [i \in 1 .. n |-> log[i].key]  BY DEF Listed
<1> HIDE DEF n
<1>4. Listed \in [1 .. n -> Names \ LongNames]  BY <1>2, <1>3
<1>5. Len(Listed) = n /\ DOMAIN Listed = 1 .. n
  <2>1. Listed \in Seq(Names \ LongNames)  BY <1>1, <1>4, SeqDef
  <2>2. Len(Listed) \in Nat /\ DOMAIN Listed = 1 .. Len(Listed)  BY <2>1, LenProperties
  <2>. QED  BY <1>1, <1>4, <2>2
<1>. QED  BY <1>1, <1>2, <1>3, <1>5 DEF n

-----------------------------------------------------------------------------
(* Types and the multi-line buffer. *)

\* In multi-line mode the buffer holds a line, whatever loop is running.
MultilineHasText == in_multiline => ml_len > 0

BufferInv == TypeOK /\ BufferExact /\ MultilineHasText

(***************************************************************************)
(* The store keeps its type and its kept entries through every step: only  *)
(* flash_store_put writes it, called by flash_save, flash_del, save and    *)
(* the loop that persists the variables.                                   *)
(***************************************************************************)
LEMMA LogStep ==
  ASSUME BufferInv, [Next]_all
  PROVE  log' \in Seq(Entry) /\ KeepsPrefix
<1>1. /\ log \in Seq(Entry) /\ buf \in Seq(Lines) /\ ml_len \in Nat
      /\ vars \in Seq(VarType) /\ next \in Nat \ {0} /\ ml_len = JoinedLen(buf)
  BY DEF BufferInv, TypeOK, BufferExact, Entry
<1>2. ApiKeys \subseteq Names  BY ReplAssumption
<1>3. CASE UNCHANGED log
  <2>1. \A i \in 1 .. Len(log) : i \in 1 .. Len(log)' /\ log'[i] = log[i]  BY <1>3
  <2>. QED  BY <1>1, <1>3, <2>1 DEF KeepsPrefix
<1>4. ASSUME NEW k \in ApiKeys, NEW v \in Literals, FlashSave(k, v.text)
      PROVE  log' \in Seq(Entry) /\ KeepsPrefix
  <2>1. v.text \in TextType  BY ValueAssumption DEF ValueType
  <2>2. StorePut(k, v.text)  BY <1>4 DEF FlashSave
  <2>. QED  BY <1>1, <1>2, <2>1, <2>2, PutKeepsPrefix
<1>5. EmptyText \in TextType
  BY JoinedEmpty, EmptySeq DEF EmptyText, Text, TextType
<1>6. ASSUME NEW k \in ApiKeys, FlashDel(k)  PROVE  log' \in Seq(Entry) /\ KeepsPrefix
  <2>1. StorePut(k, EmptyText)  BY <1>6 DEF FlashDel, FlashSave
  <2>. QED  BY <1>1, <1>2, <1>5, <2>1, PutKeepsPrefix
<1>7. ASSUME NEW k \in Names, Save(k)  PROVE  log' \in Seq(Entry) /\ KeepsPrefix
  <2>1. Text(buf, ml_len) \in TextType  BY <1>1 DEF Text, TextType
  <2>2. StorePut(k, Text(buf, ml_len))  BY <1>7 DEF Save
  <2>. QED  BY <1>1, <2>1, <2>2, PutKeepsPrefix
<1>8. CASE PersistVar
  <2>1. next \in 1 .. Len(vars)  BY <1>1, <1>8, LenProperties DEF PersistVar
  <2>2. vars[next] \in VarType  BY <1>1, <2>1, ElementOfSeq
  <2>3. vars[next].key \in Names /\ TextOf(vars[next].val) \in TextType
    BY <2>2, TextOfStorable DEF VarType
  <2>4. StorePut(vars[next].key, TextOf(vars[next].val))  BY <1>8 DEF PersistVar
  <2>. QED  BY <1>1, <2>3, <2>4, PutKeepsPrefix
<1>9. \/ UNCHANGED log \/ PersistVar
      \/ \E k \in ApiKeys, v \in Literals : FlashSave(k, v.text)
      \/ \E k \in ApiKeys : FlashDel(k)
      \/ \E k \in Names : Save(k)
  BY DEF Next, all, Enter, RestoreVar, RestoreDone, RunLine, RunDone, Finish, Quit, CtrlC,
         BeginPersist, PersistDone, Reset, Assign, Run, Load, Edit, LoadBuffer,
         BeginMultiline, AddLine, DropLine
<1>. QED  BY <1>3, <1>4, <1>6, <1>7, <1>8, <1>9

(***************************************************************************)
(* A program that is run, loaded or edited is a text of the store.         *)
(***************************************************************************)
LEMMA ProgramType ==
  ASSUME TypeOK, NEW k, HasProgram(k)
  PROVE  /\ Lookup(k).lines \in Seq(Lines) /\ Lookup(k).len \in Nat \ {0}
         /\ Lookup(k).len = JoinedLen(Lookup(k).lines)
<1>1. log \in Seq(Entry) /\ Stored(k) /\ Lookup(k).len > 0
  BY DEF TypeOK, Entry, HasProgram
<1>2. Lookup(k) \in TextType  BY <1>1, LookupType
<1>. QED  BY <1>1, <1>2 DEF TextType

(***************************************************************************)
(* The variables keep their type: an assignment, a line of a program and   *)
(* the loop that restores them go through dict_set.                        *)
(***************************************************************************)
LEMMA VarsStep ==
  ASSUME TypeOK, [Next]_all
  PROVE  vars' \in Seq(VarType) /\ program' \in Seq(Lines)
<1>1. /\ log \in Seq(Entry) /\ vars \in Seq(VarType) /\ program \in Seq(Lines)
      /\ next \in Nat \ {0} /\ <<>> \in Seq(VarType) /\ <<>> \in Seq(Lines)
  BY EmptySeq DEF TypeOK, Entry
<1>2. CASE RestoreVar
  <2>1. next \in 1 .. Len(Listed)  BY <1>1, <1>2, ListedProperties DEF RestoreVar
  <2>2. Listed[next] \in Names \ LongNames /\ Stored(Listed[next])
    BY <1>1, <2>1, ListedProperties
  <2>3. StringValue(Lookup(Listed[next])) \in ValueType
    BY <1>1, <2>2, LookupType DEF StringValue, ValueType
  <2>4. vars' \in Seq(VarType)  BY <1>1, <1>2, <2>2, <2>3, DictSetKeeps DEF RestoreVar
  <2>. QED  BY <1>1, <1>2, <2>4 DEF RestoreVar
<1>3. CASE RunLine
  <2>1. /\ program # <<>> /\ vars' = Eval(vars, Head(program)) /\ program' = Tail(program)
    BY <1>3 DEF RunLine
  <2>2. Head(program) \in Lines /\ program' \in Seq(Lines)
    BY <1>1, <2>1, HeadTailProperties
  <2> DEFINE l == Head(program)
  <2> HIDE DEF l
  <2>3. CASE Binds[l] = NoBinding
    BY <1>1, <2>1, <2>2, <2>3 DEF Eval, l
  <2>4. CASE Binds[l] # NoBinding
    <3>1. Binds[l] \in VarType  BY <2>2, <2>4, ValueAssumption DEF l
    <3>2. Binds[l].key \in Names \ LongNames /\ Binds[l].val \in ValueType
      BY <3>1 DEF VarType
    <3>3. vars' = DictSet(vars, Binds[l].key, Binds[l].val)  BY <2>1, <2>4 DEF Eval, l
    <3>. QED  BY <1>1, <2>2, <3>2, <3>3, DictSetKeeps
  <2>. QED  BY <2>3, <2>4
<1>4. ASSUME NEW k \in Names \ LongNames, NEW v \in Literals, Assign(k, v)
      PROVE  vars' \in Seq(VarType) /\ program' \in Seq(Lines)
  <2>1. v \in ValueType  BY ValueAssumption
  <2>2. vars' = DictSet(vars, k, v) /\ program' = program  BY <1>4 DEF Assign
  <2>. QED  BY <1>1, <2>1, <2>2, DictSetKeeps
<1>5. ASSUME NEW k \in Names, Run(k)
      PROVE  vars' \in Seq(VarType) /\ program' \in Seq(Lines)
  <2>1. HasProgram(k) /\ vars' = vars /\ program' = Lookup(k).lines  BY <1>5 DEF Run
  <2>. QED  BY <1>1, <2>1, ProgramType
<1>6. \/ vars' \in {vars, <<>>} /\ program' \in {program, <<>>}
      \/ RestoreVar \/ RunLine
      \/ \E k \in Names \ LongNames, v \in Literals : Assign(k, v)
      \/ \E k \in Names : Run(k)
  BY DEF Next, all, repl, Enter, RestoreDone, RunDone, Finish, Quit, CtrlC, BeginPersist,
         PersistVar, PersistDone, Reset, FlashSave, FlashDel, Save, Load, Edit, LoadBuffer,
         BeginMultiline, AddLine, DropLine
<1>7. CASE vars' \in {vars, <<>>} /\ program' \in {program, <<>>}  BY <1>1, <1>7
<1>. QED  BY <1>2, <1>3, <1>4, <1>5, <1>6, <1>7

-----------------------------------------------------------------------------
(***************************************************************************)
(* One lemma per group of actions that write the buffer.  A line is typed, *)
(* begun or dropped; a program is loaded or edited; the buffer is cleared. *)
(***************************************************************************)
Buffer == in_multiline \in BOOLEAN /\ buf \in Seq(Lines) /\ BufferExact /\ MultilineHasText

LEMMA BeginKeepsBuffer ==
  ASSUME BufferInv, NEW l \in Typed, BeginMultiline(l)
  PROVE  Buffer'
<1>1. l \in Lines /\ LineLen[l] \in Nat \ {0} /\ LineLen[l] < BufSize - 1 /\ BufSize \in Nat
  BY ReplAssumption DEF BeginMultiline
<1>2. in_multiline' = TRUE /\ buf' = <<l>> /\ ml_len' = LineLen[l]  BY DEF BeginMultiline
<1>3. <<l>> \in Seq(Lines) /\ JoinedLen(<<l>>) = LineLen[l]  BY <1>1, JoinedOne
<1>. QED  BY <1>1, <1>2, <1>3 DEF Buffer, BufferExact, MultilineHasText

LEMMA AddKeepsBuffer ==
  ASSUME BufferInv, NEW l \in Typed, AddLine(l)
  PROVE  Buffer'
<1>1. l \in Lines /\ LineLen[l] \in Nat \ {0} /\ BufSize \in Nat  BY ReplAssumption
<1>2. /\ buf \in Seq(Lines) /\ ml_len \in Nat /\ ml_len = JoinedLen(buf) /\ in_multiline
  BY DEF BufferInv, TypeOK, BufferExact, AddLine, InBuffer
<1>3. /\ ml_len + LineLen[l] + 2 < BufSize /\ in_multiline' = in_multiline
      /\ buf' = Append(buf, l) /\ ml_len' = ml_len + LineLen[l] + (IF ml_len > 0 THEN 1 ELSE 0)
  BY DEF AddLine, RoomFor
<1>4. ml_len = 0 <=> buf = <<>>  BY <1>2, JoinedPositive
<1>5. JoinedLen(buf') = ml_len + LineLen[l] + (IF buf = <<>> THEN 0 ELSE 1)
  BY <1>1, <1>2, <1>3, JoinedAppend
<1>6. buf' \in Seq(Lines)  BY <1>1, <1>2, <1>3, AppendProperties
<1>7. ml_len' = JoinedLen(buf') /\ ml_len' < BufSize /\ ml_len' > 0
  BY <1>1, <1>2, <1>3, <1>4, <1>5
<1>. QED  BY <1>2, <1>3, <1>6, <1>7 DEF Buffer, BufferExact, MultilineHasText

LEMMA LoadKeepsBuffer ==
  ASSUME BufferInv, NEW k \in Names, LoadBuffer(k), in_multiline' \in BOOLEAN
  PROVE  Buffer'
<1>1. /\ HasProgram(k) /\ Lookup(k).len < BufSize
      /\ buf' = Lookup(k).lines /\ ml_len' = Lookup(k).len
  BY DEF LoadBuffer
<1>2. /\ Lookup(k).lines \in Seq(Lines) /\ Lookup(k).len \in Nat \ {0}
      /\ Lookup(k).len = JoinedLen(Lookup(k).lines)
  BY <1>1, ProgramType DEF BufferInv
<1>3. ml_len' > 0  BY <1>1, <1>2
<1>. QED  BY <1>1, <1>2, <1>3 DEF Buffer, BufferExact, MultilineHasText

LEMMA ClearKeepsBuffer ==
  ASSUME buf' = <<>>, ml_len' = 0, in_multiline' = FALSE
  PROVE  Buffer'
<1>1. <<>> \in Seq(Lines) /\ JoinedLen(<<>>) = 0 /\ BufSize \in Nat \ {0}
  BY EmptySeq, JoinedEmpty, ReplAssumption
<1>2. 0 < BufSize  BY <1>1
<1>. QED  BY <1>1, <1>2 DEF Buffer, BufferExact, MultilineHasText

LEMMA BufferInvInit == Init => BufferInv
<1> SUFFICES ASSUME Init PROVE BufferInv  OBVIOUS
<1>1. /\ <<>> \in Seq(Lines) /\ JoinedLen(<<>>) = 0 /\ BufSize \in Nat \ {0}
      /\ <<>> \in Seq(VarType) /\ <<>> \in Seq([key : Names \ LongNames, text : TextType])
  BY EmptySeq, JoinedEmpty, ReplAssumption
<1>2. 0 < BufSize  BY <1>1
<1>3. TypeOK
  <2>1. mode \in {"off", "restore", "prompt", "run", "persist"} /\ in_multiline \in BOOLEAN
    BY DEF Init
  <2>2. ml_len \in Nat /\ next \in Nat \ {0}  BY DEF Init
  <2>3. /\ buf \in Seq(Lines) /\ vars \in Seq(VarType) /\ program \in Seq(Lines)
        /\ log \in Seq([key : Names \ LongNames, text : TextType])
    BY <1>1 DEF Init
  <2>. QED  BY <2>1, <2>2, <2>3 DEF TypeOK
<1>. QED  BY <1>1, <1>2, <1>3 DEF Init, BufferInv, BufferExact, MultilineHasText

(***************************************************************************)
(* Every step keeps the types and the buffer's length.                     *)
(***************************************************************************)
LEMMA BufferInvStep ==
  ASSUME BufferInv, [Next]_all
  PROVE  BufferInv'
<1>1. /\ mode \in {"off", "restore", "prompt", "run", "persist"} /\ next \in Nat \ {0}
      /\ in_multiline \in BOOLEAN /\ buf \in Seq(Lines) /\ ml_len \in Nat
      /\ ml_len = JoinedLen(buf) /\ ml_len < BufSize /\ (in_multiline => ml_len > 0)
  BY DEF BufferInv, TypeOK, BufferExact, MultilineHasText
<1>2. log' \in Seq(Entry)  BY LogStep
<1>3. vars' \in Seq(VarType) /\ program' \in Seq(Lines)  BY VarsStep DEF BufferInv
<1>4. mode' \in {"off", "restore", "prompt", "run", "persist"} /\ next' \in Nat \ {0}
  <2>1. /\ mode' \in {mode, "off", "restore", "prompt", "run", "persist"}
        /\ next' \in {next, 1, next + 1}
    BY DEF Next, all, repl, Enter, RestoreVar, RestoreDone, RunLine, RunDone, Finish, Quit,
           CtrlC, BeginPersist, PersistVar, PersistDone, Reset, Assign, FlashSave, FlashDel,
           Save, Run, Load, Edit, LoadBuffer, BeginMultiline, AddLine, DropLine
  <2>. QED  BY <1>1, <2>1
<1>5. Buffer'
  <2>1. \/ UNCHANGED <<buf, ml_len>> /\ in_multiline' \in {in_multiline, FALSE}
        \/ buf' = <<>> /\ ml_len' = 0 /\ in_multiline' = FALSE
        \/ \E l \in Typed : BeginMultiline(l) \/ AddLine(l)
        \/ \E k \in Names : LoadBuffer(k) /\ in_multiline' \in BOOLEAN
    <3>1. \A k \in Names : Save(k) => in_multiline' = FALSE  BY <1>1 DEF Save, AtPrompt
    <3>2. \A k \in Names : Load(k) \/ Edit(k) => LoadBuffer(k) /\ in_multiline' \in BOOLEAN
      BY <1>1 DEF Load, Edit
    <3>. QED
      BY <3>1, <3>2 DEF Next, all, repl, Enter, RestoreVar, RestoreDone, RunLine, RunDone,
         Finish, Quit, CtrlC, BeginPersist, PersistVar, PersistDone, Reset, Assign, FlashSave,
         FlashDel, Save, Run, DropLine
  <2>2. CASE UNCHANGED <<buf, ml_len>> /\ in_multiline' \in {in_multiline, FALSE}
    <3>1. buf' = buf /\ ml_len' = ml_len  BY <2>2
    <3>2. in_multiline' = in_multiline \/ in_multiline' = FALSE  BY <2>2
    <3>3. JoinedLen(buf') = JoinedLen(buf)  BY <3>1
    <3>4. in_multiline' \in BOOLEAN  BY <1>1, <2>2
    <3>. QED  BY <1>1, <3>1, <3>2, <3>3, <3>4 DEF Buffer, BufferExact, MultilineHasText
  <2>. QED
    BY <2>1, <2>2, BeginKeepsBuffer, AddKeepsBuffer, LoadKeepsBuffer, ClearKeepsBuffer
<1>6. ml_len' \in Nat  BY <1>5, JoinedPositive DEF Buffer, BufferExact
<1>7. TypeOK'  BY <1>2, <1>3, <1>4, <1>5, <1>6 DEF TypeOK, Buffer, Entry
<1>. QED  BY <1>5, <1>7 DEF BufferInv, Buffer

LEMMA BufferInvHolds == Spec => []BufferInv
BY BufferInvInit, BufferInvStep, PTL DEF Spec

(***************************************************************************)
(* Every variable of the REPL keeps its type: the store only ever holds    *)
(* keys and texts it accepts, a number always fits valbuf, and a text is   *)
(* as long as its lines.                                                   *)
(***************************************************************************)
THEOREM TypesHold == Spec => []TypeOK
BY BufferInvHolds, PTL DEF BufferInv

(***************************************************************************)
(* ml_len is the length of the buffer and stays below sizeof               *)
(* (multiline_buf), through begin, append, load, edit, save and a reset,   *)
(* for buffers and lines of every size.                                    *)
(***************************************************************************)
THEOREM BufferIsExact == Spec => []BufferExact
BY BufferInvHolds, PTL DEF BufferInv

(***************************************************************************)
(* The multi-line prompt is never shown over an empty buffer, in which no  *)
(* empty line would end it.                                                *)
(***************************************************************************)
THEOREM FinishIsPossible == Spec => []FinishPossible
<1>1. BufferInv => FinishPossible  BY DEF BufferInv, MultilineHasText, FinishPossible, InBuffer
<1>. QED  BY <1>1, BufferInvHolds, PTL

(***************************************************************************)
(* No put loses a kept key or changes what a lookup of another key finds,  *)
(* whatever is saved, deleted or persisted, in a log of any size.          *)
(***************************************************************************)
THEOREM PutsKeepOthers == Spec => PutsTouchTheirKey
<1> DEFINE Step ==
      \A k \in Names : Stored(k) /\ FirstEntry(k) <= LogCap =>
        /\ Stored(k)'
        /\ \/ Lookup(k)' = Lookup(k)
           \/ log'[Len(log')] = [key |-> k, text |-> Lookup(k)']
<1>1. ASSUME BufferInv, [Next]_all
      PROVE  [Step]_all
  <2>1. log \in Seq(Entry)  BY <1>1 DEF BufferInv, TypeOK, Entry
  <2>2. log' \in Seq(Entry) /\ KeepsPrefix  BY <1>1, LogStep
  <2>3. ASSUME NEW k \in Names, Stored(k), FirstEntry(k) <= LogCap
        PROVE  Stored(k)' /\ Lookup(k)' = Lookup(k)
    BY <2>1, <2>2, <2>3, PrefixFreezes
  <2>. QED  BY <2>3
<1>. QED  BY <1>1, BufferInvHolds, PTL DEF Spec, PutsTouchTheirKey

-----------------------------------------------------------------------------
(* Restoring and persisting the variables. *)

(***************************************************************************)
(* The loop that restores: the variables set so far have the keys listed   *)
(* so far, and each the text its first entry holds.                        *)
(***************************************************************************)
RestoreInv ==
  mode = "restore" =>
    /\ next <= Len(Listed) + 1
    /\ DictKeys(vars) = {Listed[i] : i \in 1 .. next - 1}
    /\ \A i \in DOMAIN vars : vars[i].val.text = Lookup(vars[i].key)

(***************************************************************************)
(* The loop that persists: while the log has not outgrown its kept part,   *)
(* every variable that was written has an entry in it.                     *)
(***************************************************************************)
PersistInv ==
  mode = "persist" /\ Len(log) <= LogCap =>
    \A j \in DOMAIN vars : j < next => Stored(vars[j].key)

LEMMA RestoreVarKeeps ==
  ASSUME TypeOK, RestoreInv, RestoreVar
  PROVE  RestoreInv'
<1>1. log \in Seq(Entry) /\ vars \in Seq(VarType) /\ next \in Nat \ {0}
  BY DEF TypeOK, Entry
<1> DEFINE k == Listed[next]
           t == Lookup(k)
<1>2. /\ mode = "restore" /\ next <= Len(Listed) /\ next' = next + 1
      /\ vars' = DictSet(vars, k, StringValue(t))
      /\ log' = log
  BY DEF RestoreVar
<1>3. next \in 1 .. Len(Listed) /\ Len(Listed) \in Nat  BY <1>1, <1>2, ListedProperties
<1>4. k \in Names \ LongNames /\ Stored(k)  BY <1>1, <1>3, ListedProperties
<1>5. StringValue(t) \in ValueType /\ StringValue(t).text = t
  BY <1>1, <1>4, LookupType DEF StringValue, ValueType
<1>6. Listed' = Listed /\ \A x : Lookup(x)' = Lookup(x)
  BY <1>2 DEF Listed, Lookup, FirstEntry
<1>7. DictKeys(vars)' = DictKeys(vars) \cup {k}
  <2>1. DictKeys(vars') = DictKeys(vars) \cup {k}
    BY <1>1, <1>2, <1>4, <1>5, DictSetKeeps
  <2>. QED  BY <2>1 DEF DictKeys
<1>8. \A i \in DOMAIN vars' : \/ vars'[i] = [key |-> k, val |-> StringValue(t)]
                              \/ i \in DOMAIN vars /\ vars'[i] = vars[i]
  BY <1>1, <1>2, <1>4, <1>5, DictSetKeeps
<1>9. \A i \in DOMAIN vars' : vars'[i].val.text = Lookup(vars'[i].key)
  <2>1. \A i \in DOMAIN vars : vars[i].val.text = Lookup(vars[i].key)
    BY <1>2 DEF RestoreInv
  <2> HIDE DEF k, t
  <2>2. t = Lookup(k)  BY DEF t
  <2>. QED  BY <1>5, <1>8, <2>1, <2>2
<1>10. 1 .. next' - 1 = (1 .. next - 1) \cup {next}  BY <1>1, <1>2
<1>11. DictKeys(vars)' = {Listed[i] : i \in 1 .. next' - 1}
  <2>1. DictKeys(vars) = {Listed[i] : i \in 1 .. next - 1}  BY <1>2 DEF RestoreInv
  <2>. QED  BY <1>7, <1>10, <2>1
<1>12. next' <= Len(Listed) + 1  BY <1>1, <1>2, <1>3
<1>. QED  BY <1>6, <1>9, <1>11, <1>12 DEF RestoreInv

LEMMA RestoreInvStep ==
  ASSUME TypeOK, RestoreInv, [Next]_all
  PROVE  RestoreInv'
<1>1. CASE Enter
  <2>1. vars' = <<>> /\ next' = 1 /\ log' = log  BY <1>1 DEF Enter
  <2>2. DOMAIN vars' = {}  BY <2>1
  <2>3. DictKeys(vars)' = {}  BY <2>2 DEF DictKeys
  <2>4. Listed' = Listed  BY <2>1 DEF Listed
  <2>5. Len(Listed) \in Nat  BY ListedProperties DEF TypeOK, Entry
  <2>6. 1 <= Len(Listed) + 1  BY <2>5
  <2>. QED  BY <2>1, <2>2, <2>3, <2>4, <2>6 DEF RestoreInv
<1>2. CASE RestoreVar  BY <1>2, RestoreVarKeeps
<1>3. CASE UNCHANGED all
  <2>1. /\ mode' = mode /\ vars' = vars /\ next' = next /\ log' = log
    BY <1>3 DEF all, repl
  <2>2. /\ Listed' = Listed /\ DictKeys(vars)' = DictKeys(vars)
        /\ \A x : Lookup(x)' = Lookup(x)
    BY <2>1 DEF Listed, Lookup, FirstEntry, DictKeys
  <2>. QED  BY <2>1, <2>2 DEF RestoreInv
<1>4. CASE mode' # "restore"  BY <1>4 DEF RestoreInv
<1>. QED
  BY <1>1, <1>2, <1>3, <1>4 DEF Next, RestoreDone, RunLine, RunDone, Finish, Quit, CtrlC,
     BeginPersist, PersistVar, PersistDone, Reset, Assign, FlashSave, FlashDel, Save, Run,
     Load, Edit, LoadBuffer, BeginMultiline, AddLine, DropLine, AtPrompt, InBuffer, repl

(***************************************************************************)
(* Every restored variable has the text of the first entry of its key, and *)
(* every listed key its variable, for a log of any size and however often  *)
(* a key is listed.                                                        *)
(***************************************************************************)
THEOREM RestoreIsExact == Spec => RestoreExact
<1>1. Init => RestoreInv  BY DEF Init, RestoreInv
<1>2. ASSUME TypeOK, RestoreInv, RestoreDone
      PROVE  /\ DictKeys(vars) = ListedKeys
             /\ \A i \in DOMAIN vars : vars[i].val.text = Lookup(vars[i].key)
  <2>1. /\ DictKeys(vars) = {Listed[i] : i \in 1 .. next - 1}
        /\ \A i \in DOMAIN vars : vars[i].val.text = Lookup(vars[i].key)
        /\ next <= Len(Listed) + 1 /\ next > Len(Listed) /\ next \in Nat \ {0}
    BY <1>2 DEF RestoreInv, RestoreDone, TypeOK
  <2>2. Len(Listed) \in Nat /\ DOMAIN Listed = 1 .. Len(Listed)
    BY <1>2, ListedProperties DEF TypeOK, Entry
  <2>3. next - 1 = Len(Listed)  BY <2>1, <2>2
  <2>. QED  BY <2>1, <2>2, <2>3 DEF ListedKeys
<1>. QED  BY <1>1, <1>2, TypesHold, RestoreInvStep, PTL DEF Spec, RestoreExact

(***************************************************************************)
(* flash_store_put adds the entry of a variable: its key is short enough   *)
(* for an identifier and its text fits.  While the log stays within its    *)
(* kept part, the entries written before are still there.                  *)
(***************************************************************************)
LEMMA PersistVarKeeps ==
  ASSUME TypeOK, PersistInv, PersistVar
  PROVE  PersistInv'
<1> SUFFICES ASSUME Len(log)' <= LogCap, NEW j \in DOMAIN vars, j < next + 1
             PROVE  Stored(vars[j].key)'
  BY DEF PersistVar, PersistInv
<1>1. /\ log \in Seq(Entry) /\ vars \in Seq(VarType) /\ next \in Nat \ {0}
      /\ Len(log) \in Nat /\ DOMAIN vars = 1 .. Len(vars) /\ LogCap \in Nat
  BY LenProperties, ReplAssumption DEF TypeOK, Entry
<1> DEFINE k == vars[next].key
           t == TextOf(vars[next].val)
<1>2. /\ mode = "persist" /\ next \in 1 .. Len(vars) /\ StorePut(k, t) /\ vars' = vars
  BY <1>1, LenProperties DEF PersistVar
<1>3. vars[next] \in VarType  BY <1>1, <1>2, ElementOfSeq
<1>4. k \in Names /\ t \in TextType /\ Storable(k, t)
  BY <1>3, TextOfStorable DEF VarType, Storable
<1> HIDE DEF k, t
<1>5. /\ log' \in Seq(Entry) /\ KeepsPrefix
      /\ Len(log)' = (IF Len(log) < LogCap THEN Len(log) ELSE LogCap) + 1
      /\ log'[Len(log)'] = [key |-> k, text |-> t]
  BY <1>1, <1>2, <1>4, PutKeepsPrefix
<1>6. /\ Len(log) < LogCap /\ DOMAIN log' = 1 .. Len(log)' /\ DOMAIN log = 1 .. Len(log)
      /\ Len(log)' \in Nat
  BY <1>1, <1>5, LenProperties
<1>7. CASE j < next
  <2>1. Stored(vars[j].key)  BY <1>1, <1>2, <1>6, <1>7 DEF PersistInv
  <2>2. PICK i \in 1 .. Len(log) : log[i].key = vars[j].key  BY <1>6, <2>1 DEF Stored
  <2>3. i \in 1 .. Len(log)' /\ log'[i] = log[i]  BY <1>1, <1>5, <1>6, <2>2 DEF KeepsPrefix
  <2>. QED  BY <1>2, <1>6, <2>2, <2>3 DEF Stored
<1>8. CASE j = next
  <2>1. Len(log)' \in 1 .. Len(log)'  BY <1>1, <1>5, <1>6
  <2>2. log'[Len(log)'].key = vars[j].key  BY <1>5, <1>8 DEF k
  <2>. QED  BY <1>2, <1>6, <2>1, <2>2 DEF Stored
<1>. QED  BY <1>1, <1>7, <1>8

LEMMA PersistInvStep ==
  ASSUME TypeOK, PersistInv, [Next]_all
  PROVE  PersistInv'
<1>1. CASE BeginPersist
  <2>1. next' = 1 /\ vars' = vars /\ vars \in Seq(VarType)  BY <1>1 DEF BeginPersist, TypeOK
  <2>2. DOMAIN vars = 1 .. Len(vars) /\ Len(vars) \in Nat  BY <2>1, LenProperties
  <2>3. \A j \in DOMAIN vars' : ~ (j < next')  BY <2>1, <2>2
  <2>. QED  BY <2>3 DEF PersistInv
<1>2. CASE PersistVar  BY <1>2, PersistVarKeeps
<1>3. CASE UNCHANGED all  BY <1>3 DEF all, repl, PersistInv, Stored
<1>4. CASE mode' # "persist"  BY <1>4 DEF PersistInv
<1>. QED
  BY <1>1, <1>2, <1>3, <1>4 DEF Next, Enter, RestoreVar, RestoreDone, RunLine, RunDone, Finish,
     Quit, CtrlC, PersistDone, Reset, Assign, FlashSave, FlashDel, Save, Run,
     Load, Edit, LoadBuffer, BeginMultiline, AddLine, DropLine, AtPrompt, InBuffer, repl

(***************************************************************************)
(* After a quit that was not cut short every variable is among the keys    *)
(* that are listed, as long as the log stays within the entries that are   *)
(* kept and the keys that are listed: for every number of variables.       *)
(***************************************************************************)
THEOREM PersistedReturn == Spec => PersistedVarsReturn
<1>1. Init => PersistInv  BY DEF Init, PersistInv
<1>2. ASSUME TypeOK, PersistInv, PersistDone, Len(log) <= LogCap, Len(log) <= KeysMax
      PROVE  DictKeys(vars) \subseteq ListedKeys
  <2>1. /\ log \in Seq(Entry) /\ vars \in Seq(VarType) /\ next \in Nat
        /\ DOMAIN vars = 1 .. Len(vars) /\ Len(vars) \in Nat
        /\ DOMAIN log = 1 .. Len(log) /\ Len(log) \in Nat
        /\ mode = "persist" /\ next > Len(vars)
    BY <1>2, LenProperties DEF TypeOK, Entry, PersistDone
  <2>2. /\ DOMAIN Listed = 1 .. Len(Listed)
        /\ \A i \in 1 .. Len(Listed) : Listed[i] = log[i].key
        /\ Len(Listed) = Len(log)
    <3>1. KeysMax \in Nat  BY ReplAssumption
    <3>2. Len(Listed) = IF Len(log) < KeysMax THEN Len(log) ELSE KeysMax
      BY <2>1, ListedProperties
    <3>3. Len(log) \in Nat /\ Len(log) <= KeysMax  BY <1>2, <2>1
    <3> DEFINE m == Len(Listed)
               n == Len(log)
    <3> HIDE DEF m, n
    <3>4. m = n  BY <3>1, <3>2, <3>3 DEF m, n
    <3>. QED  BY <2>1, <3>4, ListedProperties DEF m, n
  <2>3. ASSUME NEW j \in DOMAIN vars PROVE vars[j].key \in ListedKeys
    <3>1. j < next  BY <2>1
    <3>2. Stored(vars[j].key)  BY <1>2, <2>1, <3>1 DEF PersistInv
    <3>3. PICK i \in 1 .. Len(log) : log[i].key = vars[j].key  BY <2>1, <3>2 DEF Stored
    <3>. QED  BY <2>2, <3>3 DEF ListedKeys
  <2>. QED  BY <2>3 DEF DictKeys
<1>. QED  BY <1>1, <1>2, TypesHold, PersistInvStep, PTL DEF Spec, PersistedVarsReturn
=============================================================================
