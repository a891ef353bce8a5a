--------------------------- MODULE GraphicsProofs ---------------------------
(***************************************************************************)
(* Proofs about the graphics virtual machine, for every size of RAM and of *)
(* the heap, every budget and every set of programs: it keeps its types, a *)
(* run stays within its budget, and the heap keeps the globals.            *)
(*                                                                         *)
(* And about drawing, for every size of the screen, of RAM and of an       *)
(* operand: offsets and pixels correspond one to one, so only disp_rect    *)
(* with a negative corner writes outside the framebuffer, fills are        *)
(* clipped to their rectangle, and a BLIT whose rows fit copies one        *)
(* stretch of RAM.                                                         *)
(***************************************************************************)
EXTENDS GfxVM, GfxDraw, DataLemmas, FiniteSetTheorems, SequenceTheorems, TLAPS

Entry == [key : Nat, val : Int]

LEMMA Sizes ==
  /\ RamSize \in Nat \ {0} /\ FrameBudget \in Nat \ {0} /\ SrvmBudget \in Nat \ {0}
  /\ HeapMax \in Nat \ {0} /\ Window \in Nat \ {0} /\ Unset \notin Int
BY VmAssumption

-----------------------------------------------------------------------------
(***************************************************************************)
(* The heap: its entries have different keys, those of written globals     *)
(* the values last written, and nothing that was written is missing until  *)
(* it is full.                                                             *)
(***************************************************************************)
Distinct(h) == \A i, j \in DOMAIN h : h[i].key = h[j].key => i = j

HeapOk(h, w) ==
  /\ h \in Seq(Entry) /\ Len(h) <= HeapMax /\ Distinct(h)
  /\ w \in [Globals -> Int \union {Unset}]
  /\ \A i \in DOMAIN h : h[i].key \in Globals /\ w[h[i].key] # Unset => w[h[i].key] = h[i].val
  /\ Len(h) < HeapMax => \A k \in Globals : w[k] # Unset => k \in HeapKeys(h)

HeapInv == HeapOk(heap, written)

LEMMA HeapDomain ==
  ASSUME NEW h \in Seq(Entry)
  PROVE  /\ Len(h) \in Nat /\ DOMAIN h = 1 .. Len(h)
         /\ \A i \in 1 .. Len(h) : h[i] \in Entry /\ h[i].key \in Nat /\ h[i].val \in Int
<1>1. Len(h) \in Nat /\ DOMAIN h = 1 .. Len(h)
  BY LenProperties
<1>2. \A i \in 1 .. Len(h) : h[i] \in Entry
  BY ElementOfSeq
<1> QED BY <1>1, <1>2 DEF Entry

\* gfx_mmio_read finds the entry of a key.
LEMMA GetFindsEntry ==
  ASSUME NEW h \in Seq(Entry), Distinct(h), NEW i \in DOMAIN h
  PROVE  HeapGet(h, h[i].key) = h[i].val
<1> DEFINE First(n) == h[n].key = h[i].key /\ \A j \in 1 .. n - 1 : h[j].key # h[i].key
           c == CHOOSE n \in DOMAIN h : First(n)
<1>1. \A j \in 1 .. i - 1 : j \in DOMAIN h /\ j # i
  BY HeapDomain
<1>2. First(i)
  BY <1>1 DEF Distinct
<1> HIDE DEF First
<1>3. c \in DOMAIN h /\ First(c)
  BY <1>2
<1>4. c = i
  BY <1>3 DEF First, Distinct
<1>5. h[i].key \in HeapKeys(h)
  BY DEF HeapKeys
<1>6. HeapGet(h, h[i].key) = h[c].val
  BY <1>5 DEF HeapGet, First
<1> QED BY <1>4, <1>6

\* As many keys as entries.
LEMMA CountOfKeys ==
  ASSUME NEW h \in Seq(Entry), Distinct(h)
  PROVE  IsFiniteSet(HeapKeys(h)) /\ Cardinality(HeapKeys(h)) = Len(h)
<1> DEFINE f == [i \in 1 .. Len(h) |-> h[i].key]
<1>1. Len(h) \in Nat /\ DOMAIN h = 1 .. Len(h)
  BY HeapDomain
<1>2. f \in Bijection(1 .. Len(h), HeapKeys(h))
  <2>1. f \in [1 .. Len(h) -> HeapKeys(h)]
    BY <1>1 DEF HeapKeys
  <2>2. \A i, j \in 1 .. Len(h) : f[i] = f[j] => i = j
    BY <1>1 DEF Distinct
  <2>3. \A k \in HeapKeys(h) : \E i \in 1 .. Len(h) : f[i] = k
    BY <1>1 DEF HeapKeys
  <2> QED BY <2>1, <2>2, <2>3 DEF Bijection, Injection, IsInjective, Surjection
<1>3. IsFiniteSet(1 .. Len(h)) /\ Cardinality(1 .. Len(h)) = Len(h)
  BY <1>1, FS_Interval
<1>4. ExistsBijection(1 .. Len(h), HeapKeys(h))
  BY <1>2 DEF ExistsBijection
<1> QED BY <1>3, <1>4, FS_Bijection

\* What the invariant says of the globals.
LEMMA HeapKeepsGlobals == ASSUME HeapInv PROVE GlobalsKept
<1>1. /\ heap \in Seq(Entry) /\ Distinct(heap) /\ Len(heap) <= HeapMax /\ Len(heap) \in Nat
      /\ \A i \in DOMAIN heap : heap[i].key \in WrittenKeys => written[heap[i].key] = heap[i].val
      /\ Len(heap) < HeapMax => WrittenKeys \subseteq HeapKeys(heap)
  BY HeapDomain DEF HeapInv, HeapOk, WrittenKeys
<1>2. \A k \in WrittenKeys \cap HeapKeys(heap) : HeapGet(heap, k) = written[k]
  BY <1>1, GetFindsEntry DEF HeapKeys
<1>3. Cardinality(HeapKeys(heap)) = Len(heap)
  BY <1>1, CountOfKeys
<1>4. Len(heap) < HeapMax \/ Len(heap) = HeapMax
  BY <1>1, Sizes
<1> QED BY <1>1, <1>2, <1>3, <1>4 DEF GlobalsKept

-----------------------------------------------------------------------------
(* What writes the heap *)

\* A new entry.
LEMMA AppendedHeap ==
  ASSUME NEW h \in Seq(Entry), NEW e \in Entry, Distinct(h), e.key \notin HeapKeys(h)
  PROVE  /\ Append(h, e) \in Seq(Entry) /\ Len(Append(h, e)) = Len(h) + 1
         /\ Distinct(Append(h, e)) /\ HeapKeys(Append(h, e)) = HeapKeys(h) \union {e.key}
         /\ \A i \in DOMAIN Append(h, e) : Append(h, e)[i] = e \/ (i \in DOMAIN h /\ Append(h, e)[i] = h[i])
<1> DEFINE g == Append(h, e)
<1>1. /\ g \in Seq(Entry) /\ Len(g) = Len(h) + 1 /\ Len(h) \in Nat
      /\ g[Len(h) + 1] = e /\ \A i \in 1 .. Len(h) : g[i] = h[i]
      /\ DOMAIN g = 1 .. Len(h) + 1 /\ DOMAIN h = 1 .. Len(h)
  OBVIOUS
<1> HIDE DEF g
<1>2. \A i \in DOMAIN g : (i = Len(h) + 1 /\ g[i] = e) \/ (i \in DOMAIN h /\ g[i] = h[i])
  BY <1>1
<1>3. \A i \in DOMAIN h : h[i].key # e.key
  BY DEF HeapKeys
<1>4. Distinct(g)
  BY <1>2, <1>3 DEF Distinct
<1>5. HeapKeys(g) = HeapKeys(h) \union {e.key}
  <2>1. HeapKeys(g) \subseteq HeapKeys(h) \union {e.key}
    BY <1>2 DEF HeapKeys
  <2>2. HeapKeys(h) \subseteq HeapKeys(g)
    BY <1>1 DEF HeapKeys
  <2>3. e.key \in HeapKeys(g)
    BY <1>1 DEF HeapKeys
  <2> QED BY <2>1, <2>2, <2>3
<1> QED BY <1>1, <1>2, <1>4, <1>5 DEF g

\* What a program that gives k the value v has written then.
WrittenNow(w, k, v) == [l \in Globals |-> IF l = k THEN v ELSE w[l]]

\* gfx_mmio_write.
LEMMA SetKeepsHeap ==
  ASSUME NEW h, NEW w, HeapOk(h, w), NEW k \in Keys, NEW v \in Int
  PROVE  HeapOk(HeapSet(h, k, v), WrittenNow(w, k, v))
<1> DEFINE g == HeapSet(h, k, v)
           u == WrittenNow(w, k, v)
<1>1. /\ h \in Seq(Entry) /\ Len(h) <= HeapMax /\ Distinct(h)
      /\ w \in [Globals -> Int \union {Unset}]
      /\ \A i \in DOMAIN h : h[i].key \in Globals /\ w[h[i].key] # Unset => w[h[i].key] = h[i].val
      /\ Len(h) < HeapMax => \A l \in Globals : w[l] # Unset => l \in HeapKeys(h)
  BY DEF HeapOk
<1>2. /\ Len(h) \in Nat /\ DOMAIN h = 1 .. Len(h)
      /\ \A i \in 1 .. Len(h) : h[i] \in Entry /\ h[i].key \in Nat /\ h[i].val \in Int
  BY <1>1, HeapDomain
<1>3. /\ u \in [Globals -> Int \union {Unset}]
      /\ k \in Globals => u[k] = v
      /\ \A l \in Globals : l # k => u[l] = w[l]
  BY <1>1 DEF WrittenNow
<1>4. (k \in Globals <=> InWindow(k)) /\ (InWindow(k) => k \in Nat)
  BY Sizes DEF Globals, InWindow
<1> HIDE DEF u
<1>5. CASE k \in HeapKeys(h) /\ InWindow(k)
  <2>1. g = [i \in 1 .. Len(h) |-> IF h[i].key = k THEN [key |-> k, val |-> v] ELSE h[i]]
    BY <1>2, <1>5 DEF HeapSet
  <2>2. \A i \in 1 .. Len(h) : /\ g[i] \in Entry /\ g[i].key = h[i].key
                               /\ g[i].val = IF h[i].key = k THEN v ELSE h[i].val
    <3> DEFINE e == [key |-> k, val |-> v]
    <3>1. e \in Entry /\ e.key = k /\ e.val = v
      BY <1>4, <1>5 DEF Entry
    <3> HIDE DEF e
    <3> TAKE i \in 1 .. Len(h)
    <3>2. g[i] = IF h[i].key = k THEN e ELSE h[i]
      BY <2>1 DEF e
    <3> HIDE DEF g
    <3>3. CASE h[i].key = k
      BY <3>1, <3>2, <3>3
    <3>4. CASE h[i].key # k
      BY <1>2, <3>2, <3>4
    <3> QED BY <3>3, <3>4
  <2>3. g \in Seq(Entry) /\ Len(g) = Len(h) /\ DOMAIN g = DOMAIN h
    <3>1. DOMAIN g = 1 .. Len(h)
      BY <2>1
    <3>2. g = [i \in 1 .. Len(h) |-> g[i]]
      BY <2>1, <3>1
    <3> HIDE DEF g
    <3> QED BY <1>2, <2>2, <3>1, <3>2
  <2> HIDE DEF g
  <2>4. Distinct(g) /\ HeapKeys(g) = HeapKeys(h)
    BY <1>1, <1>2, <2>2, <2>3 DEF Distinct, HeapKeys
  <2>5. \A i \in DOMAIN g : g[i].key \in Globals /\ u[g[i].key] # Unset => u[g[i].key] = g[i].val
    BY <1>1, <1>2, <1>3, <2>2, <2>3
  <2>6. Len(g) < HeapMax => \A l \in Globals : u[l] # Unset => l \in HeapKeys(g)
    BY <1>1, <1>3, <1>5, <2>3, <2>4
  <2> QED BY <1>1, <1>3, <2>3, <2>4, <2>5, <2>6 DEF HeapOk, g, u
<1>6. CASE k \notin HeapKeys(h) /\ InWindow(k) /\ Len(h) < HeapMax
  <2> DEFINE e == [key |-> k, val |-> v]
  <2>1. e \in Entry /\ e.key = k /\ e.val = v
    BY <1>4, <1>6 DEF Entry
  <2>2. g = Append(h, e)
    BY <1>6 DEF HeapSet
  <2> HIDE DEF e, g
  <2>3. /\ g \in Seq(Entry) /\ Len(g) = Len(h) + 1 /\ Distinct(g)
        /\ HeapKeys(g) = HeapKeys(h) \union {k}
        /\ \A i \in DOMAIN g : g[i] = e \/ (i \in DOMAIN h /\ g[i] = h[i])
    BY <1>1, <1>6, <2>1, <2>2, AppendedHeap
  <2>4. \A i \in DOMAIN h : h[i].key # k
    BY <1>6 DEF HeapKeys
  <2>5. \A i \in DOMAIN g : g[i].key \in Globals /\ u[g[i].key] # Unset => u[g[i].key] = g[i].val
    BY <1>1, <1>2, <1>3, <2>1, <2>3, <2>4
  <2>6. \A l \in Globals : u[l] # Unset => l \in HeapKeys(g)
    BY <1>1, <1>3, <1>6, <2>3
  <2>7. Len(g) <= HeapMax
    BY <1>2, <1>6, <2>3, Sizes
  <2> QED BY <1>3, <2>3, <2>5, <2>6, <2>7 DEF HeapOk, g, u
<1>7. CASE ~InWindow(k) \/ (k \notin HeapKeys(h) /\ ~(Len(h) < HeapMax))
  <2>1. g = h
    BY <1>7 DEF HeapSet
  <2>2. \A i \in DOMAIN h : h[i].key \in Globals => h[i].key # k
    BY <1>4, <1>7 DEF HeapKeys
  <2>3. \A i \in DOMAIN h : h[i].key \in Globals /\ u[h[i].key] # Unset => u[h[i].key] = h[i].val
    BY <1>1, <1>3, <2>2
  <2>4. Len(h) < HeapMax => \A l \in Globals : u[l] # Unset => l \in HeapKeys(h)
    BY <1>1, <1>3, <1>4, <1>7
  <2> HIDE DEF g
  <2> QED BY <1>1, <1>3, <2>1, <2>3, <2>4 DEF HeapOk, g, u
<1> QED BY <1>5, <1>6, <1>7

\* The entry of the n-th constant, and the heap after it.
EntryOf(consts, n) == [key |-> n - 1, val |-> consts[n].low]
AfterConstant(consts, h, n) ==
  IF IsNumber(consts, n - 1) /\ Len(h) < HeapMax THEN Append(h, EntryOf(consts, n)) ELSE h

LEMMA EntryOfType ==
  ASSUME NEW consts, Pool(consts), NEW n \in 1 .. Len(consts), IsNumber(consts, n - 1)
  PROVE  EntryOf(consts, n) \in Entry
<1>1. Len(consts) \in Nat /\ n - 1 + 1 = n
  BY DEF Pool
<1>2. n - 1 \in Nat /\ consts[n].low \in Int
  BY <1>1 DEF Pool, IsNumber
<1> QED BY <1>2 DEF EntryOf, Entry

\* The recursion srvm_load_constants runs through.
LEMMA LoadingAre ==
  ASSUME NEW consts, Pool(consts)
  PROVE  LET g == HeapsLoading(consts)
         IN  /\ g[0] = <<>>
             /\ \A n \in 1 .. Len(consts) : g[n] = AfterConstant(consts, g[n - 1], n)
<1> DEFINE N == Len(consts)
           Grown(f, n) == IF n = 0 THEN <<>> ELSE AfterConstant(consts, f[n - 1], n)
           Rec(f) == f = [n \in 0 .. N |-> Grown(f, n)]
           S == {m \in Nat : m <= N => \E f \in [0 .. m -> Seq(Entry)] :
                                        \A n \in 0 .. m : f[n] = Grown(f, n)}
<1>1. N \in Nat
  BY Sizes DEF Pool
<1>2. 0 \in S
  <2> DEFINE f == [n \in 0 .. 0 |-> <<>>]
  <2>1. f \in [0 .. 0 -> Seq(Entry)] /\ \A n \in 0 .. 0 : f[n] = <<>> /\ n = 0
    OBVIOUS
  <2> QED BY <2>1
<1>3. ASSUME NEW m \in S PROVE m + 1 \in S
  <2> HIDE DEF Grown
  <2> SUFFICES ASSUME m + 1 <= N
               PROVE  \E f \in [0 .. m + 1 -> Seq(Entry)] : \A n \in 0 .. m + 1 : f[n] = Grown(f, n)
    <3>1. m + 1 \in Nat
      BY <1>3
    <3> QED BY <3>1
  <2> USE DEF Grown
  <2>1. m \in Nat /\ m + 1 \in 1 .. N /\ m + 1 - 1 = m
    BY <1>3
  <2>2. PICK f \in [0 .. m -> Seq(Entry)] : \A n \in 0 .. m : f[n] = Grown(f, n)
    BY <1>1, <1>3, <2>1
  <2> DEFINE h == AfterConstant(consts, f[m], m + 1)
             g == [n \in 0 .. m + 1 |-> IF n <= m THEN f[n] ELSE h]
  <2>3. f[m] \in Seq(Entry)
    BY <2>1, <2>2
  <2>4. h \in Seq(Entry)
    <3>1. IsNumber(consts, m + 1 - 1) => EntryOf(consts, m + 1) \in Entry
      BY <2>1, EntryOfType
    <3> QED BY <2>3, <3>1 DEF AfterConstant
  <2> HIDE DEF h
  <2>5. g \in [0 .. m + 1 -> Seq(Entry)]
    BY <2>1, <2>2, <2>4
  <2>6. /\ \A n \in 0 .. m : g[n] = f[n] /\ (n # 0 => g[n - 1] = f[n - 1])
        /\ g[m + 1] = h /\ g[m] = f[m]
    BY <2>1
  <2> HIDE DEF g
  <2>7. ASSUME NEW n \in 0 .. m + 1 PROVE g[n] = Grown(g, n)
    <3>1. CASE n \in 0 .. m
      BY <2>2, <2>6, <3>1
    <3>2. CASE n = m + 1
      BY <2>1, <2>6, <3>2 DEF h
    <3> QED BY <2>1, <3>1, <3>2
  <2> QED BY <2>5, <2>7
<1>4. S = Nat
  <2> HIDE DEF S
  <2>1. S \in SUBSET Nat
    BY DEF S
  <2> QED BY <1>2, <1>3, <2>1, SetInduction
<1>5. PICK f \in [0 .. N -> Seq(Entry)] : \A n \in 0 .. N : f[n] = Grown(f, n)
  <2>1. N \in S
    BY <1>1, <1>4
  <2>2. N <= N
    BY <1>1
  <2> HIDE DEF Grown, N
  <2> QED BY <2>1, <2>2
<1>6. Rec(f)
  <2>1. f = [n \in 0 .. N |-> f[n]]
    BY <1>5
  <2> HIDE DEF Grown
  <2> QED BY <1>5, <2>1
<1>7. HeapsLoading(consts) = CHOOSE g : Rec(g)
  BY DEF HeapsLoading, AfterConstant, EntryOf
<1> HIDE DEF Rec
<1>8. Rec(HeapsLoading(consts))
  BY <1>6, <1>7
<1> DEFINE g == HeapsLoading(consts)
<1> HIDE DEF g
<1>9. g = [n \in 0 .. N |-> Grown(g, n)]
  BY <1>8 DEF Rec, g
<1>10. g[0] = <<>> /\ \A n \in 1 .. N : g[n] = AfterConstant(consts, g[n - 1], n)
  BY <1>1, <1>9
<1> QED BY <1>10 DEF g

\* A heap of numbers among the first n constants, no two under one key.
HoldsFirst(h, n) ==
  /\ h \in Seq(Entry) /\ Len(h) <= HeapMax /\ Distinct(h)
  /\ \A i \in DOMAIN h : h[i].key < n

LEMMA HoldsNext ==
  ASSUME NEW consts, Pool(consts), NEW n \in 1 .. Len(consts), NEW h, HoldsFirst(h, n - 1)
  PROVE  HoldsFirst(AfterConstant(consts, h, n), n)
<1> DEFINE g == AfterConstant(consts, h, n)
           e == EntryOf(consts, n)
<1>1. n \in Nat \ {0} /\ n - 1 < n
  BY DEF Pool
<1>2. /\ h \in Seq(Entry) /\ Len(h) <= HeapMax /\ Distinct(h) /\ Len(h) \in Nat
      /\ \A i \in DOMAIN h : h[i].key < n - 1 /\ h[i].key \in Nat
  BY HeapDomain DEF HoldsFirst
<1>3. CASE IsNumber(consts, n - 1) /\ Len(h) < HeapMax
  <2>1. e \in Entry /\ e.key = n - 1
    BY <1>3, EntryOfType DEF EntryOf
  <2>2. g = Append(h, e)
    BY <1>3 DEF AfterConstant
  <2>3. e.key \notin HeapKeys(h)
    BY <1>1, <1>2, <2>1 DEF HeapKeys
  <2> HIDE DEF e, g
  <2>4. /\ g \in Seq(Entry) /\ Len(g) = Len(h) + 1 /\ Distinct(g)
        /\ \A i \in DOMAIN g : g[i] = e \/ (i \in DOMAIN h /\ g[i] = h[i])
    BY <1>2, <2>1, <2>2, <2>3, AppendedHeap
  <2>5. ASSUME NEW i \in DOMAIN g PROVE g[i].key < n
    <3>1. CASE g[i] = e
      BY <1>1, <2>1, <3>1
    <3>2. CASE i \in DOMAIN h /\ g[i] = h[i]
      <4>1. h[i].key < n - 1 /\ h[i].key \in Nat
        BY <1>2, <3>2
      <4> QED BY <1>1, <3>2, <4>1
    <3> QED BY <2>4, <3>1, <3>2
  <2>6. Len(g) <= HeapMax
    BY <1>2, <1>3, <2>4, Sizes
  <2> QED BY <2>4, <2>5, <2>6 DEF HoldsFirst, g
<1>4. CASE ~(IsNumber(consts, n - 1) /\ Len(h) < HeapMax)
  <2>1. g = h
    BY <1>4 DEF AfterConstant
  <2>2. \A i \in DOMAIN h : h[i].key < n
    BY <1>1, <1>2
  <2> HIDE DEF g
  <2> QED BY <1>2, <2>1, <2>2 DEF HoldsFirst, g
<1> QED BY <1>3, <1>4

LEMMA NothingOk ==
  ASSUME NEW h \in Seq(Entry), Len(h) <= HeapMax, Distinct(h)
  PROVE  HeapOk(h, NothingWritten)
<1>1. /\ NothingWritten \in [Globals -> Int \union {Unset}]
      /\ \A k \in Globals : NothingWritten[k] = Unset
  BY DEF NothingWritten
<1> QED BY <1>1 DEF HeapOk

LEMMA EmptyHeap ==
  HoldsFirst(<<>>, 0) /\ HeapOk(<<>>, NothingWritten)
<1>1. <<>> \in Seq(Entry) /\ Len(<<>>) = 0 /\ DOMAIN <<>> = {}
  OBVIOUS
<1>2. Distinct(<<>>) /\ \A i \in DOMAIN <<>> : FALSE
  BY <1>1 DEF Distinct
<1>3. Len(<<>>) <= HeapMax
  BY <1>1, Sizes
<1>4. HoldsFirst(<<>>, 0)
  BY <1>1, <1>2, <1>3, Zenon DEF HoldsFirst
<1>5. HeapOk(<<>>, NothingWritten)
  BY <1>1, <1>2, <1>3, NothingOk
<1> QED BY <1>4, <1>5

\* srvm_load_constants.
LEMMA ConstantsKeepHeap ==
  ASSUME NEW consts, Pool(consts)
  PROVE  HeapOk(ConstantsHeap(consts), NothingWritten)
<1> DEFINE N == Len(consts)
           g == HeapsLoading(consts)
           S == {n \in Nat : n <= N => HoldsFirst(g[n], n)}
<1>1. g[0] = <<>> /\ \A n \in 1 .. N : g[n] = AfterConstant(consts, g[n - 1], n)
  BY LoadingAre
<1>2. N \in Nat
  BY Sizes DEF Pool
<1> HIDE DEF g
<1>3. 0 \in S
  BY <1>1, EmptyHeap
<1>4. ASSUME NEW n \in S PROVE n + 1 \in S
  <2> SUFFICES ASSUME n + 1 <= N PROVE HoldsFirst(g[n + 1], n + 1)
    BY <1>4
  <2>1. n \in Nat /\ n + 1 \in 1 .. N /\ n + 1 - 1 = n
    BY <1>4
  <2>2. HoldsFirst(g[n + 1 - 1], n + 1 - 1)
    BY <1>2, <1>4, <2>1
  <2>3. g[n + 1] = AfterConstant(consts, g[n + 1 - 1], n + 1)
    BY <1>1, <2>1
  <2> QED BY <2>1, <2>2, <2>3, HoldsNext
<1>5. S = Nat
  <2> HIDE DEF S
  <2>1. S \in SUBSET Nat
    BY DEF S
  <2> QED BY <1>3, <1>4, <2>1, SetInduction
<1>6. HoldsFirst(g[N], N)
  BY <1>2, <1>5
<1>7. HeapOk(g[N], NothingWritten)
  BY <1>6, NothingOk DEF HoldsFirst
<1> QED BY <1>7 DEF g, ConstantsHeap

-----------------------------------------------------------------------------
(***************************************************************************)
(* The machine: RAM holds instructions wherever pc may point, and a run    *)
(* that has executed an instruction has kept cycles within its budget.     *)
(***************************************************************************)
MachineOk ==
  /\ pc \in 0 .. RamSize /\ cycles \in Nat /\ ran \in Nat
  /\ \A a \in Addresses : Instruction(ram[a])
  /\ status \in {0, 1} /\ phase \in {"idle", "frame", "srvm"}

Spent == phase # "idle" => ran <= cycles /\ (ran = 0 \/ cycles <= Budget)

Flags == active \in BOOLEAN /\ running \in BOOLEAN

IInv == Flags /\ MachineOk /\ Spent /\ HeapInv

LEMMA OutsideType == ASSUME NEW a \in Int PROVE Outside(a) \in 0 .. RamSize
BY Sizes DEF Outside, Addresses

\* What rvvm_load and srvm_load_chunk leave in RAM.
LEMMA LoadedCode ==
  ASSUME MachineOk, NEW code, Code(code)
  PROVE  \A a \in Addresses : Instruction(Loaded(code)[a])
<1> TAKE a \in Addresses
<1>1. Len(code) \in Nat /\ a \in Nat
  BY Sizes DEF Code, Addresses
<1>2. CASE a < Len(code)
  <2>1. a + 1 \in DOMAIN code
    BY <1>1, <1>2 DEF Code
  <2>2. Loaded(code)[a] = code[a + 1]
    BY <1>2 DEF Loaded
  <2> QED BY <2>1, <2>2 DEF Code
<1>3. CASE ~(a < Len(code))
  <2>1. Loaded(code)[a] = ram[a]
    BY <1>3 DEF Loaded
  <2> QED BY <2>1 DEF MachineOk
<1> QED BY <1>2, <1>3

\* An instruction that is fetched is counted, within the budget.
LEMMA FetchCounts ==
  ASSUME MachineOk, Spent, NEW kind, Fetch(kind), pc' \in 0 .. RamSize
  PROVE  MachineOk' /\ Spent' /\ pc \in Addresses /\ Instruction(ram[pc]) /\ ram[pc].op = kind
<1>1. /\ phase # "idle" /\ cycles < Budget /\ pc \in Addresses /\ ram[pc].op = kind
      /\ cycles' = cycles + 1 /\ ran' = ran + 1
      /\ ram' = ram /\ status' = status /\ phase' = phase
  BY DEF Fetch, InLoop
<1>2. Budget \in Nat /\ Budget' = Budget
  BY <1>1, Sizes DEF Budget
<1>3. MachineOk'
  BY <1>1 DEF MachineOk
<1>4. Spent'
  BY <1>1, <1>2 DEF MachineOk, Spent
<1> QED BY <1>1, <1>3, <1>4 DEF MachineOk

\* Whatever is executed keeps the machine in order.
LEMMA InstructionsKeep ==
  ASSUME MachineOk, Spent, Plain \/ Ecall \/ Halt \/ Jump \/ JumpRegister \/ Branch \/ SetGlobal
  PROVE  MachineOk' /\ Spent'
<1>1. pc \in 0 .. RamSize /\ \A a \in Addresses : Instruction(ram[a])
  BY DEF MachineOk
<1>2. pc \in Int
  BY <1>1, Sizes
<1>3. CASE Plain \/ Ecall \/ SetGlobal
  <2>1. pc' = Outside(pc + 1)
    BY <1>3 DEF Plain, Ecall, SetGlobal
  <2>2. pc' \in 0 .. RamSize
    BY <1>2, <2>1, OutsideType
  <2> QED BY <1>3, <2>2, FetchCounts DEF Plain, Ecall, SetGlobal
<1>4. CASE Halt
  BY <1>1, <1>4, FetchCounts DEF Halt
<1>5. CASE Jump
  <2>1. pc \in Addresses /\ ram[pc].op = "jump" /\ pc' = Outside(pc + ram[pc].offset)
    BY <1>5 DEF Jump, Fetch
  <2>2. ram[pc].offset \in Int
    BY <1>1, <2>1 DEF Instruction
  <2>3. pc' \in 0 .. RamSize
    BY <1>2, <2>1, <2>2, OutsideType
  <2> QED BY <1>5, <2>3, FetchCounts DEF Jump
<1>6. CASE Branch
  <2>1. /\ pc \in Addresses /\ ram[pc].op = "branch"
        /\ pc' = Outside(pc + 1) \/ pc' = Outside(pc + 1 + ram[pc].offset)
    BY <1>6 DEF Branch, Fetch
  <2>2. ram[pc].offset \in Int
    BY <1>1, <2>1 DEF Instruction
  <2>3. pc + 1 \in Int /\ pc + 1 + ram[pc].offset \in Int
    BY <1>2, <2>2
  <2>4. pc' \in 0 .. RamSize
    BY <2>1, <2>3, OutsideType
  <2> QED BY <1>6, <2>4, FetchCounts DEF Branch
<1>7. CASE JumpRegister
  <2>1. pc' \in 0 .. RamSize
    BY <1>7 DEF JumpRegister
  <2> QED BY <1>7, <2>1, FetchCounts DEF JumpRegister
<1> QED BY <1>3, <1>4, <1>5, <1>6, <1>7

\* The calls of the bindings, and the end of a run.
LEMMA CallsKeep ==
  ASSUME MachineOk, Spent,
         \/ RunOff \/ LoopEnds \/ GfxInit \/ GfxRun \/ GfxRunHalted \/ UNCHANGED vars
         \/ (\E p \in Programs : GfxLoad(p)) \/ (\E p \in SrvmPrograms : SrvmRun(p))
  PROVE  MachineOk' /\ Spent'
<1>1. CASE RunOff
  BY <1>1 DEF RunOff, MachineOk, Spent, Budget
<1>2. CASE LoopEnds
  BY <1>2 DEF LoopEnds, MachineOk, Spent
<1>3. CASE GfxInit
  <2>1. \A a \in Addresses : ram'[a] = Zero
    BY <1>3 DEF GfxInit
  <2>2. Instruction(Zero)
    BY DEF Instruction, Zero, Kinds
  <2>3. \A a \in Addresses : Instruction(ram'[a])
    BY <2>1, <2>2
  <2>4. phase' = "idle" /\ pc' = 0 /\ cycles' = 0 /\ ran' = ran /\ status' = 0
    BY <1>3 DEF GfxInit
  <2> QED BY <2>3, <2>4, Sizes DEF MachineOk, Spent
<1>4. CASE GfxRun
  BY <1>4 DEF GfxRun, MachineOk, Spent
<1>5. CASE GfxRunHalted \/ UNCHANGED vars
  BY <1>5 DEF GfxRunHalted, vars, machine, MachineOk, Spent, Budget
<1>6. ASSUME NEW p \in Programs, GfxLoad(p) PROVE MachineOk' /\ Spent'
  <2>1. /\ phase' = "idle" /\ pc' = Outside(p.entry) /\ cycles' = 0
        /\ ran' = ran /\ status' = status /\ ram' = Loaded(p.code)
    BY <1>6 DEF GfxLoad
  <2>2. Code(p.code) /\ p.entry \in Int
    BY VmAssumption
  <2>3. pc' \in 0 .. RamSize
    BY <2>1, <2>2, OutsideType
  <2>4. \A a \in Addresses : Instruction(ram'[a])
    BY <2>1, <2>2, LoadedCode
  <2> QED BY <2>1, <2>3, <2>4 DEF MachineOk, Spent
<1>7. ASSUME NEW p \in SrvmPrograms, SrvmRun(p) PROVE MachineOk' /\ Spent'
  <2>1. CASE p.hasChunk /\ ram' = Loaded(p.code)
    <3>1. /\ pc' = 0 /\ cycles' = 0 /\ phase' = "srvm" /\ ran' = 0 /\ status' = status
      BY <1>7, <2>1 DEF SrvmRun
    <3>2. \A a \in Addresses : Instruction(ram'[a])
      BY <2>1, VmAssumption, LoadedCode
    <3> QED BY <3>1, <3>2, Sizes DEF MachineOk, Spent
  <2>2. CASE UNCHANGED <<ram, pc, cycles, running, phase, ran>>
    BY <1>7, <2>2 DEF SrvmRun, MachineOk, Spent, Budget
  <2> QED BY <1>7, <2>1, <2>2 DEF SrvmRun
<1> QED BY <1>1, <1>2, <1>3, <1>4, <1>5, <1>6, <1>7

LEMMA FlagsKeep == ASSUME Flags, [Next]_vars PROVE Flags'
<1>1. CASE Plain \/ Ecall \/ Jump \/ JumpRegister \/ Branch \/ SetGlobal
  <2>1. active' = active /\ running' = running
    BY <1>1 DEF Plain, Ecall, Jump, JumpRegister, Branch, SetGlobal, Fetch
  <2> QED BY <2>1, Zenon DEF Flags
<1>2. CASE Halt \/ RunOff
  <2>1. active' = active
    BY <1>2 DEF Halt, RunOff, Fetch
  <2>2. running' = FALSE
    BY <1>2, Zenon DEF Halt, RunOff
  <2> QED BY <2>1, <2>2, Zenon DEF Flags
<1>3. CASE LoopEnds \/ GfxRun \/ GfxRunHalted \/ UNCHANGED vars
  <2>1. active' = active /\ running' = running
    BY <1>3 DEF LoopEnds, GfxRun, GfxRunHalted, vars, machine
  <2> QED BY <2>1, Zenon DEF Flags
<1>4. CASE GfxInit
  BY <1>4, Zenon DEF GfxInit, Flags
<1>5. ASSUME NEW p \in Programs, GfxLoad(p) PROVE Flags'
  <2>1. active' = active /\ running' = running
    BY <1>5 DEF GfxLoad
  <2> QED BY <2>1, Zenon DEF Flags
<1>6. ASSUME NEW p \in SrvmPrograms, SrvmRun(p) PROVE Flags'
  <2>1. active' = TRUE
    BY <1>6, Zenon DEF SrvmRun
  <2>2. running' = TRUE \/ running' = running
    BY <1>6, Zenon DEF SrvmRun
  <2> QED BY <2>1, <2>2, Zenon DEF Flags
<1> QED BY <1>1, <1>2, <1>3, <1>4, <1>5, <1>6 DEF Next, Step

\* Only SetGlobal, gfx_init and srvm_run write the heap.
LEMMA HeapKeep == ASSUME MachineOk, HeapInv, [Next]_vars PROVE HeapInv'
<1>1. CASE heap' = heap /\ written' = written
  BY <1>1 DEF HeapInv
<1>2. CASE SetGlobal
  <2> DEFINE k == ram[pc].key
             v == ram[pc].val
  <2>1. /\ pc \in Addresses /\ ram[pc].op = "set"
        /\ heap' = HeapSet(heap, k, v) /\ written' = WrittenNow(written, k, v)
    BY <1>2 DEF SetGlobal, Fetch, WrittenNow
  <2>2. k \in Keys /\ v \in Int
    BY <2>1 DEF MachineOk, Instruction
  <2> HIDE DEF k, v
  <2>3. HeapOk(HeapSet(heap, k, v), WrittenNow(written, k, v))
    BY <2>2, SetKeepsHeap DEF HeapInv
  <2> QED BY <2>1, <2>3 DEF HeapInv
<1>3. CASE GfxInit
  <2>1. heap' = <<>> /\ written' = NothingWritten
    BY <1>3 DEF GfxInit
  <2> QED BY <2>1, EmptyHeap DEF HeapInv
<1>4. ASSUME NEW p \in SrvmPrograms, SrvmRun(p) PROVE HeapInv'
  <2>1. heap' = ConstantsHeap(p.consts) /\ written' = NothingWritten
    BY <1>4 DEF SrvmRun
  <2>2. Pool(p.consts)
    BY VmAssumption
  <2> QED BY <2>1, <2>2, ConstantsKeepHeap DEF HeapInv
<1>5. CASE Plain \/ Ecall \/ Halt \/ Jump \/ JumpRegister \/ Branch
  BY <1>1, <1>5 DEF Plain, Ecall, Halt, Jump, JumpRegister, Branch
<1>6. CASE RunOff \/ LoopEnds \/ GfxRun \/ GfxRunHalted \/ UNCHANGED vars
  BY <1>1, <1>6 DEF RunOff, LoopEnds, GfxRun, GfxRunHalted, vars, machine
<1>7. CASE \E p \in Programs : GfxLoad(p)
  BY <1>1, <1>7 DEF GfxLoad
<1> QED BY <1>2, <1>3, <1>4, <1>5, <1>6, <1>7 DEF Next, Step

LEMMA Initially == ASSUME Init PROVE IInv
<1>1. active \in BOOLEAN /\ running \in BOOLEAN
  BY Zenon DEF Init
<1>2. Instruction(Zero)
  BY DEF Instruction, Zero, Kinds
<1>3. \A a \in Addresses : Instruction(ram[a])
  BY <1>2 DEF Init
<1>4. MachineOk /\ Spent
  BY <1>3, Sizes DEF Init, MachineOk, Spent
<1>5. HeapInv
  BY EmptyHeap DEF Init, HeapInv
<1> QED BY <1>1, <1>4, <1>5 DEF IInv, Flags

LEMMA EveryStepKeeps == ASSUME IInv, [Next]_vars PROVE IInv'
<1>1. Flags' /\ HeapInv'
  BY FlagsKeep, HeapKeep DEF IInv
<1>2. MachineOk' /\ Spent'
  BY InstructionsKeep, CallsKeep DEF IInv, Next, Step
<1> QED BY <1>1, <1>2 DEF IInv

LEMMA IInvHolds == Spec => []IInv
<1>1. Init => IInv
  BY Initially
<1>2. IInv /\ [Next]_vars => IInv'
  BY EveryStepKeeps
<1> QED BY <1>1, <1>2, PTL DEF Spec

\* The program counter stays on RAM or on the one place that stands for all
\* others, whatever jumps and branches say, RAM holds instructions at every address
\* it may point to, and the heap has at most HeapMax entries (rvvm.h:137-140).
THEOREM TypesHold == Spec => []TypeOK
<1>1. IInv => TypeOK
  <2> SUFFICES ASSUME IInv PROVE TypeOK
    OBVIOUS
  <2>1. \A a \in Addresses : ram[a].op \in Kinds
    BY DEF IInv, MachineOk, Instruction
  <2>2. Len(heap) <= HeapMax /\ HeapKeys(heap) \subseteq Nat /\ DOMAIN written = Globals
    BY HeapDomain DEF IInv, HeapInv, HeapOk, HeapKeys
  <2>3. /\ pc \in 0 .. RamSize /\ cycles \in Nat /\ ran \in Nat
        /\ status \in {0, 1} /\ phase \in {"idle", "frame", "srvm"}
    BY DEF IInv, MachineOk
  <2>4. active \in BOOLEAN /\ running \in BOOLEAN
    BY DEF IInv, Flags
  <2> QED BY <2>1, <2>2, <2>3, <2>4, Zenon DEF TypeOK
<1> QED BY <1>1, IInvHolds, PTL

\* No gfx_run and no srvm_run executes more instructions than its budget, for
\* every program and every budget, even if the machine is handed from one to the
\* other in the middle of a program (rvvm.h:340-345).
THEOREM RunsStayWithinBudget == Spec => []WithinBudget
<1>1. IInv => WithinBudget
  <2> SUFFICES ASSUME IInv PROVE WithinBudget
    OBVIOUS
  <2>1. ran \in Nat /\ cycles \in Nat /\ (phase # "idle" => ran <= cycles /\ (ran = 0 \/ cycles <= Budget))
    BY DEF IInv, MachineOk, Spent
  <2> QED BY <2>1, Sizes DEF WithinBudget, Budget
<1> QED BY <1>1, IInvHolds, PTL

\* A global in the heap has the value a program last wrote to it, and one that was
\* written is missing only while the heap is full of others, for every size of the
\* heap and of the window of its addresses, keys outside it and the constants
\* srvm_run loads included (gfx_vm.h:45-96, srvm_loader.h:126-137).
THEOREM GlobalsAreKept == Spec => []GlobalsKept
<1>1. IInv => GlobalsKept
  BY HeapKeepsGlobals DEF IInv
<1> QED BY <1>1, IInvHolds, PTL

-----------------------------------------------------------------------------
(* Pixels and their offsets. *)

LEMMA Screen ==
  /\ Width \in Nat \ {0} /\ Height \in Nat \ {0} /\ Size \in Nat
  /\ Half \in Nat \ {0} /\ ImmHalf \in Nat \ {0}
<1>1. {Width, Height, Half, ImmHalf} \subseteq Nat \ {0}  BY DrawAssumption
<1>2. \A a, b \in Nat : a * b \in Nat  OBVIOUS
<1> QED BY <1>1, <1>2 DEF Size

LEMMA OffsetBelow ==
  ASSUME NEW w \in Nat \ {0}, NEW h \in Nat, NEW x \in 0 .. w - 1, NEW y \in 0 .. h - 1
  PROVE  y * w + x \in 0 .. h * w - 1
<1>1. PICK d \in Nat : h = y + 1 + d  BY h - y - 1 \in Nat
<1>2. h * w = y * w + w + d * w  BY <1>1
<1>3. y * w \in Nat /\ d * w \in Nat  OBVIOUS
<1> QED BY <1>2, <1>3

\* An offset is a pixel of one row and one column.
LEMMA OffsetUnique ==
  ASSUME NEW w \in Nat \ {0}, NEW x \in 0 .. w - 1, NEW u \in 0 .. w - 1,
         NEW y \in Int, NEW v \in Int, y * w + x = v * w + u
  PROVE  y = v /\ x = u
<1>1. \A a \in Int, b \in 0 .. w - 1 : (w * a + b) \div w = a  OBVIOUS
<1>2. y * w = w * y /\ v * w = w * v  OBVIOUS
<1>3. y = v  BY <1>1, <1>2
<1> QED BY <1>3

LEMMA OffsetOnScreen ==
  ASSUME NEW x \in Columns, NEW y \in Rows
  PROVE  Offset(x, y) \in 0 .. Size - 1
BY Screen, OffsetBelow DEF Columns, Rows, Offset, Size

LEMMA OffsetsDiffer ==
  ASSUME NEW x \in Columns, NEW u \in Columns, NEW y \in Int, NEW v \in Int,
         Offset(x, y) = Offset(u, v)
  PROVE  x = u /\ y = v
BY Screen, OffsetUnique DEF Columns, Offset

-----------------------------------------------------------------------------
(* Writes. *)

Picture == framebuf \in [0 .. Size - 1 -> Colors]

LEMMA WrittenPicture ==
  ASSUME Picture, NEW writes, NEW c, \A o \in writes : c[o] \in Colors, Write(writes, c)
  PROVE  /\ Picture' /\ outside' = writes \ (0 .. Size - 1)
         /\ \A o \in 0 .. Size - 1 :
              framebuf'[o] = IF o \in writes THEN c[o] ELSE framebuf[o]
<1>1. DOMAIN framebuf = 0 .. Size - 1  BY DEF Picture
<1>2. framebuf' = [o \in 0 .. Size - 1 |-> IF o \in writes THEN c[o] ELSE framebuf[o]]
  BY <1>1 DEF Write
<1>3. outside' = writes \ (0 .. Size - 1)  BY <1>1 DEF Write
<1>4. \A o \in 0 .. Size - 1 : framebuf[o] \in Colors  BY DEF Picture
<1>5. Picture'  BY <1>2, <1>4 DEF Picture
<1> QED BY <1>2, <1>3, <1>5

-----------------------------------------------------------------------------
(* FILL_RECT *)

\* A row is cut where the screen ends.
LEMMA RowIsCut ==
  ASSUME NEW x \in Columns, NEW w \in Nat
  PROVE  /\ RowLen(x, w) \in Nat
         /\ \A k \in Nat : k < RowLen(x, w) <=> k < w /\ x + k < Width
BY Screen DEF RowLen, Columns

LEMMA OffsetType ==
  ASSUME NEW x \in Int, NEW y \in Int
  PROVE  Offset(x, y) \in Int /\ \A k \in Int : Offset(x + k, y) = Offset(x, y) + k
<1>1. PICK m \in Int : m = y * Width  BY Screen
<1> QED BY <1>1 DEF Offset

LEMMA FillOffsetsExact ==
  ASSUME NEW x \in Columns, NEW y \in Rows, NEW w \in Nat, NEW h \in Nat
  PROVE  /\ FillOffsets(x, y, w, h) \subseteq 0 .. Size - 1
         /\ \A px \in Columns, py \in Rows :
              Offset(px, py) \in FillOffsets(x, y, w, h)
                <=> px \in x .. x + w - 1 /\ py \in y .. y + h - 1
<1>0. /\ FillOffsets(x, y, w, h)
           = UNION {Offset(x, r) .. Offset(x, r) + RowLen(x, w) - 1 : r \in FillRows(y, h)}
      /\ FillRows(y, h) = {r \in Rows : r \in y .. y + h - 1}
  BY Screen DEF FillOffsets, FillRows, UpTo, Columns, Rows
<1>1. ASSUME NEW o \in FillOffsets(x, y, w, h)
      PROVE  \E k \in Nat, r \in Rows : /\ k < w /\ x + k \in Columns
                                        /\ r \in y .. y + h - 1 /\ o = Offset(x + k, r)
  <2>1. PICK r \in FillRows(y, h) : o \in Offset(x, r) .. Offset(x, r) + RowLen(x, w) - 1
    BY <1>0
  <2>2. r \in Rows /\ r \in Int /\ r \in y .. y + h - 1  BY <1>0, <2>1, Screen DEF Rows
  <2>3. x \in Int /\ Offset(x, r) \in Int  BY <2>2, OffsetType, Screen DEF Columns
  <2>4. PICK k \in Nat : o = Offset(x, r) + k /\ k < RowLen(x, w)
    <3>1. o - Offset(x, r) \in Nat /\ o - Offset(x, r) < RowLen(x, w)
      BY <2>1, <2>3, RowIsCut
    <3> QED BY <2>1, <2>3, <3>1
  <2>5. k < w /\ x + k < Width  BY <2>4, RowIsCut
  <2>6. o = Offset(x + k, r)  BY <2>2, <2>3, <2>4, OffsetType
  <2>7. x + k \in Columns  BY <2>5, Screen DEF Columns
  <2> QED BY <2>2, <2>5, <2>6, <2>7
<1>2. ASSUME NEW px \in Columns, NEW py \in Rows, Offset(px, py) \in FillOffsets(x, y, w, h)
      PROVE  px \in x .. x + w - 1 /\ py \in y .. y + h - 1
  <2>1. PICK k \in Nat, r \in Rows : /\ k < w /\ x + k \in Columns
                                    /\ r \in y .. y + h - 1 /\ Offset(px, py) = Offset(x + k, r)
    BY <1>1, <1>2
  <2>2. r \in Int /\ py \in Int  BY Screen DEF Rows
  <2>3. px = x + k /\ py = r  BY <2>1, <2>2, OffsetsDiffer
  <2> QED BY <2>1, <2>3, Screen DEF Columns
<1>3. ASSUME NEW px \in Columns, NEW py \in Rows, px \in x .. x + w - 1, py \in y .. y + h - 1
      PROVE  Offset(px, py) \in FillOffsets(x, y, w, h)
  <2>1. py \in FillRows(y, h)  BY <1>0, <1>3
  <2>2. PICK k \in Nat : px = x + k /\ k < w  BY <1>3, Screen, px - x \in Nat DEF Columns
  <2>3. k < RowLen(x, w) /\ RowLen(x, w) \in Nat  BY <2>2, RowIsCut, Screen DEF Columns
  <2>4. x \in Int /\ py \in Int  BY Screen DEF Columns, Rows
  <2>5. Offset(px, py) = Offset(x, py) + k /\ Offset(x, py) \in Int  BY <2>2, <2>4, OffsetType
  <2>6. Offset(px, py) \in Offset(x, py) .. Offset(x, py) + RowLen(x, w) - 1  BY <2>3, <2>5
  <2> QED BY <1>0, <2>1, <2>6
<1>4. \A o \in FillOffsets(x, y, w, h) : o \in 0 .. Size - 1  BY <1>1, OffsetOnScreen
<1> QED BY <1>2, <1>3, <1>4

\* What a step that writes one color at some offsets leaves.
PaintsAt(x, y, w, h, color) ==
  \A px \in Columns, py \in Rows :
    framebuf'[Offset(px, py)] =
      IF px \in x .. x + w - 1 /\ py \in y .. y + h - 1 THEN color ELSE framebuf[Offset(px, py)]

LEMMA OneColor ==
  ASSUME Picture, NEW writes, NEW color \in Colors,
         NEW c, \A o \in writes : c[o] = color, Write(writes, c),
         NEW x, NEW y, NEW w, NEW h
  PROVE  /\ Picture' /\ outside' = writes \ (0 .. Size - 1)
         /\ (\A px \in Columns, py \in Rows :
               Offset(px, py) \in writes <=> px \in x .. x + w - 1 /\ py \in y .. y + h - 1)
            => PaintsAt(x, y, w, h, color)
<1>1. /\ Picture' /\ outside' = writes \ (0 .. Size - 1)
      /\ \A o \in 0 .. Size - 1 : framebuf'[o] = IF o \in writes THEN c[o] ELSE framebuf[o]
  <2>1. \A o \in writes : c[o] \in Colors  OBVIOUS
  <2> QED BY <2>1, WrittenPicture
<1>2. \A o \in 0 .. Size - 1 : framebuf'[o] = IF o \in writes THEN color ELSE framebuf[o]
  BY <1>1
<1>3. ASSUME \A px \in Columns, py \in Rows :
               Offset(px, py) \in writes <=> px \in x .. x + w - 1 /\ py \in y .. y + h - 1
      PROVE  PaintsAt(x, y, w, h, color)
  <2> SUFFICES ASSUME NEW px \in Columns, NEW py \in Rows
               PROVE  framebuf'[Offset(px, py)] =
                        IF px \in x .. x + w - 1 /\ py \in y .. y + h - 1
                        THEN color ELSE framebuf[Offset(px, py)]
    BY DEF PaintsAt
  <2>1. Offset(px, py) \in 0 .. Size - 1  BY OffsetOnScreen
  <2>2. Offset(px, py) \in writes <=> px \in x .. x + w - 1 /\ py \in y .. y + h - 1
    BY <1>3
  <2> QED BY <1>2, <2>1, <2>2, Zenon
<1> QED BY <1>1, <1>3

LEMMA FillPaints ==
  ASSUME Picture, NEW x \in Nat, NEW y \in Nat, NEW w \in Nat, NEW h \in Nat,
         NEW color \in Colors, Fill(x, y, w, h, color)
  PROVE  Picture' /\ outside' = {} /\ PaintsAt(x, y, w, h, color)
<1> DEFINE writes == FillOffsets(x, y, w, h)
           c == [o \in writes |-> color]
<1>1. Write(writes, c)  BY DEF Fill
<1>2. /\ writes \subseteq 0 .. Size - 1
      /\ \A px \in Columns, py \in Rows :
           Offset(px, py) \in writes <=> px \in x .. x + w - 1 /\ py \in y .. y + h - 1
  <2>1. CASE x \in Columns /\ y \in Rows  BY <2>1, FillOffsetsExact
  <2>2. CASE ~(x < Width /\ y < Height)
    <3>1. writes = {}  BY <2>2 DEF FillOffsets
    <3>2. ASSUME NEW px \in Columns, NEW py \in Rows
          PROVE  ~(px \in x .. x + w - 1 /\ py \in y .. y + h - 1)
      BY <2>2, Screen DEF Columns, Rows
    <3> QED BY <3>1, <3>2
  <2>3. x < Width /\ y < Height => x \in Columns /\ y \in Rows  BY Screen DEF Columns, Rows
  <2> QED BY <2>1, <2>2, <2>3
<1>3. \A o \in writes : c[o] = color  OBVIOUS
<1> HIDE DEF c, writes
<1>4. /\ Picture' /\ outside' = writes \ (0 .. Size - 1)
      /\ PaintsAt(x, y, w, h, color)
  BY <1>1, <1>2, <1>3, OneColor
<1> QED BY <1>2, <1>4

\* Both halves of an operand word are numbers, for negative immediates too.
LEMMA HalvesAreNumbers ==
  ASSUME NEW imm \in Int
  PROVE  LowHalf(imm) \in Nat /\ HighHalf(imm) \in Nat
<1>1. \A h \in Nat \ {0} : h * h \in Nat \ {0}  OBVIOUS
<1>2. \A n \in Nat \ {0}, i \in Int : i % n \in Nat  OBVIOUS
<1>3. \A n \in Nat \ {0}, i \in Nat : i % n \in Nat /\ i \div n \in Nat  OBVIOUS
<1> QED BY <1>1, <1>2, <1>3, Screen DEF LowHalf, HighHalf, ImmWord

LEMMA AssembledType ==
  ASSUME NEW w \in Nat, NEW h \in Nat
  PROVE  Assembled(w, h) \in Int
<1>1. h * Half + w \in Nat /\ 2 * ImmHalf \in Nat \ {0}  BY Screen
<1>2. (h * Half + w) % (2 * ImmHalf) \in Int  BY <1>1
<1> QED BY <1>2, Screen DEF Assembled

-----------------------------------------------------------------------------
(* disp_rect and disp_clear *)

RectOffsets(x, y, w, h) ==
  {Offset(dx, dy) : dx \in UpTo(x, w, Width), dy \in UpTo(y, h, Height)}

\* Neither loop passes the last pixel.
LEMMA RectEnds ==
  ASSUME NEW x \in Int, NEW y \in Int, NEW w \in Int, NEW h \in Int,
         NEW o \in RectOffsets(x, y, w, h)
  PROVE  o \in Int /\ o < Size /\ (x >= 0 /\ y >= 0 => o \in 0 .. Size - 1)
<1>1. PICK dx \in UpTo(x, w, Width), dy \in UpTo(y, h, Height) : o = Offset(dx, dy)
  BY DEF RectOffsets
<1>2. /\ dx \in Int /\ dx < Width /\ x <= dx
      /\ dy \in Int /\ dy < Height /\ y <= dy
  BY <1>1 DEF UpTo
<1>3. PICK d \in Nat : Height = dy + 1 + d  BY <1>2, Screen, Height - dy - 1 \in Nat
<1>4. Height * Width = dy * Width + Width + d * Width  BY <1>2, <1>3, Screen
<1>5. dy * Width \in Int /\ d * Width \in Nat  BY <1>2, Screen
<1>6. o = dy * Width + dx  BY <1>1 DEF Offset
<1>7. Size = dy * Width + Width + d * Width
  <2>1. Width * Height = Height * Width  BY Screen
  <2> QED BY <1>4, <2>1 DEF Size
<1>8. o \in Int /\ o < Size  BY <1>2, <1>5, <1>6, <1>7, Screen
<1>9. ASSUME x >= 0, y >= 0 PROVE o \in 0 .. Size - 1
  <2>1. dx \in Columns /\ dy \in Rows  BY <1>2, <1>9, Screen DEF Columns, Rows
  <2> QED BY <1>1, <2>1, OffsetOnScreen
<1> QED BY <1>8, <1>9

LEMMA RectPaints ==
  ASSUME Picture, NEW x \in Int, NEW y \in Int, NEW w \in Int, NEW h \in Int,
         NEW color \in Colors, DispRect(x, y, w, h, color)
  PROVE  /\ Picture' /\ \A o \in outside' : o < 0 /\ (x < 0 \/ y < 0)
         /\ x >= 0 => PaintsAt(x, y, w, h, color)
<1> DEFINE writes == RectOffsets(x, y, w, h)
           c == [o \in writes |-> color]
<1>1. Write(writes, c)  BY DEF DispRect, RectOffsets
<1>2. \A o \in writes : o \in Int /\ o < Size /\ (x >= 0 /\ y >= 0 => o \in 0 .. Size - 1)
  BY RectEnds
<1>3. ASSUME x >= 0, NEW px \in Columns, NEW py \in Rows
      PROVE  Offset(px, py) \in writes <=> px \in x .. x + w - 1 /\ py \in y .. y + h - 1
  <2>1. px \in Int /\ py \in Int /\ px < Width /\ py < Height  BY Screen DEF Columns, Rows
  <2>2. ASSUME Offset(px, py) \in writes
        PROVE  px \in x .. x + w - 1 /\ py \in y .. y + h - 1
    <3>1. PICK dx \in UpTo(x, w, Width), dy \in UpTo(y, h, Height) :
            Offset(px, py) = Offset(dx, dy)
      BY <2>2 DEF RectOffsets
    <3>2. /\ dx \in x .. x + w - 1 /\ dx < Width /\ dx \in Int
          /\ dy \in y .. y + h - 1 /\ dy \in Int
      BY <3>1 DEF UpTo
    <3>3. dx \in Columns  BY <1>3, <3>2, Screen DEF Columns
    <3>4. px = dx /\ py = dy  BY <2>1, <3>1, <3>2, <3>3, OffsetsDiffer
    <3> QED BY <3>2, <3>4
  <2>3. ASSUME px \in x .. x + w - 1, py \in y .. y + h - 1
        PROVE  Offset(px, py) \in writes
    <3>1. px \in UpTo(x, w, Width) /\ py \in UpTo(y, h, Height)  BY <2>1, <2>3 DEF UpTo
    <3> QED BY <3>1 DEF RectOffsets
  <2> QED BY <2>2, <2>3
<1>4. \A o \in writes : c[o] = color  OBVIOUS
<1> HIDE DEF c, writes
<1>5. Picture' /\ outside' = writes \ (0 .. Size - 1)  BY <1>1, <1>4, OneColor
<1>6. \A o \in outside' : o < 0 /\ (x < 0 \/ y < 0)  BY <1>2, <1>5, Screen
<1>7. ASSUME x >= 0 PROVE PaintsAt(x, y, w, h, color)
  <2>1. \A px \in Columns, py \in Rows :
          Offset(px, py) \in writes <=> px \in x .. x + w - 1 /\ py \in y .. y + h - 1
    BY <1>3, <1>7
  <2> QED BY <1>1, <1>4, <2>1, OneColor
<1> QED BY <1>5, <1>6, <1>7

LEMMA ClearPaints ==
  ASSUME Picture, NEW color \in Colors, DispClear(color)
  PROVE  Picture' /\ outside' = {} /\ PaintsAt(0, 0, Width, Height, color)
<1> DEFINE writes == 0 .. Size - 1
           c == [o \in writes |-> color]
<1>1. Write(writes, c)  BY DEF DispClear
<1>2. \A o \in writes : c[o] = color  OBVIOUS
<1>3. ASSUME NEW px \in Columns, NEW py \in Rows
      PROVE  Offset(px, py) \in writes <=> px \in 0 .. 0 + Width - 1 /\ py \in 0 .. 0 + Height - 1
  BY OffsetOnScreen, Screen DEF Columns, Rows
<1> HIDE DEF c
<1>4. Picture' /\ outside' = writes \ (0 .. Size - 1)  BY <1>1, <1>2, OneColor
<1>5. PaintsAt(0, 0, Width, Height, color)
  <2> HIDE DEF writes
  <2> QED BY <1>1, <1>2, <1>3, OneColor
<1> QED BY <1>4, <1>5

-----------------------------------------------------------------------------
(* BLIT *)

RowsAt(x, y, w, h, o) ==
  {dy \in 0 .. h - 1 : Offset(x, y + dy) <= o /\ o < Offset(x, y + dy) + w}

LastRow(x, y, w, h, o) ==
  CHOOSE dy \in RowsAt(x, y, w, h, o) : \A d \in RowsAt(x, y, w, h, o) : d <= dy

BlitOffsets(x, y, w, h) == {o \in 0 .. Size - 1 : RowsAt(x, y, w, h, o) # {}}

ByteAt(x, y, src, w, h, o) ==
  Source(src, o - Offset(x, y + LastRow(x, y, w, h, o)), LastRow(x, y, w, h, o), w)

LEMMA GreatestElement ==
  ASSUME NEW n \in Int, NEW S \in SUBSET (0 .. n), S # {}
  PROVE  \E m \in S : \A k \in S : k <= m
<1> DEFINE R == {j \in Nat : \E k \in S : j = n - k}
<1>1. PICK k0 \in S : TRUE  OBVIOUS
<1>2. n - k0 \in R  BY <1>1
<1>3. PICK j \in R : \A i \in R : j <= i
  <2>1. R \in SUBSET Nat /\ R # {}  BY <1>2
  <2> HIDE DEF R
  <2> QED BY <2>1, LeastElement
<1>4. PICK m \in S : j = n - m  BY <1>3
<1>5. \A k \in S : n - k \in R  OBVIOUS
<1>6. \A k \in S : n - m <= n - k  BY <1>3, <1>4, <1>5
<1> QED BY <1>6

LEMMA LastRowIsOne ==
  ASSUME NEW x, NEW y, NEW w, NEW h \in Int, NEW o, RowsAt(x, y, w, h, o) # {}
  PROVE  LastRow(x, y, w, h, o) \in RowsAt(x, y, w, h, o)
<1> DEFINE S == RowsAt(x, y, w, h, o)
<1>1. S \in SUBSET (0 .. h - 1) /\ h - 1 \in Int  BY DEF RowsAt
<1>2. LastRow(x, y, w, h, o) = CHOOSE m \in S : \A k \in S : k <= m  BY DEF LastRow
<1> HIDE DEF S
<1>3. \E m \in S : \A k \in S : k <= m
  <2>1. S # {}  BY DEF S
  <2> QED BY <1>1, <2>1, GreatestElement
<1>4. LastRow(x, y, w, h, o) \in S  BY <1>2, <1>3
<1> QED BY <1>4 DEF S

LEMMA BlitEffect ==
  ASSUME NEW x, NEW y, NEW src, NEW w, NEW h, Blit(x, y, src, w, h)
  PROVE  /\ Write(BlitOffsets(x, y, w, h),
                  [o \in BlitOffsets(x, y, w, h) |-> RamPixel[ByteAt(x, y, src, w, h, o)]])
         /\ \A dx \in 0 .. w - 1, dy \in 0 .. h - 1 : Source(src, dx, dy, w) \in DOMAIN RamPixel
BY DEF Blit, BlitOffsets, ByteAt, RowsAt, LastRow

BlitWrites(x, y, src, w, h) ==
  \A o \in 0 .. Size - 1 :
    framebuf'[o] = IF RowsAt(x, y, w, h, o) # {} THEN RamPixel[ByteAt(x, y, src, w, h, o)]
                                               ELSE framebuf[o]

\* A byte that is copied lies in RAM, in whichever row it is the last.
LEMMA BlitPicture ==
  ASSUME Picture, NEW x \in Int, NEW y \in Int, NEW src, NEW w \in Nat, NEW h \in Nat,
         Blit(x, y, src, w, h)
  PROVE  Picture' /\ outside' = {} /\ BlitWrites(x, y, src, w, h)
<1> DEFINE writes == BlitOffsets(x, y, w, h)
           c == [o \in writes |-> RamPixel[ByteAt(x, y, src, w, h, o)]]
<1>1. Write(writes, c)  BY BlitEffect
<1>2. writes \in SUBSET (0 .. Size - 1)  BY DEF BlitOffsets
<1>3. ASSUME NEW o \in writes  PROVE RamPixel[ByteAt(x, y, src, w, h, o)] \in Colors
  <2>1. o \in 0 .. Size - 1 /\ RowsAt(x, y, w, h, o) # {}  BY DEF BlitOffsets
  <2>2. PICK dy \in RowsAt(x, y, w, h, o) : dy = LastRow(x, y, w, h, o)  BY <2>1, LastRowIsOne
  <2>3. /\ dy \in 0 .. h - 1 /\ dy \in Int
        /\ Offset(x, y + dy) <= o /\ o < Offset(x, y + dy) + w
    BY <2>2 DEF RowsAt
  <2>4. Offset(x, y + dy) \in Int /\ o \in Int  BY <2>1, <2>3, OffsetType, Screen
  <2>5. o - Offset(x, y + dy) \in 0 .. w - 1  BY <2>3, <2>4
  <2>6. Source(src, o - Offset(x, y + dy), dy, w) \in DOMAIN RamPixel  BY <2>3, <2>5, BlitEffect
  <2>7. ByteAt(x, y, src, w, h, o) \in DOMAIN RamPixel  BY <2>2, <2>6 DEF ByteAt
  <2> QED BY <2>7, DrawAssumption
<1>4. \A o \in writes : c[o] = RamPixel[ByteAt(x, y, src, w, h, o)] /\ c[o] \in Colors  BY <1>3
<1>5. \A o \in 0 .. Size - 1 : o \in writes <=> RowsAt(x, y, w, h, o) # {}  BY DEF BlitOffsets
<1> HIDE DEF c, writes
<1>6. /\ Picture' /\ outside' = writes \ (0 .. Size - 1)
      /\ \A o \in 0 .. Size - 1 : framebuf'[o] = IF o \in writes THEN c[o] ELSE framebuf[o]
  BY <1>1, <1>4, WrittenPicture
<1>7. outside' = {}  BY <1>2, <1>6
<1> QED BY <1>4, <1>5, <1>6, <1>7 DEF BlitWrites

\* In a BLIT that fits, a pixel belongs to one row of it at most.
LEMMA RowOfPixel ==
  ASSUME NEW x \in Nat, NEW y \in Nat, NEW w \in Nat, NEW h \in Nat, x + w <= Width,
         NEW px \in Columns, NEW py \in Rows
  PROVE  /\ RowsAt(x, y, w, h, Offset(px, py)) # {}
              <=> px \in x .. x + w - 1 /\ py \in y .. y + h - 1
         /\ \A dy \in RowsAt(x, y, w, h, Offset(px, py)) :
              dy = py - y /\ Offset(px, py) - Offset(x, y + dy) = px - x
<1>1. x \in Int /\ y \in Int /\ px \in Int /\ py \in Int /\ 0 <= x /\ 0 <= px /\ px < Width
  BY Screen DEF Columns, Rows
<1>2. Offset(px, py) \in Int  BY <1>1, OffsetType
<1>3. ASSUME NEW dy \in RowsAt(x, y, w, h, Offset(px, py))
      PROVE  /\ dy = py - y /\ Offset(px, py) - Offset(x, y + dy) = px - x
             /\ px \in x .. x + w - 1 /\ py \in y .. y + h - 1
  <2>1. /\ dy \in 0 .. h - 1 /\ dy \in Int /\ y + dy \in Int
        /\ Offset(x, y + dy) <= Offset(px, py) /\ Offset(px, py) < Offset(x, y + dy) + w
    BY <1>1 DEF RowsAt
  <2>2. Offset(x, y + dy) \in Int /\ \A k \in Int : Offset(x + k, y + dy) = Offset(x, y + dy) + k
    BY <1>1, <2>1, OffsetType
  <2>3. PICK k \in Nat : k < w /\ Offset(px, py) = Offset(x, y + dy) + k
    <3>1. Offset(px, py) - Offset(x, y + dy) \in Nat /\ Offset(px, py) - Offset(x, y + dy) < w
      BY <1>2, <2>1, <2>2
    <3> QED BY <1>2, <2>2, <3>1
  <2>4. x + k \in Columns /\ k \in Int  BY <1>1, <2>3, Screen DEF Columns
  <2>5. Offset(px, py) = Offset(x + k, y + dy)  BY <2>2, <2>3, <2>4
  <2>6. px = x + k /\ py = y + dy  BY <1>1, <2>1, <2>4, <2>5, OffsetsDiffer
  <2> QED BY <1>1, <2>1, <2>2, <2>3, <2>6
<1>4. ASSUME px \in x .. x + w - 1, py \in y .. y + h - 1
      PROVE  py - y \in RowsAt(x, y, w, h, Offset(px, py))
  <2>1. py - y \in 0 .. h - 1 /\ y + (py - y) = py /\ px - x \in Nat /\ px - x < w /\ x + (px - x) = px
    BY <1>1, <1>4
  <2>2. Offset(px, py) = Offset(x, py) + (px - x) /\ Offset(x, py) \in Int
    <3>1. Offset(x, py) \in Int /\ \A k \in Int : Offset(x + k, py) = Offset(x, py) + k
      BY <1>1, OffsetType
    <3>2. PICK k \in Int : k = px - x  BY <1>1
    <3>3. Offset(x + k, py) = Offset(x, py) + k  BY <3>1
    <3>4. x + k = px  BY <1>1, <3>2
    <3> QED BY <3>1, <3>2, <3>3, <3>4
  <2>3. Offset(x, py) <= Offset(px, py) /\ Offset(px, py) < Offset(x, py) + w
    BY <1>1, <2>1, <2>2
  <2> QED BY <2>1, <2>3 DEF RowsAt
<1>5. ASSUME RowsAt(x, y, w, h, Offset(px, py)) # {}
      PROVE  px \in x .. x + w - 1 /\ py \in y .. y + h - 1
  <2>1. PICK dy \in RowsAt(x, y, w, h, Offset(px, py)) : TRUE  BY <1>5
  <2> QED BY <2>1, <1>3
<1> QED BY <1>3, <1>4, <1>5

CopiesAt(x, y, w, h) ==
  \A px \in Columns, py \in Rows :
    framebuf'[Offset(px, py)] =
      IF px \in x .. x + w - 1 /\ py \in y .. y + h - 1 THEN RamPixel[(py - y) * w + (px - x)]
      ELSE framebuf[Offset(px, py)]

\* The bytes of a BLIT are in RAM.
BytesInRam(x, y, w, h) ==
  \A px \in x .. x + w - 1, py \in y .. y + h - 1 :
    (py - y) * w + (px - x) \in DOMAIN RamPixel

LEMMA BlitReadsRam ==
  ASSUME NEW x \in Nat, NEW y \in Nat, NEW src, NEW w \in Nat, NEW h \in Nat,
         Blit(x, y, src, w, h)
  PROVE  BytesInRam(x, y, w, h)
<1> SUFFICES ASSUME NEW px \in x .. x + w - 1, NEW py \in y .. y + h - 1
             PROVE  (py - y) * w + (px - x) \in DOMAIN RamPixel
  BY DEF BytesInRam
<1>1. px - x \in 0 .. w - 1 /\ py - y \in 0 .. h - 1  OBVIOUS
<1>2. Source(src, px - x, py - y, w) \in DOMAIN RamPixel  BY <1>1, BlitEffect
<1> QED BY <1>2 DEF Source

LEMMA BlitCopies ==
  ASSUME Picture, NEW x \in Nat, NEW y \in Nat, NEW src, NEW w \in Nat, NEW h \in Nat,
         Blit(x, y, src, w, h), x + w <= Width
  PROVE  CopiesAt(x, y, w, h)
<1> SUFFICES ASSUME NEW px \in Columns, NEW py \in Rows
             PROVE  framebuf'[Offset(px, py)] =
                      IF px \in x .. x + w - 1 /\ py \in y .. y + h - 1
                      THEN RamPixel[(py - y) * w + (px - x)]
                      ELSE framebuf[Offset(px, py)]
  BY DEF CopiesAt
<1>1. PICK o \in 0 .. Size - 1 : o = Offset(px, py)  BY OffsetOnScreen
<1>2. x \in Int /\ y \in Int  BY Screen DEF Columns, Rows
<1>3. framebuf'[o] = IF RowsAt(x, y, w, h, o) # {} THEN RamPixel[ByteAt(x, y, src, w, h, o)]
                                                   ELSE framebuf[o]
  <2>1. BlitWrites(x, y, src, w, h)  BY <1>2, BlitPicture
  <2> QED BY <2>1 DEF BlitWrites
<1>4. RowsAt(x, y, w, h, o) # {} <=> px \in x .. x + w - 1 /\ py \in y .. y + h - 1
  BY <1>1, RowOfPixel
<1>5. ASSUME RowsAt(x, y, w, h, o) # {}
      PROVE  ByteAt(x, y, src, w, h, o) = (py - y) * w + (px - x)
  <2>1. PICK dy \in RowsAt(x, y, w, h, o) : dy = LastRow(x, y, w, h, o)  BY <1>5, LastRowIsOne
  <2>2. dy = py - y /\ o - Offset(x, y + dy) = px - x  BY <1>1, <2>1, RowOfPixel
  <2> QED BY <2>1, <2>2 DEF ByteAt, Source
<1> QED BY <1>1, <1>3, <1>4, <1>5

-----------------------------------------------------------------------------
(* The steps. *)

\* Nothing was written outside, or before the array by disp_rect.
Strays == \A o \in outside' : o < 0 /\ op'.kind = "disp_rect" /\ (op'.x < 0 \/ op'.y < 0)

LEMMA NextIsADraw ==
  ASSUME Picture, DrawNext
  PROVE  /\ Picture' /\ Strays /\ op'.kind \in {"fill", "line", "disp_rect", "clear", "blit"}
         /\ op'.kind \in {"fill", "disp_rect", "clear"} /\ op'.x >= 0
              => PaintsAt(op'.x, op'.y, op'.w, op'.h, op'.color)
         /\ op'.kind = "blit" =>
              /\ op'.x \in Nat /\ op'.y \in Nat /\ op'.w \in Nat
              /\ BytesInRam(op'.x, op'.y, op'.w, op'.h)
              /\ op'.x + op'.w <= Width => CopiesAt(op'.x, op'.y, op'.w, op'.h)
<1> DEFINE Goal ==
      /\ Picture' /\ Strays /\ op'.kind \in {"fill", "line", "disp_rect", "clear", "blit"}
      /\ op'.kind \in {"fill", "disp_rect", "clear"} /\ op'.x >= 0
           => PaintsAt(op'.x, op'.y, op'.w, op'.h, op'.color)
      /\ op'.kind = "blit" =>
           /\ op'.x \in Nat /\ op'.y \in Nat /\ op'.w \in Nat
           /\ BytesInRam(op'.x, op'.y, op'.w, op'.h)
           /\ op'.x + op'.w <= Width => CopiesAt(op'.x, op'.y, op'.w, op'.h)
<1>1. Extents \subseteq Nat /\ Corners \subseteq Int  BY DrawAssumption, Screen
<1>2. ASSUME NEW x \in Corners \cap Nat, NEW y \in Corners \cap Nat, NEW color \in Colors,
             NEW imm \in Immediates, FillRect(x, y, imm, color)
      PROVE  Goal
  <2>1. imm \in Int  BY Screen DEF Immediates
  <2>2. LowHalf(imm) \in Nat /\ HighHalf(imm) \in Nat  BY <2>1, HalvesAreNumbers
  <2>3. /\ Fill(x, y, LowHalf(imm), HighHalf(imm), color)
        /\ op'.kind = "fill" /\ op'.x = x /\ op'.y = y /\ op'.w = LowHalf(imm)
        /\ op'.h = HighHalf(imm) /\ op'.color = color
    BY <1>2 DEF FillRect, Asked
  <2>4. Picture' /\ outside' = {} /\ PaintsAt(x, y, LowHalf(imm), HighHalf(imm), color)
    BY <2>2, <2>3, FillPaints
  <2> QED BY <2>3, <2>4 DEF Strays
<1>3. ASSUME NEW x \in Corners \cap Nat, NEW y \in Corners \cap Nat, NEW color \in Colors,
             NEW w \in Extents, NEW h \in Extents, FillLine(x, y, w, h, color)
      PROVE  Goal
  <2>1. Assembled(w, h) \in Int  BY <1>1, AssembledType
  <2>2. LowHalf(Assembled(w, h)) \in Nat /\ HighHalf(Assembled(w, h)) \in Nat
    BY <2>1, HalvesAreNumbers
  <2>3. /\ Fill(x, y, LowHalf(Assembled(w, h)), HighHalf(Assembled(w, h)), color)
        /\ op'.kind = "line"
    BY <1>3 DEF FillLine, Asked
  <2>4. Picture' /\ outside' = {}  BY <2>2, <2>3, FillPaints
  <2> QED BY <2>3, <2>4 DEF Strays
<1>4. ASSUME NEW x \in Corners, NEW y \in Corners, NEW color \in Colors,
             NEW w \in Extents, NEW h \in Extents, DispRect(x, y, w, h, color)
      PROVE  Goal
  <2>1. x \in Int /\ y \in Int /\ w \in Int /\ h \in Int  BY <1>1
  <2>2. /\ op'.kind = "disp_rect" /\ op'.x = x /\ op'.y = y /\ op'.w = w /\ op'.h = h
        /\ op'.color = color
    BY <1>4 DEF DispRect, Asked
  <2>3. /\ Picture' /\ \A o \in outside' : o < 0 /\ (x < 0 \/ y < 0)
        /\ x >= 0 => PaintsAt(x, y, w, h, color)
    BY <1>4, <2>1, RectPaints
  <2> QED BY <2>2, <2>3 DEF Strays
<1>5. ASSUME NEW color \in Colors, DispClear(color)  PROVE Goal
  <2>1. /\ op'.kind = "clear" /\ op'.x = 0 /\ op'.y = 0 /\ op'.w = Width /\ op'.h = Height
        /\ op'.color = color
    BY <1>5 DEF DispClear, Asked
  <2>2. Picture' /\ outside' = {} /\ PaintsAt(0, 0, Width, Height, color)  BY <1>5, ClearPaints
  <2> QED BY <2>1, <2>2 DEF Strays
<1>6. ASSUME NEW x \in Corners \cap Nat, NEW y \in Corners \cap Nat, NEW w \in Extents,
             NEW h \in Extents, NEW src \in DOMAIN RamPixel, Blit(x, y, src, w, h)
      PROVE  Goal
  <2>1. x \in Nat /\ y \in Nat /\ x \in Int /\ y \in Int /\ w \in Nat /\ h \in Nat  BY <1>1
  <2>2. op'.kind = "blit" /\ op'.x = x /\ op'.y = y /\ op'.w = w /\ op'.h = h
    BY <1>6 DEF Blit, Asked
  <2>3. Picture' /\ outside' = {}  BY <1>6, <2>1, BlitPicture
  <2>4. x + w <= Width => CopiesAt(x, y, w, h)  BY <1>6, <2>1, BlitCopies
  <2>5. BytesInRam(x, y, w, h)  BY <1>6, <2>1, BlitReadsRam
  <2> QED BY <2>1, <2>2, <2>3, <2>4, <2>5 DEF Strays
<1> HIDE DEF Goal
<1>7. Goal  BY <1>2, <1>3, <1>4, <1>5, <1>6 DEF DrawNext
<1> QED BY <1>7 DEF Goal

LEMMA InitIsTyped == DrawInit => DrawTypeOK
<1>1. Blank \in Colors  BY DrawAssumption DEF Blank
<1> QED BY <1>1 DEF DrawInit, DrawTypeOK, NoOp

LEMMA StepIsTyped == DrawTypeOK /\ [DrawNext]_drawVars => DrawTypeOK'
<1>1. DrawTypeOK /\ DrawNext => DrawTypeOK'  BY NextIsADraw DEF DrawTypeOK, Picture, Strays
<1>2. DrawTypeOK /\ UNCHANGED drawVars => DrawTypeOK'  BY DEF DrawTypeOK, drawVars
<1> QED BY <1>1, <1>2

\* FILL_RECT, the FILL line, BLIT and disp_clear write only in the framebuffer, for
\* every operand and every size of the screen; disp_rect never writes behind it, and
\* before it only for a corner left of the screen or above it (rvvm.h:287-321,
\* hstx_display.h:146-151).
THEOREM DrawsInside == DrawSpec => []DrawTypeOK
BY InitIsTyped, StepIsTyped, PTL DEF DrawSpec

\* FILL_RECT, disp_clear and a disp_rect that does not start left of the screen
\* paint the visible part of their rectangle and nothing else on the screen, for
\* every immediate and every width of its halves (rvvm.h:287-300).
THEOREM FillsAreClipped == DrawSpec => FillClips
<1>1. DrawTypeOK /\ [DrawNext]_drawVars
        => [op'.kind \in {"fill", "disp_rect", "clear"} /\ op'.x >= 0 => Paints]_drawVars
  <2>1. ASSUME DrawTypeOK, DrawNext
        PROVE  op'.kind \in {"fill", "disp_rect", "clear"} /\ op'.x >= 0 => Paints
    BY <2>1, NextIsADraw DEF DrawTypeOK, Picture, Paints, PaintsAt, Inside
  <2> QED BY <2>1
<1> QED BY <1>1, DrawsInside, PTL DEF DrawSpec, FillClips

\* A BLIT whose rows fit the screen copies one stretch of RAM row by row, and
\* changes no other pixel, for every size of the screen and of RAM (rvvm.h:305-321).
THEOREM BlitsCopyAStretch == DrawSpec => BlitExact
<1> DEFINE Exact == op'.kind = "blit" /\ op'.x + op'.w <= Width =>
              \E a \in DOMAIN RamPixel : Copies(a)
<1>1. DrawTypeOK /\ [DrawNext]_drawVars => [Exact]_drawVars
  <2>1. ASSUME DrawTypeOK, DrawNext, op'.kind = "blit", op'.x + op'.w <= Width
        PROVE  Copies(0)
    <3>1. /\ BytesInRam(op'.x, op'.y, op'.w, op'.h)
          /\ CopiesAt(op'.x, op'.y, op'.w, op'.h)
          /\ op'.x \in Nat /\ op'.y \in Nat /\ op'.w \in Nat
      BY <2>1, NextIsADraw DEF DrawTypeOK, Picture
    <3> SUFFICES ASSUME NEW px \in Columns, NEW py \in Rows
                 PROVE  IF Inside(px, py)
                        THEN /\ 0 + (py - op'.y) * op'.w + (px - op'.x) \in DOMAIN RamPixel
                             /\ framebuf'[Offset(px, py)]
                                  = RamPixel[0 + (py - op'.y) * op'.w + (px - op'.x)]
                        ELSE framebuf'[Offset(px, py)] = framebuf[Offset(px, py)]
      BY DEF Copies
    <3>2. 0 + (py - op'.y) * op'.w + (px - op'.x) = (py - op'.y) * op'.w + (px - op'.x)
      <4>1. px \in Int /\ py \in Int  BY Screen DEF Columns, Rows
      <4>2. (py - op'.y) * op'.w \in Int  BY <3>1, <4>1
      <4> QED BY <4>2
    <3> QED BY <3>1, <3>2 DEF BytesInRam, CopiesAt, Inside
  <2>2. 0 \in DOMAIN RamPixel  BY DrawAssumption
  <2> QED BY <2>1, <2>2
<1> QED BY <1>1, DrawsInside, PTL DEF DrawSpec, BlitExact
=============================================================================
