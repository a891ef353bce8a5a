-------------------------- MODULE AssemblerProofs ---------------------------
(***************************************************************************)
(* Proofs about the assembler, for every source of legal lines.            *)
(*                                                                         *)
(* First the words: what the encoder packs the machine unpacks, for every  *)
(* immediate of a field.  Then the places: every token of Lexed(source)    *)
(* belongs to one line, so that what the parser makes of a token is what   *)
(* the line says there, or, where it looks for an operand that a line      *)
(* does not have, a label or a name of a later line that is then Taken.    *)
(* Then the nodes, which are the lines in their order up to the place      *)
(* where the parser is.  Last the encoder: when it is at the place b, the  *)
(* output has the words of the lines before b, and the symbol table has    *)
(* the addresses of the labels before b that no branch named too early.    *)
(***************************************************************************)
EXTENDS Assembler, DataLemmas

-----------------------------------------------------------------------------
(* Numbers and their bits. *)

LEMMA DivisionIsUnique ==
  ASSUME NEW x \in Int, NEW d \in Nat \ {0}, NEW h \in Int, NEW s \in 0 .. d - 1, x = d * h + s
  PROVE  x % d = s
OBVIOUS

LEMMA Division ==
  ASSUME NEW n \in Int, NEW p \in Nat \ {0}
  PROVE  n = p * (n \div p) + (n % p) /\ n % p \in 0 .. p - 1 /\ n \div p \in Int
OBVIOUS

\* Twice the modulus takes one bit more.
LEMMA OneBitMore ==
  ASSUME NEW n \in Int, NEW p \in Nat \ {0}
  PROVE  n % (2 * p) = (n % p) + (p * ((n \div p) % 2))
<1> DEFINE q == n \div p
           r == n % p
           h == q \div 2
           b == q % 2
<1>1. n = p * q + r /\ r \in 0 .. p - 1 /\ q \in Int  BY Division
<1>2. q = 2 * h + b /\ b \in 0 .. 1 /\ h \in Int  BY <1>1
<1> HIDE DEF q, r, h, b
<1>3. b = 0 \/ b = 1  BY <1>2
<1>4. p * q = (2 * p) * h + p * b  BY <1>1, <1>2
<1>5. p * b + r \in 0 .. 2 * p - 1  BY <1>1, <1>2, <1>3
<1>6. n = (2 * p) * h + (p * b + r)  BY <1>1, <1>2, <1>4, <1>5
<1>7. 2 * p \in Nat \ {0} /\ n \in Int  OBVIOUS
<1>8. n % (2 * p) = p * b + r  BY <1>2, <1>5, <1>6, <1>7, DivisionIsUnique
<1>9. p * b \in Int /\ r \in Int  BY <1>1, <1>3
<1>. QED  BY <1>8, <1>9 DEF q, r, b

\* The prover knows a power of two when its exponent is a numeral.
LEMMA PowersOfTwo ==
  ASSUME NEW i \in 0 .. 31
  PROVE  2 ^ i \in Nat \ {0} /\ 2 ^ (i + 1) = 2 * 2 ^ i
<1>0. \/ i = 0 \/ i = 1 \/ i = 2 \/ i = 3 \/ i = 4 \/ i = 5 \/ i = 6 \/ i = 7
      \/ i = 8 \/ i = 9 \/ i = 10 \/ i = 11 \/ i = 12 \/ i = 13 \/ i = 14 \/ i = 15
      \/ i = 16 \/ i = 17 \/ i = 18 \/ i = 19 \/ i = 20 \/ i = 21 \/ i = 22 \/ i = 23
      \/ i = 24 \/ i = 25 \/ i = 26 \/ i = 27 \/ i = 28 \/ i = 29 \/ i = 30 \/ i = 31
  OBVIOUS
<1>1. CASE i = 0  BY <1>1
<1>2. CASE i = 1  BY <1>2
<1>3. CASE i = 2  BY <1>3
<1>4. CASE i = 3  BY <1>4
<1>5. CASE i = 4  BY <1>5
<1>6. CASE i = 5  BY <1>6
<1>7. CASE i = 6  BY <1>7
<1>8. CASE i = 7  BY <1>8
<1>9. CASE i = 8  BY <1>9
<1>10. CASE i = 9  BY <1>10
<1>11. CASE i = 10  BY <1>11
<1>12. CASE i = 11  BY <1>12
<1>13. CASE i = 12  BY <1>13
<1>14. CASE i = 13  BY <1>14
<1>15. CASE i = 14  BY <1>15
<1>16. CASE i = 15  BY <1>16
<1>17. CASE i = 16  BY <1>17
<1>18. CASE i = 17  BY <1>18
<1>19. CASE i = 18  BY <1>19
<1>20. CASE i = 19  BY <1>20
<1>21. CASE i = 20  BY <1>21
<1>22. CASE i = 21  BY <1>22
<1>23. CASE i = 22  BY <1>23
<1>24. CASE i = 23  BY <1>24
<1>25. CASE i = 24  BY <1>25
<1>26. CASE i = 25  BY <1>26
<1>27. CASE i = 26  BY <1>27
<1>28. CASE i = 27  BY <1>28
<1>29. CASE i = 28  BY <1>29
<1>30. CASE i = 29  BY <1>30
<1>31. CASE i = 30  BY <1>31
<1>32. CASE i = 31  BY <1>32
<1>. QED  BY <1>0, <1>1, <1>2, <1>3, <1>4, <1>5, <1>6, <1>7, <1>8, <1>9, <1>10,
             <1>11, <1>12, <1>13, <1>14, <1>15, <1>16, <1>17, <1>18, <1>19, <1>20, <1>21,
             <1>22, <1>23, <1>24, <1>25, <1>26, <1>27, <1>28, <1>29, <1>30, <1>31, <1>32

\* The positions below len of n's one bits, and what position i - 1 adds to a sum of bits.
Bits(n, len) == {j \in 0 .. len - 1 : BitOf(n, j) = 1}

Weight(bits, i) == IF i - 1 \in bits THEN 2 ^ (i - 1) ELSE 0

\* The sums of which Number is the last.
LEMMA NumberIsSum ==
  ASSUME NEW bits
  PROVE  \E g, w : /\ \A i \in 1 .. 32 : w[i] = Weight(bits, i)
                   /\ SumsTo(g, 32, w) /\ Number(bits) = g[32]
<1> DEFINE w == [i \in 1 .. 32 |-> Weight(bits, i)]
           Rec(h) == h = [n \in 0 .. 32 |->
                       IF n = 0 THEN 0 ELSE h[n - 1] + (IF n - 1 \in bits THEN 2 ^ (n - 1) ELSE 0)]
           g == CHOOSE h : Rec(h)
<1>1. \A i \in 1 .. 32 : w[i] = Weight(bits, i) /\ w[i] \in Nat
  <2>1. ASSUME NEW i \in 1 .. 32 PROVE Weight(bits, i) \in Nat
    <3>1. i - 1 \in 0 .. 31  OBVIOUS
    <3>2. 2 ^ (i - 1) \in Nat  BY <3>1, PowersOfTwo
    <3>. QED  BY <3>2 DEF Weight
  <2>. QED  BY <2>1
<1> HIDE DEF w
<1>2. PICK f \in [0 .. 32 -> Nat] : SumsTo(f, 32, w)  BY <1>1, SumsExist
<1>3. Rec(f)
  <2>1. \A n \in 0 .. 32 :
          f[n] = IF n = 0 THEN 0 ELSE f[n - 1] + (IF n - 1 \in bits THEN 2 ^ (n - 1) ELSE 0)
    <3>1. \A n \in 0 .. 32 : n = 0 \/ n \in 1 .. 32  OBVIOUS
    <3>. QED  BY <1>1, <1>2, <3>1 DEF SumsTo, Weight
  <2>. QED  BY <2>1
<1>4. Number(bits) = g[32]  BY DEF Number
<1> HIDE DEF Rec
<1>5. Rec(g)  BY <1>3
<1> HIDE DEF g
<1>6. SumsTo(g, 32, w)
  <2>1. g = [n \in 0 .. 32 |->
                IF n = 0 THEN 0 ELSE g[n - 1] + (IF n - 1 \in bits THEN 2 ^ (n - 1) ELSE 0)]
    BY <1>5 DEF Rec
  <2> DEFINE G(n) == IF n = 0 THEN 0 ELSE g[n - 1] + (IF n - 1 \in bits THEN 2 ^ (n - 1) ELSE 0)
  <2>2. \A n \in 0 .. 32 : g[n] = G(n)
    <3> HIDE DEF G
    <3>1. g = [n \in 0 .. 32 |-> G(n)]  BY <2>1 DEF G
    <3>. QED  BY <3>1
  <2>3. g[0] = 0  BY <2>2
  <2>4. \A i \in 1 .. 32 : g[i] = g[i - 1] + w[i]
    <3>1. \A i \in 1 .. 32 : i \in 0 .. 32 /\ i # 0  OBVIOUS
    <3>. QED  BY <1>1, <2>2, <3>1 DEF Weight
  <2>. QED  BY <2>3, <2>4 DEF SumsTo
<1>. QED  BY <1>1, <1>4, <1>6

\* The number made of the lowest len bits of n is n modulo 2^len.
LEMMA NumberOfBits ==
  ASSUME NEW n \in Int, NEW len \in 0 .. 31
  PROVE  Number(Bits(n, len)) = n % (2 ^ len)
<1> DEFINE bits == Bits(n, len)
<1>1. PICK g, w : /\ \A i \in 1 .. 32 : w[i] = Weight(bits, i)
                  /\ SumsTo(g, 32, w) /\ Number(bits) = g[32]
  BY NumberIsSum
<1>2. g[0] = 0 /\ \A i \in 1 .. 32 : g[i] = g[i - 1] + Weight(bits, i)
  BY <1>1 DEF SumsTo
<1>3. \A j \in 0 .. 31 : j \in bits <=> j < len /\ BitOf(n, j) = 1
  BY DEF Bits
<1> HIDE DEF bits
<1> DEFINE m(i) == IF i <= len THEN i ELSE len
           T == {i \in Nat : i <= 32 => g[i] = n % (2 ^ m(i))}
<1>4. 0 \in T
  <2>1. 2 ^ 0 = 1 /\ n % 1 = 0  OBVIOUS
  <2>. QED  BY <1>2, <2>1
<1>5. ASSUME NEW i \in T PROVE i + 1 \in T
  <2> SUFFICES ASSUME i + 1 <= 32 PROVE g[i + 1] = n % (2 ^ m(i + 1))  BY <1>5
  <2>1. i \in 0 .. 31 /\ i + 1 \in 1 .. 32 /\ (i + 1) - 1 = i /\ g[i] = n % (2 ^ m(i))  BY <1>5
  <2>2. g[i + 1] = g[i] + Weight(bits, i + 1)  BY <1>2, <2>1
  <2>3. Weight(bits, i + 1) = IF i \in bits THEN 2 ^ i ELSE 0  BY <2>1 DEF Weight
  <2>4. CASE i < len
    <3>1. m(i) = i /\ m(i + 1) = i + 1  BY <2>1, <2>4
    <3>2. 2 ^ i \in Nat \ {0} /\ 2 ^ (i + 1) = 2 * 2 ^ i  BY <2>1, PowersOfTwo
    <3>3. n % (2 * 2 ^ i) = (n % (2 ^ i)) + (2 ^ i * BitOf(n, i))
      BY <3>2, OneBitMore DEF BitOf
    <3>4. BitOf(n, i) = 0 \/ BitOf(n, i) = 1
      <4>1. n \div 2 ^ i \in Int  BY <3>2, Division
      <4>. QED  BY <4>1 DEF BitOf
    <3>5. 2 ^ i * BitOf(n, i) = IF i \in bits THEN 2 ^ i ELSE 0
      BY <1>3, <2>1, <2>4, <3>2, <3>4
    <3>. QED  BY <2>1, <2>2, <2>3, <3>1, <3>2, <3>3, <3>5
  <2>5. CASE ~(i < len)
    <3>1. 2 ^ m(i) = 2 ^ m(i + 1)
      <4>1. m(i) = len /\ m(i + 1) = len  BY <2>1, <2>5
      <4>. QED  BY <4>1
    <3>2. i \notin bits  BY <1>3, <2>1, <2>5
    <3>3. 2 ^ len \in Nat \ {0}  BY PowersOfTwo
    <3>4. n % (2 ^ m(i)) \in Int
      <4>1. m(i) = len  BY <2>1, <2>5
      <4>. QED  BY <3>3, <4>1, Division
    <3>. QED  BY <2>1, <2>2, <2>3, <3>1, <3>2, <3>4
  <2>. QED  BY <2>4, <2>5
<1>6. T = Nat
  <2>1. T \in SUBSET Nat  OBVIOUS
  <2> HIDE DEF T
  <2>. QED  BY <1>4, <1>5, <2>1, SetInduction
<1>7. 32 \in T /\ 32 <= 32 /\ m(32) = len  BY <1>6
<1>8. g[32] = n % (2 ^ len)  BY <1>7
<1>. QED  BY <1>1, <1>8 DEF bits

LEMMA Unsigned ==
  ASSUME NEW len \in 0 .. 31, NEW n \in 0 .. 2 ^ len - 1
  PROVE  Number(Bits(n, len)) = n
<1>1. 2 ^ len \in Nat \ {0}  BY PowersOfTwo
<1>2. n \in Int /\ n = 2 ^ len * 0 + n /\ 0 \in Int  BY <1>1
<1>3. n % (2 ^ len) = n  BY <1>1, <1>2, DivisionIsUnique
<1>. QED  BY <1>2, <1>3, NumberOfBits

LEMMA TwosComplement ==
  ASSUME NEW p \in Nat \ {0}, NEW n \in Int, -p <= n, n < p
  PROVE  n = (n % (2 * p)) - (IF (n \div p) % 2 = 1 THEN 2 * p ELSE 0)
<1>1. n = p * (n \div p) + (n % p) /\ n % p \in 0 .. p - 1 /\ n \div p \in Int  BY Division
<1>2. CASE n >= 0
  <2>1. n = p * 0 + n /\ n \in 0 .. p - 1 /\ n = (2 * p) * 0 + n /\ n \in 0 .. 2 * p - 1
        /\ 2 * p \in Nat \ {0} /\ 0 \in Int
    BY <1>2
  <2>2. n % p = n /\ n % (2 * p) = n  BY <2>1, DivisionIsUnique
  <2>3. n \div p = 0  BY <1>1, <2>2
  <2>. QED  BY <2>2, <2>3
<1>3. CASE n < 0
  <2>1. n = p * (-1) + (n + p) /\ n + p \in 0 .. p - 1
        /\ n = (2 * p) * (-1) + (n + 2 * p) /\ n + 2 * p \in 0 .. 2 * p - 1
        /\ 2 * p \in Nat \ {0} /\ -1 \in Int
    BY <1>3
  <2>2. n % p = n + p /\ n % (2 * p) = n + 2 * p  BY <2>1, DivisionIsUnique
  <2>3. p * (n \div p) = -p  BY <1>1, <2>2
  <2>4. n \div p = -1
    <3>1. ~(n \div p >= 0)  BY <1>1, <2>3
    <3>2. ~(n \div p <= -2)
      <4> SUFFICES ASSUME n \div p <= -2 PROVE FALSE  OBVIOUS
      <4>1. p * (n \div p) <= p * (-2)  BY <1>1
      <4>. QED  BY <2>3, <4>1
    <3>. QED  BY <1>1, <3>1, <3>2
  <2>5. (n \div p) % 2 = 1
    <3> DEFINE q == n \div p
    <3>1. q = 2 * (-1) + 1 /\ q \in Int /\ -1 \in Int /\ 1 \in 0 .. 2 - 1 /\ 2 \in Nat \ {0}
      BY <2>4
    <3> HIDE DEF q
    <3>2. q % 2 = 1  BY <3>1, DivisionIsUnique
    <3>. QED  BY <3>2 DEF q
  <2>. QED  BY <2>2, <2>4, <2>5
<1>. QED  BY <1>2, <1>3

\* The sign is the bit on the left.
LEMMA SignedBits ==
  ASSUME NEW top \in 0 .. 30, NEW n \in Int, -(2 ^ top) <= n, n < 2 ^ top
  PROVE  Signed(Bits(n, top + 1), top) = n
<1> DEFINE p == 2 ^ top
<1>0. top \in 0 .. 31  OBVIOUS
<1>1. p \in Nat \ {0} /\ 2 ^ (top + 1) = 2 * p  BY <1>0, PowersOfTwo
<1>2. top + 1 \in 0 .. 31 /\ top \in 0 .. (top + 1) - 1  OBVIOUS
<1>3. Number(Bits(n, top + 1)) = n % (2 ^ (top + 1))  BY <1>2, NumberOfBits
<1>4. top \in Bits(n, top + 1) <=> (n \div p) % 2 = 1  BY <1>2 DEF Bits, BitOf
<1>5. -p <= n /\ n < p  OBVIOUS
<1> HIDE DEF p
<1>6. n = (n % (2 * p)) - (IF (n \div p) % 2 = 1 THEN 2 * p ELSE 0)
  BY <1>1, <1>5, TwosComplement
<1>. QED  BY <1>1, <1>3, <1>4, <1>6 DEF Signed

-----------------------------------------------------------------------------
(* Fields. *)

LEMMA InPart ==
  ASSUME NEW n, NEW lo \in Int, NEW len \in Nat, NEW at \in Nat, NEW b
  PROVE  b \in Part(n, lo, len, at)
           <=> b \in Int /\ b - at \in 0 .. len - 1 /\ BitOf(n, lo + (b - at)) = 1
<1>1. ASSUME b \in Part(n, lo, len, at)
      PROVE  b \in Int /\ b - at \in 0 .. len - 1 /\ BitOf(n, lo + (b - at)) = 1
  <2>1. PICK i \in 0 .. len - 1 : BitOf(n, lo + i) = 1 /\ b = at + i  BY <1>1 DEF Part
  <2>2. b - at = i /\ b \in Int  BY <2>1
  <2>. QED  BY <2>1, <2>2
<1>2. ASSUME b \in Int, b - at \in 0 .. len - 1, BitOf(n, lo + (b - at)) = 1
      PROVE  b \in Part(n, lo, len, at)
  <2>1. b = at + (b - at)  BY <1>2
  <2> DEFINE i == b - at
  <2>2. i \in 0 .. len - 1 /\ BitOf(n, lo + i) = 1 /\ b = at + i  BY <1>2, <2>1
  <2> HIDE DEF i
  <2>. QED  BY <2>2 DEF Part
<1>. QED  BY <1>1, <1>2

LEMMA InShifted ==
  ASSUME NEW w \in SUBSET Int, NEW by \in Int, NEW lo \in Int, NEW hi \in Int, NEW i
  PROVE  i \in Shifted(w, by, lo, hi) <=> i \in lo .. hi /\ i + by \in w
<1>1. ASSUME i \in Shifted(w, by, lo, hi) PROVE i \in lo .. hi /\ i + by \in w
  <2>1. PICK b \in w : i = b - by  BY <1>1 DEF Shifted
  <2>2. i + by = b  BY <2>1
  <2>. QED  BY <1>1, <2>1, <2>2 DEF Shifted
<1>2. ASSUME i \in lo .. hi, i + by \in w PROVE i \in Shifted(w, by, lo, hi)
  <2>1. (i + by) - by = i  BY <1>2
  <2>. QED  BY <1>2, <2>1 DEF Shifted
<1>. QED  BY <1>1, <1>2

\* A field is within a word.
LEMMA FieldInWord ==
  ASSUME NEW n, NEW lo \in Int, NEW len \in Nat, NEW at \in Nat, at + len <= 32
  PROVE  Part(n, lo, len, at) \subseteq 0 .. 31
<1>1. \A b : b \in Part(n, lo, len, at) => b \in Int /\ b - at \in 0 .. len - 1  BY InPart
<1>. QED  BY <1>1

\* 32 bits.
Word == SUBSET (0 .. 31)

LEMMA FieldIsWord ==
  ASSUME NEW n
  PROVE  /\ Part(n, 0, 7, 25) \in Word /\ Part(n, 0, 5, 20) \in Word
         /\ Part(n, 0, 5, 7) \in Word /\ Part(n, 0, 5, 15) \in Word
         /\ Part(n, 0, 3, 12) \in Word /\ Part(n, 0, 7, 0) \in Word
         /\ Part(n, 0, 12, 20) \in Word /\ Part(n, 5, 7, 25) \in Word
         /\ Part(n, 12, 1, 31) \in Word /\ Part(n, 5, 6, 25) \in Word
         /\ Part(n, 1, 4, 8) \in Word /\ Part(n, 11, 1, 7) \in Word
         /\ Part(n, 0, 20, 12) \in Word /\ Part(n, 20, 1, 31) \in Word
         /\ Part(n, 1, 10, 21) \in Word /\ Part(n, 11, 1, 20) \in Word
         /\ Part(n, 12, 8, 12) \in Word
BY FieldInWord DEF Word

LEMMA UnionIsWord == ASSUME NEW x \in Word, NEW y \in Word PROVE x \union y \in Word
BY DEF Word

\* Every format fits into a word.
LEMMA BaseIsWord == ASSUME NEW a, NEW b, NEW c PROVE Base(a, b, c) \in Word
BY FieldIsWord, UnionIsWord DEF Base, Field

\* No format sets a position past 31.
LEMMA Words ==
  ASSUME NEW a, NEW b, NEW c, NEW d, NEW e, NEW f
  PROVE  /\ RType(a, b, c, d, e, f) \in Word /\ IType(a, b, c, d, e) \in Word
         /\ SType(a, b, c, d, e) \in Word /\ BType(a, b, c, d, e) \in Word
         /\ UType(a, b, c) \in Word /\ JType(a, b, c) \in Word
<1>4. RType(a, b, c, d, e, f) \in Word
  BY FieldIsWord, UnionIsWord, BaseIsWord DEF RType, Field
<1>5. IType(a, b, c, d, e) \in Word
  BY FieldIsWord, UnionIsWord, BaseIsWord DEF IType, Field
<1>6. SType(a, b, c, d, e) \in Word
  BY FieldIsWord, UnionIsWord, BaseIsWord DEF SType, Field
<1>7. BType(a, b, c, d, e) \in Word
  BY FieldIsWord, UnionIsWord, BaseIsWord DEF BType, Field
<1>8. UType(a, b, c) \in Word
  BY FieldIsWord, UnionIsWord, BaseIsWord DEF UType, Field
<1>9. JType(a, b, c) \in Word
  BY FieldIsWord, UnionIsWord, BaseIsWord DEF JType, Field
<1>. QED  BY <1>4, <1>5, <1>6, <1>7, <1>8, <1>9

-----------------------------------------------------------------------------
(* What is at a position of a word, format by format. *)

\* Position b holds a one bit of n, when its len bits from lo on start at position at.
At(b, n, lo, len, at) == b \in at .. at + len - 1 /\ BitOf(n, lo + (b - at)) = 1

LEMMA InPartIsAt ==
  ASSUME NEW n, NEW lo \in Int, NEW len \in Nat, NEW at \in Nat, NEW b \in Int
  PROVE  b \in Part(n, lo, len, at) <=> At(b, n, lo, len, at)
<1>1. b - at \in 0 .. len - 1 <=> b \in at .. at + len - 1  OBVIOUS
<1>. QED  BY <1>1, InPart DEF At

AtBase(b, rs1, funct3, opcode) ==
  At(b, rs1, 0, 5, 15) \/ At(b, funct3, 0, 3, 12) \/ At(b, opcode, 0, 7, 0)

\* Which positions each format sets.
LEMMA InWord ==
  ASSUME NEW x, NEW rs2, NEW rs1, NEW funct3, NEW rd, NEW opcode, NEW b \in Int
  PROVE  /\ b \in RType(x, rs2, rs1, funct3, rd, opcode)
              <=> At(b, x, 0, 7, 25) \/ At(b, rs2, 0, 5, 20) \/ At(b, rd, 0, 5, 7)
                    \/ AtBase(b, rs1, funct3, opcode)
         /\ b \in IType(x, rs1, funct3, rd, opcode)
              <=> At(b, x, 0, 12, 20) \/ At(b, rd, 0, 5, 7) \/ AtBase(b, rs1, funct3, opcode)
         /\ b \in SType(x, rs2, rs1, funct3, opcode)
              <=> At(b, x, 5, 7, 25) \/ At(b, x, 0, 5, 7) \/ At(b, rs2, 0, 5, 20)
                    \/ AtBase(b, rs1, funct3, opcode)
         /\ b \in BType(x, rs2, rs1, funct3, opcode)
              <=> At(b, x, 12, 1, 31) \/ At(b, x, 5, 6, 25) \/ At(b, x, 1, 4, 8)
                    \/ At(b, x, 11, 1, 7) \/ At(b, rs2, 0, 5, 20)
                    \/ AtBase(b, rs1, funct3, opcode)
         /\ b \in UType(x, rd, opcode)
              <=> At(b, x, 0, 20, 12) \/ At(b, rd, 0, 5, 7) \/ At(b, opcode, 0, 7, 0)
         /\ b \in JType(x, rd, opcode)
              <=> At(b, x, 20, 1, 31) \/ At(b, x, 1, 10, 21) \/ At(b, x, 11, 1, 20)
                    \/ At(b, x, 12, 8, 12) \/ At(b, rd, 0, 5, 7) \/ At(b, opcode, 0, 7, 0)
<1>1. ASSUME NEW n, NEW lo \in {0, 1, 5, 11, 12, 20}, NEW len \in {1, 3, 4, 5, 6, 7, 8, 10, 12, 20},
             NEW at \in {0, 7, 8, 12, 15, 20, 21, 25, 31}
      PROVE  b \in Part(n, lo, len, at) <=> At(b, n, lo, len, at)
  <2>1. lo \in Int /\ len \in Nat /\ at \in Nat  OBVIOUS
  <2>. QED  BY <2>1, InPartIsAt
<1>2. /\ b \in Base(rs1, funct3, opcode) <=> AtBase(b, rs1, funct3, opcode)
      /\ b \in Field(opcode, 7, 0) <=> At(b, opcode, 0, 7, 0)
      /\ b \in Field(rd, 5, 7) <=> At(b, rd, 0, 5, 7)
      /\ b \in Field(rs2, 5, 20) <=> At(b, rs2, 0, 5, 20)
  BY <1>1 DEF Base, AtBase, Field
<1>3. /\ b \in Field(x, 7, 25) <=> At(b, x, 0, 7, 25)
      /\ b \in Field(x, 12, 20) <=> At(b, x, 0, 12, 20)
      /\ b \in Field(x, 20, 12) <=> At(b, x, 0, 20, 12)
  BY <1>1 DEF Field
<1>4. /\ b \in Part(x, 5, 7, 25) <=> At(b, x, 5, 7, 25)
      /\ b \in Part(x, 0, 5, 7) <=> At(b, x, 0, 5, 7)
      /\ b \in Part(x, 12, 1, 31) <=> At(b, x, 12, 1, 31)
      /\ b \in Part(x, 5, 6, 25) <=> At(b, x, 5, 6, 25)
      /\ b \in Part(x, 1, 4, 8) <=> At(b, x, 1, 4, 8)
      /\ b \in Part(x, 11, 1, 7) <=> At(b, x, 11, 1, 7)
      /\ b \in Part(x, 20, 1, 31) <=> At(b, x, 20, 1, 31)
      /\ b \in Part(x, 1, 10, 21) <=> At(b, x, 1, 10, 21)
      /\ b \in Part(x, 11, 1, 20) <=> At(b, x, 11, 1, 20)
      /\ b \in Part(x, 12, 8, 12) <=> At(b, x, 12, 8, 12)
  BY <1>1
<1>5. b \in RType(x, rs2, rs1, funct3, rd, opcode)
        <=> At(b, x, 0, 7, 25) \/ At(b, rs2, 0, 5, 20) \/ At(b, rd, 0, 5, 7)
              \/ AtBase(b, rs1, funct3, opcode)
  BY <1>2, <1>3 DEF RType
<1>6. b \in IType(x, rs1, funct3, rd, opcode)
        <=> At(b, x, 0, 12, 20) \/ At(b, rd, 0, 5, 7) \/ AtBase(b, rs1, funct3, opcode)
  BY <1>2, <1>3 DEF IType
<1>7. b \in SType(x, rs2, rs1, funct3, opcode)
        <=> At(b, x, 5, 7, 25) \/ At(b, x, 0, 5, 7) \/ At(b, rs2, 0, 5, 20)
              \/ AtBase(b, rs1, funct3, opcode)
  BY <1>2, <1>4 DEF SType
<1>8. b \in BType(x, rs2, rs1, funct3, opcode)
        <=> At(b, x, 12, 1, 31) \/ At(b, x, 5, 6, 25) \/ At(b, x, 1, 4, 8)
              \/ At(b, x, 11, 1, 7) \/ At(b, rs2, 0, 5, 20) \/ AtBase(b, rs1, funct3, opcode)
  BY <1>2, <1>4 DEF BType
<1>9. b \in UType(x, rd, opcode)
        <=> At(b, x, 0, 20, 12) \/ At(b, rd, 0, 5, 7) \/ At(b, opcode, 0, 7, 0)
  BY <1>2, <1>3 DEF UType
<1>10. b \in JType(x, rd, opcode)
        <=> At(b, x, 20, 1, 31) \/ At(b, x, 1, 10, 21) \/ At(b, x, 11, 1, 20)
              \/ At(b, x, 12, 8, 12) \/ At(b, rd, 0, 5, 7) \/ At(b, opcode, 0, 7, 0)
  BY <1>2, <1>4 DEF JType
<1>. QED  BY <1>5, <1>6, <1>7, <1>8, <1>9, <1>10

-----------------------------------------------------------------------------
(* The machine takes out of a word what the encoder put into it. *)

\* A field that holds the bits of n is taken out as the bits of n.
LEMMA Extract ==
  ASSUME NEW w \in Word, NEW n, NEW by \in 0 .. 31, NEW len \in 1 .. 31,
         \A i \in 0 .. len - 1 : i + by \in w <=> BitOf(n, i) = 1
  PROVE  Shifted(w, by, 0, len - 1) = Bits(n, len)
<1>1. w \in SUBSET Int /\ by \in Int /\ 0 \in Int /\ len - 1 \in Int  BY DEF Word
<1>2. \A i : i \in Shifted(w, by, 0, len - 1) <=> i \in 0 .. len - 1 /\ i + by \in w
  BY <1>1, InShifted
<1>3. \A i : i \in Bits(n, len) <=> i \in 0 .. len - 1 /\ BitOf(n, i) = 1  BY DEF Bits
<1>. QED  BY <1>2, <1>3


LEMMA RegisterField ==
  ASSUME NEW w \in Word, NEW r \in Registers, NEW by \in 0 .. 31,
         \A i \in 0 .. 4 : i + by \in w <=> BitOf(r, i) = 1
  PROVE  Number(Shifted(w, by, 0, 4)) = r
<1>1. 5 - 1 = 4 /\ 5 \in 1 .. 31 /\ 5 \in 0 .. 31 /\ 2 ^ 5 = 32 /\ r \in 0 .. 2 ^ 5 - 1  BY DEF Registers
<1>2. Shifted(w, by, 0, 5 - 1) = Bits(r, 5)  BY <1>1, Extract
<1>3. Number(Bits(r, 5)) = r  BY <1>1, Unsigned
<1>. QED  BY <1>1, <1>2, <1>3

LEMMA RTypeDecodes ==
  ASSUME NEW funct7, NEW rs2 \in Registers, NEW rs1 \in Registers, NEW funct3,
         NEW rd \in Registers, NEW opcode
  PROVE  LET w == RType(funct7, rs2, rs1, funct3, rd, opcode)
         IN  Rd(w) = rd /\ Rs1(w) = rs1 /\ Rs2(w) = rs2
<1> DEFINE w == RType(funct7, rs2, rs1, funct3, rd, opcode)
<1>1. w \in Word  BY Words
<1>2. \A b \in Int :
        b \in w <=> At(b, funct7, 0, 7, 25) \/ At(b, rs2, 0, 5, 20) \/ At(b, rd, 0, 5, 7)
                      \/ AtBase(b, rs1, funct3, opcode)
  BY InWord
<1> HIDE DEF w
<1>3. \A i \in 0 .. 4 : /\ i + 7 \in w <=> BitOf(rd, i) = 1
                        /\ i + 15 \in w <=> BitOf(rs1, i) = 1
                        /\ i + 20 \in w <=> BitOf(rs2, i) = 1
  BY <1>2 DEF At, AtBase
<1>. QED  BY <1>1, <1>3, RegisterField DEF Rd, Rs1, Rs2, w

LEMMA ITypeDecodes ==
  ASSUME NEW imm \in -(2 ^ 11) .. 2 ^ 11 - 1, NEW rs1 \in Registers, NEW funct3,
         NEW rd \in Registers, NEW opcode
  PROVE  LET w == IType(imm, rs1, funct3, rd, opcode)
         IN  Rd(w) = rd /\ Rs1(w) = rs1 /\ ImmI(w) = imm
<1> DEFINE w == IType(imm, rs1, funct3, rd, opcode)
<1>1. w \in Word  BY Words
<1>2. \A b \in Int :
        b \in w <=> At(b, imm, 0, 12, 20) \/ At(b, rd, 0, 5, 7) \/ AtBase(b, rs1, funct3, opcode)
  BY InWord
<1> HIDE DEF w
<1>3. \A i \in 0 .. 4 : /\ i + 7 \in w <=> BitOf(rd, i) = 1
                        /\ i + 15 \in w <=> BitOf(rs1, i) = 1
  BY <1>2 DEF At, AtBase
<1>4. \A i \in 0 .. 12 - 1 : i + 20 \in w <=> BitOf(imm, i) = 1
  BY <1>2 DEF At, AtBase
<1>5. Shifted(w, 20, 0, 12 - 1) = Bits(imm, 12)
  <2>1. imm \in Int
    <3>1. 2 ^ 11 \in Nat  BY PowersOfTwo
    <3>. QED  BY <3>1
  <2>2. 12 \in 1 .. 31 /\ 20 \in 0 .. 31  OBVIOUS
  <2>. QED  BY ONLY <1>1, <1>4, <2>1, <2>2, Extract
<1>6. 12 - 1 = 11 /\ 11 + 1 = 12 /\ 11 \in 0 .. 30  OBVIOUS
<1>7. Signed(Bits(imm, 12), 11) = imm
  <2>1. 2 ^ 11 \in Nat  BY PowersOfTwo
  <2>2. imm \in Int /\ -(2 ^ 11) <= imm /\ imm < 2 ^ 11  BY <2>1
  <2>. QED  BY <1>6, <2>2, SignedBits
<1>8. ImmI(w) = imm  BY <1>5, <1>6, <1>7 DEF ImmI
<1>. QED  BY <1>1, <1>3, <1>8, RegisterField DEF Rd, Rs1, w

LEMMA STypeDecodes ==
  ASSUME NEW imm \in -(2 ^ 11) .. 2 ^ 11 - 1, NEW rs2 \in Registers, NEW rs1 \in Registers,
         NEW funct3, NEW opcode
  PROVE  LET w == SType(imm, rs2, rs1, funct3, opcode)
         IN  Rs1(w) = rs1 /\ Rs2(w) = rs2 /\ ImmS(w) = imm
<1> DEFINE w == SType(imm, rs2, rs1, funct3, opcode)
<1>1. w \in Word  BY Words
<1>2. \A b \in Int :
        b \in w <=> At(b, imm, 5, 7, 25) \/ At(b, imm, 0, 5, 7) \/ At(b, rs2, 0, 5, 20)
                      \/ AtBase(b, rs1, funct3, opcode)
  BY InWord
<1> HIDE DEF w
<1>3. \A i \in 0 .. 4 : /\ i + 20 \in w <=> BitOf(rs2, i) = 1
                        /\ i + 15 \in w <=> BitOf(rs1, i) = 1
  BY <1>2 DEF At, AtBase
<1>4. Shifted(w, 7, 0, 4) \union Shifted(w, 20, 5, 11) = Bits(imm, 12)
  <2>1. w \in SUBSET Int  BY <1>1 DEF Word
  <2>2. \A i : i \in Shifted(w, 7, 0, 4) <=> i \in 0 .. 4 /\ i + 7 \in w  BY <2>1, InShifted
  <2>3. \A i : i \in Shifted(w, 20, 5, 11) <=> i \in 5 .. 11 /\ i + 20 \in w  BY <2>1, InShifted
  <2>4. \A i \in 0 .. 4 : i + 7 \in w <=> BitOf(imm, i) = 1  BY <1>2 DEF At, AtBase
  <2>5. \A i \in 5 .. 11 : i + 20 \in w <=> BitOf(imm, i) = 1  BY <1>2 DEF At, AtBase
  <2>6. \A i : i \in Bits(imm, 12) <=> i \in 0 .. 11 /\ BitOf(imm, i) = 1  BY DEF Bits
  <2>7. \A i : i \in 0 .. 11 <=> i \in 0 .. 4 \/ i \in 5 .. 11  OBVIOUS
  <2>. QED  BY <2>2, <2>3, <2>4, <2>5, <2>6, <2>7
<1>6. 11 + 1 = 12 /\ 11 \in 0 .. 30  OBVIOUS
<1>7. Signed(Bits(imm, 12), 11) = imm
  <2>1. 2 ^ 11 \in Nat  BY PowersOfTwo
  <2>2. imm \in Int /\ -(2 ^ 11) <= imm /\ imm < 2 ^ 11  BY <2>1
  <2>. QED  BY <1>6, <2>2, SignedBits
<1>8. ImmS(w) = imm  BY <1>4, <1>7 DEF ImmS
<1>. QED  BY <1>1, <1>3, <1>8, RegisterField DEF Rs1, Rs2, w

LEMMA BTypeDecodes ==
  ASSUME NEW imm \in -(2 ^ 12) .. 2 ^ 12 - 1, imm % 2 = 0,
         NEW rs2 \in Registers, NEW rs1 \in Registers, NEW funct3, NEW opcode
  PROVE  LET w == BType(imm, rs2, rs1, funct3, opcode)
         IN  Rs1(w) = rs1 /\ Rs2(w) = rs2 /\ ImmB(w) = imm
<1> DEFINE w == BType(imm, rs2, rs1, funct3, opcode)
<1>1. w \in Word  BY Words
<1>2. \A b \in Int :
        b \in w <=> At(b, imm, 12, 1, 31) \/ At(b, imm, 5, 6, 25) \/ At(b, imm, 1, 4, 8)
                    \/ At(b, imm, 11, 1, 7) \/ At(b, rs2, 0, 5, 20)
                    \/ AtBase(b, rs1, funct3, opcode)
  BY InWord
<1> HIDE DEF w
<1>3. \A i \in 0 .. 4 : /\ i + 20 \in w <=> BitOf(rs2, i) = 1
                        /\ i + 15 \in w <=> BitOf(rs1, i) = 1
  BY <1>2 DEF At, AtBase
<1>0. imm \in Int
  <2>1. 2 ^ 12 \in Nat  BY PowersOfTwo
  <2>. QED  BY <2>1
<1>4. Shifted(w, 7, 1, 4) \union Shifted(w, 20, 5, 10) \union Shifted(w, -4, 11, 11)
        \union Shifted(w, 19, 12, 12) = Bits(imm, 13)
  <2>1. w \in SUBSET Int  BY <1>1 DEF Word
  <2>2. \A i : i \in Shifted(w, 7, 1, 4) <=> i \in 1 .. 4 /\ i + 7 \in w  BY <2>1, InShifted
  <2>3. \A i : i \in Shifted(w, 20, 5, 10) <=> i \in 5 .. 10 /\ i + 20 \in w  BY <2>1, InShifted
  <2>4. \A i : i \in Shifted(w, -4, 11, 11) <=> i \in 11 .. 11 /\ i + (-4) \in w  BY <2>1, InShifted
  <2>5. \A i : i \in Shifted(w, 19, 12, 12) <=> i \in 12 .. 12 /\ i + 19 \in w  BY <2>1, InShifted
  <2>6. \A i \in 1 .. 4 : i + 7 \in w <=> BitOf(imm, i) = 1  BY <1>2 DEF At, AtBase
  <2>7. \A i \in 5 .. 10 : i + 20 \in w <=> BitOf(imm, i) = 1  BY <1>2 DEF At, AtBase
  <2>8. \A i \in 11 .. 11 : i + (-4) \in w <=> BitOf(imm, i) = 1  BY <1>2 DEF At, AtBase
  <2>9. \A i \in 12 .. 12 : i + 19 \in w <=> BitOf(imm, i) = 1  BY <1>2 DEF At, AtBase
  <2>10. \A i : i \in Bits(imm, 13) <=> i \in 0 .. 12 /\ BitOf(imm, i) = 1  BY DEF Bits
  <2>11. BitOf(imm, 0) # 1
    <3>1. 2 ^ 0 = 1 /\ imm \div 1 = imm  BY <1>0
    <3>. QED  BY <3>1 DEF BitOf
  <2>12. \A i : i \in 0 .. 12 <=> i = 0 \/ i \in 1 .. 4 \/ i \in 5 .. 10 \/ i \in 11 .. 11 \/ i \in 12 .. 12
    OBVIOUS
  <2>. QED  BY <2>2, <2>3, <2>4, <2>5, <2>6, <2>7, <2>8, <2>9, <2>10, <2>11, <2>12
<1>6. 12 + 1 = 13 /\ 12 \in 0 .. 30  OBVIOUS
<1>7. Signed(Bits(imm, 13), 12) = imm
  <2>1. 2 ^ 12 \in Nat  BY PowersOfTwo
  <2>2. imm \in Int /\ -(2 ^ 12) <= imm /\ imm < 2 ^ 12  BY <2>1
  <2>. QED  BY <1>6, <2>2, SignedBits
<1>8. ImmB(w) = imm  BY <1>4, <1>7 DEF ImmB
<1>. QED  BY <1>1, <1>3, <1>8, RegisterField DEF Rs1, Rs2, w

LEMMA UTypeDecodes ==
  ASSUME NEW imm20 \in 0 .. 2 ^ 20 - 1, NEW rd \in Registers, NEW opcode
  PROVE  LET w == UType(imm20, rd, opcode) IN Rd(w) = rd /\ ImmU(w) = imm20
<1> DEFINE w == UType(imm20, rd, opcode)
<1>1. w \in Word  BY Words
<1>2. \A b \in Int :
        b \in w <=> At(b, imm20, 0, 20, 12) \/ At(b, rd, 0, 5, 7) \/ At(b, opcode, 0, 7, 0)
  BY InWord
<1> HIDE DEF w
<1>3. \A i \in 0 .. 4 : i + 7 \in w <=> BitOf(rd, i) = 1  BY <1>2 DEF At
<1>4. \A i \in 0 .. 20 - 1 : i + 12 \in w <=> BitOf(imm20, i) = 1  BY <1>2 DEF At
<1>5. Shifted(w, 12, 0, 20 - 1) = Bits(imm20, 20)
  <2>1. imm20 \in Int /\ 20 \in 1 .. 31 /\ 12 \in 0 .. 31  OBVIOUS
  <2>. QED  BY ONLY <1>1, <1>4, <2>1, Extract
<1>6. Number(Bits(imm20, 20)) = imm20
  <2>1. 20 \in 0 .. 31  OBVIOUS
  <2>. QED  BY <2>1, Unsigned
<1>7. 20 - 1 = 19  OBVIOUS
<1>8. ImmU(w) = imm20  BY <1>5, <1>6, <1>7 DEF ImmU
<1>. QED  BY <1>1, <1>3, <1>8, RegisterField DEF Rd, w

LEMMA JTypeDecodes ==
  ASSUME NEW imm \in -(2 ^ 20) .. 2 ^ 20 - 1, imm % 2 = 0, NEW rd \in Registers, NEW opcode
  PROVE  LET w == JType(imm, rd, opcode) IN Rd(w) = rd /\ ImmJ(w) = imm
<1> DEFINE w == JType(imm, rd, opcode)
<1>1. w \in Word  BY Words
<1>2. \A b \in Int :
        b \in w <=> At(b, imm, 20, 1, 31) \/ At(b, imm, 1, 10, 21) \/ At(b, imm, 11, 1, 20)
                    \/ At(b, imm, 12, 8, 12) \/ At(b, rd, 0, 5, 7) \/ At(b, opcode, 0, 7, 0)
  BY InWord
<1> HIDE DEF w
<1>3. \A i \in 0 .. 4 : i + 7 \in w <=> BitOf(rd, i) = 1  BY <1>2 DEF At
<1>0. imm \in Int
  <2>1. 2 ^ 20 \in Nat  BY PowersOfTwo
  <2>. QED  BY <2>1
<1>4. Shifted(w, 20, 1, 10) \union Shifted(w, 9, 11, 11) \union Shifted(w, 0, 12, 19)
        \union Shifted(w, 11, 20, 20) = Bits(imm, 21)
  <2>1. w \in SUBSET Int  BY <1>1 DEF Word
  <2>2. \A i : i \in Shifted(w, 20, 1, 10) <=> i \in 1 .. 10 /\ i + 20 \in w  BY <2>1, InShifted
  <2>3. \A i : i \in Shifted(w, 9, 11, 11) <=> i \in 11 .. 11 /\ i + 9 \in w  BY <2>1, InShifted
  <2>4. \A i : i \in Shifted(w, 0, 12, 19) <=> i \in 12 .. 19 /\ i + 0 \in w  BY <2>1, InShifted
  <2>5. \A i : i \in Shifted(w, 11, 20, 20) <=> i \in 20 .. 20 /\ i + 11 \in w  BY <2>1, InShifted
  <2>6. \A i \in 1 .. 10 : i + 20 \in w <=> BitOf(imm, i) = 1  BY <1>2 DEF At
  <2>7. \A i \in 11 .. 11 : i + 9 \in w <=> BitOf(imm, i) = 1  BY <1>2 DEF At
  <2>8. \A i \in 12 .. 19 : i + 0 \in w <=> BitOf(imm, i) = 1  BY <1>2 DEF At
  <2>9. \A i \in 20 .. 20 : i + 11 \in w <=> BitOf(imm, i) = 1  BY <1>2 DEF At
  <2>10. \A i : i \in Bits(imm, 21) <=> i \in 0 .. 20 /\ BitOf(imm, i) = 1  BY DEF Bits
  <2>11. BitOf(imm, 0) # 1
    <3>1. 2 ^ 0 = 1 /\ imm \div 1 = imm  BY <1>0
    <3>. QED  BY <3>1 DEF BitOf
  <2>12. \A i : i \in 0 .. 20 <=> i = 0 \/ i \in 1 .. 10 \/ i \in 11 .. 11 \/ i \in 12 .. 19 \/ i \in 20 .. 20
    OBVIOUS
  <2>. QED  BY <2>2, <2>3, <2>4, <2>5, <2>6, <2>7, <2>8, <2>9, <2>10, <2>11, <2>12
<1>6. 20 + 1 = 21 /\ 20 \in 0 .. 30  OBVIOUS
<1>7. Signed(Bits(imm, 21), 20) = imm
  <2>1. 2 ^ 20 \in Nat  BY PowersOfTwo
  <2>2. imm \in Int /\ -(2 ^ 20) <= imm /\ imm < 2 ^ 20  BY <2>1
  <2>. QED  BY <1>6, <2>2, SignedBits
<1>8. ImmJ(w) = imm  BY <1>4, <1>7 DEF ImmJ
<1>. QED  BY <1>1, <1>3, <1>8, RegisterField DEF Rd, w

(***************************************************************************)
(* For every register and every immediate that fits its field, decoding a  *)
(* word gives back what was encoded, format by format (encode_r_type to    *)
(* encode_j_type, rv32i.sage:13; RV_RD to rv_imm_j, rvvm.h:43).            *)
(***************************************************************************)
THEOREM EncodingDecodes ==
  ASSUME NEW rd \in Registers, NEW rs1 \in Registers, NEW rs2 \in Registers,
         NEW funct3, NEW funct7, NEW opcode
  PROVE  /\ LET w == RType(funct7, rs2, rs1, funct3, rd, opcode)
            IN  Rd(w) = rd /\ Rs1(w) = rs1 /\ Rs2(w) = rs2
         /\ \A imm \in -(2 ^ 11) .. 2 ^ 11 - 1 :
              /\ LET w == IType(imm, rs1, funct3, rd, opcode)
                 IN  Rd(w) = rd /\ Rs1(w) = rs1 /\ ImmI(w) = imm
              /\ LET w == SType(imm, rs2, rs1, funct3, opcode)
                 IN  Rs1(w) = rs1 /\ Rs2(w) = rs2 /\ ImmS(w) = imm
         /\ \A imm \in -(2 ^ 12) .. 2 ^ 12 - 1 :
              imm % 2 = 0 =>
                LET w == BType(imm, rs2, rs1, funct3, opcode)
                IN  Rs1(w) = rs1 /\ Rs2(w) = rs2 /\ ImmB(w) = imm
         /\ \A imm20 \in 0 .. 2 ^ 20 - 1 :
              LET w == UType(imm20, rd, opcode) IN Rd(w) = rd /\ ImmU(w) = imm20
         /\ \A imm \in -(2 ^ 20) .. 2 ^ 20 - 1 :
              imm % 2 = 0 =>
                LET w == JType(imm, rd, opcode) IN Rd(w) = rd /\ ImmJ(w) = imm
<1>1. LET w == RType(funct7, rs2, rs1, funct3, rd, opcode)
      IN  Rd(w) = rd /\ Rs1(w) = rs1 /\ Rs2(w) = rs2
  BY RTypeDecodes
<1>2. \A imm \in -(2 ^ 11) .. 2 ^ 11 - 1 :
        LET w == IType(imm, rs1, funct3, rd, opcode)
        IN  Rd(w) = rd /\ Rs1(w) = rs1 /\ ImmI(w) = imm
  BY ITypeDecodes
<1>3. \A imm \in -(2 ^ 11) .. 2 ^ 11 - 1 :
        LET w == SType(imm, rs2, rs1, funct3, opcode)
        IN  Rs1(w) = rs1 /\ Rs2(w) = rs2 /\ ImmS(w) = imm
  BY STypeDecodes
<1>4. \A imm \in -(2 ^ 12) .. 2 ^ 12 - 1 :
        imm % 2 = 0 =>
          LET w == BType(imm, rs2, rs1, funct3, opcode)
          IN  Rs1(w) = rs1 /\ Rs2(w) = rs2 /\ ImmB(w) = imm
  BY BTypeDecodes
<1>5. \A imm20 \in 0 .. 2 ^ 20 - 1 :
        LET w == UType(imm20, rd, opcode) IN Rd(w) = rd /\ ImmU(w) = imm20
  BY UTypeDecodes
<1>6. \A imm \in -(2 ^ 20) .. 2 ^ 20 - 1 :
        imm % 2 = 0 => LET w == JType(imm, rd, opcode) IN Rd(w) = rd /\ ImmJ(w) = imm
  BY JTypeDecodes
<1>. QED  BY <1>1, <1>2, <1>3, <1>4, <1>5, <1>6

-----------------------------------------------------------------------------
(* What the lexer makes of a line. *)

TokenKinds ==
  {"label", "mnemonic", "identifier", "register", "minus", "integer", "lparen", "rparen",
   "comma", "newline", "eof"}

Tokens == [kind : TokenKinds, val : Int \union Names \union Ops]

\* LineTokens(line) piece by piece.
LabelPart(line) == IF line.label = NoLabel THEN <<>> ELSE <<Token("label", line.label)>>

OpPart(line) ==
  CASE line.op = NoOp -> <<>>
    [] line.op \in LexedMnemonics -> <<Token("mnemonic", line.op)>>
    [] OTHER -> <<Token("identifier", line.op)>>

Piece(line, i) == (IF i = 1 THEN <<>> ELSE <<Token("comma", 0)>>) \o ArgTokens(line.args[i])

Pieces(line) == [i \in DOMAIN line.args |-> Piece(line, i)]

LEMMA TokenType ==
  ASSUME NEW kind \in TokenKinds, NEW val \in Int \union Names \union Ops
  PROVE  Token(kind, val) \in Tokens
BY DEF Token, Tokens

LEMMA TokenFields ==
  ASSUME NEW kind, NEW val
  PROVE  Token(kind, val).kind = kind /\ Token(kind, val).val = val
BY DEF Token

\* How many tokens the sign takes.
Minus(n) == IF n < 0 THEN 1 ELSE 0

LEMMA IntegerTokensIs ==
  ASSUME NEW n \in Int
  PROVE  /\ IntegerTokens(n) \in Seq(Tokens) /\ Len(IntegerTokens(n)) = Minus(n) + 1
         /\ n < 0 => IntegerTokens(n)[1] = Token("minus", 0)
         /\ IntegerTokens(n)[Minus(n) + 1] = Token("integer", IF n < 0 THEN -n ELSE n)
<1>1. "minus" \in TokenKinds /\ "integer" \in TokenKinds /\ -n \in Int  BY DEF TokenKinds
<1>2. Token("minus", 0) \in Tokens /\ Token("integer", n) \in Tokens /\ Token("integer", -n) \in Tokens
  BY <1>1, TokenType
<1> DEFINE a == Token("minus", 0)
           b == Token("integer", n)
           c == Token("integer", -n)
<1>3. a \in Tokens /\ b \in Tokens /\ c \in Tokens  BY <1>2
<1>4. IntegerTokens(n) = IF n < 0 THEN <<a, c>> ELSE <<b>>  BY DEF IntegerTokens
<1> HIDE DEF a, b, c
<1>5. CASE n < 0
  <2>1. Minus(n) = 1 /\ Minus(n) + 1 = 2 /\ IntegerTokens(n) = <<a, c>>  BY <1>4, <1>5 DEF Minus
  <2>2. <<a, c>> \in Seq(Tokens) /\ Len(<<a, c>>) = 2 /\ <<a, c>>[1] = a /\ <<a, c>>[2] = c  BY <1>3
  <2>. QED  BY <1>5, <2>1, <2>2 DEF a, c
<1>6. CASE ~(n < 0)
  <2>1. Minus(n) = 0 /\ Minus(n) + 1 = 1 /\ IntegerTokens(n) = <<b>>  BY <1>4, <1>6 DEF Minus
  <2>2. <<b>> \in Seq(Tokens) /\ Len(<<b>>) = 1 /\ <<b>>[1] = b  BY <1>3
  <2>. QED  BY <1>6, <2>1, <2>2 DEF b
<1>. QED  BY <1>5, <1>6

\* The tokens of an operand, one by one.
ArgShape(a) ==
  LET t == ArgTokens(a)
      k == Minus(a.val)
  IN  /\ t \in Seq(Tokens) /\ Len(t) >= 1
      /\ a.kind = "register" => Len(t) = 1 /\ t[1] = Token("register", a.val)
      /\ a.kind = "label" => Len(t) = 1 /\ t[1] = Token("identifier", a.val)
      /\ a.kind \in {"immediate", "memory"} =>
           /\ a.val < 0 => t[1] = Token("minus", 0)
           /\ t[k + 1] = Token("integer", IF a.val < 0 THEN -a.val ELSE a.val)
      /\ a.kind = "immediate" => Len(t) = k + 1
      /\ a.kind = "memory" =>
           /\ Len(t) = k + 4
           /\ t[k + 2] = Token("lparen", 0) /\ t[k + 3] = Token("register", a.base)
           /\ t[k + 4] = Token("rparen", 0)

LEMMA ArgsHaveKinds ==
  ASSUME NEW a \in Args
  PROVE  \/ a.kind = "register" /\ a.val \in Registers
         \/ a.kind = "immediate" /\ a.val \in Int
         \/ a.kind = "label" /\ a.val \in Names
         \/ a.kind = "memory" /\ a.val \in Int /\ a.base \in Registers
<1>1. CASE a \in [kind : {"register"}, val : Registers]  BY <1>1
<1>2. CASE a \in [kind : {"immediate"}, val : Int]  BY <1>2
<1>3. CASE a \in [kind : {"label"}, val : Names]  BY <1>3
<1>4. CASE a \in [kind : {"memory"}, val : -(2 ^ 11) .. 2 ^ 11 - 1, base : Registers]
  <2>1. a.kind = "memory" /\ a.val \in -(2 ^ 11) .. 2 ^ 11 - 1 /\ a.base \in Registers  BY <1>4
  <2>2. 2 ^ 11 = 2048  OBVIOUS
  <2>3. a.val \in Int  BY <2>1, <2>2
  <2>. QED  BY <2>1, <2>3
<1>. QED  BY <1>1, <1>2, <1>3, <1>4 DEF Args

LEMMA ArgTokensShape == ASSUME NEW a \in Args PROVE ArgShape(a)
<1> USE DEF ArgShape
<1>0. {"label", "mnemonic", "identifier", "register", "minus", "integer", "lparen", "rparen"} \subseteq TokenKinds
  BY DEF TokenKinds
<1>1. CASE a.kind = "register" /\ a.val \in Registers
  <2> DEFINE b == Token("register", a.val)
  <2>1. b \in Tokens
    <3>1. a.val \in Int /\ "register" \in TokenKinds  BY <1>0, <1>1 DEF Registers
    <3>. QED  BY <3>1, TokenType
  <2>2. ArgTokens(a) = <<b>>  BY <1>1 DEF ArgTokens
  <2> HIDE DEF b
  <2>3. <<b>> \in Seq(Tokens) /\ Len(<<b>>) = 1 /\ <<b>>[1] = b  BY <2>1
  <2>. QED  BY <1>1, <2>2, <2>3 DEF b
<1>2. CASE a.kind = "label" /\ a.val \in Names
  <2> DEFINE b == Token("identifier", a.val)
  <2>1. b \in Tokens
    <3>1. "identifier" \in TokenKinds  BY <1>0
    <3>. QED  BY <1>2, <3>1, TokenType
  <2>2. ArgTokens(a) = <<b>>  BY <1>2 DEF ArgTokens
  <2> HIDE DEF b
  <2>3. <<b>> \in Seq(Tokens) /\ Len(<<b>>) = 1 /\ <<b>>[1] = b  BY <2>1
  <2>. QED  BY <1>2, <2>2, <2>3 DEF b
<1>3. CASE a.kind = "immediate" /\ a.val \in Int
  <2>1. ArgTokens(a) = IntegerTokens(a.val)  BY <1>3 DEF ArgTokens
  <2>2. Minus(a.val) \in 0 .. 1  BY DEF Minus
  <2>3. /\ ArgTokens(a) \in Seq(Tokens) /\ Len(ArgTokens(a)) = Minus(a.val) + 1
        /\ a.val < 0 => ArgTokens(a)[1] = Token("minus", 0)
        /\ ArgTokens(a)[Minus(a.val) + 1] = Token("integer", IF a.val < 0 THEN -a.val ELSE a.val)
    <3> HIDE DEF ArgShape
    <3>1. a.val \in Int  BY <1>3
    <3>. QED  BY ONLY <2>1, <3>1, IntegerTokensIs
  <2>. QED  BY ONLY <1>3, <2>2, <2>3 DEF ArgShape
<1>4. CASE a.kind = "memory" /\ a.val \in Int /\ a.base \in Registers
  <2> DEFINE b == Token("lparen", 0)
             c == Token("register", a.base)
             d == Token("rparen", 0)
             s == IntegerTokens(a.val)
             t == <<b, c, d>>
             k == Minus(a.val)
  <2>1. b \in Tokens /\ c \in Tokens /\ d \in Tokens
    <3>1. a.base \in Int /\ "register" \in TokenKinds /\ "lparen" \in TokenKinds /\ "rparen" \in TokenKinds
      BY <1>0, <1>4 DEF Registers
    <3>. QED  BY <3>1, TokenType
  <2>2. ArgTokens(a) = s \o t  BY <1>4 DEF ArgTokens
  <2>3. /\ s \in Seq(Tokens) /\ Len(s) = k + 1
        /\ a.val < 0 => s[1] = Token("minus", 0)
        /\ s[k + 1] = Token("integer", IF a.val < 0 THEN -a.val ELSE a.val)
    BY <1>4, IntegerTokensIs
  <2> HIDE DEF b, c, d, s
  <2>4. t \in Seq(Tokens) /\ Len(t) = 3 /\ t[1] = b /\ t[2] = c /\ t[3] = d  BY <2>1
  <2>5. k = IF a.val < 0 THEN 1 ELSE 0  BY DEF Minus
  <2> HIDE DEF t, k
  <2>6. k \in 0 .. 1 /\ (a.val < 0 => k = 1)  BY <2>5
  <2>7. /\ s \o t \in Seq(Tokens) /\ Len(s \o t) = (k + 1) + 3
        /\ \A i \in 1 .. k + 1 : (s \o t)[i] = s[i]
        /\ \A i \in 1 .. 3 : (s \o t)[(k + 1) + i] = t[i]
    <3> HIDE DEF ArgShape
    <3>1. /\ s \o t \in Seq(Tokens) /\ Len(s \o t) = Len(s) + Len(t)
          /\ \A i \in 1 .. Len(s) : (s \o t)[i] = s[i]
          /\ \A i \in 1 .. Len(t) : (s \o t)[Len(s) + i] = t[i]
      <4>1. s \in Seq(Tokens) /\ t \in Seq(Tokens)  BY <2>3, <2>4
      <4>. QED  BY ONLY <4>1, ConcatPlaces
    <3>2. Len(s) = k + 1 /\ Len(t) = 3  BY <2>3, <2>4
    <3>. QED  BY ONLY <3>1, <3>2
  <2>8. /\ (s \o t)[k + 1] = s[k + 1] /\ (s \o t)[1] = s[1]
        /\ (s \o t)[k + 2] = b /\ (s \o t)[k + 3] = c /\ (s \o t)[k + 4] = d
    <3>1. /\ k + 1 \in 1 .. k + 1 /\ 1 \in 1 .. k + 1
          /\ (k + 1) + 1 = k + 2 /\ (k + 1) + 2 = k + 3 /\ (k + 1) + 3 = k + 4
      BY <2>6
    <3>2. (s \o t)[k + 1] = s[k + 1] /\ (s \o t)[1] = s[1]  BY ONLY <2>7, <3>1
    <3>3. /\ (s \o t)[(k + 1) + 1] = t[1] /\ (s \o t)[(k + 1) + 2] = t[2]
          /\ (s \o t)[(k + 1) + 3] = t[3]
      <4>1. 1 \in 1 .. 3 /\ 2 \in 1 .. 3 /\ 3 \in 1 .. 3  OBVIOUS
      <4>. QED  BY ONLY <2>7, <4>1
    <3>. QED  BY ONLY <2>4, <3>1, <3>2, <3>3
  <2>. QED  BY <1>4, <2>2, <2>3, <2>6, <2>7, <2>8 DEF b, c, d, k
<1>. QED  BY <1>1, <1>2, <1>3, <1>4, ArgsHaveKinds

-----------------------------------------------------------------------------
(* The tokens of a line: a label, an operation, operands between commas. *)

\* How many tokens stand before the end of the label and of the operation.
LabelLen(line) == IF line.label = NoLabel THEN 0 ELSE 1

OpEnd(line) == LabelLen(line) + (IF line.op = NoOp THEN 0 ELSE 1)

OpToken(line) == Token(IF line.op \in LexedMnemonics THEN "mnemonic" ELSE "identifier", line.op)

Comma(i) == IF i = 1 THEN 0 ELSE 1

LEMMA LineFields ==
  ASSUME NEW line \in Lines
  PROVE  /\ line.label \in Names \union {NoLabel} /\ line.op \in Ops \union {NoOp}
         /\ line.args \in Seq(Args) /\ Len(line.args) \in Nat /\ DOMAIN line.args = 1 .. Len(line.args)
         /\ \A i \in 1 .. Len(line.args) : line.args[i] \in Args
<1>1. line.args \in Seq(Args)  BY DEF Lines
<1>. QED  BY <1>1, LenProperties, ElementOfSeq DEF Lines

LEMMA HeadParts ==
  ASSUME NEW line \in Lines
  PROVE  /\ LabelPart(line) \in Seq(Tokens) /\ Len(LabelPart(line)) = LabelLen(line)
         /\ line.label # NoLabel => LabelPart(line)[1] = Token("label", line.label)
         /\ OpPart(line) \in Seq(Tokens) /\ Len(OpPart(line)) = OpEnd(line) - LabelLen(line)
         /\ line.op # NoOp => OpPart(line)[1] = OpToken(line)
         /\ OpToken(line).kind \in {"mnemonic", "identifier"}
<1>0. line.label \in Names \union {NoLabel} /\ line.op \in Ops \union {NoOp}  BY LineFields
<1>1. {"label", "mnemonic", "identifier"} \subseteq TokenKinds  BY DEF TokenKinds
<1> DEFINE a == Token("label", line.label)
           k == IF line.op \in LexedMnemonics THEN "mnemonic" ELSE "identifier"
           b == OpToken(line)
<1>2. line.label # NoLabel => a \in Tokens
  <2>1. line.label # NoLabel => line.label \in Names  BY <1>0
  <2>. QED  BY <1>1, <2>1, TokenType
<1>3. b = Token(k, line.op) /\ b.kind = k
  BY TokenFields DEF OpToken
<1>4. line.op # NoOp => b \in Tokens
  <2>1. line.op # NoOp => line.op \in Ops  BY <1>0
  <2>2. k \in TokenKinds  BY <1>1
  <2> HIDE DEF k, b
  <2>. QED  BY <1>3, <2>1, <2>2, TokenType
<1>5. LabelPart(line) = IF line.label = NoLabel THEN <<>> ELSE <<a>>  BY DEF LabelPart
<1>6. OpPart(line) = IF line.op = NoOp THEN <<>> ELSE <<b>>
  <2> HIDE DEF a, k
  <2>3. NoOp \notin LexedMnemonics  BY AssemblerAssumption
  <2>0. CASE line.op = NoOp
    <3>1. OpPart(line) = <<>>  BY <2>0, <2>3 DEF OpPart
    <3>. QED  BY <2>0, <3>1
  <2>1. CASE line.op # NoOp /\ line.op \in LexedMnemonics
    <3>1. OpPart(line) = <<Token("mnemonic", line.op)>>  BY <2>1 DEF OpPart
    <3>2. b = Token("mnemonic", line.op)  BY <2>1 DEF OpToken
    <3>. QED  BY <2>1, <3>1, <3>2
  <2>2. CASE line.op # NoOp /\ line.op \notin LexedMnemonics
    <3>1. OpPart(line) = <<Token("identifier", line.op)>>  BY <2>2 DEF OpPart
    <3>2. b = Token("identifier", line.op)  BY <2>2 DEF OpToken
    <3>. QED  BY <2>2, <3>1, <3>2
  <2>. QED  BY <2>0, <2>1, <2>2
<1>7. k \in {"mnemonic", "identifier"}  OBVIOUS
<1> HIDE DEF a, b, k
<1>8. LabelLen(line) = (IF line.label = NoLabel THEN 0 ELSE 1)
      /\ OpEnd(line) - LabelLen(line) = IF line.op = NoOp THEN 0 ELSE 1
  BY DEF LabelLen, OpEnd
<1>9. <<>> \in Seq(Tokens) /\ Len(<<>>) = 0  BY EmptySeq
<1>10. line.label # NoLabel => <<a>> \in Seq(Tokens) /\ Len(<<a>>) = 1 /\ <<a>>[1] = a  BY <1>2
<1>11. line.op # NoOp => <<b>> \in Seq(Tokens) /\ Len(<<b>>) = 1 /\ <<b>>[1] = b  BY <1>4
<1>12. /\ LabelPart(line) \in Seq(Tokens) /\ Len(LabelPart(line)) = LabelLen(line)
       /\ line.label # NoLabel => LabelPart(line)[1] = Token("label", line.label)
  BY <1>5, <1>8, <1>9, <1>10 DEF a
<1>13. /\ OpPart(line) \in Seq(Tokens) /\ Len(OpPart(line)) = OpEnd(line) - LabelLen(line)
       /\ line.op # NoOp => OpPart(line)[1] = OpToken(line)
  BY <1>6, <1>8, <1>9, <1>11 DEF b
<1>. QED  BY <1>3, <1>7, <1>12, <1>13 DEF b

LEMMA PieceShape ==
  ASSUME NEW line \in Lines, NEW i \in 1 .. Len(line.args)
  PROVE  LET p == Piece(line, i)
             t == ArgTokens(line.args[i])
         IN  /\ p \in Seq(Tokens) /\ Len(p) = Comma(i) + Len(t)
             /\ i # 1 => p[1] = Token("comma", 0)
             /\ \A m \in 1 .. Len(t) : p[Comma(i) + m] = t[m]
             /\ ArgShape(line.args[i])
<1> DEFINE s == IF i = 1 THEN <<>> ELSE <<Token("comma", 0)>>
           t == ArgTokens(line.args[i])
           c == Token("comma", 0)
<1>1. ArgShape(line.args[i])  BY LineFields, ArgTokensShape
<1>2. t \in Seq(Tokens)  BY <1>1 DEF ArgShape
<1>3. c \in Tokens
  <2>1. "comma" \in TokenKinds  BY DEF TokenKinds
  <2>. QED  BY <2>1, TokenType
<1>4. Piece(line, i) = s \o t  BY DEF Piece
<1>5. s = IF i = 1 THEN <<>> ELSE <<c>>  OBVIOUS
<1> HIDE DEF s, t, c
<1>6. s \in Seq(Tokens) /\ Len(s) = Comma(i) /\ (i # 1 => s[1] = c /\ 1 \in 1 .. Comma(i))
  <2>1. <<>> \in Seq(Tokens) /\ Len(<<>>) = 0  BY EmptySeq
  <2>2. <<c>> \in Seq(Tokens) /\ Len(<<c>>) = 1 /\ <<c>>[1] = c  BY <1>3
  <2>3. 1 \in 1 .. 1  OBVIOUS
  <2>. QED  BY <1>5, <2>1, <2>2, <2>3 DEF Comma
<1>7. /\ s \o t \in Seq(Tokens) /\ Len(s \o t) = Len(s) + Len(t)
      /\ \A j \in 1 .. Len(s) : (s \o t)[j] = s[j]
      /\ \A m \in 1 .. Len(t) : (s \o t)[Len(s) + m] = t[m]
  <2>1. s \in Seq(Tokens) /\ t \in Seq(Tokens)  BY <1>2, <1>6
  <2>. QED  BY ONLY <2>1, ConcatPlaces
<1>. QED  BY <1>1, <1>4, <1>6, <1>7 DEF t, c

LEMMA PiecesType ==
  ASSUME NEW line \in Lines
  PROVE  /\ Pieces(line) \in Seq(Seq(Tokens)) /\ Len(Pieces(line)) = Len(line.args)
         /\ \A i \in 1 .. Len(line.args) : Pieces(line)[i] = Piece(line, i)
<1> DEFINE n == Len(line.args)
<1>1. n \in Nat /\ DOMAIN line.args = 1 .. n  BY LineFields
<1>2. \A i \in 1 .. n : Piece(line, i) \in Seq(Tokens)  BY PieceShape
<1>3. Pieces(line) = [i \in 1 .. n |-> Piece(line, i)]  BY <1>1 DEF Pieces
<1> HIDE DEF n
<1>4. Pieces(line) \in [1 .. n -> Seq(Tokens)]  BY <1>2, <1>3
<1>. QED  BY <1>1, <1>3, <1>4, IsASeq DEF n

\* A line is a label or none, an operation or none, the operands, and its end.
LEMMA LineShape ==
  ASSUME NEW line \in Lines
  PROVE  LET t == LineTokens(line)
             e == OpEnd(line)
             z == EndOf(Pieces(line), Len(line.args))
         IN  /\ t \in Seq(Tokens) /\ z \in Nat /\ e \in 0 .. 2 /\ Len(t) = e + z + 1
             /\ line.label # NoLabel => t[1] = Token("label", line.label)
             /\ line.op # NoOp => t[e] = OpToken(line)
             /\ \A r \in 1 .. Len(line.args) : \A m \in 1 .. Len(Piece(line, r)) :
                  t[e + (EndOf(Pieces(line), r - 1) + m)] = Piece(line, r)[m]
             /\ t[e + z + 1] = Token("newline", 0)
<1> DEFINE a == LabelPart(line)
           b == OpPart(line)
           c == FlattenSeq(Pieces(line))
           nl == Token("newline", 0)
           d == <<nl>>
           e == OpEnd(line)
           z == EndOf(Pieces(line), Len(line.args))
           n == Len(line.args)
<1>1. LineTokens(line) = ((a \o b) \o c) \o d
  BY DEF LineTokens, LabelPart, OpPart, Pieces, Piece
<1>2. /\ Pieces(line) \in Seq(Seq(Tokens)) /\ Len(Pieces(line)) = n /\ n \in Nat
      /\ \A i \in 1 .. n : Pieces(line)[i] = Piece(line, i)
  BY PiecesType, LineFields
<1>3. c \in Seq(Tokens) /\ Len(c) = z
  <2>1. Len(c) = z  BY <1>2, FlattenEnds
  <2>2. <<>> \in Seq(Tokens)  BY EmptySeq
  <2>. QED  BY <1>2, <2>1, <2>2, FlattenAppend
<1>4. \A r \in 1 .. n : \A m \in 1 .. Len(Piece(line, r)) :
        /\ c[EndOf(Pieces(line), r - 1) + m] = Piece(line, r)[m]
        /\ EndOf(Pieces(line), r - 1) + m \in 1 .. Len(c)
  <2> SUFFICES ASSUME NEW r \in 1 .. n, NEW m \in 1 .. Len(Piece(line, r))
               PROVE  /\ c[EndOf(Pieces(line), r - 1) + m] = Piece(line, r)[m]
                      /\ EndOf(Pieces(line), r - 1) + m \in 1 .. Len(c)
    OBVIOUS
  <2> DEFINE ss == Pieces(line)
  <2>1. ss \in Seq(Seq(Tokens)) /\ r \in 1 .. Len(ss) /\ ss[r] = Piece(line, r)  BY <1>2
  <2> HIDE DEF ss, c, z
  <2>2. /\ EndOf(ss, r) = EndOf(ss, r - 1) + Len(ss[r])
        /\ \A j \in 1 .. Len(ss[r]) : FlattenSeq(ss)[EndOf(ss, r - 1) + j] = ss[r][j]
    BY <2>1, FlattenPlaces
  <2>3. r - 1 \in 0 .. Len(ss) /\ r \in 0 .. Len(ss) /\ Len(ss) \in 0 .. Len(ss) /\ r \in 0 .. Len(ss)
    BY <1>2, <2>1 DEF ss
  <2>4. EndOf(ss, r) <= EndOf(ss, Len(ss)) /\ EndOf(ss, r - 1) \in Nat /\ EndOf(ss, r) \in Nat
        /\ EndOf(ss, Len(ss)) \in Nat
    BY <2>1, <2>3, EndsInOrder, EndOfType
  <2>5. EndOf(ss, Len(ss)) = Len(c)  BY <1>2, <1>3 DEF ss, z
  <2>6. Len(ss[r]) \in Nat /\ m \in 1 .. Len(ss[r])
    <3>1. ss[r] \in Seq(Tokens)  BY <2>1, ElementOfSeq
    <3>. QED  BY <2>1, <3>1, LenProperties
  <2>7. EndOf(ss, r - 1) + m \in 1 .. Len(c)  BY <2>2, <2>4, <2>5, <2>6
  <2>8. FlattenSeq(ss)[EndOf(ss, r - 1) + m] = ss[r][m]  BY <2>2, <2>6
  <2>. QED  BY <2>1, <2>7, <2>8 DEF ss, c
<1>5. nl \in Tokens
  <2>1. "newline" \in TokenKinds  BY DEF TokenKinds
  <2>. QED  BY <2>1, TokenType
<1>6. e \in 0 .. 2 /\ LabelLen(line) \in 0 .. 1 /\ e - LabelLen(line) \in 0 .. 1
      /\ (line.label # NoLabel => LabelLen(line) = 1)
      /\ (line.op # NoOp => e - LabelLen(line) = 1)
  BY DEF OpEnd, LabelLen
<1> HIDE DEF nl
<1>7. d \in Seq(Tokens) /\ Len(d) = 1 /\ d[1] = nl  BY <1>5
<1>8. /\ a \in Seq(Tokens) /\ Len(a) = LabelLen(line)
      /\ line.label # NoLabel => a[1] = Token("label", line.label)
      /\ b \in Seq(Tokens) /\ Len(b) = e - LabelLen(line)
      /\ line.op # NoOp => b[1] = OpToken(line)
  BY HeadParts
<1> HIDE DEF a, b, c, d, e, z, n
<1> DEFINE ab == a \o b
<1>9. /\ ab \in Seq(Tokens) /\ Len(ab) = Len(a) + Len(b)
      /\ \A i \in 1 .. Len(a) : ab[i] = a[i]
      /\ \A i \in 1 .. Len(b) : ab[Len(a) + i] = b[i]
  <2>1. a \in Seq(Tokens) /\ b \in Seq(Tokens)  BY <1>8
  <2>. QED  BY ONLY <2>1, ConcatPlaces
<1> HIDE DEF ab
<1> DEFINE abc == ab \o c
<1>10. /\ abc \in Seq(Tokens) /\ Len(abc) = Len(ab) + Len(c)
       /\ \A i \in 1 .. Len(ab) : abc[i] = ab[i]
       /\ \A i \in 1 .. Len(c) : abc[Len(ab) + i] = c[i]
  BY ONLY <1>9, <1>3, ConcatPlaces
<1> HIDE DEF abc
<1> DEFINE t == abc \o d
<1>11. /\ t \in Seq(Tokens) /\ Len(t) = Len(abc) + Len(d)
       /\ \A i \in 1 .. Len(abc) : t[i] = abc[i]
       /\ \A i \in 1 .. Len(d) : t[Len(abc) + i] = d[i]
  BY ONLY <1>10, <1>7, ConcatPlaces
<1>12. LineTokens(line) = t  BY <1>1 DEF ab, abc
<1> HIDE DEF t
<1>13. Len(ab) = e /\ z \in Nat /\ Len(abc) = e + z /\ Len(t) = e + z + 1 /\ e \in 0 .. 2 /\ Len(d) = 1
  <2>1. Len(c) \in Nat  BY <1>3, LenProperties
  <2>2. Len(ab) = e /\ z = Len(c) /\ e \in 0 .. 2 /\ Len(d) = 1  BY <1>3, <1>6, <1>7, <1>8, <1>9
  <2>3. Len(abc) = Len(ab) + Len(c) /\ Len(t) = Len(abc) + Len(d)  BY <1>10, <1>11
  <2>. QED  BY ONLY <2>1, <2>2, <2>3
<1>14. line.label # NoLabel => t[1] = Token("label", line.label)
  <2>1. SUFFICES ASSUME line.label # NoLabel PROVE t[1] = Token("label", line.label)  OBVIOUS
  <2>2. 1 \in 1 .. Len(a) /\ 1 \in 1 .. Len(ab) /\ 1 \in 1 .. Len(abc)  BY <2>1, <1>6, <1>8, <1>13
  <2>. QED  BY <2>1, <2>2, <1>8, <1>9, <1>10, <1>11
<1>15. line.op # NoOp => t[e] = OpToken(line)
  <2>1. SUFFICES ASSUME line.op # NoOp PROVE t[e] = OpToken(line)  OBVIOUS
  <2>2. 1 \in 1 .. Len(b) /\ e = Len(a) + 1 /\ e \in 1 .. Len(ab) /\ e \in 1 .. Len(abc)
    BY <2>1, <1>6, <1>8, <1>13
  <2>. QED  BY <2>1, <2>2, <1>8, <1>9, <1>10, <1>11
<1>16. ASSUME NEW r \in 1 .. n, NEW m \in 1 .. Len(Piece(line, r))
       PROVE  t[e + (EndOf(Pieces(line), r - 1) + m)] = Piece(line, r)[m]
  <2> DEFINE q == EndOf(Pieces(line), r - 1) + m
  <2>1. c[q] = Piece(line, r)[m] /\ q \in 1 .. Len(c)  BY <1>4
  <2> HIDE DEF q
  <2>2. e + q \in 1 .. Len(abc) /\ e + q = Len(ab) + q  BY <2>1, <1>3, <1>13
  <2>3. abc[Len(ab) + q] = c[q]  BY <1>10, <2>1
  <2>4. t[e + q] = abc[e + q]  BY <1>11, <2>2
  <2>5. t[e + q] = Piece(line, r)[m]  BY <2>1, <2>2, <2>3, <2>4
  <2>. QED  BY <2>5 DEF q
<1>17. t[e + z + 1] = nl
  <2>1. 1 \in 1 .. Len(d) /\ e + z + 1 = Len(abc) + 1  BY <1>7, <1>13
  <2>. QED  BY <1>7, <1>11, <2>1
<1>. QED  BY <1>11, <1>12, <1>13, <1>14, <1>15, <1>16, <1>17 DEF e, z, n, nl

-----------------------------------------------------------------------------
(* Where the lines, their operations and their operands stand among the tokens. *)

LinesTokens(lines) == [i \in DOMAIN lines |-> LineTokens(lines[i])]

\* Where line k ends, its operation stands, and its r-th operand begins after and ends.
LineEnd(lines, k) == EndOf(LinesTokens(lines), k)

OpAt(lines, k) == LineEnd(lines, k - 1) + OpEnd(lines[k])

ArgEnd(lines, k, r) == OpAt(lines, k) + EndOf(Pieces(lines[k]), r)

ArgAt(lines, k, r) == ArgEnd(lines, k, r - 1) + Comma(r)

LabelAt(lines, k) == LineEnd(lines, k - 1) + 1

LEMMA SourceLines ==
  ASSUME NEW lines \in Sources
  PROVE  /\ lines \in Seq(Lines) /\ Len(lines) \in Nat /\ Len(lines) <= 2 ^ 10
         /\ DOMAIN lines = 1 .. Len(lines)
         /\ \A k \in 1 .. Len(lines) : lines[k] \in Lines /\ Legal(lines, k)
<1>1. lines \in Seq(Lines) /\ Len(lines) <= 2 ^ 10 /\ \A i \in DOMAIN lines : Legal(lines, i)
  BY AssemblerAssumption
<1>2. Len(lines) \in Nat /\ DOMAIN lines = 1 .. Len(lines) /\ \A k \in 1 .. Len(lines) : lines[k] \in Lines
  BY <1>1, LenProperties, ElementOfSeq
<1>. QED  BY <1>1, <1>2

LEMMA LinesTokensType ==
  ASSUME NEW lines \in Sources
  PROVE  /\ LinesTokens(lines) \in Seq(Seq(Tokens)) /\ Len(LinesTokens(lines)) = Len(lines)
         /\ \A k \in 1 .. Len(lines) : LinesTokens(lines)[k] = LineTokens(lines[k])
<1> DEFINE n == Len(lines)
<1>1. n \in Nat /\ DOMAIN lines = 1 .. n  BY SourceLines
<1>2. \A i \in 1 .. n : LineTokens(lines[i]) \in Seq(Tokens)  BY SourceLines, LineShape
<1>3. LinesTokens(lines) = [i \in 1 .. n |-> LineTokens(lines[i])]  BY <1>1 DEF LinesTokens
<1> HIDE DEF n
<1>4. LinesTokens(lines) \in [1 .. n -> Seq(Tokens)]  BY <1>2, <1>3
<1>. QED  BY <1>1, <1>3, <1>4, IsASeq DEF n

\* The tokens are those of the lines, and after them the end of the file.
LEMMA LexedType ==
  ASSUME NEW lines \in Sources
  PROVE  /\ Lexed(lines) \in Seq(Tokens) /\ Len(Lexed(lines)) = LineEnd(lines, Len(lines)) + 1
         /\ LineEnd(lines, Len(lines)) \in Nat
         /\ Lexed(lines)[LineEnd(lines, Len(lines)) + 1] = Token("eof", 0)
         /\ \A p \in 1 .. LineEnd(lines, Len(lines)) :
              Lexed(lines)[p] = FlattenSeq(LinesTokens(lines))[p]
         /\ LineEnd(lines, Len(lines)) = Len(FlattenSeq(LinesTokens(lines)))
<1> DEFINE ss == LinesTokens(lines)
           a == FlattenSeq(ss)
           e == Token("eof", 0)
           b == <<e>>
<1>1. ss \in Seq(Seq(Tokens)) /\ Len(ss) = Len(lines)  BY LinesTokensType
<1>2. a \in Seq(Tokens) /\ Len(a) = LineEnd(lines, Len(lines)) /\ Len(a) \in Nat
  <2>1. <<>> \in Seq(Tokens)  BY EmptySeq
  <2>2. a \in Seq(Tokens) /\ EndOf(ss, Len(ss)) = Len(a)  BY <1>1, <2>1, FlattenAppend, FlattenEnds
  <2>. QED  BY <1>1, <2>2, LenProperties DEF LineEnd
<1>3. e \in Tokens
  <2>1. "eof" \in TokenKinds  BY DEF TokenKinds
  <2>. QED  BY <2>1, TokenType
<1>4. Lexed(lines) = a \o b  BY DEF Lexed, LinesTokens
<1>7. b = <<e>>  OBVIOUS
<1> HIDE DEF a, b, e, ss
<1>5. b \in Seq(Tokens) /\ Len(b) = 1 /\ b[1] = e  BY <1>3, <1>7
<1>6. /\ a \o b \in Seq(Tokens) /\ Len(a \o b) = Len(a) + Len(b)
      /\ \A i \in 1 .. Len(a) : (a \o b)[i] = a[i]
      /\ \A i \in 1 .. Len(b) : (a \o b)[Len(a) + i] = b[i]
  <2>1. a \in Seq(Tokens) /\ b \in Seq(Tokens)  BY <1>2, <1>5
  <2>. QED  BY ONLY <2>1, ConcatPlaces
<1>8. (a \o b)[Len(a) + 1] = e
  <2>1. 1 \in 1 .. Len(b)  BY <1>5
  <2>. QED  BY <1>5, <1>6, <2>1
<1>. QED  BY <1>2, <1>4, <1>5, <1>6, <1>8 DEF e, a, ss

LEMMA LinePlaces ==
  ASSUME NEW lines \in Sources, NEW k \in 1 .. Len(lines)
  PROVE  /\ LineEnd(lines, k - 1) \in Nat /\ LineEnd(lines, k) \in Nat
         /\ LineEnd(lines, k) = LineEnd(lines, k - 1) + Len(LineTokens(lines[k]))
         /\ LineEnd(lines, k) <= LineEnd(lines, Len(lines))
         /\ \A m \in 1 .. Len(LineTokens(lines[k])) :
              Lexed(lines)[LineEnd(lines, k - 1) + m] = LineTokens(lines[k])[m]
<1> DEFINE ss == LinesTokens(lines)
           t == LineTokens(lines[k])
<1>1. ss \in Seq(Seq(Tokens)) /\ Len(ss) = Len(lines) /\ k \in 1 .. Len(ss) /\ ss[k] = t
  BY LinesTokensType
<1>2. t \in Seq(Tokens) /\ Len(t) \in Nat
  <2>1. t \in Seq(Tokens)  BY SourceLines, LineShape
  <2>. QED  BY <2>1, LenProperties
<1>3. k - 1 \in 0 .. Len(ss) /\ k \in 0 .. Len(ss) /\ Len(ss) \in 0 .. Len(ss)
  <2>1. Len(lines) \in Nat  BY SourceLines
  <2>. QED  BY <1>1, <2>1
<1> HIDE DEF ss, t
<1>4. /\ EndOf(ss, k) = EndOf(ss, k - 1) + Len(t)
      /\ \A m \in 1 .. Len(t) : FlattenSeq(ss)[EndOf(ss, k - 1) + m] = t[m]
  <2>1. /\ EndOf(ss, k) = EndOf(ss, k - 1) + Len(ss[k])
        /\ \A m \in 1 .. Len(ss[k]) : FlattenSeq(ss)[EndOf(ss, k - 1) + m] = ss[k][m]
    BY <1>1, FlattenPlaces
  <2>. QED  BY <1>1, <2>1
<1>5. EndOf(ss, k) <= EndOf(ss, Len(ss)) /\ EndOf(ss, k - 1) \in Nat /\ EndOf(ss, k) \in Nat
      /\ EndOf(ss, Len(ss)) \in Nat
  BY <1>1, <1>3, EndsInOrder, EndOfType
<1>6. ASSUME NEW m \in 1 .. Len(t) PROVE Lexed(lines)[EndOf(ss, k - 1) + m] = t[m]
  <2>1. EndOf(ss, k - 1) + m \in 1 .. EndOf(ss, Len(ss))  BY <1>2, <1>4, <1>5
  <2>2. Lexed(lines)[EndOf(ss, k - 1) + m] = FlattenSeq(ss)[EndOf(ss, k - 1) + m]
    BY <1>1, <2>1, LexedType DEF LineEnd, ss
  <2>. QED  BY <1>4, <2>2
<1>. QED  BY <1>1, <1>4, <1>5, <1>6 DEF LineEnd, ss, t

LEMMA LinesInOrder ==
  ASSUME NEW lines \in Sources, NEW i \in 0 .. Len(lines), NEW k \in 0 .. Len(lines), i <= k
  PROVE  /\ LineEnd(lines, i) \in Nat /\ LineEnd(lines, k) \in Nat
         /\ LineEnd(lines, i) <= LineEnd(lines, k)
         /\ LineEnd(lines, 0) = 0
<1> DEFINE ss == LinesTokens(lines)
<1>1. ss \in Seq(Seq(Tokens)) /\ Len(ss) = Len(lines)  BY LinesTokensType
<1>2. i \in 0 .. Len(ss) /\ k \in 0 .. Len(ss) /\ i \in 0 .. k
  <2>1. Len(lines) \in Nat  BY SourceLines
  <2>. QED  BY <1>1, <2>1
<1> HIDE DEF ss
<1>3. EndOf(ss, i) \in Nat /\ EndOf(ss, k) \in Nat /\ EndOf(ss, i) <= EndOf(ss, k) /\ EndOf(ss, 0) = 0
  BY <1>1, <1>2, EndsInOrder, EndOfType, FlattenEnds
<1>. QED  BY <1>3 DEF LineEnd, ss

\* The tokens of a line, at their places.
LinePlaced(lines, k) ==
  LET line == lines[k]
      n == Len(line.args)
      ts == Lexed(lines)
  IN  /\ LineEnd(lines, k - 1) \in Nat /\ LineEnd(lines, k) \in Nat /\ n \in Nat
      /\ OpAt(lines, k) = LineEnd(lines, k - 1) + OpEnd(line) /\ OpEnd(line) \in 0 .. 2
      /\ line.label # NoLabel => ts[LabelAt(lines, k)] = Token("label", line.label)
      /\ line.op # NoOp => ts[OpAt(lines, k)] = OpToken(line)
      /\ ArgEnd(lines, k, 0) = OpAt(lines, k)
      /\ LineEnd(lines, k) = ArgEnd(lines, k, n) + 1
      /\ ts[LineEnd(lines, k)] = Token("newline", 0)
      /\ LineEnd(lines, k) < Len(ts)
      /\ LineEnd(lines, k - 1) <= OpAt(lines, k)

ArgPlaced(lines, k, r) ==
  LET a == lines[k].args[r]
      t == ArgTokens(a)
      ts == Lexed(lines)
  IN  /\ ArgEnd(lines, k, r - 1) \in Nat /\ ArgEnd(lines, k, r) \in Nat
      /\ ArgAt(lines, k, r) = ArgEnd(lines, k, r - 1) + Comma(r)
      /\ r # 1 => ts[ArgEnd(lines, k, r - 1) + 1] = Token("comma", 0)
      /\ \A m \in 1 .. Len(t) : ts[ArgAt(lines, k, r) + m] = t[m]
      /\ ArgEnd(lines, k, r) = ArgAt(lines, k, r) + Len(t) /\ Len(t) \in Nat
      /\ ArgShape(a) /\ a \in Args
      /\ OpAt(lines, k) <= ArgEnd(lines, k, r - 1) /\ ArgEnd(lines, k, r) < LineEnd(lines, k)

\* Every line's tokens stand where LineEnd, OpAt and ArgEnd say.
LEMMA LinesArePlaced ==
  ASSUME NEW lines \in Sources, NEW k \in 1 .. Len(lines)
  PROVE  LinePlaced(lines, k) /\ \A r \in 1 .. Len(lines[k].args) : ArgPlaced(lines, k, r)
<1> DEFINE line == lines[k]
           n == Len(line.args)
           ts == Lexed(lines)
           t == LineTokens(line)
           e == OpEnd(line)
           z == EndOf(Pieces(line), n)
           b == LineEnd(lines, k - 1)
<1>1. /\ b \in Nat /\ LineEnd(lines, k) \in Nat /\ LineEnd(lines, k) = b + Len(t)
      /\ LineEnd(lines, k) <= LineEnd(lines, Len(lines))
      /\ \A m \in 1 .. Len(t) : ts[b + m] = t[m]
  BY LinePlaces
<1>2. line \in Lines  BY SourceLines
<1>3. /\ t \in Seq(Tokens) /\ z \in Nat /\ e \in 0 .. 2 /\ Len(t) = e + z + 1
      /\ line.label # NoLabel => t[1] = Token("label", line.label)
      /\ line.op # NoOp => t[e] = OpToken(line)
      /\ \A r \in 1 .. n : \A m \in 1 .. Len(Piece(line, r)) :
           t[e + (EndOf(Pieces(line), r - 1) + m)] = Piece(line, r)[m]
      /\ t[e + z + 1] = Token("newline", 0)
  BY <1>2, LineShape
<1>4. n \in Nat /\ \A i \in 1 .. n : line.args[i] \in Args  BY <1>2, LineFields
<1>5. /\ Pieces(line) \in Seq(Seq(Tokens)) /\ Len(Pieces(line)) = n
      /\ \A i \in 1 .. n : Pieces(line)[i] = Piece(line, i)
  BY <1>2, PiecesType
<1>6. EndOf(Pieces(line), 0) = 0  BY <1>5, FlattenEnds
<1>7. Len(ts) = LineEnd(lines, Len(lines)) + 1 /\ LineEnd(lines, Len(lines)) \in Nat  BY LexedType
<1>8. OpAt(lines, k) = b + e /\ LabelAt(lines, k) = b + 1
      /\ \A r : ArgEnd(lines, k, r) = (b + e) + EndOf(Pieces(line), r)
  BY DEF OpAt, LabelAt, ArgEnd
<1>9. line.op # NoOp => e > 0
  BY DEF OpEnd, LabelLen
<1>10. LinePlaced(lines, k)
  <2> HIDE DEF ts, t, e, z, b, n, line
  <2>1. line.label # NoLabel => ts[b + 1] = Token("label", line.label)
    <3>1. 1 \in 1 .. Len(t)  BY <1>3
    <3>. QED  BY <1>1, <1>3, <3>1
  <2>2. line.op # NoOp => ts[b + e] = OpToken(line)
    <3>1. line.op # NoOp => e \in 1 .. Len(t)  BY <1>3, <1>9
    <3>. QED  BY <1>1, <1>3, <3>1
  <2>3. ArgEnd(lines, k, 0) = b + e
    <3>1. ArgEnd(lines, k, 0) = (b + e) + 0  BY <1>6, <1>8
    <3>. QED  BY <1>1, <1>3, <3>1
  <2>4. LineEnd(lines, k) = ArgEnd(lines, k, n) + 1 /\ LineEnd(lines, k) = b + (e + z + 1)
    <3>1. ArgEnd(lines, k, n) = (b + e) + z  BY <1>8 DEF z
    <3>. QED  BY <1>1, <1>3, <3>1
  <2>5. ts[b + (e + z + 1)] = Token("newline", 0)
    <3>1. e + z + 1 \in 1 .. Len(t)  BY <1>3
    <3>. QED  BY <1>1, <1>3, <3>1
  <2>6. LineEnd(lines, k) < Len(ts) /\ b <= b + e  BY <1>1, <1>3, <1>7
  <2>. QED  BY <1>1, <1>3, <1>4, <1>8, <2>1, <2>2, <2>3, <2>4, <2>5, <2>6 DEF LinePlaced, line, n, ts, b, e
<1>11. ASSUME NEW r \in 1 .. n PROVE ArgPlaced(lines, k, r)
  <2> DEFINE a == line.args[r]
             w == ArgTokens(a)
             p == Piece(line, r)
             ps == Pieces(line)
  <2>1. /\ Len(p) = Comma(r) + Len(w)
        /\ r # 1 => p[1] = Token("comma", 0)
        /\ \A m \in 1 .. Len(w) : p[Comma(r) + m] = w[m]
        /\ ArgShape(a) /\ a \in Args
    BY <1>2, <1>4, PieceShape
  <2>2. w \in Seq(Tokens) /\ Len(w) \in Nat
    <3>1. w \in Seq(Tokens)  BY <2>1 DEF ArgShape
    <3>. QED  BY <3>1, LenProperties
  <2>3. /\ r \in 1 .. Len(ps) /\ r - 1 \in 0 .. Len(ps) /\ r \in 0 .. Len(ps) /\ ps[r] = p
        /\ n \in 0 .. Len(ps) /\ r - 1 \in 0 .. n /\ r \in 0 .. n /\ ps \in Seq(Seq(Tokens))
    BY <1>4, <1>5
  <2> DEFINE x == EndOf(ps, r - 1)
             y == EndOf(ps, r)
  <2> HIDE DEF ts, t, e, b, n, line, p, w, a, ps
  <2>4. y = x + Len(p)
    <3>1. EndOf(ps, r) = EndOf(ps, r - 1) + Len(ps[r])  BY <2>3, FlattenPlaces
    <3>. QED  BY <2>3, <3>1
  <2>5. x \in Nat /\ y \in Nat /\ y <= z  BY <2>3, EndOfType, EndsInOrder DEF ps
  <2>6. /\ ArgEnd(lines, k, r - 1) = (b + e) + x /\ ArgEnd(lines, k, r) = (b + e) + y
        /\ ArgAt(lines, k, r) = (b + e) + x + Comma(r) /\ Comma(r) \in 0 .. 1 /\ (r # 1 => Comma(r) = 1)
    BY <1>8 DEF ArgAt, Comma, ps
  <2>7. \A m \in 1 .. Len(p) : t[e + (x + m)] = p[m]  BY <1>3 DEF p, n, ps
  <2> HIDE DEF x, y, z
  <2>8. \A m \in 1 .. Len(p) : ts[((b + e) + x) + m] = p[m]
    <3>1. ASSUME NEW m \in 1 .. Len(p) PROVE ts[((b + e) + x) + m] = p[m]
      <4>1. e + (x + m) \in 1 .. Len(t) /\ b + (e + (x + m)) = ((b + e) + x) + m
        <5>1. Len(t) = e + z + 1 /\ e \in 0 .. 2 /\ z \in Nat /\ b \in Nat  BY <1>1, <1>3
        <5>2. x \in Nat /\ y \in Nat /\ y <= z /\ y = x + Len(p)  BY <2>4, <2>5
        <5>3. Len(p) \in Nat /\ m \in 1 .. Len(p)  BY <2>1, <2>2, <2>6
        <5>. QED  BY ONLY <5>1, <5>2, <5>3
      <4>2. ts[b + (e + (x + m))] = t[e + (x + m)]  BY <1>1, <4>1
      <4>. QED  BY <2>7, <4>1, <4>2
    <3>. QED  BY <3>1
  <2>9. r # 1 => ts[((b + e) + x) + 1] = Token("comma", 0)
    <3>1. r # 1 => 1 \in 1 .. Len(p)  BY <2>1, <2>2, <2>6
    <3>. QED  BY <2>1, <2>8, <3>1
  <2>10. \A m \in 1 .. Len(w) : ts[((b + e) + x + Comma(r)) + m] = w[m]
    <3>1. ASSUME NEW m \in 1 .. Len(w) PROVE ts[((b + e) + x + Comma(r)) + m] = w[m]
      <4>1. /\ Comma(r) + m \in 1 .. Len(p)
            /\ ((b + e) + x) + (Comma(r) + m) = ((b + e) + x + Comma(r)) + m
        BY <1>1, <1>3, <2>1, <2>2, <2>5, <2>6
      <4>2. ts[((b + e) + x) + (Comma(r) + m)] = p[Comma(r) + m] /\ p[Comma(r) + m] = w[m]
        BY <2>1, <2>8, <4>1
      <4>. QED  BY <4>1, <4>2
    <3>. QED  BY <3>1
  <2>11. /\ (b + e) + x \in Nat /\ (b + e) + y \in Nat /\ b + e <= (b + e) + x
         /\ (b + e) + y < LineEnd(lines, k) /\ (b + e) + y = ((b + e) + x + Comma(r)) + Len(w)
    <3>1. /\ b \in Nat /\ e \in 0 .. 2 /\ z \in Nat /\ LineEnd(lines, k) = b + (e + z + 1)
          /\ x \in Nat /\ y \in Nat /\ y <= z
      BY <1>1, <1>3, <2>5
    <3>2. y = x + (Comma(r) + Len(w)) /\ Len(w) \in Nat /\ Comma(r) \in 0 .. 1
      BY <2>1, <2>2, <2>4, <2>6
    <3>. QED  BY ONLY <3>1, <3>2
  <2>12. OpAt(lines, k) = b + e  BY <1>8
  <2>. QED  BY <2>1, <2>2, <2>6, <2>9, <2>10, <2>11, <2>12 DEF ArgPlaced, a, w, line, ts
<1>. QED  BY <1>10, <1>11

-----------------------------------------------------------------------------
(* Every token is one of these; what the lexer puts there. *)

\* Every token is one of a line's, or the end of the file.
PlaceOf(lines, k, p) ==
  LET line == lines[k]
  IN  /\ LineEnd(lines, k - 1) < p /\ p <= LineEnd(lines, k)
      /\ \/ p = LabelAt(lines, k) /\ line.label # NoLabel
         \/ p = OpAt(lines, k) /\ line.op # NoOp
         \/ \E r \in 1 .. Len(line.args) : r # 1 /\ p = ArgEnd(lines, k, r - 1) + 1
         \/ \E r \in 1 .. Len(line.args) : \E m \in 1 .. Len(ArgTokens(line.args[r])) :
              p = ArgAt(lines, k, r) + m
         \/ p = LineEnd(lines, k)

\* Every place is that of a label, an operation, a comma, an operand or a line's end.
LEMMA TokenIsIn ==
  ASSUME NEW lines \in Sources, NEW p \in 1 .. LineEnd(lines, Len(lines))
  PROVE  \E k \in 1 .. Len(lines) : PlaceOf(lines, k, p)
<1> DEFINE ss == LinesTokens(lines)
<1>1. /\ ss \in Seq(Seq(Tokens)) /\ Len(ss) = Len(lines)
      /\ \A k \in 1 .. Len(lines) : ss[k] = LineTokens(lines[k])
  BY LinesTokensType
<1>2. p \in 1 .. Len(FlattenSeq(ss))  BY LexedType
<1> HIDE DEF ss
<1>3. PICK k \in 1 .. Len(ss) : p - EndOf(ss, k - 1) \in 1 .. Len(ss[k])  BY <1>1, <1>2, PlaceIsIn
<1> DEFINE line == lines[k]
           t == LineTokens(line)
           b == LineEnd(lines, k - 1)
           e == OpEnd(line)
           n == Len(line.args)
           z == EndOf(Pieces(line), n)
           j == p - b
<1>4. k \in 1 .. Len(lines) /\ j \in 1 .. Len(t)  BY <1>1, <1>3 DEF LineEnd, ss
<1>5. b \in Nat /\ LineEnd(lines, k) = b + Len(t)  BY <1>4, LinePlaces
<1>6. line \in Lines  BY <1>4, SourceLines
<1>7. z \in Nat /\ e \in 0 .. 2 /\ Len(t) = e + z + 1  BY <1>6, LineShape
<1>8. p \in Nat /\ p = b + j /\ b < p /\ p <= LineEnd(lines, k)
  <2> HIDE DEF b, t
  <2>. QED  BY <1>4, <1>5, <1>7
<1>9. CASE j <= e
  <2>1. LabelAt(lines, k) = b + 1 /\ OpAt(lines, k) = b + e  BY DEF LabelAt, OpAt
  <2>2. e = (IF line.label = NoLabel THEN 0 ELSE 1) + (IF line.op = NoOp THEN 0 ELSE 1)
    BY DEF OpEnd, LabelLen
  <2>3. j \in 1 .. e /\ e \in 0 .. 2  BY <1>4, <1>7, <1>9
  <2> HIDE DEF b, t, e, j, line
  <2>4. \/ j = 1 /\ line.label # NoLabel
        \/ j = e /\ line.op # NoOp
    BY <2>2, <2>3
  <2>5. \/ p = LabelAt(lines, k) /\ line.label # NoLabel
        \/ p = OpAt(lines, k) /\ line.op # NoOp
    BY <1>8, <2>1, <2>4
  <2>. QED  BY <1>4, <1>8, <2>5 DEF PlaceOf, line, b
<1>10. CASE j = e + z + 1
  <2>1. p = LineEnd(lines, k)  BY <1>5, <1>7, <1>8, <1>10
  <2>. QED  BY <1>4, <1>8, <2>1 DEF PlaceOf
<1>11. CASE j > e /\ j <= e + z
  <2> DEFINE ps == Pieces(line)
             i == j - e
  <2>1. ps \in Seq(Seq(Tokens)) /\ Len(ps) = n /\ \A r \in 1 .. n : ps[r] = Piece(line, r)
    BY <1>6, PiecesType
  <2>2. z = Len(FlattenSeq(ps))  BY <2>1, FlattenEnds
  <2>3. i \in 1 .. z
    <3> HIDE DEF e, z, j
    <3>. QED  BY <1>4, <1>7, <1>11
  <2> HIDE DEF ps, i
  <2>4. i \in 1 .. Len(FlattenSeq(ps))  BY <2>2, <2>3
  <2>5. PICK r \in 1 .. Len(ps) : i - EndOf(ps, r - 1) \in 1 .. Len(ps[r])
    BY <2>1, <2>4, PlaceIsIn
  <2> DEFINE x == EndOf(ps, r - 1)
             w == ArgTokens(line.args[r])
  <2>6. r \in 1 .. n /\ i - x \in 1 .. Len(Piece(line, r))  BY <2>1, <2>5
  <2>7. Len(Piece(line, r)) = Comma(r) + Len(w)  BY <1>6, <2>6, PieceShape
  <2>8. ArgPlaced(lines, k, r)  BY <1>4, <2>6, LinesArePlaced
  <2>9. Len(w) \in Nat /\ Comma(r) \in 0 .. 1 /\ (Comma(r) = 1 <=> r # 1)
    BY <2>8 DEF ArgPlaced, Comma
  <2>10. r - 1 \in 0 .. Len(ps)
    <3>1. n \in Nat  BY <1>6, LineFields
    <3>. QED  BY <2>1, <2>6, <3>1
  <2>11. x \in Nat  BY <2>1, <2>10, EndOfType
  <2>12. ArgEnd(lines, k, r - 1) = (b + e) + x /\ ArgAt(lines, k, r) = ((b + e) + x) + Comma(r)
    BY DEF ArgEnd, ArgAt, OpAt, ps
  <2>13. p = ((b + e) + x) + (i - x)
    <3>1. i = j - e /\ j \in Int /\ e \in Int  BY <1>4, <1>7 DEF i
    <3> HIDE DEF b, e, j, x
    <3>. QED  BY <1>5, <1>8, <2>3, <2>11, <3>1
  <2> HIDE DEF x, b, e, j
  <2> DEFINE q == i - x
  <2>14. q \in 1 .. Comma(r) + Len(w) /\ p = ((b + e) + x) + q /\ (b + e) + x \in Nat
    BY <1>5, <1>7, <2>6, <2>7, <2>11, <2>13
  <2> HIDE DEF q
  <2>15. CASE q = 1 /\ r # 1
    <3>1. p = ArgEnd(lines, k, r - 1) + 1  BY <2>12, <2>14, <2>15
    <3>. QED  BY <1>4, <1>8, <2>6, <2>15, <3>1 DEF PlaceOf, n, line, b
  <2>16. CASE ~(q = 1 /\ r # 1)
    <3>1. q - Comma(r) \in 1 .. Len(w)
      <4> HIDE DEF w
      <4>. QED  BY <2>9, <2>14, <2>16
    <3>2. p = ArgAt(lines, k, r) + (q - Comma(r))
      <4> HIDE DEF w
      <4>. QED  BY <2>9, <2>12, <2>14
    <3>. QED  BY <1>4, <1>8, <2>6, <3>1, <3>2 DEF PlaceOf, n, line, b, w
  <2>. QED  BY <2>15, <2>16
<1>. QED
  <2> HIDE DEF e, z, j, t
  <2>. QED  BY <1>4, <1>7, <1>9, <1>10, <1>11

\* The kinds of the tokens of an operand.
StartsArg == {"register", "minus", "integer", "identifier"}

LEMMA ArgKinds ==
  ASSUME NEW a \in Args, ArgShape(a)
  PROVE  LET t == ArgTokens(a)
         IN  /\ Len(t) \in Nat \ {0} /\ t[1].kind \in StartsArg
             /\ \A m \in 1 .. Len(t) :
                  /\ t[m].kind \in StartsArg \union {"lparen", "rparen"}
                  /\ t[m].kind = "minus" => m + 1 \in 1 .. Len(t) /\ t[m + 1].kind = "integer"
                  /\ t[m].kind = "lparen" => m + 1 \in 1 .. Len(t) /\ t[m + 1].kind = "register"
                  /\ t[m].kind = "integer" => t[m].val \in Int
<1> DEFINE t == ArgTokens(a)
           k == Minus(a.val)
<1>0. /\ t \in Seq(Tokens) /\ Len(t) >= 1 /\ Len(t) \in Nat
      /\ a.kind = "register" => Len(t) = 1 /\ t[1] = Token("register", a.val)
      /\ a.kind = "label" => Len(t) = 1 /\ t[1] = Token("identifier", a.val)
      /\ a.kind \in {"immediate", "memory"} =>
           /\ a.val < 0 => t[1] = Token("minus", 0)
           /\ t[k + 1] = Token("integer", IF a.val < 0 THEN -a.val ELSE a.val)
      /\ a.kind = "immediate" => Len(t) = k + 1
      /\ a.kind = "memory" =>
           /\ Len(t) = k + 4
           /\ t[k + 2] = Token("lparen", 0) /\ t[k + 3] = Token("register", a.base)
           /\ t[k + 4] = Token("rparen", 0)
  <2>1. t \in Seq(Tokens)  BY DEF ArgShape
  <2>. QED  BY <2>1, LenProperties DEF ArgShape
<1>1. k \in 0 .. 1 /\ (a.val < 0 <=> k = 1)  BY DEF Minus
<1> HIDE DEF t, k
<1>2. CASE a.kind = "register" \/ a.kind = "label"
  <2>1. Len(t) = 1 /\ t[1].kind \in {"register", "identifier"}
    BY <1>0, <1>2, TokenFields
  <2>. QED  BY <2>1 DEF t, StartsArg
<1>3. CASE a.kind = "immediate"
  <2>1. /\ Len(t) = k + 1 /\ (k = 1 => t[1].kind = "minus") /\ t[k + 1].kind = "integer"
        /\ t[k + 1].val \in Int
    BY <1>0, <1>1, <1>3, ArgsHaveKinds, TokenFields
  <2>2. CASE k = 0
    <3>1. Len(t) = 1 /\ t[1].kind = "integer" /\ t[1].val \in Int  BY <2>1, <2>2
    <3>. QED  BY <3>1 DEF t, StartsArg
  <2>3. CASE k = 1
    <3>1. Len(t) = 2 /\ t[1].kind = "minus" /\ t[2].kind = "integer" /\ t[2].val \in Int  BY <2>1, <2>3
    <3>. QED  BY <3>1 DEF t, StartsArg
  <2>. QED  BY <1>1, <2>2, <2>3
<1>4. CASE a.kind = "memory"
  <2>1. /\ Len(t) = k + 4 /\ (k = 1 => t[1].kind = "minus") /\ t[k + 1].kind = "integer"
        /\ t[k + 2].kind = "lparen" /\ t[k + 3].kind = "register" /\ t[k + 4].kind = "rparen"
        /\ t[k + 1].val \in Int
    BY <1>0, <1>1, <1>4, ArgsHaveKinds, TokenFields
  <2>2. CASE k = 0
    <3>1. /\ Len(t) = 4 /\ t[1].kind = "integer" /\ t[2].kind = "lparen" /\ t[3].kind = "register"
          /\ t[4].kind = "rparen" /\ t[1].val \in Int
      BY <2>1, <2>2
    <3>. QED  BY <3>1 DEF t, StartsArg
  <2>3. CASE k = 1
    <3>1. /\ Len(t) = 5 /\ t[1].kind = "minus" /\ t[2].kind = "integer" /\ t[3].kind = "lparen"
          /\ t[4].kind = "register" /\ t[5].kind = "rparen" /\ t[2].val \in Int
      BY <2>1, <2>3
    <3>. QED  BY <3>1 DEF t, StartsArg
  <2>. QED  BY <1>1, <2>2, <2>3
<1>. QED  BY <1>2, <1>3, <1>4, ArgsHaveKinds

\* What kind of token stands where.
TokenFacts(lines, p) ==
  LET ts == Lexed(lines)
  IN  /\ ts[p].kind = "mnemonic" =>
           \E k \in 1 .. Len(lines) :
             p = OpAt(lines, k) /\ lines[k].op \in LexedMnemonics /\ ts[p].val = lines[k].op
      /\ ts[p].kind = "label" =>
           \E k \in 1 .. Len(lines) :
             p = LabelAt(lines, k) /\ lines[k].label # NoLabel /\ ts[p].val = lines[k].label
      /\ ts[p].kind = "eof" <=> p = Len(ts)
      /\ ts[p].kind = "comma" => p + 1 \in 1 .. Len(ts) /\ ts[p + 1].kind \in StartsArg
      /\ ts[p].kind = "minus" => p + 1 \in 1 .. Len(ts) /\ ts[p + 1].kind = "integer"
      /\ ts[p].kind = "lparen" => p + 1 \in 1 .. Len(ts) /\ ts[p + 1].kind = "register"
      /\ ts[p].kind = "integer" => ts[p].val \in Int

LEMMA TokensHaveFacts ==
  ASSUME NEW lines \in Sources, NEW p \in 1 .. Len(Lexed(lines))
  PROVE  TokenFacts(lines, p)
<1> DEFINE ts == Lexed(lines)
           z == LineEnd(lines, Len(lines))
<1>1. Len(ts) = z + 1 /\ z \in Nat /\ ts[z + 1] = Token("eof", 0)  BY LexedType
<1> HIDE DEF z
<1>2. CASE p = z + 1
  <2>1. ts[p].kind = "eof"  BY <1>1, <1>2, TokenFields
  <2>. QED  BY <1>1, <1>2, <2>1 DEF TokenFacts
<1>3. CASE p \in 1 .. z
  <2>1. PICK k \in 1 .. Len(lines) : PlaceOf(lines, k, p)  BY <1>3, TokenIsIn DEF z
  <2> DEFINE line == lines[k]
  <2>2. LinePlaced(lines, k) /\ \A r \in 1 .. Len(line.args) : ArgPlaced(lines, k, r)
    BY LinesArePlaced
  <2>3. p # Len(ts) /\ p \in Nat  BY <1>1, <1>3
  <2>4. CASE p = LabelAt(lines, k) /\ line.label # NoLabel
    <3>1. ts[p].kind = "label" /\ ts[p].val = line.label  BY <2>2, <2>4, TokenFields DEF LinePlaced
    <3>. QED  BY <2>3, <2>4, <3>1 DEF TokenFacts
  <2>5. CASE p = OpAt(lines, k) /\ line.op # NoOp
    <3>1. /\ ts[p].kind = IF line.op \in LexedMnemonics THEN "mnemonic" ELSE "identifier"
          /\ ts[p].val = line.op
      BY <2>2, <2>5, TokenFields DEF LinePlaced, OpToken
    <3>. QED  BY <2>3, <2>5, <3>1 DEF TokenFacts
  <2>6. ASSUME NEW r \in 1 .. Len(line.args) PROVE
          LET a == line.args[r]
              t == ArgTokens(a)
          IN  /\ Len(t) \in Nat \ {0} /\ t[1].kind \in StartsArg
              /\ \A m \in 1 .. Len(t) :
                   /\ t[m].kind \in StartsArg \union {"lparen", "rparen"}
                   /\ t[m].kind = "minus" => m + 1 \in 1 .. Len(t) /\ t[m + 1].kind = "integer"
                   /\ t[m].kind = "lparen" => m + 1 \in 1 .. Len(t) /\ t[m + 1].kind = "register"
                   /\ t[m].kind = "integer" => t[m].val \in Int
    BY <2>2, ArgKinds DEF ArgPlaced
  <2>7. CASE \E r \in 1 .. Len(line.args) : r # 1 /\ p = ArgEnd(lines, k, r - 1) + 1
    <3>1. PICK r \in 1 .. Len(line.args) : r # 1 /\ p = ArgEnd(lines, k, r - 1) + 1  BY <2>7
    <3> DEFINE t == ArgTokens(line.args[r])
    <3>2. /\ ts[p] = Token("comma", 0) /\ ArgEnd(lines, k, r - 1) \in Nat
          /\ ArgAt(lines, k, r) = ArgEnd(lines, k, r - 1) + Comma(r)
          /\ \A m \in 1 .. Len(t) : ts[ArgAt(lines, k, r) + m] = t[m]
          /\ ArgEnd(lines, k, r) = ArgAt(lines, k, r) + Len(t)
          /\ ArgEnd(lines, k, r) < LineEnd(lines, k) /\ ArgEnd(lines, k, r) \in Nat
      BY <2>2, <3>1 DEF ArgPlaced
    <3>3. Comma(r) = 1  BY <3>1 DEF Comma
    <3>4. Len(t) \in Nat \ {0} /\ t[1].kind \in StartsArg  BY <2>6
    <3> HIDE DEF t
    <3>5. p = ArgAt(lines, k, r) /\ 1 \in 1 .. Len(t)  BY <3>1, <3>2, <3>3, <3>4
    <3>6. ts[p + 1].kind \in StartsArg  BY <3>2, <3>4, <3>5
    <3>7. p + 1 \in 1 .. Len(ts)
      <4>1. LineEnd(lines, k) < Len(ts) /\ LineEnd(lines, k) \in Nat  BY <2>2 DEF LinePlaced
      <4>. QED  BY <1>1, <2>3, <3>2, <3>4, <3>5, <4>1
    <3>8. ts[p].kind = "comma"  BY <3>2, TokenFields
    <3>. QED  BY <2>3, <3>6, <3>7, <3>8 DEF TokenFacts
  <2>8. CASE \E r \in 1 .. Len(line.args) : \E m \in 1 .. Len(ArgTokens(line.args[r])) :
               p = ArgAt(lines, k, r) + m
    <3>0. PICK r \in 1 .. Len(line.args) : \E m \in 1 .. Len(ArgTokens(line.args[r])) :
             p = ArgAt(lines, k, r) + m
      BY <2>8
    <3>1. PICK m \in 1 .. Len(ArgTokens(line.args[r])) : p = ArgAt(lines, k, r) + m  BY <3>0
    <3> DEFINE t == ArgTokens(line.args[r])
    <3>2. /\ ArgEnd(lines, k, r - 1) \in Nat
          /\ ArgAt(lines, k, r) = ArgEnd(lines, k, r - 1) + Comma(r)
          /\ \A i \in 1 .. Len(t) : ts[ArgAt(lines, k, r) + i] = t[i]
          /\ ArgEnd(lines, k, r) = ArgAt(lines, k, r) + Len(t)
          /\ ArgEnd(lines, k, r) < LineEnd(lines, k) /\ ArgEnd(lines, k, r) \in Nat
      BY <2>2 DEF ArgPlaced
    <3>3. /\ Len(t) \in Nat \ {0}
          /\ t[m].kind \in StartsArg \union {"lparen", "rparen"}
          /\ t[m].kind = "minus" => m + 1 \in 1 .. Len(t) /\ t[m + 1].kind = "integer"
          /\ t[m].kind = "lparen" => m + 1 \in 1 .. Len(t) /\ t[m + 1].kind = "register"
          /\ t[m].kind = "integer" => t[m].val \in Int
      BY <2>6
    <3>4. m \in 1 .. Len(t)  OBVIOUS
    <3> HIDE DEF t
    <3>5. ts[p] = t[m] /\ Comma(r) \in 0 .. 1  BY <3>1, <3>2, <3>4 DEF Comma
    <3>6. m + 1 \in 1 .. Len(t) => p + 1 \in 1 .. Len(ts) /\ ts[p + 1] = t[m + 1]
      <4>1. LineEnd(lines, k) < Len(ts) /\ LineEnd(lines, k) \in Nat  BY <2>2 DEF LinePlaced
      <4>2. ArgAt(lines, k, r) \in Nat  BY <3>2, <3>5
      <4>3. m \in Nat /\ p + 1 = ArgAt(lines, k, r) + (m + 1)
        <5>1. m \in Nat  BY <3>3, <3>4
        <5>. QED  BY ONLY <3>1, <4>2, <5>1
      <4>4. ASSUME m + 1 \in 1 .. Len(t) PROVE p + 1 \in 1 .. Len(ts) /\ ts[p + 1] = t[m + 1]
        <5>1. ts[ArgAt(lines, k, r) + (m + 1)] = t[m + 1]  BY <3>2, <4>4
        <5>2. p + 1 <= ArgEnd(lines, k, r) /\ p + 1 \in Nat \ {0}
          <6>1. ArgEnd(lines, k, r) = ArgAt(lines, k, r) + Len(t) /\ Len(t) \in Nat  BY <3>2, <3>3
          <6>2. m + 1 <= Len(t)  BY <4>4, <4>3, <3>3
          <6>. QED  BY ONLY <4>2, <4>3, <6>1, <6>2
        <5>3. ArgEnd(lines, k, r) <= Len(ts) /\ ArgEnd(lines, k, r) \in Nat /\ Len(ts) \in Nat
          BY ONLY <1>1, <3>2, <4>1
        <5>. QED  BY ONLY <4>3, <5>1, <5>2, <5>3
      <4>. QED  BY <4>4
    <3>. QED  BY <2>3, <3>3, <3>5, <3>6 DEF TokenFacts, StartsArg
  <2>9. CASE p = LineEnd(lines, k)
    <3>1. ts[p].kind = "newline"  BY <2>2, <2>9, TokenFields DEF LinePlaced
    <3>. QED  BY <2>3, <3>1 DEF TokenFacts
  <2>. QED  BY <2>1, <2>4, <2>5, <2>7, <2>8, <2>9 DEF PlaceOf
<1>. QED  BY <1>1, <1>2, <1>3

-----------------------------------------------------------------------------
(* What the parser reads of the tokens, and what it skips. *)

\* The source is a legal one, and the tokens are its tokens.
Given == source \in Sources /\ tokens = Lexed(source)

LEMMA KindIs ==
  ASSUME Given
  PROVE  /\ Len(tokens) \in Nat \ {0} /\ DOMAIN tokens = 1 .. Len(tokens)
         /\ \A p \in 1 .. Len(tokens) : Kind(p) = tokens[p].kind
         /\ \A p \in Nat \ {0} : Kind(p) # "eof" => p \in 1 .. Len(tokens) - 1
         /\ Kind(Len(tokens)) = "eof"
<1>1. tokens \in Seq(Tokens) /\ Len(tokens) = LineEnd(source, Len(source)) + 1 /\ LineEnd(source, Len(source)) \in Nat
  BY LexedType DEF Given
<1>2. Len(tokens) \in Nat \ {0} /\ DOMAIN tokens = 1 .. Len(tokens)  BY <1>1, LenProperties
<1>3. \A p \in 1 .. Len(tokens) : Kind(p) = tokens[p].kind  BY <1>2 DEF Kind
<1>4. \A p \in 1 .. Len(tokens) : tokens[p].kind = "eof" <=> p = Len(tokens)
  BY TokensHaveFacts DEF Given, TokenFacts
<1>5. Kind(Len(tokens)) = "eof"  BY <1>2, <1>3, <1>4
<1>6. ASSUME NEW p \in Nat \ {0}, Kind(p) # "eof" PROVE p \in 1 .. Len(tokens) - 1
  <2>1. p \in 1 .. Len(tokens)  BY <1>2, <1>6 DEF Kind
  <2>2. p # Len(tokens)  BY <1>5, <1>6
  <2>3. Len(tokens) \in Nat  BY <1>2
  <2>. QED  BY ONLY <2>1, <2>2, <2>3
<1>. QED  BY <1>2, <1>3, <1>5, <1>6

LEMMA KindFacts ==
  ASSUME Given, NEW p \in Nat \ {0}
  PROVE  /\ Kind(p) = "mnemonic" =>
              \E k \in 1 .. Len(source) :
                p = OpAt(source, k) /\ source[k].op \in LexedMnemonics /\ Val(p) = source[k].op
         /\ Kind(p) = "label" =>
              \E k \in 1 .. Len(source) :
                p = LabelAt(source, k) /\ source[k].label # NoLabel /\ Val(p) = source[k].label
         /\ Kind(p) = "comma" => p + 1 \in 1 .. Len(tokens) /\ Kind(p + 1) \in StartsArg
         /\ Kind(p) = "minus" => p + 1 \in 1 .. Len(tokens) /\ Kind(p + 1) = "integer"
         /\ Kind(p) = "lparen" => p + 1 \in 1 .. Len(tokens) /\ Kind(p + 1) = "register"
         /\ Kind(p) = "integer" => Val(p) \in Int
<1>1. CASE Kind(p) = "eof"  BY <1>1
<1>2. CASE Kind(p) # "eof"
  <2>1. p \in 1 .. Len(tokens) - 1  BY <1>2, KindIs
  <2>2. p \in 1 .. Len(tokens) /\ p + 1 \in 1 .. Len(tokens)
    <3>1. Len(tokens) \in Nat  BY KindIs
    <3>. QED  BY <2>1, <3>1
  <2>3. Kind(p) = tokens[p].kind /\ Kind(p + 1) = tokens[p + 1].kind  BY <2>2, KindIs
  <2>4. TokenFacts(source, p) /\ tokens = Lexed(source)  BY <2>2, TokensHaveFacts DEF Given
  <2>. QED  BY <2>2, <2>3, <2>4 DEF TokenFacts, Val
<1>. QED  BY <1>1, <1>2

\* SkipNewlines stops at the first token that is no line's end.
LEMMA Skipped ==
  ASSUME Given, NEW p \in 1 .. Len(tokens)
  PROVE  LET q == SkipNewlines(p)
         IN  /\ q \in p .. Len(tokens) /\ Kind(q) # "newline"
             /\ \A r \in p .. q - 1 : Kind(r) = "newline"
<1> DEFINE n == Len(tokens)
           T == {q \in p .. n : Kind(q) # "newline"}
           OK(q) == Kind(q) # "newline" /\ \A r \in p .. q - 1 : Kind(r) = "newline"
           q == SkipNewlines(p)
<1>1. n \in Nat /\ Kind(n) # "newline" /\ p \in Nat /\ p <= n /\ p > 0
  <2>1. n \in Nat \ {0} /\ Kind(n) = "eof"  BY KindIs
  <2>. QED  BY <2>1
<1>2. \E t \in p .. n + p : OK(t)
  <2>1. T \in SUBSET Nat /\ n \in T  BY <1>1
  <2>2. PICK t \in T : \A i \in T : t <= i
    <3> HIDE DEF T
    <3>. QED  BY <2>1, LeastElement
  <2>3. t \in p .. n + p /\ t \in Nat /\ t <= n /\ Kind(t) # "newline"  BY <1>1, <2>2
  <2>4. ASSUME NEW r \in p .. t - 1 PROVE Kind(r) = "newline"
    <3>1. r \in p .. n /\ ~(t <= r)  BY <1>1, <2>3
    <3>. QED  BY <2>2, <3>1
  <2>. QED  BY <2>3, <2>4
<1>3. q = CHOOSE t \in p .. n + p : OK(t)  BY DEF SkipNewlines
<1> HIDE DEF OK, q
<1>4. q \in p .. n + p /\ OK(q)  BY <1>2, <1>3
<1>5. q <= n
  <2> SUFFICES ASSUME ~(q <= n) PROVE FALSE  OBVIOUS
  <2>1. n \in p .. q - 1  BY <1>1, <1>4
  <2>. QED  BY <1>1, <1>4, <2>1 DEF OK
<1>. QED  BY <1>1, <1>4, <1>5 DEF OK, q

LEMMA NothingSkipped ==
  ASSUME Given, NEW p \in 1 .. Len(tokens), Kind(p) # "newline"
  PROVE  SkipNewlines(p) = p
<1> DEFINE q == SkipNewlines(p)
<1>1. q \in p .. Len(tokens) /\ \A r \in p .. q - 1 : Kind(r) = "newline"  BY Skipped
<1>2. Len(tokens) \in Nat  BY KindIs
<1> HIDE DEF q
<1>3. CASE q > p
  <2>1. p \in p .. q - 1  BY <1>1, <1>2, <1>3
  <2>. QED  BY <1>1, <2>1
<1>4. CASE ~(q > p)
  <2>1. q = p  BY <1>1, <1>2, <1>4
  <2>. QED  BY <2>1 DEF q
<1>. QED  BY <1>3, <1>4

OperandKinds == {"register", "immediate", "label"}

Operands == [kind : OperandKinds, val : Int \union Names \union Ops]

\* No operand runs over a mnemonic, the end of a line or a label that is not its first token.
Within(p, r) ==
  /\ r.next \in p .. Len(tokens)
  /\ \A s \in p .. r.next - 1 :
       /\ Kind(s) \notin {"mnemonic", "eof", "newline", "comma"}
       /\ Kind(s) = "label" => s = p
  /\ r.ops = <<>> \/ \E o \in Operands : r.ops = <<o>>
  /\ r.ops # <<>> /\ r.ops[1].kind = "label" =>
       Kind(p) \in {"identifier", "label"} /\ r.ops[1].val = Val(p)
  /\ Kind(p) = "label" \/ Kind(p) = "identifier" => r.next = p + 1
  /\ Kind(p) \in {"mnemonic", "eof"} => r = List(<<>>, p)

LEMMA OperandType ==
  ASSUME NEW kind \in OperandKinds, NEW val \in Int \union Names \union Ops
  PROVE  /\ Operand(kind, val) \in Operands /\ Operand(kind, val).kind = kind
         /\ Operand(kind, val).val = val
BY DEF Operand, Operands

LEMMA ValType ==
  ASSUME Given, NEW p \in 1 .. Len(tokens)
  PROVE  Val(p) \in Int \union Names \union Ops
<1>1. tokens \in Seq(Tokens)  BY LexedType DEF Given
<1>2. tokens[p] \in Tokens  BY <1>1, ElementOfSeq
<1>. QED  BY <1>2 DEF Val, Tokens

-----------------------------------------------------------------------------
(* One operand, from any token. *)

LEMMA ParseOperandIs ==
  ASSUME NEW p
  PROVE  LET q == IF Kind(p) = "minus" THEN p + 1 ELSE p
             imm == Operand("immediate", IF q = p THEN Val(q) ELSE -Val(q))
             r == ParseOperand(p)
         IN  /\ Kind(q) = "integer" /\ Kind(q + 1) # "lparen" => r = List(<<imm>>, q + 1)
             /\ Kind(q) = "integer" /\ Kind(q + 1) = "lparen" /\ Kind(q + 2) = "register"
                  => r = List(<<imm>>, Closed(q + 3))
             /\ Kind(q) = "register" => r = List(<<Operand("register", Val(q))>>, q + 1)
             /\ Kind(q) = "identifier" => r = List(<<Operand("label", Val(q))>>, q + 1)
             /\ Kind(q) = "label" => r = List(<<Operand("label", Val(q))>>, q + 1)
             /\ Kind(q) \notin StartsArg \union {"label"} => r = List(<<>>, q)
<1> DEFINE q == IF Kind(p) = "minus" THEN p + 1 ELSE p
           imm == Operand("immediate", IF q = p THEN Val(q) ELSE -Val(q))
           r == ParseOperand(p)
<1>1. r = CASE Kind(q) = "integer" /\ Kind(q + 1) # "lparen" -> List(<<imm>>, q + 1)
            [] Kind(q) = "integer" /\ Kind(q + 1) = "lparen" ->
                 IF Kind(q + 2) = "register" THEN List(<<imm>>, Closed(q + 3)) ELSE List(<<>>, q + 3)
            [] Kind(q) = "register" -> List(<<Operand("register", Val(q))>>, q + 1)
            [] Kind(q) \in {"identifier", "label"} -> List(<<Operand("label", Val(q))>>, q + 1)
            [] OTHER -> List(<<>>, q)
  BY DEF ParseOperand
<1> HIDE DEF q, imm, r
<1>2. CASE Kind(q) = "integer" /\ Kind(q + 1) # "lparen"
  <2>1. r = List(<<imm>>, q + 1)  BY <1>1, <1>2
  <2>. QED  BY <1>2, <2>1 DEF q, imm, r, StartsArg
<1>3. CASE Kind(q) = "integer" /\ Kind(q + 1) = "lparen"
  <2>1. Kind(q + 2) = "register" => r = List(<<imm>>, Closed(q + 3))  BY <1>1, <1>3
  <2>. QED  BY <1>3, <2>1 DEF q, imm, r, StartsArg
<1>4. CASE Kind(q) = "register"
  <2>1. r = List(<<Operand("register", Val(q))>>, q + 1)  BY <1>1, <1>4
  <2>. QED  BY <1>4, <2>1 DEF q, imm, r, StartsArg
<1>5. CASE Kind(q) \in {"identifier", "label"}
  <2>1. r = List(<<Operand("label", Val(q))>>, q + 1)  BY <1>1, <1>5
  <2>. QED  BY <1>5, <2>1 DEF q, imm, r, StartsArg
<1>6. CASE Kind(q) \notin {"integer", "register", "identifier", "label"}
  <2>1. r = List(<<>>, q)  BY <1>1, <1>6
  <2>. QED  BY <1>6, <2>1 DEF q, imm, r, StartsArg
<1>. QED  BY <1>2, <1>3, <1>4, <1>5, <1>6

LEMMA ListFields ==
  ASSUME NEW ops, NEW next
  PROVE  List(ops, next).ops = ops /\ List(ops, next).next = next
BY DEF List

LEMMA OneOperand ==
  ASSUME NEW o
  PROVE  <<o>> # <<>> /\ <<o>>[1] = o /\ Len(<<o>>) = 1
OBVIOUS

LEMMA OperandWithin ==
  ASSUME Given, NEW p \in 1 .. Len(tokens)
  PROVE  Within(p, ParseOperand(p))
<1> DEFINE n == Len(tokens)
           q == IF Kind(p) = "minus" THEN p + 1 ELSE p
           imm == Operand("immediate", IF q = p THEN Val(q) ELSE -Val(q))
           r == ParseOperand(p)
<1>1. n \in Nat \ {0} /\ Kind(n) = "eof" /\ \A s \in Nat \ {0} : Kind(s) # "eof" => s \in 1 .. n - 1
  BY KindIs
<1>2. p \in Nat \ {0} /\ p <= n  BY <1>1
<1>3. Kind(p) = "minus" => p + 1 \in 1 .. n /\ Kind(p + 1) = "integer"  BY <1>2, KindFacts
<1>4. /\ q \in 1 .. n /\ q \in Nat \ {0} /\ q \in p .. p + 1 /\ (q # p => Kind(p) = "minus" /\ Kind(q) = "integer")
      /\ \A s \in p .. q - 1 : Kind(s) = "minus"
      /\ (Kind(p) = "minus" => Kind(q) = "integer") /\ (Kind(p) # "minus" => q = p)
  <2>1. CASE Kind(p) = "minus"
    <3>1. q = p + 1  BY <2>1
    <3> HIDE DEF q
    <3>2. \A s \in p .. q - 1 : s = p  BY <1>2, <3>1
    <3>. QED  BY <1>2, <1>3, <2>1, <3>1, <3>2
  <2>2. CASE Kind(p) # "minus"
    <3>1. q = p  BY <2>2
    <3> HIDE DEF q
    <3>2. p .. q - 1 = {}  BY <1>2, <3>1
    <3>. QED  BY <1>2, <2>2, <3>1, <3>2
  <2>. QED  BY <2>1, <2>2
<1>5. /\ Kind(q) = "integer" /\ Kind(q + 1) # "lparen" => r = List(<<imm>>, q + 1)
      /\ Kind(q) = "integer" /\ Kind(q + 1) = "lparen" /\ Kind(q + 2) = "register"
           => r = List(<<imm>>, Closed(q + 3))
      /\ Kind(q) = "register" => r = List(<<Operand("register", Val(q))>>, q + 1)
      /\ Kind(q) = "identifier" => r = List(<<Operand("label", Val(q))>>, q + 1)
      /\ Kind(q) = "label" => r = List(<<Operand("label", Val(q))>>, q + 1)
      /\ Kind(q) \notin StartsArg \union {"label"} => r = List(<<>>, q)
  BY ParseOperandIs
<1>6. Kind(q) = "integer" => imm \in Operands /\ imm.kind = "immediate"
  <2>1. SUFFICES ASSUME Kind(q) = "integer" PROVE imm \in Operands /\ imm.kind = "immediate"  OBVIOUS
  <2>2. Val(q) \in Int  BY <1>4, <2>1, KindFacts
  <2> DEFINE v == IF q = p THEN Val(q) ELSE -Val(q)
  <2>3. v \in Int  BY <2>2
  <2>4. "immediate" \in OperandKinds  BY DEF OperandKinds
  <2> HIDE DEF v
  <2>5. Operand("immediate", v) \in Operands /\ Operand("immediate", v).kind = "immediate"
    BY <2>3, <2>4, OperandType
  <2>. QED  BY <2>5 DEF v
<1> HIDE DEF n, q, imm, r
<1>7. CASE Kind(q) = "integer" /\ Kind(q + 1) # "lparen"
  <2>1. r.ops = <<imm>> /\ r.next = q + 1  BY <1>5, <1>7, ListFields
  <2>2. q \in 1 .. n - 1  BY <1>1, <1>4, <1>7
  <2>3. r.next \in p .. n  BY <1>1, <1>2, <1>4, <2>1, <2>2
  <2>4. ASSUME NEW s \in p .. r.next - 1 PROVE Kind(s) \in {"minus", "integer"}
    <3>1. s \in p .. q - 1 \/ s = q  BY <1>2, <1>4, <2>1
    <3>. QED  BY <1>4, <1>7, <3>1
  <2>5. r.ops = <<>> \/ \E o \in Operands : r.ops = <<o>>  BY <1>6, <1>7, <2>1
  <2>6. r.ops[1].kind # "label"  BY <1>6, <1>7, <2>1, OneOperand
  <2>7. Kind(p) \in {"minus", "integer"}  BY <1>4, <1>7
  <2>. QED  BY <2>3, <2>4, <2>5, <2>6, <2>7 DEF Within, r, n
<1>8. CASE Kind(q) = "integer" /\ Kind(q + 1) = "lparen"
  <2>1. Kind(q + 2) = "register"
    <3>1. q + 1 \in Nat \ {0} /\ (q + 1) + 1 = q + 2  BY <1>4
    <3>. QED  BY <1>8, <3>1, KindFacts
  <2>2. r.ops = <<imm>> /\ r.next = Closed(q + 3)  BY <1>5, <1>8, <2>1, ListFields
  <2>3. q + 2 \in 1 .. n - 1
    <3>1. q + 2 \in Nat \ {0} /\ Kind(q + 2) # "eof"  BY <1>4, <2>1
    <3>. QED  BY <1>1, <3>1
  <2>4. /\ r.next \in q + 3 .. q + 4 /\ r.next <= n
        /\ r.next = q + 4 => Kind(q + 3) = "rparen"
    <3>1. CASE Kind(q + 3) = "rparen"
      <4>1. r.next = q + 4  BY <1>4, <2>2, <3>1 DEF Closed
      <4>2. q + 3 \in Nat \ {0} /\ Kind(q + 3) # "eof"  BY <1>4, <3>1
      <4>3. q + 3 \in 1 .. n - 1  BY <1>1, <4>2
      <4>. QED  BY <1>1, <1>4, <3>1, <4>1, <4>3
    <3>2. CASE Kind(q + 3) # "rparen"
      <4>1. r.next = q + 3  BY <2>2, <3>2 DEF Closed
      <4>. QED  BY <1>1, <1>4, <2>3, <4>1
    <3>. QED  BY <3>1, <3>2
  <2>5. ASSUME NEW s \in p .. r.next - 1
        PROVE  Kind(s) \in {"minus", "integer", "lparen", "register", "rparen"}
    <3>1. \/ s \in p .. q - 1 \/ s = q \/ s = q + 1 \/ s = q + 2
          \/ (s = q + 3 /\ r.next = q + 4)
      BY <1>2, <1>4, <2>4
    <3>. QED  BY <1>4, <1>8, <2>1, <2>4, <3>1
  <2>6. r.next \in p .. n  BY <1>1, <1>2, <1>4, <2>4
  <2>7. r.ops = <<>> \/ \E o \in Operands : r.ops = <<o>>  BY <1>6, <1>8, <2>2
  <2>8. r.ops[1].kind # "label"  BY <1>6, <1>8, <2>2, OneOperand
  <2>9. Kind(p) \in {"minus", "integer"}  BY <1>4, <1>8
  <2>. QED  BY <2>5, <2>6, <2>7, <2>8, <2>9 DEF Within, r, n
<1>9. CASE Kind(q) \in {"register", "identifier", "label"}
  <2>1. q = p /\ p \in 1 .. n - 1  BY <1>1, <1>2, <1>4, <1>9
  <2> DEFINE o == Operand(IF Kind(q) = "register" THEN "register" ELSE "label", Val(q))
  <2>2. o \in Operands /\ (o.kind = "register" <=> Kind(q) = "register") /\ o.val = Val(q)
    <3>1. Val(q) \in Int \union Names \union Ops  BY <1>4, ValType DEF n
    <3>2. "register" \in OperandKinds /\ "label" \in OperandKinds  BY DEF OperandKinds
    <3> DEFINE k == IF Kind(q) = "register" THEN "register" ELSE "label"
    <3>3. k \in OperandKinds /\ (k = "register" <=> Kind(q) = "register")  BY <3>2
    <3> HIDE DEF k
    <3>4. Operand(k, Val(q)) \in Operands /\ Operand(k, Val(q)).kind = k /\ Operand(k, Val(q)).val = Val(q)
      BY <3>1, <3>3, OperandType
    <3>. QED  BY <3>3, <3>4 DEF k
  <2>3. r.ops = <<o>> /\ r.next = p + 1
    <3>1. r = List(<<o>>, q + 1)  BY <1>5, <1>9
    <3>. QED  BY <2>1, <3>1, ListFields
  <2> HIDE DEF o
  <2>4. r.next \in p .. n /\ \A s \in p .. r.next - 1 : s = p  BY <1>1, <1>2, <2>1, <2>3
  <2>5. r.ops[1] = o /\ r.ops # <<>>  BY <2>3, OneOperand
  <2>6. Kind(p) \in {"register", "identifier", "label"}  BY <1>9, <2>1
  <2>. QED  BY <2>1, <2>2, <2>3, <2>4, <2>5, <2>6 DEF Within, r, n
<1>10. CASE Kind(q) \notin {"integer", "register", "identifier", "label"}
  <2>1. q = p  BY <1>4, <1>10
  <2>2. Kind(q) \notin StartsArg \union {"label"}  BY <1>4, <1>10 DEF StartsArg
  <2>3. r = List(<<>>, p) /\ r.ops = <<>> /\ r.next = p  BY <1>5, <2>1, <2>2, ListFields
  <2>4. p .. r.next - 1 = {} /\ r.next \in p .. n  BY <1>1, <1>2, <2>3
  <2>5. Kind(p) \notin {"identifier", "label"}  BY <1>10, <2>1
  <2>. QED  BY <2>3, <2>4, <2>5 DEF Within, r, n
<1>. QED  BY <1>7, <1>8, <1>9, <1>10

-----------------------------------------------------------------------------
(* The operands a line writes are the operands the parser makes of them. *)

LEMMA ArgToken ==
  ASSUME Given, NEW k \in 1 .. Len(source), NEW r \in 1 .. Len(source[k].args),
         NEW m \in 1 .. Len(ArgTokens(source[k].args[r]))
  PROVE  LET t == ArgTokens(source[k].args[r])
             p == ArgAt(source, k, r) + m
         IN  p \in 1 .. Len(tokens) /\ Kind(p) = t[m].kind /\ Val(p) = t[m].val
<1> DEFINE t == ArgTokens(source[k].args[r])
           b == ArgAt(source, k, r)
<1>1. ArgPlaced(source, k, r) /\ LinePlaced(source, k)  BY LinesArePlaced DEF Given
<1>2. /\ b = ArgEnd(source, k, r - 1) + Comma(r) /\ ArgEnd(source, k, r - 1) \in Nat
      /\ tokens[b + m] = t[m] /\ ArgEnd(source, k, r) = b + Len(t) /\ Len(t) \in Nat
      /\ ArgEnd(source, k, r) < LineEnd(source, k) /\ LineEnd(source, k) < Len(tokens)
      /\ LineEnd(source, k) \in Nat
  BY <1>1 DEF ArgPlaced, LinePlaced, Given
<1>3. Comma(r) \in 0 .. 1 /\ m \in 1 .. Len(t)  BY DEF Comma
<1>4. Len(tokens) \in Nat  BY KindIs
<1> HIDE DEF b, t
<1>5. b \in Nat  BY ONLY <1>2, <1>3
<1>6. b + m \in 1 .. Len(tokens)
  <2>1. b + Len(t) < Len(tokens)  BY ONLY <1>2, <1>4, <1>5
  <2>2. m \in 1 .. Len(t) /\ Len(t) \in Nat  BY <1>2, <1>3
  <2>. QED  BY ONLY <1>4, <1>5, <2>1, <2>2
<1>7. Kind(b + m) = tokens[b + m].kind  BY <1>6, KindIs
<1>. QED  BY <1>2, <1>6, <1>7 DEF b, t, Val

\* After an operand comes a comma or the end of the line.
LEMMA AfterArg ==
  ASSUME Given, NEW k \in 1 .. Len(source), NEW r \in 1 .. Len(source[k].args)
  PROVE  LET p == ArgEnd(source, k, r) + 1
             n == Len(source[k].args)
         IN  /\ n \in Nat
             /\ r # n => Kind(p) = "comma" /\ r + 1 \in 1 .. n /\ ArgAt(source, k, r + 1) = p
             /\ r = n => Kind(p) = "newline"
             /\ p \in 1 .. Len(tokens)
             /\ ArgEnd(source, k, r) \in Nat
<1> DEFINE e == ArgEnd(source, k, r)
           n == Len(source[k].args)
<1>1. ArgPlaced(source, k, r) /\ LinePlaced(source, k)  BY LinesArePlaced DEF Given
<1>2. /\ e \in Nat /\ e < LineEnd(source, k) /\ LineEnd(source, k) < Len(tokens)
      /\ LineEnd(source, k) = ArgEnd(source, k, n) + 1 /\ tokens[LineEnd(source, k)] = Token("newline", 0)
      /\ LineEnd(source, k) \in Nat /\ n \in Nat
  BY <1>1 DEF ArgPlaced, LinePlaced, Given
<1>3. Len(tokens) \in Nat  BY KindIs
<1> HIDE DEF e, n
<1>4. e + 1 \in 1 .. Len(tokens)  BY <1>2, <1>3
<1>5. Kind(e + 1) = tokens[e + 1].kind  BY <1>4, KindIs
<1>6. ASSUME r # n PROVE Kind(e + 1) = "comma" /\ r + 1 \in 1 .. n /\ ArgAt(source, k, r + 1) = e + 1
  <2>1. r + 1 \in 1 .. n /\ r + 1 # 1 /\ (r + 1) - 1 = r
    <3>1. r \in 1 .. n  BY DEF n
    <3>. QED  BY <1>2, <1>6, <3>1
  <2>2. ArgPlaced(source, k, r + 1)  BY <2>1, LinesArePlaced DEF Given, n
  <2>3. tokens[e + 1] = Token("comma", 0) /\ ArgAt(source, k, r + 1) = e + Comma(r + 1)
    BY <2>1, <2>2 DEF ArgPlaced, Given, e
  <2>4. Comma(r + 1) = 1  BY <2>1 DEF Comma
  <2>. QED  BY <1>5, <2>1, <2>3, <2>4, TokenFields
<1>7. ASSUME r = n PROVE Kind(e + 1) = "newline"
  <2>1. tokens[e + 1] = Token("newline", 0)  BY <1>2, <1>7 DEF e
  <2>. QED  BY <1>5, <2>1, TokenFields
<1>. QED  BY <1>2, <1>4, <1>6, <1>7 DEF e, n

\* What the parser makes of an operand alone: it drops the base of offset(rs).
OperandOf(a) == Operand(IF a.kind = "memory" THEN "immediate" ELSE a.kind, a.val)

\* An operand of the source that no newline or comma is inside of is parsed as itself.
LEMMA ArgParsed ==
  ASSUME Given, NEW k \in 1 .. Len(source), NEW r \in 1 .. Len(source[k].args)
  PROVE  LET a == source[k].args[r]
             p == ArgAt(source, k, r) + 1
         IN  /\ p \in 1 .. Len(tokens) /\ Kind(p) \in StartsArg
             /\ Kind(p) = "register" <=> a.kind = "register"
             /\ Kind(p) = "identifier" <=> a.kind = "label"
             /\ Kind(p) = "integer" <=> a.kind \in {"immediate", "memory"} /\ a.val >= 0
             /\ a.kind # "label" => Val(p) \in Int
             /\ ParseOperand(p) = List(<<OperandOf(a)>>, ArgEnd(source, k, r) + 1)
<1> DEFINE a == source[k].args[r]
           t == ArgTokens(a)
           b == ArgAt(source, k, r)
           e == ArgEnd(source, k, r)
           p == b + 1
           s == Minus(a.val)
<1>1. ArgPlaced(source, k, r)  BY LinesArePlaced DEF Given
<1>2. a \in Args /\ ArgShape(a) /\ e = b + Len(t) /\ ArgEnd(source, k, r - 1) \in Nat
      /\ b = ArgEnd(source, k, r - 1) + Comma(r)
  BY <1>1 DEF ArgPlaced
<1>3. b \in Nat
  <2>1. Comma(r) \in 0 .. 1  BY DEF Comma
  <2>. QED  BY ONLY <1>2, <2>1
<1>4. \A m \in 1 .. Len(t) : b + m \in 1 .. Len(tokens) /\ Kind(b + m) = t[m].kind /\ Val(b + m) = t[m].val
  BY ArgToken
<1>5. Kind(e + 1) \in {"comma", "newline"}  BY AfterArg
<1>6. s \in 0 .. 1 /\ (a.val < 0 <=> s = 1)  BY DEF Minus
<1>7. /\ a.kind = "register" => Len(t) = 1 /\ t[1] = Token("register", a.val)
      /\ a.kind = "label" => Len(t) = 1 /\ t[1] = Token("identifier", a.val)
      /\ a.kind \in {"immediate", "memory"} =>
           /\ a.val < 0 => t[1] = Token("minus", 0)
           /\ t[s + 1] = Token("integer", IF a.val < 0 THEN -a.val ELSE a.val)
      /\ a.kind = "immediate" => Len(t) = s + 1
      /\ a.kind = "memory" =>
           /\ Len(t) = s + 4
           /\ t[s + 2] = Token("lparen", 0) /\ t[s + 3] = Token("register", a.base)
           /\ t[s + 4] = Token("rparen", 0)
  BY <1>2 DEF ArgShape
<1>8. \/ a.kind = "register" /\ a.val \in Registers
      \/ a.kind = "immediate" /\ a.val \in Int
      \/ a.kind = "label" /\ a.val \in Names
      \/ a.kind = "memory" /\ a.val \in Int /\ a.base \in Registers
  BY <1>2, ArgsHaveKinds
<1> DEFINE q == IF Kind(p) = "minus" THEN p + 1 ELSE p
           imm == Operand("immediate", IF q = p THEN Val(q) ELSE -Val(q))
           res == ParseOperand(p)
<1>9. /\ Kind(q) = "integer" /\ Kind(q + 1) # "lparen" => res = List(<<imm>>, q + 1)
      /\ Kind(q) = "integer" /\ Kind(q + 1) = "lparen" /\ Kind(q + 2) = "register"
           => res = List(<<imm>>, Closed(q + 3))
      /\ Kind(q) = "register" => res = List(<<Operand("register", Val(q))>>, q + 1)
      /\ Kind(q) = "identifier" => res = List(<<Operand("label", Val(q))>>, q + 1)
  BY ParseOperandIs
<1>10. q = IF Kind(p) = "minus" THEN p + 1 ELSE p  OBVIOUS
<1>11. imm = Operand("immediate", IF q = p THEN Val(q) ELSE -Val(q))  OBVIOUS
<1> HIDE DEF t, b, e, s, a, q, imm, res
<1>12. CASE a.kind = "register" \/ a.kind = "label"
  <2>1. Len(t) = 1 /\ e = p /\ 1 \in 1 .. Len(t)
    <3>1. Len(t) = 1 /\ e = b + Len(t)  BY <1>2, <1>7, <1>12
    <3>. QED  BY <1>3, <3>1
  <2>2. /\ p \in 1 .. Len(tokens) /\ Kind(p) = IF a.kind = "register" THEN "register" ELSE "identifier"
        /\ Val(p) = a.val
    BY <1>4, <1>7, <1>12, <2>1, TokenFields
  <2>3. q = p  BY <1>10, <2>2
  <2>4. res = List(<<Operand(a.kind, a.val)>>, p + 1)  BY <1>9, <1>12, <2>2, <2>3
  <2>5. OperandOf(a) = Operand(a.kind, a.val)  BY <1>12 DEF OperandOf
  <2>6. a.kind # "label" => a.val \in Int
    <3>1. \A n \in Registers : n \in Int  BY DEF Registers
    <3>. QED  BY <1>8, <1>12, <3>1
  <2>. QED  BY <1>12, <2>1, <2>2, <2>4, <2>5, <2>6 DEF StartsArg, a, b, e, res
<1>13. CASE a.kind = "immediate" \/ a.kind = "memory"
  <2>0. a.val \in Int /\ OperandOf(a) = Operand("immediate", a.val)  BY <1>8, <1>13 DEF OperandOf
  <2>1. /\ a.val < 0 => t[1] = Token("minus", 0)
        /\ t[s + 1] = Token("integer", IF a.val < 0 THEN -a.val ELSE a.val)
        /\ Len(t) = s + (IF a.kind = "immediate" THEN 1 ELSE 4)
    BY <1>7, <1>13
  <2>2. s + 1 \in 1 .. Len(t) /\ (s = 1 => 1 \in 1 .. Len(t))  BY <1>6, <2>1
  <2>3. /\ b + (s + 1) \in 1 .. Len(tokens) /\ Kind(b + (s + 1)) = "integer"
        /\ Val(b + (s + 1)) = IF a.val < 0 THEN -a.val ELSE a.val
        /\ s = 1 => b + 1 \in 1 .. Len(tokens) /\ Kind(b + 1) = "minus" /\ Val(b + 1) = 0
    BY <1>4, <1>6, <2>1, <2>2, TokenFields
  <2>4. q = b + (s + 1) /\ imm = Operand("immediate", a.val)
    <3>1. CASE s = 0
      <4>1. b + (s + 1) = p  BY <1>3, <3>1
      <4>2. Kind(p) = "integer" /\ q = p /\ Val(q) = a.val  BY <1>6, <1>10, <2>3, <3>1, <4>1
      <4>. QED  BY <1>11, <4>1, <4>2
    <3>2. CASE s = 1
      <4>1. b + (s + 1) = p + 1 /\ p + 1 # p  BY <1>3, <3>2
      <4>2. Kind(p) = "minus" /\ q = p + 1 /\ Val(q) = -a.val  BY <1>6, <1>10, <2>3, <3>2, <4>1
      <4>3. -(-a.val) = a.val  BY <2>0
      <4>. QED  BY <1>11, <4>1, <4>2, <4>3
    <3>. QED  BY <1>6, <3>1, <3>2
  <2>5. /\ p \in 1 .. Len(tokens) /\ Kind(p) \in {"integer", "minus"}
        /\ Kind(p) = "integer" <=> a.val >= 0
        /\ Val(p) \in Int
    <3>1. CASE s = 0
      <4>1. b + (s + 1) = p  BY <1>3, <3>1
      <4>. QED  BY <1>6, <2>0, <2>3, <3>1, <4>1
    <3>2. CASE s = 1  BY <1>6, <2>0, <2>3, <3>2
    <3>. QED  BY <1>6, <3>1, <3>2
  <2>6. res = List(<<imm>>, e + 1)
    <3>1. CASE a.kind = "immediate"
      <4>1. e = q  BY <1>2, <2>1, <2>4, <3>1
      <4>2. Kind(q + 1) # "lparen"  BY <1>5, <4>1
      <4>. QED  BY <1>9, <2>3, <2>4, <4>1, <4>2
    <3>2. CASE a.kind = "memory"
      <4>1. Len(t) = s + 4 /\ t[s + 2] = Token("lparen", 0) /\ t[s + 3] = Token("register", a.base)
            /\ t[s + 4] = Token("rparen", 0)
        BY <1>7, <3>2
      <4>2. /\ s + 2 \in 1 .. Len(t) /\ s + 3 \in 1 .. Len(t) /\ s + 4 \in 1 .. Len(t)
            /\ b + (s + 2) = q + 1 /\ b + (s + 3) = q + 2 /\ b + (s + 4) = q + 3 /\ e + 1 = (q + 3) + 1
        <5>1. e = b + Len(t) /\ Len(t) = s + 4 /\ q = b + (s + 1)  BY <1>2, <2>4, <4>1
        <5>2. b \in Nat /\ s \in 0 .. 1  BY <1>3, <1>6
        <5>. QED  BY ONLY <5>1, <5>2
      <4>3. Kind(q + 1) = "lparen" /\ Kind(q + 2) = "register" /\ Kind(q + 3) = "rparen"
        <5>1. /\ Kind(b + (s + 2)) = t[s + 2].kind /\ Kind(b + (s + 3)) = t[s + 3].kind
              /\ Kind(b + (s + 4)) = t[s + 4].kind
          BY ONLY <1>4, <4>2
        <5>2. t[s + 2].kind = "lparen" /\ t[s + 3].kind = "register" /\ t[s + 4].kind = "rparen"
          BY ONLY <4>1, TokenFields
        <5>. QED  BY ONLY <4>2, <5>1, <5>2
      <4>4. Closed(q + 3) = e + 1  BY <4>2, <4>3 DEF Closed
      <4>. QED  BY <1>9, <2>3, <2>4, <4>3, <4>4
    <3>. QED  BY <1>13, <3>1, <3>2
  <2>. QED  BY <1>13, <2>0, <2>4, <2>5, <2>6 DEF StartsArg, a, b, e, res
<1>. QED  BY <1>8, <1>12, <1>13

-----------------------------------------------------------------------------
(* What the formats ask for. *)

Formats == {"R", "I", "S", "B", "U", "J", "call", ""}

Arity(f) ==
  CASE f \in {"R", "I", "S", "B"} -> 3 [] f \in {"U", "J"} -> 2 [] f = "call" -> 1 [] f = "" -> 0

LEMMA MnemonicFacts ==
  ASSUME NEW op \in DOMAIN Mnemonics
  PROVE  /\ Mnemonics[op].format \in Formats
         /\ Mnemonics[op].arity = Arity(Mnemonics[op].format)
         /\ op # "jmp" /\ FormatOf(op) = Mnemonics[op].format /\ op \in LexedMnemonics
         /\ (op = "call" <=> Mnemonics[op].format = "call")
<1>0. DOMAIN Mnemonics = {"add", "sub", "addi", "lw", "sw", "bne", "lui", "jal", "call", "nop"}
  BY DEF Mnemonics
<1>1. Mnemonics["add"].format = "R" /\ Mnemonics["add"].arity = 3  BY DEF Mnemonics
<1>2. Mnemonics["sub"].format = "R" /\ Mnemonics["sub"].arity = 3  BY DEF Mnemonics
<1>3. Mnemonics["addi"].format = "I" /\ Mnemonics["addi"].arity = 3  BY DEF Mnemonics
<1>4. Mnemonics["lw"].format = "I" /\ Mnemonics["lw"].arity = 3  BY DEF Mnemonics
<1>5. Mnemonics["sw"].format = "S" /\ Mnemonics["sw"].arity = 3  BY DEF Mnemonics
<1>6. Mnemonics["bne"].format = "B" /\ Mnemonics["bne"].arity = 3  BY DEF Mnemonics
<1>7. Mnemonics["lui"].format = "U" /\ Mnemonics["lui"].arity = 2  BY DEF Mnemonics
<1>8. Mnemonics["jal"].format = "J" /\ Mnemonics["jal"].arity = 2  BY DEF Mnemonics
<1>9. Mnemonics["call"].format = "call" /\ Mnemonics["call"].arity = 1  BY DEF Mnemonics
<1>10. Mnemonics["nop"].format = "" /\ Mnemonics["nop"].arity = 0  BY DEF Mnemonics
<1>11. op # "jmp" /\ op \in LexedMnemonics  BY <1>0 DEF LexedMnemonics
<1>12. FormatOf(op) = Mnemonics[op].format  BY <1>11 DEF FormatOf
<1>13. /\ Arity("R") = 3 /\ Arity("I") = 3 /\ Arity("S") = 3 /\ Arity("B") = 3
       /\ Arity("U") = 2 /\ Arity("J") = 2 /\ Arity("call") = 1 /\ Arity("") = 0
  BY DEF Arity
<1>14. CASE op \in {"add", "sub"}  BY <1>1, <1>2, <1>11, <1>12, <1>13, <1>14 DEF Formats
<1>15. CASE op \in {"addi", "lw"}  BY <1>3, <1>4, <1>11, <1>12, <1>13, <1>15 DEF Formats
<1>16. CASE op \in {"sw", "bne"}  BY <1>5, <1>6, <1>11, <1>12, <1>13, <1>16 DEF Formats
<1>17. CASE op \in {"lui", "jal"}  BY <1>7, <1>8, <1>11, <1>12, <1>13, <1>17 DEF Formats
<1>18. CASE op \in {"call", "nop"}  BY <1>9, <1>10, <1>11, <1>12, <1>13, <1>18 DEF Formats
<1>. QED  BY <1>0, <1>14, <1>15, <1>16, <1>17, <1>18

LEMMA LexedFormats ==
  ASSUME NEW op \in LexedMnemonics
  PROVE  /\ FormatOf(op) \in Formats /\ op # NoOp
         /\ op \in DOMAIN Mnemonics \/ (op = "jmp" /\ op \notin DOMAIN Mnemonics /\ FormatOf(op) = "call")
<1>1. op # NoOp  BY AssemblerAssumption
<1>2. CASE op \in DOMAIN Mnemonics  BY <1>1, <1>2, MnemonicFacts
<1>3. CASE op = "jmp"
  <2>1. FormatOf(op) = "call"  BY <1>3 DEF FormatOf
  <2>2. op \notin DOMAIN Mnemonics  BY <1>3, MnemonicFacts
  <2>. QED  BY <1>1, <1>3, <2>1, <2>2 DEF Formats
<1>. QED  BY <1>2, <1>3 DEF LexedMnemonics

LEMMA KindsOf3 ==
  ASSUME NEW s \in Seq(Args), NEW x, NEW y, NEW z, [n \in DOMAIN s |-> s[n].kind] = <<x, y, z>>
  PROVE  Len(s) = 3 /\ s[1].kind = x /\ s[2].kind = y /\ s[3].kind = z
<1> DEFINE f == [n \in DOMAIN s |-> s[n].kind]
<1>1. DOMAIN s = 1 .. Len(s) /\ Len(s) \in Nat  BY LenProperties
<1>2. DOMAIN f = DOMAIN s /\ \A n \in DOMAIN s : f[n] = s[n].kind  OBVIOUS
<1>3. DOMAIN <<x, y, z>> = 1 .. 3 /\ <<x, y, z>>[1] = x /\ <<x, y, z>>[2] = y /\ <<x, y, z>>[3] = z
  OBVIOUS
<1>4. f = <<x, y, z>>  OBVIOUS
<1> HIDE DEF f
<1>5. 1 .. Len(s) = 1 .. 3  BY <1>1, <1>2, <1>3, <1>4
<1>6. Len(s) = 3  BY ONLY <1>1, <1>5
<1>7. 1 \in DOMAIN s /\ 2 \in DOMAIN s /\ 3 \in DOMAIN s  BY <1>1, <1>6
<1>. QED  BY <1>2, <1>3, <1>4, <1>6, <1>7

LEMMA KindsOf2 ==
  ASSUME NEW s \in Seq(Args), NEW x, NEW y, [n \in DOMAIN s |-> s[n].kind] = <<x, y>>
  PROVE  Len(s) = 2 /\ s[1].kind = x /\ s[2].kind = y
<1> DEFINE f == [n \in DOMAIN s |-> s[n].kind]
<1>1. DOMAIN s = 1 .. Len(s) /\ Len(s) \in Nat  BY LenProperties
<1>2. DOMAIN f = DOMAIN s /\ \A n \in DOMAIN s : f[n] = s[n].kind  OBVIOUS
<1>3. DOMAIN <<x, y>> = 1 .. 2 /\ <<x, y>>[1] = x /\ <<x, y>>[2] = y  OBVIOUS
<1>4. f = <<x, y>>  OBVIOUS
<1> HIDE DEF f
<1>5. 1 .. Len(s) = 1 .. 2  BY <1>1, <1>2, <1>3, <1>4
<1>6. Len(s) = 2  BY ONLY <1>1, <1>5
<1>7. 1 \in DOMAIN s /\ 2 \in DOMAIN s  BY <1>1, <1>6
<1>. QED  BY <1>2, <1>3, <1>4, <1>6, <1>7

LEMMA KindsOf1 ==
  ASSUME NEW s \in Seq(Args), NEW x, [n \in DOMAIN s |-> s[n].kind] = <<x>>
  PROVE  Len(s) = 1 /\ s[1].kind = x
<1> DEFINE f == [n \in DOMAIN s |-> s[n].kind]
<1>1. DOMAIN s = 1 .. Len(s) /\ Len(s) \in Nat  BY LenProperties
<1>2. DOMAIN f = DOMAIN s /\ \A n \in DOMAIN s : f[n] = s[n].kind  OBVIOUS
<1>3. DOMAIN <<x>> = 1 .. 1 /\ <<x>>[1] = x  OBVIOUS
<1>4. f = <<x>>  OBVIOUS
<1> HIDE DEF f
<1>5. 1 .. Len(s) = 1 .. 1  BY <1>1, <1>2, <1>3, <1>4
<1>6. Len(s) = 1  BY ONLY <1>1, <1>5
<1>7. 1 \in DOMAIN s  BY <1>1, <1>6
<1>. QED  BY <1>2, <1>3, <1>4, <1>6, <1>7

LEMMA KindsOf0 ==
  ASSUME NEW s \in Seq(Args), [n \in DOMAIN s |-> s[n].kind] = <<>>
  PROVE  Len(s) = 0 /\ s = <<>>
<1> DEFINE f == [n \in DOMAIN s |-> s[n].kind]
<1>1. DOMAIN s = 1 .. Len(s) /\ Len(s) \in Nat  BY LenProperties
<1>2. DOMAIN f = DOMAIN s  OBVIOUS
<1>3. DOMAIN <<>> = {}  OBVIOUS
<1>4. f = <<>>  OBVIOUS
<1> HIDE DEF f
<1>5. 1 .. Len(s) = {}  BY <1>1, <1>2, <1>3, <1>4
<1>6. Len(s) = 0  BY ONLY <1>1, <1>5
<1>. QED  BY <1>6, EmptySeq

\* The operands of an instruction, by its format.
Operates(f, args) ==
  LET n == Len(args)
      K(i) == args[i].kind
      three == n = 3 /\ K(1) = "register" /\ K(2) = "register"
      two == n = 2 /\ K(1) = "register"
  IN  /\ f = "R" => three /\ K(3) = "register"
      /\ f = "I" => (three /\ K(3) = "immediate") \/ (two /\ K(2) = "memory")
      /\ f = "S" => two /\ K(2) = "memory"
      /\ f = "B" => three /\ K(3) \in {"immediate", "label"}
      /\ f = "U" => two /\ K(2) = "immediate"
      /\ f = "J" => two /\ K(2) \in {"immediate", "label"}
      /\ f = "call" => n = 1 /\ K(1) = "label"
      /\ f = "" => n = 0 /\ args = <<>>

LEMMA LegalOperates ==
  ASSUME NEW lines \in Sources, NEW k \in 1 .. Len(lines), lines[k].op \in LexedMnemonics
  PROVE  /\ Operates(FormatOf(lines[k].op), lines[k].args) /\ FormatOf(lines[k].op) \in Formats
         /\ \A n \in 1 .. Len(lines[k].args) :
              lines[k].args[n].kind = "immediate" =>
                Fits(FormatOf(lines[k].op), lines[k].args[n].val, AddressIn(lines, k))
<1> DEFINE s == lines[k].args
           f == FormatOf(lines[k].op)
           kinds == [n \in DOMAIN s |-> s[n].kind]
<1>1. lines[k] \in Lines /\ Legal(lines, k)  BY SourceLines
<1>2. s \in Seq(Args) /\ DOMAIN s = 1 .. Len(s)  BY <1>1, LineFields
<1>3. kinds \in Shapes(f)  BY <1>1 DEF Legal
<1>4. f \in Formats  BY LexedFormats
<1>5. \A n \in DOMAIN s : s[n].kind = "immediate" => Fits(f, s[n].val, AddressIn(lines, k))
  BY <1>1 DEF Legal
<1>6. kinds = [n \in DOMAIN s |-> s[n].kind]  OBVIOUS
<1> HIDE DEF s, f, kinds
<1>7. /\ f = "R" => kinds = <<"register", "register", "register">>
      /\ f = "I" => kinds = <<"register", "register", "immediate">> \/ kinds = <<"register", "memory">>
      /\ f = "S" => kinds = <<"register", "memory">>
      /\ f = "B" => kinds = <<"register", "register", "immediate">>
                      \/ kinds = <<"register", "register", "label">>
      /\ f = "U" => kinds = <<"register", "immediate">>
      /\ f = "J" => kinds = <<"register", "immediate">> \/ kinds = <<"register", "label">>
      /\ f = "call" => kinds = <<"label">>
      /\ f = "" => kinds = <<>>
  BY <1>3 DEF Shapes
<1>8. /\ \A x, y, z : kinds = <<x, y, z>> =>
           Len(s) = 3 /\ s[1].kind = x /\ s[2].kind = y /\ s[3].kind = z
      /\ \A x, y : kinds = <<x, y>> => Len(s) = 2 /\ s[1].kind = x /\ s[2].kind = y
      /\ \A x : kinds = <<x>> => Len(s) = 1 /\ s[1].kind = x
      /\ kinds = <<>> => Len(s) = 0 /\ s = <<>>
  BY <1>2, <1>6, KindsOf3, KindsOf2, KindsOf1, KindsOf0
<1>9. Operates(f, s)
  <2>1. CASE f = "R"  BY <2>1, <1>7, <1>8 DEF Operates
  <2>2. CASE f = "I"  BY <2>2, <1>7, <1>8 DEF Operates
  <2>3. CASE f = "S"  BY <2>3, <1>7, <1>8 DEF Operates
  <2>4. CASE f = "B"  BY <2>4, <1>7, <1>8 DEF Operates
  <2>5. CASE f = "U"  BY <2>5, <1>7, <1>8 DEF Operates
  <2>6. CASE f = "J"  BY <2>6, <1>7, <1>8 DEF Operates
  <2>7. CASE f = "call"  BY <2>7, <1>7, <1>8 DEF Operates
  <2>8. CASE f = ""  BY <2>8, <1>7, <1>8 DEF Operates
  <2>. QED  BY <1>4, <2>1, <2>2, <2>3, <2>4, <2>5, <2>6, <2>7, <2>8 DEF Formats
<1>. QED  BY <1>2, <1>4, <1>5, <1>9 DEF s, f

-----------------------------------------------------------------------------
(* The order of the places; names that are not taken. *)

\* Within a line the label comes before the operation.
LEMMA PlacesInOrder ==
  ASSUME NEW lines \in Sources, NEW k \in 1 .. Len(lines)
  PROVE  /\ LineEnd(lines, k - 1) \in Nat /\ LineEnd(lines, k) \in Nat
         /\ OpAt(lines, k) \in Nat /\ OpAt(lines, k) < LineEnd(lines, k)
         /\ LabelAt(lines, k) = LineEnd(lines, k - 1) + 1
         /\ lines[k].op # NoOp => LineEnd(lines, k - 1) < OpAt(lines, k)
         /\ lines[k].label # NoLabel => LabelAt(lines, k) <= OpAt(lines, k)
         /\ lines[k].label # NoLabel /\ lines[k].op # NoOp => LabelAt(lines, k) < OpAt(lines, k)
         /\ LineEnd(lines, k) < Len(Lexed(lines))
<1> DEFINE line == lines[k]
           n == Len(line.args)
           b == LineEnd(lines, k - 1)
           e == OpEnd(line)
<1>1. /\ b \in Nat /\ LineEnd(lines, k) \in Nat /\ n \in Nat
      /\ OpAt(lines, k) = b + e /\ e \in 0 .. 2
      /\ ArgEnd(lines, k, 0) = OpAt(lines, k)
      /\ LineEnd(lines, k) = ArgEnd(lines, k, n) + 1 /\ LineEnd(lines, k) < Len(Lexed(lines))
  BY LinesArePlaced DEF LinePlaced
<1>2. e = (IF line.label = NoLabel THEN 0 ELSE 1) + (IF line.op = NoOp THEN 0 ELSE 1)
  BY DEF OpEnd, LabelLen
<1>3. OpAt(lines, k) <= ArgEnd(lines, k, n) /\ ArgEnd(lines, k, n) \in Nat
  <2>1. CASE n = 0  BY <1>1, <2>1
  <2>2. CASE n # 0
    <3>1. n \in 1 .. n  BY <1>1, <2>2
    <3>2. ArgPlaced(lines, k, n)  BY <3>1, LinesArePlaced
    <3>3. /\ ArgEnd(lines, k, n - 1) \in Nat /\ ArgEnd(lines, k, n) \in Nat
          /\ ArgAt(lines, k, n) = ArgEnd(lines, k, n - 1) + Comma(n)
          /\ ArgEnd(lines, k, n) = ArgAt(lines, k, n) + Len(ArgTokens(line.args[n]))
          /\ Len(ArgTokens(line.args[n])) \in Nat
          /\ OpAt(lines, k) <= ArgEnd(lines, k, n - 1)
      BY <3>2 DEF ArgPlaced
    <3>4. Comma(n) \in 0 .. 1  BY DEF Comma
    <3>5. OpAt(lines, k) \in Nat  BY <1>1
    <3>. QED  BY ONLY <3>3, <3>4, <3>5
  <2>. QED  BY <2>1, <2>2
<1>4. LabelAt(lines, k) = b + 1  BY DEF LabelAt
<1> HIDE DEF line, n, b, e
<1>5. OpAt(lines, k) < LineEnd(lines, k) /\ OpAt(lines, k) \in Nat  BY <1>1, <1>3
<1>. QED  BY <1>1, <1>2, <1>4, <1>5 DEF line, b

LEMMA LinesApart ==
  ASSUME NEW lines \in Sources, NEW k \in 1 .. Len(lines), NEW i \in 1 .. Len(lines), i < k
  PROVE  LineEnd(lines, i) <= LineEnd(lines, k - 1)
<1>1. Len(lines) \in Nat  BY SourceLines
<1>2. i \in 0 .. Len(lines) /\ k - 1 \in 0 .. Len(lines) /\ i <= k - 1  BY <1>1
<1>. QED  BY <1>2, LinesInOrder

\* A label behind an operation is on a later line.
LEMMA LabelBehind ==
  ASSUME NEW lines \in Sources, NEW k \in 1 .. Len(lines), NEW i \in 1 .. Len(lines),
         lines[i].label # NoLabel, LabelAt(lines, i) > OpAt(lines, k)
  PROVE  i > k
<1>1. Len(lines) \in Nat /\ i \in Nat /\ k \in Nat  BY SourceLines
<1>2. CASE i = k
  <2>1. LabelAt(lines, k) <= OpAt(lines, k)  BY <1>2, PlacesInOrder
  <2>2. LabelAt(lines, k) \in Nat /\ OpAt(lines, k) \in Nat  BY PlacesInOrder
  <2>. QED  BY <1>2, <2>1, <2>2
<1>3. CASE i < k
  <2>1. LineEnd(lines, i) <= LineEnd(lines, k - 1)  BY <1>3, LinesApart
  <2>2. LabelAt(lines, i) <= OpAt(lines, i) /\ OpAt(lines, i) < LineEnd(lines, i)
    BY PlacesInOrder
  <2>3. LineEnd(lines, k - 1) <= OpAt(lines, k)  BY LinesArePlaced DEF LinePlaced
  <2>4. /\ LabelAt(lines, i) \in Nat /\ OpAt(lines, i) \in Nat /\ LineEnd(lines, i) \in Nat
        /\ OpAt(lines, k) \in Nat /\ LineEnd(lines, k - 1) \in Nat
    BY PlacesInOrder
  <2>. QED  BY <2>1, <2>2, <2>3, <2>4
<1>. QED  BY <1>1, <1>2, <1>3

\* What Taken says, of a list of lines.
NoneBetween(lines, k, i) ==
  \A n \in k + 1 .. i - 1 : lines[n].op \notin LexedMnemonics /\ lines[n].args = <<>>

\* Taken, with the source as a parameter.
TakenIn(lines, i) ==
  \E k \in 1 .. i - 1 :
    /\ lines[k].op \in LexedMnemonics /\ (lines[k].args = <<>> \/ lines[k].args[1].kind = "label")
    /\ NoneBetween(lines, k, i)

LEMMA TakenIs == ASSUME NEW i PROVE Taken(i) <=> TakenIn(source, i)
BY DEF Taken, TakenIn, TakesLabels, Separates, NoneBetween

\* A label is taken when at most one token that is not the end of a line stands before it.
LEMMA TakenBetween ==
  ASSUME Given, NEW k \in 1 .. Len(source), NEW i \in 1 .. Len(source), NEW q \in Nat,
         source[k].op \in LexedMnemonics, source[k].args = <<>> \/ source[k].args[1].kind = "label",
         source[i].label # NoLabel, OpAt(source, k) < LabelAt(source, i),
         Kind(q) # "mnemonic",
         \A s \in OpAt(source, k) + 1 .. LabelAt(source, i) - 1 : s = q \/ Kind(s) = "newline"
  PROVE  TakenIn(source, i) /\ k < i /\ NoneBetween(source, k, i)
<1>0. source \in Sources /\ tokens = Lexed(source)  BY DEF Given
<1>1. k < i  BY <1>0, LabelBehind
<1>2. Len(source) \in Nat /\ k \in 1 .. i - 1  BY <1>0, <1>1, SourceLines
<1>3. ASSUME NEW n \in k + 1 .. i - 1
      PROVE  source[n].op \notin LexedMnemonics /\ source[n].args = <<>>
  <2>1. n \in 1 .. Len(source) /\ k < n /\ n < i  BY <1>2
  <2>2. LinePlaced(source, n)  BY <1>0, <2>1, LinesArePlaced
  <2>3. /\ OpAt(source, n) \in Nat /\ OpAt(source, n) < LineEnd(source, n) /\ LineEnd(source, n) \in Nat
        /\ source[n].op # NoOp => LineEnd(source, n - 1) < OpAt(source, n)
        /\ LineEnd(source, n - 1) \in Nat
        /\ LineEnd(source, n) < Len(tokens)
    BY <1>0, <2>1, PlacesInOrder
  <2>4. LineEnd(source, n) <= LineEnd(source, i - 1) /\ LineEnd(source, k) <= LineEnd(source, n - 1)
    BY <1>0, <2>1, LinesApart
  <2>5. /\ OpAt(source, k) < LineEnd(source, k) /\ OpAt(source, k) \in Nat /\ LineEnd(source, k) \in Nat
        /\ LabelAt(source, i) = LineEnd(source, i - 1) + 1 /\ LineEnd(source, i - 1) \in Nat
    BY <1>0, PlacesInOrder
  <2>6. Len(tokens) \in Nat  BY KindIs
  <2>7. ASSUME source[n].op # NoOp
        PROVE  /\ OpAt(source, n) \in OpAt(source, k) + 1 .. LabelAt(source, i) - 1
               /\ OpAt(source, n) \in 1 .. Len(tokens)
               /\ Kind(OpAt(source, n)) = IF source[n].op \in LexedMnemonics THEN "mnemonic" ELSE "identifier"
    <3>1. OpAt(source, n) \in OpAt(source, k) + 1 .. LabelAt(source, i) - 1
      BY <2>3, <2>4, <2>5, <2>7
    <3>2. OpAt(source, n) \in 1 .. Len(tokens)  BY <2>3, <2>6, <2>7
    <3>3. Kind(OpAt(source, n)) = OpToken(source[n]).kind
      BY <1>0, <2>2, <2>7, <3>2, KindIs DEF LinePlaced
    <3>4. OpToken(source[n]).kind = IF source[n].op \in LexedMnemonics THEN "mnemonic" ELSE "identifier"
      BY TokenFields DEF OpToken
    <3>. QED  BY <3>1, <3>2, <3>3, <3>4
  <2>8. source[n].op \notin LexedMnemonics
    <3> SUFFICES ASSUME source[n].op \in LexedMnemonics PROVE FALSE  OBVIOUS
    <3>1. source[n].op # NoOp  BY AssemblerAssumption
    <3>. QED  BY <2>7, <3>1
  <2>9. source[n].args = <<>>
    <3> SUFFICES ASSUME source[n].args # <<>> PROVE FALSE  OBVIOUS
    <3>1. source[n] \in Lines /\ Legal(source, n)  BY <1>0, <2>1, SourceLines
    <3>2. source[n].op # NoOp  BY <3>1 DEF Legal
    <3>3. OpAt(source, n) = q  BY <2>7, <2>8, <3>2
    <3>4. 1 \in 1 .. Len(source[n].args)
      <4>1. source[n].args \in Seq(Args) /\ Len(source[n].args) \in Nat  BY <3>1, LineFields
      <4>2. Len(source[n].args) # 0  BY <4>1, EmptySeq
      <4>. QED  BY <4>1, <4>2
    <3>5. ArgPlaced(source, n, 1)  BY <1>0, <2>1, <3>4, LinesArePlaced
    <3>6. ArgEnd(source, n, 0) = OpAt(source, n)  BY <2>2 DEF LinePlaced
    <3>7. /\ ArgAt(source, n, 1) + 1 \in 1 .. Len(tokens) /\ Kind(ArgAt(source, n, 1) + 1) \in StartsArg
          /\ ParseOperand(ArgAt(source, n, 1) + 1)
               = List(<<OperandOf(source[n].args[1])>>, ArgEnd(source, n, 1) + 1)
      BY <2>1, <3>4, ArgParsed
    <3>8. ArgAt(source, n, 1) = OpAt(source, n)
      <4>1. ArgAt(source, n, 1) = ArgEnd(source, n, 1 - 1) + Comma(1)  BY <3>5 DEF ArgPlaced
      <4>2. Comma(1) = 0 /\ 1 - 1 = 0  BY DEF Comma
      <4>. QED  BY <2>3, <3>6, <4>1, <4>2
    <3>9. q + 1 \in OpAt(source, k) + 1 .. LabelAt(source, i) - 1 /\ q + 1 # q
      <4>1. q + 1 <= LineEnd(source, n)  BY <2>3, <3>3
      <4>. QED  BY <2>3, <2>4, <2>5, <2>7, <3>2, <3>3, <4>1
    <3>10. Kind(q + 1) = "newline"  BY <3>9
    <3>. QED  BY <3>3, <3>7, <3>8, <3>10 DEF StartsArg
  <2>. QED  BY <2>8, <2>9
<1>. QED  BY <1>1, <1>2, <1>3 DEF TakenIn, NoneBetween

-----------------------------------------------------------------------------
(* The first operand: lost when the parser looks for it on the next lines. *)

\* A line that has operands has an operation, and the operands stand behind it.
LEMMA OperandsBehind ==
  ASSUME Given, NEW k \in 1 .. Len(source), NEW r \in 1 .. Len(source[k].args)
  PROVE  /\ source[k].op # NoOp /\ OpAt(source, k) <= ArgEnd(source, k, r - 1)
         /\ ArgEnd(source, k, r - 1) \in Nat /\ OpAt(source, k) \in 1 .. Len(tokens)
         /\ Kind(OpAt(source, k)) \in {"mnemonic", "identifier"}
         /\ Val(OpAt(source, k)) = source[k].op
         /\ Kind(OpAt(source, k)) = "mnemonic" <=> source[k].op \in LexedMnemonics
<1>0. source \in Sources /\ tokens = Lexed(source)  BY DEF Given
<1>1. source[k] \in Lines /\ Legal(source, k)  BY <1>0, SourceLines
<1>2. source[k].op # NoOp
  <2>1. Len(source[k].args) \in Nat  BY <1>1, LineFields
  <2>2. Len(<<>>) = 0  BY EmptySeq
  <2>3. source[k].args # <<>>  BY <2>1, <2>2
  <2>. QED  BY <1>1, <2>3 DEF Legal
<1>3. OpAt(source, k) <= ArgEnd(source, k, r - 1) /\ ArgEnd(source, k, r - 1) \in Nat
  <2>1. ArgPlaced(source, k, r)  BY <1>0, LinesArePlaced
  <2>. QED  BY <2>1 DEF ArgPlaced
<1>4. OpAt(source, k) \in 1 .. Len(tokens)
  <2>1. /\ OpAt(source, k) \in Nat /\ OpAt(source, k) < LineEnd(source, k) /\ LineEnd(source, k) \in Nat
        /\ LineEnd(source, k - 1) < OpAt(source, k) /\ LineEnd(source, k - 1) \in Nat
        /\ LineEnd(source, k) < Len(tokens)
    BY <1>0, <1>2, PlacesInOrder
  <2>2. Len(tokens) \in Nat  BY KindIs
  <2>. QED  BY ONLY <2>1, <2>2
<1>5. tokens[OpAt(source, k)] = OpToken(source[k])
  <2>1. LinePlaced(source, k)  BY <1>0, LinesArePlaced
  <2>. QED  BY <1>0, <1>2, <2>1 DEF LinePlaced
<1>6. Kind(OpAt(source, k)) = OpToken(source[k]).kind /\ Val(OpAt(source, k)) = OpToken(source[k]).val
  BY <1>4, <1>5, KindIs DEF Val
<1>7. /\ OpToken(source[k]).kind = IF source[k].op \in LexedMnemonics THEN "mnemonic" ELSE "identifier"
      /\ OpToken(source[k]).val = source[k].op
  BY TokenFields DEF OpToken
<1>. QED  BY <1>2, <1>3, <1>4, <1>6, <1>7

\* The first token of a line is its label or its operation.
LEMMA FirstOfLine ==
  ASSUME Given, NEW k \in 1 .. Len(source), NEW s \in 1 .. Len(tokens), LineEnd(source, k) < s,
         Kind(s) # "newline", \A j \in LineEnd(source, k) .. s - 1 : Kind(j) = "newline"
  PROVE  /\ Kind(s) \in {"label", "identifier", "mnemonic", "eof"}
         /\ Kind(s) = "identifier" => Val(s) \in Ops
<1>0. source \in Sources /\ tokens = Lexed(source)  BY DEF Given
<1> DEFINE z == LineEnd(source, Len(source))
<1>1. Len(tokens) = z + 1 /\ z \in Nat  BY <1>0, LexedType
<1>2. CASE s = Len(tokens)
  <2>1. Kind(s) = "eof"  BY <1>2, KindIs
  <2>. QED  BY <2>1
<1>3. CASE s # Len(tokens)
  <2>1. s \in 1 .. z  BY <1>1, <1>3
  <2>2. PICK i \in 1 .. Len(source) : PlaceOf(source, i, s)  BY <1>0, <2>1, TokenIsIn
  <2> DEFINE line == source[i]
  <2>3. LineEnd(source, i - 1) < s /\ s <= LineEnd(source, i)  BY <2>2 DEF PlaceOf
  <2>4. LinePlaced(source, i) /\ Kind(s) = tokens[s].kind  BY <1>0, LinesArePlaced, KindIs
  <2>5. k < i
    <3> SUFFICES ASSUME ~(k < i) PROVE FALSE  OBVIOUS
    <3>1. Len(source) \in Nat  BY <1>0, SourceLines
    <3>2. i \in 0 .. Len(source) /\ k \in 0 .. Len(source) /\ i <= k  BY <3>1
    <3>3. LineEnd(source, i) <= LineEnd(source, k) /\ LineEnd(source, i) \in Nat /\ LineEnd(source, k) \in Nat
      BY <1>0, <3>2, LinesInOrder
    <3>4. s \in Nat  BY <1>1
    <3>. QED  BY <2>3, <3>3, <3>4
  <2>6. CASE s = LabelAt(source, i) /\ line.label # NoLabel
    <3>1. Kind(s) = "label"  BY <1>0, <2>4, <2>6, TokenFields DEF LinePlaced
    <3>. QED  BY <3>1
  <2>7. CASE s = OpAt(source, i) /\ line.op # NoOp
    <3>1. tokens[s] = OpToken(line)  BY <1>0, <2>4, <2>7 DEF LinePlaced
    <3>2. /\ Kind(s) = IF line.op \in LexedMnemonics THEN "mnemonic" ELSE "identifier"
          /\ Val(s) = line.op
      BY <2>4, <3>1, TokenFields DEF OpToken, Val
    <3>3. line \in Lines  BY <1>0, SourceLines
    <3>4. line.op \in Ops  BY <2>7, <3>3, LineFields
    <3>. QED  BY <3>2, <3>4
  <2>8. ASSUME NEW r \in 1 .. Len(line.args), ArgEnd(source, i, r - 1) < s PROVE FALSE
    <3>1. /\ OpAt(source, i) <= ArgEnd(source, i, r - 1) /\ ArgEnd(source, i, r - 1) \in Nat
          /\ Kind(OpAt(source, i)) \in {"mnemonic", "identifier"} /\ line.op # NoOp
      BY OperandsBehind
    <3>2. /\ LineEnd(source, i - 1) < OpAt(source, i) /\ LineEnd(source, i - 1) \in Nat
          /\ OpAt(source, i) \in Nat
      BY <1>0, <3>1, PlacesInOrder
    <3>3. LineEnd(source, k) <= LineEnd(source, i - 1)  BY <1>0, <2>5, LinesApart
    <3>4. LineEnd(source, k) \in Nat /\ s \in Nat  BY <1>0, <1>1, PlacesInOrder
    <3>5. OpAt(source, i) \in LineEnd(source, k) .. s - 1  BY ONLY <2>8, <3>1, <3>2, <3>3, <3>4
    <3>. QED  BY <3>1, <3>5
  <2>9. CASE \E r \in 1 .. Len(line.args) : r # 1 /\ s = ArgEnd(source, i, r - 1) + 1
    <3>1. PICK r \in 1 .. Len(line.args) : s = ArgEnd(source, i, r - 1) + 1  BY <2>9
    <3>2. ArgEnd(source, i, r - 1) \in Nat  BY OperandsBehind
    <3>3. ArgEnd(source, i, r - 1) < s  BY <3>1, <3>2
    <3>. QED  BY <2>8, <3>3
  <2>10. CASE \E r \in 1 .. Len(line.args) : \E m \in 1 .. Len(ArgTokens(line.args[r])) :
                s = ArgAt(source, i, r) + m
    <3>1. PICK r \in 1 .. Len(line.args) : \E m \in 1 .. Len(ArgTokens(line.args[r])) :
                s = ArgAt(source, i, r) + m
      BY <2>10
    <3>2. PICK m \in 1 .. Len(ArgTokens(line.args[r])) : s = ArgAt(source, i, r) + m  BY <3>1
    <3>3. ArgEnd(source, i, r - 1) \in Nat /\ Comma(r) \in 0 .. 1  BY OperandsBehind DEF Comma
    <3>4. ArgAt(source, i, r) = ArgEnd(source, i, r - 1) + Comma(r)  BY DEF ArgAt
    <3>5. m \in Nat \ {0}
      <4>1. ArgPlaced(source, i, r)  BY <1>0, LinesArePlaced
      <4>2. Len(ArgTokens(line.args[r])) \in Nat  BY <4>1 DEF ArgPlaced
      <4>. QED  BY <4>2
    <3>6. ArgEnd(source, i, r - 1) < s  BY ONLY <3>2, <3>3, <3>4, <3>5
    <3>. QED  BY <2>8, <3>6
  <2>11. CASE s = LineEnd(source, i)
    <3>1. Kind(s) = "newline"  BY <1>0, <2>4, <2>11, TokenFields DEF LinePlaced
    <3>. QED  BY <3>1
  <2>. QED  BY <2>2, <2>6, <2>7, <2>9, <2>10, <2>11 DEF PlaceOf
<1>. QED  BY <1>2, <1>3

\* Nothing that the parser steps over from p on is a mnemonic, and no label is
\* but what an instruction before it takes.
Crossed(p, next) ==
  /\ next \in p .. Len(tokens)
  /\ \A s \in p .. next - 1 :
       /\ Kind(s) \notin {"mnemonic", "eof"}
       /\ Kind(s) = "label" =>
            \E i \in 1 .. Len(source) :
              s = LabelAt(source, i) /\ source[i].label # NoLabel /\ TakenIn(source, i)

\* No label of the source, or one of a line behind line k with nothing between that ends
\* the search.
CallsElsewhere(lines, k, l) ==
  \/ l \in Ops
  \/ \E i \in 1 .. Len(lines) : k < i /\ lines[i].label = l /\ NoneBetween(lines, k, i)

LEMMA MnemonicAt ==
  ASSUME Given, NEW k \in 1 .. Len(source), source[k].op \in LexedMnemonics
  PROVE  LET p == OpAt(source, k)
         IN  /\ p \in 1 .. Len(tokens) /\ p + 1 \in 1 .. Len(tokens) /\ p \in Nat
             /\ Kind(p) = "mnemonic" /\ Val(p) = source[k].op
<1>0. source \in Sources /\ tokens = Lexed(source)  BY DEF Given
<1> DEFINE p == OpAt(source, k)
<1>1. source[k].op # NoOp  BY AssemblerAssumption
<1>2. /\ p \in Nat /\ p < LineEnd(source, k) /\ LineEnd(source, k) \in Nat
      /\ LineEnd(source, k - 1) < p /\ LineEnd(source, k - 1) \in Nat
      /\ LineEnd(source, k) < Len(tokens)
  BY <1>0, <1>1, PlacesInOrder
<1>3. Len(tokens) \in Nat  BY KindIs
<1>4. tokens[p] = OpToken(source[k])
  <2>1. LinePlaced(source, k)  BY <1>0, LinesArePlaced
  <2>. QED  BY <1>0, <1>1, <2>1 DEF LinePlaced
<1> HIDE DEF p
<1>5. p \in 1 .. Len(tokens) /\ p + 1 \in 1 .. Len(tokens)  BY ONLY <1>2, <1>3
<1>6. Kind(p) = "mnemonic" /\ Val(p) = source[k].op
  <2>1. Kind(p) = OpToken(source[k]).kind  BY <1>4, <1>5, KindIs
  <2>2. OpToken(source[k]).kind = "mnemonic" /\ OpToken(source[k]).val = source[k].op
    BY TokenFields DEF OpToken
  <2>. QED  BY <1>4, <2>1, <2>2 DEF Val
<1>. QED  BY <1>2, <1>5, <1>6 DEF p

\* Behind an instruction without operands, or with a label first, the parser
\* takes up to two labels or names, or none, and goes on behind them.
LEMMA FirstIsLost ==
  ASSUME Given, NEW k \in 1 .. Len(source), source[k].op \in LexedMnemonics,
         source[k].args = <<>> \/ source[k].args[1].kind = "label"
  PROVE  LET p == OpAt(source, k)
             q == SkipNewlines(p + 1)
             r == FirstOperand(q)
         IN  /\ ~IsMemory(q) /\ Crossed(p + 1, r.next)
             /\ r.ops = <<>> \/ \E o \in Operands : r.ops = <<o>>
             /\ source[k].op = "call" /\ r.ops # <<>> /\ r.ops[1].kind = "label"
                  => CallsElsewhere(source, k, r.ops[1].val)
<1>0. source \in Sources /\ tokens = Lexed(source)  BY DEF Given
<1> DEFINE p == OpAt(source, k)
           q == SkipNewlines(p + 1)
           r == FirstOperand(q)
           n == Len(tokens)
           args == source[k].args
<1>1. p \in 1 .. n /\ p + 1 \in 1 .. n /\ p \in Nat  BY MnemonicAt
<1>2. n \in Nat  BY KindIs
<1>3. q \in p + 1 .. n /\ Kind(q) # "newline" /\ \A j \in p + 1 .. q - 1 : Kind(j) = "newline"
  BY <1>1, Skipped
<1>4. Operates(FormatOf(source[k].op), args) /\ FormatOf(source[k].op) \in Formats
  BY <1>0, LegalOperates
<1>5. /\ ArgEnd(source, k, 0) = p /\ LineEnd(source, k) = ArgEnd(source, k, Len(args)) + 1
      /\ LineEnd(source, k) \in Nat
  <2>1. LinePlaced(source, k)  BY <1>0, LinesArePlaced
  <2>. QED  BY <2>1 DEF LinePlaced
\* Either line k has no more tokens, or its label is what comes first.
<1>6. \/ args = <<>> /\ LineEnd(source, k) = p + 1 /\ source[k].op # "call"
      \/ args # <<>> /\ q = p + 1 /\ Kind(q) = "identifier" /\ LineEnd(source, k) = p + 2
  <2>1. CASE args = <<>>
    <3>1. Len(args) = 0  BY <2>1, EmptySeq
    <3>2. source[k].op # "call"
      <4>1. Operates("call", args) => Len(args) = 1  BY DEF Operates
      <4>2. "call" \in DOMAIN Mnemonics /\ Mnemonics["call"].format = "call"  BY DEF Mnemonics
      <4>3. FormatOf("call") = "call"  BY <4>2, MnemonicFacts
      <4>. QED  BY <1>4, <3>1, <4>1, <4>3
    <3>. QED  BY <1>5, <2>1, <3>1, <3>2
  <2>2. CASE args # <<>>
    <3>1. Len(args) = 1 /\ args[1].kind = "label"
      <4>1. args[1].kind = "label"  BY <2>2
      <4>2. args[1].kind # "register"  BY <4>1
      <4>. QED  BY <1>4, <2>2, <4>1, <4>2 DEF Operates, Formats
    <3>2. 1 \in 1 .. Len(args)  BY <3>1
    <3>3. /\ Kind(ArgAt(source, k, 1) + 1) = "identifier" /\ ArgAt(source, k, 1) + 1 \in 1 .. n
      BY <3>1, <3>2, ArgParsed
    <3>4. ArgAt(source, k, 1) = p
      <4>1. ArgAt(source, k, 1) = ArgEnd(source, k, 1 - 1) + Comma(1)  BY DEF ArgAt
      <4>2. Comma(1) = 0 /\ 1 - 1 = 0  BY DEF Comma
      <4>. QED  BY <1>1, <1>5, <4>1, <4>2
    <3>5. q = p + 1  BY <1>1, <3>3, <3>4, NothingSkipped
    <3>6. ArgEnd(source, k, 1) = p + 1
      <4>1. ArgPlaced(source, k, 1)  BY <1>0, <3>2, LinesArePlaced
      <4>2. /\ ArgEnd(source, k, 1) = ArgAt(source, k, 1) + Len(ArgTokens(args[1]))
            /\ ArgShape(args[1])
        BY <4>1 DEF ArgPlaced
      <4>3. Len(ArgTokens(args[1])) = 1  BY <3>1, <4>2 DEF ArgShape
      <4>. QED  BY <3>4, <4>2, <4>3
    <3>7. LineEnd(source, k) = (p + 1) + 1  BY <1>5, <3>1, <3>6
    <3>8. (p + 1) + 1 = p + 2  BY <1>1
    <3>. QED  BY <2>2, <3>3, <3>4, <3>5, <3>7, <3>8
  <2>. QED  BY <2>1, <2>2
<1> HIDE DEF p, q, r, n, args
<1>7. Kind(q) \in {"label", "identifier", "mnemonic", "eof"} /\ (args = <<>> => q > p + 1)
  <2>1. CASE args = <<>>
    <3>1. LineEnd(source, k) = p + 1  BY <1>6, <2>1
    <3>2. Kind(p + 1) = "newline"
      <4>1. tokens[LineEnd(source, k)] = Token("newline", 0)
        <5>1. LinePlaced(source, k)  BY <1>0, LinesArePlaced
        <5>. QED  BY <1>0, <5>1 DEF LinePlaced
      <4>2. p + 1 \in 1 .. Len(tokens)  BY <1>1 DEF n
      <4>. QED  BY <3>1, <4>1, <4>2, KindIs, TokenFields
    <3>3. q > p + 1 /\ q \in 1 .. n  BY <1>1, <1>2, <1>3, <3>2
    <3>. QED  BY <1>3, <3>1, <3>3, FirstOfLine DEF n
  <2>2. CASE args # <<>>  BY <1>6, <2>2
  <2>. QED  BY <2>1, <2>2
<1>8. ~IsMemory(q)  BY <1>7 DEF IsMemory
<1>9. ASSUME NEW s \in Nat, NEW w \in Nat, p < s, s <= n, Kind(s) = "label", Kind(w) # "mnemonic",
             \A j \in p + 1 .. s - 1 : j = w \/ Kind(j) = "newline"
      PROVE  \E i \in 1 .. Len(source) :
               /\ s = LabelAt(source, i) /\ source[i].label # NoLabel /\ TakenIn(source, i)
               /\ k < i /\ Val(s) = source[i].label /\ NoneBetween(source, k, i)
  <2>1. s \in Nat \ {0}  BY <1>1, <1>9
  <2>2. PICK i \in 1 .. Len(source) :
           s = LabelAt(source, i) /\ source[i].label # NoLabel /\ Val(s) = source[i].label
    BY <1>9, <2>1, KindFacts
  <2>3. TakenIn(source, i) /\ k < i /\ NoneBetween(source, k, i)
    <3>1. source[k].args = <<>> \/ source[k].args[1].kind = "label"  OBVIOUS
    <3>2. OpAt(source, k) < LabelAt(source, i)
          /\ \A j \in OpAt(source, k) + 1 .. LabelAt(source, i) - 1 : j = w \/ Kind(j) = "newline"
      BY <1>9, <2>2 DEF p
    <3>. QED  BY <1>9, <2>2, <3>1, <3>2, TakenBetween
  <2>. QED  BY <2>2, <2>3
<1>10. CASE Kind(q) = "eof"
  <2>1. r = ParseOperand(q)  BY <1>10 DEF r, FirstOperand
  <2>2. q \in 1 .. n  BY <1>1, <1>2, <1>3
  <2>3. Within(q, r)  BY <2>1, <2>2, OperandWithin DEF n
  <2>4. r = List(<<>>, q)  BY <1>10, <2>3 DEF Within
  <2>5. r.ops = <<>> /\ r.next = q  BY <2>4, ListFields
  <2>6. Crossed(p + 1, r.next)
    <3>1. \A j \in p + 1 .. q - 1 : Kind(j) \notin {"mnemonic", "eof", "label"}  BY <1>3
    <3>. QED  BY <1>3, <2>5, <3>1 DEF Crossed, n
  <2>. QED  BY <1>8, <2>5, <2>6 DEF p, q, r
<1>11. CASE Kind(q) \in {"label", "identifier", "mnemonic"}
  <2> DEFINE m == ParseOperand(q).next
             t == SkipNewlines(m)
  <2>1. r = ParseOperand(t)  BY <1>11 DEF r, FirstOperand
  <2>2. q \in 1 .. n /\ q \in Nat  BY <1>1, <1>2, <1>3
  <2>3. m \in q .. n /\ (Kind(q) \in {"label", "identifier"} => m = q + 1) /\ (Kind(q) = "mnemonic" => m = q)
    <3>1. Within(q, ParseOperand(q))  BY <2>2, OperandWithin DEF n
    <3>2. ASSUME Kind(q) = "mnemonic" PROVE m = q
      <4>1. ParseOperand(q) = List(<<>>, q)  BY <3>1, <3>2 DEF Within
      <4>. QED  BY <4>1, ListFields
    <3>. QED  BY <3>1, <3>2 DEF Within, n
  <2> HIDE DEF m, t
  <2>4. m \in 1 .. Len(tokens)  BY <1>2, <2>2, <2>3 DEF n
  <2>5. t \in m .. n /\ Kind(t) # "newline" /\ \A j \in m .. t - 1 : Kind(j) = "newline"
    BY <2>4, Skipped DEF t, n
  <2>6. t \in 1 .. n /\ t \in Nat  BY <1>2, <2>4, <2>5 DEF n
  <2>7. Within(t, r)  BY <2>1, <2>6, OperandWithin DEF n
  <2>8. /\ r.next \in t .. n
        /\ \A s \in t .. r.next - 1 :
             Kind(s) \notin {"mnemonic", "eof", "newline", "comma"} /\ (Kind(s) = "label" => s = t)
        /\ r.ops = <<>> \/ \E o \in Operands : r.ops = <<o>>
        /\ r.ops # <<>> /\ r.ops[1].kind = "label" =>
             Kind(t) \in {"identifier", "label"} /\ r.ops[1].val = Val(t)
    BY <2>7 DEF Within, n
  \* What lies between the instruction and t: the token q, and ends of lines.
  <2>9. /\ \A j \in p + 1 .. t - 1 : j = q \/ Kind(j) = "newline"
        /\ (Kind(q) = "mnemonic" => t = q) /\ (t = q \/ q < t)
    <3>1. CASE Kind(q) = "mnemonic"
      <4>1. t = q
        <5>1. m = q /\ q \in 1 .. Len(tokens)  BY <2>2, <2>3, <3>1 DEF n
        <5>. QED  BY <1>3, <5>1, NothingSkipped DEF t
      <4>. QED  BY <1>3, <4>1
    <3>2. CASE Kind(q) # "mnemonic"
      <4>1. m = q + 1  BY <1>11, <2>3, <3>2
      <4>2. ASSUME NEW j \in p + 1 .. t - 1 PROVE j = q \/ Kind(j) = "newline"
        <5>1. j \in p + 1 .. q - 1 \/ j = q \/ j \in m .. t - 1  BY <1>1, <2>2, <2>6, <4>1
        <5>. QED  BY <1>3, <2>5, <5>1
      <4>3. q < t  BY <2>2, <2>5, <2>6, <4>1
      <4>. QED  BY <3>2, <4>2, <4>3
    <3>. QED  BY <3>1, <3>2
  <2>10. p < q /\ p < t /\ q <= n /\ t <= n  BY <1>1, <1>2, <1>3, <2>2, <2>6, <2>9
  <2>11. Crossed(p + 1, r.next)
    <3>1. r.next \in p + 1 .. n  BY <1>1, <2>6, <2>8, <2>10
    <3>2. ASSUME NEW s \in p + 1 .. r.next - 1
          PROVE  /\ Kind(s) \notin {"mnemonic", "eof"}
                 /\ Kind(s) = "label" =>
                      \E i \in 1 .. Len(source) :
                        s = LabelAt(source, i) /\ source[i].label # NoLabel /\ TakenIn(source, i)
      <4>1. s \in Nat /\ p < s /\ s <= n /\ (s \in p + 1 .. t - 1 \/ s \in t .. r.next - 1)
        BY <1>1, <1>2, <2>6, <2>8, <3>1
      <4>2. CASE s \in p + 1 .. t - 1
        <5>1. CASE Kind(s) = "newline"  BY <5>1
        <5>2. CASE Kind(s) # "newline"
          <6>1. s = q  BY <2>9, <4>2, <5>2
          <6>2. t # q  BY <2>6, <4>2, <6>1
          <6>3. Kind(q) \in {"label", "identifier"}  BY <1>11, <2>9, <6>2
          <6>4. Kind(p) # "label" /\ \A j \in p + 1 .. q - 1 : j = q \/ Kind(j) = "newline"
            <7>1. Kind(p) = "mnemonic"  BY MnemonicAt DEF p
            <7>. QED  BY <1>3, <7>1
          <6>5. Kind(q) = "label" => \E i \in 1 .. Len(source) :
                  q = LabelAt(source, i) /\ source[i].label # NoLabel /\ TakenIn(source, i)
            <7> SUFFICES ASSUME Kind(q) = "label"
                         PROVE  \E i \in 1 .. Len(source) :
                                  q = LabelAt(source, i) /\ source[i].label # NoLabel /\ TakenIn(source, i)
              OBVIOUS
            <7>1. Kind(q) # "mnemonic"  OBVIOUS
            <7>. QED  BY <1>9, <2>2, <2>10, <6>4, <7>1
          <6>. QED  BY <6>1, <6>3, <6>5
        <5>. QED  BY <5>1, <5>2
      <4>3. CASE s \in t .. r.next - 1
        <5>1. Kind(s) \notin {"mnemonic", "eof"} /\ (Kind(s) = "label" => s = t)  BY <2>8, <4>3
        <5>2. ASSUME Kind(s) = "label"
              PROVE  \E i \in 1 .. Len(source) :
                       s = LabelAt(source, i) /\ source[i].label # NoLabel /\ TakenIn(source, i)
          <6>1. s = t /\ Kind(t) = "label"  BY <5>1, <5>2
          <6>2. Kind(q) # "mnemonic"  BY <2>9, <6>1
          <6>. QED  BY <1>9, <2>2, <2>6, <2>9, <2>10, <6>1, <6>2
        <5>. QED  BY <5>1, <5>2
      <4>. QED  BY <4>1, <4>2, <4>3
    <3>. QED  BY <3>1, <3>2 DEF Crossed, n
  <2>12. ASSUME source[k].op = "call", r.ops # <<>>, r.ops[1].kind = "label"
         PROVE  CallsElsewhere(source, k, r.ops[1].val)
    <3>1. Kind(t) \in {"identifier", "label"} /\ r.ops[1].val = Val(t)  BY <2>8, <2>12
    <3>2. args # <<>> /\ q = p + 1 /\ Kind(q) = "identifier" /\ LineEnd(source, k) = p + 2
      BY <1>6, <2>12
    <3>3. m = q + 1 /\ m = LineEnd(source, k)  BY <1>1, <2>3, <3>2
    <3>4. CASE Kind(t) = "identifier"
      <4>1. Kind(LineEnd(source, k)) = "newline"
        <5>1. tokens[LineEnd(source, k)] = Token("newline", 0)
          <6>1. LinePlaced(source, k)  BY <1>0, LinesArePlaced
          <6>. QED  BY <1>0, <6>1 DEF LinePlaced
        <5>2. LineEnd(source, k) \in 1 .. Len(tokens)  BY <2>4, <3>3
        <5>. QED  BY <5>1, <5>2, KindIs, TokenFields
      <4>2. LineEnd(source, k) < t
        <5>1. t # m  BY <3>3, <3>4, <4>1
        <5>2. m \in Nat  BY <1>5, <3>3
        <5>. QED  BY <2>5, <2>6, <3>3, <5>1, <5>2
      <4>3. \A j \in LineEnd(source, k) .. t - 1 : Kind(j) = "newline"  BY <2>5, <3>3
      <4>4. Val(t) \in Ops  BY <2>5, <2>6, <3>4, <4>2, <4>3, FirstOfLine DEF n
      <4>. QED  BY <3>1, <4>4 DEF CallsElsewhere
    <3>5. CASE Kind(t) = "label"
      <4>1. Kind(q) # "mnemonic"  BY <3>2
      <4>2. PICK i \in 1 .. Len(source) :
               k < i /\ Val(t) = source[i].label /\ NoneBetween(source, k, i)
        BY <1>9, <2>2, <2>6, <2>9, <2>10, <3>5, <4>1
      <4>. QED  BY <3>1, <4>2 DEF CallsElsewhere
    <3>. QED  BY <3>1, <3>4, <3>5
  <2>. QED  BY <1>8, <2>8, <2>11, <2>12 DEF p, q, r
<1>. QED  BY <1>7, <1>10, <1>11

-----------------------------------------------------------------------------
(* The first operand: where the line writes one, it is parsed. *)

\* Behind its operation a line has no label and no other operation.
LEMMA RestOfLine ==
  ASSUME Given, NEW k \in 1 .. Len(source), NEW s \in OpAt(source, k) + 1 .. LineEnd(source, k)
  PROVE  Kind(s) \notin {"mnemonic", "label", "eof"}
<1>0. source \in Sources /\ tokens = Lexed(source)  BY DEF Given
<1>1. /\ OpAt(source, k) \in Nat /\ LineEnd(source, k) \in Nat /\ LineEnd(source, k - 1) \in Nat
      /\ LineEnd(source, k) < Len(tokens) /\ LineEnd(source, k - 1) <= OpAt(source, k)
      /\ source[k].label # NoLabel => LabelAt(source, k) <= OpAt(source, k)
  <2>1. LinePlaced(source, k)  BY <1>0, LinesArePlaced
  <2>. QED  BY <1>0, <2>1, PlacesInOrder DEF LinePlaced
<1>2. Len(tokens) \in Nat /\ s \in Nat \ {0} /\ OpAt(source, k) < s /\ s <= LineEnd(source, k)
  <2>1. Len(tokens) \in Nat  BY KindIs
  <2>. QED  BY <1>1, <2>1
<1>3. s \in 1 .. Len(tokens) /\ s # Len(tokens)  BY <1>1, <1>2
<1>4. Kind(s) # "eof"
  <2>1. TokenFacts(source, s) /\ tokens = Lexed(source)  BY <1>0, <1>3, TokensHaveFacts
  <2>2. Kind(s) = tokens[s].kind  BY <1>3, KindIs
  <2>. QED  BY <1>3, <2>1, <2>2 DEF TokenFacts
<1>5. ASSUME NEW i \in 1 .. Len(source), LineEnd(source, i - 1) < s, s <= LineEnd(source, i)
      PROVE  i = k
  <2>1. Len(source) \in Nat  BY <1>0, SourceLines
  <2>2. LineEnd(source, i - 1) \in Nat /\ LineEnd(source, i) \in Nat  BY <1>0, PlacesInOrder
  <2>3. CASE i < k
    <3>1. LineEnd(source, i) <= LineEnd(source, k - 1)  BY <1>0, <2>3, LinesApart
    <3>. QED  BY ONLY <1>1, <1>2, <1>5, <2>2, <3>1
  <2>4. CASE k < i
    <3>1. LineEnd(source, k) <= LineEnd(source, i - 1)  BY <1>0, <2>4, LinesApart
    <3>. QED  BY ONLY <1>1, <1>2, <1>5, <2>2, <3>1
  <2>. QED  BY <2>1, <2>3, <2>4
<1>6. Kind(s) # "mnemonic"
  <2> SUFFICES ASSUME Kind(s) = "mnemonic" PROVE FALSE  OBVIOUS
  <2>1. PICK i \in 1 .. Len(source) : s = OpAt(source, i) /\ source[i].op \in LexedMnemonics
    BY <1>2, KindFacts
  <2>2. source[i].op # NoOp  BY <2>1, AssemblerAssumption
  <2>3. /\ LineEnd(source, i - 1) < s /\ s < LineEnd(source, i) /\ LineEnd(source, i) \in Nat
    BY <1>0, <2>1, <2>2, PlacesInOrder
  <2>4. s <= LineEnd(source, i)  BY <1>2, <2>3
  <2>5. i = k  BY <1>5, <2>3, <2>4
  <2>. QED  BY <1>1, <1>2, <2>1, <2>5
<1>7. Kind(s) # "label"
  <2> SUFFICES ASSUME Kind(s) = "label" PROVE FALSE  OBVIOUS
  <2>1. PICK i \in 1 .. Len(source) : s = LabelAt(source, i) /\ source[i].label # NoLabel
    BY <1>2, KindFacts
  <2>2. /\ s = LineEnd(source, i - 1) + 1 /\ s <= OpAt(source, i) /\ OpAt(source, i) < LineEnd(source, i)
        /\ LineEnd(source, i - 1) \in Nat /\ LineEnd(source, i) \in Nat /\ OpAt(source, i) \in Nat
    BY <1>0, <2>1, PlacesInOrder
  <2>3. LineEnd(source, i - 1) < s /\ s <= LineEnd(source, i)  BY ONLY <1>2, <2>2
  <2>4. i = k  BY <1>5, <2>3
  <2>. QED  BY <1>1, <1>2, <2>1, <2>4
<1>. QED  BY <1>4, <1>6, <1>7

LEMMA ArgsCrossed ==
  ASSUME Given, NEW k \in 1 .. Len(source), NEW r \in 1 .. Len(source[k].args),
         NEW p \in Nat, OpAt(source, k) < p, p <= ArgEnd(source, k, r) + 1
  PROVE  Crossed(p, ArgEnd(source, k, r) + 1)
<1>0. source \in Sources /\ tokens = Lexed(source)  BY DEF Given
<1> DEFINE e == ArgEnd(source, k, r)
<1>1. e + 1 \in 1 .. Len(tokens) /\ e \in Nat  BY AfterArg
<1>2. Len(tokens) \in Nat  BY KindIs
<1>3. e < LineEnd(source, k)
  <2>1. ArgPlaced(source, k, r)  BY <1>0, LinesArePlaced
  <2>. QED  BY <2>1 DEF ArgPlaced
<1>4. LineEnd(source, k) \in Nat /\ OpAt(source, k) \in Nat  BY <1>0, PlacesInOrder
<1>5. ASSUME NEW s \in p .. (e + 1) - 1 PROVE Kind(s) \notin {"mnemonic", "label", "eof"}
  <2>1. s \in OpAt(source, k) + 1 .. LineEnd(source, k)
    <3> HIDE DEF e
    <3>. QED  BY <1>1, <1>3, <1>4
  <2>. QED  BY <2>1, RestOfLine
<1>6. e + 1 \in p .. Len(tokens)
  <2> HIDE DEF e
  <2>1. p <= e + 1  BY DEF e
  <2>. QED  BY ONLY <1>1, <1>2, <2>1, p \in Nat
<1>. QED  BY <1>5, <1>6 DEF Crossed

\* offset(rs) without a sign, which the parser looks ahead for.
IsPlainMemory(args) == args[2].kind = "memory" /\ args[2].val >= 0

\* A first operand that is a register is found, and the memory form behind it if it has no sign.
LEMMA FirstIsParsed ==
  ASSUME Given, NEW k \in 1 .. Len(source), source[k].op \in LexedMnemonics,
         source[k].args # <<>>, source[k].args[1].kind = "register"
  PROVE  LET args == source[k].args
             q == SkipNewlines(OpAt(source, k) + 1)
         IN  /\ 1 \in 1 .. Len(args) /\ 2 \in 1 .. Len(args) /\ OpAt(source, k) \in Nat
             /\ q = OpAt(source, k) + 1 /\ ArgAt(source, k, 1) = OpAt(source, k)
             /\ IsPlainMemory(args) =>
                  /\ IsMemory(q) /\ Closed(q + 5) = ArgEnd(source, k, 2) + 1
                  /\ MemoryOperands(q) =
                       <<Operand("register", args[1].val), Operand("register", args[2].base),
                         Operand("immediate", args[2].val)>>
             /\ ~IsPlainMemory(args) =>
                  /\ ~IsMemory(q)
                  /\ FirstOperand(q) = List(<<OperandOf(args[1])>>, ArgEnd(source, k, 1) + 1)
<1>0. source \in Sources /\ tokens = Lexed(source)  BY DEF Given
<1> DEFINE args == source[k].args
           q == SkipNewlines(OpAt(source, k) + 1)
           p == OpAt(source, k)
           e == ArgEnd(source, k, 1)
<1>1. p + 1 \in 1 .. Len(tokens) /\ p \in Nat /\ Len(tokens) \in Nat  BY MnemonicAt, KindIs
<1>2. Len(args) \in {2, 3} /\ 1 \in 1 .. Len(args) /\ 2 \in 1 .. Len(args)
  <2>1. Operates(FormatOf(source[k].op), args) /\ FormatOf(source[k].op) \in Formats
    BY <1>0, LegalOperates
  <2>2. args # <<>> /\ args[1].kind # "label"  OBVIOUS
  <2>3. Len(args) \in {2, 3}  BY <2>1, <2>2 DEF Operates, Formats
  <2> HIDE DEF args
  <2>. QED  BY ONLY <2>3
<1>3. ArgAt(source, k, 1) = p
  <2>1. LinePlaced(source, k)  BY <1>0, LinesArePlaced
  <2>2. ArgEnd(source, k, 0) = p  BY <2>1 DEF LinePlaced
  <2>3. ArgAt(source, k, 1) = ArgEnd(source, k, 1 - 1) + Comma(1)  BY DEF ArgAt
  <2>4. Comma(1) = 0 /\ 1 - 1 = 0  BY DEF Comma
  <2>. QED  BY <1>1, <2>2, <2>3, <2>4
<1>4. /\ Kind(p + 1) = "register" /\ ParseOperand(p + 1) = List(<<OperandOf(args[1])>>, e + 1)
      /\ Kind(p + 1) # "newline"
  BY <1>2, <1>3, ArgParsed
<1>5. q = p + 1  BY <1>1, <1>4, NothingSkipped
<1>6. e = p + 1 /\ Val(p + 1) = args[1].val
  <2>1. ArgPlaced(source, k, 1)  BY <1>0, <1>2, LinesArePlaced
  <2>2. e = ArgAt(source, k, 1) + Len(ArgTokens(args[1])) /\ ArgShape(args[1])  BY <2>1 DEF ArgPlaced
  <2>3. Len(ArgTokens(args[1])) = 1 /\ ArgTokens(args[1])[1] = Token("register", args[1].val)
    BY <2>2 DEF ArgShape
  <2>4. 1 \in 1 .. Len(ArgTokens(args[1]))  BY <2>3
  <2>5. Val(ArgAt(source, k, 1) + 1) = ArgTokens(args[1])[1].val  BY <1>2, <2>4, ArgToken
  <2>. QED  BY <1>1, <1>3, <2>2, <2>3, <2>5, TokenFields
<1>7. Kind(e + 1) = "comma" /\ ArgAt(source, k, 2) = e + 1
  <2>1. 1 # Len(args) /\ 1 + 1 = 2
    <3> HIDE DEF args
    <3>. QED  BY ONLY <1>2
  <2>. QED  BY <1>2, <2>1, AfterArg
<1> DEFINE a == args[2]
           b == ArgAt(source, k, 2)
<1>8. /\ Kind(b + 1) = "integer" <=> a.kind \in {"immediate", "memory"} /\ a.val >= 0
      /\ b = p + 2
  <2>1. Kind(b + 1) = "integer" <=> a.kind \in {"immediate", "memory"} /\ a.val >= 0
    BY <1>2, ArgParsed
  <2>2. b = (p + 1) + 1  BY <1>6, <1>7
  <2> HIDE DEF p, b
  <2>3. (p + 1) + 1 = p + 2  BY <1>1
  <2>. QED  BY <2>1, <2>2, <2>3
<1>9. ArgPlaced(source, k, 2)  BY <1>0, <1>2, LinesArePlaced
<1>10. a \in Args /\ ArgShape(a) /\ ArgEnd(source, k, 2) = b + Len(ArgTokens(a))  BY <1>9 DEF ArgPlaced
<1>11. \/ a.kind = "register" /\ a.val \in Registers
       \/ a.kind = "immediate" /\ a.val \in Int
       \/ a.kind = "label" /\ a.val \in Names
       \/ a.kind = "memory" /\ a.val \in Int /\ a.base \in Registers
  BY <1>10, ArgsHaveKinds
<1>12. \A m \in 1 .. Len(ArgTokens(a)) :
         Kind(b + m) = ArgTokens(a)[m].kind /\ Val(b + m) = ArgTokens(a)[m].val
  BY <1>2, ArgToken
<1>13. Kind(ArgEnd(source, k, 2) + 1) \in {"comma", "newline"}  BY <1>2, AfterArg
<1>14. ASSUME IsPlainMemory(args)
       PROVE  /\ IsMemory(q) /\ Closed(q + 5) = ArgEnd(source, k, 2) + 1
              /\ MemoryOperands(q) =
                   <<Operand("register", args[1].val), Operand("register", args[2].base),
                     Operand("immediate", args[2].val)>>
  <2>1. a.kind = "memory" /\ a.val >= 0 /\ a.val \in Int  BY <1>11, <1>14 DEF IsPlainMemory
  <2>2. ~(a.val < 0) /\ Minus(a.val) = 0  BY <2>1 DEF Minus
  <2> DEFINE t == ArgTokens(a)
  <2>3. /\ Len(t) = 4 /\ t[1] = Token("integer", a.val) /\ t[2] = Token("lparen", 0)
        /\ t[3] = Token("register", a.base) /\ t[4] = Token("rparen", 0)
    BY <1>10, <2>1, <2>2 DEF ArgShape
  <2> HIDE DEF t, a, b, e, args
  <2>4. 1 \in 1 .. 4 /\ 2 \in 1 .. 4 /\ 3 \in 1 .. 4 /\ 4 \in 1 .. 4  OBVIOUS
  <2>5. /\ Kind(b + 1) = "integer" /\ Val(b + 1) = a.val /\ Kind(b + 2) = "lparen"
        /\ Kind(b + 3) = "register" /\ Val(b + 3) = a.base /\ Kind(b + 4) = "rparen"
    BY <1>12, <2>3, <2>4, TokenFields DEF t
  <2> HIDE DEF p, q
  <2>6. /\ b + 1 = q + 2 /\ b + 2 = q + 3 /\ b + 3 = q + 4 /\ b + 4 = q + 5 /\ e + 1 = q + 1
        /\ ArgEnd(source, k, 2) + 1 = (q + 5) + 1
    BY <1>1, <1>5, <1>6, <1>8, <1>10, <2>3 DEF t
  <2>7. IsMemory(q)
    <3>1. Kind(q) = "register" /\ Kind(q + 1) = "comma"  BY <1>4, <1>5, <1>7, <2>6
    <3>. QED  BY <2>5, <2>6, <3>1 DEF IsMemory
  <2>8. Closed(q + 5) = ArgEnd(source, k, 2) + 1  BY <2>5, <2>6 DEF Closed
  <2>9. Val(q) = args[1].val /\ Val(q + 4) = a.base /\ Val(q + 2) = a.val  BY <1>5, <1>6, <2>5, <2>6
  <2>. QED  BY <2>7, <2>8, <2>9 DEF MemoryOperands, a
<1>15. ASSUME ~IsPlainMemory(args)
       PROVE  /\ ~IsMemory(q)
              /\ FirstOperand(q) = List(<<OperandOf(args[1])>>, e + 1)
  <2>1. ~IsMemory(q)
    <3> SUFFICES ASSUME IsMemory(q) PROVE FALSE  OBVIOUS
    <3>1. Kind(q + 2) = "integer" /\ Kind(q + 3) = "lparen"  BY DEF IsMemory
    <3>2. q + 2 = b + 1 /\ q + 3 = (b + 1) + 1
      <4> HIDE DEF p, q, b
      <4>. QED  BY <1>1, <1>5, <1>8
    <3>3. a.kind = "immediate" /\ a.val >= 0 /\ a.val \in Int
      BY <1>8, <1>11, <1>15, <3>1, <3>2 DEF IsPlainMemory
    <3>4. Minus(a.val) = 0  BY <3>3 DEF Minus
    <3>5. Len(ArgTokens(a)) = 1  BY <1>10, <3>3, <3>4 DEF ArgShape
    <3>6. ArgEnd(source, k, 2) = b + 1  BY <1>10, <3>5
    <3>. QED  BY <1>13, <3>1, <3>2, <3>6
  <2>2. FirstOperand(q) = ParseOperand(q)  BY <1>4, <1>5 DEF FirstOperand
  <2>. QED  BY <1>4, <1>5, <2>1, <2>2
<1>. QED  BY <1>1, <1>2, <1>3, <1>5, <1>14, <1>15

-----------------------------------------------------------------------------
(* The rank of a line among the instructions. *)

\* What a line adds to the instructions, and how many there are up to line k.
AddedBy(line) == IF Encodable(line) THEN <<line>> ELSE <<>>

Parts(lines) == [i \in DOMAIN lines |-> IF Encodable(lines[i]) THEN <<lines[i]>> ELSE <<>>]

Rank(lines, k) == EndOf(Parts(lines), k)

LEMMA PartsType ==
  ASSUME NEW lines \in Seq(Lines)
  PROVE  /\ Parts(lines) \in Seq(Seq(Lines)) /\ Len(Parts(lines)) = Len(lines)
         /\ Instructions(lines) = FlattenSeq(Parts(lines))
         /\ \A k \in 1 .. Len(lines) :
              /\ Encodable(lines[k]) => Parts(lines)[k] = <<lines[k]>>
              /\ ~Encodable(lines[k]) => Parts(lines)[k] = <<>>
<1> DEFINE n == Len(lines)
<1>1. n \in Nat /\ DOMAIN lines = 1 .. n /\ \A i \in 1 .. n : lines[i] \in Lines
  BY LenProperties, ElementOfSeq
<1>2. Parts(lines) = [i \in 1 .. n |-> AddedBy(lines[i])]  BY <1>1 DEF Parts, AddedBy
<1>3. \A i \in 1 .. n : AddedBy(lines[i]) \in Seq(Lines)
  <2>1. <<>> \in Seq(Lines)  BY EmptySeq
  <2>. QED  BY <1>1, <2>1 DEF AddedBy
<1> HIDE DEF n
<1>4. Parts(lines) \in [1 .. n -> Seq(Lines)]  BY <1>2, <1>3
<1>5. Instructions(lines) = FlattenSeq(Parts(lines))  BY DEF Instructions, Parts
<1>6. \A k \in 1 .. n : Parts(lines)[k] = AddedBy(lines[k])  BY <1>2
<1>. QED  BY <1>1, <1>4, <1>5, <1>6, IsASeq DEF n, AddedBy

\* The instructions before line k + 1 are the first Rank(k).
LEMMA PartsOfPrefix ==
  ASSUME NEW lines \in Seq(Lines), NEW k \in 0 .. Len(lines)
  PROVE  Len(Instructions(SubSeq(lines, 1, k))) = Rank(lines, k)
<1> DEFINE pre == SubSeq(lines, 1, k)
<1>1. Len(lines) \in Nat /\ Parts(lines) \in Seq(Seq(Lines)) /\ Len(Parts(lines)) = Len(lines)
  BY LenProperties, PartsType
<1>2. /\ pre \in Seq(Lines) /\ Len(pre) = k /\ k \in Nat
  BY <1>1, PrefixType
<1>3. \A i \in 1 .. k : pre[i] = lines[i]
  <2>1. 1 \in Int /\ k \in Int /\ 1 <= k + 1  BY <1>2
  <2>. QED  BY <1>1, <1>2 DEF pre
<1>4. SubSeq(Parts(lines), 1, k) \in Seq(Seq(Lines)) /\ Len(SubSeq(Parts(lines), 1, k)) = k
  BY <1>1, PrefixType
<1>5. \A i \in 1 .. k : SubSeq(Parts(lines), 1, k)[i] = Parts(lines)[i]
  <2>1. k \in 0 .. Len(Parts(lines))  BY <1>1
  <2>. QED  BY <1>1, <1>2
<1> HIDE DEF pre
<1>6. /\ Parts(pre) \in Seq(Seq(Lines)) /\ Len(Parts(pre)) = k
      /\ Instructions(pre) = FlattenSeq(Parts(pre))
  BY <1>2, PartsType
<1>7. \A i \in 1 .. k : Parts(pre)[i] = Parts(lines)[i]
  <2>1. DOMAIN pre = 1 .. k /\ DOMAIN lines = 1 .. Len(lines)  BY <1>2, LenProperties
  <2>2. \A i \in 1 .. k : i \in 1 .. Len(lines)  BY <1>1
  <2>. QED  BY <1>3, <2>1, <2>2 DEF Parts
<1>8. Parts(pre) = SubSeq(Parts(lines), 1, k)
  <2>1. \A i \in 1 .. k : Parts(pre)[i] = SubSeq(Parts(lines), 1, k)[i]  BY <1>5, <1>7
  <2>2. \A i \in 1 .. Len(Parts(pre)) : Parts(pre)[i] = SubSeq(Parts(lines), 1, k)[i]
    BY <1>6, <2>1
  <2>. QED  BY <1>4, <1>6, <2>2, SeqEqual
<1>. QED  BY <1>6, <1>8 DEF Rank, EndOf, pre

\* How the ranks of the lines grow.
LEMMA Ranks ==
  ASSUME NEW lines \in Sources
  PROVE  /\ Rank(lines, 0) = 0 /\ Rank(lines, Len(lines)) = Len(Instructions(lines))
         /\ \A k \in 0 .. Len(lines) : Rank(lines, k) \in Nat
         /\ \A k \in 1 .. Len(lines) :
              /\ Encodable(lines[k]) =>
                   Rank(lines, k) = Rank(lines, k - 1) + 1 /\ Instructions(lines)[Rank(lines, k)] = lines[k]
              /\ ~Encodable(lines[k]) => Rank(lines, k) = Rank(lines, k - 1)
              /\ AddressIn(lines, k) = 4 * Rank(lines, k - 1)
<1> DEFINE ss == Parts(lines)
           n == Len(lines)
<1>0. lines \in Seq(Lines) /\ n \in Nat  BY SourceLines
<1>1. /\ ss \in Seq(Seq(Lines)) /\ Len(ss) = n /\ Instructions(lines) = FlattenSeq(ss)
      /\ \A k \in 1 .. n : /\ Encodable(lines[k]) => ss[k] = <<lines[k]>>
                           /\ ~Encodable(lines[k]) => ss[k] = <<>>
  BY <1>0, PartsType
<1>2. \A k \in 1 .. n : AddressIn(lines, k) = 4 * Rank(lines, k - 1)
  <2> SUFFICES ASSUME NEW k \in 1 .. n PROVE AddressIn(lines, k) = 4 * Rank(lines, k - 1)  OBVIOUS
  <2>1. k - 1 \in 0 .. Len(lines)  BY <1>0
  <2>2. Len(Instructions(SubSeq(lines, 1, k - 1))) = Rank(lines, k - 1)  BY <1>0, <2>1, PartsOfPrefix
  <2>. QED  BY <2>2 DEF AddressIn
<1> HIDE DEF ss, n
<1>3. EndOf(ss, 0) = 0 /\ EndOf(ss, n) = Len(FlattenSeq(ss))  BY <1>1, FlattenEnds
<1>4. \A k \in 0 .. n : EndOf(ss, k) \in Nat  BY <1>1, EndOfType
<1>5. ASSUME NEW k \in 1 .. n
      PROVE  /\ Encodable(lines[k]) =>
                  EndOf(ss, k) = EndOf(ss, k - 1) + 1 /\ FlattenSeq(ss)[EndOf(ss, k)] = lines[k]
             /\ ~Encodable(lines[k]) => EndOf(ss, k) = EndOf(ss, k - 1)
  <2>1. /\ EndOf(ss, k) = EndOf(ss, k - 1) + Len(ss[k])
        /\ \A m \in 1 .. Len(ss[k]) : FlattenSeq(ss)[EndOf(ss, k - 1) + m] = ss[k][m]
    BY <1>1, FlattenPlaces
  <2>2. EndOf(ss, k - 1) \in Nat
    <3>1. k - 1 \in 0 .. n  BY <1>0 DEF n
    <3>. QED  BY <1>4, <3>1
  <2>3. CASE Encodable(lines[k])
    <3>1. Len(ss[k]) = 1 /\ ss[k][1] = lines[k]
      <4>1. ss[k] = <<lines[k]>>  BY <1>1, <2>3
      <4>. QED  BY <4>1, OneOperand
    <3>2. 1 \in 1 .. Len(ss[k])  BY <3>1
    <3>3. FlattenSeq(ss)[EndOf(ss, k - 1) + 1] = ss[k][1]  BY <2>1, <3>2
    <3>. QED  BY <2>1, <2>3, <3>1, <3>3
  <2>4. CASE ~Encodable(lines[k])
    <3>1. Len(ss[k]) = 0  BY <1>1, <2>4, EmptySeq
    <3>. QED  BY <2>1, <2>2, <2>4, <3>1
  <2>. QED  BY <2>3, <2>4
<1>. QED  BY <1>1, <1>2, <1>3, <1>4, <1>5 DEF Rank, ss, n

LEMMA RankOrder ==
  ASSUME NEW lines \in Sources, NEW k \in 0 .. Len(lines), NEW i \in 0 .. k
  PROVE  Rank(lines, i) <= Rank(lines, k)
<1>1. lines \in Seq(Lines)  BY SourceLines
<1>2. Parts(lines) \in Seq(Seq(Lines)) /\ Len(Parts(lines)) = Len(lines)  BY <1>1, PartsType
<1>. QED  BY <1>2, EndsInOrder DEF Rank

\* An instruction is at its rank.
LEMMA RankIsIn ==
  ASSUME NEW lines \in Sources, NEW j \in 1 .. Len(Instructions(lines))
  PROVE  \E k \in 1 .. Len(lines) : Encodable(lines[k]) /\ j = Rank(lines, k)
<1> DEFINE ss == Parts(lines)
<1>0. lines \in Seq(Lines) /\ Len(lines) \in Nat  BY SourceLines
<1>1. /\ ss \in Seq(Seq(Lines)) /\ Len(ss) = Len(lines) /\ Instructions(lines) = FlattenSeq(ss)
      /\ \A k \in 1 .. Len(lines) : ~Encodable(lines[k]) => ss[k] = <<>>
      /\ \A k \in 1 .. Len(lines) : Encodable(lines[k]) => ss[k] = <<lines[k]>>
  BY <1>0, PartsType
<1> HIDE DEF ss
<1>2. PICK k \in 1 .. Len(ss) : j - EndOf(ss, k - 1) \in 1 .. Len(ss[k])  BY <1>1, PlaceIsIn
<1>3. Encodable(lines[k]) /\ Len(ss[k]) = 1
  <2>1. CASE ~Encodable(lines[k])
    <3>1. Len(ss[k]) = 0  BY <1>1, <2>1, EmptySeq
    <3>. QED  BY <1>2, <3>1
  <2>2. CASE Encodable(lines[k])
    <3>1. ss[k] = <<lines[k]>>  BY <1>1, <2>2
    <3>. QED  BY <2>2, <3>1, OneOperand
  <2>. QED  BY <2>1, <2>2
<1>4. Rank(lines, k) = Rank(lines, k - 1) + 1 /\ k - 1 \in 0 .. Len(lines)  BY <1>0, <1>1, <1>3, Ranks
<1>5. Rank(lines, k - 1) \in Nat  BY <1>4, Ranks
<1>6. j - Rank(lines, k - 1) \in 1 .. 1 /\ j \in Int
  <2>1. j \in Int  OBVIOUS
  <2>. QED  BY <1>2, <1>3, <2>1 DEF Rank, ss
<1>7. j = Rank(lines, k)  BY ONLY <1>4, <1>5, <1>6
<1>. QED  BY <1>1, <1>3, <1>7

\* Lines without an instruction in between have the same rank.
LEMMA RankSame ==
  ASSUME NEW lines \in Sources, NEW k \in 0 .. Len(lines), NEW i \in 0 .. k,
         \A m \in i + 1 .. k : ~Encodable(lines[m])
  PROVE  Rank(lines, i) = Rank(lines, k)
<1> DEFINE S == {d \in Nat : i + d <= k => Rank(lines, i) = Rank(lines, i + d)}
<1>0. Len(lines) \in Nat /\ i \in Nat /\ k \in Nat  BY SourceLines
<1>1. 0 \in S  BY <1>0
<1>2. ASSUME NEW d \in S PROVE d + 1 \in S
  <2> SUFFICES ASSUME i + (d + 1) <= k PROVE Rank(lines, i) = Rank(lines, i + (d + 1))
    OBVIOUS
  <2>0. d \in Nat  OBVIOUS
  <2>1. i + (d + 1) \in i + 1 .. k /\ i + (d + 1) \in 1 .. Len(lines) /\ i + d <= k
        /\ (i + (d + 1)) - 1 = i + d
    BY <1>0, <2>0
  <2>2. Rank(lines, i + (d + 1)) = Rank(lines, (i + (d + 1)) - 1)  BY <2>1, Ranks
  <2>3. Rank(lines, i) = Rank(lines, i + d)  BY <2>1
  <2>. QED  BY <2>1, <2>2, <2>3
<1>3. S = Nat
  <2>1. S \in SUBSET Nat /\ \A d \in S : d + 1 \in S  BY <1>2
  <2> HIDE DEF S
  <2>. QED  BY <1>1, <2>1, SetInduction
<1>4. k - i \in Nat /\ i + (k - i) = k /\ i + (k - i) <= k
  <2>1. i <= k  OBVIOUS
  <2>. QED  BY ONLY <1>0, <2>1
<1>5. k - i \in S  BY <1>3, <1>4
<1>. QED  BY <1>4, <1>5

LEMMA RankBound ==
  ASSUME NEW lines \in Sources, NEW k \in 0 .. Len(lines)
  PROVE  Rank(lines, k) \in 0 .. k
<1> DEFINE S == {d \in Nat : d <= k => Rank(lines, d) \in 0 .. d}
<1>0. Len(lines) \in Nat /\ k \in Nat  BY SourceLines
<1>1. 0 \in S  BY Ranks
<1>2. ASSUME NEW d \in S PROVE d + 1 \in S
  <2> SUFFICES ASSUME d + 1 <= k PROVE Rank(lines, d + 1) \in 0 .. d + 1
    OBVIOUS
  <2>0. d \in Nat  OBVIOUS
  <2>1. d + 1 \in 1 .. Len(lines) /\ d <= k /\ (d + 1) - 1 = d  BY <1>0, <2>0
  <2>2. Rank(lines, d) \in 0 .. d  BY <2>1
  <2>3. Rank(lines, d + 1) = Rank(lines, d) \/ Rank(lines, d + 1) = Rank(lines, d) + 1
    <3>1. CASE Encodable(lines[d + 1])
      <4>1. Rank(lines, d + 1) = Rank(lines, (d + 1) - 1) + 1  BY <2>1, <3>1, Ranks
      <4>. QED  BY <2>1, <4>1
    <3>2. CASE ~Encodable(lines[d + 1])
      <4>1. Rank(lines, d + 1) = Rank(lines, (d + 1) - 1)  BY <2>1, <3>2, Ranks
      <4>. QED  BY <2>1, <4>1
    <3>. QED  BY <3>1, <3>2
  <2>. QED  BY <2>0, <2>2, <2>3
<1>3. S = Nat
  <2>1. S \in SUBSET Nat /\ \A d \in S : d + 1 \in S  BY <1>2
  <2> HIDE DEF S
  <2>. QED  BY <1>1, <2>1, SetInduction
<1>. QED  BY <1>0, <1>3

-----------------------------------------------------------------------------
(* The nodes and the places in the source they come from. *)

\* A first operand that is a register is never lost.
TakesRegister(args) == args # <<>> /\ args[1].kind = "register"

\* The target a call looks up, in place of its own, which was lost, is no label placed behind it.
CallOk(lines, k, ops) ==
  lines[k].op = "call" /\ ops # <<>> /\ ops[1].kind = "label" => CallsElsewhere(lines, k, ops[1].val)

\* The operands of a node of line k are the operands of the line.
OpsGood(lines, k, ops) ==
  LET args == lines[k].args
  IN  /\ ops \in Seq(Operands)
      /\ TakesRegister(args) /\ IsPlainMemory(args) =>
           ops = <<Operand("register", args[1].val), Operand("register", args[2].base),
                   Operand("immediate", args[2].val)>>
      /\ TakesRegister(args) /\ ~IsPlainMemory(args) =>
           Len(ops) = Len(args) /\ \A i \in 1 .. Len(args) : ops[i] = OperandOf(args[i])
      /\ CallOk(lines, k, ops)

Nodes ==
  [kind : {"label"}, name : Names]
    \union [kind : {"instruction"}, name : LexedMnemonics, ops : Seq(Operands)]

IsOpAt(lines, p, k) == lines[k].op \in LexedMnemonics /\ p = OpAt(lines, k)

IsLabelAt(lines, p, k) == lines[k].label # NoLabel /\ p = LabelAt(lines, k)

\* The node was made of what stands at p.
NodeIs(lines, p, node) ==
  \/ /\ node.kind = "label"
     /\ \E k \in 1 .. Len(lines) : IsLabelAt(lines, p, k) /\ node.name = lines[k].label
  \/ /\ node.kind = "instruction"
     /\ \E k \in 1 .. Len(lines) :
          IsOpAt(lines, p, k) /\ node.name = lines[k].op /\ OpsGood(lines, k, node.ops)

\* A place where a node comes from.
Must(lines, p) ==
  \/ \E k \in 1 .. Len(lines) : IsOpAt(lines, p, k)
  \/ \E k \in 1 .. Len(lines) : IsLabelAt(lines, p, k) /\ ~TakenIn(lines, k)

\* No such place lies between lo and hi.
Passed(lines, lo, hi) == \A p \in Nat : lo < p /\ p < hi => ~Must(lines, p)

\* The places of the nodes, in order and none left out, strictly between lo and hi.
Marked(lines, at, ns, lo, hi) ==
  /\ ns \in Seq(Nodes) /\ at \in Seq(Nat) /\ Len(at) = Len(ns)
  /\ \A i \in 1 .. Len(ns) : lo < at[i] /\ at[i] < hi /\ NodeIs(lines, at[i], ns[i])
  /\ \A i, j \in 1 .. Len(ns) : i < j => at[i] < at[j]
  /\ \A p \in Nat : lo < p /\ p < hi /\ Must(lines, p) => \E i \in 1 .. Len(ns) : at[i] = p

LEMMA MarkedNone ==
  ASSUME NEW lines, NEW lo, NEW hi, Passed(lines, lo, hi)
  PROVE  Marked(lines, <<>>, <<>>, lo, hi)
<1>1. <<>> \in Seq(Nodes) /\ <<>> \in Seq(Nat) /\ Len(<<>>) = 0  BY EmptySeq
<1>2. 1 .. 0 = {}  OBVIOUS
<1>. QED  BY <1>1, <1>2 DEF Marked, Passed

LEMMA MarkedEmpty ==
  ASSUME NEW lines, NEW at, NEW lo, NEW hi, Marked(lines, at, <<>>, lo, hi)
  PROVE  Passed(lines, lo, hi)
<1>1. Len(<<>>) = 0 /\ 1 .. 0 = {}  BY EmptySeq
<1>. QED  BY <1>1 DEF Marked, Passed

LEMMA MarkedExtend ==
  ASSUME NEW lines, NEW at, NEW ns, NEW lo \in Nat, NEW hi \in Nat, NEW next \in Nat, hi <= next,
         Marked(lines, at, ns, lo, hi), Passed(lines, hi - 1, next)
  PROVE  Marked(lines, at, ns, lo, next)
<1>0. /\ ns \in Seq(Nodes) /\ at \in Seq(Nat) /\ Len(at) = Len(ns)
      /\ \A i \in 1 .. Len(ns) : lo < at[i] /\ at[i] < hi /\ NodeIs(lines, at[i], ns[i])
      /\ \A i, j \in 1 .. Len(ns) : i < j => at[i] < at[j]
      /\ \A p \in Nat : lo < p /\ p < hi /\ Must(lines, p) => \E i \in 1 .. Len(ns) : at[i] = p
  BY DEF Marked
<1>1. \A i \in 1 .. Len(ns) : at[i] < next
  <2>1. \A i \in 1 .. Len(ns) : at[i] \in Nat  BY <1>0, ElementOfSeq
  <2>. QED  BY <1>0, <2>1
<1>2. ASSUME NEW p \in Nat, lo < p, p < next, Must(lines, p)
      PROVE  \E i \in 1 .. Len(ns) : at[i] = p
  <2>1. p < hi  BY <1>2 DEF Passed
  <2>. QED  BY <1>0, <1>2, <2>1
<1>. QED  BY <1>0, <1>1, <1>2 DEF Marked

\* A node is added at the parser's place.
LEMMA MarkedAppend ==
  ASSUME NEW lines, NEW at, NEW ns, NEW lo \in Nat, NEW hi \in Nat, lo < hi,
         Marked(lines, at, ns, lo, hi), NEW node \in Nodes, NodeIs(lines, hi, node)
  PROVE  Marked(lines, Append(at, hi), Append(ns, node), lo, hi + 1)
<1> DEFINE bt == Append(at, hi)
           ms == Append(ns, node)
           n == Len(ns)
<1>0. /\ ns \in Seq(Nodes) /\ at \in Seq(Nat) /\ Len(at) = n
      /\ \A i \in 1 .. n : lo < at[i] /\ at[i] < hi /\ NodeIs(lines, at[i], ns[i])
      /\ \A i, j \in 1 .. n : i < j => at[i] < at[j]
      /\ \A p \in Nat : lo < p /\ p < hi /\ Must(lines, p) => \E i \in 1 .. n : at[i] = p
  BY DEF Marked
<1>1. n \in Nat /\ \A i \in 1 .. n : at[i] \in Nat  BY <1>0, LenProperties, ElementOfSeq
<1>2. /\ ms \in Seq(Nodes) /\ bt \in Seq(Nat) /\ Len(bt) = n + 1 /\ Len(ms) = n + 1
      /\ \A i \in 1 .. n : bt[i] = at[i] /\ ms[i] = ns[i]
      /\ bt[n + 1] = hi /\ ms[n + 1] = node
  BY <1>0, AppendProperties
<1> HIDE DEF bt, ms, n
<1>3. ASSUME NEW i \in 1 .. n + 1
      PROVE  lo < bt[i] /\ bt[i] < hi + 1 /\ NodeIs(lines, bt[i], ms[i])
  <2>1. CASE i = n + 1  BY <1>2, <2>1
  <2>2. CASE i # n + 1
    <3>1. i \in 1 .. n  BY <1>1, <2>2
    <3>. QED  BY <1>0, <1>1, <1>2, <3>1
  <2>. QED  BY <2>1, <2>2
<1>4. ASSUME NEW i \in 1 .. n + 1, NEW j \in 1 .. n + 1, i < j PROVE bt[i] < bt[j]
  <2>1. i \in 1 .. n  BY <1>1, <1>4
  <2>2. CASE j = n + 1  BY <1>0, <1>2, <2>1, <2>2
  <2>3. CASE j # n + 1
    <3>1. j \in 1 .. n  BY <1>1, <2>3
    <3>. QED  BY <1>0, <1>2, <1>4, <2>1, <3>1
  <2>. QED  BY <2>2, <2>3
<1>5. ASSUME NEW p \in Nat, lo < p, p < hi + 1, Must(lines, p)
      PROVE  \E i \in 1 .. n + 1 : bt[i] = p
  <2>1. CASE p = hi
    <3>1. n + 1 \in 1 .. n + 1  BY <1>1
    <3>. QED  BY <1>2, <2>1, <3>1
  <2>2. CASE p # hi
    <3>1. p < hi  BY <1>5, <2>2
    <3>2. PICK i \in 1 .. n : at[i] = p  BY <1>0, <1>5, <3>1
    <3>3. i \in 1 .. n + 1  BY <1>1
    <3>. QED  BY <1>2, <3>2, <3>3
  <2>. QED  BY <2>1, <2>2
<1>. QED  BY <1>2, <1>3, <1>4, <1>5 DEF Marked, bt, ms

\* The first node is taken away.
LEMMA MarkedTail ==
  ASSUME NEW lines, NEW at, NEW ns, NEW lo \in Nat, NEW hi \in Nat,
         Marked(lines, at, ns, lo, hi), ns # <<>>
  PROVE  LET m == at[1]
         IN  /\ m \in Nat /\ lo < m /\ m < hi /\ Head(ns) \in Nodes /\ NodeIs(lines, m, Head(ns))
             /\ Passed(lines, lo, m) /\ Marked(lines, Tail(at), Tail(ns), m, hi)
<1> DEFINE bt == Tail(at)
           ms == Tail(ns)
           n == Len(ns)
           m == at[1]
<1>0. /\ ns \in Seq(Nodes) /\ at \in Seq(Nat) /\ Len(at) = n
      /\ \A i \in 1 .. n : lo < at[i] /\ at[i] < hi /\ NodeIs(lines, at[i], ns[i])
      /\ \A i, j \in 1 .. n : i < j => at[i] < at[j]
      /\ \A p \in Nat : lo < p /\ p < hi /\ Must(lines, p) => \E i \in 1 .. n : at[i] = p
  BY DEF Marked
<1>1. n \in Nat \ {0} /\ \A i \in 1 .. n : at[i] \in Nat
  <2>1. \A i \in 1 .. n : at[i] \in Nat  BY <1>0, ElementOfSeq
  <2>. QED  BY <1>0, <2>1, EmptySeq
<1>2. at # <<>>
  <2>1. Len(<<>>) = 0  BY EmptySeq
  <2> HIDE DEF n
  <2>. QED  BY <1>0, <1>1, <2>1
<1>3. /\ ms \in Seq(Nodes) /\ bt \in Seq(Nat) /\ Len(bt) = n - 1 /\ Len(ms) = n - 1
      /\ \A i \in 1 .. n - 1 : bt[i] = at[i + 1] /\ ms[i] = ns[i + 1]
      /\ Head(ns) \in Nodes
  <2>1. ms \in Seq(Nodes) /\ Len(ms) = n - 1 /\ (\A i \in 1 .. n - 1 : ms[i] = ns[i + 1]) /\ Head(ns) \in Nodes
    BY <1>0, HeadTailProperties
  <2>2. bt \in Seq(Nat) /\ Len(bt) = n - 1 /\ (\A i \in 1 .. n - 1 : bt[i] = at[i + 1])
    BY <1>0, <1>2, HeadTailProperties
  <2>. QED  BY <2>1, <2>2
<1>4. Head(ns) = ns[1]  BY <1>0
<1> HIDE DEF bt, ms, n
<1>5. 1 \in 1 .. n /\ \A i \in 1 .. n - 1 : i + 1 \in 1 .. n /\ i \in Nat  BY <1>1
<1>6. m \in Nat /\ lo < m /\ m < hi /\ NodeIs(lines, m, Head(ns))  BY <1>0, <1>1, <1>4, <1>5
<1>7. ASSUME NEW p \in Nat, lo < p, p < hi, Must(lines, p)
      PROVE  p = m \/ (m < p /\ \E i \in 1 .. n - 1 : bt[i] = p)
  <2>1. PICK j \in 1 .. n : at[j] = p  BY <1>0, <1>7
  <2>2. CASE j = 1  BY <2>1, <2>2
  <2>3. CASE j # 1
    <3>1. j - 1 \in 1 .. n - 1 /\ (j - 1) + 1 = j /\ 1 < j  BY <1>1, <2>3
    <3>2. bt[j - 1] = p  BY <1>3, <2>1, <3>1
    <3>3. m < p  BY <1>0, <1>5, <2>1, <3>1
    <3>. QED  BY <3>1, <3>2, <3>3
  <2>. QED  BY <2>2, <2>3
<1>8. Passed(lines, lo, m)
  <2> SUFFICES ASSUME NEW p \in Nat, lo < p, p < m PROVE ~Must(lines, p)  BY DEF Passed
  <2>1. p < hi /\ p # m /\ ~(m < p)  BY <1>6
  <2>. QED  BY <1>7, <2>1
<1>9. Marked(lines, bt, ms, m, hi)
  <2>1. ASSUME NEW i \in 1 .. n - 1
        PROVE  m < bt[i] /\ bt[i] < hi /\ NodeIs(lines, bt[i], ms[i])
    <3>1. i + 1 \in 1 .. n /\ 1 < i + 1  BY <1>1
    <3>. QED  BY <1>0, <1>3, <1>5, <3>1
  <2>2. ASSUME NEW i \in 1 .. n - 1, NEW j \in 1 .. n - 1, i < j PROVE bt[i] < bt[j]
    <3>1. i + 1 \in 1 .. n /\ j + 1 \in 1 .. n /\ i + 1 < j + 1  BY <1>1, <2>2
    <3>2. at[i + 1] < at[j + 1]  BY <1>0, <3>1
    <3>. QED  BY <1>3, <3>2
  <2>3. ASSUME NEW p \in Nat, m < p, p < hi, Must(lines, p) PROVE \E i \in 1 .. n - 1 : bt[i] = p
    <3>1. lo < p /\ p # m  BY <1>6, <2>3
    <3>. QED  BY <1>7, <2>3, <3>1
  <2>. QED  BY <1>3, <2>1, <2>2, <2>3 DEF Marked
<1>. QED  BY <1>3, <1>6, <1>8, <1>9 DEF bt, ms

-----------------------------------------------------------------------------
(* Between two places: what the parser has passed. *)

\* Between the ends of lines k - 1 and k.
InLine(lines, p, k) == p \in Nat /\ LineEnd(lines, k - 1) < p /\ p < LineEnd(lines, k)

LEMMA PlacesInLine ==
  ASSUME NEW lines \in Sources, NEW k \in 1 .. Len(lines), NEW p
  PROVE  /\ IsOpAt(lines, p, k) \/ IsLabelAt(lines, p, k) => InLine(lines, p, k)
         /\ InLine(lines, p, k) => p \in 1 .. Len(Lexed(lines)) - 1
<1>1. /\ LineEnd(lines, k - 1) \in Nat /\ LineEnd(lines, k) \in Nat
      /\ OpAt(lines, k) \in Nat /\ OpAt(lines, k) < LineEnd(lines, k)
      /\ LabelAt(lines, k) = LineEnd(lines, k - 1) + 1
      /\ lines[k].op # NoOp => LineEnd(lines, k - 1) < OpAt(lines, k)
      /\ lines[k].label # NoLabel => LabelAt(lines, k) <= OpAt(lines, k)
      /\ LineEnd(lines, k) < Len(Lexed(lines))
  BY PlacesInOrder
<1>2. Len(Lexed(lines)) \in Nat  BY LexedType
<1>3. InLine(lines, p, k) => p \in 1 .. Len(Lexed(lines)) - 1  BY <1>1, <1>2 DEF InLine
<1>4. IsOpAt(lines, p, k) => InLine(lines, p, k)
  <2>1. NoOp \notin LexedMnemonics  BY AssemblerAssumption
  <2>. QED  BY <1>1, <2>1 DEF IsOpAt, InLine
<1>5. IsLabelAt(lines, p, k) => InLine(lines, p, k)  BY <1>1 DEF IsLabelAt, InLine
<1>. QED  BY <1>3, <1>4, <1>5

LEMMA InLineOrder ==
  ASSUME NEW lines \in Sources, NEW k \in 1 .. Len(lines), NEW j \in 1 .. Len(lines),
         NEW p, NEW r, InLine(lines, p, k), InLine(lines, r, j), k < j
  PROVE  p < r
<1>1. LineEnd(lines, k) <= LineEnd(lines, j - 1)  BY LinesApart
<1>2. LineEnd(lines, k) \in Nat /\ LineEnd(lines, j - 1) \in Nat  BY PlacesInOrder
<1>. QED  BY <1>1, <1>2 DEF InLine

\* The places are in the order of the lines, and a label before its operation.
LEMMA PlacesOrder ==
  ASSUME NEW lines \in Sources, NEW k \in 1 .. Len(lines), NEW j \in 1 .. Len(lines),
         NEW p, NEW r
  PROVE  /\ IsOpAt(lines, p, k) /\ IsOpAt(lines, r, j) => (k < j <=> p < r) /\ (k = j <=> p = r)
         /\ IsLabelAt(lines, p, k) /\ IsLabelAt(lines, r, j) => (k < j <=> p < r) /\ (k = j <=> p = r)
         /\ IsLabelAt(lines, p, k) /\ IsOpAt(lines, r, j) => (k <= j <=> p < r) /\ p # r
<1>0. Len(lines) \in Nat /\ k \in Nat /\ j \in Nat  BY SourceLines
<1>1. /\ IsOpAt(lines, p, k) \/ IsLabelAt(lines, p, k) => InLine(lines, p, k)
      /\ IsOpAt(lines, r, j) \/ IsLabelAt(lines, r, j) => InLine(lines, r, j)
  BY PlacesInLine
<1>2. InLine(lines, p, k) /\ InLine(lines, r, j) =>
        /\ p \in Nat /\ r \in Nat /\ (k < j => p < r) /\ (j < k => r < p)
  BY InLineOrder DEF InLine
<1>3. IsOpAt(lines, p, k) /\ IsOpAt(lines, r, j) /\ k = j => p = r  BY DEF IsOpAt
<1>4. IsLabelAt(lines, p, k) /\ IsLabelAt(lines, r, j) /\ k = j => p = r  BY DEF IsLabelAt
<1>5. IsLabelAt(lines, p, k) /\ IsOpAt(lines, r, j) /\ k = j => p < r
  <2>1. NoOp \notin LexedMnemonics  BY AssemblerAssumption
  <2>2. lines[k].label # NoLabel /\ lines[k].op # NoOp => LabelAt(lines, k) < OpAt(lines, k)
    BY PlacesInOrder
  <2>. QED  BY <2>1, <2>2 DEF IsLabelAt, IsOpAt
<1>6. k < j \/ j < k \/ k = j  BY <1>0
<1>7. IsOpAt(lines, p, k) /\ IsOpAt(lines, r, j) => (k < j <=> p < r) /\ (k = j <=> p = r)
  BY <1>0, <1>1, <1>2, <1>3, <1>6
<1>8. IsLabelAt(lines, p, k) /\ IsLabelAt(lines, r, j) => (k < j <=> p < r) /\ (k = j <=> p = r)
  BY <1>0, <1>1, <1>2, <1>4, <1>6
<1>9. IsLabelAt(lines, p, k) /\ IsOpAt(lines, r, j) => (k <= j <=> p < r) /\ p # r
  BY <1>0, <1>1, <1>2, <1>5, <1>6
<1>. QED  BY <1>7, <1>8, <1>9

\* What the parser steps over holds no place of a node.
LEMMA CrossedIsPassed ==
  ASSUME Given, NEW p \in Nat \ {0}, NEW next, Crossed(p, next)
  PROVE  Passed(source, p - 1, next) /\ next \in Nat \ {0} /\ p <= next /\ next <= Len(tokens)
<1>0. source \in Sources /\ tokens = Lexed(source) /\ Len(tokens) \in Nat  BY KindIs DEF Given
<1>1. next \in p .. Len(tokens)  BY DEF Crossed
<1>2. ASSUME NEW s \in Nat, p - 1 < s, s < next, Must(source, s) PROVE FALSE
  <2>1. s \in p .. next - 1 /\ s \in 1 .. Len(tokens)  BY <1>0, <1>1, <1>2
  <2>2. /\ Kind(s) # "mnemonic"
        /\ Kind(s) = "label" =>
             \E i \in 1 .. Len(source) :
               s = LabelAt(source, i) /\ source[i].label # NoLabel /\ TakenIn(source, i)
    BY <2>1 DEF Crossed
  <2>3. CASE \E k \in 1 .. Len(source) : IsOpAt(source, s, k)
    <3>1. PICK k \in 1 .. Len(source) : source[k].op \in LexedMnemonics /\ s = OpAt(source, k)
      BY <2>3 DEF IsOpAt
    <3>2. Kind(OpAt(source, k)) = "mnemonic"  BY <3>1, MnemonicAt
    <3>. QED  BY <2>2, <3>1, <3>2
  <2>4. CASE \E k \in 1 .. Len(source) : IsLabelAt(source, s, k) /\ ~TakenIn(source, k)
    <3>1. PICK k \in 1 .. Len(source) : IsLabelAt(source, s, k) /\ ~TakenIn(source, k)  BY <2>4
    <3>2. Kind(s) = "label"
      <4>1. LinePlaced(source, k)  BY <1>0, LinesArePlaced
      <4>2. tokens[s] = Token("label", source[k].label)
        BY <1>0, <3>1, <4>1 DEF LinePlaced, IsLabelAt
      <4>. QED  BY <2>1, <4>2, KindIs, TokenFields
    <3>3. PICK i \in 1 .. Len(source) : IsLabelAt(source, s, i) /\ TakenIn(source, i)
      BY <2>2, <3>2 DEF IsLabelAt
    <3>4. i = k  BY <1>0, <3>1, <3>3, PlacesOrder
    <3>. QED  BY <3>1, <3>3, <3>4
  <2>. QED  BY <1>2, <2>3, <2>4 DEF Must
<1>3. next \in Nat \ {0} /\ p <= next /\ next <= Len(tokens)  BY <1>0, <1>1
<1>. QED  BY <1>2, <1>3 DEF Passed

\* Only line ends are skipped.
LEMMA SkipIsPassed ==
  ASSUME Given, NEW p \in 1 .. Len(tokens)
  PROVE  LET q == SkipNewlines(p)
         IN  Passed(source, p - 1, q) /\ q \in 1 .. Len(tokens) /\ q \in Nat \ {0} /\ p <= q
<1> DEFINE q == SkipNewlines(p)
<1>1. q \in p .. Len(tokens) /\ \A r \in p .. q - 1 : Kind(r) = "newline"  BY Skipped
<1> HIDE DEF q
<1>2. Crossed(p, q)  BY <1>1 DEF Crossed
<1>3. p \in Nat \ {0} /\ Len(tokens) \in Nat  BY KindIs
<1>4. Passed(source, p - 1, q)  BY <1>2, <1>3, CrossedIsPassed
<1>. QED  BY <1>1, <1>3, <1>4 DEF q

LEMMA PassedOn ==
  ASSUME NEW lines, NEW lo \in Nat, NEW m \in Nat, NEW hi \in Nat,
         Passed(lines, lo, m), Passed(lines, m - 1, hi)
  PROVE  Passed(lines, lo, hi)
<1> SUFFICES ASSUME NEW p \in Nat, lo < p, p < hi PROVE ~Must(lines, p)  BY DEF Passed
<1>1. p < m \/ m - 1 < p  OBVIOUS
<1>. QED  BY <1>1 DEF Passed

\* One more place, which is none of a node.
LEMMA PassedOne ==
  ASSUME Given, NEW p \in 1 .. Len(tokens), Kind(p) \notin {"mnemonic", "label"}
  PROVE  Passed(source, p - 1, p + 1)
<1>1. Len(tokens) \in Nat /\ p \in Nat \ {0}  BY KindIs
<1>2. CASE p = Len(tokens)
  <2>0. source \in Sources /\ tokens = Lexed(source)  BY DEF Given
  <2> SUFFICES ASSUME NEW s \in Nat, p - 1 < s, s < p + 1, Must(source, s) PROVE FALSE
    BY DEF Passed
  <2>1. s = Len(tokens)  BY <1>1, <1>2
  <2>2. PICK k \in 1 .. Len(source) : IsOpAt(source, s, k) \/ IsLabelAt(source, s, k)  BY DEF Must
  <2>3. s \in 1 .. Len(tokens) - 1  BY <2>0, <2>2, PlacesInLine
  <2>. QED  BY <1>1, <2>1, <2>3
<1>3. CASE p # Len(tokens)
  <2>1. Kind(p) # "eof"
    <3>1. TokenFacts(source, p) /\ tokens = Lexed(source)  BY TokensHaveFacts DEF Given
    <3>2. Kind(p) = tokens[p].kind  BY KindIs
    <3>. QED  BY <1>3, <3>1, <3>2 DEF TokenFacts
  <2>2. Crossed(p, p + 1)
    <3>1. p + 1 \in p .. Len(tokens) /\ \A s \in p .. (p + 1) - 1 : s = p  BY <1>1, <1>3
    <3>. QED  BY <2>1, <3>1 DEF Crossed
  <2>. QED  BY <1>1, <2>2, CrossedIsPassed
<1>. QED  BY <1>2, <1>3

-----------------------------------------------------------------------------
(* The first steps of the parser on a line. *)

\* The operands of line k up to the r-th, when the parser is behind it.
OpsPartial(lines, k, ops, p) ==
  LET args == lines[k].args
  IN  /\ ops \in Seq(Operands) /\ ops # <<>>
      /\ TakesRegister(args) =>
           /\ ~IsPlainMemory(args) /\ Len(ops) \in 1 .. Len(args)
           /\ p = ArgEnd(lines, k, Len(ops)) + 1
           /\ \A i \in 1 .. Len(ops) : ops[i] = OperandOf(args[i])
      /\ CallOk(lines, k, ops)

\* The instruction of line k is being parsed, and the parser is at p.
Pending(lines, at, ns, k, node, p, ph) ==
  /\ lines[k].op \in LexedMnemonics
  /\ Marked(lines, at, ns, 0, OpAt(lines, k))
  /\ Passed(lines, OpAt(lines, k), p) /\ OpAt(lines, k) < p
  /\ node = [kind |-> "instruction", name |-> lines[k].op, ops |-> node.ops]
  /\ ph = "node" => OpsGood(lines, k, node.ops)
  /\ ph = "operands" => OpsPartial(lines, k, node.ops, p)

LEMMA LabelNode ==
  ASSUME Given, NEW p \in 1 .. Len(tokens), NEW at, Marked(source, at, nodes, 0, p), Kind(p) = "label"
  PROVE  /\ Marked(source, Append(at, p), Append(nodes, [kind |-> "label", name |-> Val(p)]), 0, p + 1)
         /\ p + 1 \in 1 .. Len(tokens)
<1> DEFINE node == [kind |-> "label", name |-> Val(p)]
<1>0. source \in Sources /\ Len(tokens) \in Nat /\ p \in Nat /\ p \in Nat \ {0} /\ 0 < p /\ 0 \in Nat
  BY KindIs DEF Given
<1>1. PICK k \in 1 .. Len(source) : IsLabelAt(source, p, k) /\ Val(p) = source[k].label
  BY <1>0, KindFacts DEF IsLabelAt
<1>2. source[k] \in Lines  BY <1>0, SourceLines
<1>3. Val(p) \in Names  BY <1>1, <1>2, LineFields DEF IsLabelAt
<1>4. node \in Nodes /\ node.kind = "label" /\ node.name = Val(p)  BY <1>3 DEF Nodes
<1> HIDE DEF node
<1>5. NodeIs(source, p, node)  BY <1>1, <1>4 DEF NodeIs
<1>6. Marked(source, Append(at, p), Append(nodes, node), 0, p + 1)
  BY <1>0, <1>4, <1>5, MarkedAppend
<1>7. p + 1 \in 1 .. Len(tokens)
  <2>1. Kind(p) # "eof"  OBVIOUS
  <2>2. p \in 1 .. Len(tokens) - 1  BY <1>0, <2>1, KindIs
  <2>. QED  BY <1>0, <2>2
<1>. QED  BY <1>6, <1>7 DEF node

LEMMA SkippedMarked ==
  ASSUME Given, NEW p \in 1 .. Len(tokens), NEW at, Marked(source, at, nodes, 0, p)
  PROVE  Marked(source, at, nodes, 0, SkipNewlines(p))
<1> DEFINE q == SkipNewlines(p)
<1>1. Passed(source, p - 1, q) /\ q \in Nat /\ p <= q  BY SkipIsPassed
<1>2. p \in Nat /\ 0 \in Nat  BY KindIs
<1> HIDE DEF q
<1>3. Marked(source, at, nodes, 0, q)  BY <1>1, <1>2, MarkedExtend
<1>. QED  BY <1>3 DEF q

\* What the parser finds behind a mnemonic.
FirstArgs(q) ==
  IF IsMemory(q) THEN List(MemoryOperands(q), Closed(q + 5)) ELSE FirstOperand(q)

LEMMA FirstKinds ==
  ASSUME NEW lines \in Sources, NEW k \in 1 .. Len(lines), lines[k].op \in LexedMnemonics
  PROVE  \/ lines[k].args = <<>> \/ lines[k].args[1].kind = "label"
         \/ TakesRegister(lines[k].args)
<1>1. Operates(FormatOf(lines[k].op), lines[k].args) /\ FormatOf(lines[k].op) \in Formats
  BY LegalOperates
<1>. QED  BY <1>1 DEF Operates, Formats, TakesRegister

LEMMA OperandOfType ==
  ASSUME NEW a \in Args
  PROVE  OperandOf(a) \in Operands /\ (OperandOf(a).kind = "label" <=> a.kind = "label")
         /\ OperandOf(a).val = a.val
<1> DEFINE kind == IF a.kind = "memory" THEN "immediate" ELSE a.kind
<1>1. \/ a.kind = "register" /\ a.val \in Registers
      \/ a.kind = "immediate" /\ a.val \in Int
      \/ a.kind = "label" /\ a.val \in Names
      \/ a.kind = "memory" /\ a.val \in Int
  BY ArgsHaveKinds
<1>2. a.val \in Int \union Names \union Ops
  <2>1. \A n \in Registers : n \in Int  BY DEF Registers
  <2>. QED  BY <1>1, <2>1
<1>3. kind \in OperandKinds /\ (kind = "label" <=> a.kind = "label")  BY <1>1 DEF OperandKinds
<1> HIDE DEF kind
<1>4. Operand(kind, a.val) \in Operands /\ Operand(kind, a.val).kind = kind /\ Operand(kind, a.val).val = a.val
  BY <1>2, <1>3, OperandType
<1>5. OperandOf(a) = Operand(kind, a.val)  BY DEF OperandOf, kind
<1>. QED  BY <1>3, <1>4, <1>5

LEMMA OneIsSeq ==
  ASSUME NEW o \in Operands PROVE <<o>> \in Seq(Operands) /\ Len(<<o>>) = 1 /\ <<o>>[1] = o /\ <<o>> # <<>>
BY OneOperand

\* An instruction whose first operand is lost.
LEMMA StartLost ==
  ASSUME Given, NEW k \in 1 .. Len(source), source[k].op \in LexedMnemonics,
         source[k].args = <<>> \/ source[k].args[1].kind = "label"
  PROVE  LET p == OpAt(source, k)
             q == SkipNewlines(p + 1)
             r == FirstArgs(q)
         IN  /\ ~IsMemory(q) /\ Passed(source, p, r.next) /\ p < r.next /\ r.next \in 1 .. Len(tokens)
             /\ OpsGood(source, k, r.ops)
             /\ r.ops # <<>> => OpsPartial(source, k, r.ops, r.next)
<1> DEFINE p == OpAt(source, k)
           q == SkipNewlines(p + 1)
           r == FirstOperand(q)
<1>0. source \in Sources /\ Len(tokens) \in Nat  BY KindIs DEF Given
<1>1. /\ ~IsMemory(q) /\ Crossed(p + 1, r.next)
      /\ r.ops = <<>> \/ \E o \in Operands : r.ops = <<o>>
      /\ source[k].op = "call" /\ r.ops # <<>> /\ r.ops[1].kind = "label"
           => CallsElsewhere(source, k, r.ops[1].val)
  BY FirstIsLost
<1>2. p \in Nat  BY MnemonicAt
<1>3. FirstArgs(q) = r  BY <1>1 DEF FirstArgs
<1> HIDE DEF p, q, r
<1>4. p + 1 \in Nat \ {0} /\ (p + 1) - 1 = p  BY <1>2
<1>5. Passed(source, p, r.next) /\ r.next \in Nat /\ p + 1 <= r.next /\ r.next <= Len(tokens)
  BY <1>1, <1>4, CrossedIsPassed
<1>6. ~TakesRegister(source[k].args)  BY DEF TakesRegister
<1>7. r.ops \in Seq(Operands)
  <2>1. <<>> \in Seq(Operands)  BY EmptySeq
  <2>. QED  BY <1>1, <2>1, OneIsSeq
<1>8. CallOk(source, k, r.ops)  BY <1>1 DEF CallOk
<1>9. OpsGood(source, k, r.ops)  BY <1>6, <1>7, <1>8 DEF OpsGood
<1>10. r.ops # <<>> => OpsPartial(source, k, r.ops, r.next)  BY <1>6, <1>7, <1>8 DEF OpsPartial
<1>11. p < r.next /\ r.next \in 1 .. Len(tokens)  BY <1>0, <1>2, <1>5
<1>. QED  BY <1>1, <1>3, <1>5, <1>9, <1>10, <1>11 DEF p, q, r

\* call takes a label.
LEMMA NoCall ==
  ASSUME NEW lines \in Sources, NEW k \in 1 .. Len(lines), lines[k].op \in LexedMnemonics,
         TakesRegister(lines[k].args), NEW ops
  PROVE  CallOk(lines, k, ops)
<1>1. lines[k].op # "call"
  <2>1. Operates(FormatOf(lines[k].op), lines[k].args)  BY LegalOperates
  <2>2. Operates("call", lines[k].args) => lines[k].args[1].kind = "label"  BY DEF Operates
  <2>3. FormatOf("call") = "call"  BY DEF FormatOf, Mnemonics
  <2>. QED  BY <2>1, <2>2, <2>3 DEF TakesRegister
<1>. QED  BY <1>1 DEF CallOk

\* An instruction that begins with a register.
LEMMA StartParsed ==
  ASSUME Given, NEW k \in 1 .. Len(source), source[k].op \in LexedMnemonics,
         TakesRegister(source[k].args)
  PROVE  LET p == OpAt(source, k)
             q == SkipNewlines(p + 1)
             r == FirstArgs(q)
         IN  /\ Passed(source, p, r.next) /\ p < r.next /\ r.next \in 1 .. Len(tokens)
             /\ IsMemory(q) => OpsGood(source, k, r.ops)
             /\ ~IsMemory(q) => OpsPartial(source, k, r.ops, r.next)
<1> DEFINE args == source[k].args
           p == OpAt(source, k)
           q == SkipNewlines(p + 1)
           r == FirstArgs(q)
<1>0. source \in Sources /\ Len(tokens) \in Nat /\ p \in Nat  BY KindIs, MnemonicAt DEF Given
<1>1. /\ 1 \in 1 .. Len(args) /\ 2 \in 1 .. Len(args)
      /\ IsPlainMemory(args) =>
           /\ IsMemory(q) /\ Closed(q + 5) = ArgEnd(source, k, 2) + 1
           /\ MemoryOperands(q) =
                <<Operand("register", args[1].val), Operand("register", args[2].base),
                  Operand("immediate", args[2].val)>>
      /\ ~IsPlainMemory(args) =>
           /\ ~IsMemory(q)
           /\ FirstOperand(q) = List(<<OperandOf(args[1])>>, ArgEnd(source, k, 1) + 1)
  <2>1. args # <<>> /\ args[1].kind = "register"  BY DEF TakesRegister
  <2>. QED  BY <2>1, FirstIsParsed
<1>2. \A ops : CallOk(source, k, ops)  BY <1>0, NoCall
<1>3. ASSUME NEW n \in 1 .. Len(args)
      PROVE  Passed(source, p, ArgEnd(source, k, n) + 1) /\ p < ArgEnd(source, k, n) + 1
             /\ ArgEnd(source, k, n) + 1 \in 1 .. Len(tokens)
  <2>1. ArgPlaced(source, k, n)  BY <1>0, LinesArePlaced
  <2>2. p <= ArgEnd(source, k, n)
    <3>1. /\ p <= ArgEnd(source, k, n - 1) /\ ArgEnd(source, k, n - 1) \in Nat
          /\ ArgAt(source, k, n) = ArgEnd(source, k, n - 1) + Comma(n)
          /\ ArgEnd(source, k, n) = ArgAt(source, k, n) + Len(ArgTokens(args[n]))
          /\ Len(ArgTokens(args[n])) \in Nat
      BY <2>1 DEF ArgPlaced
    <3>2. Comma(n) \in 0 .. 1  BY DEF Comma
    <3>. QED  BY ONLY <1>0, <3>1, <3>2
  <2>3. ArgEnd(source, k, n) \in Nat  BY AfterArg
  <2>4. p + 1 \in Nat /\ OpAt(source, k) < p + 1 /\ p + 1 <= ArgEnd(source, k, n) + 1
        /\ p + 1 \in Nat \ {0} /\ (p + 1) - 1 = p
    BY <1>0, <2>2, <2>3
  <2>5. Crossed(p + 1, ArgEnd(source, k, n) + 1)  BY <2>4, ArgsCrossed
  <2>6. Passed(source, p, ArgEnd(source, k, n) + 1) /\ ArgEnd(source, k, n) + 1 <= Len(tokens)
    BY <2>4, <2>5, CrossedIsPassed
  <2> HIDE DEF p
  <2>7. p < ArgEnd(source, k, n) + 1 /\ ArgEnd(source, k, n) + 1 \in 1 .. Len(tokens)
    BY <1>0, <2>2, <2>3, <2>6
  <2>. QED  BY <2>6, <2>7
<1>4. source[k] \in Lines  BY <1>0, SourceLines
<1>5. args[1] \in Args /\ args[2] \in Args  BY <1>1, <1>4, LineFields
<1>6. CASE IsPlainMemory(args)
  <2> DEFINE ops == <<Operand("register", args[1].val), Operand("register", args[2].base),
                      Operand("immediate", args[2].val)>>
  <2>1. r.ops = ops /\ r.next = ArgEnd(source, k, 2) + 1 /\ IsMemory(q)
    BY <1>1, <1>6, ListFields DEF FirstArgs
  <2>2. ops \in Seq(Operands)
    <3> DEFINE x == Operand("register", args[1].val)
               y == Operand("register", args[2].base)
               z == Operand("immediate", args[2].val)
    <3>1. x \in Operands /\ y \in Operands /\ z \in Operands
      <4>1. args[1].kind = "register"  BY DEF TakesRegister
      <4>2. args[2].kind = "memory"  BY <1>6 DEF IsPlainMemory
      <4>3. args[1].val \in Registers /\ args[2].base \in Registers /\ args[2].val \in Int
        BY <1>5, <4>1, <4>2, ArgsHaveKinds
      <4>4. \A n \in Registers : n \in Int  BY DEF Registers
      <4>5. "register" \in OperandKinds /\ "immediate" \in OperandKinds  BY DEF OperandKinds
      <4>. QED  BY <4>3, <4>4, <4>5, OperandType
    <3> HIDE DEF x, y, z
    <3>2. <<x, y, z>> \in Seq(Operands)  BY <3>1
    <3>. QED  BY <3>2 DEF x, y, z
  <2> HIDE DEF ops
  <2>3. OpsGood(source, k, ops)  BY <1>2, <1>6, <2>2 DEF OpsGood, ops
  <2>. QED  BY <1>1, <1>3, <2>1, <2>3
<1>7. CASE ~IsPlainMemory(args)
  <2> DEFINE o == OperandOf(args[1])
  <2>1. r.ops = <<o>> /\ r.next = ArgEnd(source, k, 1) + 1 /\ ~IsMemory(q)
    BY <1>1, <1>7, ListFields DEF FirstArgs
  <2>2. o \in Operands  BY <1>5, OperandOfType
  <2>3. o = OperandOf(source[k].args[1])  OBVIOUS
  <2> HIDE DEF o, r
  <2>4. <<o>> \in Seq(Operands) /\ Len(<<o>>) = 1 /\ <<o>>[1] = o /\ <<o>> # <<>>  BY <2>2, OneIsSeq
  <2>5. OpsPartial(source, k, r.ops, r.next)
    <3>1. \A i \in 1 .. 1 : i = 1  OBVIOUS
    <3>2. Len(r.ops) = 1 /\ \A i \in 1 .. Len(r.ops) : r.ops[i] = OperandOf(source[k].args[i])
      BY <2>1, <2>3, <2>4, <3>1
    <3>. QED  BY <1>1, <1>2, <1>7, <2>1, <2>4, <3>2 DEF OpsPartial
  <2>. QED  BY <1>1, <1>3, <2>1, <2>5 DEF r
<1>. QED  BY <1>6, <1>7

\* The parser starts a line's instruction.
LEMMA StartNode ==
  ASSUME Given, NEW p \in 1 .. Len(tokens), NEW at, Marked(source, at, nodes, 0, p), Kind(p) = "mnemonic"
  PROVE  LET q == SkipNewlines(p + 1)
             r == FirstArgs(q)
             node == [kind |-> "instruction", name |-> Val(p), ops |-> r.ops]
             ph == IF IsMemory(q) \/ r.ops = <<>> THEN "node" ELSE "operands"
         IN  /\ \E k \in 1 .. Len(source) : Pending(source, at, nodes, k, node, r.next, ph)
             /\ r.next \in 1 .. Len(tokens)
<1> DEFINE q == SkipNewlines(p + 1)
           r == FirstArgs(q)
           node == [kind |-> "instruction", name |-> Val(p), ops |-> r.ops]
           ph == IF IsMemory(q) \/ r.ops = <<>> THEN "node" ELSE "operands"
<1>0. source \in Sources /\ Len(tokens) \in Nat /\ p \in Nat \ {0}  BY KindIs DEF Given
<1>1. PICK k \in 1 .. Len(source) :
         p = OpAt(source, k) /\ source[k].op \in LexedMnemonics /\ Val(p) = source[k].op
  BY <1>0, KindFacts
<1>2. /\ Passed(source, p, r.next) /\ p < r.next /\ r.next \in 1 .. Len(tokens)
      /\ IsMemory(q) \/ r.ops = <<>> => OpsGood(source, k, r.ops)
      /\ ~(IsMemory(q) \/ r.ops = <<>>) => OpsPartial(source, k, r.ops, r.next)
  <2>1. CASE source[k].args = <<>> \/ source[k].args[1].kind = "label"
    BY <1>1, <2>1, StartLost
  <2>2. CASE TakesRegister(source[k].args)
    <3>1. /\ Passed(source, p, r.next) /\ p < r.next /\ r.next \in 1 .. Len(tokens)
          /\ IsMemory(q) => OpsGood(source, k, r.ops)
          /\ ~IsMemory(q) => OpsPartial(source, k, r.ops, r.next)
      BY <1>1, <2>2, StartParsed
    <3>2. ~IsMemory(q) => r.ops # <<>>  BY <3>1 DEF OpsPartial
    <3>. QED  BY <3>1, <3>2
  <2>. QED  BY <1>0, <1>1, <2>1, <2>2, FirstKinds
<1>3. node.ops = r.ops /\ node = [kind |-> "instruction", name |-> source[k].op, ops |-> node.ops]
  BY <1>1
<1>4. (ph = "node" <=> IsMemory(q) \/ r.ops = <<>>) /\ (ph = "operands" <=> ~(IsMemory(q) \/ r.ops = <<>>))
  OBVIOUS
<1> HIDE DEF q, r, node, ph
<1>5. Pending(source, at, nodes, k, node, r.next, ph)
  BY <1>1, <1>2, <1>3, <1>4 DEF Pending
<1>. QED  BY <1>2, <1>5 DEF q, r, node, ph

-----------------------------------------------------------------------------
(* The loop over the operands, and its end. *)

LEMMA ConcatOne ==
  ASSUME NEW ops \in Seq(Operands), ops # <<>>, NEW more,
         more = <<>> \/ \E o \in Operands : more = <<o>>
  PROVE  /\ ops \o more \in Seq(Operands) /\ ops \o more # <<>> /\ (ops \o more)[1] = ops[1]
         /\ \A o \in Operands : more = <<o>> =>
              /\ Len(ops \o more) = Len(ops) + 1 /\ (ops \o more)[Len(ops) + 1] = o
              /\ \A i \in 1 .. Len(ops) : (ops \o more)[i] = ops[i]
<1>1. CASE more = <<>>
  <2>1. ops \o more = ops  BY <1>1
  <2>2. \A o \in Operands : more # <<o>>  BY <1>1, OneOperand
  <2>. QED  BY <2>1, <2>2
<1>2. ASSUME NEW o \in Operands, more = <<o>>
      PROVE  /\ ops \o more \in Seq(Operands) /\ ops \o more # <<>> /\ (ops \o more)[1] = ops[1]
             /\ Len(ops \o more) = Len(ops) + 1 /\ (ops \o more)[Len(ops) + 1] = o
             /\ \A i \in 1 .. Len(ops) : (ops \o more)[i] = ops[i]
  <2>1. more \in Seq(Operands) /\ Len(more) = 1 /\ more[1] = o  BY <1>2, OneIsSeq
  <2>2. Len(ops) \in Nat \ {0} /\ Len(ops) \in Nat  BY EmptySeq
  <2>3. /\ ops \o more \in Seq(Operands) /\ Len(ops \o more) = Len(ops) + 1
        /\ \A i \in 1 .. Len(ops) : (ops \o more)[i] = ops[i]
        /\ \A i \in 1 .. 1 : (ops \o more)[Len(ops) + i] = more[i]
    <3>1. ops \in Seq(Operands) /\ more \in Seq(Operands)  BY <2>1
    <3>2. /\ ops \o more \in Seq(Operands) /\ Len(ops \o more) = Len(ops) + Len(more)
          /\ \A i \in 1 .. Len(ops) : (ops \o more)[i] = ops[i]
          /\ \A i \in 1 .. Len(more) : (ops \o more)[Len(ops) + i] = more[i]
      BY ONLY <3>1, ConcatPlaces
    <3>. QED  BY <2>1, <3>2
  <2>4. 1 \in 1 .. Len(ops) /\ 1 \in 1 .. 1  BY <2>2
  <2>5. ops \o more # <<>>
    <3>1. Len(<<>>) = 0  BY EmptySeq
    <3>. QED  BY <2>2, <2>3, <3>1
  <2>. QED  BY <2>1, <2>3, <2>4, <2>5
<1>. QED
  <2>1. \A o, p \in Operands : <<o>> = <<p>> => o = p  OBVIOUS
  <2>. QED  BY <1>1, <1>2

LEMMA OpsExtended ==
  ASSUME NEW name, NEW ops, NEW more, NEW node,
         node = [kind |-> "instruction", name |-> name, ops |-> ops]
  PROVE  [node EXCEPT !.ops = @ \o more] = [kind |-> "instruction", name |-> name, ops |-> ops \o more]
<1>1. node.ops = ops  OBVIOUS
<1> DEFINE new == ops \o more
<1>2. [node EXCEPT !.ops = @ \o more] = [node EXCEPT !.ops = new]  BY <1>1
<1> HIDE DEF new
<1>3. [node EXCEPT !.ops = new] = [kind |-> "instruction", name |-> name, ops |-> new]  OBVIOUS
<1>. QED  BY <1>2, <1>3 DEF new

\* One more operand.
LEMMA NextOperand ==
  ASSUME Given, NEW k \in 1 .. Len(source), pos \in 1 .. Len(tokens), NEW at,
         Pending(source, at, nodes, k, inst, pos, "operands"), Kind(pos) = "comma"
  PROVE  LET p == SkipNewlines(pos + 1)
             r == ParseOperand(p)
         IN  /\ Pending(source, at, nodes, k, [inst EXCEPT !.ops = @ \o r.ops], r.next, "operands")
             /\ r.next \in 1 .. Len(tokens)
<1> DEFINE p == pos + 1
           r == ParseOperand(p)
           lo == OpAt(source, k)
           args == source[k].args
           ops == inst.ops
           new == ops \o r.ops
<1>0. source \in Sources /\ Len(tokens) \in Nat /\ pos \in Nat \ {0} /\ lo \in Nat
  BY KindIs, MnemonicAt DEF Given, Pending
<1>1. p \in 1 .. Len(tokens) /\ Kind(p) \in StartsArg  BY <1>0, KindFacts
<1>2. SkipNewlines(p) = p  BY <1>1, NothingSkipped DEF StartsArg
<1>3. Within(p, r)  BY <1>1, OperandWithin
<1>4. p \in Nat \ {0} /\ p - 1 = pos /\ p = pos + 1  BY <1>0
<1> HIDE DEF p, r
<1>5. Crossed(p, r.next)
  <2>1. r.next \in p .. Len(tokens) /\ \A s \in p .. r.next - 1 : Kind(s) \notin {"mnemonic", "eof", "label"}
    BY <1>1, <1>3 DEF Within, StartsArg
  <2>. QED  BY <2>1 DEF Crossed
<1>6. Passed(source, pos, r.next) /\ r.next \in Nat \ {0} /\ p <= r.next /\ r.next <= Len(tokens)
  BY <1>4, <1>5, CrossedIsPassed
<1>7. Passed(source, lo, pos) /\ lo < pos /\ source[k].op \in LexedMnemonics
      /\ Marked(source, at, nodes, 0, lo) /\ OpsPartial(source, k, ops, pos)
      /\ inst = [kind |-> "instruction", name |-> source[k].op, ops |-> ops]
  BY DEF Pending
<1> HIDE DEF lo
<1>8. Passed(source, pos - 1, p)  BY <1>4, PassedOne
<1>9. Passed(source, lo, r.next)
  <2>1. Passed(source, lo, p)  BY <1>0, <1>4, <1>7, <1>8, PassedOn
  <2>2. Passed(source, p - 1, r.next)  BY <1>4, <1>6
  <2>. QED  BY <1>0, <1>4, <1>6, <2>1, <2>2, PassedOn
<1>10. lo < r.next /\ r.next \in 1 .. Len(tokens)  BY <1>0, <1>4, <1>6, <1>7
<1>11. ops \in Seq(Operands) /\ ops # <<>> /\ CallOk(source, k, ops)  BY <1>7 DEF OpsPartial
<1>12. r.ops = <<>> \/ \E o \in Operands : r.ops = <<o>>  BY <1>3 DEF Within
<1> HIDE DEF ops
<1>13. new \in Seq(Operands) /\ new # <<>> /\ new[1] = ops[1]  BY <1>11, <1>12, ConcatOne
<1>14. CallOk(source, k, new)  BY <1>11, <1>13 DEF CallOk
<1>15. OpsPartial(source, k, new, r.next)
  <2>1. ASSUME TakesRegister(args)
        PROVE  /\ ~IsPlainMemory(args) /\ Len(new) \in 1 .. Len(args)
               /\ r.next = ArgEnd(source, k, Len(new)) + 1
               /\ \A i \in 1 .. Len(new) : new[i] = OperandOf(args[i])
    <3> DEFINE m == Len(ops)
    <3>1. /\ ~IsPlainMemory(args) /\ m \in 1 .. Len(args) /\ pos = ArgEnd(source, k, m) + 1
          /\ \A i \in 1 .. m : ops[i] = OperandOf(args[i])
      BY <1>7, <2>1 DEF OpsPartial
    <3>2. m # Len(args) /\ m + 1 \in 1 .. Len(args) /\ ArgAt(source, k, m + 1) = pos
      <4>1. m \in 1 .. Len(source[k].args)  BY <3>1
      <4>2. /\ m # Len(args) => m + 1 \in 1 .. Len(args) /\ ArgAt(source, k, m + 1) = pos
            /\ m = Len(args) => Kind(pos) = "newline"
        BY <3>1, <4>1, AfterArg
      <4>. QED  BY <4>2
    <3>3. m \in Nat  BY <1>11
    <3> HIDE DEF m
    <3>4. ParseOperand(ArgAt(source, k, m + 1) + 1)
            = List(<<OperandOf(args[m + 1])>>, ArgEnd(source, k, m + 1) + 1)
      BY <3>2, ArgParsed
    <3>5. r.ops = <<OperandOf(args[m + 1])>> /\ r.next = ArgEnd(source, k, m + 1) + 1
      BY <3>2, <3>4, <1>4, ListFields DEF r
    <3>6. OperandOf(args[m + 1]) \in Operands
      <4>1. source[k] \in Lines  BY <1>0, SourceLines
      <4>2. args[m + 1] \in Args  BY <3>2, <4>1, LineFields
      <4>. QED  BY <4>2, OperandOfType
    <3>7. Len(new) = m + 1 /\ new[m + 1] = OperandOf(args[m + 1])
          /\ \A i \in 1 .. m : new[i] = ops[i]
      BY <1>11, <1>12, <3>5, <3>6, ConcatOne DEF m
    <3>8. \A i \in 1 .. m + 1 : i = m + 1 \/ i \in 1 .. m  BY <3>3
    <3>9. \A i \in 1 .. Len(new) : new[i] = OperandOf(args[i])
      BY <3>1, <3>7, <3>8
    <3>. QED  BY <3>1, <3>2, <3>5, <3>7, <3>9
  <2>. QED  BY <1>13, <1>14, <2>1 DEF OpsPartial
<1>16. Pending(source, at, nodes, k, [inst EXCEPT !.ops = @ \o r.ops], r.next, "operands")
  <2>1. [inst EXCEPT !.ops = @ \o r.ops] = [kind |-> "instruction", name |-> source[k].op, ops |-> new]
    BY <1>7, OpsExtended
  <2> DEFINE node == [kind |-> "instruction", name |-> source[k].op, ops |-> new]
  <2>2. node.ops = new /\ node = [kind |-> "instruction", name |-> source[k].op, ops |-> node.ops]  OBVIOUS
  <2> HIDE DEF node, new
  <2>3. Pending(source, at, nodes, k, node, r.next, "operands")
    BY <1>7, <1>9, <1>10, <1>15, <2>2 DEF Pending, lo
  <2>. QED  BY <2>1, <2>3 DEF node
<1>. QED  BY <1>2, <1>10, <1>16 DEF r, p

\* The instruction is complete.
LEMMA InstructionDone ==
  ASSUME Given, NEW k \in 1 .. Len(source), pos \in 1 .. Len(tokens), NEW at,
         Pending(source, at, nodes, k, inst, pos, phase),
         phase = "node" \/ (phase = "operands" /\ Kind(pos) # "comma")
  PROVE  \E bt : Marked(source, bt, Append(nodes, inst), 0, pos)
<1> DEFINE lo == OpAt(source, k)
           args == source[k].args
           ops == inst.ops
<1>0. source \in Sources /\ pos \in Nat /\ lo \in Nat /\ lo \in 1 .. Len(tokens)
  BY KindIs, MnemonicAt DEF Given, Pending
<1>1. /\ Passed(source, lo, pos) /\ lo < pos /\ source[k].op \in LexedMnemonics
      /\ Marked(source, at, nodes, 0, lo)
      /\ inst = [kind |-> "instruction", name |-> source[k].op, ops |-> ops]
      /\ phase = "node" => OpsGood(source, k, ops)
      /\ phase = "operands" => OpsPartial(source, k, ops, pos)
  BY DEF Pending
<1>2. OpsGood(source, k, ops)
  <2> SUFFICES ASSUME phase = "operands", Kind(pos) # "comma" PROVE OpsGood(source, k, ops)
    BY <1>1
  <2>1. OpsPartial(source, k, ops, pos)  BY <1>1
  <2>2. ASSUME TakesRegister(args)
        PROVE  ~IsPlainMemory(args) /\ Len(ops) = Len(args) /\ \A i \in 1 .. Len(args) : ops[i] = OperandOf(args[i])
    <3>1. /\ ~IsPlainMemory(args) /\ Len(ops) \in 1 .. Len(args) /\ pos = ArgEnd(source, k, Len(ops)) + 1
          /\ \A i \in 1 .. Len(ops) : ops[i] = OperandOf(args[i])
      BY <2>1, <2>2 DEF OpsPartial
    <3> DEFINE m == Len(ops)
    <3>2. m \in 1 .. Len(source[k].args)  BY <3>1
    <3>3. m # Len(args) => Kind(pos) = "comma"  BY <3>1, <3>2, AfterArg
    <3>. QED  BY <3>1, <3>3
  <2>. QED  BY <2>1, <2>2 DEF OpsPartial, OpsGood
<1>3. inst \in Nodes
  <2>1. ops \in Seq(Operands)  BY <1>2 DEF OpsGood
  <2>. QED  BY <1>1, <2>1 DEF Nodes
<1>4. NodeIs(source, lo, inst)
  <2>1. inst.kind = "instruction" /\ inst.name = source[k].op  BY <1>1
  <2>2. IsOpAt(source, lo, k)  BY <1>1 DEF IsOpAt
  <2>. QED  BY <1>2, <2>1, <2>2 DEF NodeIs
<1> HIDE DEF lo
<1>5. Marked(source, Append(at, lo), Append(nodes, inst), 0, lo + 1)
  <2>1. 0 \in Nat /\ 0 < lo  BY <1>0
  <2>. QED  BY <1>0, <1>1, <1>3, <1>4, <2>1, MarkedAppend
<1>6. Marked(source, Append(at, lo), Append(nodes, inst), 0, pos)
  <2>1. lo + 1 \in Nat /\ (lo + 1) - 1 = lo /\ lo + 1 <= pos /\ 0 \in Nat  BY <1>0, <1>1
  <2>. QED  BY <1>0, <1>1, <1>5, <2>1, MarkedExtend
<1>. QED  BY <1>6

\* What cannot start a line.
LEMMA UnknownSkipped ==
  ASSUME Given, pos \in 1 .. Len(tokens), NEW at, Marked(source, at, nodes, 0, pos),
         Kind(SkipNewlines(pos)) \notin {"label", "mnemonic", "eof"}
  PROVE  LET p == SkipNewlines(pos)
         IN  Marked(source, at, nodes, 0, p + 1) /\ p + 1 \in 1 .. Len(tokens)
<1> DEFINE p == SkipNewlines(pos)
<1>1. Marked(source, at, nodes, 0, p)  BY SkippedMarked
<1>2. p \in 1 .. Len(tokens) /\ p \in Nat \ {0}  BY SkipIsPassed
<1> HIDE DEF p
<1>3. Kind(p) \notin {"label", "mnemonic", "eof"}  BY DEF p
<1>4. p \in 1 .. Len(tokens) - 1 /\ Len(tokens) \in Nat  BY <1>2, <1>3, KindIs
<1>5. Passed(source, p - 1, p + 1)  BY <1>2, <1>3, PassedOne
<1>6. p + 1 \in 1 .. Len(tokens) /\ p \in Nat /\ p + 1 \in Nat /\ p <= p + 1 /\ 0 \in Nat
  BY <1>2, <1>4
<1>7. Marked(source, at, nodes, 0, p + 1)  BY <1>1, <1>5, <1>6, MarkedExtend
<1>. QED  BY <1>6, <1>7 DEF p

\* At the end of the file every line has its node.
LEMMA AllParsed ==
  ASSUME Given, pos \in 1 .. Len(tokens), NEW at, Marked(source, at, nodes, 0, pos),
         Kind(SkipNewlines(pos)) = "eof"
  PROVE  Marked(source, at, nodes, 0, Len(tokens))
<1> DEFINE p == SkipNewlines(pos)
<1>1. Marked(source, at, nodes, 0, p)  BY SkippedMarked
<1>2. p \in 1 .. Len(tokens)  BY SkipIsPassed
<1>3. TokenFacts(source, p)  BY <1>2, TokensHaveFacts DEF Given
<1>4. Kind(p) = tokens[p].kind  BY <1>2, KindIs
<1>5. p = Len(tokens)  BY <1>3, <1>4 DEF TokenFacts, Given
<1>. QED  BY <1>1, <1>5

-----------------------------------------------------------------------------
(* The operands of an instruction are those its format encodes. *)

Immediates == -(2 ^ 11) .. 2 ^ 11 - 1

\* What the operands of an instruction of format f are, when there are enough of them.
OperandsAre(f, args, ops) ==
  /\ f \in {"R", "I", "S", "B", "U", "J"} => Reg(ops[1]) = args[1].val /\ args[1].val \in Registers
  /\ f = "R" => /\ Reg(ops[2]) = args[2].val /\ args[2].val \in Registers
                /\ Reg(ops[3]) = args[3].val /\ args[3].val \in Registers
  /\ f = "I" =>
       \/ /\ args[2].kind = "memory" /\ Reg(ops[2]) = args[2].base /\ args[2].base \in Registers
          /\ ops[3].val = args[2].val /\ args[2].val \in Immediates
       \/ /\ args[2].kind # "memory" /\ Reg(ops[2]) = args[2].val /\ args[2].val \in Registers
          /\ ops[3].val = args[3].val /\ args[3].kind = "immediate" /\ 3 \in 1 .. Len(args)
  /\ f = "S" => /\ Reg(ops[2]) = args[2].base /\ args[2].base \in Registers
                /\ ops[3].val = args[2].val /\ args[2].val \in Immediates
  /\ f = "B" => /\ Reg(ops[2]) = args[2].val /\ args[2].val \in Registers /\ 3 \in 1 .. Len(args)
                /\ ops[3] = Operand(args[3].kind, args[3].val) /\ args[3].kind \in {"immediate", "label"}
  /\ f = "U" => ops[2].val = args[2].val /\ args[2].kind = "immediate" /\ 2 \in 1 .. Len(args)
  /\ f = "J" => /\ ops[2] = Operand(args[2].kind, args[2].val) /\ args[2].kind \in {"immediate", "label"}
                /\ 2 \in 1 .. Len(args)

LEMMA ArgVals ==
  ASSUME NEW a \in Args
  PROVE  /\ a.kind = "register" =>
              /\ OperandOf(a) = Operand("register", a.val) /\ Reg(OperandOf(a)) = a.val /\ a.val \in Registers
              /\ OperandOf(a).val = a.val
         /\ a.kind = "immediate" =>
              OperandOf(a) = Operand("immediate", a.val) /\ OperandOf(a).val = a.val /\ a.val \in Int
         /\ a.kind = "label" => OperandOf(a) = Operand("label", a.val) /\ a.val \in Names
         /\ a.kind = "memory" => a.val \in Immediates /\ a.base \in Registers
<1>1. a.kind = "memory" => a.val \in Immediates /\ a.base \in Registers  BY DEF Args, Immediates
<1>2. a.kind = "register" => a.val \in Registers  BY DEF Args
<1>3. a.kind = "label" => a.val \in Names  BY DEF Args
<1>4. a.kind = "immediate" => a.val \in Int  BY DEF Args
<1>5. \A x : Operand("register", x).kind = "register" /\ Operand("register", x).val = x
             /\ Operand("immediate", x).val = x
  BY DEF Operand
<1>6. \A x : Reg(Operand("register", x)) = x  BY <1>5 DEF Reg
<1>7. /\ a.kind = "register" => OperandOf(a) = Operand("register", a.val)
      /\ a.kind = "immediate" => OperandOf(a) = Operand("immediate", a.val)
      /\ a.kind = "label" => OperandOf(a) = Operand("label", a.val)
  BY DEF OperandOf
<1>. QED  BY <1>1, <1>2, <1>3, <1>4, <1>5, <1>6, <1>7

\* A complete node has the operands its format encodes.
LEMMA OperandsOfInstruction ==
  ASSUME source \in Sources, NEW k \in 1 .. Len(source), Encodable(source[k]), NEW ops,
         OpsGood(source, k, ops), Len(ops) >= Mnemonics[source[k].op].arity
  PROVE  OperandsAre(Mnemonics[source[k].op].format, source[k].args, ops)
<1> DEFINE args == source[k].args
           f == Mnemonics[source[k].op].format
<1>1. /\ f \in Formats /\ Mnemonics[source[k].op].arity = Arity(f) /\ FormatOf(source[k].op) = f
      /\ source[k].op \in LexedMnemonics
  BY MnemonicFacts DEF Encodable
<1>2. Operates(f, args)  BY <1>1, LegalOperates
<1>3. source[k] \in Lines  BY SourceLines
<1>4. Len(args) \in Nat /\ \A i \in 1 .. Len(args) : args[i] \in Args  BY <1>3, LineFields
<1>5. /\ TakesRegister(args) /\ IsPlainMemory(args) =>
           ops = <<Operand("register", args[1].val), Operand("register", args[2].base),
                   Operand("immediate", args[2].val)>>
      /\ TakesRegister(args) /\ ~IsPlainMemory(args) =>
           Len(ops) = Len(args) /\ \A i \in 1 .. Len(args) : ops[i] = OperandOf(args[i])
  BY DEF OpsGood
<1>6. Len(args) # 0 => args # <<>>
  <2>1. Len(<<>>) = 0  BY EmptySeq
  <2>. QED  BY <2>1
<1> HIDE DEF args, f
<1>7. CASE f = "R"
  <2>1. Len(args) = 3 /\ args[1].kind = "register" /\ args[2].kind = "register" /\ args[3].kind = "register"
    BY <1>2, <1>7 DEF Operates
  <2>2. args[1] \in Args /\ args[2] \in Args /\ args[3] \in Args /\ 1 \in 1 .. Len(args) /\ 2 \in 1 .. Len(args)
        /\ 3 \in 1 .. Len(args)
    BY <1>4, <2>1
  <2>3. TakesRegister(args) /\ ~IsPlainMemory(args)  BY <1>6, <2>1 DEF TakesRegister, IsPlainMemory
  <2>4. ops[1] = OperandOf(args[1]) /\ ops[2] = OperandOf(args[2]) /\ ops[3] = OperandOf(args[3])
    BY <1>5, <2>2, <2>3
  <2>5. Reg(ops[1]) = args[1].val /\ args[1].val \in Registers /\ Reg(ops[2]) = args[2].val /\ args[2].val \in Registers
        /\ Reg(ops[3]) = args[3].val /\ args[3].val \in Registers
    BY <2>1, <2>2, <2>4, ArgVals
  <2>6. OperandsAre(f, args, ops)  BY <1>7, <2>5 DEF OperandsAre
  <2>. QED  BY <2>6 DEF f, args
<1>8. CASE f \in {"I", "B"} /\ Len(args) = 3
  <2>1. /\ args[1].kind = "register" /\ args[2].kind = "register"
        /\ f = "I" => args[3].kind = "immediate"
        /\ f = "B" => args[3].kind \in {"immediate", "label"}
    <3>1. Len(args) # 2  BY <1>8
    <3>2. CASE f = "I"  BY <1>2, <3>1, <3>2 DEF Operates
    <3>3. CASE f = "B"  BY <1>2, <3>3 DEF Operates
    <3>. QED  BY <1>8, <3>2, <3>3
  <2>2. args[1] \in Args /\ args[2] \in Args /\ args[3] \in Args /\ 1 \in 1 .. Len(args) /\ 2 \in 1 .. Len(args)
        /\ 3 \in 1 .. Len(args)
    BY <1>4, <1>8
  <2>3. TakesRegister(args) /\ ~IsPlainMemory(args)  BY <1>6, <1>8, <2>1 DEF TakesRegister, IsPlainMemory
  <2>4. ops[1] = OperandOf(args[1]) /\ ops[2] = OperandOf(args[2]) /\ ops[3] = OperandOf(args[3])
    BY <1>5, <2>2, <2>3
  <2>5. Reg(ops[1]) = args[1].val /\ args[1].val \in Registers /\ Reg(ops[2]) = args[2].val /\ args[2].val \in Registers
    BY <2>1, <2>2, <2>4, ArgVals
  <2>6. /\ args[3].kind = "immediate" => ops[3] = Operand("immediate", args[3].val) /\ ops[3].val = args[3].val
        /\ args[3].kind = "label" => ops[3] = Operand("label", args[3].val)
    BY <2>2, <2>4, ArgVals
  <2>7. OperandsAre(f, args, ops)  BY <1>8, <2>1, <2>2, <2>5, <2>6 DEF OperandsAre
  <2>. QED  BY <2>7 DEF f, args
<1>9. CASE f \in {"I", "S"} /\ Len(args) = 2
  <2>1. args[1].kind = "register" /\ args[2].kind = "memory"
    BY <1>2, <1>9 DEF Operates
  <2>2. args[1] \in Args /\ args[2] \in Args  BY <1>4, <1>9
  <2>3. TakesRegister(args)  BY <1>6, <1>9, <2>1 DEF TakesRegister
  <2>4. Mnemonics[source[k].op].arity = 3  BY <1>1, <1>9 DEF Arity
  <2>5. IsPlainMemory(args)
    <3> SUFFICES ASSUME ~IsPlainMemory(args) PROVE FALSE  OBVIOUS
    <3>1. Len(ops) = 2  BY <1>5, <1>9, <2>3
    <3>2. Len(ops) >= 3  BY <2>4
    <3>3. 2 >= 3  BY <3>1, <3>2, Zenon
    <3>. QED  BY <3>3
  <2> DEFINE x == Operand("register", args[1].val)
             y == Operand("register", args[2].base)
             z == Operand("immediate", args[2].val)
  <2>6. Reg(x) = args[1].val /\ Reg(y) = args[2].base /\ z.val = args[2].val  BY DEF Reg, Operand
  <2>7. ops = <<x, y, z>>  BY <1>5, <2>3, <2>5
  <2>8. args[1].val \in Registers /\ args[2].base \in Registers /\ args[2].val \in Immediates
    BY <2>1, <2>2, ArgVals
  <2> HIDE DEF x, y, z
  <2>9. ops[1] = x /\ ops[2] = y /\ ops[3] = z  BY ONLY <2>7
  <2>10. OperandsAre(f, args, ops)
    BY <1>9, <2>1, <2>6, <2>8, <2>9 DEF OperandsAre
  <2>. QED  BY <2>10 DEF f, args
<1>10. CASE f \in {"U", "J"}
  <2>1. /\ Len(args) = 2 /\ args[1].kind = "register"
        /\ f = "U" => args[2].kind = "immediate"
        /\ f = "J" => args[2].kind \in {"immediate", "label"}
    BY <1>2, <1>10 DEF Operates
  <2>2. args[1] \in Args /\ args[2] \in Args /\ 1 \in 1 .. Len(args) /\ 2 \in 1 .. Len(args)
    BY <1>4, <2>1
  <2>3. args[2].kind # "memory"  BY <1>10, <2>1
  <2>4. TakesRegister(args) /\ ~IsPlainMemory(args)  BY <1>6, <2>1, <2>3 DEF TakesRegister, IsPlainMemory
  <2>5. ops[1] = OperandOf(args[1]) /\ ops[2] = OperandOf(args[2])  BY <1>5, <2>2, <2>4
  <2>6. Reg(ops[1]) = args[1].val /\ args[1].val \in Registers  BY <2>1, <2>2, <2>5, ArgVals
  <2>7. /\ args[2].kind = "immediate" => ops[2] = Operand("immediate", args[2].val) /\ ops[2].val = args[2].val
        /\ args[2].kind = "label" => ops[2] = Operand("label", args[2].val)
    BY <2>2, <2>5, ArgVals
  <2>8. OperandsAre(f, args, ops)  BY <1>10, <2>1, <2>2, <2>6, <2>7 DEF OperandsAre
  <2>. QED  BY <2>8 DEF f, args
<1>11. CASE f \in {"call", ""}
  <2>1. OperandsAre(f, args, ops)  BY <1>11 DEF OperandsAre
  <2>. QED  BY <2>1 DEF f, args
<1>12. /\ f \in {"I", "B", "S"} => Len(args) = 3 \/ Len(args) = 2
       /\ f = "B" => Len(args) = 3
       /\ f = "S" => Len(args) = 2
  BY <1>2 DEF Operates
<1>13. f \in Formats  BY <1>1 DEF f
<1>. QED  BY <1>7, <1>8, <1>9, <1>10, <1>11, <1>12, <1>13 DEF Formats

-----------------------------------------------------------------------------
(* The word of an instruction has its operands and reaches its target. *)

\* The format of a line, its last operand, and the immediate of a branch.
FormatAt(lines, k) == Mnemonics[lines[k].op].format

TargetArg(lines, k) == lines[k].args[Mnemonics[lines[k].op].arity]

ImmOf(f, w) == IF f = "B" THEN ImmB(w) ELSE ImmJ(w)

\* The word has the operands, the target of a branch aside.
WordOk(f, a, w) ==
  /\ f \in {"R", "I", "U", "J"} => Rd(w) = a[1].val
  /\ f = "R" => Rs1(w) = a[2].val /\ Rs2(w) = a[3].val
  /\ f = "I" => IF a[2].kind = "memory" THEN Rs1(w) = a[2].base /\ ImmI(w) = a[2].val
                ELSE Rs1(w) = a[2].val /\ ImmI(w) = a[3].val
  /\ f = "S" => Rs2(w) = a[1].val /\ Rs1(w) = a[2].base /\ ImmS(w) = a[2].val
  /\ f = "B" => Rs1(w) = a[1].val /\ Rs2(w) = a[2].val
  /\ f = "U" => ImmU(w) = a[2].val

\* The addresses of lines.
Addresses(table) ==
  \A n \in DOMAIN table : (\E a \in 0 .. 2 ^ 10 - 1 : table[n].addr = 4 * a) /\ table[n].defined \in BOOLEAN

LEMMA AddressOfIs ==
  ASSUME Addresses(symbols), NEW l
  PROVE  \E a \in 0 .. 2 ^ 10 - 1 : AddressOf(l) = 4 * a
<1>1. 0 \in 0 .. 2 ^ 10 - 1 /\ 4 * 0 = 0
  <2>1. 2 ^ 10 = 1024  OBVIOUS
  <2>. QED  BY <2>1
<1>2. CASE l \in DOMAIN symbols /\ symbols[l].defined  BY <1>2 DEF AddressOf, Addresses
<1>3. CASE ~(l \in DOMAIN symbols /\ symbols[l].defined)  BY <1>1, <1>3 DEF AddressOf
<1>. QED  BY <1>2, <1>3

LEMMA EvenFrom ==
  ASSUME NEW n \in Int, n % 2 = 0, NEW r \in Int
  PROVE  (n - 4 * r) % 2 = 0
<1>1. n = (2 * (n \div 2)) + (n % 2) /\ n \div 2 \in Int  BY Division
<1> DEFINE h == n \div 2
<1> HIDE DEF h
<1>2. n = 2 * h /\ h \in Int  BY <1>1 DEF h
<1>3. n - 4 * r = (2 * (h - 2 * r)) + 0 /\ h - 2 * r \in Int /\ n - 4 * r \in Int  BY <1>2
<1>4. 0 \in 0 .. 2 - 1 /\ 2 \in Nat \ {0}  OBVIOUS
<1>. QED  BY <1>3, <1>4, DivisionIsUnique

\* A distance between two of the lines fits the field.
LEMMA BranchReaches ==
  ASSUME NEW a \in 0 .. 2 ^ 10 - 1, NEW r \in 0 .. 2 ^ 10 - 1
  PROVE  /\ 4 * a - 4 * r \in -(2 ^ 12) .. 2 ^ 12 - 1 /\ 4 * a - 4 * r \in -(2 ^ 20) .. 2 ^ 20 - 1
         /\ (4 * a - 4 * r) % 2 = 0
<1>1. 2 ^ 10 = 1024 /\ 2 ^ 12 = 4096  OBVIOUS
<1>2. 2 ^ 20 \in Int /\ 2 ^ 20 >= 4096
  <2>1. /\ 2 ^ 13 = 8192 /\ 2 ^ 14 = 2 * 2 ^ 13 /\ 2 ^ 15 = 2 * 2 ^ 14 /\ 2 ^ 16 = 2 * 2 ^ 15
        /\ 2 ^ 17 = 2 * 2 ^ 16 /\ 2 ^ 18 = 2 * 2 ^ 17 /\ 2 ^ 19 = 2 * 2 ^ 18 /\ 2 ^ 20 = 2 * 2 ^ 19
    OBVIOUS
  <2>. QED  BY <2>1
<1>3. a \in Int /\ r \in Int /\ 0 <= a /\ a <= 1023 /\ 0 <= r /\ r <= 1023  BY <1>1
<1>4. 4 * a - 4 * r \in Int /\ -4092 <= 4 * a - 4 * r /\ 4 * a - 4 * r <= 4092  BY <1>3
<1>5. (4 * a - 4 * r) % 2 = 0
  <2>1. 4 * a \in Int /\ 4 * a = (2 * (2 * a)) + 0 /\ 2 * a \in Int  BY <1>3
  <2>2. (4 * a) % 2 = 0
    <3>1. 0 \in 0 .. 2 - 1 /\ 2 \in Nat \ {0}  OBVIOUS
    <3>. QED  BY <2>1, <3>1, DivisionIsUnique
  <2>. QED  BY <1>3, <2>1, <2>2, EvenFrom
<1>. QED  BY <1>1, <1>2, <1>4, <1>5

\* What Target and the encoder make of the operand of a branch.
LEMMA TargetIs ==
  ASSUME source \in Sources, NEW k \in 1 .. Len(source), Encodable(source[k]), NEW a \in Args,
         FormatAt(source, k) \in {"B", "J"},
         a.kind \in {"immediate", "label"},
         a.kind = "immediate" => Fits(FormatAt(source, k), a.val, AddressIn(source, k)),
         offset = 4 * Rank(source, k - 1), Addresses(symbols)
  PROVE  LET t == Target(Operand(a.kind, a.val))
         IN  /\ a.kind = "immediate" => t = a.val
             /\ a.kind = "label" => t = AddressOf(a.val)
             /\ t - offset \in (IF FormatAt(source, k) = "B" THEN -(2 ^ 12) .. 2 ^ 12 - 1
                                ELSE -(2 ^ 20) .. 2 ^ 20 - 1)
             /\ (t - offset) % 2 = 0 /\ t \in Int /\ offset \in Int
<1> DEFINE t == Target(Operand(a.kind, a.val))
           r == Rank(source, k - 1)
           f == FormatAt(source, k)
<1>1. /\ a.kind = "immediate" => t = a.val
      /\ a.kind = "label" => t = AddressOf(a.val)
  BY DEF Target, Operand
<1>2. r \in 0 .. k - 1 /\ k \in 1 .. 2 ^ 10
  <2>1. k - 1 \in 0 .. Len(source) /\ Len(source) \in Nat /\ Len(source) <= 2 ^ 10  BY SourceLines
  <2>2. 2 ^ 10 = 1024  OBVIOUS
  <2>. QED  BY <2>1, <2>2, RankBound
<1> HIDE DEF r, t, f
<1>3. r \in 0 .. 2 ^ 10 - 1 /\ r \in Int /\ offset \in Int /\ offset = 4 * r
  <2>1. 2 ^ 10 = 1024  OBVIOUS
  <2>. QED  BY <1>2, <2>1 DEF r
<1>4. CASE a.kind = "immediate"
  <2>1. AddressIn(source, k) = offset
    <3>1. AddressIn(source, k) = 4 * Rank(source, k - 1)  BY Ranks
    <3>. QED  BY <3>1
  <2>2. t = a.val /\ t \in Int  BY <1>1, <1>4, ArgVals
  <2>3. Fits(f, t, offset)  BY <1>4, <2>1, <2>2 DEF f
  <2>4. t % 2 = 0 /\ t - offset \in (IF f = "B" THEN -(2 ^ 12) .. 2 ^ 12 - 1 ELSE -(2 ^ 20) .. 2 ^ 20 - 1)
    <3>1. CASE f = "B"  BY <2>3, <3>1 DEF Fits
    <3>2. CASE f = "J"  BY <2>3, <3>2 DEF Fits
    <3>. QED  BY <3>1, <3>2 DEF f
  <2>5. (t - offset) % 2 = 0  BY <1>3, <2>2, <2>4, EvenFrom
  <2>. QED  BY <1>1, <1>3, <2>2, <2>4, <2>5 DEF t, f
<1>5. CASE a.kind = "label"
  <2>1. t = AddressOf(a.val)  BY <1>1, <1>5
  <2>2. PICK b \in 0 .. 2 ^ 10 - 1 : t = 4 * b  BY <2>1, AddressOfIs
  <2>3. /\ t - offset \in -(2 ^ 12) .. 2 ^ 12 - 1 /\ t - offset \in -(2 ^ 20) .. 2 ^ 20 - 1
        /\ (t - offset) % 2 = 0
    BY <1>3, <2>2, BranchReaches
  <2>4. t \in Int
    <3>1. 2 ^ 10 = 1024  OBVIOUS
    <3>. QED  BY <2>2, <3>1
  <2>. QED  BY <1>1, <1>3, <2>3, <2>4 DEF t, f
<1>. QED  BY <1>4, <1>5

\* The words of the formats.
LEMMA Encodes ==
  ASSUME source \in Sources, NEW k \in 1 .. Len(source), Encodable(source[k]), NEW ops,
         OperandsAre(FormatAt(source, k), source[k].args, ops),
         offset = 4 * Rank(source, k - 1), Addresses(symbols)
  PROVE  LET w == Encoded(source[k].op, ops)
             f == FormatAt(source, k)
             t == TargetArg(source, k)
         IN  /\ w \in Word /\ WordOk(f, source[k].args, w)
             /\ f \in {"B", "J"} /\ t.kind = "immediate" => offset + ImmOf(f, w) = t.val
             /\ f \in {"B", "J"} /\ t.kind = "label" => offset + ImmOf(f, w) = AddressOf(t.val)
<1> DEFINE m == Mnemonics[source[k].op]
           f == m.format
           args == source[k].args
           w == Encoded(source[k].op, ops)
           t == TargetArg(source, k)
<1>1. /\ f \in Formats /\ m.arity = Arity(f) /\ FormatOf(source[k].op) = f
      /\ source[k].op \in LexedMnemonics
  BY MnemonicFacts DEF Encodable
<1>2. OperandsAre(f, args, ops) /\ FormatAt(source, k) = f  BY DEF FormatAt
<1>3. \A n \in 1 .. Len(args) : args[n].kind = "immediate" => Fits(f, args[n].val, AddressIn(source, k))
  BY <1>1, LegalOperates
<1>4. \A n \in 1 .. Len(args) : args[n] \in Args
  <2>1. source[k] \in Lines  BY SourceLines
  <2>. QED  BY <2>1, LineFields
<1>5. /\ f = "R" => w = RType(m.funct7, Reg(ops[3]), Reg(ops[2]), m.funct3, Reg(ops[1]), m.opcode)
      /\ f = "I" => w = IType(ops[3].val, Reg(ops[2]), m.funct3, Reg(ops[1]), m.opcode)
      /\ f = "S" => w = SType(ops[3].val, Reg(ops[1]), Reg(ops[2]), m.funct3, m.opcode)
      /\ f = "B" => w = BType(Target(ops[3]) - offset, Reg(ops[2]), Reg(ops[1]), m.funct3, m.opcode)
      /\ f = "U" => w = UType(ops[2].val, Reg(ops[1]), m.opcode)
      /\ f = "J" => w = JType(Target(ops[2]) - offset, Reg(ops[1]), m.opcode)
      /\ f = "call" => w = JType(Target(ops[1]) - offset, 1, m.opcode)
      /\ f = "" => w = IType(0, 0, 0, 0, \h13)
  <2>1. Encoded(source[k].op, ops) =
          CASE f = "R" -> RType(m.funct7, Reg(ops[3]), Reg(ops[2]), m.funct3, Reg(ops[1]), m.opcode)
            [] f = "I" -> IType(ops[3].val, Reg(ops[2]), m.funct3, Reg(ops[1]), m.opcode)
            [] f = "S" -> SType(ops[3].val, Reg(ops[1]), Reg(ops[2]), m.funct3, m.opcode)
            [] f = "B" -> BType(Target(ops[3]) - offset, Reg(ops[2]), Reg(ops[1]), m.funct3, m.opcode)
            [] f = "U" -> UType(ops[2].val, Reg(ops[1]), m.opcode)
            [] f = "J" -> JType(Target(ops[2]) - offset, Reg(ops[1]), m.opcode)
            [] f = "call" -> JType(Target(ops[1]) - offset, 1, m.opcode)
            [] OTHER -> IType(0, 0, 0, 0, \h13)
    BY DEF Encoded
  <2> HIDE DEF f, m
  <2>. QED  BY <2>1
<1>6. w \in Word
  <2> HIDE DEF m, f, w
  <2>1. \A a, b, c, d, e, g : RType(a, b, c, d, e, g) \in Word  BY Words
  <2>2. \A a, b, c, d, e : IType(a, b, c, d, e) \in Word  BY Words
  <2>3. \A a, b, c, d, e : SType(a, b, c, d, e) \in Word  BY Words
  <2>4. \A a, b, c, d, e : BType(a, b, c, d, e) \in Word  BY Words
  <2>5. \A a, b, c : UType(a, b, c) \in Word /\ JType(a, b, c) \in Word  BY Words
  <2>6. CASE f \in {"R", "I", "S", "B"}  BY ONLY <1>5, <2>1, <2>2, <2>3, <2>4, <2>6
  <2>7. CASE f \in {"U", "J", "call", ""}  BY ONLY <1>5, <2>2, <2>5, <2>7
  <2>. QED  BY <1>1, <2>6, <2>7 DEF Formats
<1>7. t = args[m.arity]  BY DEF TargetArg
<1> HIDE DEF m, f, args, w, t
<1>8. CASE f = "R"
  <2>1. Rd(w) = Reg(ops[1]) /\ Rs1(w) = Reg(ops[2]) /\ Rs2(w) = Reg(ops[3])
    BY <1>2, <1>5, <1>8, RTypeDecodes DEF OperandsAre
  <2>2. WordOk(f, args, w)  BY <1>2, <1>8, <2>1 DEF WordOk, OperandsAre
  <2>. QED  BY <1>2, <1>6, <1>8, <2>2 DEF args, w, t
<1>9. CASE f = "I"
  <2>1. Reg(ops[1]) \in Registers /\ Reg(ops[1]) = args[1].val  BY <1>2, <1>9 DEF OperandsAre
  <2>2. CASE args[2].kind = "memory"
    <3>1. ops[3].val \in Immediates /\ ops[3].val = args[2].val /\ Reg(ops[2]) = args[2].base /\ Reg(ops[2]) \in Registers
      BY <1>2, <1>9, <2>2 DEF OperandsAre
    <3>2. Rd(w) = Reg(ops[1]) /\ Rs1(w) = Reg(ops[2]) /\ ImmI(w) = ops[3].val
      <4> DEFINE x == ops[3].val
                 b == Reg(ops[2])
                 a == Reg(ops[1])
                 v == IType(x, b, m.funct3, a, m.opcode)
      <4>1. w = v  BY <1>5, <1>9
      <4>2. x \in -(2 ^ 11) .. 2 ^ 11 - 1 /\ a \in Registers /\ b \in Registers
        BY <2>1, <3>1 DEF Immediates
      <4> HIDE DEF x, a, b
      <4>3. Rd(v) = a /\ Rs1(v) = b /\ ImmI(v) = x  BY ONLY <4>2, ITypeDecodes
      <4> HIDE DEF v
      <4>. QED  BY <4>1, <4>3 DEF x, a, b
    <3>3. WordOk(f, args, w)  BY <1>9, <2>1, <2>2, <3>1, <3>2 DEF WordOk
    <3>. QED  BY <1>2, <1>6, <1>9, <3>3 DEF args, w, t
  <2>3. CASE args[2].kind # "memory"
    <3>1. /\ ops[3].val = args[3].val /\ args[3].kind = "immediate" /\ 3 \in 1 .. Len(args)
          /\ Reg(ops[2]) = args[2].val /\ Reg(ops[2]) \in Registers
      BY <1>2, <1>9, <2>3 DEF OperandsAre
    <3>2. Fits("I", ops[3].val, AddressIn(source, k))  BY <1>3, <1>9, <3>1
    <3>3. ops[3].val \in -(2 ^ 11) .. 2 ^ 11 - 1  BY <3>2 DEF Fits
    <3>4. Rd(w) = Reg(ops[1]) /\ Rs1(w) = Reg(ops[2]) /\ ImmI(w) = ops[3].val
      <4>1. Reg(ops[2]) \in Registers  BY <3>1
      <4> DEFINE x == ops[3].val
                 b == Reg(ops[2])
                 a == Reg(ops[1])
                 v == IType(x, b, m.funct3, a, m.opcode)
      <4>2. w = v  BY <1>5, <1>9
      <4>3. x \in -(2 ^ 11) .. 2 ^ 11 - 1 /\ a \in Registers /\ b \in Registers  BY <2>1, <3>3, <4>1
      <4> HIDE DEF x, a, b
      <4>4. Rd(v) = a /\ Rs1(v) = b /\ ImmI(v) = x  BY ONLY <4>3, ITypeDecodes
      <4> HIDE DEF v
      <4>. QED  BY <4>2, <4>4 DEF x, a, b
    <3>5. WordOk(f, args, w)  BY <1>9, <2>1, <2>3, <3>1, <3>4 DEF WordOk
    <3>. QED  BY <1>2, <1>6, <1>9, <3>5 DEF args, w, t
  <2>. QED  BY <2>2, <2>3
<1>10. CASE f = "S"
  <2>1. /\ Reg(ops[1]) \in Registers /\ Reg(ops[1]) = args[1].val
        /\ ops[3].val \in Immediates /\ ops[3].val = args[2].val /\ Reg(ops[2]) = args[2].base /\ Reg(ops[2]) \in Registers
    BY <1>2, <1>10 DEF OperandsAre
  <2>2. Rs1(w) = Reg(ops[2]) /\ Rs2(w) = Reg(ops[1]) /\ ImmS(w) = ops[3].val
    BY <1>5, <1>10, <2>1, STypeDecodes DEF Immediates
  <2>3. WordOk(f, args, w)  BY <1>10, <2>1, <2>2 DEF WordOk
  <2>. QED  BY <1>2, <1>6, <1>10, <2>3 DEF args, w, t
<1>11. CASE f = "B"
  <2>1. /\ Reg(ops[1]) \in Registers /\ Reg(ops[1]) = args[1].val /\ 3 \in 1 .. Len(args)
        /\ Reg(ops[2]) \in Registers /\ Reg(ops[2]) = args[2].val
        /\ ops[3] = Operand(args[3].kind, args[3].val) /\ args[3].kind \in {"immediate", "label"}
    BY <1>2, <1>11 DEF OperandsAre
  <2>2. t = args[3]  BY <1>1, <1>7, <1>11 DEF Arity
  <2>3. t \in Args /\ (t.kind = "immediate" => Fits(f, t.val, AddressIn(source, k)))
    BY <1>3, <1>4, <2>1, <2>2
  <2> DEFINE x == Target(ops[3])
  <2>4. x = Target(Operand(t.kind, t.val))  BY <2>1, <2>2
  <2> HIDE DEF x
  <2>5. /\ t.kind = "immediate" => x = t.val
        /\ t.kind = "label" => x = AddressOf(t.val)
        /\ x - offset \in -(2 ^ 12) .. 2 ^ 12 - 1
        /\ (x - offset) % 2 = 0 /\ x \in Int /\ offset \in Int
    BY <1>2, <1>11, <2>1, <2>2, <2>3, <2>4, TargetIs
  <2> DEFINE y == x - offset
             b == Reg(ops[2])
             a == Reg(ops[1])
             g == m.funct3
             o == m.opcode
             v == BType(y, b, a, g, o)
  <2>9. w = v  BY <1>5, <1>11 DEF x, g, o
  <2>10. y \in -(2 ^ 12) .. 2 ^ 12 - 1 /\ y % 2 = 0 /\ a \in Registers /\ b \in Registers
    BY <2>1, <2>5
  <2> HIDE DEF y, a, b, g, o
  <2>11. Rs1(v) = a /\ Rs2(v) = b /\ ImmB(v) = y  BY ONLY <2>10, BTypeDecodes, SMTT(60)
  <2> HIDE DEF v
  <2>6. Rs1(w) = Reg(ops[1]) /\ Rs2(w) = Reg(ops[2]) /\ ImmB(w) = x - offset  BY <2>9, <2>11 DEF y, a, b
  <2>7. WordOk(f, args, w)  BY <1>11, <2>1, <2>6 DEF WordOk
  <2>8. offset + ImmOf(f, w) = x
    <3>1. ImmOf(f, w) = x - offset  BY <1>11, <2>6 DEF ImmOf
    <3>. QED  BY <2>5, <3>1
  <2>. QED  BY <1>2, <1>6, <1>11, <2>5, <2>7, <2>8 DEF args, w, t
<1>12. CASE f = "U"
  <2>1. /\ Reg(ops[1]) \in Registers /\ Reg(ops[1]) = args[1].val
        /\ ops[2].val = args[2].val /\ args[2].kind = "immediate" /\ 2 \in 1 .. Len(args)
    BY <1>2, <1>12 DEF OperandsAre
  <2>2. Fits("U", ops[2].val, AddressIn(source, k))  BY <1>3, <1>12, <2>1
  <2>3. ops[2].val \in 0 .. 2 ^ 20 - 1  BY <2>2 DEF Fits
  <2> DEFINE v == UType(ops[2].val, Reg(ops[1]), m.opcode)
  <2>6. Reg(ops[1]) \in Registers  BY <2>1
  <2>7. Rd(v) = Reg(ops[1]) /\ ImmU(v) = ops[2].val  BY ONLY <2>3, <2>6, UTypeDecodes
  <2>8. w = v  BY <1>5, <1>12
  <2> HIDE DEF v
  <2>4. Rd(w) = Reg(ops[1]) /\ ImmU(w) = ops[2].val  BY <2>7, <2>8
  <2>5. WordOk(f, args, w)  BY <1>12, <2>1, <2>4 DEF WordOk
  <2>. QED  BY <1>2, <1>6, <1>12, <2>5 DEF args, w, t
<1>13. CASE f = "J"
  <2>1. /\ Reg(ops[1]) \in Registers /\ Reg(ops[1]) = args[1].val /\ 2 \in 1 .. Len(args)
        /\ ops[2] = Operand(args[2].kind, args[2].val) /\ args[2].kind \in {"immediate", "label"}
    BY <1>2, <1>13 DEF OperandsAre
  <2>2. t = args[2]  BY <1>1, <1>7, <1>13 DEF Arity
  <2>3. t \in Args /\ (t.kind = "immediate" => Fits(f, t.val, AddressIn(source, k)))
    BY <1>3, <1>4, <2>1, <2>2
  <2> DEFINE x == Target(ops[2])
  <2>4. x = Target(Operand(t.kind, t.val))  BY <2>1, <2>2
  <2> HIDE DEF x
  <2>5. /\ t.kind = "immediate" => x = t.val
        /\ t.kind = "label" => x = AddressOf(t.val)
        /\ x - offset \in -(2 ^ 20) .. 2 ^ 20 - 1
        /\ (x - offset) % 2 = 0 /\ x \in Int /\ offset \in Int
    BY <1>2, <1>13, <2>1, <2>2, <2>3, <2>4, TargetIs
  <2> DEFINE y == x - offset
             v == JType(y, Reg(ops[1]), m.opcode)
  <2>9. w = v  BY <1>5, <1>13 DEF x
  <2>10. y \in -(2 ^ 20) .. 2 ^ 20 - 1 /\ y % 2 = 0 /\ Reg(ops[1]) \in Registers
    BY <2>1, <2>5
  <2> HIDE DEF y
  <2>11. Rd(v) = Reg(ops[1]) /\ ImmJ(v) = y  BY ONLY <2>10, JTypeDecodes
  <2> HIDE DEF v
  <2>6. Rd(w) = Reg(ops[1]) /\ ImmJ(w) = x - offset  BY <2>9, <2>11 DEF y
  <2>7. WordOk(f, args, w)  BY <1>13, <2>1, <2>6 DEF WordOk
  <2>8. offset + ImmOf(f, w) = x
    <3>1. ImmOf(f, w) = x - offset  BY <1>13, <2>6 DEF ImmOf
    <3>. QED  BY <2>5, <3>1
  <2>. QED  BY <1>2, <1>6, <1>13, <2>5, <2>7, <2>8 DEF args, w, t
<1>14. CASE f \in {"call", ""}
  <2>1. WordOk(f, args, w)  BY <1>14 DEF WordOk
  <2>. QED  BY <1>2, <1>6, <1>14, <2>1 DEF args, w, t
<1>. QED  BY <1>1, <1>8, <1>9, <1>10, <1>11, <1>12, <1>13, <1>14 DEF Formats

-----------------------------------------------------------------------------
(* The encoder's state: the words and the symbol table at a place. *)

\* The operations before b are those of the first m lines.
Done(lines, m, b) ==
  /\ m \in 0 .. Len(lines)
  /\ \A k \in 1 .. Len(lines) : lines[k].op \in LexedMnemonics => (OpAt(lines, k) <= b <=> k <= m)

\* As many words as there are instructions before b.
Counted(lines, b, out) == \E m \in 0 .. Len(lines) : Done(lines, m, b) /\ Len(out) = Rank(lines, m)

\* Line d declares l first, and no instruction takes it.
First(lines, d, l) == lines[d].label = l /\ \A n \in 1 .. d - 1 : lines[n].label # l

Placed(lines, d, l) == First(lines, d, l) /\ ~TakenIn(lines, d)

\* Line n branches to l.
Refers(lines, n, l) ==
  /\ Encodable(lines[n]) /\ FormatAt(lines, n) \in {"B", "J"}
  /\ TargetArg(lines, n) = Operand("label", l)

\* Where the word of line k branches to.
Branch(lines, k, w) == 4 * Rank(lines, k - 1) + ImmOf(FormatAt(lines, k), w)

\* A branch to a placed label lands there, unless l was branched to before it was declared.
LabelOk(lines, k, w) ==
  \A l \in Names, d \in 1 .. Len(lines) :
    /\ Refers(lines, k, l) /\ Placed(lines, d, l)
    /\ \A n \in 1 .. k : Refers(lines, n, l) => d <= n
    => Branch(lines, k, w) = 4 * Rank(lines, d - 1)

\* A branch to an address lands there.
ImmediateOk(lines, k, w) ==
  FormatAt(lines, k) \in {"B", "J"} /\ TargetArg(lines, k).kind = "immediate"
    => Branch(lines, k, w) = TargetArg(lines, k).val

\* The word says what line k says.
Good(lines, k, w) ==
  WordOk(FormatAt(lines, k), lines[k].args, w) /\ ImmediateOk(lines, k, w) /\ LabelOk(lines, k, w)

\* The words of the lines before b.
Emitted(lines, b, out) ==
  \A k \in 1 .. Len(lines) :
    Encodable(lines[k]) /\ OpAt(lines, k) <= b =>
      Rank(lines, k) \in 1 .. Len(out) /\ Good(lines, k, out[Rank(lines, k)])

\* A name that was looked up before its label is not defined by it.
NotYet(lines, b, table, l) ==
  l \in DOMAIN table => \E j \in 1 .. Len(lines) : Refers(lines, j, l) /\ OpAt(lines, j) <= b

\* A label that was passed has its address, or was looked up too early.
InTable(lines, table, l, d) ==
  /\ l \in DOMAIN table
  /\ \/ table[l] = [addr |-> 4 * Rank(lines, d - 1), defined |-> TRUE]
     \/ \E j \in 1 .. d - 1 : Refers(lines, j, l)

\* The symbol table when the encoder is at b.
Resolved(lines, b, table) ==
  \A l \in Names, d \in 1 .. Len(lines) :
    Placed(lines, d, l) =>
      /\ b < LabelAt(lines, d) => NotYet(lines, b, table, l)
      /\ LabelAt(lines, d) <= b => InTable(lines, table, l, d)

\* The encoder's state at b.
Encoding(lines, b, out, table) ==
  /\ b \in Nat /\ out \in Seq(Word) /\ Addresses(table)
  /\ Counted(lines, b, out) /\ Emitted(lines, b, out) /\ Resolved(lines, b, table)

LEMMA PlacesAreNat ==
  ASSUME NEW lines \in Sources, NEW k \in 1 .. Len(lines)
  PROVE  OpAt(lines, k) \in Nat /\ LabelAt(lines, k) \in Nat
         /\ (lines[k].op \in LexedMnemonics => OpAt(lines, k) \in 1 .. Len(Lexed(lines)) - 1)
         /\ (lines[k].label # NoLabel => LabelAt(lines, k) \in 1 .. Len(Lexed(lines)) - 1)
<1>1. LineEnd(lines, k - 1) \in Nat /\ OpAt(lines, k) \in Nat /\ LabelAt(lines, k) = LineEnd(lines, k - 1) + 1
  BY PlacesInOrder
<1>2. /\ \A p : IsOpAt(lines, p, k) \/ IsLabelAt(lines, p, k) => InLine(lines, p, k)
      /\ \A p : InLine(lines, p, k) => p \in 1 .. Len(Lexed(lines)) - 1
  BY PlacesInLine
<1>3. lines[k].op \in LexedMnemonics => IsOpAt(lines, OpAt(lines, k), k)  BY DEF IsOpAt
<1>4. lines[k].label # NoLabel => IsLabelAt(lines, LabelAt(lines, k), k)  BY DEF IsLabelAt
<1>5. LabelAt(lines, k) \in Nat  BY <1>1
<1>. QED  BY <1>1, <1>2, <1>3, <1>4, <1>5

LEMMA NotBetween ==
  ASSUME NEW lines, NEW b \in Nat, NEW m \in Nat, Passed(lines, b, m), NEW p \in Nat, p < m, Must(lines, p)
  PROVE  p <= b
BY DEF Passed

LEMMA EncodableIsLexed ==
  ASSUME NEW line, Encodable(line) PROVE line.op \in LexedMnemonics
BY DEF Encodable, LexedMnemonics

LEMMA EncodingStarts ==
  ASSUME NEW lines \in Sources PROVE Encoding(lines, 0, <<>>, <<>>)
<1>1. \A k \in 1 .. Len(lines) :
        /\ lines[k].op \in LexedMnemonics => ~(OpAt(lines, k) <= 0)
        /\ lines[k].label # NoLabel => ~(LabelAt(lines, k) <= 0)
  <2> SUFFICES ASSUME NEW k \in 1 .. Len(lines)
               PROVE  /\ lines[k].op \in LexedMnemonics => ~(OpAt(lines, k) <= 0)
                      /\ lines[k].label # NoLabel => ~(LabelAt(lines, k) <= 0)
    OBVIOUS
  <2>1. Len(Lexed(lines)) \in Nat
    <3>1. Lexed(lines) \in Seq(Tokens)  BY LexedType
    <3>. QED  BY <3>1, LenProperties
  <2>2. /\ lines[k].op \in LexedMnemonics => OpAt(lines, k) \in 1 .. Len(Lexed(lines)) - 1
        /\ lines[k].label # NoLabel => LabelAt(lines, k) \in 1 .. Len(Lexed(lines)) - 1
    BY PlacesAreNat
  <2>3. \A p \in 1 .. Len(Lexed(lines)) - 1 : ~(p <= 0)  BY <2>1
  <2>. QED  BY <2>2, <2>3
<1>2. Len(lines) \in Nat /\ 0 \in 0 .. Len(lines)
  <2>1. Len(lines) \in Nat  BY SourceLines
  <2>. QED  BY <2>1
<1>3. Done(lines, 0, 0)
  <2>1. \A k \in 1 .. Len(lines) : ~(k <= 0)  BY <1>2
  <2>. QED  BY <1>1, <1>2, <2>1 DEF Done
<1>4. <<>> \in Seq(Word) /\ Len(<<>>) = 0 /\ DOMAIN <<>> = {}  BY EmptySeq
<1>5. Counted(lines, 0, <<>>)
  <2>1. Rank(lines, 0) = 0  BY Ranks
  <2>. QED  BY <1>2, <1>3, <1>4, <2>1 DEF Counted
<1>6. Emitted(lines, 0, <<>>)  BY <1>1, EncodableIsLexed DEF Emitted
<1>7. Addresses(<<>>)  BY <1>4 DEF Addresses
<1>8. Resolved(lines, 0, <<>>)
  <2> SUFFICES ASSUME NEW l \in Names, NEW d \in 1 .. Len(lines), Placed(lines, d, l)
               PROVE  NotYet(lines, 0, <<>>, l) /\ ~(LabelAt(lines, d) <= 0)
    BY DEF Resolved
  <2>1. NotYet(lines, 0, <<>>, l)  BY <1>4 DEF NotYet
  <2>2. lines[d].label # NoLabel  BY AssemblerAssumption DEF Placed, First
  <2>. QED  BY <1>1, <2>1, <2>2
<1>9. 0 \in Nat  OBVIOUS
<1>. QED  BY <1>4, <1>5, <1>6, <1>7, <1>8, <1>9 DEF Encoding

LEMMA DoneSame ==
  ASSUME NEW lines \in Sources, NEW b, NEW m \in 0 .. Len(lines), NEW k \in 0 .. Len(lines),
         Done(lines, m, b), Done(lines, k, b)
  PROVE  Rank(lines, m) = Rank(lines, k)
<1>0. Len(lines) \in Nat  BY SourceLines
<1>1. ASSUME NEW i \in 0 .. Len(lines), NEW j \in 0 .. Len(lines), i <= j, Done(lines, i, b), Done(lines, j, b)
      PROVE  Rank(lines, i) = Rank(lines, j)
  <2>1. i \in 0 .. j  BY <1>0, <1>1
  <2>2. ASSUME NEW n \in i + 1 .. j PROVE ~Encodable(lines[n])
    <3>1. n \in 1 .. Len(lines) /\ n <= j /\ ~(n <= i)  BY <1>0, <1>1
    <3>. QED  BY <1>1, <3>1, EncodableIsLexed DEF Done
  <2>. QED  BY <2>1, <2>2, RankSame
<1>2. m <= k \/ k <= m  BY <1>0
<1>3. m <= k => Rank(lines, m) = Rank(lines, k)  BY <1>1
<1>4. k <= m => Rank(lines, k) = Rank(lines, m)  BY <1>1
<1>. QED  BY <1>2, <1>3, <1>4

LEMMA CountIs ==
  ASSUME NEW lines \in Sources, NEW b, NEW out, Counted(lines, b, out), NEW m, Done(lines, m, b)
  PROVE  Len(out) = Rank(lines, m)
<1>1. m \in 0 .. Len(lines)  BY DEF Done
<1>. QED  BY <1>1, DoneSame DEF Counted

\* What is done before an operation and behind it.
LEMMA OperationDone ==
  ASSUME NEW lines \in Sources, NEW k \in 1 .. Len(lines), NEW m, IsOpAt(lines, m, k),
         NEW b \in Nat, b < m, Passed(lines, b, m)
  PROVE  Done(lines, k - 1, b) /\ Done(lines, k, m) /\ m \in Nat
<1>0. Len(lines) \in Nat /\ k \in Nat /\ m \in Nat /\ m = OpAt(lines, k)
  <2>1. Len(lines) \in Nat  BY SourceLines
  <2>. QED  BY <2>1, PlacesAreNat DEF IsOpAt
<1>1. ASSUME NEW j \in 1 .. Len(lines), lines[j].op \in LexedMnemonics
      PROVE  (OpAt(lines, j) <= b <=> j <= k - 1) /\ (OpAt(lines, j) <= m <=> j <= k)
  <2> DEFINE p == OpAt(lines, j)
  <2>1. p \in Nat /\ IsOpAt(lines, p, j) /\ Must(lines, p)
    BY <1>1, PlacesAreNat DEF IsOpAt, Must
  <2> HIDE DEF p
  <2>2. (j < k <=> p < m) /\ (j = k <=> p = m)  BY <2>1, PlacesOrder
  <2>3. p < m => p <= b  BY <1>0, <2>1, NotBetween
  <2>4. (p <= b <=> j <= k - 1) /\ (p <= m <=> j <= k)  BY <1>0, <2>1, <2>2, <2>3
  <2>. QED  BY <2>4 DEF p
<1>2. k - 1 \in 0 .. Len(lines) /\ k \in 0 .. Len(lines)  BY <1>0
<1>. QED  BY <1>0, <1>1, <1>2 DEF Done

LEMMA LabelDone ==
  ASSUME NEW lines \in Sources, NEW k \in 1 .. Len(lines), NEW m, IsLabelAt(lines, m, k),
         NEW b \in Nat, b < m, Passed(lines, b, m)
  PROVE  Done(lines, k - 1, b) /\ Done(lines, k - 1, m) /\ m \in Nat
<1>0. Len(lines) \in Nat /\ k \in Nat /\ m \in Nat /\ m = LabelAt(lines, k)
  <2>1. Len(lines) \in Nat  BY SourceLines
  <2>. QED  BY <2>1, PlacesAreNat DEF IsLabelAt
<1>1. ASSUME NEW j \in 1 .. Len(lines), lines[j].op \in LexedMnemonics
      PROVE  (OpAt(lines, j) <= b <=> j <= k - 1) /\ (OpAt(lines, j) <= m <=> j <= k - 1)
  <2> DEFINE p == OpAt(lines, j)
  <2>1. p \in Nat /\ IsOpAt(lines, p, j) /\ Must(lines, p)
    BY <1>1, PlacesAreNat DEF IsOpAt, Must
  <2> HIDE DEF p
  <2>2. (k <= j <=> m < p) /\ m # p  BY <2>1, PlacesOrder
  <2>3. p < m => p <= b  BY <1>0, <2>1, NotBetween
  <2>4. (p <= b <=> j <= k - 1) /\ (p <= m <=> j <= k - 1)  BY <1>0, <2>1, <2>2, <2>3
  <2>. QED  BY <2>4 DEF p
<1>2. k - 1 \in 0 .. Len(lines)  BY <1>0
<1>. QED  BY <1>0, <1>1, <1>2 DEF Done

LEMMA AllDone ==
  ASSUME NEW lines \in Sources, NEW b \in Nat, Passed(lines, b, Len(Lexed(lines)))
  PROVE  Done(lines, Len(lines), b)
<1>0. Len(lines) \in Nat /\ Len(Lexed(lines)) \in Nat
  <2>1. Len(lines) \in Nat  BY SourceLines
  <2>2. Lexed(lines) \in Seq(Tokens)  BY LexedType
  <2>. QED  BY <2>1, <2>2, LenProperties
<1>1. ASSUME NEW j \in 1 .. Len(lines), lines[j].op \in LexedMnemonics
      PROVE  OpAt(lines, j) <= b
  <2> DEFINE p == OpAt(lines, j)
  <2>1. p \in 1 .. Len(Lexed(lines)) - 1 /\ Must(lines, p)
    BY <1>1, PlacesAreNat DEF IsOpAt, Must
  <2> HIDE DEF p
  <2>2. p \in Nat /\ p < Len(Lexed(lines))  BY <1>0, <2>1
  <2>3. p <= b  BY <1>0, <2>1, <2>2, NotBetween
  <2>. QED  BY <2>3 DEF p
<1>2. Len(lines) \in 0 .. Len(lines) /\ \A j \in 1 .. Len(lines) : j <= Len(lines)  BY <1>0
<1>. QED  BY <1>1, <1>2 DEF Done

-----------------------------------------------------------------------------
(* A label, an unknown operation: what they leave of it. *)

\* A name that is in the table keeps what it has.
Added(table, name, sym) == IF name \in DOMAIN table THEN table ELSE With(table, name, sym)

LEMMA AddedIs ==
  ASSUME NEW table, NEW name, NEW sym
  PROVE  LET new == Added(table, name, sym)
         IN  /\ DOMAIN new = DOMAIN table \union {name}
             /\ \A n \in DOMAIN table : new[n] = table[n]
             /\ name \notin DOMAIN table => new[name] = sym
<1>1. CASE name \in DOMAIN table  BY <1>1 DEF Added
<1>2. CASE name \notin DOMAIN table
  <2> DEFINE D == DOMAIN table \union {name}
             new == [n \in D |-> IF n = name THEN sym ELSE table[n]]
  <2>1. Added(table, name, sym) = new  BY <1>2 DEF Added, With
  <2>2. DOMAIN new = D /\ \A n \in D : new[n] = IF n = name THEN sym ELSE table[n]  OBVIOUS
  <2> HIDE DEF new
  <2>. QED  BY <1>2, <2>1, <2>2
<1>. QED  BY <1>1, <1>2

LEMMA AddedAddresses ==
  ASSUME NEW table, Addresses(table), NEW name, NEW sym, NEW a \in 0 .. 2 ^ 10 - 1,
         sym.addr = 4 * a, sym.defined \in BOOLEAN
  PROVE  Addresses(Added(table, name, sym))
<1> DEFINE new == Added(table, name, sym)
<1>1. /\ DOMAIN new = DOMAIN table \union {name}
      /\ \A n \in DOMAIN table : new[n] = table[n]
      /\ name \notin DOMAIN table => new[name] = sym
  BY AddedIs
<1> HIDE DEF new
<1>2. ASSUME NEW n \in DOMAIN new
      PROVE  (\E c \in 0 .. 2 ^ 10 - 1 : new[n].addr = 4 * c) /\ new[n].defined \in BOOLEAN
  <2>1. CASE n \in DOMAIN table  BY <1>1, <2>1 DEF Addresses
  <2>2. CASE n \notin DOMAIN table  BY <1>1, <1>2, <2>2
  <2>. QED  BY <2>1, <2>2
<1>3. Addresses(new)  BY <1>2 DEF Addresses
<1>. QED  BY <1>3 DEF new

\* Line numbers below 2^10.
LEMMA RankIsSmall ==
  ASSUME NEW lines \in Sources, NEW k \in 1 .. Len(lines)
  PROVE  Rank(lines, k - 1) \in 0 .. 2 ^ 10 - 1
<1>1. k - 1 \in 0 .. Len(lines) /\ Len(lines) \in Nat /\ Len(lines) <= 2 ^ 10 /\ k \in Nat  BY SourceLines
<1>2. 2 ^ 10 = 1024  OBVIOUS
<1>3. Rank(lines, k - 1) \in 0 .. k - 1  BY <1>1, RankBound
<1>. QED  BY <1>1, <1>2, <1>3

LEMMA NoOneBetween ==
  ASSUME NEW lines \in Sources, NEW b \in Nat, NEW m \in Nat, b < m, Passed(lines, b, m),
         NEW k \in 1 .. Len(lines), Encodable(lines[k]), OpAt(lines, k) <= m, OpAt(lines, k) # m
  PROVE  OpAt(lines, k) <= b
<1>1. OpAt(lines, k) \in Nat  BY PlacesAreNat
<1>2. Must(lines, OpAt(lines, k))  BY EncodableIsLexed DEF Must, IsOpAt
<1>3. OpAt(lines, k) < m  BY <1>1
<1>. QED  BY <1>1, <1>2, <1>3, NotBetween

LEMMA EmittedOn ==
  ASSUME NEW lines \in Sources, NEW b \in Nat, NEW m \in Nat, b < m, Passed(lines, b, m), NEW out,
         Emitted(lines, b, out), \A k \in 1 .. Len(lines) : Encodable(lines[k]) => OpAt(lines, k) # m
  PROVE  Emitted(lines, m, out)
BY NoOneBetween DEF Emitted

LEMMA NotYetOn ==
  ASSUME NEW lines \in Sources, NEW b \in Nat, NEW m \in Nat, b < m, NEW table, NEW l,
         NotYet(lines, b, table, l)
  PROVE  NotYet(lines, m, table, l)
<1>1. \A j \in 1 .. Len(lines) : OpAt(lines, j) \in Nat  BY PlacesAreNat
<1>2. \A j \in 1 .. Len(lines) : OpAt(lines, j) <= b => OpAt(lines, j) <= m  BY <1>1
<1>. QED  BY <1>2 DEF NotYet

\* The label of a line that is placed and not at m.
LEMMA PlacedBefore ==
  ASSUME NEW lines \in Sources, NEW b \in Nat, NEW m \in Nat, b < m, Passed(lines, b, m),
         NEW l \in Names, NEW d \in 1 .. Len(lines), Placed(lines, d, l),
         LabelAt(lines, d) <= m, LabelAt(lines, d) # m
  PROVE  LabelAt(lines, d) <= b
<1>1. LabelAt(lines, d) \in Nat  BY PlacesAreNat
<1>2. lines[d].label # NoLabel  BY AssemblerAssumption DEF Placed, First
<1>3. Must(lines, LabelAt(lines, d))  BY <1>2 DEF Must, IsLabelAt, Placed
<1>4. LabelAt(lines, d) < m  BY <1>1
<1>. QED  BY <1>1, <1>3, <1>4, NotBetween

LEMMA InTableAdded ==
  ASSUME NEW lines, NEW table, NEW l, NEW d, InTable(lines, table, l, d), NEW name, NEW sym
  PROVE  InTable(lines, Added(table, name, sym), l, d)
<1> DEFINE new == Added(table, name, sym)
<1>1. /\ DOMAIN new = DOMAIN table \union {name}
      /\ \A n \in DOMAIN table : new[n] = table[n]
      /\ name \notin DOMAIN table => new[name] = sym
  BY AddedIs
<1> HIDE DEF new
<1>2. InTable(lines, new, l, d)  BY <1>1 DEF InTable
<1>. QED  BY <1>2 DEF new

\* A label defines its name, if it is not there.
LEMMA LabelKeeps ==
  ASSUME NEW lines \in Sources, NEW i \in 1 .. Len(lines), NEW m, IsLabelAt(lines, m, i),
         NEW b, NEW out, NEW table, Encoding(lines, b, out, table), b < m, Passed(lines, b, m)
  PROVE  Encoding(lines, m, out, Added(table, lines[i].label, [addr |-> 4 * Len(out), defined |-> TRUE]))
<1> DEFINE name == lines[i].label
           sym == [addr |-> 4 * Len(out), defined |-> TRUE]
           new == Added(table, name, sym)
<1>0. /\ b \in Nat /\ out \in Seq(Word) /\ Addresses(table)
      /\ Counted(lines, b, out) /\ Emitted(lines, b, out) /\ Resolved(lines, b, table)
  BY DEF Encoding
<1>1. Done(lines, i - 1, b) /\ Done(lines, i - 1, m) /\ m \in Nat  BY <1>0, LabelDone
<1>2. Len(out) = Rank(lines, i - 1)  BY <1>0, <1>1, CountIs
<1>3. Counted(lines, m, out)
  <2>1. i - 1 \in 0 .. Len(lines)  BY <1>1 DEF Done
  <2>. QED  BY <1>1, <1>2, <2>1 DEF Counted
<1>4. Emitted(lines, m, out)
  <2>1. \A k \in 1 .. Len(lines) : Encodable(lines[k]) => OpAt(lines, k) # m
    <3> SUFFICES ASSUME NEW k \in 1 .. Len(lines), Encodable(lines[k]) PROVE OpAt(lines, k) # m
      OBVIOUS
    <3>1. IsOpAt(lines, OpAt(lines, k), k)  BY EncodableIsLexed DEF IsOpAt
    <3>. QED  BY <3>1, PlacesOrder
  <2>. QED  BY <1>0, <1>1, <2>1, EmittedOn
<1>5. Addresses(new)
  <2>1. Rank(lines, i - 1) \in 0 .. 2 ^ 10 - 1  BY RankIsSmall
  <2>2. sym.addr = 4 * Rank(lines, i - 1) /\ sym.defined \in BOOLEAN  BY <1>2
  <2> HIDE DEF sym
  <2>. QED  BY <1>0, <2>1, <2>2, AddedAddresses
<1>6. /\ DOMAIN new = DOMAIN table \union {name}
      /\ \A n \in DOMAIN table : new[n] = table[n]
      /\ name \notin DOMAIN table => new[name] = sym
  BY AddedIs
<1>7. Resolved(lines, m, new)
  <2> SUFFICES ASSUME NEW l \in Names, NEW d \in 1 .. Len(lines), Placed(lines, d, l)
               PROVE  /\ m < LabelAt(lines, d) => NotYet(lines, m, new, l)
                      /\ LabelAt(lines, d) <= m => InTable(lines, new, l, d)
    BY DEF Resolved
  <2>0. /\ b < LabelAt(lines, d) => NotYet(lines, b, table, l)
        /\ LabelAt(lines, d) <= b => InTable(lines, table, l, d)
    BY <1>0 DEF Resolved
  <2>1. LabelAt(lines, d) \in Nat /\ lines[d].label = l /\ l # NoLabel
        /\ IsLabelAt(lines, LabelAt(lines, d), d)
    BY PlacesAreNat, AssemblerAssumption DEF Placed, First, IsLabelAt
  <2>2. (i < d <=> m < LabelAt(lines, d)) /\ (i = d <=> m = LabelAt(lines, d))
    BY <2>1, PlacesOrder
  <2>3. ASSUME m < LabelAt(lines, d) PROVE NotYet(lines, m, new, l)
    <3>1. b < LabelAt(lines, d)  BY <1>0, <1>1, <2>1, <2>3
    <3>2. NotYet(lines, m, table, l)  BY <1>0, <1>1, <2>0, <3>1, NotYetOn
    <3>3. name # l
      <4>1. i \in 1 .. d - 1  BY <2>2, <2>3
      <4>. QED  BY <4>1 DEF Placed, First
    <3> HIDE DEF new
    <3>4. l \in DOMAIN new => l \in DOMAIN table  BY <1>6, <3>3
    <3>. QED  BY <3>2, <3>4 DEF NotYet
  <2>4. ASSUME LabelAt(lines, d) <= m PROVE InTable(lines, new, l, d)
    <3>1. CASE LabelAt(lines, d) # m
      <4>1. LabelAt(lines, d) <= b  BY <1>0, <1>1, <2>4, <3>1, PlacedBefore
      <4>. QED  BY <2>0, <4>1, InTableAdded
    <3>2. CASE LabelAt(lines, d) = m
      <4>1. d = i /\ name = l  BY <2>1, <2>2, <3>2
      <4> HIDE DEF new
      <4>2. CASE l \notin DOMAIN table
        <5>1. new[l] = [addr |-> 4 * Rank(lines, d - 1), defined |-> TRUE]  BY <1>2, <1>6, <4>1, <4>2
        <5>2. l \in DOMAIN new  BY <1>6, <4>1
        <5>. QED  BY <5>1, <5>2 DEF InTable
      <4>3. CASE l \in DOMAIN table
        <5>1. b < LabelAt(lines, d)  BY <3>2
        <5>2. PICK j \in 1 .. Len(lines) : Refers(lines, j, l) /\ OpAt(lines, j) <= b
          BY <2>0, <4>3, <5>1 DEF NotYet
        <5>3. IsOpAt(lines, OpAt(lines, j), j) /\ OpAt(lines, j) \in Nat
          BY <5>2, EncodableIsLexed, PlacesAreNat DEF Refers, IsOpAt
        <5>4. d <= j <=> LabelAt(lines, d) < OpAt(lines, j)  BY <2>1, <5>3, PlacesOrder
        <5>5. ~(LabelAt(lines, d) < OpAt(lines, j))  BY <1>0, <2>1, <5>1, <5>2, <5>3
        <5>6. j \in 1 .. d - 1  BY <5>4, <5>5
        <5>7. l \in DOMAIN new  BY <1>6, <4>3
        <5>. QED  BY <5>2, <5>6, <5>7 DEF InTable
      <4>. QED  BY <4>2, <4>3
    <3>. QED  BY <3>1, <3>2
  <2>. QED  BY <2>3, <2>4
<1>8. Encoding(lines, m, out, new)  BY <1>0, <1>1, <1>3, <1>4, <1>5, <1>7 DEF Encoding
<1>. QED  BY <1>8

\* What is not encoded.
LEMMA UnknownKeeps ==
  ASSUME NEW lines \in Sources, NEW k \in 1 .. Len(lines), NEW m, IsOpAt(lines, m, k), ~Encodable(lines[k]),
         NEW b, NEW out, NEW table, Encoding(lines, b, out, table), b < m, Passed(lines, b, m)
  PROVE  Encoding(lines, m, out, table)
<1>0. /\ b \in Nat /\ out \in Seq(Word) /\ Addresses(table)
      /\ Counted(lines, b, out) /\ Emitted(lines, b, out) /\ Resolved(lines, b, table)
  BY DEF Encoding
<1>1. Done(lines, k - 1, b) /\ Done(lines, k, m) /\ m \in Nat  BY <1>0, OperationDone
<1>2. Len(out) = Rank(lines, k - 1)  BY <1>0, <1>1, CountIs
<1>3. Rank(lines, k) = Rank(lines, k - 1)  BY Ranks
<1>4. Counted(lines, m, out)
  <2>1. k \in 0 .. Len(lines)  BY <1>1 DEF Done
  <2>. QED  BY <1>1, <1>2, <1>3, <2>1 DEF Counted
<1>5. Emitted(lines, m, out)
  <2>1. \A j \in 1 .. Len(lines) : Encodable(lines[j]) => OpAt(lines, j) # m
    <3> SUFFICES ASSUME NEW j \in 1 .. Len(lines), Encodable(lines[j]) PROVE OpAt(lines, j) # m
      OBVIOUS
    <3>1. IsOpAt(lines, OpAt(lines, j), j)  BY EncodableIsLexed DEF IsOpAt
    <3>2. k = j <=> m = OpAt(lines, j)  BY <3>1, PlacesOrder
    <3>. QED  BY <3>2
  <2>. QED  BY <1>0, <1>1, <2>1, EmittedOn
<1>6. Resolved(lines, m, table)
  <2> SUFFICES ASSUME NEW l \in Names, NEW d \in 1 .. Len(lines), Placed(lines, d, l)
               PROVE  /\ m < LabelAt(lines, d) => NotYet(lines, m, table, l)
                      /\ LabelAt(lines, d) <= m => InTable(lines, table, l, d)
    BY DEF Resolved
  <2>0. /\ b < LabelAt(lines, d) => NotYet(lines, b, table, l)
        /\ LabelAt(lines, d) <= b => InTable(lines, table, l, d)
    BY <1>0 DEF Resolved
  <2>1. LabelAt(lines, d) \in Nat /\ IsLabelAt(lines, LabelAt(lines, d), d)
    BY PlacesAreNat, AssemblerAssumption DEF Placed, First, IsLabelAt
  <2>2. LabelAt(lines, d) # m  BY <2>1, PlacesOrder
  <2>3. m < LabelAt(lines, d) => b < LabelAt(lines, d)  BY <1>0, <1>1, <2>1
  <2>4. LabelAt(lines, d) <= m => LabelAt(lines, d) <= b  BY <1>0, <1>1, <2>2, PlacedBefore
  <2>. QED  BY <1>0, <1>1, <2>0, <2>3, <2>4, NotYetOn
<1>. QED  BY <1>0, <1>1, <1>4, <1>5, <1>6 DEF Encoding

-----------------------------------------------------------------------------
(* An instruction: the word that is added. *)

LEMMA TargetRefers ==
  ASSUME source \in Sources, NEW k \in 1 .. Len(source), Encodable(source[k]), NEW ops,
         OperandsAre(FormatAt(source, k), source[k].args, ops), FormatAt(source, k) \in {"B", "J"},
         ops[Mnemonics[source[k].op].arity].kind = "label"
  PROVE  Refers(source, k, ops[Mnemonics[source[k].op].arity].val)
<1> DEFINE m == Mnemonics[source[k].op]
           f == m.format
           n == m.arity
           args == source[k].args
<1>1. m.arity = Arity(f) /\ FormatAt(source, k) = f  BY MnemonicFacts DEF Encodable, FormatAt
<1>2. ops[n] = Operand(args[n].kind, args[n].val) /\ n \in 1 .. Len(args)
  <2>1. OperandsAre(f, args, ops) /\ f \in {"B", "J"} /\ n = Arity(f)  BY <1>1
  <2> HIDE DEF f, n, args
  <2>2. CASE f = "B"
    <3>1. n = 3  BY <2>1, <2>2 DEF Arity
    <3>. QED  BY <2>1, <2>2, <3>1 DEF OperandsAre
  <2>3. CASE f = "J"
    <3>1. n = 2  BY <2>1, <2>3 DEF Arity
    <3>. QED  BY <2>1, <2>3, <3>1 DEF OperandsAre
  <2>. QED  BY <2>1, <2>2, <2>3
<1>3. args[n].kind = "label" /\ ops[n].val = args[n].val  BY <1>2 DEF Operand
<1>4. args[n] \in Args
  <2>1. source[k] \in Lines  BY SourceLines
  <2>. QED  BY <1>2, <2>1, LineFields
<1>5. args[n] = Operand("label", args[n].val)
  <2> DEFINE a == args[n]
  <2>1. a \in Args /\ a.kind = "label"  BY <1>3, <1>4
  <2> HIDE DEF a
  <2>2. a \in [kind : {"label"}, val : Names]  BY <2>1 DEF Args
  <2>3. a = Operand("label", a.val)  BY <2>2 DEF Operand
  <2>. QED  BY <2>3 DEF a
<1>6. TargetArg(source, k) = args[n]  BY DEF TargetArg
<1>. QED  BY <1>3, <1>5, <1>6 DEF Refers

\* The words before the new one stay.
LEMMA AppendedWord ==
  ASSUME NEW out \in Seq(Word), NEW w \in Word
  PROVE  /\ Append(out, w) \in Seq(Word) /\ Len(Append(out, w)) = Len(out) + 1 /\ Len(out) \in Nat
         /\ Append(out, w)[Len(out) + 1] = w
         /\ \A i \in 1 .. Len(out) : i \in 1 .. Len(out) + 1 /\ Append(out, w)[i] = out[i]
<1>1. /\ Append(out, w) \in Seq(Word) /\ Len(Append(out, w)) = Len(out) + 1
      /\ Append(out, w)[Len(out) + 1] = w
      /\ \A i \in 1 .. Len(out) : Append(out, w)[i] = out[i]
  BY AppendProperties
<1>2. Len(out) \in Nat  BY LenProperties
<1>. QED  BY <1>1, <1>2

\* A word reaches the label it names, if that is behind the instruction.
LEMMA WordReaches ==
  ASSUME source \in Sources, NEW k \in 1 .. Len(source), Encodable(source[k]), NEW ops, NEW m,
         IsOpAt(source, m, k), NEW b, Encoding(source, b, output, symbols), b < m, Passed(source, b, m),
         offset = 4 * Rank(source, k - 1),
         OperandsAre(FormatAt(source, k), source[k].args, ops)
  PROVE  LET w == Encoded(source[k].op, ops) IN w \in Word /\ Good(source, k, w)
<1> DEFINE f == FormatAt(source, k)
           w == Encoded(source[k].op, ops)
           t == TargetArg(source, k)
<1>0. b \in Nat /\ Addresses(symbols) /\ Resolved(source, b, symbols)  BY DEF Encoding
<1>1. /\ w \in Word /\ WordOk(f, source[k].args, w)
      /\ f \in {"B", "J"} /\ t.kind = "immediate" => offset + ImmOf(f, w) = t.val
      /\ f \in {"B", "J"} /\ t.kind = "label" => offset + ImmOf(f, w) = AddressOf(t.val)
  BY <1>0, Encodes
<1>2. offset + ImmOf(f, w) = Branch(source, k, w)  BY DEF Branch
<1> HIDE DEF w
<1>3. ImmediateOk(source, k, w)  BY <1>1, <1>2 DEF ImmediateOk
<1>4. LabelOk(source, k, w)
  <2> SUFFICES ASSUME NEW l \in Names, NEW d \in 1 .. Len(source),
                      Refers(source, k, l), Placed(source, d, l),
                      \A n \in 1 .. k : Refers(source, n, l) => d <= n
               PROVE  Branch(source, k, w) = 4 * Rank(source, d - 1)
    BY DEF LabelOk
  <2>0. Len(source) \in Nat /\ k \in Nat /\ d \in Nat /\ k \in 1 .. k
    <3>1. Len(source) \in Nat  BY SourceLines
    <3>. QED  BY <3>1
  <2>1. d <= k  BY <2>0
  <2>2. LabelAt(source, d) < m
    <3>1. IsLabelAt(source, LabelAt(source, d), d)
      BY AssemblerAssumption DEF Placed, First, IsLabelAt
    <3>. QED  BY <2>1, <3>1, PlacesOrder
  <2>3. LabelAt(source, d) \in Nat /\ m \in Nat  BY PlacesAreNat DEF IsOpAt
  <2>4. LabelAt(source, d) <= b  BY <1>0, <2>2, <2>3, PlacedBefore
  <2>5. InTable(source, symbols, l, d)  BY <1>0, <2>4 DEF Resolved
  <2>6. \A j \in 1 .. d - 1 : ~Refers(source, j, l)
    <3> SUFFICES ASSUME NEW j \in 1 .. d - 1, Refers(source, j, l) PROVE FALSE  OBVIOUS
    <3>1. j \in 1 .. k /\ ~(d <= j)  BY <2>0, <2>1
    <3>. QED  BY <3>1
  <2>7. l \in DOMAIN symbols /\ symbols[l] = [addr |-> 4 * Rank(source, d - 1), defined |-> TRUE]
    BY <2>5, <2>6 DEF InTable
  <2>8. AddressOf(l) = 4 * Rank(source, d - 1)  BY <2>7 DEF AddressOf
  <2>9. t.kind = "label" /\ t.val = l /\ f \in {"B", "J"}  BY DEF Refers, Operand
  <2>. QED  BY <1>1, <1>2, <2>8, <2>9
<1>5. Good(source, k, w)  BY <1>1, <1>3, <1>4 DEF Good
<1>. QED  BY <1>1, <1>5 DEF w

\* The names that an instruction looks up.
LEMMA LooksUp ==
  ASSUME source \in Sources, NEW k \in 1 .. Len(source), Encodable(source[k]), NEW ops,
         OpsGood(source, k, ops), OperandsAre(FormatAt(source, k), source[k].args, ops),
         HasTarget(source[k].op), ops[TargetIndex(source[k].op)].kind = "label",
         ops # <<>>
  PROVE  LET l == ops[TargetIndex(source[k].op)].val
         IN  Refers(source, k, l) \/ (source[k].op = "call" /\ CallsElsewhere(source, k, l))
<1> DEFINE n == Mnemonics[source[k].op].arity
           f == FormatAt(source, k)
<1>1. /\ n = Arity(f) /\ (source[k].op = "call" <=> f = "call")
      /\ f = Mnemonics[source[k].op].format
  BY MnemonicFacts DEF Encodable, FormatAt
<1>2. TargetIndex(source[k].op) = n /\ f \in {"B", "J", "call"}  BY <1>1 DEF TargetIndex, HasTarget
<1>3. CASE f \in {"B", "J"}  BY <1>2, <1>3, TargetRefers
<1>4. CASE f = "call"
  <2>1. n = 1 /\ source[k].op = "call"  BY <1>1, <1>4 DEF Arity
  <2>2. CallOk(source, k, ops)  BY DEF OpsGood
  <2>3. ops[1].kind = "label"  BY <1>2, <2>1
  <2>4. CallsElsewhere(source, k, ops[1].val)  BY <2>1, <2>2, <2>3 DEF CallOk
  <2>. QED  BY <1>2, <2>1, <2>4
<1>. QED  BY <1>2, <1>3, <1>4

-----------------------------------------------------------------------------
(* An instruction: the names it looks up. *)

\* A call looks up no name that is placed behind it.
LEMMA CallsNoPlaced ==
  ASSUME NEW lines \in Sources, NEW k \in 1 .. Len(lines), lines[k].op = "call", Encodable(lines[k]),
         NEW l \in Names, CallsElsewhere(lines, k, l), NEW d \in 1 .. Len(lines), Placed(lines, d, l)
  PROVE  d <= k
<1>0. Len(lines) \in Nat /\ k \in Nat /\ d \in Nat
  <2>1. Len(lines) \in Nat  BY SourceLines
  <2>. QED  BY <2>1
<1> SUFFICES ASSUME k < d PROVE FALSE  BY <1>0
<1>1. l \notin Ops  BY AssemblerAssumption
<1>2. PICK i \in 1 .. Len(lines) : k < i /\ lines[i].label = l /\ NoneBetween(lines, k, i)
  BY <1>1 DEF CallsElsewhere
<1>3. d <= i
  <2> SUFFICES ASSUME ~(d <= i) PROVE FALSE  OBVIOUS
  <2>1. i \in 1 .. d - 1  BY <1>0
  <2>. QED  BY <1>2, <2>1 DEF Placed, First
<1>4. NoneBetween(lines, k, d)
  <2>1. \A n \in k + 1 .. d - 1 : n \in k + 1 .. i - 1  BY <1>0, <1>3
  <2>. QED  BY <1>2, <2>1 DEF NoneBetween
<1>5. lines[k].op \in LexedMnemonics  BY EncodableIsLexed
<1>6. lines[k].args[1].kind = "label"
  <2>1. Operates(FormatOf(lines[k].op), lines[k].args)  BY <1>5, LegalOperates
  <2>2. FormatOf("call") = "call"  BY DEF FormatOf, Mnemonics
  <2>3. Operates("call", lines[k].args) => lines[k].args[1].kind = "label"  BY DEF Operates
  <2>. QED  BY <2>1, <2>2, <2>3
<1>7. k \in 1 .. d - 1  BY <1>0
<1>8. TakenIn(lines, d)  BY <1>4, <1>5, <1>6, <1>7 DEF TakenIn
<1>. QED  BY <1>8 DEF Placed

\* A name is looked up.
LEMMA LookedUp ==
  ASSUME NEW lines \in Sources, NEW k \in 1 .. Len(lines), NEW m, IsOpAt(lines, m, k), Encodable(lines[k]),
         NEW b \in Nat, NEW table, Addresses(table), Resolved(lines, b, table), b < m, Passed(lines, b, m),
         NEW new, new = table \/ \E name :
           /\ new = Added(table, name, [addr |-> 0, defined |-> FALSE])
           /\ Refers(lines, k, name) \/ (lines[k].op = "call" /\ CallsElsewhere(lines, k, name))
  PROVE  Addresses(new) /\ Resolved(lines, m, new)
<1> DEFINE sym == [addr |-> 0, defined |-> FALSE]
<1>0. m \in Nat /\ m = OpAt(lines, k)  BY PlacesAreNat DEF IsOpAt
<1>1. 0 \in 0 .. 2 ^ 10 - 1 /\ sym.addr = 4 * 0 /\ sym.defined \in BOOLEAN
  <2>1. 2 ^ 10 = 1024  OBVIOUS
  <2>. QED  BY <2>1
<1>2. Addresses(new)
  <2>1. CASE new = table  BY <2>1
  <2>2. ASSUME NEW name, new = Added(table, name, sym) PROVE Addresses(new)
    <3> HIDE DEF sym
    <3>1. Addresses(Added(table, name, sym))  BY <1>1, AddedAddresses
    <3>. QED  BY <2>2, <3>1
  <2>. QED  BY <2>1, <2>2
<1>3. ASSUME NEW l \in Names, NEW d \in 1 .. Len(lines), Placed(lines, d, l)
      PROVE  /\ m < LabelAt(lines, d) => NotYet(lines, m, new, l)
             /\ LabelAt(lines, d) <= m => InTable(lines, new, l, d)
  <2>0. /\ b < LabelAt(lines, d) => NotYet(lines, b, table, l)
        /\ LabelAt(lines, d) <= b => InTable(lines, table, l, d)
    BY <1>3 DEF Resolved
  <2>1. LabelAt(lines, d) \in Nat /\ IsLabelAt(lines, LabelAt(lines, d), d)
    BY <1>3, PlacesAreNat, AssemblerAssumption DEF Placed, First, IsLabelAt
  <2>2. LabelAt(lines, d) # m /\ (d <= k <=> LabelAt(lines, d) < m)  BY <2>1, PlacesOrder
  <2>3. ASSUME m < LabelAt(lines, d) PROVE NotYet(lines, m, new, l)
    <3>1. b < LabelAt(lines, d)  BY <1>0, <2>1, <2>3
    <3>2. NotYet(lines, m, table, l)  BY <1>0, <2>0, <3>1, NotYetOn
    <3>3. ~(d <= k)  BY <1>0, <2>1, <2>2, <2>3
    <3>4. CASE new = table  BY <3>2, <3>4
    <3>5. ASSUME NEW name, new = Added(table, name, sym),
                 Refers(lines, k, name) \/ (lines[k].op = "call" /\ CallsElsewhere(lines, k, name))
          PROVE  NotYet(lines, m, new, l)
      <4>1. DOMAIN new = DOMAIN table \union {name}
        <5> HIDE DEF sym
        <5>1. DOMAIN Added(table, name, sym) = DOMAIN table \union {name}  BY AddedIs
        <5>. QED  BY <3>5, <5>1
      <4>2. CASE l = name
        <5>1. ~(lines[k].op = "call" /\ CallsElsewhere(lines, k, name))
          BY <1>3, <3>3, <4>2, CallsNoPlaced
        <5>2. Refers(lines, k, l)  BY <3>5, <4>2, <5>1
        <5>3. OpAt(lines, k) <= m  BY <1>0
        <5>. QED  BY <5>2, <5>3 DEF NotYet
      <4>3. CASE l # name
        <5>1. l \in DOMAIN new => l \in DOMAIN table  BY <4>1, <4>3
        <5>. QED  BY <3>2, <5>1 DEF NotYet
      <4>. QED  BY <4>2, <4>3
    <3>. QED  BY <3>4, <3>5
  <2>4. ASSUME LabelAt(lines, d) <= m PROVE InTable(lines, new, l, d)
    <3>1. LabelAt(lines, d) <= b  BY <1>0, <1>3, <2>2, <2>4, PlacedBefore
    <3>2. InTable(lines, table, l, d)  BY <2>0, <3>1
    <3> HIDE DEF sym
    <3>3. \A name : InTable(lines, Added(table, name, sym), l, d)  BY <3>2, InTableAdded
    <3>. QED  BY <3>2, <3>3 DEF sym
  <2>. QED  BY <2>3, <2>4
<1>4. Resolved(lines, m, new)  BY <1>3 DEF Resolved
<1>. QED  BY <1>2, <1>4

\* An instruction.
LEMMA InstructionKeeps ==
  ASSUME source \in Sources, NEW k \in 1 .. Len(source), NEW m, IsOpAt(source, m, k), Encodable(source[k]),
         NEW ops, OpsGood(source, k, ops), Len(ops) >= Mnemonics[source[k].op].arity,
         NEW b, Encoding(source, b, output, symbols), b < m, Passed(source, b, m),
         offset = 4 * Len(output), NEW new,
         LET target == ops[TargetIndex(source[k].op)]
         IN  new = IF HasTarget(source[k].op) /\ target.kind = "label"
                   THEN Added(symbols, target.val, [addr |-> 0, defined |-> FALSE]) ELSE symbols
  PROVE  Encoding(source, m, Append(output, Encoded(source[k].op, ops)), new)
<1> DEFINE w == Encoded(source[k].op, ops)
           target == ops[TargetIndex(source[k].op)]
<1>0. /\ b \in Nat /\ output \in Seq(Word) /\ Addresses(symbols)
      /\ Counted(source, b, output) /\ Emitted(source, b, output) /\ Resolved(source, b, symbols)
  BY DEF Encoding
<1>1. Done(source, k - 1, b) /\ Done(source, k, m) /\ m \in Nat  BY <1>0, OperationDone
<1>2. Len(output) = Rank(source, k - 1) /\ Rank(source, k) = Rank(source, k - 1) + 1
  <2>1. Len(output) = Rank(source, k - 1)  BY <1>0, <1>1, CountIs
  <2>. QED  BY <2>1, Ranks
<1>3. OperandsAre(FormatAt(source, k), source[k].args, ops)
  BY OperandsOfInstruction DEF FormatAt
<1>4. w \in Word /\ Good(source, k, w)
  <2>1. offset = 4 * Rank(source, k - 1)  BY <1>2
  <2>. QED  BY <1>3, <2>1, WordReaches
<1> HIDE DEF w
<1>5. /\ Append(output, w) \in Seq(Word) /\ Len(Append(output, w)) = Len(output) + 1 /\ Len(output) \in Nat
      /\ Append(output, w)[Len(output) + 1] = w
      /\ \A i \in 1 .. Len(output) : i \in 1 .. Len(output) + 1 /\ Append(output, w)[i] = output[i]
  BY <1>0, <1>4, AppendedWord
<1>6. Counted(source, m, Append(output, w))
  <2>1. k \in 0 .. Len(source)  BY <1>1 DEF Done
  <2>2. Len(Append(output, w)) = Rank(source, k)  BY <1>2, <1>5
  <2>. QED  BY <1>1, <2>1, <2>2 DEF Counted
<1>7. Emitted(source, m, Append(output, w))
  <2> SUFFICES ASSUME NEW j \in 1 .. Len(source), Encodable(source[j]), OpAt(source, j) <= m
               PROVE  /\ Rank(source, j) \in 1 .. Len(Append(output, w))
                      /\ Good(source, j, Append(output, w)[Rank(source, j)])
    BY DEF Emitted
  <2>1. CASE OpAt(source, j) = m
    <3>1. IsOpAt(source, OpAt(source, j), j)  BY EncodableIsLexed DEF IsOpAt
    <3>2. j = k  BY <2>1, <3>1, PlacesOrder
    <3>3. Rank(source, j) = Len(output) + 1  BY <1>2, <3>2
    <3>4. Len(output) + 1 \in 1 .. Len(output) + 1  BY <1>5
    <3>. QED  BY <1>4, <1>5, <3>2, <3>3, <3>4
  <2>2. CASE OpAt(source, j) # m
    <3>1. OpAt(source, j) <= b  BY <1>0, <1>1, <2>2, NoOneBetween
    <3>2. Rank(source, j) \in 1 .. Len(output) /\ Good(source, j, output[Rank(source, j)])
      BY <1>0, <3>1 DEF Emitted
    <3>. QED  BY <1>5, <3>2
  <2>. QED  BY <2>1, <2>2
<1>8. new = symbols \/ \E name :
         /\ new = Added(symbols, name, [addr |-> 0, defined |-> FALSE])
         /\ Refers(source, k, name) \/ (source[k].op = "call" /\ CallsElsewhere(source, k, name))
  <2>1. CASE HasTarget(source[k].op) /\ target.kind = "label"
    <3>1. ops # <<>>
      <4> SUFFICES ASSUME ops = <<>> PROVE FALSE  OBVIOUS
      <4>1. Len(ops) = 0  BY EmptySeq
      <4>2. Mnemonics[source[k].op].arity \in 1 .. 3
        <5>1. Mnemonics[source[k].op].format \in {"B", "J", "call"}  BY <2>1 DEF HasTarget
        <5>2. Mnemonics[source[k].op].arity = Arity(Mnemonics[source[k].op].format)
          BY MnemonicFacts DEF Encodable
        <5> DEFINE f == Mnemonics[source[k].op].format
        <5>3. f \in {"B", "J", "call"}  BY <5>1
        <5> HIDE DEF f
        <5>4. Arity(f) \in 1 .. 3
          <6>1. Arity("B") = 3 /\ Arity("J") = 2 /\ Arity("call") = 1  BY DEF Arity
          <6>. QED  BY <5>3, <6>1
        <5>. QED  BY <5>2, <5>4 DEF f
      <4>. QED  BY <4>1, <4>2
    <3>2. Refers(source, k, target.val) \/ (source[k].op = "call" /\ CallsElsewhere(source, k, target.val))
      BY <1>3, <2>1, <3>1, LooksUp
    <3>3. new = Added(symbols, target.val, [addr |-> 0, defined |-> FALSE])  BY <2>1
    <3> HIDE DEF target
    <3>. QED  BY <3>2, <3>3
  <2>2. CASE ~(HasTarget(source[k].op) /\ target.kind = "label")  BY <2>2
  <2>. QED  BY <2>1, <2>2
<1>9. Addresses(new) /\ Resolved(source, m, new)  BY <1>0, <1>8, LookedUp
<1>10. Encoding(source, m, Append(output, w), new)  BY <1>1, <1>5, <1>6, <1>7, <1>9 DEF Encoding
<1>. QED  BY <1>10 DEF w

-----------------------------------------------------------------------------
(* The inductive invariant, and the steps of the parser. *)

\* While the parser runs, the nodes are those before its place.
Parsing ==
  phase \in {"parse", "operands", "node"} =>
    /\ output = <<>> /\ symbols = <<>>
    /\ phase = "parse" => \E at : Marked(source, at, nodes, 0, pos)
    /\ phase \in {"operands", "node"} =>
         \E at : \E k \in 1 .. Len(source) : Pending(source, at, nodes, k, inst, pos, phase)

\* While the encoder runs, the nodes left are those behind some place b, and the rest follows from b.
Coding ==
  phase \in {"encode", "done", "failed"} =>
    \E at, b : Marked(source, at, nodes, b, Len(tokens)) /\ Encoding(source, b, output, symbols)

\* The inductive invariant.
AsmInv ==
  /\ Given
  /\ phase \in {"parse", "operands", "node", "encode", "done", "failed"}
  /\ pos \in 1 .. Len(tokens)
  /\ offset = 4 * Len(output)
  /\ phase = "done" => nodes = <<>>
  /\ Parsing /\ Coding

LEMMA InitInv == ASSUME Init PROVE AsmInv
<1>0. /\ source \in Sources /\ tokens = Lexed(source) /\ pos = 1 /\ nodes = <<>>
      /\ offset = 0 /\ symbols = <<>> /\ output = <<>> /\ phase = "parse"
  BY DEF Init
<1>1. Given  BY <1>0 DEF Given
<1>2. Len(tokens) \in Nat \ {0} /\ pos \in 1 .. Len(tokens)
  <2>1. Len(tokens) \in Nat \ {0}  BY <1>1, KindIs
  <2>. QED  BY <1>0, <2>1
<1>3. offset = 4 * Len(output)
  <2>1. Len(output) = 0  BY <1>0, EmptySeq
  <2>. QED  BY <1>0, <2>1
<1>4. Passed(source, 0, pos)
  <2>1. \A p \in Nat : ~(0 < p /\ p < 1)  OBVIOUS
  <2>. QED  BY <1>0, <2>1 DEF Passed
<1>5. Marked(source, <<>>, nodes, 0, pos)  BY <1>0, <1>4, MarkedNone
<1>6. Parsing /\ Coding  BY <1>0, <1>5 DEF Parsing, Coding
<1>. QED  BY <1>0, <1>1, <1>2, <1>3, <1>6 DEF AsmInv

\* The parser's steps: what they leave to show.
LEMMA ParserStep ==
  ASSUME AsmInv, UNCHANGED <<source, tokens, offset, symbols, output>>,
         phase \in {"parse", "operands", "node"}, phase' \in {"parse", "operands", "node"},
         pos' \in 1 .. Len(tokens),
         phase' = "parse" => \E at : Marked(source, at, nodes', 0, pos'),
         phase' \in {"operands", "node"} =>
           \E at : \E k \in 1 .. Len(source) : Pending(source, at, nodes', k, inst', pos', phase')
  PROVE  AsmInv'
<1>1. source' = source /\ tokens' = tokens /\ offset' = offset /\ symbols' = symbols /\ output' = output
  OBVIOUS
<1>2. Given /\ offset = 4 * Len(output) /\ output = <<>> /\ symbols = <<>>
  BY DEF AsmInv, Parsing
<1>3. Given'  BY <1>1, <1>2 DEF Given
<1>4. offset' = 4 * Len(output')  BY <1>1, <1>2
<1>5. pos' \in 1 .. Len(tokens')  BY <1>1
<1>6. Parsing'  BY <1>1, <1>2 DEF Parsing
<1>7. Coding' /\ (phase' = "done" => nodes' = <<>>)  BY DEF Coding
<1>. QED  BY <1>3, <1>4, <1>5, <1>6, <1>7 DEF AsmInv

LEMMA ParseLabelInv == ASSUME AsmInv, ParseLabel PROVE AsmInv'
<1> DEFINE p == SkipNewlines(pos)
<1>1. /\ phase = "parse" /\ Kind(p) = "label"
      /\ nodes' = Append(nodes, [kind |-> "label", name |-> Val(p)])
      /\ pos' = p + 1 /\ phase' = phase
      /\ UNCHANGED <<source, tokens, offset, symbols, output>>
  BY DEF ParseLabel
<1>2. Given /\ pos \in 1 .. Len(tokens)  BY DEF AsmInv
<1>3. PICK at : Marked(source, at, nodes, 0, pos)  BY <1>1 DEF AsmInv, Parsing
<1>4. Marked(source, at, nodes, 0, p)  BY <1>2, <1>3, SkippedMarked
<1>5. p \in 1 .. Len(tokens)  BY <1>2, SkipIsPassed
<1> HIDE DEF p
<1>6. Marked(source, Append(at, p), nodes', 0, pos') /\ pos' \in 1 .. Len(tokens)
  BY <1>1, <1>2, <1>4, <1>5, LabelNode
<1>. QED  BY <1>1, <1>6, ParserStep

LEMMA ParseInstructionInv == ASSUME AsmInv, ParseInstruction PROVE AsmInv'
<1> DEFINE p == SkipNewlines(pos)
           q == SkipNewlines(p + 1)
           r == FirstArgs(q)
<1>1. /\ phase = "parse" /\ Kind(p) = "mnemonic"
      /\ inst' = [kind |-> "instruction", name |-> Val(p), ops |-> r.ops]
      /\ pos' = r.next
      /\ phase' = IF IsMemory(q) \/ r.ops = <<>> THEN "node" ELSE "operands"
      /\ nodes' = nodes
      /\ UNCHANGED <<source, tokens, offset, symbols, output>>
  BY DEF ParseInstruction, FirstArgs
<1>2. Given /\ pos \in 1 .. Len(tokens)  BY DEF AsmInv
<1>3. PICK at : Marked(source, at, nodes, 0, pos)  BY <1>1 DEF AsmInv, Parsing
<1>4. Marked(source, at, nodes, 0, p)  BY <1>2, <1>3, SkippedMarked
<1>5. p \in 1 .. Len(tokens)  BY <1>2, SkipIsPassed
<1> HIDE DEF p
<1>6. /\ \E k \in 1 .. Len(source) : Pending(source, at, nodes, k, inst', pos', phase')
      /\ pos' \in 1 .. Len(tokens)
  BY <1>1, <1>2, <1>4, <1>5, StartNode
<1>7. phase' \in {"operands", "node"}  BY <1>1
<1>. QED  BY <1>1, <1>6, <1>7, ParserStep

LEMMA ParseNextOperandInv == ASSUME AsmInv, ParseNextOperand PROVE AsmInv'
<1> DEFINE p == SkipNewlines(pos + 1)
           r == ParseOperand(p)
<1>1. /\ phase = "operands" /\ Kind(pos) = "comma"
      /\ inst' = [inst EXCEPT !.ops = @ \o r.ops]
      /\ pos' = r.next
      /\ nodes' = nodes /\ phase' = phase
      /\ UNCHANGED <<source, tokens, offset, symbols, output>>
  BY DEF ParseNextOperand
<1>2. Given /\ pos \in 1 .. Len(tokens)  BY DEF AsmInv
<1>3. PICK at : \E k \in 1 .. Len(source) : Pending(source, at, nodes, k, inst, pos, phase)
  BY <1>1 DEF AsmInv, Parsing
<1>4. PICK k \in 1 .. Len(source) : Pending(source, at, nodes, k, inst, pos, "operands")
  BY <1>1, <1>3
<1>5. Pending(source, at, nodes, k, inst', pos', "operands") /\ pos' \in 1 .. Len(tokens)
  BY <1>1, <1>2, <1>4, NextOperand
<1>. QED  BY <1>1, <1>5, ParserStep

LEMMA ParseInstructionEndInv == ASSUME AsmInv, ParseInstructionEnd PROVE AsmInv'
<1>1. /\ phase = "node" \/ (phase = "operands" /\ Kind(pos) # "comma")
      /\ nodes' = Append(nodes, inst) /\ phase' = "parse" /\ pos' = pos
      /\ UNCHANGED <<source, tokens, offset, symbols, output>>
  BY DEF ParseInstructionEnd
<1>2. Given /\ pos \in 1 .. Len(tokens)  BY DEF AsmInv
<1>3. PICK at : \E k \in 1 .. Len(source) : Pending(source, at, nodes, k, inst, pos, phase)
  BY <1>1 DEF AsmInv, Parsing
<1>4. PICK k \in 1 .. Len(source) : Pending(source, at, nodes, k, inst, pos, phase)  BY <1>3
<1>5. \E bt : Marked(source, bt, nodes', 0, pos')  BY <1>1, <1>2, <1>4, InstructionDone
<1>. QED  BY <1>1, <1>2, <1>5, ParserStep

LEMMA ParseUnknownInv == ASSUME AsmInv, ParseUnknown PROVE AsmInv'
<1>1. /\ phase = "parse" /\ Kind(SkipNewlines(pos)) \notin {"label", "mnemonic", "eof"}
      /\ nodes' = nodes /\ phase' = phase /\ pos' = SkipNewlines(pos) + 1
      /\ UNCHANGED <<source, tokens, offset, symbols, output>>
  BY DEF ParseUnknown
<1>2. Given /\ pos \in 1 .. Len(tokens)  BY DEF AsmInv
<1>3. PICK at : Marked(source, at, nodes, 0, pos)  BY <1>1 DEF AsmInv, Parsing
<1>4. Marked(source, at, nodes', 0, pos') /\ pos' \in 1 .. Len(tokens)
  BY <1>1, <1>2, <1>3, UnknownSkipped
<1>. QED  BY <1>1, <1>4, ParserStep

LEMMA ParseEndInv == ASSUME AsmInv, ParseEnd PROVE AsmInv'
<1>1. /\ phase = "parse" /\ Kind(SkipNewlines(pos)) = "eof" /\ phase' = "encode"
      /\ UNCHANGED <<source, tokens, pos, nodes, offset, symbols, output>>
  BY DEF ParseEnd
<1>2. Given /\ pos \in 1 .. Len(tokens) /\ offset = 4 * Len(output)  BY DEF AsmInv
<1>3. output = <<>> /\ symbols = <<>>  BY <1>1 DEF AsmInv, Parsing
<1>4. PICK at : Marked(source, at, nodes, 0, pos)  BY <1>1 DEF AsmInv, Parsing
<1>5. Marked(source, at, nodes, 0, Len(tokens))  BY <1>1, <1>2, <1>4, AllParsed
<1>6. Encoding(source, 0, output, symbols)
  <2>1. source \in Sources  BY <1>2 DEF Given
  <2>. QED  BY <1>3, <2>1, EncodingStarts
<1>7. Coding'  BY <1>1, <1>5, <1>6 DEF Coding
<1>8. Parsing' /\ Given' /\ pos' \in 1 .. Len(tokens') /\ offset' = 4 * Len(output')
  BY <1>1, <1>2 DEF Parsing, Given
<1>. QED  BY <1>1, <1>7, <1>8 DEF AsmInv

-----------------------------------------------------------------------------
(* The steps of the encoder. *)

\* The encoder's steps: what they leave to show.
LEMMA EncoderStep ==
  ASSUME AsmInv, UNCHANGED <<source, tokens, pos>>, phase' \in {"encode", "done", "failed"},
         offset' = 4 * Len(output'), phase' = "done" => nodes' = <<>>,
         \E at, b : Marked(source, at, nodes', b, Len(tokens)) /\ Encoding(source, b, output', symbols')
  PROVE  AsmInv'
<1>1. source' = source /\ tokens' = tokens /\ pos' = pos  OBVIOUS
<1>2. Given /\ pos \in 1 .. Len(tokens)  BY DEF AsmInv
<1>3. Given' /\ pos' \in 1 .. Len(tokens')  BY <1>1, <1>2 DEF Given
<1>4. Coding'  BY <1>1 DEF Coding
<1>5. Parsing'  BY DEF Parsing
<1>. QED  BY <1>3, <1>4, <1>5 DEF AsmInv

\* The next node.
LEMMA NextNode ==
  ASSUME AsmInv, phase = "encode", nodes # <<>>
  PROVE  \E m, bt, b :
           /\ Encoding(source, b, output, symbols) /\ b < m /\ Passed(source, b, m)
           /\ NodeIs(source, m, Head(nodes)) /\ Marked(source, bt, Tail(nodes), m, Len(tokens))
<1>1. PICK at, b : Marked(source, at, nodes, b, Len(tokens)) /\ Encoding(source, b, output, symbols)
  BY DEF AsmInv, Coding
<1>2. b \in Nat  BY <1>1 DEF Encoding
<1>3. Len(tokens) \in Nat  BY KindIs DEF AsmInv
<1> DEFINE m == at[1]
<1>4. /\ b < m /\ NodeIs(source, m, Head(nodes)) /\ Passed(source, b, m)
      /\ Marked(source, Tail(at), Tail(nodes), m, Len(tokens))
  BY <1>1, <1>2, <1>3, MarkedTail
<1> HIDE DEF m
<1>. QED  BY <1>1, <1>4

LEMMA EncodeLabelInv == ASSUME AsmInv, EncodeLabel PROVE AsmInv'
<1>1. /\ phase = "encode" /\ nodes # <<>> /\ Head(nodes).kind = "label"
      /\ nodes' = Tail(nodes) /\ phase' = phase /\ output' = output /\ offset' = offset
      /\ UNCHANGED <<source, tokens, pos>>
  BY DEF EncodeLabel
<1>2. source \in Sources /\ offset = 4 * Len(output)  BY DEF AsmInv, Given
<1>3. symbols' = Added(symbols, Head(nodes).name, [addr |-> 4 * Len(output), defined |-> TRUE])
  <2>1. symbols' = Added(symbols, Head(nodes).name, [addr |-> offset, defined |-> TRUE])
    BY DEF EncodeLabel, Define, Added
  <2>. QED  BY <1>2, <2>1
<1>4. PICK m, bt, b :
        /\ Encoding(source, b, output, symbols) /\ b < m /\ Passed(source, b, m)
        /\ NodeIs(source, m, Head(nodes)) /\ Marked(source, bt, Tail(nodes), m, Len(tokens))
  BY <1>1, NextNode
<1>5. PICK i \in 1 .. Len(source) : IsLabelAt(source, m, i) /\ Head(nodes).name = source[i].label
  BY <1>1, <1>4 DEF NodeIs
<1>6. Encoding(source, m, output, Added(symbols, source[i].label, [addr |-> 4 * Len(output), defined |-> TRUE]))
  BY <1>2, <1>4, <1>5, LabelKeeps
<1>7. Encoding(source, m, output', symbols') /\ Marked(source, bt, nodes', m, Len(tokens))
  BY <1>1, <1>3, <1>4, <1>5, <1>6
<1>8. offset' = 4 * Len(output') /\ phase' = "encode"  BY <1>1, <1>2
<1>. QED  BY <1>1, <1>7, <1>8, EncoderStep

LEMMA EncodeUnknownInv == ASSUME AsmInv, EncodeUnknown PROVE AsmInv'
<1>1. /\ phase = "encode" /\ nodes # <<>> /\ Head(nodes).kind = "instruction"
      /\ Head(nodes).name \notin DOMAIN Mnemonics
      /\ nodes' = Tail(nodes) /\ phase' = phase /\ output' = output /\ offset' = offset /\ symbols' = symbols
      /\ UNCHANGED <<source, tokens, pos>>
  BY DEF EncodeUnknown
<1>2. source \in Sources /\ offset = 4 * Len(output)  BY DEF AsmInv, Given
<1>3. PICK m, bt, b :
        /\ Encoding(source, b, output, symbols) /\ b < m /\ Passed(source, b, m)
        /\ NodeIs(source, m, Head(nodes)) /\ Marked(source, bt, Tail(nodes), m, Len(tokens))
  BY <1>1, NextNode
<1>4. PICK k \in 1 .. Len(source) : IsOpAt(source, m, k) /\ Head(nodes).name = source[k].op
  BY <1>1, <1>3 DEF NodeIs
<1>5. ~Encodable(source[k])  BY <1>1, <1>4 DEF Encodable
<1>6. Encoding(source, m, output, symbols)  BY <1>2, <1>3, <1>4, <1>5, UnknownKeeps
<1>7. Encoding(source, m, output', symbols') /\ Marked(source, bt, nodes', m, Len(tokens))
  BY <1>1, <1>3, <1>6
<1>8. offset' = 4 * Len(output') /\ phase' = "encode"  BY <1>1, <1>2
<1>. QED  BY <1>1, <1>7, <1>8, EncoderStep

LEMMA EncodeInstructionInv == ASSUME AsmInv, EncodeInstruction PROVE AsmInv'
<1> DEFINE node == Head(nodes)
           target == node.ops[TargetIndex(node.name)]
<1>1. /\ phase = "encode" /\ nodes # <<>> /\ node.kind = "instruction"
      /\ Complete(node)
      /\ output' = Append(output, Encoded(node.name, node.ops))
      /\ nodes' = Tail(nodes) /\ phase' = phase /\ offset' = offset + 4
      /\ symbols' = IF HasTarget(node.name) /\ target.kind = "label"
                    THEN Added(symbols, target.val, [addr |-> 0, defined |-> FALSE]) ELSE symbols
      /\ UNCHANGED <<source, tokens, pos>>
  BY DEF EncodeInstruction, Reference, Added
<1>2. source \in Sources /\ offset = 4 * Len(output)  BY DEF AsmInv, Given
<1>3. PICK m, bt, b :
        /\ Encoding(source, b, output, symbols) /\ b < m /\ Passed(source, b, m)
        /\ NodeIs(source, m, node) /\ Marked(source, bt, Tail(nodes), m, Len(tokens))
  BY <1>1, NextNode
<1>4. PICK k \in 1 .. Len(source) :
        IsOpAt(source, m, k) /\ node.name = source[k].op /\ OpsGood(source, k, node.ops)
  BY <1>1, <1>3 DEF NodeIs
<1>5. Encodable(source[k]) /\ Len(node.ops) >= Mnemonics[source[k].op].arity
  BY <1>1, <1>4 DEF Complete, Encodable
<1> DEFINE ops == node.ops
<1>6. Encoding(source, m, Append(output, Encoded(source[k].op, ops)), symbols')
  <2>1. LET t == ops[TargetIndex(source[k].op)]
        IN  symbols' = IF HasTarget(source[k].op) /\ t.kind = "label"
                       THEN Added(symbols, t.val, [addr |-> 0, defined |-> FALSE]) ELSE symbols
    BY <1>1, <1>4
  <2>2. OpsGood(source, k, ops) /\ Len(ops) >= Mnemonics[source[k].op].arity  BY <1>4, <1>5
  <2> HIDE DEF ops
  <2>. QED  BY <1>2, <1>3, <1>4, <1>5, <2>1, <2>2, InstructionKeeps
<1> HIDE DEF node
<1>7. Encoding(source, m, output', symbols') /\ Marked(source, bt, nodes', m, Len(tokens))
  BY <1>1, <1>3, <1>4, <1>6 DEF ops
<1>8. offset' = 4 * Len(output') /\ phase' = "encode"
  <2>1. output \in Seq(Word)  BY <1>3 DEF Encoding
  <2> DEFINE w == Encoded(node.name, node.ops)
  <2>2. output' = Append(output, w)  BY <1>1
  <2> HIDE DEF w
  <2>3. output' \in Seq(Word)  BY <1>7 DEF Encoding
  <2>4. Len(output') = Len(output) + 1 /\ Len(output) \in Nat  BY <2>1, <2>2
  <2>. QED  BY <1>1, <1>2, <2>4
<1>. QED  BY <1>1, <1>7, <1>8, EncoderStep

LEMMA EncodeStopsInv == ASSUME AsmInv, EncodeFails \/ EncodeEnd PROVE AsmInv'
<1>1. /\ phase = "encode" /\ phase' \in {"failed", "done"}
      /\ phase' = "done" => nodes = <<>>
      /\ UNCHANGED <<source, tokens, pos, nodes, offset, symbols, output>>
  BY DEF EncodeFails, EncodeEnd
<1>2. offset = 4 * Len(output)  BY DEF AsmInv
<1>3. \E at, b : Marked(source, at, nodes, b, Len(tokens)) /\ Encoding(source, b, output, symbols)
  BY <1>1 DEF AsmInv, Coding
<1>4. \E at, b : Marked(source, at, nodes', b, Len(tokens)) /\ Encoding(source, b, output', symbols')
  BY <1>1, <1>3
<1>5. offset' = 4 * Len(output') /\ (phase' = "done" => nodes' = <<>>) /\ phase' \in {"encode", "done", "failed"}
  BY <1>1, <1>2
<1>. QED  BY <1>1, <1>4, <1>5, EncoderStep

LEMMA StutterInv == ASSUME AsmInv, UNCHANGED vars PROVE AsmInv'
<1>1. UNCHANGED <<source, tokens, pos, inst, nodes, offset, symbols, output, phase>>  BY DEF vars
<1>. QED  BY <1>1 DEF AsmInv, Given, Parsing, Coding

(***************************************************************************)
(* At every step of assemble (assembler.sage:5) the nodes are the lines up *)
(* to the place that was read, and the words and the symbol table are what *)
(* the lines before the place that was encoded make of them, for every     *)
(* legal source.                                                           *)
(***************************************************************************)
THEOREM AssemblerInvariant == Spec => []AsmInv
<1>1. Init => AsmInv  BY InitInv
<1>2. AsmInv /\ [Next]_vars => AsmInv'
  <2> SUFFICES ASSUME AsmInv, [Next]_vars PROVE AsmInv'  OBVIOUS
  <2>1. CASE ParseLabel  BY <2>1, ParseLabelInv
  <2>2. CASE ParseInstruction  BY <2>2, ParseInstructionInv
  <2>3. CASE ParseNextOperand  BY <2>3, ParseNextOperandInv
  <2>4. CASE ParseInstructionEnd  BY <2>4, ParseInstructionEndInv
  <2>5. CASE ParseUnknown  BY <2>5, ParseUnknownInv
  <2>6. CASE ParseEnd  BY <2>6, ParseEndInv
  <2>7. CASE EncodeLabel  BY <2>7, EncodeLabelInv
  <2>8. CASE EncodeInstruction  BY <2>8, EncodeInstructionInv
  <2>9. CASE EncodeUnknown  BY <2>9, EncodeUnknownInv
  <2>10. CASE EncodeFails \/ EncodeEnd  BY <2>10, EncodeStopsInv
  <2>11. CASE UNCHANGED vars  BY <2>11, StutterInv
  <2>. QED  BY <2>1, <2>2, <2>3, <2>4, <2>5, <2>6, <2>7, <2>8, <2>9, <2>10, <2>11 DEF Next
<1>. QED  BY <1>1, <1>2, PTL DEF Spec

LEMMA InvTypeOK == ASSUME AsmInv PROVE TypeOK
<1>1. CASE phase \in {"parse", "operands", "node"}
  <2>1. output = <<>> /\ symbols = <<>>  BY <1>1 DEF AsmInv, Parsing
  <2>2. DOMAIN output = {} /\ DOMAIN symbols = {}  BY <2>1
  <2>3. pos \in DOMAIN tokens  BY KindIs DEF AsmInv
  <2>. QED  BY <2>2, <2>3 DEF AsmInv, TypeOK
<1>2. CASE phase \in {"encode", "done", "failed"}
  <2>1. output \in Seq(Word) /\ Addresses(symbols)  BY <1>2 DEF AsmInv, Coding, Encoding
  <2>2. \A k \in DOMAIN output : output[k] \subseteq 0 .. 31
    <3>1. DOMAIN output = 1 .. Len(output) /\ \A k \in 1 .. Len(output) : output[k] \in Word
      BY <2>1, LenProperties, ElementOfSeq
    <3>. QED  BY <3>1 DEF Word
  <2>3. \A n \in DOMAIN symbols : symbols[n].addr \in Nat /\ symbols[n].defined \in BOOLEAN
    <3>1. \A a \in 0 .. 2 ^ 10 - 1 : 4 * a \in Nat
      <4>1. 2 ^ 10 = 1024  OBVIOUS
      <4>. QED  BY <4>1
    <3>. QED  BY <2>1, <3>1 DEF Addresses
  <2>4. pos \in DOMAIN tokens  BY KindIs DEF AsmInv
  <2>. QED  BY <2>2, <2>3, <2>4 DEF AsmInv, TypeOK
<1>. QED  BY <1>1, <1>2 DEF AsmInv

(***************************************************************************)
(* The parser does not run past the end of the file, every address is a    *)
(* number, a word has 32 bits, and the offset is the address of the next   *)
(* word (parse, parser.sage:184; encode, rv32i.sage:61), for every legal   *)
(* source.                                                                 *)
(***************************************************************************)
THEOREM TypesHold == Spec => []TypeOK
BY AssemblerInvariant, InvTypeOK, PTL

-----------------------------------------------------------------------------
(* The words at the end. *)

\* What there is at the end: the k-th line's word is the one of its rank.
LEMMA AllEmitted ==
  ASSUME AsmInv, phase = "done"
  PROVE  /\ source \in Sources /\ Len(output) = Len(Instructions(source)) /\ DOMAIN output = 1 .. Len(output)
         /\ \A k \in 1 .. Len(source) :
              Encodable(source[k]) =>
                Rank(source, k) \in 1 .. Len(output) /\ Good(source, k, output[Rank(source, k)])
<1>1. PICK at, b : Marked(source, at, nodes, b, Len(tokens)) /\ Encoding(source, b, output, symbols)
  BY DEF AsmInv, Coding
<1>2. source \in Sources /\ tokens = Lexed(source) /\ nodes = <<>>  BY DEF AsmInv, Given
<1>3. /\ b \in Nat /\ output \in Seq(Word) /\ Counted(source, b, output) /\ Emitted(source, b, output)
  BY <1>1 DEF Encoding
<1>4. Passed(source, b, Len(Lexed(source)))  BY <1>1, <1>2, MarkedEmpty
<1>5. Done(source, Len(source), b)  BY <1>2, <1>3, <1>4, AllDone
<1>6. Len(output) = Rank(source, Len(source))  BY <1>2, <1>3, <1>5, CountIs
<1>7. Len(output) = Len(Instructions(source))  BY <1>2, <1>6, Ranks
<1>8. \A k \in 1 .. Len(source) : Encodable(source[k]) => OpAt(source, k) <= b
  <2>1. Len(source) \in Nat  BY <1>2, SourceLines
  <2>2. \A k \in 1 .. Len(source) : k <= Len(source)  BY <2>1
  <2>. QED  BY <1>5, <2>2, EncodableIsLexed DEF Done
<1>9. DOMAIN output = 1 .. Len(output)  BY <1>3, LenProperties
<1>. QED  BY <1>2, <1>3, <1>7, <1>8, <1>9 DEF Emitted

\* The words and the lines.
LEMMA WordOfLine ==
  ASSUME AsmInv, phase = "done", NEW j \in DOMAIN output
  PROVE  \E k \in 1 .. Len(source) :
           /\ Encodable(source[k]) /\ j = Rank(source, k) /\ Line(j) = source[k]
           /\ Good(source, k, output[j])
<1>1. /\ source \in Sources /\ Len(output) = Len(Instructions(source)) /\ DOMAIN output = 1 .. Len(output)
      /\ \A k \in 1 .. Len(source) :
           Encodable(source[k]) =>
             Rank(source, k) \in 1 .. Len(output) /\ Good(source, k, output[Rank(source, k)])
  BY AllEmitted
<1>2. j \in 1 .. Len(Instructions(source))  BY <1>1
<1>3. PICK k \in 1 .. Len(source) : Encodable(source[k]) /\ j = Rank(source, k)
  BY <1>1, <1>2, RankIsIn
<1>4. Line(j) = source[k]  BY <1>1, <1>3, Ranks DEF Line
<1>. QED  BY <1>1, <1>3, <1>4

LEMMA LandsIs ==
  ASSUME source \in Sources, NEW k \in 1 .. Len(source), Encodable(source[k]), NEW j,
         j = Rank(source, k), Line(j) = source[k]
  PROVE  /\ Lands(j) = Branch(source, k, output[j])
         /\ Mnemonics[Line(j).op].format = FormatAt(source, k)
         /\ TargetOf(j) = TargetArg(source, k) /\ (Branches(j) <=> FormatAt(source, k) \in {"B", "J"})
         /\ \A l : RefersTo(j, l) <=> Refers(source, k, l)
<1>1. Mnemonics[Line(j).op].format = FormatAt(source, k)  BY DEF FormatAt
<1>2. TargetOf(j) = TargetArg(source, k)  BY DEF TargetOf, TargetArg
<1>3. Branches(j) <=> FormatAt(source, k) \in {"B", "J"}  BY <1>1 DEF Branches
<1>4. j - 1 = Rank(source, k - 1)
  <2>1. k - 1 \in 0 .. Len(source) /\ Len(source) \in Nat  BY SourceLines
  <2>2. Rank(source, k) = Rank(source, k - 1) + 1 /\ Rank(source, k - 1) \in Nat  BY <2>1, Ranks
  <2>. QED  BY <2>2
<1>5. Lands(j) = Branch(source, k, output[j])
  <2>1. Lands(j) = 4 * (j - 1) + ImmOf(Mnemonics[Line(j).op].format, output[j])  BY DEF Lands, ImmOf
  <2>. QED  BY <1>1, <1>4, <2>1 DEF Branch
<1>6. \A l : RefersTo(j, l) <=> Refers(source, k, l)  BY <1>2, <1>3 DEF RefersTo, Refers
<1>. QED  BY <1>1, <1>2, <1>3, <1>5, <1>6

LEMMA InvOperandsSurvive == ASSUME AsmInv PROVE OperandsSurvive
<1> SUFFICES ASSUME phase = "done"
             PROVE  Len(output) = Len(Instructions(source)) /\ \A k \in DOMAIN output : Means(k)
  BY DEF OperandsSurvive
<1>1. source \in Sources /\ Len(output) = Len(Instructions(source))  BY AllEmitted
<1>2. ASSUME NEW j \in DOMAIN output PROVE Means(j)
  <2>1. PICK k \in 1 .. Len(source) :
          /\ Encodable(source[k]) /\ j = Rank(source, k) /\ Line(j) = source[k]
          /\ Good(source, k, output[j])
    BY WordOfLine
  <2>2. /\ Lands(j) = Branch(source, k, output[j])
        /\ Mnemonics[Line(j).op].format = FormatAt(source, k)
        /\ TargetOf(j) = TargetArg(source, k) /\ (Branches(j) <=> FormatAt(source, k) \in {"B", "J"})
    BY <1>1, <2>1, LandsIs
  <2>3. WordOk(FormatAt(source, k), Line(j).args, output[j]) /\ ImmediateOk(source, k, output[j])
    BY <2>1 DEF Good
  <2>4. Branches(j) /\ TargetOf(j).kind = "immediate" => Lands(j) = TargetOf(j).val
    BY <2>2, <2>3 DEF ImmediateOk
  <2>. QED  BY <2>2, <2>3, <2>4 DEF WordOk, Means
<1>. QED  BY <1>1, <1>2

\* The first declaration of a label is the one that Place chooses.
LEMMA PlaceIs ==
  ASSUME source \in Sources, NEW d \in 1 .. Len(source), NEW l, DeclaredAt(d, l)
  PROVE  Place(l) = 4 * Rank(source, d - 1) /\ First(source, d, l)
<1>1. Len(source) \in Nat /\ DOMAIN source = 1 .. Len(source)  BY SourceLines
<1>2. \A i \in DOMAIN source : DeclaredAt(i, l) => i = d
  <2> SUFFICES ASSUME NEW i \in 1 .. Len(source), DeclaredAt(i, l), i # d PROVE FALSE  BY <1>1
  <2>1. i \in 1 .. d - 1 \/ d \in 1 .. i - 1  BY <1>1
  <2>. QED  BY <2>1 DEF DeclaredAt
<1>3. (CHOOSE i \in DOMAIN source : DeclaredAt(i, l)) = d  BY <1>1, <1>2
<1>4. Place(l) = AddressIn(source, d)  BY <1>3 DEF Place, AddressOfLine
<1>. QED  BY <1>4, Ranks DEF DeclaredAt, First

LEMMA InvBackwardTargetsLand == ASSUME AsmInv PROVE BackwardTargetsLand
<1> SUFFICES ASSUME phase = "done", NEW j \in DOMAIN output, NEW l \in Labels, RefersTo(j, l), Seen(l),
                    \A n \in 1 .. j : RefersTo(n, l) => Place(l) <= 4 * (n - 1)
             PROVE  Lands(j) = Place(l)
  BY DEF BackwardTargetsLand
<1>1. source \in Sources /\ DOMAIN output = 1 .. Len(output) /\ Len(output) = Len(Instructions(source))
  BY AllEmitted
<1>2. PICK k \in 1 .. Len(source) :
        /\ Encodable(source[k]) /\ j = Rank(source, k) /\ Line(j) = source[k]
        /\ Good(source, k, output[j])
  BY WordOfLine
<1>3. Lands(j) = Branch(source, k, output[j]) /\ Refers(source, k, l)  BY <1>1, <1>2, LandsIs
<1>4. l \in Names
  <2>1. PICK i \in DOMAIN source : l = source[i].label /\ l # NoLabel  BY DEF Labels
  <2>2. source[i] \in Lines  BY <1>1, <2>1, SourceLines
  <2>. QED  BY <2>1, <2>2, LineFields
<1>5. PICK d \in 1 .. Len(source) : DeclaredAt(d, l) /\ ~Taken(d)
  <2>1. DOMAIN source = 1 .. Len(source)  BY <1>1, SourceLines
  <2>. QED  BY <2>1 DEF Seen
<1>6. Place(l) = 4 * Rank(source, d - 1) /\ Placed(source, d, l)
  <2>1. Place(l) = 4 * Rank(source, d - 1) /\ First(source, d, l)  BY <1>1, <1>5, PlaceIs
  <2>2. ~TakenIn(source, d)  BY <1>5, TakenIs
  <2>. QED  BY <2>1, <2>2 DEF Placed
<1>7. ASSUME NEW n \in 1 .. k, Refers(source, n, l) PROVE d <= n
  <2>0. Len(source) \in Nat /\ k \in Nat /\ n \in 1 .. Len(source) /\ n \in 0 .. k /\ k \in 0 .. Len(source)
        /\ n \in Nat /\ d \in Nat
    <3>1. Len(source) \in Nat  BY <1>1, SourceLines
    <3>. QED  BY <3>1
  <2>1. Encodable(source[n])  BY <1>7 DEF Refers
  <2> DEFINE i == Rank(source, n)
             r == Rank(source, n - 1)
             e == Rank(source, d - 1)
  <2>2. i = r + 1 /\ Instructions(source)[i] = source[n]  BY <1>1, <2>0, <2>1, Ranks
  <2>3. r \in Nat /\ e \in Nat
    <3>1. n - 1 \in 0 .. Len(source) /\ d - 1 \in 0 .. Len(source)  BY <2>0
    <3>. QED  BY <1>1, <3>1, Ranks
  <2>4. i <= j  BY <1>1, <1>2, <2>0, RankOrder
  <2>5. Line(i) = source[n]  BY <2>2 DEF Line
  <2>6. RefersTo(i, l)  BY <1>1, <1>7, <2>0, <2>1, <2>5, LandsIs
  <2>7. j \in Nat  BY <1>1, <1>2, <2>0, Ranks
  <2>8. ~(d <= n) => i <= e
    <3> SUFFICES ASSUME ~(d <= n) PROVE i <= e  OBVIOUS
    <3>1. n \in 0 .. d - 1 /\ d - 1 \in 0 .. Len(source)  BY <2>0
    <3>. QED  BY <1>1, <3>1, RankOrder
  <2> HIDE DEF i, r, e
  <2>9. i \in 1 .. j  BY <2>2, <2>3, <2>4, <2>7
  <2>10. 4 * e <= 4 * (i - 1)  BY <1>6, <2>6, <2>9 DEF e
  <2>11. ~(i <= e)  BY <2>2, <2>3, <2>10
  <2>. QED  BY <2>8, <2>11
<1>8. LabelOk(source, k, output[j])  BY <1>2 DEF Good
<1>9. Branch(source, k, output[j]) = 4 * Rank(source, d - 1)
  BY <1>3, <1>4, <1>6, <1>7, <1>8 DEF LabelOk
<1>. QED  BY <1>3, <1>6, <1>9

(***************************************************************************)
(* The machine takes out of every word the registers and immediates that   *)
(* the source has for it, in the order of the source (encode,              *)
(* rv32i.sage:61; rvvm.h:43), for every legal source that is assembled to  *)
(* its end: no instruction gets a register or an immediate of another      *)
(* line.                                                                   *)
(***************************************************************************)
THEOREM OperandsAreKept == Spec => []OperandsSurvive
BY AssemblerInvariant, InvOperandsSurvive, PTL

(***************************************************************************)
(* A branch back to a label, not named before by a branch and not taken    *)
(* for an operand, lands behind its first declaration (define,             *)
(* symbols.sage:16), for every legal source.                               *)
(***************************************************************************)
THEOREM BranchesBackLand == Spec => []BackwardTargetsLand
BY AssemblerInvariant, InvBackwardTargetsLand, PTL
=============================================================================
