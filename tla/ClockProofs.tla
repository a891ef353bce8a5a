----------------------------- MODULE ClockProofs -----------------------------
(***************************************************************************)
(* Proofs about the clock, for every width of a word and of a half and     *)
(* every calendar: a read of the 64-bit timer in halves is whole; the      *)
(* clock keeps the date it was given, through resets and initialisations;  *)
(* and the date it shows is the one that was set and never goes back.      *)
(***************************************************************************)
EXTENDS Clock, SequenceTheorems, TLAPS

Times == timer \in Nat /\ read \in Seq(Nat) /\ Len(read) <= 5

\* The low half wraps at most once during a read.
Window == read # NoRead => read[1] <= timer /\ timer < read[1] + TimerHalf

\* The first three loads took place at the moments t, u and w.
Loaded(t, u, w) ==
  /\ Len(read) >= 2 => read[1] <= t /\ t <= timer /\ read[2] = t \div TimerHalf
  /\ Len(read) >= 3 => t <= u /\ u <= timer /\ read[3] = u % TimerHalf
  /\ Len(read) >= 4 => u <= w /\ w <= timer /\ read[4] = w \div TimerHalf

Loads == \E t, u, w \in Nat : Loaded(t, u, w)

IInv == Times /\ Window /\ Loads /\ TimerReadWhole

-----------------------------------------------------------------------------
(* Halves *)

LEMMA Halves ==
  ASSUME NEW h \in Nat \ {0}, NEW t \in Nat
  PROVE  /\ t \div h \in Nat /\ t % h \in Nat /\ t % h < h
         /\ t = ((t \div h) * h) + (t % h)
  BY SMT

LEMMA HalvesMonotone ==
  ASSUME NEW h \in Nat \ {0}, NEW t \in Nat, NEW u \in Nat, t <= u
  PROVE  t \div h <= u \div h
  BY SMT

LEMMA OneWrap ==
  ASSUME NEW h \in Nat \ {0}, NEW t \in Nat, NEW u \in Nat, u < t + h
  PROVE  u \div h <= (t \div h) + 1
  BY SMT

\* A moment whose high half was loaded before and after it, unchanged, has that
\* high half.
LEMMA Between ==
  ASSUME NEW h \in Nat \ {0}, NEW t \in Nat, NEW u \in Nat, NEW w \in Nat,
         t <= u, u <= w, t \div h = w \div h
  PROVE  ((w \div h) * h) + (u % h) = u
<1>1. t \div h <= u \div h /\ u \div h <= w \div h
  BY HalvesMonotone
<1>2. t \div h \in Nat /\ u \div h \in Nat /\ w \div h \in Nat
  BY Halves
<1>3. u \div h = w \div h
  BY <1>1, <1>2
<1> QED BY <1>3, Halves

\* Once the high half has changed it cannot change again.
LEMMA AfterWrap ==
  ASSUME NEW h \in Nat \ {0}, NEW r \in Nat, NEW t \in Nat, NEW w \in Nat, NEW x \in Nat,
         r <= t, t <= w, w <= x, x < r + h, t \div h # w \div h
  PROVE  ((w \div h) * h) + (x % h) = x
<1>1. r \div h <= t \div h /\ t \div h <= w \div h /\ w \div h <= x \div h
  BY HalvesMonotone
<1>2. x \div h <= (r \div h) + 1
  BY OneWrap
<1>3. r \div h \in Nat /\ t \div h \in Nat /\ w \div h \in Nat /\ x \div h \in Nat
  BY Halves
<1>4. w \div h = x \div h
  BY <1>1, <1>2, <1>3
<1> QED BY <1>4, Halves

-----------------------------------------------------------------------------
(* The steps *)

LEMMA TimerFacts == TimerHalf \in Nat \ {0} /\ Jumps \subseteq Nat
BY ClockAssumption

\* A load appends to what was read, and the timer stands still.
LEMMA LoadEffect ==
  ASSUME Times, Window, read # NoRead, Len(read) < 5, NEW x \in Nat, Load(x)
  PROVE  /\ Times' /\ Window' /\ timer' = timer
         /\ Len(read') = Len(read) + 1 /\ read'[Len(read) + 1] = x
         /\ \A i \in 1 .. Len(read) : read'[i] = read[i]
<1>1. /\ read' \in Seq(Nat) /\ Len(read') = Len(read) + 1 /\ read'[Len(read) + 1] = x
      /\ \A i \in 1 .. Len(read) : read'[i] = read[i]
  BY DEF Times, Load
<1>2. Len(read) \in Nat /\ Len(read) >= 1
  BY DEF Times, NoRead
<1>3. read'[1] = read[1]
  BY <1>1, <1>2
<1>4. timer' = timer
  BY DEF Load, history
<1> QED BY <1>1, <1>2, <1>3, <1>4 DEF Times, Window, NoRead

LEMMA LoadHi1Keeps == ASSUME IInv, LoadHi1 PROVE IInv'
<1>1. Hi \in Nat /\ timer \in Nat /\ Hi = timer \div TimerHalf
  BY TimerFacts, Halves DEF Hi, IInv, Times
<1>2. Len(read) = 1 /\ read # NoRead
  BY DEF LoadHi1, NoRead
<1>3. /\ Times' /\ Window' /\ timer' = timer /\ Len(read') = 2 /\ read'[2] = Hi
      /\ read'[1] = read[1]
  BY <1>1, <1>2, LoadEffect DEF LoadHi1, IInv
<1>4. read[1] <= timer
  BY <1>2 DEF IInv, Window
<1>5. Loaded(timer, timer, timer)'
  BY <1>1, <1>3, <1>4 DEF Loaded
<1>6. Loads'
  BY <1>1, <1>3, <1>5 DEF Loads
<1> QED BY <1>3, <1>6 DEF IInv, TimerReadWhole

LEMMA LoadLoKeeps == ASSUME IInv, LoadLo PROVE IInv'
<1>1. Lo \in Nat /\ timer \in Nat /\ Lo = timer % TimerHalf
  BY TimerFacts, Halves DEF Lo, IInv, Times
<1>2. Len(read) = 2 /\ read # NoRead
  BY DEF LoadLo, NoRead
<1>3. /\ Times' /\ Window' /\ timer' = timer /\ Len(read') = 3 /\ read'[3] = Lo
      /\ read'[1] = read[1] /\ read'[2] = read[2]
  BY <1>1, <1>2, LoadEffect DEF LoadLo, IInv
<1>4. PICK t \in Nat : read[1] <= t /\ t <= timer /\ read[2] = t \div TimerHalf
  BY <1>2 DEF IInv, Loads, Loaded
<1>5. Loaded(t, timer, timer)'
  BY <1>1, <1>3, <1>4 DEF Loaded
<1>6. Loads'
  BY <1>1, <1>3, <1>5 DEF Loads
<1> QED BY <1>3, <1>6 DEF IInv, TimerReadWhole

LEMMA LoadHi2Keeps == ASSUME IInv, LoadHi2 PROVE IInv'
<1>1. Hi \in Nat /\ timer \in Nat /\ Hi = timer \div TimerHalf
  BY TimerFacts, Halves DEF Hi, IInv, Times
<1>2. Len(read) = 3 /\ read # NoRead
  BY DEF LoadHi2, NoRead
<1>3. /\ Times' /\ Window' /\ timer' = timer /\ Len(read') = 4 /\ read'[4] = Hi
      /\ read'[1] = read[1] /\ read'[2] = read[2] /\ read'[3] = read[3]
  BY <1>1, <1>2, LoadEffect DEF LoadHi2, IInv
<1>4. PICK t \in Nat, u \in Nat :
        /\ read[1] <= t /\ t <= timer /\ read[2] = t \div TimerHalf
        /\ t <= u /\ u <= timer /\ read[3] = u % TimerHalf
  BY <1>2 DEF IInv, Loads, Loaded
<1>5. Loaded(t, u, timer)'
  BY <1>1, <1>3, <1>4 DEF Loaded
<1>6. Loads'
  BY <1>1, <1>3, <1>5 DEF Loads
<1> QED BY <1>3, <1>6 DEF IInv, TimerReadWhole

\* The value is that of the moment u if the high half did not change, and of the
\* present one if it did.
LEMMA LoadLoAgainKeeps == ASSUME IInv, LoadLoAgain PROVE IInv'
<1>1. Lo \in Nat /\ timer \in Nat /\ Lo = timer % TimerHalf /\ TimerHalf \in Nat \ {0}
  BY TimerFacts, Halves DEF Lo, IInv, Times
<1>2. Len(read) = 4 /\ read # NoRead /\ read[1] \in Nat /\ read[3] \in Nat
  <2>1. read \in Seq(Nat) /\ Len(read) = 4  BY DEF LoadLoAgain, IInv, Times
  <2>2. \A i \in 1 .. 4 : read[i] \in Nat  BY <2>1, ElementOfSeq
  <2>3. read[1] \in Nat /\ read[3] \in Nat  BY <2>2
  <2>4. read # NoRead  BY DEF LoadLoAgain, NoRead
  <2> QED BY <2>1, <2>3, <2>4
<1> DEFINE half == IF read[2] # read[4] THEN Lo ELSE read[3]
<1>3. /\ Times' /\ Window' /\ timer' = timer /\ Len(read') = 5 /\ read'[5] = half
      /\ \A i \in 1 .. 4 : read'[i] = read[i]
  <2>1. half \in Nat
    BY <1>1, <1>2
  <2>2. Load(half)
    BY DEF LoadLoAgain
  <2> QED BY <1>2, <2>1, <2>2, LoadEffect DEF IInv
<1>4. PICK t \in Nat, u \in Nat, w \in Nat : Loaded(t, u, w)
  BY DEF IInv, Loads
<1>5. /\ read[1] <= t /\ t <= u /\ u <= w /\ w <= timer /\ timer < read[1] + TimerHalf
      /\ read[2] = t \div TimerHalf /\ read[3] = u % TimerHalf /\ read[4] = w \div TimerHalf
  BY <1>2, <1>4 DEF IInv, Loaded, Window
<1>6. Loaded(t, u, w)'
  <2>1. t <= timer /\ u <= timer
    BY <1>1, <1>5
  <2>2. /\ read'[1] = read[1] /\ read'[2] = read[2] /\ read'[3] = read[3] /\ read'[4] = read[4]
    BY <1>3
  <2> QED BY <1>3, <1>5, <2>1, <2>2 DEF Loaded
<1>7. (read[4] * TimerHalf) + half \in {u, timer}
  <2>1. CASE read[2] = read[4]
    <3>1. t <= u /\ u <= w /\ t \div TimerHalf = w \div TimerHalf
      BY <1>5, <2>1
    <3>2. ((w \div TimerHalf) * TimerHalf) + (u % TimerHalf) = u
      BY <1>1, <3>1, Between
    <3>3. read[4] = w \div TimerHalf /\ half = u % TimerHalf
      BY <1>5, <2>1
    <3> QED BY <3>2, <3>3
  <2>2. CASE read[2] # read[4]
    <3>1. PICK r \in Nat :
            /\ r <= t /\ t <= w /\ w <= timer
            /\ timer < r + TimerHalf /\ t \div TimerHalf # w \div TimerHalf
      BY <1>2, <1>5, <2>2
    <3>2. ((w \div TimerHalf) * TimerHalf) + (timer % TimerHalf) = timer
      BY <1>1, <3>1, AfterWrap
    <3>3. read[4] = w \div TimerHalf /\ half = timer % TimerHalf
      BY <1>1, <1>5, <2>2
    <3> QED BY <3>2, <3>3
  <2> QED BY <2>1, <2>2
<1>8. (read'[4] * TimerHalf) + read'[5] \in read'[1] .. timer'
  <2>1. read[1] <= u /\ u <= timer /\ read[1] <= timer
    BY <1>1, <1>2, <1>5
  <2>2. (read[4] * TimerHalf) + half \in read[1] .. timer
    BY <1>1, <1>2, <1>7, <2>1
  <2> QED BY <1>3, <2>2
<1> QED BY <1>3, <1>6, <1>8 DEF IInv, Loads, TimerReadWhole

\* While the timer runs on, what was loaded stays loaded.
LEMMA ElapseKeeps == ASSUME IInv, NEW n \in Jumps, Elapse(n) PROVE IInv'
<1>1. timer \in Nat /\ timer' = timer + n /\ n \in Nat /\ read' = read
  BY TimerFacts DEF IInv, Times, Elapse
<1>2. Times' /\ timer <= timer'
  BY <1>1 DEF IInv, Times
<1>3. Window'
  BY <1>1, <1>2 DEF IInv, Times, Window, Elapse, Idle, NoRead
<1>4. Loads'
  <2>1. PICK t \in Nat, u \in Nat, w \in Nat : Loaded(t, u, w)
    BY DEF IInv, Loads
  <2>2. Loaded(t, u, w)'
    BY <1>1, <1>2, <2>1 DEF Loaded
  <2> QED BY <2>2 DEF Loads
<1>5. TimerReadWhole'
  BY <1>1, <1>2 DEF IInv, Times, TimerReadWhole
<1> QED BY <1>2, <1>3, <1>4, <1>5 DEF IInv

\* Without a read in progress there is nothing to keep but the type.
LEMMA NoReadKeeps ==
  ASSUME timer' \in Nat, read' = NoRead PROVE IInv'
<1>1. read' \in Seq(Nat) /\ Len(read') = 0
  BY DEF NoRead
<1>2. Loaded(0, 0, 0)'
  BY <1>1 DEF Loaded
<1> QED BY <1>1, <1>2 DEF IInv, Times, Window, Loads, TimerReadWhole

LEMMA ReadBeginsKeeps == ASSUME IInv, ReadBegins PROVE IInv'
<1>1. timer \in Nat /\ timer' = timer /\ read' = <<timer>>
  BY DEF IInv, Times, ReadBegins
<1>2. read' \in Seq(Nat) /\ Len(read') = 1 /\ read'[1] = timer
  BY <1>1
<1>3. Loaded(0, 0, 0)'
  BY <1>2 DEF Loaded
<1> QED BY <1>1, <1>2, <1>3, TimerFacts DEF IInv, Times, Window, Loads, TimerReadWhole

LEMMA StutterKeeps == ASSUME IInv, UNCHANGED <<timer, read>> PROVE IInv'
BY DEF IInv, Times, Window, Loads, Loaded, TimerReadWhole

LEMMA Initially == ASSUME Init PROVE IInv
<1>1. timer = 0 /\ read = NoRead
  BY DEF Init
<1>2. read \in Seq(Nat) /\ Len(read) = 0
  BY <1>1 DEF NoRead
<1>3. Loaded(0, 0, 0)
  BY <1>2 DEF Loaded
<1> QED BY <1>1, <1>2, <1>3 DEF IInv, Times, Window, Loads, TimerReadWhole

LEMMA EveryStepKeeps == ASSUME IInv, [Next]_vars PROVE IInv'
<1>1. CASE \E n \in Jumps : Elapse(n)
  BY <1>1, ElapseKeeps
<1>2. CASE ClockInit
  BY <1>2, StutterKeeps DEF ClockInit
<1>3. CASE ClockGet
  BY <1>3, StutterKeeps DEF ClockGet
<1>4. CASE \E d \in Dates : ClockSet(d)
  BY <1>4, StutterKeeps DEF ClockSet
<1>5. CASE WatchdogReset
  BY <1>5, NoReadKeeps DEF WatchdogReset, Idle
<1>6. CASE PowerLoss
  BY <1>6, NoReadKeeps DEF PowerLoss
<1>7. CASE ReadBegins
  BY <1>7, ReadBeginsKeeps
<1>8. CASE LoadHi1
  BY <1>8, LoadHi1Keeps
<1>9. CASE LoadLo
  BY <1>9, LoadLoKeeps
<1>10. CASE LoadHi2
  BY <1>10, LoadHi2Keeps
<1>11. CASE LoadLoAgain
  BY <1>11, LoadLoAgainKeeps
<1>12. CASE ReadReturns
  BY <1>12, NoReadKeeps DEF ReadReturns, IInv, Times
<1>13. CASE UNCHANGED vars
  BY <1>13, StutterKeeps DEF vars
<1> QED BY <1>1, <1>2, <1>3, <1>4, <1>5, <1>6, <1>7, <1>8, <1>9, <1>10, <1>11, <1>12, <1>13 DEF Next

\* What sage_riscv_timer_get returns is a value the timer had between its call
\* and its return, although it is put together from loads at different moments,
\* for every width of a half (lowlevel_bridge.h:92-96).
THEOREM TimerReadIsWhole == Spec => []TimerReadWhole
<1>1. Init => IInv
  BY Initially
<1>2. IInv /\ [Next]_vars => IInv'
  BY EveryStepKeeps
<1>3. IInv => TimerReadWhole
  BY DEF IInv
<1> QED BY <1>1, <1>2, <1>3, PTL DEF Spec

-----------------------------------------------------------------------------
(* What the clock keeps *)

ClockTypes ==
  /\ timer \in Nat /\ boot \in Nat /\ boot <= timer /\ age \in Nat
  /\ base \in 0 .. WordMod - 1 /\ given \in Int
  /\ scratch \in (0 .. HalfMod - 1) \X (0 .. HalfMod - 1)

\* The word in the scratch registers.
Saved == (scratch[1] * HalfMod) + scratch[2]

\* The date that was given is saved, and it is the base unless a reset cleared
\* that.  The clock counts from a moment no earlier than the one it was given.
Keeps ==
  given > 0 /\ Fits(given) =>
    /\ Saved = given /\ base \in {0, given}
    /\ ~restarted => base = given /\ timer - boot = age
    /\ base # 0 => timer - boot <= age

KInv == ClockTypes /\ Keeps

LEMMA ClockFacts ==
  /\ WordMod \in Nat \ {0} /\ HalfMod \in Nat \ {0} /\ WordMod = HalfMod * HalfMod
  /\ Default \in 1 .. WordMod - 1 /\ Second \in Nat \ {0}
BY ClockAssumption

LEMMA ModSmall ==
  ASSUME NEW w \in Nat \ {0}, NEW t \in 0 .. w - 1
  PROVE  t % w = t /\ t \div w = 0
  BY SMT

LEMMA ModRange ==
  ASSUME NEW w \in Nat \ {0}, NEW t \in Int
  PROVE  t % w \in 0 .. w - 1
  BY SMT

LEMMA DivBelow ==
  ASSUME NEW h \in Nat \ {0}, NEW n \in Nat, NEW t \in Nat, t < n * h
  PROVE  t \div h < n
<1>1. t \div h \in Nat /\ t % h \in Nat /\ t = ((t \div h) * h) + (t % h)
  BY Halves
<1> DEFINE q == t \div h
<1>2. q \in Nat /\ q * h < n * h
  BY <1>1
<1> HIDE DEF q
<1>3. q < n
  BY <1>2
<1> QED BY <1>3 DEF q

\* Two halves of a word fill it.
LEMMA WordOfHalves ==
  ASSUME NEW h \in Nat \ {0}, NEW hi \in 0 .. h - 1, NEW lo \in 0 .. h - 1
  PROVE  /\ (hi * h) + lo \in 0 .. (h * h) - 1
         /\ (hi # 0 \/ lo # 0) <=> (hi * h) + lo # 0
<1>1. hi * h \in Nat /\ hi * h <= (h - 1) * h
  BY SMT
<1>2. (h - 1) * h = (h * h) - h /\ h * h \in Nat
  BY SMT
<1>3. hi # 0 => hi * h # 0
  BY SMT
<1>4. hi = 0 => hi * h = 0
  BY SMT
<1> QED BY <1>1, <1>2, <1>3, <1>4

\* The base after an initialisation is a word other than 0: that of the scratch
\* registers, or the default.
LEMMA InitialBaseIs ==
  ASSUME ClockTypes
  PROVE  /\ InitialBase \in 1 .. WordMod - 1
         /\ base # 0 => InitialBase = base
         /\ base = 0 /\ Saved # 0 => InitialBase = Saved
<1>1. /\ scratch[1] \in 0 .. HalfMod - 1 /\ scratch[2] \in 0 .. HalfMod - 1
      /\ scratch = <<scratch[1], scratch[2]>> /\ base \in 0 .. WordMod - 1
  BY DEF ClockTypes
<1>2. Saved \in 0 .. WordMod - 1 /\ ((scratch[1] # 0 \/ scratch[2] # 0) <=> Saved # 0)
  <2>1. /\ (scratch[1] * HalfMod) + scratch[2] \in 0 .. (HalfMod * HalfMod) - 1
        /\ (scratch[1] # 0 \/ scratch[2] # 0) <=> (scratch[1] * HalfMod) + scratch[2] # 0
    <3> DEFINE h == HalfMod
               hi == scratch[1]
               lo == scratch[2]
    <3>1. h \in Nat \ {0} /\ hi \in 0 .. h - 1 /\ lo \in 0 .. h - 1
      BY <1>1, ClockFacts
    <3> HIDE DEF h, hi, lo
    <3>2. (hi * h) + lo \in 0 .. (h * h) - 1 /\ ((hi # 0 \/ lo # 0) <=> (hi * h) + lo # 0)
      BY ONLY <3>1, WordOfHalves
    <3> QED BY <3>2 DEF h, hi, lo
  <2> QED BY <2>1, ClockFacts DEF Saved
<1>3. scratch # <<0, 0>> <=> Saved # 0
  BY <1>1, <1>2
<1>4. scratch[2] % HalfMod = scratch[2]
  BY <1>1, ClockFacts, ModSmall
<1>5. Saved % WordMod = Saved
  BY <1>2, ClockFacts, ModSmall
<1>6. (scratch[1] * HalfMod + (scratch[2] % HalfMod)) % WordMod = Saved
  BY <1>4, <1>5 DEF Saved
<1>7. CASE base # 0
  BY <1>1, <1>7 DEF InitialBase
<1>8. CASE base = 0 /\ Saved # 0
  <2>1. InitialBase = Saved
    BY <1>3, <1>6, <1>8 DEF InitialBase
  <2> QED BY <1>2, <1>8, <2>1
<1>9. CASE base = 0 /\ Saved = 0
  <2>1. InitialBase = Default
    BY <1>3, <1>9 DEF InitialBase
  <2> QED BY <1>9, <2>1, ClockFacts
<1> QED BY <1>1, <1>2, <1>7, <1>8, <1>9

\* The clock shows a base and the seconds since, as long as they fit in a word.
LEMMA NowIs ==
  ASSUME NEW b \in Nat, NEW since \in Nat, timer \in Nat, since <= timer,
         b + ((timer - since) \div Second) < WordMod
  PROVE  Now(b, since) = b + ((timer - since) \div Second)
<1>1. timer - since \in Nat
  OBVIOUS
<1>2. (timer - since) \div Second \in Nat
  BY <1>1, ClockFacts, Halves
<1>3. b + ((timer - since) \div Second) \in 0 .. WordMod - 1
  BY <1>2, ClockFacts
<1> QED BY <1>3, ClockFacts, ModSmall DEF Now

LEMMA NowAtOnce ==
  ASSUME NEW b \in 0 .. WordMod - 1, timer \in Nat
  PROVE  Now(b, timer) = b
<1>1. timer - timer = 0
  OBVIOUS
<1>2. 0 \div Second = 0
  BY ClockFacts, ModSmall
<1> QED BY <1>1, <1>2, ClockFacts, NowIs

\* What the invariant says of the time shown.
LEMMA KeepsShows == ASSUME KInv PROVE ClockKeeps
<1> SUFFICES ASSUME given > 0, Fits(given + age \div Second)
             PROVE  /\ ~restarted => Shown = given + age \div Second
                    /\ Shown \in given .. given + age \div Second
  BY DEF ClockKeeps
<1> DEFINE passed == age \div Second
<1>1. /\ timer \in Nat /\ boot \in Nat /\ boot <= timer /\ age \in Nat
      /\ given \in Int /\ base \in 0 .. WordMod - 1
  BY DEF KInv, ClockTypes
<1>2. passed \in Nat
  BY <1>1, ClockFacts, Halves
<1>3. given + passed < WordMod /\ given \in 1 .. WordMod - 1
  BY <1>1, <1>2, ClockFacts DEF Fits
<1>4. /\ Saved = given /\ base \in {0, given}
      /\ ~restarted => base = given /\ timer - boot = age
      /\ base # 0 => timer - boot <= age
  BY <1>3 DEF KInv, Keeps, Fits
<1>5. CASE base = 0
  <2>1. InitialBase = given
    BY <1>3, <1>4, <1>5, InitialBaseIs DEF KInv
  <2>2. Now(given, timer) = given
    BY <1>1, <1>3, NowAtOnce
  <2>3. Shown = given /\ restarted
    BY <1>3, <1>4, <1>5, <2>1, <2>2 DEF Shown, KInv, ClockTypes
  <2> QED BY <1>2, <1>3, <2>3
<1>6. CASE base = given /\ base # 0
  <2> DEFINE counted == (timer - boot) \div Second
  <2>1. timer - boot \in Nat /\ timer - boot <= age
    BY <1>1, <1>4, <1>6
  <2>2. counted \in Nat /\ counted <= passed
    BY <1>1, <2>1, ClockFacts, Halves, HalvesMonotone
  <2>3. given + counted < WordMod
    <3> HIDE DEF counted, passed
    <3> QED BY <1>2, <1>3, <2>2, ClockFacts
  <2>4. Now(given, boot) = given + counted
    BY <1>1, <1>3, <2>3, NowIs
  <2>5. Shown = given + counted
    BY <1>6, <2>4 DEF Shown
  <2>6. ~restarted => counted = passed
    BY <1>4
  <2> QED BY <1>2, <1>3, <2>2, <2>5, <2>6
<1> QED BY <1>4, <1>5, <1>6

LEMMA KInvInit == ASSUME Init PROVE KInv
<1>1. scratch = <<0, 0>> /\ scratch[1] = 0 /\ scratch[2] = 0 /\ given = -1
  BY DEF Init, Unset
<1>2. scratch \in (0 .. HalfMod - 1) \X (0 .. HalfMod - 1)
  BY <1>1, ClockFacts
<1>3. ~(given > 0)
  BY <1>1
<1>4. base = 0 /\ boot = 0 /\ timer = 0 /\ age = 0 /\ given \in Int
  BY <1>1 DEF Init
<1>5. ClockTypes
  BY <1>2, <1>4, ClockFacts DEF ClockTypes
<1> QED BY <1>3, <1>5 DEF KInv, Keeps

\* While time passes, the date grows at least as old as the clock counts.
LEMMA KInvElapse == ASSUME KInv, NEW n \in Jumps, Elapse(n) PROVE KInv'
<1>1. n \in Nat /\ timer' = timer + n /\ base' = base /\ boot' = boot /\ scratch' = scratch
      /\ given' = given /\ restarted' = restarted
  BY TimerFacts DEF Elapse, clock
<1>2. age' = IF given = Unset THEN age ELSE age + n
  BY DEF Elapse
<1>3. ClockTypes'
  BY <1>1, <1>2 DEF KInv, ClockTypes
<1>4. given > 0 => age' = age + n
  BY <1>2 DEF Unset
<1>5. Saved' = Saved
  BY <1>1 DEF Saved
<1>6. Keeps'
  <2> SUFFICES ASSUME given > 0, Fits(given)
               PROVE  /\ Saved' = given /\ base \in {0, given}
                      /\ ~restarted => base = given /\ timer' - boot = age'
                      /\ base # 0 => timer' - boot <= age'
    BY <1>1 DEF Keeps, Fits
  <2> QED BY <1>1, <1>4, <1>5 DEF KInv, ClockTypes, Keeps
<1> QED BY <1>3, <1>6 DEF KInv

\* An initialisation makes the saved date the base, and counts from now on.
LEMMA KInvInitialised ==
  ASSUME KInv, base' = InitialBase, boot' = timer,
         UNCHANGED <<timer, scratch, given, age>>,
         ~restarted' => ~restarted /\ base = 0
  PROVE  KInv'
<1>1. /\ timer \in Nat /\ base' \in 1 .. WordMod - 1 /\ age \in Nat
      /\ base # 0 => base' = base
      /\ base = 0 /\ Saved # 0 => base' = Saved
  BY InitialBaseIs DEF KInv, ClockTypes
<1>2. ClockTypes'
  BY <1>1, ClockFacts DEF KInv, ClockTypes
<1>3. Saved' = Saved
  BY DEF Saved
<1>4. Keeps'
  BY <1>1, <1>3 DEF KInv, ClockTypes, Keeps, Fits
<1> QED BY <1>2, <1>4 DEF KInv

LEMMA SecondsType == ASSUME NEW d \in Dates PROVE Seconds(d) \in Int
<1>1. d[1] \in Int /\ d[2] \in Int /\ d[3] \in Int /\ d[4] \in Int /\ d[5] \in Int /\ d[6] \in Int
  BY DatesAssumption
<1>2. /\ FirstYear \in Int /\ YearDays \in Int /\ MonthDays \in Int
      /\ DaySecs \in Int /\ HourSecs \in Int /\ MinuteSecs \in Int
  BY ClockAssumption
<1> QED BY <1>1, <1>2 DEF Seconds

\* A date that is set is saved, in two halves of a word.
LEMMA KInvSet == ASSUME KInv, NEW d \in Dates, ClockSet(d) PROVE KInv'
<1> DEFINE b == SecsOf(d)
<1>1. Seconds(d) \in Int
  BY SecondsType
<1>2. b \in 0 .. WordMod - 1
  BY <1>1, ClockFacts, ModRange DEF SecsOf
<1>3. timer \in Nat
  BY DEF KInv, ClockTypes
<1>4. Now(b, timer) = b
  BY <1>2, <1>3, NowAtOnce
<1>5. /\ base' = b /\ boot' = timer /\ timer' = timer /\ age' = 0 /\ restarted' = FALSE
      /\ given' = Seconds(d) /\ scratch' = <<b \div HalfMod, b % HalfMod>>
  BY <1>4 DEF ClockSet
<1>6. /\ b \div HalfMod \in Nat /\ b % HalfMod \in Nat /\ b % HalfMod < HalfMod
      /\ b = ((b \div HalfMod) * HalfMod) + (b % HalfMod)
  <2>1. b \in Nat /\ HalfMod \in Nat \ {0}
    BY <1>2, ClockFacts
  <2> HIDE DEF b
  <2> QED BY <2>1, Halves
<1>7. b \div HalfMod < HalfMod
  <2>1. b \in Nat /\ b < HalfMod * HalfMod
    BY <1>2, ClockFacts
  <2> HIDE DEF b
  <2> QED BY <2>1, ClockFacts, DivBelow
<1>8. Seconds(d) \in 0 .. WordMod - 1 => b = Seconds(d)
  BY ClockFacts, ModSmall DEF SecsOf
<1> HIDE DEF b
<1>9. scratch'[1] = b \div HalfMod /\ scratch'[2] = b % HalfMod
  BY <1>5
<1>10. ClockTypes'
  <2>1. b \div HalfMod \in 0 .. HalfMod - 1 /\ b % HalfMod \in 0 .. HalfMod - 1
    BY <1>6, <1>7, ClockFacts
  <2>2. scratch' \in (0 .. HalfMod - 1) \X (0 .. HalfMod - 1)
    BY <1>5, <2>1
  <2>3. /\ timer' \in Nat /\ boot' \in Nat /\ boot' <= timer' /\ age' \in Nat
        /\ base' \in 0 .. WordMod - 1 /\ given' \in Int
    BY <1>1, <1>2, <1>3, <1>5
  <2> QED BY <2>2, <2>3 DEF ClockTypes
<1>11. Saved' = b
  BY <1>6, <1>9 DEF Saved
<1>12. Keeps'
  BY <1>2, <1>3, <1>5, <1>8, <1>11 DEF Keeps, Fits
<1> QED BY <1>10, <1>12 DEF KInv

LEMMA KInvReset == ASSUME KInv, WatchdogReset PROVE KInv'
<1>1. /\ base' = 0 /\ boot' = 0 /\ timer' = 0 /\ restarted' = TRUE
      /\ scratch' = scratch /\ given' = given /\ age' = age
  BY DEF WatchdogReset
<1>2. Saved' = Saved
  BY <1>1 DEF Saved
<1> QED BY <1>1, <1>2, ClockFacts DEF KInv, ClockTypes, Keeps, Fits

LEMMA KInvPowerLoss == ASSUME PowerLoss PROVE KInv'
<1>1. /\ base' = 0 /\ boot' = 0 /\ timer' = 0 /\ restarted' = FALSE /\ given' = -1 /\ age' = 0
      /\ scratch' = <<0, 0>>
  BY DEF PowerLoss, Unset
<1>2. scratch'[1] = 0 /\ scratch'[2] = 0
  BY <1>1
<1>3. scratch' \in (0 .. HalfMod - 1) \X (0 .. HalfMod - 1)
  BY <1>1, ClockFacts
<1>4. ~(given' > 0)
  BY <1>1
<1>5. /\ base' = 0 /\ boot' = 0 /\ timer' = 0 /\ age' = 0
      /\ given' \in Int
  BY <1>1
<1>6. ClockTypes'
  BY <1>3, <1>5, ClockFacts DEF ClockTypes
<1> QED BY <1>4, <1>6 DEF KInv, Keeps

LEMMA KInvStutter ==
  ASSUME KInv, UNCHANGED <<base, boot, timer, scratch, given, age, restarted>> PROVE KInv'
BY DEF KInv, ClockTypes, Keeps, Fits, Saved

LEMMA KInvStep == ASSUME KInv, [Next]_vars PROVE KInv'
<1>1. CASE \E n \in Jumps : Elapse(n)
  BY <1>1, KInvElapse
<1>2. CASE ClockInit
  BY <1>2, KInvInitialised DEF ClockInit
<1>3. CASE ClockGet
  <2>1. CASE base = 0
    BY <1>3, <2>1, KInvInitialised DEF ClockGet, history, KInv, ClockTypes
  <2>2. CASE base # 0
    BY <1>3, <2>2, KInvStutter DEF ClockGet, history
  <2> QED BY <2>1, <2>2
<1>4. CASE \E d \in Dates : ClockSet(d)
  BY <1>4, KInvSet
<1>5. CASE WatchdogReset
  BY <1>5, KInvReset
<1>6. CASE PowerLoss
  BY <1>6, KInvPowerLoss
<1>7. CASE ReadBegins \/ LoadHi1 \/ LoadLo \/ LoadHi2 \/ LoadLoAgain \/ ReadReturns
  BY <1>7, KInvStutter
  DEF ReadBegins, LoadHi1, LoadLo, LoadHi2, LoadLoAgain, ReadReturns, Load, clock, history
<1>8. CASE UNCHANGED vars
  BY <1>8, KInvStutter DEF vars
<1> QED BY <1>1, <1>2, <1>3, <1>4, <1>5, <1>6, <1>7, <1>8 DEF Next

LEMMA KInvHolds == Spec => []KInv
<1>1. Init => KInv
  BY KInvInit
<1>2. KInv /\ [Next]_vars => KInv'
  BY KInvStep
<1> QED BY <1>1, <1>2, PTL DEF Spec

\* Once set, the clock shows the date it was given and the seconds since, and
\* after any number of resets and initialisations a moment between the two, never
\* the default, for every width of a word and of its halves (rtc_bridge.h:16-36).
THEOREM ClockKeepsDate == Spec => []ClockKeeps
<1>1. KInv => ClockKeeps
  BY KeepsShows
<1> QED BY <1>1, KInvHolds, PTL

-----------------------------------------------------------------------------
(* The calendar *)

LEMMA CalendarFacts ==
  /\ DaySecs \in Nat \ {0} /\ HourSecs \in Nat \ {0} /\ MinuteSecs \in Nat \ {0}
  /\ YearDays \in Nat \ {0} /\ MonthDays \in Nat \ {0} /\ FirstYear \in Nat
BY ClockAssumption

\* A number put together from a quotient and a remainder comes apart into them.
LEMMA Compose ==
  ASSUME NEW h \in Nat \ {0}, NEW q \in Nat, NEW r \in 0 .. h - 1
  PROVE  ((q * h) + r) \div h = q /\ ((q * h) + r) % h = r
<1> DEFINE x == (q * h) + r
            p == x \div h
            m == x % h
<1>1. q * h \in Nat /\ x \in Nat
  BY SMT
<1>2. p \in Nat /\ m \in Nat /\ m < h /\ x = (p * h) + m
  <2> HIDE DEF x
  <2> QED BY <1>1, Halves
<1> HIDE DEF p, m
<1>3. (q * h) + r = (p * h) + m
  BY <1>2
<1>4. ~(q < p)
  <2>1. q < p => (q + 1) * h <= p * h
    BY <1>2, SMT
  <2>2. (q + 1) * h = (q * h) + h
    BY SMT
  <2> QED BY <1>1, <1>2, <1>3, <2>1, <2>2
<1>5. ~(p < q)
  <2>1. p < q => (p + 1) * h <= q * h
    BY <1>2, SMT
  <2>2. (p + 1) * h = (p * h) + h /\ p * h \in Nat
    BY <1>2, SMT
  <2> QED BY <1>1, <1>2, <1>3, <2>1, <2>2
<1>6. p = q /\ m = r
  <2>1. p = q
    BY <1>2, <1>4, <1>5
  <2> QED BY <1>1, <1>2, <1>3, <2>1
<1> QED BY <1>6 DEF p, m

\* A unit that goes into the next one at least n \div k times, with its own remainder.
LEMMA WithinUnit ==
  ASSUME NEW n \in Nat \ {0}, NEW k \in Nat \ {0},
         NEW a \in 0 .. (n \div k) - 1, NEW r \in 0 .. k - 1
  PROVE  (a * k) + r \in 0 .. n - 1
<1> DEFINE q == n \div k
<1>1. q \in Nat /\ n % k \in Nat /\ n = (q * k) + (n % k)
  BY Halves
<1> DEFINE m == n % k
<1> HIDE DEF q, m
<1>2. q \in Nat /\ m \in Nat /\ n = (q * k) + m /\ a \in 0 .. q - 1
  BY <1>1 DEF q, m
<1>3. (a + 1) * k <= q * k /\ a * k \in Nat
  BY <1>2, SMT
<1>4. (a + 1) * k = (a * k) + k
  BY <1>2, SMT
<1> QED BY <1>2, <1>3, <1>4

\* The seconds are the same, counted from the day or from the hour.
LEMMA SecondsOfHour ==
  ASSUME NEW t \in Nat
  PROVE  t % MinuteSecs = (t % HourSecs) % MinuteSecs
<1> DEFINE hours == t \div HourSecs
           minutes == t % HourSecs
           each == HourSecs \div MinuteSecs
           m == minutes \div MinuteSecs
           r == minutes % MinuteSecs
<1>1. hours \in Nat /\ minutes \in Nat /\ t = (hours * HourSecs) + minutes
  BY CalendarFacts, Halves
<1>2. each \in Nat /\ HourSecs = each * MinuteSecs
  <2>1. HourSecs % MinuteSecs = 0
    BY ClockAssumption
  <2> QED BY <2>1, CalendarFacts, Halves
<1> HIDE DEF minutes
<1>3. m \in Nat /\ r \in 0 .. MinuteSecs - 1 /\ minutes = (m * MinuteSecs) + r
  BY <1>1, CalendarFacts, Halves
<1> DEFINE q == (hours * each) + m
<1> HIDE DEF hours, each, m, r
<1>4. q \in Nat /\ t = (q * MinuteSecs) + r
  <2>1. hours * HourSecs = (hours * each) * MinuteSecs /\ hours * each \in Nat
    BY <1>1, <1>2, CalendarFacts, SMT
  <2>2. ((hours * each) + m) * MinuteSecs = ((hours * each) * MinuteSecs) + (m * MinuteSecs)
    BY <1>3, <2>1, CalendarFacts, SMT
  <2>3. (hours * each) * MinuteSecs \in Nat /\ m * MinuteSecs \in Nat
    BY <1>3, <2>1, CalendarFacts, SMT
  <2> QED BY <1>1, <1>3, <2>1, <2>2, <2>3
<1> HIDE DEF q
<1>5. t % MinuteSecs = r
  BY <1>3, <1>4, CalendarFacts, Compose
<1> QED BY <1>5 DEF r, minutes

\* sage_clock_get takes apart what sage_clock_set put together.
LEMMA ProperIsShown ==
  ASSUME NEW d \in Dates, Proper(d)
  PROVE  DateOf(Seconds(d)) = d
<1>1. /\ d \in [1 .. 6 -> Int]
      /\ d[1] \in Int /\ d[2] \in Int /\ d[3] \in Int /\ d[4] \in Int /\ d[5] \in Int /\ d[6] \in Int
  BY DatesAssumption
<1>2. /\ Seconds(d) > 0 /\ d[2] >= 1 /\ d[3] \in 1 .. MonthDays /\ d[2] <= YearDays \div MonthDays
      /\ d[4] \in 0 .. (DaySecs \div HourSecs) - 1
      /\ d[5] \in 0 .. (HourSecs \div MinuteSecs) - 1 /\ d[6] \in 0 .. MinuteSecs - 1
  BY DEF Proper
<1> DEFINE year == d[1] - FirstYear
           month == d[2] - 1
           day == d[3] - 1
           rest == (month * MonthDays) + day
           days == (year * YearDays) + rest
           minutes == (d[5] * MinuteSecs) + d[6]
           time == (d[4] * HourSecs) + minutes
<1>3. /\ year \in Int /\ day \in 0 .. MonthDays - 1 /\ month \in Nat
      /\ month \in 0 .. (YearDays \div MonthDays) - 1
  <2>1. YearDays \div MonthDays \in Nat
    BY CalendarFacts, Halves
  <2> QED BY <1>1, <1>2, <2>1, CalendarFacts
<1>4. rest \in 0 .. YearDays - 1
  <2> HIDE DEF month, day
  <2> QED BY <1>3, CalendarFacts, WithinUnit
<1>5. minutes \in 0 .. HourSecs - 1
  BY <1>2, CalendarFacts, WithinUnit
<1>6. time \in 0 .. DaySecs - 1
  <2> HIDE DEF minutes
  <2> QED BY <1>2, <1>5, CalendarFacts, WithinUnit
<1>7. Seconds(d) = (days * DaySecs) + time
  <2>1. days = (d[1] - FirstYear) * YearDays + (d[2] - 1) * MonthDays + (d[3] - 1)
    BY <1>1, CalendarFacts
  <2>2. days * DaySecs \in Int /\ d[4] * HourSecs \in Int /\ d[5] * MinuteSecs \in Int
    BY <1>1, CalendarFacts, SMT
  <2>3. Seconds(d) = days * DaySecs + d[4] * HourSecs + d[5] * MinuteSecs + d[6]
    BY <2>1 DEF Seconds
  <2> HIDE DEF days
  <2> QED BY <1>1, <2>2, <2>3
<1>8. days \in Nat
  <2> HIDE DEF rest, year, time
  <2>1. days \in Int
    BY <1>3, <1>4, CalendarFacts
  <2> HIDE DEF days
  <2>2. days < 0 => days * DaySecs <= -DaySecs
    BY <2>1, CalendarFacts, SMT
  <2>3. days * DaySecs \in Int
    BY <2>1, CalendarFacts, SMT
  <2> QED BY <1>2, <1>6, <1>7, <2>1, <2>2, <2>3, CalendarFacts
<1>9. year \in Nat
  <2> HIDE DEF rest, year
  <2>1. year < 0 => year * YearDays <= -YearDays
    BY <1>3, CalendarFacts, SMT
  <2>2. year * YearDays \in Int
    BY <1>3, CalendarFacts, SMT
  <2> QED BY <1>3, <1>4, <1>8, <2>1, <2>2, CalendarFacts
<1>10. Seconds(d) \div DaySecs = days /\ Seconds(d) % DaySecs = time
  <2> HIDE DEF days, time
  <2> QED BY <1>6, <1>7, <1>8, CalendarFacts, Compose
<1>11. days \div YearDays = year /\ days % YearDays = rest
  <2> HIDE DEF year, rest
  <2> QED BY <1>4, <1>9, CalendarFacts, Compose
<1>12. rest \div MonthDays = month /\ rest % MonthDays = day
  <2> HIDE DEF month, day
  <2> QED BY <1>3, CalendarFacts, Compose
<1>13. time \div HourSecs = d[4] /\ time % HourSecs = minutes
  <2> HIDE DEF minutes
  <2>1. d[4] \in Nat
    BY <1>1, <1>2
  <2> QED BY <1>5, <2>1, CalendarFacts, Compose
<1>14. minutes \div MinuteSecs = d[5] /\ minutes % MinuteSecs = d[6]
  <2>1. /\ d[5] \in Nat /\ d[6] \in 0 .. MinuteSecs - 1
        /\ MinuteSecs \in Nat \ {0}
    BY <1>1, <1>2, CalendarFacts
  <2>2. /\ ((d[5] * MinuteSecs) + d[6]) \div MinuteSecs = d[5]
        /\ ((d[5] * MinuteSecs) + d[6]) % MinuteSecs = d[6]
    BY ONLY <2>1, Compose
  <2> QED BY <2>2
<1>15. FirstYear + year = d[1] /\ 1 + month = d[2] /\ 1 + day = d[3]
  BY <1>1, CalendarFacts
<1> HIDE DEF year, month, day, rest, days, minutes, time
<1>16. time % MinuteSecs = d[6]
  <2>1. time \in Nat
    BY <1>6, CalendarFacts
  <2> QED BY <1>13, <1>14, <2>1, SecondsOfHour
<1>17. DateOf(Seconds(d)) = <<d[1], d[2], d[3], d[4], d[5], d[6]>>
  BY <1>10, <1>11, <1>12, <1>13, <1>14, <1>15, <1>16 DEF DateOf
<1>18. d = <<d[1], d[2], d[3], d[4], d[5], d[6]>>
  BY <1>1
<1> QED BY <1>17, <1>18

\* A later moment has a later quotient, or the same one and a later remainder.
LEMMA LaterInUnits ==
  ASSUME NEW h \in Nat \ {0}, NEW s \in Nat, NEW t \in Nat, s <= t
  PROVE  \/ s \div h < t \div h
         \/ s \div h = t \div h /\ s % h <= t % h /\ (s < t => s % h < t % h)
<1> DEFINE p == s \div h
           q == t \div h
           m == s % h
           n == t % h
<1>1. /\ p \in Nat /\ m \in Nat /\ s = (p * h) + m
      /\ q \in Nat /\ n \in Nat /\ t = (q * h) + n
  BY Halves
<1>2. p <= q
  BY HalvesMonotone
<1> HIDE DEF p, q, m, n
<1>3. p < q \/ p = q
  BY <1>1, <1>2
<1>4. p = q => m <= n /\ (s < t => m < n)
  <2>1. p * h \in Nat
    BY <1>1, SMT
  <2> QED BY <1>1, <2>1
<1>5. p < q \/ (p = q /\ m <= n /\ (s < t => m < n))
  BY <1>3, <1>4
<1> QED BY <1>5 DEF p, q, m, n

\* The first place where two dates differ decides between them.
LEMMA FirstDifference ==
  ASSUME NEW d, NEW e, NEW i \in 1 .. 6, d[i] < e[i], \A j \in 1 .. i - 1 : d[j] = e[j]
  PROVE  NotAfter(d, e)
BY DEF NotAfter

LEMMA DatesMonotone ==
  ASSUME NEW s \in Nat, NEW t \in Nat, s <= t
  PROVE  NotAfter(DateOf(s), DateOf(t))
<1> DEFINE day(x) == x \div DaySecs
           time(x) == x % DaySecs
           rest(x) == day(x) % YearDays
           minutes(x) == time(x) % HourSecs
<1>1. \A x \in Nat : /\ day(x) \in Nat /\ time(x) \in Nat
                     /\ rest(x) \in Nat /\ minutes(x) \in Nat
  <2> TAKE x \in Nat
  <2>1. day(x) \in Nat /\ time(x) \in Nat
    BY CalendarFacts, Halves
  <2> HIDE DEF day, time
  <2> QED BY <2>1, CalendarFacts, Halves
<1>2. \A x \in Nat : /\ DateOf(x)[1] = FirstYear + (day(x) \div YearDays)
                     /\ DateOf(x)[2] = 1 + (rest(x) \div MonthDays)
                     /\ DateOf(x)[3] = 1 + (rest(x) % MonthDays)
                     /\ DateOf(x)[4] = time(x) \div HourSecs
                     /\ DateOf(x)[5] = minutes(x) \div MinuteSecs
                     /\ DateOf(x)[6] = minutes(x) % MinuteSecs
                     /\ DateOf(x) = <<DateOf(x)[1], DateOf(x)[2], DateOf(x)[3],
                                      DateOf(x)[4], DateOf(x)[5], DateOf(x)[6]>>
  <2> TAKE x \in Nat
  <2>1. time(x) % MinuteSecs = minutes(x) % MinuteSecs
    BY <1>1, SecondsOfHour
  <2> QED BY <2>1 DEF DateOf
<1>3. \A x \in Nat : /\ day(x) \div YearDays \in Nat /\ rest(x) \div MonthDays \in Nat
                     /\ rest(x) % MonthDays \in Nat /\ time(x) \div HourSecs \in Nat
                     /\ minutes(x) \div MinuteSecs \in Nat /\ minutes(x) % MinuteSecs \in Nat
  <2> TAKE x \in Nat
  <2>1. day(x) \in Nat /\ rest(x) \in Nat /\ time(x) \in Nat /\ minutes(x) \in Nat
    BY <1>1
  <2> HIDE DEF day, rest, time, minutes
  <2> QED BY <2>1, CalendarFacts, Halves
<1>4. day(s) < day(t) \/ (day(s) = day(t) /\ time(s) <= time(t))
  BY CalendarFacts, LaterInUnits
<1> HIDE DEF day, time
<1>5. CASE day(s) < day(t)
  <2>1. \/ day(s) \div YearDays < day(t) \div YearDays
        \/ day(s) \div YearDays = day(t) \div YearDays /\ rest(s) < rest(t)
    <3>1. day(s) \in Nat /\ day(t) \in Nat /\ day(s) <= day(t) /\ YearDays \in Nat \ {0}
      BY <1>1, <1>5, CalendarFacts
    <3> QED BY <1>5, <3>1, LaterInUnits
  <2> HIDE DEF rest
  <2>3. CASE day(s) \div YearDays < day(t) \div YearDays
    <3>1. DateOf(s)[1] < DateOf(t)[1]
      BY <1>2, <1>3, <2>3, CalendarFacts
    <3> QED BY <3>1, FirstDifference
  <2>4. CASE day(s) \div YearDays = day(t) \div YearDays /\ rest(s) < rest(t)
    <3>1. \/ rest(s) \div MonthDays < rest(t) \div MonthDays
          \/ rest(s) \div MonthDays = rest(t) \div MonthDays
             /\ rest(s) % MonthDays < rest(t) % MonthDays
      <4>1. rest(s) \in Nat /\ rest(t) \in Nat /\ rest(s) <= rest(t) /\ MonthDays \in Nat \ {0}
        BY <1>1, <2>4, CalendarFacts
      <4> QED BY <2>4, <4>1, LaterInUnits
    <3>2. DateOf(s)[1] = DateOf(t)[1]
      BY <1>2, <2>4
    <3>3. CASE rest(s) \div MonthDays < rest(t) \div MonthDays
      <4>1. DateOf(s)[2] < DateOf(t)[2]
        BY <1>2, <1>3, <3>3
      <4> QED BY <3>2, <4>1, FirstDifference
    <3>4. CASE /\ rest(s) \div MonthDays = rest(t) \div MonthDays
               /\ rest(s) % MonthDays < rest(t) % MonthDays
      <4>1. DateOf(s)[2] = DateOf(t)[2]
        BY <1>2, <3>4
      <4>2. DateOf(s)[3] < DateOf(t)[3]
        BY <1>2, <1>3, <3>4
      <4> QED BY <3>2, <4>1, <4>2, FirstDifference
    <3> QED BY <3>1, <3>3, <3>4
  <2> QED BY <2>1, <2>3, <2>4
<1>6. CASE day(s) = day(t) /\ time(s) <= time(t)
  <2>1. /\ DateOf(s)[1] = DateOf(t)[1] /\ DateOf(s)[2] = DateOf(t)[2]
        /\ DateOf(s)[3] = DateOf(t)[3]
    BY <1>2, <1>6
  <2>2. \/ time(s) \div HourSecs < time(t) \div HourSecs
        \/ time(s) \div HourSecs = time(t) \div HourSecs /\ minutes(s) <= minutes(t)
    BY <1>1, <1>6, CalendarFacts, LaterInUnits
  <2> HIDE DEF minutes
  <2>3. CASE time(s) \div HourSecs < time(t) \div HourSecs
    <3>1. DateOf(s)[4] < DateOf(t)[4]
      BY <1>2, <2>3
    <3> QED BY <2>1, <3>1, FirstDifference
  <2>4. CASE time(s) \div HourSecs = time(t) \div HourSecs /\ minutes(s) <= minutes(t)
    <3>1. DateOf(s)[4] = DateOf(t)[4]
      BY <1>2, <2>4
    <3>2. \/ minutes(s) \div MinuteSecs < minutes(t) \div MinuteSecs
          \/ minutes(s) \div MinuteSecs = minutes(t) \div MinuteSecs
             /\ minutes(s) % MinuteSecs <= minutes(t) % MinuteSecs
      BY <1>1, <2>4, CalendarFacts, LaterInUnits
    <3>3. CASE minutes(s) \div MinuteSecs < minutes(t) \div MinuteSecs
      <4>1. DateOf(s)[5] < DateOf(t)[5]
        BY <1>2, <3>3
      <4> QED BY <2>1, <3>1, <4>1, FirstDifference
    <3>4. CASE /\ minutes(s) \div MinuteSecs = minutes(t) \div MinuteSecs
               /\ minutes(s) % MinuteSecs <= minutes(t) % MinuteSecs
      <4>1. DateOf(s)[5] = DateOf(t)[5] /\ DateOf(s)[6] <= DateOf(t)[6]
        BY <1>2, <3>4
      <4>2. CASE DateOf(s)[6] = DateOf(t)[6]
        <5>1. DateOf(s) = DateOf(t)
          BY <1>2, <2>1, <3>1, <4>1, <4>2
        <5> QED BY <5>1 DEF NotAfter
      <4>3. CASE DateOf(s)[6] # DateOf(t)[6]
        <5>1. DateOf(s)[6] \in Nat /\ DateOf(t)[6] \in Nat
          BY <1>2, <1>3
        <5>2. DateOf(s)[6] < DateOf(t)[6]
          BY <4>1, <4>3, <5>1
        <5> QED BY <2>1, <3>1, <4>1, <5>2, FirstDifference
      <4> QED BY <4>2, <4>3
    <3> QED BY <3>2, <3>3, <3>4
  <2> QED BY <2>2, <2>3, <2>4
<1> QED BY <1>4, <1>5, <1>6

-----------------------------------------------------------------------------
(* The date shown *)

LEMMA ShownType == ASSUME KInv PROVE Shown \in Nat
<1>1. \A b \in Nat, since \in Nat : Now(b, since) \in Nat
  <2> TAKE b \in Nat, since \in Nat
  <2>1. timer - since \in Int
    BY DEF KInv, ClockTypes
  <2>2. (timer - since) \div Second \in Int
    BY <2>1, ClockFacts
  <2> DEFINE x == b + ((timer - since) \div Second)
  <2>3. x \in Int
    BY <2>2
  <2>4. Now(b, since) = x % WordMod
    BY DEF Now
  <2> HIDE DEF x
  <2> QED BY <2>3, <2>4, ClockFacts, ModRange
<1>2. InitialBase \in Nat
  BY ClockFacts, InitialBaseIs DEF KInv
<1>3. base \in Nat /\ boot \in Nat /\ timer \in Nat
  BY ClockFacts DEF KInv, ClockTypes
<1> QED BY <1>1, <1>2, <1>3 DEF Shown

\* clock_get shows the same seconds after it has initialised the clock.
LEMMA GetShowsTheSame == ASSUME KInv, ClockGet PROVE Shown' = Shown
<1>1. CASE base = 0
  <2>1. base' = InitialBase /\ boot' = timer /\ timer' = timer
    BY <1>1 DEF ClockGet
  <2>2. base' # 0
    BY <2>1, ClockFacts, InitialBaseIs DEF KInv
  <2>3. Shown' = (base' + (timer' - boot') \div Second) % WordMod
    BY <2>2 DEF Shown, Now
  <2>4. Shown = (InitialBase + (timer - timer) \div Second) % WordMod
    BY <1>1 DEF Shown, Now
  <2> QED BY <2>1, <2>3, <2>4
<1>2. CASE base # 0
  BY <1>2 DEF ClockGet, Shown, Now, InitialBase
<1> QED BY <1>1, <1>2

\* A date that is set is shown at once.
LEMMA SetIsShown ==
  ASSUME ClockKeeps', NEW d \in Dates, ClockSet(d), Proper(d)
  PROVE  DateOf(Shown)' = d
<1>1. given' = Seconds(d) /\ age' = 0 /\ ~restarted'
  BY DEF ClockSet
<1>2. Seconds(d) \in Int /\ Seconds(d) > 0 /\ Fits(Seconds(d))
  BY SecondsType DEF Proper
<1>3. 0 \div Second = 0
  BY ClockFacts, ModSmall
<1>4. given' + age' \div Second = Seconds(d)
  BY <1>1, <1>2, <1>3
<1>5. Shown' = Seconds(d)
  BY <1>1, <1>2, <1>4 DEF ClockKeeps, Fits
<1>6. DateOf(Seconds(d)) = d
  BY ProperIsShown
<1> QED BY <1>5, <1>6 DEF DateOf

\* A proper date that is set is the date shown, and from then on the date shown
\* never goes back, for every calendar whose minutes fill an hour: not at the end
\* of a month or a year, nor when clock_get initialises the clock
\* (rtc_bridge.h:46-47,63).
THEOREM ShownDateFollows == Spec => DatesFollow
<1> DEFINE A == /\ \A d \in Dates : ClockSet(d) /\ Proper(d) => DateOf(Shown)' = d
                /\ ClockGet \/ ((\E n \in Jumps : Elapse(n)) /\ Shown' >= Shown)
                     => NotAfter(DateOf(Shown), DateOf(Shown)')
           Good == KInv /\ ClockKeeps /\ Shown \in Nat
<1>1. KInv => Good
  BY KeepsShows, ShownType
<1>2. Good /\ Good' => [A]_vars
  <2> SUFFICES ASSUME Good, Good' PROVE A
    OBVIOUS
  <2>1. ASSUME NEW d \in Dates, ClockSet(d), Proper(d) PROVE DateOf(Shown)' = d
    BY <2>1, SetIsShown
  <2>2. Shown \in Nat /\ Shown' \in Nat
    OBVIOUS
  <2>3. ASSUME ClockGet \/ ((\E n \in Jumps : Elapse(n)) /\ Shown' >= Shown)
        PROVE  NotAfter(DateOf(Shown), DateOf(Shown)')
    <3>1. Shown' >= Shown
      BY <2>2, <2>3, GetShowsTheSame
    <3>2. DateOf(Shown)' = DateOf(Shown')
      BY DEF DateOf
    <3>3. NotAfter(DateOf(Shown), DateOf(Shown'))
      BY <2>2, <3>1, DatesMonotone
    <3> QED BY <3>2, <3>3
  <2> QED BY <2>1, <2>3
<1>3. DatesFollow <=> [][A]_vars
  BY DEF DatesFollow
<1> HIDE DEF A, Good
<1> QED BY <1>1, <1>2, <1>3, KInvHolds, PTL
=============================================================================
