-------------------------- MODULE FlashStoreProofs --------------------------
(***************************************************************************)
(* Proofs about the flash store, for both devices.  First where it writes, *)
(* which sector is in use, and that a device that only clears bits counts  *)
(* nothing; then that the store implements DurableLog, what a compaction   *)
(* keeps, and that the sectors wear evenly.                                *)
(***************************************************************************)
EXTENDS FlashHistory, SequenceTheorems, DataLemmas

(* Sizes: an entry takes at least four bytes of a sector. *)
LEMMA EntrySizeType ==
  ASSUME NEW k \in Keys, NEW v \in Values
  PROVE  EntrySize(k, v) \in Nat
<1>1. KeyLen[k] \in Nat /\ ValLen[v] \in Nat
  BY SizeAssumption
<1>2. \A n \in Nat : Align4(n) \in Nat
  BY DEF Align4
<1> QED BY <1>1, <1>2 DEF EntrySize

(* The offset the scans reach is a number. *)
LEMMA EndAtType ==
  ASSUME NEW log \in Seq(Entry), NEW n \in 0 .. Len(log)
  PROVE  EndAt(log, n) \in Nat
<1>1. CASE n = 0
  BY <1>1, SizeAssumption DEF EndAt
<1>2. CASE n # 0
  <2>1. log[n] \in Entry
    BY <1>2, ElementOfSeq
  <2> QED BY <1>2, <2>1, EntrySizeType DEF EndAt, Entry
<1> QED BY <1>1, <1>2

(* Programming entry e after the first n entries of a log keeps those,     *)
(* puts e after them, and leaves nothing else.                             *)
LEMMA ProgrammedLog ==
  ASSUME NEW log \in Seq(Entry), NEW n \in 0 .. Len(log), NEW e \in Entry
  PROVE  LET new == Append(SubSeq(log, 1, n), e)
         IN  /\ new \in Seq(Entry)
             /\ Len(new) = n + 1
             /\ \A i \in 1 .. n : new[i] = log[i]
             /\ new[n + 1] = e
             /\ \A i \in 0 .. n : EndAt(new, i) = EndAt(log, i)
<1> DEFINE pre == SubSeq(log, 1, n)
           new == Append(pre, e)
<1>1. pre \in Seq(Entry) /\ Len(pre) = n /\ \A i \in 1 .. n : pre[i] = log[i]
  OBVIOUS
<1>2. /\ new \in Seq(Entry) /\ Len(new) = n + 1 /\ new[n + 1] = e
      /\ \A i \in 1 .. n : new[i] = log[i]
  BY <1>1
<1>3. \A i \in 0 .. n : EndAt(new, i) = EndAt(log, i)
  BY <1>2 DEF EndAt
<1> QED BY <1>2, <1>3

-----------------------------------------------------------------------------
(* The writes of the device, on one sector. *)

LEMMA SectorType ==
  ASSUME NEW s \in Sectors, TypeOK
  PROVE  /\ flash[s].magic \in BOOLEAN /\ flash[s].seq \in Nat
         /\ flash[s].count \in Nat /\ flash[s].log \in Seq(Entry)
         /\ Len(flash[s].log) \in Nat
BY DEF TypeOK

LEMMA EraseEffect ==
  ASSUME NEW s \in Sectors, TypeOK, EraseSector(s)
  PROVE  /\ flash' \in [Sectors -> [magic : BOOLEAN, seq : Nat, count : Nat, log : Seq(Entry)]]
         /\ flash'[s] = Erased
         /\ \A t \in Sectors \ {s} : flash'[t] = flash[t]
<1>1. Erased \in [magic : BOOLEAN, seq : Nat, count : Nat, log : Seq(Entry)]
  BY DeviceAssumption, EmptySeq DEF Erased
<1> QED BY <1>1 DEF EraseSector, TypeOK

\* What a count reads once n was programmed over it.
Counts(n) == IF NorDevice THEN 0 ELSE n

\* The counts the store programs, over what it programs them.
CountsAllowed(old, n) ==
  NorDevice => \/ n = 0 /\ old \in {0, CountMask}
               \/ n = 1 /\ old = 0

LEMMA WordCounts ==
  ASSUME NEW old, NEW n, CountsAllowed(old, n)
  PROVE  Word(old, n) = Counts(n)
BY DeviceAssumption DEF Word, Counts, CountsAllowed

LEMMA HeaderEffect ==
  ASSUME NEW s \in Sectors, NEW q \in Nat, NEW n \in Nat,
         TypeOK, ProgramHeader(s, q, n), CountsAllowed(flash[s].count, n)
  PROVE  /\ flash' \in [Sectors -> [magic : BOOLEAN, seq : Nat, count : Nat, log : Seq(Entry)]]
         /\ flash'[s].magic /\ flash'[s].seq = q /\ flash'[s].count = Counts(n)
         /\ flash'[s].log = flash[s].log
         /\ \A t \in Sectors \ {s} : flash'[t] = flash[t]
<1>1. Word(flash[s].count, n) = Counts(n) /\ Counts(n) \in Nat
  BY WordCounts DEF Counts
<1> DEFINE new == [magic |-> TRUE, seq |-> q, count |-> Counts(n), log |-> flash[s].log]
<1>2. flash' = [flash EXCEPT ![s] = new]
  BY <1>1 DEF ProgramHeader, TypeOK
<1>3. new \in [magic : BOOLEAN, seq : Nat, count : Nat, log : Seq(Entry)]
  BY <1>1, SectorType
<1> QED BY <1>2, <1>3 DEF TypeOK

(* What is programmed is an entry at the offset asked for, and the entry    *)
(* itself on a device that stores what it is given.                         *)
LEMMA EntryEffect ==
  ASSUME NEW s \in Sectors, TypeOK, NEW n \in 0 .. Len(flash[s].log),
         NEW e \in Entry, ProgramEntry(s, n, e)
  PROVE  /\ flash' \in [Sectors -> [magic : BOOLEAN, seq : Nat, count : Nat, log : Seq(Entry)]]
         /\ flash'[s].magic = flash[s].magic /\ flash'[s].seq = flash[s].seq
         /\ flash'[s].count = flash[s].count
         /\ \E g \in Entry : /\ g.at = e.at /\ (~NorDevice => g = e)
                             /\ flash'[s].log = Append(SubSeq(flash[s].log, 1, n), g)
         /\ \A t \in Sectors \ {s} : flash'[t] = flash[t]
<1>0. PICK g \in Programmed(s, n, e) :
        flash' = [flash EXCEPT ![s].log = Append(SubSeq(@, 1, n), g)]
  BY DEF ProgramEntry
<1>5. g \in Entry /\ g.at = e.at /\ (~NorDevice => g = e)
  BY <1>0 DEF Programmed, Entry
<1> DEFINE newlog == Append(SubSeq(flash[s].log, 1, n), g)
           new == [flash[s] EXCEPT !.log = newlog]
<1>1. flash' = [flash EXCEPT ![s] = new]
  BY <1>0 DEF TypeOK
<1>2. newlog \in Seq(Entry)
  BY <1>5, SectorType, ProgrammedLog
<1>3. new \in [magic : BOOLEAN, seq : Nat, count : Nat, log : Seq(Entry)]
  BY <1>2 DEF TypeOK
<1>4. new.log = newlog /\ new.magic = flash[s].magic /\ new.seq = flash[s].seq
      /\ new.count = flash[s].count
  BY DEF TypeOK
<1>6. newlog = Append(SubSeq(flash[s].log, 1, n), g)
  OBVIOUS
<1> HIDE DEF new, newlog
<1> QED BY <1>1, <1>3, <1>4, <1>5, <1>6 DEF TypeOK

-----------------------------------------------------------------------------
(* A sector that is not written keeps a sound log. *)
LEMMA UntouchedLog ==
  ASSUME NEW s \in Sectors, flash'[s] = flash[s], LogSound(s)
  PROVE  LogSound(s)'
BY DEF LogSound, EndAt

(* Appending an entry at the offset of the scans keeps a log sound. *)
LEMMA EntryKeepsLogSound ==
  ASSUME NEW s \in Sectors, TypeOK, LogSound(s),
         NEW n \in 0 .. Len(flash[s].log), flash[s].count <= n,
         NEW e \in Entry, e.at = EndAt(flash[s].log, n), ProgramEntry(s, n, e)
  PROVE  /\ LogSound(s)'
         /\ Len(flash'[s].log) = n + 1
         /\ \A i \in 0 .. n : EndAt(flash'[s].log, i) = EndAt(flash[s].log, i)
         /\ ~NorDevice => flash'[s].log[n + 1] = e
<1> DEFINE old == flash[s].log
           new == flash'[s].log
<1>8. flash'[s].count = flash[s].count
  BY EntryEffect
<1>1. PICK g \in Entry : /\ g.at = e.at /\ (~NorDevice => g = e)
                         /\ new = Append(SubSeq(old, 1, n), g)
  BY EntryEffect
<1>2. old \in Seq(Entry) /\ flash[s].count \in Nat
  BY SectorType
<1>3. /\ Len(new) = n + 1 /\ new[n + 1] = g
      /\ \A i \in 1 .. n : new[i] = old[i]
      /\ \A i \in 0 .. n : EndAt(new, i) = EndAt(old, i)
  BY <1>1, <1>2, ProgrammedLog
<1> HIDE DEF new
<1>4. \A i \in 1 .. n + 1 : new[i].at = EndAt(new, i - 1)
  <2> TAKE i \in 1 .. n + 1
  <2>1. CASE i = n + 1
    BY <2>1, <1>1, <1>3
  <2>2. CASE i \in 1 .. n
    <3>1. old[i].at = EndAt(old, i - 1)
      BY <2>2, <1>2 DEF LogSound
    <3> QED BY <3>1, <2>2, <1>3
  <2> QED BY <2>1, <2>2
<1>5. \A i \in 1 .. flash[s].count - 1 : EndAt(new, i) <= Limit
  BY <1>2, <1>3 DEF LogSound
<1>6. flash[s].count <= n + 1
  BY <1>2
<1>7. LogSound(s)'
  BY <1>8, <1>3, <1>4, <1>5, <1>6 DEF LogSound, EndAt, Limit, EntrySize, Align4, new
<1> QED BY <1>1, <1>3, <1>7 DEF new

-----------------------------------------------------------------------------
LEMMA BlankEntryType == BlankEntry \in Entry
BY SizeAssumption DEF BlankEntry, Entry

LEMMA ZeroSector == 0 \in Sectors
BY RingAssumption DEF Sectors

LEMMA LogInvInit == Init => LogInv
<1> SUFFICES ASSUME Init PROVE LogInv
  OBVIOUS
<1>1. Erased \in [magic : BOOLEAN, seq : Nat, count : Nat, log : Seq(Entry)]
  BY DeviceAssumption, EmptySeq DEF Erased
<1>2. TypeOK
  BY <1>1, BlankEntryType, ZeroSector, RingAssumption, EmptySeq
  DEF Init, TypeOK, Phases, NothingFound
<1>3. \A s \in Sectors : ~flash[s].magic
  BY DEF Init, Erased
<1>4. PhaseSound
  BY DEF Init, PhaseSound
<1>5. CountSound
  BY <1>3 DEF Init, CountSound
<1> QED BY <1>2, <1>3, <1>4, <1>5 DEF LogInv

(* The steps that leave the flash alone. *)
LEMMA LogInvRamSteps ==
  ASSUME LogInv,
         \/ InitBegin \/ ScanSector \/ ScanFound \/ PutOverrun \/ PowerLoss
         \/ \E k \in Keys, v \in Values : Put(k, v)
         \/ UNCHANGED vars
  PROVE  LogInv'
<1>1. flash' = flash /\ TypeOK /\ PhaseSound
  BY DEF LogInv, InitBegin, ScanSector, ScanFound, PutOverrun, PowerLoss, Put, vars
<1>2. \A s \in Sectors : flash'[s].magic => LogSound(s)'
  BY <1>1 DEF LogInv, LogSound, EndAt
<1>11. CountSound'
  <2>1. (saved' = saved /\ copied' = copied) \/ (saved' = <<>> /\ copied' = 0)
    BY DEF InitBegin, ScanSector, ScanFound, PutOverrun, PowerLoss, ResetRam, Put, vars
  <2> QED BY <1>1, <2>1 DEF LogInv, CountSound
<1>3. CASE InitBegin
  <2>1. TypeOK'
    BY <1>1, <1>3, ZeroSector, RingAssumption
    DEF TypeOK, InitBegin, ram, Phases, NothingFound
  <2>2. PhaseSound'
    BY <1>1, <1>3 DEF PhaseSound, InitBegin, ram, NothingFound
  <2> QED BY <1>2, <1>11, <2>1, <2>2 DEF LogInv
<1>4. CASE ScanSector
  <2>1. scan \in Sectors /\ flash[scan].seq \in Nat
    BY <1>1, <1>4, RingAssumption DEF TypeOK, ScanSector, Sectors
  <2>2. best' \in [found : BOOLEAN, seq : Nat, addr : Sectors]
    BY <1>1, <1>4, <2>1 DEF TypeOK, ScanSector
  <2>3. scan' \in 0 .. NumSectors
    BY <1>1, <1>4, RingAssumption DEF TypeOK, ScanSector
  <2>4. TypeOK'
    BY <1>1, <1>4, <2>2, <2>3 DEF TypeOK, ScanSector, ram
  <2>5. PhaseSound'
    BY <1>1, <1>4 DEF PhaseSound, ScanSector, ram
  <2> QED BY <1>2, <1>11, <2>4, <2>5 DEF LogInv
<1>6. CASE PutOverrun
  <2>1. TypeOK'
    BY <1>1, <1>6 DEF TypeOK, PutOverrun, ram, Phases
  <2>2. PhaseSound'
    BY <1>1, <1>6 DEF PhaseSound, PutOverrun, ram
  <2> QED BY <1>2, <1>11, <2>1, <2>2 DEF LogInv
<1>7. CASE PowerLoss
  <2>3. cur' \in Entry /\ saved' \in Seq(Entry) /\ copied' \in Nat
    BY <1>7, BlankEntryType, EmptySeq DEF PowerLoss, ResetRam
  <2>4. /\ addr' \in Sectors /\ seq' \in Nat /\ scan' \in 0 .. NumSectors
        /\ best' \in [found : BOOLEAN, seq : Nat, addr : Sectors]
    BY <1>7, ZeroSector, RingAssumption DEF PowerLoss, ResetRam, NothingFound
  <2>1. TypeOK'
    BY <1>1, <1>7, <2>3, <2>4 DEF TypeOK, PowerLoss, ResetRam, Phases
  <2>2. PhaseSound'
    BY <1>1, <1>7 DEF PhaseSound, PowerLoss, ResetRam
  <2> QED BY <1>2, <1>11, <2>1, <2>2 DEF LogInv
<1>8. ASSUME NEW k \in Keys, NEW v \in Values, Put(k, v)
      PROVE  LogInv'
  <2>1. pc = "idle" /\ initialized /\ flash[addr].magic /\ addr \in Sectors
    BY <1>1, <1>8 DEF Put, PhaseSound, TypeOK
  <2>2. LogSound(addr) /\ flash[addr].log \in Seq(Entry) /\ flash[addr].count \in Nat
    BY <2>1, <1>1, SectorType DEF LogInv
  <2>3. Used \in Nat
    BY <2>2, EndAtType DEF Used, LogSound
  <2>4. TypeOK'
    BY <1>1, <1>8, <2>3 DEF TypeOK, Put, ram, Phases, Entry
  <2>5. Used' = Used
    BY <1>1, <1>8 DEF Put, ram, Used, EndAt
  <2>6. pc' = "program" => Used <= Limit
    <3>1. EntrySize(k, v) \in Nat
      BY EntrySizeType
    <3>2. Limit \in Int
      BY SizeAssumption DEF Limit
    <3> QED BY <1>8, <3>1, <3>2, <2>3 DEF Put, Fits
  <2>7. PhaseSound'
    BY <1>1, <1>8, <2>1, <2>5, <2>6 DEF PhaseSound, Put, ram
  <2> QED BY <1>2, <1>11, <2>4, <2>7 DEF LogInv
<1>9. CASE UNCHANGED vars
  <2>1. TypeOK' /\ PhaseSound'
    BY <1>1, <1>9 DEF TypeOK, PhaseSound, Used, EndAt, EntrySize, vars
  <2>2. \A s \in Sectors : flash'[s].magic => LogSound(s)'
    BY <1>9 DEF LogInv, LogSound, EndAt, EntrySize, vars
  <2> QED BY <1>11, <2>1, <2>2 DEF LogInv
<1>10. CASE ScanFound
  <2>1. TypeOK'
    BY <1>1, <1>10 DEF TypeOK, ScanFound, Phases
  <2>2. PhaseSound'
    BY <1>1, <1>10 DEF PhaseSound, ScanFound
  <2> QED BY <1>2, <1>11, <2>1, <2>2 DEF LogInv
<1> QED BY <1>3, <1>4, <1>6, <1>7, <1>8, <1>9, <1>10

(* The steps that erase a sector or write its header. *)
LEMMA LogInvFormat ==
  ASSUME LogInv, ScanEmpty \/ FormatHeader \/ CompactErase \/ CompactHeader
  PROVE  LogInv'
<1>1. TypeOK /\ PhaseSound
  BY DEF LogInv
<1>2. CASE ScanEmpty
  <2>1. /\ flash' \in [Sectors -> [magic : BOOLEAN, seq : Nat, count : Nat, log : Seq(Entry)]]
        /\ flash'[0] = Erased /\ \A t \in Sectors \ {0} : flash'[t] = flash[t]
    BY <1>1, <1>2, EraseEffect, ZeroSector DEF ScanEmpty
  <2>2. TypeOK'
    BY <1>1, <1>2, <2>1, ZeroSector DEF TypeOK, ScanEmpty, Phases
  <2>3. \A s \in Sectors : flash'[s].magic => LogSound(s)'
    BY <2>1, UntouchedLog DEF LogInv, Erased
  <2>4. PhaseSound'
    BY <1>1, <1>2, <2>1 DEF PhaseSound, ScanEmpty
  <2>5. CountSound'
    BY <1>2, <2>1 DEF LogInv, CountSound, ScanEmpty, Erased
  <2> QED BY <2>2, <2>3, <2>4, <2>5 DEF LogInv
<1>3. CASE CompactErase
  <2>1. addr' \in Sectors
    BY <1>1, <1>3, RingAssumption DEF TypeOK, CompactErase, NextSector, Sectors
  <2>2. /\ flash' \in [Sectors -> [magic : BOOLEAN, seq : Nat, count : Nat, log : Seq(Entry)]]
        /\ flash'[addr'] = Erased /\ \A t \in Sectors \ {addr'} : flash'[t] = flash[t]
    BY <1>1, <1>3, <2>1, EraseEffect DEF CompactErase
  <2>3. saved' \in Seq(Entry)
    <3>1. initialized /\ flash[addr].magic /\ addr \in Sectors
      BY <1>1, <1>3 DEF PhaseSound, CompactErase, TypeOK
    <3>2. flash[addr].count \in 0 .. Len(flash[addr].log) /\ flash[addr].log \in Seq(Entry)
      BY <3>1, <1>1, SectorType DEF LogInv, LogSound
    <3> QED BY <1>3, <3>2, SizeAssumption DEF CompactErase, ToCopy
  <2>4. seq' \in Nat
    BY <1>1, <1>3, RingAssumption DEF TypeOK, CompactErase
  <2>5. TypeOK'
    <3>1. pc' \in Phases /\ UNCHANGED <<initialized, scan, best, cur, copied>>
      BY <1>3 DEF CompactErase, Phases
    <3> QED BY <1>1, <2>1, <2>2, <2>3, <2>4, <3>1 DEF TypeOK
  <2>6. \A s \in Sectors : flash'[s].magic => LogSound(s)'
    BY <2>1, <2>2, UntouchedLog DEF LogInv, Erased
  <2>7. PhaseSound'
    <3>1. pc = "compact" /\ pc' = "compact_header" /\ initialized' = initialized
      BY <1>3 DEF CompactErase
    <3>2. initialized'
      BY <1>1, <3>1 DEF PhaseSound
    <3> QED BY <2>2, <3>1, <3>2 DEF PhaseSound
  <2>8. CountSound'
    <3>1. NorDevice => saved' = <<>>
      <4>1. flash[addr].magic /\ addr \in Sectors /\ flash[addr].log \in Seq(Entry)
        BY <1>1, <1>3, SectorType DEF PhaseSound, CompactErase, TypeOK
      <4>2. NorDevice => saved' = SubSeq(flash[addr].log, 1, 0)
        BY <1>3, <4>1, SizeAssumption DEF CompactErase, ToCopy, LogInv, CountSound
      <4> QED BY <4>1, <4>2, SubSeqEmpty
    <3>2. copied' = copied
      BY <1>3 DEF CompactErase
    <3>3. \A s \in Sectors : flash'[s].magic => flash'[s] = flash[s]
      BY <2>1, <2>2 DEF Erased
    <3> QED BY <3>1, <3>2, <3>3 DEF LogInv, CountSound
  <2> QED BY <2>5, <2>6, <2>7, <2>8 DEF LogInv
<1>4. ASSUME FormatHeader \/ CompactHeader
      PROVE  LogInv'
  <2>1. /\ addr \in Sectors /\ addr' = addr /\ seq' = seq /\ seq \in Nat
        /\ flash[addr] = Erased /\ flash[addr].log = <<>>
        /\ ProgramHeader(addr, seq, 0)
    BY <1>1, <1>4 DEF FormatHeader, CompactHeader, PhaseSound, TypeOK, ram, Erased
  <2>2. /\ flash' \in [Sectors -> [magic : BOOLEAN, seq : Nat, count : Nat, log : Seq(Entry)]]
        /\ flash'[addr].magic /\ flash'[addr].count = 0 /\ flash'[addr].log = <<>>
        /\ \A t \in Sectors \ {addr} : flash'[t] = flash[t]
    <3>1. CountsAllowed(flash[addr].count, 0)
      BY <2>1 DEF CountsAllowed, Erased
    <3>2. Counts(0) = 0
      BY DEF Counts
    <3> QED BY <1>1, <2>1, <3>1, <3>2, HeaderEffect
  <2>3. TypeOK'
    BY <1>1, <1>4, <2>1, <2>2 DEF TypeOK, FormatHeader, CompactHeader, ram, Phases
  <2>4. LogSound(addr)'
    BY <2>1, <2>2 DEF LogSound
  <2>5. \A s \in Sectors : flash'[s].magic => LogSound(s)'
    <3> TAKE s \in Sectors
    <3>1. CASE s = addr
      BY <3>1, <2>1, <2>4
    <3>2. CASE s # addr
      BY <3>2, <2>2, UntouchedLog DEF LogInv
    <3> QED BY <3>1, <3>2
  <2>6. PhaseSound'
    BY <1>1, <1>4, <2>1, <2>2 DEF PhaseSound, FormatHeader, CompactHeader, ram
  <2>7. CountSound'
    BY <1>4, <2>2 DEF LogInv, CountSound, FormatHeader, CompactHeader
  <2> QED BY <2>3, <2>5, <2>6, <2>7 DEF LogInv
<1> QED BY <1>2, <1>3, <1>4

(* On a device that only clears bits there is nothing to copy. *)
LEMMA CopiesOnlyCounted ==
  ASSUME LogInv, CompactCopy
  PROVE  ~NorDevice
<1> SUFFICES ASSUME NorDevice PROVE FALSE
  OBVIOUS
<1>1. saved = <<>> /\ copied = 0 /\ copied < Len(saved)
  BY DEF LogInv, CountSound, CompactCopy, MoreToCopy
<1>2. Len(<<>>) = 0
  OBVIOUS
<1> QED BY <1>1, <1>2

(* The steps that program an entry or update a count. *)
LEMMA LogInvWrite ==
  ASSUME LogInv, PutProgram \/ PutCount \/ CompactCopy \/ CompactCount
  PROVE  LogInv'
<1>1. /\ TypeOK /\ PhaseSound /\ initialized /\ pc # "compact_header"
      /\ addr \in Sectors /\ flash[addr].magic /\ LogSound(addr)
      /\ addr' = addr /\ initialized' = initialized
  BY DEF LogInv, PutProgram, PutCount, CompactCopy, CompactCount, PhaseSound, TypeOK, ram
<1>2. /\ flash[addr].log \in Seq(Entry) /\ Len(flash[addr].log) \in Nat
      /\ flash[addr].count \in 0 .. Len(flash[addr].log)
  BY <1>1, SectorType DEF LogSound
<1> DEFINE log == flash[addr].log
           n == flash[addr].count
<1>3. CASE PutProgram
  <2>1. /\ pc = "program" /\ cur \in Entry /\ cur.at = EndAt(log, n)
        /\ EndAt(log, n) <= Limit /\ ProgramEntry(addr, n, cur)
    BY <1>1, <1>3 DEF PutProgram, PhaseSound, TypeOK, Used
  <2>2. /\ LogSound(addr)' /\ Len(flash'[addr].log) = n + 1
        /\ \A i \in 0 .. n : EndAt(flash'[addr].log, i) = EndAt(log, i)
    BY <1>1, <1>2, <2>1, EntryKeepsLogSound
  <2>3. /\ flash' \in [Sectors -> [magic : BOOLEAN, seq : Nat, count : Nat, log : Seq(Entry)]]
        /\ flash'[addr].magic = flash[addr].magic /\ flash'[addr].count = n
        /\ \A t \in Sectors \ {addr} : flash'[t] = flash[t]
    BY <1>1, <1>2, <2>1, EntryEffect
  <2>4. TypeOK'
    BY <1>1, <1>3, <2>3 DEF TypeOK, PutProgram, ram, Phases
  <2>5. \A s \in Sectors : flash'[s].magic => LogSound(s)'
    <3> TAKE s \in Sectors
    <3>1. CASE s = addr
      BY <3>1, <1>1, <2>2
    <3>2. CASE s # addr
      BY <3>2, <2>3, UntouchedLog DEF LogInv
    <3> QED BY <3>1, <3>2
  <2>6. Used' = EndAt(log, n)
    <3>1. Used' = EndAt(flash'[addr].log, n)
      BY <1>3, <2>3 DEF Used, PutProgram, ram
    <3>2. n \in 0 .. n
      BY <1>2
    <3> QED BY <2>2, <3>1, <3>2
  <2>7. PhaseSound'
    BY <1>1, <1>3, <2>1, <2>2, <2>3, <2>6
    DEF PhaseSound, PutProgram, ram, Limit
  <2>8. CountSound'
    BY <1>1, <1>3, <2>3 DEF LogInv, CountSound, PutProgram
  <2> QED BY <2>4, <2>5, <2>7, <2>8 DEF LogInv
<1>4. CASE PutCount
  <2>1. /\ pc = "count" /\ pc' = "idle" /\ Len(log) = n + 1 /\ EndAt(log, n) <= Limit
        /\ ProgramHeader(addr, flash[addr].seq, n + 1) /\ flash[addr].seq \in Nat
    BY <1>1, <1>4, SectorType DEF PutCount, PhaseSound, Used
  <2>2. /\ flash' \in [Sectors -> [magic : BOOLEAN, seq : Nat, count : Nat, log : Seq(Entry)]]
        /\ flash'[addr].magic /\ flash'[addr].count = Counts(n + 1) /\ flash'[addr].log = log
        /\ \A t \in Sectors \ {addr} : flash'[t] = flash[t]
    <3>1. CountsAllowed(n, n + 1) /\ n + 1 \in Nat
      BY <1>1, <1>2 DEF CountsAllowed, LogInv, CountSound
    <3> QED BY <1>1, <1>2, <2>1, <3>1, HeaderEffect
  <2>3. TypeOK'
    BY <1>1, <1>4, <2>2 DEF TypeOK, PutCount, ram, Phases
  <2>4. \A i \in 1 .. n : EndAt(log, i) <= Limit
    BY <1>1, <1>2, <2>1 DEF LogSound
  <2>5. LogSound(addr)'
    <3>1. \A i \in 1 .. Len(log) : log[i].at = EndAt(log, i - 1)
      BY <1>1 DEF LogSound
    <3>2. flash'[addr].count \in 0 .. n + 1 /\ flash'[addr].log = log
      BY <1>2, <2>2 DEF Counts
    <3>3. /\ flash'[addr].count <= Len(log)
          /\ \A i \in 1 .. flash'[addr].count - 1 : EndAt(log, i) <= Limit
      BY <1>2, <2>1, <2>4, <3>2
    <3> QED BY <1>1, <3>1, <3>2, <3>3 DEF LogSound, EndAt
  <2>6. \A s \in Sectors : flash'[s].magic => LogSound(s)'
    <3> TAKE s \in Sectors
    <3>1. CASE s = addr
      BY <3>1, <1>1, <2>5
    <3>2. CASE s # addr
      BY <3>2, <2>2, UntouchedLog DEF LogInv
    <3> QED BY <3>1, <3>2
  <2>7. PhaseSound'
    BY <1>1, <1>4, <2>2 DEF PhaseSound, PutCount, ram
  <2>8. CountSound'
    BY <1>1, <1>4, <2>2 DEF LogInv, CountSound, PutCount, Counts
  <2> QED BY <2>3, <2>6, <2>7, <2>8 DEF LogInv
<1>5. CASE CompactCopy
  <2> DEFINE e == [saved[copied + 1] EXCEPT !.at = WriteOffset]
  <2>13. ~NorDevice
    BY <1>5, CopiesOnlyCounted
  <2>1. /\ pc = "compact_copy" /\ pc' = "compact_copy" /\ n = 0
        /\ copied = Len(log) /\ copied \in 0 .. Len(log)
        /\ copied + 1 \in 1 .. Len(saved) /\ saved \in Seq(Entry)
        /\ WriteOffset + EntrySize(saved[copied + 1].key, saved[copied + 1].val) <= Limit
        /\ ProgramEntry(addr, copied, e) /\ copied' = copied + 1
        /\ \A i \in 1 .. copied : EndAt(log, i) <= Limit
    BY <1>1, <1>2, <1>5 DEF CompactCopy, MoreToCopy, PhaseSound, TypeOK, ram
  <2>2. saved[copied + 1] \in Entry /\ WriteOffset \in Nat /\ WriteOffset = EndAt(log, copied)
    BY <2>1, <1>2, ElementOfSeq, EndAtType DEF WriteOffset
  <2>3. /\ e \in Entry /\ e.at = EndAt(log, copied)
        /\ e.key = saved[copied + 1].key /\ e.val = saved[copied + 1].val
    BY <2>2 DEF Entry
  <2> HIDE DEF e
  <2>4. /\ LogSound(addr)' /\ Len(flash'[addr].log) = copied + 1
        /\ \A i \in 0 .. copied : EndAt(flash'[addr].log, i) = EndAt(log, i)
        /\ flash'[addr].log[copied + 1] = e
    <3>1. flash[addr].count <= copied /\ copied \in 0 .. Len(log)
      BY <1>2, <2>1
    <3>2. ProgramEntry(addr, copied, e) /\ e \in Entry /\ e.at = EndAt(log, copied)
      BY <2>1, <2>3
    <3> QED BY <1>1, <1>2, <2>13, <3>1, <3>2, EntryKeepsLogSound
  <2>5. EndAt(flash'[addr].log, copied + 1) <= Limit
    BY <2>1, <2>2, <2>3, <2>4 DEF EndAt
  <2>6. /\ flash' \in [Sectors -> [magic : BOOLEAN, seq : Nat, count : Nat, log : Seq(Entry)]]
        /\ flash'[addr].magic = flash[addr].magic /\ flash'[addr].count = n
        /\ \A t \in Sectors \ {addr} : flash'[t] = flash[t]
    BY <1>1, <1>2, <2>1, <2>3, EntryEffect
  <2>7. TypeOK'
    <3>1. copied' \in Nat
      BY <2>1
    <3>2. UNCHANGED <<seq, addr, initialized, pc, scan, best, cur, saved>>
      BY <1>5 DEF CompactCopy, ram
    <3> QED BY <1>1, <2>6, <3>1, <3>2 DEF TypeOK
  <2>8. \A s \in Sectors : flash'[s].magic => LogSound(s)'
    <3> TAKE s \in Sectors
    <3>1. CASE s = addr
      BY <3>1, <1>1, <2>4
    <3>2. CASE s # addr
      BY <3>2, <2>6, UntouchedLog DEF LogInv
    <3> QED BY <3>1, <3>2
  <2>9. \A i \in 1 .. copied' : EndAt(flash'[addr].log, i) <= Limit
    <3> TAKE i \in 1 .. copied'
    <3>1. CASE i = copied + 1
      BY <3>1, <2>5
    <3>2. CASE i \in 1 .. copied
      BY <3>2, <2>1, <2>4
    <3> QED BY <3>1, <3>2, <2>1
  <2>10. /\ pc' = "compact_copy" /\ flash'[addr'].magic /\ flash'[addr'].count = 0
         /\ copied' = Len(flash'[addr'].log) /\ initialized'
    BY <1>1, <2>1, <2>4, <2>6
  <2>11. \A i \in 1 .. copied' : (EndAt(flash[addr].log, i) <= Limit)'
    BY <1>1, <2>9 DEF EndAt, Limit, EntrySize, Align4
  <2>12. PhaseSound'
    BY <2>10, <2>11 DEF PhaseSound
  <2>14. CountSound'
    BY <2>13 DEF CountSound
  <2> QED BY <2>7, <2>8, <2>12, <2>14 DEF LogInv
<1>6. CASE CompactCount
  <2>1. /\ pc = "compact_copy" /\ pc' = "program" /\ n = 0
        /\ copied = Len(log) /\ seq \in Nat
        /\ ProgramHeader(addr, seq, copied)
        /\ \A i \in 1 .. copied : EndAt(log, i) <= Limit
        /\ cur' = [cur EXCEPT !.at = EndAt(log, copied)]
    BY <1>1, <1>2, <1>6 DEF CompactCount, PhaseSound, TypeOK, WriteOffset
  <2>2. /\ flash' \in [Sectors -> [magic : BOOLEAN, seq : Nat, count : Nat, log : Seq(Entry)]]
        /\ flash'[addr].magic /\ flash'[addr].count = copied /\ flash'[addr].log = log
        /\ \A t \in Sectors \ {addr} : flash'[t] = flash[t]
    <3>1. CountsAllowed(flash[addr].count, copied) /\ Counts(copied) = copied
      BY <2>1 DEF CountsAllowed, Counts, LogInv, CountSound
    <3>2. copied \in Nat
      BY <1>2, <2>1
    <3> QED BY <1>1, <1>2, <2>1, <3>1, <3>2, HeaderEffect
  <2>3. EndAt(log, copied) \in Nat /\ EndAt(log, copied) <= Limit
    <3>1. EndAt(log, copied) \in Nat
      BY <1>2, <2>1, EndAtType
    <3>2. CASE copied = 0
      BY <3>1, <3>2, SizeAssumption DEF EndAt, Limit
    <3>3. CASE copied # 0
      BY <3>1, <3>3, <1>2, <2>1
    <3> QED BY <3>1, <3>2, <3>3
  <2>4. cur' \in Entry /\ cur'.at = EndAt(log, copied)
    BY <1>1, <2>1, <2>3 DEF TypeOK, Entry
  <2>5. TypeOK'
    BY <1>1, <1>6, <2>2, <2>4 DEF TypeOK, CompactCount, ram, Phases
  <2>6. LogSound(addr)'
    BY <1>1, <1>2, <2>1, <2>2 DEF LogSound, EndAt
  <2>7. \A s \in Sectors : flash'[s].magic => LogSound(s)'
    <3> TAKE s \in Sectors
    <3>1. CASE s = addr
      BY <3>1, <1>1, <2>6
    <3>2. CASE s # addr
      BY <3>2, <2>2, UntouchedLog DEF LogInv
    <3> QED BY <3>1, <3>2
  <2>8. Used' = EndAt(log, copied)
    BY <1>1, <2>2 DEF Used, EndAt
  <2>9. PhaseSound'
    BY <1>1, <1>6, <2>1, <2>2, <2>3, <2>4, <2>8 DEF PhaseSound, CompactCount, ram, Limit
  <2>10. CountSound'
    BY <1>6, <1>1, <2>2 DEF LogInv, CountSound, CompactCount
  <2> QED BY <2>5, <2>7, <2>9, <2>10 DEF LogInv
<1> QED BY <1>3, <1>4, <1>5, <1>6

(* The first invariant holds of every behaviour of the store. *)
LEMMA LogInvInvariant == Spec => []LogInv
<1>1. LogInv /\ [Next]_vars => LogInv'
  <2> SUFFICES ASSUME LogInv, [Next]_vars
               PROVE  LogInv'
    OBVIOUS
  <2>1. CASE UNCHANGED vars
    BY <2>1, LogInvRamSteps
  <2>2. CASE Step
    BY <2>2, LogInvRamSteps, LogInvFormat, LogInvWrite DEF Step
  <2>3. CASE \E k \in Keys, v \in Values : Put(k, v)
    BY <2>3, LogInvRamSteps
  <2>4. CASE \E k \in Keys : Del(k)
    BY <2>4, LogInvRamSteps, SizeAssumption DEF Del
  <2>5. CASE PowerLoss
    BY <2>5, LogInvRamSteps
  <2> QED BY <2>1, <2>2, <2>3, <2>4, <2>5 DEF Next
<1> QED BY <1>1, LogInvInit, PTL DEF Spec

-----------------------------------------------------------------------------
(***************************************************************************)
(* Type correctness of the store, flash_store.h.                           *)
(***************************************************************************)
THEOREM TypeCorrect == Spec => []TypeOK
<1>1. LogInv => TypeOK
  BY DEF LogInv
<1> QED BY <1>1, LogInvInvariant, PTL

LEMMA LogInvImpliesPadded == LogInv => PaddedWriteInSector
<1> SUFFICES ASSUME LogInv PROVE PaddedWriteInSector
  OBVIOUS
<1>1. TypeOK /\ PhaseSound /\ PageSize \in Nat /\ SectorSize \in Nat
  BY SizeAssumption DEF LogInv
<1>2. ASSUME pc = "program"
      PROVE  cur.at + PageSize <= SectorSize
  <2>1. cur.at \in Nat /\ cur.at <= Limit
    BY <1>1, <1>2 DEF TypeOK, Entry, PhaseSound
  <2> QED BY <1>1, <2>1 DEF Limit
<1>3. ASSUME pc = "compact_copy", MoreToCopy
      PROVE  WriteOffset + PageSize <= SectorSize
  <2>1. /\ addr \in Sectors /\ flash[addr].magic /\ copied = Len(flash[addr].log)
        /\ saved \in Seq(Entry) /\ copied \in Nat
    BY <1>1, <1>3 DEF TypeOK, PhaseSound
  <2>2. WriteOffset \in Nat
    BY <1>1, <2>1, SectorType, EndAtType DEF WriteOffset
  <2>3. saved[copied + 1] \in Entry
    BY <1>3, <2>1, ElementOfSeq DEF MoreToCopy
  <2>4. EntrySize(saved[copied + 1].key, saved[copied + 1].val) \in Nat
    BY <2>3, EntrySizeType DEF Entry
  <2> QED BY <1>1, <1>3, <2>2, <2>4 DEF MoreToCopy, Limit
<1> QED BY <1>2, <1>3 DEF PaddedWriteInSector

(***************************************************************************)
(* A page programmed by a put or by the copy loop of a compaction stays in *)
(* the active sector, for every sector, page and entry size.               *)
(***************************************************************************)
THEOREM WritesStayInSector == Spec => []PaddedWriteInSector
BY LogInvInvariant, LogInvImpliesPadded, PTL

(***************************************************************************)
(* Entries are written where the scans look for them, and the logs have no *)
(* holes.                                                                  *)
(***************************************************************************)
THEOREM WritesFollowLog == Spec => []WriteFollowsLog
<1>1. LogInv => WriteFollowsLog
  BY DEF LogInv, PhaseSound, LogSound, WriteFollowsLog
<1> QED BY <1>1, LogInvInvariant, PTL

(***************************************************************************)
(* Only the last entry of a log reaches into the page kept in reserve.     *)
(***************************************************************************)
THEOREM OnlyLastReachesReserve == Spec => []OnlyLastPastLimit
<1>1. LogInv => OnlyLastPastLimit
  BY DEF LogInv, LogSound, OnlyLastPastLimit
<1> QED BY <1>1, LogInvInvariant, PTL

(***************************************************************************)
(* On a device that only clears bits nothing is counted: what is put is    *)
(* never found, all entries go to one aligned page, and no compaction      *)
(* copies anything.  It is what flash_nor shows on an instance, for every  *)
(* one.                                                                    *)
(***************************************************************************)
THEOREM NorCountsNothing == Spec => []NothingCounted
<1>1. LogInv => NothingCounted
  <2> SUFFICES ASSUME LogInv, NorDevice
               PROVE  /\ \A s \in Sectors : flash[s].magic => flash[s].count = 0
                      /\ pc = "program" => cur.at = PageSize
                      /\ pc = "compact_copy" => ~MoreToCopy
                      /\ initialized /\ pc # "compact_header" => \A k \in Keys : ~Found(k)
    BY DEF NothingCounted
  <2>1. /\ \A s \in Sectors : flash[s].magic => flash[s].count = 0
        /\ saved = <<>> /\ copied = 0 /\ TypeOK /\ PhaseSound /\ addr \in Sectors
    BY DEF LogInv, CountSound, TypeOK
  <2>2. ASSUME pc = "program" PROVE cur.at = PageSize
    <3>1. initialized /\ flash[addr].magic /\ cur.at = Used
      BY <2>1, <2>2 DEF PhaseSound
    <3> QED BY <2>1, <3>1 DEF Used, EndAt
  <2>3. ~MoreToCopy
    <3>1. Len(<<>>) = 0
      OBVIOUS
    <3> QED BY <2>1, <3>1 DEF MoreToCopy
  <2>4. ASSUME initialized, pc # "compact_header", NEW k \in Keys PROVE ~Found(k)
    <3>1. flash[addr].magic /\ flash[addr].count = 0 /\ flash[addr].log \in Seq(Entry)
      BY <2>1, <2>4, SectorType DEF PhaseSound
    <3>2. Committed(addr) = <<>>
      BY <3>1, SubSeqEmpty DEF Committed
    <3>3. 1 .. Len(<<>>) = {}
      OBVIOUS
    <3> QED BY <3>2, <3>3 DEF Found, Matches
  <2> QED BY <2>1, <2>2, <2>3, <2>4
<1> QED BY <1>1, LogInvInvariant, PTL

-----------------------------------------------------------------------------
(* Sequence numbers below half of their range compare as numbers do. *)
LEMMA NewerIsGreater ==
  ASSUME MaxSeq < SeqWrap \div 2, NEW q \in 1 .. MaxSeq,
         best \in [found : BOOLEAN, seq : Nat, addr : Sectors],
         best.found, best.seq \in 1 .. MaxSeq
  PROVE  Newer(q) <=> q > best.seq
<1>1. ASSUME q > best.seq
      PROVE  (q - best.seq) % SeqWrap < SeqWrap \div 2
  <2>1. q - best.seq \in 0 .. SeqWrap - 1 /\ q - best.seq < SeqWrap \div 2
    BY <1>1, RingAssumption
  <2>2. (q - best.seq) % SeqWrap = q - best.seq
    BY <2>1, RingAssumption
  <2> QED BY <2>1, <2>2
<1> QED BY <1>1 DEF Newer

LEMMA SeqInvInit == Init => SeqInv
BY RingAssumption DEF Init, SeqInv, ActiveIsNewest, Erased

(* The steps of flash_store_init. *)
LEMMA SeqInvBoot ==
  ASSUME 1 <= MaxSeq, MaxSeq < SeqWrap \div 2, LogInv, SeqInv,
         InitBegin \/ ScanSector \/ ScanFound \/ ScanEmpty \/ FormatHeader
  PROVE  SeqInv'
<1>1. TypeOK /\ PhaseSound
  BY DEF LogInv
<1>2. CASE InitBegin
  BY <1>1, <1>2 DEF SeqInv, ActiveIsNewest, InitBegin, ram, PhaseSound, NothingFound, Sectors
<1>3. CASE ScanSector
  <2>1. /\ flash' = flash /\ pc = "scan" /\ pc' = "scan" /\ scan' = scan + 1
        /\ ~initialized /\ ~initialized' /\ scan \in Sectors /\ scan \in Nat
    BY <1>1, <1>3, RingAssumption DEF ScanSector, ram, PhaseSound, TypeOK, Sectors
  <2>2. \A s \in Sectors : s < scan' <=> s < scan \/ s = scan
    BY <2>1 DEF Sectors
  <2>3. best \in [found : BOOLEAN, seq : Nat, addr : Sectors]
    BY <1>1 DEF TypeOK
  <2>4. best.found => /\ best.addr < scan /\ flash[best.addr].magic
                      /\ flash[best.addr].seq = best.seq
                      /\ best.seq \in 1 .. MaxSeq
    BY <1>1, <2>1, <2>3 DEF SeqInv, PhaseSound
  <2>5. CASE flash[scan].magic /\ Newer(flash[scan].seq)
    <3>1. best' = [found |-> TRUE, seq |-> flash[scan].seq, addr |-> scan]
      BY <1>3, <2>5 DEF ScanSector
    <3>2. \A s \in Sectors : s < scan /\ flash[s].magic => flash[s].seq < flash[scan].seq
      <4>1. CASE ~best.found
        BY <4>1, <2>1 DEF SeqInv
      <4>2. CASE best.found
        <5>1. flash[scan].seq \in 1 .. MaxSeq /\ flash[scan].seq > best.seq
          BY <4>2, <2>1, <2>3, <2>4, <2>5, NewerIsGreater DEF SeqInv
        <5>2. \A s \in Sectors : s < scan /\ flash[s].magic => flash[s].seq <= best.seq
          BY <4>2, <2>1, <2>4 DEF SeqInv
        <5>3. \A s \in Sectors : flash[s].magic => flash[s].seq \in Nat
          BY SectorType, <1>1
        <5> QED BY <2>3, <5>1, <5>2, <5>3
      <4> QED BY <4>1, <4>2
    <3>3. scan < scan'
      BY <2>1
    <3> QED BY <2>1, <2>2, <3>1, <3>2, <3>3 DEF SeqInv, ActiveIsNewest
  <2>6. CASE ~(flash[scan].magic /\ Newer(flash[scan].seq))
    <3>1. best' = best
      BY <1>3, <2>6 DEF ScanSector
    <3>2. CASE ~best.found
      <4>1. ~flash[scan].magic
        BY <2>6, <3>2 DEF Newer
      <4> QED BY <2>1, <2>2, <3>1, <3>2, <4>1 DEF SeqInv, ActiveIsNewest
    <3>3. CASE best.found
      <4>1. flash[scan].magic => flash[scan].seq < best.seq
        <5>1. SUFFICES ASSUME flash[scan].magic PROVE flash[scan].seq < best.seq
          OBVIOUS
        <5>2. flash[scan].seq \in 1 .. MaxSeq
          BY <2>1, <5>1 DEF SeqInv
        <5>3. ~(flash[scan].seq > best.seq)
          BY <2>3, <2>4, <2>6, <3>3, <5>1, <5>2, NewerIsGreater
        <5>4. flash[scan].seq # best.seq
          <6>1. best.addr \in Sectors /\ best.addr # scan
            BY <2>1, <2>3, <2>4, <3>3 DEF Sectors
          <6> QED BY <2>1, <2>4, <3>3, <5>1, <6>1 DEF SeqInv
        <5> QED BY <2>3, <5>2, <5>3, <5>4
      <4>2. best.addr < scan'
        BY <2>1, <2>3, <2>4, <3>3 DEF Sectors
      <4> QED BY <2>1, <2>2, <2>4, <3>1, <3>3, <4>1, <4>2 DEF SeqInv, ActiveIsNewest
    <3> QED BY <3>2, <3>3
  <2> QED BY <2>5, <2>6
<1>4. CASE ScanFound
  <2>1. \A s \in Sectors : s < scan
    BY <1>4, RingAssumption DEF ScanFound, Sectors
  <2>2. /\ best.found /\ flash[best.addr].magic /\ best.addr \in Sectors
        /\ flash[best.addr].seq = best.seq
        /\ \A s \in Sectors \ {best.addr} : flash[s].magic => flash[s].seq < best.seq
    BY <1>1, <1>4, <2>1 DEF ScanFound, SeqInv, PhaseSound, TypeOK
  <2> QED BY <1>4, <2>2 DEF ScanFound, SeqInv, ActiveIsNewest
<1>5. CASE ScanEmpty
  <2>1. \A s \in Sectors : ~flash[s].magic
    BY <1>1, <1>5, RingAssumption DEF ScanEmpty, Sectors, SeqInv
  <2>2. flash'[0] = Erased /\ \A t \in Sectors \ {0} : flash'[t] = flash[t]
    BY <1>1, <1>5, EraseEffect, ZeroSector DEF ScanEmpty
  <2>3. \A s \in Sectors : ~flash'[s].magic
    BY <2>1, <2>2 DEF Erased
  <2>4. pc' = "format_header" /\ seq' = 1 /\ ~initialized'
    BY <1>1, <1>5 DEF ScanEmpty, PhaseSound
  <2> QED BY <2>3, <2>4 DEF SeqInv, ActiveIsNewest
<1>6. CASE FormatHeader
  <2>1. seq = 1 /\ addr' = addr /\ seq' = seq /\ pc' = "idle" /\ initialized' /\ addr \in Sectors
    BY <1>1, <1>6 DEF FormatHeader, SeqInv, TypeOK
  <2>2. /\ flash'[addr].magic /\ flash'[addr].seq = 1
        /\ \A t \in Sectors \ {addr} : flash'[t] = flash[t]
    <3>1. CountsAllowed(flash[addr].count, 0) /\ seq \in Nat
      BY <1>1, <1>6, <2>1 DEF CountsAllowed, Erased, PhaseSound, FormatHeader
    <3> QED BY <1>1, <1>6, <2>1, <3>1, HeaderEffect DEF FormatHeader
  <2>3. \A t \in Sectors \ {addr} : ~flash'[t].magic
    BY <1>6, <2>2 DEF FormatHeader, SeqInv
  <2> QED BY <2>1, <2>2, <2>3, RingAssumption DEF SeqInv, ActiveIsNewest
<1> QED BY <1>2, <1>3, <1>4, <1>5, <1>6

(* Erasing a sector for a compaction, and writing its header. *)
LEMMA SeqInvCompact ==
  ASSUME 1 <= MaxSeq, MaxSeq < SeqWrap \div 2, LogInv, SeqInv,
         CompactErase \/ CompactHeader
  PROVE  SeqInv'
<1>1. TypeOK /\ PhaseSound /\ initialized
  BY DEF LogInv, CompactErase, CompactHeader, PhaseSound
<1>2. CASE CompactErase
  <2>1. /\ addr' \in Sectors /\ addr \in Sectors /\ pc = "compact"
        /\ pc' = "compact_header" /\ initialized'
    BY <1>1, <1>2, RingAssumption DEF TypeOK, CompactErase, NextSector, Sectors
  <2>2. flash'[addr'] = Erased /\ \A t \in Sectors \ {addr'} : flash'[t] = flash[t]
    BY <1>1, <1>2, <2>1, EraseEffect DEF CompactErase
  <2>3. seq \in 1 .. MaxSeq /\ seq < MaxSeq
    BY <1>1, <2>1 DEF SeqInv
  <2>4. seq' = seq + 1
    <3>1. seq + 1 \in 0 .. SeqWrap - 1
      BY <2>3, RingAssumption
    <3> QED BY <1>2, <3>1, RingAssumption DEF CompactErase
  <2>5. \A s \in Sectors : flash[s].magic => flash[s].seq \in 1 .. seq
    BY <1>1, <2>1, <2>3 DEF SeqInv, ActiveIsNewest
  <2>6. \A s \in Sectors : flash'[s].magic =>
           s # addr' /\ flash'[s] = flash[s] /\ flash'[s].seq \in 1 .. seq
    BY <2>2, <2>5 DEF Erased
  <2>7. \A s \in Sectors : flash'[s].magic => flash'[s].seq < seq'
    BY <2>3, <2>4, <2>6
  <2>8. seq' \in 1 .. MaxSeq
    BY <2>3, <2>4, RingAssumption
  <2>9. \A s, t \in Sectors : flash'[s].magic /\ flash'[t].magic /\ s # t =>
          flash'[s].seq # flash'[t].seq
    BY <2>6 DEF SeqInv
  <2>10. \A s \in Sectors : flash'[s].magic => flash'[s].seq \in 1 .. MaxSeq
    BY <2>6 DEF SeqInv
  <2> QED BY <2>1, <2>7, <2>8, <2>9, <2>10 DEF SeqInv, ActiveIsNewest
<1>3. CASE CompactHeader
  <2>1. /\ addr \in Sectors /\ addr' = addr /\ seq' = seq /\ seq \in 1 .. MaxSeq
        /\ pc = "compact_header" /\ pc' = "compact_copy" /\ initialized'
    BY <1>1, <1>3 DEF CompactHeader, ram, TypeOK, SeqInv
  <2>2. /\ flash'[addr].magic /\ flash'[addr].seq = seq
        /\ \A t \in Sectors \ {addr} : flash'[t] = flash[t]
    <3>1. CountsAllowed(flash[addr].count, 0) /\ seq \in Nat
      BY <1>1, <2>1 DEF CountsAllowed, Erased, PhaseSound
    <3> QED BY <1>1, <1>3, <2>1, <3>1, HeaderEffect DEF CompactHeader
  <2>3. \A s \in Sectors \ {addr} : flash'[s].magic =>
          flash[s].magic /\ flash'[s].seq = flash[s].seq /\ flash'[s].seq < seq
    BY <2>1, <2>2 DEF SeqInv
  <2>4. \A s \in Sectors : flash'[s].magic => flash'[s].seq \in 1 .. MaxSeq
    BY <2>1, <2>2, <2>3 DEF SeqInv
  <2>5. \A s, t \in Sectors : flash'[s].magic /\ flash'[t].magic /\ s # t =>
          flash'[s].seq # flash'[t].seq
    BY <2>1, <2>2, <2>3 DEF SeqInv
  <2> QED BY <2>1, <2>2, <2>3, <2>4, <2>5 DEF SeqInv, ActiveIsNewest
<1> QED BY <1>2, <1>3

(* The steps that keep every magic and every sequence number. *)
LEMMA SeqInvSame ==
  ASSUME LogInv, SeqInv,
         \A s \in Sectors : flash'[s].magic = flash[s].magic /\ flash'[s].seq = flash[s].seq,
         addr' = addr, seq' = seq, initialized, initialized',
         pc \notin {"compact_header", "format_header", "scan"},
         pc' \notin {"compact_header", "format_header", "scan"},
         pc' = "compact" => seq < MaxSeq
  PROVE  SeqInv'
<1>1. addr \in Sectors
  BY DEF LogInv, TypeOK
<1> QED BY <1>1 DEF SeqInv, ActiveIsNewest

LEMMA SeqInvOthers ==
  ASSUME 1 <= MaxSeq, MaxSeq < SeqWrap \div 2, LogInv, SeqInv,
         \/ PutProgram \/ PutOverrun \/ PutCount \/ CompactCopy \/ CompactCount
         \/ \E k \in Keys, v \in Values : Put(k, v)
         \/ PowerLoss \/ UNCHANGED vars
  PROVE  SeqInv'
<1>1. TypeOK /\ PhaseSound /\ addr \in Sectors
  BY DEF LogInv, TypeOK
<1> DEFINE Kept == \A s \in Sectors : flash'[s].magic = flash[s].magic
                                      /\ flash'[s].seq = flash[s].seq
<1>2. CASE PutProgram
  <2>1. initialized /\ flash[addr].magic /\ LogSound(addr) /\ cur \in Entry
    BY <1>1, <1>2 DEF PutProgram, PhaseSound, LogInv, TypeOK
  <2>2. flash[addr].count \in 0 .. Len(flash[addr].log)
    BY <1>1, <2>1, SectorType DEF LogSound
  <2>3. Kept
    BY <1>1, <1>2, <2>1, <2>2, EntryEffect DEF PutProgram
  <2> QED BY <1>2, <2>1, <2>3, SeqInvSame DEF PutProgram, ram
<1>3. CASE PutCount
  <2>1. initialized /\ flash[addr].magic
    BY <1>1, <1>3 DEF PutCount, PhaseSound
  <2>2. flash[addr].seq \in Nat /\ flash[addr].count + 1 \in Nat
    BY <1>1, SectorType
  <2>3. ProgramHeader(addr, flash[addr].seq, flash[addr].count + 1)
    BY <1>3 DEF PutCount
  <2>4. /\ flash'[addr].magic /\ flash'[addr].seq = flash[addr].seq
        /\ \A t \in Sectors \ {addr} : flash'[t] = flash[t]
    <3>1. CountsAllowed(flash[addr].count, flash[addr].count + 1)
      BY <1>1, <2>1 DEF CountsAllowed, LogInv, CountSound
    <3> QED BY <1>1, <2>2, <2>3, <3>1, HeaderEffect
  <2>5. Kept
    <3> SUFFICES ASSUME NEW s \in Sectors
                 PROVE  flash'[s].magic = flash[s].magic /\ flash'[s].seq = flash[s].seq
      OBVIOUS
    <3>1. CASE s = addr
      BY ONLY <2>1, <2>4, <3>1
    <3>2. CASE s # addr
      BY ONLY <2>4, <3>2, s \in Sectors
    <3> QED BY <3>1, <3>2
  <2> QED BY <1>3, <2>1, <2>5, SeqInvSame DEF PutCount, ram
<1>4. CASE CompactCopy
  <2>1. /\ initialized /\ copied = Len(flash[addr].log) /\ copied \in Nat
        /\ saved \in Seq(Entry) /\ copied + 1 \in 1 .. Len(saved)
        /\ flash[addr].log \in Seq(Entry)
    BY <1>1, <1>4, SectorType DEF CompactCopy, MoreToCopy, PhaseSound, TypeOK
  <2>2. saved[copied + 1] \in Entry /\ WriteOffset \in Nat
    BY <2>1, ElementOfSeq, EndAtType DEF WriteOffset
  <2>3. [saved[copied + 1] EXCEPT !.at = WriteOffset] \in Entry
    BY <2>2 DEF Entry
  <2>4. Kept
    <3> DEFINE e == [saved[copied + 1] EXCEPT !.at = WriteOffset]
    <3>1. ProgramEntry(addr, copied, e) /\ e \in Entry /\ copied \in 0 .. Len(flash[addr].log)
      BY <1>4, <2>1, <2>3 DEF CompactCopy
    <3> HIDE DEF e
    <3> QED BY <1>1, <3>1, EntryEffect
  <2> QED BY <1>4, <2>1, <2>4, SeqInvSame DEF CompactCopy, ram
<1>5. CASE CompactCount
  <2>1. /\ initialized /\ flash[addr].magic /\ flash[addr].seq = seq
        /\ seq \in Nat /\ copied \in Nat
    BY <1>1, <1>5 DEF CompactCount, PhaseSound, SeqInv, ActiveIsNewest, TypeOK
  <2>2. ProgramHeader(addr, seq, copied)
    BY <1>5 DEF CompactCount
  <2>3. /\ flash'[addr].magic /\ flash'[addr].seq = seq
        /\ \A t \in Sectors \ {addr} : flash'[t] = flash[t]
    <3>1. CountsAllowed(flash[addr].count, copied)
      BY <1>1, <1>5 DEF CountsAllowed, LogInv, CountSound, PhaseSound, CompactCount
    <3> QED BY <1>1, <2>1, <2>2, <3>1, HeaderEffect
  <2>4. Kept
    <3> SUFFICES ASSUME NEW s \in Sectors
                 PROVE  flash'[s].magic = flash[s].magic /\ flash'[s].seq = flash[s].seq
      OBVIOUS
    <3>1. CASE s = addr
      BY ONLY <2>1, <2>3, <3>1
    <3>2. CASE s # addr
      BY ONLY <2>3, <3>2, s \in Sectors
    <3> QED BY <3>1, <3>2
  <2> QED BY <1>5, <2>1, <2>4, SeqInvSame DEF CompactCount, ram
<1>6. CASE PutOverrun
  BY <1>1, <1>6, SeqInvSame DEF PutOverrun, ram, PhaseSound
<1>7. ASSUME NEW k \in Keys, NEW v \in Values, Put(k, v)
      PROVE  SeqInv'
  BY <1>1, <1>7, SeqInvSame DEF Put, ram, PhaseSound
<1>8. CASE PowerLoss
  BY <1>8 DEF PowerLoss, ResetRam, SeqInv, ActiveIsNewest
<1>9. CASE UNCHANGED vars
  BY <1>9 DEF SeqInv, ActiveIsNewest, vars
<1> QED BY <1>2, <1>3, <1>4, <1>5, <1>6, <1>7, <1>8, <1>9

(***************************************************************************)
(* The sector in use is the one a reset would find, whatever the resets    *)
(* before: as long as the sequence numbers stay below half of their range, *)
(* flash_find_active and the compactions agree on the newest sector.       *)
(***************************************************************************)
THEOREM ActiveSectorIsNewest ==
  ASSUME 1 <= MaxSeq, MaxSeq < SeqWrap \div 2
  PROVE  Spec => []ActiveIsNewest
<1>1. LogInv /\ SeqInv /\ [Next]_vars => SeqInv'
  <2> SUFFICES ASSUME LogInv, SeqInv, [Next]_vars
               PROVE  SeqInv'
    OBVIOUS
  <2>1. CASE Step
    BY <2>1, SeqInvBoot, SeqInvCompact, SeqInvOthers DEF Step
  <2>2. CASE \E k \in Keys : Del(k)
    BY <2>2, SeqInvOthers, SizeAssumption DEF Del
  <2> QED BY <2>1, <2>2, SeqInvOthers DEF Next
<1>2. SeqInv => ActiveIsNewest
  BY DEF SeqInv
<1> QED BY <1>1, <1>2, SeqInvInit, LogInvInvariant, PTL DEF Spec

-----------------------------------------------------------------------------
(* The store and its history. *)

\* The sequence numbers stay below half of their range.
Wide == 1 <= MaxSeq /\ MaxSeq < SeqWrap \div 2

(***************************************************************************)
(* The store with its history is the store: every step is one of its own.  *)
(***************************************************************************)
LEMMA HistorySteps == [HStep]_<<vars, history>> => [Next]_vars
BY SizeAssumption DEF HStep, Acknowledge, EraseCounted, LossCounted, OtherStep,
   Next, Step, Del, vars

LEMMA HistoryInv ==
  ASSUME Wide
  PROVE  HSpec => [](LogInv /\ SeqInv)
<1>1. LogInv /\ SeqInv /\ [Next]_vars => SeqInv'
  <2> SUFFICES ASSUME LogInv, SeqInv, [Next]_vars PROVE SeqInv'  OBVIOUS
  <2>1. CASE Step
    BY <2>1, SeqInvBoot, SeqInvCompact, SeqInvOthers DEF Step, Wide
  <2>2. CASE \E k \in Keys : Del(k)
    BY <2>2, SeqInvOthers, SizeAssumption DEF Del, Wide
  <2>. QED  BY <2>1, <2>2, SeqInvOthers DEF Next, Wide
<1>2. HSpec => Spec
  <2>1. HInit => Init  BY DEF HInit
  <2>. QED  BY <2>1, HistorySteps, PTL DEF HSpec, Spec
<1>3. Spec => []LogInv  BY LogInvInvariant
<1>. QED  BY <1>1, <1>2, <1>3, SeqInvInit, PTL DEF Spec

-----------------------------------------------------------------------------
(* The newest sector. *)

IsNewest(s) ==
  flash[s].magic /\ \A t \in Sectors : flash[t].magic => flash[t].seq <= flash[s].seq

\* Where the ring has got to: the newest sector, or -1 before the first format.
InFront == IF ValidSectors = {} THEN -1 ELSE Newest

HasNewest == ValidSectors # {} => \E s \in Sectors : IsNewest(s)

(***************************************************************************)
(* There is one newest sector, since sequence numbers differ, and a reset  *)
(* finds its entries.                                                      *)
(***************************************************************************)
NewestIn(fl) ==
  CHOOSE s \in {t \in Sectors : fl[t].magic} :
    \A t \in {u \in Sectors : fl[u].magic} : fl[t].seq <= fl[s].seq

LEMMA OneNewest ==
  ASSUME NEW fl, \A t \in Sectors : fl[t].seq \in Nat,
         \A t, u \in Sectors : fl[t].magic /\ fl[u].magic /\ t # u => fl[t].seq # fl[u].seq,
         NEW s \in Sectors, fl[s].magic,
         \A t \in Sectors : fl[t].magic => fl[t].seq <= fl[s].seq
  PROVE  NewestIn(fl) = s
<1> DEFINE Valid == {t \in Sectors : fl[t].magic}
           Top(n) == n \in Valid /\ \A t \in Valid : fl[t].seq <= fl[n].seq
<1>1. Top(s)  OBVIOUS
<1>2. Top(NewestIn(fl))  BY <1>1 DEF NewestIn
<1>3. fl[NewestIn(fl)].seq = fl[s].seq  BY <1>1, <1>2
<1>. QED  BY <1>1, <1>2, <1>3

LEMMA NewestFound ==
  ASSUME LogInv, SeqInv, NEW s \in Sectors, IsNewest(s)
  PROVE  InFront = s /\ DurableEntries = Committed(s) /\ ValidSectors # {}
<1>1. \A t \in Sectors : flash[t].seq \in Nat  BY SectorType DEF LogInv
<1>2. NewestIn(flash) = s  BY <1>1, OneNewest DEF IsNewest, SeqInv
<1>3. Newest = NewestIn(flash)  BY DEF Newest, NewestIn, ValidSectors
<1>4. s \in ValidSectors  BY DEF IsNewest, ValidSectors
<1>. QED  BY <1>2, <1>3, <1>4 DEF InFront, DurableEntries

LEMMA NewestFoundNext ==
  ASSUME LogInv', SeqInv', NEW s \in Sectors, IsNewest(s)'
  PROVE  InFront' = s /\ DurableEntries' = Committed(s)'
<1>1. \A t \in Sectors : flash'[t].seq \in Nat  BY DEF LogInv, TypeOK
<1>2. /\ flash'[s].magic /\ \A t \in Sectors : flash'[t].magic => flash'[t].seq <= flash'[s].seq
  BY DEF IsNewest
<1>3. \A t, u \in Sectors : flash'[t].magic /\ flash'[u].magic /\ t # u
                            => flash'[t].seq # flash'[u].seq
  BY DEF SeqInv
<1>4. NewestIn(flash') = s  BY <1>1, <1>2, <1>3, OneNewest
<1>5. Newest' = NewestIn(flash')  BY DEF Newest, NewestIn, ValidSectors
<1>6. s \in ValidSectors'  BY <1>2 DEF ValidSectors
<1>7. InFront' = Newest' /\ DurableEntries' = Committed(Newest)'
  BY <1>6 DEF InFront, DurableEntries
<1>. QED  BY <1>4, <1>5, <1>7

(***************************************************************************)
(* Once the store is initialised the newest sector is the active one,      *)
(* except while a compaction has erased its new sector.                    *)
(***************************************************************************)
LEMMA ActiveNewest ==
  ASSUME LogInv, SeqInv, initialized, pc # "compact_header"
  PROVE  /\ addr \in Sectors /\ IsNewest(addr) /\ flash[addr].seq = seq
         /\ DurableEntries = Committed(addr) /\ InFront = addr
<1>1. addr \in Sectors /\ TypeOK  BY DEF LogInv, TypeOK
<1>2. /\ flash[addr].magic /\ flash[addr].seq = seq /\ seq \in Nat
      /\ \A t \in Sectors \ {addr} : flash[t].magic => flash[t].seq < seq
  BY <1>1 DEF SeqInv, ActiveIsNewest, TypeOK
<1>3. \A t \in Sectors : flash[t].seq \in Nat  BY <1>1, SectorType
<1>4. IsNewest(addr)  BY <1>1, <1>2, <1>3 DEF IsNewest
<1>. QED  BY <1>1, <1>2, <1>4, NewestFound

\* The sectors of the ring follow each other, and each has one predecessor.
LEMMA NextSectorType ==
  ASSUME NEW s \in Sectors
  PROVE  /\ NextSector(s) \in Sectors /\ NextSector(s) # s
         /\ \A t \in Sectors : NextSector(t) = NextSector(s) => t = s
         /\ NextSector(s) = IF s + 1 = NumSectors THEN 0 ELSE s + 1
BY RingAssumption DEF Sectors, NextSector

-----------------------------------------------------------------------------
(* What a compaction holds. *)

(***************************************************************************)
(* The sector a compaction reads: the one before the new sector, still     *)
(* valid, and entries[] is the prefix of what its header accounts for that *)
(* SFPK_MAX_ENTRIES allows.                                                *)
(***************************************************************************)
Source(s) ==
  /\ NextSector(s) = addr /\ flash[s].magic
  /\ \E n \in 0 .. flash[s].count :
       /\ saved = SubSeq(flash[s].log, 1, n)
       /\ n = flash[s].count \/ n = MaxEntries

(***************************************************************************)
(* Until its header is written the source is the newest sector; then the   *)
(* new one is, and it holds as much of entries[] as was copied.  The entry *)
(* a put wrote waits behind those that count.                              *)
(***************************************************************************)
CopyInv ==
  /\ HasNewest
  /\ pc \in {"compact_header", "compact_copy"} =>
       \E s \in Sectors \ {addr} : Source(s) /\ (pc = "compact_header" => IsNewest(s))
  /\ pc = "compact_copy" => copied <= Len(saved) /\ flash[addr].log = SubSeq(saved, 1, copied)
  /\ pc = "count" /\ ~NorDevice => flash[addr].log[flash[addr].count + 1] = cur
  /\ pc = "format_header" => addr = 0

LEMMA CopyInvInit == Init => CopyInv
BY DEF Init, CopyInv, HasNewest, ValidSectors, Erased

-----------------------------------------------------------------------------
(* Prefixes of a log. *)

LEMMA LogPrefix ==
  ASSUME NEW l \in Seq(Entry), NEW n \in 0 .. Len(l)
  PROVE  /\ SubSeq(l, 1, n) \in Seq(Entry) /\ Len(SubSeq(l, 1, n)) = n
         /\ \A i \in 1 .. n : SubSeq(l, 1, n)[i] = l[i]
<1>1. Len(l) \in Nat /\ \A i \in 1 .. n : l[i] \in Entry
  <2>1. Len(l) \in Nat  BY LenProperties
  <2>2. \A i \in 1 .. n : i \in 1 .. Len(l)  BY <2>1
  <2>. QED  BY <2>1, <2>2, ElementOfSeq
<1>2. n \in Int /\ 1 \in Int  BY <1>1
<1>3. /\ SubSeq(l, 1, n) \in Seq(Entry)
      /\ Len(SubSeq(l, 1, n)) = IF 1 <= n THEN n - 1 + 1 ELSE 0
      /\ \A i \in 1 .. n - 1 + 1 : SubSeq(l, 1, n)[i] = l[1 + i - 1]
  BY <1>1, <1>2, SubSeqProperties
<1>. QED  BY <1>1, <1>3

(***************************************************************************)
(* A page programmed after the first n entries leaves those.               *)
(***************************************************************************)
LEMMA PrefixOfAppend ==
  ASSUME NEW l \in Seq(Entry), NEW n \in 0 .. Len(l), NEW e \in Entry
  PROVE  SubSeq(Append(SubSeq(l, 1, n), e), 1, n) = SubSeq(l, 1, n)
<1> DEFINE p == SubSeq(l, 1, n)
           q == Append(p, e)
<1>1. p \in Seq(Entry) /\ Len(p) = n /\ n \in Nat  BY LogPrefix, LenProperties
<1> HIDE DEF p
<1>2. q \in Seq(Entry) /\ Len(q) = n + 1 /\ \A i \in 1 .. n : q[i] = p[i]
  BY <1>1, AppendProperties
<1>3. n \in 0 .. Len(q)  BY <1>1, <1>2
<1> HIDE DEF q
<1>4. /\ SubSeq(q, 1, n) \in Seq(Entry) /\ Len(SubSeq(q, 1, n)) = n
      /\ \A i \in 1 .. n : SubSeq(q, 1, n)[i] = q[i]
  BY <1>2, <1>3, LogPrefix
<1>5. SubSeq(q, 1, n) = p  BY <1>1, <1>2, <1>4, SeqEqual
<1>. QED  BY <1>5 DEF p, q

(***************************************************************************)
(* A prefix one entry longer is the prefix and that entry.                 *)
(***************************************************************************)
LEMMA PrefixGrows ==
  ASSUME NEW l \in Seq(Entry), NEW n \in Nat, n + 1 <= Len(l)
  PROVE  SubSeq(l, 1, n + 1) = Append(SubSeq(l, 1, n), l[n + 1])
<1>1. Len(l) \in Nat /\ n \in 0 .. Len(l) /\ n + 1 \in 0 .. Len(l) /\ n + 1 \in 1 .. Len(l)
  BY LenProperties
<1> DEFINE p == SubSeq(l, 1, n)
           q == SubSeq(l, 1, n + 1)
           r == Append(p, l[n + 1])
<1>2. l[n + 1] \in Entry  BY <1>1, ElementOfSeq
<1>3. p \in Seq(Entry) /\ Len(p) = n /\ \A i \in 1 .. n : p[i] = l[i]  BY <1>1, LogPrefix
<1>4. q \in Seq(Entry) /\ Len(q) = n + 1 /\ \A i \in 1 .. n + 1 : q[i] = l[i]
  BY <1>1, LogPrefix
<1> HIDE DEF p, q
<1>5. /\ r \in Seq(Entry) /\ Len(r) = n + 1 /\ r[n + 1] = l[n + 1]
      /\ \A i \in 1 .. n : r[i] = l[i]
  BY <1>2, <1>3, AppendProperties
<1> HIDE DEF r
<1>6. \A i \in 1 .. n + 1 : q[i] = r[i]  BY <1>4, <1>5
<1>7. q = r  BY <1>4, <1>5, <1>6, SeqEqual
<1>. QED  BY <1>7 DEF p, q, r

(***************************************************************************)
(* The whole log is a prefix of itself, and the shortest has no entry.     *)
(***************************************************************************)
LEMMA PrefixEnds ==
  ASSUME NEW l \in Seq(Entry)
  PROVE  SubSeq(l, 1, Len(l)) = l /\ SubSeq(l, 1, 0) = <<>>
BY SubSeqFull, SubSeqEmpty

(***************************************************************************)
(* A prefix of a prefix is a prefix.                                       *)
(***************************************************************************)
LEMMA PrefixOfPrefix ==
  ASSUME NEW l \in Seq(Entry), NEW m \in 0 .. Len(l), NEW n \in 0 .. m
  PROVE  SubSeq(SubSeq(l, 1, m), 1, n) = SubSeq(l, 1, n)
<1> DEFINE p == SubSeq(l, 1, m)
           q == SubSeq(p, 1, n)
           r == SubSeq(l, 1, n)
<1>1. m \in Nat /\ n \in Nat /\ n \in 0 .. Len(l)  BY LenProperties
<1>2. p \in Seq(Entry) /\ Len(p) = m /\ \A i \in 1 .. m : p[i] = l[i]  BY LogPrefix
<1>3. r \in Seq(Entry) /\ Len(r) = n /\ \A i \in 1 .. n : r[i] = l[i]  BY <1>1, LogPrefix
<1> HIDE DEF p, r
<1>4. q \in Seq(Entry) /\ Len(q) = n /\ \A i \in 1 .. n : q[i] = p[i]
  BY <1>1, <1>2, LogPrefix
<1> HIDE DEF q
<1>5. \A i \in 1 .. n : q[i] = r[i]  BY <1>1, <1>2, <1>3, <1>4
<1>6. q = r  BY <1>3, <1>4, <1>5, SeqEqual
<1>. QED  BY <1>6 DEF p, q, r

-----------------------------------------------------------------------------
(* The effect of each step on the entries a reset would find, and on the   *)
(* place the ring has got to.                                              *)

Known == LogInv /\ SeqInv /\ CopyInv

Quiet == DurableEntries' = DurableEntries /\ InFront' = InFront

\* A sound log accounts for entries it holds.
LEMMA CommittedType ==
  ASSUME LogInv, NEW s \in Sectors, flash[s].magic
  PROVE  /\ flash[s].log \in Seq(Entry) /\ flash[s].count \in 0 .. Len(flash[s].log)
         /\ flash[s].count \in Nat /\ Len(flash[s].log) \in Nat
         /\ Committed(s) \in Seq(Entry) /\ Len(Committed(s)) = flash[s].count
<1>1. /\ flash[s].log \in Seq(Entry) /\ flash[s].count \in Nat /\ Len(flash[s].log) \in Nat
      /\ flash[s].count <= Len(flash[s].log)
  BY SectorType DEF LogInv, LogSound
<1>2. flash[s].count \in 0 .. Len(flash[s].log)  BY <1>1
<1>. QED  BY <1>1, <1>2, LogPrefix DEF Committed

(***************************************************************************)
(* The steps that leave the flash alone lose nothing: booting, a put that  *)
(* has only computed its offset, and a reset.                              *)
(***************************************************************************)
RamStep ==
  \/ InitBegin \/ ScanSector \/ ScanFound \/ PutOverrun \/ PowerLoss
  \/ \E k \in Keys, v \in Values : Put(k, v)
  \/ UNCHANGED vars

LEMMA RamEffect ==
  ASSUME Known, RamStep
  PROVE  Quiet /\ CopyInv'
<1>1. flash' = flash
  BY DEF RamStep, InitBegin, ScanSector, ScanFound, PutOverrun, PowerLoss, Put, vars
<1>2. ValidSectors' = ValidSectors  BY <1>1 DEF ValidSectors
<1>3. Newest' = Newest  BY <1>1, <1>2 DEF Newest
<1>4. Quiet
  <2>1. Committed(Newest)' = Committed(Newest)  BY <1>1, <1>3 DEF Committed
  <2>. QED  BY <1>2, <1>3, <2>1 DEF Quiet, DurableEntries, InFront
<1>5. HasNewest'  BY <1>1, <1>2 DEF Known, CopyInv, HasNewest, IsNewest
<1>6. CASE UNCHANGED vars
  <2>1. /\ pc' = pc /\ addr' = addr /\ saved' = saved /\ copied' = copied /\ cur' = cur
    BY <1>6 DEF vars
  <2>2. ASSUME pc \in {"compact_header", "compact_copy"}
        PROVE  (\E s \in Sectors \ {addr} : Source(s) /\ (pc = "compact_header" => IsNewest(s)))'
    <3>1. PICK s \in Sectors \ {addr} : Source(s) /\ (pc = "compact_header" => IsNewest(s))
      BY <2>2 DEF Known, CopyInv
    <3>2. s \in Sectors \ {addr'}  BY <2>1
    <3>3. Source(s)'  BY <1>1, <2>1, <3>1 DEF Source
    <3>4. pc' = "compact_header" => IsNewest(s)'  BY <1>1, <2>1, <3>1 DEF IsNewest
    <3>. QED  BY <3>2, <3>3, <3>4
  <2>3. (copied <= Len(saved) /\ flash[addr].log = SubSeq(saved, 1, copied))' <=>
        copied <= Len(saved) /\ flash[addr].log = SubSeq(saved, 1, copied)
    BY <1>1, <2>1
  <2>. QED  BY <1>1, <1>4, <1>5, <2>1, <2>2, <2>3 DEF Known, CopyInv
<1>7. CASE pc' \notin {"compact_header", "compact_copy", "count", "format_header"}
  BY <1>4, <1>5, <1>7 DEF CopyInv
<1>. QED
  BY <1>6, <1>7 DEF RamStep, InitBegin, ScanSector, ScanFound, PutOverrun, PowerLoss, Put

(***************************************************************************)
(* Formatting an empty store: nothing was there, and nothing is there      *)
(* while the first sector is erased and given its header.                  *)
(***************************************************************************)
LEMMA ScanEmptyEffect ==
  ASSUME Known, ScanEmpty
  PROVE  Quiet /\ InFront = -1 /\ addr' = 0 /\ CopyInv'
<1>1. TypeOK  BY DEF Known, LogInv
<1>2. \A s \in Sectors : ~flash[s].magic
  BY <1>1, RingAssumption DEF ScanEmpty, Sectors, Known, SeqInv
<1>3. flash'[0] = Erased /\ \A t \in Sectors \ {0} : flash'[t] = flash[t]
  BY <1>1, EraseEffect, ZeroSector DEF ScanEmpty
<1>4. \A s \in Sectors : ~flash'[s].magic  BY <1>2, <1>3 DEF Erased
<1>5. ValidSectors = {} /\ ValidSectors' = {}  BY <1>2, <1>4 DEF ValidSectors
<1>6. addr' = 0 /\ pc' = "format_header"  BY DEF ScanEmpty
<1>. QED  BY <1>5, <1>6 DEF Quiet, DurableEntries, InFront, CopyInv, HasNewest

LEMMA FormatHeaderEffect ==
  ASSUME Wide, Known, LogInv', SeqInv', FormatHeader
  PROVE  /\ DurableEntries = <<>> /\ DurableEntries' = <<>>
         /\ InFront = -1 /\ InFront' = 0 /\ addr = 0 /\ CopyInv'
<1>1. TypeOK /\ addr = 0 /\ seq = 1 /\ \A s \in Sectors : ~flash[s].magic
  BY DEF Known, LogInv, SeqInv, CopyInv, FormatHeader
<1>2. ValidSectors = {}  BY <1>1 DEF ValidSectors
<1>3. /\ flash'[0].magic /\ flash'[0].count = 0
      /\ \A t \in Sectors \ {0} : flash'[t] = flash[t]
  <2>1. CountsAllowed(flash[0].count, 0) /\ Counts(0) = 0 /\ ProgramHeader(0, 1, 0)
    BY <1>1 DEF CountsAllowed, Counts, Erased, Known, LogInv, PhaseSound, FormatHeader
  <2>. QED  BY <1>1, <2>1, HeaderEffect, ZeroSector
<1>4. flash'[0].seq \in Nat  BY ZeroSector DEF LogInv, TypeOK
<1>5. IsNewest(0)'  BY <1>1, <1>3, <1>4 DEF IsNewest
<1>6. InFront' = 0 /\ DurableEntries' = Committed(0)'  BY <1>5, NewestFoundNext, ZeroSector
<1>7. Committed(0)' = <<>>  BY <1>3, SubSeqEmpty DEF Committed
<1>8. HasNewest'  BY <1>5, ZeroSector DEF HasNewest
<1>9. pc' = "idle"  BY DEF FormatHeader
<1>. QED  BY <1>1, <1>2, <1>6, <1>7, <1>8, <1>9 DEF DurableEntries, InFront, CopyInv

(***************************************************************************)
(* Programming the page of an entry shows a reset nothing new: the header  *)
(* does not account for it yet.                                            *)
(***************************************************************************)
LEMMA PutProgramEffect ==
  ASSUME Known, LogInv', SeqInv', PutProgram
  PROVE  Quiet /\ CopyInv'
<1>1. /\ LogInv /\ SeqInv /\ TypeOK /\ pc = "program" /\ initialized /\ cur \in Entry
      /\ pc' = "count" /\ addr' = addr /\ cur' = cur
  BY DEF Known, LogInv, TypeOK, PhaseSound, PutProgram, ram
<1>2. /\ addr \in Sectors /\ IsNewest(addr) /\ DurableEntries = Committed(addr)
      /\ InFront = addr /\ flash[addr].magic
  BY <1>1, ActiveNewest DEF IsNewest
<1> DEFINE l == flash[addr].log
           n == flash[addr].count
<1>3. l \in Seq(Entry) /\ n \in 0 .. Len(l) /\ n \in Nat  BY <1>1, <1>2, CommittedType
<1>4. ProgramEntry(addr, n, cur)  BY DEF PutProgram
<1>5. /\ flash'[addr].magic = flash[addr].magic /\ flash'[addr].seq = flash[addr].seq
      /\ flash'[addr].count = n
      /\ \A t \in Sectors \ {addr} : flash'[t] = flash[t]
  BY <1>1, <1>2, <1>3, <1>4, EntryEffect
<1>11. PICK g \in Entry :
        (~NorDevice => g = cur) /\ flash'[addr].log = Append(SubSeq(l, 1, n), g)
  BY <1>1, <1>2, <1>3, <1>4, EntryEffect
<1>6. IsNewest(addr)'
  <2>1. \A t \in Sectors : flash'[t].magic = flash[t].magic /\ flash'[t].seq = flash[t].seq
    BY <1>5
  <2>2. flash'[addr].magic /\ \A t \in Sectors : flash'[t].magic => flash'[t].seq <= flash'[addr].seq
    BY <1>2, <2>1 DEF IsNewest
  <2>. QED  BY <1>1, <2>2 DEF IsNewest
<1>7. InFront' = addr /\ DurableEntries' = Committed(addr)'
  BY <1>1, <1>2, <1>6, NewestFoundNext
<1>8. Committed(addr)' = Committed(addr)
  BY <1>1, <1>3, <1>5, <1>11, PrefixOfAppend DEF Committed
<1>9. ~NorDevice => flash'[addr].log[n + 1] = cur
  BY <1>1, <1>3, <1>11, LogPrefix, AppendProperties
<1>10. HasNewest'  BY <1>1, <1>2, <1>6 DEF HasNewest
<1>. QED  BY <1>1, <1>2, <1>5, <1>7, <1>8, <1>9, <1>10 DEF Quiet, CopyInv

(***************************************************************************)
(* The count a put writes shows a reset one entry more, the one the put    *)
(* programmed, unless the device cannot count.                             *)
(***************************************************************************)
LEMMA PutCountEffect ==
  ASSUME Wide, Known, LogInv', SeqInv', PutCount
  PROVE  /\ DurableEntries \in Seq(Entry) /\ cur \in Entry
         /\ ~NorDevice => DurableEntries' = Append(DurableEntries, cur) /\ cur.at = Used
         /\ NorDevice => DurableEntries' = DurableEntries
         /\ Used <= Limit
         /\ InFront' = InFront /\ CopyInv'
<1>1. /\ LogInv /\ SeqInv /\ TypeOK /\ pc = "count" /\ initialized /\ cur \in Entry
      /\ pc' = "idle" /\ addr' = addr /\ Used <= Limit
      /\ Len(flash[addr].log) = flash[addr].count + 1
      /\ ~NorDevice => flash[addr].log[flash[addr].count + 1] = cur
      /\ NorDevice => (flash[addr].magic => flash[addr].count = 0)
  BY DEF Known, LogInv, TypeOK, PhaseSound, CountSound, PutCount, CopyInv, ram
<1>2. /\ addr \in Sectors /\ IsNewest(addr) /\ DurableEntries = Committed(addr)
      /\ InFront = addr /\ flash[addr].magic
  BY <1>1, ActiveNewest DEF IsNewest
<1> DEFINE l == flash[addr].log
           n == flash[addr].count
<1>3. l \in Seq(Entry) /\ n \in Nat /\ Committed(addr) \in Seq(Entry)
  BY <1>1, <1>2, CommittedType
<1>4. flash[addr].seq \in Nat  BY <1>1, <1>2, SectorType
<1>5. /\ flash'[addr].magic /\ flash'[addr].seq = flash[addr].seq
      /\ flash'[addr].count = Counts(n + 1) /\ flash'[addr].log = l
      /\ \A t \in Sectors \ {addr} : flash'[t] = flash[t]
  <2>1. ProgramHeader(addr, flash[addr].seq, n + 1) /\ n + 1 \in Nat  BY <1>3 DEF PutCount
  <2>2. CountsAllowed(flash[addr].count, n + 1)  BY <1>1, <1>2 DEF CountsAllowed
  <2>. QED  BY <1>1, <1>2, <1>4, <2>1, <2>2, HeaderEffect
<1>6. IsNewest(addr)'
  <2>1. \A t \in Sectors : (flash'[t].magic <=> flash[t].magic) /\ flash'[t].seq = flash[t].seq
    BY <1>2, <1>5
  <2>2. flash'[addr].magic /\ \A t \in Sectors : flash'[t].magic => flash'[t].seq <= flash'[addr].seq
    BY <1>2, <2>1 DEF IsNewest
  <2>. QED  BY <1>1, <2>2 DEF IsNewest
<1>7. InFront' = addr /\ DurableEntries' = Committed(addr)'
  BY <1>1, <1>2, <1>6, NewestFoundNext
<1>11. NorDevice => Committed(addr)' = Committed(addr)
  BY <1>1, <1>2, <1>5 DEF Committed, Counts
<1>8. ~NorDevice => Committed(addr)' = Append(Committed(addr), cur)
  <2> SUFFICES ASSUME ~NorDevice PROVE Committed(addr)' = Append(Committed(addr), cur)
    OBVIOUS
  <2>1. Committed(addr)' = SubSeq(l, 1, n + 1)  BY <1>1, <1>5 DEF Committed, Counts
  <2>2. n + 1 <= Len(l) /\ l[n + 1] = cur  BY <1>1, <1>3
  <2>. QED  BY <1>3, <2>1, <2>2, PrefixGrows DEF Committed
<1>9. HasNewest'  BY <1>1, <1>2, <1>6 DEF HasNewest
<1>10. ~NorDevice => cur.at = Used
  <2> SUFFICES ASSUME ~NorDevice PROVE cur.at = Used
    OBVIOUS
  <2>1. LogSound(addr) /\ n + 1 \in 1 .. Len(l) /\ (n + 1) - 1 = n
    <3>1. LogSound(addr)
      BY <1>1, <1>2 DEF LogInv
    <3>2. Len(l) = n + 1
      BY <1>1
    <3> HIDE DEF l, n
    <3> QED BY <1>3, <3>1, <3>2
  <2>2. l[n + 1].at = EndAt(l, (n + 1) - 1)  BY <2>1 DEF LogSound
  <2>. QED  BY <1>1, <2>1, <2>2 DEF Used
<1>. QED  BY <1>1, <1>2, <1>3, <1>7, <1>8, <1>9, <1>10, <1>11 DEF CopyInv

(***************************************************************************)
(* A compaction reads its entries and erases the next sector of the ring:  *)
(* the sector it read stays the one a reset would find.                    *)
(***************************************************************************)
LEMMA CompactEraseEffect ==
  ASSUME Known, LogInv', SeqInv', CompactErase
  PROVE  Quiet /\ InFront = addr /\ addr' = NextSector(InFront) /\ CopyInv'
<1>1. /\ LogInv /\ SeqInv /\ TypeOK /\ pc = "compact" /\ initialized
      /\ pc' = "compact_header" /\ addr' = NextSector(addr) /\ saved' = ToCopy
      /\ EraseSector(NextSector(addr))
  BY DEF Known, LogInv, PhaseSound, CompactErase
<1>2. /\ addr \in Sectors /\ IsNewest(addr) /\ DurableEntries = Committed(addr)
      /\ InFront = addr /\ flash[addr].magic
  BY <1>1, ActiveNewest DEF IsNewest
<1>3. NextSector(addr) \in Sectors /\ NextSector(addr) # addr  BY <1>2, NextSectorType
<1>4. /\ flash'[NextSector(addr)] = Erased
      /\ \A t \in Sectors \ {NextSector(addr)} : flash'[t] = flash[t]
  BY <1>1, <1>3, EraseEffect
<1>5. /\ flash'[addr] = flash[addr]
      /\ \A t \in Sectors : flash'[t].magic => flash'[t] = flash[t]
  BY <1>2, <1>3, <1>4 DEF Erased
<1>6. IsNewest(addr) <=> /\ flash[addr].magic
                         /\ \A t \in Sectors : flash[t].magic => flash[t].seq <= flash[addr].seq
  BY DEF IsNewest
<1>18. PICK s \in Sectors : s = addr  BY <1>2
<1>7. s \in Sectors \ {addr'} /\ NextSector(s) = addr'  BY <1>1, <1>2, <1>3, <1>18
<1>8. saved' = SubSeq(flash[s].log, 1, IF flash[s].count <= MaxEntries THEN flash[s].count
                                                                     ELSE MaxEntries)
  BY <1>1, <1>18 DEF ToCopy
<1>9. flash[s].count \in Nat  BY <1>1, <1>2, <1>18, CommittedType
<1>10. /\ flash'[s] = flash[s] /\ flash[s].magic
       /\ \A t \in Sectors : flash'[t].magic => flash'[t].seq <= flash'[s].seq
  BY <1>2, <1>5, <1>6, <1>18
<1>11. \E n \in 0 .. flash'[s].count :
        /\ saved' = SubSeq(flash'[s].log, 1, n)
        /\ n = flash'[s].count \/ n = MaxEntries
  <2>1. PICK m \in Nat : m = IF flash[s].count <= MaxEntries THEN flash[s].count
                                                            ELSE MaxEntries
    BY <1>9, SizeAssumption
  <2>2. m \in 0 .. flash[s].count  BY <2>1, <1>9, SizeAssumption
  <2>3. saved' = SubSeq(flash[s].log, 1, m)  BY <1>8, <2>1
  <2> QED BY <2>1, <2>2, <2>3, <1>10
<1>15. Committed(s) = SubSeq(flash[s].log, 1, flash[s].count)  BY DEF Committed
<1>16. InFront = s /\ DurableEntries = Committed(s)  BY <1>2, <1>18
<1>12. Source(s)' /\ IsNewest(s)'
  BY <1>7, <1>10, <1>11 DEF Source, IsNewest
<1>13. InFront' = s /\ DurableEntries' = Committed(s)'
  BY <1>7, <1>12, NewestFoundNext
<1>14. Committed(s)' = Committed(s)  BY <1>10, <1>15 DEF Committed
<1>17. HasNewest'  BY <1>7, <1>12 DEF HasNewest
<1>. QED  BY <1>1, <1>2, <1>7, <1>12, <1>13, <1>14, <1>16, <1>17 DEF Quiet, CopyInv

(***************************************************************************)
(* Its new header makes the next sector, still empty, the newest: until    *)
(* the count is written a reset finds nothing.                             *)
(***************************************************************************)
LEMMA CompactHeaderEffect ==
  ASSUME Wide, Known, LogInv', SeqInv', CompactHeader
  PROVE  /\ DurableEntries \in Seq(Entry)
         /\ \E n \in 0 .. Len(DurableEntries) : saved = SubSeq(DurableEntries, 1, n)
         /\ saved \in Seq(Entry) /\ saved' = saved
         /\ DurableEntries' = <<>>
         /\ InFront \in Sectors /\ addr = NextSector(InFront) /\ InFront' = addr
         /\ \A s \in Sectors : NextSector(s) = addr =>
              flash'[s] = flash[s] /\ Committed(s) = DurableEntries
         /\ CopyInv'
<1>1. /\ LogInv /\ SeqInv /\ TypeOK /\ pc = "compact_header" /\ initialized
      /\ pc' = "compact_copy" /\ addr' = addr /\ seq' = seq /\ saved' = saved /\ copied' = 0
      /\ addr \in Sectors /\ seq \in Nat /\ saved \in Seq(Entry) /\ flash[addr] = Erased
      /\ ProgramHeader(addr, seq, 0)
  BY DEF Known, LogInv, PhaseSound, CompactHeader, TypeOK, ram
<1>2. PICK s \in Sectors \ {addr} : Source(s) /\ IsNewest(s)  BY <1>1 DEF Known, CopyInv
<1>3. /\ flash'[addr].magic /\ flash'[addr].seq = seq /\ flash'[addr].count = 0
      /\ flash'[addr].log = flash[addr].log
      /\ \A t \in Sectors \ {addr} : flash'[t] = flash[t]
  <2>1. CountsAllowed(flash[addr].count, 0) /\ Counts(0) = 0
    BY <1>1 DEF CountsAllowed, Counts, Erased
  <2>. QED  BY <1>1, <2>1, HeaderEffect
<1>4. flash[addr].log = <<>>  BY <1>1 DEF Erased
<1>5. InFront = s /\ DurableEntries = Committed(s)  BY <1>1, <1>2, NewestFound
<1>6. /\ flash[s].magic /\ flash[s].log \in Seq(Entry) /\ flash[s].count \in 0 .. Len(flash[s].log)
      /\ Committed(s) \in Seq(Entry) /\ Len(Committed(s)) = flash[s].count /\ flash[s].count \in Nat
  BY <1>1, <1>2, CommittedType DEF Source
<1>7. PICK n \in 0 .. flash[s].count : saved = SubSeq(flash[s].log, 1, n)  BY <1>2 DEF Source
<1>8. saved = SubSeq(DurableEntries, 1, n) /\ n \in 0 .. Len(DurableEntries)
  BY <1>5, <1>6, <1>7, PrefixOfPrefix DEF Committed
<1>9. IsNewest(addr)'
  <2>1. \A t \in Sectors : flash[t].magic => flash[t].seq < seq
    BY <1>1 DEF SeqInv
  <2>2. \A t \in Sectors : flash[t].seq \in Nat  BY <1>1, SectorType
  <2>3. \A t \in Sectors : flash'[t].magic => flash'[t].seq <= flash'[addr].seq
    BY <1>1, <1>3, <2>1, <2>2
  <2>. QED  BY <1>1, <1>3, <2>3 DEF IsNewest
<1>10. InFront' = addr /\ DurableEntries' = Committed(addr)'
  BY <1>1, <1>9, NewestFoundNext
<1>11. Committed(addr)' = <<>>  BY <1>1, <1>3, SubSeqEmpty DEF Committed
<1>12. flash'[s] = flash[s] /\ s \in Sectors \ {addr'}  BY <1>1, <1>3
<1>13. Source(s)'  BY <1>1, <1>2, <1>12 DEF Source
<1>15. flash'[addr'].log = SubSeq(saved', 1, copied') /\ copied' <= Len(saved')
  BY <1>1, <1>3, <1>4, SubSeqEmpty, LenProperties
<1>16. HasNewest'  BY <1>1, <1>9 DEF HasNewest
<1>17. NextSector(s) = addr  BY <1>2 DEF Source
<1>18. CopyInv'  BY <1>1, <1>12, <1>13, <1>15, <1>16 DEF CopyInv
<1>19. \A t \in Sectors : NextSector(t) = addr => t = s  BY <1>17, NextSectorType
<1>. QED  BY <1>1, <1>5, <1>6, <1>8, <1>10, <1>11, <1>12, <1>17, <1>18,
      <1>19

(***************************************************************************)
(* While the entries are copied a reset finds an empty log.  Each lands at *)
(* the offset it had in the sector it came from, so that what is copied is *)
(* the same entry and not only one with the same key and value.            *)
(***************************************************************************)
LEMMA CompactCopyEffect ==
  ASSUME Known, LogInv', SeqInv', CompactCopy
  PROVE  /\ Quiet /\ CopyInv'
         /\ \A s \in Sectors : NextSector(s) = addr => flash'[s] = flash[s]
<1>1. /\ LogInv /\ SeqInv /\ TypeOK /\ pc = "compact_copy" /\ initialized
      /\ pc' = pc /\ addr' = addr /\ saved' = saved /\ copied' = copied + 1
      /\ saved \in Seq(Entry) /\ copied \in Nat /\ copied < Len(saved)
      /\ flash[addr].count = 0 /\ copied = Len(flash[addr].log)
      /\ flash[addr].log = SubSeq(saved, 1, copied)
  BY DEF Known, LogInv, PhaseSound, CompactCopy, MoreToCopy, CopyInv, TypeOK, ram
<1>2. /\ addr \in Sectors /\ IsNewest(addr) /\ DurableEntries = Committed(addr)
      /\ InFront = addr /\ flash[addr].magic
  BY <1>1, ActiveNewest DEF IsNewest
<1>3. PICK s \in Sectors \ {addr} : Source(s)  BY <1>1 DEF Known, CopyInv
<1>4. /\ flash[s].magic /\ flash[s].log \in Seq(Entry) /\ flash[s].count \in 0 .. Len(flash[s].log)
      /\ flash[s].count \in Nat /\ Len(flash[s].log) \in Nat
  BY <1>1, <1>3, CommittedType DEF Source
<1>5. PICK n \in 0 .. flash[s].count : saved = SubSeq(flash[s].log, 1, n)  BY <1>3 DEF Source
<1> DEFINE l == flash[addr].log
           e == saved[copied + 1]
<1>6. /\ l \in Seq(Entry) /\ Len(l) = copied /\ \A i \in 1 .. copied : l[i] = saved[i]
  BY <1>1, LogPrefix
<1>7. /\ Len(saved) = n /\ n \in 0 .. Len(flash[s].log)
      /\ \A i \in 1 .. n : saved[i] = flash[s].log[i]
  BY <1>4, <1>5, LogPrefix
<1>8. e \in Entry /\ copied + 1 \in 1 .. Len(flash[s].log)
  <2>1. copied + 1 \in 1 .. Len(saved)  BY <1>1, <1>7
  <2>. QED  BY <1>1, <1>4, <1>7, <2>1, ElementOfSeq
<1>9. e.at = WriteOffset
  <2>1. flash[s].log[copied + 1].at = EndAt(flash[s].log, (copied + 1) - 1)
    BY <1>1, <1>4, <1>8 DEF LogInv, LogSound
  <2>2. EndAt(flash[s].log, copied) = EndAt(l, copied)
    <3>1. CASE copied = 0  BY <3>1 DEF EndAt
    <3>2. CASE copied # 0
      <4>1. copied \in 1 .. copied /\ copied \in 1 .. n  BY <1>1, <1>4, <1>7, <3>2
      <4>2. l[copied] = flash[s].log[copied]  BY <1>6, <1>7, <4>1
      <4>. QED  BY <4>2 DEF EndAt
    <3>. QED  BY <3>1, <3>2
  <2>3. (copied + 1) - 1 = copied /\ copied + 1 \in 1 .. n  BY <1>1, <1>4, <1>7
  <2>. QED  BY <1>7, <2>1, <2>2, <2>3 DEF WriteOffset
<1>10. ProgramEntry(addr, copied, e)
  <2>1. [e EXCEPT !.at = WriteOffset] = e  BY <1>8, <1>9 DEF Entry
  <2>. QED  BY <2>1 DEF CompactCopy
<1> HIDE DEF l, e
<1>11. /\ flash'[addr].magic = flash[addr].magic /\ flash'[addr].seq = flash[addr].seq
       /\ flash'[addr].count = flash[addr].count
       /\ flash'[addr].log = Append(SubSeq(l, 1, copied), e)
       /\ \A t \in Sectors \ {addr} : flash'[t] = flash[t]
  <2>1. copied \in 0 .. Len(flash[addr].log)  BY <1>1
  <2>2. ~NorDevice  BY CopiesOnlyCounted DEF Known
  <2>3. /\ flash'[addr].magic = flash[addr].magic /\ flash'[addr].seq = flash[addr].seq
        /\ flash'[addr].count = flash[addr].count
        /\ \E g \in Entry : /\ g.at = e.at /\ (~NorDevice => g = e)
                            /\ flash'[addr].log = Append(SubSeq(flash[addr].log, 1, copied), g)
        /\ \A t \in Sectors \ {addr} : flash'[t] = flash[t]
    BY <1>1, <1>2, <1>8, <1>10, <2>1, EntryEffect
  <2>. QED  BY <2>2, <2>3 DEF l
<1>12. flash'[addr].log = SubSeq(saved, 1, copied + 1)
  <2>1. SubSeq(l, 1, copied) = l
    <3>1. l \in Seq(Entry) /\ copied = Len(l)  BY <1>1, <1>2, SectorType DEF l
    <3>. QED  BY ONLY <3>1, PrefixEnds
  <2>2. l = SubSeq(saved, 1, copied) /\ copied + 1 <= Len(saved)  BY <1>1, <1>4, <1>7 DEF l
  <2>3. SubSeq(saved, 1, copied + 1) = Append(SubSeq(saved, 1, copied), saved[copied + 1])
    BY <1>1, <2>2, PrefixGrows
  <2>. QED  BY <1>11, <2>1, <2>2, <2>3 DEF e
<1>13. IsNewest(addr)'
  <2>1. \A t \in Sectors : flash'[t].magic = flash[t].magic /\ flash'[t].seq = flash[t].seq
    BY <1>11
  <2>2. flash'[addr].magic /\ \A t \in Sectors : flash'[t].magic => flash'[t].seq <= flash'[addr].seq
    BY <1>2, <2>1 DEF IsNewest
  <2>. QED  BY <1>1, <2>2 DEF IsNewest
<1>14. InFront' = addr /\ DurableEntries' = Committed(addr)'
  BY <1>1, <1>2, <1>13, NewestFoundNext
<1>15. Committed(addr)' = <<>> /\ Committed(addr) = <<>>
  BY <1>1, <1>11, SubSeqEmpty DEF Committed
<1>16. flash'[s] = flash[s] /\ s \in Sectors \ {addr'}  BY <1>1, <1>11
<1>17. Source(s)'  BY <1>1, <1>3, <1>16 DEF Source
<1>18. flash'[addr'].log = SubSeq(saved', 1, copied') /\ copied' <= Len(saved')
  BY <1>1, <1>4, <1>7, <1>12
<1>19. HasNewest'  BY <1>1, <1>2, <1>13 DEF HasNewest
<1>20. CopyInv'  BY <1>1, <1>16, <1>17, <1>18, <1>19 DEF CopyInv
<1>21. \A t \in Sectors : NextSector(t) = addr => t = s  BY <1>3, NextSectorType DEF Source
<1>. QED  BY <1>2, <1>14, <1>15, <1>16, <1>20, <1>21 DEF Quiet

(***************************************************************************)
(* The final count shows a reset what was copied of entries[].             *)
(***************************************************************************)
LEMMA CompactCountEffect ==
  ASSUME Wide, Known, LogInv', SeqInv', CompactCount
  PROVE  /\ saved \in Seq(Entry) /\ copied \in 0 .. Len(saved)
         /\ DurableEntries = <<>> /\ DurableEntries' = SubSeq(saved, 1, copied)
         /\ InFront' = InFront /\ CopyInv'
<1>1. /\ LogInv /\ SeqInv /\ TypeOK /\ pc = "compact_copy" /\ initialized
      /\ pc' = "program" /\ addr' = addr
      /\ saved \in Seq(Entry) /\ copied \in Nat /\ copied <= Len(saved)
      /\ flash[addr].count = 0 /\ copied = Len(flash[addr].log)
      /\ flash[addr].log = SubSeq(saved, 1, copied)
      /\ ProgramHeader(addr, seq, copied) /\ seq \in Nat
  BY DEF Known, LogInv, PhaseSound, CompactCount, CopyInv, TypeOK, ram
<1>2. /\ addr \in Sectors /\ IsNewest(addr) /\ DurableEntries = Committed(addr)
      /\ InFront = addr /\ flash[addr].magic /\ flash[addr].seq = seq
  BY <1>1, ActiveNewest DEF IsNewest
<1> DEFINE l == flash[addr].log
<1>7. l \in Seq(Entry) /\ SubSeq(l, 1, copied) = l  BY <1>1, <1>2, SectorType, PrefixEnds
<1>8. /\ flash'[addr].magic /\ flash'[addr].seq = flash[addr].seq
      /\ flash'[addr].count = copied /\ flash'[addr].log = l
      /\ \A t \in Sectors \ {addr} : flash'[t] = flash[t]
  <2>1. TypeOK /\ addr \in Sectors /\ seq \in Nat /\ copied \in Nat
        /\ ProgramHeader(addr, seq, copied)
    BY <1>1, <1>2
  <2>3. CountsAllowed(flash[addr].count, copied) /\ Counts(copied) = copied
    BY <1>1 DEF CountsAllowed, Counts, LogInv, CountSound
  <2>2. /\ flash'[addr].magic /\ flash'[addr].seq = seq /\ flash'[addr].count = copied
        /\ flash'[addr].log = flash[addr].log
        /\ \A t \in Sectors \ {addr} : flash'[t] = flash[t]
    BY ONLY <2>1, <2>3, HeaderEffect
  <2>. QED  BY <1>2, <2>2
<1>9. IsNewest(addr)'
  <2>1. \A t \in Sectors : (flash'[t].magic <=> flash[t].magic) /\ flash'[t].seq = flash[t].seq
    BY <1>2, <1>8
  <2>2. flash'[addr].magic /\ \A t \in Sectors : flash'[t].magic => flash'[t].seq <= flash'[addr].seq
    BY <1>2, <2>1 DEF IsNewest
  <2>. QED  BY <1>1, <2>2 DEF IsNewest
<1>10. InFront' = addr /\ DurableEntries' = Committed(addr)'
  BY <1>1, <1>2, <1>9, NewestFoundNext
<1>11. Committed(addr)' = SubSeq(saved, 1, copied)
  BY <1>1, <1>7, <1>8 DEF Committed
<1>12. Committed(addr) = <<>>  BY <1>1, SubSeqEmpty DEF Committed
<1>13. HasNewest'  BY <1>1, <1>2, <1>9 DEF HasNewest
<1>14. CopyInv'  BY <1>1, <1>13 DEF CopyInv
<1>. QED  BY <1>1, <1>2, <1>10, <1>11, <1>12, <1>14

(***************************************************************************)
(* So what is known is inductive.                                          *)
(***************************************************************************)
LEMMA NextSplits ==
  ASSUME [Next]_vars
  PROVE  \/ RamStep \/ ScanEmpty \/ FormatHeader \/ PutProgram \/ PutCount
         \/ CompactErase \/ CompactHeader \/ CompactCopy \/ CompactCount
BY SizeAssumption DEF Next, Step, RamStep, Del

LEMMA CopyInvStep ==
  ASSUME Wide, Known, LogInv', SeqInv', [Next]_vars
  PROVE  CopyInv'
BY NextSplits, RamEffect, ScanEmptyEffect, FormatHeaderEffect, PutProgramEffect, PutCountEffect,
   CompactEraseEffect, CompactHeaderEffect, CompactCopyEffect, CompactCountEffect

LEMMA KnownHolds ==
  ASSUME Wide
  PROVE  HSpec => []Known
<1>1. HInit => CopyInv  BY CopyInvInit DEF HInit
<1>2. LogInv /\ SeqInv /\ LogInv' /\ SeqInv' /\ CopyInv /\ [HStep]_<<vars, history>> => CopyInv'
  BY HistorySteps, CopyInvStep DEF Known
<1>. QED  BY <1>1, <1>2, HistoryInv, PTL DEF HSpec, Known

(***************************************************************************)
(* What a compaction keeps: the entries it is done copying are those of    *)
(* the old sector, and the one it stopped at, if any, was the last and     *)
(* reached into the reserved page.                                         *)
(***************************************************************************)
LEMMA KnownKeeps ==
  ASSUME Known
  PROVE  CompactionKeeps
<1> SUFFICES ASSUME pc = "compact_copy", ~MoreToCopy, NEW s \in Sectors, NextSector(s) = addr
             PROVE  /\ flash[addr].log = SubSeq(flash[s].log, 1, copied)
                    /\ \A n \in 1 .. flash[s].count :
                         n <= MaxEntries /\ EndAt(flash[s].log, n) <= Limit => n <= copied
  BY DEF CompactionKeeps
<1>1. /\ LogInv /\ TypeOK /\ PhaseSound /\ addr \in Sectors /\ copied \in Nat /\ saved \in Seq(Entry)
      /\ copied <= Len(saved) /\ flash[addr].log = SubSeq(saved, 1, copied)
  BY DEF Known, LogInv, TypeOK, CopyInv
<1>2. PICK o \in Sectors \ {addr} : Source(o)
  BY DEF Known, CopyInv
<1>3. o = s
  BY <1>2, NextSectorType DEF Source
<1> DEFINE old == flash[s].log
<1>4. /\ flash[s].magic /\ old \in Seq(Entry) /\ flash[s].count \in 0 .. Len(old)
      /\ flash[s].count \in Nat /\ Len(old) \in Nat
  BY <1>1, <1>2, <1>3, CommittedType DEF Source
<1>5. PICK m \in 0 .. flash[s].count :
        saved = SubSeq(old, 1, m) /\ (m = flash[s].count \/ m = MaxEntries)
  BY <1>2, <1>3 DEF Source
<1>6. /\ m \in 0 .. Len(old) /\ m \in Nat /\ Len(saved) = m
      /\ \A i \in 1 .. m : saved[i] = old[i]
  <2>1. m \in 0 .. Len(old) /\ m \in Nat
    BY <1>4
  <2> QED BY <1>4, <1>5, <2>1, LogPrefix
<1>7. flash[addr].log = SubSeq(old, 1, copied) /\ copied \in 0 .. m
  <2>1. copied \in 0 .. m
    BY <1>1, <1>6
  <2> QED BY <1>1, <1>4, <1>5, <1>6, <2>1, PrefixOfPrefix
<1>8. ASSUME NEW n \in 1 .. flash[s].count, n <= MaxEntries, EndAt(old, n) <= Limit, ~(n <= copied)
      PROVE  FALSE
  <2>1. n <= m /\ copied < m
    BY <1>1, <1>4, <1>5, <1>6, <1>8, SizeAssumption
  <2>2. /\ copied + 1 \in 1 .. m /\ copied + 1 \in 1 .. Len(old) /\ copied + 1 \in 1 .. flash[s].count
        /\ (copied + 1) - 1 = copied /\ copied \in 0 .. Len(old)
    BY <1>1, <1>4, <1>6, <2>1
  <2>3. saved[copied + 1] = old[copied + 1] /\ old[copied + 1].at = EndAt(old, copied)
    <3>1. old[copied + 1].at = EndAt(old, (copied + 1) - 1)
      BY <1>1, <1>4, <2>2 DEF LogInv, LogSound
    <3> QED BY <1>6, <2>2, <3>1
  <2>4. WriteOffset = EndAt(old, copied)
    <3>1. CASE copied = 0
      BY <3>1 DEF WriteOffset, EndAt
    <3>2. CASE copied # 0
      <4>1. copied \in 1 .. copied
        BY <1>1, <3>2
      <4>2. flash[addr].log[copied] = old[copied]
        BY <1>4, <1>7, <2>2, <4>1, LogPrefix
      <4> QED BY <3>2, <4>2 DEF WriteOffset, EndAt
    <3> QED BY <3>1, <3>2
  <2>5. ~(EndAt(old, copied + 1) <= Limit)
    <3>1. copied < Len(saved) /\ copied + 1 # 0
      BY <1>1, <1>6, <2>1
    <3>2. EndAt(old, copied + 1) = WriteOffset + EntrySize(saved[copied + 1].key, saved[copied + 1].val)
      BY <2>3, <2>4, <3>1 DEF EndAt
    <3> QED BY <3>1, <3>2 DEF MoreToCopy
  <2>6. CASE n = copied + 1
    BY <1>8, <2>5, <2>6
  <2>7. CASE n # copied + 1
    <3>1. copied + 1 \in 1 .. flash[s].count - 1
      BY <1>1, <1>4, <1>8, <2>2, <2>7
    <3> QED BY <1>1, <1>4, <2>5, <3>1 DEF LogInv, LogSound
  <2> QED BY <2>6, <2>7
<1> QED BY <1>7, <1>8

(***************************************************************************)
(* A compaction copies the old sector's entries from the first on, in      *)
(* their order, and leaves out none that ends before the reserved page     *)
(* and is among the first SFPK_MAX_ENTRIES (flash_compact).                *)
(***************************************************************************)
THEOREM CompactionsKeep ==
  ASSUME Wide
  PROVE  HSpec => []CompactionKeeps
BY KnownHolds, KnownKeeps, PTL

-----------------------------------------------------------------------------
(* The refinement of DurableLog. *)

(***************************************************************************)
(* The scans of a sound log never step back before its first entry.        *)
(***************************************************************************)
LEMMA LogAfterHeader ==
  ASSUME TypeOK, NEW s \in Sectors, LogSound(s), NEW n \in 0 .. Len(flash[s].log)
  PROVE  PageSize <= EndAt(flash[s].log, n)
<1> DEFINE l == flash[s].log
           S == {i \in Nat : i <= Len(l) => PageSize <= EndAt(l, i)}
<1>1. l \in Seq(Entry) /\ Len(l) \in Nat  BY SectorType
<1>2. 0 \in S  BY SizeAssumption DEF EndAt
<1>3. ASSUME NEW i \in S PROVE i + 1 \in S
  <2> SUFFICES ASSUME i + 1 <= Len(l) PROVE PageSize <= EndAt(l, i + 1)  BY <1>3
  <2>1. /\ i \in Nat /\ i + 1 \in 1 .. Len(l) /\ i \in 0 .. Len(l) /\ (i + 1) - 1 = i
        /\ i + 1 # 0 /\ PageSize <= EndAt(l, i)
    BY <1>1, <1>3
  <2>2. l[i + 1].at = EndAt(l, (i + 1) - 1)  BY <2>1 DEF LogSound
  <2>3. l[i + 1] \in Entry  BY <1>1, <2>1, ElementOfSeq
  <2>4. EntrySize(l[i + 1].key, l[i + 1].val) \in Nat  BY <2>3, EntrySizeType DEF Entry
  <2>5. EndAt(l, i) \in Nat /\ PageSize \in Nat  BY <1>1, <2>1, EndAtType, SizeAssumption
  <2>6. EndAt(l, i + 1) = l[i + 1].at + EntrySize(l[i + 1].key, l[i + 1].val)  BY <2>1 DEF EndAt
  <2>. QED  BY <2>1, <2>2, <2>4, <2>5, <2>6
<1> HIDE DEF S
<1>4. S = Nat  BY <1>2, <1>3, SetInduction DEF S
<1>. QED  BY <1>1, <1>4 DEF S

\* What the entries set aside map to.
Rebuild == IF pc = "compact_copy" THEN saved ELSE NoRebuild

LEMMA DurableStep ==
  ASSUME Wide, Known, LogInv', SeqInv', [Next]_vars
  PROVE  Durable!Next \/ (DurableEntries' = DurableEntries /\ Rebuild' = Rebuild)
<1>1. CASE RamStep
  <2>1. DurableEntries' = DurableEntries  BY <1>1, RamEffect DEF Quiet
  <2>2. Rebuild' = Rebuild \/ Rebuild' = NoRebuild
    BY <1>1 DEF RamStep, InitBegin, ScanSector, ScanFound, PutOverrun, PowerLoss, Put, vars, Rebuild
  <2>. QED  BY <2>1, <2>2 DEF Durable!Next, Durable!Reset, Rebuild
<1>2. CASE ScanEmpty
  BY <1>2, ScanEmptyEffect DEF ScanEmpty, Rebuild, Quiet
<1>3. CASE FormatHeader
  BY <1>3, FormatHeaderEffect DEF FormatHeader, Rebuild
<1>4. CASE PutProgram
  BY <1>4, PutProgramEffect DEF PutProgram, Rebuild, Quiet
<1>5. CASE PutCount
  <2>2. Rebuild = NoRebuild /\ Rebuild' = NoRebuild  BY <1>5 DEF PutCount, Rebuild
  <2>9. CASE NorDevice
    BY <1>5, <2>2, <2>9, PutCountEffect
  <2> SUFFICES ASSUME ~NorDevice PROVE Durable!Next
    BY <2>9
  <2>1. /\ DurableEntries' = Append(DurableEntries, cur) /\ cur \in Entry
        /\ cur.at = Used /\ Used <= Limit
    BY <1>5, PutCountEffect
  <2>3. TypeOK /\ initialized /\ pc = "count" /\ addr \in Sectors /\ LogInv /\ SeqInv
    BY <1>5 DEF Known, LogInv, PhaseSound, PutCount, TypeOK
  <2>4. flash[addr].magic  BY <2>3, ActiveNewest DEF IsNewest
  <2>5. LogSound(addr) /\ flash[addr].count \in 0 .. Len(flash[addr].log)
    BY <2>3, <2>4, CommittedType DEF LogInv
  <2>6. PageSize <= Used  BY <2>3, <2>5, LogAfterHeader DEF Used
  <2>7. cur \in [key : Keys, val : Values, at : PageSize .. SectorSize]
    <3>1. cur.at \in Nat /\ PageSize <= cur.at /\ cur.at <= SectorSize - PageSize
      BY <2>1, <2>6 DEF Entry, Limit
    <3>2. cur.at \in PageSize .. SectorSize  BY <3>1, SizeAssumption
    <3>. QED  BY <2>1, <3>2 DEF Entry
  <2>8. Durable!Append1(cur)  BY <2>1, <2>2 DEF Durable!Append1, Rebuild
  <2>. QED  BY <2>7, <2>8 DEF Durable!Next
<1>6. CASE CompactErase
  BY <1>6, CompactEraseEffect DEF CompactErase, Rebuild, Quiet
<1>7. CASE CompactHeader
  <2>1. /\ \E n \in 0 .. Len(DurableEntries) : saved = SubSeq(DurableEntries, 1, n)
        /\ saved' = saved /\ DurableEntries' = <<>>
    BY <1>7, CompactHeaderEffect
  <2>2. Rebuild = NoRebuild /\ Rebuild' = saved
    BY <1>7, <2>1 DEF CompactHeader, Rebuild
  <2>3. \E n \in 0 .. Len(DurableEntries) : Rebuild' = Durable!Prefix(DurableEntries, n)
    BY <2>1, <2>2 DEF Durable!Prefix
  <2>. QED  BY <2>1, <2>2, <2>3 DEF Durable!Next, Durable!BeginRebuild, Rebuild
<1>8. CASE CompactCopy
  BY <1>8, CompactCopyEffect DEF CompactCopy, Rebuild, Quiet
<1>9. CASE CompactCount
  <2>1. /\ saved \in Seq(Entry) /\ copied \in 0 .. Len(saved)
        /\ DurableEntries' = SubSeq(saved, 1, copied)
    BY <1>9, CompactCountEffect
  <2>2. Rebuild = saved /\ Rebuild' = NoRebuild  BY <1>9 DEF CompactCount, Rebuild
  <2>3. Rebuild # NoRebuild  BY <2>1, <2>2, HistoryAssumption
  <2>4. \E n \in 0 .. Len(Rebuild) : DurableEntries' = Durable!Prefix(Rebuild, n)
    BY <2>1, <2>2 DEF Durable!Prefix
  <2>. QED  BY <2>2, <2>3, <2>4 DEF Durable!Next, Durable!EndRebuild, Rebuild
<1>. QED
  BY <1>1, <1>2, <1>3, <1>4, <1>5, <1>6, <1>7, <1>8, <1>9, NextSplits

(***************************************************************************)
(* The store implements DurableLog: seen through its resets, it is a log   *)
(* that grows by the entry a put wrote and is otherwise only ever rebuilt  *)
(* from a prefix of itself (flash_store_put, flash_compact).               *)
(***************************************************************************)
THEOREM StoreImplementsLog ==
  ASSUME Wide
  PROVE  HSpec => ImplementsDurableLog
<1>1. HInit => Durable!Init
  <2>1. HInit => ValidSectors = {} /\ pc = "reset"
    BY DEF HInit, Init, ValidSectors, Erased
  <2>. QED  BY <2>1 DEF Durable!Init, DurableEntries
<1>2. Known /\ LogInv' /\ SeqInv' /\ [HStep]_<<vars, history>>
      => Durable!Next \/ UNCHANGED <<DurableEntries, IF pc = "compact_copy" THEN saved ELSE NoRebuild>>
  BY HistorySteps, DurableStep DEF Rebuild
<1>3. Known => LogInv /\ SeqInv  BY DEF Known
<1>. QED  BY <1>1, <1>2, <1>3, KnownHolds, PTL DEF HSpec, ImplementsDurableLog, Durable!Spec

-----------------------------------------------------------------------------
(* Wear levelling. *)

\* The sector in addr was erased and its header is still to be written.
HeaderPhase == pc \in {"format_header", "compact_header"}

\* The sectors up to the newest one had their turn in this round of the
\* ring, and the one waiting for its header has just had its own.
Turn(s) == IF s <= InFront THEN 1 ELSE 0

Due(s) == IF HeaderPhase /\ s = addr THEN 1 ELSE 0

(***************************************************************************)
(* After c full rounds each sector was erased c times, once more when its  *)
(* turn has come, and at most once more for every reset: a reset that      *)
(* comes before the header makes the store erase that sector again.        *)
(***************************************************************************)
WearInv ==
  /\ wear \in [Sectors -> Nat] /\ losses \in Nat
  /\ \E c \in Nat : \A s \in Sectors :
       /\ c + Turn(s) + Due(s) <= wear[s]
       /\ wear[s] <= c + Turn(s) + Due(s) + losses

LEMMA WearInvInit == HInit => WearInv
<1> SUFFICES ASSUME HInit PROVE WearInv  OBVIOUS
<1>1. /\ pc = "reset" /\ losses = 0 /\ wear \in [Sectors -> Nat]
      /\ \A s \in Sectors : wear[s] = 0 /\ ~flash[s].magic
  BY DEF HInit, Init, Erased
<1>2. InFront = -1  BY <1>1 DEF InFront, ValidSectors
<1>3. \A s \in Sectors : Turn(s) = 0 /\ Due(s) = 0
  BY <1>1, <1>2 DEF Turn, Due, HeaderPhase, Sectors
<1>. QED  BY <1>1, <1>3 DEF WearInv

(***************************************************************************)
(* The sector being prepared is the one after the newest.                  *)
(***************************************************************************)
LEMMA HeaderFollowsFront ==
  ASSUME Known, HeaderPhase
  PROVE  /\ addr \in Sectors
         /\ \/ InFront = -1 /\ addr = 0
            \/ InFront \in Sectors /\ addr = NextSector(InFront)
<1>1. LogInv /\ SeqInv /\ CopyInv /\ TypeOK /\ addr \in Sectors  BY DEF Known, LogInv, TypeOK
<1>2. CASE pc = "format_header"
  BY <1>1, <1>2 DEF CopyInv, SeqInv, InFront, ValidSectors
<1>3. CASE pc = "compact_header"
  <2>1. PICK s \in Sectors : Source(s) /\ IsNewest(s)  BY <1>1, <1>3 DEF CopyInv
  <2>. QED  BY <1>1, <2>1, NewestFound DEF Source
<1>. QED  BY <1>2, <1>3 DEF HeaderPhase

\* The ring has got nowhere yet, or to a sector.
LEMMA FrontType ==
  ASSUME Known
  PROVE  InFront \in Int
<1>1. CASE ValidSectors = {}  BY <1>1 DEF InFront
<1>2. CASE ValidSectors # {}
  <2>1. PICK s \in Sectors : IsNewest(s)  BY <1>2 DEF Known, CopyInv, HasNewest
  <2>. QED  BY <2>1, NewestFound DEF Known, Sectors
<1>. QED  BY <1>1, <1>2

(***************************************************************************)
(* A step that neither erases nor moves the ring on.                       *)
(***************************************************************************)
LEMMA WearKeeps ==
  ASSUME WearInv, InFront' = InFront, wear' = wear, losses' = losses,
         HeaderPhase' = HeaderPhase, HeaderPhase => addr' = addr
  PROVE  WearInv'
<1>1. PICK c \in Nat : \A s \in Sectors :
        /\ c + Turn(s) + Due(s) <= wear[s] /\ wear[s] <= c + Turn(s) + Due(s) + losses
  BY DEF WearInv
<1>2. \A s \in Sectors :
        /\ (IF s <= InFront' THEN 1 ELSE 0) = Turn(s)
        /\ (IF HeaderPhase' /\ s = addr' THEN 1 ELSE 0) = Due(s)
  BY DEF Turn, Due
<1>3. \A s \in Sectors :
        /\ c + (IF s <= InFront' THEN 1 ELSE 0) + (IF HeaderPhase' /\ s = addr' THEN 1 ELSE 0)
             <= wear'[s]
        /\ wear'[s] <= c + (IF s <= InFront' THEN 1 ELSE 0)
                          + (IF HeaderPhase' /\ s = addr' THEN 1 ELSE 0) + losses'
  BY <1>1, <1>2
<1>. QED  BY <1>3 DEF WearInv, Turn, Due

LEMMA WearErase ==
  ASSUME Known, LogInv', SeqInv', WearInv, EraseCounted
  PROVE  WearInv'
<1>1. /\ TypeOK /\ ~HeaderPhase /\ HeaderPhase' /\ losses' = losses
      /\ wear' = [wear EXCEPT ![addr'] = @ + 1]
  BY DEF EraseCounted, ScanEmpty, CompactErase, HeaderPhase, Known, LogInv
<1>2. InFront' = InFront  BY ScanEmptyEffect, CompactEraseEffect DEF EraseCounted, Quiet
<1>3. PICK c \in Nat : \A s \in Sectors :
        /\ c + Turn(s) + Due(s) <= wear[s] /\ wear[s] <= c + Turn(s) + Due(s) + losses
  BY DEF WearInv
<1>4. wear \in [Sectors -> Nat] /\ losses \in Nat  BY DEF WearInv
<1>5. \A s \in Sectors : Turn(s) \in {0, 1} /\ Due(s) = 0
  BY <1>1 DEF Turn, Due
<1>6. wear' \in [Sectors -> Nat]
      /\ \A s \in Sectors : wear'[s] = wear[s] + (IF s = addr' THEN 1 ELSE 0)
  <2>1. PICK a \in Sectors : a = addr'  BY DEF LogInv, TypeOK
  <2>2. wear' = [wear EXCEPT ![a] = wear[a] + 1] /\ wear[a] + 1 \in Nat  BY <1>1, <1>4, <2>1
  <2>. QED  BY <1>4, <2>1, <2>2
<1>7. \A s \in Sectors :
        /\ (IF s <= InFront' THEN 1 ELSE 0) = Turn(s)
        /\ (IF HeaderPhase' /\ s = addr' THEN 1 ELSE 0) = IF s = addr' THEN 1 ELSE 0
  BY <1>1, <1>2 DEF Turn
<1>8. \A s \in Sectors :
        /\ c + (IF s <= InFront' THEN 1 ELSE 0) + (IF HeaderPhase' /\ s = addr' THEN 1 ELSE 0)
             <= wear'[s]
        /\ wear'[s] <= c + (IF s <= InFront' THEN 1 ELSE 0)
                          + (IF HeaderPhase' /\ s = addr' THEN 1 ELSE 0) + losses'
  <2> TAKE s \in Sectors
  <2>1. /\ c \in Nat /\ wear[s] \in Nat /\ losses \in Nat /\ Turn(s) \in {0, 1} /\ Due(s) = 0
        /\ c + Turn(s) + Due(s) <= wear[s] /\ wear[s] <= c + Turn(s) + Due(s) + losses
    BY <1>3, <1>4, <1>5
  <2>. QED  BY <1>1, <1>6, <1>7, <2>1
<1>. QED  BY <1>1, <1>4, <1>6, <1>8 DEF WearInv, Turn, Due

(***************************************************************************)
(* A header moves the ring on by one, and a round is complete when it      *)
(* comes back to the first sector.                                         *)
(***************************************************************************)
LEMMA WearHeader ==
  ASSUME Wide, Known, LogInv', SeqInv', WearInv, FormatHeader \/ CompactHeader,
         wear' = wear, losses' = losses
  PROVE  WearInv'
<1>1. HeaderPhase /\ ~HeaderPhase'
  BY DEF FormatHeader, CompactHeader, HeaderPhase
<1>2. InFront' = addr  BY FormatHeaderEffect, CompactHeaderEffect
<1>3. PICK c \in Nat : \A s \in Sectors :
        /\ c + Turn(s) + Due(s) <= wear[s] /\ wear[s] <= c + Turn(s) + Due(s) + losses
  BY DEF WearInv
<1>4. wear \in [Sectors -> Nat] /\ losses \in Nat  BY DEF WearInv
<1>9. HeaderPhase  BY <1>1
<1>5. /\ addr \in Sectors
      /\ \/ InFront = -1 /\ addr = 0
         \/ InFront \in Sectors /\ addr = NextSector(InFront)
  BY <1>9, HeaderFollowsFront
<1> DEFINE d == IF InFront \in Sectors /\ addr = 0 THEN c + 1 ELSE c
<1>6. d \in Nat  OBVIOUS
<1>7. \A s \in Sectors : c + Turn(s) + Due(s) = d + (IF s <= addr THEN 1 ELSE 0)
  <2> TAKE s \in Sectors
  <2>1. Due(s) = IF s = addr THEN 1 ELSE 0  BY <1>1 DEF Due
  <2>2. CASE InFront = -1 /\ addr = 0
    BY <2>1, <2>2 DEF Turn, Sectors
  <2>3. CASE InFront \in Sectors /\ addr = NextSector(InFront)
    <3>1. addr = IF InFront + 1 = NumSectors THEN 0 ELSE InFront + 1  BY <2>3, NextSectorType
    <3>. QED  BY <2>1, <2>3, <3>1, RingAssumption DEF Turn, Sectors
  <2>. QED  BY <1>5, <2>2, <2>3
<1> HIDE DEF d
<1>8. \A s \in Sectors :
        /\ d + (IF s <= InFront' THEN 1 ELSE 0) + (IF HeaderPhase' /\ s = addr' THEN 1 ELSE 0)
             <= wear'[s]
        /\ wear'[s] <= d + (IF s <= InFront' THEN 1 ELSE 0)
                          + (IF HeaderPhase' /\ s = addr' THEN 1 ELSE 0) + losses'
  <2> TAKE s \in Sectors
  <2>1. /\ c \in Nat /\ wear[s] \in Nat /\ losses \in Nat
        /\ c + Turn(s) + Due(s) <= wear[s] /\ wear[s] <= c + Turn(s) + Due(s) + losses
        /\ c + Turn(s) + Due(s) = d + (IF s <= addr THEN 1 ELSE 0)
    BY <1>3, <1>4, <1>7
  <2>. QED  BY <1>1, <1>2, <1>6, <2>1
<1>. QED  BY <1>4, <1>6, <1>8 DEF WearInv, Turn, Due

(***************************************************************************)
(* A reset may come between the erase and the header.                      *)
(***************************************************************************)
LEMMA WearLoss ==
  ASSUME Known, WearInv, LossCounted
  PROVE  WearInv'
<1>1. wear' = wear /\ losses' = losses + 1 /\ ~HeaderPhase'
  BY DEF LossCounted, PowerLoss, HeaderPhase
<1>2. InFront' = InFront  BY RamEffect DEF LossCounted, RamStep, Quiet
<1>3. PICK c \in Nat : \A s \in Sectors :
        /\ c + Turn(s) + Due(s) <= wear[s] /\ wear[s] <= c + Turn(s) + Due(s) + losses
  BY DEF WearInv
<1>4. wear \in [Sectors -> Nat] /\ losses \in Nat  BY DEF WearInv
<1>5. \A s \in Sectors : Turn(s) \in {0, 1} /\ Due(s) \in {0, 1}  BY DEF Turn, Due
<1>6. \A s \in Sectors : (IF s <= InFront' THEN 1 ELSE 0) = Turn(s)  BY <1>2 DEF Turn
<1>7. \A s \in Sectors :
        /\ c + (IF s <= InFront' THEN 1 ELSE 0) + (IF HeaderPhase' /\ s = addr' THEN 1 ELSE 0)
             <= wear'[s]
        /\ wear'[s] <= c + (IF s <= InFront' THEN 1 ELSE 0)
                          + (IF HeaderPhase' /\ s = addr' THEN 1 ELSE 0) + losses'
  <2> TAKE s \in Sectors
  <2>1. /\ c \in Nat /\ wear[s] \in Nat /\ losses \in Nat
        /\ Turn(s) \in {0, 1} /\ Due(s) \in {0, 1}
        /\ c + Turn(s) + Due(s) <= wear[s] /\ wear[s] <= c + Turn(s) + Due(s) + losses
    BY <1>3, <1>4, <1>5
  <2>. QED  BY <1>1, <1>6, <2>1
<1>8. wear' \in [Sectors -> Nat] /\ losses' \in Nat  BY <1>1, <1>4
<1>. QED  BY <1>7, <1>8 DEF WearInv, Turn, Due

LEMMA WearInvStep ==
  ASSUME Wide, Known, LogInv', SeqInv', WearInv, [HStep]_<<vars, history>>
  PROVE  WearInv'
<1>1. CASE EraseCounted  BY <1>1, WearErase
<1>2. CASE LossCounted  BY <1>2, WearLoss
<1>3. CASE (FormatHeader \/ CompactHeader) /\ wear' = wear /\ losses' = losses
  BY <1>3, WearHeader
<1>4. CASE (RamStep /\ ~PowerLoss) /\ wear' = wear /\ losses' = losses
  <2>1. InFront' = InFront  BY <1>4, RamEffect DEF Quiet
  <2>2. HeaderPhase' = HeaderPhase /\ (HeaderPhase => addr' = addr)
    BY <1>4 DEF RamStep, InitBegin, ScanSector, ScanFound, PutOverrun, Put, vars, ram, HeaderPhase
  <2>. QED  BY <1>4, <2>1, <2>2, WearKeeps
<1>5. CASE (PutProgram \/ PutCount \/ CompactCopy \/ CompactCount) /\ wear' = wear /\ losses' = losses
  <2>1. InFront' = InFront
    BY <1>5, PutProgramEffect, PutCountEffect, CompactCopyEffect, CompactCountEffect DEF Quiet
  <2>2. HeaderPhase' = FALSE /\ HeaderPhase = FALSE
    BY <1>5 DEF PutProgram, PutCount, CompactCopy, CompactCount, HeaderPhase
  <2>. QED  BY <1>5, <2>1, <2>2, WearKeeps
<1>6. ASSUME Acknowledge
      PROVE  PutCount /\ wear' = wear /\ losses' = losses
  BY <1>6 DEF Acknowledge
<1>7. ASSUME OtherStep \/ UNCHANGED <<vars, history>>
      PROVE  /\ wear' = wear /\ losses' = losses
             /\ \/ RamStep /\ ~PowerLoss
                \/ FormatHeader \/ CompactHeader \/ PutProgram \/ CompactCopy \/ CompactCount
  <2>1. wear' = wear /\ losses' = losses  BY <1>7 DEF OtherStep, history
  <2>2. \/ UNCHANGED vars
        \/ InitBegin \/ ScanSector \/ ScanFound \/ PutOverrun
        \/ \E k \in Keys, v \in Values : Put(k, v)
        \/ FormatHeader \/ CompactHeader \/ PutProgram \/ CompactCopy \/ CompactCount
    BY <1>7, SizeAssumption DEF OtherStep, Del
  <2>3. ASSUME UNCHANGED vars \/ InitBegin \/ ScanSector \/ ScanFound \/ PutOverrun
               \/ \E k \in Keys, v \in Values : Put(k, v)
        PROVE  RamStep /\ ~PowerLoss
    <3>1. RamStep  BY <2>3 DEF RamStep
    <3>2. ~PowerLoss
      BY <2>3 DEF InitBegin, ScanSector, ScanFound, PutOverrun, Put, vars, PowerLoss
    <3>. QED  BY <3>1, <3>2
  <2>. QED  BY <2>1, <2>2, <2>3
<1>. QED  BY <1>1, <1>2, <1>3, <1>4, <1>5, <1>6, <1>7 DEF HStep

LEMMA WearInvLevels ==
  ASSUME Known, WearInv
  PROVE  WearLevelled
<1> SUFFICES ASSUME NEW s \in Sectors, NEW t \in Sectors
             PROVE  wear[s] - wear[t] <= 1 + losses
  BY DEF WearLevelled
<1>1. PICK c \in Nat :
        /\ c + Turn(t) + Due(t) <= wear[t] /\ wear[s] <= c + Turn(s) + Due(s) + losses
  BY DEF WearInv
<1>2. wear[s] \in Nat /\ wear[t] \in Nat /\ losses \in Nat  BY DEF WearInv
<1>3. Turn(s) \in {0, 1} /\ Due(s) \in {0, 1} /\ Turn(t) \in {0, 1} /\ Due(t) \in {0, 1}
  BY DEF Turn, Due
<1>4. Turn(s) + Due(s) <= 1 + Turn(t) + Due(t)
  <2>1. CASE ~HeaderPhase \/ s # addr
    <3>1. Due(s) = 0  BY <2>1 DEF Due
    <3>. QED  BY <1>3, <3>1
  <2>2. CASE HeaderPhase /\ s = addr
    <3>1. \/ InFront = -1 /\ addr = 0
          \/ InFront \in Sectors /\ addr = IF InFront + 1 = NumSectors THEN 0 ELSE InFront + 1
      BY <2>2, HeaderFollowsFront, NextSectorType
    <3>2. Turn(s) = 0 \/ Turn(t) = 1
      BY <2>2, <3>1, RingAssumption DEF Turn, Sectors
    <3>. QED  BY <1>3, <3>2
  <2>. QED  BY <2>1, <2>2
<1>. QED  BY <1>1, <1>2, <1>3, <1>4

(***************************************************************************)
(* The ring wears evenly: whatever the puts, the compactions and the       *)
(* resets, no sector was erased more than once more than another, and one  *)
(* erase per reset (the choice of new_addr in flash_compact, and           *)
(* flash_find_active's format of an empty store).                          *)
(***************************************************************************)
THEOREM WearIsLevelled ==
  ASSUME Wide
  PROVE  HSpec => []WearLevelled
<1>1. Known /\ LogInv' /\ SeqInv' /\ WearInv /\ [HStep]_<<vars, history>> => WearInv'
  BY WearInvStep
<1>2. Known => LogInv /\ SeqInv  BY DEF Known
<1>. QED  BY <1>1, <1>2, KnownHolds, WearInvInit, WearInvLevels, PTL DEF HSpec

=============================================================================
