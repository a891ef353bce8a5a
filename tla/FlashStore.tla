----------------------------- MODULE FlashStore -----------------------------
(***************************************************************************)
(* The flash-backed key/value store, storage/flash_store.h.                *)
(*                                                                         *)
(* A ring of NumSectors sectors.  A sector starts with a header page       *)
(* (magic, sequence number, entry count) and holds a log of key/value      *)
(* entries after it.  The sector with the newest sequence number is the    *)
(* active one: flash_store_put appends to it and, when it is full,         *)
(* flash_compact copies its entries into the next sector of the ring.      *)
(*                                                                         *)
(* Every flash operation (one erase, one program) is an action of its own, *)
(* and the power may fail between any two of them: the contents of the     *)
(* flash survive, every static and every local of the C code is lost.      *)
(* flash_find_active is a step per sector.                                 *)
(*                                                                         *)
(* A key has at least one byte: the break on key_len = 0 in the scans is   *)
(* not modelled.                                                           *)
(***************************************************************************)
EXTENDS Integers, Sequences

CONSTANTS
  Keys,        \* the keys a caller uses
  Values,      \* the values a caller stores
  EmptyVal,    \* the value of length 0, which flash_store_del writes
  KeyLen,      \* the length of each key, in bytes
  ValLen,      \* the length of each value, in bytes
  MaxKeyLen,   \* 63
  MaxValLen,   \* 255
  NumSectors,  \* FLASH_STORE_SIZE / SFPK_SECTOR_SIZE
  SectorSize,  \* SFPK_SECTOR_SIZE
  PageSize,    \* SFPK_PAGE_SIZE: the header page, and the staging buffer
  MaxEntries,  \* SFPK_MAX_ENTRIES
  SeqWrap,     \* 2^32: sequence numbers are uint32_t
  CountMask,   \* 2^32 - 1: an erased word reads as all ones
  NorDevice,   \* TRUE when programming can only clear bits, as NOR flash does
  BitAnd(_, _), \* the bitwise and of two words
  MaxSeq       \* bound: a put that would compact needs seq < MaxSeq

Sectors == 0 .. NumSectors - 1

\* The end of the log area: the last page of a sector is kept in reserve.
Limit == SectorSize - PageSize

Align4(n) == ((n + 3) \div 4) * 4

\* sizeof(flash_entry_hdr_t) + klen + vlen, aligned to 4 bytes.
EntrySize(k, v) == Align4(4 + KeyLen[k] + ValLen[v])

ASSUME SizeAssumption ==
  /\ Keys # {} /\ KeyLen \in [Keys -> Nat \ {0}]
  /\ ValLen \in [Values -> Nat]
  /\ EmptyVal \in Values /\ ValLen[EmptyVal] = 0
  /\ MaxKeyLen \in Nat /\ MaxValLen \in Nat
  /\ PageSize \in Nat \ {0} /\ SectorSize \in Nat /\ 2 * PageSize <= SectorSize
  /\ MaxEntries \in Nat

ASSUME RingAssumption ==
  /\ NumSectors \in Nat /\ NumSectors > 1
  /\ SeqWrap \in Nat /\ SeqWrap > 1
  /\ MaxSeq \in Nat

\* No bit of a word that reads 0 can be set, and programming 0 clears all.
ASSUME DeviceAssumption ==
  /\ NorDevice \in BOOLEAN
  /\ CountMask \in Nat \ {0}
  /\ \A n \in {0, 1, CountMask} : BitAnd(n, 0) = 0 /\ BitAnd(0, n) = 0

VARIABLES
  flash,        \* the device: header and log of every sector
  seq,          \* _flash_seq
  addr,         \* _flash_sector_addr, as a sector number
  initialized,  \* _flash_initialized
  pc,           \* the next flash operation of the call in progress
  scan,         \* flash_find_active: the sector the loop looks at next
  best,         \* flash_find_active: found, best_seq, best_addr
  cur,          \* flash_store_put: the entry to write and its offset
  saved,        \* flash_compact: entries[]
  copied        \* flash_compact: new_hdr.entry_count

ram  == <<seq, addr, initialized>>
vars == <<flash, seq, addr, initialized, pc, scan, best, cur, saved, copied>>

Entry == [key : Keys, val : Values, at : Nat]

Phases == {"reset", "scan", "format", "format_header", "idle",
           "compact", "compact_header", "compact_copy",
           "program", "count", "overrun"}

-----------------------------------------------------------------------------
(* The device: flash_range_erase and flash_range_program of the Pico SDK.  *)
(*                                                                         *)
(* Two devices are modelled.  The RP2350's flash (NorDevice) clears bits   *)
(* and nothing else; the other stores what it is given, which is what      *)
(* flash_store.h relies on when it programs a header twice without an      *)
(* erase.  flash_range_program asks for offsets that are multiples of a    *)
(* page.  The offsets of the code are not, except the first one of a       *)
(* sector, the only one a NorDevice ever gets (NothingCounted).            *)

Erased == [magic |-> FALSE, seq |-> 0, count |-> CountMask, log |-> <<>>]

\* What a word reads after new was programmed over old.
Word(old, new) == IF NorDevice THEN BitAnd(old, new) ELSE new

EraseSector(s) == flash' = [flash EXCEPT ![s] = Erased]

ProgramHeader(s, q, n) ==
  flash' = [flash EXCEPT ![s] = [magic |-> TRUE, seq |-> q,
                                 count |-> Word(@.count, n), log |-> @.log]]

\* What an entry programmed after the first n of a sector may read: itself,
\* or on a NorDevice, over what a put programmed there that was not counted,
\* the bits the two have in common.
Programmed(s, n, e) ==
  IF NorDevice /\ Len(flash[s].log) > n
  THEN [key : Keys, val : Values, at : {e.at}]
  ELSE {e}

\* Its page covers whatever followed the first n entries.
ProgramEntry(s, n, e) ==
  \E g \in Programmed(s, n, e) :
    flash' = [flash EXCEPT ![s].log = Append(SubSeq(@, 1, n), g)]

-----------------------------------------------------------------------------
(* What the scans of the code compute over a sector's log.                 *)

\* The offset the scans reach after the first n entries of a log.
EndAt(log, n) ==
  IF n = 0 THEN PageSize ELSE log[n].at + EntrySize(log[n].key, log[n].val)

\* used: where the next entry of the active sector goes.
Used == EndAt(flash[addr].log, flash[addr].count)

\* The entries the header of a sector accounts for.
Committed(s) == SubSeq(flash[s].log, 1, flash[s].count)

\* flash_store_get: the first entry of the active sector with this key.
Matches(k) == {i \in 1 .. Len(Committed(addr)) : Committed(addr)[i].key = k}

Found(k) == Matches(k) # {}

Get(k) ==
  Committed(addr)[CHOOSE i \in Matches(k) : \A j \in Matches(k) : i <= j].val

-----------------------------------------------------------------------------
BlankEntry == [key |-> CHOOSE k \in Keys : TRUE, val |-> EmptyVal, at |-> 0]

NothingFound == [found |-> FALSE, seq |-> 0, addr |-> 0]

\* The statics and locals as a reset leaves them.
ResetRam ==
  /\ seq' = 0 /\ addr' = 0 /\ initialized' = FALSE
  /\ scan' = 0 /\ best' = NothingFound
  /\ cur' = BlankEntry /\ saved' = <<>> /\ copied' = 0

Init ==
  /\ flash = [s \in Sectors |-> Erased]
  /\ seq = 0 /\ addr = 0 /\ initialized = FALSE
  /\ pc = "reset"
  /\ scan = 0 /\ best = NothingFound
  /\ cur = BlankEntry /\ saved = <<>> /\ copied = 0

(***************************************************************************)
(* flash_store_init, which every entry point calls first.                  *)
(***************************************************************************)
InitBegin ==
  /\ pc = "reset"
  /\ pc' = "scan" /\ scan' = 0 /\ best' = NothingFound
  /\ UNCHANGED <<flash, ram, cur, saved, copied>>

\* Mutant: the scan keeps the first valid sector it meets.
NewerMutant(q) == ~best.found

\* The test of flash_find_active on a sector with a valid magic.
Newer(q) ==
  \/ ~best.found
  \/ /\ (q - best.seq) % SeqWrap < SeqWrap \div 2
     /\ q > best.seq

ScanSector ==
  /\ pc = "scan" /\ scan < NumSectors
  /\ scan' = scan + 1
  /\ best' = IF flash[scan].magic /\ Newer(flash[scan].seq)
             THEN [found |-> TRUE, seq |-> flash[scan].seq, addr |-> scan]
             ELSE best
  /\ UNCHANGED <<flash, ram, pc, cur, saved, copied>>

ScanFound ==
  /\ pc = "scan" /\ scan = NumSectors /\ best.found
  /\ seq' = best.seq /\ addr' = best.addr
  /\ initialized' = TRUE /\ pc' = "idle"
  /\ UNCHANGED <<flash, scan, best, cur, saved, copied>>

\* No valid sector: start fresh, flash_erase_sector of the first one.
ScanEmpty ==
  /\ pc = "scan" /\ scan = NumSectors /\ ~best.found
  /\ seq' = 1 /\ addr' = 0
  /\ EraseSector(0)
  /\ pc' = "format_header"
  /\ UNCHANGED <<initialized, scan, best, cur, saved, copied>>

FormatHeader ==
  /\ pc = "format_header"
  /\ ProgramHeader(addr, seq, 0)
  /\ initialized' = TRUE /\ pc' = "idle"
  /\ UNCHANGED <<seq, addr, scan, best, cur, saved, copied>>

(***************************************************************************)
(* flash_store_put.                                                        *)
(***************************************************************************)

\* strlen(key) > 63 || vlen > 255 returns -1.
Accepted(k, v) == KeyLen[k] <= MaxKeyLen /\ ValLen[v] <= MaxValLen

\* Mutant: the page in reserve counts as free.
FitsMutant(k, v) == Used + EntrySize(k, v) <= SectorSize

Fits(k, v) == Used + EntrySize(k, v) <= Limit

Put(k, v) ==
  /\ pc = "idle" /\ Accepted(k, v)
  /\ cur' = [key |-> k, val |-> v, at |-> Used]
  /\ \/ /\ Fits(k, v)
        /\ pc' = "program"
     \/ /\ ~Fits(k, v)
        /\ seq < MaxSeq
        /\ pc' = "compact"
  /\ UNCHANGED <<flash, ram, scan, best, saved, copied>>

\* flash_store_del writes an empty value as its tombstone.
Del(k) == Put(k, EmptyVal)

\* The staging page holds the entry: program it, padded to a page.
PutProgram ==
  /\ pc = "program"
  /\ EntrySize(cur.key, cur.val) <= PageSize
  /\ ProgramEntry(addr, flash[addr].count, cur)
  /\ pc' = "count"
  /\ UNCHANGED <<ram, scan, best, cur, saved, copied>>

\* The staging page is smaller than the entry copied into it: what happens
\* next is undefined, and only that it happened is recorded.
PutOverrun ==
  /\ pc = "program"
  /\ EntrySize(cur.key, cur.val) > PageSize
  /\ pc' = "overrun"
  /\ UNCHANGED <<flash, ram, scan, best, cur, saved, copied>>

PutCount ==
  /\ pc = "count"
  /\ ProgramHeader(addr, flash[addr].seq, flash[addr].count + 1)
  /\ pc' = "idle"
  /\ UNCHANGED <<ram, scan, best, cur, saved, copied>>

(***************************************************************************)
(* flash_compact, called by a put that does not fit.                       *)
(***************************************************************************)
\* Mutant: the ring has one sector more than the region.
NextSectorMutant(s) == IF s + 1 > NumSectors THEN 0 ELSE s + 1

\* Mutant: a compaction rewrites the sector it reads.
NextSectorInPlace(s) == s

NextSector(s) == IF s + 1 >= NumSectors THEN 0 ELSE s + 1

\* Mutant: the copy skips the first entry.
ToCopyMutant == SubSeq(flash[addr].log, 2, flash[addr].count)

\* The entries read into entries[]: at most SFPK_MAX_ENTRIES of them.  The
\* loop also stops after an entry that reaches Limit, which only the last
\* one does (see OnlyLastPastLimit).
ToCopy ==
  LET n == flash[addr].count
  IN  SubSeq(flash[addr].log, 1, IF n <= MaxEntries THEN n ELSE MaxEntries)

CompactErase ==
  /\ pc = "compact"
  /\ saved' = ToCopy
  /\ addr' = NextSector(addr)
  /\ seq' = (seq + 1) % SeqWrap
  /\ EraseSector(addr')
  /\ pc' = "compact_header"
  /\ UNCHANGED <<initialized, scan, best, cur, copied>>

CompactHeader ==
  /\ pc = "compact_header"
  /\ ProgramHeader(addr, seq, 0)
  /\ copied' = 0
  /\ pc' = "compact_copy"
  /\ UNCHANGED <<ram, scan, best, cur, saved>>

\* woff: where the next copied entry goes.
WriteOffset == EndAt(flash[addr].log, copied)

\* Mutant: the copy does not look at the space left.
MoreToCopyMutant == copied < Len(saved)

\* Mutant: the loop leaves out the last entry it read.
MoreToCopyShort ==
  /\ copied + 1 < Len(saved)
  /\ WriteOffset + EntrySize(saved[copied + 1].key, saved[copied + 1].val) <= Limit

MoreToCopy ==
  /\ copied < Len(saved)
  /\ WriteOffset + EntrySize(saved[copied + 1].key, saved[copied + 1].val) <= Limit

\* Mutant: the loop does not advance.
CompactCopyMutant ==
  /\ pc = "compact_copy" /\ MoreToCopy
  /\ ProgramEntry(addr, copied, [saved[copied + 1] EXCEPT !.at = WriteOffset])
  /\ UNCHANGED <<ram, pc, scan, best, cur, saved, copied>>

CompactCopy ==
  /\ pc = "compact_copy" /\ MoreToCopy
  /\ ProgramEntry(addr, copied, [saved[copied + 1] EXCEPT !.at = WriteOffset])
  /\ copied' = copied + 1
  /\ UNCHANGED <<ram, pc, scan, best, cur, saved>>

\* Mutant: the put keeps the offset it computed before it compacted.
CompactCountMutant ==
  /\ pc = "compact_copy" /\ ~MoreToCopy
  /\ ProgramHeader(addr, seq, copied)
  /\ pc' = "program"
  /\ UNCHANGED <<ram, scan, best, cur, saved, copied>>

\* The header gets the final count, and the put goes on in the new sector
\* without looking at the space that is left.
CompactCount ==
  /\ pc = "compact_copy" /\ ~MoreToCopy
  /\ ProgramHeader(addr, seq, copied)
  /\ cur' = [cur EXCEPT !.at = WriteOffset]
  /\ pc' = "program"
  /\ UNCHANGED <<ram, scan, best, saved, copied>>

-----------------------------------------------------------------------------
\* Loss of power, or any other reset, between two flash operations.
PowerLoss ==
  /\ pc # "reset"
  /\ pc' = "reset"
  /\ ResetRam
  /\ UNCHANGED flash

\* The steps the code takes by itself once a call is in progress.
Step ==
  \/ InitBegin \/ ScanSector \/ ScanFound \/ ScanEmpty \/ FormatHeader
  \/ PutProgram \/ PutOverrun \/ PutCount
  \/ CompactErase \/ CompactHeader \/ CompactCopy \/ CompactCount

Next ==
  \/ Step
  \/ \E k \in Keys, v \in Values : Put(k, v)
  \/ \E k \in Keys : Del(k)
  \/ PowerLoss

Spec == Init /\ [][Next]_vars

\* The processor keeps executing the call in progress.  Nothing obliges a
\* caller to make one, and nothing obliges the power to fail.
FairSpec == Spec /\ WF_vars(Step)

-----------------------------------------------------------------------------
TypeOK ==
  /\ flash \in [Sectors -> [magic : BOOLEAN, seq : Nat, count : Nat, log : Seq(Entry)]]
  /\ seq \in Nat /\ addr \in Sectors /\ initialized \in BOOLEAN
  /\ pc \in Phases
  /\ scan \in 0 .. NumSectors
  /\ best \in [found : BOOLEAN, seq : Nat, addr : Sectors]
  /\ cur \in Entry /\ saved \in Seq(Entry) /\ copied \in Nat

(***************************************************************************)
(* An entry is programmed as a whole page, whatever its size.  The page    *)
(* kept in reserve at the end of a sector is what keeps that write, in a   *)
(* put and in the copy loop of a compaction, inside the active sector: a   *)
(* put does not look at the space again after it compacted.                *)
(***************************************************************************)
PaddedWriteInSector ==
  /\ pc = "program" => cur.at + PageSize <= SectorSize
  /\ pc = "compact_copy" /\ MoreToCopy => WriteOffset + PageSize <= SectorSize

(***************************************************************************)
(* An entry goes exactly where the scans of the store will look for it:    *)
(* after the entries the header accounts for, without a hole and without   *)
(* overwriting one, in the sector the put started in and in the one a      *)
(* compaction moved it to.                                                 *)
(***************************************************************************)
WriteFollowsLog ==
  /\ pc = "program" => cur.at = Used
  /\ \A s \in Sectors : flash[s].magic =>
       /\ flash[s].count <= Len(flash[s].log)
       /\ \A i \in 1 .. Len(flash[s].log) :
            flash[s].log[i].at = EndAt(flash[s].log, i - 1)

(***************************************************************************)
(* Only the last entry of a log may reach into the reserved page, so the   *)
(* break of the scans on SFPK_SECTOR_SIZE - 256 never hides an entry from  *)
(* flash_store_get's point of view that flash_compact would have copied.   *)
(***************************************************************************)
OnlyLastPastLimit ==
  \A s \in Sectors : flash[s].magic =>
    \A i \in 1 .. flash[s].count - 1 : EndAt(flash[s].log, i) <= Limit

(***************************************************************************)
(* "Active entries are copied to next sector" (docs/SagePico.md:404), as   *)
(* far as the code goes: when a compaction has done copying, the new       *)
(* sector holds the old one's entries in their order and at their offsets, *)
(* from the first on, and every one that ends before the page kept in      *)
(* reserve is among them, up to SFPK_MAX_ENTRIES.                          *)
(***************************************************************************)
CompactionKeeps ==
  pc = "compact_copy" /\ ~MoreToCopy =>
    \A s \in Sectors : NextSector(s) = addr =>
      /\ flash[addr].log = SubSeq(flash[s].log, 1, copied)
      /\ \A n \in 1 .. flash[s].count :
           n <= MaxEntries /\ EndAt(flash[s].log, n) <= Limit => n <= copied

(***************************************************************************)
(* On a device that can only clear bits the count of a sector, programmed  *)
(* as 0 with its header, stays 0 (flash_store.h:75, 141, 236): nothing     *)
(* that was put is ever found, every entry goes to the same first page, at *)
(* an aligned offset, and a compaction finds nothing to copy.              *)
(***************************************************************************)
NothingCounted ==
  NorDevice =>
    /\ \A s \in Sectors : flash[s].magic => flash[s].count = 0
    /\ pc = "program" => cur.at = PageSize
    /\ pc = "compact_copy" => ~MoreToCopy
    /\ initialized /\ pc # "compact_header" => \A k \in Keys : ~Found(k)

(***************************************************************************)
(* The sector the store uses is the one flash_find_active would choose if  *)
(* the board were reset now: it is valid, it carries the sequence number   *)
(* kept in RAM and every other valid sector is older.  It fails only while *)
(* a compaction has erased its new sector and not yet written its header.  *)
(***************************************************************************)
ActiveIsNewest ==
  initialized /\ pc # "compact_header" =>
    /\ flash[addr].magic /\ flash[addr].seq = seq
    /\ \A s \in Sectors \ {addr} : flash[s].magic => flash[s].seq < seq

(***************************************************************************)
(* Whatever a loss of power left in the flash, the store becomes ready     *)
(* again: no content makes flash_find_active, a format or a compaction     *)
(* spin.  A put of an entry longer than the staging page is excepted: what *)
(* it leads to is undefined.  (The run bounds the number of losses.)       *)
(***************************************************************************)
EventuallyReady == []<>(pc \in {"idle", "overrun"})

-----------------------------------------------------------------------------
(***************************************************************************)
(* The inductive invariants behind the properties above (proved in         *)
(* FlashStoreProofs).  The first is about one sector and the call that     *)
(* writes it: the logs are sound, and each phase of a put or a compaction  *)
(* finds the space the phase before it left.                               *)
(***************************************************************************)
LogSound(s) ==
  /\ flash[s].count <= Len(flash[s].log)
  /\ \A i \in 1 .. Len(flash[s].log) :
       flash[s].log[i].at = EndAt(flash[s].log, i - 1)
  /\ \A i \in 1 .. flash[s].count - 1 : EndAt(flash[s].log, i) <= Limit

PhaseSound ==
  /\ initialized <=> pc \notin {"reset", "scan", "format_header"}
  /\ initialized /\ pc # "compact_header" => flash[addr].magic
  /\ pc = "scan" /\ best.found => flash[best.addr].magic
  /\ pc \in {"format_header", "compact_header"} => flash[addr] = Erased
  /\ pc \in {"program", "count"} => Used <= Limit
  /\ pc = "program" => cur.at = Used
  /\ pc = "count" => Len(flash[addr].log) = flash[addr].count + 1
  /\ pc = "compact_copy" =>
       /\ flash[addr].count = 0
       /\ copied = Len(flash[addr].log)
       /\ \A i \in 1 .. copied : EndAt(flash[addr].log, i) <= Limit

\* A NorDevice counts nothing.
CountSound ==
  NorDevice =>
    /\ \A s \in Sectors : flash[s].magic => flash[s].count = 0
    /\ saved = <<>> /\ copied = 0

LogInv ==
  /\ TypeOK
  /\ \A s \in Sectors : flash[s].magic => LogSound(s)
  /\ PhaseSound
  /\ CountSound

(***************************************************************************)
(* The second is about all sectors: sequence numbers are distinct, RAM     *)
(* holds the newest once the store is ready, and flash_find_active holds   *)
(* the newest of those it has looked at.                                   *)
(***************************************************************************)
SeqInv ==
  /\ \A s \in Sectors : flash[s].magic => flash[s].seq \in 1 .. MaxSeq
  /\ \A s, t \in Sectors :
       flash[s].magic /\ flash[t].magic /\ s # t => flash[s].seq # flash[t].seq
  /\ initialized => seq \in 1 .. MaxSeq
  /\ ActiveIsNewest
  /\ pc = "compact" => seq < MaxSeq
  /\ pc = "compact_header" =>
       \A s \in Sectors : flash[s].magic => flash[s].seq < seq
  /\ pc = "format_header" => seq = 1 /\ \A s \in Sectors : ~flash[s].magic
  /\ pc = "scan" =>
       IF best.found
       THEN /\ best.addr < scan
            /\ flash[best.addr].seq = best.seq
            /\ \A s \in Sectors \ {best.addr} :
                 s < scan /\ flash[s].magic => flash[s].seq < best.seq
       ELSE \A s \in Sectors : s < scan => ~flash[s].magic
=============================================================================
