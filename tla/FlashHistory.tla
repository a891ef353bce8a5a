---------------------------- MODULE FlashHistory ----------------------------
(***************************************************************************)
(* The flash store with history variables: what its callers were told,     *)
(* how often each sector was erased, how often the power failed.  The      *)
(* steps are those of FlashStore, a bound on the losses of power aside.    *)
(***************************************************************************)
EXTENDS FlashStore, FiniteSets

CONSTANTS
  NoRebuild,   \* no rebuild is in progress (see DurableLog)
  MaxLosses    \* bound: the losses of power in a behaviour

ASSUME HistoryAssumption ==
  NoRebuild \notin Seq(Entry) /\ MaxLosses \in Nat

VARIABLES
  acked,       \* the keys whose last put that returned 0 was no deletion
  wear,        \* how often each sector was erased
  losses       \* how often the power failed

history == <<acked, wear, losses>>

HInit ==
  /\ Init
  /\ acked = {}
  /\ wear = [s \in Sectors |-> 0] /\ losses = 0

Acknowledge ==
  /\ PutCount
  /\ acked' = IF cur.val = EmptyVal THEN acked \ {cur.key} ELSE acked \cup {cur.key}
  /\ UNCHANGED <<wear, losses>>

EraseCounted ==
  /\ ScanEmpty \/ CompactErase
  /\ wear' = [wear EXCEPT ![addr'] = @ + 1]
  /\ UNCHANGED <<acked, losses>>

LossCounted ==
  /\ PowerLoss /\ losses < MaxLosses
  /\ losses' = losses + 1
  /\ UNCHANGED <<acked, wear>>

OtherStep ==
  /\ \/ InitBegin \/ ScanSector \/ ScanFound \/ FormatHeader
     \/ PutProgram \/ PutOverrun
     \/ CompactHeader \/ CompactCopy \/ CompactCount
     \/ \E k \in Keys, v \in Values : Put(k, v)
     \/ \E k \in Keys : Del(k)
  /\ UNCHANGED history

HStep == Acknowledge \/ EraseCounted \/ LossCounted \/ OtherStep

HSpec == HInit /\ [][HStep]_<<vars, history>>

HFairSpec == HSpec /\ WF_<<vars, history>>(Step /\ HStep)

-----------------------------------------------------------------------------
(***************************************************************************)
(* Wear levelling: the ring is erased in turn, so no two sectors' erase    *)
(* counts differ by more than one, plus one for each reset that made the   *)
(* store erase again a sector it had erased and given no header.           *)
(***************************************************************************)
WearLevelled ==
  \A s, t \in Sectors : wear[s] - wear[t] <= 1 + losses

(***************************************************************************)
(* The entries a reset would find, as DurableLog describes them.           *)
(***************************************************************************)
ValidSectors == {s \in Sectors : flash[s].magic}

Newest == CHOOSE s \in ValidSectors : \A t \in ValidSectors : flash[t].seq <= flash[s].seq

DurableEntries == IF ValidSectors = {} THEN <<>> ELSE Committed(Newest)

Durable == INSTANCE DurableLog WITH
  Entries <- [key : Keys, val : Values, at : PageSize .. SectorSize],
  log <- DurableEntries,
  rebuild <- IF pc = "compact_copy" THEN saved ELSE NoRebuild

\* The store implements DurableLog.
ImplementsDurableLog == Durable!Spec

-----------------------------------------------------------------------------
\* What the repository says of the store and the code does not do.

(***************************************************************************)
(* "flash_load" of "hello flash", tests/test_flash.py:9: what a put that   *)
(* returned 0 wrote can be loaded.                                         *)
(***************************************************************************)
LoadsBack == [][Acknowledge => Found(cur.key)']_<<vars, history>>

(***************************************************************************)
(* "Survives power cycles", flash_store.h:2: while the store is ready, a   *)
(* key that a put stored and returned 0 for, and that was not deleted      *)
(* since, is found, whenever the power failed.                             *)
(***************************************************************************)
SurvivesPowerCycles == pc = "idle" => \A k \in acked : Found(k)
=============================================================================
