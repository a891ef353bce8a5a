----------------------------- MODULE DurableLog -----------------------------
(***************************************************************************)
(* What the flash store promises of the entries a reset would find, with   *)
(* the sectors, the sequence numbers and the scan of the real store left   *)
(* out: a log that survives every reset, grows by one entry at a time, and *)
(* is now and then rebuilt.  A rebuild empties the log first and fills it  *)
(* with a prefix of what it held later; a reset in between leaves it       *)
(* empty.  There is no other way to lose an entry.                         *)
(***************************************************************************)
EXTENDS Naturals, Sequences

CONSTANTS
  Entries,
  NoRebuild   \* not a sequence of entries

VARIABLES
  log,      \* the entries a reset would find
  rebuild   \* the entries set aside by a rebuild, or NoRebuild

Init == log = <<>> /\ rebuild = NoRebuild

Prefix(s, n) == SubSeq(s, 1, n)

Append1(e) ==
  /\ rebuild = NoRebuild
  /\ log' = Append(log, e)
  /\ UNCHANGED rebuild

BeginRebuild ==
  /\ rebuild = NoRebuild
  /\ \E n \in 0 .. Len(log) : rebuild' = Prefix(log, n)
  /\ log' = <<>>

EndRebuild ==
  /\ rebuild # NoRebuild
  /\ \E n \in 0 .. Len(rebuild) : log' = Prefix(rebuild, n)
  /\ rebuild' = NoRebuild

Reset == rebuild' = NoRebuild /\ UNCHANGED log

Next ==
  \/ \E e \in Entries : Append1(e)
  \/ BeginRebuild \/ EndRebuild \/ Reset

Spec == Init /\ [][Next]_<<log, rebuild>>
=============================================================================
