--------------------------- MODULE MCFlashHistory ---------------------------
(***************************************************************************)
(* Instances of the flash store for TLC.  Sizes are scaled down (a page of *)
(* 16 bytes, a sector of four pages) so that a sector holds two to four    *)
(* entries: an entry is 8, 16 or 20 bytes.                                 *)
(***************************************************************************)
EXTENDS FlashHistory, Bitwise

CONSTANTS none, big, long

MCAnd(m, n) == m & n

MCKeyLen == [k \in Keys |-> 4]

\* An entry with the value long is longer than the staging page, as the
\* longest entries are in the code (322 bytes and 256).
MCValLen == [v \in Values |-> CASE v = none -> 0
                                [] v = big  -> 8
                                [] v = long -> 9]
=============================================================================
