------------------------------ MODULE MCGfxVM ------------------------------
(***************************************************************************)
(* Instances of the graphics VM for TLC: RAM for four instructions, a      *)
(* frame of three and an srvm_run of six.                                  *)
(***************************************************************************)
EXTENDS GfxVM

Op(op) == [op |-> op]
JumpBy(n) == [op |-> "jump", offset |-> n]
BranchBy(n) == [op |-> "branch", offset |-> n]
Set(k, v) == [op |-> "set", key |-> k, val |-> v]

Gfx(code, entry) == [code |-> code, entry |-> entry]
Srvm(code, consts) == [code |-> code, consts |-> consts, hasChunk |-> TRUE]
\* A constant whose double has the low word n.
Num(n) == [type |-> "number", low |-> n]
Str == [type |-> "string"]

\* One key on either side of the window.
MCKeys == -1 .. Window

MCPrograms == {
  Gfx(<<Op("plain"), Op("halt")>>, 0),
  Gfx(<<Set(0, 7), BranchBy(-2), Op("ecall")>>, 0),
  Gfx(<<Op("plain"), Set(2, 8), JumpBy(0)>>, 1),
  Gfx(<<Set(-1, 6), Op("jalr"), Set(3, 6)>>, 0),
  Gfx(<<Op("halt")>>, RamSize)}

MCSrvmPrograms == {
  Srvm(<<Set(1, 9), Op("halt")>>, <<>>),
  Srvm(<<Set(2, 4), JumpBy(0)>>, <<Num(5), Num(6)>>),
  Srvm(<<Set(0, 7), Set(2, 9), Op("ecall"), BranchBy(-3)>>, <<Str, Num(5)>>),
  [code |-> <<>>, consts |-> <<Num(5)>>, hasChunk |-> FALSE]}
=============================================================================
