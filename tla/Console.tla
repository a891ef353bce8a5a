------------------------------ MODULE Console ------------------------------
(***************************************************************************)
(* The framebuffer console, display/hstx_display.h: a cursor and one array *)
(* of character cells, row after row, that con_putchar_raw writes by       *)
(* offset and con_scroll moves up by a row.  A cell stands for 8 x 8       *)
(* pixels: a row of cells is exactly FB_WIDTH pixels wide.                 *)
(*                                                                         *)
(* A write outside the array is not lost: it becomes a cell of framebuf    *)
(* that TypeOK does not allow.  con_setpos, which nothing calls, and       *)
(* programs that draw over the text are left out.                          *)
(***************************************************************************)
EXTENDS Integers, Sequences

CONSTANTS
  Width, Height,  \* CON_W and CON_H
  Glyphs,         \* the characters from 32 to 126, the space aside
  Blank,          \* a cell of CON_BG; a space looks the same
  MaxGone         \* bound: the lines that may scroll off

ASSUME ConsoleAssumption ==
  /\ Width \in Nat \ {0} /\ Height \in Nat \ {0}
  /\ Blank \notin Glyphs
  /\ MaxGone \in Nat

Chars == Glyphs \union {Blank}

VARIABLES
  framebuf,   \* the cells, by offset
  con_cx,
  con_cy,
  gone        \* history: the lines that scrolled off since the last clear

vars == <<framebuf, con_cx, con_cy, gone>>

Cells == 0 .. Width * Height - 1
Columns == 0 .. Width - 1
Rows == 0 .. Height - 1

Row(y) == [c \in Columns |-> framebuf[y * Width + c]]

Init ==
  /\ framebuf = [o \in Cells |-> Blank]
  /\ con_cx = 0 /\ con_cy = 0 /\ gone = <<>>

\* Mutant: the row at the bottom is not cleared.
ScrolledMutant ==
  [o \in Cells |-> IF o + Width \in Cells THEN framebuf[o + Width] ELSE framebuf[o]]

\* con_scroll: every row moves up, and the last one is cleared.
Scrolled ==
  [o \in Cells |-> IF o + Width \in Cells THEN framebuf[o + Width] ELSE Blank]

AtBottom == con_cy + 1 >= Height

\* The cells with room for one more row below the cursor.
RoomMade == IF AtBottom THEN Scrolled ELSE framebuf

NextRow ==
  IF AtBottom
  THEN /\ Len(gone) < MaxGone
       /\ con_cy' = Height - 1 /\ gone' = Append(gone, Row(0))
  ELSE con_cy' = con_cy + 1 /\ UNCHANGED gone

Newline == NextRow /\ con_cx' = 0 /\ framebuf' = RoomMade

CarriageReturn == con_cx' = 0 /\ UNCHANGED <<framebuf, con_cy, gone>>

Backspace ==
  /\ con_cx > 0
  /\ con_cx' = con_cx - 1
  /\ UNCHANGED <<framebuf, con_cy, gone>>

\* The cells after c was drawn at column x, row y of fb.
Drawn(fb, x, y, c) ==
  [o \in DOMAIN fb \union {y * Width + x} |-> IF o = y * Width + x THEN c ELSE fb[o]]

PutInRow(c) ==
  /\ framebuf' = Drawn(framebuf, con_cx, con_cy, c)
  /\ con_cx' = con_cx + 1
  /\ UNCHANGED <<con_cy, gone>>

\* Mutant: the row may have one character more.
PutMutant(c) == con_cx <= Width /\ PutInRow(c)

Put(c) == con_cx < Width /\ PutInRow(c)

\* A character after a full row.
PutWrapped(c) ==
  /\ con_cx >= Width
  /\ NextRow
  /\ framebuf' = Drawn(RoomMade, 0, con_cy', c)
  /\ con_cx' = 1

Clear ==
  /\ framebuf' = [o \in Cells |-> Blank]
  /\ con_cx' = 0 /\ con_cy' = 0 /\ gone' = <<>>

Next ==
  \/ Newline \/ CarriageReturn \/ Backspace \/ Clear
  \/ \E c \in Chars : Put(c) \/ PutWrapped(c)

Spec == Init /\ [][Next]_vars

-----------------------------------------------------------------------------
(***************************************************************************)
(* No character is drawn outside the screen, and the cursor stays on it;   *)
(* it may be one column past the end of a full row.                        *)
(***************************************************************************)
TypeOK ==
  /\ framebuf \in [Cells -> Chars]
  /\ con_cx \in 0 .. Width /\ con_cy \in Rows
  /\ gone \in Seq([Columns -> Chars])

(***************************************************************************)
(* The console implements a terminal of unbounded length, of which the     *)
(* screen shows the last lines.                                            *)
(***************************************************************************)
T == INSTANCE Terminal WITH
  Glyphs <- Chars,
  lines <- gone \o [i \in 1 .. con_cy + 1 |-> Row(i - 1)],
  col <- con_cx

ImplementsTerminal == T!Spec
=============================================================================
