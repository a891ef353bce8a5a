------------------------------ MODULE GfxDraw ------------------------------
(***************************************************************************)
(* What draws into the framebuffer: the custom instructions FILL_RECT and  *)
(* BLIT of vm/rvvm.h, the FILL line of the assembler in vm/gfx_vm.sage,    *)
(* and disp_rect and disp_clear of display/hstx_display.h.  They write     *)
(* through offsets into one array of pixels; the properties speak of       *)
(* pixels at a column and a row.                                           *)
(*                                                                         *)
(* outside remembers the offsets outside the array that were written, and  *)
(* op the last operation as its caller asked for it.  What lies around the *)
(* array is left out.                                                      *)
(***************************************************************************)
EXTENDS Integers

CONSTANTS
  Width, Height,  \* fb_width and fb_height
  Colors,
  Half,           \* 2^16: the values of each half of an operand word
  ImmHalf,        \* 2^11: half of the values of an I-type immediate
  RamPixel,       \* the color each byte of RAM stands for
  Extents,        \* the widths and heights the callers use
  Corners         \* the coordinates they use, negative ones for disp_rect only

Size == Width * Height

ASSUME DrawAssumption ==
  /\ {Width, Height, Half, ImmHalf} \subseteq Nat \ {0}
  /\ 2 * ImmHalf <= Half /\ Colors # {}
  /\ Width <= Half /\ Height <= Half
  /\ 0 \in DOMAIN RamPixel /\ \A a \in DOMAIN RamPixel : RamPixel[a] \in Colors
  /\ Extents \subseteq 0 .. Half - 1 /\ Corners \subseteq Int

VARIABLES
  framebuf,   \* the pixels, by offset
  outside,    \* the offsets outside the array the last operation wrote to
  op          \* [kind, x, y, w, h, color, src]: what was asked for last

drawVars == <<framebuf, outside, op>>

Columns == 0 .. Width - 1
Rows == 0 .. Height - 1

Blank == CHOOSE c \in Colors : TRUE

NoOp == [kind |-> "none", x |-> 0, y |-> 0, w |-> 0, h |-> 0, color |-> Blank, src |-> 0]

Asked(kind, x, y, w, h, color, src) ==
  [kind |-> kind, x |-> x, y |-> y, w |-> w, h |-> h, color |-> color, src |-> src]

DrawInit == framebuf = [o \in 0 .. Size - 1 |-> Blank] /\ outside = {} /\ op = NoOp

Offset(x, y) == y * Width + x

\* c[o] is written at each offset o of writes.
Write(writes, c) ==
  /\ framebuf' = [o \in DOMAIN framebuf |-> IF o \in writes THEN c[o] ELSE framebuf[o]]
  /\ outside' = writes \ DOMAIN framebuf

\* A loop from a on, n times, that stops at the border.
UpTo(a, n, border) == {d \in a .. a + n - 1 : d < border}

-----------------------------------------------------------------------------
(* FILL_RECT *)

\* An I-type immediate, sign-extended to a word of two halves.
Immediates == -ImmHalf .. ImmHalf - 1
ImmWord(imm) == imm % (Half * Half)
LowHalf(imm) == ImmWord(imm) % Half
HighHalf(imm) == ImmWord(imm) \div Half

\* Mutant: the row is as long as asked for.
RowLenMutant(x, w) == w

RowLen(x, w) == IF x + w <= Width THEN w ELSE Width - x

\* Mutant: the loop does not stop at the bottom border.
FillRowsMutant(y, h) == y .. y + h - 1

FillRows(y, h) == UpTo(y, h, Height)

\* One memset per row, if the corner is on the screen.
FillOffsets(x, y, w, h) ==
  IF x < Width /\ y < Height
  THEN UNION {Offset(x, r) .. Offset(x, r) + RowLen(x, w) - 1 : r \in FillRows(y, h)}
  ELSE {}

Fill(x, y, w, h, color) ==
  LET writes == FillOffsets(x, y, w, h)
  IN  Write(writes, [o \in writes |-> color])

\* Both extents come out of the one immediate.
FillRect(x, y, imm, color) ==
  /\ Fill(x, y, LowHalf(imm), HighHalf(imm), color)
  /\ op' = Asked("fill", x, y, LowHalf(imm), HighHalf(imm), color, 0)

\* asm_i_type keeps the low bits of h * 65536 + w, and the VM extends their sign.
Assembled(w, h) ==
  LET field == (h * Half + w) % (2 * ImmHalf)
  IN  IF field < ImmHalf THEN field ELSE field - (2 * ImmHalf)

\* A line FILL color x y w h.  The operand y is not encoded: what the VM
\* takes for the row is a register named by bits of the immediate.
FillLine(x, y, w, h, color) ==
  /\ Fill(x, y, LowHalf(Assembled(w, h)), HighHalf(Assembled(w, h)), color)
  /\ op' = Asked("line", x, y, w, h, color, 0)

-----------------------------------------------------------------------------
(* disp_rect, disp_clear and BLIT *)

\* A loop per row and per column; neither looks at the left and top borders.
DispRect(x, y, w, h, color) ==
  LET writes == {Offset(dx, dy) : dx \in UpTo(x, w, Width), dy \in UpTo(y, h, Height)}
  IN  /\ Write(writes, [o \in writes |-> color])
      /\ op' = Asked("disp_rect", x, y, w, h, color, 0)

DispClear(color) ==
  /\ Write(0 .. Size - 1, [o \in 0 .. Size - 1 |-> color])
  /\ op' = Asked("clear", 0, 0, Width, Height, color, 0)

\* Mutant: a row of the source is as long as a row of the screen.
SourceMutant(src, dx, dy, w) == IF dy * Width + dx \in DOMAIN RamPixel THEN dy * Width + dx ELSE 0

\* The byte that row dy, column dx of a BLIT reads; src_addr is not used.
Source(src, dx, dy, w) == dy * w + dx

\* A later row overwrites the part of an earlier one that ran on.  Reading
\* outside RAM is undefined and left out.
Blit(x, y, src, w, h) ==
  LET Row(o) == {dy \in 0 .. h - 1 : Offset(x, y + dy) <= o /\ o < Offset(x, y + dy) + w}
      Last(o) == CHOOSE dy \in Row(o) : \A d \in Row(o) : d <= dy
      writes == {o \in 0 .. Size - 1 : Row(o) # {}}
      Byte(o) == Source(src, o - Offset(x, y + Last(o)), Last(o), w)
  IN  /\ \A dx \in 0 .. w - 1, dy \in 0 .. h - 1 :
           Source(src, dx, dy, w) \in DOMAIN RamPixel
      /\ Write(writes, [o \in writes |-> RamPixel[Byte(o)]])
      /\ op' = Asked("blit", x, y, w, h, Blank, src)

DrawNext ==
  \/ \E x, y \in Corners \cap Nat, color \in Colors :
       \/ \E imm \in Immediates : FillRect(x, y, imm, color)
       \/ \E w, h \in Extents \ {0} : FillLine(x, y, w, h, color)
  \/ \E x, y \in Corners, w, h \in Extents, color \in Colors : DispRect(x, y, w, h, color)
  \/ \E color \in Colors : DispClear(color)
  \/ \E x, y \in Corners \cap Nat, w, h \in Extents, src \in DOMAIN RamPixel :
       Blit(x, y, src, w, h)

DrawSpec == DrawInit /\ [][DrawNext]_drawVars

-----------------------------------------------------------------------------
(***************************************************************************)
(* FILL_RECT, the FILL line, BLIT and disp_clear write nowhere but in the  *)
(* framebuffer, whatever their operands.  Nothing writes behind its end,   *)
(* and before it only disp_rect does, when its caller gives it a corner    *)
(* left of the screen or above it, which the code does not check.          *)
(***************************************************************************)
DrawTypeOK ==
  /\ framebuf \in [0 .. Size - 1 -> Colors]
  /\ op.kind \in {"none", "fill", "line", "disp_rect", "clear", "blit"}
  /\ \A o \in outside : o < 0 /\ op.kind = "disp_rect" /\ (op.x < 0 \/ op.y < 0)

Inside(px, py) == px \in op'.x .. op'.x + op'.w - 1 /\ py \in op'.y .. op'.y + op'.h - 1

\* The step paints the part of its rectangle that is on the screen.
Paints ==
  \A px \in Columns, py \in Rows :
    framebuf'[Offset(px, py)] =
      IF Inside(px, py) THEN op'.color ELSE framebuf[Offset(px, py)]

(***************************************************************************)
(* FILL_RECT, disp_clear, and disp_rect from any column of the screen or   *)
(* right of it, paint exactly the pixels of their rectangle that are on    *)
(* the screen: no row runs on into the next one, whatever the extents,     *)
(* those that a negative immediate makes of its sign included.  It is the  *)
(* rectangle the VM decodes: the FILL line of the assembler, which is to   *)
(* fill 91x50 pixels in docs/graphics_vm.md:152, passes on the low bits of *)
(* its extents and no row, and is not among them.                          *)
(***************************************************************************)
FillClips ==
  [][op'.kind \in {"fill", "disp_rect", "clear"} /\ op'.x >= 0 => Paints]_drawVars

\* The step copies the bytes from address a on to the visible part of its
\* rectangle, row by row.
Copies(a) ==
  \A px \in Columns, py \in Rows :
    LET byte == a + (py - op'.y) * op'.w + (px - op'.x)
    IN  IF Inside(px, py)
        THEN byte \in DOMAIN RamPixel /\ framebuf'[Offset(px, py)] = RamPixel[byte]
        ELSE framebuf'[Offset(px, py)] = framebuf[Offset(px, py)]

(***************************************************************************)
(* A BLIT whose rows fit the screen copies one stretch of RAM, row by row, *)
(* to the part of its rectangle above the bottom border, and changes no    *)
(* other pixel.  It does not say which stretch: src_addr is not used by    *)
(* the code (rvvm.h:308).  A BLIT across the right border goes on in the   *)
(* next row, and is not claimed to be right.                               *)
(***************************************************************************)
BlitExact ==
  [][op'.kind = "blit" /\ op'.x + op'.w <= Width =>
       \E a \in DOMAIN RamPixel : Copies(a)]_drawVars
=============================================================================
