---------------------------- MODULE TerminalProofs ---------------------------
(***************************************************************************)
(* Proofs about the two terminals.                                         *)
(*                                                                         *)
(* The framebuffer console implements a terminal of unbounded length, for  *)
(* every width and height of the screen: the lines that have scrolled off  *)
(* and the rows down to the cursor are the terminal's lines.  That needs   *)
(* one thing more than the types: the rows below the cursor are blank,     *)
(* because the cursor moves onto them without clearing them.               *)
(*                                                                         *)
(* sagecom passes everything on in both directions, for reads of every     *)
(* size: what was shown and what the port holds are what was sent, and     *)
(* what was written is what the keys mean that were handled.               *)
(***************************************************************************)
EXTENDS Console, Sagecom, DataLemmas

\* Row(y), and the lines g followed by the rows up to y, of any cells.
RowOf(fb, y) == [c \in Columns |-> fb[y * Width + c]]
LinesOf(g, fb, y) == g \o [i \in 1 .. y + 1 |-> RowOf(fb, i - 1)]

Line == [Columns -> Chars]
BlankLine == [c \in Columns |-> Blank]

\* The rows of fb below row y are blank.
BlankBelow(fb, y) == \A z \in Rows : z > y => RowOf(fb, z) = BlankLine

IInv == TypeOK /\ BlankBelow(framebuf, con_cy)

-----------------------------------------------------------------------------
(* Rows and offsets *)

LEMMA Sizes == Width \in Nat \ {0} /\ Height \in Nat \ {0}
BY ConsoleAssumption

LEMMA BlankLineType == BlankLine \in Line
BY DEF BlankLine, Line, Chars

\* Every place of the screen has an offset of its own.
LEMMA OffsetIsCell ==
  ASSUME NEW y \in Rows, NEW c \in Columns
  PROVE  y * Width + c \in Cells
<1>1. y \in Nat /\ c \in Nat /\ c < Width /\ y + 1 <= Height
  BY Sizes DEF Rows, Columns
<1>2. (y + 1) * Width <= Height * Width /\ y * Width \in Nat /\ Height * Width \in Nat
  BY <1>1, Sizes, SMT
<1>3. (y + 1) * Width = y * Width + Width /\ Height * Width = Width * Height
  BY <1>1, Sizes, SMT
<1> QED BY <1>1, <1>2, <1>3, Sizes DEF Cells

LEMMA OffsetsDiffer ==
  ASSUME NEW y \in Nat, NEW z \in Nat, NEW c \in Columns, NEW d \in Columns,
         y * Width + c = z * Width + d
  PROVE  y = z /\ c = d
<1>1. c \in 0 .. Width - 1 /\ d \in 0 .. Width - 1 /\ y * Width \in Nat /\ z * Width \in Nat
  BY Sizes, SMT DEF Columns
<1>2. ~(y < z)
  <2>1. y < z => (y + 1) * Width <= z * Width
    BY Sizes, SMT
  <2>2. (y + 1) * Width = y * Width + Width
    BY Sizes, SMT
  <2> QED BY <1>1, <2>1, <2>2, Sizes
<1>3. ~(z < y)
  <2>1. z < y => (z + 1) * Width <= y * Width
    BY Sizes, SMT
  <2>2. (z + 1) * Width = z * Width + Width
    BY Sizes, SMT
  <2> QED BY <1>1, <2>1, <2>2, Sizes
<1>4. y = z
  BY <1>2, <1>3
<1> QED BY <1>1, <1>4

LEMMA RowType ==
  ASSUME NEW fb \in [Cells -> Chars], NEW y \in Rows
  PROVE  RowOf(fb, y) \in Line
BY OffsetIsCell DEF RowOf, Line

\* A character drawn at a place of the screen changes that place of its row, and
\* no other row.
LEMMA DrawnRows ==
  ASSUME NEW fb \in [Cells -> Chars], NEW x \in Columns, NEW y \in Rows, NEW ch \in Chars
  PROVE  /\ Drawn(fb, x, y, ch) \in [Cells -> Chars]
         /\ RowOf(Drawn(fb, x, y, ch), y) = [RowOf(fb, y) EXCEPT ![x] = ch]
         /\ \A z \in Rows : z # y => RowOf(Drawn(fb, x, y, ch), z) = RowOf(fb, z)
<1> DEFINE new == Drawn(fb, x, y, ch)
<1>1. y * Width + x \in Cells
  BY OffsetIsCell
<1>2. new = [o \in Cells |-> IF o = y * Width + x THEN ch ELSE fb[o]]
  BY <1>1 DEF Drawn
<1>3. new \in [Cells -> Chars]
  BY <1>2
<1>4. ASSUME NEW z \in Rows, NEW c \in Columns
      PROVE  new[z * Width + c] = IF z = y /\ c = x THEN ch ELSE fb[z * Width + c]
  <2>1. z * Width + c \in Cells
    BY OffsetIsCell
  <2>2. z \in Nat /\ y \in Nat
    BY Sizes DEF Rows
  <2>3. z * Width + c = y * Width + x => z = y /\ c = x
    BY <2>2, OffsetsDiffer
  <2> QED BY <1>2, <2>1, <2>3
<1> HIDE DEF new
<1>5. RowOf(new, y) = [RowOf(fb, y) EXCEPT ![x] = ch]
  BY <1>4 DEF RowOf
<1>6. \A z \in Rows : z # y => RowOf(new, z) = RowOf(fb, z)
  BY <1>4 DEF RowOf
<1> QED BY <1>3, <1>5, <1>6 DEF new

\* con_scroll moves every row up by one and leaves a blank one.
LEMMA ScrolledRows ==
  ASSUME framebuf \in [Cells -> Chars]
  PROVE  /\ Scrolled \in [Cells -> Chars]
         /\ \A y \in Rows : RowOf(Scrolled, y) =
              IF y + 1 \in Rows THEN RowOf(framebuf, y + 1) ELSE BlankLine
<1>1. Scrolled \in [Cells -> Chars]
  BY DEF Scrolled, Chars
<1>2. ASSUME NEW y \in Rows, NEW c \in Columns
      PROVE  Scrolled[y * Width + c] =
               IF y + 1 \in Rows THEN framebuf[(y + 1) * Width + c] ELSE Blank
  <2>1. y * Width + c \in Cells
    BY OffsetIsCell
  <2>2. y \in Nat /\ c \in Nat /\ y * Width \in Nat
    BY Sizes, SMT DEF Rows, Columns
  <2>3. y * Width + c + Width = (y + 1) * Width + c
    <3>1. (y + 1) * Width = y * Width + Width
      BY <2>2, Sizes, SMT
    <3> QED BY <2>2, <3>1, Sizes
  <2>4. CASE y + 1 \in Rows
    <3>1. (y + 1) * Width + c \in Cells
      BY <2>4, OffsetIsCell
    <3> QED BY <2>1, <2>3, <2>4, <3>1 DEF Scrolled
  <2>5. CASE y + 1 \notin Rows
    <3>1. y + 1 = Height
      BY <2>5, Sizes DEF Rows
    <3>2. (y + 1) * Width = Width * Height /\ Width * Height \in Nat
      BY <3>1, Sizes, SMT
    <3>3. (y + 1) * Width + c \notin Cells
      BY <2>2, <3>2 DEF Cells
    <3> QED BY <2>1, <2>3, <2>5, <3>3 DEF Scrolled
  <2> QED BY <2>4, <2>5
<1>3. ASSUME NEW y \in Rows
      PROVE  RowOf(Scrolled, y) = IF y + 1 \in Rows THEN RowOf(framebuf, y + 1) ELSE BlankLine
  BY <1>2 DEF RowOf, BlankLine
<1> QED BY <1>1, <1>3

-----------------------------------------------------------------------------
(* Lines *)

LEMMA LinesAre ==
  ASSUME NEW g \in Seq(Line), NEW fb, NEW y \in Nat \union {-1}
  PROVE  /\ Len(LinesOf(g, fb, y)) = Len(g) + y + 1
         /\ \A i \in 1 .. Len(g) : LinesOf(g, fb, y)[i] = g[i]
         /\ \A i \in 1 .. y + 1 : LinesOf(g, fb, y)[Len(g) + i] = RowOf(fb, i - 1)
         /\ LinesOf(g, fb, y) = [i \in 1 .. Len(g) + y + 1 |->
              IF i <= Len(g) THEN g[i] ELSE RowOf(fb, i - Len(g) - 1)]
<1> DEFINE rows == [i \in 1 .. y + 1 |-> RowOf(fb, i - 1)]
<1>1. rows \in Seq({RowOf(fb, i) : i \in Nat}) /\ Len(rows) = y + 1
  OBVIOUS
<1>2. /\ Len(g \o rows) = Len(g) + y + 1 /\ Len(g) \in Nat
      /\ g \o rows = [i \in 1 .. Len(g) + y + 1 |-> IF i <= Len(g) THEN g[i] ELSE rows[i - Len(g)]]
  <2> DEFINE both == Line \union {RowOf(fb, i) : i \in Nat}
  <2>1. g \in Seq(both) /\ rows \in Seq(both)
    BY <1>1
  <2> HIDE DEF rows, both
  <2>2. /\ g \o rows \in Seq(both) /\ Len(g \o rows) = Len(g) + Len(rows) /\ Len(g) \in Nat
        /\ \A i \in 1 .. Len(g) + Len(rows) :
             (g \o rows)[i] = IF i <= Len(g) THEN g[i] ELSE rows[i - Len(g)]
    BY <2>1
  <2>3. Len(g) + Len(rows) = Len(g) + y + 1
    BY <1>1, <2>2
  <2>4. \A z \in Seq(both) : z = [i \in 1 .. Len(z) |-> z[i]]
    OBVIOUS
  <2>5. g \o rows = [i \in 1 .. Len(g \o rows) |-> (g \o rows)[i]]
    BY <2>2, <2>4, Zenon
  <2> QED BY <2>2, <2>3, <2>5
<1>3. \A i \in 1 .. Len(g) + y + 1 : ~(i <= Len(g)) => rows[i - Len(g)] = RowOf(fb, i - Len(g) - 1)
  BY <1>2
<1>4. \A i \in 1 .. y + 1 : /\ Len(g) + i \in 1 .. Len(g) + y + 1 /\ ~(Len(g) + i <= Len(g))
                           /\ Len(g) + i - Len(g) - 1 = i - 1
  BY <1>2
<1>5. LinesOf(g, fb, y) = g \o rows
  BY DEF LinesOf
<1>6. LinesOf(g, fb, y) = [i \in 1 .. Len(g) + y + 1 |->
              IF i <= Len(g) THEN g[i] ELSE RowOf(fb, i - Len(g) - 1)]
  <2> HIDE DEF rows
  <2> QED BY <1>2, <1>3, <1>5
<1>7. \A i \in 1 .. Len(g) : i \in 1 .. Len(g) + y + 1
  BY <1>2
<1> QED BY <1>2, <1>4, <1>5, <1>6, <1>7

\* The lines of the same rows are the same.
LEMMA SameLines ==
  ASSUME NEW g, NEW fb, NEW fc, NEW y \in Rows,
         \A z \in Rows : z <= y => RowOf(fc, z) = RowOf(fb, z)
  PROVE  LinesOf(g, fc, y) = LinesOf(g, fb, y)
<1>1. \A i \in 1 .. y + 1 : i - 1 \in Rows /\ i - 1 <= y
  BY Sizes DEF Rows
<1> QED BY <1>1 DEF LinesOf

\* One more row shown is one more line.
LEMMA OneMoreRow ==
  ASSUME NEW g \in Seq(Line), NEW fb, NEW y \in Nat \union {-1}
  PROVE  LinesOf(g, fb, y + 1) = Append(LinesOf(g, fb, y), RowOf(fb, y + 1))
<1> DEFINE rows(n) == [i \in 1 .. n |-> RowOf(fb, i - 1)]
<1>1. rows(y + 1) \in Seq({RowOf(fb, i) : i \in Nat}) /\ Len(rows(y + 1)) = y + 1
  OBVIOUS
<1>2. y + 1 + 1 = y + 2 /\ y + 2 - 1 = y + 1
  OBVIOUS
<1>3. rows(y + 2) = Append(rows(y + 1), RowOf(fb, y + 1))
  BY <1>1, <1>2
<1>4. g \o Append(rows(y + 1), RowOf(fb, y + 1)) = Append(g \o rows(y + 1), RowOf(fb, y + 1))
  <2> HIDE DEF rows
  <2> QED BY <1>1
<1> QED BY <1>2, <1>3, <1>4 DEF LinesOf

\* A line that scrolls off the screen is still a line.
LEMMA RowScrollsOff ==
  ASSUME NEW g \in Seq(Line), NEW fb, NEW fc, NEW y \in Nat \union {-1}, RowOf(fb, 0) \in Line,
         \A z \in 0 .. y : RowOf(fc, z) = RowOf(fb, z + 1)
  PROVE  LinesOf(Append(g, RowOf(fb, 0)), fc, y) = LinesOf(g, fb, y + 1)
<1> DEFINE h == Append(g, RowOf(fb, 0))
           n == Len(g)
<1>1. h \in Seq(Line) /\ Len(h) = n + 1 /\ n \in Nat /\ h[n + 1] = RowOf(fb, 0)
      /\ \A i \in 1 .. n : h[i] = g[i]
  OBVIOUS
<1> HIDE DEF h
<1>2. LinesOf(h, fc, y) = [i \in 1 .. n + 1 + y + 1 |->
              IF i <= n + 1 THEN h[i] ELSE RowOf(fc, i - (n + 1) - 1)]
  BY <1>1, LinesAre
<1>3. LinesOf(g, fb, y + 1) = [i \in 1 .. n + (y + 1) + 1 |->
              IF i <= n THEN g[i] ELSE RowOf(fb, i - n - 1)]
  <2>1. y + 1 \in Nat \union {-1}
    OBVIOUS
  <2> QED BY <2>1, LinesAre
<1> HIDE DEF n
<1>4. n + 1 + y + 1 = n + (y + 1) + 1
  BY <1>1
<1>5. ASSUME NEW i \in 1 .. n + 1 + y + 1
      PROVE  (IF i <= n + 1 THEN h[i] ELSE RowOf(fc, i - (n + 1) - 1))
               = (IF i <= n THEN g[i] ELSE RowOf(fb, i - n - 1))
  <2>1. CASE i <= n
    BY <1>1, <2>1
  <2>2. CASE i = n + 1
    <3>1. n + 1 - n - 1 = 0 /\ n + 1 <= n + 1 /\ ~(n + 1 <= n)
      BY <1>1
    <3> QED BY <1>1, <2>2, <3>1
  <2>3. CASE i > n + 1
    <3>1. i - (n + 1) - 1 \in 0 .. y /\ i - (n + 1) - 1 + 1 = i - n - 1
      BY <1>1, <2>3
    <3>2. ~(i <= n + 1) /\ ~(i <= n)
      BY <1>1, <2>3
    <3> QED BY <3>1, <3>2
  <2> QED BY <1>1, <2>1, <2>2, <2>3
<1>6. [i \in 1 .. n + 1 + y + 1 |-> IF i <= n + 1 THEN h[i] ELSE RowOf(fc, i - (n + 1) - 1)]
        = [i \in 1 .. n + (y + 1) + 1 |-> IF i <= n THEN g[i] ELSE RowOf(fb, i - n - 1)]
  BY <1>4, <1>5, Zenon
<1> QED BY <1>2, <1>3, <1>6 DEF h

\* A last line that is replaced might as well have been appended.
LEMMA LastLineReplaced ==
  ASSUME NEW l \in Seq(Line), NEW b \in Line, NEW e \in Line
  PROVE  [Append(l, b) EXCEPT ![Len(Append(l, b))] = e] = Append(l, e)
<1> DEFINE old == Append(l, b)
           new == Append(l, e)
           m == [old EXCEPT ![Len(old)] = e]
<1>1. /\ old \in Seq(Line) /\ new \in Seq(Line) /\ Len(l) \in Nat
      /\ Len(old) = Len(l) + 1 /\ Len(new) = Len(l) + 1 /\ new[Len(l) + 1] = e
      /\ \A i \in 1 .. Len(l) : old[i] = l[i] /\ new[i] = l[i]
  OBVIOUS
<1> HIDE DEF old, new
<1>2. old \in [1 .. Len(l) + 1 -> Line] /\ new \in [1 .. Len(l) + 1 -> Line]
  BY <1>1
<1>3. \A i \in 1 .. Len(l) + 1 : m[i] = new[i]
  BY <1>1, <1>2
<1>4. m \in [1 .. Len(l) + 1 -> Line]
  BY <1>1, <1>2
<1>5. m = new
  <2> HIDE DEF m
  <2> QED BY <1>2, <1>3, <1>4
<1> QED BY <1>5 DEF old, new

\* A character drawn in the cursor's row changes the last line alone.
LEMMA DrawnLastLine ==
  ASSUME NEW g \in Seq(Line), NEW fb \in [Cells -> Chars],
         NEW x \in Columns, NEW y \in Rows, NEW ch \in Chars
  PROVE  LET l == LinesOf(g, fb, y)
         IN  LinesOf(g, Drawn(fb, x, y, ch), y) = [l EXCEPT ![Len(l)] = [@ EXCEPT ![x] = ch]]
<1> DEFINE l == LinesOf(g, fb, y)
           fc == Drawn(fb, x, y, ch)
           m == LinesOf(g, fc, y)
           n == Len(g)
<1>1. y \in Nat /\ n \in Nat
  BY Sizes DEF Rows
<1>2. /\ RowOf(fc, y) = [RowOf(fb, y) EXCEPT ![x] = ch]
      /\ \A z \in Rows : z # y => RowOf(fc, z) = RowOf(fb, z)
  BY DrawnRows
<1>3. /\ Len(l) = n + y + 1
      /\ l = [i \in 1 .. n + y + 1 |-> IF i <= n THEN g[i] ELSE RowOf(fb, i - n - 1)]
      /\ m = [i \in 1 .. n + y + 1 |-> IF i <= n THEN g[i] ELSE RowOf(fc, i - n - 1)]
  BY <1>1, LinesAre
<1> HIDE DEF l, m, n, fc
<1>4. ASSUME NEW i \in 1 .. n + y + 1
      PROVE  m[i] = IF i = n + y + 1 THEN [l[i] EXCEPT ![x] = ch] ELSE l[i]
  <2>1. CASE i <= n
    BY <1>1, <1>3, <2>1
  <2>2. CASE i = n + y + 1
    <3>1. i - n - 1 = y /\ ~(i <= n)
      BY <1>1, <2>2
    <3> QED BY <1>2, <1>3, <2>2, <3>1
  <2>3. CASE ~(i <= n) /\ i # n + y + 1
    <3>1. i - n - 1 \in Rows /\ i - n - 1 # y
      BY <1>1, <2>3, Sizes DEF Rows
    <3> QED BY <1>2, <1>3, <2>3, <3>1
  <2> QED BY <2>1, <2>2, <2>3
<1>5. m = [l EXCEPT ![n + y + 1] = [@ EXCEPT ![x] = ch]]
  <2>1. DOMAIN m = 1 .. n + y + 1 /\ DOMAIN l = 1 .. n + y + 1 /\ m = [i \in DOMAIN m |-> m[i]]
    BY <1>3
  <2> QED BY <1>4, <2>1
<1> QED BY <1>3, <1>5 DEF l, m, fc

-----------------------------------------------------------------------------
(* The steps *)

Lines == LinesOf(gone, framebuf, con_cy)

LEMMA Typed ==
  ASSUME TypeOK
  PROVE  /\ framebuf \in [Cells -> Chars] /\ con_cx \in 0 .. Width /\ con_cy \in Rows
         /\ con_cy \in Nat /\ gone \in Seq(Line)
BY Sizes DEF TypeOK, Line, Rows

\* Going to the next row adds a blank line, whether the cursor moves down or the
\* rows move up.
LEMMA NextRowEffect ==
  ASSUME IInv, NextRow
  PROVE  /\ RoomMade \in [Cells -> Chars] /\ con_cy' \in Rows /\ gone' \in Seq(Line)
         /\ RowOf(RoomMade, con_cy') = BlankLine /\ BlankBelow(RoomMade, con_cy')
         /\ LinesOf(gone', RoomMade, con_cy') = Append(Lines, BlankLine)
<1>1. /\ framebuf \in [Cells -> Chars] /\ con_cy \in Rows /\ con_cy \in Nat /\ gone \in Seq(Line)
      /\ BlankBelow(framebuf, con_cy)
  BY Typed DEF IInv
<1>2. CASE ~AtBottom
  <2>1. RoomMade = framebuf /\ con_cy' = con_cy + 1 /\ gone' = gone
    BY <1>2 DEF RoomMade, NextRow
  <2>2. con_cy + 1 \in Rows /\ con_cy + 1 > con_cy
    BY <1>1, <1>2, Sizes DEF AtBottom, Rows
  <2>3. RowOf(framebuf, con_cy + 1) = BlankLine
    BY <1>1, <2>2 DEF BlankBelow
  <2>4. LinesOf(gone, framebuf, con_cy + 1) = Append(Lines, BlankLine)
    BY <1>1, <2>3, OneMoreRow DEF Lines
  <2>5. BlankBelow(framebuf, con_cy + 1)
    BY <1>1, Sizes DEF BlankBelow, Rows
  <2> QED BY <1>1, <2>1, <2>2, <2>3, <2>4, <2>5
<1>3. CASE AtBottom
  <2> DEFINE bottom == Height - 1
  <2>1. con_cy = bottom /\ bottom \in Rows /\ bottom + 1 \notin Rows /\ bottom \in Nat
    BY <1>1, <1>3, Sizes DEF AtBottom, Rows
  <2>2. RoomMade = Scrolled /\ con_cy' = bottom /\ gone' = Append(gone, RowOf(framebuf, 0))
    BY <1>3 DEF RoomMade, NextRow, Row, RowOf
  <2>3. 0 \in Rows /\ RowOf(framebuf, 0) \in Line
    BY <1>1, RowType, Sizes DEF Rows
  <2>4. /\ Scrolled \in [Cells -> Chars] /\ RowOf(Scrolled, bottom) = BlankLine
        /\ \A z \in 0 .. bottom - 1 : RowOf(Scrolled, z) = RowOf(framebuf, z + 1)
    <3>1. \A z \in 0 .. bottom - 1 : z \in Rows /\ z + 1 \in Rows
      BY Sizes DEF Rows
    <3> QED BY <1>1, <2>1, <3>1, ScrolledRows
  <2>5. gone' \in Seq(Line)
    BY <1>1, <2>2, <2>3
  <2>6. bottom - 1 \in Nat \union {-1} /\ bottom - 1 + 1 = bottom
    BY Sizes
  <2>7. LinesOf(gone', Scrolled, bottom) = Append(LinesOf(gone', Scrolled, bottom - 1), BlankLine)
    <3>1. LinesOf(gone', Scrolled, bottom - 1 + 1)
            = Append(LinesOf(gone', Scrolled, bottom - 1), RowOf(Scrolled, bottom - 1 + 1))
      BY <2>5, <2>6, OneMoreRow
    <3> QED BY <2>4, <2>6, <3>1
  <2>8. LinesOf(gone', Scrolled, bottom - 1) = LinesOf(gone, framebuf, bottom)
    <3>1. LinesOf(gone', Scrolled, bottom - 1) = LinesOf(gone, framebuf, bottom - 1 + 1)
      BY <1>1, <2>2, <2>3, <2>4, <2>6, RowScrollsOff
    <3> QED BY <2>6, <3>1
  <2>9. BlankBelow(Scrolled, bottom)
    BY Sizes DEF BlankBelow, Rows
  <2> QED BY <2>1, <2>2, <2>4, <2>5, <2>7, <2>8, <2>9 DEF Lines
<1> QED BY <1>2, <1>3

\* What a step that keeps the invariant does to the terminal's lines.
Does(lines, col) == IInv' /\ Lines' = lines /\ con_cx' = col

LEMMA NewlineEffect == ASSUME IInv, Newline PROVE Does(Append(Lines, BlankLine), 0)
<1>1. NextRow /\ con_cx' = 0 /\ framebuf' = RoomMade
  BY DEF Newline
<1>2. 0 \in 0 .. Width
  BY Sizes
<1> QED BY <1>1, <1>2, NextRowEffect DEF Does, Lines, IInv, TypeOK, Line, LinesOf, BlankBelow, RowOf

\* A step that moves the cursor within its row.
LEMMA CursorEffect ==
  ASSUME IInv, UNCHANGED <<framebuf, con_cy, gone>>, con_cx' \in 0 .. Width
  PROVE  Does(Lines, con_cx')
BY DEF Does, Lines, IInv, TypeOK, LinesOf, BlankBelow, RowOf

\* A character drawn onto cells fb that show the lines ls.
LEMMA DrawEffect ==
  ASSUME NEW fb \in [Cells -> Chars], con_cy' \in Rows, gone' \in Seq(Line),
         BlankBelow(fb, con_cy'), NEW x \in Columns, NEW ch \in Chars,
         framebuf' = Drawn(fb, x, con_cy', ch), con_cx' = x + 1,
         NEW ls, ls = LinesOf(gone', fb, con_cy')
  PROVE  Does([ls EXCEPT ![Len(ls)] = [@ EXCEPT ![x] = ch]], x + 1)
<1>1. /\ framebuf' \in [Cells -> Chars]
      /\ \A z \in Rows : z # con_cy' => RowOf(framebuf', z) = RowOf(fb, z)
  BY DrawnRows
<1>2. BlankBelow(framebuf', con_cy')
  BY <1>1, Sizes DEF BlankBelow, Rows
<1>3. x + 1 \in 0 .. Width
  BY Sizes DEF Columns
<1>4. IInv'
  BY <1>1, <1>2, <1>3 DEF IInv, TypeOK, Line, BlankBelow, RowOf
<1>5. LinesOf(gone', framebuf', con_cy') = [ls EXCEPT ![Len(ls)] = [@ EXCEPT ![x] = ch]]
  BY DrawnLastLine
<1>6. Lines' = LinesOf(gone', framebuf', con_cy')
  BY DEF Lines, LinesOf, RowOf
<1> QED BY <1>4, <1>5, <1>6 DEF Does

LEMMA PutEffect ==
  ASSUME IInv, NEW ch \in Chars, Put(ch)
  PROVE  Does([Lines EXCEPT ![Len(Lines)] = [@ EXCEPT ![con_cx] = ch]], con_cx + 1)
<1>1. /\ framebuf \in [Cells -> Chars] /\ con_cy \in Rows /\ gone \in Seq(Line)
      /\ BlankBelow(framebuf, con_cy)
  BY Typed DEF IInv
<1>2. con_cx \in Columns
  BY Sizes, Typed DEF IInv, Put, Columns
<1>3. con_cy' = con_cy /\ gone' = gone /\ con_cx' = con_cx + 1
      /\ framebuf' = Drawn(framebuf, con_cx, con_cy', ch)
  BY DEF Put, PutInRow
<1>4. Lines = LinesOf(gone', framebuf, con_cy')
  BY <1>3 DEF Lines
<1> QED BY <1>1, <1>2, <1>3, <1>4, DrawEffect

LEMMA PutWrappedEffect ==
  ASSUME IInv, NEW ch \in Chars, PutWrapped(ch)
  PROVE  Does(Append(Lines, [BlankLine EXCEPT ![0] = ch]), 1)
<1> DEFINE ls == Append(Lines, BlankLine)
<1>1. /\ RoomMade \in [Cells -> Chars] /\ con_cy' \in Rows /\ gone' \in Seq(Line)
      /\ BlankBelow(RoomMade, con_cy') /\ LinesOf(gone', RoomMade, con_cy') = ls
  BY NextRowEffect DEF PutWrapped
<1>2. 0 \in Columns /\ 0 + 1 = 1
  BY Sizes DEF Columns
<1>3. framebuf' = Drawn(RoomMade, 0, con_cy', ch) /\ con_cx' = 0 + 1
  BY DEF PutWrapped
<1> HIDE DEF ls
<1>4. Does([ls EXCEPT ![Len(ls)] = [@ EXCEPT ![0] = ch]], 1)
  BY <1>1, <1>2, <1>3, DrawEffect
<1>5. [ls EXCEPT ![Len(ls)] = [@ EXCEPT ![0] = ch]] = Append(Lines, [BlankLine EXCEPT ![0] = ch])
  <2>1. Lines \in Seq(Line)
    <3>1. /\ gone \in Seq(Line) /\ con_cy \in Nat /\ Len(gone) \in Nat
          /\ \A i \in 1 .. Len(gone) : gone[i] \in Line
      BY Typed DEF IInv
    <3>2. Lines = [i \in 1 .. Len(gone) + con_cy + 1 |->
              IF i <= Len(gone) THEN gone[i] ELSE RowOf(framebuf, i - Len(gone) - 1)]
      BY <3>1, LinesAre DEF Lines
    <3>3. \A i \in 1 .. Len(gone) + con_cy + 1 :
            ~(i <= Len(gone)) => i - Len(gone) - 1 \in Rows
      BY <3>1, Sizes, Typed DEF IInv, Rows
    <3>4. \A i \in 1 .. Len(gone) + con_cy + 1 :
            (IF i <= Len(gone) THEN gone[i] ELSE RowOf(framebuf, i - Len(gone) - 1)) \in Line
      BY <3>1, <3>3, RowType, Typed DEF IInv
    <3> QED BY <3>1, <3>2, <3>4
  <2>2. BlankLine \in Line
    BY BlankLineType
  <2>3. ls[Len(ls)] = BlankLine
    BY <2>1, <2>2 DEF ls
  <2> DEFINE e == [BlankLine EXCEPT ![0] = ch]
  <2>4. e \in Line
    BY <1>2, <2>2 DEF Line
  <2> HIDE DEF e
  <2>5. [ls EXCEPT ![Len(ls)] = e] = Append(Lines, e)
    BY <2>1, <2>2, <2>4, LastLineReplaced DEF ls
  <2> QED BY <2>3, <2>5 DEF e
<1> QED BY <1>4, <1>5

\* What con_init and con_clear leave.
LEMMA Cleared ==
  ASSUME NEW fb, fb = [o \in Cells |-> Blank]
  PROVE  /\ fb \in [Cells -> Chars] /\ BlankBelow(fb, 0) /\ 0 \in Rows /\ 0 \in 0 .. Width
         /\ LinesOf(<<>>, fb, 0) = <<BlankLine>>
<1>1. fb \in [Cells -> Chars] /\ 0 \in Rows /\ 0 \in 0 .. Width
  BY Sizes DEF Chars, Rows
<1>2. \A z \in Rows : RowOf(fb, z) = BlankLine
  BY OffsetIsCell DEF RowOf, BlankLine
<1>3. LinesOf(<<>>, fb, 0) = <<BlankLine>>
  <2>1. [i \in 1 .. 0 + 1 |-> RowOf(fb, i - 1)] = <<BlankLine>>
    <3>1. 0 + 1 = 1 /\ 1 .. 1 = {1} /\ RowOf(fb, 1 - 1) = BlankLine
      BY <1>1, <1>2
    <3> QED BY <3>1
  <2>2. <<>> \o <<BlankLine>> = <<BlankLine>>
    <3>1. <<BlankLine>> \in Seq({BlankLine})
      OBVIOUS
    <3> QED BY <3>1, ConcatEmptySeq
  <2> QED BY <2>1, <2>2 DEF LinesOf
<1> QED BY <1>1, <1>2, <1>3 DEF BlankBelow

LEMMA ClearEffect == ASSUME Clear PROVE Does(<<BlankLine>>, 0)
<1>1. framebuf' = [o \in Cells |-> Blank] /\ con_cx' = 0 /\ con_cy' = 0 /\ gone' = <<>>
  BY DEF Clear
<1>2. /\ framebuf' \in [Cells -> Chars] /\ BlankBelow(framebuf', 0) /\ 0 \in Rows /\ 0 \in 0 .. Width
      /\ LinesOf(<<>>, framebuf', 0) = <<BlankLine>>
  BY <1>1, Cleared
<1> QED BY <1>1, <1>2 DEF Does, Lines, IInv, TypeOK, LinesOf, BlankBelow, RowOf

\* The terminal's lines and steps, in terms of this module.
LEMMA TerminalLines ==
  gone \o [i \in 1 .. con_cy + 1 |-> Row(i - 1)] = Lines
BY DEF Lines, LinesOf, Row, RowOf

LEMMA TerminalBlankLine == T!BlankLine = BlankLine
BY DEF T!BlankLine, T!Columns, BlankLine, Columns

LEMMA TerminalInit == ASSUME Init PROVE IInv /\ T!Init
<1>1. framebuf = [o \in Cells |-> Blank] /\ con_cx = 0 /\ con_cy = 0 /\ gone = <<>>
  BY DEF Init
<1>2. /\ framebuf \in [Cells -> Chars] /\ BlankBelow(framebuf, 0) /\ 0 \in Rows /\ 0 \in 0 .. Width
      /\ LinesOf(<<>>, framebuf, 0) = <<BlankLine>>
  BY <1>1, Cleared
<1>3. IInv
  BY <1>1, <1>2 DEF IInv, TypeOK
<1>4. Lines = <<BlankLine>>
  BY <1>1, <1>2 DEF Lines
<1> QED BY <1>1, <1>3, <1>4, TerminalLines, TerminalBlankLine DEF T!Init

\* Every step of the console is a step of the terminal.
LEMMA ConsoleStep ==
  ASSUME IInv, [Next]_vars
  PROVE  IInv' /\ [T!Next]_(T!vars)
<1> DEFINE ls == gone \o [i \in 1 .. con_cy + 1 |-> Row(i - 1)]
<1>1. ls = Lines
  BY TerminalLines
<1>2. ls' = Lines'
  BY DEF Lines, LinesOf, Row, RowOf
<1>3. CASE Newline
  <2>1. IInv' /\ ls' = Append(ls, T!BlankLine) /\ con_cx' = 0
    BY <1>1, <1>2, <1>3, NewlineEffect, TerminalBlankLine DEF Does
  <2> QED BY <2>1 DEF T!Next, T!Newline
<1>4. CASE CarriageReturn
  <2>1. con_cx' = 0 /\ con_cx' \in 0 .. Width /\ UNCHANGED <<framebuf, con_cy, gone>>
    BY <1>4, Sizes DEF CarriageReturn
  <2>2. IInv' /\ ls' = ls
    BY <1>1, <1>2, <2>1, CursorEffect DEF Does
  <2> QED BY <2>1, <2>2 DEF T!Next, T!Return
<1>5. CASE Backspace
  <2>1. con_cx' \in 0 .. Width /\ con_cx > 0 /\ con_cx' = con_cx - 1
    BY <1>5, Sizes, Typed DEF Backspace, IInv
  <2>2. IInv' /\ ls' = ls
    BY <1>1, <1>2, <1>5, <2>1, CursorEffect DEF Does, Backspace
  <2> QED BY <2>1, <2>2 DEF T!Next, T!Back
<1>6. CASE Clear
  <2>1. IInv' /\ ls' = <<T!BlankLine>> /\ con_cx' = 0
    BY <1>2, <1>6, ClearEffect, TerminalBlankLine DEF Does
  <2> QED BY <2>1 DEF T!Next, T!Clear
<1>7. ASSUME NEW ch \in Chars, Put(ch)
      PROVE  IInv' /\ [T!Next]_(T!vars)
  <2>1. /\ IInv' /\ con_cx' = con_cx + 1 /\ con_cx < Width
        /\ ls' = [ls EXCEPT ![Len(ls)] = [@ EXCEPT ![con_cx] = ch]]
    BY <1>1, <1>2, <1>7, PutEffect DEF Does, Put
  <2>2. T!Write(ch)
    BY <2>1 DEF T!Write
  <2> QED BY <2>1, <2>2 DEF T!Next
<1>8. ASSUME NEW ch \in Chars, PutWrapped(ch)
      PROVE  IInv' /\ [T!Next]_(T!vars)
  <2>1. Does(Append(Lines, [BlankLine EXCEPT ![0] = ch]), 1)
    BY <1>8, PutWrappedEffect
  <2>2. IInv' /\ con_cx' = 1 /\ ls' = Append(ls, [T!BlankLine EXCEPT ![0] = ch])
    BY <1>1, <1>2, <2>1, TerminalBlankLine DEF Does
  <2>3. con_cx = Width
    BY <1>8, Sizes, Typed DEF PutWrapped, IInv
  <2>4. T!Write(ch)
    BY <2>2, <2>3 DEF T!Write
  <2> QED BY <2>2, <2>4 DEF T!Next
<1>9. CASE UNCHANGED vars
  <2>1. IInv' /\ ls' = ls /\ con_cx' = con_cx
    BY <1>1, <1>2, <1>9, CursorEffect, Typed DEF Does, vars, IInv
  <2> QED BY <2>1 DEF T!vars
<1> QED BY <1>3, <1>4, <1>5, <1>6, <1>7, <1>8, <1>9 DEF Next

LEMMA IInvHolds == Spec => []IInv
<1>1. Init => IInv
  BY TerminalInit
<1>2. IInv /\ [Next]_vars => IInv'
  BY ConsoleStep
<1> QED BY <1>1, <1>2, PTL DEF Spec

\* No character is drawn outside the screen, and the cursor stays on it or one
\* column past the end of a full row, for every size of the screen, by any sequence
\* of characters and control characters (hstx_display.h:265-309).
THEOREM CursorStaysOnScreen == Spec => []TypeOK
<1>1. IInv => TypeOK
  BY DEF IInv
<1> QED BY <1>1, IInvHolds, PTL

\* The console is the lower end of a terminal of unbounded length: a character
\* goes where a terminal would put it, a full row is continued on the next one, and
\* scrolling loses nothing but the top row and leaves a blank one at the bottom
\* (hstx_display.h:265-309).
THEOREM ConsoleImplementsTerminal == Spec => ImplementsTerminal
<1>1. Init => T!Init
  BY TerminalInit
<1>2. IInv /\ [Next]_vars => [T!Next]_(T!vars)
  BY ConsoleStep
<1> QED BY <1>1, <1>2, IInvHolds, PTL DEF Spec, ImplementsTerminal, T!Spec

-----------------------------------------------------------------------------
(* sagecom: what the screen shows *)

SerialChars == {Text, CR, LF, NUL}

EachLineEnd(s) == [i \in DOMAIN s |-> LineEnd(s[i])]

\* The port has turned every CR into an LF.
Translated(s) == \A i \in DOMAIN s : s[i] \in {CR, LF} => s[i] = LF

LEMMA LineEndType == ASSUME NEW c \in SerialChars PROVE LineEnd(c) \in Seq(SerialChars)
<1>1. CR \in SerialChars /\ LF \in SerialChars  BY DEF SerialChars
<1>2. <<CR, LF>> \in Seq(SerialChars) /\ <<c>> \in Seq(SerialChars)  BY <1>1
<1>. QED  BY <1>2 DEF LineEnd

LEMMA EachLineEndType ==
  ASSUME NEW s \in Seq(SerialChars)
  PROVE  /\ EachLineEnd(s) \in Seq(Seq(SerialChars))
         /\ Len(EachLineEnd(s)) = Len(s)
         /\ \A i \in 1 .. Len(s) : EachLineEnd(s)[i] = LineEnd(s[i])
<1>1. Len(s) \in Nat /\ DOMAIN s = 1 .. Len(s) /\ \A i \in 1 .. Len(s) : s[i] \in SerialChars
  BY LenProperties, ElementOfSeq
<1>2. \A i \in 1 .. Len(s) : LineEnd(s[i]) \in Seq(SerialChars)  BY <1>1, LineEndType
<1>3. EachLineEnd(s) = [i \in 1 .. Len(s) |-> LineEnd(s[i])]  BY <1>1 DEF EachLineEnd
<1> HIDE DEF LineEnd
<1>. QED  BY <1>1, <1>2, <1>3

LEMMA LineEndsIs ==
  ASSUME NEW s \in Seq(SerialChars)
  PROVE  /\ LineEnds(s) = FlattenSeq(EachLineEnd(s))
         /\ LineEnds(s) \in Seq(SerialChars)
<1>1. LineEnds(s) = FlattenSeq(EachLineEnd(s))  BY DEF LineEnds, EachLineEnd
<1>2. <<>> \in Seq(SerialChars)  BY EmptySeq
<1>3. EachLineEnd(s) \in Seq(Seq(SerialChars))  BY EachLineEndType
<1>. QED  BY <1>1, <1>2, <1>3, FlattenAppend

\* Joined sequences have their line ends joined.
LEMMA LineEndsJoin ==
  ASSUME NEW s \in Seq(SerialChars), NEW t \in Seq(SerialChars)
  PROVE  LineEnds(s \o t) = LineEnds(s) \o LineEnds(t)
<1>1. s \o t \in Seq(SerialChars)  BY ConcatProperties
<1>2. EachLineEnd(s \o t) = EachLineEnd(s) \o EachLineEnd(t)
  <2> DEFINE u == EachLineEnd(s \o t)
             v == EachLineEnd(s) \o EachLineEnd(t)
  <2>1. /\ Len(s) \in Nat /\ Len(t) \in Nat /\ Len(s \o t) = Len(s) + Len(t)
        /\ \A i \in 1 .. Len(s) + Len(t) :
             (s \o t)[i] = IF i <= Len(s) THEN s[i] ELSE t[i - Len(s)]
    BY LenProperties, ConcatProperties
  <2>2. /\ u \in Seq(Seq(SerialChars)) /\ Len(u) = Len(s) + Len(t)
        /\ \A i \in 1 .. Len(s) + Len(t) : u[i] = LineEnd((s \o t)[i])
    BY <1>1, <2>1, EachLineEndType
  <2>3. /\ EachLineEnd(s) \in Seq(Seq(SerialChars)) /\ Len(EachLineEnd(s)) = Len(s)
        /\ EachLineEnd(t) \in Seq(Seq(SerialChars)) /\ Len(EachLineEnd(t)) = Len(t)
        /\ \A i \in 1 .. Len(s) : EachLineEnd(s)[i] = LineEnd(s[i])
        /\ \A i \in 1 .. Len(t) : EachLineEnd(t)[i] = LineEnd(t[i])
    BY EachLineEndType
  <2> HIDE DEF EachLineEnd, LineEnd
  <2>4. /\ v \in Seq(Seq(SerialChars)) /\ Len(v) = Len(s) + Len(t)
        /\ \A i \in 1 .. Len(s) + Len(t) :
             v[i] = IF i <= Len(s) THEN EachLineEnd(s)[i] ELSE EachLineEnd(t)[i - Len(s)]
    <3> DEFINE x == EachLineEnd(s)
               y == EachLineEnd(t)
               S == Seq(SerialChars)
    <3>1. /\ x \in Seq(S) /\ Len(x) = Len(s)
          /\ y \in Seq(S) /\ Len(y) = Len(t)
      BY <2>3
    <3> HIDE DEF x, y, S
    <3>2. /\ x \o y \in Seq(S) /\ Len(x \o y) = Len(x) + Len(y)
          /\ \A i \in 1 .. Len(x) + Len(y) :
               (x \o y)[i] = IF i <= Len(x) THEN x[i] ELSE y[i - Len(x)]
      BY <3>1, ConcatProperties
    <3>. QED  BY <3>1, <3>2 DEF x, y, S
  <2> HIDE DEF u, v
  <2>5. ASSUME NEW i \in 1 .. Len(u) PROVE u[i] = v[i]
    <3>1. i \in 1 .. Len(s) + Len(t)  BY <2>2
    <3>2. CASE i <= Len(s)
      <4>1. i \in 1 .. Len(s)  BY <2>1, <3>1, <3>2
      <4>. QED  BY <2>1, <2>2, <2>3, <2>4, <3>1, <3>2, <4>1
    <3>3. CASE ~(i <= Len(s))
      <4>1. i - Len(s) \in 1 .. Len(t)  BY <2>1, <3>1, <3>3
      <4>. QED  BY <2>1, <2>2, <2>3, <2>4, <3>1, <3>3, <4>1
    <3>. QED  BY <3>2, <3>3
  <2>6. u = v  BY <2>2, <2>4, <2>5, SeqEqual
  <2>. QED  BY <2>6 DEF u, v
<1>3. FlattenSeq(EachLineEnd(s) \o EachLineEnd(t))
        = FlattenSeq(EachLineEnd(s)) \o FlattenSeq(EachLineEnd(t))
  <2> DEFINE x == EachLineEnd(s)
             y == EachLineEnd(t)
  <2>1. x \in Seq(Seq(SerialChars)) /\ y \in Seq(Seq(SerialChars))  BY EachLineEndType
  <2> HIDE DEF x, y
  <2>2. FlattenSeq(x \o y) = FlattenSeq(x) \o FlattenSeq(y)  BY ONLY <2>1, FlattenConcat
  <2>. QED  BY <2>2 DEF x, y
<1>4. /\ LineEnds(s \o t) = FlattenSeq(EachLineEnd(s \o t))
      /\ LineEnds(s) = FlattenSeq(EachLineEnd(s)) /\ LineEnds(t) = FlattenSeq(EachLineEnd(t))
  BY <1>1, LineEndsIs
<1>. QED  BY ONLY <1>2, <1>3, <1>4

\* What has no NUL and was translated is shown with its line ends.
LEMMA CookedIs ==
  ASSUME NEW s \in Seq(SerialChars), Translated(s), ~Contains(s, NUL)
  PROVE  Cooked(s) = LineEnds(s)
<1>1. DOMAIN s = 1 .. Len(s)  BY LenProperties
<1>2. ~(NUL \in {s[i] : i \in DOMAIN s})  BY <1>1 DEF Contains
<1>3. \A i \in DOMAIN s : (s[i] = LF) <=> (s[i] \in {CR, LF})  BY DEF Translated
<1>4. [i \in DOMAIN s |-> IF s[i] = LF THEN <<CR, LF>> ELSE <<s[i]>>]
        = [i \in DOMAIN s |-> IF s[i] \in {CR, LF} THEN <<CR, LF>> ELSE <<s[i]>>]
  BY <1>3
<1>. QED  BY <1>2, <1>4 DEF Cooked, LineEnds, LineEnd

-----------------------------------------------------------------------------
(* The invariant: what was shown and what the port still holds. *)

Draining == pc \in {"start", "open", "drain", "drain again"}

PortTyped ==
  /\ rx \in Seq(SerialChars) /\ sent \in Seq(SerialChars)
  /\ Translated(rx)
  /\ Contains(rx, NUL) => Contains(sent, NUL)

ShowInv ==
  /\ PortTyped
  /\ Draining => screen = <<>>
  /\ pc \in {"start", "open"} => rx = <<>> /\ sent = <<>> /\ ~fd
  /\ fd /\ plugged /\ ~Contains(sent, NUL)
       => screen \in Seq(SerialChars) /\ screen \o LineEnds(rx) = LineEnds(sent)

LEMMA NothingSent ==
  /\ <<>> \in Seq(SerialChars) /\ Translated(<<>>) /\ ~Contains(<<>>, NUL)
  /\ <<>> \o LineEnds(<<>>) = LineEnds(<<>>)
<1>1. <<>> \in Seq(SerialChars) /\ Len(<<>>) = 0  BY EmptySeq
<1>2. LineEnds(<<>>) \in Seq(SerialChars)  BY <1>1, LineEndsIs
<1>3. <<>> \o LineEnds(<<>>) = LineEnds(<<>>)  BY <1>2, ConcatEmptySeq
<1>4. Translated(<<>>)  BY DEF Translated
<1>5. ~Contains(<<>>, NUL)  BY <1>1 DEF Contains
<1>. QED  BY <1>1, <1>3, <1>4, <1>5

LEMMA ShowInit == SagecomInit => ShowInv
<1> SUFFICES ASSUME SagecomInit PROVE ShowInv  OBVIOUS
<1>1. screen = <<>> /\ rx = <<>> /\ sent = <<>> /\ ~fd  BY DEF SagecomInit
<1>. QED  BY <1>1, NothingSent DEF ShowInv, PortTyped

\* A step that leaves the port and the screen alone, or closes the port.
LEMMA ShowKept ==
  ASSUME ShowInv, UNCHANGED <<rx, sent, screen>>,
         pc' \in {"start", "open"} => pc \in {"start", "open"} /\ ~fd',
         Draining' => Draining,
         fd' /\ plugged' => fd /\ plugged
  PROVE  ShowInv'
<1>1. PortTyped' /\ (Contains(sent, NUL)' <=> Contains(sent, NUL))
      /\ LineEnds(rx)' = LineEnds(rx) /\ LineEnds(sent)' = LineEnds(sent)
  BY DEF ShowInv, PortTyped, LineEnds, Translated, Contains
<1>. QED  BY <1>1 DEF ShowInv

LEMMA ShowDrain == ShowInv /\ Drain => ShowInv'
<1> SUFFICES ASSUME ShowInv, Drain PROVE ShowInv'  OBVIOUS
<1>1. /\ screen' = <<>> /\ rx' = <<>> /\ sent' = <<>> /\ ~(pc' \in {"start", "open"})
  BY DEF Drain, ShowInv, Draining
<1>2. PortTyped'  BY <1>1, NothingSent DEF PortTyped
<1>. QED  BY <1>1, <1>2, NothingSent DEF ShowInv

\* What is left in the port of a longer sequence.
LEMMA PrefixAndRest ==
  ASSUME NEW s \in Seq(SerialChars), NEW n \in 0 .. Len(s), Translated(s)
  PROVE  LET a == SubSeq(s, 1, n)
             b == SubSeq(s, n + 1, Len(s))
         IN  /\ a \in Seq(SerialChars) /\ b \in Seq(SerialChars) /\ a \o b = s
             /\ Translated(a) /\ Translated(b)
             /\ Contains(a, NUL) => Contains(s, NUL)
             /\ Contains(b, NUL) => Contains(s, NUL)
<1> DEFINE a == SubSeq(s, 1, n)
           b == SubSeq(s, n + 1, Len(s))
<1>1. /\ Len(s) \in Nat /\ n \in Nat /\ DOMAIN s = 1 .. Len(s)
      /\ \A i \in 1 .. n : s[i] \in SerialChars
      /\ \A i \in n + 1 .. Len(s) : s[i] \in SerialChars
  BY LenProperties, ElementOfSeq
<1>2. /\ a \in Seq(SerialChars) /\ Len(a) = n /\ \A i \in 1 .. n : a[i] = s[i]
  BY <1>1, SubSeqProperties
<1>3. /\ b \in Seq(SerialChars) /\ Len(b) = Len(s) - n
      /\ \A i \in 1 .. Len(s) - n : b[i] = s[n + i]
  <2> DEFINE m == n + 1
             l == Len(s)
  <2>1. m \in Int /\ l \in Int /\ \A i \in m .. l : s[i] \in SerialChars  BY <1>1
  <2>2. /\ b \in Seq(SerialChars) /\ Len(b) = IF m <= l THEN l - m + 1 ELSE 0
        /\ \A i \in 1 .. l - m + 1 : b[i] = s[m + i - 1]
    <3> HIDE DEF m, l
    <3>. QED  BY <2>1, SubSeqProperties DEF m, l
  <2>3. Len(s) \in Nat /\ n \in 0 .. Len(s)  BY <1>1
  <2>4. (IF m <= l THEN l - m + 1 ELSE 0) = Len(s) - n /\ l - m + 1 = Len(s) - n  BY <2>3
  <2>5. \A i \in 1 .. Len(s) - n : m + i - 1 = n + i  BY <2>3
  <2> HIDE DEF b, m, l
  <2>. QED  BY <2>2, <2>4, <2>5
<1>4. a \o b = s
  <2>1. 1 \in 1 .. Len(s) + 1 /\ n \in 1 - 1 .. Len(s) /\ Len(s) \in n .. Len(s)  BY <1>1
  <2>2. a \o b = SubSeq(s, 1, Len(s))  BY <2>1, ConcatAdjacentSubSeq
  <2>. QED  BY <2>2, SubSeqFull
<1> HIDE DEF a, b
<1>5. DOMAIN a = 1 .. n /\ DOMAIN b = 1 .. Len(s) - n  BY <1>2, <1>3, LenProperties
<1>6. Translated(a) /\ (Contains(a, NUL) => Contains(s, NUL))
  <2>1. \A i \in 1 .. n : i \in 1 .. Len(s) /\ a[i] = s[i]  BY <1>1, <1>2
  <2>. QED  BY <1>1, <1>2, <1>5, <2>1 DEF Translated, Contains
<1>7. Translated(b) /\ (Contains(b, NUL) => Contains(s, NUL))
  <2>1. \A i \in 1 .. Len(s) - n : n + i \in 1 .. Len(s) /\ b[i] = s[n + i]  BY <1>1, <1>3
  <2>. QED  BY <1>1, <1>3, <1>5, <2>1 DEF Translated, Contains
<1>. QED  BY <1>2, <1>3, <1>4, <1>6, <1>7 DEF a, b

LEMMA ShowSerialRead == ShowInv /\ SerialRead => ShowInv'
<1> SUFFICES ASSUME ShowInv, SerialRead PROVE ShowInv'  OBVIOUS
<1>1. PICK n \in 0 .. Len(rx) :
        /\ screen' = screen \o Cooked(SubSeq(rx, 1, n))
        /\ rx' = SubSeq(rx, n + 1, Len(rx))
  BY DEF SerialRead
<1>2. sent' = sent /\ fd' = fd /\ plugged' = plugged /\ ~Draining' /\ ~(pc' \in {"start", "open"})
  BY DEF SerialRead, Draining
<1> DEFINE a == SubSeq(rx, 1, n)
           b == SubSeq(rx, n + 1, Len(rx))
<1>3. /\ a \in Seq(SerialChars) /\ b \in Seq(SerialChars) /\ a \o b = rx
      /\ Translated(a) /\ Translated(b)
      /\ Contains(a, NUL) => Contains(rx, NUL)
      /\ Contains(b, NUL) => Contains(rx, NUL)
  BY PrefixAndRest DEF ShowInv, PortTyped
<1> HIDE DEF a, b
<1>4. screen' = screen \o Cooked(a) /\ rx' = b  BY <1>1 DEF a, b
<1>5. PortTyped'  BY <1>2, <1>3, <1>4 DEF ShowInv, PortTyped
<1>6. ASSUME fd', plugged', ~Contains(sent', NUL)
      PROVE  screen' \in Seq(SerialChars) /\ screen' \o LineEnds(rx') = LineEnds(sent')
  <2>1. screen \in Seq(SerialChars) /\ screen \o LineEnds(rx) = LineEnds(sent)
    BY <1>2, <1>6 DEF ShowInv
  <2>2. Cooked(a) = LineEnds(a)
    BY <1>2, <1>3, <1>6, CookedIs DEF ShowInv, PortTyped
  <2>3. LineEnds(rx) = LineEnds(a) \o LineEnds(b)  BY <1>3, LineEndsJoin
  <2> DEFINE x == LineEnds(a)
             y == LineEnds(b)
  <2>4. x \in Seq(SerialChars) /\ y \in Seq(SerialChars)  BY <1>3, LineEndsIs
  <2> HIDE DEF x, y
  <2>5. screen \o x \in Seq(SerialChars)  BY <2>1, <2>4, ConcatProperties
  <2>6. (screen \o x) \o y = screen \o (x \o y)  BY ONLY <2>1, <2>4, ConcatAssociative
  <2>. QED  BY <1>2, <1>4, <2>1, <2>2, <2>3, <2>5, <2>6 DEF x, y
<1>. QED  BY <1>2, <1>5, <1>6 DEF ShowInv

LEMMA ShowDeviceSends ==
  ASSUME ShowInv, NEW c \in SerialChars, DeviceSends(c)
  PROVE  ShowInv'
<1> DEFINE d == Received(c)
<1>1. /\ d \in SerialChars /\ LineEnd(d) = LineEnd(c)
      /\ (d \in {CR, LF} => d = LF) /\ (d = NUL => c = NUL)
  BY SagecomAssumption DEF Received, SerialChars, LineEnd
<1> HIDE DEF d
<1>2. /\ rx' = Append(rx, d) /\ sent' = Append(sent, c) /\ fd /\ plugged
      /\ fd' /\ plugged' /\ screen' = screen /\ pc' = pc
  BY DEF DeviceSends, d
<1>3. rx \in Seq(SerialChars) /\ sent \in Seq(SerialChars) /\ Translated(rx)
  BY DEF ShowInv, PortTyped
<1>4. /\ rx' \in Seq(SerialChars) /\ Len(rx') = Len(rx) + 1 /\ DOMAIN rx' = 1 .. Len(rx) + 1
      /\ rx'[Len(rx) + 1] = d /\ \A i \in 1 .. Len(rx) : rx'[i] = rx[i]
      /\ Len(rx) \in Nat /\ DOMAIN rx = 1 .. Len(rx)
  BY <1>1, <1>2, <1>3, AppendProperties, LenProperties
<1>5. /\ sent' \in Seq(SerialChars) /\ Len(sent') = Len(sent) + 1
      /\ sent'[Len(sent) + 1] = c /\ \A i \in 1 .. Len(sent) : sent'[i] = sent[i]
      /\ Len(sent) \in Nat
  BY <1>2, <1>3, AppendProperties, LenProperties
<1>6. Contains(sent', NUL) <=> Contains(sent, NUL) \/ c = NUL
  BY <1>5 DEF Contains
<1>7. Contains(rx', NUL) <=> Contains(rx, NUL) \/ d = NUL
  BY <1>4 DEF Contains
<1>8. Translated(rx')
  <2>1. ASSUME NEW i \in DOMAIN rx', rx'[i] \in {CR, LF} PROVE rx'[i] = LF
    <3>1. CASE i \in 1 .. Len(rx)  BY <1>3, <1>4, <2>1, <3>1 DEF Translated
    <3>2. CASE i = Len(rx) + 1  BY <1>1, <1>4, <2>1, <3>2
    <3>. QED  BY <1>4, <3>1, <3>2
  <2>. QED  BY <2>1 DEF Translated
<1>9. PortTyped'  BY <1>1, <1>4, <1>5, <1>6, <1>7, <1>8 DEF ShowInv, PortTyped
<1>10. ASSUME ~Contains(sent', NUL)
       PROVE  screen' \in Seq(SerialChars) /\ screen' \o LineEnds(rx') = LineEnds(sent')
  <2>1. screen \in Seq(SerialChars) /\ screen \o LineEnds(rx) = LineEnds(sent)
    BY <1>2, <1>6, <1>10 DEF ShowInv
  <2>2. LineEnds(<<d>>) = LineEnds(<<c>>)
    <3>1. /\ LineEnds(<<d>>) = FlattenSeq([i \in DOMAIN <<d>> |-> LineEnd(d)])
          /\ LineEnds(<<c>>) = FlattenSeq([i \in DOMAIN <<c>> |-> LineEnd(c)])
      BY DEF LineEnds, LineEnd
    <3>2. DOMAIN <<d>> = DOMAIN <<c>>  OBVIOUS
    <3>. QED  BY <1>1, <3>1, <3>2
  <2>3. <<d>> \in Seq(SerialChars) /\ <<c>> \in Seq(SerialChars)  BY <1>1
  <2>4. rx' = rx \o <<d>> /\ sent' = sent \o <<c>>
    BY <1>1, <1>2, <1>3, AppendIsConcat
  <2> DEFINE x == LineEnds(rx)
             y == LineEnds(<<d>>)
  <2>5. x \in Seq(SerialChars) /\ y \in Seq(SerialChars)  BY <1>3, <2>3, LineEndsIs
  <2>6. LineEnds(rx') = x \o y /\ LineEnds(sent') = LineEnds(sent) \o y
    BY <1>3, <2>2, <2>3, <2>4, LineEndsJoin
  <2>7. screen \o x = LineEnds(sent)  BY <2>1
  <2> HIDE DEF x, y
  <2>8. (screen \o x) \o y = screen \o (x \o y)  BY ONLY <2>1, <2>5, ConcatAssociative
  <2>. QED  BY <1>2, <2>1, <2>6, <2>7, <2>8
<1>. QED  BY <1>2, <1>9, <1>10 DEF ShowInv, Draining

LEMMA ShowStep == ShowInv /\ [SagecomNext]_sagecomVars => ShowInv'
<1> SUFFICES ASSUME ShowInv, [SagecomNext]_sagecomVars PROVE ShowInv'  OBVIOUS
<1> USE DEF Draining
<1>1. CASE RawStdin
  BY <1>1, ShowKept DEF RawStdin, port, ShowInv
<1>2. CASE OpenSerial
  <2>1. CASE fd' = TRUE /\ pc' = "drain"
    <3>1. screen' = <<>> /\ rx' = <<>> /\ sent' = <<>>  BY <1>2, <2>1 DEF OpenSerial, ShowInv
    <3>2. PortTyped'  BY <3>1, NothingSent DEF PortTyped
    <3>. QED  BY <2>1, <3>1, <3>2, NothingSent DEF ShowInv
  <2>2. CASE UNCHANGED <<fd, pc>>  BY <1>2, <2>2, ShowKept DEF OpenSerial, ShowInv
  <2>. QED  BY <1>2, <2>1, <2>2 DEF OpenSerial
<1>3. CASE CannotOpen
  BY <1>3, ShowKept DEF CannotOpen, port
<1>4. CASE Drain  BY <1>4, ShowDrain
<1>5. CASE Cleanup
  <2>1. /\ pc' = "ended" /\ ~fd' /\ rx' = <<>> /\ sent' = sent  BY <1>5 DEF Cleanup
  <2>2. PortTyped'  BY <2>1, NothingSent DEF ShowInv, PortTyped
  <2>. QED  BY <2>1, <2>2 DEF ShowInv
<1>6. CASE SerialRead  BY <1>6, ShowSerialRead
<1>7. CASE StdinRead
  BY <1>7, ShowKept DEF StdinRead, port
<1>8. CASE Key
  BY <1>8, ShowKept DEF Key, port
<1>9. CASE Loop
  BY <1>9, ShowKept DEF Loop, port
<1>10. ASSUME NEW c \in {Text, CR, LF, NUL}, DeviceSends(c) PROVE ShowInv'
  BY <1>10, ShowDeviceSends DEF SerialChars
<1>11. CASE Unplug
  <2>1. /\ pc' = pc /\ ~plugged' /\ rx' = <<>> /\ sent' = sent /\ screen' = screen /\ fd' = fd
    BY <1>11 DEF Unplug
  <2>2. PortTyped'  BY <2>1, NothingSent DEF ShowInv, PortTyped
  <2>. QED  BY <2>1, <2>2 DEF ShowInv
<1>12. ASSUME NEW k \in {CtrlA, Tilde, Dot, Q, ClearKey, Other}, Type(k) PROVE ShowInv'
  BY <1>12, ShowKept DEF Type, port, ShowInv
<1>13. CASE CloseStdin
  BY <1>13, ShowKept DEF CloseStdin, port, ShowInv
<1>14. CASE UNCHANGED sagecomVars
  BY <1>14, ShowKept DEF sagecomVars, ShowInv
<1>. QED  BY <1>1, <1>2, <1>3, <1>4, <1>5, <1>6, <1>7, <1>8, <1>9, <1>10, <1>11, <1>12,
             <1>13, <1>14 DEF SagecomNext, Program

\* sagecom shows all the device sent since the port was drained, in order, each LF as
\* a line end and each CR as one or not at all, but for what the port still holds,
\* for every size of a read (sagecom.sage:92-114, sagecom_tty.c:98-111).
THEOREM ScreenShowsAll == SagecomSpec => []ShownExact
<1>1. SagecomInit => ShowInv  BY ShowInit
<1>2. ShowInv /\ [SagecomNext]_sagecomVars => ShowInv'  BY ShowStep
<1>3. ShowInv => ShownExact
  <2> SUFFICES ASSUME ShowInv, fd, plugged, ~Contains(sent, NUL)
               PROVE  \E dropped \in SUBSET Returns :
                        screen \o LineEnds(rx) = LineEndsBut(sent, dropped)
    BY DEF ShownExact
  <2>1. screen \o LineEnds(rx) = LineEnds(sent)  BY DEF ShowInv
  <2>2. LineEndsBut(sent, {}) = LineEnds(sent)
    <3>1. [i \in DOMAIN sent |-> IF i \in {} THEN <<>> ELSE LineEnd(sent[i])]
             = [i \in DOMAIN sent |-> LineEnd(sent[i])]
      OBVIOUS
    <3>. QED  BY <3>1 DEF LineEndsBut, LineEnds
  <2>3. {} \in SUBSET Returns  OBVIOUS
  <2> WITNESS {} \in SUBSET Returns
  <2>. QED  BY <2>1, <2>2
<1>. QED  BY <1>1, <1>2, <1>3, PTL DEF SagecomSpec

-----------------------------------------------------------------------------
(* sagecom: what the keys mean *)

KeyCodes == {CtrlA, Tilde, Dot, Q, ClearKey, Other}

\* Escaped and Meaning, of any keys.
RunOfCtrlA(d, n, i) ==
  /\ n % 2 = 1 /\ \A m \in i - n .. i - 1 : d[m] = CtrlA
  /\ (i - n > 1 => d[i - n - 1] # CtrlA)

EscapedIn(d, i) == \E n \in 1 .. i - 1 : RunOfCtrlA(d, n, i)

MeaningIn(d, i) ==
  IF EscapedIn(d, i) THEN IF d[i] = ClearKey THEN <<>> ELSE <<CtrlA, d[i]>>
  ELSE IF d[i] = CtrlA THEN <<>>
  ELSE <<d[i]>>

Meanings(d, n) == [i \in 1 .. n |-> MeaningIn(d, i)]

\* A key is escaped if the one before it is a Ctrl+A that is not.
LEMMA EscapeStep ==
  ASSUME NEW d \in Seq(KeyCodes), NEW i \in 1 .. Len(d)
  PROVE  EscapedIn(d, i + 1) <=> d[i] = CtrlA /\ ~EscapedIn(d, i)
<1>1. i \in Nat /\ i >= 1  BY LenProperties
<1>2. ASSUME NEW n \in 1 .. i, RunOfCtrlA(d, n, i + 1)
      PROVE  d[i] = CtrlA /\ ~EscapedIn(d, i)
  <2>1. /\ n % 2 = 1 /\ \A m \in i + 1 - n .. i : d[m] = CtrlA
        /\ (i + 1 - n > 1 => d[i + 1 - n - 1] # CtrlA)
    BY <1>1, <1>2 DEF RunOfCtrlA
  <2>2. d[i] = CtrlA  BY <1>1, <2>1
  <2>3. ASSUME NEW k \in 1 .. i - 1, RunOfCtrlA(d, k, i) PROVE FALSE
    <3>1. /\ k % 2 = 1 /\ \A m \in i - k .. i - 1 : d[m] = CtrlA
          /\ (i - k > 1 => d[i - k - 1] # CtrlA)
      BY <2>3 DEF RunOfCtrlA
    <3>2. ~(n - 1 > k)
      <4> SUFFICES ASSUME n - 1 > k PROVE FALSE  OBVIOUS
      <4>1. i - k - 1 \in i + 1 - n .. i /\ i - k > 1  BY <1>1
      <4>. QED  BY <2>1, <3>1, <4>1
    <3>3. ~(n - 1 < k)
      <4> SUFFICES ASSUME n - 1 < k PROVE FALSE  OBVIOUS
      <4>1. i + 1 - n > 1 /\ i + 1 - n - 1 \in i - k .. i - 1  BY <1>1
      <4>. QED  BY <2>1, <3>1, <4>1
    <3>4. n = k + 1  BY <1>1, <3>2, <3>3
    <3>. QED  BY <2>1, <3>1, <3>4
  <2>. QED  BY <2>2, <2>3 DEF EscapedIn
<1>3. ASSUME d[i] = CtrlA, ~EscapedIn(d, i)
      PROVE  \E n \in 1 .. i : RunOfCtrlA(d, n, i + 1)
  <2> DEFINE R == {k \in 0 .. i - 1 : k = i - 1 \/ d[i - k - 1] # CtrlA}
  <2>1. R \in SUBSET Nat /\ i - 1 \in R  BY <1>1
  <2>2. PICK k \in R : \A m \in R : k <= m
    <3> HIDE DEF R
    <3>. QED  BY <2>1, LeastElement
  <2>3. k \in 0 .. i - 1 /\ (k = i - 1 \/ d[i - k - 1] # CtrlA)  OBVIOUS
  <2>4. ASSUME NEW m \in i - k .. i - 1 PROVE d[m] = CtrlA
    <3>1. i - m - 1 \in 0 .. i - 1 /\ i - m - 1 < k /\ i - (i - m - 1) - 1 = m
      BY <1>1, <2>3
    <3>2. i - m - 1 \notin R  BY <2>2, <2>3, <3>1
    <3>. QED  BY <1>1, <3>1, <3>2
  <2> HIDE DEF R
  <2>5. k % 2 # 1
    <3>1. CASE k = 0  BY <3>1
    <3>2. CASE k # 0
      <4>1. k \in 1 .. i - 1 /\ (i - k > 1 => k # i - 1)  BY <1>1, <2>3, <3>2
      <4>. QED  BY <1>3, <2>3, <2>4, <4>1 DEF EscapedIn, RunOfCtrlA
    <3>. QED  BY <3>1, <3>2
  <2>6. (k + 1) % 2 = 1 /\ k + 1 \in 1 .. i  BY <1>1, <2>3, <2>5
  <2>7. \A m \in (i + 1) - (k + 1) .. (i + 1) - 1 : d[m] = CtrlA
    BY <1>1, <1>3, <2>3, <2>4
  <2>8. (i + 1) - (k + 1) > 1 => d[(i + 1) - (k + 1) - 1] # CtrlA
    <3>1. (i + 1) - (k + 1) - 1 = i - k - 1 /\ ((i + 1) - (k + 1) > 1 => k # i - 1)  BY <1>1, <2>3
    <3>. QED  BY <2>3, <3>1
  <2>9. RunOfCtrlA(d, k + 1, i + 1)  BY <2>6, <2>7, <2>8 DEF RunOfCtrlA
  <2>. QED  BY <2>6, <2>9
<1>4. (i + 1) - 1 = i  BY <1>1
<1>. QED  BY <1>2, <1>3, <1>4 DEF EscapedIn

LEMMA FirstIsNotEscaped == ASSUME NEW d PROVE ~EscapedIn(d, 1)
BY DEF EscapedIn

\* What was typed later changes no meaning.
LEMMA EscapeOfPrefix ==
  ASSUME NEW d \in Seq(KeyCodes), NEW c \in KeyCodes
  PROVE  /\ \A i \in 1 .. Len(d) + 1 : EscapedIn(Append(d, c), i) <=> EscapedIn(d, i)
         /\ Meanings(Append(d, c), Len(d)) = Meanings(d, Len(d))
<1> DEFINE e == Append(d, c)
<1>1. Len(d) \in Nat /\ \A i \in 1 .. Len(d) : e[i] = d[i]  BY LenProperties, AppendProperties
<1> HIDE DEF e
<1>2. ASSUME NEW i \in 1 .. Len(d) + 1 PROVE EscapedIn(e, i) <=> EscapedIn(d, i)
  <2>1. ASSUME NEW n \in 1 .. i - 1 PROVE RunOfCtrlA(e, n, i) <=> RunOfCtrlA(d, n, i)
    <3>1. \A m \in i - n .. i - 1 : m \in 1 .. Len(d)  BY <1>1
    <3>2. i - n > 1 => i - n - 1 \in 1 .. Len(d)  BY <1>1
    <3>. QED  BY <1>1, <3>1, <3>2 DEF RunOfCtrlA
  <2>. QED  BY <2>1 DEF EscapedIn
<1>3. \A i \in 1 .. Len(d) : MeaningIn(e, i) = MeaningIn(d, i)
  BY <1>1, <1>2 DEF MeaningIn
<1>4. Meanings(e, Len(d)) = Meanings(d, Len(d))  BY <1>3 DEF Meanings
<1>. QED  BY <1>2, <1>4 DEF e

LEMMA MeaningType ==
  ASSUME NEW d \in Seq(KeyCodes), NEW i \in 1 .. Len(d)
  PROVE  MeaningIn(d, i) \in Seq(KeyCodes)
<1>1. d[i] \in KeyCodes /\ CtrlA \in KeyCodes  BY ElementOfSeq DEF KeyCodes
<1> DEFINE k == d[i]
<1> HIDE DEF k
<1>2. <<>> \in Seq(KeyCodes) /\ <<k>> \in Seq(KeyCodes) /\ <<CtrlA, k>> \in Seq(KeyCodes)
  BY <1>1 DEF k
<1>. QED  BY <1>2 DEF MeaningIn, k

LEMMA MeaningsType ==
  ASSUME NEW d \in Seq(KeyCodes), NEW n \in 0 .. Len(d)
  PROVE  Meanings(d, n) \in Seq(Seq(KeyCodes)) /\ Len(Meanings(d, n)) = n
<1>1. Len(d) \in Nat /\ n \in Nat  BY LenProperties
<1>2. \A i \in 1 .. n : MeaningIn(d, i) \in Seq(KeyCodes)  BY <1>1, MeaningType
<1>. QED  BY <1>1, <1>2 DEF Meanings

LEMMA MeaningsStep ==
  ASSUME NEW d \in Seq(KeyCodes), NEW n \in 1 .. Len(d)
  PROVE  /\ FlattenSeq(Meanings(d, n)) = FlattenSeq(Meanings(d, n - 1)) \o MeaningIn(d, n)
         /\ FlattenSeq(Meanings(d, n - 1)) \in Seq(KeyCodes)
<1> DEFINE S == Seq(KeyCodes)
           a == Meanings(d, n)
           b == Meanings(d, n - 1)
           m == MeaningIn(d, n)
<1>1. n \in Nat /\ n \in 0 .. Len(d) /\ n - 1 \in 0 .. Len(d)  BY LenProperties
<1>2. a \in Seq(S) /\ Len(a) = n /\ b \in Seq(S) /\ Len(b) = n - 1 /\ m \in S
  BY <1>1, MeaningsType, MeaningType
<1>3. a[n] = m /\ \A i \in 1 .. n - 1 : a[i] = b[i]  BY <1>1 DEF Meanings
<1> HIDE DEF a, b, m, S
<1>4. a = Append(b, m)
  <2>1. /\ Append(b, m) \in Seq(S) /\ Len(Append(b, m)) = n
        /\ Append(b, m)[n] = m /\ \A i \in 1 .. n - 1 : Append(b, m)[i] = b[i]
    BY <1>1, <1>2, AppendProperties
  <2>2. \A i \in 1 .. n : i = n \/ i \in 1 .. n - 1  BY <1>1
  <2>. QED  BY <1>2, <1>3, <2>1, <2>2, SeqEqual
<1>5. FlattenSeq(b) \in Seq(KeyCodes) /\ FlattenSeq(Append(b, m)) = FlattenSeq(b) \o m
  BY <1>2, FlattenAppend DEF S
<1>. QED  BY <1>4, <1>5 DEF a, b, m
-----------------------------------------------------------------------------
(* The invariant: what was handled and what was written. *)

KeyboardTyped ==
  /\ input \in Seq(KeyCodes) /\ j \in 0 .. Len(input)
  /\ keys \in Seq(KeyCodes) /\ done \in Seq(KeyCodes)
  /\ escape_mode \in BOOLEAN /\ running \in BOOLEAN

\* The keys d have all been passed on, and none of them has ended the program.
Passed(d, w, n) ==
  /\ \A i \in 1 .. n : ~(EscapedIn(d, i) /\ d[i] = Q)
  /\ w = FlattenSeq(Meanings(d, n))

Handled ==
  LET n == Len(done)
  IN  /\ running => Passed(done, written, n) /\ (escape_mode <=> EscapedIn(done, n + 1))
      /\ ~running => /\ n >= 1 /\ Passed(done, written, n - 1)
                     /\ done[n] = Tilde \/ (EscapedIn(done, n) /\ done[n] = Q)

ModeRestored ==
  /\ raw => saved
  /\ pc \in {"start", "open"} => ~fd
  /\ pc = "ended" => ~raw /\ ~saved /\ ~fd

KeysInv == KeyboardTyped /\ Handled /\ ModeRestored

LEMMA KeysInit == SagecomInit => KeysInv
<1> SUFFICES ASSUME SagecomInit PROVE KeysInv  OBVIOUS
<1>1. /\ input = <<>> /\ j = 0 /\ keys = <<>> /\ done = <<>> /\ written = <<>>
      /\ escape_mode = FALSE /\ running = TRUE /\ pc = "start"
      /\ raw = FALSE /\ saved = FALSE /\ fd = FALSE
  BY DEF SagecomInit
<1>2. <<>> \in Seq(KeyCodes) /\ Len(<<>>) = 0  BY EmptySeq
<1>3. KeyboardTyped
  <2>1. Len(input) = 0 /\ input \in Seq(KeyCodes)  BY <1>1, <1>2
  <2>2. j \in 0 .. Len(input)  BY <1>1, <2>1
  <2>. QED  BY <1>1, <1>2, <2>1, <2>2 DEF KeyboardTyped
<1>4. Meanings(<<>>, 0) = <<>>  BY DEF Meanings
<1>5. Handled  BY <1>1, <1>2, <1>4, FlattenEmpty, FirstIsNotEscaped DEF Handled, Passed
<1>. QED  BY <1>1, <1>3, <1>5 DEF KeysInv, ModeRestored

\* A step that handles no key.
LEMMA HandledKept ==
  ASSUME Handled, UNCHANGED <<done, written, escape_mode, running>>
  PROVE  Handled'
BY DEF Handled, Passed, EscapedIn, RunOfCtrlA, Meanings, MeaningIn

LEMMA RestoreMode == KeysInv /\ Restore => ~raw' /\ ~saved' /\ keys' \in Seq(KeyCodes)
<1>1. <<>> \in Seq(KeyCodes)  BY EmptySeq
<1>. QED  BY <1>1 DEF KeysInv, KeyboardTyped, ModeRestored, Restore

LEMMA KeysOpenAndClose ==
  KeysInv /\ (RawStdin \/ OpenSerial \/ CannotOpen \/ Drain \/ Cleanup) => KeysInv'
<1>1. ASSUME KeysInv, RawStdin PROVE KeysInv'
  <2>1. /\ UNCHANGED <<input, j, done, written, escape_mode, running, fd>>
        /\ pc = "start" /\ pc' = "open" /\ keys' \in {<<>>, keys} /\ (raw' => saved')
    BY <1>1 DEF RawStdin, port, typing, KeysInv, ModeRestored
  <2>2. <<>> \in Seq(KeyCodes)  BY EmptySeq
  <2>. QED  BY <1>1, <2>1, <2>2, HandledKept DEF KeysInv, KeyboardTyped, ModeRestored
<1>2. ASSUME KeysInv, OpenSerial PROVE KeysInv'
  <2>1. /\ UNCHANGED <<input, j, keys, done, written, escape_mode, running, raw, saved>>
        /\ pc = "open" /\ (pc' = "drain" \/ (pc' = "open" /\ fd' = fd))
    BY <1>2 DEF OpenSerial, terminal, keyboard, typing
  <2>. QED  BY <1>2, <2>1, HandledKept DEF KeysInv, KeyboardTyped, ModeRestored
<1>3. ASSUME KeysInv, CannotOpen PROVE KeysInv'
  <2>1. /\ UNCHANGED <<input, j, done, written, escape_mode, running, fd>>
        /\ pc = "open" /\ pc' = "ended" /\ Restore
    BY <1>3 DEF CannotOpen, port, typing
  <2>. QED  BY <1>3, <2>1, HandledKept, RestoreMode DEF KeysInv, KeyboardTyped, ModeRestored
<1>4. ASSUME KeysInv, Drain PROVE KeysInv'
  <2>1. /\ UNCHANGED <<input, j, keys, done, written, escape_mode, running, raw, saved, fd>>
        /\ pc' \in {"drain again", "serial"}
    BY <1>4 DEF Drain, terminal, keyboard, typing
  <2>. QED  BY <1>4, <2>1, HandledKept DEF KeysInv, KeyboardTyped, ModeRestored
<1>5. ASSUME KeysInv, Cleanup PROVE KeysInv'
  <2>1. /\ UNCHANGED <<input, j, done, written, escape_mode, running>>
        /\ pc' = "ended" /\ fd' = FALSE /\ Restore
    BY <1>5 DEF Cleanup, typing
  <2>. QED  BY <1>5, <2>1, HandledKept, RestoreMode DEF KeysInv, KeyboardTyped, ModeRestored
<1>. QED  BY <1>1, <1>2, <1>3, <1>4, <1>5

LEMMA KeysStdinRead == KeysInv /\ StdinRead => KeysInv'
<1> SUFFICES ASSUME KeysInv, StdinRead PROVE KeysInv'  OBVIOUS
<1>1. /\ UNCHANGED <<done, written, escape_mode, running, raw, saved, fd>>
      /\ pc' = "keys" /\ j' = 0
  BY DEF StdinRead, terminal, port
<1>2. keys \in Seq(KeyCodes) /\ <<>> \in Seq(KeyCodes)  BY EmptySeq DEF KeysInv, KeyboardTyped
<1>3. input' \in Seq(KeyCodes) /\ keys' \in Seq(KeyCodes)
  <2>1. CASE input' = <<>> /\ UNCHANGED keys  BY <1>2, <2>1
  <2>2. ASSUME NEW n \in 1 .. Len(keys),
               input' = SubSeq(keys, 1, n), keys' = SubSeq(keys, n + 1, Len(keys))
        PROVE  input' \in Seq(KeyCodes) /\ keys' \in Seq(KeyCodes)
    <3> DEFINE l == Len(keys)
               m == n + 1
    <3>1. /\ l \in Int /\ m \in Int /\ n \in Int
          /\ \A i \in 1 .. n : keys[i] \in KeyCodes
          /\ \A i \in m .. l : keys[i] \in KeyCodes
      BY <1>2, LenProperties, ElementOfSeq
    <3> HIDE DEF l, m
    <3>2. SubSeq(keys, 1, n) \in Seq(KeyCodes) /\ SubSeq(keys, m, l) \in Seq(KeyCodes)
      BY <3>1, SubSeqProperties
    <3>. QED  BY <2>2, <3>2 DEF l, m
  <2>. QED  BY <2>1, <2>2 DEF StdinRead
<1>4. 0 \in 0 .. Len(input')  BY <1>3, LenProperties
<1>. QED  BY <1>1, <1>3, <1>4, HandledKept DEF KeysInv, KeyboardTyped, ModeRestored

\* One key more, of the four kinds.
LEMMA OneMorePassed ==
  ASSUME NEW d \in Seq(KeyCodes), NEW c \in KeyCodes, NEW w, Passed(d, w, Len(d))
  PROVE  LET e == Append(d, c)
             n == Len(d) + 1
         IN  /\ e \in Seq(KeyCodes) /\ Len(e) = n /\ e[n] = c
             /\ EscapedIn(e, n) <=> EscapedIn(d, n)
             /\ EscapedIn(e, n + 1) <=> c = CtrlA /\ ~EscapedIn(d, n)
             /\ Passed(e, w, n - 1)
             /\ ~(EscapedIn(d, n) /\ c = Q) => Passed(e, w \o MeaningIn(e, n), n)
             /\ w \in Seq(KeyCodes)
<1> DEFINE e == Append(d, c)
           n == Len(d) + 1
<1>1. /\ Len(d) \in Nat /\ e \in Seq(KeyCodes) /\ Len(e) = n /\ e[n] = c
      /\ \A i \in 1 .. Len(d) : e[i] = d[i]
  BY LenProperties, AppendProperties
<1>2. /\ n \in 1 .. Len(e) /\ n - 1 = Len(d) /\ n \in 1 .. Len(d) + 1
      /\ \A i \in 1 .. Len(d) : i \in 1 .. Len(d) + 1
  BY <1>1
<1>3. /\ \A i \in 1 .. Len(d) + 1 : EscapedIn(e, i) <=> EscapedIn(d, i)
      /\ Meanings(e, Len(d)) = Meanings(d, Len(d))
  BY EscapeOfPrefix
<1> HIDE DEF e, n
<1>4. EscapedIn(e, n + 1) <=> c = CtrlA /\ ~EscapedIn(d, n)
  BY <1>1, <1>2, <1>3, EscapeStep
<1>5. Passed(e, w, n - 1)
  BY <1>1, <1>2, <1>3 DEF Passed
<1>6. /\ FlattenSeq(Meanings(e, n)) = FlattenSeq(Meanings(e, n - 1)) \o MeaningIn(e, n)
      /\ FlattenSeq(Meanings(e, n - 1)) \in Seq(KeyCodes)
  BY <1>1, <1>2, MeaningsStep
<1>7. w = FlattenSeq(Meanings(e, n - 1))  BY <1>5 DEF Passed
<1>8. ASSUME ~(EscapedIn(d, n) /\ c = Q) PROVE Passed(e, w \o MeaningIn(e, n), n)
  <2>1. \A i \in 1 .. n : i = n \/ i \in 1 .. n - 1  BY <1>1, <1>2
  <2>2. \A i \in 1 .. n : ~(EscapedIn(e, i) /\ e[i] = Q)
    BY <1>1, <1>2, <1>3, <1>5, <1>8, <2>1 DEF Passed
  <2>. QED  BY <1>6, <1>7, <2>2 DEF Passed
<1>. QED  BY <1>1, <1>2, <1>3, <1>4, <1>5, <1>6, <1>7, <1>8 DEF e, n

LEMMA KeysKey == KeysInv /\ Key => KeysInv'
<1> SUFFICES ASSUME KeysInv, Key PROVE KeysInv'  OBVIOUS
<1> DEFINE c == input[j + 1]
           n == Len(done) + 1
           e == done'
<1>1. /\ pc = "keys" /\ pc' = pc /\ running /\ j < Len(input) /\ j' = j + 1
      /\ UNCHANGED <<raw, saved, fd, keys, input>> /\ done' = Append(done, c)
  BY DEF Key, terminal, port, keyboard
<1>2. IF TildeQuits THEN Quit
      ELSE IF escape_mode
      THEN IF c = Q THEN running' = FALSE /\ escape_mode' = FALSE /\ UNCHANGED written
           ELSE /\ escape_mode' = FALSE /\ UNCHANGED running
                /\ IF c = ClearKey THEN UNCHANGED written ELSE Write(<<CtrlA, c>>)
      ELSE IF c = CtrlA THEN escape_mode' = TRUE /\ UNCHANGED <<running, written>>
      ELSE Write(<<c>>) /\ UNCHANGED <<escape_mode, running>>
  BY DEF Key
<1>3. /\ input \in Seq(KeyCodes) /\ j \in 0 .. Len(input) /\ done \in Seq(KeyCodes)
      /\ keys \in Seq(KeyCodes) /\ escape_mode \in BOOLEAN /\ running \in BOOLEAN
  BY DEF KeysInv, KeyboardTyped
<1>4. c \in KeyCodes /\ j' \in 0 .. Len(input)
  <2>1. j + 1 \in 1 .. Len(input) /\ j' \in 0 .. Len(input)  BY <1>1, <1>3, LenProperties
  <2>. QED  BY <1>3, <2>1, ElementOfSeq
<1>5. /\ Passed(done, written, Len(done)) /\ (escape_mode <=> EscapedIn(done, n))
  BY <1>1 DEF KeysInv, Handled
<1>6. TildeQuits => c = Tilde  BY DEF TildeQuits
<1> HIDE DEF c
<1>7. /\ e \in Seq(KeyCodes) /\ Len(e) = n /\ e[n] = c
      /\ EscapedIn(e, n) <=> EscapedIn(done, n)
      /\ EscapedIn(e, n + 1) <=> c = CtrlA /\ ~EscapedIn(done, n)
      /\ Passed(e, written, n - 1)
      /\ ~(EscapedIn(done, n) /\ c = Q) => Passed(e, written \o MeaningIn(e, n), n)
      /\ written \in Seq(KeyCodes)
  BY <1>1, <1>3, <1>4, <1>5, OneMorePassed
<1>8. Len(done) \in Nat /\ n >= 1  BY <1>3, LenProperties
<1> HIDE DEF n, e
<1>9. written \o <<>> = written  BY <1>7, ConcatEmptySeq
<1>10. /\ escape_mode' \in BOOLEAN /\ running' \in BOOLEAN
       /\ running' => /\ Passed(e, written', n) /\ (escape_mode' <=> EscapedIn(e, n + 1))
       /\ ~running' => /\ Passed(e, written', n - 1)
                       /\ e[n] = Tilde \/ (EscapedIn(e, n) /\ e[n] = Q)
  <2>1. CASE TildeQuits
    BY <1>1, <1>2, <1>3, <1>6, <1>7, <2>1 DEF Quit
  <2>2. CASE ~TildeQuits /\ escape_mode /\ c = Q
    BY <1>1, <1>2, <1>5, <1>7, <2>2
  <2>3. CASE ~TildeQuits /\ escape_mode /\ c # Q
    <3>1. MeaningIn(e, n) = IF c = ClearKey THEN <<>> ELSE <<CtrlA, c>>
      BY <1>5, <1>7, <2>3 DEF MeaningIn
    <3>2. written' = written \o MeaningIn(e, n) /\ escape_mode' = FALSE /\ running' = TRUE
      BY <1>1, <1>2, <1>3, <1>9, <2>3, <3>1 DEF Write
    <3>. QED  BY <1>5, <1>7, <2>3, <3>2
  <2>4. CASE ~TildeQuits /\ ~escape_mode
    <3>1. MeaningIn(e, n) = IF c = CtrlA THEN <<>> ELSE <<c>>
      BY <1>5, <1>7, <2>4 DEF MeaningIn
    <3>2. /\ written' = written \o MeaningIn(e, n) /\ running' = TRUE
          /\ escape_mode' = (c = CtrlA)
      <4>1. CASE c = CtrlA  BY <1>1, <1>2, <1>3, <1>9, <2>4, <3>1, <4>1
      <4>2. CASE c # CtrlA  BY <1>1, <1>2, <1>3, <2>4, <3>1, <4>2 DEF Write
      <4>. QED  BY <4>1, <4>2
    <3>. QED  BY <1>5, <1>7, <2>4, <3>2
  <2>. QED  BY <2>1, <2>2, <2>3, <2>4
<1>11. Handled'  BY <1>7, <1>8, <1>10 DEF Handled, e
<1>12. KeyboardTyped'  BY <1>1, <1>3, <1>4, <1>7, <1>10 DEF KeyboardTyped, e
<1>. QED  BY <1>1, <1>11, <1>12 DEF KeysInv, ModeRestored

LEMMA KeysStep == KeysInv /\ [SagecomNext]_sagecomVars => KeysInv'
<1> SUFFICES ASSUME KeysInv, [SagecomNext]_sagecomVars PROVE KeysInv'  OBVIOUS
<1>1. CASE RawStdin \/ OpenSerial \/ CannotOpen \/ Drain \/ Cleanup
  BY <1>1, KeysOpenAndClose
<1>2. CASE StdinRead  BY <1>2, KeysStdinRead
<1>3. CASE Key  BY <1>3, KeysKey
<1>4. CASE SerialRead
  BY <1>4, HandledKept DEF SerialRead, terminal, keyboard, typing, KeysInv, KeyboardTyped, ModeRestored
<1>5. CASE Loop
  BY <1>5, HandledKept DEF Loop, terminal, port, keyboard, typing, KeysInv, KeyboardTyped, ModeRestored
<1>6. ASSUME NEW c, DeviceSends(c) PROVE KeysInv'
  BY <1>6, HandledKept DEF DeviceSends, terminal, keyboard, typing, KeysInv, KeyboardTyped, ModeRestored
<1>7. CASE Unplug
  BY <1>7, HandledKept DEF Unplug, terminal, keyboard, typing, KeysInv, KeyboardTyped, ModeRestored
<1>8. ASSUME NEW k \in KeyCodes, Type(k) PROVE KeysInv'
  <2>1. keys' \in Seq(KeyCodes)  BY <1>8 DEF Type, KeysInv, KeyboardTyped
  <2>. QED
    BY <1>8, <2>1, HandledKept DEF Type, terminal, port, typing, KeysInv, KeyboardTyped, ModeRestored
<1>9. CASE CloseStdin
  BY <1>9, HandledKept DEF CloseStdin, port, terminal, typing, KeysInv, KeyboardTyped, ModeRestored
<1>10. CASE UNCHANGED sagecomVars
  BY <1>10, HandledKept DEF sagecomVars, KeysInv, KeyboardTyped, ModeRestored
<1>. QED  BY <1>1, <1>2, <1>3, <1>4, <1>5, <1>6, <1>7, <1>8, <1>9, <1>10
          DEF SagecomNext, Program, KeyCodes

\* The keys handled reach the port as they were typed, each Ctrl+A with the key after
\* it, be it of another read; Ctrl+A Q ends the program at once, ~. and ~q only may; and
\* when it has ended the terminal is what it was, for every size of a read
\* (sagecom.sage:117-160).
THEOREM KeysArrive == SagecomSpec => []KeysExact
<1>1. KeysInv => KeysExact
  <2> SUFFICES ASSUME KeysInv PROVE KeysExact  OBVIOUS
  <2>1. /\ \A i : Escaped(i) <=> EscapedIn(done, i)
        /\ \A i : Meaning(i) = MeaningIn(done, i)
    BY DEF Escaped, EscapedIn, RunOfCtrlA, Meaning, MeaningIn
  <2>2. \A n : [i \in 1 .. n |-> Meaning(i)] = Meanings(done, n)
    BY <2>1 DEF Meanings
  <2>3. escape_mode \in BOOLEAN /\ running \in BOOLEAN /\ \A i : Escaped(i) \in BOOLEAN
    BY DEF KeysInv, KeyboardTyped, Escaped
  <2>. QED  BY <2>1, <2>2, <2>3 DEF KeysInv, Handled, Passed, ModeRestored, KeysExact
<1>. QED  BY <1>1, KeysInit, KeysStep, PTL DEF SagecomSpec
=============================================================================
