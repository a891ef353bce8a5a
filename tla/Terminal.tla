------------------------------ MODULE Terminal ------------------------------
(***************************************************************************)
(* What the framebuffer console promises: a terminal of unbounded length,  *)
(* with the screen, its height and scrolling left out.  Characters go onto *)
(* the last line at the cursor, a full line is continued on the next one,  *)
(* and no earlier line changes.                                            *)
(***************************************************************************)
EXTENDS Naturals, Sequences

CONSTANTS
  Width,    \* the characters of a line
  Glyphs,   \* what can be printed
  Blank     \* a place where nothing was printed

Columns == 0 .. Width - 1

BlankLine == [c \in Columns |-> Blank]

VARIABLES
  lines,    \* all the lines since the last clear
  col       \* the cursor's column in the last line; Width after a full line

vars == <<lines, col>>

Init == lines = <<BlankLine>> /\ col = 0

Newline == lines' = Append(lines, BlankLine) /\ col' = 0

Return == col' = 0 /\ UNCHANGED lines

Back == col > 0 /\ col' = col - 1 /\ UNCHANGED lines

Write(g) ==
  \/ /\ col < Width
     /\ lines' = [lines EXCEPT ![Len(lines)] = [@ EXCEPT ![col] = g]]
     /\ col' = col + 1
  \/ /\ col = Width
     /\ lines' = Append(lines, [BlankLine EXCEPT ![0] = g])
     /\ col' = 1

Clear == lines' = <<BlankLine>> /\ col' = 0

Next == Newline \/ Return \/ Back \/ Clear \/ \E g \in Glyphs : Write(g)

Spec == Init /\ [][Next]_vars
=============================================================================
