------------------------------- MODULE MCRepl -------------------------------
(***************************************************************************)
(* Instances of the REPL for TLC: lines of 1, 2 and 4 bytes, a buffer of 8 *)
(* or 10, values of at most 5 bytes in the store and 2 in a variable.      *)
(***************************************************************************)
EXTENDS Repl

CONSTANTS
  x, y, long,      \* names
  head, body, set, one, str, wide, clip, other   \* lines

MCLineLen == [l \in Lines |-> CASE l \in {head, body, set, clip} -> 2
                                [] l = wide -> 4
                                [] OTHER -> 1]

Value(type, line) == [type |-> type, text |-> Text(<<line>>, MCLineLen[line])]

\* The line set is "let x = str".
MCBinds == [l \in Lines |-> IF l = set THEN [key |-> x, val |-> Value("string", str)]
                            ELSE NoBinding]

\* An imported module has a type of its own and no text.
Module == [type |-> "other", text |-> EmptyText]

MCLiterals == {Value("string", wide), Module}

MCTwoLiterals == {Value("number", one), Value("string", str)}

MCOther == Text(<<other>>, 1)

MCClipped == Text(<<clip>>, 2)
=============================================================================
