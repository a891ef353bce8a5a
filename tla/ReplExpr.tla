------------------------------ MODULE ReplExpr ------------------------------
(***************************************************************************)
(* What the REPL's expressions mean: values, expressions as trees, the     *)
(* line a tree is printed as with the fewest parentheses, and the value    *)
(* and effects it has.  ReplParser evaluates lines; this module never      *)
(* parses.                                                                 *)
(***************************************************************************)
EXTENDS Integers, Sequences, SequencesExt

CONSTANTS
  Idents,      \* names of at most 63 characters
  Natives,     \* the names in sage_ffi_table
  Procedures,  \* the natives that return nil
  Numbers,     \* a number's token -> its value
  Strings,     \* the tokens of string literals
  MaxArgs      \* 8: arguments a native is given

ASSUME ExprAssumption ==
  /\ Procedures \subseteq Natives /\ Natives \subseteq Idents
  /\ Numbers \in [DOMAIN Numbers -> Int] /\ MaxArgs \in Nat

-----------------------------------------------------------------------------
(* SageValue *)

Nil == [nil |-> TRUE]
Number(n) == [number |-> n]
Bool(b) == [bool |-> b]
String(s) == [string |-> s]     \* s is the sequence of literals it was put together from
Array(s) == [array |-> s]
Dict(f) == [dict |-> f]

IsNumber(v) == "number" \in DOMAIN v
IsString(v) == "string" \in DOMAIN v
IsDict(v) == "dict" \in DOMAIN v

Member(v, p) == IF p \in DOMAIN v.dict THEN v.dict[p] ELSE Nil

-----------------------------------------------------------------------------
(* Operators *)

\* How tightly an operator binds, as docs/SagePico.md:290-291 lists them.
Level(op) ==
  IF op \in {<<"*">>, <<"/">>, <<"%">>} THEN 2 ELSE IF op \in {<<"+">>, <<"-">>} THEN 1 ELSE 0

Abs(a) == IF a < 0 THEN -a ELSE a

\* fmod has the sign of its first operand, and 0 for a divisor of 0.
Fmod(a, b) == IF b = 0 THEN 0 ELSE IF a < 0 THEN -(Abs(a) % Abs(b)) ELSE a % Abs(b)

\* The quotient is taken of multiples of the divisor, and 0 for a divisor of 0.
Quotient(a, b) ==
  IF b = 0 THEN 0 ELSE IF (a < 0) = (b < 0) THEN Abs(a) \div Abs(b) ELSE -(Abs(a) \div Abs(b))

Combines(op, l, r) ==
  \/ IsNumber(l) /\ IsNumber(r)
  \/ IsString(l) /\ IsString(r) /\ op = <<"+">>

Combined(op, l, r) ==
  IF IsString(l) THEN String(l.string \o r.string)
  ELSE LET a == l.number  b == r.number IN
    CASE op = <<"+">> -> Number(a + b)
      [] op = <<"-">> -> Number(a - b)
      [] op = <<"*">> -> Number(a * b)
      [] op = <<"/">> -> Number(Quotient(a, b))
      [] op = <<"%">> -> Number(Fmod(a, b))
      [] op = <<"=", "=">> -> Bool(a = b)
      [] op = <<"!", "=">> -> Bool(a # b)
      [] op = <<"<">> -> Bool(a < b)
      [] op = <<">">> -> Bool(a > b)
      [] op = <<"<", "=">> -> Bool(a <= b)
      [] op = <<">", "=">> -> Bool(a >= b)

-----------------------------------------------------------------------------
(* Native functions: one that returns a value returns how many arguments it *)
(* was given, here.                                                         *)

Clipped(args) == SubSeq(args, 1, IF Len(args) < MaxArgs THEN Len(args) ELSE MaxArgs)

Returned(f, args) == IF f \in Procedures THEN Nil ELSE Number(Len(args))

-----------------------------------------------------------------------------
(* Trees, and the lines they are printed as. *)

Node(kind, tok, kids) == [kind |-> kind, tok |-> tok, kids |-> kids]

Atom(tok) == Node("atom", <<tok>>, <<>>)
Minus(tok) == Node("minus", <<"-", tok>>, <<>>)
Binary(op, l, r) == Node("binary", op, <<l, r>>)
AssignTo(id, e) == Node("assign", <<id, "=">>, <<e>>)
Let(id, e) == Node("assign", <<"let", id, "=">>, <<e>>)
List(items) == Node("list", <<"[">>, items)
Call(f, args) == Node("call", <<f, "(">>, args)
Method(d, f, args) == Node("call", <<d, ".", f, "(">>, args)
Prop(d, p) == Node("prop", <<d, ".", p>>, <<>>)

\* Printed(t, min): the tokens of t where an operator below precedence min, or
\* an assignment, needs parentheses.
RECURSIVE Printed(_, _)

Separated(lines) ==
  FlattenSeq([i \in DOMAIN lines |-> IF i = 1 THEN lines[i] ELSE <<",">> \o lines[i]])

Printed(t, min) ==
  LET all == [i \in DOMAIN t.kids |-> Printed(t.kids[i], -1)]
      p == IF t.kind = "binary" THEN Level(t.tok) ELSE -1
      open == CASE t.kind = "binary" -> Printed(t.kids[1], p) \o t.tok \o Printed(t.kids[2], p + 1)
                [] t.kind = "list" -> t.tok \o Separated(all) \o <<"]">>
                [] t.kind = "call" -> t.tok \o Separated(all) \o <<")">>
                [] OTHER -> t.tok \o FlattenSeq(all)
  IN  IF t.kind \in {"binary", "assign"} /\ p < min THEN <<"(">> \o open \o <<")">> ELSE open

\* The line of a tree, with its tree.
Line0(t) == [line |-> Printed(t, -1), tree |-> t]

-----------------------------------------------------------------------------
(* The meaning of a tree, from left to right: its value, the variables and *)
(* the native calls after it, and whether all operators had operands that  *)
(* go together.                                                            *)

RECURSIVE Meaning(_, _)

\* The state after the first n of trees, and their values in items.
MeaningAll(trees, st) ==
  LET step(acc, t) == LET m == Meaning(t, acc) IN [m EXCEPT !.items = Append(acc.items, m.val)]
  IN  FoldLeft(step, [st EXCEPT !.items = <<>>], trees)

Called(f, args, st) ==
  IF f \in Natives
  THEN [st EXCEPT !.val = Returned(f, args), !.calls = Append(@, <<f, args>>)]
  ELSE [st EXCEPT !.val = Nil]

AtomMeaning(tok, st) ==
  CASE tok \in DOMAIN Numbers -> [st EXCEPT !.val = Number(Numbers[tok])]
    [] tok \in Strings -> [st EXCEPT !.val = String(<<tok>>)]
    [] OTHER -> IF st.vars[tok] = Nil THEN Called(tok, <<>>, st) ELSE [st EXCEPT !.val = st.vars[tok]]

Meaning(t, st) ==
  LET m == MeaningAll(t.kids, st)
      back(v) == [m EXCEPT !.val = v, !.items = st.items]
  IN CASE t.kind = "atom" -> AtomMeaning(t.tok[1], st)
       [] t.kind = "minus" -> back(Number(-Numbers[t.tok[2]]))
       [] t.kind = "prop" -> back(Member(st.vars[t.tok[1]], t.tok[3]))
       [] t.kind = "list" -> back(Array(m.items))
       [] t.kind = "call" -> Called(t.tok[Len(t.tok) - 1], Clipped(m.items), back(Nil))
       [] t.kind = "assign" ->
            [back(m.items[1]) EXCEPT !.vars[t.tok[Len(t.tok) - 1]] = m.items[1]]
       [] t.kind = "binary" ->
            IF Combines(t.tok, m.items[1], m.items[2])
            THEN back(Combined(t.tok, m.items[1], m.items[2]))
            ELSE [back(Nil) EXCEPT !.typed = FALSE]

MeaningFrom(t, variables) ==
  Meaning(t, [val |-> Nil, vars |-> variables, calls |-> <<>>, items |-> <<>>, typed |-> TRUE])

\* A nil that is followed by another element.
RECURSIVE NilBeforeComma(_)
NilBeforeComma(v) ==
  "array" \in DOMAIN v /\ \E i \in DOMAIN v.array :
    (v.array[i] = Nil /\ i < Len(v.array)) \/ NilBeforeComma(v.array[i])
=============================================================================
