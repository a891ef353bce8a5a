----------------------------- MODULE ReplParser -----------------------------
(***************************************************************************)
(* The expression parser of the on-device REPL, core/sage_bridge.h         *)
(* 829-1123: it evaluates while it parses, by recursive descent with       *)
(* precedence climbing.                                                    *)
(*                                                                         *)
(* The C stack is the variable stack: one frame for each loop or caller    *)
(* that waits for a value.  An action runs to the next call or return, so  *)
(* a loop that never advances is a behaviour that never ends.              *)
(*                                                                         *)
(* A line is a sequence of tokens typed without blanks; "=" "=" is the     *)
(* operator ==.  Numbers are integers, and what a native function does is  *)
(* the call it records.                                                    *)
(***************************************************************************)
EXTENDS ReplExpr

CONSTANTS
  Inputs,      \* [line, tree]: the lines, with the expression each was printed from, or NoTree
  NoTree,
  FirstVars,   \* the variables before the line: name -> value, Nil for one that is not set
  MaxItems     \* bound: items of a list whose loop does not end

VARIABLES
  input,
  pos,
  do,       \* "line", "expr", "call", "items" (the head of a list loop) or "return"
  val,      \* the value returned
  stack,
  vars,     \* sage_repl_vars
  calls     \* history: the native calls made, with their arguments

state == <<input, pos, do, val, stack, vars, calls>>

line == input.line

Tok(p) == IF p \in DOMAIN line THEN line[p] ELSE "end"

-----------------------------------------------------------------------------
(* Frames.  "left" waits for an operand or has one and looks for operators. *)

Left(min) == [of |-> "left", min |-> min]
Right(op, left, min) == [of |-> "right", op |-> op, left |-> left, min |-> min]
Assign(id) == [of |-> "assign", id |-> id]
Paren == [of |-> "paren"]

\* An array literal, or the arguments of native function id.
ItemList(id, close) == [of |-> "items", id |-> id, close |-> close, items |-> <<>>]
ArrayLiteral == ItemList("[", "]")

Top == stack[Len(stack)]
Below == SubSeq(stack, 1, Len(stack) - 1)

Goto(step, p, frames) == do' = step /\ pos' = p /\ stack' = frames

Return(v, p, frames) == Goto("return", p, frames) /\ val' = v

-----------------------------------------------------------------------------
Init ==
  /\ input \in Inputs
  /\ pos = 1 /\ do = "line" /\ val = Nil /\ stack = <<>>
  /\ vars = FirstVars /\ calls = <<>>

\* sage_repl_eval: "let x = e" or an expression.
Line ==
  /\ do = "line"
  /\ IF Tok(1) # "let" THEN Goto("expr", 1, <<>>)
     ELSE IF Tok(2) \notin Idents THEN Goto("expr", 2, <<>>)
     ELSE IF Tok(3) # "=" THEN Goto("expr", 3, <<>>)
     ELSE Goto("expr", 4, <<Assign(Tok(2))>>)
  /\ UNCHANGED <<input, val, vars, calls>>

\* sage_repl_parse_expr, and the first call of sage_repl_parse_binary.
Expr ==
  /\ do = "expr"
  /\ IF Tok(pos) = "end" THEN Return(Nil, pos, stack)
     ELSE Goto("call", pos, Append(stack, Left(0))) /\ UNCHANGED val
  /\ UNCHANGED <<input, vars, calls>>

\* An identifier and the value that stands for it: of the variable, or else of
\* the native function of that name, called without arguments.
Named == do = "call" /\ Tok(pos) \in Idents

StartsAssignment == Tok(pos + 1) = "="

HasProperty ==
  Tok(pos + 1) = "." /\ IsDict(vars[Tok(pos)]) /\ Tok(pos + 2) \in Idents

\* The name is looked up when the right side has been evaluated.
BeginAssignment ==
  /\ Named /\ StartsAssignment
  /\ Goto("expr", pos + 2, Append(stack, Assign(Tok(pos))))
  /\ UNCHANGED <<input, val, vars, calls>>

Variable ==
  /\ Named /\ Tok(pos + 1) \notin {"(", "="} /\ ~HasProperty
  /\ LET id == Tok(pos)
         p == IF Tok(pos + 1) = "." /\ IsDict(vars[id]) THEN pos + 2 ELSE pos + 1
     IN  IF vars[id] = Nil /\ id \in Natives
         THEN Return(Returned(id, <<>>), p, stack) /\ calls' = Append(calls, <<id, <<>>>>)
         ELSE Return(vars[id], p, stack) /\ UNCHANGED calls
  /\ UNCHANGED <<input, vars>>

Property ==
  /\ Named /\ HasProperty /\ Tok(pos + 3) # "("
  /\ Return(Member(vars[Tok(pos)], Tok(pos + 2)), pos + 3, stack)
  /\ UNCHANGED <<input, vars, calls>>

\* f(  or  obj.f(  : the object plays no part in the call.
BeginCall ==
  /\ Named
  /\ \/ Tok(pos + 1) = "(" /\ Goto("items", pos + 2, Append(stack, ItemList(Tok(pos), ")")))
     \/ /\ HasProperty /\ Tok(pos + 3) = "("
        /\ Goto("items", pos + 4, Append(stack, ItemList(Tok(pos + 2), ")")))
  /\ UNCHANGED <<input, val, vars, calls>>

\* sage_repl_parse_primary.  It is reached only without an identifier, so
\* that its own cases for nil, true and false never apply.
Negative(p) == Tok(p) = "-" /\ Tok(p + 1) \in DOMAIN Numbers

Primary ==
  /\ do = "call" /\ Tok(pos) \notin Idents
  /\ LET t == Tok(pos) IN
       CASE t \in DOMAIN Numbers -> Return(Number(Numbers[t]), pos + 1, stack)
         [] Negative(pos) -> Return(Number(-Numbers[Tok(pos + 1)]), pos + 2, stack)
         [] t \in Strings -> Return(String(<<t>>), pos + 1, stack)
         [] t = "[" -> Goto("items", pos + 1, Append(stack, ArrayLiteral)) /\ UNCHANGED val
         [] t = "(" -> Goto("expr", pos + 1, Append(stack, Paren)) /\ UNCHANGED val
         [] OTHER -> Return(Nil, pos, stack)
  /\ UNCHANGED <<input, vars, calls>>

-----------------------------------------------------------------------------
(* sage_repl_parse_binary: the loop over operators. *)

\* sage_repl_op_prec
Prec(op) ==
  CASE op \in {<<"*">>, <<"/">>, <<"%">>} -> 2
    [] op \in {<<"+">>, <<"-">>} -> 1
    [] op \in {<<"=", "=">>, <<"!", "=">>, <<"<">>, <<">">>, <<"<", "=">>, <<">", "=">>} -> 0
    [] OTHER -> -1

Waiting(kind) == do = "return" /\ stack # <<>> /\ Top.of = kind

OpAt(p) ==
  CASE Tok(p) \in {"+", "-", "*", "/", "%", "<", ">"} ->
         IF Tok(p + 1) = "=" THEN <<Tok(p), "=">> ELSE <<Tok(p)>>
    [] Tok(p) \in {"!", "="} /\ Tok(p + 1) = "=" -> <<Tok(p), "=">>
    [] OTHER -> <<>>

\* Mutant: the right operand takes operators of the same precedence.
OperatorMutant ==
  /\ Waiting("left")
  /\ LET op == OpAt(pos) IN
       IF Prec(op) < Top.min THEN Return(val, pos, Below)
       ELSE /\ Goto("call", pos + Len(op),
                    Below \o <<Right(op, val, Top.min), Left(Prec(op))>>)
            /\ UNCHANGED val
  /\ UNCHANGED <<input, vars, calls>>

\* An operator that is none, as "+=", has precedence -1 and is not consumed.
Operator ==
  /\ Waiting("left")
  /\ LET op == OpAt(pos) IN
       IF Prec(op) < Top.min THEN Return(val, pos, Below)
       ELSE /\ Goto("call", pos + Len(op),
                    Below \o <<Right(op, val, Top.min), Left(Prec(op) + 1)>>)
            /\ UNCHANGED val
  /\ UNCHANGED <<input, vars, calls>>

\* Operands that do not go together end the loop, and the left one is returned.
Combine ==
  /\ Waiting("right")
  /\ IF Combines(Top.op, Top.left, val)
     THEN Return(Combined(Top.op, Top.left, val), pos, Append(Below, Left(Top.min)))
     ELSE Return(Top.left, pos, Below)
  /\ UNCHANGED <<input, vars, calls>>

-----------------------------------------------------------------------------
(* What a value is returned to, other than an operator. *)

SetVariable ==
  /\ Waiting("assign")
  /\ vars' = [vars EXCEPT ![Top.id] = val]
  /\ Return(val, pos, Below)
  /\ UNCHANGED <<input, calls>>

CloseParen ==
  /\ Waiting("paren")
  /\ Return(val, IF Tok(pos) = ")" THEN pos + 1 ELSE pos, Below)
  /\ UNCHANGED <<input, vars, calls>>

\* Mutant: the number of arguments is limited, and the arguments are not.
FinishItemsMutant(list, p) ==
  IF list.id = "[" THEN Return(Array(list.items), p, Below) /\ UNCHANGED calls
  ELSE IF list.id \in Natives
    THEN /\ Return(Returned(list.id, Clipped(list.items)), p, Below)
         /\ calls' = Append(calls, <<list.id, list.items>>)
    ELSE Return(Nil, p, Below) /\ UNCHANGED calls

\* The end of a list: the array, or the call with at most MaxArgs arguments.
\* What is no native function has no value.
FinishItems(list, p) ==
  IF list.id = "[" THEN Return(Array(list.items), p, Below) /\ UNCHANGED calls
  ELSE LET args == Clipped(list.items) IN
    IF list.id \in Natives
    THEN Return(Returned(list.id, args), p, Below) /\ calls' = Append(calls, <<list.id, args>>)
    ELSE Return(Nil, p, Below) /\ UNCHANGED calls

\* The head of the loop: the closing bracket, or else an expression.
Items ==
  /\ do = "items"
  /\ IF Tok(pos) = Top.close THEN FinishItems(Top, pos + 1)
     ELSE Goto("expr", pos, stack) /\ UNCHANGED <<val, calls>>
  /\ UNCHANGED <<input, vars>>

\* An array drops a nil before a comma.
Kept(list) ==
  IF list.id = "[" /\ val = Nil /\ Tok(pos) = "," THEN list.items ELSE Append(list.items, val)

\* Mutant: a comma is left to the next turn of the loop.
ItemMutant ==
  /\ Waiting("items") /\ Len(Top.items) < MaxItems
  /\ LET list == [Top EXCEPT !.items = Kept(Top)] IN
       IF Tok(pos) = list.close THEN FinishItems(list, pos + 1)
       ELSE Goto("items", pos, Append(Below, list)) /\ UNCHANGED <<val, calls>>
  /\ UNCHANGED <<input, vars>>

\* The separator is not required, and nothing else is skipped.
Item ==
  /\ Waiting("items") /\ Len(Top.items) < MaxItems
  /\ LET list == [Top EXCEPT !.items = Kept(Top)] IN
       IF Tok(pos) = list.close THEN FinishItems(list, pos + 1)
       ELSE /\ Goto("items", IF Tok(pos) = "," THEN pos + 1 ELSE pos, Append(Below, list))
            /\ UNCHANGED <<val, calls>>
  /\ UNCHANGED <<input, vars>>

Next ==
  \/ Line \/ Expr
  \/ BeginAssignment \/ Variable \/ Property \/ BeginCall \/ Primary
  \/ Operator \/ Combine
  \/ SetVariable \/ CloseParen \/ Items \/ Item

\* One call that runs on: nothing takes the processor from it.
Spec == Init /\ [][Next]_state /\ WF_state(Next)

-----------------------------------------------------------------------------
(* Properties *)

Done == do = "return" /\ stack = <<>>

\* What the parser is known to read differently: an == after a name is taken for
\* an assignment, and an array loses a nil before a comma.
Misread ==
  \/ \E i \in DOMAIN line : line[i] \in Idents /\ Tok(i + 1) = "=" /\ Tok(i + 2) = "="
  \/ NilBeforeComma(MeaningFrom(input.tree, FirstVars).val)

AsMeant ==
  /\ Done /\ input.tree # NoTree /\ ~Misread
  /\ MeaningFrom(input.tree, FirstVars).typed

\* An expression printed with the fewest parentheses is read back as what it
\* was: precedence, association to the left, nesting, negative literals next
\* to operators, lists and arguments within each other (960-1116).
ValueExact ==
  AsMeant =>
    /\ val = MeaningFrom(input.tree, FirstVars).val
    /\ pos = Len(line) + 1

\* The parser evaluates while it parses: every assignment and every native call
\* takes place exactly once, from left to right, with the values in force there.
EffectsExact ==
  AsMeant =>
    /\ vars = MeaningFrom(input.tree, FirstVars).vars
    /\ calls = MeaningFrom(input.tree, FirstVars).calls

\* At the head of a list loop, before a token that is no value, no operator, no
\* comma and not the closing bracket: it is not consumed, so the loop goes on
\* for ever (915, 1034).
StuckInList ==
  /\ do = "items" /\ Tok(pos) \notin {Top.close, ","}
  /\ Tok(pos) \notin Idents \union DOMAIN Numbers \union Strings \union {"[", "("}
  /\ ~Negative(pos)
  /\ Prec(OpAt(pos)) < 0

\* Every line is evaluated to an end, except where a list loop is stuck, which it
\* then is for ever; and no printed expression gets stuck.
Ends ==
  /\ <>(Done \/ (StuckInList /\ input.tree = NoTree))
  /\ [](StuckInList => []~Done)
=============================================================================
