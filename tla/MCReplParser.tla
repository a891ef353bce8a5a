---------------------------- MODULE MCReplParser ----------------------------
(***************************************************************************)
(* Lines for the parser: expressions of up to three operators in every     *)
(* nesting, assignments, lists and calls of such expressions, and every    *)
(* sequence of up to four tokens, most of which are no expression.         *)
(***************************************************************************)
EXTENDS ReplParser

MCNumbers == [n \in {"0", "1", "2", "3", "8"} |->
                CASE n = "0" -> 0 [] n = "1" -> 1 [] n = "2" -> 2 [] n = "3" -> 3 [] n = "8" -> 8]

MCFirstVars ==
  [id \in Idents |-> CASE id = "x" -> Number(5)
                       [] id = "d" -> Dict([f |-> Number(7), x |-> String(<<"'a'">>)])
                       [] OTHER -> Nil]

Ops == {<<"+">>, <<"-">>, <<"*">>, <<"%">>, <<"<">>}
AllOps == Ops \union {<<"=", "=">>, <<"!", "=">>, <<">">>, <<"<", "=">>, <<">", "=">>}

Leaves ==
  {Atom("2"), Minus("3"), Atom("x"), Atom("u"), Atom("f"), Atom("'a'"), Prop("d", "f"),
   AssignTo("x", Atom("1")), Call("f", <<Atom("1"), Atom("x")>>), List(<<>>)}

\* Every operator between every two leaves.
Pairs == {Binary(op, l, r) : op \in AllOps, l \in Leaves, r \in Leaves}

\* Every nesting of two and three operators.
Two(n, m) == {Binary(op, Atom(n), Atom(m)) : op \in Ops}

Nested ==
  {Binary(op, l, Atom("3")) : op \in AllOps, l \in Two("8", "1")}
  \union {Binary(op, Atom("3"), r) : op \in AllOps, r \in Two("8", "1")}
  \union {Binary(op, l, r) : op \in AllOps, l \in Two("8", "3"), r \in Two("2", "1")}
  \union {Binary(o1, Binary(o2, l, Minus("2")), Atom("x")) : o1 \in Ops, o2 \in Ops, l \in Two("8", "3")}

\* Quotients that are whole numbers.
Over(l, r) == Binary(<<"/">>, l, r)
Quotients ==
  {Over(Over(Atom("8"), Atom("2")), Atom("2")), Over(Atom("8"), Over(Atom("8"), Atom("2"))),
   Over(Minus("8"), Atom("0")), Binary(<<"-">>, Atom("1"), Over(Atom("8"), Minus("2")))}

Some == Leaves \union Two("8", "3") \union {Binary(<<"<">>, AssignTo("y", Atom("x")), Atom("y"))}

\* Expressions within lists, arguments and assignments.
Wrapped ==
  {List(<<a, b>>) : a \in Some, b \in Some}
  \union {Call(f, <<a, b>>) : f \in {"f", "g", "u"}, a \in Some, b \in Some}
  \union {Call("f", <<a, Atom("x"), Atom("y")>>) : a \in Some}
  \union {Method("d", "f", <<a>>) : a \in Some}
  \union {Let("x", a) : a \in Some} \union {AssignTo("y", AssignTo("x", a)) : a \in Some}
  \union {List(<<List(<<a>>), Call("g", <<List(<<Atom("1")>>), a>>)>>) : a \in Some}
  \union {Binary(<<"+">>, AssignTo("x", a), Atom("x")) : a \in Some}

Trees == Leaves \union Pairs \union Nested \union Quotients \union Wrapped

Tokens == {"1", "x", "f", "d", ".", "(", ")", "[", "]", ",", "=", "+", "'a'", "?"}

MCInputs ==
  {Line0(t) : t \in Trees}
  \union {[line |-> l, tree |-> NoTree] : l \in UNION {[1 .. n -> Tokens] : n \in 1 .. 4}}
  \union {[line |-> <<"let">> \o l, tree |-> NoTree] : l \in UNION {[1 .. n -> Tokens] : n \in 0 .. 2}}
=============================================================================
