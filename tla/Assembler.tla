----------------------------- MODULE Assembler -----------------------------
(***************************************************************************)
(* The assembler of sage/vm/assembler: lexer, parser, symbol table and     *)
(* encoder, as assemble() runs them one after another.                     *)
(*                                                                         *)
(* A source is a sequence of lines, each with a label or none and an       *)
(* instruction or none.  Tokens, nodes and symbols are as in the code;     *)
(* one mnemonic stands for those of its format, which differ in constants  *)
(* only.  Left out: directives, which produce no code; strings, a bare     *)
(* (rs), and la; and a line that ends inside a list of operands.           *)
(***************************************************************************)
EXTENDS RvWord, Sequences, SequencesExt

CONSTANTS
  Sources,   \* the programs to assemble
  Names,     \* of labels
  Ops,       \* of operations, known or not
  NoLabel,
  NoOp       \* no instruction on a line; also nil, where an operand was expected

\* Formats and constants of the mnemonics; "" takes no operand.
Mnemonics ==
  [add  |-> [format |-> "R", arity |-> 3, funct7 |-> 0, funct3 |-> 0, opcode |-> \h33],
   sub  |-> [format |-> "R", arity |-> 3, funct7 |-> \h20, funct3 |-> 0, opcode |-> \h33],
   addi |-> [format |-> "I", arity |-> 3, funct3 |-> 0, opcode |-> \h13],
   lw   |-> [format |-> "I", arity |-> 3, funct3 |-> 2, opcode |-> \h03],
   sw   |-> [format |-> "S", arity |-> 3, funct3 |-> 2, opcode |-> \h23],
   bne  |-> [format |-> "B", arity |-> 3, funct3 |-> 1, opcode |-> \h63],
   lui  |-> [format |-> "U", arity |-> 2, opcode |-> \h37],
   jal  |-> [format |-> "J", arity |-> 2, opcode |-> \h6F],
   call |-> [format |-> "call", arity |-> 1, opcode |-> \h6F],
   nop  |-> [format |-> "", arity |-> 0]]

\* The lexer's table of mnemonics: it has jmp, which the encoder does not know,
\* and not j, which the encoder knows.
LexedMnemonics == DOMAIN Mnemonics \union {"jmp"}

VARIABLES
  source,    \* the program, as its author means it
  tokens,    \* what the lexer made of it
  pos,       \* the parser's position
  inst,      \* the instruction whose operands are parsed, or NoOp
  nodes,     \* parsed, and not encoded yet
  offset,    \* the address of the next instruction
  symbols,   \* SymbolTable.symbols: name -> [addr, defined]
  output,    \* the words
  phase      \* "parse", "operands" or "node" in an instruction, "encode", "done",
             \* or "failed" at a missing operand

vars == <<source, tokens, pos, inst, nodes, offset, symbols, output, phase>>

-----------------------------------------------------------------------------
(* The lexer. *)

Token(kind, val) == [kind |-> kind, val |-> val]

IntegerTokens(n) ==
  IF n < 0 THEN <<Token("minus", 0), Token("integer", -n)>> ELSE <<Token("integer", n)>>

ArgTokens(a) ==
  CASE a.kind = "register"  -> <<Token("register", a.val)>>
    [] a.kind = "immediate" -> IntegerTokens(a.val)
    [] a.kind = "label"     -> <<Token("identifier", a.val)>>
    [] a.kind = "memory"    ->
         IntegerTokens(a.val) \o <<Token("lparen", 0), Token("register", a.base), Token("rparen", 0)>>

LineTokens(line) ==
  (IF line.label = NoLabel THEN <<>> ELSE <<Token("label", line.label)>>)
  \o (CASE line.op = NoOp -> <<>>
         [] line.op \in LexedMnemonics -> <<Token("mnemonic", line.op)>>
         [] OTHER -> <<Token("identifier", line.op)>>)
  \o FlattenSeq([i \in DOMAIN line.args |->
       (IF i = 1 THEN <<>> ELSE <<Token("comma", 0)>>) \o ArgTokens(line.args[i])])
  \o <<Token("newline", 0)>>

Lexed(lines) == FlattenSeq([i \in DOMAIN lines |-> LineTokens(lines[i])]) \o <<Token("eof", 0)>>

-----------------------------------------------------------------------------
(* The parser. *)

Kind(p) == IF p \in DOMAIN tokens THEN tokens[p].kind ELSE "eof"

Val(p) == tokens[p].val

SkipNewlines(p) ==
  CHOOSE q \in p .. Len(tokens) + p :
    Kind(q) # "newline" /\ \A r \in p .. q - 1 : Kind(r) = "newline"

Operand(kind, val) == [kind |-> kind, val |-> val]

List(ops, next) == [ops |-> ops, next |-> next]

\* The position after a closing parenthesis, which may be missing.
Closed(p) == IF Kind(p) = "rparen" THEN p + 1 ELSE p

\* parse_operand from a token that is not a newline: a list of one operand or
\* none, and the position after it.  The base of offset(rs) is dropped.
ParseOperand(p) ==
  LET q == IF Kind(p) = "minus" THEN p + 1 ELSE p
      imm == <<Operand("immediate", IF q = p THEN Val(q) ELSE -Val(q))>>
  IN  CASE Kind(q) = "integer" /\ Kind(q + 1) # "lparen" -> List(imm, q + 1)
        [] Kind(q) = "integer" /\ Kind(q + 1) = "lparen" ->
             IF Kind(q + 2) = "register" THEN List(imm, Closed(q + 3)) ELSE List(<<>>, q + 3)
        [] Kind(q) = "register" -> List(<<Operand("register", Val(q))>>, q + 1)
        [] Kind(q) \in {"identifier", "label"} -> List(<<Operand("label", Val(q))>>, q + 1)
        [] OTHER -> List(<<>>, q)

\* A register, then offset(rs) without a sign, from a register on.
IsMemory(p) ==
  <<Kind(p), Kind(p + 1), Kind(p + 2), Kind(p + 3), Kind(p + 4)>> =
    <<"register", "comma", "integer", "lparen", "register">>

\* rd, offset(rs) becomes [rd, rs, offset].
MemoryOperands(p) ==
  <<Operand("register", Val(p)), Operand("register", Val(p + 4)), Operand("immediate", Val(p + 2))>>

\* The first operand of the flat list.  parse_operands looks ahead for
\* IsMemory, and puts the position back only if it found a register: any other
\* first operand is lost.
FirstOperand(p) ==
  IF Kind(p) \in {"eof", "register"} THEN ParseOperand(p)
  ELSE ParseOperand(SkipNewlines(ParseOperand(p).next))

ParseLabel ==
  \E p \in {SkipNewlines(pos)} :
    /\ phase = "parse" /\ Kind(p) = "label"
    /\ nodes' = Append(nodes, [kind |-> "label", name |-> Val(p)])
    /\ pos' = p + 1
    /\ UNCHANGED <<source, tokens, inst, offset, symbols, output, phase>>

\* A mnemonic and its first operand, which may be on a later line.
ParseInstruction ==
  \E p \in {SkipNewlines(pos)} : \E q \in {SkipNewlines(p + 1)} :
    /\ phase = "parse" /\ Kind(p) = "mnemonic"
    /\ LET args == IF IsMemory(q) THEN List(MemoryOperands(q), Closed(q + 5)) ELSE FirstOperand(q)
       IN  /\ inst' = [kind |-> "instruction", name |-> Val(p), ops |-> args.ops]
           /\ pos' = args.next
           /\ phase' = IF IsMemory(q) \/ args.ops = <<>> THEN "node" ELSE "operands"
    /\ UNCHANGED <<source, tokens, nodes, offset, symbols, output>>

\* The loop over the operands after the first.
ParseNextOperand ==
  /\ phase = "operands" /\ Kind(pos) = "comma"
  /\ \E p \in {SkipNewlines(pos + 1)} :
       LET args == ParseOperand(p)
       IN  /\ inst' = [inst EXCEPT !.ops = @ \o args.ops]
           /\ pos' = args.next
  /\ UNCHANGED <<source, tokens, nodes, offset, symbols, output, phase>>

ParseInstructionEnd ==
  /\ phase = "node" \/ (phase = "operands" /\ Kind(pos) # "comma")
  /\ nodes' = Append(nodes, inst)
  /\ inst' = NoOp
  /\ phase' = "parse"
  /\ UNCHANGED <<source, tokens, pos, offset, symbols, output>>

\* Mutant: what cannot start a line is not skipped.
ParseUnknownMutant ==
  \E p \in {SkipNewlines(pos)} :
    /\ phase = "parse" /\ Kind(p) \notin {"label", "mnemonic", "eof"}
    /\ pos' = p
    /\ UNCHANGED <<source, tokens, nodes, inst, offset, symbols, output, phase>>

\* What cannot start a line is skipped, a mnemonic unknown to the lexer included.
ParseUnknown ==
  \E p \in {SkipNewlines(pos)} :
    /\ phase = "parse" /\ Kind(p) \notin {"label", "mnemonic", "eof"}
    /\ pos' = p + 1
    /\ UNCHANGED <<source, tokens, nodes, inst, offset, symbols, output, phase>>

ParseEnd ==
  /\ phase = "parse" /\ Kind(SkipNewlines(pos)) = "eof"
  /\ phase' = "encode"
  /\ UNCHANGED <<source, tokens, pos, nodes, inst, offset, symbols, output>>

-----------------------------------------------------------------------------
(* The symbol table. *)

With(table, name, sym) ==
  [n \in DOMAIN table \union {name} |-> IF n = name THEN sym ELSE table[n]]

\* Mutant: a name that is there already is defined again.
DefineMutant(name) == symbols' = With(symbols, name, [addr |-> offset, defined |-> TRUE])

\* define: a name that is there already stays as it is, even if it was only
\* referenced.  The error goes into a list that assemble does not return.
Define(name) ==
  symbols' = IF name \in DOMAIN symbols THEN symbols
             ELSE With(symbols, name, [addr |-> offset, defined |-> TRUE])

\* reference: an undefined name is 0.
AddressOf(name) ==
  IF name \in DOMAIN symbols /\ symbols[name].defined THEN symbols[name].addr ELSE 0

Reference(name) ==
  symbols' = IF name \in DOMAIN symbols THEN symbols
             ELSE With(symbols, name, [addr |-> 0, defined |-> FALSE])

-----------------------------------------------------------------------------
(* The encoder. *)

Reg(o) == IF o.kind = "register" THEN o.val ELSE 0

Target(o) == IF o.kind = "label" THEN AddressOf(o.val) ELSE o.val

Encoded(name, o) ==
  LET m == Mnemonics[name]
  IN  CASE m.format = "R" -> RType(m.funct7, Reg(o[3]), Reg(o[2]), m.funct3, Reg(o[1]), m.opcode)
        [] m.format = "I" -> IType(o[3].val, Reg(o[2]), m.funct3, Reg(o[1]), m.opcode)
        [] m.format = "S" -> SType(o[3].val, Reg(o[1]), Reg(o[2]), m.funct3, m.opcode)
        [] m.format = "B" -> BType(Target(o[3]) - offset, Reg(o[2]), Reg(o[1]), m.funct3, m.opcode)
        [] m.format = "U" -> UType(o[2].val, Reg(o[1]), m.opcode)
        [] m.format = "J" -> JType(Target(o[2]) - offset, Reg(o[1]), m.opcode)
        [] m.format = "call" -> JType(Target(o[1]) - offset, 1, m.opcode)
        [] OTHER -> IType(0, 0, 0, 0, \h13)

\* The index of the operand that resolve_target looks up.
TargetIndex(name) == Mnemonics[name].arity

HasTarget(name) == Mnemonics[name].format \in {"B", "J", "call"}

EncodeLabel ==
  /\ phase = "encode" /\ nodes # <<>> /\ Head(nodes).kind = "label"
  /\ Define(Head(nodes).name)
  /\ nodes' = Tail(nodes)
  /\ UNCHANGED <<source, tokens, pos, inst, offset, output, phase>>

Complete(node) ==
  node.name \in DOMAIN Mnemonics /\ Len(node.ops) >= Mnemonics[node.name].arity

\* The error is returned with the code, which goes on without the instruction.
EncodeUnknown ==
  /\ phase = "encode" /\ nodes # <<>> /\ Head(nodes).kind = "instruction"
  /\ Head(nodes).name \notin DOMAIN Mnemonics
  /\ nodes' = Tail(nodes)
  /\ UNCHANGED <<source, tokens, pos, inst, offset, symbols, output, phase>>

EncodeInstruction ==
  LET node == Head(nodes)
      target == node.ops[TargetIndex(node.name)]
  IN  /\ phase = "encode" /\ nodes # <<>> /\ node.kind = "instruction"
      /\ Complete(node)
      /\ output' = Append(output, Encoded(node.name, node.ops))
      /\ offset' = offset + 4
      /\ IF HasTarget(node.name) /\ target.kind = "label"
         THEN Reference(target.val) ELSE UNCHANGED symbols
      /\ nodes' = Tail(nodes)
      /\ UNCHANGED <<source, tokens, pos, inst, phase>>

\* An operand is missing: an index outside the list is the runtime's affair.
EncodeFails ==
  /\ phase = "encode" /\ nodes # <<>> /\ Head(nodes).kind = "instruction"
  /\ Head(nodes).name \in DOMAIN Mnemonics /\ ~Complete(Head(nodes))
  /\ phase' = "failed"
  /\ UNCHANGED <<source, tokens, pos, inst, nodes, offset, symbols, output>>

EncodeEnd ==
  /\ phase = "encode" /\ nodes = <<>>
  /\ phase' = "done"
  /\ UNCHANGED <<source, tokens, pos, inst, nodes, offset, symbols, output>>

Init ==
  /\ source \in Sources
  /\ tokens = Lexed(source) /\ pos = 1 /\ inst = NoOp /\ nodes = <<>>
  /\ offset = 0 /\ symbols = <<>> /\ output = <<>>
  /\ phase = "parse"

Next ==
  \/ ParseLabel \/ ParseInstruction \/ ParseNextOperand \/ ParseInstructionEnd
  \/ ParseUnknown \/ ParseEnd
  \/ EncodeLabel \/ EncodeInstruction \/ EncodeUnknown \/ EncodeFails \/ EncodeEnd

Spec == Init /\ [][Next]_vars

\* assemble is one call that runs to its end.
FairSpec == Spec /\ WF_vars(Next)

-----------------------------------------------------------------------------
(* What the source means. *)

Encodable(line) == line.op \in DOMAIN Mnemonics

\* The lines that produce a word.
Instructions(lines) ==
  FlattenSeq([i \in DOMAIN lines |-> IF Encodable(lines[i]) THEN <<lines[i]>> ELSE <<>>])

\* The k-th instruction of the output.
Line(k) == Instructions(source)[k]

\* The address at which line i starts.
AddressIn(lines, i) == 4 * Len(Instructions(SubSeq(lines, 1, i - 1)))

AddressOfLine(i) == AddressIn(source, i)

\* An instruction whose first operand is missing or a label takes up to two of
\* the labels and unknown names that follow it.
TakesLabels(i) ==
  source[i].op \in LexedMnemonics /\ (source[i].args = <<>> \/ source[i].args[1].kind = "label")

\* The line that declares the label first, if that is not right after such an
\* instruction.
DeclaredAt(i, l) == source[i].label = l /\ \A n \in 1 .. i - 1 : source[n].label # l

\* A line that ends the search of the instruction before it.
Separates(i) == source[i].op \in LexedMnemonics \/ source[i].args # <<>>

Taken(i) == \E k \in 1 .. i - 1 : TakesLabels(k) /\ \A n \in k + 1 .. i - 1 : ~Separates(n)

Seen(l) == \E i \in DOMAIN source : DeclaredAt(i, l) /\ ~Taken(i)

Place(l) == AddressOfLine(CHOOSE i \in DOMAIN source : DeclaredAt(i, l))

\* The target of a branch or a jal; RISC-V counts it from the instruction.
Branches(k) == Mnemonics[Line(k).op].format \in {"B", "J"}

TargetOf(k) == Line(k).args[Mnemonics[Line(k).op].arity]

RefersTo(k, l) == Branches(k) /\ TargetOf(k) = Operand("label", l)

Lands(k) ==
  4 * (k - 1) + (IF Mnemonics[Line(k).op].format = "B" THEN ImmB(output[k]) ELSE ImmJ(output[k]))

Labels == {source[i].label : i \in DOMAIN source} \ {NoLabel}

-----------------------------------------------------------------------------
(* What a source is. *)

Registers == 0 .. 31

Args ==
  [kind : {"register"}, val : Registers] \union [kind : {"immediate"}, val : Int]
    \union [kind : {"label"}, val : Names]
    \union [kind : {"memory"}, val : -(2 ^ 11) .. 2 ^ 11 - 1, base : Registers]

Lines == [label : Names \union {NoLabel}, op : Ops \union {NoOp}, args : Seq(Args)]

\* The kinds of the operands of an instruction of a format; jmp has those of call.
Shapes(format) ==
  CASE format = "R" -> {<<"register", "register", "register">>}
    [] format = "I" -> {<<"register", "register", "immediate">>, <<"register", "memory">>}
    [] format = "S" -> {<<"register", "memory">>}
    [] format = "B" -> {<<"register", "register", "immediate">>, <<"register", "register", "label">>}
    [] format = "U" -> {<<"register", "immediate">>}
    [] format = "J" -> {<<"register", "immediate">>, <<"register", "label">>}
    [] format = "call" -> {<<"label">>}
    [] format = "" -> {<<>>}

FormatOf(op) == IF op = "jmp" THEN "call" ELSE Mnemonics[op].format

\* What fits into the field for it; a target is counted from its instruction.
Fits(format, n, here) ==
  CASE format = "I" -> n \in -(2 ^ 11) .. 2 ^ 11 - 1
    [] format = "U" -> n \in 0 .. 2 ^ 20 - 1
    [] format = "B" -> n % 2 = 0 /\ n - here \in -(2 ^ 12) .. 2 ^ 12 - 1
    [] format = "J" -> n % 2 = 0 /\ n - here \in -(2 ^ 20) .. 2 ^ 20 - 1

\* The i-th line is what the mnemonic's format asks for; the assembler checks
\* none of this.
Legal(lines, i) ==
  LET line == lines[i]
      format == FormatOf(line.op)
  IN  /\ line.op = NoOp => line.args = <<>>
      /\ line.op \in LexedMnemonics =>
           /\ [n \in DOMAIN line.args |-> line.args[n].kind] \in Shapes(format)
           /\ \A n \in DOMAIN line.args :
                line.args[n].kind = "immediate" => Fits(format, line.args[n].val, AddressIn(lines, i))

\* Every branch reaches every line, and no label is called like an operation.
ASSUME AssemblerAssumption ==
  /\ NoLabel \notin Names /\ NoOp \notin Ops /\ LexedMnemonics \subseteq Ops
  /\ Names \intersect Ops = {}
  /\ \A lines \in Sources :
       lines \in Seq(Lines) /\ Len(lines) <= 2 ^ 10 /\ \A i \in DOMAIN lines : Legal(lines, i)

-----------------------------------------------------------------------------
(***************************************************************************)
(* The encoder's offset is the address of the next word it writes, the     *)
(* parser does not run past the end of the file, and a word has 32 bits.   *)
(***************************************************************************)
TypeOK ==
  /\ phase \in {"parse", "operands", "node", "encode", "done", "failed"}
  /\ pos \in DOMAIN tokens
  /\ \A n \in DOMAIN symbols : symbols[n].addr \in Nat /\ symbols[n].defined \in BOOLEAN
  /\ \A k \in DOMAIN output : output[k] \subseteq 0 .. 31
  /\ offset = 4 * Len(output)

(***************************************************************************)
(* Every source is assembled or refused: no sequence of tokens makes the   *)
(* parser stay where it is (parse, parser.sage:184).                       *)
(***************************************************************************)
Terminates == <>(phase \in {"done", "failed"})

(***************************************************************************)
(* What the encoder packs into a word the machine takes out of it again,   *)
(* up to the limits of the fields: the registers and immediates of every   *)
(* instruction of the source, in its order (rv32i.sage:13, rvvm.h:43).     *)
(***************************************************************************)
Means(k) ==
  LET w == output[k]
      a == Line(k).args
      f == Mnemonics[Line(k).op].format
  IN  /\ f \in {"R", "I", "U", "J"} => Rd(w) = a[1].val
      /\ f = "R" => Rs1(w) = a[2].val /\ Rs2(w) = a[3].val
      /\ f = "I" => IF a[2].kind = "memory" THEN Rs1(w) = a[2].base /\ ImmI(w) = a[2].val
                    ELSE Rs1(w) = a[2].val /\ ImmI(w) = a[3].val
      /\ f = "S" => Rs2(w) = a[1].val /\ Rs1(w) = a[2].base /\ ImmS(w) = a[2].val
      /\ f = "B" => Rs1(w) = a[1].val /\ Rs2(w) = a[2].val
      /\ f = "U" => ImmU(w) = a[2].val
      /\ Branches(k) /\ TargetOf(k).kind = "immediate" => Lands(k) = TargetOf(k).val

OperandsSurvive ==
  phase = "done" =>
    Len(output) = Len(Instructions(source)) /\ \A k \in DOMAIN output : Means(k)

(***************************************************************************)
(* A branch back to a label lands on the instruction that follows its      *)
(* first declaration, whatever stands in between and even if it is         *)
(* declared again, unless a branch named it before (define,                *)
(* symbols.sage:16).                                                       *)
(***************************************************************************)
BackwardTargetsLand ==
  phase = "done" =>
    \A k \in DOMAIN output, l \in Labels :
      /\ RefersTo(k, l) /\ Seen(l)
      /\ \A n \in 1 .. k : RefersTo(n, l) => Place(l) <= 4 * (n - 1)
      => Lands(k) = Place(l)
=============================================================================
