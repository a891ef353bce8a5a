---------------------------- MODULE MCAssembler ----------------------------
(***************************************************************************)
(* Programs for the assembler: every sequence of up to four lines of eleven  *)
(* kinds, and single instructions with the immediates at which a bit of a  *)
(* field, its sign or its limit changes.                                   *)
(***************************************************************************)
EXTENDS Assembler

CONSTANTS x, y

MCNames == {x, y}
MCOps == LexedMnemonics \union {"j"}

Reg1(n) == [kind |-> "register", val |-> n]
Imm(n) == [kind |-> "immediate", val |-> n]
To(l) == [kind |-> "label", val |-> l]
Mem(n, base) == [kind |-> "memory", val |-> n, base |-> base]

Instr(op, args) == [label |-> NoLabel, op |-> op, args |-> args]
At(l, line) == [line EXCEPT !.label = l]

Add == Instr("add", <<Reg1(10), Reg1(11), Reg1(31)>>)

MCLines ==
  {Instr(NoOp, <<>>), At(x, Instr(NoOp, <<>>)), At(y, Add),
   Instr("nop", <<>>), Instr("call", <<To(y)>>), Instr("j", <<To(x)>>), Instr("jmp", <<To(x)>>),
   Instr("lw", <<Reg1(5), Mem(4, 6)>>), Instr("lw", <<Reg1(5), Mem(-4, 6)>>),
   Instr("bne", <<Reg1(1), Reg1(2), To(x)>>), Instr("jal", <<Reg1(1), To(y)>>)}

Powers(n) == {2 ^ i : i \in 0 .. n}
Negative(S) == {-s : s \in S}

Imm12 == Powers(10) \union Negative(Powers(11)) \union {0, 42, 2047, -1365}
Even(n) == {m \in Powers(n) \union {0, 2 ^ (n + 1) - 2, 1364} : m % 2 = 0}

MCSingle ==
  {<<Add>>, <<Instr("sub", <<Reg1(0), Reg1(16), Reg1(21)>>)>>}
  \union {<<Instr("addi", <<Reg1(10), Reg1(11), Imm(i)>>)>> : i \in Imm12}
  \union {<<Instr("sw", <<Reg1(12), Mem(i, 13)>>)>> : i \in {n \in Imm12 : n >= 0}}
  \union {<<Instr("lui", <<Reg1(1), Imm(i)>>)>> : i \in Powers(19)}
  \union {<<Instr("bne", <<Reg1(3), Reg1(4), Imm(i)>>)>> : i \in Even(11) \union Negative(Even(11))}
  \union {<<Instr("jal", <<Reg1(1), Imm(i)>>)>> : i \in Even(19) \union Negative(Even(19))}

MCSources == MCSingle \union UNION {[1 .. n -> MCLines] : n \in 1 .. 4}
=============================================================================
