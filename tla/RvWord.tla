------------------------------- MODULE RvWord -------------------------------
(***************************************************************************)
(* RV32I instruction words: the formats the assembler's encoder writes     *)
(* (encoder/rv32i.sage) and the fields the graphics VM reads (vm/rvvm.h).  *)
(* A word is the set of the positions of its one bits, so that a shift     *)
(* moves positions, a mask intersects and "or" is union.                   *)
(***************************************************************************)
EXTENDS Integers

\* Bit i of n in two's complement.
BitOf(n, i) == (n \div 2 ^ i) % 2

\* The len bits of n from bit lo on, moved to position at.
Part(n, lo, len, at) == {at + i : i \in {j \in 0 .. len - 1 : BitOf(n, lo + j) = 1}}

Field(n, len, at) == Part(n, 0, len, at)

-----------------------------------------------------------------------------
(* The encoder. *)

Base(rs1, funct3, opcode) == Field(rs1, 5, 15) \union Field(funct3, 3, 12) \union Field(opcode, 7, 0)

RType(funct7, rs2, rs1, funct3, rd, opcode) ==
  Field(funct7, 7, 25) \union Field(rs2, 5, 20) \union Field(rd, 5, 7)
    \union Base(rs1, funct3, opcode)

\* Mutant: the immediate has one bit too many.
ITypeMutant(imm, rs1, funct3, rd, opcode) ==
  Field(imm, 13, 20) \union Field(rd, 5, 7) \union Base(rs1, funct3, opcode)

IType(imm, rs1, funct3, rd, opcode) ==
  Field(imm, 12, 20) \union Field(rd, 5, 7) \union Base(rs1, funct3, opcode)

SType(imm, rs2, rs1, funct3, opcode) ==
  Part(imm, 5, 7, 25) \union Part(imm, 0, 5, 7) \union Field(rs2, 5, 20)
    \union Base(rs1, funct3, opcode)

\* Mutant: bits 4 to 1 start where bit 11 is, as in asm_b_type of gfx_vm.sage.
BTypeMutant(imm, rs2, rs1, funct3, opcode) ==
  Part(imm, 12, 1, 31) \union Part(imm, 5, 6, 25) \union Part(imm, 1, 4, 7)
    \union Part(imm, 11, 1, 7) \union Field(rs2, 5, 20) \union Base(rs1, funct3, opcode)

BType(imm, rs2, rs1, funct3, opcode) ==
  Part(imm, 12, 1, 31) \union Part(imm, 5, 6, 25) \union Part(imm, 1, 4, 8)
    \union Part(imm, 11, 1, 7) \union Field(rs2, 5, 20) \union Base(rs1, funct3, opcode)

\* The operand of lui has 20 bits; the encoder shifts it and masks it.
UType(imm20, rd, opcode) == Field(imm20, 20, 12) \union Field(rd, 5, 7) \union Field(opcode, 7, 0)

JType(imm, rd, opcode) ==
  Part(imm, 20, 1, 31) \union Part(imm, 1, 10, 21) \union Part(imm, 11, 1, 20)
    \union Part(imm, 12, 8, 12) \union Field(rd, 5, 7) \union Field(opcode, 7, 0)

-----------------------------------------------------------------------------
(* The decoder. *)

\* (inst >> by) & mask, for the mask of the bits lo to hi.
Shifted(w, by, lo, hi) == {b - by : b \in w} \cap (lo .. hi)

\* The number with these one bits: the sum over the positions below 32.
Number(bits) ==
  LET below[n \in 0 .. 32] ==
        IF n = 0 THEN 0 ELSE below[n - 1] + (IF n - 1 \in bits THEN 2 ^ (n - 1) ELSE 0)
  IN  below[32]

\* Sign-extended from the bit top.
Signed(bits, top) == Number(bits) - (IF top \in bits THEN 2 ^ (top + 1) ELSE 0)

Opcode(w) == Number(Shifted(w, 0, 0, 6))
Rd(w) == Number(Shifted(w, 7, 0, 4))
Rs1(w) == Number(Shifted(w, 15, 0, 4))
Rs2(w) == Number(Shifted(w, 20, 0, 4))

ImmI(w) == Signed(Shifted(w, 20, 0, 11), 11)

ImmS(w) == Signed(Shifted(w, 7, 0, 4) \union Shifted(w, 20, 5, 11), 11)

ImmB(w) ==
  Signed(Shifted(w, 7, 1, 4) \union Shifted(w, 20, 5, 10) \union Shifted(w, -4, 11, 11)
           \union Shifted(w, 19, 12, 12), 12)

\* inst & 0xfffff000, as the number of its upper 20 bits.
ImmU(w) == Number(Shifted(w, 12, 0, 19))

ImmJ(w) ==
  Signed(Shifted(w, 20, 1, 10) \union Shifted(w, 9, 11, 11) \union Shifted(w, 0, 12, 19)
           \union Shifted(w, 11, 20, 20), 20)
=============================================================================
