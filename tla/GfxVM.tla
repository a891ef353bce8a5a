------------------------------- MODULE GfxVM -------------------------------
(***************************************************************************)
(* The graphics virtual machine: vm/rvvm.h, vm/gfx_vm.h, vm/srvm_loader.h  *)
(* and the bindings gfx_init, gfx_load, gfx_run and srvm_run of            *)
(* core/sage_bridge.h.  It models what decides which instructions run:     *)
(* loading, the run loops and their budgets, control flow and the heap of  *)
(* globals.                                                                *)
(*                                                                         *)
(* An instruction is a record of its kind and operands, at an address that *)
(* counts instructions.  Registers are left out: a branch may go either    *)
(* way, a jump through a register anywhere, and a value that is stored is  *)
(* part of the instruction.  Programs do not write over their own code,    *)
(* and jump to whole instructions.  What one draws is in GfxDraw.          *)
(***************************************************************************)
EXTENDS Integers, Sequences, FiniteSets

CONSTANTS
  RamSize,      \* the instructions that fit in RAM
  FrameBudget,  \* 50,000: the budget gfx_vm_run_frame passes to rvvm_run
  SrvmBudget,   \* 100,000: the one srvm_run passes
  HeapMax,      \* 64: entries of heap_keys and heap_vals, and SRVM_MAX_CONSTS
  Window,       \* 256: the keys from 0 behind the heap's addresses
  Keys,         \* the keys SET_GLOBAL names, in its signed immediate
  Programs,     \* the stored "gfx_" programs: [code, entry]
  SrvmPrograms, \* the stored SRVM programs: [code, consts, hasChunk]
  Unset         \* no value was written

Addresses == 0 .. RamSize - 1

\* A zeroed word: an opcode the switch does not know.
Zero == [op |-> "plain"]

Kinds == {"plain", "ecall", "halt", "jump", "jalr", "branch", "set"}

Instruction(i) ==
  /\ i.op \in Kinds
  /\ i.op \in {"jump", "branch"} => i.offset \in Int
  /\ i.op = "set" => i.key \in Keys /\ i.val \in Int

\* A program that fits in RAM.
Code(code) ==
  /\ Len(code) \in 0 .. RamSize /\ DOMAIN code = 1 .. Len(code)
  /\ \A n \in DOMAIN code : Instruction(code[n])

\* A pool of constants: strings, and numbers with the low word of their double.
Pool(consts) ==
  /\ Len(consts) \in 0 .. HeapMax /\ DOMAIN consts = 1 .. Len(consts)
  /\ \A n \in DOMAIN consts : consts[n].type = "number" => consts[n].low \in Int

ASSUME VmAssumption ==
  /\ {RamSize, FrameBudget, SrvmBudget, HeapMax, Window} \subseteq Nat \ {0}
  /\ Keys \subseteq Int /\ Unset \notin Int
  /\ \A p \in Programs : Code(p.code) /\ p.entry \in Nat
  /\ \A p \in SrvmPrograms : Code(p.code) /\ Pool(p.consts)

VARIABLES
  active,     \* gfx_active_vm # NULL
  running,    \* vm.running
  pc,         \* vm.pc; RamSize stands for every address outside RAM
  cycles,     \* vm.cycles
  ram,        \* the code in vm.ram
  heap,       \* heap_keys and heap_vals: <<[key, val], ...>>
  status,     \* gpu_vm_status
  phase,      \* "frame" or "srvm" while that loop runs, else "idle"
  ran,        \* instructions executed by the loop that runs
  written     \* what programs last gave each global since the heap was cleared

machine == <<active, running, pc, cycles, ram, heap, status>>
vars == <<machine, phase, ran, written>>

-----------------------------------------------------------------------------
(* The heap of globals. *)

InWindow(k) == k \in 0 .. Window - 1

Globals == {k \in Keys : InWindow(k)}

HeapKeys(h) == {h[i].key : i \in DOMAIN h}

\* gfx_mmio_read: the first entry of a key in the window, or 0.
HeapGet(h, k) ==
  IF k \in HeapKeys(h)
  THEN h[CHOOSE i \in DOMAIN h : h[i].key = k /\ \A j \in 1 .. i - 1 : h[j].key # k].val
  ELSE 0

\* Mutant: a key that is there already gets a second entry.
HeapSetMutant(h, k, v) ==
  IF Len(h) < HeapMax THEN Append(h, [key |-> k, val |-> v]) ELSE h

\* Mutant: nothing looks at the number of entries.
HeapSetUnbounded(h, k, v) ==
  IF k \in HeapKeys(h)
  THEN [i \in DOMAIN h |-> IF h[i].key = k THEN [key |-> k, val |-> v] ELSE h[i]]
  ELSE Append(h, [key |-> k, val |-> v])

\* gfx_mmio_write: a new key is dropped when the heap is full, and a key outside
\* the window always; some of those address the print port or a register.
HeapSet(h, k, v) ==
  IF k \in HeapKeys(h) /\ InWindow(k)
  THEN [i \in DOMAIN h |-> IF h[i].key = k THEN [key |-> k, val |-> v] ELSE h[i]]
  ELSE IF InWindow(k) /\ Len(h) < HeapMax THEN Append(h, [key |-> k, val |-> v]) ELSE h

IsNumber(consts, k) == k + 1 \in DOMAIN consts /\ consts[k + 1].type = "number"

\* srvm_load_constants: the numbers of the pool, each the low word of its double,
\* under their index from 0; what the heap holds after each constant.
HeapsLoading(consts) ==
  LET heaps[n \in 0 .. Len(consts)] ==
        IF n = 0 THEN <<>>
        ELSE IF IsNumber(consts, n - 1) /\ Len(heaps[n - 1]) < HeapMax
        THEN Append(heaps[n - 1], [key |-> n - 1, val |-> consts[n].low])
        ELSE heaps[n - 1]
  IN  heaps

ConstantsHeap(consts) == HeapsLoading(consts)[Len(consts)]

NothingWritten == [k \in Globals |-> Unset]

-----------------------------------------------------------------------------
Init ==
  /\ active = FALSE /\ running = FALSE /\ pc = 0 /\ cycles = 0
  /\ ram = [a \in Addresses |-> Zero] /\ heap = <<>> /\ status = 0
  /\ phase = "idle" /\ ran = 0 /\ written = NothingWritten

\* rvvm_load and srvm_load_chunk copy the code; what was behind it stays.
Loaded(code) ==
  [a \in Addresses |-> IF a < Len(code) THEN code[a + 1] ELSE ram[a]]

Outside(a) == IF a \in Addresses THEN a ELSE RamSize

\* gfx_init clears the machine.
GfxInit ==
  /\ phase = "idle"
  /\ active' = TRUE /\ running' = FALSE /\ pc' = 0 /\ cycles' = 0
  /\ ram' = [a \in Addresses |-> Zero] /\ heap' = <<>> /\ status' = 0
  /\ written' = NothingWritten
  /\ UNCHANGED <<phase, ran>>

\* gfx_load: rvvm_load does not touch running.
GfxLoad(p) ==
  /\ phase = "idle" /\ active
  /\ ram' = Loaded(p.code) /\ pc' = Outside(p.entry) /\ cycles' = 0
  /\ UNCHANGED <<active, running, heap, status, phase, ran, written>>

\* gfx_run of a machine that is running.
GfxRun ==
  /\ phase = "idle" /\ active /\ running
  /\ phase' = "frame" /\ status' = 1 /\ ran' = 0
  /\ UNCHANGED <<active, running, pc, cycles, ram, heap, written>>

\* gfx_run of a halted machine returns.
GfxRunHalted ==
  /\ phase = "idle" /\ active /\ ~running
  /\ UNCHANGED vars

\* srvm_run: initialise a machine if there is none, load the constants,
\* load the first chunk and start.
SrvmRun(p) ==
  /\ phase = "idle"
  /\ active' = TRUE
  /\ heap' = ConstantsHeap(p.consts)
  /\ written' = NothingWritten
  /\ \/ /\ p.hasChunk
        /\ ram' = Loaded(p.code) /\ pc' = 0 /\ cycles' = 0 /\ running' = TRUE
        /\ phase' = "srvm" /\ ran' = 0
     \/ /\ ~p.hasChunk
        /\ UNCHANGED <<ram, pc, cycles, running, phase, ran>>
  /\ UNCHANGED status

-----------------------------------------------------------------------------
(* rvvm_run and rvvm_step. *)

\* Mutant: a frame gets the budget of srvm_run.
BudgetMutant == SrvmBudget

Budget == IF phase = "frame" THEN FrameBudget ELSE SrvmBudget

InLoop == phase # "idle" /\ running /\ cycles < Budget

\* An instruction of this kind is fetched and counted.
Fetch(op) ==
  /\ InLoop /\ pc \in Addresses /\ ram[pc].op = op
  /\ cycles' = cycles + 1 /\ ran' = ran + 1
  /\ UNCHANGED <<active, ram, status, phase>>

\* Arithmetic, loads and stores, FLIP, PRINT, FENCE, and every word the
\* switch does not know.  VSYNC too: it waits while gpu_vblank is set, and
\* nothing sets it.
Plain ==
  /\ Fetch("plain")
  /\ pc' = Outside(pc + 1)
  /\ UNCHANGED <<running, heap, written>>

\* ECALL: a VMSYS whose operation is 0.
Ecall ==
  /\ Fetch("ecall")
  /\ pc' = Outside(pc + 1)
  /\ UNCHANGED <<running, heap, written>>

\* VMSYS HALT returns before pc is advanced.
Halt ==
  /\ Fetch("halt")
  /\ running' = FALSE
  /\ UNCHANGED <<pc, heap, written>>

\* Mutant: a jump is not counted.
JumpMutant ==
  /\ InLoop /\ pc \in Addresses /\ ram[pc].op = "jump"
  /\ pc' = Outside(pc + ram[pc].offset)
  /\ UNCHANGED <<active, ram, status, phase, cycles, ran, running, heap, written>>

\* JAL.
Jump ==
  /\ Fetch("jump")
  /\ pc' = Outside(pc + ram[pc].offset)
  /\ UNCHANGED <<running, heap, written>>

\* JALR: a register and an immediate make up any address.
JumpRegister ==
  /\ Fetch("jalr")
  /\ pc' \in 0 .. RamSize
  /\ UNCHANGED <<running, heap, written>>

\* A branch adds its offset to the address of the next instruction.
Branch ==
  /\ Fetch("branch")
  /\ pc' \in {Outside(pc + 1), Outside(pc + 1 + ram[pc].offset)}
  /\ UNCHANGED <<running, heap, written>>

SetGlobal ==
  /\ Fetch("set")
  /\ heap' = HeapSet(heap, ram[pc].key, ram[pc].val)
  /\ written' = [k \in Globals |-> IF k = ram[pc].key THEN ram[pc].val ELSE written[k]]
  /\ pc' = Outside(pc + 1)
  /\ UNCHANGED running

\* An address outside RAM stops the machine, and is not counted.
RunOff ==
  /\ InLoop /\ pc = RamSize
  /\ running' = FALSE
  /\ UNCHANGED <<active, pc, cycles, ram, heap, status, phase, ran, written>>

\* The loop ends, and the frame notes the state of the machine.
LoopEnds ==
  /\ phase # "idle" /\ ~InLoop
  /\ status' = IF phase = "frame" THEN (IF running THEN 1 ELSE 0) ELSE status
  /\ phase' = "idle"
  /\ UNCHANGED <<active, running, pc, cycles, ram, heap, ran, written>>

Step ==
  Plain \/ Ecall \/ Halt \/ Jump \/ JumpRegister \/ Branch \/ SetGlobal \/ RunOff \/ LoopEnds

Next ==
  \/ Step
  \/ GfxInit \/ GfxRun \/ GfxRunHalted
  \/ \E p \in Programs : GfxLoad(p)
  \/ \E p \in SrvmPrograms : SrvmRun(p)

Spec == Init /\ [][Next]_vars

\* The loops run on the processor of the caller until they return.
FairSpec == Spec /\ WF_vars(Step)

-----------------------------------------------------------------------------
TypeOK ==
  /\ active \in BOOLEAN /\ running \in BOOLEAN
  /\ pc \in 0 .. RamSize /\ cycles \in Nat /\ ran \in Nat
  /\ \A a \in Addresses : ram[a].op \in Kinds
  /\ Len(heap) <= HeapMax /\ HeapKeys(heap) \subseteq Nat
  /\ status \in {0, 1} /\ phase \in {"idle", "frame", "srvm"}
  /\ DOMAIN written = Globals

(***************************************************************************)
(* Every gfx_run and srvm_run returns, whatever the program does: jumps in *)
(* a circle, runs out of RAM, or runs into the code an earlier, longer     *)
(* program left behind it.                                                 *)
(***************************************************************************)
EveryRunReturns == phase # "idle" ~> phase = "idle"

(***************************************************************************)
(* No call executes more instructions than its budget, a machine that is   *)
(* handed from srvm_run to gfx_run included.                               *)
(***************************************************************************)
WithinBudget ==
  /\ phase = "frame" => ran <= FrameBudget
  /\ phase = "srvm" => ran <= SrvmBudget

(***************************************************************************)
(* A global in the heap holds what a program last wrote to its key, across *)
(* calls, frames and programs, until gfx_init or srvm_run clears the heap; *)
(* and one that was written is missing only if the heap is full, with      *)
(* other keys.  It is about the keys the heap has addresses for, and says  *)
(* nothing of the words srvm_run loads for the constants.                  *)
(***************************************************************************)
WrittenKeys == {k \in Globals : written[k] # Unset}

GlobalsKept ==
  /\ \A k \in WrittenKeys \cap HeapKeys(heap) : HeapGet(heap, k) = written[k]
  /\ WrittenKeys \subseteq HeapKeys(heap) \/ Cardinality(HeapKeys(heap)) = HeapMax
=============================================================================
