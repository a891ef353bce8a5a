# Verification of SagePico

SagePico runs the Sage language on an RP2350 board: a REPL, a key/value store
in flash, a graphics virtual machine, a framebuffer console, bindings for the
hardware, and the host tools that build and talk to it. This directory holds
TLA+ models of the parts of it that have state and can go wrong over several
steps, the TLC runs that check them, and TLAPS proofs about the flash store,
the REPL, the graphics machine and its drawing, the console, the PIO engines, the
clock, the assembler and the serial terminal.
Paths are relative to the root of the repository; `flash_store.h` stands for
`src/pico/c/storage/flash_store.h`, and likewise for other header names.

To check everything again: `tlc -config <run>.cfg <module>` for each row of the
table of runs, and `tlapm` for `DataLemmas.tla` and every `*Proofs.tla`.

## 1. Inventory

| Part | Source | State it keeps | Operations | Status |
|---|---|---|---|---|
| Flash store | `storage/flash_store.h` | sectors in flash; `_flash_seq`, `_flash_sector_addr`, `_flash_initialized` | init, put, get, del, keys, compact | modelled, proved |
| REPL | `core/sage_bridge.h` 823-1517, `patch_main.py` | variables, multi-line buffer, mode | line, expression, save, run, load, edit, quit, Ctrl+C, restore, persist | partly, proved but for the parser |
| Graphics VM, SRVM | `vm/rvvm.h`, `vm/gfx_vm.h`, `vm/srvm_loader.h` | pc, cycles, running, RAM, heap of globals, status | gfx_init, gfx_load, gfx_run, srvm_run, step | partly, proved |
| Drawing | `vm/rvvm.h` 283-316, `vm/gfx_vm.sage`, `display/hstx_display.h` | framebuffer | FILL_RECT, BLIT, FILL line, disp_rect, disp_clear | partly, proved |
| Console | `display/hstx_display.h` | framebuffer, cursor | character, newline, return, backspace, clear | partly, proved |
| PIO engines | `pio/*.h` | claimed state machines, program space, engine handles | init, claim, put, clear, pattern, pwm, blit | partly, proved |
| DMA, SHA-256 | `dma/dma_bridge.h`, `crypto/sha256_bridge.h` | claimed channels, the digest unit | claim, transfer, hash | partly (claims) |
| Software clock | `system/rtc_bridge.h` | base, time at boot, watchdog scratch | init, set, get, save | modelled, proved |
| Dual core, timers | `system/dualcore_bridge.h`, `lowlevel_bridge.h` | two FIFOs, doorbells, 64-bit timer | push, pop, ring, clear, read | partly (timer read) |
| Assembler | `sage/vm/assembler/`, `sage/vm/gfx_vm.sage` | tokens and position, symbol table, code | parse, define, reference, encode | partly, proved |
| elf2uf2 | `sage/vm/elf2uf2.sage` | page map | read segments, write blocks | not modelled |
| sagepioasm | `tools/sage/sagepioasm.sage` | instruction list | encode | not modelled |
| sagecom | `tools/sage/sagecom.sage`, `tools/c/sagecom_tty.c` | terminal settings, one loop | open, drain, read serial, read keyboard, write, clean up | modelled, proved |
| sagepicotool, usbboot | `tools/` | none | copy a file to a drive | not modelled |
| Peripheral wrappers | `gpio_wrap.c`, `pico_port.h`, `sysctrl`, `powman`, `excpm`, `interp` | none of their own | forward to the SDK | not modelled |
| Sage library classes | `sage/io` ... `sage/crypto` | handles | forward to the bindings | not modelled |
| Build, patches, shims | `Makefile`, `patch_*.py`, `shims/` | none | edit generated text | not modelled |
| SageRTOS | submodule | not in the repository | | not modelled |

### How the parts interact

Everything on the board runs on one core, in calls; there is no scheduler.
`main` enters `sage_repl`, which reads a line, evaluates it and reads the next.
An evaluated line may call a binding (`sage_ffi_*_wrap`), which calls a bridge.

- REPL -> flash store: on entry it reads every listed key into a variable, on
  exit it puts every variable, and `save`, `run`, `load`, `edit`, `flash_save`,
  `flash_del` use the same keys. Programs and variables share one name space.
- REPL -> VM: `gfx_run` and `srvm_run` run the machine inside the call and
  return when it halts or its cycle budget is used up. Both entry points share
  one machine and one heap of globals. A stored program is read from the store.
- VM -> framebuffer: custom instructions write into the array the console
  draws into. The console assumes nothing about what is there.
- REPL -> console: what is printed also goes to the framebuffer where there is a
  display. The build as it is patched now is headless: `patch_main.py:22-29` defines the
  console's functions away, and the framebuffer is the VM's only.
- REPL -> PIO, DMA: a line initialises an engine, puts words, fills a rectangle,
  or claims a state machine or a channel by itself. State machines and channels
  are shared by all of them, and state machines run beside the processor.
- REPL -> clock: `clock_get`, `clock_set` and `clock_init` read the timer and
  the watchdog's scratch registers, which outlive `reboot`.
- sagecom is a program on the desktop: it sits between a person and the board's
  serial port, and shares no state with the firmware.
- Interrupts exist only inside the SDK. What interrupts this code at an
  arbitrary point is a reset: loss of power, the watchdog, `reboot`.

### Hard behaviours, and what makes each part correct

**Flash store.** A put is two flash operations, a compaction three or more, and
the power may fail between any two. Correct means: a page write never leaves
the sector; an entry goes where the scans will look for it; after a reset the
scan finds the sector that was in use; what was acknowledged is found again;
sectors wear evenly; initialisation ends whatever the flash holds.

**REPL.** Three modes, two buffers and a store that disagree about how long a
text may be. Correct means: the multi-line mode can always be left; the buffer
and its length agree and stay inside the array; what was persisted comes back.
The expression parser evaluates while it reads: an expression has the value its
operators' precedence gives it, its effects happen once and in order, and every
line is evaluated to an end.

**Graphics VM.** Two entry points with different budgets start, stop and
continue the same machine. Correct means: every call returns, within its
budget; globals survive from frame to frame.

**Drawing and console.** Offsets into one array stand for columns and rows.
Correct means: nothing is written outside the array, whatever the operands of an
instruction (a C caller of `disp_rect` has to keep to corners that are not negative); a
rectangle is clipped and does not run on into the next row; the text on the screen is the last part
of the text that was printed.

**PIO, DMA.** Claims of hardware that fail halfway, and handles that forget
what they claimed, while state machines and DMA channels drain FIFOs at their
own pace; and bindings that take any number, claimed or not. Correct means: words turn up
nowhere but where their call was meant to put them, or known to; words that belong together
arrive together where nobody interferes; and a claim that fails and
a transfer that is over leave nothing claimed.

**Clock.** Base and boot time survive a watchdog reset in scratch registers, with 0
standing for "not set". Correct means: once set, the clock shows that time and what
has passed; after a reset it is never ahead and never at the default; dates
follow one another, whatever the conversion makes of months.

**Timers.** The 64-bit timer is read in two halves while it runs. Correct means:
what is returned is a value it had. (Nothing includes `dualcore_bridge.h`.)

**Assembler.** Labels used before they are defined; immediates split over bit
fields. Correct means: decoding what was encoded gives the operands back.

**sagecom.** One loop serves two inputs, one of them without a timeout.
Correct means: what the device sends is shown, and what is typed is sent, whole and
in order, however reads split them; an escape survives the split; keys are sent
whatever the device does; the terminal is restored. (The reverse does not hold: the read of
the keyboard waits for a key, and what the device sends waits with it.)

Every hazard, at its line, is in `PROJECT.json` under `hazards`, with the
property that covers it or the reason none does yet.

## 2. Modules

| Module | Is | Stands for |
|---|---|---|
| `FlashStore` | the store, one action per flash operation | `flash_store.h` |
| `FlashHistory` | `FlashStore` with history variables | what callers were told |
| `DurableLog` | abstract specification | what a reset may find |
| `FlashStoreProofs` | theorems about the three | |
| `DataLemmas` | lemmas: induction over naturals, sums, sequences of sequences | |
| `Repl` | the REPL over a store reduced to one log | `sage_bridge.h` 823-1517 |
| `ReplProofs` | theorems about `Repl` | |
| `ReplExpr` | values, expressions as trees, what they print as and mean | `sage_bridge.h` 845-869, 1048-1112 |
| `ReplParser` | the expression parser, with its C stack | `sage_bridge.h` 829-1239 |
| `GfxVM` | loading, run loops, control flow, globals | `rvvm.h`, `gfx_vm.h`, `srvm_loader.h` |
| `GfxDraw` | drawing by offsets | `rvvm.h` 283-316, `gfx_vm.sage` 156-165, `disp_rect` |
| `GraphicsProofs` | theorems about `GfxVM` and `GfxDraw` | |
| `Console` | cells and cursor | `hstx_display.h` 157-309 |
| `Terminal` | abstract specification | a terminal of unbounded length |
| `Pio` | state machines, FIFOs, engines, blitter, DMA channels | `pio/*.h`, `dma_bridge.h` 16-25 |
| `PioProofs` | theorems | |
| `Clock` | software clock, read of the timer | `rtc_bridge.h`, `lowlevel_bridge.h` 88-97 |
| `ClockProofs` | theorems | |
| `Sagecom` | the serial terminal | `sagecom.sage`, `sagecom_tty.c` |
| `TerminalProofs` | theorems about `Console` and `Sagecom` | |
| `RvWord` | instruction words | `encoder/rv32i.sage` 13-47, `rvvm.h` 43-79 |
| `Assembler` | lexer, parser, symbol table, encoder | `sage/vm/assembler/` |
| `AssemblerProofs` | theorems about the two | |
| `MC*` | instances for TLC | |

A definition named `...Mutant` (and `HeapSetUnbounded`, `NextSectorInPlace`, `MoreToCopyShort`) is
a plausible bug. Nothing uses it; putting it in place of the definition after
it makes TLC report the property it belongs to.

### FlashStore

`flash` is the device: per sector a header and a log. `seq`, `addr`,
`initialized` are the three statics. `pc` is the next flash operation of the
call in progress; `scan`, `best`, `cur`, `saved`, `copied` are the locals that live
across flash operations. One action is one erase, one program or one turn of
the scan loop:

| Action | Code |
|---|---|
| InitBegin, ScanSector, ScanFound | `flash_find_active` 41-67 |
| ScanEmpty, FormatHeader | the fresh start, 69-94 |
| Put, Del | `flash_store_put` up to its first write, 175-211, 272-275 |
| PutProgram, PutOverrun, PutCount | 213-240 |
| CompactErase ... CompactCount | `flash_compact` 97-173 |
| PowerLoss | a reset: flash stays, statics and locals go |

An entry is a key, a value and the offset it was written at; its size is
computed as the code computes it. The bytes that pad the page written for an
entry are not entries: what follows the written one in the log is dropped.

Left out: a key of length 0; a loss of power in the middle of one erase or
program; the wrap of the sequence number (`MaxSeq` keeps below it). After
`PutOverrun`, an entry longer than the 256-byte staging page, the model stops:
what the C code does then is undefined.

There are two devices. With `NorDevice` programming clears bits and nothing else, as on the
board: the count of a header that was programmed as 0 stays 0, and an entry that is
programmed over one that was not counted reads as anything. (`BitAnd` is the bitwise and;
the proofs know of it only that 0 absorbs.) Without it programming stores what it is given,
an idealisation: the code relies on it when it counts in place, and under it the rest of the
design can be looked at, as it would be with that defect repaired. The theorems are about both devices.
`flash_range_program` wants offsets that are multiples of a page, and the code's are
not, except the first of a sector; what the SDK does with the others is not modelled,
and on a NOR device there are no others, since nothing is ever counted (`NothingCounted`).

`FlashHistory` adds the keys a caller was told are stored, how often each sector was erased,
and how often the power failed. It takes no step the store does not.

### Repl

`mode` is "off", "prompt" or the loop that runs ("restore", "run", "persist"),
so that a reset may fall between two turns of a loop. The store is the log of
FlashStore's active sector: a put appends, a lookup finds the first entry, a
put into a full log keeps `LogCap` entries. Which of several entries of a key
should be found is left open by the properties (section 5). Entries have unit size here; which
entries fit is FlashStore's concern. A line is typed as a whole, as the read
loop gives it to the evaluator, and evaluating it means the one binding it
makes. Lengths are kept: of a line, the buffer, a value of the store, and the
64 bytes a persisted value is cut to.

### ReplExpr, ReplParser

`ReplParser` is the recursive descent of `sage_repl_parse_*`. `stack` is the C stack: a
frame for every loop or caller that waits for a value, with the locals it keeps
across the call. An action runs to the next call or return, so a loop that
does not advance is a behaviour that never ends. A line is a sequence of tokens
typed without blanks; numbers are integers, and a native function is the call it
records. Identifiers of 64 characters or more are left out.

| Action | Code |
|---|---|
| Line, Expr | `sage_repl_eval` 1212-1233, `sage_repl_parse_expr` |
| BeginAssignment, SetVariable, Variable, Property, BeginCall | `sage_repl_parse_call` |
| Primary, CloseParen | `sage_repl_parse_primary` |
| Items, Item | the three list loops, 915-925, 1002-1010, 1034-1042 |
| Operator, Combine | `sage_repl_parse_binary` |

`ReplExpr` holds what the parser is compared with, and never parses: a tree is printed
with the fewest parentheses, and has a value and effects. The run reads every
printed line back. `Misread` names the two kinds of line the parser is known
to read otherwise (section 5).

### Pio

`claimed`, `channels`, `tx` are the hardware; `handle`, `blit_pio` the statics of the
engines; `job` is the call in progress, which puts groups of words: a pattern
and its delay, a high and a low time, or address, count and color of one row
of a rectangle. State machines take words between any two steps. `pattern` and
`pwm` do the same, so one of them stands for both. `owner`, `lent`, `taken`
are history.

`pio_put`, `ws2812_put`, `pio_clear_fifos` and `dma_unclaim` take their numbers from the
line, and neither they nor the SDK ask whose the state machine or the channel is: so do the
actions, for every number there is (a number outside the range is not modelled: the SDK
indexes registers with it). `disturbed` is history too. It marks a state machine of an
engine or of the blitter in whose FIFO somebody else put a word or that somebody else
cleared, be it a line or an engine that derives the wrong block, and one that lost a word of a paced
transfer (section 5). `WordsWhole` is about all others.

The array handed to `pio_add_program` is cast to a descriptor, and what that does
is undefined: a program is accepted or the SDK panics. Programs of state machines, the reads of
the random generator, pins and dividers are left out, and so are functions no
line of the REPL reaches.

### Clock

Seconds, days and months are scaled down; a word of the clock has 256 values and
two scratch registers of 16. The timer is advanced between calls, and between
the loads of a read of it. `given`, `age`, `restarted` are history: what the
clock was set to, and what happened since. Where the code is known to lose
time, the property says how much: after a reset or a `clock_init` the clock may
be anywhere from the time it was given to the time it is.

### Sagecom

`rx` is the port's queue and `keys` the terminal's; a read takes any part of one, as
the kernel may. `pc` is the program's place in the loop, with one action per
call of the helper and per key. What the program prints of its own is left out.
`sent` and `done` are history. `ICRNL` is set on the port, so the queue holds
line feeds where the device sent returns. The properties do not say which of the two a
return should be, a line end as `docs/SagePico.md:539` has it or nothing as lines 518, 530 and 540 have. R after
Ctrl+A prints a line and does nothing else, so `ClearKey` stands for it as well.

### GfxVM

An instruction is its kind and its operands, at an address that counts
instructions. Registers are left out: a branch may go both ways, a jump through a
register to any instruction or out of RAM, and a stored value is part of the instruction.
So the model has every path the registers could choose, as long as entries, jumps and branches lead to
whole instructions. Programs that write over their own code are not modelled. `ran` and
`written` are history variables. The heap has addresses for `Window` keys; a program may
name keys outside it, since the immediate is signed, and those reach no entry. A pool of constants
fills the heap as the loop of `srvm_load_constants` does, up to its limit, with the low
word of each double. That word is hardly what was meant (section 5), so `written`, and
with it `GlobalsKept`, is about what programs write.

### GfxDraw, Console

Both keep the framebuffer as a function of offsets, and extend its domain when
a write goes outside, so that such a write is seen and not lost. In GfxDraw an
extent comes out of the sign-extended immediate as the VM takes it apart, with
16 and 12 bits scaled down to 4 and 3 (`Half` and `ImmHalf` are 2^16 and 2^11 in
the code). The corner of `disp_rect` may be negative, and its loops look at the right and
bottom borders only; `outside` has what is written before the array then, and what lies there is not
modelled. No file of the repository calls `disp_rect`, so whether a caller would pass one is
open. A BLIT that would read outside RAM is undefined and left out. In Console a cell stands for 8x8 pixels: `FB_WIDTH` is
80 times 8, so moving the array by 8 pixel rows moves it by one row of cells.
`con_setpos`, which nothing calls, is left out.

### RvWord, Assembler

A word is the set of the positions of its one bits. A source is a sequence of
lines as its author means them; `tokens` is what the lexer makes of it, and the
parser walks over it by position: one action is a label, a mnemonic with its
first operand, a further operand, or a token it skips. The encoder takes one
node at a time. Mnemonics of one format differ in constants only, so one or two
stand for each format. A missing operand ends in "failed": what indexing past
the end of a list does is the Sage runtime's affair. The encoder and the VM are two programs, in two languages,
that have to agree on every bit; `RvWord` has both.

Properties that compare the output with the source leave out what the code
is known not to do (section 5): a label that is branched to before it is defined, and
a label the parser has taken for an operand (`Seen`).

## 3. Runs

| Run | Question | Bounds |
|---|---|---|
| `flash_store` | Do writes stay in the sector and follow the log? Do RAM and flash agree on the newest sector? Does a compaction keep what fits? Is wear even? Does the store implement DurableLog, and become ready again? | 1 key, 3 entry sizes (one overruns the staging page), 3 sectors of 4 pages, 3 compactions (the ring is gone round), at most 3 entries copied, 2 resets |
| `flash_nor` | `tests/test_flash.py:9` what was saved loads, on a device that clears bits | fails |
| `flash_power` | `flash_store.h:2` the store survives power cycles, on a device that overwrites | fails after one reset during a compaction |
| `repl` | Can multi-line mode be left? Does the buffer hold its text? Does what the store lists come back? Does a put leave other keys alone? | 3 names (one too long to store), a buffer three lines fill, a store that lists 2 keys and keeps 2 entries, resets anywhere |
| `parser` | Is an expression read back as it was printed, with its effects in order? Does every line end? | 10 leaves, all pairs under 10 operators, nestings of 2 and 3, lists and calls of them; every line of up to 4 of 14 tokens |
| `gfx_vm` | Does every run return within its budget? Do globals keep their values? | 5 + 4 programs, RAM for 4 instructions, budgets 3 and 6, a heap of 2, a window of 3 keys and a key on either side of it |
| `gfx_draw` | Is anything written outside, or outside its rectangle? | 3x2 pixels, 3 colors, all immediates, corners from -1 on, all pictures that can be drawn |
| `console` | Does the screen show the last part of the text? | 3x2 cells, 2 glyphs, 2 scrolls |
| `assembler` | Does the parser always end? Does decoding give the operands back? Do branches back land? | sources of up to 4 lines of 11 kinds, 2 labels; single instructions with every power of two their immediates hold |
| `pio` | Where do words turn up? Do groups arrive whole? Is anything kept? | 2 blocks of 2 state machines, FIFOs of 2, 1 channel, 1 engine, the blitter, a user, 2 rows, 3 words in flight of which 1 the user's, 1 disturbed state machine |
| `clock` | Does the clock keep its time? Do dates follow? Is a read of the timer a value it had? | a word of 256, days of 8 s, years of 8 days, months of 3; 5 dates, 1 reset or loss of power, 20 ticks of half a second |
| `sagecom` | Is everything shown and sent, in order? Do escapes survive? Is anyone starved? | 4 characters and keys in all, of 4 and 6 kinds; reads of up to 2; 1 attempt to open that may fail |

The two runs that fail show that the code does not do what the quoted line says.
Their behaviour is written out under `findings` in `PROJECT.json`.

### Why the bounds are enough

- Flash: a sector holds two to four entries, so it is empty, partly filled,
  filled to the reserved page and filled into it; entries have every size
  relative to the page (less, equal, more). There are three sectors: one
  that is active, one being written and an old one; they go round the ring and are
  used again. `MaxEntries = 3` is below what a sector holds, so the truncation of
  `entries[]` at 256 happens. Two losses of power allow one during recovery
  from another. One key is enough, since only sizes decide where entries go; the runs that
  fail have two.
- REPL: the buffer (8 bytes) is filled by three lines; the store's limit (5)
  lies between one line and the buffer, as 255 lies between 250 and 2048; the
  store lists and keeps fewer entries than a quit writes.
- Parser: with three operators every order of the three precedences occurs, on
  either side and in parentheses; a list within a call within a list uses every
  frame below every other one that it can meet at that depth. Four tokens reach
  each of the three list loops and leave it unfinished. `MaxArgs` (2) is below
  the arguments of some calls, and `MaxItems` (5) above the items of any list
  but one that is stuck, so that it cuts only loops that go on for ever.
- Pio: the groups of 2 and 3 words reach and exceed the FIFO's depth of 2, so a full FIFO
  splits a group; two state machines are claimed, forgotten and run out; the
  one channel is lent to the user, or to the blitter, or neither. `Bounds` cuts where
  there are more than `MaxWords` words in all FIFOs together (one full and another begun),
  more than `MaxForeign` of them the user's (one is enough to come between two of a group), or
  more than one disturbed state machine, and after a panic, when only a reset does anything.
  The states at the cut are checked, and not followed.
- Clock: the dates have a base of 0, a low half of 0, a high half of 0, a 31st and
  a month's end; years, the 13th month (here a 3rd) and the word are run through;
  the low half of the timer (8) wraps before, between and after the loads.
- sagecom: reads return at most two, so a burst of three or four is split in every
  way; `~.`, Ctrl+A Ctrl+A Q and Ctrl+A C have at most three keys, and one more
  shows what state they leave.
- VM: budgets are shorter and longer than the programs; the heap (2 entries) is smaller
  than the window (3 keys) and as large as the largest pool of constants; the programs halt, loop, jump
  anywhere, run off the end, start outside RAM, write to keys outside the window, and leave
  code behind for the next one.
- Drawing: extents go past both borders, and immediates include every negative one.
  The view `PixelsAndType` leaves the history variables `op` and `outside` out of the
  state's fingerprint, but for whether the invariant holds. The steps a state allows depend
  on `framebuf` alone, and action properties are evaluated on every step before its target
  is looked up, so no step goes unchecked.
- Console: rows fill and wrap, and the screen scrolls twice, once more after a
  row that itself came from a scroll.
- Assembler: four lines put any two kinds of line between a label and a branch
  back to it. Powers of two, of either sign, move one bit at a time over all
  fields of a split immediate; their neighbours at the limits are included.

`CHECK_DEADLOCK FALSE` is set in `Assembler.cfg` and `ReplParser.cfg`, since an
assembled source and an evaluated line stay as they are; in `Sagecom.cfg`, since the
program ends; and in the flash configurations: at the bounds `MaxSeq` and
`MaxLosses` the bounded store stops, and so it does after `PutOverrun`.

### Fairness

`Assembler` and `ReplParser` assume weak fairness of `Next`: `assemble`, and the
evaluation of one line, is one call that runs on.
`Sagecom` assumes weak fairness of `Program`, its one thread's steps: the operating system lets it
run, a read of the port gives up after 100 ms, and a read of the keyboard is
enabled only when there is a key or the pipe was closed. Nobody is made to
type, and the device is not made to send.
`FlashStore` and `GfxVM` assume weak fairness of `Step`: the processor goes on
executing the call in progress. `Step` holds no caller's choice and no
reset. The code has one thread and no other code takes the processor from it;
interrupts that do return. Nothing obliges a caller to call, a program to
halt, or the power to fail. `EventuallyReady` needs in addition that resets
end, which `MaxLosses` gives: a board that is reset faster than it can scan
its flash never becomes ready. All other properties hold without fairness.

## 4. What is proved

Each theorem is proved in three steps: `Init` implies an inductive invariant, every
action preserves it (a lemma per action or group of actions), and it implies the
property; an action property is proved of one step that starts in the invariant.
The theorems hold for every value of the constants that the named assumptions
allow, and TLC evaluates those assumptions on the instances it runs.

`DataLemmas` has the lemmas several of the proofs need. The provers cannot use an
induction rule whose parameter is a predicate, so induction is stated for a set
(`SetInduction`): the set of the n for which a claim holds contains 0 and with n
also n + 1. That is how the recursive functions of the models (`LenTo` of `Repl`,
`HeapsLoading` of `GfxVM`, `Number` of `RvWord`) are shown to be defined and to have
their recurrences. The community modules flatten a sequence of sequences by a fold;
from its recurrence follow its length and which element of which sequence stands
where (`EndOf`, `PlaceIsIn`).

### The flash store

| Theorem | Property |
|---|---|
| `TypeCorrect` | `TypeOK` |
| `WritesStayInSector` | `PaddedWriteInSector` |
| `WritesFollowLog` | `WriteFollowsLog` |
| `OnlyLastReachesReserve` | `OnlyLastPastLimit` |
| `NorCountsNothing` | (`NothingCounted`, of a NOR device) |
| `ActiveSectorIsNewest` | `ActiveIsNewest` |
| `CompactionsKeep` | `CompactionKeeps` |
| `StoreImplementsLog` | `ImplementsDurableLog` |
| `WearIsLevelled` | `WearLevelled` |

Assumed: `SizeAssumption` (a sector has at least two pages; sizes are numbers;
the empty value has length 0), `RingAssumption` (at least two sectors),
`DeviceAssumption` (what is read of a word that was programmed to 0 is 0; the erased
count is no 0), `HistoryAssumption` (the marker of the history is no value of
it), and in the last four that `MaxSeq` is at least 1 and less than
half of `SeqWrap`, so that sequence numbers do not wrap (`Wide`). Nothing is assumed of
which device it is. On a NOR device most of this is about a store whose
logs stay empty: `NorCountsNothing` says that no header ever counts an entry there, that all
entries go to one page and that no key is found, which is what `flash_nor` finds on one instance.

**The first five** follow from `LogInv`. The properties speak about the moment
of a write, but what makes a write safe is done earlier: `Put` compares
the space, a compaction leaves it. `LogInv` therefore says what each phase
leaves for the next (`PhaseSound`), and that logs are sound in every sector
and not just the active one (`LogSound`), since a compaction or a reset makes
another sector active. The delicate case is the put after a compaction, which
does not compare the space again: the copy loop stops at `Limit`, so every
copied entry ends at or below it, `Used <= Limit`, and a page still fits.
That is also why an entry may reach into the reserved page and why only
the last can. On a NOR device `LogInv` says that every count is 0, and only then may the log
behind it be anything.

**The sixth** follows from `SeqInv`, on top of `LogInv`: numbers of valid
sectors are distinct, RAM holds the newest, and a scan in progress holds the
newest of the sectors it has passed. The erase of a compaction's target, with the
sequence number already advanced in RAM, is the one moment at which the sector in
use is not valid; the invariant has a clause for it, and the old sector is
still there when a reset falls into it.

**That the store implements `DurableLog`** needs to know, in the middle of a
compaction, which log a reset would find. `CopyInv` says it: until the new header is
written the source is the newest sector; after that the new one is, and it holds as
much of the staged entries as was copied. So of all flash operations the one that
counts an entry appends it to the abstract log, the header of the new sector empties
the log, the one that counts the copied entries fills it with a prefix of what it
was, and every other one leaves it, a reset among them.

**What a compaction keeps** follows from the same clause: the source is the sector before
the new one in the ring, its entries were staged from the first on, up to `MaxEntries`, and the
copying stops at the first that would end behind `Limit`. Ends grow along a log, so
no later one would have fitted either.

**Wear** (`WearInv`): after c rounds of the ring every sector was erased c times, once
more if its turn has come (`Turn`, by its place before or after the newest sector) or
its erase is done and its header is not (`Due`), and once more at most for every
reset. A reset between an erase and its header is what makes the store erase the same
sector again.

### The REPL

| Theorem of `ReplProofs` | Property |
|---|---|
| `TypesHold` | `TypeOK` |
| `BufferIsExact` | `BufferExact` |
| `FinishIsPossible` | `FinishPossible` |
| `PutsKeepOthers` | `PutsTouchTheirKey` |
| `RestoreIsExact` | `RestoreExact` |
| `PersistedReturn` | `PersistedVarsReturn` |

Assumed: `ReplAssumption` (lines are not empty; a text the store accepts, and a line
that begins a block, are shorter than the buffer; `valbuf` is no longer than what the
store accepts) and `ValueAssumption` (the literals and bindings are values whose texts
are as long as they claim).

`BufferInv` adds to the two invariants that in multi-line mode the buffer is never
empty, also in the modes that only pass through it. For the two loops
over the store there is an invariant each: `RestoreInv`, that the variables set so far
are those of the keys listed so far, each with the text of its first entry; and
`PersistInv`, that every variable already written has an entry as long as the log has
not outgrown its kept part. A put appends or compacts, and `LogStep` shows that either
way the first entries of the kept part stay what they were, which is more than `PutsTouchTheirKey`
claims, and what the loops rest on.

### The graphics machine

| Theorem of `GraphicsProofs` | Property |
|---|---|
| `TypesHold` | `TypeOK` |
| `RunsStayWithinBudget` | `WithinBudget` |
| `GlobalsAreKept` | `GlobalsKept` |

Assumed: `VmAssumption` (sizes are positive, keys are finitely many numbers, programs fit
RAM and their instructions have the operands of their kind).

`WithinBudget` counts instructions of one call, but the loop compares `cycles`, which
go on from call to call. `Spent` relates the two: a call has not executed more than
`cycles`, and once it has executed one, `cycles` were below its budget. For the globals,
`HeapOk` says that no key has two entries (an update goes to all entries of a key, a lookup
reads the first), that every entry a program wrote to holds what was last written, and that
nothing written is missing while there is room; a key outside the window changes neither. That the heap is full when a key is missing
turns into the count `GlobalsKept` speaks of: a full heap of distinct keys without
that key means more keys written than entries.

### Drawing

| Theorem of `GraphicsProofs` | Property |
|---|---|
| `DrawsInside` | `DrawTypeOK` |
| `FillsAreClipped` | `FillClips` |
| `BlitsCopyAStretch` | `BlitExact` |

Assumed: `DrawAssumption`; RAM may have any size, and a screen no side longer than half
an operand word can say. The picture's type is inductive by itself. The work is
between offsets and pixels: an offset is the offset of one pixel only
(`OffsetUnique`), so the bytes from a row's start on are pixels of that row as long as it
is cut at the border (`RowIsCut`), and in a BLIT that fits no pixel is copied twice
(`RowOfPixel`). A BLIT that crosses the border does write pixels twice; `DrawsInside`
covers it too. The offsets of `disp_rect` end at the last pixel whatever its corner
(`UpTo`), and begin with it, so they are in the array unless the corner is negative; from a
column that is not, each of them is still a pixel of its rectangle or lies before the array.
`BlitsCopyAStretch` has the stretch begin at address 0, and claims no more than that there is one.

### The console

| Theorem of `TerminalProofs` | Property |
|---|---|
| `CursorStaysOnScreen` | `TypeOK` |
| `ConsoleImplementsTerminal` | `ImplementsTerminal` |

Assumed: `ConsoleAssumption`. The step that needs an invariant is the line feed: the
terminal begins a blank row, the console moves its cursor down to a row that exists already. So
the rows below the cursor are blank (`BlankBelow`), which every operation keeps:
nothing moves the cursor up but a clear, and scrolling leaves a blank row at the bottom.

### sagecom

| Theorem of `TerminalProofs` | Property |
|---|---|
| `ScreenShowsAll` | `ShownExact` |
| `KeysArrive` | `KeysExact` |

Assumed: `SagecomAssumption` (a read may return at least one character, and at most
`ReadMax`; NUL, at which a chunk is cut, is not the line feed). Both properties are
about chunks that a read cuts anywhere, so both have to be said in the middle of one.

`ShowInv`: while the port is open and no NUL has come, what is on the screen followed by
what the port still holds, each with its line ends, is what was sent, and the port's
queue holds no returns (`Translated`). This has a line end for every return; the property allows it
to be stripped as well. It is kept because line ends distribute over
concatenation (`LineEndsJoin`), so it does not matter where a read splits a burst, and
because a chunk without NUL is shown whole.

`KeysInv`: what was written is what the handled keys mean. Whether a key is escaped
depends on how many Ctrl+A precede it, across reads; `escape_mode` is that parity from
one key to the next, and nothing that was handled changes its meaning when another key
follows. The terminal is what it was when the program has ended since the mode, the saved
settings and the port are given back on every way out (`ModeRestored`).

### The assembler

| Theorem of `AssemblerProofs` | Property |
|---|---|
| `EncodingDecodes` | (of the operators of `RvWord`) |
| `AssemblerInvariant` | (the inductive invariant, `AsmInv`) |
| `TypesHold` | `TypeOK` |
| `OperandsAreKept` | `OperandsSurvive` |
| `BranchesBackLand` | `BackwardTargetsLand` |

Assumed: `AssemblerAssumption`. A source is a sequence of at most 1024 lines, and a line
has what its mnemonic asks for, with immediates that fit; no label is called like an
operation. The assembler checks none of this: an immediate that does not fit is cut, and an
instruction with the wrong operands fails or is misread. 1024 lines keep every
branch within the 13 bits of its immediate. Between legal lines nothing is
assumed: labels may be missing, declared again, used before or after, and stand
where the parser takes them for operands.

`EncodingDecodes` says of every format and every immediate of its field that decoding
gives back what was encoded. A word is a set of positions, so a field is in it
bit by bit (`InWord`); the bits of a field of n bits are those of the number modulo 2^n
(`NumberOfBits`), and the sign extension undoes that (`SignedBits`).

The properties compare the output with the source, and between the two lie a flat
sequence of tokens and a list of nodes. The proof gives every token its place: `LineEnd`,
`OpAt`, `ArgEnd` say where line k, its operation and its r-th operand stand, and
`TokenIsIn` that there is nothing else. Then:

- From the beginning of an operand `parse_operand` makes that operand and stops behind it
  (`ArgParsed`). The first operand is searched for over the ends of lines. If the line
  has a register there, it is found (`FirstIsParsed`); if not, the search passes no
  mnemonic and no label but such as are `Taken` (`FirstIsLost`).
- While the parser runs, the nodes are those of the places before `pos`, in order and
  without a gap but for taken labels (`Marked`); while it is in a line, the operands so far are
  the line's (`Pending`). So an operand never moves to another line.
- While the encoder runs, there is a place b such that the remaining nodes are those
  behind b, and `Encoding` holds at b: there are as many words as instructions before b
  (`Counted`), which makes `offset` the address of the next one; each of them has its
  line's operands and reaches its target (`Emitted`); a label before b is in the
  table with its address, unless a branch looked it up before, and a label behind b is
  in the table only if one did (`Resolved`).

The last is where `Define`, which keeps what it finds, and `Reference`, which enters a
0, meet. That a `call` looks names up too, and not the one it was given but whichever the
parser found for it, might have spoiled a label; it does not, because what it finds
is itself taken (`CallsNoPlaced`).

### The PIO engines

`PioProofs` proves, for every number of state machines (0 among them, none above 3),
FIFO depth, channels, engines, group sizes and rows:

| Theorem | Property |
|---|---|
| `FifosAreOwned` | `OwnWords` |
| `ClaimsAreGiven` | `NothingKept` |
| `GroupsStayWhole` | `WordsWhole` |

Assumed: `PioAssumption` (the two blocks are 0 and 1; channels are numbers; engines,
blitter, user and "nobody" are different).

The first two follow from `IInv`. `OwnWords` is about words in FIFOs, and where a word may
turn up is decided three steps earlier, when the call begins. So the invariant says of a
call in progress that its words may be held where it puts them (`JobHolds`), for which every
handle must name a state machine of its engine in one of the blocks (`EngineOwns`), and the
blitter's two statics one of its own (`BlitOwns`): they do although they are overwritten
at every initialisation, because they are overwritten together. An engine has only
the number, and `Push` derives the block from it, so an engine of block 1 puts its words into
block 0; `MayHold` has a disjunct for it. A claim never changes an owner, since it takes
an unused state machine and those are the ones without an owner (`Given`), so words in a
FIFO may stay there. `NothingKept` needs that a channel taken by a rectangle is the job's
and not the user's (`JobChannel`): between calls there is no job.

The third follows from `WInv`: what a state machine took, what waits in its FIFO and
what the call in progress has yet to put are together whole groups, unless the state machine was
disturbed. A call into an engine's state machine is its own or disturbs it (`OwnJob`), and a put,
a clear and a lost word set the mark when they happen (`DisturbEffect`). The position of a
word in its group is then its place in that sequence modulo the group's size
(`ModNext`), whatever the depth of the FIFO splits.

### The clock and the timer

| Theorem of `ClockProofs` | Property |
|---|---|
| `TimerReadIsWhole` | `TimerReadWhole` |
| `ClockKeepsDate` | `ClockKeeps` |
| `ShownDateFollows` | `DatesFollow` |

Assumed: `ClockAssumption` (units are positive; minutes fill an hour; a word is two
halves; time passes in whole ticks) and `DatesAssumption` (a date is six integers, of
any sign).

The model's guard in `Elapse`, that the low half wraps at most once during a read, is
an assumption about the hardware: a half lasts 71 minutes. The invariant says
that each load was made at some moment of the read, in order (`Loads`). If the two
high halves agree, the high half did not change at the moment between them
(`Between`); if they differ it has changed once and cannot again, so the low half
that is loaded after them belongs to the second (`AfterWrap`).

`ClockKeeps` follows from `Keeps`: the date that was given is in the scratch registers, and
it is the base unless a reset cleared that and nobody has asked since; the clock counts
from a moment no earlier than the one it was set at. `DatesFollow` needs no more of
the state; it is about the conversion: a proper date comes back as itself
(`ProperIsShown`), and a later second is a later date (`DatesMonotone`). The conversion takes
days apart into years and months, and seconds into hours and minutes, so the date is the digits of a
number in mixed units; one unit that does not divide another, as days of months and
years do not, does no harm, since the first digit that differs decides (`FirstDifference`).

### Only model-checked

- Liveness (`EventuallyReady`, `EveryRunReturns`, `Ends`, `Terminates`, `Served`): the
  prover has no rules for fairness.
- `ValueExact` and `EffectsExact` of `ReplParser`: the reference `ReplExpr` prints and
  evaluates trees by recursive operators, which the prover cannot take, and what they
  say is an induction over trees.

## 5. Divergences read in the code and not checked by a run

Met while modelling; no configuration shows them, so they are notes for a reader.

- `flash_store.h:54` compares modulo 2^32 and then requires `seq > best_seq`,
  so a wrapped number never wins; `docs/architecture.md:80` says the wrap is handled.
- `flash_store.h:222` stages an entry in 256 bytes; an entry of the sizes
  `docs/SagePico.md:675` allows can have 322. (`PutOverrun` marks the place.)
- Variables come back as strings, the first value ever stored wins, and only
  64 keys are listed; `docs/SagePico.md:44` says variables are persisted.
- A first put in a fresh key order, a quit and a restore append every variable
  again, so the store fills with copies.
- `rvvm.h:342` counts `cycles` from the load on, so the budget is one of all
  frames together; `docs/graphics_vm.md:240` calls it a budget per frame.
- `rvvm.h:258`: `ECALL` has operation 0 and does nothing; `docs/graphics_vm.md:135`
  says it halts. Under `srvm_run` the status register does not change
  (`docs/graphics_vm.md:64`).
- `srvm_loader.h:131` takes the low 32 bits of a double's representation: 0
  for every small integer.
- `gfx_vm.h:82`: SET_GLOBAL with a key outside 0 to 255 writes no global; -256 is the print port
  and some below it are registers of the GPU.
- `hstx_display.h:148` does not look at the left and top borders: with a negative column
  `disp_rect` paints in the row above, and with a negative row, or a negative column in the first
  row, before the array.
- `gfx_vm.sage:164` puts the height into bits an I-type immediate does not
  have: a FILL line paints nothing;
  `docs/graphics_vm.md:152` says it fills a rectangle.
- `rvvm.h:305` reads BLIT's source address and nothing uses it, and a BLIT across the right
  border goes on in the next row (`docs/graphics_vm.md:156`, 158).
- An overwritten value and a deleted key are still found: `flash_store.h:274` appends an empty
  entry, and `flash_store_get` returns the first match (`tests/test_flash.py:16` expects nil). The
  model does what the code does; no property says that either is right.
- `symbols.sage:16` takes a label that was referenced before for a duplicate, so it
  stays 0 and a branch ahead goes to address 0 (`symbols.sage:1` names forward
  references). The error is put into a list `assemble` does not return.
- `parser.sage:93` looks for operands on the next line, so a label after `nop` or
  `ret` is taken for one; `parser.sage:102` loses a first operand that is no
  register, as that of `call f`; `parser.sage:110` does not expect a sign, so
  `lw a0, -4(sp)` loses its base.
- `tokens.sage:68` lacks `j`, `mulhu`, `divu`, `mret` and the CSR mnemonics, which the
  encoder has: such lines are skipped. It has `jmp`, which the encoder lacks.
- `rvvm.h:158` counts a branch from the next instruction, RISC-V and the encoder
  from the branch itself: branches land 4 bytes late. `jal` does not.
- `gfx_vm.sage:100` puts bits 4 to 1 of a branch over bit 11, and its `asm_line`
  splits at spaces, so that `a0,` is no register.
- `flash_store.h:151` stops copying at the first entry that reaches the reserved
  page, and a put after a compaction that freed nothing writes such an entry, so the
  next compaction drops it; `docs/SagePico.md:404` says active entries are copied
  (`CompactionKeeps` is about the others).
- `sage_bridge.h:1376` ignores that `flash_store_put` refuses more than 255 bytes: `save`
  reports a program of up to 2 KB (`docs/SagePico.md:323`) saved and clears the buffer.
- `rvvm.h:348`: loading does not set `running`, and `gfx_vm.h:166` returns when it is 0, so
  after `gfx_init` and `gfx_load`, `gfx_run` does nothing until `srvm_run` has run once;
  `docs/graphics_vm.md:22` names init, load, run_frame as the life cycle.
- The REPL's backspace is not sent to the framebuffer console.
- `sage_bridge.h:972` takes `x == 5` for an assignment of what follows the first `=`,
  which is no expression: x becomes nil (`docs/SagePico.md:291` lists `==`).
- `sage_bridge.h:964` takes `true`, `false` and `nil` for identifiers before lines 904-909
  can read them as literals.
- `sage_bridge.h:915`, 1002, 1034: an unterminated list, or a character that is no
  expression inside one, makes the loop go on for ever while the array grows.
- `sage_bridge.h:919` drops a nil that is followed by a comma from an array.
- `pio_bridge.h:22`: claiming a state machine by number takes the lowest free one and
  fails if it is another.
- `pio_bridge.h:53`, 133: arrays of instructions are cast to `pio_program_t`, whose first
  members are a pointer and a length.
- `pio_bridge.h:130` and the engines' inits claim with `required`, so that where
  line 127 says -1 is returned the SDK panics.
- `pio_accel.h:84`, 127, 158, 197 derive the block from a number below 4: an engine
  initialised in block 1 is driven in block 0, into the state machine of that number whoever's it is.
- `pio_bitblt.h:71` paces by state machine 0 whichever state machine it feeds, so that words of another
  one are lost when its FIFO is full.
- `pio_bridge.h:68`, 104, 161 and `dma_bridge.h:24` do not ask whose the state machine or the channel is.
- `pio_accel.h:50` writes eight pairs of digits into `hex[9]`, past its end, and line 51
  keeps the lower half of the checksum.
- `pio_bridge.h:71` calls the read of the RX FIFO blocking; it does not wait.
- No line can reach `sage_sha256_hash_dma`, `sage_scatter_*`, `sage_crc32_init`,
  `sage_pio_unclaim`, `sage_pio_load_program`, `sage_pio_remove_program`,
  `sage_ws2812_write` or `sage_dcp_*`.
- `rtc_bridge.h:24`: the default base is a Unix time, counted here from 2026, so the clock starts
  in 2082; `tests/test_clock.py:6` expects 2026.
- `rtc_bridge.h:17`: 2026-01-01 00:00:00 is base 0, so the next `clock_get` replaces it by
  the default; years before 2026 wrap; line 48 makes a 13th month of a year's last days.
- `rtc_bridge.h:28`: `clock_init` again drops the time that has passed, and line 33
  saves only what was set, so that after `reboot` the clock resumes there (`ClockKeeps` allows any
  moment between that and the time it is).
- `sagecom_tty.c:29` blocks until a key is typed, and the port is not read meanwhile;
  `docs/SagePico.md:531` calls the read non-blocking.
- `sagecom_tty.c:56` turns "\r\n" into two line feeds before line 103 could strip the
  return, so lines are double spaced (`docs/SagePico.md:530` says returns are stripped); a NUL cuts a chunk short (lines 105 and 106).
- `sagecom.sage:127`: `~.` ends the program only if both keys arrive in one read, and first;
  line 143: Ctrl+A R prints a line and resets nothing. A closed pipe at the keyboard does not end it,
  nor does an unplugged device.

## 6. Plan

Not done, in this order.

1. `GfxAsm`: the second assembler, of `gfx_vm.sage`, against the same `RvWord`; the
   VM's registers, with programs that come out of the encoder.
2. `Uf2`: the pages of elf2uf2 against the bytes of the segments; sagepioasm's fields.
3. `ReplExpr` with trees as functions on a well-founded set of nodes in place of
   recursive operators, so that `ValueExact` comes within the prover's reach.
