-------------------------------- MODULE Pio --------------------------------
(***************************************************************************)
(* The PIO engines and DMA: pio/pio_bridge.h, pio/pio_accel.h,             *)
(* pio/pio_bitblt.h and dma/dma_bridge.h, as far as a line of the REPL     *)
(* can reach them.                                                         *)
(*                                                                         *)
(* Two blocks of state machines with a TX FIFO each, and a pool of DMA     *)
(* channels.  An engine claims a state machine when it is initialised and  *)
(* remembers its number; each call of it puts a group of Parts[e] words,   *)
(* which belong together, into a FIFO.  One call runs at a time; state     *)
(* machines take words whenever they like.                                 *)
(*                                                                         *)
(* pio_put, ws2812_put, pio_clear_fifos and dma_unclaim take the numbers   *)
(* the line gives them: nothing asks whether the state machine or the      *)
(* channel is the caller's, an engine's or nobody's.                       *)
(*                                                                         *)
(* A program is handed to the SDK as an array where a descriptor is        *)
(* expected, so adding one either succeeds or panics.                      *)
(***************************************************************************)
EXTENDS Integers, Sequences, FiniteSets

CONSTANTS
  Blocks,     \* 0 and 1: pio0 and pio1
  SMs,        \* 0 .. 3, in each block
  Depth,      \* words in a TX FIFO
  Channels,   \* DMA channels
  Engines,    \* pattern, pwm: handles in static variables
  Blit,       \* the blitter, which remembers its block as well
  User,       \* who claims by number, or has a ws2812 handle
  Parts,      \* words in a group: dst, count, color of the blitter; 2 for the others
  MaxRows     \* bound: rows of a rectangle

ASSUME PioAssumption ==
  /\ Blocks = {0, 1} /\ SMs \subseteq 0 .. 3 /\ 0 \in SMs
  /\ Depth \in Nat \ {0} /\ MaxRows \in Nat
  /\ Parts \in [Engines \union {Blit, User} -> Nat \ {0}]
  /\ Blit \notin Engines /\ User \notin Engines /\ Blit # User
  /\ Channels \subseteq Nat /\ "nobody" \notin Engines \union {Blit, User}

Users == Engines \union {Blit, User}
Nobody == "nobody"
None == -1

VARIABLES
  claimed,   \* per block: the state machines the SDK has given away
  handle,    \* _pattern_sm, _pwm_sm, _pio_blit_sm: a number or None
  blit_pio,  \* _pio_blit_pio
  channels,  \* the DMA channels given away
  tx,        \* per block and state machine: the words in its FIFO
  job,       \* the call in progress, or NoJob
  halted,    \* the firmware has panicked
  owner,     \* history: who was given a state machine
  lent,      \* history: the DMA channels the REPL's user was given
  taken,     \* history: words a state machine took, modulo the group of its owner
  disturbed  \* history: someone else has put into its FIFO or cleared it, or DMA lost a word

vars == <<claimed, handle, blit_pio, channels, tx, job, halted, owner, lent, taken, disturbed>>

hardware == <<claimed, channels, tx>>
history  == <<owner, lent, taken, disturbed>>

Engaged == Engines \union {Blit}

NoJob == [user |-> Nobody]

Idle == job = NoJob /\ ~halted

PerSM(x) == [b \in Blocks |-> [s \in SMs |-> x]]

Init ==
  /\ claimed = [b \in Blocks |-> {}] /\ channels = {} /\ tx = PerSM(<<>>)
  /\ handle = [e \in Engaged |-> None] /\ blit_pio = 0
  /\ job = NoJob /\ halted = FALSE
  /\ owner = PerSM(Nobody) /\ lent = {} /\ taken = PerSM(0) /\ disturbed = PerSM(FALSE)

-----------------------------------------------------------------------------
(* Claims *)

IsLeast(s, S) == s \in S /\ \A r \in S : s <= r

\* pio_claim_unused_sm: the least state machine that is not given away.
Unused(b) == SMs \ claimed[b]

Give(b, s, u) ==
  /\ claimed' = [claimed EXCEPT ![b] = @ \union {s}]
  /\ owner' = [owner EXCEPT ![b][s] = u]

Panic == halted' = TRUE /\ UNCHANGED <<handle, blit_pio, claimed, owner, tx>>

\* pio_sm_init clears the FIFO of the state machine it sets up.
Empty(b, s) == tx' = [tx EXCEPT ![b][s] = <<>>]

\* The claim is required: without an unused state machine, or when the program
\* is refused, the firmware panics.  The handle is overwritten, so an engine
\* that is initialised again forgets the state machine it had.
InitEngine(e, b) ==
  /\ Idle
  /\ \/ Panic
     \/ /\ \E s \in SMs :
             /\ IsLeast(s, Unused(b)) /\ Give(b, s, e) /\ Empty(b, s)
             /\ handle' = [handle EXCEPT ![e] = s]
        /\ blit_pio' = IF e = Blit THEN b ELSE blit_pio
        /\ UNCHANGED halted
  /\ UNCHANGED <<channels, job, lent, taken, disturbed>>

\* ws2812_init: the number is returned, and used together with the block.
Ws2812Init(b) ==
  /\ Idle
  /\ \/ Panic
     \/ /\ \E s \in SMs : IsLeast(s, Unused(b)) /\ Give(b, s, User) /\ Empty(b, s)
        /\ UNCHANGED <<handle, blit_pio, halted>>
  /\ UNCHANGED <<channels, job, lent, taken, disturbed>>

\* pio_claim: fails for any but the least unused one, which is given back.
Claim(b, s) ==
  /\ Idle
  /\ IF IsLeast(s, Unused(b)) THEN Give(b, s, User) ELSE UNCHANGED <<claimed, owner>>
  /\ UNCHANGED <<handle, blit_pio, channels, tx, job, halted, lent, taken, disturbed>>

DmaClaim ==
  /\ Idle
  /\ \E c \in Channels : IsLeast(c, Channels \ channels)
       /\ channels' = channels \union {c} /\ lent' = lent \union {c}
  /\ UNCHANGED <<claimed, handle, blit_pio, tx, job, halted, owner, taken, disturbed>>

\* dma_unclaim gives back any channel, claimed or not.
DmaUnclaim ==
  /\ Idle
  /\ \E c \in Channels : channels' = channels \ {c} /\ lent' = lent \ {c}
  /\ UNCHANGED <<claimed, handle, blit_pio, tx, job, halted, owner, taken, disturbed>>

-----------------------------------------------------------------------------
(* Calls that put words.  A job: whose words, where to, how many of the     *)
(* group are left, how many groups follow, and the DMA channel, if any.     *)

Job(u, b, s, rows) ==
  [user |-> u, block |-> b, sm |-> s, left |-> 0, rows |-> rows, channel |-> None]

Room(b, s) == Len(tx[b][s]) < Depth

Append1(b, s, w) == tx' = [tx EXCEPT ![b][s] = Append(@, w)]

\* u meddles with a state machine that is an engine's or the blitter's, but not its own.
Disturb(b, s, u) ==
  disturbed' = [disturbed EXCEPT ![b][s] = @ \/ owner[b][s] \in Engaged \ {u}]

\* The block an engine derives from the number of its state machine.
BlockOf(s) == IF s >= 4 THEN 1 ELSE 0

\* pattern_out, pwm_pio_set: nothing before the engine is initialised.
Push(e) ==
  /\ Idle /\ handle[e] # None
  /\ LET b == BlockOf(handle[e])  s == handle[e] % 4 IN
       job' = Job(e, b, s, 1) /\ Disturb(b, s, e)
  /\ UNCHANGED <<hardware, handle, blit_pio, halted, owner, lent, taken>>

\* ws2812_put blocks as the engines do.
Ws2812Put(b, s) ==
  /\ Idle
  /\ job' = Job(User, b, s, 1) /\ Disturb(b, s, User)
  /\ UNCHANGED <<hardware, handle, blit_pio, halted, owner, lent, taken>>

\* pio_put does not wait: a word is lost when there is no room.
Put(b, s) ==
  /\ Idle
  /\ IF Room(b, s) THEN Append1(b, s, [from |-> User, part |-> 1]) ELSE UNCHANGED tx
  /\ Disturb(b, s, User)
  /\ UNCHANGED <<claimed, channels, handle, blit_pio, job, halted, owner, lent, taken>>

ClearFifos(b, s) ==
  /\ Idle
  /\ Empty(b, s) /\ Disturb(b, s, User)
  /\ UNCHANGED <<claimed, channels, handle, blit_pio, job, halted, owner, lent, taken>>

\* Mutant: the blitter's words go to the block of its state machine's number.
FillRectMutant(rows) ==
  /\ Idle /\ handle[Blit] # None
  /\ job' = Job(Blit, BlockOf(handle[Blit]), handle[Blit], rows)
  /\ UNCHANGED <<hardware, handle, blit_pio, halted, history>>

\* blit_fill: a row at a time; memset before the blitter is initialised.
FillRect(rows) ==
  /\ Idle /\ handle[Blit] # None
  /\ job' = Job(Blit, blit_pio, handle[Blit], rows)
  /\ UNCHANGED <<hardware, handle, blit_pio, halted, history>>

\* The next group.  The blitter takes a DMA channel for it if there is one.
Group ==
  /\ job # NoJob /\ job.left = 0 /\ job.rows > 0 /\ job.channel = None
  /\ LET next == [job EXCEPT !.left = Parts[job.user], !.rows = @ - 1] IN
       IF job.user = Blit /\ Channels \ channels # {}
       THEN \E c \in Channels : IsLeast(c, Channels \ channels)
              /\ channels' = channels \union {c} /\ job' = [next EXCEPT !.channel = c]
       ELSE job' = next /\ UNCHANGED channels
  /\ UNCHANGED <<claimed, handle, blit_pio, tx, halted, history>>

Word == [from |-> job.user, part |-> Parts[job.user] - job.left + 1]

\* Mutant: the processor does not wait for room.
CpuWordMutant ==
  /\ job # NoJob /\ job.left > 0 /\ job.channel = None
  /\ IF Room(job.block, job.sm) THEN Append1(job.block, job.sm, Word) ELSE UNCHANGED tx
  /\ job' = [job EXCEPT !.left = @ - 1]
  /\ UNCHANGED <<claimed, channels, handle, blit_pio, halted, history>>

\* pio_sm_put_blocking
CpuWord ==
  /\ job # NoJob /\ job.left > 0 /\ job.channel = None
  /\ Room(job.block, job.sm) /\ Append1(job.block, job.sm, Word)
  /\ job' = [job EXCEPT !.left = @ - 1]
  /\ UNCHANGED <<claimed, channels, handle, blit_pio, halted, history>>

\* The transfer is paced by the FIFO of state machine 0, whichever it writes
\* to; a word that finds no room is lost.
DmaWord ==
  /\ job # NoJob /\ job.left > 0 /\ job.channel # None
  /\ Room(job.block, 0)
  /\ IF Room(job.block, job.sm)
     THEN Append1(job.block, job.sm, Word) /\ UNCHANGED disturbed
     ELSE UNCHANGED tx /\ disturbed' = [disturbed EXCEPT ![job.block][job.sm] = TRUE]
  /\ job' = [job EXCEPT !.left = @ - 1]
  /\ UNCHANGED <<claimed, channels, handle, blit_pio, halted, owner, lent, taken>>

\* Mutant: the channel is given back at the end of the rectangle.
DmaDoneMutant ==
  /\ job # NoJob /\ job.left = 0 /\ job.channel # None
  /\ channels' = IF job.rows = 0 THEN channels \ {job.channel} ELSE channels
  /\ job' = [job EXCEPT !.channel = None]
  /\ UNCHANGED <<claimed, tx, handle, blit_pio, halted, history>>

\* wait_for_finish and unclaim, after each row.
DmaDone ==
  /\ job # NoJob /\ job.left = 0 /\ job.channel # None
  /\ channels' = channels \ {job.channel}
  /\ job' = [job EXCEPT !.channel = None]
  /\ UNCHANGED <<claimed, tx, handle, blit_pio, halted, history>>

CallReturns ==
  /\ job # NoJob /\ job.left = 0 /\ job.rows = 0 /\ job.channel = None
  /\ job' = NoJob
  /\ UNCHANGED <<hardware, handle, blit_pio, halted, history>>

-----------------------------------------------------------------------------
\* Words in a group of u's; nobody's state machine takes them one by one.
GroupOf(u) == IF u = Nobody THEN 1 ELSE Parts[u]

\* A state machine takes a word: any may be running, for the REPL enables any.
Take(b, s) ==
  /\ tx[b][s] # <<>>
  /\ tx' = [tx EXCEPT ![b][s] = Tail(@)]
  /\ taken' = [taken EXCEPT ![b][s] = (@ + 1) % GroupOf(owner[b][s])]
  /\ UNCHANGED <<claimed, channels, handle, blit_pio, job, halted, owner, lent, disturbed>>

\* A reset frees everything and ends a panic.
Reset ==
  /\ claimed' = [b \in Blocks |-> {}] /\ channels' = {} /\ tx' = PerSM(<<>>)
  /\ handle' = [e \in Engaged |-> None] /\ blit_pio' = 0
  /\ job' = NoJob /\ halted' = FALSE
  /\ owner' = PerSM(Nobody) /\ lent' = {} /\ taken' = PerSM(0) /\ disturbed' = PerSM(FALSE)

Next ==
  \/ \E b \in Blocks : (\E e \in Engaged : InitEngine(e, b)) \/ Ws2812Init(b)
  \/ \E b \in Blocks, s \in SMs : 
       Claim(b, s) \/ Put(b, s) \/ ClearFifos(b, s) \/ Ws2812Put(b, s) \/ Take(b, s)
  \/ DmaClaim \/ DmaUnclaim
  \/ \E e \in Engines : Push(e)
  \/ \E rows \in 0 .. MaxRows : FillRect(rows)
  \/ Group \/ CpuWord \/ DmaWord \/ DmaDone \/ CallReturns
  \/ Reset

Spec == Init /\ [][Next]_vars

-----------------------------------------------------------------------------
(* Properties *)

\* The words of job that are still to be put into FIFO s of block b.
Pending(b, s) ==
  IF job # NoJob /\ job.block = b /\ job.sm = s
  THEN [i \in 1 .. job.left |-> [from |-> job.user, part |-> Parts[job.user] - job.left + i]]
  ELSE <<>>

\* Where words of u may be found.  Those of the user wherever a line put them by
\* number; those of the blitter and of an engine in a state machine they were
\* given.  An engine in block 1 derives block 0 from its number (pio_accel.h:127),
\* so its words reach the state machine of that number in block 0, and no other.
MayHold(b, s, u) ==
  \/ u = User
  \/ u = owner[b][s]
  \/ u \in Engines /\ b = 0 /\ u = owner[1][s]

\* A FIFO holds no words but those, whatever the order of claims, initialisations
\* and failures (pio_accel.h:106-131, pio_bitblt.h:23-63).
OwnWords ==
  \A b \in Blocks, s \in SMs : \A i \in DOMAIN tx[b][s] : MayHold(b, s, tx[b][s][i].from)

\* In a state machine of an engine or of the blitter that nobody disturbed, what it
\* took, finds in its FIFO and is still sent are whole groups in order: no word is
\* lost, whether the processor waits for room or a DMA channel does
\* (pio_accel.h:129, pio_bitblt.h:56-76).  Where a DMA transfer is paced by state
\* machine 0 and loses a word in another (pio_bitblt.h:71), that one is disturbed.
WordsWhole ==
  \A b \in Blocks, s \in SMs :
    LET u == owner[b][s]
        words == tx[b][s] \o Pending(b, s)
    IN  u \in Engaged /\ ~disturbed[b][s] =>
          /\ \A i \in DOMAIN words : words[i].part = 1 + ((taken[b][s] + i - 1) % Parts[u])
          /\ (taken[b][s] + Len(words)) % Parts[u] = 0

\* Between calls only what someone was given is claimed: a claim that fails gives
\* back what it took (pio_bridge.h:22), a rectangle its channels (pio_bitblt.h:76).
NothingKept ==
  Idle =>
    /\ \A b \in Blocks : claimed[b] = {s \in SMs : owner[b][s] # Nobody}
    /\ channels = lent
=============================================================================
