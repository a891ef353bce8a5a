------------------------------ MODULE PioProofs ------------------------------
(***************************************************************************)
(* Proofs about the PIO engines: for any number of state machines, engines *)
(* and channels and FIFOs of any depth, what is claimed is what was given, *)
(* an engine's words stay in its state machines, and words that belong     *)
(* together arrive together wherever nobody else meddles.                  *)
(***************************************************************************)
EXTENDS Pio, SequenceTheorems, TLAPS

Words == [from : Users, part : Int]

Jobs == [user : Users, block : Blocks, sm : SMs, left : Int, rows : Int,
         channel : Channels \union {None}]

Types ==
  /\ claimed \in [Blocks -> SUBSET SMs]
  /\ handle \in [Engines \union {Blit} -> SMs \union {None}] /\ blit_pio \in Blocks
  /\ channels \subseteq Channels /\ lent \subseteq Channels
  /\ tx \in [Blocks -> [SMs -> Seq(Words)]]
  /\ job \in Jobs \union {NoJob}
  /\ halted \in BOOLEAN /\ disturbed \in [Blocks -> [SMs -> BOOLEAN]]
  /\ owner \in [Blocks -> [SMs -> Users \union {Nobody}]]

\* The invariant has to know why a word goes where it does: a job writes where its
\* user's words may be, and meddles with no engine unless that is recorded; an
\* engine's number is that of a state machine it owns in one of the blocks, and the
\* blitter's block and number name one of its own.
Given == \A b \in Blocks : claimed[b] = {s \in SMs : owner[b][s] # Nobody}

JobHolds == job # NoJob => MayHold(job.block, job.sm, job.user)

OwnJob ==
  job # NoJob /\ owner[job.block][job.sm] \in Engaged /\ ~disturbed[job.block][job.sm] =>
    owner[job.block][job.sm] = job.user

EngineOwns ==
  \A e \in Engines : handle[e] # None => owner[0][handle[e]] = e \/ owner[1][handle[e]] = e

BlitOwns == handle[Blit] # None => owner[blit_pio][handle[Blit]] = Blit

JobChannel ==
  IF job # NoJob /\ job.channel # None
  THEN job.channel \notin lent /\ channels = lent \union {job.channel}
  ELSE channels = lent

IInv ==
  Types /\ Given /\ JobHolds /\ OwnJob /\ EngineOwns /\ BlitOwns /\ JobChannel /\ OwnWords

-----------------------------------------------------------------------------
(* What the operations on the tables do. *)

LEMMA UsersFacts ==
  /\ Nobody \notin Users /\ Blit \in Users /\ User \in Users /\ Engines \subseteq Users
  /\ Blocks = {0, 1} /\ 0 \in SMs /\ None \notin SMs /\ None \notin Channels
  /\ \A u \in Users : Parts[u] \in Int
  /\ Engaged = Engines \union {Blit} /\ Engaged \subseteq Users /\ User \notin Engaged
BY PioAssumption DEF Users, Nobody, None, Engaged

LEMMA NoJobFacts ==
  NoJob \notin Jobs
BY UsersFacts DEF NoJob, Jobs

\* Appending a word keeps the tables' type and puts the word nowhere else.
LEMMA AppendEffect ==
  ASSUME Types, NEW b \in Blocks, NEW s \in SMs, NEW w \in Words, Append1(b, s, w)
  PROVE  /\ tx' \in [Blocks -> [SMs -> Seq(Words)]]
         /\ tx'[b][s] = Append(tx[b][s], w)
         /\ \A c \in Blocks, r \in SMs : c # b \/ r # s => tx'[c][r] = tx[c][r]
<1>1. tx[b][s] \in Seq(Words) /\ Append(tx[b][s], w) \in Seq(Words)
  BY DEF Types
<1> QED BY <1>1 DEF Types, Append1

\* A word that is appended where it may be leaves every FIFO with words it may hold.
LEMMA AppendOwn ==
  ASSUME Types, OwnWords, NEW b \in Blocks, NEW s \in SMs, NEW w \in Words,
         Append1(b, s, w), MayHold(b, s, w.from), UNCHANGED owner
  PROVE  OwnWords'
<1> SUFFICES ASSUME NEW c \in Blocks, NEW r \in SMs, NEW i \in DOMAIN tx'[c][r]
             PROVE  MayHold(c, r, tx'[c][r][i].from)
  BY DEF OwnWords, MayHold
<1>1. CASE c = b /\ r = s
  <2>1. tx[b][s] \in Seq(Words) /\ tx'[b][s] = Append(tx[b][s], w)
    BY AppendEffect DEF Types
  <2>2. CASE i = Len(tx[b][s]) + 1
    <3>1. tx'[c][r][i] = w
      BY <1>1, <2>1, <2>2
    <3> QED BY <1>1, <3>1
  <2>3. CASE i # Len(tx[b][s]) + 1
    <3>1. i \in DOMAIN tx[b][s] /\ tx'[b][s][i] = tx[b][s][i]
      BY <1>1, <2>1, <2>3
    <3> QED BY <1>1, <3>1 DEF OwnWords
  <2> QED BY <2>2, <2>3
<1>2. CASE c # b \/ r # s
  <2>1. tx'[c][r] = tx[c][r]
    BY <1>2, AppendEffect
  <2> QED BY <2>1 DEF OwnWords
<1> QED BY <1>1, <1>2

\* Giving a free state machine away changes one place of each table.  Words that
\* may be in a FIFO may still be there.
LEMMA GiveEffect ==
  ASSUME Types, Given, OwnWords, NEW b \in Blocks, NEW s \in SMs, NEW u \in Users,
         IsLeast(s, Unused(b)), Give(b, s, u), Empty(b, s) \/ UNCHANGED tx
  PROVE  /\ claimed' \in [Blocks -> SUBSET SMs]
         /\ owner' \in [Blocks -> [SMs -> Users \union {Nobody}]]
         /\ tx' \in [Blocks -> [SMs -> Seq(Words)]]
         /\ Given' /\ OwnWords'
         /\ owner[b][s] = Nobody /\ owner'[b][s] = u
         /\ \A c \in Blocks, r \in SMs : owner[c][r] # Nobody => owner'[c][r] = owner[c][r]
<1>1. owner[b][s] = Nobody
  BY DEF IsLeast, Unused, Given
<1>2. /\ claimed' \in [Blocks -> SUBSET SMs]
      /\ claimed'[b] = claimed[b] \union {s}
      /\ \A c \in Blocks : c # b => claimed'[c] = claimed[c]
  BY DEF Give, Types
<1>3. /\ owner' \in [Blocks -> [SMs -> Users \union {Nobody}]]
      /\ owner'[b][s] = u
      /\ \A c \in Blocks, r \in SMs : c # b \/ r # s => owner'[c][r] = owner[c][r]
  BY DEF Give, Types
<1>4. Given'
  BY <1>2, <1>3, UsersFacts DEF Given
<1>5. /\ tx' \in [Blocks -> [SMs -> Seq(Words)]]
      /\ \A c \in Blocks, r \in SMs : tx'[c][r] = tx[c][r] \/ tx'[c][r] = <<>>
  <2>1. <<>> \in Seq(Words) /\ tx \in [Blocks -> [SMs -> Seq(Words)]]
    BY DEF Types
  <2>2. CASE Empty(b, s)
    BY <2>1, <2>2 DEF Empty
  <2>3. CASE tx' = tx
    BY <2>1, <2>3
  <2> QED BY <2>2, <2>3
<1>6. \A c \in Blocks, r \in SMs : owner[c][r] # Nobody => owner'[c][r] = owner[c][r]
  BY <1>1, <1>3
<1>7. OwnWords'
  <2> SUFFICES ASSUME NEW c \in Blocks, NEW r \in SMs, NEW i \in DOMAIN tx'[c][r]
               PROVE  \/ tx'[c][r][i].from = User
                      \/ tx'[c][r][i].from = owner'[c][r]
                      \/ /\ tx'[c][r][i].from \in Engines /\ c = 0
                         /\ tx'[c][r][i].from = owner'[1][r]
    BY DEF OwnWords, MayHold
  <2>1. tx'[c][r] = tx[c][r]
    <3>1. DOMAIN <<>> = {}
      OBVIOUS
    <3> QED BY <1>5, <3>1
  <2>2. MayHold(c, r, tx[c][r][i].from) /\ tx[c][r][i].from \in Users
    <3>1. tx[c][r] \in Seq(Words) /\ i \in DOMAIN tx[c][r]
      BY <2>1 DEF Types
    <3>2. tx[c][r][i] \in Words
      BY <3>1, ElementOfSeq
    <3> QED BY <3>1, <3>2 DEF OwnWords, Words
  <2>3. c # 0 \/ 1 \in Blocks
    BY UsersFacts
  <2> QED BY <1>6, <2>1, <2>2, <2>3, UsersFacts DEF MayHold
<1> QED BY <1>1, <1>2, <1>3, <1>4, <1>5, <1>6, <1>7

-----------------------------------------------------------------------------
(* The invariant *)

LEMMA InitIInv == Init => IInv
<1> SUFFICES ASSUME Init PROVE IInv
  OBVIOUS
<1>1. <<>> \in Seq(Words)
  OBVIOUS
<1>2. Types
  BY <1>1, UsersFacts DEF Init, Types, PerSM
<1>3. Given /\ JobHolds /\ OwnJob /\ EngineOwns /\ BlitOwns /\ JobChannel /\ OwnWords
  BY UsersFacts
  DEF Init, Given, JobHolds, OwnJob, EngineOwns, BlitOwns, JobChannel, OwnWords, PerSM
<1> QED BY <1>2, <1>3 DEF IInv

\* Claims: by the code that uses the state machine, or by number.
LEMMA ClaimStep ==
  ASSUME IInv, NEW b \in Blocks,
         \/ \E e \in Engaged : InitEngine(e, b)
         \/ Ws2812Init(b)
         \/ \E s \in SMs : Claim(b, s)
  PROVE  IInv'
<1> USE DEF IInv
<1>0. job = NoJob /\ job' = NoJob /\ UNCHANGED <<channels, lent, disturbed>>
  BY DEF InitEngine, Ws2812Init, Claim, Idle
<1>1. JobChannel' /\ OwnJob' /\ JobHolds'
  BY <1>0 DEF JobChannel, OwnJob, JobHolds
<1>2. ASSUME UNCHANGED <<claimed, owner, handle, blit_pio, tx>>, halted' \in BOOLEAN
      PROVE  IInv'
  BY <1>0, <1>1, <1>2 DEF Types, Given, EngineOwns, BlitOwns, OwnWords, MayHold
<1>3. ASSUME NEW s \in SMs, NEW u \in Users, IsLeast(s, Unused(b)), Give(b, s, u),
             Empty(b, s) \/ UNCHANGED tx, UNCHANGED halted,
             \/ UNCHANGED <<handle, blit_pio>>
             \/ /\ u \in Engaged /\ handle' = [handle EXCEPT ![u] = s]
                /\ blit_pio' = IF u = Blit THEN b ELSE blit_pio
      PROVE  IInv'
  <2>1. /\ claimed' \in [Blocks -> SUBSET SMs]
        /\ owner' \in [Blocks -> [SMs -> Users \union {Nobody}]]
        /\ tx' \in [Blocks -> [SMs -> Seq(Words)]]
        /\ Given' /\ OwnWords' /\ owner'[b][s] = u
        /\ \A c \in Blocks, r \in SMs : owner[c][r] # Nobody => owner'[c][r] = owner[c][r]
    BY <1>3, GiveEffect
  <2>2. /\ handle \in [Engaged -> SMs \union {None}] /\ blit_pio \in Blocks
        /\ handle' \in [Engaged -> SMs \union {None}] /\ blit_pio' \in Blocks
    BY <1>3, UsersFacts DEF Types
  <2>3. Types'
    BY <1>0, <1>3, <2>1, <2>2, UsersFacts DEF Types
  <2>4. EngineOwns'
    <3> SUFFICES ASSUME NEW e \in Engines, handle'[e] # None
                 PROVE  owner'[0][handle'[e]] = e \/ owner'[1][handle'[e]] = e
      BY DEF EngineOwns
    <3>1. CASE handle'[e] = handle[e]
      <4>1. handle[e] \in SMs /\ e # Nobody /\ 0 \in Blocks /\ 1 \in Blocks
        BY <2>2, <3>1, UsersFacts
      <4>2. owner[0][handle[e]] = e \/ owner[1][handle[e]] = e
        BY <3>1 DEF EngineOwns
      <4> QED BY <2>1, <3>1, <4>1, <4>2
    <3>2. CASE handle'[e] # handle[e]
      <4>1. handle'[e] = s /\ u = e
        BY <1>3, <2>2, <3>2, UsersFacts
      <4> QED BY <2>1, <4>1, UsersFacts
    <3> QED BY <3>1, <3>2
  <2>5. BlitOwns'
    <3>1. CASE handle'[Blit] = handle[Blit] /\ blit_pio' = blit_pio
      <4>1. handle[Blit] # None => handle[Blit] \in SMs
        BY <2>2, UsersFacts
      <4> QED BY <2>1, <2>2, <3>1, <4>1, UsersFacts DEF BlitOwns
    <3>2. CASE ~(handle'[Blit] = handle[Blit] /\ blit_pio' = blit_pio)
      <4>1. u = Blit /\ handle'[Blit] = s /\ blit_pio' = b
        BY <1>3, <2>2, <3>2, UsersFacts
      <4> QED BY <2>1, <4>1 DEF BlitOwns
    <3> QED BY <3>1, <3>2
  <2> QED BY <1>1, <2>1, <2>3, <2>4, <2>5
<1>4. ASSUME Panic PROVE IInv'
  BY <1>2, <1>4 DEF Panic
<1>5. ASSUME NEW e \in Engaged, InitEngine(e, b) PROVE IInv'
  BY <1>3, <1>4, <1>5, UsersFacts DEF InitEngine
<1>6. CASE Ws2812Init(b)
  BY <1>3, <1>4, <1>6, UsersFacts DEF Ws2812Init
<1>7. ASSUME NEW s \in SMs, Claim(b, s) PROVE IInv'
  <2>1. UNCHANGED <<handle, blit_pio, tx, halted>> /\ halted \in BOOLEAN
    BY <1>7 DEF Claim, Types
  <2> QED BY <1>2, <1>3, <1>7, <2>1, UsersFacts DEF Claim
<1> QED BY <1>5, <1>6, <1>7

\* The user's channels.
LEMMA ChannelStep ==
  ASSUME IInv, DmaClaim \/ DmaUnclaim
  PROVE  IInv'
<1> USE DEF IInv
<1>1. job = NoJob /\ UNCHANGED <<claimed, handle, blit_pio, tx, job, halted, owner, disturbed>>
  BY DEF DmaClaim, DmaUnclaim, Idle
<1>2. channels' \subseteq Channels /\ lent' \subseteq Channels /\ channels' = lent'
  BY <1>1 DEF DmaClaim, DmaUnclaim, Types, JobChannel, IsLeast
<1> QED
  BY <1>1, <1>2
  DEF Types, Given, JobHolds, OwnJob, EngineOwns, BlitOwns, JobChannel, OwnWords, MayHold

\* Meddling is recorded where it happens.
LEMMA DisturbEffect ==
  ASSUME Types, NEW b \in Blocks, NEW s \in SMs, NEW u, Disturb(b, s, u)
  PROVE  /\ disturbed' \in [Blocks -> [SMs -> BOOLEAN]]
         /\ owner[b][s] \in Engaged /\ ~disturbed'[b][s] => owner[b][s] = u
         /\ \A c \in Blocks, r \in SMs : disturbed[c][r] => disturbed'[c][r]
         /\ \A c \in Blocks, r \in SMs : c # b \/ r # s => disturbed'[c][r] = disturbed[c][r]
<1> DEFINE d == disturbed[b][s] \/ owner[b][s] \in Engaged \ {u}
<1>1. d \in BOOLEAN /\ disturbed \in [Blocks -> [SMs -> BOOLEAN]]
  BY DEF Types
<1>2. disturbed' = [disturbed EXCEPT ![b][s] = d]
  BY DEF Disturb
<1>3. (disturbed[b][s] => d) /\ (owner[b][s] \in Engaged /\ ~d => owner[b][s] = u)
  OBVIOUS
<1> HIDE DEF d
<1>4. /\ disturbed' \in [Blocks -> [SMs -> BOOLEAN]] /\ disturbed'[b][s] = d
      /\ \A c \in Blocks, r \in SMs : c # b \/ r # s => disturbed'[c][r] = disturbed[c][r]
  BY <1>1, <1>2
<1>5. \A c \in Blocks, r \in SMs : disturbed[c][r] => disturbed'[c][r]
  <2> TAKE c \in Blocks, r \in SMs
  <2>1. CASE c = b /\ r = s  BY <1>3, <1>4, <2>1, Zenon
  <2>2. CASE c # b \/ r # s  BY <1>4, <2>2, Zenon
  <2> QED BY <2>1, <2>2
<1> QED BY <1>3, <1>4, <1>5, Zenon

\* A call begins.
LEMMA CallStep ==
  ASSUME IInv,
         \/ \E e \in Engines : Push(e)
         \/ \E b \in Blocks, s \in SMs : Ws2812Put(b, s)
         \/ \E rows \in 0 .. MaxRows : FillRect(rows)
  PROVE  IInv'
<1> USE DEF IInv
<1>1. ASSUME NEW u \in Users, NEW b \in Blocks, NEW s \in SMs, NEW rows \in Int,
             job = NoJob, job' = Job(u, b, s, rows), MayHold(b, s, u),
             disturbed' \in [Blocks -> [SMs -> BOOLEAN]],
             owner[b][s] \in Engaged /\ ~disturbed'[b][s] => owner[b][s] = u,
             UNCHANGED <<claimed, handle, blit_pio, channels, tx, halted, owner, lent>>
      PROVE  IInv'
  <2>1. job' \in Jobs /\ job' # NoJob /\ job'.channel = None
        /\ job'.user = u /\ job'.block = b /\ job'.sm = s
    BY <1>1, NoJobFacts DEF Job, Jobs
  <2>2. Types'
    BY <1>1, <2>1 DEF Types
  <2>3. OwnJob' /\ JobChannel' /\ JobHolds'
    BY <1>1, <2>1 DEF OwnJob, JobChannel, JobHolds, MayHold
  <2> QED BY <1>1, <2>2, <2>3 DEF Given, EngineOwns, BlitOwns, OwnWords, MayHold
<1>2. ASSUME NEW e \in Engines, Push(e) PROVE IInv'
  <2> DEFINE b == BlockOf(handle[e])
             s == handle[e] % 4
  <2>1. handle[e] \in SMs
    BY <1>2 DEF Push, Types
  <2>2. handle[e] \in 0 .. 3
    BY <2>1, PioAssumption
  <2>3. b \in Blocks /\ s \in SMs /\ b = 0 /\ s = handle[e]
    BY <2>1, <2>2, UsersFacts DEF BlockOf
  <2>4. job = NoJob /\ job' = Job(e, b, s, 1) /\ Disturb(b, s, e)
        /\ UNCHANGED <<claimed, handle, blit_pio, channels, tx, halted, owner, lent>>
    BY <1>2 DEF Push, Idle, hardware
  <2>5. MayHold(b, s, e)
    BY <1>2, <2>3 DEF Push, EngineOwns, MayHold
  <2> HIDE DEF b, s
  <2> QED BY <1>1, <2>3, <2>4, <2>5, DisturbEffect, UsersFacts
<1>3. ASSUME NEW b \in Blocks, NEW s \in SMs, Ws2812Put(b, s) PROVE IInv'
  <2>1. job = NoJob /\ job' = Job(User, b, s, 1) /\ Disturb(b, s, User)
        /\ UNCHANGED <<claimed, handle, blit_pio, channels, tx, halted, owner, lent>>
    BY <1>3 DEF Ws2812Put, Idle, hardware
  <2>2. MayHold(b, s, User)
    BY DEF MayHold
  <2> QED BY <1>1, <2>1, <2>2, DisturbEffect, UsersFacts
<1>4. ASSUME NEW rows \in 0 .. MaxRows, FillRect(rows) PROVE IInv'
  <2>1. handle[Blit] \in SMs /\ owner[blit_pio][handle[Blit]] = Blit /\ blit_pio \in Blocks
    BY <1>4 DEF FillRect, Types, BlitOwns
  <2>2. MayHold(blit_pio, handle[Blit], Blit)
    BY <2>1 DEF MayHold
  <2>3. /\ job = NoJob /\ job' = Job(Blit, blit_pio, handle[Blit], rows)
        /\ UNCHANGED <<claimed, handle, blit_pio, channels, tx, halted, owner, lent, disturbed>>
    BY <1>4 DEF FillRect, Idle, hardware, history
  <2>4. disturbed' \in [Blocks -> [SMs -> BOOLEAN]]
    BY <2>3 DEF Types
  <2> QED BY <1>1, <2>1, <2>2, <2>3, <2>4, UsersFacts
<1> QED BY <1>2, <1>3, <1>4

\* The job's next group, the end of a group, and the end of the call.
LEMMA GroupStep ==
  ASSUME IInv, Group \/ DmaDone \/ CallReturns
  PROVE  IInv'
<1> USE DEF IInv
<1>1. job \in Jobs /\ job # NoJob /\ job.user \in Users
  BY DEF Group, DmaDone, CallReturns, Types, Jobs
<1>2. UNCHANGED <<claimed, handle, blit_pio, tx, halted, owner, lent, disturbed>>
  BY DEF Group, DmaDone, CallReturns, hardware, history
<1>3. ASSUME job' \in Jobs, job' # NoJob, job'.user = job.user, job'.block = job.block,
             job'.sm = job.sm, channels' \subseteq Channels, JobChannel'
      PROVE  IInv'
  <2>1. JobHolds' /\ OwnJob'
    BY <1>1, <1>2, <1>3 DEF JobHolds, OwnJob, MayHold
  <2> QED BY <1>2, <1>3, <2>1 DEF Types, Given, EngineOwns, BlitOwns, OwnWords, MayHold
<1>4. CASE Group
  <2> DEFINE next == [job EXCEPT !.left = Parts[job.user], !.rows = @ - 1]
  <2>0. Parts[job.user] \in Int /\ job.rows - 1 \in Int /\ job.channel = None
    <3>1. Parts[job.user] \in Int
      BY <1>1, UsersFacts
    <3>2. job.rows - 1 \in Int
      BY <1>1 DEF Jobs
    <3>3. job.channel = None
      BY <1>4 DEF Group
    <3> QED BY <3>1, <3>2, <3>3
  <2>1. next \in Jobs /\ next.user = job.user /\ next.block = job.block /\ next.sm = job.sm
        /\ next.channel = None
    <3>1. next = [job EXCEPT !.left = Parts[job.user], !.rows = job.rows - 1]
      BY <1>1 DEF Jobs
    <3> HIDE DEF next
    <3> QED BY <1>1, <2>0, <3>1 DEF Jobs
  <2>2. CASE job' = next /\ UNCHANGED channels
    BY <1>1, <1>2, <1>3, <1>4, <2>1, <2>2, NoJobFacts DEF Types, JobChannel, Group
  <2>3. ASSUME NEW c \in Channels, IsLeast(c, Channels \ channels),
               channels' = channels \union {c}, job' = [next EXCEPT !.channel = c]
        PROVE  IInv'
    <3>1. job' \in Jobs /\ job'.user = job.user /\ job'.block = job.block /\ job'.sm = job.sm
          /\ job'.channel = c
      BY <2>1, <2>3 DEF Jobs
    <3>2. channels = lent /\ c \notin lent /\ c # None
      BY <1>4, <2>3, UsersFacts DEF Group, JobChannel, IsLeast
    <3> QED BY <1>1, <1>2, <1>3, <2>3, <3>1, <3>2, NoJobFacts DEF Types, JobChannel
  <2> QED BY <1>4, <2>2, <2>3 DEF Group
<1>5. CASE DmaDone
  <2>1. job' = [job EXCEPT !.channel = None] /\ channels' = channels \ {job.channel}
        /\ job.channel # None
    BY <1>5 DEF DmaDone
  <2>2. job' \in Jobs /\ job'.user = job.user /\ job'.block = job.block /\ job'.sm = job.sm
        /\ job'.channel = None
    BY <1>1, <2>1 DEF Jobs
  <2>3. channels' = lent
    BY <1>1, <2>1 DEF JobChannel
  <2> QED BY <1>1, <1>2, <1>3, <2>1, <2>2, <2>3, NoJobFacts DEF Types, JobChannel
<1>6. CASE CallReturns
  <2>1. job' = NoJob /\ job.channel = None /\ UNCHANGED channels
    BY <1>6 DEF CallReturns, hardware
  <2> QED
    BY <1>1, <1>2, <2>1
    DEF Types, Given, JobHolds, OwnJob, EngineOwns, BlitOwns, JobChannel, OwnWords, MayHold
<1> QED BY <1>4, <1>5, <1>6

\* Words: of a job, or of the user.
LEMMA WordStep ==
  ASSUME IInv,
         CpuWord \/ DmaWord \/ \E b \in Blocks, s \in SMs : Put(b, s)
  PROVE  IInv'
<1> USE DEF IInv
<1>1. UNCHANGED <<claimed, channels, handle, blit_pio, halted, owner, lent>>
  BY DEF CpuWord, DmaWord, Put, history
<1>2. ASSUME job' \in Jobs \union {NoJob}, JobHolds', OwnJob', JobChannel',
             disturbed' \in [Blocks -> [SMs -> BOOLEAN]],
             tx' \in [Blocks -> [SMs -> Seq(Words)]], OwnWords'
      PROVE  IInv'
  BY <1>1, <1>2 DEF Types, Given, EngineOwns, BlitOwns
<1>3. CASE CpuWord \/ DmaWord
  <2>1. job \in Jobs /\ job # NoJob
    BY <1>3 DEF CpuWord, DmaWord, Types
  <2>2. job' = [job EXCEPT !.left = @ - 1]
    BY <1>3 DEF CpuWord, DmaWord
  <2>3. job' \in Jobs /\ job'.user = job.user /\ job'.block = job.block /\ job'.sm = job.sm
        /\ job'.channel = job.channel
    BY <2>1, <2>2 DEF Jobs
  <2>4. job.block \in Blocks /\ job.sm \in SMs /\ job.user \in Users
    BY <2>1 DEF Jobs
  <2>5. /\ disturbed' \in [Blocks -> [SMs -> BOOLEAN]]
        /\ ~disturbed'[job.block][job.sm] => ~disturbed[job.block][job.sm]
    <3>1. \/ disturbed' = disturbed
          \/ disturbed' = [disturbed EXCEPT ![job.block][job.sm] = TRUE]
      BY <1>3 DEF CpuWord, DmaWord, history
    <3>2. disturbed \in [Blocks -> [SMs -> BOOLEAN]]
      BY DEF Types
    <3>3. CASE disturbed' = disturbed
      BY <3>2, <3>3
    <3>4. CASE disturbed' = [disturbed EXCEPT ![job.block][job.sm] = TRUE]
      BY <2>4, <3>2, <3>4
    <3> QED BY <3>1, <3>3, <3>4
  <2>6. JobHolds' /\ OwnJob' /\ JobChannel'
    <3>1. JobHolds'
      BY <1>1, <2>1, <2>3 DEF JobHolds, MayHold
    <3>2. OwnJob'
      BY <1>1, <2>1, <2>3, <2>5 DEF OwnJob
    <3>3. JobChannel'
      BY <1>1, <2>1, <2>3, NoJobFacts DEF JobChannel
    <3> QED BY <3>1, <3>2, <3>3
  <2>7. Word \in Words /\ Word.from = job.user
    BY <2>1, <2>4, UsersFacts DEF Word, Words, Jobs
  <2>8. CASE Append1(job.block, job.sm, Word)
    <3>1. MayHold(job.block, job.sm, Word.from)
      BY <2>1, <2>7 DEF JobHolds
    <3>2. OwnWords'
      BY <1>1, <2>4, <2>7, <2>8, <3>1, AppendOwn
    <3>3. tx' \in [Blocks -> [SMs -> Seq(Words)]]
      BY <2>4, <2>7, <2>8, AppendEffect
    <3> QED BY <1>2, <2>3, <2>5, <2>6, <3>2, <3>3
  <2>9. CASE UNCHANGED tx
    BY <1>1, <1>2, <2>3, <2>5, <2>6, <2>9 DEF Types, OwnWords, MayHold
  <2> QED BY <1>3, <2>8, <2>9 DEF CpuWord, DmaWord
<1>4. ASSUME NEW b \in Blocks, NEW s \in SMs, Put(b, s) PROVE IInv'
  <2> DEFINE w == [from |-> User, part |-> 1]
  <2>1. w \in Words /\ MayHold(b, s, w.from) /\ job = NoJob /\ UNCHANGED job
    BY <1>4, UsersFacts DEF Put, Words, MayHold, Idle
  <2>2. Append1(b, s, w) \/ UNCHANGED tx
    BY <1>4 DEF Put
  <2> HIDE DEF w
  <2>3. OwnWords' /\ tx' \in [Blocks -> [SMs -> Seq(Words)]]
    <3>1. CASE Append1(b, s, w)
      BY <1>1, <2>1, <3>1, AppendOwn, AppendEffect
    <3>2. CASE UNCHANGED tx
      BY <1>1, <3>2 DEF Types, OwnWords, MayHold
    <3> QED BY <2>2, <3>1, <3>2
  <2>4. disturbed' \in [Blocks -> [SMs -> BOOLEAN]]
    BY <1>4, DisturbEffect DEF Put
  <2> QED BY <1>1, <1>2, <2>1, <2>3, <2>4 DEF JobHolds, OwnJob, JobChannel
<1> QED BY <1>3, <1>4

\* Words leave a FIFO: the oldest, or all.
LEMMA LeaveStep ==
  ASSUME IInv, NEW b \in Blocks, NEW s \in SMs, Take(b, s) \/ ClearFifos(b, s)
  PROVE  IInv'
<1> USE DEF IInv
<1>1. UNCHANGED <<claimed, channels, handle, blit_pio, job, halted, owner, lent>>
  BY DEF Take, ClearFifos
<1>2. PICK q \in Seq(Words) :
        /\ tx' = [tx EXCEPT ![b][s] = q]
        /\ \A i \in DOMAIN q : \E k \in DOMAIN tx[b][s] : q[i] = tx[b][s][k]
  <2>1. CASE ClearFifos(b, s)
    <3>1. <<>> \in Seq(Words) /\ DOMAIN <<>> = {}
      OBVIOUS
    <3> QED BY <2>1, <3>1 DEF ClearFifos, Empty
  <2>2. CASE Take(b, s)
    <3>1. tx[b][s] \in Seq(Words) /\ tx[b][s] # <<>>
      BY <2>2 DEF Take, Types
    <3>2. Tail(tx[b][s]) \in Seq(Words)
          /\ \A i \in DOMAIN Tail(tx[b][s]) :
               i + 1 \in DOMAIN tx[b][s] /\ Tail(tx[b][s])[i] = tx[b][s][i + 1]
      BY <3>1
    <3>3. tx' = [tx EXCEPT ![b][s] = Tail(tx[b][s])]
      BY <2>2 DEF Take
    <3> QED BY <3>2, <3>3
  <2> QED BY <2>1, <2>2
<1>3. /\ tx' \in [Blocks -> [SMs -> Seq(Words)]] /\ tx'[b][s] = q
      /\ \A c \in Blocks, r \in SMs : c # b \/ r # s => tx'[c][r] = tx[c][r]
  BY <1>2 DEF Types
<1>4. OwnWords'
  <2>1. \A c \in Blocks, r \in SMs : \A i \in DOMAIN tx'[c][r] : MayHold(c, r, tx'[c][r][i].from)
    BY <1>2, <1>3 DEF OwnWords
  <2> QED BY <1>1, <2>1 DEF OwnWords, MayHold
<1>5. /\ disturbed' \in [Blocks -> [SMs -> BOOLEAN]]
      /\ disturbed' = disturbed \/ job = NoJob
  <2>1. CASE Take(b, s)
    BY <2>1 DEF Take, Types
  <2>2. CASE ClearFifos(b, s)
    BY <2>2, DisturbEffect DEF ClearFifos, Idle
  <2> QED BY <2>1, <2>2
<1>6. JobHolds' /\ OwnJob'
  BY <1>1, <1>5 DEF JobHolds, OwnJob, MayHold
<1> QED BY <1>1, <1>3, <1>4, <1>5, <1>6 DEF Types, Given, EngineOwns, BlitOwns, JobChannel

LEMMA ResetStep ==
  ASSUME Reset
  PROVE  IInv'
<1>1. <<>> \in Seq(Words)
  OBVIOUS
<1>2. Types'
  BY <1>1, UsersFacts DEF Reset, Types, PerSM
<1>3. Given' /\ JobHolds' /\ OwnJob' /\ EngineOwns' /\ BlitOwns' /\ JobChannel' /\ OwnWords'
  BY UsersFacts
  DEF Reset, Given, JobHolds, OwnJob, EngineOwns, BlitOwns, JobChannel, OwnWords, PerSM
<1> QED BY <1>2, <1>3 DEF IInv

LEMMA NextIInv == IInv /\ [Next]_vars => IInv'
<1> SUFFICES ASSUME IInv, [Next]_vars PROVE IInv'
  OBVIOUS
<1>1. CASE UNCHANGED vars
  BY <1>1
  DEF vars, IInv, Types, Given, JobHolds, OwnJob, EngineOwns, BlitOwns, JobChannel, OwnWords, MayHold
<1>2. CASE Next
  BY <1>2, ClaimStep, ChannelStep, CallStep, GroupStep, WordStep, LeaveStep, ResetStep DEF Next
<1> QED BY <1>1, <1>2

LEMMA InvariantHolds == Spec => []IInv
BY InitIInv, NextIInv, PTL DEF Spec

(* A FIFO holds the words of its owner, those a line of the user put there *)
(* by number, and in block 0 those of the engine that has the state        *)
(* machine of the same number in block 1; nothing else, in whatever order  *)
(* state machines are claimed, engines initialised again, calls made and   *)
(* words taken.                                                            *)
THEOREM FifosAreOwned == Spec => []OwnWords
<1>1. IInv => OwnWords
  BY DEF IInv
<1> QED BY <1>1, InvariantHolds, PTL

(* Between calls no state machine and no DMA channel is claimed but those  *)
(* that were given to someone: failed claims and blits give theirs back.   *)
THEOREM ClaimsAreGiven == Spec => []NothingKept
<1>1. IInv => NothingKept
  BY DEF IInv, NothingKept, Given, JobChannel, Idle
<1> QED BY <1>1, InvariantHolds, PTL

-----------------------------------------------------------------------------
(* Remainders.                                                             *)

LEMMA ModAdd ==
  ASSUME NEW p \in Nat \ {0}, NEW x \in Int, NEW k \in Nat, (x % p) + k < p
  PROVE  (x + k) % p = (x % p) + k
OBVIOUS

LEMMA ModRound ==
  ASSUME NEW p \in Nat \ {0}, NEW x \in Int
  PROVE  (x + p) % p = x % p
<1>1. x % p \in 0 .. p - 1  OBVIOUS
<1>2. PICK q \in Int : x = p * q + (x % p)
  <2>1. x = p * (x \div p) + (x % p) /\ x \div p \in Int  OBVIOUS
  <2>. QED  BY <2>1
<1>3. \A y \in Int, r \in 0 .. p - 1 : (p * y + r) % p = r  OBVIOUS
<1>4. p * (q + 1) = p * q + p  OBVIOUS
<1>5. PICK z \in Int : z = p * q  OBVIOUS
<1>6. x + p = p * (q + 1) + (x % p)  BY <1>1, <1>2, <1>4, <1>5
<1>. QED  BY <1>1, <1>3, <1>6

LEMMA ModNext ==
  ASSUME NEW p \in Nat \ {0}, NEW x \in Int
  PROVE  (x + 1) % p = IF x % p = p - 1 THEN 0 ELSE (x % p) + 1
<1>1. x % p \in 0 .. p - 1  OBVIOUS
<1>2. CASE x % p # p - 1
  <2>1. (x % p) + 1 < p  BY <1>1, <1>2
  <2>. QED  BY <1>2, <2>1, ModAdd
<1>3. CASE x % p = p - 1
  <2>1. PICK q \in Int : x = p * q + (x % p)
    <3>1. x = p * (x \div p) + (x % p) /\ x \div p \in Int  OBVIOUS
    <3>. QED  BY <3>1
  <2>2. \A y \in Int, r \in 0 .. p - 1 : (p * y + r) % p = r  OBVIOUS
  <2>3. p * (q + 1) = p * q + p  OBVIOUS
  <2>4. PICK z \in Int : z = p * q  OBVIOUS
  <2>5. x + 1 = p * (q + 1) + 0  BY <1>3, <2>1, <2>3, <2>4
  <2>. QED  BY <1>3, <2>2, <2>5
<1>. QED  BY <1>2, <1>3

-----------------------------------------------------------------------------
(* Groups of words.                                                        *)

\* What a FIFO holds, after n words were taken from it and with l words of a
\* group of p still to come, is whole groups in order.
WholeAt(q, n, p, l) ==
  /\ \A i \in 1 .. Len(q) : q[i].part = 1 + ((n + i - 1) % p)
  /\ (n + Len(q)) % p = IF l = 0 THEN 0 ELSE p - l

LEMMA WholeEmpty ==
  ASSUME NEW p \in Nat \ {0}
  PROVE  WholeAt(<<>>, 0, p, 0)
<1>1. Len(<<>>) = 0 /\ 1 .. 0 = {} /\ (0 + 0) % p = 0  OBVIOUS
<1>. QED  BY <1>1 DEF WholeAt

\* A group that begins ends nothing else.
LEMMA WholeBegin ==
  ASSUME NEW p \in Nat \ {0}, NEW q \in Seq(Words), NEW n \in Nat, WholeAt(q, n, p, 0)
  PROVE  WholeAt(q, n, p, p)
BY DEF WholeAt

\* The next word of a group.
LEMMA WholeAppend ==
  ASSUME NEW p \in Nat \ {0}, NEW q \in Seq(Words), NEW n \in Nat, NEW l \in 1 .. p,
         NEW w \in Words, w.part = p - l + 1, WholeAt(q, n, p, l)
  PROVE  WholeAt(Append(q, w), n, p, l - 1)
<1> DEFINE m == Len(q)
           r == Append(q, w)
<1>1. m \in Nat /\ Len(r) = m + 1 /\ r[m + 1] = w /\ \A i \in 1 .. m : r[i] = q[i]
  BY LenProperties, AppendProperties
<1> HIDE DEF r
<1>2. (n + m) % p = p - l /\ \A i \in 1 .. m : q[i].part = 1 + ((n + i - 1) % p)
  BY DEF WholeAt
<1> HIDE DEF m
<1>3. n + m \in Int /\ n + (m + 1) = (n + m) + 1 /\ n + (m + 1) - 1 = n + m  BY <1>1
<1>4. ((n + m) + 1) % p = IF (n + m) % p = p - 1 THEN 0 ELSE ((n + m) % p) + 1
  BY <1>3, ModNext
<1>5. (n + (m + 1)) % p = IF l - 1 = 0 THEN 0 ELSE p - (l - 1)  BY <1>2, <1>3, <1>4
<1>6. \A i \in 1 .. m + 1 : r[i].part = 1 + ((n + i - 1) % p)
  <2> TAKE i \in 1 .. m + 1
  <2>1. CASE i = m + 1
    <3>1. (n + i - 1) % p = p - l  BY <1>2, <1>3, <2>1
    <3>. QED  BY <1>1, <2>1, <3>1
  <2>2. CASE i \in 1 .. m  BY <1>1, <1>2, <2>2
  <2>. QED  BY <1>1, <2>1, <2>2
<1>. QED  BY <1>1, <1>5, <1>6 DEF WholeAt, r

\* A word that is taken.
LEMMA WholeTake ==
  ASSUME NEW p \in Nat \ {0}, NEW q \in Seq(Words), q # <<>>, NEW n \in 0 .. p - 1,
         NEW l \in 0 .. p, WholeAt(q, n, p, l)
  PROVE  WholeAt(Tail(q), (n + 1) % p, p, l)
<1> DEFINE m == Len(q)
           r == Tail(q)
           k == (n + 1) % p
<1>1. m \in Nat \ {0} /\ Len(r) = m - 1 /\ \A i \in 1 .. m - 1 : r[i] = q[i + 1]
  BY LenProperties, EmptySeq, HeadTailProperties
<1> HIDE DEF r
<1>2. /\ (n + m) % p = IF l = 0 THEN 0 ELSE p - l
      /\ \A i \in 1 .. m : q[i].part = 1 + ((n + i - 1) % p)
  BY DEF WholeAt
<1> HIDE DEF m
<1>3. n % p = n  OBVIOUS
<1>4. k = IF n = p - 1 THEN 0 ELSE n + 1
  <2>1. n \in Int  OBVIOUS
  <2>2. (n + 1) % p = IF n % p = p - 1 THEN 0 ELSE (n % p) + 1  BY <2>1, ModNext, Zenon
  <2>. QED  BY <1>3, <2>2
<1> HIDE DEF k
<1>5. \A j \in Nat : (k + j) % p = (n + 1 + j) % p
  <2> TAKE j \in Nat
  <2>1. CASE n = p - 1
    <3>1. k + j = j /\ n + 1 + j = j + p  BY <1>4, <2>1
    <3>2. j \in Int  OBVIOUS
    <3>3. (j + p) % p = j % p  BY <3>2, ModRound, Zenon
    <3>. QED  BY <3>1, <3>3
  <2>2. CASE n # p - 1  BY <1>4, <2>2
  <2>. QED  BY <2>1, <2>2
<1>6. (k + (m - 1)) % p = (n + m) % p
  <2>1. m - 1 \in Nat /\ n + 1 + (m - 1) = n + m  BY <1>1
  <2>. QED  BY <1>5, <2>1
<1>7. \A i \in 1 .. m - 1 : r[i].part = 1 + ((k + i - 1) % p)
  <2> TAKE i \in 1 .. m - 1
  <2>1. /\ i - 1 \in Nat /\ i + 1 \in 1 .. m /\ k \in Nat
        /\ k + (i - 1) = k + i - 1 /\ n + 1 + (i - 1) = n + (i + 1) - 1
    BY <1>1, <1>4
  <2>2. (k + i - 1) % p = (n + (i + 1) - 1) % p  BY <1>5, <2>1
  <2>3. r[i].part = 1 + ((n + (i + 1) - 1) % p)  BY <1>1, <1>2, <2>1
  <2>. QED  BY <2>2, <2>3
<1>. QED  BY <1>1, <1>2, <1>6, <1>7 DEF WholeAt, r, k

-----------------------------------------------------------------------------
(* The second invariant.                                                   *)

\* The words a call still has to put into state machine s of block b.
LeftOf(j, b, s) == IF j # NoJob /\ j.block = b /\ j.sm = s THEN j.left ELSE 0

\* A state machine has taken less than a group; one that was never given, nothing.
TakenOk ==
  /\ taken \in [Blocks -> [SMs -> Nat]]
  /\ \A b \in Blocks, s \in SMs : taken[b][s] < GroupOf(owner[b][s])

\* A job has at most a group to put.
JobOk == job # NoJob => job.left \in 0 .. Parts[job.user]

Whole ==
  \A b \in Blocks, s \in SMs : owner[b][s] \in Engaged /\ ~disturbed[b][s] =>
    WholeAt(tx[b][s], taken[b][s], Parts[owner[b][s]], LeftOf(job, b, s))

WInv == TakenOk /\ JobOk /\ Whole

LEMMA PartsFacts ==
  /\ \A u \in Users : Parts[u] \in Nat \ {0}
  /\ Engaged \subseteq Users /\ User \notin Engaged /\ Nobody \notin Engaged /\ Blit \in Engaged
  /\ GroupOf(Nobody) = 1 /\ \A u \in Users : GroupOf(u) = Parts[u]
BY PioAssumption DEF Users, Engaged, Nobody, GroupOf

LEMMA WInvInit == Init => WInv
<1> SUFFICES ASSUME Init PROVE WInv  OBVIOUS
<1>1. /\ taken \in [Blocks -> [SMs -> Nat]] /\ job = NoJob
      /\ \A b \in Blocks, s \in SMs : owner[b][s] = Nobody /\ taken[b][s] = 0
  BY DEF Init, PerSM
<1>. QED  BY <1>1, PartsFacts DEF WInv, TakenOk, JobOk, Whole

\* A step that touches no FIFO and leaves each call what it had left.
LEMMA WholeQuiet ==
  ASSUME WInv, tx' = tx, taken' = taken, owner' = owner, JobOk',
         \A b \in Blocks, s \in SMs : disturbed[b][s] => disturbed'[b][s],
         \A b \in Blocks, s \in SMs : LeftOf(job', b, s) = LeftOf(job, b, s)
  PROVE  WInv'
<1>1. TakenOk'  BY DEF WInv, TakenOk, GroupOf
<1>2. Whole'
  <2> SUFFICES ASSUME NEW b \in Blocks, NEW s \in SMs, owner[b][s] \in Engaged, ~disturbed'[b][s]
               PROVE  WholeAt(tx[b][s], taken[b][s], Parts[owner[b][s]], LeftOf(job', b, s))
    BY DEF Whole
  <2>. QED  BY DEF WInv, Whole
<1>. QED  BY <1>1, <1>2 DEF WInv

\* A state machine that is given starts with nothing taken, and an engine's with an
\* empty FIFO.
LEMMA WholeGive ==
  ASSUME IInv, WInv, job = NoJob, job' = NoJob, NEW b \in Blocks, NEW s \in SMs, NEW u \in Users,
         IsLeast(s, Unused(b)), Give(b, s, u), Empty(b, s) \/ (u \notin Engaged /\ tx' = tx),
         UNCHANGED <<taken, disturbed>>
  PROVE  WInv'
<1>1. Types /\ Given  BY DEF IInv
<1>2. owner[b][s] = Nobody  BY <1>1 DEF IsLeast, Unused, Given
<1>3. /\ owner'[b][s] = u
      /\ \A c \in Blocks, r \in SMs : c # b \/ r # s => owner'[c][r] = owner[c][r]
  BY <1>1 DEF Give, Types
<1>4. Parts[u] \in Nat \ {0} /\ GroupOf(u) = Parts[u]  BY PartsFacts
<1>5. taken[b][s] = 0
  <2>1. taken[b][s] \in Nat /\ taken[b][s] < 1  BY <1>2, PartsFacts DEF WInv, TakenOk
  <2>. QED  BY <2>1
<1>6. TakenOk'
  <2>1. \A c \in Blocks, r \in SMs : taken[c][r] < GroupOf(owner'[c][r])
    <3> TAKE c \in Blocks, r \in SMs
    <3>1. CASE c = b /\ r = s  BY <1>3, <1>4, <1>5, <3>1
    <3>2. CASE c # b \/ r # s
      <4>1. owner'[c][r] = owner[c][r]  BY <1>3, <3>2
      <4>. QED  BY <4>1 DEF WInv, TakenOk
    <3>. QED  BY <3>1, <3>2
  <2>. QED  BY <2>1 DEF WInv, TakenOk, GroupOf
<1>7. Whole'
  <2> SUFFICES ASSUME NEW c \in Blocks, NEW r \in SMs, owner'[c][r] \in Engaged, ~disturbed[c][r]
               PROVE  WholeAt(tx'[c][r], taken[c][r], Parts[owner'[c][r]], LeftOf(job', c, r))
    BY DEF Whole
  <2>1. LeftOf(job', c, r) = 0 /\ LeftOf(job, c, r) = 0  BY DEF LeftOf
  <2>2. CASE c = b /\ r = s
    <3>1. tx'[b][s] = <<>>  BY <1>1, <1>3, <2>2 DEF Empty, Types
    <3>. QED  BY <1>3, <1>4, <1>5, <2>1, <2>2, <3>1, WholeEmpty
  <2>3. CASE c # b \/ r # s
    <3>1. owner'[c][r] = owner[c][r] /\ tx'[c][r] = tx[c][r]
      BY <1>1, <1>3, <2>3 DEF Empty, Types
    <3>. QED  BY <2>1, <3>1 DEF WInv, Whole
  <2>. QED  BY <2>2, <2>3
<1>8. JobOk'  BY DEF JobOk
<1>. QED  BY <1>6, <1>7, <1>8 DEF WInv

LEMMA WholeClaim ==
  ASSUME IInv, WInv, NEW b \in Blocks,
         \/ \E e \in Engaged : InitEngine(e, b)
         \/ Ws2812Init(b)
         \/ \E s \in SMs : Claim(b, s)
  PROVE  WInv'
<1>1. job = NoJob /\ job' = NoJob /\ taken' = taken /\ disturbed' = disturbed
  BY DEF InitEngine, Ws2812Init, Claim, Idle
<1>2. CASE owner' = owner /\ tx' = tx
  <2>1. JobOk'  BY <1>1 DEF JobOk
  <2>. QED  BY <1>1, <1>2, <2>1, WholeQuiet
<1>3. ASSUME NEW u \in Users, NEW s \in SMs, IsLeast(s, Unused(b)), Give(b, s, u),
             Empty(b, s) \/ (u \notin Engaged /\ tx' = tx)
      PROVE  WInv'
  BY <1>1, <1>3, WholeGive
<1>4. ASSUME NEW e \in Engaged, InitEngine(e, b) PROVE WInv'
  BY <1>2, <1>3, <1>4, PartsFacts DEF InitEngine, Panic
<1>5. CASE Ws2812Init(b)  BY <1>2, <1>3, <1>5, UsersFacts DEF Ws2812Init, Panic
<1>6. CASE \E s \in SMs : Claim(b, s)  BY <1>2, <1>3, <1>6, UsersFacts DEF Claim
<1>. QED  BY <1>4, <1>5, <1>6

\* The user's channels, a call that begins, and one that returns.
LEMMA WholeCall ==
  ASSUME IInv, WInv,
         \/ DmaClaim \/ DmaUnclaim \/ DmaDone \/ CallReturns \/ UNCHANGED vars
         \/ \E e \in Engines : Push(e)
         \/ \E b \in Blocks, s \in SMs : Ws2812Put(b, s)
         \/ \E rows \in 0 .. MaxRows : FillRect(rows)
  PROVE  WInv'
<1>1. tx' = tx /\ taken' = taken /\ owner' = owner
  BY DEF DmaClaim, DmaUnclaim, DmaDone, CallReturns, vars, Push, Ws2812Put, FillRect,
         hardware, history
<1>2. \A b \in Blocks, s \in SMs : disturbed[b][s] => disturbed'[b][s]
  <2>1. CASE disturbed' = disturbed  BY <2>1
  <2>2. ASSUME NEW b, NEW s, NEW u, Disturb(b, s, u)
        PROVE  \A c \in Blocks, r \in SMs : disturbed[c][r] => disturbed'[c][r]
    <3> DEFINE d == disturbed[b][s] \/ owner[b][s] \in Engaged \ {u}
    <3>1. disturbed' = [disturbed EXCEPT ![b][s] = d]  BY <2>2 DEF Disturb
    <3>2. disturbed[b][s] => d  OBVIOUS
    <3>3. disturbed \in [Blocks -> [SMs -> BOOLEAN]]  BY DEF IInv, Types
    <3> HIDE DEF d
    <3> TAKE c \in Blocks, r \in SMs
    <3>4. CASE c = b /\ r = s
      <4>1. disturbed'[c][r] = d  BY <3>1, <3>3, <3>4
      <4>. QED  BY <3>2, <3>4, <4>1, Zenon
    <3>5. CASE c # b \/ r # s
      <4>1. disturbed'[c][r] = disturbed[c][r]  BY <3>1, <3>3, <3>5
      <4>. QED  BY <4>1, Zenon
    <3>. QED  BY <3>4, <3>5
  <2>3. ASSUME NEW e \in Engines, Push(e)
        PROVE  Disturb(BlockOf(handle[e]), handle[e] % 4, e)
    BY <2>3 DEF Push
  <2>4. ASSUME NEW b \in Blocks, NEW s \in SMs, Ws2812Put(b, s) PROVE Disturb(b, s, User)
    BY <2>4 DEF Ws2812Put
  <2>5. ASSUME NEW rows \in 0 .. MaxRows, FillRect(rows) PROVE disturbed' = disturbed
    BY <2>5 DEF FillRect, history
  <2>6. CASE DmaClaim \/ DmaUnclaim \/ DmaDone \/ CallReturns \/ UNCHANGED vars
    BY <2>1, <2>6 DEF DmaClaim, DmaUnclaim, DmaDone, CallReturns, vars, history
  <2>. QED  BY <2>1, <2>2, <2>3, <2>4, <2>5, <2>6
<1>3. ASSUME JobOk', \A b \in Blocks, s \in SMs : LeftOf(job', b, s) = LeftOf(job, b, s)
      PROVE  WInv'
  BY <1>1, <1>2, <1>3, WholeQuiet
<1>4. CASE job' = job
  <2>1. JobOk'  BY <1>1, <1>4 DEF WInv, JobOk
  <2>. QED  BY <1>3, <1>4, <2>1
<1>5. ASSUME NEW u \in Users, NEW b \in Blocks, NEW s \in SMs, NEW rows \in Int,
             job = NoJob, job' = Job(u, b, s, rows)
      PROVE  WInv'
  <2>1. job'.left = 0 /\ job'.channel = None /\ job'.user = u  BY <1>5 DEF Job
  <2>2. JobOk'  BY <2>1, PartsFacts DEF JobOk
  <2>3. \A c \in Blocks, r \in SMs : LeftOf(job', c, r) = LeftOf(job, c, r)
    BY <1>5, <2>1 DEF LeftOf
  <2>. QED  BY <1>3, <2>2, <2>3
<1>6. CASE DmaClaim \/ DmaUnclaim \/ UNCHANGED vars
  BY <1>4, <1>6 DEF DmaClaim, DmaUnclaim, vars
<1>7. CASE DmaDone
  <2>1. job \in Jobs /\ job # NoJob  BY <1>7 DEF DmaDone, IInv, Types
  <2>2. job' = [job EXCEPT !.channel = None]  BY <1>7 DEF DmaDone
  <2>3. /\ job' # NoJob /\ job'.left = job.left /\ job'.user = job.user /\ job'.block = job.block
        /\ job'.sm = job.sm /\ job'.channel = None
    <3>1. job' \in Jobs  BY <2>1, <2>2 DEF Jobs
    <3>2. job' # NoJob  BY <3>1, NoJobFacts
    <3>. QED  BY <2>1, <2>2, <3>2 DEF Jobs
  <2>4. JobOk'  BY <2>1, <2>3 DEF WInv, JobOk
  <2>5. \A c \in Blocks, r \in SMs : LeftOf(job', c, r) = LeftOf(job, c, r)
    BY <2>1, <2>3 DEF LeftOf
  <2>. QED  BY <1>3, <2>4, <2>5
<1>8. CASE CallReturns
  <2>1. job' = NoJob /\ job.left = 0  BY <1>8 DEF CallReturns
  <2>2. JobOk'  BY <2>1 DEF JobOk
  <2>3. \A c \in Blocks, r \in SMs : LeftOf(job', c, r) = LeftOf(job, c, r)
    BY <2>1 DEF LeftOf
  <2>. QED  BY <1>3, <2>2, <2>3
<1>9. ASSUME NEW e \in Engines, Push(e) PROVE WInv'
  <2> DEFINE b == BlockOf(handle[e])
             s == handle[e] % 4
  <2>1. handle[e] \in SMs  BY <1>9 DEF Push, IInv, Types
  <2>2. handle[e] \in 0 .. 3  BY <2>1, PioAssumption
  <2>3. b \in Blocks /\ s \in SMs  BY <2>1, <2>2, UsersFacts DEF BlockOf
  <2>4. job = NoJob /\ job' = Job(e, b, s, 1)  BY <1>9 DEF Push, Idle
  <2> HIDE DEF b, s
  <2>. QED  BY <1>5, <2>3, <2>4, UsersFacts
<1>10. ASSUME NEW b \in Blocks, NEW s \in SMs, Ws2812Put(b, s) PROVE WInv'
  BY <1>5, <1>10, UsersFacts DEF Ws2812Put, Idle
<1>11. ASSUME NEW rows \in 0 .. MaxRows, FillRect(rows) PROVE WInv'
  <2>1. handle[Blit] \in SMs /\ blit_pio \in Blocks  BY <1>11 DEF FillRect, IInv, Types
  <2>. QED  BY <1>5, <1>11, <2>1, UsersFacts DEF FillRect, Idle
<1>. QED  BY <1>6, <1>7, <1>8, <1>9, <1>10, <1>11

\* The next group: its words are the next ones the state machine is owed.
LEMMA WholeGroup ==
  ASSUME IInv, WInv, Group
  PROVE  WInv'
<1>1. job \in Jobs /\ job # NoJob /\ job.left = 0 /\ job.channel = None
      /\ job.user \in Users /\ job.block \in Blocks /\ job.sm \in SMs
  BY DEF Group, IInv, Types, Jobs
<1>2. tx' = tx /\ taken' = taken /\ owner' = owner /\ disturbed' = disturbed
  BY DEF Group, history
<1>3. Parts[job.user] \in Nat \ {0} /\ job.rows - 1 \in Int
  BY <1>1, PartsFacts DEF Jobs
<1> DEFINE next == [job EXCEPT !.left = Parts[job.user], !.rows = job.rows - 1]
<1>4. /\ next \in Jobs /\ next.left = Parts[job.user] /\ next.user = job.user
      /\ next.block = job.block /\ next.sm = job.sm /\ next.channel = None
  <2>1. PICK q \in Int : q = Parts[job.user]  BY <1>3
  <2>2. PICK k \in Int : k = job.rows - 1  BY <1>3
  <2>3. next = [job EXCEPT !.left = q, !.rows = k]  BY <2>1, <2>2
  <2> HIDE DEF next
  <2>. QED  BY <1>1, <2>1, <2>3 DEF Jobs
<1>5. job' = next \/ \E c \in Channels : job' = [next EXCEPT !.channel = c]
  <2>1. next = [job EXCEPT !.left = Parts[job.user], !.rows = @ - 1]  BY <1>1 DEF Jobs
  <2> HIDE DEF next
  <2>. QED  BY <2>1 DEF Group
<1> HIDE DEF next
<1>6. /\ job' \in Jobs /\ job'.left = Parts[job.user] /\ job'.user = job.user
      /\ job'.block = job.block /\ job'.sm = job.sm
  BY <1>4, <1>5 DEF Jobs
<1>7. JobOk'  BY <1>3, <1>6 DEF JobOk
<1>8. TakenOk'  BY <1>2 DEF WInv, TakenOk, GroupOf
<1>9. Whole'
  <2> SUFFICES ASSUME NEW b \in Blocks, NEW s \in SMs, owner[b][s] \in Engaged, ~disturbed[b][s]
               PROVE  WholeAt(tx[b][s], taken[b][s], Parts[owner[b][s]], LeftOf(job', b, s))
    BY <1>2 DEF Whole
  <2>1. WholeAt(tx[b][s], taken[b][s], Parts[owner[b][s]], LeftOf(job, b, s))
    BY DEF WInv, Whole
  <2>2. CASE b = job.block /\ s = job.sm
    <3>1. owner[b][s] = job.user  BY <1>1, <2>2 DEF IInv, OwnJob
    <3>2. LeftOf(job, b, s) = 0 /\ LeftOf(job', b, s) = Parts[job.user]
      BY <1>1, <1>6, <2>2, NoJobFacts DEF LeftOf
    <3>3. tx[b][s] \in Seq(Words) /\ taken[b][s] \in Nat  BY DEF IInv, Types, WInv, TakenOk
    <3>. QED  BY <1>3, <2>1, <3>1, <3>2, <3>3, WholeBegin
  <2>3. CASE b # job.block \/ s # job.sm
    <3>1. LeftOf(job, b, s) = LeftOf(job', b, s)  BY <1>1, <1>6, <2>3 DEF LeftOf
    <3>. QED  BY <2>1, <3>1
  <2>. QED  BY <2>2, <2>3
<1>. QED  BY <1>7, <1>8, <1>9 DEF WInv

\* A word of a call is put, or the state machine that lost it is disturbed.
LEMMA WholeWord ==
  ASSUME IInv, WInv, CpuWord \/ DmaWord
  PROVE  WInv'
<1>1. /\ job \in Jobs /\ job # NoJob /\ job.left > 0
      /\ job.user \in Users /\ job.block \in Blocks /\ job.sm \in SMs
      /\ job' = [job EXCEPT !.left = job.left - 1]
      /\ taken' = taken /\ owner' = owner
  BY DEF CpuWord, DmaWord, IInv, Types, Jobs, history
<1>2. /\ job' \in Jobs /\ job' # NoJob /\ job'.left = job.left - 1 /\ job'.user = job.user
      /\ job'.block = job.block /\ job'.sm = job.sm /\ job'.channel = job.channel
  <2>1. job.left - 1 \in Int  BY <1>1 DEF Jobs
  <2>2. job' \in Jobs  BY <1>1, <2>1 DEF Jobs
  <2>. QED  BY <1>1, <2>2, NoJobFacts DEF Jobs
<1>3. Parts[job.user] \in Nat \ {0} /\ job.left \in 1 .. Parts[job.user]
  BY <1>1, PartsFacts DEF WInv, JobOk
<1>4. JobOk'
  <2>1. job.left - 1 \in 0 .. Parts[job.user]  BY <1>3
  <2>. QED  BY <1>1, <1>2, <2>1 DEF WInv, JobOk
<1>5. TakenOk'  BY <1>1 DEF WInv, TakenOk, GroupOf
<1>6. Word \in Words /\ Word.part = Parts[job.user] - job.left + 1
  BY <1>1, <1>3 DEF Word, Words
<1>7. Whole'
  <2>0. \/ Append1(job.block, job.sm, Word) /\ disturbed' = disturbed
        \/ tx' = tx /\ disturbed' = [disturbed EXCEPT ![job.block][job.sm] = TRUE]
    BY DEF CpuWord, DmaWord, history
  <2>1. disturbed \in [Blocks -> [SMs -> BOOLEAN]]  BY DEF IInv, Types
  <2> SUFFICES ASSUME NEW b \in Blocks, NEW s \in SMs, owner[b][s] \in Engaged, ~disturbed'[b][s]
               PROVE  WholeAt(tx'[b][s], taken[b][s], Parts[owner[b][s]], LeftOf(job', b, s))
    BY <1>1 DEF Whole
  <2>2. ~disturbed[b][s]  BY <2>0, <2>1, <1>1
  <2>3. WholeAt(tx[b][s], taken[b][s], Parts[owner[b][s]], LeftOf(job, b, s))
    BY <2>2 DEF WInv, Whole
  <2>4. CASE b = job.block /\ s = job.sm
    <3>1. Append1(job.block, job.sm, Word)  BY <1>1, <2>0, <2>1, <2>4
    <3>2. tx'[b][s] = Append(tx[b][s], Word)
      BY <1>1, <1>6, <2>4, <3>1, AppendEffect DEF IInv
    <3>3. owner[b][s] = job.user  BY <1>1, <2>2, <2>4 DEF IInv, OwnJob
    <3>4. LeftOf(job, b, s) = job.left /\ LeftOf(job', b, s) = job.left - 1
      BY <1>1, <1>2, <2>4 DEF LeftOf
    <3>5. tx[b][s] \in Seq(Words) /\ taken[b][s] \in Nat  BY DEF IInv, Types, WInv, TakenOk
    <3>6. WholeAt(tx[b][s], taken[b][s], Parts[job.user], job.left)  BY <2>3, <3>3, <3>4
    <3>7. WholeAt(Append(tx[b][s], Word), taken[b][s], Parts[job.user], job.left - 1)
      BY <1>3, <1>6, <3>5, <3>6, WholeAppend
    <3>. QED  BY <3>2, <3>3, <3>4, <3>7
  <2>5. CASE b # job.block \/ s # job.sm
    <3>1. LeftOf(job, b, s) = LeftOf(job', b, s)  BY <1>1, <1>2, <2>5 DEF LeftOf
    <3>2. tx'[b][s] = tx[b][s]
      BY <1>1, <1>6, <2>0, <2>5, AppendEffect DEF IInv
    <3>. QED  BY <2>3, <3>1, <3>2
  <2>. QED  BY <2>4, <2>5
<1>. QED  BY <1>4, <1>5, <1>7 DEF WInv

\* What the user puts and clears by number disturbs whoever has the state machine.
LEMMA WholeUser ==
  ASSUME IInv, WInv, NEW b \in Blocks, NEW s \in SMs, Put(b, s) \/ ClearFifos(b, s)
  PROVE  WInv'
<1>1. /\ job' = job /\ job = NoJob /\ taken' = taken /\ owner' = owner
      /\ Disturb(b, s, User)
  BY DEF Put, ClearFifos, Idle
<1>2. \A c \in Blocks, r \in SMs : c # b \/ r # s => tx'[c][r] = tx[c][r]
  BY DEF Put, ClearFifos, Append1, Empty, IInv, Types
<1>3. Whole'
  <2> SUFFICES ASSUME NEW c \in Blocks, NEW r \in SMs, owner[c][r] \in Engaged, ~disturbed'[c][r]
               PROVE  WholeAt(tx'[c][r], taken[c][r], Parts[owner[c][r]], LeftOf(job, c, r))
    BY <1>1 DEF Whole
  <2>1. c # b \/ r # s  BY <1>1, PartsFacts, DisturbEffect DEF IInv
  <2>2. tx'[c][r] = tx[c][r] /\ ~disturbed[c][r]  BY <1>1, <1>2, <2>1, DisturbEffect DEF IInv
  <2>. QED  BY <2>2 DEF WInv, Whole
<1>4. TakenOk' /\ JobOk'  BY <1>1 DEF WInv, TakenOk, JobOk, GroupOf
<1>. QED  BY <1>3, <1>4 DEF WInv

\* A state machine takes the word it is owed next.
LEMMA WholeTaken ==
  ASSUME IInv, WInv, NEW b \in Blocks, NEW s \in SMs, Take(b, s)
  PROVE  WInv'
<1>1. /\ job' = job /\ owner' = owner /\ disturbed' = disturbed /\ tx[b][s] # <<>>
      /\ tx' = [tx EXCEPT ![b][s] = Tail(tx[b][s])]
      /\ taken' = [taken EXCEPT ![b][s] = (taken[b][s] + 1) % GroupOf(owner[b][s])]
  BY DEF Take
<1> DEFINE p == GroupOf(owner[b][s])
           n == taken[b][s]
<1>2. owner[b][s] \in Users \union {Nobody}
  BY DEF IInv, Types
<1>3. p \in Nat \ {0} /\ n \in 0 .. p - 1
  <2>1. p \in Nat \ {0}  BY <1>2, PartsFacts
  <2>2. n \in Nat /\ n < p  BY DEF WInv, TakenOk
  <2> HIDE DEF n, p
  <2>. QED  BY <2>1, <2>2
<1>4. (n + 1) % p \in 0 .. p - 1  BY <1>3
<1>5. taken \in [Blocks -> [SMs -> Nat]]  BY DEF WInv, TakenOk
<1>6. /\ taken' \in [Blocks -> [SMs -> Nat]] /\ taken'[b][s] = (n + 1) % p
      /\ \A c \in Blocks, r \in SMs : c # b \/ r # s => taken'[c][r] = taken[c][r]
  <2>1. (n + 1) % p \in Nat  BY <1>4
  <2> HIDE DEF n, p
  <2>2. taken' = [taken EXCEPT ![b][s] = (n + 1) % p]  BY <1>1 DEF n, p
  <2>. QED  BY <1>5, <2>1, <2>2
<1>7. /\ tx'[b][s] = Tail(tx[b][s])
      /\ \A c \in Blocks, r \in SMs : c # b \/ r # s => tx'[c][r] = tx[c][r]
  BY <1>1 DEF IInv, Types
<1>8. TakenOk'
  <2>1. \A c \in Blocks, r \in SMs : taken'[c][r] < GroupOf(owner[c][r])
    <3> TAKE c \in Blocks, r \in SMs
    <3>1. CASE c = b /\ r = s
      <4>1. taken'[c][r] \in 0 .. p - 1 /\ GroupOf(owner[c][r]) = p  BY <1>4, <1>6, <3>1
      <4> HIDE DEF p
      <4>. QED  BY <1>3, <4>1
    <3>2. CASE c # b \/ r # s
      <4>1. taken'[c][r] = taken[c][r]  BY <1>6, <3>2
      <4>. QED  BY <4>1 DEF WInv, TakenOk
    <3>. QED  BY <3>1, <3>2
  <2>. QED  BY <1>1, <1>6, <2>1 DEF TakenOk, GroupOf
<1>9. Whole'
  <2> SUFFICES ASSUME NEW c \in Blocks, NEW r \in SMs, owner[c][r] \in Engaged, ~disturbed[c][r]
               PROVE  WholeAt(tx'[c][r], taken'[c][r], Parts[owner[c][r]], LeftOf(job, c, r))
    BY <1>1 DEF Whole
  <2>1. WholeAt(tx[c][r], taken[c][r], Parts[owner[c][r]], LeftOf(job, c, r))
    BY DEF WInv, Whole
  <2>2. CASE c = b /\ r = s
    <3> DEFINE l == LeftOf(job, b, s)
    <3>0. p = Parts[owner[b][s]]  BY <2>2, PartsFacts
    <3>1. l \in 0 .. p
      <4>1. CASE job # NoJob /\ job.block = b /\ job.sm = s
        <5>1. owner[b][s] = job.user  BY <2>2, <4>1 DEF IInv, OwnJob
        <5>2. l = job.left  BY <4>1 DEF LeftOf
        <5>. QED  BY <3>0, <4>1, <5>1, <5>2 DEF WInv, JobOk
      <4>2. CASE ~(job # NoJob /\ job.block = b /\ job.sm = s)
        BY <1>3, <4>2 DEF LeftOf
      <4>. QED  BY <4>1, <4>2
    <3>2. tx[b][s] \in Seq(Words)  BY DEF IInv, Types
    <3>3. WholeAt(tx[b][s], n, p, l)  BY <2>1, <2>2, <3>0
    <3> HIDE DEF l, n, p
    <3>4. WholeAt(Tail(tx[b][s]), (n + 1) % p, p, l)
      BY <1>1, <1>3, <3>1, <3>2, <3>3, WholeTake
    <3>. QED  BY <1>6, <1>7, <2>2, <3>0, <3>4 DEF l, n, p
  <2>3. CASE c # b \/ r # s
    <3>1. tx'[c][r] = tx[c][r] /\ taken'[c][r] = taken[c][r]  BY <1>6, <1>7, <2>3
    <3>. QED  BY <2>1, <3>1
  <2>. QED  BY <2>2, <2>3
<1>10. JobOk'  BY <1>1 DEF WInv, JobOk
<1>. QED  BY <1>8, <1>9, <1>10 DEF WInv

LEMMA WholeReset ==
  ASSUME Reset
  PROVE  WInv'
<1>1. /\ taken' \in [Blocks -> [SMs -> Nat]] /\ job' = NoJob
      /\ \A b \in Blocks, s \in SMs : owner'[b][s] = Nobody /\ taken'[b][s] = 0
  BY DEF Reset, PerSM
<1>. QED  BY <1>1, PartsFacts DEF WInv, TakenOk, JobOk, Whole

LEMMA WInvStep == IInv /\ WInv /\ [Next]_vars => WInv'
<1> SUFFICES ASSUME IInv, WInv, [Next]_vars PROVE WInv'  OBVIOUS
<1>1. CASE UNCHANGED vars  BY <1>1, WholeCall
<1>2. CASE Next
  BY <1>2, WholeClaim, WholeCall, WholeGroup, WholeWord, WholeUser, WholeTaken, WholeReset
  DEF Next
<1>. QED  BY <1>1, <1>2

\* The words still to be put continue the FIFO's.
LEMMA WholeGoesOn ==
  ASSUME NEW p \in Nat \ {0}, NEW q \in Seq(Words), NEW n \in Nat, NEW l \in 0 .. p,
         WholeAt(q, n, p, l), NEW r \in Seq(Words), Len(r) = l,
         \A i \in 1 .. l : r[i].part = p - l + i
  PROVE  /\ \A i \in DOMAIN (q \o r) : (q \o r)[i].part = 1 + ((n + i - 1) % p)
         /\ (n + Len(q \o r)) % p = 0
<1> DEFINE m == Len(q)
           w == q \o r
<1>1. /\ m \in Nat /\ Len(w) = m + l /\ DOMAIN w = 1 .. m + l
      /\ \A i \in 1 .. m : w[i] = q[i]
      /\ \A i \in 1 .. l : w[m + i] = r[i]
  <2>1. m \in Nat  BY LenProperties
  <2>2. /\ w \in Seq(Words) /\ Len(w) = m + l
        /\ \A i \in 1 .. m + l : w[i] = IF i <= m THEN q[i] ELSE r[i - m]
    BY ConcatProperties
  <2> HIDE DEF w
  <2>3. DOMAIN w = 1 .. m + l  BY <2>2, LenProperties
  <2> HIDE DEF m
  <2>4. \A i \in 1 .. m : w[i] = q[i]
    <3> TAKE i \in 1 .. m
    <3>1. i \in 1 .. m + l /\ i <= m  BY <2>1
    <3>. QED  BY ONLY <2>2, <3>1
  <2>5. \A i \in 1 .. l : w[m + i] = r[i]
    <3> TAKE i \in 1 .. l
    <3>1. m + i \in 1 .. m + l /\ ~(m + i <= m) /\ (m + i) - m = i  BY <2>1
    <3>. QED  BY <2>2, <3>1
  <2>. QED  BY <2>1, <2>2, <2>3, <2>4, <2>5
<1> HIDE DEF w
<1>2. /\ (n + m) % p = IF l = 0 THEN 0 ELSE p - l
      /\ \A i \in 1 .. m : q[i].part = 1 + ((n + i - 1) % p)
  BY DEF WholeAt
<1> HIDE DEF m
<1>3. n + m \in Int  BY <1>1
<1>4. \A k \in 0 .. l - 1 : (n + m + k) % p = p - l + k
  <2> TAKE k \in 0 .. l - 1
  <2>1. k \in Nat /\ l # 0 /\ ((n + m) % p) + k < p  BY <1>2
  <2>. QED  BY <1>2, <1>3, <2>1, ModAdd
<1>5. (n + (m + l)) % p = 0
  <2>1. CASE l = 0  BY <1>1, <1>2, <2>1
  <2>2. CASE l # 0
    <3>1. l - 1 \in 0 .. l - 1 /\ p - l + (l - 1) = p - 1  BY <2>2
    <3>2. (n + m + (l - 1)) % p = p - 1  BY <1>4, <3>1
    <3>3. PICK x \in Int : x = n + m + (l - 1)  BY <1>1
    <3>4. x + 1 = n + (m + l)  BY <1>1, <3>3
    <3>5. (x + 1) % p = IF x % p = p - 1 THEN 0 ELSE (x % p) + 1  BY ModNext, Zenon
    <3>. QED  BY <3>2, <3>3, <3>4, <3>5
  <2>. QED  BY <2>1, <2>2
<1>6. \A i \in 1 .. m + l : w[i].part = 1 + ((n + i - 1) % p)
  <2> TAKE i \in 1 .. m + l
  <2>1. CASE i \in 1 .. m  BY <1>1, <1>2, <2>1
  <2>2. CASE i \notin 1 .. m
    <3>1. PICK j \in 1 .. l : i = m + j
      <4>1. i - m \in 1 .. l /\ i = m + (i - m)  BY <1>1, <2>2
      <4>. QED  BY <4>1
    <3>2. j - 1 \in 0 .. l - 1 /\ n + m + (j - 1) = n + i - 1  BY <1>1, <3>1
    <3>3. (n + i - 1) % p = p - l + (j - 1)  BY <1>4, <3>2
    <3>4. w[i].part = p - l + j  BY <1>1, <3>1
    <3>. QED  BY <3>3, <3>4
  <2>. QED  BY <2>1, <2>2
<1>. QED  BY <1>1, <1>5, <1>6 DEF w

LEMMA WInvWhole ==
  ASSUME IInv, WInv
  PROVE  WordsWhole
<1> SUFFICES ASSUME NEW b \in Blocks, NEW s \in SMs, owner[b][s] \in Engaged, ~disturbed[b][s]
             PROVE  LET words == tx[b][s] \o Pending(b, s)
                        u == owner[b][s]
                    IN  /\ \A i \in DOMAIN words :
                             words[i].part = 1 + ((taken[b][s] + i - 1) % Parts[u])
                        /\ (taken[b][s] + Len(words)) % Parts[u] = 0
  BY DEF WordsWhole
<1> DEFINE p == Parts[owner[b][s]]
           l == LeftOf(job, b, s)
           r == Pending(b, s)
<1>1. p \in Nat \ {0}  BY PartsFacts
<1>2. /\ tx[b][s] \in Seq(Words) /\ taken[b][s] \in Nat
      /\ WholeAt(tx[b][s], taken[b][s], p, l)
  BY DEF IInv, Types, WInv, TakenOk, Whole
<1>3. l \in 0 .. p /\ r \in Seq(Words) /\ Len(r) = l /\ \A i \in 1 .. l : r[i].part = p - l + i
  <2>1. CASE job # NoJob /\ job.block = b /\ job.sm = s
    <3>1. owner[b][s] = job.user /\ job.user \in Users /\ job.left \in 0 .. p
      BY <2>1 DEF IInv, Types, Jobs, OwnJob, WInv, JobOk
    <3>2. l = job.left  BY <2>1 DEF LeftOf
    <3>3. r = [i \in 1 .. l |-> [from |-> job.user, part |-> p - l + i]]
      BY <2>1, <3>1, <3>2 DEF Pending
    <3> HIDE DEF l, p, r
    <3>4. \A i \in 1 .. l : [from |-> job.user, part |-> p - l + i] \in Words
      BY <1>1, <3>1, <3>2 DEF Words
    <3>. QED  BY <1>1, <3>1, <3>2, <3>3, <3>4
  <2>2. CASE ~(job # NoJob /\ job.block = b /\ job.sm = s)
    <3>1. l = 0 /\ r = <<>>  BY <2>2 DEF LeftOf, Pending
    <3> HIDE DEF l, p, r
    <3>2. <<>> \in Seq(Words) /\ Len(<<>>) = 0  OBVIOUS
    <3>. QED  BY <1>1, <3>1, <3>2
  <2>. QED  BY <2>1, <2>2
<1> HIDE DEF l, p, r
<1> DEFINE q == tx[b][s]
           n == taken[b][s]
<1>4. q \in Seq(Words) /\ n \in Nat /\ WholeAt(q, n, p, l)  BY <1>2
<1> HIDE DEF q, n
<1>5. /\ \A i \in DOMAIN (q \o r) : (q \o r)[i].part = 1 + ((n + i - 1) % p)
      /\ (n + Len(q \o r)) % p = 0
  BY ONLY <1>1, <1>3, <1>4, WholeGoesOn
<1>. QED  BY <1>5 DEF p, r, q, n

(* In a state machine of an engine or of the blitter that nobody else has  *)
(* meddled with, no word of a group is lost, doubled or moved: what it     *)
(* took, what waits in its FIFO and what the call in progress will still   *)
(* put are whole groups, for any depth of the FIFO and any number of words *)
(* in a group.                                                             *)
THEOREM GroupsStayWhole == Spec => []WordsWhole
<1>1. IInv /\ WInv => WordsWhole  BY WInvWhole
<1>. QED  BY <1>1, InvariantHolds, WInvInit, WInvStep, PTL DEF Spec
=============================================================================
