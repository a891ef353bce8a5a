------------------------------- MODULE Clock -------------------------------
(***************************************************************************)
(* The software clock, system/rtc_bridge.h, over the microsecond timer and *)
(* the watchdog's scratch registers; and the read of the 64-bit timer in   *)
(* halves, system/lowlevel_bridge.h 87-97.                                 *)
(*                                                                         *)
(* The timer counts between calls.  A call takes no time, except for the   *)
(* read of the timer, during which it counts on.  Words are modulo         *)
(* WordMod, as those of uint32_t.                                          *)
(***************************************************************************)
EXTENDS Integers, Sequences

CONSTANTS
  WordMod,     \* 2^32
  HalfMod,     \* 2^16: a scratch register is given half a word
  Default,     \* 1770000000
  DaySecs, HourSecs, MinuteSecs,   \* 86400, 3600, 60
  YearDays, MonthDays,             \* 365 and 30, for every year and month
  FirstYear,   \* 2026
  Dates,       \* the dates a user sets: <<year, month, day, hour, minute, second>>
  Second,      \* 1000000: the timer's ticks in a second
  TimerHalf,   \* 2^32: the range of a half of the timer
  Jumps,       \* ticks that pass at once
  MaxTime, MaxResets   \* bounds

ASSUME ClockAssumption ==
  /\ {WordMod, HalfMod, DaySecs, HourSecs, MinuteSecs, YearDays, MonthDays, Second, TimerHalf}
       \subseteq Nat \ {0}
  /\ WordMod = HalfMod * HalfMod /\ Default \in 1 .. WordMod - 1
  /\ HourSecs % MinuteSecs = 0
  /\ Jumps \subseteq Nat \ {0} /\ {FirstYear, MaxTime, MaxResets} \subseteq Nat

\* sscanf reads six ints, whatever their sign.
ASSUME DatesAssumption == Dates \subseteq [1 .. 6 -> Int]

VARIABLES
  base,      \* _clock_base
  boot,      \* _clock_boot_us
  timer,     \* time_us_64: ticks since the last reset
  scratch,   \* watchdog scratch registers 6 and 7: <<hi, lo>>
  read,      \* the read of the timer in progress: what has been read, and since when
  resets,    \* counted up to MaxResets
  given,     \* history: the date clock_set was last given, in seconds, or Unset
  age,       \* history: ticks since then, resets or not
  restarted  \* history: since then, there was a reset or a clock_init

vars == <<base, boot, timer, scratch, read, resets, given, age, restarted>>

clock   == <<base, boot, scratch>>
history == <<given, age, restarted>>

Unset  == -1
NoRead == <<>>
Idle   == read = NoRead

-----------------------------------------------------------------------------
(* Dates *)

Seconds(d) ==
  ((d[1] - FirstYear) * YearDays + (d[2] - 1) * MonthDays + (d[3] - 1)) * DaySecs
  + d[4] * HourSecs + d[5] * MinuteSecs + d[6]

\* sage_clock_set computes in words and validates nothing.
SecsOf(d) == Seconds(d) % WordMod

\* Mutant: the days after the last month are shown as the first one again.
DateOfMutant(secs) ==
  LET days == secs \div DaySecs
      time == secs % DaySecs
      rest == days % YearDays
  IN  <<FirstYear + days \div YearDays,
        1 + ((rest \div MonthDays) % (YearDays \div MonthDays)), 1 + (rest % MonthDays),
        time \div HourSecs, (time % HourSecs) \div MinuteSecs, time % MinuteSecs>>

\* sage_clock_get: every month has 30 days, and what is left of the year is a 13th.
DateOf(secs) ==
  LET days == secs \div DaySecs
      time == secs % DaySecs
      rest == days % YearDays
  IN  <<FirstYear + days \div YearDays, 1 + rest \div MonthDays, 1 + (rest % MonthDays),
        time \div HourSecs, (time % HourSecs) \div MinuteSecs, time % MinuteSecs>>

-----------------------------------------------------------------------------
(* The clock *)

Init ==
  /\ base = 0 /\ boot = 0 /\ timer = 0 /\ scratch = <<0, 0>> /\ read = NoRead /\ resets = 0
  /\ given = Unset /\ age = 0 /\ restarted = FALSE

\* Mutant: restored only if both halves are set.
InitialBaseMutant ==
  IF base # 0 THEN base
  ELSE IF scratch[1] # 0 /\ scratch[2] # 0
       THEN (scratch[1] * HalfMod + (scratch[2] % HalfMod)) % WordMod
  ELSE Default

\* The base sage_clock_init leaves: kept, or else restored, or else the default.
InitialBase ==
  IF base # 0 THEN base
  ELSE IF scratch # <<0, 0>> THEN (scratch[1] * HalfMod + (scratch[2] % HalfMod)) % WordMod
  ELSE Default

Now(b, since) == (b + (timer - since) \div Second) % WordMod

\* clock_init, called by the user: the time counted so far is dropped.
ClockInit ==
  /\ Idle /\ base' = InitialBase /\ boot' = timer /\ restarted' = TRUE
  /\ UNCHANGED <<timer, scratch, read, resets, given, age>>

\* clock_get initialises a clock whose base is 0.
ClockGet ==
  /\ Idle
  /\ IF base = 0 THEN base' = InitialBase /\ boot' = timer ELSE UNCHANGED <<base, boot>>
  /\ UNCHANGED <<timer, scratch, read, resets, history>>

\* The seconds clock_get shows.
Shown == IF base = 0 THEN Now(InitialBase, timer) ELSE Now(base, boot)

\* clock_set, and the sage_clock_save of what it has set.
ClockSet(d) ==
  /\ Idle /\ base' = SecsOf(d) /\ boot' = timer
  /\ LET now == Now(SecsOf(d), timer)
     IN  scratch' = <<now \div HalfMod, now % HalfMod>>
  /\ given' = Seconds(d) /\ age' = 0 /\ restarted' = FALSE
  /\ UNCHANGED <<timer, read, resets>>

\* The command reboot: the scratch registers stay.
WatchdogReset ==
  /\ Idle /\ resets < MaxResets /\ resets' = resets + 1
  /\ base' = 0 /\ boot' = 0 /\ timer' = 0 /\ restarted' = TRUE
  /\ UNCHANGED <<scratch, read, given, age>>

PowerLoss ==
  /\ resets < MaxResets /\ resets' = resets + 1
  /\ base' = 0 /\ boot' = 0 /\ timer' = 0 /\ scratch' = <<0, 0>> /\ read' = NoRead
  /\ given' = Unset /\ age' = 0 /\ restarted' = FALSE

-----------------------------------------------------------------------------
(* The timer.  A read begins at tick read[1] and loads, one after another, *)
(* the high half, the low half, the high half again and, if that has       *)
(* changed, the low half again.                                            *)

Hi == timer \div TimerHalf
Lo == timer % TimerHalf

\* The low half of the timer wraps at most once during a read, in 71 minutes.
Elapse(n) ==
  /\ timer + n <= MaxTime /\ (~Idle => timer + n < read[1] + TimerHalf)
  /\ timer' = timer + n
  /\ age' = IF given = Unset THEN age ELSE age + n
  /\ UNCHANGED <<clock, read, resets, given, restarted>>

Load(half) == read' = Append(read, half) /\ UNCHANGED <<clock, timer, resets, history>>

ReadBegins == Idle /\ read' = <<timer>> /\ UNCHANGED <<clock, timer, resets, history>>
LoadHi1 == Len(read) = 1 /\ Load(Hi)
LoadLo  == Len(read) = 2 /\ Load(Lo)
LoadHi2 == Len(read) = 3 /\ Load(Hi)

\* Mutant: the low half is not loaded again.
LoadLoAgainMutant == Len(read) = 4 /\ Load(read[3])

LoadLoAgain == Len(read) = 4 /\ Load(IF read[2] # read[4] THEN Lo ELSE read[3])

ReadReturns == Len(read) = 5 /\ read' = NoRead /\ UNCHANGED <<clock, timer, resets, history>>

Next ==
  \/ \E n \in Jumps : Elapse(n)
  \/ ClockInit \/ ClockGet
  \/ \E d \in Dates : ClockSet(d)
  \/ WatchdogReset \/ PowerLoss
  \/ ReadBegins \/ LoadHi1 \/ LoadLo \/ LoadHi2 \/ LoadLoAgain \/ ReadReturns

Spec == Init /\ [][Next]_vars

-----------------------------------------------------------------------------
(* Properties.  Where the code is known to lose the time, they say so: a   *)
(* date whose base is 0 is taken for one that was never set                *)
(* (rtc_bridge.h:18), and after a reset or a clock_init the clock resumes  *)
(* from the date it was given, not from the time it showed.                *)

Fits(secs) == secs \in 0 .. WordMod - 1

\* Once set, the clock shows the seconds that were set and those that have
\* passed since, whatever initialisations clock_get makes; and across resets and
\* further initialisations it lies between the two, never ahead, never at the
\* default (rtc_bridge.h:16-36).
ClockKeeps ==
  given > 0 /\ Fits(given + age \div Second) =>
    /\ ~restarted => Shown = given + age \div Second
    /\ Shown \in given .. given + age \div Second

\* A date the clock can represent.
Proper(d) ==
  /\ Seconds(d) > 0 /\ Fits(Seconds(d)) /\ d[2] >= 1 /\ d[3] \in 1 .. MonthDays
  /\ d[2] <= YearDays \div MonthDays
  /\ d[4] \in 0 .. DaySecs \div HourSecs - 1
  /\ d[5] \in 0 .. HourSecs \div MinuteSecs - 1 /\ d[6] \in 0 .. MinuteSecs - 1

NotAfter(d, e) ==
  d = e \/ \E i \in 1 .. 6 : d[i] < e[i] /\ \A j \in 1 .. i - 1 : d[j] = e[j]

\* A proper date that is set is the date shown; and as time passes and the clock
\* is read, the date shown never goes back, not even from the 13th month
\* the conversion makes of a year's last days (rtc_bridge.h:46-47,63).
DatesFollow ==
  [][ /\ \A d \in Dates : ClockSet(d) /\ Proper(d) => DateOf(Shown)' = d
      /\ ClockGet \/ ((\E n \in Jumps : Elapse(n)) /\ Shown' >= Shown)
           => NotAfter(DateOf(Shown), DateOf(Shown)') ]_vars

\* What a read of the timer returns is a value the timer had while it was being
\* read, although its halves were loaded at different moments
\* (lowlevel_bridge.h:92-96).
TimerReadWhole ==
  Len(read) = 5 => read[4] * TimerHalf + read[5] \in read[1] .. timer
=============================================================================
