------------------------------ MODULE Sagecom ------------------------------
(***************************************************************************)
(* The serial terminal on the desktop: tools/sage/sagecom.sage and its C   *)
(* helper tools/c/sagecom_tty.c, between a person who types, the terminal  *)
(* of the desktop and a device on a serial port.                           *)
(*                                                                         *)
(* One thread loops over a read of the port, which gives up after 100 ms,  *)
(* and a read of the keyboard, which does not; what it prints of its own   *)
(* is left out.                                                            *)
(***************************************************************************)
EXTENDS Integers, Sequences, SequencesExt

CONSTANTS
  Text, CR, LF, NUL,     \* what the device sends
  CtrlA, Tilde, Dot, Q, ClearKey, Other,  \* keys; ClearKey is also R, which only prints
  Retries,    \* 20: attempts to open the port
  ReadMax,    \* 255: characters a read returns
  MaxEvents   \* bound: characters sent and keys typed, together

ASSUME SagecomAssumption ==
  /\ {Retries, ReadMax} \subseteq Nat \ {0} /\ MaxEvents \in Nat
  /\ NUL # LF

VARIABLES
  pc,         \* where the program is
  isatty,     \* the keyboard is a terminal, not a pipe
  raw,        \* the terminal is in raw mode
  saved,      \* saved_stdin_valid
  fd,         \* the port is open
  retries,
  plugged,    \* the device is there
  rx,         \* what the port has received and nobody has read
  keys,       \* what was typed and nobody has read
  eof,        \* the pipe at the keyboard was closed
  input, j,   \* the keys read last, and how many of them are done
  escape_mode,
  running,
  screen,     \* what was shown of the device's output
  written,    \* what was written to the port
  sent,       \* history: what the device sent since the port was last drained
  done        \* history: the keys that were handled

sagecomVars == <<pc, isatty, raw, saved, fd, retries, plugged, rx, keys, eof, input, j,
          escape_mode, running, screen, written, sent, done>>

terminal == <<isatty, raw, saved>>
port     == <<fd, plugged, rx, sent>>
keyboard == <<keys, eof>>
typing   == <<input, j, escape_mode, running, written, done>>

SagecomInit ==
  /\ pc = "start" /\ isatty \in BOOLEAN /\ raw = FALSE /\ saved = FALSE
  /\ fd = FALSE /\ retries = 0 /\ plugged = TRUE /\ rx = <<>> /\ sent = <<>>
  /\ keys = <<>> /\ eof = FALSE /\ input = <<>> /\ j = 0
  /\ escape_mode = FALSE /\ running = TRUE /\ screen = <<>> /\ written = <<>> /\ done = <<>>

-----------------------------------------------------------------------------
(* Opening and closing *)

\* sagecom_raw_stdin; changing the mode drops what was typed before.
RawStdin ==
  /\ pc = "start" /\ pc' = "open"
  /\ IF isatty THEN raw' = TRUE /\ saved' = TRUE /\ keys' = <<>>
               ELSE UNCHANGED <<raw, saved, keys>>
  /\ UNCHANGED <<isatty, port, retries, eof, typing, screen>>

\* sagecom_open_serial fails while the device is not there, and perhaps otherwise.
OpenSerial ==
  /\ pc = "open" /\ retries < Retries
  /\ \/ plugged /\ fd' = TRUE /\ pc' = "drain" /\ UNCHANGED retries
     \/ retries' = retries + 1 /\ UNCHANGED <<fd, pc>>
  /\ UNCHANGED <<terminal, plugged, rx, sent, keyboard, typing, screen>>

\* sagecom_restore_stdin
Restore ==
  /\ saved' = FALSE
  /\ IF saved THEN raw' = FALSE /\ keys' = <<>> ELSE UNCHANGED <<raw, keys>>

CannotOpen ==
  /\ pc = "open" /\ retries = Retries /\ pc' = "ended"
  /\ Restore
  /\ UNCHANGED <<isatty, port, retries, eof, typing, screen>>

\* The port is drained twice, half a second apart.
Drain ==
  /\ pc \in {"drain", "drain again"}
  /\ pc' = IF pc = "drain" THEN "drain again" ELSE "serial"
  /\ rx' = <<>> /\ sent' = <<>>
  /\ UNCHANGED <<terminal, fd, plugged, retries, keyboard, typing, screen>>

Cleanup ==
  /\ pc = "serial" /\ ~running /\ pc' = "ended"
  /\ fd' = FALSE /\ rx' = <<>>
  /\ Restore
  /\ UNCHANGED <<isatty, plugged, sent, retries, eof, typing, screen>>

-----------------------------------------------------------------------------
(* From the device to the screen *)

\* ICRNL: the port turns a CR into an LF before the helper could strip it.
Received(c) == IF c = CR THEN LF ELSE c

\* The string the helper returns ends at the first NUL; \n becomes \r\n.
Cooked(raw_chars) ==
  LET upto == IF NUL \in {raw_chars[i] : i \in DOMAIN raw_chars}
              THEN SubSeq(raw_chars, 1, SelectInSeq(raw_chars, LAMBDA c : c = NUL) - 1)
              ELSE raw_chars
  IN  FlattenSeq([i \in DOMAIN upto |-> IF upto[i] = LF THEN <<CR, LF>> ELSE <<upto[i]>>])

\* Mutant: an empty read is waited for.
SerialReadWaitsMutant ==
  /\ pc = "serial" /\ running /\ rx # <<>> /\ pc' = "stdin"
  /\ \E n \in 1 .. Len(rx) :
       /\ n <= ReadMax
       /\ screen' = screen \o Cooked(SubSeq(rx, 1, n))
       /\ rx' = SubSeq(rx, n + 1, Len(rx))
  /\ UNCHANGED <<terminal, fd, plugged, sent, retries, keyboard, typing>>

\* Mutant: the final zero overwrites the last character of a full buffer.
SerialReadFullMutant ==
  /\ pc = "serial" /\ running /\ pc' = "stdin"
  /\ \E n \in 0 .. Len(rx) :
       /\ n <= ReadMax /\ (n = 0 <=> rx = <<>>)
       /\ screen' = screen \o Cooked(SubSeq(rx, 1, IF n = ReadMax THEN n - 1 ELSE n))
       /\ rx' = SubSeq(rx, n + 1, Len(rx))
  /\ UNCHANGED <<terminal, fd, plugged, sent, retries, keyboard, typing>>

\* sagecom_serial_read returns what is there, and nothing after 100 ms without any.
SerialRead ==
  /\ pc = "serial" /\ running /\ pc' = "stdin"
  /\ \E n \in 0 .. Len(rx) :
       /\ n <= ReadMax /\ (n = 0 <=> rx = <<>>)
       /\ screen' = screen \o Cooked(SubSeq(rx, 1, n))
       /\ rx' = SubSeq(rx, n + 1, Len(rx))
  /\ UNCHANGED <<terminal, fd, plugged, sent, retries, keyboard, typing>>

-----------------------------------------------------------------------------
(* From the keyboard to the device *)

\* Mutant: the escape does not outlive a read.
StdinReadMutant ==
  /\ pc = "stdin" /\ pc' = "keys"
  /\ \/ \E n \in 1 .. Len(keys) :
          n <= ReadMax /\ input' = SubSeq(keys, 1, n) /\ keys' = SubSeq(keys, n + 1, Len(keys))
     \/ keys = <<>> /\ eof /\ input' = <<>> /\ UNCHANGED keys
  /\ j' = 0 /\ escape_mode' = FALSE
  /\ UNCHANGED <<terminal, port, retries, eof, running, written, done, screen>>

\* sagecom_stdin_read waits for a key; of a pipe that was closed it returns nothing.
StdinRead ==
  /\ pc = "stdin" /\ pc' = "keys"
  /\ \/ \E n \in 1 .. Len(keys) :
          n <= ReadMax /\ input' = SubSeq(keys, 1, n) /\ keys' = SubSeq(keys, n + 1, Len(keys))
     \/ keys = <<>> /\ eof /\ input' = <<>> /\ UNCHANGED keys
  /\ j' = 0
  /\ UNCHANGED <<terminal, port, retries, eof, escape_mode, running, written, done, screen>>

\* sagecom_serial_write, whose result nobody looks at.
Write(s) == written' = written \o s

Quit == running' = FALSE /\ UNCHANGED <<escape_mode, written>>

\* ~. and ~q, when a read begins with them.
TildeQuits == j = 0 /\ input[1] = Tilde /\ Len(input) > 1 /\ input[2] \in {Dot, Q}

Key ==
  /\ pc = "keys" /\ running /\ j < Len(input)
  /\ LET c == input[j + 1] IN
       /\ IF TildeQuits THEN Quit
          ELSE IF escape_mode
          THEN IF c = Q THEN running' = FALSE /\ escape_mode' = FALSE /\ UNCHANGED written
               ELSE /\ escape_mode' = FALSE /\ UNCHANGED running
                    /\ IF c = ClearKey THEN UNCHANGED written ELSE Write(<<CtrlA, c>>)
          ELSE IF c = CtrlA THEN escape_mode' = TRUE /\ UNCHANGED <<running, written>>
          ELSE Write(<<c>>) /\ UNCHANGED <<escape_mode, running>>
       /\ done' = Append(done, c)
  /\ j' = j + 1
  /\ UNCHANGED <<pc, terminal, port, retries, keyboard, input, screen>>

\* usleep, and the loop's condition; a quit leaves the rest of the input alone.
Loop ==
  /\ pc = "keys" /\ (j = Len(input) \/ ~running)
  /\ pc' = "serial"
  /\ UNCHANGED <<terminal, port, retries, keyboard, typing, screen>>

-----------------------------------------------------------------------------
(* The surroundings *)

\* The keys typed since the terminal's mode was set.
KeysTyped == Len(done) + (Len(input) - j) + Len(keys)

More == Len(sent) + KeysTyped < MaxEvents

DeviceSends(c) ==
  /\ fd /\ plugged /\ More
  /\ rx' = Append(rx, Received(c)) /\ sent' = Append(sent, c)
  /\ UNCHANGED <<pc, terminal, fd, plugged, retries, keyboard, typing, screen>>

\* The port reads as empty from now on, and the program does not notice.
Unplug ==
  /\ plugged /\ plugged' = FALSE /\ rx' = <<>>
  /\ UNCHANGED <<pc, terminal, fd, sent, retries, keyboard, typing, screen>>

Type(k) ==
  /\ pc # "ended" /\ ~eof /\ More
  /\ keys' = Append(keys, k)
  /\ UNCHANGED <<pc, terminal, port, retries, eof, typing, screen>>

CloseStdin ==
  /\ ~isatty /\ ~eof /\ eof' = TRUE
  /\ UNCHANGED <<pc, terminal, port, retries, keys, typing, screen>>

Program ==
  \/ RawStdin \/ OpenSerial \/ CannotOpen \/ Drain \/ Cleanup
  \/ SerialRead \/ StdinRead \/ Key \/ Loop

SagecomNext ==
  \/ Program
  \/ \E c \in {Text, CR, LF, NUL} : DeviceSends(c)
  \/ Unplug
  \/ \E k \in {CtrlA, Tilde, Dot, Q, ClearKey, Other} : Type(k)
  \/ CloseStdin

\* The operating system lets the program run; nobody is made to type.
SagecomSpec == SagecomInit /\ [][SagecomNext]_sagecomVars /\ WF_sagecomVars(Program)

-----------------------------------------------------------------------------
(* Properties *)

LineEnd(c) == IF c \in {CR, LF} THEN <<CR, LF>> ELSE <<c>>

LineEnds(chars) == FlattenSeq([i \in DOMAIN chars |-> LineEnd(chars[i])])

\* The same without the characters at the places in dropped.
LineEndsBut(chars, dropped) ==
  FlattenSeq([i \in DOMAIN chars |-> IF i \in dropped THEN <<>> ELSE LineEnd(chars[i])])

Returns == {i \in DOMAIN sent : sent[i] = CR}

\* Whatever the reads split it into, the screen shows all the device sent since
\* the port was drained, in order, each LF as a line end, but for what the port
\* still holds; of a NUL, and of an unplugged device, it promises nothing.  A CR
\* may be shown as a line end, as ICRNL has it, or be stripped, as the helper's
\* comment has it (sagecom.sage:92-114, sagecom_tty.c:56, 93-106).
ShownExact ==
  fd /\ plugged /\ ~Contains(sent, NUL) =>
    \E dropped \in SUBSET Returns : screen \o LineEnds(rx) = LineEndsBut(sent, dropped)

\* A key is escaped if an odd number of Ctrl+A precede it.
Escaped(i) ==
  \E n \in 1 .. i - 1 :
    /\ n % 2 = 1 /\ \A m \in i - n .. i - 1 : done[m] = CtrlA
    /\ (i - n > 1 => done[i - n - 1] # CtrlA)

Meaning(i) ==
  IF Escaped(i) THEN IF done[i] = ClearKey THEN <<>> ELSE <<CtrlA, done[i]>>
  ELSE IF done[i] = CtrlA THEN <<>>
  ELSE <<done[i]>>

\* Whatever the reads split them into, the keys handled reach the port as they
\* were typed, each Ctrl+A with the key after it, be it of another read; Ctrl+A Q
\* ends the program at once, ~. and ~q only may; and when it has ended the
\* terminal is what it was (sagecom.sage:117-160).
KeysExact ==
  LET n    == Len(done)
      sure == IF running THEN n ELSE n - 1
  IN  /\ \A i \in 1 .. sure : ~(Escaped(i) /\ done[i] = Q)
      /\ written = FlattenSeq([i \in 1 .. sure |-> Meaning(i)])
      /\ IF running THEN escape_mode = Escaped(n + 1)
                    ELSE done[n] = Tilde \/ (Escaped(n) /\ done[n] = Q)
      /\ pc = "ended" => ~raw /\ ~saved /\ ~fd

\* The program never waits for the device while there are keys: every key typed is
\* handled, unless the program ends.  When the keyboard is a pipe that was closed,
\* it waits for nothing else either: everything received is shown, unless the
\* device is unplugged (sagecom.sage:104-154, sagecom_tty.c:85-86, 97-113).
Served ==
  /\ \A n \in 1 .. MaxEvents :
       pc # "start" /\ KeysTyped >= n ~> Len(done) >= n \/ ~running \/ pc = "ended"
  /\ \A n \in 1 .. MaxEvents :
       pc \in {"serial", "stdin", "keys"} /\ eof /\ Len(sent) >= n
         ~> Len(sent) - Len(rx) >= n \/ ~plugged \/ ~running
=============================================================================
