-------------------------------- MODULE Repl --------------------------------
(***************************************************************************)
(* The on-device Sage REPL, core/sage_bridge.h: its prompt modes, the      *)
(* multi-line buffer, the program commands, and the variables it writes to *)
(* the flash store when it is left and reads back when it is entered.      *)
(*                                                                         *)
(* Programs and variables share the keys of one store.  The store is       *)
(* reduced to the log of its active sector (FlashStore models the rest):   *)
(* a put appends, a lookup finds the first entry of a key, and a put that  *)
(* does not fit keeps the entries below the reserved page and appends.     *)
(* A reset falls between two puts; inside one it is FlashStore's.          *)
(*                                                                         *)
(* A line is typed as a whole.  A text is a sequence of lines and its      *)
(* length in bytes; expressions are reduced to the binding they make.      *)
(***************************************************************************)
EXTENDS Naturals, Sequences

CONSTANTS
  Names,        \* identifiers and program names
  ApiKeys,      \* the keys an expression passes to flash_save and flash_del
  LongNames,    \* those of more than 63 bytes: program names only
  Lines,        \* the texts of one line, values among them
  LineLen,      \* the length of each line, at most 250
  Typed,        \* the lines a user types into a program
  ColonLines,   \* the lines that end with a colon
  Binds,        \* Binds[l]: the variable and value line l sets, or NoBinding
  NoBinding,
  Literals,     \* the values an expression can have
  OtherText,    \* "[type=n]", what is persisted for any other type
  ClippedText,  \* a text longer than valbuf, cut to its size
  BufSize,      \* sizeof(multiline_buf), 2048
  ValBuf,       \* sizeof(valbuf), 64
  MaxValLen,    \* 255, the longest value the store accepts
  KeysMax,      \* 64, the keys flash_store_keys lists
  LogCap        \* entries that fit below the reserved page of a sector

Text(lines, len) == [lines |-> lines, len |-> len]

EmptyText == Text(<<>>, 0)

\* The length of the lines ls, joined by newlines: of its first n lines.
LenTo(ls) ==
  LET upTo[n \in 0 .. Len(ls)] ==
        IF n = 0 THEN 0 ELSE upTo[n - 1] + LineLen[ls[n]] + (IF n > 1 THEN 1 ELSE 0)
  IN  upTo

JoinedLen(ls) == LenTo(ls)[Len(ls)]

TextType == {t \in [lines : Seq(Lines), len : Nat] : t.len = JoinedLen(t.lines)}

\* A number is formatted into valbuf.
ValueType ==
  {v \in [type : {"number", "bool", "string", "other"}, text : TextType] :
     v.type \in {"number", "bool"} => v.text.len < ValBuf}

VarType == [key : Names \ LongNames, val : ValueType]

ASSUME ReplAssumption ==
  /\ ApiKeys \subseteq Names
  /\ LongNames \subseteq Names /\ ColonLines \subseteq Typed /\ Typed \subseteq Lines
  /\ LineLen \in [Lines -> Nat \ {0}]
  /\ {BufSize, ValBuf, MaxValLen, KeysMax, LogCap} \subseteq Nat \ {0}
  /\ MaxValLen < BufSize - 1 /\ ValBuf <= MaxValLen
  /\ \A l \in ColonLines : LineLen[l] < BufSize - 1

\* What an expression can evaluate to, and the texts made from it.
ASSUME ValueAssumption ==
  /\ Literals \subseteq ValueType
  /\ \A l \in Lines : Binds[l] = NoBinding \/ Binds[l] \in VarType
  /\ {OtherText, ClippedText} \subseteq TextType
  /\ OtherText.len < ValBuf /\ ClippedText.len = ValBuf - 1

VARIABLES
  mode,          \* "off", "prompt", or the loop that is running
  in_multiline,
  buf,           \* multiline_buf, as lines
  ml_len,
  vars,          \* sage_repl_vars: <<[key, val], ...>> in insertion order
  next,          \* i of the loops that restore and persist variables
  program,       \* run: the lines left to evaluate
  log            \* the store: <<[key, text], ...>>

repl == <<mode, in_multiline, buf, ml_len, vars, next, program>>
all  == <<repl, log>>

-----------------------------------------------------------------------------
(* The dictionary of the Sage runtime. *)

DictSet(d, k, v) ==
  IF \E i \in DOMAIN d : d[i].key = k
  THEN [i \in DOMAIN d |-> IF d[i].key = k THEN [key |-> k, val |-> v] ELSE d[i]]
  ELSE Append(d, [key |-> k, val |-> v])

DictKeys(d) == {d[i].key : i \in DOMAIN d}

DictGet(d, k) == d[CHOOSE i \in DOMAIN d : d[i].key = k].val

-----------------------------------------------------------------------------
(* The flash store. *)

Stored(k) == \E i \in DOMAIN log : log[i].key = k

FirstEntry(k) ==
  CHOOSE i \in DOMAIN log : log[i].key = k /\ \A j \in DOMAIN log : log[j].key = k => i <= j

Lookup(k) == log[FirstEntry(k)].text

\* Mutant: the length of the key is not looked at.
StorableMutant(k, t) == t.len <= MaxValLen

Storable(k, t) == k \notin LongNames /\ t.len <= MaxValLen

\* Mutant: a compaction leaves out the first entry.
KeptMutant ==
  IF Len(log) < LogCap THEN log ELSE SubSeq(log, 2, LogCap)

Kept == SubSeq(log, 1, IF Len(log) < LogCap THEN Len(log) ELSE LogCap)

\* flash_store_put: -1 for a key or value that is too long.
StorePut(k, t) ==
  log' = IF Storable(k, t) THEN Append(Kept, [key |-> k, text |-> t]) ELSE log

\* flash_store_keys: a key once for each of its entries.
Listed == [i \in 1 .. (IF Len(log) < KeysMax THEN Len(log) ELSE KeysMax) |-> log[i].key]

-----------------------------------------------------------------------------
(* Variables to text and back. *)

TextOf(v) ==
  CASE v.type = "string" -> IF v.text.len < ValBuf THEN v.text ELSE ClippedText
    [] v.type \in {"number", "bool"} -> v.text
    [] OTHER -> OtherText

StringValue(t) == [type |-> "string", text |-> t]

-----------------------------------------------------------------------------
Init ==
  /\ mode = "off" /\ in_multiline = FALSE
  /\ buf = <<>> /\ ml_len = 0
  /\ vars = <<>> /\ next = 1 /\ program = <<>>
  /\ log = <<>>

\* sage_repl is entered: at boot, or by a key typed after it was left.
Enter ==
  /\ mode = "off"
  /\ mode' = "restore" /\ in_multiline' = FALSE
  /\ buf' = <<>> /\ ml_len' = 0
  /\ vars' = <<>> /\ next' = 1
  /\ UNCHANGED <<program, log>>

\* Mutant: the value is taken from the entry that is listed.
RestoreVarMutant ==
  /\ mode = "restore" /\ next <= Len(Listed)
  /\ vars' = DictSet(vars, Listed[next], StringValue(log[next].text))
  /\ next' = next + 1
  /\ UNCHANGED <<mode, in_multiline, buf, ml_len, program, log>>

\* Every variable comes back as a string.
RestoreVar ==
  /\ mode = "restore" /\ next <= Len(Listed)
  /\ vars' = DictSet(vars, Listed[next], StringValue(Lookup(Listed[next])))
  /\ next' = next + 1
  /\ UNCHANGED <<mode, in_multiline, buf, ml_len, program, log>>

RestoreDone ==
  /\ mode = "restore" /\ next > Len(Listed)
  /\ mode' = "prompt"
  /\ UNCHANGED <<in_multiline, buf, ml_len, vars, next, program, log>>

AtPrompt == mode = "prompt" /\ ~in_multiline

InBuffer == mode = "prompt" /\ in_multiline

\* let x = expr, x = expr.
Assign(k, v) ==
  /\ AtPrompt
  /\ vars' = DictSet(vars, k, v)
  /\ UNCHANGED <<mode, in_multiline, buf, ml_len, next, program, log>>

\* flash_save and flash_del, called from an expression.
FlashSave(k, t) ==
  /\ AtPrompt
  /\ StorePut(k, t)
  /\ UNCHANGED repl

FlashDel(k) == FlashSave(k, EmptyText)

-----------------------------------------------------------------------------
(* The multi-line buffer. *)

\* A line that ends with a colon.
BeginMultiline(l) ==
  /\ AtPrompt
  /\ l \in ColonLines
  /\ in_multiline' = TRUE
  /\ buf' = <<l>> /\ ml_len' = LineLen[l]
  /\ UNCHANGED <<mode, vars, next, program, log>>

RoomFor(l) == ml_len + LineLen[l] + 2 < BufSize

\* Mutant: the newline in front of the line is written and not counted.
AddLineMutant(l) ==
  /\ InBuffer
  /\ RoomFor(l)
  /\ buf' = Append(buf, l) /\ ml_len' = ml_len + LineLen[l]
  /\ UNCHANGED <<mode, in_multiline, vars, next, program, log>>

\* A line is joined to the buffer with a newline, if there is room.
AddLine(l) ==
  /\ InBuffer
  /\ RoomFor(l)
  /\ buf' = Append(buf, l)
  /\ ml_len' = ml_len + LineLen[l] + (IF ml_len > 0 THEN 1 ELSE 0)
  /\ UNCHANGED <<mode, in_multiline, vars, next, program, log>>

\* Without room the line is dropped, and nothing says so.
DropLine(l) ==
  /\ InBuffer
  /\ ~RoomFor(l)
  /\ UNCHANGED all

\* An empty line; it is ignored while the buffer is empty.
Finish ==
  /\ InBuffer /\ ml_len > 0
  /\ in_multiline' = FALSE
  /\ UNCHANGED <<mode, buf, ml_len, vars, next, program, log>>

-----------------------------------------------------------------------------
(* The program commands. *)

\* The result of flash_store_put is not looked at.
Save(k) ==
  /\ AtPrompt
  /\ ml_len > 0
  /\ StorePut(k, Text(buf, ml_len))
  /\ buf' = <<>> /\ ml_len' = 0
  /\ UNCHANGED <<mode, in_multiline, vars, next, program>>

HasProgram(k) == Stored(k) /\ Lookup(k).len > 0

Eval(d, l) == IF Binds[l] = NoBinding THEN d ELSE DictSet(d, Binds[l].key, Binds[l].val)

\* The lines of a program, one sage_repl_eval each.
Run(k) ==
  /\ AtPrompt
  /\ HasProgram(k)
  /\ mode' = "run" /\ program' = Lookup(k).lines
  /\ UNCHANGED <<in_multiline, buf, ml_len, vars, next, log>>

RunLine ==
  /\ mode = "run" /\ program # <<>>
  /\ vars' = Eval(vars, Head(program))
  /\ program' = Tail(program)
  /\ UNCHANGED <<mode, in_multiline, buf, ml_len, next, log>>

RunDone ==
  /\ mode = "run" /\ program = <<>>
  /\ mode' = "prompt"
  /\ UNCHANGED <<in_multiline, buf, ml_len, vars, next, program, log>>

LoadBuffer(k) ==
  /\ AtPrompt
  /\ HasProgram(k) /\ Lookup(k).len < BufSize
  /\ buf' = Lookup(k).lines /\ ml_len' = Lookup(k).len

Load(k) == LoadBuffer(k) /\ UNCHANGED <<mode, in_multiline, vars, next, program, log>>

\* Mutant: edit enters the buffer whatever the store holds for the name.
EditMutant(k) ==
  /\ AtPrompt
  /\ Stored(k)
  /\ buf' = Lookup(k).lines /\ ml_len' = Lookup(k).len
  /\ in_multiline' = TRUE
  /\ UNCHANGED <<mode, vars, next, program, log>>

Edit(k) ==
  /\ LoadBuffer(k)
  /\ in_multiline' = TRUE
  /\ UNCHANGED <<mode, vars, next, program, log>>

-----------------------------------------------------------------------------
(* Leaving the REPL. *)

BeginPersist ==
  /\ mode' = "persist" /\ next' = 1
  /\ UNCHANGED <<in_multiline, buf, ml_len, vars, program, log>>

Quit == AtPrompt /\ BeginPersist

CtrlC == mode = "prompt" /\ BeginPersist

\* Mutant: the loop steps over every other variable.
PersistVarMutant ==
  /\ mode = "persist" /\ next <= Len(vars)
  /\ StorePut(vars[next].key, TextOf(vars[next].val))
  /\ next' = next + 2
  /\ UNCHANGED <<mode, in_multiline, buf, ml_len, vars, program>>

PersistVar ==
  /\ mode = "persist" /\ next <= Len(vars)
  /\ StorePut(vars[next].key, TextOf(vars[next].val))
  /\ next' = next + 1
  /\ UNCHANGED <<mode, in_multiline, buf, ml_len, vars, program>>

PersistDone ==
  /\ mode = "persist" /\ next > Len(vars)
  /\ mode' = "off"
  /\ UNCHANGED <<in_multiline, buf, ml_len, vars, next, program, log>>

\* reboot, a watchdog reset or a loss of power: RAM is lost.
Reset ==
  /\ mode' = "off" /\ in_multiline' = FALSE
  /\ buf' = <<>> /\ ml_len' = 0 /\ vars' = <<>> /\ next' = 1
  /\ program' = <<>>
  /\ UNCHANGED log

Next ==
  \/ Enter \/ RestoreVar \/ RestoreDone
  \/ RunLine \/ RunDone
  \/ Finish \/ Quit \/ CtrlC \/ PersistVar \/ PersistDone \/ Reset
  \/ \E k \in Names \ LongNames, v \in Literals : Assign(k, v)
  \/ \E k \in ApiKeys, v \in Literals : FlashSave(k, v.text)
  \/ \E k \in ApiKeys : FlashDel(k)
  \/ \E k \in Names : Save(k) \/ Run(k) \/ Load(k) \/ Edit(k)
  \/ \E l \in Typed : BeginMultiline(l) \/ AddLine(l) \/ DropLine(l)

Spec == Init /\ [][Next]_all

-----------------------------------------------------------------------------
TypeOK ==
  /\ mode \in {"off", "restore", "prompt", "run", "persist"} /\ in_multiline \in BOOLEAN
  /\ buf \in Seq(Lines) /\ ml_len \in Nat
  /\ vars \in Seq(VarType)
  /\ next \in Nat \ {0} /\ program \in Seq(Lines)
  /\ log \in Seq([key : Names \ LongNames, text : TextType])

(***************************************************************************)
(* The multi-line mode can always be left: the empty line that ends it is  *)
(* ignored while the buffer is empty, and edit and save change both the    *)
(* mode and the buffer.                                                    *)
(***************************************************************************)
FinishPossible == InBuffer => ml_len > 0

(***************************************************************************)
(* ml_len is the length of the lines in the buffer, joined by newlines,    *)
(* through begin, append, load, edit and save; and with its final zero the *)
(* text stays inside multiline_buf, typed or loaded from the store.        *)
(***************************************************************************)
BufferExact == ml_len = JoinedLen(buf) /\ ml_len < BufSize

(***************************************************************************)
(* A put touches no key but its own: once a key is in the part of the log  *)
(* a compaction keeps, no save, quit, deletion or compaction for another   *)
(* key makes it disappear or changes the text a lookup finds.  A put of    *)
(* the key itself may leave the text it had (what the code does) or give   *)
(* it the new one (what the documentation says).                           *)
(***************************************************************************)
PutsTouchTheirKey ==
  [][\A k \in Names : Stored(k) /\ FirstEntry(k) <= LogCap =>
       /\ Stored(k)'
       /\ \/ Lookup(k)' = Lookup(k)
          \/ log'[Len(log')] = [key |-> k, text |-> Lookup(k)']]_all

(***************************************************************************)
(* Entering the REPL gives each key that is listed one variable, with the  *)
(* text a lookup finds, however often the key is listed and whichever of   *)
(* its entries is reached.                                                 *)
(***************************************************************************)
ListedKeys == {Listed[i] : i \in DOMAIN Listed}

RestoreExact ==
  [][RestoreDone =>
       /\ DictKeys(vars) = ListedKeys
       /\ \A i \in DOMAIN vars : vars[i].val.text = Lookup(vars[i].key)]_all

(***************************************************************************)
(* After a quit that was not cut short every variable comes back when the  *)
(* REPL is entered again, as long as the log stays within the keys that    *)
(* are listed and the entries that are kept.                               *)
(***************************************************************************)
PersistedVarsReturn ==
  [][PersistDone /\ Len(log) <= LogCap /\ Len(log) <= KeysMax =>
       DictKeys(vars) \subseteq ListedKeys]_all
=============================================================================
