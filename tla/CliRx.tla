------------------------------- MODULE CliRx --------------------------------
(***************************************************************************)
(* The receive path: drivers/platform/stm32f2/uart/uart.c (the receive     *)
(* half), serial.c and middleware/cli/cli.c.  The UART interrupt collects  *)
(* bytes until the line is idle or its buffer is full, pushes them on a    *)
(* ring and posts a message to the CLI task; the task, woken, empties the  *)
(* ring, assembles lines, cuts each into words and looks up the command.   *)
(* Ring, inbox and buffer may each be full.                                *)
(* Pushing is done by the interrupt, popping byte by byte by the task      *)
(* (RingBuf justifies both as single steps on a sequence).                 *)
(* Reception begins as soon as the log or the cli task has initialised the *)
(* UART (SerialBoot), that is possibly before the cli task hears of it.    *)
(***************************************************************************)
EXTENDS SerialBoot, Sequences, SequencesExt, FiniteSets

CONSTANTS
  RxChunk,    \* UART_RX_IT_CHUNK
  RingRoom,   \* UART_RX_RING_SIZE - 1
  ReadChunk,  \* CLI_UART_RX_CHUNK
  QueueLen,   \* depth of the CLI task's inbox
  LineMax,    \* CLI_LINE_MAX
  MaxArgs,    \* max_args of cli_process_line
  TableMax,   \* CLI_CMD_TABLE_MAX
  Chars,      \* characters but blanks, NUL, CR and LF
  Earlier,    \* names registered by tasks of higher priority, which run first
  Help,       \* the name the cli task registers
  Streams     \* bound: what may arrive in a behaviour, whole or in part

(* CR and LF are both "eol", space and tab both "blank". *)
RxByte == Chars \cup {"blank", "nul", "eol"}

ASSUME SizeAssumption ==
  /\ {RxChunk, RingRoom, ReadChunk, QueueLen} \subseteq Nat \ {0}
  /\ LineMax \in Nat /\ LineMax >= 2 /\ {MaxArgs, TableMax} \subseteq Nat \ {0}
  /\ Chars \cap {"blank", "nul", "eol"} = {}
  /\ Earlier \cup {Help} \subseteq Seq(Chars) \ {<<>>}
  /\ IsFiniteSet(Earlier) /\ Cardinality(Earlier) < TableMax
  /\ Streams \subseteq Seq(RxByte)

VARIABLES
  stream,    \* what is sent to the UART
  arrived,   \* how many of its bytes arrived so far
  rxtmp,     \* g_rx_tmp: bytes received since reception was started
  ring,      \* g_rx_rb
  inbox,     \* number of CLI_OPCODE_RX messages in the CLI task's inbox
  notified,  \* the CLI task's notification count is not zero
  at,        \* where the CLI task is
  buf,       \* buf of cli_rx_handler
  line,      \* the line being assembled (static line, line_len)
  table,     \* the names in s_cmds
  done,      \* history: what cli_process_line made of each line
  accepted,  \* history: the bytes pushed on the ring
  heard      \* history: an RX_AVAILABLE reached the handler of the cli task

receiveVars == <<bootVars, stream, arrived, rxtmp, accepted, heard>>
cliVars == <<at, buf, line, table, done>>
rxVars == <<bootVars, stream, arrived, rxtmp, ring, inbox, notified, at, buf, line, table,
            done, accepted, heard>>

CliInit ==
  /\ BootInit
  /\ stream \in Streams
  /\ arrived = 0
  /\ rxtmp = <<>>
  /\ ring = <<>>
  /\ inbox = 0
  /\ notified = FALSE
  /\ at = "register"
  /\ buf = <<>>
  /\ line = <<>>
  /\ table = Earlier
  /\ done = <<>>
  /\ accepted = <<>>
  /\ heard = FALSE

-----------------------------------------------------------------------------
(* The receiver (HAL_UARTEx_ReceiveToIdle_IT, external) stores a byte.      *)
ByteArrives ==
  /\ receiving
  /\ arrived < Len(stream)
  /\ Len(rxtmp) < RxChunk
  /\ arrived' = arrived + 1
  /\ rxtmp' = Append(rxtmp, stream[arrived + 1])
  /\ UNCHANGED <<bootVars, stream, ring, inbox, notified, cliVars, accepted, heard>>

(* tm_send_from_isr: with a full inbox nothing is posted and nobody woken.  *)
PostRx ==
  IF inbox < QueueLen THEN inbox' = inbox + 1 /\ notified' = TRUE
  ELSE UNCHANGED <<inbox, notified>>

(***************************************************************************)
(* HAL_UARTEx_RxEventCallback, when the buffer is full or the line idle:   *)
(* push what fits (the rest is lost), restart reception, and report        *)
(* RX_AVAILABLE if anything was pushed, which comes to nothing before the  *)
(* cli task has registered its handler.                                    *)
(***************************************************************************)
Fits == IF Len(rxtmp) <= RingRoom - Len(ring) THEN Len(rxtmp) ELSE RingRoom - Len(ring)

RxEventCallback ==
  /\ rxtmp # <<>>
  /\ ring' = ring \o SubSeq(rxtmp, 1, Fits)
  /\ accepted' = accepted \o SubSeq(rxtmp, 1, Fits)
  /\ rxtmp' = <<>>
  /\ IF Fits > 0 /\ evt_cb /\ rx_isr
     THEN PostRx /\ heard' = TRUE
     ELSE UNCHANGED <<inbox, notified, heard>>
  /\ UNCHANGED <<bootVars, stream, arrived, cliVars>>

(* An overrun: the HAL aborts reception, the callback starts it afresh.     *)
(* (After other receive errors reception goes on and nothing changes.)      *)
ErrorCallback ==
  /\ rxtmp # <<>>
  /\ rxtmp' = <<>>
  /\ UNCHANGED <<bootVars, stream, arrived, ring, inbox, notified, cliVars, accepted,
                 heard>>

-----------------------------------------------------------------------------
(***************************************************************************)
(* The CLI task: cli_task_init, cli_process, cli_rx_handler.               *)
(***************************************************************************)
(* cli_register_command("help"), once cli_init has returned.                *)
cli_register_command ==
  /\ stage["cli"] = "done"
  /\ at = "register"
  /\ table' = IF Cardinality(table) < TableMax THEN table \cup {Help} ELSE table
  /\ at' = "wait"
  /\ UNCHANGED <<receiveVars, ring, inbox, notified, buf, line, done>>

Wake ==
  /\ at = "wait" /\ notified
  /\ notified' = FALSE
  /\ at' = "recv"
  /\ UNCHANGED <<receiveVars, ring, inbox, buf, line, table, done>>

RecvEmpty ==
  /\ at = "recv" /\ inbox = 0
  /\ at' = "wait"
  /\ UNCHANGED <<receiveVars, ring, inbox, notified, buf, line, table, done>>

Recv ==
  /\ at = "recv" /\ inbox > 0
  /\ inbox' = inbox - 1
  /\ at' = "read"
  /\ UNCHANGED <<receiveVars, ring, notified, buf, line, table, done>>

(* serial_read: up to ReadChunk bytes, while there are any.                 *)
ReadByte ==
  /\ at = "read" /\ ring # <<>> /\ Len(buf) < ReadChunk
  /\ buf' = Append(buf, Head(ring))
  /\ ring' = Tail(ring)
  /\ UNCHANGED <<receiveVars, inbox, notified, at, line, table, done>>

ReadDoneForgets ==        \* variant: the line does not survive the call
  /\ at = "read"
  /\ ring = <<>> \/ Len(buf) = ReadChunk
  /\ at' = IF buf = <<>> THEN "recv" ELSE "scan"
  /\ line' = IF buf = <<>> THEN <<>> ELSE line
  /\ UNCHANGED <<receiveVars, ring, inbox, notified, buf, table, done>>

ReadDone ==
  /\ at = "read"
  /\ ring = <<>> \/ Len(buf) = ReadChunk
  /\ at' = IF buf = <<>> THEN "recv" ELSE "scan"
  /\ UNCHANGED <<receiveVars, ring, inbox, notified, buf, line, table, done>>

WordPerBlank(st, c) ==    \* variant: a blank always ends a word, also an empty one
  IF st.ended \/ c = "nul" THEN [st EXCEPT !.ended = TRUE]
  ELSE IF c = "blank" \/ ~ st.open
  THEN [st EXCEPT !.argv = Append(@, IF c = "blank" THEN <<>> ELSE <<c>>), !.open = c # "blank"]
  ELSE [st EXCEPT !.argv[Len(st.argv)] = Append(@, c)]

(* One character of cli_process_line: skip blanks, open a word, extend it.  *)
(* The line ends at a NUL, and the words at max_args.                       *)
NextChar(st, c) ==
  IF st.ended \/ c = "nul" THEN [st EXCEPT !.ended = TRUE]
  ELSE IF c = "blank" THEN [st EXCEPT !.open = FALSE]
  ELSE IF st.open THEN [st EXCEPT !.argv[Len(st.argv)] = Append(@, c)]
  ELSE IF Len(st.argv) < MaxArgs
  THEN [st EXCEPT !.argv = Append(@, <<c>>), !.open = TRUE]
  ELSE [st EXCEPT !.ended = TRUE]

Unread == [argv |-> <<>>, open |-> FALSE, ended |-> FALSE]

Argv(l) ==
  LET st[n \in 0 .. Len(l)] == IF n = 0 THEN Unread ELSE NextChar(st[n - 1], l[n])
  IN  st[Len(l)].argv

(* A line without words comes to nothing; a name not in the table is        *)
(* answered "Unknown command".                                              *)
process_line(l, names) ==
  IF Argv(l) = <<>> THEN <<>>
  ELSE <<[argv |-> Argv(l), known |-> Head(Argv(l)) \in names]>>

(***************************************************************************)
(* One byte of buf into the line: a terminator completes a non-empty line, *)
(* a character that no longer fits drops what was collected, and itself.   *)
(***************************************************************************)
TakeByte ==
  /\ at = "scan" /\ buf # <<>>
  /\ buf' = Tail(buf)
  /\ UNCHANGED <<receiveVars, ring, inbox, notified, at, table>>

EndLine ==
  /\ TakeByte
  /\ Head(buf) = "eol"
  /\ done' = IF line = <<>> THEN done ELSE done \o process_line(line, table)
  /\ line' = <<>>

KeepByte ==
  /\ TakeByte
  /\ Head(buf) # "eol"
  /\ Len(line) < LineMax - 1
  /\ line' = Append(line, Head(buf))
  /\ UNCHANGED done

DropLine ==
  /\ TakeByte
  /\ Head(buf) # "eol"
  /\ Len(line) >= LineMax - 1
  /\ line' = <<>>
  /\ UNCHANGED done

ScanOnce ==               \* variant: one read per message
  /\ at = "scan" /\ buf = <<>>
  /\ at' = "recv"
  /\ UNCHANGED <<receiveVars, ring, inbox, notified, buf, line, table, done>>

ScanDone ==
  /\ at = "scan" /\ buf = <<>>
  /\ at' = "read"
  /\ UNCHANGED <<receiveVars, ring, inbox, notified, buf, line, table, done>>

Task ==
  \/ cli_register_command \/ Wake \/ RecvEmpty \/ Recv \/ ReadByte \/ ReadDone
  \/ EndLine \/ KeepByte \/ DropLine \/ ScanDone

Boot(t) ==
  /\ serial_register(t)
  /\ UNCHANGED <<stream, arrived, rxtmp, ring, inbox, notified, cliVars, accepted, heard>>

Step ==
  \/ \E t \in Booter : Boot(t)
  \/ ByteArrives
  \/ RxEventCallback
  \/ ErrorCallback
  \/ Task

CliNext == ~ twice /\ Step

CliSpec == CliInit /\ [][CliNext]_rxVars

(* The tasks run when they are ready; bytes need not arrive.                *)
CliFairSpec ==
  /\ CliSpec
  /\ WF_rxVars(Task /\ ~ twice)
  /\ \A t \in Booter : WF_rxVars(Boot(t) /\ ~ twice)

-----------------------------------------------------------------------------
(* The types; the assembled line leaves room for its terminating NUL.       *)
CliTypeOK ==
  /\ BootTypeOK
  /\ heard \in BOOLEAN
  /\ stream \in Seq(RxByte) /\ arrived \in 0 .. Len(stream)
  /\ rxtmp \in Seq(RxByte) /\ Len(rxtmp) <= RxChunk
  /\ ring \in Seq(RxByte) /\ Len(ring) <= RingRoom
  /\ inbox \in 0 .. QueueLen
  /\ notified \in BOOLEAN
  /\ at \in {"register", "wait", "recv", "read", "scan"}
  /\ buf \in Seq(RxByte) /\ Len(buf) <= ReadChunk
  /\ line \in Seq(RxByte) /\ Len(line) <= LineMax - 1
  /\ table \subseteq Earlier \cup {Help}
  /\ done \in Seq([argv : Seq(Seq(Chars)), known : BOOLEAN])
  /\ accepted \in Seq(RxByte)

(***************************************************************************)
(* A full inbox loses messages, never input: while the task sleeps, bytes  *)
(* on the ring mean a queued message, and a queued message means a         *)
(* notification.  It holds because every message empties the whole ring.   *)
(* Only bytes that came before the task was registered may lie there       *)
(* unannounced, until the first message.                                   *)
(***************************************************************************)
NoStrandedInput ==
  at = "wait" =>
    /\ ring # <<>> => inbox > 0 \/ ~ heard
    /\ inbox > 0 => notified

(* The numbers of a finite set, from the smallest to the largest.           *)
InOrder(S) ==
  [k \in 1 .. Cardinality(S) |-> Max({i \in S : Cardinality({j \in S : j <= i}) <= k})]

(* The words of a line: its longest runs of characters before any NUL.      *)
InWord(l, i, j) ==
  /\ \A k \in 1 .. j : l[k] # "nul"
  /\ \A k \in i .. j : l[k] # "blank"
WordStarts(l) == {i \in DOMAIN l : InWord(l, i, i) /\ (i = 1 \/ l[i - 1] = "blank")}
WordFrom(l, i) == SubSeq(l, i, Max({j \in i .. Len(l) : InWord(l, i, j)}))

Words(l) ==
  LET first == InOrder(WordStarts(l))
  IN  [k \in DOMAIN first |-> WordFrom(l, first[k])]

(***************************************************************************)
(* The line that a terminator at j ends: what stands between it and the    *)
(* terminator before, or the first byte; of one that outgrew CLI_LINE_MAX, *)
(* what is left when whole CLI_LINE_MAX characters were dropped at a time. *)
(***************************************************************************)
Start(s, j) == Max({i \in 0 .. j - 1 : i = 0 \/ s[i] = "eol"})
LineTo(s, j) == SubSeq(s, j - ((j - 1 - Start(s, j)) % LineMax), j - 1)

(* The terminators of the lines that have words.                            *)
Asking(s) == {j \in DOMAIN s : s[j] = "eol" /\ Words(LineTo(s, j)) # <<>>}

(* What a line asks for, with every command of the firmware registered.     *)
Command(l) ==
  LET w == Words(l)
  IN  [argv |-> SubSeq(w, 1, Min({Len(w), MaxArgs})), known |-> Head(w) \in Earlier \cup {Help}]

Commands(s) ==
  LET ends == InOrder(Asking(s))
  IN  [k \in DOMAIN ends |-> Command(LineTo(s, ends[k]))]

(***************************************************************************)
(* The commands run, with their arguments, are exactly those of the lines  *)
(* of the accepted bytes, in order, however the stream was cut into        *)
(* chunks, reads and messages and however early it came; what is not yet a *)
(* command is still in the line, the buffer or the ring.                   *)
(***************************************************************************)
Scanned == SubSeq(accepted, 1, Len(accepted) - Len(ring) - Len(buf))

CommandsAreLines ==
  /\ Scanned \o buf \o ring = accepted
  /\ done = Commands(Scanned)
  /\ line = LineTo(Scanned, Len(Scanned) + 1)

(* Whatever lies on the ring is eventually consumed, once the task has      *)
(* heard of any.                                                            *)
InputConsumed == (heard /\ ring # <<>>) ~> (ring = <<>> \/ twice)

(***************************************************************************)
(* The CLI task never sleeps on input nobody will wake it for, no buffer   *)
(* exceeds its size, a claimed port is up, and all variables have their    *)
(* types.                                                                  *)
(***************************************************************************)
RxInv ==
  /\ CliTypeOK
  /\ NoStrandedInput
  /\ PortComesUp
=============================================================================
