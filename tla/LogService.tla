----------------------------- MODULE LogService -----------------------------
(***************************************************************************)
(* middleware/log/log.c on top of the UART driver.  Any task formats a     *)
(* line into a heap buffer and posts it to the log task, which owns the    *)
(* transmit side of the port: it copies the line into the driver's ring,   *)
(* keeps what the ring cannot take in s_pending, and frees the buffer.     *)
(* TX_EMPTY wakes it to continue.  The driver is UartTx, step by step, so  *)
(* its interrupts fall anywhere inside serial_write.                       *)
(***************************************************************************)
EXTENDS UartTx, FiniteSets, SequencesExt

CONSTANTS
  Sender,      \* the tasks that call log_printf
  Logger,      \* the log task, itself a sender while it initialises
  QueueLen,    \* depth of the log task's inbox
  LineMax,     \* LOG_LINE_MAX
  MaxLines     \* bound: lines formatted in a behaviour

ASSUME LoggerAssumption == IsFiniteSet(Sender) /\ Logger \in Sender
ASSUME SizeAssumption ==
  /\ QueueLen \in Nat \ {0} /\ MaxLines \in Nat
  /\ LineMax \in Nat /\ LineMax >= 2

PendingSize == LineMax + 2     \* sizeof(s_pending)

\* The bounds of the driver leave the log service room for its longest write and every line.
ASSUME WriteBoundsAssumption ==
  MaxWrite = PendingSize /\ MaxBytes = MaxLines * (LineMax + 1)

VARIABLES
  up,        \* s_inited: the UART hardware was initialised
  heap,      \* the line buffers allocated
  inbox,     \* lines queued for the log task, oldest first
  notified,  \* the log task's notification count is not zero
  spc,       \* spc[s]: where s is in log_printf
  buf,       \* buf[s]: the line s is posting
  at,        \* where the log task is
  cur,       \* the line it is writing
  pending,   \* s_pending, s_pending_len bytes
  lines,     \* history: lines formatted
  order,     \* history: the lines queued, in that order
  fed        \* history: the bytes pushed on the ring

uartVars == vars      \* the driver: see UartTx
senderVars == <<spc, buf, lines, order>>
logVars == <<uartVars, up, heap, inbox, notified, spc, buf, at, cur, pending,
          lines, order, fed>>

(* A line, and its text: each byte knows its line and how many follow.      *)
Line == [n : 1 .. MaxLines, len : 3 .. LineMax + 1]
NoLine == [n |-> 0, len |-> 0]
Text(l) == [i \in 1 .. l.len |-> [line |-> l.n, left |-> l.len - i]]
Texts(ls) == FlattenSeq([i \in DOMAIN ls |-> Text(ls[i])])
Rest(s) == SubSeq(s, pushed + 1, Len(s))

(* uart_init may fail for good; serial_register does not notice.  The log   *)
(* task is in log_task_init, past log_init: s_ready is set.                 *)
LogInit ==
  /\ Init
  /\ up \in BOOLEAN
  /\ heap = {}
  /\ inbox = <<>>
  /\ notified = FALSE
  /\ spc = [s \in Sender |-> "idle"]
  /\ buf = [s \in Sender |-> NoLine]
  /\ at = "init"
  /\ cur = NoLine
  /\ pending = <<>>
  /\ lines = 0
  /\ order = <<>>
  /\ fed = <<>>

-----------------------------------------------------------------------------
(* log_vformat and its helpers, whose result is a length: log_fmt_putc      *)
(* stores nothing past the capacity, whatever the format asks for.          *)
Formatted == 1 .. LineMax

(***************************************************************************)
(* log_printf: an empty text is dropped, and so is the line when the heap  *)
(* is exhausted: neither changes anything here; CR LF is appended, over    *)
(* the end of a long text.                                                 *)
(***************************************************************************)
TerminatorSent(n) == n + 2     \* variant: the result is taken for a length as it is

LineLength(n) == (IF n >= LineMax THEN LineMax - 1 ELSE n) + 2

log_printf(s) ==
  /\ spc[s] = "idle"
  /\ s = Logger => at = "init"
  /\ lines < MaxLines
  /\ lines' = lines + 1
  /\ \E n \in Formatted : buf' = [buf EXCEPT ![s] = [n |-> lines + 1, len |-> LineLength(n)]]
  /\ heap' = heap \cup {buf'[s]}
  /\ spc' = [spc EXCEPT ![s] = "send"]
  /\ UNCHANGED <<uartVars, up, inbox, notified, at, cur, pending, order, fed>>

(* log_post: the buffer goes to the log task, or is freed when the inbox    *)
(* stays full for 10 ms.                                                    *)
PostQueued(s) ==
  /\ spc[s] = "send"
  /\ Len(inbox) < QueueLen
  /\ inbox' = Append(inbox, buf[s])
  /\ order' = Append(order, buf[s])
  /\ buf' = [buf EXCEPT ![s] = NoLine]
  /\ spc' = [spc EXCEPT ![s] = "noti"]
  /\ UNCHANGED <<uartVars, up, heap, notified, at, cur, pending, lines, fed>>

TimeoutNever(s) == FALSE            \* variant: portMAX_DELAY

TimeoutLeaks(s) ==                  \* variant: the buffer is not freed
  /\ spc[s] = "send"
  /\ Len(inbox) >= QueueLen
  /\ buf' = [buf EXCEPT ![s] = NoLine]
  /\ spc' = [spc EXCEPT ![s] = "idle"]
  /\ UNCHANGED <<uartVars, up, heap, inbox, notified, at, cur, pending, lines,
                 order, fed>>

PostTimeout(s) ==
  /\ spc[s] = "send"
  /\ Len(inbox) >= QueueLen
  /\ heap' = heap \ {buf[s]}
  /\ buf' = [buf EXCEPT ![s] = NoLine]
  /\ spc' = [spc EXCEPT ![s] = "idle"]
  /\ UNCHANGED <<uartVars, up, inbox, notified, at, cur, pending, lines, order, fed>>

PostNoti(s) ==
  /\ spc[s] = "noti"
  /\ notified' = TRUE
  /\ spc' = [spc EXCEPT ![s] = "idle"]
  /\ UNCHANGED <<uartVars, up, heap, inbox, buf, at, cur, pending, lines, order, fed>>

-----------------------------------------------------------------------------
(* serial_write: nothing is written when the UART is not initialised.       *)
serial_write(n) ==
  IF up THEN WriteCall(n)
  ELSE /\ pushed' = 0
       /\ UNCHANGED <<storage, head, tail, tmp, active, hal, pc, left, popped,
                      ltail, emptyFrom, accepted, wire, raced>>

Returned == pc = "idle"

InitDone ==
  /\ at = "init" /\ spc[Logger] = "idle"
  /\ at' = "wait"
  /\ UNCHANGED <<uartVars, up, heap, inbox, notified, senderVars, cur, pending, fed>>

(* log_process: woken, finish the remainder before taking new lines.        *)
WakeSkipsPending ==                 \* variant: new lines first
  /\ at = "wait" /\ notified
  /\ notified' = FALSE
  /\ at' = "recv"
  /\ UNCHANGED <<uartVars, up, heap, inbox, senderVars, cur, pending, fed>>

Wake ==
  /\ at = "wait" /\ notified
  /\ notified' = FALSE
  /\ \/ /\ pending = <<>>
        /\ at' = "recv"
        /\ UNCHANGED uartVars
     \/ /\ pending # <<>>
        /\ at' = "flush"
        /\ serial_write(Len(pending))
  /\ UNCHANGED <<up, heap, inbox, senderVars, cur, pending, fed>>

(* log_write_pending after serial_write: move what is left to the front.    *)
FlushDone ==
  /\ at = "flush" /\ Returned
  /\ pending' = Rest(pending)
  /\ at' = IF pending' = <<>> THEN "recv" ELSE "wait"
  /\ UNCHANGED <<uartVars, up, heap, inbox, notified, senderVars, cur, fed>>

(* log_write: hand the line to the driver ...                               *)
Recv ==
  /\ at = "recv" /\ inbox # <<>>
  /\ cur' = Head(inbox)
  /\ inbox' = Tail(inbox)
  /\ at' = "write"
  /\ serial_write(cur'.len)
  /\ UNCHANGED <<up, heap, notified, senderVars, pending, fed>>

(* ... keep what it did not take, free the buffer, and go on with the next  *)
(* line unless the ring is full.                                            *)
WriteDone ==
  /\ at = "write" /\ Returned
  /\ pending' = Rest(Text(cur))
  /\ heap' = heap \ {cur}
  /\ cur' = NoLine
  /\ at' = IF pending' = <<>> THEN "recv" ELSE "wait"
  /\ UNCHANGED <<uartVars, up, inbox, notified, senderVars, fed>>

RecvEmpty ==
  /\ at = "recv" /\ inbox = <<>>
  /\ at' = "wait"
  /\ UNCHANGED <<uartVars, up, heap, inbox, notified, senderVars, cur, pending, fed>>

(***************************************************************************)
(* Inside uart_write, and the interrupts.  log_tx_isr, called through      *)
(* serial_uart_evt_cb whenever the driver reports TX_EMPTY, notifies the   *)
(* log task.                                                               *)
(***************************************************************************)
TxIsrIgnored(emptied) == notified' = notified        \* variant
log_tx_isr(emptied) == notified' = (notified \/ emptied)

Source == IF at = "flush" THEN pending ELSE Text(cur)

UartWrite ==
  /\ Write
  /\ log_tx_isr(pc = "start" /\ popped = 0)
  /\ fed' = IF accepted' = accepted THEN fed ELSE Append(fed, Source[pushed + 1])
  /\ UNCHANGED <<up, heap, inbox, senderVars, at, cur, pending>>

UartIsr ==
  /\ TxIsr
  /\ log_tx_isr(~ hal'.busy)
  /\ UNCHANGED <<up, heap, inbox, senderVars, at, cur, pending, fed>>

UartError ==
  /\ ErrorCallback
  /\ log_tx_isr(~ hal'.busy)
  /\ UNCHANGED <<up, heap, inbox, senderVars, at, cur, pending, fed>>

Post(s) == PostQueued(s) \/ PostTimeout(s) \/ PostNoti(s)

LogTask ==
  \/ InitDone \/ Wake \/ FlushDone \/ Recv \/ WriteDone \/ RecvEmpty \/ UartWrite

LogNext ==
  \/ \E s \in Sender : log_printf(s) \/ Post(s)
  \/ LogTask
  \/ UartIsr
  \/ UartError

LogSpec == LogInit /\ [][LogNext]_logVars

(* The tasks that are ready run again and again; a transmit interrupt that  *)
(* is raised is taken.  Receive errors and further lines need not occur.    *)
LogFairSpec ==
  /\ LogSpec
  /\ WF_logVars(LogTask)
  /\ WF_logVars(UartIsr)
  /\ \A s \in Sender : WF_logVars(Post(s))

-----------------------------------------------------------------------------
(* The types; the driver's are stated in UartTx.  No line holds the         *)
(* terminator of a text that filled its buffer, and pending fits its array. *)
LogTypeOK ==
  /\ TypeOK
  /\ up \in BOOLEAN
  /\ heap \in SUBSET Line
  /\ inbox \in Seq(Line) /\ Len(inbox) <= QueueLen
  /\ notified \in BOOLEAN
  /\ spc \in [Sender -> {"idle", "send", "noti"}]
  /\ buf \in [Sender -> Line \cup {NoLine}]
  /\ at \in {"init", "wait", "flush", "recv", "write"}
  /\ cur \in Line \cup {NoLine}
  /\ pending \in Seq(UNION {Range(Text(l)) : l \in Line})
  /\ Len(pending) <= PendingSize
  /\ lines \in 0 .. MaxLines

(***************************************************************************)
(* Every buffer allocated has exactly one owner: a sender that has not     *)
(* posted it yet, the inbox, or the log task writing it.  So none leaks    *)
(* (a refused post included), none is freed twice, and none is read after  *)
(* it was freed.                                                           *)
(***************************************************************************)
OneOwner ==
  LET held == {s \in Sender : spc[s] = "send"}
      writing == IF at = "write" THEN {cur} ELSE {}
  IN  /\ heap = {buf[s] : s \in held} \cup Range(inbox) \cup writing
      /\ Cardinality(heap) = Cardinality(held) + Len(inbox) + Cardinality(writing)

(***************************************************************************)
(* The driver is given the queued lines whole and in the order they were   *)
(* queued, whatever pieces the ring takes: what was pushed, followed by    *)
(* the rest of what is being written, s_pending and the inbox, is the text *)
(* of all the lines that were ever queued.                                 *)
(***************************************************************************)
WholeLinesInOrder ==
  LET unsent == CASE at = "write" -> Rest(Text(cur))
                  [] at = "flush" -> Rest(pending)
                  [] OTHER -> pending
  IN  fed \o unsent \o Texts(inbox) = Texts(order)

(***************************************************************************)
(* The log task never sleeps on work it will not be woken for: with bytes  *)
(* pending, a notification is there or a transfer is running, which ends   *)
(* in TX_EMPTY; with lines queued, a notification is there or coming, or   *)
(* bytes are pending.                                                      *)
(***************************************************************************)
NoStrandedOutput ==
  (up /\ at = "wait") =>
    /\ pending # <<>> => notified \/ hal.busy
    /\ inbox # <<>> => \/ notified \/ pending # <<>>
                       \/ \E s \in Sender : spc[s] = "noti"

(* A queued line is eventually pushed completely, if the UART works.        *)
LinesWritten ==
  \A n \in 1 .. MaxLines :
    (up /\ \E l \in Range(inbox) : l.n = n) ~> [line |-> n, left |-> 0] \in Range(fed)

(* Whoever logs gets on with its work, even with a UART that never sends.   *)
LoggingReturns == \A s \in Sender : spc[s] # "idle" ~> spc[s] = "idle"

(***************************************************************************)
(* Every line buffer has one owner, the log task never sleeps on output    *)
(* nobody will wake it for, the driver under it is never left stopped with *)
(* bytes queued (see UartTx), and all variables have their types.          *)
(***************************************************************************)
LogInv ==
  /\ LogTypeOK
  /\ NoStall
  /\ ReadyOnlyInKick
  /\ OneOwner
  /\ NoStrandedOutput
=============================================================================
