------------------------------- MODULE UartTx -------------------------------
(***************************************************************************)
(* The transmit half of drivers/platform/stm32f2/uart/uart.c for one UART  *)
(* (the stm32n6 driver has the same code).  One task calls uart_write; the *)
(* UART interrupt sends byte by byte, completes transfers and reports      *)
(* receive errors.  An interrupt runs to completion between two steps of   *)
(* the task.  A byte pushed on the ring is one step, which RingBuf         *)
(* justifies; the pop inside uart_tx_kick is split into the loads and      *)
(* stores of ringbuf_pop where the task runs it, because nothing but       *)
(* s_tx_active keeps the interrupt from popping at the same time.          *)
(***************************************************************************)
EXTENDS Naturals, Sequences

CONSTANTS
  RingSize,   \* UART_TX_RING_SIZE
  Chunk,      \* UART_TX_IT_CHUNK
  MaxWrite,   \* bound: longest len passed to uart_write
  MaxBytes    \* bound: bytes accepted in a behaviour

ASSUME RingSizeAssumption == RingSize \in Nat /\ RingSize >= 2
ASSUME ChunkAssumption == Chunk \in Nat \ {0}
ASSUME BoundAssumption == MaxWrite \in Nat \ {0} /\ MaxBytes \in Nat

VARIABLES
  storage, head, tail,  \* g_tx_rb
  tmp,        \* g_tx_tmp, the buffer a transfer reads from
  active,     \* s_tx_active
  hal,        \* the HAL's transfer: busy (gState # READY), size, bytes sent
  pc,         \* where the task is in uart_write
  left,       \* bytes uart_write has not pushed yet
  pushed,     \* bytes it has pushed
  popped,     \* bytes uart_tx_kick has popped in the task
  ltail,      \* the tail it loaded to compute the next one
  emptyFrom,  \* context of the last TX_EMPTY: "none", "isr" or "task"
  accepted,   \* history: bytes pushed so far; they are numbered from 1
  wire,       \* history: bytes sent, kept until raced
  raced       \* history: the interrupt popped while the task was popping

ringVars == <<storage, head, tail>>
taskVars == <<pc, left, pushed, popped, ltail>>
vars == <<storage, head, tail, tmp, active, hal, pc, left, pushed, popped, ltail,
          emptyFrom, accepted, wire, raced>>

Index == 0 .. RingSize - 1
Byte == 0 .. MaxBytes

next_index(i) == (i + 1) % RingSize
RingLen(h, t) == IF h >= t THEN h - t ELSE RingSize - (t - h)

Idle == [busy |-> FALSE, size |-> 0, sent |-> 0]

Init ==
  /\ storage = [i \in Index |-> 0]
  /\ head = 0
  /\ tail = 0
  /\ tmp = [i \in 0 .. Chunk - 1 |-> 0]
  /\ active = FALSE
  /\ hal = Idle
  /\ pc = "idle"
  /\ left = 0
  /\ pushed = 0
  /\ popped = 0
  /\ ltail = 0
  /\ emptyFrom = "none"
  /\ accepted = 0
  /\ wire = <<>>
  /\ raced = FALSE

-----------------------------------------------------------------------------
(***************************************************************************)
(* HAL_UART_Transmit_IT (external): refused while a transfer is under way. *)
(* The bytes are not copied; the interrupt reads them from tmp.            *)
(***************************************************************************)
Transmit_IT(n) == [busy |-> TRUE, size |-> n, sent |-> 0]

(***************************************************************************)
(* uart_tx_kick, run by the interrupt: pop up to Chunk bytes, then start a *)
(* transfer, or when there is none go idle and report TX_EMPTY.  Both      *)
(* callers run with gState READY, so the HAL accepts.                      *)
(***************************************************************************)
KickOneShort ==                \* variant: the last byte is left behind
  LET have == RingLen(head, tail)
      n == IF have < Chunk THEN have ELSE Chunk
      take == [i \in 0 .. Chunk - 1 |->
                 IF i < n THEN storage[(tail + i) % RingSize] ELSE tmp[i]]
  IN  /\ tmp' = take
      /\ tail' = (tail + n) % RingSize
      /\ hal' = IF n > 1 THEN Transmit_IT(n) ELSE Idle
      /\ active' = (active /\ n > 1)
      /\ emptyFrom' = IF n > 1 THEN emptyFrom ELSE "isr"

KickForgetsActive ==           \* variant: s_tx_active stays set on an empty ring
  LET have == RingLen(head, tail)
      n == IF have < Chunk THEN have ELSE Chunk
      take == [i \in 0 .. Chunk - 1 |->
                 IF i < n THEN storage[(tail + i) % RingSize] ELSE tmp[i]]
  IN  /\ tmp' = take
      /\ tail' = (tail + n) % RingSize
      /\ hal' = IF n > 0 THEN Transmit_IT(n) ELSE Idle
      /\ active' = active
      /\ emptyFrom' = IF n > 0 THEN emptyFrom ELSE "isr"

uart_tx_kick ==
  LET have == RingLen(head, tail)
      n == IF have < Chunk THEN have ELSE Chunk
      take == [i \in 0 .. Chunk - 1 |->
                 IF i < n THEN storage[(tail + i) % RingSize] ELSE tmp[i]]
  IN  /\ tmp' = take
      /\ tail' = (tail + n) % RingSize
      /\ hal' = IF n > 0 THEN Transmit_IT(n) ELSE Idle
      /\ active' = (active /\ n > 0)
      /\ emptyFrom' = IF n > 0 THEN emptyFrom ELSE "isr"

TaskInKick == pc \in {"check", "read", "load", "store", "start"}

(* The transmit interrupt hands one byte of the buffer to the line. *)
TxByteIsr ==
  /\ hal.busy /\ hal.sent < hal.size
  /\ hal' = [hal EXCEPT !.sent = @ + 1]
  /\ wire' = IF raced THEN wire ELSE Append(wire, tmp[hal.sent])
  /\ UNCHANGED <<ringVars, tmp, active, taskVars, emptyFrom, accepted, raced>>

(* Transfer complete: gState becomes READY, then HAL_UART_TxCpltCallback.   *)
TxCpltCallback ==
  /\ hal.busy /\ hal.sent = hal.size
  /\ uart_tx_kick
  /\ raced' = (raced \/ TaskInKick)
  /\ UNCHANGED <<storage, head, taskVars, accepted, wire>>

(***************************************************************************)
(* HAL_UART_ErrorCallback on a receive error: it restarts reception, and   *)
(* kicks when s_tx_active is set while the transmitter is READY.           *)
(***************************************************************************)
ErrorCallback ==
  /\ active /\ ~ hal.busy
  /\ uart_tx_kick
  /\ raced' = (raced \/ TaskInKick)
  /\ UNCHANGED <<storage, head, taskVars, accepted, wire>>

-----------------------------------------------------------------------------
(***************************************************************************)
(* uart_write: push what fits, then start the transmitter if it is idle.   *)
(***************************************************************************)
WriteCall(n) ==
  /\ pc = "idle"
  /\ left' = n
  /\ pushed' = 0
  /\ pc' = "push"
  /\ UNCHANGED <<ringVars, tmp, active, hal, popped, ltail, emptyFrom, accepted,
                 wire, raced>>

PushByte ==
  /\ pc = "push"
  /\ left > 0 /\ accepted < MaxBytes
  /\ next_index(head) # tail
  /\ storage' = [storage EXCEPT ![head] = accepted + 1]
  /\ head' = next_index(head)
  /\ accepted' = accepted + 1
  /\ left' = left - 1
  /\ pushed' = pushed + 1
  /\ UNCHANGED <<tail, tmp, active, hal, pc, popped, ltail, emptyFrom, wire, raced>>

(* All pushed or the ring is full; 0 is returned when nothing fitted. *)
PushDone ==
  /\ pc = "push"
  /\ left = 0 \/ next_index(head) = tail \/ accepted = MaxBytes
  /\ pc' = IF pushed = 0 THEN "idle" ELSE "test"
  /\ UNCHANGED <<ringVars, tmp, active, hal, left, pushed, popped, ltail,
                 emptyFrom, accepted, wire, raced>>

(* Test and set with interrupts disabled; they are enabled again before the *)
(* kick.                                                                    *)
TestActive ==
  /\ pc = "test"
  /\ active' = TRUE
  /\ popped' = 0
  /\ pc' = IF active THEN "idle" ELSE "check"
  /\ UNCHANGED <<ringVars, tmp, hal, left, pushed, ltail, emptyFrom, accepted,
                 wire, raced>>

(***************************************************************************)
(* uart_tx_kick in the task: the loop of ringbuf_pop, load by load, then   *)
(* the start of the transfer.                                              *)
(***************************************************************************)
KickCheck ==
  /\ pc = "check"
  /\ pc' = IF popped < Chunk /\ tail # head THEN "read" ELSE "start"
  /\ UNCHANGED <<ringVars, tmp, active, hal, left, pushed, popped, ltail,
                 emptyFrom, accepted, wire, raced>>

KickRead ==
  /\ pc = "read"
  /\ tmp' = [tmp EXCEPT ![popped] = storage[tail]]
  /\ pc' = "load"
  /\ UNCHANGED <<ringVars, active, hal, left, pushed, popped, ltail, emptyFrom,
                 accepted, wire, raced>>

KickLoadTail ==
  /\ pc = "load"
  /\ ltail' = tail
  /\ pc' = "store"
  /\ UNCHANGED <<ringVars, tmp, active, hal, left, pushed, popped, emptyFrom,
                 accepted, wire, raced>>

KickStoreTail ==
  /\ pc = "store"
  /\ tail' = next_index(ltail)
  /\ popped' = popped + 1
  /\ pc' = "check"
  /\ UNCHANGED <<storage, head, tmp, active, hal, left, pushed, ltail, emptyFrom,
                 accepted, wire, raced>>

(* Nothing popped: idle again, and TX_EMPTY is reported from the task.      *)
KickEmpty ==
  /\ pc = "start" /\ popped = 0
  /\ active' = FALSE
  /\ emptyFrom' = "task"
  /\ pc' = "idle"
  /\ UNCHANGED <<ringVars, tmp, hal, left, pushed, popped, ltail, accepted, wire,
                 raced>>

KickNeverStarts ==             \* variant: the HAL is not called
  /\ pc = "start" /\ popped > 0
  /\ pc' = "idle"
  /\ UNCHANGED <<ringVars, tmp, active, hal, left, pushed, popped, ltail,
                 emptyFrom, accepted, wire, raced>>

(* HAL_UART_Transmit_IT; when it is refused the popped chunk is dropped.    *)
KickTransmit ==
  /\ pc = "start" /\ popped > 0
  /\ hal' = IF hal.busy THEN hal ELSE Transmit_IT(popped)
  /\ active' = (active /\ ~ hal.busy)
  /\ pc' = "idle"
  /\ UNCHANGED <<ringVars, tmp, left, pushed, popped, ltail, emptyFrom, accepted,
                 wire, raced>>

Write ==
  \/ PushByte \/ PushDone \/ TestActive \/ KickCheck \/ KickRead
  \/ KickLoadTail \/ KickStoreTail \/ KickEmpty \/ KickTransmit

TxIsr == TxByteIsr \/ TxCpltCallback

Next ==
  \/ \E n \in 1 .. MaxWrite : WriteCall(n)
  \/ Write
  \/ TxIsr
  \/ ErrorCallback

Spec == Init /\ [][Next]_vars

(***************************************************************************)
(* The writing task is eventually scheduled and an enabled UART interrupt  *)
(* is eventually taken.  Errors and further writes need not occur.         *)
(***************************************************************************)
FairSpec == Spec /\ WF_vars(Write) /\ WF_vars(TxIsr)

-----------------------------------------------------------------------------
(* The types; a transfer never claims more bytes than the buffer holds.     *)
TypeOK ==
  /\ storage \in [Index -> Byte]
  /\ head \in Index /\ tail \in Index /\ ltail \in Index
  /\ tmp \in [0 .. Chunk - 1 -> Byte]
  /\ active \in BOOLEAN
  /\ hal \in [busy : BOOLEAN, size : 0 .. Chunk, sent : 0 .. Chunk]
  /\ hal.sent <= hal.size
  /\ pc \in {"idle", "push", "test", "check", "read", "load", "store", "start"}
  /\ left \in 0 .. MaxWrite /\ pushed \in 0 .. MaxWrite
  /\ popped \in 0 .. Chunk
  /\ pc \in {"read", "load", "store"} => popped < Chunk
  /\ emptyFrom \in {"none", "isr", "task"}
  /\ accepted \in 0 .. MaxBytes
  /\ wire \in Seq(Byte)
  /\ raced \in BOOLEAN

(***************************************************************************)
(* Queued bytes never lie in the ring with the transmitter stopped: either *)
(* a transfer is under way, whose completion continues, or the task is     *)
(* still inside uart_write and will start one.  Holds with errors too.     *)
(***************************************************************************)
NoStall == head # tail => hal.busy \/ pc # "idle"

(***************************************************************************)
(* s_tx_active set while the transmitter is READY occurs only while the    *)
(* task is between its test-and-set and the HAL call.  So the resume       *)
(* branch of the error callback never resumes an abandoned transfer: when  *)
(* it runs at all, it runs inside the task's kick.                         *)
(***************************************************************************)
ReadyOnlyInKick == (active /\ ~ hal.busy) => TaskInKick

(***************************************************************************)
(* As long as no interrupt pops inside the task's pop, the line carries    *)
(* exactly the accepted bytes in order, and none is missing: those not yet *)
(* sent are in the transfer, in the chunk being assembled, or in the ring. *)
(***************************************************************************)
InOrderUntilRaced ==
  ~ raced =>
    /\ wire = [i \in 1 .. Len(wire) |-> i]
    /\ accepted = Len(wire) + (hal.size - hal.sent)
                  + (IF TaskInKick THEN popped ELSE 0) + RingLen(head, tail)

(* Every byte queued is drained, and draining ends in a TX_EMPTY event.     *)
Drains ==
  /\ (head # tail) ~> (head = tail /\ ~ hal.busy)
  /\ (head # tail) ~> (emptyFrom # "none")

(***************************************************************************)
(* uart.c:52: "Sole consumer of g_tx_rb: runs from uart_write under a      *)
(* critical section (only when idle) or from the TxCplt ISR (while active) *)
(* - never both at once."                                                  *)
(***************************************************************************)
SoleConsumer == ~ raced
=============================================================================
