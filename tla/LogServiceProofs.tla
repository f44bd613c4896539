-------------------------- MODULE LogServiceProofs --------------------------
(***************************************************************************)
(* Theorems about UartTx, for every ring size, chunk size and bound, and   *)
(* about LogService above it, for every finite set of senders, inbox depth *)
(* and line length.                                                        *)
(***************************************************************************)
EXTENDS LogService, FiniteSetTheorems, SeqFacts

(***************************************************************************)
(* Of the accepted bytes: those a transfer has not sent yet, those the     *)
(* task's kick has popped, and the number of the last that left the ring.  *)
(***************************************************************************)
InTransfer == hal.size - hal.sent
InHand == IF TaskInKick THEN popped ELSE 0
Taken == Len(wire) + InTransfer + InHand

(***************************************************************************)
(* uart_write keeps to its length and never ends on a stopped transmitter: *)
(* while it has pushed nothing it relies on the transfer it found, and a   *)
(* kick that popped nothing found the ring empty.                          *)
(***************************************************************************)
WriteStarts ==
  /\ pushed + left <= MaxWrite
  /\ pc = "push" /\ pushed = 0 /\ head # tail => hal.busy
  /\ pc = "start" /\ popped = 0 => head = tail

(***************************************************************************)
(* Until an interrupt pops inside the task's pop, s_tx_active is the lock  *)
(* it is meant to be: it is set exactly while the task in its kick, or the *)
(* interrupt of a transfer, owns the tail of the ring, never both.         *)
(***************************************************************************)
OneConsumer ==
  /\ active <=> TaskInKick \/ hal.busy
  /\ ~ (TaskInKick /\ hal.busy)
  /\ ~ hal.busy => InTransfer = 0
  /\ pc \in {"read", "load", "store"} => head # tail
  /\ pc = "store" => ltail = tail

(***************************************************************************)
(* Where each accepted byte is: sent, in the transfer or the chunk being   *)
(* assembled in g_tx_tmp, or in the ring, in this order.                   *)
(***************************************************************************)
WireNumbered == wire = [i \in 1 .. Len(wire) |-> i]
AllCounted == accepted = Taken + RingLen(head, tail)
RingNumbered ==
  \A r \in Index : r < RingLen(head, tail) => storage[(tail + r) % RingSize] = Taken + r + 1
TransferNumbered ==
  \A j \in 0 .. Chunk - 1 :
    hal.sent <= j /\ j < hal.size => tmp[j] = Len(wire) + (j - hal.sent) + 1
HandNumbered ==
  \A j \in 0 .. Chunk - 1 :
    (TaskInKick /\ j < popped) \/ (pc \in {"load", "store"} /\ j = popped)
      => tmp[j] = Len(wire) + j + 1

BytesInPlace ==
  WireNumbered /\ AllCounted /\ RingNumbered /\ TransferNumbered /\ HandNumbered

UartInv ==
  /\ TypeOK
  /\ NoStall
  /\ ReadyOnlyInKick
  /\ WriteStarts
  /\ ~ raced => OneConsumer /\ BytesInPlace

-----------------------------------------------------------------------------
(* Index arithmetic of the ring: one subtraction replaces the modulo. *)
LEMMA ModOnce ==
  ASSUME NEW x \in Nat, x < 2 * RingSize
  PROVE  x % RingSize = IF x < RingSize THEN x ELSE x - RingSize
  BY RingSizeAssumption, Z3

(* The next index without modulo.                                            *)
LEMMA NextIndex ==
  ASSUME NEW i \in Index
  PROVE  /\ next_index(i) \in Index
         /\ next_index(i) = IF i = RingSize - 1 THEN 0 ELSE i + 1
  BY RingSizeAssumption, ModOnce DEF next_index, Index

(* The bytes stored, and what one push and the pop of n bytes make of them. *)
LEMMA RingLenBounds ==
  ASSUME NEW h \in Index, NEW t \in Index
  PROVE  /\ RingLen(h, t) \in 0 .. RingSize - 1
         /\ RingLen(h, t) = 0 <=> h = t
         /\ next_index(h) # t => RingLen(next_index(h), t) = RingLen(h, t) + 1
         /\ h # t => RingLen(h, next_index(t)) = RingLen(h, t) - 1
  BY RingSizeAssumption, NextIndex DEF RingLen, Index

(* The slot of the r-th byte without modulo.                                 *)
LEMMA SlotAt ==
  ASSUME NEW t \in Index, NEW r \in Index
  PROVE  /\ (t + r) % RingSize \in Index
         /\ (t + r) % RingSize = IF t + r < RingSize THEN t + r ELSE t + r - RingSize
<1>1. t + r \in Nat /\ t + r < 2 * RingSize
  BY RingSizeAssumption DEF Index
<1>2. QED
  BY <1>1, ModOnce, RingSizeAssumption DEF Index

(* Popping n bytes leaves n fewer.                                           *)
LEMMA PopSeveral ==
  ASSUME NEW h \in Index, NEW t \in Index, NEW n \in Index, n <= RingLen(h, t)
  PROVE  LET u == (t + n) % RingSize
         IN  /\ u \in Index
             /\ RingLen(h, u) = RingLen(h, t) - n
             /\ \A r \in Index : n + r \in Index => (u + r) % RingSize = (t + (n + r)) % RingSize
<1> DEFINE u == (t + n) % RingSize
<1>1. u \in Index /\ u = IF t + n < RingSize THEN t + n ELSE t + n - RingSize
  BY SlotAt
<1>2. RingLen(h, u) = RingLen(h, t) - n
  BY <1>1, RingSizeAssumption DEF RingLen, Index
<1>3. ASSUME NEW r \in Index, n + r \in Index
      PROVE  (u + r) % RingSize = (t + (n + r)) % RingSize
  <2>1. (u + r) % RingSize = IF u + r < RingSize THEN u + r ELSE u + r - RingSize
    BY <1>1, <1>3, SlotAt
  <2>2. (t + (n + r)) % RingSize =
          IF t + (n + r) < RingSize THEN t + (n + r) ELSE t + (n + r) - RingSize
    BY <1>3, SlotAt
  <2>3. QED
    BY <1>1, <1>3, <2>1, <2>2, RingSizeAssumption DEF Index
<1>4. QED
  BY <1>1, <1>2, <1>3

(* next(tail) is the second slot, head the first that is free. *)
LEMMA Slots ==
  ASSUME NEW h \in Index, NEW t \in Index
  PROVE  /\ (t + RingLen(h, t)) % RingSize = h
         /\ \A r \in Index : r < RingLen(h, t) => (t + r) % RingSize # h
         /\ (t + 0) % RingSize = t
         /\ \A r \in Index : r + 1 \in Index =>
              (next_index(t) + r) % RingSize = (t + (r + 1)) % RingSize
<1>1. RingLen(h, t) \in Index
  BY RingLenBounds DEF Index
<1>2. 0 \in Index /\ (t + 0) % RingSize = t
  BY ModOnce, RingSizeAssumption DEF Index
<1>3. (t + RingLen(h, t)) % RingSize = h
  <2>1. (t + RingLen(h, t)) % RingSize =
          IF t + RingLen(h, t) < RingSize THEN t + RingLen(h, t) ELSE t + RingLen(h, t) - RingSize
    BY <1>1, SlotAt
  <2>2. RingLen(h, t) = IF h >= t THEN h - t ELSE RingSize - (t - h)
    BY DEF RingLen
  <2>3. QED
    BY <2>1, <2>2, RingSizeAssumption DEF Index
<1>4. ASSUME NEW r \in Index, r < RingLen(h, t)
      PROVE  (t + r) % RingSize # h
  <2>1. (t + r) % RingSize = IF t + r < RingSize THEN t + r ELSE t + r - RingSize
    BY SlotAt
  <2>2. QED
    BY <1>4, <2>1, RingSizeAssumption DEF RingLen, Index
<1>5. ASSUME NEW r \in Index, r + 1 \in Index
      PROVE  (next_index(t) + r) % RingSize = (t + (r + 1)) % RingSize
  <2>1. next_index(t) \in Index /\ next_index(t) = IF t = RingSize - 1 THEN 0 ELSE t + 1
    BY NextIndex
  <2>2. (next_index(t) + r) % RingSize =
          IF next_index(t) + r < RingSize THEN next_index(t) + r ELSE next_index(t) + r - RingSize
    BY <2>1, SlotAt
  <2>3. (t + (r + 1)) % RingSize =
          IF t + (r + 1) < RingSize THEN t + (r + 1) ELSE t + (r + 1) - RingSize
    BY <1>5, SlotAt
  <2>4. QED
    BY <2>1, <2>2, <2>3, <1>5, RingSizeAssumption DEF Index
<1>6. QED
  BY <1>2, <1>3, <1>4, <1>5

(***************************************************************************)
(* What uart_tx_kick does in the interrupt: n bytes move from the ring to  *)
(* the buffer, none only if there is none.                                 *)
(***************************************************************************)
Kicked(n) ==
  /\ n \in 0 .. Chunk /\ n \in Index
  /\ n <= RingLen(head, tail)
  /\ n = 0 => head = tail
  /\ tail' = (tail + n) % RingSize
  /\ tail' \in Index
  /\ RingLen(head, tail') = RingLen(head, tail) - n
  /\ tmp' \in [0 .. Chunk - 1 -> Byte]
  /\ \A j \in 0 .. Chunk - 1 : j < n => tmp'[j] = storage[(tail + j) % RingSize]
  /\ n > 0 => hal' = Transmit_IT(n) /\ active' = active
  /\ n = 0 => hal' = Idle /\ active' = FALSE
  /\ emptyFrom' \in {"none", "isr", "task"}

(* uart_tx_kick pops at most a chunk and starts it, or goes idle.            *)
LEMMA KickEffect ==
  ASSUME TypeOK, uart_tx_kick
  PROVE  \E n : Kicked(n)
<1> DEFINE have == RingLen(head, tail)
           n == IF have < Chunk THEN have ELSE Chunk
           take == [i \in 0 .. Chunk - 1 |->
                      IF i < n THEN storage[(tail + i) % RingSize] ELSE tmp[i]]
<1>1. /\ head \in Index /\ tail \in Index
      /\ storage \in [Index -> Byte] /\ tmp \in [0 .. Chunk - 1 -> Byte]
      /\ active \in BOOLEAN /\ emptyFrom \in {"none", "isr", "task"}
  BY DEF TypeOK
<1>2. have \in 0 .. RingSize - 1 /\ (have = 0 <=> head = tail)
  BY <1>1, RingLenBounds
<1>3. n \in 0 .. Chunk /\ n \in Index /\ n <= have /\ (n = 0 => head = tail)
  BY <1>2, ChunkAssumption, RingSizeAssumption DEF Index
<1>4. /\ tmp' = take /\ tail' = (tail + n) % RingSize
      /\ hal' = IF n > 0 THEN Transmit_IT(n) ELSE Idle
      /\ active' = (active /\ n > 0)
      /\ emptyFrom' = IF n > 0 THEN emptyFrom ELSE "isr"
  BY DEF uart_tx_kick
<1> HIDE DEF have, n
<1>5. tail' \in Index /\ RingLen(head, tail') = RingLen(head, tail) - n
  BY <1>1, <1>3, <1>4, PopSeveral DEF have
<1>6. \A j \in 0 .. Chunk - 1 : j < n => (tail + j) % RingSize \in Index
  BY <1>1, <1>3, SlotAt, RingSizeAssumption DEF Index
<1>7. /\ take \in [0 .. Chunk - 1 -> Byte]
      /\ \A j \in 0 .. Chunk - 1 : j < n => take[j] = storage[(tail + j) % RingSize]
  BY <1>1, <1>6
<1>8. /\ n > 0 => hal' = Transmit_IT(n) /\ active' = active /\ emptyFrom' = emptyFrom
      /\ n = 0 => hal' = Idle /\ active' = FALSE /\ emptyFrom' = "isr"
  <2>1. ASSUME n > 0
        PROVE  hal' = Transmit_IT(n) /\ active' = active /\ emptyFrom' = emptyFrom
    BY <1>1, <1>4, <2>1
  <2>2. ASSUME n = 0
        PROVE  hal' = Idle /\ active' = FALSE /\ emptyFrom' = "isr"
    <3>1. ~ (n > 0)
      BY <2>2
    <3>2. QED
      BY <1>4, <3>1
  <2>3. QED
    BY <2>1, <2>2
<1>9. n > 0 \/ n = 0
  BY <1>3
<1>10. Kicked(n)
  BY <1>1, <1>3, <1>4, <1>5, <1>7, <1>8, <1>9, Zenon DEF Kicked, have
<1>11. QED
  BY <1>10

-----------------------------------------------------------------------------

(* The bounds of the driver.                                                 *)
LEMMA DriverBounds ==
  /\ RingSize \in Nat /\ RingSize >= 2 /\ Chunk \in Nat /\ Chunk > 0
  /\ MaxWrite \in Nat /\ MaxBytes \in Nat
  /\ 0 \in Index /\ 0 \in Byte
  BY RingSizeAssumption, ChunkAssumption, BoundAssumption DEF Index, Byte

(* What becomes of the HAL's transfer is a transfer. *)
Transfer == [busy : BOOLEAN, size : 0 .. Chunk, sent : 0 .. Chunk]

(* The transfers HAL_UART_Transmit_IT starts.                                *)
LEMMA Transfers ==
  /\ \A n \in 0 .. Chunk : /\ Transmit_IT(n) \in Transfer
                          /\ Transmit_IT(n).busy = TRUE
                          /\ Transmit_IT(n).size = n /\ Transmit_IT(n).sent = 0
  /\ Idle \in Transfer /\ Idle.busy = FALSE /\ Idle.size = 0 /\ Idle.sent = 0
  /\ \A h \in Transfer :
       h.sent < h.size => LET g == [h EXCEPT !.sent = @ + 1]
                          IN  /\ g \in Transfer
                              /\ g.busy = h.busy /\ g.size = h.size /\ g.sent = h.sent + 1
<1>1. 0 \in 0 .. Chunk
  BY DriverBounds
<1>2. \A n \in 0 .. Chunk : /\ Transmit_IT(n) \in Transfer
                            /\ Transmit_IT(n).busy = TRUE
                            /\ Transmit_IT(n).size = n /\ Transmit_IT(n).sent = 0
  BY <1>1 DEF Transfer, Transmit_IT
<1>3. Idle \in Transfer /\ Idle.busy = FALSE /\ Idle.size = 0 /\ Idle.sent = 0
  BY <1>1 DEF Transfer, Idle
<1>4. ASSUME NEW h \in Transfer, h.sent < h.size
      PROVE  LET g == [h EXCEPT !.sent = @ + 1]
             IN  /\ g \in Transfer
                 /\ g.busy = h.busy /\ g.size = h.size /\ g.sent = h.sent + 1
  <2>1. h.sent + 1 \in 0 .. Chunk
    BY <1>4, DriverBounds DEF Transfer
  <2>2. QED
    BY <2>1 DEF Transfer
<1>5. QED
  BY <1>2, <1>3, <1>4

(* The transfer a kick leaves behind.                                        *)
LEMMA KickedTransfer ==
  ASSUME NEW n, Kicked(n)
  PROVE  /\ hal' \in Transfer /\ hal'.sent = 0 /\ hal'.size = n /\ hal'.sent <= hal'.size
         /\ n > 0 => hal'.busy = TRUE /\ active' = active
         /\ n = 0 => hal'.busy = FALSE /\ active' = FALSE
         /\ n > 0 \/ n = 0
<1>1. n \in 0 .. Chunk /\ n \in Nat
  BY DriverBounds DEF Kicked
<1>2. CASE n > 0
  <2>1. hal' = Transmit_IT(n) /\ active' = active
    BY <1>2 DEF Kicked
  <2>2. QED
    BY <1>1, <1>2, <2>1, Transfers
<1>3. CASE n = 0
  <2>1. hal' = Idle /\ active' = FALSE
    BY <1>3 DEF Kicked
  <2>2. QED
    BY <1>3, <2>1, Transfers
<1>4. n > 0 \/ n = 0
  BY <1>1
<1>5. QED
  BY <1>2, <1>3, <1>4, Zenon

(* A step of the driver keeps its types. *)
LEMMA TypeStep ==
  ASSUME TypeOK, WriteStarts, [Next]_vars
  PROVE  TypeOK'
<1> USE DriverBounds DEF TypeOK, ringVars, taskVars
<1>1. /\ next_index(head) \in Index /\ next_index(ltail) \in Index
      /\ pushed + left <= MaxWrite
  BY NextIndex DEF WriteStarts
<1>2. ASSUME uart_tx_kick, UNCHANGED <<storage, head, taskVars, accepted, wire>>,
             raced' = (raced \/ TaskInKick)
      PROVE  TypeOK'
  <2>1. PICK n : Kicked(n)
    BY <1>2, KickEffect
  <2>2. /\ tail' \in Index /\ tmp' \in [0 .. Chunk - 1 -> Byte]
        /\ emptyFrom' \in {"none", "isr", "task"} /\ n \in 0 .. Chunk
    BY <2>1 DEF Kicked
  <2>3. active' \in BOOLEAN
    <3>1. active' = active \/ active' = FALSE
      BY <2>1, KickedTransfer
    <3>2. QED
      BY <3>1
  <2>4. hal' \in Transfer /\ hal'.sent <= hal'.size
    BY <2>1, KickedTransfer
  <2>5. raced' \in BOOLEAN
    BY <1>2
  <2>6. QED
    BY <1>2, <2>2, <2>3, <2>4, <2>5 DEF Transfer
<1>3. ASSUME NEW n \in 1 .. MaxWrite, WriteCall(n)
      PROVE  TypeOK'
  BY <1>3 DEF WriteCall
<1>4. CASE PushByte
  <2>1. accepted + 1 \in Byte /\ accepted + 1 \in 0 .. MaxBytes
    BY <1>4 DEF PushByte, Byte
  <2>2. pushed + 1 \in 0 .. MaxWrite /\ left - 1 \in 0 .. MaxWrite
    BY <1>1, <1>4 DEF PushByte
  <2>3. storage' \in [Index -> Byte]
    BY <1>4, <2>1 DEF PushByte
  <2>4. QED
    BY <1>1, <1>4, <2>1, <2>2, <2>3 DEF PushByte
<1>5. CASE PushDone
  BY <1>5 DEF PushDone
<1>6. CASE TestActive
  BY <1>6 DEF TestActive
<1>7. CASE KickCheck
  BY <1>7 DEF KickCheck
<1>8. CASE KickRead
  <2>1. tmp' \in [0 .. Chunk - 1 -> Byte]
    BY <1>8 DEF KickRead
  <2>2. QED
    BY <1>8, <2>1 DEF KickRead
<1>9. CASE KickLoadTail
  BY <1>9 DEF KickLoadTail
<1>10. CASE KickStoreTail
  <2>1. popped + 1 \in 0 .. Chunk
    BY <1>10 DEF KickStoreTail
  <2>2. QED
    BY <1>1, <1>10, <2>1 DEF KickStoreTail
<1>11. CASE KickEmpty
  BY <1>11 DEF KickEmpty
<1>12. CASE KickTransmit
  <2>1. hal' \in Transfer /\ hal'.sent <= hal'.size
    <3>1. CASE hal' = Transmit_IT(popped)
      <4>1. popped \in 0 .. Chunk /\ 0 <= popped
        OBVIOUS
      <4>2. QED
        BY <3>1, <4>1, Transfers
    <3>2. CASE hal' = hal
      BY <3>2 DEF Transfer
    <3>3. hal' = hal \/ hal' = Transmit_IT(popped)
      BY <1>12 DEF KickTransmit
    <3>4. QED
      BY <3>1, <3>2, <3>3
  <2>2. active' \in BOOLEAN
    BY <1>12 DEF KickTransmit
  <2>3. QED
    BY <1>12, <2>1, <2>2 DEF KickTransmit, Transfer
<1>13. CASE TxByteIsr
  <2>1. hal.sent \in 0 .. Chunk - 1
    BY <1>13 DEF TxByteIsr
  <2>2. tmp[hal.sent] \in Byte
    BY <2>1
  <2>3. wire' \in Seq(Byte)
    BY <1>13, <2>2 DEF TxByteIsr
  <2>4. hal' \in Transfer /\ hal'.sent <= hal'.size
    <3>1. hal \in Transfer /\ hal.sent < hal.size /\ hal.sent \in Nat /\ hal.size \in Nat
      BY <1>13 DEF TxByteIsr, Transfer
    <3>2. hal' = [hal EXCEPT !.sent = @ + 1]
      BY <1>13 DEF TxByteIsr
    <3>3. hal' \in Transfer /\ hal'.size = hal.size /\ hal'.sent = hal.sent + 1
      BY <3>1, <3>2, Transfers, Zenon
    <3>4. QED
      BY <3>1, <3>3
  <2>5. QED
    BY <1>13, <2>3, <2>4 DEF TxByteIsr, Transfer
<1>14. CASE TxCpltCallback
  BY <1>2, <1>14 DEF TxCpltCallback
<1>15. CASE ErrorCallback
  BY <1>2, <1>15 DEF ErrorCallback
<1>16. CASE UNCHANGED vars
  BY <1>16 DEF vars
<1>17. QED
  BY <1>3, <1>4, <1>5, <1>6, <1>7, <1>8, <1>9, <1>10, <1>11, <1>12, <1>13, <1>14, <1>15,
     <1>16 DEF Next, Write, TxIsr

(***************************************************************************)
(* The transmitter never stops on a ring with bytes in it, whoever kicks   *)
(* it and whenever an interrupt comes.                                     *)
(***************************************************************************)
Alive == NoStall /\ ReadyOnlyInKick /\ WriteStarts

(* Every step keeps the transmitter from stalling.                           *)
LEMMA AliveStep ==
  ASSUME TypeOK, Alive, [Next]_vars
  PROVE  Alive'
<1> USE DriverBounds DEF Alive, NoStall, ReadyOnlyInKick, WriteStarts, TaskInKick, ringVars,
    taskVars
<1>1. /\ pushed \in Nat /\ left \in Nat /\ popped \in Nat
      /\ active \in BOOLEAN /\ hal.busy \in BOOLEAN
      /\ pc \in {"idle", "push", "test", "check", "read", "load", "store", "start"}
  BY DEF TypeOK
<1>2. ASSUME uart_tx_kick, UNCHANGED <<storage, head, taskVars, accepted, wire>>
      PROVE  Alive'
  <2>1. PICK n : Kicked(n)
    BY <1>2, KickEffect
  <2>2. \/ hal'.busy = TRUE /\ active' = active /\ n # 0
        \/ hal'.busy = FALSE /\ active' = FALSE /\ head = tail /\ n = 0
    BY <2>1 DEF Kicked, Transmit_IT, Idle
  <2>3. head = tail => tail' = tail
    <3>1. ASSUME head = tail
          PROVE  tail' = tail
      <4>1. head \in Index /\ tail \in Index
        BY DEF TypeOK
      <4>2. n = 0
        BY <2>1, <3>1, <4>1, RingLenBounds DEF Kicked, Index
      <4>3. (tail + 0) % RingSize = tail
        BY <4>1, Slots
      <4>4. QED
        BY <2>1, <4>2, <4>3 DEF Kicked
    <3>2. QED
      BY <3>1
  <2>4. QED
    BY <1>1, <1>2, <2>2, <2>3
<1>3. ASSUME NEW n \in 1 .. MaxWrite, WriteCall(n)
      PROVE  Alive'
  BY <1>1, <1>3 DEF WriteCall
<1>4. CASE PushByte
  BY <1>1, <1>4 DEF PushByte
<1>5. CASE PushDone
  BY <1>1, <1>5 DEF PushDone
<1>6. CASE TestActive
  BY <1>1, <1>6 DEF TestActive
<1>7. CASE KickCheck
  BY <1>1, <1>7 DEF KickCheck
<1>8. CASE KickRead
  BY <1>1, <1>8 DEF KickRead
<1>9. CASE KickLoadTail
  BY <1>1, <1>9 DEF KickLoadTail
<1>10. CASE KickStoreTail
  BY <1>1, <1>10 DEF KickStoreTail
<1>11. CASE KickEmpty
  BY <1>1, <1>11 DEF KickEmpty
<1>12. CASE KickTransmit
  <2>1. hal'.busy = TRUE
    BY <1>1, <1>12 DEF KickTransmit, Transmit_IT
  <2>2. QED
    BY <1>1, <1>12, <2>1 DEF KickTransmit
<1>13. CASE TxByteIsr
  <2>1. hal'.busy = hal.busy
    BY <1>13 DEF TxByteIsr, TypeOK
  <2>2. QED
    BY <1>1, <1>13, <2>1 DEF TxByteIsr
<1>14. CASE TxCpltCallback
  BY <1>2, <1>14 DEF TxCpltCallback
<1>15. CASE ErrorCallback
  BY <1>2, <1>15 DEF ErrorCallback
<1>16. CASE UNCHANGED vars
  BY <1>16 DEF vars
<1>17. QED
  BY <1>3, <1>4, <1>5, <1>6, <1>7, <1>8, <1>9, <1>10, <1>11, <1>12, <1>13, <1>14, <1>15,
     <1>16 DEF Next, Write, TxIsr

-----------------------------------------------------------------------------
(***************************************************************************)
(* s_tx_active excludes the task from the interrupt's pops and the         *)
(* interrupt from the task's, until the first interrupt that pops inside   *)
(* the task's kick: that is the error callback, which finds s_tx_active    *)
(* set and the transmitter READY.                                          *)
(***************************************************************************)
LEMMA OneConsumerStep ==
  ASSUME TypeOK, WriteStarts, OneConsumer, ~ raced, [Next]_vars, ~ raced'
  PROVE  OneConsumer'
<1> USE DEF OneConsumer, TaskInKick, InTransfer, ringVars, taskVars
<1>1. /\ hal \in Transfer /\ hal.busy \in BOOLEAN /\ active \in BOOLEAN
      /\ hal.size \in Nat /\ hal.sent \in Nat /\ popped \in 0 .. Chunk
      /\ pc \in {"idle", "push", "test", "check", "read", "load", "store", "start"}
  BY DriverBounds DEF TypeOK, Transfer
<1>2. ASSUME NEW n \in 1 .. MaxWrite, WriteCall(n)
      PROVE  OneConsumer'
  BY <1>1, <1>2 DEF WriteCall
<1>3. CASE PushByte
  BY <1>1, <1>3 DEF PushByte
<1>4. CASE PushDone
  BY <1>1, <1>4 DEF PushDone
<1>5. CASE TestActive
  BY <1>1, <1>5 DEF TestActive
<1>6. CASE KickCheck
  BY <1>1, <1>6 DEF KickCheck
<1>7. CASE KickRead
  BY <1>1, <1>7 DEF KickRead
<1>8. CASE KickLoadTail
  BY <1>1, <1>8 DEF KickLoadTail
<1>9. CASE KickStoreTail
  BY <1>1, <1>9 DEF KickStoreTail
<1>10. CASE KickEmpty
  BY <1>1, <1>10 DEF KickEmpty
<1>11. CASE KickTransmit
  <2>1. pc = "start" /\ pc' = "idle" /\ ~ hal.busy /\ active = TRUE
    BY <1>1, <1>11 DEF KickTransmit
  <2>2. hal' = Transmit_IT(popped) /\ active' = TRUE
    BY <2>1, <1>11 DEF KickTransmit
  <2>3. hal'.busy = TRUE
    BY <1>1, <2>2, Transfers
  <2>4. QED
    BY <2>1, <2>2, <2>3
<1>12. CASE TxByteIsr
  <2>1. hal.busy /\ hal.sent < hal.size /\ hal' = [hal EXCEPT !.sent = @ + 1]
    BY <1>12 DEF TxByteIsr
  <2>2. hal'.busy = hal.busy
    BY <1>1, <2>1, Transfers, Zenon
  <2>3. UNCHANGED <<head, tail, ltail, active, pc, popped>>
    BY <1>12 DEF TxByteIsr
  <2>4. QED
    BY <1>1, <2>1, <2>2, <2>3
<1>13. CASE TxCpltCallback
  <2>1. hal.busy /\ ~ TaskInKick /\ active = TRUE /\ UNCHANGED pc
    BY <1>1, <1>13 DEF TxCpltCallback
  <2>2. PICK n : Kicked(n)
    BY <1>13, KickEffect DEF TxCpltCallback
  <2>3. /\ hal'.sent = 0 /\ hal'.size = n
        /\ \/ hal'.busy = TRUE /\ active' = TRUE
           \/ hal'.busy = FALSE /\ active' = FALSE /\ n = 0
    BY <2>1, <2>2, KickedTransfer
  <2>4. QED
    BY <2>1, <2>3
<1>14. CASE ErrorCallback
  BY <1>1, <1>14 DEF ErrorCallback
<1>15. CASE UNCHANGED vars
  BY <1>15 DEF vars
<1>16. QED
  BY <1>2, <1>3, <1>4, <1>5, <1>6, <1>7, <1>8, <1>9, <1>10, <1>11, <1>12, <1>13, <1>14,
     <1>15 DEF Next, Write, TxIsr

(* What the invariant says of the oldest byte in the ring, and of numbers. *)
LEMMA Placed ==
  ASSUME TypeOK
  PROVE  /\ Len(wire) \in Nat /\ wire \in Seq(Byte)
         /\ hal.size \in 0 .. Chunk /\ hal.sent \in 0 .. Chunk /\ hal.sent <= hal.size
         /\ popped \in 0 .. Chunk /\ accepted \in Nat
         /\ head \in Index /\ tail \in Index
         /\ storage \in [Index -> Byte] /\ tmp \in [0 .. Chunk - 1 -> Byte]
         /\ RingLen(head, tail) \in Index /\ (RingLen(head, tail) = 0 <=> head = tail)
         /\ InTransfer \in Nat /\ InHand \in Nat /\ Taken \in Nat
<1>1. /\ Len(wire) \in Nat /\ wire \in Seq(Byte)
      /\ hal.size \in 0 .. Chunk /\ hal.sent \in 0 .. Chunk /\ hal.sent <= hal.size
      /\ popped \in 0 .. Chunk /\ accepted \in Nat
      /\ head \in Index /\ tail \in Index
      /\ storage \in [Index -> Byte] /\ tmp \in [0 .. Chunk - 1 -> Byte]
  BY DriverBounds DEF TypeOK
<1>2. RingLen(head, tail) \in Index /\ (RingLen(head, tail) = 0 <=> head = tail)
  BY <1>1, RingLenBounds DEF Index
<1>3. InTransfer \in Nat /\ InHand \in Nat
  BY <1>1, DriverBounds DEF InTransfer, InHand
<1>4. QED
  BY <1>1, <1>2, <1>3 DEF Taken

(* A step that moves no byte. *)
LEMMA NothingMoved ==
  ASSUME BytesInPlace, UNCHANGED <<storage, head, tail, tmp, hal, accepted, wire>>,
         InHand' = InHand, HandNumbered'
  PROVE  BytesInPlace'
<1>1. Taken' = Taken
  BY DEF Taken, InTransfer
<1>2. WireNumbered' /\ TransferNumbered'
  BY DEF BytesInPlace, WireNumbered, TransferNumbered
<1>3. AllCounted' /\ RingNumbered'
  BY <1>1 DEF BytesInPlace, AllCounted, RingNumbered, RingLen, Index
<1>4. QED
  BY <1>2, <1>3 DEF BytesInPlace

(* A byte pushed is the last of the ring. *)
LEMMA PushMoves ==
  ASSUME TypeOK, BytesInPlace, PushByte
  PROVE  BytesInPlace'
<1> DEFINE k == RingLen(head, tail)
<1>1. /\ Taken \in Nat /\ accepted \in Nat /\ k \in Index /\ head \in Index /\ tail \in Index
      /\ storage \in [Index -> Byte]
  BY Placed
<1>2. /\ next_index(head) # tail /\ head' = next_index(head) /\ accepted' = accepted + 1
      /\ storage' = [storage EXCEPT ![head] = accepted + 1]
      /\ UNCHANGED <<tail, tmp, hal, pc, popped, wire>>
  BY DEF PushByte
<1>3. WireNumbered' /\ TransferNumbered' /\ HandNumbered'
  BY <1>2 DEF BytesInPlace, WireNumbered, TransferNumbered, HandNumbered, TaskInKick
<1>4. Taken' = Taken
  BY <1>2 DEF Taken, InTransfer, InHand, TaskInKick
<1>5. RingLen(head', tail') = k + 1
  BY <1>1, <1>2, RingLenBounds
<1>6. accepted = Taken + k
  BY DEF BytesInPlace, AllCounted
<1> HIDE DEF k
<1>7. AllCounted'
  BY <1>1, <1>2, <1>4, <1>5, <1>6, DriverBounds DEF AllCounted, Index
<1>8. ASSUME NEW r \in Index, r < k + 1
      PROVE  storage'[(tail + r) % RingSize] = Taken + r + 1
  <2>1. (tail + r) % RingSize \in Index
    BY <1>1, SlotAt
  <2>2. CASE r < k
    <3>1. storage[(tail + r) % RingSize] = Taken + r + 1
      BY <2>2 DEF BytesInPlace, RingNumbered, k
    <3>2. (tail + r) % RingSize # head
      BY <1>1, <2>2, Slots DEF k
    <3>3. QED
      BY <1>1, <1>2, <2>1, <3>1, <3>2
  <2>3. CASE r = k
    <3>1. (tail + r) % RingSize = head
      BY <1>1, <2>3, Slots DEF k
    <3>2. QED
      BY <1>1, <1>2, <1>6, <2>3, <3>1
  <2>4. QED
    BY <1>1, <1>8, <2>2, <2>3, DriverBounds DEF Index
<1>9. RingNumbered'
  BY <1>2, <1>4, <1>5, <1>8 DEF RingNumbered
<1>10. QED
  BY <1>3, <1>7, <1>9 DEF BytesInPlace

(* The pop of one byte in the task's kick: the copy, then the release. *)
LEMMA CopyInPlace ==
  ASSUME TypeOK, OneConsumer, BytesInPlace, KickRead
  PROVE  BytesInPlace'
<1>1. /\ popped \in 0 .. Chunk - 1 /\ tmp \in [0 .. Chunk - 1 -> Byte]
      /\ Len(wire) \in Nat /\ head \in Index /\ tail \in Index
      /\ RingLen(head, tail) > 0 /\ 0 \in Index
  BY Placed, DriverBounds DEF TypeOK, KickRead, OneConsumer, Index
<1>2. /\ pc = "read" /\ pc' = "load" /\ tmp' = [tmp EXCEPT ![popped] = storage[tail]]
      /\ UNCHANGED <<storage, head, tail, hal, popped, accepted, wire>>
  BY DEF KickRead, ringVars
<1>3. ~ hal.busy /\ InTransfer = 0 /\ hal.size = hal.sent /\ Taken = Len(wire) + popped
  BY <1>1, <1>2, Placed DEF OneConsumer, TaskInKick, Taken, InTransfer, InHand
<1>4. storage[tail] = Len(wire) + popped + 1
  <2>1. (tail + 0) % RingSize = tail
    BY <1>1, Slots
  <2>2. storage[(tail + 0) % RingSize] = Taken + 0 + 1
    BY <1>1 DEF BytesInPlace, RingNumbered
  <2>3. QED
    BY <1>1, <1>3, <2>1, <2>2
<1>5. Taken' = Taken
  BY <1>2 DEF Taken, InTransfer, InHand, TaskInKick
<1>6. WireNumbered' /\ AllCounted' /\ RingNumbered'
  BY <1>2, <1>5 DEF BytesInPlace, WireNumbered, AllCounted, RingNumbered
<1>7. TransferNumbered'
  BY <1>2, <1>3, Placed DEF TransferNumbered
<1>8. HandNumbered'
  <2> SUFFICES ASSUME NEW j \in 0 .. Chunk - 1, j <= popped
               PROVE  tmp'[j] = Len(wire) + j + 1
    BY <1>1, <1>2 DEF HandNumbered
  <2>1. CASE j = popped
    BY <1>1, <1>2, <1>4, <2>1
  <2>2. CASE j < popped
    BY <1>1, <1>2, <2>2 DEF BytesInPlace, HandNumbered, TaskInKick
  <2>3. QED
    BY <1>1, <2>1, <2>2
<1>9. QED
  BY <1>6, <1>7, <1>8 DEF BytesInPlace

(* Releasing the popped bytes keeps the rest in place.                       *)
LEMMA ReleaseInPlace ==
  ASSUME TypeOK, OneConsumer, BytesInPlace, KickStoreTail
  PROVE  BytesInPlace'
<1> DEFINE k == RingLen(head, tail)
<1>1. /\ popped \in 0 .. Chunk - 1 /\ Len(wire) \in Nat /\ head \in Index /\ tail \in Index
      /\ k \in Index /\ Taken \in Nat /\ InTransfer \in Nat /\ accepted \in Nat
  BY Placed, DriverBounds DEF TypeOK, KickStoreTail
<1>2. /\ pc = "store" /\ pc' = "check" /\ tail' = next_index(tail) /\ popped' = popped + 1
      /\ UNCHANGED <<storage, head, tmp, hal, accepted, wire>> /\ head # tail
  BY DEF KickStoreTail, OneConsumer
<1>3. Taken' = Taken + 1
  BY <1>1, <1>2 DEF Taken, InTransfer, InHand, TaskInKick
<1>4. RingLen(head', tail') = k - 1
  BY <1>1, <1>2, RingLenBounds
<1>5. WireNumbered' /\ TransferNumbered'
  BY <1>2 DEF BytesInPlace, WireNumbered, TransferNumbered
<1>6. accepted = Taken + k
  BY DEF BytesInPlace, AllCounted
<1> HIDE DEF k
<1>7. AllCounted'
  BY <1>1, <1>2, <1>3, <1>4, <1>6, DriverBounds DEF AllCounted, Index
<1>8. ASSUME NEW r \in Index, r < k - 1
      PROVE  storage[(next_index(tail) + r) % RingSize] = Taken + 1 + r + 1
  <2>1. r + 1 \in Index /\ r + 1 < k
    BY <1>1, <1>8, DriverBounds DEF Index
  <2>2. (next_index(tail) + r) % RingSize = (tail + (r + 1)) % RingSize
    BY <1>1, <2>1, Slots
  <2>3. storage[(tail + (r + 1)) % RingSize] = Taken + (r + 1) + 1
    BY <2>1 DEF BytesInPlace, RingNumbered, k
  <2>4. QED
    BY <1>1, <2>2, <2>3, DriverBounds DEF Index
<1>9. RingNumbered'
  BY <1>2, <1>3, <1>4, <1>8 DEF RingNumbered
<1>10. HandNumbered'
  <2> SUFFICES ASSUME NEW j \in 0 .. Chunk - 1, j < popped + 1
               PROVE  tmp[j] = Len(wire) + j + 1
    BY <1>1, <1>2 DEF HandNumbered
  <2>1. j < popped \/ j = popped
    BY <1>1
  <2>2. QED
    BY <1>2, <2>1 DEF BytesInPlace, HandNumbered, TaskInKick
<1>11. QED
  BY <1>5, <1>7, <1>9, <1>10 DEF BytesInPlace

(* The chunk assembled becomes the transfer. *)
LEMMA HandedOver ==
  ASSUME TypeOK, OneConsumer, BytesInPlace, KickTransmit
  PROVE  BytesInPlace'
<1>1. /\ pc = "start" /\ pc' = "idle" /\ ~ hal.busy /\ hal' = Transmit_IT(popped)
      /\ UNCHANGED <<storage, head, tail, tmp, popped, accepted, wire>>
  BY DEF KickTransmit, OneConsumer, TaskInKick, ringVars
<1>2. popped \in 0 .. Chunk /\ Len(wire) \in Nat
  BY Placed
<1>3. hal'.size = popped /\ hal'.sent = 0
  BY <1>1, <1>2, Transfers
<1>4. Taken' = Taken
  BY <1>1, <1>2, <1>3, DriverBounds DEF OneConsumer, Taken, InTransfer, InHand, TaskInKick
<1>5. WireNumbered' /\ AllCounted' /\ RingNumbered'
  BY <1>1, <1>4 DEF BytesInPlace, WireNumbered, AllCounted, RingNumbered
<1>6. TransferNumbered'
  BY <1>1, <1>2, <1>3 DEF BytesInPlace, HandNumbered, TransferNumbered, TaskInKick
<1>7. HandNumbered'
  BY <1>1 DEF HandNumbered, TaskInKick
<1>8. QED
  BY <1>5, <1>6, <1>7 DEF BytesInPlace

(* A byte sent is the next one the line has to carry. *)
LEMMA SentInOrder ==
  ASSUME TypeOK, OneConsumer, BytesInPlace, ~ raced, TxByteIsr
  PROVE  BytesInPlace'
<1>1. /\ hal.busy /\ hal.sent < hal.size /\ hal' = [hal EXCEPT !.sent = @ + 1]
      /\ wire' = Append(wire, tmp[hal.sent])
      /\ UNCHANGED <<storage, head, tail, tmp, pc, popped, accepted>>
  BY DEF TxByteIsr, ringVars, taskVars
<1>2. /\ hal \in Transfer /\ hal.sent \in 0 .. Chunk - 1 /\ hal.size \in 0 .. Chunk
      /\ Len(wire) \in Nat /\ wire \in Seq(Byte) /\ tmp \in [0 .. Chunk - 1 -> Byte]
      /\ popped \in Nat
  <2>1. hal \in Transfer /\ tmp \in [0 .. Chunk - 1 -> Byte] /\ popped \in Nat /\ wire \in Seq(Byte)
    BY DEF TypeOK, Transfer
  <2>2. hal.sent \in 0 .. Chunk /\ hal.size \in 0 .. Chunk
    BY <2>1 DEF Transfer
  <2>3. Len(wire) \in Nat
    BY <2>1
  <2>4. QED
    BY <1>1, <2>1, <2>2, <2>3, DriverBounds
<1>3. hal'.size = hal.size /\ hal'.sent = hal.sent + 1
  BY <1>1, <1>2, Transfers, Zenon
<1>4. tmp[hal.sent] = Len(wire) + 1
  BY <1>1, <1>2 DEF BytesInPlace, TransferNumbered
<1>5. /\ Len(wire') = Len(wire) + 1
      /\ wire' = [i \in 1 .. Len(wire) + 1 |-> IF i = Len(wire) + 1 THEN Len(wire) + 1 ELSE wire[i]]
  BY <1>1, <1>2, <1>4
<1>6. WireNumbered'
  <2>1. \A i \in 1 .. Len(wire) : wire[i] = i
    BY DEF BytesInPlace, WireNumbered
  <2>2. wire' = [i \in 1 .. Len(wire) + 1 |-> i]
    BY <1>2, <1>5, <2>1
  <2>3. QED
    BY <1>5, <2>2 DEF WireNumbered
<1>7. Taken' = Taken
  <2>1. InHand' = InHand /\ InHand \in Nat
    BY <1>1, <1>2 DEF InHand, TaskInKick
  <2>2. Len(wire') + InTransfer' = Len(wire) + InTransfer
    <3>1. hal.size \in Int /\ hal.sent \in Int /\ Len(wire) \in Int
      BY <1>2, DriverBounds
    <3>2. InTransfer' = hal.size - (hal.sent + 1)
      BY <1>3 DEF InTransfer
    <3>3. Len(wire') = Len(wire) + 1
      BY <1>5
    <3>4. QED
      BY <3>1, <3>2, <3>3 DEF InTransfer
  <2>3. QED
    BY <2>1, <2>2 DEF Taken
<1>8. AllCounted' /\ RingNumbered'
  BY <1>1, <1>7 DEF BytesInPlace, AllCounted, RingNumbered
<1>9. TransferNumbered'
  <2> SUFFICES ASSUME NEW j \in 0 .. Chunk - 1, hal.sent + 1 <= j, j < hal.size
               PROVE  tmp[j] = Len(wire) + 1 + (j - (hal.sent + 1)) + 1
    BY <1>1, <1>3, <1>5 DEF TransferNumbered
  <2>1. tmp[j] = Len(wire) + (j - hal.sent) + 1
    BY <1>2 DEF BytesInPlace, TransferNumbered
  <2>2. hal.sent \in Int /\ j \in Int /\ Len(wire) \in Int
    BY <1>2, DriverBounds
  <2>3. QED
    BY <2>1, <2>2
<1>10. HandNumbered'
  BY <1>1 DEF HandNumbered, OneConsumer, TaskInKick
<1>11. QED
  BY <1>6, <1>8, <1>9, <1>10 DEF BytesInPlace

(* The interrupt's kick takes the next bytes of the ring, and leaves the rest. *)
LEMMA NextChunkInOrder ==
  ASSUME TypeOK, OneConsumer, BytesInPlace, TxCpltCallback
  PROVE  BytesInPlace'
<1> DEFINE k == RingLen(head, tail)
<1>1. /\ hal.busy /\ hal.sent = hal.size /\ ~ TaskInKick /\ ~ TaskInKick'
      /\ UNCHANGED <<storage, head, pc, popped, accepted, wire>>
  BY DEF TxCpltCallback, OneConsumer, TaskInKick, taskVars
<1>2. PICK n : Kicked(n)
  BY KickEffect DEF TxCpltCallback
<1>3. /\ Len(wire) \in Nat /\ accepted \in Nat /\ head \in Index /\ tail \in Index /\ k \in Index
      /\ n \in 0 .. Chunk /\ n \in Index /\ n <= k /\ hal.size \in 0 .. Chunk
  BY <1>2, Placed DEF Kicked
<1>4. hal'.sent = 0 /\ hal'.size = n
  BY <1>2, KickedTransfer
<1>5. Taken = Len(wire) /\ Taken' = Len(wire) + n
  BY <1>1, <1>3, <1>4 DEF Taken, InTransfer, InHand
<1>6. tail' = (tail + n) % RingSize /\ RingLen(head', tail') = k - n
  BY <1>1, <1>2 DEF Kicked
<1>7. ASSUME NEW r \in Index, r < k
      PROVE  storage[(tail + r) % RingSize] = Len(wire) + r + 1
  BY <1>5, <1>7 DEF BytesInPlace, RingNumbered
<1>8. accepted = Len(wire) + k
  BY <1>5 DEF BytesInPlace, AllCounted
<1>9. ASSUME NEW r \in Index, n + r \in Index
      PROVE  (tail' + r) % RingSize = (tail + (n + r)) % RingSize
  BY <1>3, <1>6, <1>9, PopSeveral
<1> HIDE DEF k
<1>10. WireNumbered'
  BY <1>1 DEF BytesInPlace, WireNumbered
<1>11. AllCounted'
  BY <1>1, <1>3, <1>5, <1>6, <1>8, DriverBounds DEF AllCounted, Index
<1>12. RingNumbered'
  <2> SUFFICES ASSUME NEW r \in Index, r < k - n
               PROVE  storage[(tail' + r) % RingSize] = Len(wire) + n + r + 1
    BY <1>1, <1>5, <1>6 DEF RingNumbered
  <2>1. n + r \in Index /\ n + r < k
    BY <1>3, DriverBounds DEF Index
  <2>2. storage[(tail + (n + r)) % RingSize] = Len(wire) + (n + r) + 1
    BY <1>7, <2>1
  <2>3. QED
    BY <1>3, <1>9, <2>1, <2>2, DriverBounds DEF Index
<1>13. TransferNumbered'
  <2> SUFFICES ASSUME NEW j \in 0 .. Chunk - 1, j < n
               PROVE  tmp'[j] = Len(wire) + j + 1
    BY <1>1, <1>4 DEF TransferNumbered
  <2>1. j \in Index /\ j < k
    BY <1>3, DriverBounds DEF Index
  <2>2. QED
    BY <1>2, <1>7, <2>1 DEF Kicked
<1>14. HandNumbered'
  BY <1>1 DEF HandNumbered, TaskInKick
<1>15. QED
  BY <1>10, <1>11, <1>12, <1>13, <1>14 DEF BytesInPlace

(* Every step keeps the bytes in place until a race.                         *)
LEMMA BytesStep ==
  ASSUME TypeOK, WriteStarts, OneConsumer, BytesInPlace, ~ raced, [Next]_vars, ~ raced'
  PROVE  BytesInPlace'
<1> USE DEF ringVars, taskVars
<1>1. HandNumbered
  BY DEF BytesInPlace
<1>2. ASSUME NEW n \in 1 .. MaxWrite, WriteCall(n)
      PROVE  BytesInPlace'
  BY <1>2, <1>1, NothingMoved DEF WriteCall, HandNumbered, InHand, TaskInKick
<1>3. CASE PushByte
  BY <1>3, PushMoves
<1>4. CASE PushDone
  BY <1>4, <1>1, NothingMoved DEF PushDone, HandNumbered, InHand, TaskInKick
<1>5. CASE TestActive
  <2>1. /\ popped' = 0 /\ pc = "test" /\ pc' \in {"idle", "check"}
        /\ UNCHANGED <<storage, head, tail, tmp, hal, accepted, wire>>
    BY <1>5 DEF TestActive
  <2>2. InHand' = InHand
    BY <2>1 DEF InHand, TaskInKick
  <2>3. HandNumbered'
    BY <2>1, DriverBounds DEF HandNumbered, TaskInKick
  <2>4. QED
    BY <2>1, <2>2, <2>3, NothingMoved
<1>6. CASE KickCheck
  BY <1>6, <1>1, NothingMoved DEF KickCheck, HandNumbered, InHand, TaskInKick
<1>7. CASE KickRead
  BY <1>7, CopyInPlace
<1>8. CASE KickLoadTail
  BY <1>8, <1>1, NothingMoved DEF KickLoadTail, HandNumbered, InHand, TaskInKick
<1>9. CASE KickStoreTail
  BY <1>9, ReleaseInPlace
<1>10. CASE KickEmpty
  BY <1>10, <1>1, NothingMoved DEF KickEmpty, HandNumbered, InHand, TaskInKick
<1>11. CASE KickTransmit
  BY <1>11, HandedOver
<1>12. CASE TxByteIsr
  BY <1>12, SentInOrder
<1>13. CASE TxCpltCallback
  BY <1>13, NextChunkInOrder
<1>14. CASE ErrorCallback
  BY <1>14 DEF ErrorCallback, OneConsumer
<1>15. CASE UNCHANGED vars
  BY <1>15, <1>1, NothingMoved DEF vars, HandNumbered, InHand, TaskInKick
<1>16. QED
  BY <1>2, <1>3, <1>4, <1>5, <1>6, <1>7, <1>8, <1>9, <1>10, <1>11, <1>12, <1>13, <1>14,
     <1>15 DEF Next, Write, TxIsr

(* The start of the driver.                                                  *)
LEMMA UartInit == Init => UartInv
<1> SUFFICES ASSUME Init
             PROVE  UartInv
  OBVIOUS
<1> USE DriverBounds DEF Init
<1>1. Idle \in Transfer /\ hal = Idle /\ hal.busy = FALSE /\ hal.size = 0 /\ hal.sent = 0
  BY Transfers
<1>2. TypeOK
  <2>1. /\ storage \in [Index -> Byte] /\ tmp \in [0 .. Chunk - 1 -> Byte]
        /\ hal \in Transfer /\ hal.sent <= hal.size /\ wire \in Seq(Byte)
    BY <1>1
  <2>2. QED
    BY <2>1 DEF TypeOK, Transfer
<1>3. Alive
  BY <1>1 DEF Alive, NoStall, ReadyOnlyInKick, WriteStarts
<1>4. OneConsumer
  BY <1>1 DEF OneConsumer, TaskInKick, InTransfer
<1>5. Taken = 0 /\ RingLen(head, tail) = 0 /\ Len(wire) = 0
  BY <1>1 DEF Taken, InTransfer, InHand, TaskInKick, RingLen
<1>6. BytesInPlace
  BY <1>1, <1>5
  DEF BytesInPlace, WireNumbered, AllCounted, RingNumbered, TransferNumbered, HandNumbered,
      TaskInKick, Index
<1>7. QED
  BY <1>2, <1>3, <1>4, <1>6 DEF UartInv, Alive

(* Every step of the driver.                                                 *)
LEMMA UartStep == UartInv /\ [Next]_vars => UartInv'
<1> SUFFICES ASSUME UartInv, [Next]_vars
             PROVE  UartInv'
  OBVIOUS
<1>1. TypeOK'
  BY TypeStep DEF UartInv
<1>2. Alive'
  BY AliveStep DEF UartInv, Alive
<1>3. ASSUME ~ raced'
      PROVE  OneConsumer' /\ BytesInPlace'
  <2>1. ~ raced
    BY <1>3
    DEF Next, Write, TxIsr, WriteCall, PushByte, PushDone, TestActive, KickCheck, KickRead,
        KickLoadTail, KickStoreTail, KickEmpty, KickTransmit, TxByteIsr, TxCpltCallback,
        ErrorCallback, vars
  <2>2. QED
    BY <1>3, <2>1, OneConsumerStep, BytesStep DEF UartInv
<1>4. QED
  BY <1>1, <1>2, <1>3 DEF UartInv, Alive

(***************************************************************************)
(* The driver keeps its invariant whatever its client writes, and whenever *)
(* the interrupts come.                                                    *)
(***************************************************************************)
THEOREM DriverInvariance == Spec => []UartInv
  BY UartInit, UartStep, PTL DEF Spec

(* Bytes in place are bytes in order on the wire.                            *)
LEMMA InOrder == UartInv => InOrderUntilRaced
<1> SUFFICES ASSUME UartInv, ~ raced
             PROVE  /\ wire = [i \in 1 .. Len(wire) |-> i]
                    /\ accepted = Len(wire) + (hal.size - hal.sent)
                                  + (IF TaskInKick THEN popped ELSE 0) + RingLen(head, tail)
  BY DEF InOrderUntilRaced
<1>1. QED
  BY DEF UartInv, BytesInPlace, WireNumbered, AllCounted, Taken, InTransfer, InHand

(***************************************************************************)
(* No byte stays in the ring of a transmitter that is READY, s_tx_active   *)
(* is set on a READY transmitter only inside the task's kick, and until an *)
(* interrupt pops inside the task's pop the line carries the accepted      *)
(* bytes, each once and in order.                                          *)
(***************************************************************************)
THEOREM Transmitting == Spec => [](NoStall /\ ReadyOnlyInKick /\ InOrderUntilRaced)
<1>1. UartInv => NoStall /\ ReadyOnlyInKick /\ InOrderUntilRaced
  BY InOrder DEF UartInv
<1>2. QED
  BY <1>1, DriverInvariance, PTL

-----------------------------------------------------------------------------
(***************************************************************************)
(* The log service.  serial_write is called by the log task alone, which   *)
(* waits for it; what is left to write is what the call has not taken.     *)
(***************************************************************************)
Writing == at \in {"flush", "write"}
Unwritten == Len(Source) - pushed

Driving ==
  /\ pc # "idle" => up /\ Writing
  /\ ~ up => pushed = 0
  /\ up /\ Writing => pushed + left = Len(Source)
  /\ at = "flush" => pending # <<>>
  /\ at \in {"init", "recv", "write"} => pending = <<>>
  /\ IF at = "write" THEN cur \in Line ELSE cur = NoLine

(***************************************************************************)
(* The wake-up of the log task is decided inside serial_write already: a   *)
(* call that returns with bytes left leaves a transfer running, or the     *)
(* notification behind.  While the task initialises, lines may come.       *)
(***************************************************************************)
WakesUp ==
  /\ up /\ at = "wait" /\ pending # <<>> => notified \/ hal.busy
  /\ up /\ Writing /\ Returned /\ Unwritten > 0 => notified \/ hal.busy
  /\ at \in {"init", "wait"} /\ inbox # <<>> =>
       notified \/ pending # <<>> \/ \E s \in Sender : spc[s] = "noti"

(* The owners of the line buffers, and that no two own the same.            *)
Held == {s \in Sender : spc[s] = "send"}
InWriting == IF at = "write" THEN {cur} ELSE {}

Apart ==
  /\ \A s \in Held : buf[s] \in Line
  /\ \A s, t \in Held : buf[s] = buf[t] => s = t
  /\ \A i, j \in DOMAIN inbox : inbox[i] = inbox[j] => i = j
  /\ \A s \in Held : \A i \in DOMAIN inbox : buf[s] # inbox[i]
  /\ at = "write" => (\A s \in Held : buf[s] # cur) /\ (\A i \in DOMAIN inbox : inbox[i] # cur)

Numbered == IsFiniteSet(heap) /\ \A l \in heap : l.n <= lines

(***************************************************************************)
(* There is room for every byte in the bound MaxBytes, so that a push ends *)
(* early only on a full ring: a line not yet started counts in full.       *)
(***************************************************************************)
Waiting == IF Writing THEN Unwritten ELSE Len(pending)
Full(k) == (LineMax + 1) * k
Accounted ==
  accepted + Waiting + Full(Len(inbox) + Cardinality(Held)) <= Full(lines)

Service ==
  /\ LogTypeOK
  /\ UartInv
  /\ Driving
  /\ WakesUp
  /\ Apart
  /\ OneOwner
  /\ Numbered
  /\ Accounted

(* The bounds of the log service.                                            *)
LEMMA LogBounds ==
  /\ QueueLen \in Nat /\ QueueLen > 0 /\ MaxLines \in Nat /\ LineMax \in Nat /\ LineMax >= 2
  /\ MaxWrite = LineMax + 2 /\ MaxBytes = Full(MaxLines)
  /\ Logger \in Sender /\ IsFiniteSet(Sender)
<1>1. MaxLines * (LineMax + 1) = (LineMax + 1) * MaxLines
  BY SizeAssumption
<1>2. QED
  BY <1>1, SizeAssumption, LoggerAssumption, WriteBoundsAssumption DEF PendingSize, Full

(* The bytes of k full lines.                                                *)
LEMMA FullLines ==
  ASSUME NEW k \in Nat
  PROVE  /\ Full(k) \in Nat
         /\ Full(k + 1) = Full(k) + (LineMax + 1)
         /\ \A m \in Nat : k <= m => Full(k) <= Full(m)
<1>1. LineMax + 1 \in Nat
  BY LogBounds
<1>2. Full(k) \in Nat /\ Full(k + 1) = Full(k) + (LineMax + 1)
  BY <1>1 DEF Full
<1>3. ASSUME NEW m \in Nat, k <= m
      PROVE  Full(k) <= Full(m)
  <2>1. PICK d \in Nat : m = k + d
    <3>1. m - k \in Nat /\ m = k + (m - k)
      BY <1>3
    <3>2. QED
      BY <3>1
  <2>2. (LineMax + 1) * (k + d) = (LineMax + 1) * k + (LineMax + 1) * d
    BY <1>1
  <2>3. (LineMax + 1) * d \in Nat
    BY <1>1
  <2>4. QED
    BY <1>1, <1>2, <2>1, <2>2, <2>3 DEF Full
<1>4. QED
  BY <1>2, <1>3

(* The text of a line and what a write leaves of it. *)
Piece == UNION {Range(Text(l)) : l \in Line}

(* The text of a line.                                                       *)
LEMMA TextOf ==
  ASSUME NEW l \in Line
  PROVE  Text(l) \in Seq(Piece) /\ Len(Text(l)) = l.len /\ l.len \in 3 .. LineMax + 1
<1>1. l.len \in 3 .. LineMax + 1 /\ l.len \in Nat
  BY LogBounds DEF Line
<1> DEFINE w(i) == [line |-> l.n, left |-> l.len - i]
<1>2. Text(l) = [i \in 1 .. l.len |-> w(i)]
  BY DEF Text
<1> HIDE DEF w
<1>3. \A i \in 1 .. l.len : w(i) \in Piece
  <2> SUFFICES ASSUME NEW i \in 1 .. l.len
               PROVE  w(i) \in Piece
    OBVIOUS
  <2>1. w(i) \in Range(Text(l))
    BY <1>2 DEF Range
  <2>2. QED
    BY <2>1 DEF Piece
<1>4. QED
  BY <1>1, <1>2, <1>3

(* What is left of a text to push.                                           *)
LEMMA RestOf ==
  ASSUME NEW S, NEW s \in Seq(S), pushed \in Nat, pushed <= Len(s)
  PROVE  /\ Rest(s) \in Seq(S) /\ Len(Rest(s)) = Len(s) - pushed
         /\ Rest(s) = <<>> <=> Len(s) - pushed = 0
<1>1. Len(s) \in Nat
  OBVIOUS
<1>2. Rest(s) \in Seq(S) /\ Len(Rest(s)) = Len(s) - pushed
  BY <1>1 DEF Rest
<1>3. QED
  BY <1>1, <1>2

(* What the log task writes is never empty, and fits one call. *)
LEMMA SourceOf ==
  ASSUME LogTypeOK, Driving, Writing
  PROVE  /\ Source \in Seq(Piece) /\ Len(Source) \in 1 .. MaxWrite
         /\ pushed \in Nat /\ pushed <= Len(Source) /\ Unwritten \in Nat
         /\ up => Unwritten = left
<1>1. /\ pushed \in Nat /\ left \in Nat /\ up \in BOOLEAN
      /\ pending \in Seq(Piece) /\ Len(pending) <= LineMax + 2 /\ cur \in Line \cup {NoLine}
  BY DriverBounds DEF LogTypeOK, TypeOK, Piece, PendingSize
<1>2. Source \in Seq(Piece) /\ Len(Source) \in 1 .. MaxWrite
  <2>1. CASE at = "flush"
    <3>1. Source = pending /\ pending # <<>>
      BY <2>1 DEF Source, Driving
    <3>2. Len(pending) \in Nat /\ Len(pending) # 0
      BY <1>1, <3>1
    <3>3. QED
      BY <1>1, <3>1, <3>2, LogBounds
  <2>2. CASE at = "write"
    <3>1. Source = Text(cur) /\ cur \in Line
      BY <2>2 DEF Source, Driving
    <3>2. QED
      BY <3>1, TextOf, LogBounds
  <2>3. QED
    BY <2>1, <2>2 DEF Writing
<1>3. pushed <= Len(Source) /\ (up => Unwritten = left)
  BY <1>1, <1>2 DEF Driving, Unwritten
<1>4. QED
  BY <1>1, <1>2, <1>3 DEF Unwritten

-----------------------------------------------------------------------------

(* serial_write is a call the driver allows.                                 *)
LEMMA ServeWrite ==
  ASSUME NEW n \in 1 .. MaxWrite, serial_write(n), pc = "idle", ~ up => pushed = 0
  PROVE  /\ [Next]_vars /\ pushed' = 0 /\ UNCHANGED <<hal, accepted, head, tail>>
         /\ up => pc' = "push" /\ left' = n
         /\ ~ up => pc' = "idle"
<1>1. CASE up
  <2>1. WriteCall(n)
    BY <1>1 DEF serial_write
  <2>2. [Next]_vars
    BY <2>1 DEF Next
  <2>3. QED
    BY <1>1, <2>1, <2>2 DEF WriteCall, ringVars
<1>2. CASE ~ up
  <2>1. UNCHANGED vars
    BY <1>2 DEF serial_write, vars
  <2>2. QED
    BY <1>2, <2>1 DEF vars
<1>3. QED
  BY <1>1, <1>2

(* The log task calls serial_write only between the calls, with what fits.  *)
LEMMA CallsServe ==
  ASSUME LogTypeOK, Driving
  PROVE  /\ Wake /\ pending # <<>> => serial_write(Len(pending)) /\ Len(pending) \in 1 .. MaxWrite
         /\ Recv => /\ serial_write(cur'.len) /\ cur'.len \in 1 .. MaxWrite
                    /\ cur' = Head(inbox) /\ cur' \in Line
         /\ Wake \/ Recv => pc = "idle" /\ (~ up => pushed = 0)
<1>1. /\ pending \in Seq(Piece) /\ Len(pending) <= MaxWrite /\ inbox \in Seq(Line)
  BY LogBounds DEF LogTypeOK, PendingSize, Piece
<1>2. Wake \/ Recv => pc = "idle" /\ (~ up => pushed = 0)
  BY DEF Wake, Recv, Driving, Writing
<1>3. ASSUME Wake, pending # <<>>
      PROVE  serial_write(Len(pending)) /\ Len(pending) \in 1 .. MaxWrite
  <2>1. Len(pending) \in Nat /\ Len(pending) # 0
    BY <1>1, <1>3
  <2>2. serial_write(Len(pending))
    BY <1>3 DEF Wake
  <2>3. QED
    BY <1>1, <2>1, <2>2, LogBounds
<1>4. ASSUME Recv
      PROVE  serial_write(cur'.len) /\ cur'.len \in 1 .. MaxWrite /\ cur' = Head(inbox) /\ cur' \in Line
  <2>1. inbox # <<>> /\ cur' = Head(inbox) /\ serial_write(cur'.len)
    BY <1>4 DEF Recv
  <2>2. cur' \in Line
    BY <1>1, <2>1
  <2>3. QED
    BY <2>1, <2>2, LogBounds DEF Line
<1>5. QED
  BY <1>2, <1>3, <1>4

(* What the log service does to the driver are steps of the driver. *)
LEMMA DrivesStep ==
  ASSUME LogTypeOK, Driving, [LogNext]_logVars
  PROVE  [Next]_vars
<1>1. ASSUME UNCHANGED uartVars
      PROVE  [Next]_vars
  BY <1>1 DEF uartVars
<1>2. ASSUME NEW s \in Sender, log_printf(s) \/ Post(s)
      PROVE  UNCHANGED uartVars
  BY <1>2 DEF log_printf, Post, PostQueued, PostTimeout, PostNoti
<1>3. CASE InitDone \/ FlushDone \/ WriteDone \/ RecvEmpty
  <2>1. UNCHANGED uartVars
    BY <1>3 DEF InitDone, FlushDone, WriteDone, RecvEmpty
  <2>2. QED
    BY <1>1, <2>1
<1>4. CASE Wake
  <2>1. CASE pending = <<>>
    BY <1>1, <1>4, <2>1 DEF Wake
  <2>2. CASE pending # <<>>
    BY <1>4, <2>2, CallsServe, ServeWrite
  <2>3. QED
    BY <2>1, <2>2
<1>5. CASE Recv
  BY <1>5, CallsServe, ServeWrite
<1>6. CASE UartWrite \/ UartIsr \/ UartError
  BY <1>6 DEF UartWrite, UartIsr, UartError, Next
<1>7. CASE UNCHANGED logVars
  BY <1>1, <1>7 DEF logVars
<1>8. QED
  BY <1>1, <1>2, <1>3, <1>4, <1>5, <1>6, <1>7 DEF LogNext, LogTask

(***************************************************************************)
(* The steps of the driver under the log service: where in uart_write they *)
(* are taken, and that they never take a wake-up away.                     *)
(***************************************************************************)
LEMMA UartWriteEffect ==
  ASSUME LogTypeOK, Driving, UartWrite
  PROVE  /\ up /\ Writing /\ pc # "idle"
         /\ UNCHANGED <<up, heap, inbox, spc, buf, lines, order, at, cur, pending>>
         /\ \/ PushByte /\ accepted' = accepted + 1 /\ left > 0
               /\ pushed' = pushed + 1 /\ left' = left - 1 /\ pc' # "idle"
            \/ ~ PushByte /\ UNCHANGED <<accepted, pushed, left>>
         /\ notified => notified'
<1>1. Write /\ UNCHANGED <<up, heap, inbox, spc, buf, lines, order, at, cur, pending>>
  BY DEF UartWrite, senderVars
<1>2. notified => notified'
  BY DEF UartWrite, log_tx_isr
<1>3. pc # "idle"
  BY <1>1 DEF Write, PushByte, PushDone, TestActive, KickCheck, KickRead, KickLoadTail,
     KickStoreTail, KickEmpty, KickTransmit
<1>4. PushByte => accepted' = accepted + 1 /\ left > 0 /\ pushed' = pushed + 1
                  /\ left' = left - 1 /\ pc' # "idle"
  BY DEF PushByte
<1>5. ~ PushByte => UNCHANGED <<accepted, pushed, left>>
  BY <1>1 DEF Write, PushDone, TestActive, KickCheck, KickRead, KickLoadTail,
     KickStoreTail, KickEmpty, KickTransmit
<1>6. up /\ Writing
  BY <1>3 DEF Driving
<1>7. QED
  BY <1>1, <1>2, <1>3, <1>4, <1>5, <1>6

(* The driver's interrupts leave the log service alone.                      *)
LEMMA UartInterruptEffect ==
  ASSUME LogTypeOK, UartIsr \/ UartError
  PROVE  /\ UNCHANGED <<up, heap, inbox, spc, buf, lines, order, at, cur, pending>>
         /\ UNCHANGED <<pc, left, pushed, accepted>>
         /\ notified => notified'
         /\ notified' \/ hal'.busy
<1>1. UNCHANGED <<up, heap, inbox, spc, buf, lines, order, at, cur, pending>>
  BY DEF UartIsr, UartError, senderVars
<1>2. UNCHANGED <<pc, left, pushed, accepted>>
  BY DEF UartIsr, UartError, TxIsr, TxByteIsr, TxCpltCallback, ErrorCallback, taskVars
<1>3. notified' = (notified \/ ~ hal'.busy)
  BY DEF UartIsr, UartError, log_tx_isr
<1>4. QED
  BY <1>1, <1>2, <1>3

-----------------------------------------------------------------------------
(* A line formatted gets a buffer no other line has. *)
LEMMA Formats ==
  ASSUME LogTypeOK, NEW s \in Sender, log_printf(s)
  PROVE  \E b \in Line :
           /\ b.n = lines + 1 /\ buf' = [buf EXCEPT ![s] = b] /\ heap' = heap \cup {b}
           /\ lines' = lines + 1 /\ lines + 1 \in 1 .. MaxLines
<1>1. lines + 1 \in 1 .. MaxLines
  BY LogBounds DEF LogTypeOK, log_printf
<1>2. PICK n \in Formatted : buf' = [buf EXCEPT ![s] = [n |-> lines + 1, len |-> LineLength(n)]]
  BY DEF log_printf
<1> DEFINE b == [n |-> lines + 1, len |-> LineLength(n)]
<1>3. LineLength(n) \in 3 .. LineMax + 1
  BY LogBounds DEF Formatted, LineLength
<1>4. b \in Line /\ b.n = lines + 1
  BY <1>1, <1>3 DEF Line
<1> HIDE DEF b
<1>5. buf' = [buf EXCEPT ![s] = b]
  BY <1>2 DEF b
<1>6. buf'[s] = b /\ heap' = heap \cup {b} /\ lines' = lines + 1
  BY <1>5 DEF LogTypeOK, log_printf
<1>7. QED
  BY <1>1, <1>4, <1>5, <1>6

(* Every step keeps the types.                                               *)
LEMMA LogTypeStep ==
  ASSUME LogTypeOK, Driving, Apart, [LogNext]_logVars, TypeOK'
  PROVE  LogTypeOK'
<1> USE DEF LogTypeOK, senderVars
<1>1. /\ inbox \in Seq(Line) /\ NoLine \in Line \cup {NoLine}
      /\ pending \in Seq(Piece) /\ Len(pending) \in 0 .. PendingSize
  <2>1. pending \in Seq(Piece) /\ Len(pending) <= PendingSize
    BY DEF Piece
  <2>2. Len(pending) \in Nat
    BY <2>1
  <2>3. QED
    BY <2>1, <2>2, LogBounds DEF PendingSize
<1>2. ASSUME NEW s \in Sender, log_printf(s)
      PROVE  LogTypeOK'
  <2>1. PICK b \in Line :
          /\ b.n = lines + 1 /\ buf' = [buf EXCEPT ![s] = b] /\ heap' = heap \cup {b}
          /\ lines' = lines + 1 /\ lines + 1 \in 1 .. MaxLines
    BY <1>2, Formats
  <2>2. buf' \in [Sender -> Line \cup {NoLine}] /\ heap' \in SUBSET Line /\ lines' \in 0 .. MaxLines
    BY <2>1, LogBounds
  <2>3. spc' \in [Sender -> {"idle", "send", "noti"}]
    BY <1>2 DEF log_printf
  <2>4. QED
    BY <1>2, <2>2, <2>3 DEF log_printf
<1>3. ASSUME NEW s \in Sender, PostQueued(s)
      PROVE  LogTypeOK'
  <2>1. buf[s] \in Line
    BY <1>3 DEF PostQueued, Apart, Held
  <2>2. inbox' \in Seq(Line) /\ Len(inbox') <= QueueLen
    BY <1>1, <1>3, <2>1, LogBounds DEF PostQueued
  <2>3. spc' \in [Sender -> {"idle", "send", "noti"}] /\ buf' \in [Sender -> Line \cup {NoLine}]
    BY <1>1, <1>3 DEF PostQueued
  <2>4. QED
    BY <1>3, <2>2, <2>3 DEF PostQueued
<1>4. ASSUME NEW s \in Sender, PostTimeout(s)
      PROVE  LogTypeOK'
  <2>1. spc' \in [Sender -> {"idle", "send", "noti"}] /\ buf' \in [Sender -> Line \cup {NoLine}]
    BY <1>1, <1>4 DEF PostTimeout
  <2>2. QED
    BY <1>4, <2>1 DEF PostTimeout
<1>5. ASSUME NEW s \in Sender, PostNoti(s)
      PROVE  LogTypeOK'
  BY <1>5 DEF PostNoti
<1>6. CASE InitDone
  BY <1>6 DEF InitDone
<1>7. CASE Wake
  <2>1. at' \in {"recv", "flush"} /\ notified' = FALSE
    BY <1>7 DEF Wake
  <2>2. QED
    BY <1>7, <2>1 DEF Wake
<1>8. CASE FlushDone
  <2>1. Source \in Seq(Piece) /\ pushed \in Nat /\ pushed <= Len(Source) /\ Source = pending
    BY <1>8, SourceOf DEF FlushDone, Writing, Source
  <2>2. pending' \in Seq(Piece) /\ Len(pending') <= PendingSize
    BY <1>1, <1>8, <2>1, RestOf, LogBounds DEF FlushDone, PendingSize
  <2>3. at' \in {"recv", "wait"}
    BY <1>8 DEF FlushDone
  <2>4. QED
    BY <1>8, <2>2, <2>3 DEF FlushDone, Piece
<1>9. CASE Recv
  <2>1. inbox' = Tail(inbox) /\ inbox # <<>> /\ cur' \in Line
    BY <1>9, CallsServe DEF Recv
  <2>2. inbox' \in Seq(Line) /\ Len(inbox') <= QueueLen
    BY <1>1, <2>1, LogBounds
  <2>3. QED
    BY <1>9, <2>1, <2>2 DEF Recv
<1>10. CASE WriteDone
  <2>1. Source \in Seq(Piece) /\ pushed \in Nat /\ pushed <= Len(Source) /\ Source = Text(cur)
        /\ Len(Source) \in 1 .. MaxWrite
    BY <1>10, SourceOf DEF WriteDone, Writing, Source
  <2>2. pending' \in Seq(Piece) /\ Len(pending') <= PendingSize
    BY <1>10, <2>1, RestOf, LogBounds DEF WriteDone, PendingSize
  <2>3. at' \in {"recv", "wait"}
    BY <1>10 DEF WriteDone
  <2>4. heap' \in SUBSET Line /\ cur' = NoLine
    BY <1>10 DEF WriteDone
  <2>5. QED
    BY <1>10, <2>2, <2>3, <2>4 DEF WriteDone, Piece
<1>11. CASE RecvEmpty
  BY <1>11 DEF RecvEmpty
<1>12. CASE UartWrite
  BY <1>12 DEF UartWrite, log_tx_isr
<1>13. CASE UartIsr
  BY <1>13 DEF UartIsr, log_tx_isr
<1>14. CASE UartError
  BY <1>14 DEF UartError, log_tx_isr
<1>15. CASE UNCHANGED logVars
  BY <1>15 DEF logVars
<1>16. QED
  BY <1>2, <1>3, <1>4, <1>5, <1>6, <1>7, <1>8, <1>9, <1>10, <1>11, <1>12, <1>13, <1>14,
     <1>15 DEF LogNext, LogTask, Post

(* The sender's steps leave the log task and the driver alone. *)
LEMMA SenderEffect ==
  ASSUME NEW s \in Sender, log_printf(s) \/ Post(s)
  PROVE  UNCHANGED <<uartVars, up, at, cur, pending>>
  BY DEF log_printf, Post, PostQueued, PostTimeout, PostNoti

(* Every step keeps the log task where its call of the driver is.            *)
LEMMA DrivingStep ==
  ASSUME LogTypeOK, Driving, [LogNext]_logVars
  PROVE  Driving'
<1>1. ASSUME UNCHANGED <<up, at, cur, pending, pc, left, pushed>>
      PROVE  Driving'
  BY <1>1 DEF Driving, Writing, Source, Text
<1>2. ASSUME NEW s \in Sender, log_printf(s) \/ Post(s)
      PROVE  Driving'
  <2>1. UNCHANGED <<uartVars, up, at, cur, pending>>
    BY <1>2, SenderEffect
  <2>2. QED
    BY <1>1, <2>1 DEF uartVars, vars
<1>3. CASE InitDone \/ RecvEmpty
  <2>1. /\ UNCHANGED <<up, cur, pending, pc, left, pushed>> /\ at' = "wait"
        /\ at \in {"init", "recv"}
    BY <1>3 DEF InitDone, RecvEmpty, uartVars, vars
  <2>2. QED
    BY <2>1 DEF Driving, Writing
<1>4. CASE Wake
  <2>1. at = "wait" /\ UNCHANGED <<up, cur, pending>> /\ cur = NoLine /\ pc = "idle"
    BY <1>4 DEF Wake, Driving, Writing
  <2>2. CASE pending = <<>>
    <3>1. at' = "recv" /\ UNCHANGED <<pc, left, pushed>>
      BY <1>4, <2>2 DEF Wake, uartVars, vars
    <3>2. QED
      BY <2>1, <2>2, <3>1 DEF Driving, Writing
  <2>3. CASE pending # <<>>
    <3>1. at' = "flush" /\ serial_write(Len(pending)) /\ Len(pending) \in 1 .. MaxWrite
      BY <1>4, <2>3, CallsServe DEF Wake
    <3>2. /\ pushed' = 0 /\ (up => pc' = "push" /\ left' = Len(pending))
          /\ (~ up => pc' = "idle")
      BY <1>4, <3>1, CallsServe, ServeWrite
    <3>3. Source' = pending /\ Len(pending) \in Nat
      BY <2>1, <3>1, DriverBounds DEF Source
    <3>4. QED
      BY <2>1, <2>3, <3>1, <3>2, <3>3 DEF Driving, Writing
  <2>4. QED
    BY <2>2, <2>3
<1>5. CASE FlushDone
  <2>1. /\ at = "flush" /\ pc = "idle" /\ cur = NoLine
        /\ UNCHANGED <<up, cur, pc, left, pushed>>
        /\ at' = IF pending' = <<>> THEN "recv" ELSE "wait"
    BY <1>5 DEF FlushDone, Returned, uartVars, vars, Driving
  <2>2. QED
    BY <2>1 DEF Driving, Writing
<1>6. CASE Recv
  <2>1. /\ at' = "write" /\ serial_write(cur'.len) /\ cur'.len \in 1 .. MaxWrite
        /\ cur' \in Line /\ UNCHANGED <<up, pending>> /\ pending = <<>>
    BY <1>6, CallsServe DEF Recv, Driving
  <2>2. /\ pushed' = 0 /\ (up => pc' = "push" /\ left' = cur'.len)
        /\ (~ up => pc' = "idle")
    BY <1>6, <2>1, CallsServe, ServeWrite
  <2>3. Source' = Text(cur)'
    BY <2>1 DEF Source
  <2>4. Len(Source') = cur'.len /\ cur'.len \in Nat
    <3>1. \A l \in Line : Len(Text(l)) = l.len
      BY TextOf
    <3>2. Text(cur)' = Text(cur')
      BY DEF Text
    <3>3. QED
      BY <2>1, <2>3, <3>1, <3>2, DriverBounds
  <2>5. QED
    BY <2>1, <2>2, <2>4 DEF Driving, Writing
<1>7. CASE WriteDone
  <2>1. /\ at = "write" /\ pc = "idle" /\ cur' = NoLine
        /\ UNCHANGED <<up, pc, left, pushed>>
        /\ at' = IF pending' = <<>> THEN "recv" ELSE "wait"
    BY <1>7 DEF WriteDone, Returned, uartVars, vars
  <2>2. QED
    BY <2>1 DEF Driving, Writing
<1>8. CASE UartWrite
  <2>1. UNCHANGED <<up, at, cur, pending>> /\ up /\ Writing
    BY <1>8, UartWriteEffect
  <2>2. pushed' + left' = pushed + left
    <3>1. pushed \in Nat /\ left \in Nat
      BY DriverBounds DEF LogTypeOK, TypeOK
    <3>2. QED
      BY <1>8, <3>1, UartWriteEffect
  <2>3. Source' = Source
    BY <2>1 DEF Source, Text
  <2>4. QED
    BY <2>1, <2>2, <2>3 DEF Driving, Writing
<1>9. CASE UartIsr \/ UartError
  BY <1>1, <1>9, UartInterruptEffect
<1>10. CASE UNCHANGED logVars
  BY <1>1, <1>10 DEF logVars, uartVars, vars
<1>11. QED
  BY <1>2, <1>3, <1>4, <1>5, <1>6, <1>7, <1>8, <1>9, <1>10 DEF LogNext, LogTask

-----------------------------------------------------------------------------
(* The senders that hold a buffer, as they get and give away theirs. *)
LEMMA HeldSenders ==
  /\ IsFiniteSet(Held) /\ Cardinality(Held) \in Nat
  /\ \A s \in Sender :
       /\ s \notin Held => Cardinality(Held \cup {s}) = Cardinality(Held) + 1
       /\ s \in Held => Cardinality(Held \ {s}) = Cardinality(Held) - 1
<1>1. IsFiniteSet(Held)
  BY LogBounds, FS_Subset DEF Held
<1>2. QED
  BY <1>1, FS_CardinalityType, FS_AddElement, FS_RemoveElement

(* Every step keeps what the writers hold.                                   *)
LEMMA HeldStep ==
  ASSUME LogTypeOK, NEW s \in Sender
  PROVE  /\ log_printf(s) => s \notin Held /\ Held' = Held \cup {s}
         /\ PostQueued(s) \/ PostTimeout(s) => s \in Held /\ Held' = Held \ {s}
         /\ PostNoti(s) => Held' = Held
<1>1. /\ log_printf(s) => spc[s] = "idle" /\ spc' = [spc EXCEPT ![s] = "send"]
      /\ PostQueued(s) => spc[s] = "send" /\ spc' = [spc EXCEPT ![s] = "noti"]
      /\ PostTimeout(s) => spc[s] = "send" /\ spc' = [spc EXCEPT ![s] = "idle"]
      /\ PostNoti(s) => spc[s] = "noti" /\ spc' = [spc EXCEPT ![s] = "idle"]
  BY DEF log_printf, PostQueued, PostTimeout, PostNoti
<1>2. spc \in [Sender -> {"idle", "send", "noti"}]
  BY DEF LogTypeOK
<1>3. QED
  BY <1>1, <1>2 DEF Held

(***************************************************************************)
(* Bytes that were not written yet, and lines that were not begun, are     *)
(* counted by the lines formatted.                                         *)
(***************************************************************************)
LEMMA AccountedStep ==
  ASSUME LogTypeOK, Driving, Accounted, [LogNext]_logVars
  PROVE  Accounted'
<1> DEFINE k == Len(inbox) + Cardinality(Held)
<1>1. /\ accepted \in Nat /\ lines \in Nat /\ k \in Nat /\ pushed \in Nat
      /\ Len(inbox) \in Nat /\ Cardinality(Held) \in Nat /\ Len(pending) \in Nat
      /\ pending \in Seq(Piece) /\ inbox \in Seq(Line)
  BY HeldSenders, DriverBounds, LogBounds DEF LogTypeOK, TypeOK, Piece
<1>2. Writing => Unwritten \in Nat
  BY SourceOf
<1>3. Waiting \in Nat /\ Full(k) \in Nat /\ Full(lines) \in Nat
  BY <1>1, <1>2, FullLines DEF Waiting
<1>4. accepted + Waiting + Full(k) <= Full(lines)
  BY DEF Accounted
<1>5. ASSUME UNCHANGED <<lines, inbox, Held>>, accepted' + Waiting' = accepted + Waiting
      PROVE  Accounted'
  <2>1. Full(k)' = Full(k) /\ Full(lines)' = Full(lines)
    BY <1>5 DEF Full
  <2>2. (accepted' + Waiting') + Full(k)' <= Full(lines)'
    BY <1>4, <1>5, <2>1
  <2>3. QED
    BY <2>2 DEF Accounted
<1>6. ASSUME NEW s \in Sender, log_printf(s) \/ Post(s)
      PROVE  UNCHANGED <<accepted, Waiting>>
  <2>1. UNCHANGED <<uartVars, up, at, cur, pending>>
    BY <1>6, SenderEffect
  <2>2. QED
    BY <2>1 DEF uartVars, vars, Waiting, Writing, Unwritten, Source, Text
<1> HIDE DEF k
<1>7. ASSUME NEW s \in Sender, log_printf(s)
      PROVE  Accounted'
  <2>1. inbox' = inbox /\ lines' = lines + 1
    BY <1>7 DEF log_printf
  <2>2. Cardinality(Held') = Cardinality(Held) + 1
    BY <1>7, HeldStep, HeldSenders
  <2>3. (Len(inbox) + Cardinality(Held))' = k + 1
    BY <1>1, <2>1, <2>2 DEF k
  <2>4. Full(k + 1) = Full(k) + (LineMax + 1) /\ Full(lines + 1) = Full(lines) + (LineMax + 1)
    BY <1>1, FullLines
  <2>5. accepted + Waiting + Full(k + 1) <= Full(lines + 1)
    BY <1>1, <1>3, <1>4, <2>4, LogBounds
  <2>6. QED
    BY <1>6, <1>7, <2>1, <2>3, <2>5 DEF Accounted, Full
<1>8. ASSUME NEW s \in Sender, PostQueued(s)
      PROVE  Accounted'
  <2>1. Len(inbox') = Len(inbox) + 1 /\ lines' = lines
    BY <1>1, <1>8 DEF PostQueued
  <2>2. Cardinality(Held') = Cardinality(Held) - 1
    BY <1>8, HeldStep, HeldSenders
  <2>3. (Len(inbox) + Cardinality(Held))' = k
    BY <1>1, <2>1, <2>2 DEF k
  <2>4. QED
    BY <1>4, <1>6, <1>8, <2>1, <2>3 DEF Accounted, Full, Post
<1>9. ASSUME NEW s \in Sender, PostTimeout(s)
      PROVE  Accounted'
  <2>1. UNCHANGED <<inbox, lines>>
    BY <1>9 DEF PostTimeout
  <2>2. Cardinality(Held') = Cardinality(Held) - 1 /\ Cardinality(Held') \in Nat
    <3>1. Held' = Held \ {s} /\ Cardinality(Held') = Cardinality(Held) - 1
      BY <1>9, HeldStep, HeldSenders
    <3>2. Cardinality(Held \ {s}) \in Nat
      BY HeldSenders, FS_RemoveElement, FS_CardinalityType
    <3>3. QED
      BY <3>1, <3>2
  <2>3. (Len(inbox) + Cardinality(Held))' = k - 1 /\ k - 1 \in Nat
    BY <1>1, <2>1, <2>2 DEF k
  <2>4. Full(k - 1) <= Full(k) /\ Full(k - 1) \in Nat
    BY <1>1, <2>3, FullLines
  <2>5. accepted + Waiting + Full(k - 1) <= Full(lines)
    BY <1>1, <1>3, <1>4, <2>4
  <2>6. QED
    BY <1>6, <1>9, <2>1, <2>3, <2>5 DEF Accounted, Full, Post
<1>10. ASSUME NEW s \in Sender, PostNoti(s)
       PROVE  Accounted'
  <2>1. UNCHANGED <<inbox, lines>> /\ Held' = Held
    BY <1>10, HeldStep DEF PostNoti
  <2>2. QED
    BY <1>1, <1>3, <1>5, <1>6, <1>10, <2>1 DEF Post
<1>11. CASE InitDone \/ RecvEmpty
  <2>1. UNCHANGED <<inbox, lines, accepted, pending, spc>> /\ ~ Writing /\ ~ Writing'
    BY <1>11 DEF InitDone, RecvEmpty, uartVars, vars, senderVars, Writing
  <2>2. QED
    BY <1>1, <1>5, <2>1 DEF Waiting, Held
<1>12. CASE Wake
  <2>1. UNCHANGED <<inbox, lines, pending, spc>> /\ at = "wait"
    BY <1>12 DEF Wake, senderVars
  <2>2. accepted' = accepted
    <3>1. CASE pending = <<>>
      BY <1>12, <3>1 DEF Wake, uartVars, vars
    <3>2. CASE pending # <<>>
      BY <1>12, <3>2, CallsServe, ServeWrite
    <3>3. QED
      BY <3>1, <3>2
  <2>3. Waiting' = Len(pending) /\ Waiting = Len(pending)
    <3>1. CASE pending = <<>>
      BY <1>12, <2>1, <3>1 DEF Wake, Waiting, Writing
    <3>2. CASE pending # <<>>
      <4>1. pushed' = 0 /\ at' = "flush"
        BY <1>12, <3>2, CallsServe, ServeWrite DEF Wake
      <4>2. QED
        BY <1>1, <2>1, <4>1 DEF Waiting, Writing, Unwritten, Source
    <3>3. QED
      BY <3>1, <3>2
  <2>4. QED
    BY <1>1, <1>5, <2>1, <2>2, <2>3 DEF Held
<1>13. CASE FlushDone
  <2>1. /\ UNCHANGED <<inbox, lines, spc, accepted>> /\ at = "flush" /\ at' \in {"recv", "wait"}
        /\ pending' = Rest(pending)
    BY <1>13 DEF FlushDone, uartVars, vars, senderVars
  <2>2. Source = pending /\ Writing /\ ~ Writing' /\ pushed <= Len(Source)
    BY <2>1, SourceOf DEF Source, Writing
  <2>3. Len(pending') = Len(pending) - pushed
    BY <1>1, <2>1, <2>2, RestOf
  <2>4. Waiting' = Waiting
    BY <2>2, <2>3 DEF Waiting, Unwritten
  <2>5. QED
    BY <1>1, <1>3, <1>5, <2>1, <2>4 DEF Held
<1>14. CASE Recv
  <2>1. /\ UNCHANGED <<lines, spc, pending>> /\ at' = "write" /\ at = "recv"
        /\ inbox # <<>> /\ inbox' = Tail(inbox) /\ cur' \in Line /\ pending = <<>>
    BY <1>14, CallsServe DEF Recv, senderVars, Driving
  <2>2. pushed' = 0 /\ accepted' = accepted
    BY <1>14, CallsServe, ServeWrite
  <2>3. Len(inbox') = Len(inbox) - 1 /\ Len(inbox) > 0
    BY <1>1, <2>1
  <2>4. (Len(inbox) + Cardinality(Held))' = k - 1 /\ k - 1 \in Nat
    BY <1>1, <2>1, <2>3 DEF k, Held
  <2>5. Full(k) = Full(k - 1) + (LineMax + 1) /\ Full(k - 1) \in Nat
    <3>1. Full((k - 1) + 1) = Full(k - 1) + (LineMax + 1) /\ Full(k - 1) \in Nat
      BY <2>4, FullLines
    <3>2. (k - 1) + 1 = k
      BY <1>1
    <3>3. QED
      BY <3>1, <3>2
  <2>6. Waiting' = cur'.len /\ cur'.len \in Nat /\ cur'.len <= LineMax + 1 /\ Waiting = 0
    <3>1. \A l \in Line : Len(Text(l)) = l.len /\ l.len \in 3 .. LineMax + 1
      BY TextOf
    <3>2. Source' = Text(cur')
      BY <2>1 DEF Source, Text
    <3>3. Waiting' = Len(Source') - 0
      BY <2>1, <2>2 DEF Waiting, Writing, Unwritten
    <3>4. Waiting = 0
      BY <2>1 DEF Waiting, Writing
    <3>5. QED
      BY <2>1, <3>1, <3>2, <3>3, <3>4, LogBounds
  <2>7. accepted + cur'.len + Full(k - 1) <= Full(lines)
    <3>1. accepted + 0 + (Full(k - 1) + (LineMax + 1)) <= Full(lines)
      BY <1>4, <2>5, <2>6
    <3>2. /\ cur'.len \in Nat /\ cur'.len <= LineMax + 1
          /\ Full(k - 1) \in Nat /\ Full(lines) \in Nat
      BY <1>3, <2>5, <2>6
    <3>3. accepted \in Nat /\ LineMax \in Nat
      BY <1>1, LogBounds
    <3>4. \A a, l, f, m, g \in Nat : a + 0 + (f + (m + 1)) <= g /\ l <= m + 1 => a + l + f <= g
      OBVIOUS
    <3>5. QED
      BY <3>1, <3>2, <3>3, <3>4
  <2>8. QED
    BY <2>1, <2>2, <2>4, <2>6, <2>7 DEF Accounted, Full
<1>15. CASE WriteDone
  <2>1. /\ UNCHANGED <<inbox, lines, spc, accepted>> /\ at = "write" /\ at' \in {"recv", "wait"}
        /\ pending' = Rest(Text(cur)) /\ cur \in Line
    BY <1>15 DEF WriteDone, uartVars, vars, senderVars, Driving
  <2>2. Source = Text(cur) /\ Writing /\ ~ Writing' /\ pushed <= Len(Source) /\ Source \in Seq(Piece)
    BY <2>1, SourceOf DEF Source, Writing
  <2>3. Len(pending') = Len(Source) - pushed
    BY <1>1, <2>1, <2>2, RestOf
  <2>4. Waiting' = Waiting
    BY <2>2, <2>3 DEF Waiting, Unwritten
  <2>5. QED
    BY <1>1, <1>3, <1>5, <2>1, <2>4 DEF Held
<1>16. CASE UartWrite
  <2>1. /\ UNCHANGED <<inbox, lines, spc, at, cur, pending>> /\ Writing
        /\ \/ accepted' = accepted + 1 /\ pushed' = pushed + 1
           \/ UNCHANGED <<accepted, pushed>>
    BY <1>16, UartWriteEffect
  <2>2. Writing' /\ Source' = Source
    BY <2>1 DEF Writing, Source, Text
  <2>3. Len(Source) \in Nat
    BY <2>1, SourceOf, DriverBounds
  <2>4. accepted' + Waiting' = accepted + Waiting
    BY <1>1, <2>1, <2>2, <2>3 DEF Waiting, Unwritten
  <2>5. QED
    BY <1>5, <2>1, <2>4 DEF Held
<1>17. CASE UartIsr \/ UartError
  <2>1. UNCHANGED <<inbox, lines, spc, at, cur, pending, accepted, pushed>>
    BY <1>17, UartInterruptEffect
  <2>2. Waiting' = Waiting
    BY <2>1 DEF Waiting, Writing, Unwritten, Source, Text
  <2>3. QED
    BY <1>1, <1>3, <1>5, <2>1, <2>2 DEF Held
<1>18. CASE UNCHANGED logVars
  <2>1. UNCHANGED <<inbox, lines, spc, at, cur, pending, accepted, pushed>>
    BY <1>18 DEF logVars, uartVars, vars
  <2>2. Waiting' = Waiting
    BY <2>1 DEF Waiting, Writing, Unwritten, Source, Text
  <2>3. QED
    BY <1>1, <1>3, <1>5, <2>1, <2>2 DEF Held
<1>19. QED
  BY <1>7, <1>8, <1>9, <1>10, <1>11, <1>12, <1>13, <1>14, <1>15, <1>16, <1>17, <1>18
  DEF LogNext, LogTask, Post

-----------------------------------------------------------------------------
(***************************************************************************)
(* serial_write returns with bytes left only from a full ring, whose       *)
(* transfer is under way or is started by the call; a kick that finds the  *)
(* ring empty reports TX_EMPTY.  In both cases the task will be woken.     *)
(***************************************************************************)
LEMMA ReturnsAwake ==
  ASSUME LogTypeOK, UartInv, Driving, Accounted, UartWrite, pc' = "idle", Unwritten > 0
  PROVE  notified' \/ hal'.busy
<1>1. /\ up /\ Writing /\ Write /\ Unwritten = left /\ Unwritten \in Nat
      /\ notified' = (notified \/ (pc = "start" /\ popped = 0))
  BY UartWriteEffect, SourceOf DEF UartWrite, log_tx_isr
<1>2. CASE PushDone
  <2>1. /\ pc = "push" /\ pushed = 0 /\ UNCHANGED hal
        /\ left = 0 \/ next_index(head) = tail \/ accepted = MaxBytes
    BY <1>2 DEF PushDone
  <2>2. accepted # MaxBytes
    <3>1. /\ accepted \in Nat /\ lines \in Nat /\ lines <= MaxLines
          /\ Len(inbox) + Cardinality(Held) \in Nat
      BY HeldSenders, DriverBounds, LogBounds DEF LogTypeOK, TypeOK
    <3>2. Full(lines) <= MaxBytes /\ Full(lines) \in Nat /\ MaxBytes \in Nat
      BY <3>1, FullLines, LogBounds
    <3>3. Full(Len(inbox) + Cardinality(Held)) \in Nat
      BY <3>1, FullLines
    <3>4. accepted + Unwritten + Full(Len(inbox) + Cardinality(Held)) <= Full(lines)
      BY <1>1 DEF Accounted, Waiting
    <3>5. QED
      BY <1>1, <3>1, <3>2, <3>3, <3>4
  <2>3. next_index(head) = tail
    BY <1>1, <2>1, <2>2
  <2>4. head # tail
    <3>1. head \in Index
      BY DEF UartInv, TypeOK
    <3>2. next_index(head) = IF head = RingSize - 1 THEN 0 ELSE head + 1
      BY <3>1, NextIndex
    <3>3. next_index(head) # head
      BY <3>1, <3>2, RingSizeAssumption DEF Index
    <3>4. QED
      BY <2>3, <3>3
  <2>5. QED
    BY <2>1, <2>4 DEF UartInv, WriteStarts
<1>3. CASE TestActive
  <2>1. active /\ pc = "test" /\ UNCHANGED hal
    BY <1>3 DEF TestActive
  <2>2. QED
    BY <2>1 DEF UartInv, ReadyOnlyInKick, TaskInKick
<1>4. CASE KickEmpty
  BY <1>1, <1>4 DEF KickEmpty
<1>5. CASE KickTransmit
  <2>1. hal.busy \/ hal' = Transmit_IT(popped)
    BY <1>5 DEF KickTransmit
  <2>2. popped \in 0 .. Chunk
    BY DEF UartInv, TypeOK
  <2>3. QED
    BY <1>5, <2>1, <2>2, Transfers DEF KickTransmit
<1>6. CASE PushByte \/ KickCheck \/ KickRead \/ KickLoadTail \/ KickStoreTail
  BY <1>6 DEF PushByte, KickCheck, KickRead, KickLoadTail, KickStoreTail
<1>7. QED
  BY <1>1, <1>2, <1>3, <1>4, <1>5, <1>6 DEF Write

(* Every step keeps the log task woken for what waits.                       *)
LEMMA WakesUpStep ==
  ASSUME LogTypeOK, UartInv, Driving, Accounted, WakesUp, [LogNext]_logVars
  PROVE  WakesUp'
<1> DEFINE Pend == up /\ at = "wait" /\ pending # <<>> => notified \/ hal.busy
           Left == up /\ Writing /\ Returned /\ Unwritten > 0 => notified \/ hal.busy
           Someone == notified \/ pending # <<>> \/ \E s \in Sender : spc[s] = "noti"
           Queued == at \in {"init", "wait"} /\ inbox # <<>> => Someone
<1>1. /\ WakesUp <=> Pend /\ Left /\ Queued
      /\ WakesUp' <=> Pend' /\ Left' /\ Queued'
  BY DEF WakesUp
<1>2. Pend /\ Left /\ Queued
  BY <1>1
<1>3. ASSUME UNCHANGED <<up, at, cur, pending, pc, pushed, hal>>, notified => notified'
      PROVE  Pend' /\ Left'
  <2>1. Writing' = Writing /\ Returned' = Returned /\ Unwritten' = Unwritten
    BY <1>3 DEF Writing, Returned, Unwritten, Source, Text
  <2>2. QED
    BY <1>2, <1>3, <2>1
<1>4. ASSUME NEW s \in Sender, log_printf(s) \/ Post(s)
      PROVE  WakesUp'
  <2>1. UNCHANGED <<uartVars, up, at, cur, pending>>
    BY <1>4, SenderEffect
  <2>2. notified => notified'
    BY <1>4 DEF log_printf, Post, PostQueued, PostTimeout, PostNoti
  <2>3. Pend' /\ Left'
    BY <1>3, <2>1, <2>2 DEF uartVars, vars
  <2>4. Queued'
    <3>1. CASE log_printf(s) \/ PostTimeout(s)
      <4>1. /\ UNCHANGED <<inbox, notified>> /\ spc[s] # "noti"
            /\ \A t \in Sender : t # s => spc'[t] = spc[t]
        BY <3>1 DEF log_printf, PostTimeout, LogTypeOK
      <4>2. QED
        BY <1>2, <2>1, <4>1
    <3>2. CASE PostQueued(s)
      <4>1. spc'[s] = "noti"
        BY <3>2 DEF PostQueued, LogTypeOK
      <4>2. QED
        BY <4>1
    <3>3. CASE PostNoti(s)
      BY <3>3 DEF PostNoti
    <3>4. QED
      BY <1>4, <3>1, <3>2, <3>3 DEF Post
  <2>5. QED
    BY <1>1, <2>3, <2>4
<1>5. CASE InitDone
  <2>1. at = "init" /\ at' = "wait" /\ UNCHANGED <<pending, inbox, notified, spc>> /\ pending = <<>>
    BY <1>5 DEF InitDone, senderVars, Driving
  <2>2. QED
    BY <1>1, <1>2, <2>1 DEF Writing
<1>6. CASE Wake \/ Recv
  <2>1. up' = up /\ at' \in {"recv", "flush", "write"} /\ (up /\ at' # "recv" => pc' = "push")
    <3>1. CASE Wake /\ pending = <<>>
      BY <3>1 DEF Wake
    <3>2. CASE Wake /\ pending # <<>>
      BY <3>2, CallsServe, ServeWrite DEF Wake
    <3>3. CASE Recv
      BY <3>3, CallsServe, ServeWrite DEF Recv
    <3>4. QED
      BY <1>6, <3>1, <3>2, <3>3
  <2>2. QED
    BY <1>1, <2>1 DEF Writing, Returned
<1>7. CASE FlushDone \/ WriteDone
  <2>1. /\ Writing /\ Returned /\ pending' = Rest(Source)
        /\ at' = IF pending' = <<>> THEN "recv" ELSE "wait"
        /\ UNCHANGED <<up, notified, hal>>
    BY <1>7 DEF FlushDone, WriteDone, Writing, Source, uartVars, vars
  <2>2. Source \in Seq(Piece) /\ pushed \in Nat /\ pushed <= Len(Source)
    BY <2>1, SourceOf
  <2>3. pending' # <<>> => Unwritten > 0
    <3>1. Rest(Source) = <<>> <=> Len(Source) - pushed = 0
      BY <2>2, RestOf
    <3>2. Len(Source) \in Nat
      BY <2>2
    <3>3. QED
      BY <2>1, <2>2, <3>1, <3>2 DEF Unwritten
  <2>4. QED
    BY <1>1, <1>2, <2>1, <2>3 DEF Writing
<1>8. CASE RecvEmpty
  <2>1. at' = "wait" /\ inbox' = <<>> /\ pending' = <<>>
    BY <1>8 DEF RecvEmpty, Driving
  <2>2. QED
    BY <1>1, <2>1 DEF Writing
<1>9. CASE UartWrite
  <2>1. Writing /\ UNCHANGED <<up, at, cur, pending>> /\ Writing' /\ at' \in {"flush", "write"}
    BY <1>9, UartWriteEffect DEF Writing
  <2>2. ASSUME pc' = "idle", Unwritten' > 0
        PROVE  notified' \/ hal'.busy
    <3>1. pushed' = pushed
      BY <1>9, <2>2, UartWriteEffect
    <3>2. Unwritten' = Unwritten
      BY <2>1, <3>1 DEF Unwritten, Source, Text
    <3>3. QED
      BY <1>9, <2>2, <3>2, ReturnsAwake
  <2>3. QED
    BY <1>1, <2>1, <2>2 DEF Returned
<1>10. CASE UartIsr \/ UartError
  <2>1. /\ UNCHANGED <<at, inbox, spc, pending>> /\ (notified => notified')
        /\ notified' \/ hal'.busy
    BY <1>10, UartInterruptEffect
  <2>2. QED
    BY <1>1, <1>2, <2>1
<1>11. CASE UNCHANGED logVars
  <2>1. UNCHANGED <<up, at, cur, pending, pc, pushed, hal, notified, inbox, spc>>
    BY <1>11 DEF logVars, uartVars, vars
  <2>2. QED
    BY <1>1, <1>2, <1>3, <2>1
<1>12. QED
  BY <1>4, <1>5, <1>6, <1>7, <1>8, <1>9, <1>10, <1>11 DEF LogNext, LogTask

-----------------------------------------------------------------------------
(* The inbox as a queue of buffers. *)
LEMMA Enqueued ==
  ASSUME NEW q \in Seq(Line), NEW b
  PROVE  /\ DOMAIN Append(q, b) = DOMAIN q \cup {Len(q) + 1}
         /\ \A i \in DOMAIN q : Append(q, b)[i] = q[i] /\ i # Len(q) + 1
         /\ Append(q, b)[Len(q) + 1] = b
         /\ Len(Append(q, b)) = Len(q) + 1
         /\ Range(Append(q, b)) = Range(q) \cup {b}
<1>1. Len(q) \in Nat /\ DOMAIN q = 1 .. Len(q)
  OBVIOUS
<1>2. DOMAIN Append(q, b) = DOMAIN q \cup {Len(q) + 1} /\ Len(Append(q, b)) = Len(q) + 1
  BY <1>1
<1>3. /\ \A i \in DOMAIN q : Append(q, b)[i] = q[i] /\ i # Len(q) + 1
      /\ Append(q, b)[Len(q) + 1] = b
  BY <1>1
<1>4. QED
  BY <1>2, <1>3 DEF Range

(* The rest of a queue without its head.                                     *)
LEMMA Dequeued ==
  ASSUME NEW q \in Seq(Line), q # <<>>
  PROVE  /\ Head(q) = q[1] /\ 1 \in DOMAIN q /\ Len(q) > 0
         /\ \A i \in DOMAIN Tail(q) : Tail(q)[i] = q[i + 1] /\ i + 1 \in DOMAIN q /\ i + 1 # 1
         /\ Len(Tail(q)) = Len(q) - 1
         /\ \A i \in DOMAIN Tail(q) : i \in Nat
         /\ Range(q) = Range(Tail(q)) \cup {Head(q)}
<1>1. Len(q) \in Nat /\ Len(q) > 0 /\ DOMAIN q = 1 .. Len(q)
  OBVIOUS
<1>2. Len(Tail(q)) = Len(q) - 1 /\ DOMAIN Tail(q) = 1 .. Len(q) - 1
  BY <1>1
<1>3. \A i \in DOMAIN Tail(q) : Tail(q)[i] = q[i + 1] /\ i + 1 \in DOMAIN q /\ i + 1 # 1 /\ i \in Nat
  BY <1>1, <1>2
<1>4. Head(q) = q[1] /\ 1 \in DOMAIN q
  BY <1>1
<1>5. \A i \in DOMAIN q : i = 1 \/ (i - 1 \in DOMAIN Tail(q) /\ (i - 1) + 1 = i)
  BY <1>1, <1>2
<1>6. Range(q) = Range(Tail(q)) \cup {Head(q)}
  <2>1. \A i \in DOMAIN q : q[i] \in Range(Tail(q)) \cup {Head(q)}
    BY <1>3, <1>4, <1>5 DEF Range
  <2>2. \A i \in DOMAIN Tail(q) : Tail(q)[i] \in Range(q)
    BY <1>3 DEF Range
  <2>3. QED
    BY <1>4, <2>1, <2>2 DEF Range
<1>7. QED
  BY <1>1, <1>2, <1>3, <1>4, <1>6

(* Who owns a buffer: a sender, the inbox or the log task that writes it.   *)
SenderLines == {buf[s] : s \in Held}
Count == Cardinality(Held) + Len(inbox) + (IF at = "write" THEN 1 ELSE 0)

(* Ownership as sets and a count.                                            *)
LEMMA Owners ==
  /\ OneOwner <=> heap = SenderLines \cup Range(inbox) \cup InWriting /\ Cardinality(heap) = Count
  /\ OneOwner' <=> /\ heap' = (SenderLines \cup Range(inbox) \cup InWriting)'
                   /\ Cardinality(heap') = Count'
<1>1. Cardinality(InWriting) = IF at = "write" THEN 1 ELSE 0
  BY FS_EmptySet, FS_Singleton DEF InWriting
<1>2. Cardinality(InWriting)' = IF at' = "write" THEN 1 ELSE 0
  BY FS_EmptySet, FS_Singleton DEF InWriting
<1>3. OneOwner <=> /\ heap = SenderLines \cup Range(inbox) \cup InWriting
                   /\ Cardinality(heap) = Cardinality(Held) + Len(inbox) + Cardinality(InWriting)
  BY DEF OneOwner, SenderLines, Held, InWriting
<1>4. OneOwner' <=> /\ heap' = (SenderLines \cup Range(inbox) \cup InWriting)'
                    /\ Cardinality(heap') = (Cardinality(Held) + Len(inbox) + Cardinality(InWriting))'
  BY DEF OneOwner, SenderLines, Held, InWriting
<1>5. QED
  BY <1>1, <1>2, <1>3, <1>4 DEF Count

Ownership == Apart /\ OneOwner /\ Numbered

(* Nothing changes hands. *)
LEMMA SameOwners ==
  ASSUME Ownership, UNCHANGED <<heap, inbox, buf, lines, cur, Held, InWriting>>,
         at' = "write" <=> at = "write"
  PROVE  Ownership'
<1>1. Apart' /\ Numbered'
  BY DEF Ownership, Apart, Numbered
<1>2. SenderLines' = SenderLines /\ Count' = Count
  BY DEF SenderLines, Count
<1>3. OneOwner'
  BY <1>2, Owners DEF Ownership
<1>4. QED
  BY <1>1, <1>3 DEF Ownership

(* A line is formatted into a buffer of its own. *)
LEMMA FormatOwns ==
  ASSUME LogTypeOK, Ownership, NEW s \in Sender, log_printf(s)
  PROVE  Ownership'
<1>1. PICK b \in Line :
        /\ b.n = lines + 1 /\ buf' = [buf EXCEPT ![s] = b] /\ heap' = heap \cup {b}
        /\ lines' = lines + 1 /\ lines + 1 \in 1 .. MaxLines
  BY Formats
<1>2. /\ UNCHANGED <<inbox, at, cur>> /\ s \notin Held /\ Held' = Held \cup {s}
      /\ buf'[s] = b /\ \A t \in Held : buf'[t] = buf[t] /\ t # s
  BY <1>1, HeldStep DEF log_printf, LogTypeOK, Held
<1>3. lines \in Nat /\ heap \subseteq Line /\ \A l \in Line : l.n \in Nat
  BY LogBounds DEF LogTypeOK, Line
<1>4. heap = SenderLines \cup Range(inbox) \cup InWriting /\ Cardinality(heap) = Count
  BY Owners DEF Ownership
<1>5. b \notin heap
  BY <1>1, <1>3 DEF Ownership, Numbered
<1>6. /\ \A t \in Held : buf[t] # b
      /\ \A i \in DOMAIN inbox : inbox[i] # b
      /\ at = "write" => cur # b
  BY <1>4, <1>5 DEF SenderLines, Range, InWriting
<1>7. Apart'
  BY <1>2, <1>6 DEF Ownership, Apart
<1>8. SenderLines' = SenderLines \cup {b}
  BY <1>2 DEF SenderLines
<1>9. Cardinality(heap') = Cardinality(heap) + 1 /\ IsFiniteSet(heap')
  BY <1>1, <1>5, FS_AddElement DEF Ownership, Numbered
<1>10. Numbered'
  BY <1>1, <1>3, <1>9 DEF Ownership, Numbered
<1>11. Count' = Count + 1
  <2>1. Cardinality(Held') = Cardinality(Held) + 1
    BY <1>2, HeldSenders
  <2>2. Len(inbox) \in Nat
    BY DEF LogTypeOK
  <2>3. QED
    BY <1>2, <2>1, <2>2, HeldSenders DEF Count
<1>12. OneOwner'
  <2>1. heap' = (SenderLines \cup Range(inbox) \cup InWriting)'
    BY <1>1, <1>2, <1>4, <1>8 DEF InWriting
  <2>2. QED
    BY <1>4, <1>9, <1>11, <2>1, Owners
<1>13. QED
  BY <1>7, <1>10, <1>12 DEF Ownership

(* The inbox takes the buffer over from the sender. *)
LEMMA QueueTakesOver ==
  ASSUME LogTypeOK, Ownership, NEW s \in Sender, PostQueued(s)
  PROVE  Ownership'
<1> DEFINE b == buf[s]
<1>1. /\ UNCHANGED <<heap, lines, at, cur>> /\ s \in Held /\ Held' = Held \ {s}
      /\ inbox' = Append(inbox, b) /\ inbox \in Seq(Line)
      /\ \A t \in Held' : buf'[t] = buf[t] /\ t # s
  BY HeldStep DEF PostQueued, LogTypeOK, Held
<1>2. heap = SenderLines \cup Range(inbox) \cup InWriting /\ Cardinality(heap) = Count
  BY Owners DEF Ownership
<1> HIDE DEF b
<1>3. /\ DOMAIN inbox' = DOMAIN inbox \cup {Len(inbox) + 1}
      /\ \A i \in DOMAIN inbox : inbox'[i] = inbox[i] /\ i # Len(inbox) + 1
      /\ inbox'[Len(inbox) + 1] = b /\ Len(inbox') = Len(inbox) + 1
      /\ Range(inbox') = Range(inbox) \cup {b}
  BY <1>1, Enqueued
<1>4. Apart
  BY DEF Ownership
<1>5. Apart'
  <2>1. /\ \A t \in Held' : buf'[t] \in Line
        /\ \A t, u \in Held' : buf'[t] = buf'[u] => t = u
    BY <1>1, <1>4 DEF Apart
  <2>2. \A t \in Held' : buf'[t] # b
    BY <1>1, <1>4 DEF Apart, b
  <2>3. \A i \in DOMAIN inbox : inbox[i] # b
    BY <1>1, <1>4 DEF Apart, b
  <2>4. \A i, j \in DOMAIN inbox' : inbox'[i] = inbox'[j] => i = j
    BY <1>3, <1>4, <2>3 DEF Apart
  <2>5. \A t \in Held' : \A i \in DOMAIN inbox' : buf'[t] # inbox'[i]
    BY <1>1, <1>3, <1>4, <2>2 DEF Apart
  <2>6. at' = "write" => /\ \A t \in Held' : buf'[t] # cur'
                         /\ \A i \in DOMAIN inbox' : inbox'[i] # cur'
    BY <1>1, <1>3, <1>4 DEF Apart, b
  <2>7. QED
    BY <2>1, <2>4, <2>5, <2>6 DEF Apart
<1>6. SenderLines' \cup {b} = SenderLines
  BY <1>1 DEF SenderLines, b
<1>7. OneOwner'
  <2>1. heap' = (SenderLines \cup Range(inbox) \cup InWriting)'
    BY <1>1, <1>2, <1>3, <1>6 DEF InWriting
  <2>2. Count' = Count
    <3>1. Cardinality(Held') = Cardinality(Held) - 1 /\ Len(inbox) \in Nat
      BY <1>1, HeldSenders
    <3>2. QED
      BY <1>1, <1>3, <3>1, HeldSenders DEF Count
  <2>3. QED
    BY <1>1, <1>2, <2>1, <2>2, Owners
<1>8. Numbered'
  BY <1>1 DEF Ownership, Numbered
<1>9. QED
  BY <1>5, <1>7, <1>8 DEF Ownership

(* A buffer that could not be posted is freed, and nobody else's is.        *)
LEMMA TimeoutFrees ==
  ASSUME LogTypeOK, Ownership, NEW s \in Sender, PostTimeout(s)
  PROVE  Ownership'
<1> DEFINE b == buf[s]
<1>1. /\ UNCHANGED <<inbox, lines, at, cur>> /\ s \in Held /\ Held' = Held \ {s}
      /\ heap' = heap \ {b}
      /\ \A t \in Held' : buf'[t] = buf[t] /\ t # s
  BY HeldStep DEF PostTimeout, LogTypeOK, Held
<1>2. heap = SenderLines \cup Range(inbox) \cup InWriting /\ Cardinality(heap) = Count
  BY Owners DEF Ownership
<1>3. Apart /\ b \in heap
  BY <1>1, <1>2 DEF Ownership, SenderLines
<1>4. Apart'
  BY <1>1, <1>3 DEF Apart
<1>5. /\ \A t \in Held' : buf[t] # b
      /\ \A i \in DOMAIN inbox : inbox[i] # b
      /\ at = "write" => cur # b
  BY <1>1, <1>3 DEF Apart
<1> HIDE DEF b
<1>6. SenderLines' = SenderLines \ {b}
  BY <1>1, <1>5 DEF SenderLines, b
<1>7. b \notin Range(inbox) /\ b \notin InWriting
  BY <1>5 DEF Range, InWriting
<1>8. Cardinality(heap') = Cardinality(heap) - 1 /\ IsFiniteSet(heap')
  BY <1>1, <1>3, FS_RemoveElement DEF Ownership, Numbered
<1>9. OneOwner'
  <2>1. heap' = (SenderLines \cup Range(inbox) \cup InWriting)'
    BY <1>1, <1>2, <1>6, <1>7 DEF InWriting
  <2>2. Count' = Count - 1
    <3>1. Cardinality(Held') = Cardinality(Held) - 1 /\ Len(inbox) \in Nat
      BY <1>1, HeldSenders DEF LogTypeOK
    <3>2. QED
      BY <1>1, <3>1, HeldSenders DEF Count
  <2>3. QED
    BY <1>2, <1>8, <2>1, <2>2, Owners
<1>10. Numbered'
  BY <1>1, <1>8 DEF Ownership, Numbered
<1>11. QED
  BY <1>4, <1>9, <1>10 DEF Ownership

(* The log task takes the oldest line over from the inbox. *)
LEMMA RecvTakesOver ==
  ASSUME LogTypeOK, Driving, Ownership, Recv
  PROVE  Ownership'
<1>1. /\ UNCHANGED <<heap, lines, buf, spc>> /\ at = "recv" /\ at' = "write"
      /\ inbox \in Seq(Line) /\ inbox # <<>> /\ inbox' = Tail(inbox) /\ cur' = Head(inbox)
  BY DEF Recv, senderVars, LogTypeOK
<1>2. heap = SenderLines \cup Range(inbox) \cup InWriting /\ Cardinality(heap) = Count
  BY Owners DEF Ownership
<1>3. /\ cur' = inbox[1] /\ 1 \in DOMAIN inbox /\ Len(inbox) \in Nat
      /\ \A i \in DOMAIN inbox' : inbox'[i] = inbox[i + 1] /\ i + 1 \in DOMAIN inbox /\ i + 1 # 1
      /\ \A i \in DOMAIN inbox' : i \in Nat
      /\ Len(inbox') = Len(inbox) - 1
      /\ Range(inbox) = Range(inbox') \cup {cur'}
  BY <1>1, Dequeued
<1>4. Held' = Held /\ Apart
  BY <1>1 DEF Held, Ownership
<1>5. Apart'
  <2>1. /\ \A t \in Held' : buf'[t] \in Line
        /\ \A t, u \in Held' : buf'[t] = buf'[u] => t = u
    BY <1>1, <1>4 DEF Apart
  <2>2. \A i, j \in DOMAIN inbox' : inbox'[i] = inbox'[j] => i = j
    <3> SUFFICES ASSUME NEW i \in DOMAIN inbox', NEW j \in DOMAIN inbox', inbox'[i] = inbox'[j]
                 PROVE  i = j
      OBVIOUS
    <3>1. i + 1 = j + 1
      BY <1>3, <1>4 DEF Apart
    <3>2. QED
      BY <1>3, <3>1
  <2>3. /\ \A t \in Held' : \A i \in DOMAIN inbox' : buf'[t] # inbox'[i]
        /\ \A t \in Held' : buf'[t] # cur'
        /\ \A i \in DOMAIN inbox' : inbox'[i] # cur'
    BY <1>1, <1>3, <1>4 DEF Apart
  <2>4. QED
    BY <2>1, <2>2, <2>3 DEF Apart
<1>6. OneOwner'
  <2>1. SenderLines' = SenderLines /\ InWriting = {} /\ InWriting' = {cur'}
    BY <1>1, <1>4 DEF SenderLines, InWriting
  <2>2. Count' = Count
    BY <1>1, <1>3, <1>4, HeldSenders DEF Count
  <2>3. heap' = (SenderLines \cup Range(inbox) \cup InWriting)'
    BY <1>1, <1>2, <1>3, <2>1
  <2>4. QED
    BY <1>1, <1>2, <2>2, <2>3, Owners
<1>7. Numbered'
  BY <1>1 DEF Ownership, Numbered
<1>8. QED
  BY <1>5, <1>6, <1>7 DEF Ownership

(* ... and frees it when it is written, and nobody else's. *)
LEMMA WriteFrees ==
  ASSUME LogTypeOK, Ownership, WriteDone
  PROVE  Ownership'
<1>1. /\ UNCHANGED <<inbox, lines, buf, spc>> /\ at = "write" /\ at' # "write"
      /\ heap' = heap \ {cur}
  BY DEF WriteDone, senderVars
<1>2. heap = SenderLines \cup Range(inbox) \cup InWriting /\ Cardinality(heap) = Count
  BY Owners DEF Ownership
<1>3. Held' = Held /\ Apart /\ InWriting = {cur} /\ InWriting' = {} /\ SenderLines' = SenderLines
  BY <1>1 DEF Held, Ownership, InWriting, SenderLines
<1>4. cur \in heap /\ cur \notin SenderLines /\ cur \notin Range(inbox)
  BY <1>1, <1>2, <1>3 DEF Apart, SenderLines, Range
<1>5. Apart'
  BY <1>1, <1>3 DEF Apart
<1>6. Cardinality(heap') = Cardinality(heap) - 1 /\ IsFiniteSet(heap')
  BY <1>1, <1>4, FS_RemoveElement DEF Ownership, Numbered
<1>7. OneOwner'
  <2>1. Count' = Count - 1
    <3>1. Len(inbox) \in Nat
      BY DEF LogTypeOK
    <3>2. QED
      BY <1>1, <1>3, <3>1, HeldSenders DEF Count
  <2>2. heap' = (SenderLines \cup Range(inbox) \cup InWriting)'
    BY <1>1, <1>2, <1>3, <1>4
  <2>3. QED
    BY <1>2, <1>6, <2>1, <2>2, Owners
<1>8. Numbered'
  BY <1>1, <1>6 DEF Ownership, Numbered
<1>9. QED
  BY <1>5, <1>7, <1>8 DEF Ownership

(* Every step keeps each line with one owner.                                *)
LEMMA OwnershipStep ==
  ASSUME LogTypeOK, Driving, Ownership, [LogNext]_logVars
  PROVE  Ownership'
<1>1. ASSUME NEW s \in Sender, log_printf(s) \/ Post(s)
      PROVE  Ownership'
  <2>1. CASE PostNoti(s)
    <3>1. UNCHANGED <<heap, inbox, buf, lines, cur, at>> /\ Held' = Held
      BY <2>1, HeldStep DEF PostNoti
    <3>2. QED
      BY <3>1, SameOwners DEF InWriting
  <2>2. QED
    BY <1>1, <2>1, FormatOwns, QueueTakesOver, TimeoutFrees DEF Post
<1>2. CASE InitDone \/ Wake \/ FlushDone \/ RecvEmpty
  <2>1. /\ UNCHANGED <<heap, inbox, buf, lines, cur, spc>> /\ at # "write" /\ at' # "write"
    BY <1>2 DEF InitDone, Wake, FlushDone, RecvEmpty, senderVars
  <2>2. QED
    BY <2>1, SameOwners DEF InWriting, Held
<1>3. CASE Recv
  BY <1>3, RecvTakesOver
<1>4. CASE WriteDone
  BY <1>4, WriteFrees
<1>5. CASE UartWrite \/ UartIsr \/ UartError
  <2>1. UNCHANGED <<heap, inbox, buf, lines, cur, spc, at>>
    BY <1>5, UartWriteEffect, UartInterruptEffect
  <2>2. QED
    BY <2>1, SameOwners DEF InWriting, Held
<1>6. CASE UNCHANGED logVars
  <2>1. UNCHANGED <<heap, inbox, buf, lines, cur, spc, at>>
    BY <1>6 DEF logVars
  <2>2. QED
    BY <2>1, SameOwners DEF InWriting, Held
<1>7. QED
  BY <1>1, <1>2, <1>3, <1>4, <1>5, <1>6 DEF LogNext, LogTask

(* The start.                                                                *)
LEMMA LogStart == LogInit => Service
<1> SUFFICES ASSUME LogInit
             PROVE  Service
  OBVIOUS
<1>1. /\ Init /\ up \in BOOLEAN /\ heap = {} /\ inbox = <<>> /\ notified = FALSE /\ at = "init"
      /\ cur = NoLine /\ pending = <<>> /\ lines = 0
      /\ spc = [s \in Sender |-> "idle"] /\ buf = [s \in Sender |-> NoLine]
  BY DEF LogInit
<1>2. UartInv
  BY <1>1, UartInit
<1>3. /\ Len(inbox) = 0 /\ Len(pending) = 0 /\ inbox \in Seq(Line) /\ Range(inbox) = {}
      /\ DOMAIN inbox = {}
  BY <1>1 DEF Range
<1>4. pc = "idle" /\ pushed = 0 /\ accepted = 0
  BY <1>1 DEF Init
<1>5. Held = {} /\ InWriting = {} /\ ~ Writing
  BY <1>1 DEF Held, InWriting, Writing
<1>6. LogTypeOK
  <2>1. pending \in Seq(UNION {Range(Text(l)) : l \in Line})
    BY <1>1
  <2>2. Len(pending) <= PendingSize /\ Len(inbox) <= QueueLen /\ lines \in 0 .. MaxLines
    BY <1>1, <1>3, LogBounds DEF PendingSize
  <2>3. TypeOK
    BY <1>2 DEF UartInv
  <2>4. QED
    BY <1>1, <1>3, <2>1, <2>2, <2>3 DEF LogTypeOK
<1>7. Driving
  BY <1>1, <1>4, <1>5 DEF Driving
<1>8. WakesUp
  BY <1>1, <1>5 DEF WakesUp
<1>9. Apart /\ Numbered
  BY <1>1, <1>3, <1>5, FS_EmptySet DEF Apart, Numbered
<1>10. OneOwner
  <2>1. Count = 0 /\ Cardinality(heap) = 0
    BY <1>1, <1>3, <1>5, FS_EmptySet DEF Count
  <2>2. SenderLines = {}
    BY <1>5 DEF SenderLines
  <2>3. QED
    BY <1>1, <1>3, <1>5, <2>1, <2>2, Owners
<1>11. Accounted
  <2>1. Waiting = 0 /\ Len(inbox) + Cardinality(Held) = 0
    BY <1>1, <1>3, <1>5, FS_EmptySet DEF Waiting
  <2>2. Full(0) = 0
    BY LogBounds DEF Full
  <2>3. QED
    BY <1>1, <1>4, <2>1, <2>2 DEF Accounted
<1>12. QED
  BY <1>2, <1>6, <1>7, <1>8, <1>9, <1>10, <1>11 DEF Service

(* Every step.                                                               *)
LEMMA ServiceStep == Service /\ [LogNext]_logVars => Service'
<1> SUFFICES ASSUME Service, [LogNext]_logVars
             PROVE  Service'
  OBVIOUS
<1>1. LogTypeOK /\ UartInv /\ Driving /\ WakesUp /\ Accounted /\ Ownership /\ Apart
  BY DEF Service, Ownership
<1>2. UartInv'
  BY <1>1, DrivesStep, UartStep
<1>3. LogTypeOK'
  BY <1>1, <1>2, LogTypeStep DEF UartInv
<1>4. Driving' /\ WakesUp' /\ Accounted' /\ Ownership'
  BY <1>1, DrivingStep, WakesUpStep, AccountedStep, OwnershipStep
<1>5. QED
  BY <1>2, <1>3, <1>4 DEF Service, Ownership

(***************************************************************************)
(* The log service keeps its invariant whoever logs, however long a line,  *)
(* and wherever in serial_write the transmit interrupts fall.              *)
(***************************************************************************)
THEOREM LogInvariance == LogSpec => []Service
  BY LogStart, ServiceStep, PTL DEF LogSpec

(***************************************************************************)
(* The log task is a client the driver allows: it writes only when the     *)
(* last write has returned, and never more than fits s_pending.  So what   *)
(* is proved of the driver alone holds of the driver under the log.        *)
(***************************************************************************)
THEOREM UsesDriver == LogSpec => Spec
<1>1. LogInit => Init
  BY DEF LogInit
<1>2. Service /\ [LogNext]_logVars => [Next]_vars
  BY DrivesStep DEF Service
<1>3. QED
  BY <1>1, <1>2, LogInvariance, PTL DEF LogSpec, Spec

(***************************************************************************)
(* Every line buffer has one owner and none leaks, the log task never      *)
(* sleeps on output nobody will wake it for, and no byte stays in the ring *)
(* of a driver that is stopped.                                            *)
(***************************************************************************)
THEOREM LogSafety == LogSpec => []LogInv
<1>1. Service => LogInv
  <2>1. ASSUME Service
        PROVE  NoStrandedOutput
    BY <2>1 DEF Service, WakesUp, NoStrandedOutput
  <2>2. QED
    BY <2>1 DEF Service, UartInv, LogInv
<1>2. QED
  BY <1>1, LogInvariance, PTL

(***************************************************************************)
(* Under the log service too, until an interrupt pops inside the task's    *)
(* pop the line carries the bytes given to the driver, in order.           *)
(***************************************************************************)
THEOREM WireInOrder == LogSpec => []InOrderUntilRaced
<1>1. Service => InOrderUntilRaced
  BY InOrder DEF Service
<1>2. QED
  BY <1>1, LogInvariance, PTL


-----------------------------------------------------------------------------
(* What has been read, flattened, is what went out. *)

(***************************************************************************)
(* What is pushed, being written and queued, taken together, against what  *)
(* was ever queued.                                                        *)
(***************************************************************************)
Unsent ==
  CASE at = "write" -> Rest(Text(cur))
    [] at = "flush" -> Rest(pending)
    [] OTHER -> pending

Ordered ==
  /\ fed \in Seq(Piece) /\ order \in Seq(Line)
  /\ (fed \o Unsent) \o Texts(inbox) = Texts(order)

(* The text of several lines. *)
LEMMA TextsOf ==
  ASSUME NEW ls \in Seq(Line)
  PROVE  /\ Texts(ls) \in Seq(Piece)
         /\ \A l \in Line : Texts(Append(ls, l)) = Texts(ls) \o Text(l)
         /\ ls # <<>> => Texts(ls) = Text(Head(ls)) \o Texts(Tail(ls))
<1> DEFINE all(s) == [i \in DOMAIN s |-> Text(s[i])]
<1>1. ASSUME NEW s \in Seq(Line)
      PROVE  all(s) \in Seq(Seq(Piece)) /\ Len(all(s)) = Len(s) /\ DOMAIN s = 1 .. Len(s)
  <2>1. DOMAIN s = 1 .. Len(s) /\ Len(s) \in Nat /\ \A i \in 1 .. Len(s) : s[i] \in Line
    OBVIOUS
  <2>2. \A i \in 1 .. Len(s) : Text(s[i]) \in Seq(Piece)
    BY <2>1, TextOf
  <2>3. QED
    BY <2>1, <2>2
<1>2. \A s : Texts(s) = FlattenSeq(all(s))
  BY DEF Texts
<1>3. Texts(ls) \in Seq(Piece)
  <2>1. FlattenSeq(all(ls)) \in Seq(Piece)
    BY <1>1, FlattenType, Zenon
  <2>2. QED
    BY <1>2, <2>1, Zenon
<1>4. ASSUME NEW l \in Line
      PROVE  Texts(Append(ls, l)) = Texts(ls) \o Text(l)
  <2>1. Append(ls, l) \in Seq(Line) /\ Len(Append(ls, l)) = Len(ls) + 1
    OBVIOUS
  <2>2. all(Append(ls, l)) = Append(all(ls), Text(l))
    <3>1. Append(all(ls), Text(l)) \in Seq(Seq(Piece)) /\ Len(Append(all(ls), Text(l))) = Len(ls) + 1
      BY <1>1, TextOf
    <3>2. ASSUME NEW i \in 1 .. Len(ls) + 1
          PROVE  all(Append(ls, l))[i] = Append(all(ls), Text(l))[i]
      <4>1. DOMAIN Append(ls, l) = 1 .. Len(ls) + 1 /\ DOMAIN ls = 1 .. Len(ls) /\ Len(ls) \in Nat
        BY <1>1, <2>1
      <4>2. CASE i = Len(ls) + 1
        BY <1>1, <4>1, <4>2
      <4>3. CASE i # Len(ls) + 1
        BY <1>1, <4>1, <4>3
      <4>4. QED
        BY <4>2, <4>3
    <3>3. all(Append(ls, l)) \in Seq(Seq(Piece)) /\ Len(all(Append(ls, l))) = Len(ls) + 1
      BY <1>1, <2>1
    <3> HIDE DEF all
    <3>4. QED
      BY <3>1, <3>2, <3>3, SeqEqual
  <2>3. FlattenSeq(Append(all(ls), Text(l))) = FlattenSeq(all(ls)) \o Text(l)
    <3>1. all(ls) \in Seq(Seq(Piece)) /\ Text(l) \in Seq(Piece)
      BY <1>1, TextOf
    <3> HIDE DEF all
    <3>2. QED
      BY <3>1, FlattenAppend
  <2>4. QED
    BY <1>2, <2>2, <2>3, Zenon
<1>5. ASSUME ls # <<>>
      PROVE  Texts(ls) = Text(Head(ls)) \o Texts(Tail(ls))
  <2>1. Tail(ls) \in Seq(Line) /\ Head(ls) \in Line /\ Len(Tail(ls)) = Len(ls) - 1 /\ Len(ls) \in Nat \ {0}
    BY <1>5
  <2>2. all(ls) = <<Text(Head(ls))>> \o all(Tail(ls))
    <3>1. /\ all(ls) \in Seq(Seq(Piece)) /\ Len(all(ls)) = Len(ls)
          /\ all(Tail(ls)) \in Seq(Seq(Piece)) /\ Len(all(Tail(ls))) = Len(ls) - 1
          /\ Text(Head(ls)) \in Seq(Piece)
      BY <1>1, <2>1, TextOf
    <3>2. ASSUME NEW i \in 1 .. Len(ls)
          PROVE  all(ls)[i] = (<<Text(Head(ls))>> \o all(Tail(ls)))[i]
      <4>1. DOMAIN ls = 1 .. Len(ls) /\ DOMAIN Tail(ls) = 1 .. Len(ls) - 1
        BY <1>1, <2>1
      <4>2. all(ls)[i] = Text(ls[i])
        BY <4>1
      <4>3. CASE i = 1
        <5>1. ls[i] = Head(ls)
          BY <4>3
        <5> HIDE DEF all
        <5>2. (<<Text(Head(ls))>> \o all(Tail(ls)))[1] = Text(Head(ls))
          BY <2>1, <3>1
        <5>3. QED
          BY <4>2, <4>3, <5>1, <5>2
      <4>4. CASE i # 1
        <5>1. i - 1 \in 1 .. Len(ls) - 1 /\ Tail(ls)[i - 1] = ls[i]
          BY <2>1, <4>4
        <5>2. all(Tail(ls))[i - 1] = Text(ls[i])
          BY <4>1, <5>1
        <5> HIDE DEF all
        <5>3. (<<Text(Head(ls))>> \o all(Tail(ls)))[i] = all(Tail(ls))[i - 1]
          BY <2>1, <3>1, <4>4
        <5>4. QED
          BY <4>2, <5>2, <5>3
      <4>5. QED
        BY <4>3, <4>4
    <3> HIDE DEF all
    <3>3. <<Text(Head(ls))>> \o all(Tail(ls)) \in Seq(Seq(Piece)) /\ Len(<<Text(Head(ls))>> \o all(Tail(ls))) = Len(ls)
      <4>1. /\ <<Text(Head(ls))>> \o all(Tail(ls)) \in Seq(Seq(Piece))
            /\ Len(<<Text(Head(ls))>> \o all(Tail(ls))) = Len(all(Tail(ls))) + 1
        BY <3>1, ConsType, Zenon
      <4>2. Len(all(Tail(ls))) + 1 = Len(ls)
        <5>1. \A n \in Nat : (n - 1) + 1 = n
          OBVIOUS
        <5>2. Len(ls) \in Nat
          BY <2>1
        <5>3. QED
          BY <3>1, <5>1, <5>2, Zenon
      <4>3. QED
        BY <4>1, <4>2, Zenon
    <3>4. all(ls) \in Seq(Seq(Piece)) /\ Len(all(ls)) = Len(<<Text(Head(ls))>> \o all(Tail(ls)))
      BY <3>1, <3>3
    <3>5. \A i \in 1 .. Len(all(ls)) : all(ls)[i] = (<<Text(Head(ls))>> \o all(Tail(ls)))[i]
      BY <3>1, <3>2
    <3>6. QED
      BY <3>3, <3>4, <3>5, SeqEqual
  <2>3. FlattenSeq(<<Text(Head(ls))>> \o all(Tail(ls))) = Text(Head(ls)) \o FlattenSeq(all(Tail(ls)))
    <3>1. all(Tail(ls)) \in Seq(Seq(Piece)) /\ Text(Head(ls)) \in Seq(Piece)
      BY <1>1, <2>1, TextOf
    <3> HIDE DEF all
    <3>2. QED
      BY <3>1, FlattenCons
  <2>4. QED
    BY <1>2, <2>2, <2>3, Zenon
<1>6. QED
  BY <1>3, <1>4, <1>5

(* What the log task still has to push is a part of a text. *)
LEMMA UnsentOf ==
  ASSUME LogTypeOK, Driving
  PROVE  Unsent \in Seq(Piece) /\ (Writing => Unsent = Rest(Source)) /\ (~ Writing => Unsent = pending)
<1>1. pending \in Seq(Piece)
  BY DEF LogTypeOK, Piece
<1>2. CASE Writing
  <2>1. Unsent = Rest(Source)
    BY <1>2 DEF Writing, Unsent, Source
  <2>2. Source \in Seq(Piece) /\ pushed \in Nat /\ pushed <= Len(Source)
    BY <1>2, SourceOf
  <2>3. Rest(Source) \in Seq(Piece)
    BY <2>2, RestOf
  <2>4. QED
    BY <1>2, <2>1, <2>3
<1>3. CASE ~ Writing
  BY <1>1, <1>3 DEF Writing, Unsent
<1>4. QED
  BY <1>2, <1>3

(* Nothing is left to push of an untouched text, and nothing is lost when   *)
(* the rest of a text becomes the pending one.                              *)
LEMMA Untouched ==
  ASSUME NEW S, NEW s \in Seq(S)
  PROVE  SubSeq(s, 0 + 1, Len(s)) = s
  OBVIOUS

(* A push moves the first byte of the rest. *)
LEMMA PushFirst ==
  ASSUME NEW S, NEW f \in Seq(S), NEW s \in Seq(S), NEW k \in Nat, k < Len(s)
  PROVE  /\ Append(f, s[k + 1]) \in Seq(S)
         /\ Append(f, s[k + 1]) \o SubSeq(s, (k + 1) + 1, Len(s)) = f \o SubSeq(s, k + 1, Len(s))
<1> DEFINE x == s[k + 1]
           u == SubSeq(s, (k + 1) + 1, Len(s))
<1>1. x \in S /\ Len(s) \in Nat /\ k + 1 \in 1 .. Len(s) /\ Len(s) \in k + 1 .. Len(s)
  OBVIOUS
<1>2. SubSeq(s, k + 1, Len(s)) = <<x>> \o u
  BY <1>1, SubSeqRecursiveFirst, Z3
<1>3. Append(f, x) = f \o <<x>> /\ Append(f, x) \in Seq(S)
  BY <1>1, AppendIsConcat
<1>4. <<x>> \in Seq(S) /\ u \in Seq(S)
  BY <1>1
<1> HIDE DEF x, u
<1>5. Assoc(f, <<x>>, u)
  BY <1>4, ConcatAssoc, Zenon
<1>6. QED
  BY <1>2, <1>3, <1>5, Zenon DEF Assoc, x, u

(* At the start nothing was queued. *)
LEMMA OrderedStart == LogInit => Ordered
<1> SUFFICES ASSUME LogInit
             PROVE  Ordered
  OBVIOUS
<1>1. fed = <<>> /\ order = <<>> /\ inbox = <<>> /\ pending = <<>> /\ at = "init"
  BY DEF LogInit
<1>2. Unsent = <<>>
  BY <1>1 DEF Unsent
<1>3. fed \in Seq(Piece) /\ order \in Seq(Line)
  BY <1>1
<1>4. Texts(<<>>) = <<>>
  <2>1. [i \in DOMAIN <<>> |-> Text(<<>>[i])] = <<>>
    OBVIOUS
  <2>2. QED
    BY <2>1, FlattenEmpty DEF Texts
<1>5. (<<>> \o <<>>) \o <<>> = <<>>
  OBVIOUS
<1>6. QED
  BY <1>1, <1>2, <1>3, <1>4, <1>5 DEF Ordered

(* A line queued is the last to come. *)
LEMMA QueuedLast ==
  ASSUME LogTypeOK, Driving, Apart, Ordered, NEW s \in Sender, PostQueued(s)
  PROVE  Ordered'
<1>1. /\ inbox' = Append(inbox, buf[s]) /\ order' = Append(order, buf[s]) /\ spc[s] = "send"
      /\ UNCHANGED <<fed, at, cur, pending>> /\ pushed' = pushed
  BY DEF PostQueued, uartVars, vars
<1>2. buf[s] \in Line /\ inbox \in Seq(Line) /\ order \in Seq(Line) /\ fed \in Seq(Piece)
  BY <1>1 DEF LogTypeOK, Apart, Held, Ordered
<1>3. Unsent' = Unsent /\ Unsent \in Seq(Piece)
  BY <1>1, UnsentOf DEF Unsent, Rest
<1>4. /\ Texts(inbox') = Texts(inbox) \o Text(buf[s])
      /\ Texts(order') = Texts(order) \o Text(buf[s])
  BY <1>1, <1>2, TextsOf
<1>5. fed \o Unsent \in Seq(Piece) /\ Texts(inbox) \in Seq(Piece) /\ Text(buf[s]) \in Seq(Piece)
  BY <1>2, <1>3, TextsOf, TextOf
<1>6. Assoc(fed \o Unsent, Texts(inbox), Text(buf[s]))
  BY <1>5, ConcatAssoc, Zenon
<1>7. (fed \o Unsent) \o Texts(inbox') = Texts(order')
  BY <1>4, <1>6, Zenon DEF Assoc, Ordered
<1>8. (fed \in Seq(Piece) /\ order \in Seq(Line))'
  BY <1>1, <1>2
<1>9. QED
  BY <1>1, <1>3, <1>7, <1>8, Zenon DEF Ordered

(* A line taken from the inbox is what is written next. *)
LEMMA TakenNext ==
  ASSUME LogTypeOK, Driving, Ordered, Recv
  PROVE  Ordered'
<1>1. /\ inbox # <<>> /\ inbox' = Tail(inbox) /\ cur' = Head(inbox) /\ at = "recv" /\ at' = "write"
      /\ UNCHANGED <<fed, order>> /\ pending = <<>> /\ pushed' = 0
  BY CallsServe, ServeWrite DEF Recv, senderVars, Driving
<1>2. inbox \in Seq(Line) /\ order \in Seq(Line) /\ fed \in Seq(Piece)
  BY DEF LogTypeOK, Ordered
<1>3. Head(inbox) \in Line /\ Tail(inbox) \in Seq(Line)
  BY <1>1, <1>2
<1>4. Texts(inbox) = Text(Head(inbox)) \o Texts(Tail(inbox)) /\ Texts(Tail(inbox)) \in Seq(Piece)
  BY <1>1, <1>2, <1>3, TextsOf
<1>5. Text(Head(inbox)) \in Seq(Piece)
  BY <1>3, TextOf
<1>6. Unsent = <<>>
  BY <1>1 DEF Unsent
<1>7. Unsent' = Text(Head(inbox))
  <2>1. Unsent' = SubSeq(Text(Head(inbox)), pushed' + 1, Len(Text(Head(inbox))))
    BY <1>1 DEF Unsent, Rest, Text
  <2>2. QED
    BY <1>1, <1>5, <2>1, Untouched
<1>8. Assoc(fed, Text(Head(inbox)), Texts(Tail(inbox)))
  BY <1>2, <1>4, <1>5, ConcatAssoc, Zenon
<1>9. fed \o Unsent = fed
  BY <1>2, <1>6
<1>10. fed \o Texts(inbox) = Texts(order)
  BY <1>9, Zenon DEF Ordered
<1>11. (fed \o Text(Head(inbox))) \o Texts(Tail(inbox)) = Texts(order)
  BY <1>4, <1>8, <1>10, Zenon DEF Assoc
<1>12. (fed \in Seq(Piece) /\ order \in Seq(Line))'
  BY <1>1, <1>2
<1>13. (fed \o Unsent)' = fed \o Text(Head(inbox)) /\ Texts(inbox)' = Texts(Tail(inbox)) /\ Texts(order)' = Texts(order)
  BY <1>1, <1>7 DEF Texts, Text
<1>14. QED
  BY <1>11, <1>12, <1>13, Zenon DEF Ordered

(* A byte pushed is the first of the rest. *)
LEMMA PushedFirst ==
  ASSUME LogTypeOK, Driving, Ordered, UartWrite
  PROVE  Ordered'
<1>1. /\ up /\ Writing /\ UNCHANGED <<inbox, order, at, cur, pending>>
      /\ \/ accepted' = accepted + 1 /\ left > 0 /\ pushed' = pushed + 1
         \/ UNCHANGED <<accepted, pushed>>
  BY UartWriteEffect
<1>2. accepted \in Nat /\ pushed \in Nat /\ left \in Nat
  BY DriverBounds DEF LogTypeOK, TypeOK
<1>3. Source \in Seq(Piece) /\ pushed + left = Len(Source)
  BY <1>1, SourceOf DEF Driving
<1>4. fed \in Seq(Piece) /\ order \in Seq(Line) /\ (fed \o Unsent) \o Texts(inbox) = Texts(order)
  BY DEF Ordered
<1>5. Source' = Source /\ Writing' /\ Texts(inbox)' = Texts(inbox) /\ Texts(order)' = Texts(order)
  BY <1>1 DEF Source, Text, Writing, Texts
<1>6. Unsent = SubSeq(Source, pushed + 1, Len(Source))
  BY <1>1, UnsentOf DEF Rest
<1>7. Unsent' = SubSeq(Source, pushed' + 1, Len(Source))
  BY <1>1, <1>5 DEF Writing, Unsent, Source, Rest, Text
<1>8. CASE accepted' = accepted + 1 /\ left > 0 /\ pushed' = pushed + 1
  <2>1. fed' = Append(fed, Source[pushed + 1])
    <3>1. accepted' # accepted
      BY <1>2, <1>8
    <3>2. QED
      BY <3>1 DEF UartWrite
  <2>2. pushed < Len(Source)
    BY <1>2, <1>3, <1>8
  <2>3. fed' \in Seq(Piece) /\ fed' \o Unsent' = fed \o Unsent
    BY <1>2, <1>3, <1>4, <1>6, <1>7, <1>8, <2>1, <2>2, PushFirst
  <2>4. order' \in Seq(Line)
    BY <1>1, <1>4
  <2>5. QED
    BY <1>4, <1>5, <2>3, <2>4, Zenon DEF Ordered
<1>9. CASE UNCHANGED <<accepted, pushed>>
  <2>1. fed' = fed
    BY <1>9 DEF UartWrite
  <2>2. Unsent' = Unsent
    BY <1>6, <1>7, <1>9
  <2>3. fed' \in Seq(Piece) /\ order' \in Seq(Line)
    BY <1>1, <1>4, <2>1
  <2>4. (fed \o Unsent)' = fed \o Unsent
    BY <2>1, <2>2
  <2>5. QED
    BY <1>4, <1>5, <2>3, <2>4, Zenon DEF Ordered
<1>10. QED
  BY <1>1, <1>8, <1>9

(* The rest of a text stays what is to be pushed when the write ends, and   *)
(* when the next begins.                                                    *)
LEMMA SameRest ==
  ASSUME LogTypeOK, Driving, Ordered, UNCHANGED <<fed, order, inbox>>, Unsent' = Unsent
  PROVE  Ordered'
<1>1. Texts(inbox)' = Texts(inbox) /\ Texts(order)' = Texts(order) /\ (fed \o Unsent)' = fed \o Unsent
  BY DEF Texts, Text
<1>2. fed' \in Seq(Piece) /\ order' \in Seq(Line)
  BY DEF Ordered
<1>3. QED
  BY <1>1, <1>2, Zenon DEF Ordered

(* Every step keeps the lines whole and in order.                            *)
LEMMA OrderedStep ==
  ASSUME LogTypeOK, Driving, Apart, Ordered, [LogNext]_logVars
  PROVE  Ordered'
<1>1. ASSUME NEW s \in Sender, log_printf(s) \/ Post(s)
      PROVE  Ordered'
  <2>1. CASE PostQueued(s)
    BY <2>1, QueuedLast
  <2>2. CASE log_printf(s) \/ PostTimeout(s) \/ PostNoti(s)
    <3>1. UNCHANGED <<fed, order, inbox, at, cur, pending, pushed>>
      BY <2>2 DEF log_printf, PostTimeout, PostNoti, uartVars, vars
    <3>2. Unsent' = Unsent
      BY <3>1 DEF Unsent, Rest, Text
    <3>3. QED
      BY <3>1, <3>2, SameRest
  <2>3. QED
    BY <1>1, <2>1, <2>2 DEF Post
<1>2. CASE InitDone \/ RecvEmpty \/ UartIsr \/ UartError \/ UNCHANGED logVars
  <2>1. UNCHANGED <<fed, order, inbox, cur, pending, pushed>>
    BY <1>2, UartInterruptEffect
    DEF InitDone, RecvEmpty, UartIsr, UartError, logVars, uartVars, vars, senderVars
  <2>2. at' = at \/ (at \in {"init", "recv"} /\ at' = "wait")
    BY <1>2 DEF InitDone, RecvEmpty, UartIsr, UartError, logVars
  <2>3. Unsent' = Unsent
    BY <2>1, <2>2 DEF Unsent, Rest, Text
  <2>4. QED
    BY <2>1, <2>3, SameRest
<1>3. CASE Wake
  <2>1. UNCHANGED <<fed, order, inbox, cur, pending>> /\ at = "wait"
    BY <1>3 DEF Wake, senderVars
  <2>2. CASE at' = "recv"
    BY <2>1, <2>2, SameRest DEF Unsent
  <2>3. CASE at' = "flush"
    <3>1. pushed' = 0
      BY <1>3, <2>3, CallsServe, ServeWrite DEF Wake
    <3>2. pending \in Seq(Piece)
      BY DEF LogTypeOK, Piece
    <3>3. Unsent' = SubSeq(pending, 0 + 1, Len(pending)) /\ Unsent = pending
      BY <2>1, <2>3, <3>1 DEF Unsent, Rest
    <3>4. Unsent' = Unsent
      BY <3>2, <3>3, Untouched
    <3>5. QED
      BY <2>1, <3>4, SameRest
  <2>4. QED
    BY <1>3, <2>2, <2>3 DEF Wake
<1>4. CASE FlushDone \/ WriteDone
  <2>1. UNCHANGED <<fed, order, inbox>>
    BY <1>4 DEF FlushDone, WriteDone, senderVars
  <2>2. Unsent' = Unsent
    BY <1>4 DEF FlushDone, WriteDone, Unsent
  <2>3. QED
    BY <2>1, <2>2, SameRest
<1>5. CASE Recv
  BY <1>5, TakenNext
<1>6. CASE UartWrite
  BY <1>6, PushedFirst
<1>7. QED
  BY <1>1, <1>2, <1>3, <1>4, <1>5, <1>6 DEF LogNext, LogTask

(***************************************************************************)
(* The driver is given the queued lines whole and in the order they were   *)
(* queued, for any number of senders and lines and whatever pieces the     *)
(* ring takes of each.                                                     *)
(***************************************************************************)
THEOREM LinesInOrder == LogSpec => []WholeLinesInOrder
<1>1. LogInit => Ordered
  BY OrderedStart
<1>2. Service /\ Ordered /\ [LogNext]_logVars => Ordered'
  BY OrderedStep DEF Service
<1>3. Ordered => WholeLinesInOrder
  BY Zenon DEF Ordered, WholeLinesInOrder, Unsent
<1>4. QED
  BY <1>1, <1>2, <1>3, LogInvariance, PTL DEF LogSpec
=============================================================================
