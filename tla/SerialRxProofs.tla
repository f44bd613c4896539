--------------------------- MODULE SerialRxProofs ----------------------------
(***************************************************************************)
(* Theorems about what comes in over the serial port.                      *)
(*   - RingBuf, for every Capacity >= 2, every set of bytes and every      *)
(*     MaxLen: the ring that interrupt and task share is a FIFO.           *)
(*   - CliRx, for every size of chunk, ring, inbox, line and table and     *)
(*     every stream: no input is stranded (ReceiveInvariance), and the     *)
(*     commands run are those of the lines (CommandsOfTheInput).           *)
(***************************************************************************)
EXTENDS RingBuf, CliRx, SeqFacts, FiniteSetTheorems

(* Index arithmetic: one subtraction replaces the modulo. *)
LEMMA ModOnce ==
  ASSUME NEW x \in Nat, x < 2 * Capacity
  PROVE  x % Capacity = IF x < Capacity THEN x ELSE x - Capacity
  BY CapacityAssumption, Z3

(* The next index is an index.                                               *)
LEMMA NextIndex ==
  ASSUME NEW i \in Index
  PROVE  /\ next_index(i) \in Index
         /\ next_index(i) = IF i = Capacity - 1 THEN 0 ELSE i + 1
  BY CapacityAssumption, ModOnce DEF next_index, Index

(* Two indices with the same next are the same.                              *)
LEMMA NextIndexOneToOne ==
  ASSUME NEW i \in Index, NEW j \in Index
  PROVE  /\ next_index(i) # i
         /\ next_index(i) = next_index(j) <=> i = j
<1>1. next_index(i) = IF i = Capacity - 1 THEN 0 ELSE i + 1
  BY NextIndex
<1>2. next_index(j) = IF j = Capacity - 1 THEN 0 ELSE j + 1
  BY NextIndex
<1>3. QED
  BY <1>1, <1>2, CapacityAssumption DEF Index

(* The length is less than the size.                                         *)
LEMMA RingLenBounds ==
  ASSUME NEW h \in Index, NEW t \in Index
  PROVE  /\ RingLen(h, t) \in 0 .. Capacity - 1
         /\ RingLen(h, t) = 0 <=> h = t
         /\ next_index(h) # t => RingLen(next_index(h), t) = RingLen(h, t) + 1
         /\ h # t => RingLen(h, next_index(t)) = RingLen(h, t) - 1
  BY CapacityAssumption, NextIndex DEF RingLen, Index

(* Where the i-th stored byte is, while there are at most Capacity - 1. *)
LEMMA SlotOf ==
  ASSUME NEW t \in Index, NEW i \in 1 .. Capacity
  PROVE  /\ (t + i - 1) % Capacity \in Index
         /\ (t + i - 1) % Capacity =
              IF t + i - 1 < Capacity THEN t + i - 1 ELSE t + i - 1 - Capacity
<1>1. t + i - 1 \in Nat /\ t + i - 1 < 2 * Capacity
  BY CapacityAssumption DEF Index
<1>2. QED
  BY <1>1, ModOnce, CapacityAssumption DEF Index

-----------------------------------------------------------------------------
(* Every reachable state is well typed. *)
THEOREM TypeCorrect == Spec => []TypeOK
<1>1. Init => TypeOK
  BY ByteAssumption, CapacityAssumption, MaxLenAssumption
  DEF Init, TypeOK, Index, NoAnswer
<1>2. TypeOK /\ [Next]_vars => TypeOK'
  <2> SUFFICES ASSUME TypeOK, [Next]_vars
               PROVE  TypeOK'
    OBVIOUS
  <2> USE CapacityAssumption, MaxLenAssumption DEF TypeOK
  <2>1. CASE PushCall
    BY <2>1 DEF PushCall, consumerVars, NoAnswer
  <2>2. CASE PushFull
    BY <2>2 DEF PushFull, consumerVars
  <2>3. CASE PushRoom
    BY <2>3 DEF PushRoom, consumerVars
  <2>4. CASE PushPublish
    <3>1. next_index(head) \in Index
      BY NextIndex
    <3>2. pleft - 1 \in 0 .. MaxLen /\ (pleft # 1 => pleft - 1 > 0)
      BY <2>4 DEF PushPublish
    <3>3. QED
      BY <2>4, <3>1, <3>2 DEF PushPublish, consumerVars
  <2>5. CASE Space
    <3>1. RingSpace(head, tail) \in 0 .. Capacity
      BY RingLenBounds DEF RingSpace
    <3>2. QED
      BY <2>5, <3>1 DEF Space, consumerVars
  <2>6. ASSUME NEW b \in Byte, PushStore(b)
        PROVE  TypeOK'
    BY <2>6 DEF PushStore, consumerVars
  <2>7. CASE PopCall
    BY <2>7 DEF PopCall, producerVars, NoAnswer
  <2>8. CASE PopEmpty
    BY <2>8 DEF PopEmpty, producerVars
  <2>9. CASE PopSome
    BY <2>9 DEF PopSome, producerVars
  <2>10. CASE PopRead
    BY <2>10 DEF PopRead, producerVars
  <2>11. CASE PopAdvance
    <3>1. next_index(tail) \in Index
      BY NextIndex
    <3>2. cleft - 1 \in 0 .. MaxLen /\ (cleft # 1 => cleft - 1 > 0)
      BY <2>11 DEF PopAdvance
    <3>3. QED
      BY <2>11, <3>1, <3>2 DEF PopAdvance, producerVars
  <2>12. CASE Length
    <3>1. RingLen(head, tail) \in 0 .. Capacity
      BY RingLenBounds
    <3>2. QED
      BY <2>12, <3>1 DEF Length, producerVars
  <2>13. CASE Reset
    BY <2>13 DEF Reset, Index, NoAnswer
  <2>14. CASE UNCHANGED vars
    BY <2>14 DEF vars
  <2>15. QED
    BY <2>1, <2>2, <2>3, <2>4, <2>5, <2>6, <2>7, <2>8, <2>9, <2>10, <2>11,
       <2>12, <2>13, <2>14 DEF Next, Producer, Consumer
<1>3. QED
  BY <1>1, <1>2, PTL DEF Spec

-----------------------------------------------------------------------------
(***************************************************************************)
(* The guards of both loops survive the other side's steps: the consumer   *)
(* only ever moves tail away from next(head), and the producer only ever   *)
(* moves head away from tail.                                              *)
(***************************************************************************)
LEMMA GuardsStep == TypeOK /\ GuardsStillHold /\ [Next]_vars => GuardsStillHold'
<1> SUFFICES ASSUME TypeOK, GuardsStillHold, [Next]_vars
             PROVE  GuardsStillHold'
  OBVIOUS
<1> USE CapacityAssumption DEF GuardsStillHold
<1>h. /\ head \in Index /\ tail \in Index
      /\ next_index(head) \in Index /\ next_index(tail) \in Index
      /\ (next_index(head) = next_index(tail)) <=> (head = tail)
      /\ next_index(tail) # tail /\ next_index(head) # head
  BY NextIndex, NextIndexOneToOne DEF TypeOK
<1>1. CASE PushCall
  BY <1>1 DEF PushCall, consumerVars
<1>2. CASE PushFull
  BY <1>2 DEF PushFull, consumerVars
<1>3. CASE PushRoom
  BY <1>3 DEF PushRoom, consumerVars, Full
<1>4. CASE PushPublish
  BY <1>4, <1>h DEF PushPublish, consumerVars
<1>5. CASE Space
  BY <1>5 DEF Space, consumerVars
<1>6. ASSUME NEW b \in Byte, PushStore(b)
      PROVE  GuardsStillHold'
  <2>1. cpc = "advance" => storage'[tail] = storage[tail]
    BY <1>6, <1>h DEF PushStore, TypeOK
  <2>2. QED
    BY <1>6, <2>1 DEF PushStore, consumerVars
<1>7. CASE PopCall
  BY <1>7 DEF PopCall, producerVars
<1>8. CASE PopEmpty
  BY <1>8 DEF PopEmpty, producerVars
<1>9. CASE PopSome
  BY <1>9 DEF PopSome, producerVars, Empty
<1>10. CASE PopRead
  BY <1>10 DEF PopRead, producerVars
<1>11. CASE PopAdvance
  BY <1>11, <1>h DEF PopAdvance, producerVars
<1>12. CASE Length
  BY <1>12 DEF Length, producerVars
<1>13. CASE Reset
  BY <1>13 DEF Reset
<1>14. CASE UNCHANGED vars
  BY <1>14 DEF vars
<1>15. QED
  BY <1>1, <1>2, <1>3, <1>4, <1>5, <1>6, <1>7, <1>8, <1>9, <1>10, <1>11,
     <1>12, <1>13, <1>14 DEF Next, Producer, Consumer

(* The test for room and the test for bytes say what the length says.        *)
THEOREM GuardsCorrect == Spec => []GuardsStillHold
<1>1. Init => GuardsStillHold
  BY DEF Init, GuardsStillHold
<1>2. QED
  BY <1>1, GuardsStep, TypeCorrect, PTL DEF Spec

(* The producer and the consumer are never inside the same storage slot. *)
THEOREM SlotsDisjoint == Spec => []NoSlotRace
<1>1. GuardsStillHold => NoSlotRace
  BY DEF GuardsStillHold, NoSlotRace
<1>2. QED
  BY <1>1, GuardsCorrect, PTL

-----------------------------------------------------------------------------
(***************************************************************************)
(* The other side can only make more room, or more bytes, after an answer  *)
(* was computed.                                                           *)
(***************************************************************************)
LEMMA ProbesStep ==
  TypeOK /\ GuardsStillHold /\ ProbesConservative /\ [Next]_vars
    => ProbesConservative'
<1> SUFFICES ASSUME TypeOK, GuardsStillHold, ProbesConservative, [Next]_vars
             PROVE  ProbesConservative'
  OBVIOUS
<1> USE CapacityAssumption DEF ProbesConservative, Occupancy
<1>t. /\ head \in Index /\ tail \in Index /\ pspace \in Nat /\ clen \in Nat
      /\ ppc # "idle" => pspace = NoAnswer
      /\ cpc # "idle" => clen = NoAnswer
  BY DEF TypeOK
<1>l. RingLen(head, tail) \in 0 .. Capacity - 1
  BY <1>t, RingLenBounds
<1>1. CASE PushCall
  BY <1>1 DEF PushCall, consumerVars
<1>2. CASE PushFull
  BY <1>2 DEF PushFull, consumerVars
<1>3. CASE PushRoom
  BY <1>3 DEF PushRoom, consumerVars
<1>4. CASE PushPublish
  <2>1. RingLen(next_index(head), tail) = RingLen(head, tail) + 1
    BY <1>4, <1>t, RingLenBounds DEF PushPublish, GuardsStillHold
  <2>2. pspace = NoAnswer
    BY <1>4, <1>t DEF PushPublish
  <2>3. QED
    BY <1>4, <1>t, <1>l, <2>1, <2>2 DEF PushPublish, consumerVars
<1>5. CASE Space
  BY <1>5 DEF Space, consumerVars, RingSpace
<1>6. ASSUME NEW b \in Byte, PushStore(b)
      PROVE  ProbesConservative'
  BY <1>6 DEF PushStore, consumerVars
<1>7. CASE PopCall
  BY <1>7 DEF PopCall, producerVars
<1>8. CASE PopEmpty
  BY <1>8 DEF PopEmpty, producerVars
<1>9. CASE PopSome
  BY <1>9 DEF PopSome, producerVars
<1>10. CASE PopRead
  BY <1>10 DEF PopRead, producerVars
<1>11. CASE PopAdvance
  <2>1. RingLen(head, next_index(tail)) = RingLen(head, tail) - 1
    BY <1>11, <1>t, RingLenBounds DEF PopAdvance, GuardsStillHold
  <2>2. clen = NoAnswer
    BY <1>11, <1>t DEF PopAdvance
  <2>3. QED
    BY <1>11, <1>t, <1>l, <2>1, <2>2 DEF PopAdvance, producerVars
<1>12. CASE Length
  BY <1>12, <1>l DEF Length, producerVars
<1>13. CASE Reset
  BY <1>13 DEF Reset
<1>14. CASE UNCHANGED vars
  BY <1>14 DEF vars
<1>15. QED
  BY <1>1, <1>2, <1>3, <1>4, <1>5, <1>6, <1>7, <1>8, <1>9, <1>10, <1>11,
     <1>12, <1>13, <1>14 DEF Next, Producer, Consumer

(* ringbuf_space never over-promises to the producer, nor ringbuf_len to the *)
(* consumer, whatever the other side does afterwards.                       *)
THEOREM ProbesCorrect == Spec => []ProbesConservative
<1>1. Init => ProbesConservative
  BY DEF Init, ProbesConservative
<1>2. QED
  BY <1>1, ProbesStep, GuardsCorrect, TypeCorrect, PTL DEF Spec

(* The invariant of the ring, for every capacity, byte set and length.      *)
THEOREM Invariance == Spec => []RingInv
  BY TypeCorrect, GuardsCorrect, ProbesCorrect, PTL DEF RingInv

-----------------------------------------------------------------------------
(***************************************************************************)
(* Refinement.  Only three steps change the abstract queue: publishing     *)
(* head appends the stored byte, releasing tail removes the byte read, and *)
(* a reset empties it; storing a byte touches only the free slot.          *)
(***************************************************************************)
LEMMA ContentsType ==
  ASSUME TypeOK
  PROVE  /\ Contents \in Seq(Byte)
         /\ Len(Contents) = Occupancy
         /\ Occupancy \in 0 .. Capacity - 1
         /\ \A i \in 1 .. Occupancy :
              Contents[i] = storage[(tail + i - 1) % Capacity]
<1>1. Occupancy \in 0 .. Capacity - 1
  BY RingLenBounds DEF TypeOK, Occupancy
<1>2. \A i \in 1 .. Occupancy : storage[(tail + i - 1) % Capacity] \in Byte
  <2> TAKE i \in 1 .. Occupancy
  <2>1. i \in 1 .. Capacity
    BY <1>1, CapacityAssumption
  <2>2. QED
    BY <2>1, SlotOf DEF TypeOK
<1>3. QED
  BY <1>1, <1>2, CapacityAssumption DEF Contents

(* Publishing the head appends the stored byte.                              *)
LEMMA PublishAppends ==
  ASSUME TypeOK, GuardsStillHold, PushPublish
  PROVE  /\ Contents' = Append(Contents, storage[head])
         /\ Len(Contents) < Capacity - 1
         /\ storage[head] \in Byte
<1> USE CapacityAssumption
<1>t. /\ head \in Index /\ tail \in Index /\ storage \in [Index -> Byte]
      /\ head' = next_index(head) /\ tail' = tail /\ storage' = storage
      /\ next_index(head) \in Index /\ next_index(head) # tail
  BY NextIndex DEF TypeOK, PushPublish, GuardsStillHold
<1>1. Occupancy' = Occupancy + 1
  BY <1>t, RingLenBounds DEF Occupancy
<1>2. Occupancy \in 0 .. Capacity - 2
  BY <1>t, <1>1, RingLenBounds DEF Occupancy
<1>3. (tail + (Occupancy + 1) - 1) % Capacity = head
  <2>1. Occupancy + 1 \in 1 .. Capacity
    BY <1>2
  <2>2. QED
    BY <1>t, <1>2, <2>1, SlotOf DEF Occupancy, RingLen, Index
<1>4. Contents' = [i \in 1 .. Occupancy + 1 |-> storage[(tail + i - 1) % Capacity]]
  BY <1>t, <1>1 DEF Contents
<1>5. Append(Contents, storage[head])
        = [i \in 1 .. Occupancy + 1 |-> storage[(tail + i - 1) % Capacity]]
  BY <1>2, <1>3, ContentsType
<1>6. QED
  BY <1>t, <1>2, <1>4, <1>5, ContentsType

(* Publishing the tail removes the oldest byte.                              *)
LEMMA AdvanceRemoves ==
  ASSUME TypeOK, GuardsStillHold, PopAdvance
  PROVE  /\ Contents # <<>>
         /\ got' = Head(Contents)
         /\ Contents' = Tail(Contents)
<1> USE CapacityAssumption
<1>t. /\ head \in Index /\ tail \in Index /\ storage \in [Index -> Byte]
      /\ head' = head /\ tail' = next_index(tail) /\ storage' = storage
      /\ next_index(tail) \in Index /\ head # tail
      /\ got' = storage[tail]
  BY NextIndex DEF TypeOK, PopAdvance, GuardsStillHold
<1>1. Occupancy' = Occupancy - 1 /\ Occupancy \in 1 .. Capacity - 1
  BY <1>t, RingLenBounds DEF Occupancy
<1>2. Contents # <<>> /\ Head(Contents) = storage[tail]
  <2>1. (tail + 1 - 1) % Capacity = tail
    BY <1>t, SlotOf DEF Index
  <2>2. QED
    BY <1>1, <2>1, ContentsType
<1>3. \A i \in 1 .. Occupancy - 1 :
        (next_index(tail) + i - 1) % Capacity = (tail + (i + 1) - 1) % Capacity
  <2> TAKE i \in 1 .. Occupancy - 1
  <2>1. i \in 1 .. Capacity /\ i + 1 \in 1 .. Capacity
    BY <1>1
  <2>2. next_index(tail) = IF tail = Capacity - 1 THEN 0 ELSE tail + 1
    BY <1>t, NextIndex
  <2>3. (tail + (i + 1) - 1) % Capacity =
          IF tail + (i + 1) - 1 < Capacity THEN tail + (i + 1) - 1
          ELSE tail + (i + 1) - 1 - Capacity
    BY <1>t, <2>1, SlotOf
  <2>4. (next_index(tail) + i - 1) % Capacity =
          IF next_index(tail) + i - 1 < Capacity THEN next_index(tail) + i - 1
          ELSE next_index(tail) + i - 1 - Capacity
    BY <1>t, <2>1, SlotOf
  <2>5. QED
    BY <1>t, <1>1, <2>1, <2>2, <2>3, <2>4 DEF Index
<1>4. Contents' = [i \in 1 .. Occupancy - 1 |->
                     storage[(next_index(tail) + i - 1) % Capacity]]
  BY <1>t, <1>1 DEF Contents
<1>5. Tail(Contents) = [i \in 1 .. Occupancy - 1 |->
                          storage[(tail + (i + 1) - 1) % Capacity]]
  <2>1. /\ Contents \in Seq(Byte) /\ Contents # <<>> /\ Len(Contents) = Occupancy
        /\ Tail(Contents) \in Seq(Byte)
        /\ Len(Tail(Contents)) = Occupancy - 1
    BY <1>1, ContentsType
  <2>2. \A i \in 1 .. Occupancy - 1 : Tail(Contents)[i] = Contents[i + 1]
    BY <1>1, <2>1
  <2>3. \A i \in 1 .. Occupancy - 1 :
          Contents[i + 1] = storage[(tail + (i + 1) - 1) % Capacity]
    BY <1>1, ContentsType
  <2>4. Tail(Contents) = [i \in 1 .. Occupancy - 1 |-> Tail(Contents)[i]]
    <3>1. Tail(Contents) \in [1 .. Occupancy - 1 -> Byte]
      BY <2>1, LenProperties
    <3>2. QED
      BY <3>1
  <2>5. QED
    BY <2>2, <2>3, <2>4
<1>6. QED
  BY <1>t, <1>2, <1>3, <1>4, <1>5

(* A store into the free slot changes nothing in the queue.                  *)
LEMMA StoreKeepsContents ==
  ASSUME TypeOK, GuardsStillHold, NEW b \in Byte, PushStore(b)
  PROVE  Contents' = Contents
<1> USE CapacityAssumption
<1>t. /\ head \in Index /\ tail \in Index /\ storage \in [Index -> Byte]
      /\ head' = head /\ tail' = tail
      /\ storage' = [storage EXCEPT ![head] = b]
  BY DEF TypeOK, PushStore
<1>1. Occupancy' = Occupancy /\ Occupancy \in 0 .. Capacity - 1
  BY <1>t, RingLenBounds DEF Occupancy
<1>2. \A i \in 1 .. Occupancy : (tail + i - 1) % Capacity # head
  <2> TAKE i \in 1 .. Occupancy
  <2>1. i \in 1 .. Capacity
    BY <1>1
  <2>2. QED
    BY <1>t, <1>1, <2>1, SlotOf DEF Occupancy, RingLen, Index
<1>3. QED
  BY <1>t, <1>1, <1>2 DEF Contents

(* One producer and one consumer, interrupting each other anywhere, behave  *)
(* as the bounded FIFO queue of ByteFifo.                                   *)
THEOREM RingImplementsFifo == Spec => FifoSpec
<1>1. Init => Fifo!Init
  <2> SUFFICES ASSUME Init PROVE Fifo!Init
    OBVIOUS
  <2>1. Occupancy = 0
    BY CapacityAssumption DEF Init, Occupancy, RingLen
  <2>2. QED
    BY <2>1 DEF Init, Fifo!Init, Contents
<1>2. TypeOK /\ GuardsStillHold /\ [Next]_vars => [Fifo!Next]_(Fifo!vars)
  <2> SUFFICES ASSUME TypeOK, GuardsStillHold, [Next]_vars
               PROVE  Fifo!Next \/ UNCHANGED Fifo!vars
    OBVIOUS
  <2>u. ASSUME UNCHANGED <<storage, head, tail, got>>
        PROVE  UNCHANGED Fifo!vars
    BY <2>u DEF Fifo!vars, Contents, Occupancy
  <2>1. CASE PushPublish
    <3>1. Fifo!Put(storage[head]) /\ storage[head] \in Byte
      BY <2>1, PublishAppends DEF Fifo!Put, PushPublish, consumerVars
    <3>2. QED
      BY <3>1 DEF Fifo!Next
  <2>2. CASE PopAdvance
    BY <2>2, AdvanceRemoves DEF Fifo!Next, Fifo!Get
  <2>3. CASE Reset
    <3>1. Occupancy' = 0 /\ got' = got
      BY <2>3, CapacityAssumption DEF Reset, Occupancy, RingLen
    <3>2. Contents' = <<>>
      BY <3>1 DEF Contents
    <3>3. QED
      BY <3>1, <3>2 DEF Fifo!Next, Fifo!Clear
  <2>4. ASSUME NEW b \in Byte, PushStore(b)
        PROVE  UNCHANGED Fifo!vars
    BY <2>4, StoreKeepsContents DEF Fifo!vars, PushStore, consumerVars
  <2>5. CASE PushCall \/ PushFull \/ PushRoom \/ Space
    BY <2>5, <2>u DEF PushCall, PushFull, PushRoom, Space, consumerVars
  <2>6. CASE PopCall \/ PopEmpty \/ PopSome \/ PopRead \/ Length
    BY <2>6, <2>u DEF PopCall, PopEmpty, PopSome, PopRead, Length, producerVars
  <2>7. CASE UNCHANGED vars
    BY <2>7, <2>u DEF vars
  <2>8. QED
    BY <2>1, <2>2, <2>3, <2>4, <2>5, <2>6, <2>7 DEF Next, Producer, Consumer
<1>3. QED
  BY <1>1, <1>2, TypeCorrect, GuardsCorrect, PTL DEF Spec, FifoSpec, Fifo!Spec

-----------------------------------------------------------------------------
(* Remainders. *)

LEMMA Bigger ==
  ASSUME NEW L \in Nat, L >= 1, NEW p \in Int, NEW q \in Int, p < q
  PROVE  p * L + L <= q * L
<1>1. (q - p - 1) * L >= 0
  <2> DEFINE d == q - p - 1
  <2>1. d \in Nat
    OBVIOUS
  <2> HIDE DEF d
  <2>2. d * L >= 0
    BY <2>1
  <2>3. QED
    BY <2>2 DEF d
<1>2. QED
  BY <1>1
LEMMA DivMod ==
  ASSUME NEW L \in Nat, L >= 1, NEW x \in Nat
  PROVE  /\ x \div L \in Int /\ (x % L) \in 0 .. L - 1
         /\ x = (x \div L) * L + (x % L)
<1>1. x \div L \in Int
  OBVIOUS
<1>2. (x % L) \in 0 .. L - 1
  OBVIOUS
<1>3. x = (x \div L) * L + (x % L)
  BY Z3
<1>4. QED
  BY <1>1, <1>2, <1>3
LEMMA ModIs ==
  ASSUME NEW L \in Nat, L >= 1, NEW x \in Nat, NEW q \in Int, NEW r \in 0 .. L - 1, x = q * L + r
  PROVE  (x % L) = r
<1> DEFINE p == x \div L
           s == (x % L)
<1>1. p \in Int /\ s \in 0 .. L - 1 /\ x = p * L + s
  BY DivMod
<1> HIDE DEF p, s
<1>2. ~ (p < q)
  <2> SUFFICES ASSUME p < q PROVE FALSE
    OBVIOUS
  <2>1. p * L + L <= q * L
    BY <1>1, Bigger
  <2> DEFINE a == p * L
             b == q * L
  <2>2. a \in Int /\ b \in Int /\ a + L <= b /\ a + s = b + r
    BY <1>1, <2>1
  <2> HIDE DEF a, b
  <2>3. QED
    BY <1>1, <2>2
<1>3. ~ (q < p)
  <2> SUFFICES ASSUME q < p PROVE FALSE
    OBVIOUS
  <2>1. q * L + L <= p * L
    BY <1>1, Bigger
  <2> DEFINE a == p * L
             b == q * L
  <2>2. a \in Int /\ b \in Int /\ b + L <= a /\ a + s = b + r
    BY <1>1, <2>1
  <2> HIDE DEF a, b
  <2>3. QED
    BY <1>1, <2>2
<1>4. p = q
  BY <1>1, <1>2, <1>3
<1>5. s = r
  BY <1>1, <1>4
<1>6. QED
  BY <1>5 DEF s
LEMMA ModNext ==
  ASSUME NEW L \in Nat, L >= 1, NEW x \in Nat
  PROVE  /\ (x % L) < L - 1 => (x + 1) % L = (x % L) + 1
         /\ (x % L) = L - 1 => (x + 1) % L = 0
<1> DEFINE p == x \div L
           s == (x % L)
<1>1. p \in Int /\ s \in 0 .. L - 1 /\ x = p * L + s
  BY DivMod
<1> HIDE DEF p, s
<1>2. ASSUME s < L - 1 PROVE (x + 1) % L = s + 1
  <2>1. x + 1 = p * L + (s + 1) /\ s + 1 \in 0 .. L - 1
    BY <1>1, <1>2
  <2>2. x + 1 \in Nat
    OBVIOUS
  <2>3. QED
    BY <1>1, <2>1, <2>2, ModIs, Zenon
<1>3. ASSUME s = L - 1 PROVE (x + 1) % L = 0
  <2>1. x + 1 = (p + 1) * L + 0 /\ 0 \in 0 .. L - 1 /\ p + 1 \in Int
    BY <1>1, <1>3
  <2>2. x + 1 \in Nat
    OBVIOUS
  <2>3. QED
    BY <2>1, <2>2, ModIs, Zenon
<1>4. QED
  BY <1>2, <1>3 DEF s

-----------------------------------------------------------------------------
(* The members of a set of numbers in order, and maxima. *)

(* A number of a set that no other exceeds is its maximum. *)
LEMMA MaxIs ==
  ASSUME NEW S, S \subseteq Int, NEW m \in S, \A y \in S : y <= m
  PROVE  Max(S) = m
<1>1. \A x \in S : (\A y \in S : x >= y) <=> x = m
  OBVIOUS
<1>2. Max(S) \in S /\ \A y \in S : Max(S) >= y
  BY <1>1 DEF Max
<1>3. QED
  BY <1>1, <1>2

(* A bounded set of numbers that is not empty has a maximum. *)
LEMMA MaxExists ==
  ASSUME NEW b \in Nat, NEW S \in SUBSET (0 .. b), S # {}
  PROVE  Max(S) \in S /\ \A y \in S : y <= Max(S)
<1> DEFINE T == {b - x : x \in S}
<1>1. T \in SUBSET Nat /\ T # {}
  <2>1. \A x \in S : b - x \in Nat
    OBVIOUS
  <2>2. T \subseteq Nat
    BY <2>1
  <2>3. T # {}
    OBVIOUS
  <2>4. QED
    BY <2>2, <2>3
<1>2. PICK t \in T : \A u \in T : t <= u
  BY <1>1, Least
<1>3. PICK m \in S : t = b - m
  BY <1>2
<1>4. \A y \in S : y <= m
  <2> SUFFICES ASSUME NEW y \in S PROVE y <= m
    OBVIOUS
  <2>1. b - y \in T
    OBVIOUS
  <2>2. b - m <= b - y
    BY <1>2, <1>3, <2>1
  <2>3. m \in Int /\ y \in Int
    OBVIOUS
  <2>4. QED
    BY <2>2, <2>3
<1>5. S \subseteq Int
  OBVIOUS
<1>6. Max(S) = m
  BY <1>4, <1>5, MaxIs
<1>7. QED
  BY <1>4, <1>6

(* A sequence over a set is one over a larger set. *)
LEMMA SeqOfMore ==
  ASSUME NEW S, NEW T, S \subseteq T, NEW s \in Seq(S)
  PROVE  s \in Seq(T)
  OBVIOUS

(* The members of S up to i, and those with at most k members up to them. *)
Upto(S, i) == {j \in S : j <= i}
Among(S, k) == {i \in S : Cardinality(Upto(S, i)) <= k}

(* InOrder in these terms. *)
LEMMA InOrderIs ==
  ASSUME NEW S
  PROVE  InOrder(S) = [k \in 1 .. Cardinality(S) |-> Max(Among(S, k))]
  BY DEF InOrder, Among, Upto

(* A set of indices is finite, and so is what is up to one of them. *)
LEMMA IndexSet ==
  ASSUME NEW b \in Nat, NEW S \in SUBSET (1 .. b)
  PROVE  /\ IsFiniteSet(S) /\ Cardinality(S) \in Nat
         /\ \A i : Cardinality(Upto(S, i)) \in Nat /\ Cardinality(Upto(S, i)) <= Cardinality(S)
<1>1. IsFiniteSet(1 .. b)
  BY FS_Interval
<1>2. IsFiniteSet(S)
  BY <1>1, FS_Subset
<1>3. ASSUME NEW i PROVE Cardinality(Upto(S, i)) \in Nat /\ Cardinality(Upto(S, i)) <= Cardinality(S)
  <2>1. Upto(S, i) \subseteq S
    BY DEF Upto
  <2>2. IsFiniteSet(Upto(S, i)) /\ Cardinality(Upto(S, i)) <= Cardinality(S)
    BY <1>2, <2>1, FS_Subset
  <2>3. QED
    BY <2>2, FS_CardinalityType
<1>4. QED
  BY <1>2, <1>3, FS_CardinalityType

(* The k-th member is a member with at most k up to it; the last of all is the largest. *)
LEMMA InOrderType ==
  ASSUME NEW b \in Nat, NEW S \in SUBSET (1 .. b)
  PROVE  /\ InOrder(S) \in Seq(S) /\ Len(InOrder(S)) = Cardinality(S)
         /\ \A k \in 1 .. Cardinality(S) : InOrder(S)[k] \in Among(S, k)
<1>0. Cardinality(S) \in Nat
  BY IndexSet
<1>1. ASSUME NEW k \in 1 .. Cardinality(S)
      PROVE  Max(Among(S, k)) \in Among(S, k)
  <2>1. S # {}
    <3>1. Cardinality(S) # 0
      BY <1>0, <1>1
    <3>2. QED
      BY <3>1, FS_EmptySet
  <2>2. S \in SUBSET Nat
    OBVIOUS
  <2>3. PICK m \in S : \A y \in S : m <= y
    BY <2>1, <2>2, Least
  <2>4. Upto(S, m) = {m}
    <3>1. \A j \in S : j <= m <=> j = m
      BY <2>2, <2>3
    <3>2. QED
      BY <3>1, Zenon DEF Upto
  <2>5. Cardinality(Upto(S, m)) = 1
    BY <2>4, FS_Singleton
  <2>6. m \in Among(S, k)
    BY <1>1, <2>5 DEF Among
  <2>7. Among(S, k) \in SUBSET (0 .. b)
    <3>1. Among(S, k) \subseteq S
      BY DEF Among
    <3>2. S \subseteq 0 .. b
      OBVIOUS
    <3>3. QED
      BY <3>1, <3>2
  <2>8. QED
    BY <2>6, <2>7, MaxExists, Zenon
<1>2. InOrder(S) = [k \in 1 .. Cardinality(S) |-> Max(Among(S, k))]
  BY InOrderIs
<1>3. \A k \in 1 .. Cardinality(S) : InOrder(S)[k] \in Among(S, k)
  BY <1>1, <1>2
<1>4. \A k \in 1 .. Cardinality(S) : Max(Among(S, k)) \in S
  BY <1>1 DEF Among
<1>5. InOrder(S) \in Seq(S) /\ Len(InOrder(S)) = Cardinality(S)
  BY <1>0, <1>2, <1>4
<1>6. QED
  BY <1>3, <1>5

(* No member comes before the first. *)
LEMMA InOrderEmpty == InOrder({}) = <<>>
<1>1. Cardinality({}) = 0
  BY FS_EmptySet
<1>2. InOrder({}) = [k \in 1 .. 0 |-> Max(Among({}, k))]
  BY <1>1, InOrderIs
<1>3. QED
  BY <1>2

(* A number above all comes last. *)
LEMMA InOrderAppend ==
  ASSUME NEW b \in Nat, NEW S \in SUBSET (1 .. b)
  PROVE  InOrder(S \cup {b + 1}) = Append(InOrder(S), b + 1)
<1> DEFINE x == b + 1
           A == S \cup {x}
           n == Cardinality(S)
<1>1. IsFiniteSet(S) /\ n \in Nat
  BY IndexSet
<1>2. x \notin S
  OBVIOUS
<1>3. Cardinality(A) = n + 1
  BY <1>1, <1>2, FS_AddElement
<1>4. A \in SUBSET (1 .. x) /\ x \in Nat
  OBVIOUS
<1>5. Upto(A, x) = A
  <2>1. \A j \in A : j <= x
    BY <1>4
  <2> HIDE DEF A
  <2>2. QED
    BY <2>1, Zenon DEF Upto
<1>6. \A i \in S : Upto(A, i) = Upto(S, i)
  BY DEF Upto
<1>7. ASSUME NEW k \in 1 .. n PROVE Among(A, k) = Among(S, k)
  <2>1. ~ (Cardinality(Upto(A, x)) <= k)
    <3>1. Cardinality(Upto(A, x)) = n + 1
      BY <1>3, <1>5, Zenon
    <3>2. QED
      BY <1>1, <3>1
  <2> HIDE DEF x
  <2>2. \A i \in S : Cardinality(Upto(A, i)) = Cardinality(Upto(S, i))
    BY <1>6
  <2> HIDE DEF n
  <2>3. QED
    BY <2>1, <2>2, Zenon DEF Among
<1>8. Max(Among(A, n + 1)) = x
  <2>1. x \in Among(A, n + 1)
    <3>1. Cardinality(Upto(A, x)) = n + 1
      BY <1>3, <1>5, Zenon
    <3>2. x \in A
      OBVIOUS
    <3>3. Cardinality(Upto(A, x)) <= n + 1
      <4> HIDE DEF A, n, x
      <4>1. n + 1 \in Nat
        BY <1>1
      <4>2. QED
        BY <3>1, <4>1
    <3>4. QED
      BY <3>2, <3>3, Zenon DEF Among
  <2>2. \A y \in A : y \in Int /\ y <= x
    BY <1>4
  <2>3. \A y \in Among(A, n + 1) : y \in A
    BY DEF Among
  <2> HIDE DEF A, x, n
  <2>4. Among(A, n + 1) \subseteq Int /\ \A y \in Among(A, n + 1) : y <= x
    BY <2>2, <2>3
  <2>5. QED
    BY <2>1, <2>4, MaxIs, Zenon
<1>9. InOrder(A) = [k \in 1 .. n + 1 |-> Max(Among(A, k))]
  BY <1>3, InOrderIs
<1>10. InOrder(S) = [k \in 1 .. n |-> Max(Among(S, k))]
  BY InOrderIs
<1>11. InOrder(S) \in Seq(Nat) /\ Len(InOrder(S)) = n
  <2>1. InOrder(S) \in Seq(S) /\ Len(InOrder(S)) = n
    BY InOrderType, Zenon
  <2>2. S \subseteq Nat
    OBVIOUS
  <2>3. QED
    BY <2>1, <2>2, SeqOfMore, Zenon
<1>12. InOrder(A) \in Seq(Nat) /\ Len(InOrder(A)) = n + 1
  <2>1. A \subseteq Nat
    OBVIOUS
  <2> HIDE DEF A, x
  <2>2. InOrder(A) \in Seq(A) /\ Len(InOrder(A)) = Cardinality(A)
    BY <1>4, InOrderType, Zenon
  <2>3. QED
    BY <1>3, <2>1, <2>2, SeqOfMore, Zenon
<1> HIDE DEF x, n, A
<1>13. \A k \in 1 .. n : InOrder(A)[k] = InOrder(S)[k]
  BY <1>1, <1>7, <1>9, <1>10
<1>14. InOrder(A)[n + 1] = x
  BY <1>1, <1>8, <1>9
<1>15. InOrder(A) = Append(InOrder(S), x)
  <2> DEFINE p == InOrder(A)
             q == InOrder(S)
  <2>1. x \in Nat
    BY <1>4
  <2> HIDE DEF p, q
  <2>2. p \in Seq(Nat) /\ Len(p) = n + 1 /\ q \in Seq(Nat) /\ Len(q) = n /\ p[n + 1] = x
    BY <1>11, <1>12, <1>14 DEF p, q
  <2>3. \A k \in 1 .. n : p[k] = q[k]
    BY <1>13 DEF p, q
  <2>4. p = Append(q, x)
    BY <1>1, <2>1, <2>2, <2>3
  <2>5. QED
    BY <2>4 DEF p, q
<1>16. QED
  BY <1>15 DEF x, A

(* The last of all members is the largest, and no other is. *)
LEMMA InOrderLast ==
  ASSUME NEW b \in Nat, NEW S \in SUBSET (1 .. b), NEW m \in S, \A y \in S : y <= m
  PROVE  /\ Cardinality(S) >= 1 /\ InOrder(S)[Cardinality(S)] = m
         /\ \A k \in 1 .. Cardinality(S) - 1 : InOrder(S)[k] \in S /\ InOrder(S)[k] < m
<1> DEFINE n == Cardinality(S)
<1>1. IsFiniteSet(S) /\ n \in Nat
  BY IndexSet
<1>2. n # 0
  BY <1>1, FS_EmptySet
<1>3. Among(S, n) = S
  BY IndexSet DEF Among
<1>4. Max(S) = m
  <2>1. S \subseteq Int
    OBVIOUS
  <2>2. QED
    BY <2>1, MaxIs, Zenon
<1>5. InOrder(S)[n] = m
  BY <1>1, <1>2, <1>3, <1>4, InOrderIs
<1>6. Upto(S, m) = S
  BY DEF Upto
<1>7. ASSUME NEW k \in 1 .. n - 1
      PROVE  InOrder(S)[k] \in S /\ InOrder(S)[k] < m
  <2>1. k \in 1 .. n
    BY <1>1
  <2>2. InOrder(S)[k] \in Among(S, k)
    BY <2>1, InOrderType
  <2>3. InOrder(S)[k] \in S /\ Cardinality(Upto(S, InOrder(S)[k])) <= k
    BY <2>2 DEF Among
  <2>4. InOrder(S)[k] # m
    BY <1>1, <1>6, <2>1, <2>3
  <2>5. InOrder(S)[k] <= m
    BY <2>3, Zenon
  <2>6. \A y \in S : y \in Int
    OBVIOUS
  <2>7. InOrder(S)[k] \in Int /\ m \in Int
    BY <2>3, <2>6, Zenon
  <2>8. QED
    BY <2>3, <2>4, <2>5, <2>7
<1>8. QED
  BY <1>1, <1>2, <1>5, <1>7

-----------------------------------------------------------------------------
(* The words of a line, as characters are added to it. *)

(* A line, and the places of its words.                                     *)
LineChar == RxByte \ {"eol"}
NoNul(l) == \A k \in 1 .. Len(l) : l[k] # "nul"
InAWord(l) == Len(l) > 0 /\ l[Len(l)] # "blank"

(* A line and one character more. *)
LEMMA OneMore ==
  ASSUME NEW S, NEW l \in Seq(S), NEW c \in S
  PROVE  /\ Len(l) \in Nat /\ Append(l, c) \in Seq(S) /\ Len(Append(l, c)) = Len(l) + 1
         /\ Append(l, c)[Len(l) + 1] = c
         /\ \A k \in 1 .. Len(l) : Append(l, c)[k] = l[k]
  OBVIOUS

(* What a character more does to the places of the words. *)
LEMMA InWordMore ==
  ASSUME NEW l \in Seq(LineChar), NEW c \in LineChar, NEW i \in Nat, i >= 1
  PROVE  /\ \A j \in 1 .. Len(l) : InWord(Append(l, c), i, j) <=> InWord(l, i, j)
         /\ i <= Len(l) + 1 =>
              (InWord(Append(l, c), i, Len(l) + 1) <=>
                 NoNul(l) /\ c \notin {"nul", "blank"} /\ \A k \in i .. Len(l) : l[k] # "blank")
<1> DEFINE m == Append(l, c)
           n == Len(l)
<1>1. n \in Nat /\ m[n + 1] = c /\ \A k \in 1 .. n : m[k] = l[k]
  BY OneMore
<1> HIDE DEF m
<1>2. \A j \in 1 .. n : InWord(m, i, j) <=> InWord(l, i, j)
  <2> SUFFICES ASSUME NEW j \in 1 .. n PROVE InWord(m, i, j) <=> InWord(l, i, j)
    OBVIOUS
  <2>1. \A k \in 1 .. j : m[k] = l[k]
    BY <1>1
  <2>2. \A k \in i .. j : m[k] = l[k]
    BY <1>1
  <2>3. QED
    BY <2>1, <2>2, Zenon DEF InWord
<1>3. ASSUME i <= n + 1
      PROVE  InWord(m, i, n + 1) <=>
                 NoNul(l) /\ c \notin {"nul", "blank"} /\ \A k \in i .. n : l[k] # "blank"
  <2>1. (\A k \in 1 .. n + 1 : m[k] # "nul") <=> NoNul(l) /\ c # "nul"
    <3>1. \A k : k \in 1 .. n + 1 <=> k \in 1 .. n \/ k = n + 1
      BY <1>1
    <3>2. QED
      BY <1>1, <3>1, Zenon DEF NoNul
  <2>2. (\A k \in i .. n + 1 : m[k] # "blank") <=> c # "blank" /\ \A k \in i .. n : l[k] # "blank"
    <3>1. \A k : k \in i .. n + 1 <=> k \in i .. n \/ k = n + 1
      BY <1>1, <1>3
    <3>2. \A k \in i .. n : k \in 1 .. n
      BY <1>1
    <3>3. QED
      BY <1>1, <3>1, <3>2, Zenon
  <2>3. QED
    BY <2>1, <2>2, Zenon DEF InWord
<1>4. QED
  BY <1>2, <1>3 DEF m

(* Words begin at indices. *)
LEMMA WordStartsType ==
  ASSUME NEW l \in Seq(LineChar)
  PROVE  /\ WordStarts(l) \in SUBSET (1 .. Len(l))
         /\ \A i : i \in WordStarts(l) <=> i \in 1 .. Len(l) /\ InWord(l, i, i) /\ (i = 1 \/ l[i - 1] = "blank")
  BY DEF WordStarts

(* The new character begins a word if the line is in none and has no NUL.   *)
LEMMA WordStartsMore ==
  ASSUME NEW l \in Seq(LineChar), NEW c \in LineChar
  PROVE  /\ NoNul(l) /\ c \notin {"nul", "blank"} /\ ~ InAWord(l) => WordStarts(Append(l, c)) = WordStarts(l) \cup {Len(l) + 1}
         /\ ~ (NoNul(l) /\ c \notin {"nul", "blank"} /\ ~ InAWord(l)) => WordStarts(Append(l, c)) = WordStarts(l)
<1> DEFINE m == Append(l, c)
           n == Len(l)
           new == NoNul(l) /\ c \notin {"nul", "blank"} /\ ~ InAWord(l)
<1>1. /\ n \in Nat /\ m \in Seq(LineChar) /\ Len(m) = n + 1 /\ m[n + 1] = c
      /\ \A k \in 1 .. n : m[k] = l[k]
  BY OneMore
<1>2. \A i \in 1 .. n : InWord(m, i, i) <=> InWord(l, i, i)
  <2> SUFFICES ASSUME NEW i \in 1 .. n PROVE InWord(m, i, i) <=> InWord(l, i, i)
    OBVIOUS
  <2>1. i \in Nat /\ i >= 1
    BY <1>1
  <2>2. QED
    BY <2>1, InWordMore, Zenon
<1>3. InWord(m, n + 1, n + 1) <=> NoNul(l) /\ c \notin {"nul", "blank"}
  <2>1. n + 1 \in Nat /\ n + 1 >= 1 /\ n + 1 <= n + 1
    BY <1>1
  <2>2. \A k \in n + 1 .. n : l[k] # "blank"
    BY <1>1
  <2>3. QED
    BY <2>1, <2>2, InWordMore, Zenon
<1>4. \A i : i \in WordStarts(m) <=> i \in 1 .. n + 1 /\ InWord(m, i, i) /\ (i = 1 \/ m[i - 1] = "blank")
  BY <1>1, WordStartsType, Zenon
<1>5. \A i : i \in WordStarts(l) <=> i \in 1 .. n /\ InWord(l, i, i) /\ (i = 1 \/ l[i - 1] = "blank")
  BY WordStartsType, Zenon
<1> HIDE DEF m
<1>6. \A i \in 1 .. n : i \in WordStarts(m) <=> i \in WordStarts(l)
  <2> SUFFICES ASSUME NEW i \in 1 .. n PROVE i \in WordStarts(m) <=> i \in WordStarts(l)
    OBVIOUS
  <2>1. i \in 1 .. n + 1
    BY <1>1
  <2>2. i # 1 => m[i - 1] = l[i - 1]
    BY <1>1
  <2>3. QED
    BY <1>2, <1>4, <1>5, <2>1, <2>2, Zenon
<1>7. n + 1 \in WordStarts(m) <=> new
  <2>1. n + 1 \in 1 .. n + 1 /\ (n + 1 = 1 <=> n = 0) /\ (n + 1) - 1 = n
    BY <1>1
  <2>2. n # 0 => m[n] = l[n] /\ n > 0
    BY <1>1
  <2>3. ~ InAWord(l) <=> n = 0 \/ l[n] = "blank"
    BY <1>1 DEF InAWord
  <2>4. n + 1 \in WordStarts(m) <=> InWord(m, n + 1, n + 1) /\ (n = 0 \/ m[n] = "blank")
    BY <1>4, <2>1, Zenon
  <2>5. QED
    BY <1>3, <2>2, <2>3, <2>4, Zenon
<1>8. \A i : i \in 1 .. n + 1 <=> i \in 1 .. n \/ i = n + 1
  BY <1>1
<1>9. n + 1 \notin 1 .. n
  BY <1>1
<1> HIDE DEF n
<1>10. ASSUME new PROVE WordStarts(m) = WordStarts(l) \cup {n + 1}
  <2>1. \A i : i \in WordStarts(m) <=> i \in WordStarts(l) \/ i = n + 1
    BY <1>4, <1>5, <1>6, <1>7, <1>8, <1>10, Zenon
  <2>2. QED
    BY <2>1, Zenon
<1>11. ASSUME ~ new PROVE WordStarts(m) = WordStarts(l)
  <2>1. \A i : i \in WordStarts(m) <=> i \in WordStarts(l)
    BY <1>4, <1>5, <1>6, <1>7, <1>8, <1>9, <1>11, Zenon
  <2>2. QED
    BY <2>1, Zenon
<1>12. QED
  BY <1>10, <1>11 DEF m, n

(* Where the word from i on may end.                                        *)
WordEnds(l, i) == {j \in i .. Len(l) : InWord(l, i, j)}

(* A word that begins has an end. *)
LEMMA EndExists ==
  ASSUME NEW l \in Seq(LineChar), NEW i \in WordStarts(l)
  PROVE  /\ i \in 1 .. Len(l) /\ Max(WordEnds(l, i)) \in i .. Len(l)
         /\ InWord(l, i, Max(WordEnds(l, i)))
         /\ WordFrom(l, i) = SubSeq(l, i, Max(WordEnds(l, i)))
<1>1. Len(l) \in Nat /\ i \in 1 .. Len(l) /\ InWord(l, i, i)
  BY DEF WordStarts
<1>2. i \in i .. Len(l)
  BY <1>1
<1>3. i \in WordEnds(l, i)
  BY <1>1, <1>2, Zenon DEF WordEnds
<1>4. WordEnds(l, i) \in SUBSET (0 .. Len(l))
  <2>1. WordEnds(l, i) \subseteq i .. Len(l)
    BY DEF WordEnds
  <2>2. i .. Len(l) \subseteq 0 .. Len(l)
    BY <1>1
  <2>3. QED
    BY <2>1, <2>2
<1>5. Max(WordEnds(l, i)) \in WordEnds(l, i)
  BY <1>1, <1>3, <1>4, MaxExists, Zenon
<1>6. Max(WordEnds(l, i)) \in i .. Len(l) /\ InWord(l, i, Max(WordEnds(l, i)))
  BY <1>5, Zenon DEF WordEnds
<1>7. WordFrom(l, i) = SubSeq(l, i, Max(WordEnds(l, i)))
  BY DEF WordFrom, WordEnds
<1>8. QED
  BY <1>1, <1>6, <1>7

(* A part of a line is the same after a character more. *)
LEMMA SamePart ==
  ASSUME NEW S, NEW l \in Seq(S), NEW c \in S, NEW i \in 1 .. Len(l), NEW j \in i .. Len(l)
  PROVE  SubSeq(Append(l, c), i, j) = SubSeq(l, i, j)
  BY SubSeqProperties

(* And one up to its end is one longer. *)
LEMMA LongerPart ==
  ASSUME NEW S, NEW l \in Seq(S), NEW c \in S, NEW i \in 1 .. Len(l) + 1
  PROVE  SubSeq(Append(l, c), i, Len(l) + 1) = Append(SubSeq(l, i, Len(l)), c)
  BY SubSeqProperties

(* A word that the new character does not extend stays as it is. *)
LEMMA WordStays ==
  ASSUME NEW l \in Seq(LineChar), NEW c \in LineChar, NEW i \in WordStarts(l),
         ~ InWord(Append(l, c), i, Len(l) + 1)
  PROVE  WordFrom(Append(l, c), i) = WordFrom(l, i)
<1> DEFINE m == Append(l, c)
           n == Len(l)
<1>1. n \in Nat /\ m \in Seq(LineChar) /\ Len(m) = n + 1
  BY OneMore
<1>2. i \in 1 .. n
  BY EndExists, Zenon
<1>3. i \in Nat /\ i >= 1
  BY <1>2
<1>4. \A j \in 1 .. n : InWord(m, i, j) <=> InWord(l, i, j)
  BY <1>3, InWordMore, Zenon
<1>5. ~ InWord(m, i, n + 1)
  OBVIOUS
<1>6. \A j \in i .. n : j \in 1 .. n
  BY <1>2
<1>7. \A j : j \in i .. n + 1 <=> j \in i .. n \/ j = n + 1
  BY <1>1, <1>2
<1> HIDE DEF m
<1>8. WordEnds(m, i) = WordEnds(l, i)
  <2>1. WordEnds(m, i) = {j \in i .. n + 1 : InWord(m, i, j)}
    BY <1>1 DEF WordEnds
  <2> HIDE DEF n
  <2>2. \A j : j \in i .. n + 1 /\ InWord(m, i, j) <=> j \in i .. n /\ InWord(l, i, j)
    BY <1>4, <1>5, <1>6, <1>7, Zenon
  <2>3. WordEnds(l, i) = {j \in i .. n : InWord(l, i, j)}
    BY DEF WordEnds, n
  <2>4. QED
    BY <2>1, <2>2, <2>3, Zenon
<1>9. Max(WordEnds(l, i)) \in i .. n /\ WordFrom(l, i) = SubSeq(l, i, Max(WordEnds(l, i)))
  BY EndExists, Zenon
<1>10. SubSeq(m, i, Max(WordEnds(l, i))) = SubSeq(l, i, Max(WordEnds(l, i)))
  BY <1>2, <1>9, SamePart, Zenon DEF m
<1>11. WordFrom(m, i) = SubSeq(m, i, Max(WordEnds(m, i)))
  BY DEF WordFrom, WordEnds
<1>12. WordFrom(m, i) = WordFrom(l, i)
  BY <1>8, <1>9, <1>10, <1>11, Zenon
<1>13. QED
  BY <1>12 DEF m

(* A word that it extends ends with it. *)
LEMMA WordGrows ==
  ASSUME NEW l \in Seq(LineChar), NEW c \in LineChar, NEW i \in 1 .. Len(l) + 1,
         InWord(Append(l, c), i, Len(l) + 1)
  PROVE  WordFrom(Append(l, c), i) = Append(SubSeq(l, i, Len(l)), c)
<1> DEFINE m == Append(l, c)
           n == Len(l)
<1>1. n \in Nat /\ m \in Seq(LineChar) /\ Len(m) = n + 1
  BY OneMore
<1>2. Max(WordEnds(m, i)) = n + 1
  <2>1. n + 1 \in i .. n + 1
    BY <1>1
  <2>2. InWord(m, i, n + 1)
    OBVIOUS
  <2> HIDE DEF m
  <2>3. n + 1 \in WordEnds(m, i)
    BY <1>1, <2>1, <2>2, Zenon DEF WordEnds
  <2>4. \A j \in i .. n + 1 : j \in Int /\ j <= n + 1
    BY <1>1
  <2>5. \A j \in WordEnds(m, i) : j \in Int /\ j <= n + 1
    BY <1>1, <2>4, Zenon DEF WordEnds
  <2>6. WordEnds(m, i) \subseteq Int
    BY <2>5
  <2>7. QED
    BY <2>3, <2>5, <2>6, MaxIs, Zenon
<1>3. WordFrom(m, i) = SubSeq(m, i, n + 1)
  BY <1>2 DEF WordFrom, WordEnds
<1>4. SubSeq(m, i, n + 1) = Append(SubSeq(l, i, n), c)
  BY LongerPart, Zenon
<1>5. QED
  BY <1>3, <1>4, Zenon

(* The words of a line, one by one. *)
LEMMA WordsType ==
  ASSUME NEW l \in Seq(LineChar)
  PROVE  /\ Words(l) \in Seq(Seq(Chars)) /\ Len(Words(l)) = Cardinality(WordStarts(l))
         /\ Cardinality(WordStarts(l)) \in Nat
         /\ \A k \in 1 .. Cardinality(WordStarts(l)) :
              /\ InOrder(WordStarts(l))[k] \in WordStarts(l)
              /\ Words(l)[k] = WordFrom(l, InOrder(WordStarts(l))[k])
<1> DEFINE S == WordStarts(l)
           n == Cardinality(S)
<1>1. S \in SUBSET (1 .. Len(l)) /\ Len(l) \in Nat
  BY WordStartsType
<1>2. n \in Nat
  BY <1>1, IndexSet, Zenon
<1>3. InOrder(S) \in Seq(S) /\ Len(InOrder(S)) = n
  BY <1>1, InOrderType, Zenon
<1>4. ASSUME NEW i \in S PROVE WordFrom(l, i) \in Seq(Chars)
  <2> DEFINE e == Max(WordEnds(l, i))
  <2>1. i \in 1 .. Len(l) /\ e \in i .. Len(l) /\ InWord(l, i, e) /\ WordFrom(l, i) = SubSeq(l, i, e)
    BY <1>4, EndExists, Zenon
  <2> HIDE DEF e
  <2>2. \A k \in i .. e : l[k] \in LineChar /\ l[k] # "nul" /\ l[k] # "blank"
    <3>1. \A k \in i .. e : k \in 1 .. Len(l) /\ k \in 1 .. e
      BY <2>1
    <3>2. QED
      BY <2>1, <3>1 DEF InWord
  <2>3. \A k \in i .. e : l[k] \in Chars
    BY <2>2, Zenon DEF LineChar, RxByte
  <2>4. SubSeq(l, i, e) \in Seq(Chars)
    <3>1. /\ Len(SubSeq(l, i, e)) = e - i + 1 /\ SubSeq(l, i, e) \in Seq(LineChar)
          /\ \A k \in 1 .. e - i + 1 : SubSeq(l, i, e)[k] = l[i + k - 1]
      BY <2>1, SubSeqProperties
    <3>2. \A k \in 1 .. e - i + 1 : i + k - 1 \in i .. e
      BY <2>1
    <3>3. \A k \in 1 .. e - i + 1 : SubSeq(l, i, e)[k] \in Chars
      BY <2>3, <3>1, <3>2
    <3> DEFINE u == SubSeq(l, i, e)
    <3> HIDE DEF u
    <3>4. u \in Seq(LineChar) /\ Len(u) = e - i + 1 /\ \A k \in 1 .. e - i + 1 : u[k] \in Chars
      BY <3>1, <3>3 DEF u
    <3>5. u \in Seq(Chars)
      BY <3>4
    <3>6. QED
      BY <3>5 DEF u
  <2>5. QED
    BY <2>1, <2>4
<1>5. Words(l) = [k \in DOMAIN InOrder(S) |-> WordFrom(l, InOrder(S)[k])]
  BY DEF Words
<1> HIDE DEF S, n
<1>6. DOMAIN InOrder(S) = 1 .. n
  BY <1>3
<1>7. \A k \in 1 .. n : InOrder(S)[k] \in S
  BY <1>2, <1>3
<1>8. Words(l) = [k \in 1 .. n |-> WordFrom(l, InOrder(S)[k])]
  BY <1>5, <1>6, Zenon
<1>9. \A k \in 1 .. n : WordFrom(l, InOrder(S)[k]) \in Seq(Chars)
  BY <1>4, <1>7, Zenon
<1> DEFINE Q == Seq(Chars)
<1> HIDE DEF Q
<1>10. Words(l) \in Seq(Q) /\ Len(Words(l)) = n
  BY <1>2, <1>8, <1>9 DEF Q
<1>11. \A k \in 1 .. n : Words(l)[k] = WordFrom(l, InOrder(S)[k])
  BY <1>8, Zenon
<1>12. QED
  BY <1>2, <1>7, <1>10, <1>11 DEF S, n, Q

(* In a line that ends in a word, that word begins last. *)
LEMMA LastWord ==
  ASSUME NEW l \in Seq(LineChar), NoNul(l), InAWord(l)
  PROVE  \E p \in WordStarts(l) :
           /\ \A y \in WordStarts(l) : y <= p
           /\ \A k \in p .. Len(l) : l[k] # "blank"
<1> DEFINE n == Len(l)
           Z == {k \in 0 .. n : k = 0 \/ l[k] = "blank"}
           q == Max(Z)
           p == q + 1
<1>1. n \in Nat /\ n > 0 /\ l[n] # "blank"
  BY DEF InAWord
<1>2. q \in Z /\ \A y \in Z : y <= q
  <2>1. Z \in SUBSET (0 .. n)
    OBVIOUS
  <2>2. 0 \in Z
    BY <1>1
  <2>3. QED
    BY <1>1, <2>1, <2>2, MaxExists, Zenon
<1>3. q \in 0 .. n /\ (q = 0 \/ l[q] = "blank") /\ \A y \in 0 .. n : l[y] = "blank" => y <= q
  BY <1>2
<1> HIDE DEF Z, q
<1>4. q # n
  BY <1>1, <1>3
<1>5. p \in 1 .. n
  BY <1>1, <1>3, <1>4
<1>6. \A k \in p .. n : l[k] # "blank"
  BY <1>1, <1>3
<1>7. p \in WordStarts(l)
  <2>1. \A k \in 1 .. p : l[k] # "nul"
    BY <1>1, <1>5 DEF NoNul
  <2>2. \A k \in p .. p : l[k] # "blank"
    BY <1>5, <1>6
  <2>3. p = 1 \/ l[p - 1] = "blank"
    BY <1>3, <1>5
  <2>4. QED
    BY <1>5, <2>1, <2>2, <2>3, WordStartsType, Zenon DEF InWord
<1>8. ASSUME NEW y \in WordStarts(l) PROVE y <= p
  <2>1. y \in 1 .. n /\ (y = 1 \/ l[y - 1] = "blank")
    BY WordStartsType, Zenon
  <2>2. CASE y = 1
    BY <1>5, <2>2
  <2>3. CASE y # 1
    <3>1. y - 1 \in 0 .. n /\ l[y - 1] = "blank"
      BY <1>1, <2>1, <2>3
    <3>2. y - 1 <= q
      BY <1>3, <3>1, Zenon
    <3>3. QED
      BY <1>3, <2>1, <3>2
  <2>4. QED
    BY <2>2, <2>3
<1>9. QED
  BY <1>6, <1>7, <1>8, Zenon

(* A character that is in no word changes none. *)
LEMMA WordsSame ==
  ASSUME NEW l \in Seq(LineChar), NEW c \in LineChar,
         ~ (NoNul(l) /\ c \notin {"nul", "blank"})
  PROVE  Words(Append(l, c)) = Words(l)
<1> DEFINE m == Append(l, c)
           n == Len(l)
           S == WordStarts(l)
<1>1. n \in Nat /\ m \in Seq(LineChar) /\ Len(m) = n + 1
  BY OneMore
<1>2. WordStarts(m) = S
  BY WordStartsMore, Zenon
<1>3. ASSUME NEW i \in S PROVE WordFrom(m, i) = WordFrom(l, i)
  <2>1. i \in 1 .. n
    BY WordStartsType, Zenon
  <2>2. i \in Nat /\ i >= 1 /\ i <= n + 1
    BY <1>1, <2>1
  <2>3. ~ InWord(m, i, n + 1)
    BY <2>2, InWordMore, Zenon
  <2>4. QED
    BY <2>3, WordStays, Zenon
<1> HIDE DEF m
<1>4. Words(m) = [k \in DOMAIN InOrder(S) |-> WordFrom(m, InOrder(S)[k])]
  BY <1>2 DEF Words
<1>5. Words(l) = [k \in DOMAIN InOrder(S) |-> WordFrom(l, InOrder(S)[k])]
  BY DEF Words
<1>6. InOrder(S) \in Seq(S)
  <2>1. S \in SUBSET (1 .. n)
    BY WordStartsType, Zenon
  <2>2. QED
    BY <1>1, <2>1, InOrderType, Zenon
<1> HIDE DEF S
<1>7. \A k \in DOMAIN InOrder(S) : InOrder(S)[k] \in S
  BY <1>6
<1>8. Words(m) = Words(l)
  BY <1>3, <1>4, <1>5, <1>7, Zenon
<1>9. QED
  BY <1>8 DEF m

(* One after a blank is a word of its own. *)
LEMMA WordsNew ==
  ASSUME NEW l \in Seq(LineChar), NEW c \in LineChar,
         NoNul(l), c \notin {"nul", "blank"}, ~ InAWord(l)
  PROVE  Words(Append(l, c)) = Append(Words(l), <<c>>)
<1> DEFINE m == Append(l, c)
           n == Len(l)
           S == WordStarts(l)
           N == Cardinality(S)
<1>1. n \in Nat /\ m \in Seq(LineChar) /\ Len(m) = n + 1
  BY OneMore
<1>2. WordStarts(m) = S \cup {n + 1} /\ S \in SUBSET (1 .. n)
  BY WordStartsMore, WordStartsType, Zenon
<1>3. ASSUME NEW i \in S PROVE WordFrom(m, i) = WordFrom(l, i)
  <2>1. i \in 1 .. n
    BY WordStartsType, Zenon
  <2>2. i \in Nat /\ i >= 1 /\ i <= n + 1
    BY <1>1, <2>1
  <2>3. n \in i .. n /\ n > 0
    BY <1>1, <2>1
  <2>4. l[n] = "blank"
    BY <2>3 DEF InAWord
  <2>5. ~ InWord(m, i, n + 1)
    BY <2>2, <2>3, <2>4, InWordMore, Zenon
  <2>6. QED
    BY <2>5, WordStays, Zenon
<1>4. WordFrom(m, n + 1) = <<c>>
  <2>1. n + 1 \in Nat /\ n + 1 >= 1 /\ n + 1 <= n + 1 /\ n + 1 \in 1 .. n + 1
    BY <1>1
  <2>2. \A k \in n + 1 .. n : l[k] # "blank"
    BY <1>1
  <2>3. InWord(m, n + 1, n + 1)
    BY <2>1, <2>2, InWordMore, Zenon
  <2>4. WordFrom(m, n + 1) = Append(SubSeq(l, n + 1, n), c)
    BY <2>1, <2>3, WordGrows, Zenon
  <2>5. SubSeq(l, n + 1, n) = <<>>
    BY <1>1, SubSeqProperties
  <2>6. QED
    BY <2>4, <2>5
<1>5. InOrder(WordStarts(m)) = Append(InOrder(S), n + 1)
  BY <1>1, <1>2, InOrderAppend, Zenon
<1>6. N \in Nat /\ InOrder(S) \in Seq(S) /\ Len(InOrder(S)) = N
  BY <1>1, <1>2, InOrderType, IndexSet, Zenon
<1>7. /\ Words(l) \in Seq(Seq(Chars)) /\ Len(Words(l)) = N
      /\ \A k \in 1 .. N : InOrder(S)[k] \in S /\ Words(l)[k] = WordFrom(l, InOrder(S)[k])
  BY WordsType, Zenon
<1>8. /\ Words(m) \in Seq(Seq(Chars)) /\ Len(Words(m)) = Cardinality(WordStarts(m))
      /\ \A k \in 1 .. Cardinality(WordStarts(m)) : Words(m)[k] = WordFrom(m, InOrder(WordStarts(m))[k])
  BY <1>1, WordsType, Zenon
<1>9. Cardinality(WordStarts(m)) = N + 1
  <2>1. InOrder(WordStarts(m)) \in Seq(WordStarts(m)) /\ Len(InOrder(WordStarts(m))) = Cardinality(WordStarts(m))
    <3>1. WordStarts(m) \in SUBSET (1 .. Len(m))
      BY <1>1, WordStartsType, Zenon
    <3>2. Len(m) \in Nat
      BY <1>1
    <3>3. QED
      BY <3>1, <3>2, InOrderType, Zenon
  <2>2. InOrder(S) \in Seq(Nat)
    <3>1. S \subseteq Nat
      BY <1>2
    <3>2. QED
      BY <1>6, <3>1, SeqOfMore, Zenon
  <2> HIDE DEF S, N, m
  <2>3. Len(Append(InOrder(S), n + 1)) = N + 1
    BY <1>1, <1>6, <2>2
  <2>4. QED
    BY <1>5, <2>1, <2>3, Zenon
<1>10. \A k \in 1 .. N : InOrder(WordStarts(m))[k] = InOrder(S)[k]
  <2> HIDE DEF S, N, m
  <2>1. QED
    BY <1>5, <1>6
<1>11. InOrder(WordStarts(m))[N + 1] = n + 1
  <2> HIDE DEF S, N, m
  <2>1. QED
    BY <1>5, <1>6
<1> DEFINE Q == Seq(Chars)
           w == Words(l)
           v == Words(m)
<1> HIDE DEF S, N, m, n, Q, w, v
<1>12. \A k : k \in 1 .. N + 1 <=> k \in 1 .. N \/ k = N + 1
  BY <1>6
<1>13. v \in Seq(Q) /\ Len(v) = N + 1 /\ w \in Seq(Q) /\ Len(w) = N
  BY <1>7, <1>8, <1>9 DEF Q, w, v
<1>14. \A k \in 1 .. N : v[k] = w[k]
  BY <1>3, <1>7, <1>8, <1>9, <1>10, <1>12, Zenon DEF v, w
<1>15. v[N + 1] = <<c>>
  BY <1>4, <1>8, <1>9, <1>11, <1>12, Zenon DEF v
<1>16. v = Append(w, <<c>>)
  <2> DEFINE x == <<c>>
  <2> HIDE DEF x
  <2>1. x \in Q
    <3>1. c \in Chars
      BY DEF LineChar, RxByte
    <3>2. QED
      BY <3>1 DEF x, Q
  <2>2. v[N + 1] = x
    BY <1>15 DEF x
  <2>3. v = Append(w, x)
    BY <1>6, <1>13, <1>14, <2>1, <2>2
  <2>4. QED
    BY <2>3 DEF x
<1>17. QED
  BY <1>16 DEF m, v, w

(* One in a word extends the last one. *)
LEMMA WordsLonger ==
  ASSUME NEW l \in Seq(LineChar), NEW c \in LineChar,
         NoNul(l), c \notin {"nul", "blank"}, InAWord(l)
  PROVE  /\ Len(Words(l)) >= 1
         /\ Words(Append(l, c)) = [Words(l) EXCEPT ![Len(Words(l))] = Append(@, c)]
<1> DEFINE m == Append(l, c)
           n == Len(l)
           S == WordStarts(l)
           N == Cardinality(S)
<1>1. n \in Nat /\ m \in Seq(LineChar) /\ Len(m) = n + 1 /\ n > 0
  BY OneMore DEF InAWord
<1>2. WordStarts(m) = S /\ S \in SUBSET (1 .. n)
  BY WordStartsMore, WordStartsType, Zenon
<1>3. PICK p \in S : (\A y \in S : y <= p) /\ \A k \in p .. n : l[k] # "blank"
  BY LastWord, Zenon
<1>4. N >= 1 /\ InOrder(S)[N] = p /\ \A k \in 1 .. N - 1 : InOrder(S)[k] \in S /\ InOrder(S)[k] < p
  BY <1>1, <1>2, <1>3, InOrderLast, Zenon
<1>5. ASSUME NEW i \in S, i < p PROVE WordFrom(m, i) = WordFrom(l, i)
  <2>1. i \in 1 .. n /\ p \in 1 .. n /\ (p = 1 \/ l[p - 1] = "blank")
    BY <1>3, WordStartsType, Zenon
  <2>2. i \in Nat /\ i >= 1 /\ i <= n + 1
    BY <1>1, <2>1
  <2>3. p - 1 \in i .. n /\ l[p - 1] = "blank"
    BY <1>5, <2>1
  <2>4. ~ InWord(m, i, n + 1)
    BY <2>2, <2>3, InWordMore, Zenon
  <2>5. QED
    BY <2>4, WordStays, Zenon
<1>6. WordFrom(m, p) = Append(WordFrom(l, p), c)
  <2>1. p \in 1 .. n
    BY <1>3, WordStartsType, Zenon
  <2>2. p \in Nat /\ p >= 1 /\ p <= n + 1 /\ p \in 1 .. n + 1
    BY <1>1, <2>1
  <2>3. InWord(m, p, n + 1)
    BY <1>3, <2>2, InWordMore, Zenon
  <2>4. WordFrom(m, p) = Append(SubSeq(l, p, n), c)
    BY <2>2, <2>3, WordGrows, Zenon
  <2>5. WordFrom(l, p) = SubSeq(l, p, n)
    <3>1. InWord(l, p, n)
      BY <1>3, Zenon DEF InWord, NoNul
    <3>2. n \in p .. n
      BY <2>1
    <3>3. n \in WordEnds(l, p)
      BY <3>1, <3>2, Zenon DEF WordEnds
    <3>4. \A j \in p .. n : j \in Int /\ j <= n
      BY <2>1
    <3>5. \A j \in WordEnds(l, p) : j \in Int /\ j <= n
      BY <3>4, Zenon DEF WordEnds
    <3>6. WordEnds(l, p) \subseteq Int
      BY <3>5
    <3>7. Max(WordEnds(l, p)) = n
      BY <3>3, <3>5, <3>6, MaxIs, Zenon
    <3>8. WordFrom(l, p) = SubSeq(l, p, Max(WordEnds(l, p)))
      BY EndExists, <1>3, Zenon
    <3>9. QED
      BY <3>7, <3>8, Zenon
  <2>6. QED
    BY <2>4, <2>5
<1>7. /\ Words(l) \in Seq(Seq(Chars)) /\ Len(Words(l)) = N /\ N \in Nat
      /\ \A k \in 1 .. N : InOrder(S)[k] \in S /\ Words(l)[k] = WordFrom(l, InOrder(S)[k])
  BY WordsType, Zenon
<1>8. /\ Words(m) \in Seq(Seq(Chars)) /\ Len(Words(m)) = N
      /\ \A k \in 1 .. N : Words(m)[k] = WordFrom(m, InOrder(S)[k])
  BY <1>1, <1>2, WordsType, Zenon
<1> DEFINE Q == Seq(Chars)
           w == Words(l)
           v == Words(m)
<1> HIDE DEF S, N, m, n, Q, w, v
<1>9. \A k : k \in 1 .. N <=> k \in 1 .. N - 1 \/ k = N
  BY <1>4, <1>7
<1>10. v \in Seq(Q) /\ Len(v) = N /\ w \in Seq(Q) /\ Len(w) = N
  BY <1>7, <1>8 DEF Q, w, v
<1>11. \A k \in 1 .. N - 1 : v[k] = w[k]
  BY <1>4, <1>5, <1>7, <1>8, <1>9, Zenon DEF v, w
<1>12. v[N] = Append(w[N], c)
  BY <1>4, <1>6, <1>7, <1>8, <1>9, Zenon DEF v, w
<1>13. v = [w EXCEPT ![N] = Append(@, c)]
  <2> DEFINE x == Append(w[N], c)
  <2> HIDE DEF x
  <2>1. v[N] = x
    BY <1>12 DEF x
  <2>2. v = [k \in 1 .. N |-> v[k]] /\ w = [k \in 1 .. N |-> w[k]]
    BY <1>10
  <2>3. v = [w EXCEPT ![N] = x]
    BY <1>9, <1>11, <2>1, <2>2
  <2>4. QED
    BY <2>3 DEF x
<1>14. Len(w) >= 1 /\ v = [w EXCEPT ![Len(w)] = Append(@, c)]
  BY <1>4, <1>10, <1>13
<1>15. QED
  BY <1>14 DEF m, v, w

(* Of the words, those that are given to the command. *)
First(w) == SubSeq(w, 1, Min({Len(w), MaxArgs}))

(* All of them, or max_args. *)
LEMMA FirstIs ==
  ASSUME NEW S, NEW w \in Seq(S)
  PROVE  /\ First(w) \in Seq(S)
         /\ Len(w) <= MaxArgs => First(w) = w
         /\ Len(w) >= MaxArgs => First(w) = SubSeq(w, 1, MaxArgs)
<1>1. MaxArgs \in Nat
  BY SizeAssumption
<1>2. ASSUME NEW a \in Nat, NEW b \in Nat PROVE (a <= b => Min({a, b}) = a) /\ (a >= b => Min({a, b}) = b)
  <2>1. ASSUME NEW x \in {a, b}, \A y \in {a, b} : x <= y PROVE Min({a, b}) = x
    <3>1. \A z \in {a, b} : (\A y \in {a, b} : z <= y) <=> z = x
      BY <2>1
    <3>2. Min({a, b}) \in {a, b} /\ \A y \in {a, b} : Min({a, b}) <= y
      BY <3>1 DEF Min
    <3>3. QED
      BY <3>1, <3>2
  <2>2. ASSUME a <= b PROVE Min({a, b}) = a
    <3>1. \A y \in {a, b} : a <= y
      BY <2>2
    <3>2. QED
      BY <2>1, <3>1, Zenon
  <2>3. ASSUME a >= b PROVE Min({a, b}) = b
    <3>1. \A y \in {a, b} : b <= y
      BY <2>3
    <3>2. QED
      BY <2>1, <3>1, Zenon
  <2>4. QED
    BY <2>2, <2>3, Zenon
<1>3. Len(w) \in Nat
  OBVIOUS
<1>4. Len(w) <= MaxArgs => First(w) = w
  <2>1. SubSeq(w, 1, Len(w)) = w
    BY SubSeqProperties
  <2>2. QED
    BY <1>1, <1>2, <1>3, <2>1, Zenon DEF First
<1>5. Len(w) >= MaxArgs => First(w) = SubSeq(w, 1, MaxArgs)
  BY <1>1, <1>2, <1>3, Zenon DEF First
<1>6. First(w) \in Seq(S)
  <2>1. Len(w) >= MaxArgs => SubSeq(w, 1, MaxArgs) \in Seq(S)
    BY <1>1, <1>3, SubSeqProperties
  <2>2. Len(w) <= MaxArgs \/ Len(w) >= MaxArgs
    BY <1>1, <1>3
  <2>3. QED
    BY <1>4, <1>5, <2>1, <2>2, Zenon
<1>7. QED
  BY <1>4, <1>5, <1>6

(* The first words do not change any more when there are more than max_args. *)
LEMMA FirstStays ==
  ASSUME NEW l \in Seq(LineChar), NEW c \in LineChar, Len(Words(l)) > MaxArgs
  PROVE  Len(Words(Append(l, c))) > MaxArgs /\ First(Words(Append(l, c))) = First(Words(l))
<1> DEFINE w == Words(l)
           v == Words(Append(l, c))
           Q == Seq(Chars)
<1>1. w \in Seq(Q) /\ v \in Seq(Q)
  BY OneMore, WordsType, Zenon
<1>2. MaxArgs \in Nat /\ MaxArgs >= 1
  BY SizeAssumption
<1>3. CASE ~ (NoNul(l) /\ c \notin {"nul", "blank"})
  BY <1>3, WordsSame, Zenon
<1>4. CASE NoNul(l) /\ c \notin {"nul", "blank"}
  <2> DEFINE x == <<c>>
  <2>1. v = Append(w, x) \/ v = [w EXCEPT ![Len(w)] = Append(@, c)]
    BY <1>4, WordsNew, WordsLonger, Zenon
  <2>2. Len(w) > MaxArgs
    OBVIOUS
  <2> HIDE DEF w, v, Q, x
  <2>3. Len(v) >= Len(w) /\ \A k \in 1 .. MaxArgs : v[k] = w[k]
    <3>1. CASE v = Append(w, x)
      BY <1>1, <1>2, <2>2, <3>1
    <3>2. CASE v = [w EXCEPT ![Len(w)] = Append(@, c)]
      <4> DEFINE y == Append(w[Len(w)], c)
      <4> HIDE DEF y
      <4>1. v = [w EXCEPT ![Len(w)] = y]
        BY <3>2 DEF y
      <4>2. Len(v) = Len(w)
        BY <1>1, <4>1
      <4>3. \A k \in 1 .. MaxArgs : v[k] = w[k]
        BY <1>1, <1>2, <2>2, <4>1
      <4>4. QED
        BY <1>1, <4>2, <4>3
    <3>3. QED
      BY <2>1, <3>1, <3>2
  <2>4. Len(v) > MaxArgs /\ Len(v) >= MaxArgs /\ Len(w) >= MaxArgs
    BY <1>1, <1>2, <2>2, <2>3
  <2>5. SubSeq(v, 1, MaxArgs) = SubSeq(w, 1, MaxArgs)
    BY <1>1, <1>2, <2>2, <2>3, <2>4, SubSeqProperties
  <2>6. First(v) = SubSeq(v, 1, MaxArgs) /\ First(w) = SubSeq(w, 1, MaxArgs)
    BY <1>1, <2>4, FirstIs, Zenon
  <2>7. QED
    BY <2>4, <2>5, <2>6 DEF v, w
<1>5. QED
  BY <1>3, <1>4

-----------------------------------------------------------------------------
(* cli_process_line cuts a line into those words. *)

(* The states of the word cutter, and what one has made of the characters l. *)
CutState == [argv : Seq(Seq(Chars)), open : BOOLEAN, ended : BOOLEAN]
Cut(st, l) ==
  /\ st \in CutState
  /\ st.argv = First(Words(l))
  /\ st.ended => ~ NoNul(l) \/ Len(Words(l)) > MaxArgs
  /\ ~ st.ended => NoNul(l) /\ Len(Words(l)) <= MaxArgs /\ (st.open <=> InAWord(l))

(* An empty line has no words. *)
LEMMA CutNothing == Cut(Unread, <<>>) /\ Words(<<>>) = <<>>
<1>1. <<>> \in Seq(LineChar) /\ Len(<<>>) = 0
  OBVIOUS
<1>2. WordStarts(<<>>) = {}
  BY DEF WordStarts
<1>3. Words(<<>>) = <<>>
  <2>1. Words(<<>>) \in Seq(Seq(Chars)) /\ Len(Words(<<>>)) = Cardinality({})
    BY <1>1, <1>2, WordsType, Zenon
  <2>2. Cardinality({}) = 0
    BY FS_EmptySet
  <2>3. QED
    BY <2>1, <2>2
<1>4. MaxArgs \in Nat
  BY SizeAssumption
<1>5. First(<<>>) = <<>>
  <2>1. <<>> \in Seq(Nat) /\ Len(<<>>) <= MaxArgs
    BY <1>4
  <2>2. QED
    BY <2>1, FirstIs, Zenon
<1>6. NoNul(<<>>) /\ ~ InAWord(<<>>)
  BY DEF NoNul, InAWord
<1>7. Unread \in CutState
  BY DEF Unread, CutState
<1>8. Unread.argv = <<>> /\ Unread.ended = FALSE /\ Unread.open = FALSE
  BY DEF Unread
<1>9. Len(Words(<<>>)) <= MaxArgs
  BY <1>3, <1>4
<1>10. QED
  BY <1>3, <1>5, <1>6, <1>7, <1>8, <1>9, Zenon DEF Cut

(* One character more, for the line and for the word cutter. *)
LEMMA CutMore ==
  ASSUME NEW l \in Seq(LineChar), NEW c \in LineChar, NEW st, Cut(st, l)
  PROVE  Cut(NextChar(st, c), Append(l, c))
<1> DEFINE m == Append(l, c)
           n == Len(l)
           w == Words(l)
           v == Words(m)
           Q == Seq(Chars)
<1>1. n \in Nat /\ m \in Seq(LineChar) /\ Len(m) = n + 1 /\ m[n + 1] = c /\ \A k \in 1 .. n : m[k] = l[k]
  BY OneMore
<1>2. w \in Seq(Q) /\ v \in Seq(Q) /\ Len(w) \in Nat
  <2>1. w \in Seq(Q) /\ v \in Seq(Q)
    BY <1>1, WordsType, Zenon
  <2>2. QED
    BY <2>1
<1>3. MaxArgs \in Nat /\ MaxArgs >= 1
  BY SizeAssumption
<1>4. NoNul(m) <=> NoNul(l) /\ c # "nul"
  <2>1. \A k : k \in 1 .. n + 1 <=> k \in 1 .. n \/ k = n + 1
    BY <1>1
  <2>2. QED
    BY <1>1, <2>1, Zenon DEF NoNul
<1>5. InAWord(m) <=> c # "blank"
  <2>1. Len(m) > 0
    BY <1>1
  <2>2. QED
    BY <1>1, <2>1, Zenon DEF InAWord
<1>6. st \in CutState /\ st.argv = First(w)
  BY DEF Cut
<1> HIDE DEF m
<1>7. CASE st.ended \/ c = "nul"
  <2> DEFINE u == [st EXCEPT !.ended = TRUE]
  <2>1. NextChar(st, c) = u
    BY <1>7, Zenon DEF NextChar
  <2>2. u \in CutState /\ u.ended /\ u.argv = st.argv
    BY <1>6 DEF CutState
  <2> HIDE DEF u
  <2>3. CASE ~ (NoNul(l) /\ c \notin {"nul", "blank"})
    <3>1. v = w
      BY <2>3, WordsSame, Zenon DEF m
    <3>2. ~ NoNul(m) \/ Len(v) > MaxArgs
      <4>1. ~ NoNul(l) \/ c = "nul" \/ Len(w) > MaxArgs
        BY <1>7 DEF Cut
      <4>2. QED
        BY <1>4, <3>1, <4>1
    <3>3. QED
      <4>1. Cut(u, m)
        BY <1>6, <2>2, <3>1, <3>2, Zenon DEF Cut
      <4>2. QED
        BY <2>1, <4>1 DEF m
  <2>4. CASE NoNul(l) /\ c \notin {"nul", "blank"}
    <3>1. Len(w) > MaxArgs
      BY <1>7, <2>4, Zenon DEF Cut
    <3>2. Len(v) > MaxArgs /\ First(v) = First(w)
      BY <3>1, FirstStays, Zenon DEF m
    <3>3. QED
      <4>1. Cut(u, m)
        BY <1>6, <2>2, <3>2, Zenon DEF Cut
      <4>2. QED
        BY <2>1, <4>1 DEF m
  <2>5. QED
    BY <2>3, <2>4
<1>8. CASE ~ (st.ended \/ c = "nul")
  <2>1. NoNul(l) /\ Len(w) <= MaxArgs /\ (st.open <=> InAWord(l)) /\ st.argv = w /\ NoNul(m)
    <3>1. NoNul(l) /\ Len(w) <= MaxArgs /\ (st.open <=> InAWord(l))
      BY <1>8, Zenon DEF Cut
    <3>2. First(w) = w
      BY <1>2, <3>1, FirstIs, Zenon
    <3>3. QED
      BY <1>4, <1>6, <1>8, <3>1, <3>2, Zenon
  <2>2. CASE c = "blank"
    <3> DEFINE u == [st EXCEPT !.open = FALSE]
    <3>1. NextChar(st, c) = u
      BY <1>8, <2>2 DEF NextChar
    <3>2. u \in CutState /\ u.ended = st.ended /\ u.argv = st.argv /\ ~ u.open
      BY <1>6 DEF CutState
    <3> HIDE DEF u
    <3>3. v = w
      BY <2>2, WordsSame, Zenon DEF m
    <3>4. ~ InAWord(m)
      BY <1>5, <2>2
    <3>5. Cut(u, m)
      BY <1>6, <1>8, <2>1, <3>2, <3>3, <3>4, Zenon DEF Cut
    <3>6. QED
      BY <3>1, <3>5 DEF m
  <2>3. CASE c # "blank" /\ st.open
    <3> DEFINE z == [w EXCEPT ![Len(w)] = Append(@, c)]
               u == [st EXCEPT !.argv = z]
    <3>1. NextChar(st, c) = u
      <4>1. NextChar(st, c) = [st EXCEPT !.argv[Len(st.argv)] = Append(@, c)]
        BY <1>8, <2>3, Zenon DEF NextChar
      <4>2. [st EXCEPT !.argv[Len(st.argv)] = Append(@, c)]
              = [st EXCEPT !.argv = [st.argv EXCEPT ![Len(st.argv)] = Append(@, c)]]
        BY <1>6 DEF CutState
      <4>3. QED
        BY <2>1, <4>1, <4>2, Zenon
    <3>2. v = z /\ Len(w) >= 1
      BY <1>8, <2>1, <2>3, WordsLonger, Zenon DEF m
    <3>3. z \in Seq(Q)
      BY <1>2, <3>2
    <3>6. Len(v) = Len(w)
      <4> DEFINE y == Append(w[Len(w)], c)
      <4> HIDE DEF y, Q, w, v
      <4>1. v = [w EXCEPT ![Len(w)] = y]
        BY <3>2 DEF y
      <4>2. QED
        BY <1>2, <4>1
    <3> HIDE DEF z
    <3>7. u \in CutState /\ u.argv = z /\ u.open = st.open /\ u.ended = st.ended
      BY <1>6, <3>3 DEF CutState
    <3> HIDE DEF u
    <3>5. u.argv = v
      BY <3>2, <3>7
    <3>8. InAWord(m)
      BY <1>5, <2>3
    <3>9. First(v) = v
      <4>1. Len(v) <= MaxArgs
        BY <2>1, <3>6
      <4>2. QED
        BY <1>2, <4>1, FirstIs, Zenon
    <3>10. Cut(u, m)
      BY <1>8, <2>1, <2>3, <3>5, <3>6, <3>7, <3>8, <3>9, Zenon DEF Cut
    <3>11. QED
      BY <3>1, <3>10 DEF m
  <2>4. CASE c # "blank" /\ ~ st.open
    <3> DEFINE x == <<c>>
    <3>1. v = Append(w, x)
      BY <1>8, <2>1, <2>4, WordsNew, Zenon DEF m
    <3>2. x \in Q
      <4>1. c \in Chars
        BY <1>8, <2>4 DEF LineChar, RxByte
      <4>2. QED
        BY <4>1
    <3>3. Len(v) = Len(w) + 1
      <4> HIDE DEF x, Q, w, v
      <4>1. QED
        BY <1>2, <3>1, <3>2
    <3>4. InAWord(m)
      BY <1>5, <2>4
    <3>5. CASE Len(st.argv) < MaxArgs
      <4> DEFINE z == Append(w, x)
                 u == [st EXCEPT !.argv = z, !.open = TRUE]
      <4>1. NextChar(st, c) = u
        <5>1. NextChar(st, c) = [st EXCEPT !.argv = Append(@, x), !.open = TRUE]
          BY <1>8, <2>4, <3>5, Zenon DEF NextChar
        <5> HIDE DEF x
        <5>2. [st EXCEPT !.argv = Append(@, x), !.open = TRUE]
                = [st EXCEPT !.argv = Append(st.argv, x), !.open = TRUE]
          BY <1>6 DEF CutState
        <5>3. QED
          BY <2>1, <5>1, <5>2, Zenon
      <4>3. z \in Seq(Q)
        BY <1>2, <3>1
      <4> HIDE DEF z
      <4>2. u \in CutState /\ u.argv = z /\ u.open = TRUE /\ u.ended = st.ended
        BY <1>6, <4>3 DEF CutState
      <4> HIDE DEF u, x
      <4>4. u.argv = v
        BY <3>1, <4>2 DEF z
      <4>5. u \in CutState
        BY <4>2
      <4>6. Len(v) <= MaxArgs
        BY <1>2, <1>3, <2>1, <3>3, <3>5
      <4>7. First(v) = v
        BY <1>2, <4>6, FirstIs, Zenon
      <4>8. Cut(u, m)
        BY <1>8, <2>1, <3>4, <4>2, <4>4, <4>5, <4>6, <4>7, Zenon DEF Cut
      <4>9. QED
        BY <4>1, <4>8 DEF m
    <3>6. CASE ~ (Len(st.argv) < MaxArgs)
      <4> DEFINE u == [st EXCEPT !.ended = TRUE]
      <4>1. NextChar(st, c) = u
        BY <1>8, <2>4, <3>6, Zenon DEF NextChar
      <4>2. u \in CutState /\ u.ended /\ u.argv = st.argv
        BY <1>6 DEF CutState
      <4> HIDE DEF u, x
      <4>3. Len(w) = MaxArgs
        BY <1>2, <1>3, <2>1, <3>6
      <4>4. Len(v) > MaxArgs /\ Len(v) >= MaxArgs
        BY <1>3, <3>3, <4>3
      <4>5. First(v) = w
        <5>1. First(v) = SubSeq(v, 1, MaxArgs)
          BY <1>2, <4>4, FirstIs, Zenon
        <5>2. SubSeq(v, 1, MaxArgs) = w
          <6> HIDE DEF w, v, Q
          <6>1. /\ SubSeq(v, 1, MaxArgs) \in Seq(Q) /\ Len(SubSeq(v, 1, MaxArgs)) = MaxArgs
                /\ \A k \in 1 .. MaxArgs : SubSeq(v, 1, MaxArgs)[k] = v[k]
            BY <1>2, <1>3, <4>4, SubSeqProperties
          <6>2. \A k \in 1 .. MaxArgs : v[k] = w[k]
            BY <1>2, <3>1, <3>2, <4>3
          <6>3. QED
            BY <1>2, <4>3, <6>1, <6>2
        <5>3. QED
          BY <5>1, <5>2
      <4>6. Cut(u, m)
        BY <2>1, <4>2, <4>4, <4>5, Zenon DEF Cut
      <4>7. QED
        BY <4>1, <4>6 DEF m
    <3>7. QED
      BY <3>5, <3>6
  <2>5. QED
    BY <2>2, <2>3, <2>4
<1>9. QED
  BY <1>7, <1>8

(* f holds the states of the word cutter after each character of l. *)
Cutting(f, l) ==
  f = [n \in 0 .. Len(l) |-> IF n = 0 THEN Unread ELSE NextChar(f[n - 1], l[n])]

(* There are such states for every line. *)
LEMMA CuttingExists ==
  ASSUME NEW l \in Seq(LineChar)
  PROVE  \E f : Cutting(f, l)
<1> DEFINE Good(m, f) == /\ f = [i \in 0 .. m |-> f[i]]
                         /\ f[0] = Unread
                         /\ \A i \in 1 .. m : f[i] = NextChar(f[i - 1], l[i])
           T == {m \in Nat : \E f : Good(m, f)}
<1>0. \A m \in Nat : m \in T <=> \E f : Good(m, f)
  <2> HIDE DEF Good
  <2>1. QED
    OBVIOUS
<1>1. 0 \in T
  <2>1. Good(0, [i \in 0 .. 0 |-> Unread])
    OBVIOUS
  <2>2. QED
    BY <1>0, <2>1
<1>2. ASSUME NEW m \in Nat, m \in T
      PROVE  m + 1 \in T
  <2>1. PICK f : Good(m, f)
    BY <1>2, <1>0
  <2> DEFINE new == NextChar(f[m], l[m + 1])
             g == [i \in 0 .. m + 1 |-> IF i <= m THEN f[i] ELSE new]
  <2> HIDE DEF new
  <2>2. \A i \in 0 .. m : g[i] = f[i]
    OBVIOUS
  <2>3. g[m + 1] = new
    OBVIOUS
  <2>4. g = [i \in 0 .. m + 1 |-> g[i]]
    OBVIOUS
  <2> HIDE DEF g
  <2>5. g[0] = Unread
    <3>1. 0 \in 0 .. m
      OBVIOUS
    <3>2. QED
      BY <2>1, <2>2, <3>1, Zenon
  <2>6. ASSUME NEW i \in 1 .. m + 1
        PROVE  g[i] = NextChar(g[i - 1], l[i])
    <3>0. i - 1 \in 0 .. m /\ (i <= m \/ i = m + 1)
      OBVIOUS
    <3>1. CASE i <= m
      <4>1. i \in 1 .. m /\ i \in 0 .. m
        BY <3>1
      <4>2. f[i] = NextChar(f[i - 1], l[i])
        BY <2>1, <4>1, Zenon
      <4>3. g[i] = f[i] /\ g[i - 1] = f[i - 1]
        BY <2>2, <3>0, <4>1, Zenon
      <4>4. QED
        BY <4>2, <4>3, Zenon
    <3>2. CASE i = m + 1
      <4>1. i - 1 = m
        BY <3>2
      <4>2. g[i] = NextChar(f[m], l[i])
        BY <2>3, <3>2, Zenon DEF new
      <4>3. g[i - 1] = f[m]
        BY <2>2, <3>0, <4>1, Zenon
      <4>4. QED
        BY <4>2, <4>3, Zenon
    <3>3. QED
      BY <3>0, <3>1, <3>2, Zenon
  <2>7. Good(m + 1, g)
    BY <2>4, <2>5, <2>6, Zenon
  <2>8. m + 1 \in Nat
    OBVIOUS
  <2> HIDE DEF Good
  <2>9. QED
    BY <1>0, <2>7, <2>8, Zenon
<1>3. Len(l) \in T
  <2> HIDE DEF T
  <2>1. \A n \in Nat : n \in T
    BY <1>1, <1>2, NatSetInduction, Zenon
  <2>2. Len(l) \in Nat
    OBVIOUS
  <2>3. QED
    BY <2>1, <2>2
<1>4. PICK f : Good(Len(l), f)
  BY <1>0, <1>3
<1>5. \A i \in 0 .. Len(l) : i = 0 \/ i \in 1 .. Len(l)
  OBVIOUS
<1>6. \A i \in 0 .. Len(l) : f[i] = IF i = 0 THEN Unread ELSE NextChar(f[i - 1], l[i])
  BY <1>4, <1>5, Zenon
<1>7. Cutting(f, l)
  BY <1>4, <1>6, Zenon DEF Cutting
<1>8. QED
  BY <1>7

(* Each has made of the characters before it what it should. *)
LEMMA CutAll ==
  ASSUME NEW l \in Seq(LineChar), NEW f, Cutting(f, l)
  PROVE  Cut(f[Len(l)], l)
<1> DEFINE Part(n) == SubSeq(l, 1, n)
           T == {n \in Nat : n <= Len(l) => Cut(f[n], Part(n))}
<1>1. 0 \in T
  <2>1. Part(0) = <<>>
    BY SubSeqProperties
  <2>2. f[0] = Unread
    <3>1. 0 \in 0 .. Len(l)
      OBVIOUS
    <3>2. QED
      BY <3>1, Zenon DEF Cutting
  <2>3. Cut(f[0], Part(0))
    BY <2>1, <2>2, CutNothing, Zenon
  <2>4. QED
    BY <2>3
<1>2. ASSUME NEW n \in Nat, n \in T PROVE n + 1 \in T
  <2>1. ASSUME n + 1 <= Len(l) PROVE Cut(f[n + 1], Part(n + 1))
    <3>1. n \in 0 .. Len(l) /\ n + 1 \in 0 .. Len(l) /\ n + 1 # 0 /\ (n + 1) - 1 = n /\ n <= Len(l)
          /\ n + 1 \in 1 .. Len(l)
      BY <2>1
    <3>2. Cut(f[n], Part(n))
      BY <1>2, <3>1, Zenon
    <3>3. Part(n) \in Seq(LineChar) /\ l[n + 1] \in LineChar
      BY <3>1, SubSeqProperties
    <3>4. Part(n + 1) = Append(Part(n), l[n + 1])
      BY <3>1, SubSeqProperties
    <3>5. f[n + 1] = NextChar(f[n], l[n + 1])
      <4> DEFINE g == [k \in 0 .. Len(l) |-> IF k = 0 THEN Unread ELSE NextChar(f[k - 1], l[k])]
      <4>1. g[n + 1] = IF n + 1 = 0 THEN Unread ELSE NextChar(f[(n + 1) - 1], l[n + 1])
        BY <3>1, Zenon
      <4>2. g[n + 1] = NextChar(f[n], l[n + 1])
        BY <3>1, <4>1, Zenon
      <4>3. f = g
        BY Zenon DEF Cutting
      <4> HIDE DEF g
      <4>4. QED
        BY <4>2, <4>3, Zenon
    <3>6. QED
      BY <3>2, <3>3, <3>4, <3>5, CutMore, Zenon
  <2>2. n + 1 \in Nat
    OBVIOUS
  <2>3. QED
    BY <2>1, <2>2, Zenon
<1>3. Len(l) \in T
  <2> HIDE DEF T
  <2>1. \A n \in Nat : n \in T
    BY <1>1, <1>2, NatSetInduction, Zenon
  <2>2. Len(l) \in Nat
    OBVIOUS
  <2>3. QED
    BY <2>1, <2>2
<1>4. Part(Len(l)) = l /\ Len(l) <= Len(l)
  BY SubSeqProperties
<1>5. Cut(f[Len(l)], Part(Len(l)))
  BY <1>3, <1>4, Zenon
<1>6. QED
  BY <1>4, <1>5, Zenon

(***************************************************************************)
(* cli_process_line, which goes through a line character by character,     *)
(* gives the command the first max_args of its words, whatever the line:   *)
(* no word is split, joined or lost at a run of blanks, at a NUL, or at    *)
(* the last argument.                                                      *)
(***************************************************************************)
THEOREM WordsCut ==
  ASSUME NEW l \in Seq(LineChar)
  PROVE  Argv(l) = First(Words(l))
<1> DEFINE F == CHOOSE f : Cutting(f, l)
<1>1. Cutting(F, l)
  BY CuttingExists
<1>2. Argv(l) = F[Len(l)].argv
  BY DEF Argv, Cutting
<1> HIDE DEF F
<1>3. Cut(F[Len(l)], l)
  BY <1>1, CutAll, Zenon
<1>4. QED
  BY <1>2, <1>3, Zenon DEF Cut

(* A record of words and whether the first is known: what process_line yields. *)
Call == [argv : Seq(Seq(Chars)), known : BOOLEAN]

(* It is what Command says of a line with words, and nothing without. *)
LEMMA ProcessLineIs ==
  ASSUME NEW l \in Seq(LineChar), NEW names, names = Earlier \cup {Help}
  PROVE  /\ Words(l) = <<>> => process_line(l, names) = <<>>
         /\ Words(l) # <<>> => process_line(l, names) = <<Command(l)>> /\ Command(l) \in Call
<1> DEFINE w == Words(l)
           Q == Seq(Chars)
           A == First(w)
<1>1. Argv(l) = A
  BY WordsCut, Zenon
<1>2. w \in Seq(Q)
  BY WordsType, Zenon
<1>3. MaxArgs \in Nat /\ MaxArgs >= 1
  BY SizeAssumption
<1>4. A \in Seq(Q)
  BY <1>2, FirstIs, Zenon
<1>5. ASSUME w = <<>> PROVE A = <<>>
  <2>1. Len(w) = 0
    BY <1>5
  <2>2. Len(w) <= MaxArgs
    BY <1>3, <2>1
  <2>3. QED
    BY <1>2, <1>5, <2>2, FirstIs, Zenon
<1>6. ASSUME w # <<>> PROVE A # <<>> /\ Head(A) = Head(w)
  <2> HIDE DEF w, Q, A
  <2>1. Len(w) \in Nat /\ Len(w) >= 1
    BY <1>2, <1>6
  <2>2. CASE Len(w) <= MaxArgs
    <3>1. A = w
      BY <1>2, <2>2, FirstIs, Zenon DEF A
    <3>2. QED
      BY <1>6, <3>1
  <2>3. CASE Len(w) >= MaxArgs
    <3>1. A = SubSeq(w, 1, MaxArgs)
      BY <1>2, <2>3, FirstIs, Zenon DEF A
    <3>2. Len(SubSeq(w, 1, MaxArgs)) = MaxArgs /\ SubSeq(w, 1, MaxArgs)[1] = w[1]
      BY <1>2, <1>3, <2>1, <2>3, SubSeqProperties
    <3>3. Len(A) >= 1 /\ A[1] = w[1]
      BY <1>3, <3>1, <3>2
    <3>4. A # <<>> /\ Head(A) = A[1] /\ Head(w) = w[1]
      BY <1>2, <1>4, <3>3, <2>1
    <3>5. QED
      BY <3>3, <3>4
  <2>4. QED
    BY <1>3, <2>1, <2>2, <2>3
<1>7. ASSUME w = <<>> PROVE process_line(l, names) = <<>>
  BY <1>1, <1>5, <1>7, Zenon DEF process_line
<1>8. ASSUME w # <<>> PROVE process_line(l, names) = <<Command(l)>> /\ Command(l) \in Call
  <2>1. Command(l) = [argv |-> A, known |-> Head(w) \in Earlier \cup {Help}]
    BY DEF Command, First
  <2>2. process_line(l, names) = <<[argv |-> A, known |-> Head(A) \in Earlier \cup {Help}]>>
    BY <1>1, <1>6, <1>8 DEF process_line
  <2>3. [argv |-> A, known |-> Head(w) \in Earlier \cup {Help}] \in [argv : Seq(Q), known : BOOLEAN]
    <3> HIDE DEF A, Q
    <3> DEFINE h == Head(w) \in Earlier \cup {Help}
    <3>1. h \in BOOLEAN
      OBVIOUS
    <3> HIDE DEF h
    <3>2. [argv |-> A, known |-> h] \in [argv : Seq(Q), known : BOOLEAN]
      BY <1>4, <3>1
    <3>3. QED
      BY <3>2 DEF h
  <2> HIDE DEF A
  <2>4. process_line(l, names) = <<Command(l)>>
    BY <1>6, <1>8, <2>1, <2>2
  <2>5. QED
    BY <2>1, <2>3, <2>4 DEF Call
<1>9. QED
  BY <1>7, <1>8

-----------------------------------------------------------------------------
(* The lines of a stream of bytes, and what they ask for. *)

(* Where the line that ends at j starts: after the last terminator before j. *)
LEMMA StartIs ==
  ASSUME NEW s \in Seq(RxByte), NEW j \in 1 .. Len(s) + 1
  PROVE  /\ Start(s, j) \in 0 .. j - 1
         /\ \A y \in 0 .. j - 1 : y = 0 \/ s[y] = "eol" => y <= Start(s, j)
         /\ Start(s, j) = 0 \/ s[Start(s, j)] = "eol"
<1> DEFINE Z == {i \in 0 .. j - 1 : i = 0 \/ s[i] = "eol"}
<1>1. j - 1 \in Nat /\ 0 \in 0 .. j - 1
  OBVIOUS
<1>2. Z \in SUBSET (0 .. j - 1) /\ Z # {}
  BY <1>1
<1>3. Max(Z) \in Z /\ \A y \in Z : y <= Max(Z)
  BY <1>1, <1>2, MaxExists, Zenon
<1>4. Start(s, j) = Max(Z)
  BY DEF Start
<1> HIDE DEF Z
<1>5. \A i : i \in Z <=> i \in 0 .. j - 1 /\ (i = 0 \/ s[i] = "eol")
  BY DEF Z
<1>6. QED
  BY <1>3, <1>4, <1>5, Zenon

(* Nothing else starts there. *)
LEMMA StartUnique ==
  ASSUME NEW s \in Seq(RxByte), NEW j \in 1 .. Len(s) + 1, NEW i \in 0 .. j - 1, i = 0 \/ s[i] = "eol",
         \A y \in 0 .. j - 1 : y = 0 \/ s[y] = "eol" => y <= i
  PROVE  Start(s, j) = i
<1>1. Start(s, j) \in 0 .. j - 1 /\ i <= Start(s, j) /\ Start(s, j) <= i
  BY StartIs, Zenon
<1>2. QED
  BY <1>1

(* How much of the line that ends at j is kept. *)
LineLen(s, j) == (j - 1 - Start(s, j)) % LineMax

(* The line has that length, and no terminator in it. *)
LEMMA LineToIs ==
  ASSUME NEW s \in Seq(RxByte), NEW j \in 1 .. Len(s) + 1
  PROVE  /\ LineLen(s, j) \in 0 .. LineMax - 1 /\ LineLen(s, j) <= j - 1
         /\ LineTo(s, j) = SubSeq(s, j - LineLen(s, j), j - 1)
         /\ LineTo(s, j) \in Seq(LineChar) /\ Len(LineTo(s, j)) = LineLen(s, j)
<1> DEFINE x == j - 1 - Start(s, j)
           r == LineLen(s, j)
<1>1. LineMax \in Nat /\ LineMax >= 2 /\ LineMax >= 1
  BY SizeAssumption
<1>2. /\ Start(s, j) \in 0 .. j - 1
      /\ \A y \in 0 .. j - 1 : y = 0 \/ s[y] = "eol" => y <= Start(s, j)
  BY StartIs, Zenon
<1>3. x \in Nat /\ x <= j - 1
  BY <1>2
<1>4. r = x % LineMax
  BY DEF LineLen
<1>5. r \in 0 .. LineMax - 1 /\ r <= x
  <2> HIDE DEF x, r
  <2>1. x % LineMax \in 0 .. LineMax - 1 /\ x = (x \div LineMax) * LineMax + (x % LineMax) /\ x \div LineMax \in Int
    BY <1>1, <1>3, DivMod, Zenon
  <2>2. x \div LineMax >= 0
    BY <1>1, <1>3
  <2> DEFINE q == x \div LineMax
             t == x % LineMax
  <2>3. q * LineMax \in Nat
    <3>1. q \in Nat
      BY <2>1, <2>2
    <3> HIDE DEF q
    <3>2. QED
      BY <1>1, <3>1
  <2>4. t <= x /\ t \in 0 .. LineMax - 1
    <3> DEFINE a == q * LineMax
    <3>1. x = a + t /\ a \in Nat /\ t \in 0 .. LineMax - 1
      BY <2>1, <2>3
    <3> HIDE DEF a, t
    <3>2. QED
      BY <1>1, <3>1
  <2>5. QED
    BY <1>4, <2>4 DEF t
<1>6. LineTo(s, j) = SubSeq(s, j - r, j - 1)
  BY DEF LineTo, LineLen
<1> DEFINE u == SubSeq(s, j - r, j - 1)
<1>7. /\ u \in Seq(RxByte) /\ Len(u) = r
      /\ \A k \in 1 .. r : u[k] = s[j - r + k - 1]
  <2>1. Len(s) \in Nat /\ j - r >= 1 /\ j - r <= j - 1 + 1 /\ j - 1 <= Len(s)
    BY <1>3, <1>5
  <2> HIDE DEF r
  <2>2. QED
    BY <1>5, <2>1, SubSeqProperties
<1>8. \A k \in 1 .. r : s[j - r + k - 1] # "eol" /\ s[j - r + k - 1] \in RxByte
  <2> SUFFICES ASSUME NEW k \in 1 .. r PROVE s[j - r + k - 1] # "eol" /\ s[j - r + k - 1] \in RxByte
    OBVIOUS
  <2> DEFINE y == j - r + k - 1
  <2>1. y \in 0 .. j - 1 /\ y \in 1 .. Len(s) /\ ~ (y <= Start(s, j))
    <3> DEFINE e == Start(s, j)
    <3>1. e \in 0 .. j - 1 /\ r <= j - 1 - e /\ r \in Nat /\ Len(s) \in Nat
      BY <1>1, <1>2, <1>5
    <3> HIDE DEF r, e, x
    <3>2. y \in 0 .. j - 1 /\ y \in 1 .. Len(s) /\ ~ (y <= e)
      BY <3>1
    <3>3. QED
      BY <3>2 DEF e
  <2> HIDE DEF y
  <2>2. s[y] # "eol"
    BY <1>2, <2>1, Zenon
  <2>3. s[y] \in RxByte
    BY <2>1
  <2>4. QED
    BY <2>2, <2>3 DEF y
<1>9. u \in Seq(LineChar)
  <2> HIDE DEF u, r
  <2>1. \A k \in 1 .. r : u[k] \in LineChar
    BY <1>7, <1>8 DEF LineChar
  <2>2. QED
    BY <1>7, <2>1
<1>10. r <= j - 1
  <2> HIDE DEF x, r
  <2>1. QED
    BY <1>1, <1>3, <1>5
<1>11. QED
  BY <1>5, <1>6, <1>7, <1>9, <1>10, Zenon

(* The lines before are the same after a byte more. *)
LEMMA SameLines ==
  ASSUME NEW s \in Seq(RxByte), NEW b \in RxByte, NEW j \in 1 .. Len(s) + 1
  PROVE  Start(Append(s, b), j) = Start(s, j) /\ LineTo(Append(s, b), j) = LineTo(s, j)
<1> DEFINE m == Append(s, b)
           e == Start(s, j)
           r == LineLen(s, j)
<1>1. Len(s) \in Nat /\ m \in Seq(RxByte) /\ Len(m) = Len(s) + 1 /\ \A k \in 1 .. Len(s) : m[k] = s[k]
  BY OneMore
<1> HIDE DEF m
<1>2. j \in 1 .. Len(m) + 1 /\ \A y \in 0 .. j - 1 : y = 0 \/ y \in 1 .. Len(s)
  BY <1>1
<1>3. /\ e \in 0 .. j - 1
      /\ \A y \in 0 .. j - 1 : y = 0 \/ s[y] = "eol" => y <= e
      /\ e = 0 \/ s[e] = "eol"
  BY StartIs, Zenon
<1>4. \A y \in 0 .. j - 1 : y = 0 \/ m[y] = "eol" => y <= e
  BY <1>1, <1>2, <1>3, Zenon
<1>5. e = 0 \/ m[e] = "eol"
  BY <1>1, <1>2, <1>3, Zenon
<1>6. Start(m, j) = e
  BY <1>1, <1>2, <1>3, <1>4, <1>5, StartUnique, Zenon
<1>7. LineLen(m, j) = r
  BY <1>6 DEF LineLen
<1>8. LineTo(m, j) = SubSeq(m, j - r, j - 1)
  BY <1>1, <1>2, <1>7, LineToIs, Zenon
<1>9. LineTo(s, j) = SubSeq(s, j - r, j - 1) /\ r \in 0 .. LineMax - 1 /\ r <= j - 1
  BY LineToIs, Zenon
<1>10. SubSeq(m, j - r, j - 1) = SubSeq(s, j - r, j - 1)
  <2>1. r \in Nat
    BY <1>9
  <2> HIDE DEF r
  <2> DEFINE f == j - r
             g == j - 1
  <2>2. f \in 1 .. Len(s) + 1 /\ g \in 0 .. Len(s)
    BY <1>1, <1>9, <2>1
  <2> HIDE DEF f, g
  <2>3. CASE f <= g
    <3>1. f \in 1 .. Len(s) /\ g \in f .. Len(s)
      BY <1>1, <2>2, <2>3
    <3>2. QED
      BY <3>1, SamePart, Zenon DEF m, f, g
  <2>4. CASE ~ (f <= g)
    <3>1. SubSeq(m, f, g) = <<>> /\ SubSeq(s, f, g) = <<>>
      BY <1>1, <2>2, <2>4, SubSeqProperties
    <3>2. QED
      BY <3>1 DEF f, g
  <2>5. QED
    BY <2>3, <2>4
<1>11. QED
  BY <1>6, <1>8, <1>9, <1>10, Zenon DEF m

(* After a terminator the next line is empty. *)
LEMMA NextLine ==
  ASSUME NEW s \in Seq(RxByte), NEW b \in RxByte, b = "eol"
  PROVE  LineTo(Append(s, b), Len(s) + 2) = <<>>
<1> DEFINE m == Append(s, b)
           n == Len(s)
           j == n + 2
<1>1. n \in Nat /\ m \in Seq(RxByte) /\ Len(m) = n + 1 /\ m[n + 1] = b
  BY OneMore
<1>2. j \in 1 .. Len(m) + 1 /\ n + 1 \in 0 .. j - 1 /\ \A y \in 0 .. j - 1 : y <= n + 1
  BY <1>1
<1>3. Start(m, j) = n + 1
  <2>1. m[n + 1] = "eol"
    BY <1>1
  <2> HIDE DEF m, j
  <2>2. QED
    BY <1>1, <1>2, <2>1, StartUnique, Zenon
<1>4. LineLen(m, j) = 0
  <2>1. j - 1 - Start(m, j) = 0
    BY <1>1, <1>3
  <2>2. LineMax \in Nat /\ LineMax >= 1 /\ 0 = 0 * LineMax + 0 /\ 0 \in 0 .. LineMax - 1 /\ 0 \in Int
    BY SizeAssumption
  <2>3. 0 % LineMax = 0
    BY <2>2, ModIs, Zenon
  <2>4. LineLen(m, j) = 0 % LineMax
    BY <2>1 DEF LineLen
  <2>5. QED
    BY <2>3, <2>4
<1>5. LineTo(m, j) \in Seq(LineChar) /\ Len(LineTo(m, j)) = 0
  BY <1>1, <1>2, <1>4, LineToIs, Zenon
<1>6. QED
  BY <1>5

(* Any other byte is kept, or the line dropped with it. *)
LEMMA LineMore ==
  ASSUME NEW s \in Seq(RxByte), NEW b \in RxByte, b # "eol"
  PROVE  /\ Len(LineTo(s, Len(s) + 1)) < LineMax - 1 =>
              LineTo(Append(s, b), Len(s) + 2) = Append(LineTo(s, Len(s) + 1), b)
         /\ Len(LineTo(s, Len(s) + 1)) >= LineMax - 1 =>
              LineTo(Append(s, b), Len(s) + 2) = <<>>
<1> DEFINE m == Append(s, b)
           n == Len(s)
           i == n + 1
           j == n + 2
           e == Start(s, i)
           r == LineLen(s, i)
           x == n - e
<1>1. n \in Nat /\ m \in Seq(RxByte) /\ Len(m) = n + 1 /\ m[n + 1] = b /\ \A k \in 1 .. n : m[k] = s[k]
  BY OneMore
<1> HIDE DEF m
<1>2. j \in 1 .. Len(m) + 1 /\ i \in 1 .. n + 1
  BY <1>1
<1>3. /\ e \in 0 .. i - 1
      /\ \A y \in 0 .. i - 1 : y = 0 \/ s[y] = "eol" => y <= e
      /\ e = 0 \/ s[e] = "eol"
  BY <1>2, StartIs, Zenon
<1>4. Start(m, j) = e
  <2>1. e \in 0 .. j - 1
    BY <1>1, <1>3
  <2>2. e = 0 \/ m[e] = "eol"
    <3>1. e # 0 => e \in 1 .. n
      BY <1>1, <1>3
    <3>2. QED
      BY <1>1, <1>3, <3>1, Zenon
  <2>3. \A y \in 0 .. j - 1 : y = 0 \/ m[y] = "eol" => y <= e
    <3> SUFFICES ASSUME NEW y \in 0 .. j - 1, y = 0 \/ m[y] = "eol" PROVE y <= e
      OBVIOUS
    <3>1. y # n + 1
      BY <1>1
    <3>2. y = 0 \/ y \in 1 .. n
      BY <1>1, <3>1
    <3>3. y = 0 \/ s[y] = "eol"
      BY <1>1, <3>2, Zenon
    <3>4. y \in 0 .. i - 1
      BY <1>1, <3>2
    <3>5. QED
      BY <1>3, <3>3, <3>4, Zenon
  <2>4. QED
    BY <1>1, <1>2, <2>1, <2>2, <2>3, StartUnique, Zenon
<1>5. x \in Nat /\ i - 1 - e = x /\ j - 1 - e = x + 1
  <2> HIDE DEF e
  <2>1. QED
    BY <1>1, <1>3
<1>6. r = x % LineMax
  BY <1>5 DEF LineLen
<1>7. LineLen(m, j) = (x + 1) % LineMax
  BY <1>4, <1>5 DEF LineLen
<1>8. LineMax \in Nat /\ LineMax >= 1
  BY SizeAssumption
<1>9. /\ r \in 0 .. LineMax - 1 /\ r <= i - 1 /\ Len(LineTo(s, i)) = r
      /\ LineTo(s, i) = SubSeq(s, i - r, i - 1)
  BY <1>2, LineToIs, Zenon
<1>10. /\ LineTo(m, j) \in Seq(LineChar) /\ Len(LineTo(m, j)) = LineLen(m, j)
       /\ LineTo(m, j) = SubSeq(m, j - LineLen(m, j), j - 1)
  BY <1>1, <1>2, LineToIs, Zenon
<1>11. /\ (x % LineMax) < LineMax - 1 => (x + 1) % LineMax = (x % LineMax) + 1
       /\ (x % LineMax) = LineMax - 1 => (x + 1) % LineMax = 0
  <2> HIDE DEF x
  <2>1. QED
    BY <1>5, <1>8, ModNext, Zenon
<1> HIDE DEF x, e
<1>12. ASSUME r < LineMax - 1 PROVE LineTo(m, j) = Append(LineTo(s, i), b)
  <2>1. LineLen(m, j) = r + 1
    BY <1>6, <1>7, <1>11, <1>12, Zenon
  <2> HIDE DEF r
  <2>2. r \in Nat
    BY <1>9
  <2> DEFINE f == i - r
  <2>3. j - LineLen(m, j) = f /\ j - 1 = n + 1 /\ i - 1 = n /\ f \in 1 .. n + 1
    <3>1. n \in Nat /\ r <= i - 1
      BY <1>1, <1>9, Zenon
    <3> HIDE DEF n
    <3>2. j - (r + 1) = f /\ j - 1 = n + 1 /\ i - 1 = n /\ f \in 1 .. n + 1
      BY <2>2, <3>1
    <3>3. QED
      BY <2>1, <3>2, Zenon
  <2> HIDE DEF f
  <2>4. SubSeq(m, f, n + 1) = Append(SubSeq(s, f, n), b)
    BY <2>3, LongerPart, Zenon DEF m
  <2>5. LineTo(m, j) = SubSeq(m, f, n + 1)
    BY <1>10, <2>3, Zenon
  <2>6. LineTo(s, i) = SubSeq(s, f, n)
    BY <1>9, <2>3, Zenon DEF f
  <2>7. QED
    BY <2>4, <2>5, <2>6, Zenon
<1>13. ASSUME r >= LineMax - 1 PROVE LineTo(m, j) = <<>>
  <2>1. r = LineMax - 1
    <3> HIDE DEF r
    <3>1. QED
      BY <1>8, <1>9, <1>13
  <2>2. Len(LineTo(m, j)) = 0
    BY <1>6, <1>7, <1>10, <1>11, <2>1, Zenon
  <2>3. QED
    BY <1>10, <2>2
<1>14. QED
  BY <1>9, <1>12, <1>13, Zenon DEF m

(* Whether the terminator at j asks for something. *)
LEMMA AskingIs ==
  ASSUME NEW s \in Seq(RxByte)
  PROVE  /\ Asking(s) \in SUBSET (1 .. Len(s))
         /\ \A j : j \in Asking(s) <=> j \in 1 .. Len(s) /\ s[j] = "eol" /\ Words(LineTo(s, j)) # <<>>
  BY DEF Asking

(* A byte more asks for something only as the terminator of a line with words. *)
LEMMA AskingMore ==
  ASSUME NEW s \in Seq(RxByte), NEW b \in RxByte
  PROVE  /\ b = "eol" /\ Words(LineTo(s, Len(s) + 1)) # <<>> => Asking(Append(s, b)) = Asking(s) \cup {Len(s) + 1}
         /\ ~ (b = "eol" /\ Words(LineTo(s, Len(s) + 1)) # <<>>) => Asking(Append(s, b)) = Asking(s)
<1> DEFINE m == Append(s, b)
           n == Len(s)
           new == b = "eol" /\ Words(LineTo(s, n + 1)) # <<>>
<1>1. n \in Nat /\ m \in Seq(RxByte) /\ Len(m) = n + 1 /\ m[n + 1] = b /\ \A k \in 1 .. n : m[k] = s[k]
  BY OneMore
<1>2. \A j \in 1 .. n + 1 : LineTo(m, j) = LineTo(s, j)
  BY SameLines, Zenon
<1> HIDE DEF m
<1>3. \A j : j \in Asking(m) <=> j \in 1 .. n + 1 /\ m[j] = "eol" /\ Words(LineTo(m, j)) # <<>>
  BY <1>1, AskingIs, Zenon
<1>4. \A j : j \in Asking(s) <=> j \in 1 .. n /\ s[j] = "eol" /\ Words(LineTo(s, j)) # <<>>
  BY AskingIs, Zenon
<1>5. \A j : j \in 1 .. n + 1 <=> j \in 1 .. n \/ j = n + 1
  BY <1>1
<1>6. n + 1 \notin 1 .. n
  BY <1>1
<1>7. \A j : j \in Asking(m) <=> j \in Asking(s) \/ (j = n + 1 /\ new)
  <2>1. \A j \in 1 .. n : j \in Asking(m) <=> j \in Asking(s)
    BY <1>1, <1>2, <1>3, <1>4, <1>5, Zenon
  <2>2. n + 1 \in Asking(m) <=> new
    BY <1>1, <1>2, <1>3, <1>5, Zenon
  <2> HIDE DEF new, n
  <2>3. QED
    BY <1>3, <1>4, <1>5, <2>1, <2>2, Zenon
<1> HIDE DEF new
<1>8. ASSUME new PROVE Asking(m) = Asking(s) \cup {n + 1}
  BY <1>7, <1>8
<1>9. ASSUME ~ new PROVE Asking(m) = Asking(s)
  BY <1>7, <1>9
<1>10. QED
  BY <1>8, <1>9, Zenon DEF new, m

(* The commands, one by one. *)
LEMMA CommandsAre ==
  ASSUME NEW s \in Seq(RxByte)
  PROVE  /\ Commands(s) \in Seq(Call) /\ Len(Commands(s)) = Cardinality(Asking(s))
         /\ Cardinality(Asking(s)) \in Nat
         /\ \A k \in 1 .. Cardinality(Asking(s)) :
              /\ InOrder(Asking(s))[k] \in Asking(s)
              /\ Commands(s)[k] = Command(LineTo(s, InOrder(Asking(s))[k]))
<1> DEFINE S == Asking(s)
           n == Cardinality(S)
<1>1. S \in SUBSET (1 .. Len(s)) /\ Len(s) \in Nat
  BY AskingIs
<1>2. n \in Nat
  BY <1>1, IndexSet, Zenon
<1>3. InOrder(S) \in Seq(S) /\ Len(InOrder(S)) = n
  BY <1>1, InOrderType, Zenon
<1>4. ASSUME NEW j \in S PROVE Command(LineTo(s, j)) \in Call
  <2>1. j \in 1 .. Len(s) /\ Words(LineTo(s, j)) # <<>>
    BY AskingIs, Zenon
  <2>2. j \in 1 .. Len(s) + 1
    BY <2>1
  <2>3. LineTo(s, j) \in Seq(LineChar)
    BY <2>2, LineToIs, Zenon
  <2>4. QED
    BY <2>1, <2>3, ProcessLineIs, Zenon
<1>5. Commands(s) = [k \in DOMAIN InOrder(S) |-> Command(LineTo(s, InOrder(S)[k]))]
  BY DEF Commands
<1> HIDE DEF S, n
<1>6. DOMAIN InOrder(S) = 1 .. n
  BY <1>3
<1>7. \A k \in 1 .. n : InOrder(S)[k] \in S
  BY <1>2, <1>3
<1>8. Commands(s) = [k \in 1 .. n |-> Command(LineTo(s, InOrder(S)[k]))]
  BY <1>5, <1>6, Zenon
<1>9. \A k \in 1 .. n : Command(LineTo(s, InOrder(S)[k])) \in Call
  BY <1>4, <1>7, Zenon
<1>10. Commands(s) \in Seq(Call) /\ Len(Commands(s)) = n
  BY <1>2, <1>8, <1>9
<1>11. \A k \in 1 .. n : Commands(s)[k] = Command(LineTo(s, InOrder(S)[k]))
  BY <1>8, Zenon
<1>12. QED
  BY <1>2, <1>7, <1>10, <1>11 DEF S, n

(* No byte, no line and no command. *)
LEMMA NoCommands == Commands(<<>>) = <<>> /\ LineTo(<<>>, 1) = <<>>
<1>1. <<>> \in Seq(RxByte) /\ Len(<<>>) = 0 /\ 1 \in 1 .. Len(<<>>) + 1
  OBVIOUS
<1>2. Asking(<<>>) = {}
  BY DEF Asking
<1>3. Commands(<<>>) = <<>>
  <2>1. Cardinality({}) = 0
    BY FS_EmptySet
  <2>2. Commands(<<>>) \in Seq(Call) /\ Len(Commands(<<>>)) = 0
    BY <1>1, <1>2, <2>1, CommandsAre, Zenon
  <2>3. QED
    BY <2>2
<1>4. LineTo(<<>>, 1) = <<>>
  <2>1. LineTo(<<>>, 1) \in Seq(LineChar) /\ Len(LineTo(<<>>, 1)) = LineLen(<<>>, 1) /\ LineLen(<<>>, 1) <= 1 - 1
        /\ LineLen(<<>>, 1) \in 0 .. LineMax - 1
    BY <1>1, LineToIs, Zenon
  <2>2. QED
    BY <2>1
<1>5. QED
  BY <1>3, <1>4

(* A byte that does not end a line with words asks for nothing. *)
LEMMA CommandsSame ==
  ASSUME NEW s \in Seq(RxByte), NEW b \in RxByte, ~ (b = "eol" /\ Words(LineTo(s, Len(s) + 1)) # <<>>)
  PROVE  Commands(Append(s, b)) = Commands(s)
<1> DEFINE m == Append(s, b)
           S == Asking(s)
           N == Cardinality(S)
<1>1. m \in Seq(RxByte)
  BY OneMore
<1>2. Asking(m) = S
  BY AskingMore, Zenon
<1>3. ASSUME NEW j \in S PROVE LineTo(m, j) = LineTo(s, j)
  <2>1. j \in 1 .. Len(s)
    BY AskingIs, Zenon
  <2>2. j \in 1 .. Len(s) + 1
    BY <2>1
  <2>3. QED
    BY <2>2, SameLines, Zenon
<1> HIDE DEF m
<1>4. /\ Commands(s) \in Seq(Call) /\ Len(Commands(s)) = N /\ N \in Nat
      /\ \A k \in 1 .. N : InOrder(S)[k] \in S /\ Commands(s)[k] = Command(LineTo(s, InOrder(S)[k]))
  BY CommandsAre, Zenon
<1>5. /\ Commands(m) \in Seq(Call) /\ Len(Commands(m)) = N
      /\ \A k \in 1 .. N : Commands(m)[k] = Command(LineTo(m, InOrder(S)[k]))
  BY <1>1, <1>2, CommandsAre, Zenon
<1>6. \A k \in 1 .. N : Commands(m)[k] = Commands(s)[k]
  <2> HIDE DEF N, S
  <2>1. QED
    BY <1>3, <1>4, <1>5, Zenon
<1> HIDE DEF N, S
<1>7. Commands(m) = Commands(s)
  BY <1>4, <1>5, <1>6
<1>8. QED
  BY <1>7 DEF m

(* One that does asks for what the line asks for. *)
LEMMA CommandsMore ==
  ASSUME NEW s \in Seq(RxByte), NEW b \in RxByte, b = "eol", Words(LineTo(s, Len(s) + 1)) # <<>>
  PROVE  Commands(Append(s, b)) = Append(Commands(s), Command(LineTo(s, Len(s) + 1)))
<1> DEFINE m == Append(s, b)
           n == Len(s)
           S == Asking(s)
           N == Cardinality(S)
           c == Command(LineTo(s, n + 1))
<1>1. n \in Nat /\ m \in Seq(RxByte) /\ Len(m) = n + 1
  BY OneMore
<1>2. Asking(m) = S \cup {n + 1} /\ S \in SUBSET (1 .. n)
  BY AskingMore, AskingIs, Zenon
<1>3. ASSUME NEW j \in S PROVE LineTo(m, j) = LineTo(s, j)
  <2>1. j \in 1 .. Len(s)
    BY AskingIs, Zenon
  <2>2. j \in 1 .. Len(s) + 1
    BY <2>1
  <2>3. QED
    BY <2>2, SameLines, Zenon
<1>4. LineTo(m, n + 1) = LineTo(s, n + 1)
  <2>1. n + 1 \in 1 .. Len(s) + 1
    BY <1>1
  <2>2. QED
    BY <2>1, SameLines, Zenon
<1>5. InOrder(Asking(m)) = Append(InOrder(S), n + 1)
  BY <1>1, <1>2, InOrderAppend, Zenon
<1>6. N \in Nat /\ InOrder(S) \in Seq(S) /\ Len(InOrder(S)) = N
  BY <1>1, <1>2, InOrderType, IndexSet, Zenon
<1>7. /\ Commands(s) \in Seq(Call) /\ Len(Commands(s)) = N
      /\ \A k \in 1 .. N : InOrder(S)[k] \in S /\ Commands(s)[k] = Command(LineTo(s, InOrder(S)[k]))
  BY CommandsAre, Zenon
<1>8. /\ Commands(m) \in Seq(Call) /\ Len(Commands(m)) = Cardinality(Asking(m))
      /\ \A k \in 1 .. Cardinality(Asking(m)) : Commands(m)[k] = Command(LineTo(m, InOrder(Asking(m))[k]))
  BY <1>1, CommandsAre, Zenon
<1>9. InOrder(S) \in Seq(Nat)
  <2>1. S \subseteq Nat
    BY <1>2
  <2>2. QED
    BY <1>6, <2>1, SeqOfMore, Zenon
<1>10. Cardinality(Asking(m)) = N + 1
  <2>1. InOrder(Asking(m)) \in Seq(Asking(m)) /\ Len(InOrder(Asking(m))) = Cardinality(Asking(m))
    <3>1. Asking(m) \in SUBSET (1 .. Len(m))
      BY <1>1, AskingIs, Zenon
    <3>2. Len(m) \in Nat
      BY <1>1
    <3>3. QED
      BY <3>1, <3>2, InOrderType, Zenon
  <2> HIDE DEF S, N, m
  <2>2. Len(Append(InOrder(S), n + 1)) = N + 1
    BY <1>1, <1>6, <1>9
  <2>3. QED
    BY <1>5, <2>1, <2>2, Zenon
<1>11. /\ \A k \in 1 .. N : InOrder(Asking(m))[k] = InOrder(S)[k]
       /\ InOrder(Asking(m))[N + 1] = n + 1
  <2> HIDE DEF S, N, m
  <2>1. QED
    BY <1>5, <1>6
<1>12. c \in Call
  <2>1. n + 1 \in 1 .. Len(s) + 1
    BY <1>1
  <2>2. LineTo(s, n + 1) \in Seq(LineChar)
    BY <2>1, LineToIs, Zenon
  <2>3. QED
    BY <2>2, ProcessLineIs, Zenon
<1> DEFINE w == Commands(s)
           v == Commands(m)
<1>0. c = Command(LineTo(s, n + 1))
  OBVIOUS
<1> HIDE DEF S, N, m, n, w, v, c
<1>13. \A k : k \in 1 .. N + 1 <=> k \in 1 .. N \/ k = N + 1
  BY <1>6
<1>14. v \in Seq(Call) /\ Len(v) = N + 1 /\ w \in Seq(Call) /\ Len(w) = N
  BY <1>7, <1>8, <1>10 DEF w, v
<1>15. \A k \in 1 .. N : v[k] = w[k]
  BY <1>3, <1>7, <1>8, <1>10, <1>11, <1>13, Zenon DEF v, w
<1>16. v[N + 1] = c
  BY <1>4, <1>8, <1>10, <1>11, <1>13, <1>0, Zenon DEF v
<1>17. v = Append(w, c)
  BY <1>6, <1>12, <1>14, <1>15, <1>16
<1>18. QED
  BY <1>17 DEF m, v, w, c, n

-----------------------------------------------------------------------------
(* The receive path: port, ring, inbox and line. *)

(* What a port that is marked up, or a task on its way to mark it, relies on. *)
PortInv ==
  /\ BootTypeOK
  /\ \A t \in Booter :
       /\ stage[t] = "up" => inited \/ failed \/ twice
       /\ stage[t] \in {"claim", "event", "done"} => hw_up
       /\ stage[t] = "inited" => receiving
  /\ hw_up => inited \/ failed \/ twice
  /\ inited => receiving

(* What the input and the line rely on. *)
InputInv ==
  /\ CliTypeOK
  /\ line \in Seq(LineChar)
  /\ heard => evt_cb /\ rx_isr
  /\ at \in {"register", "wait", "recv"} /\ heard /\ ring # <<>> => inbox > 0
  /\ at \in {"register", "wait"} /\ inbox > 0 => notified
  /\ table = IF at = "register" THEN Earlier ELSE Earlier \cup {Help}

(* The initial states are as they should be. *)
LEMMA PortInit == CliInit => PortInv
  BY DEF CliInit, BootInit, PortInv, BootTypeOK, Booter, Initialising

(* Every step of serial_register keeps the port so. *)
LEMMA PortStep ==
  ASSUME PortInv, ~ twice, NEW t \in Booter, serial_register(t)
  PROVE  PortInv'
<1>1. CASE TestUp(t)
  BY <1>1 DEF TestUp, PortInv, BootTypeOK, Booter, Initialising, Go
<1>2. CASE TestInited(t)
  BY <1>2 DEF TestInited, PortInv, BootTypeOK, Booter, Initialising, Go
<1>3. CASE InitRings(t)
  BY <1>3 DEF InitRings, PortInv, BootTypeOK, Booter, Initialising, Go
<1>4. CASE InitHw(t)
  BY <1>4 DEF InitHw, PortInv, BootTypeOK, Booter, Initialising, Go
<1>5. CASE StartReception(t)
  BY <1>5 DEF StartReception, PortInv, BootTypeOK, Booter, Initialising, Go
<1>6. CASE SetInited(t)
  BY <1>6 DEF SetInited, PortInv, BootTypeOK, Booter, Initialising, Go
<1>7. CASE SetUp(t)
  BY <1>7 DEF SetUp, PortInv, BootTypeOK, Booter, Initialising, Go
<1>8. CASE SetClaim(t)
  BY <1>8 DEF SetClaim, PortInv, BootTypeOK, Booter, Initialising, Go
<1>9. CASE RegisterEvent(t)
  BY <1>9 DEF RegisterEvent, PortInv, BootTypeOK, Booter, Initialising, Go
<1>10. QED
  BY <1>1, <1>2, <1>3, <1>4, <1>5, <1>6, <1>7, <1>8, <1>9, Zenon DEF serial_register

(* Nothing else touches it. *)
LEMMA PortKept ==
  ASSUME PortInv, UNCHANGED bootVars
  PROVE  PortInv'
  BY DEF PortInv, BootTypeOK, bootVars

(* The sizes are numbers, none of them zero. *)
LEMMA Sizes ==
  /\ RxChunk \in Nat /\ RingRoom \in Nat /\ ReadChunk \in Nat /\ QueueLen \in Nat /\ LineMax \in Nat
  /\ RxChunk >= 1 /\ RingRoom >= 1 /\ ReadChunk >= 1 /\ QueueLen >= 1 /\ LineMax >= 2
  BY SizeAssumption

(* The initial states are as they should be. *)
LEMMA InputInit == CliInit => InputInv
<1> SUFFICES ASSUME CliInit PROVE InputInv
  OBVIOUS
<1>1. BootTypeOK
  BY PortInit DEF PortInv
<1>2. /\ heard = FALSE /\ stream \in Seq(RxByte) /\ arrived = 0 /\ rxtmp = <<>> /\ ring = <<>> /\ inbox = 0
      /\ notified = FALSE /\ at = "register" /\ buf = <<>> /\ line = <<>> /\ table = Earlier
      /\ done = <<>> /\ accepted = <<>>
  BY SizeAssumption DEF CliInit
<1>3. CliTypeOK
  <2>1. arrived \in 0 .. Len(stream)
    BY <1>2
  <2>2. /\ rxtmp \in Seq(RxByte) /\ Len(rxtmp) <= RxChunk /\ ring \in Seq(RxByte) /\ Len(ring) <= RingRoom
        /\ buf \in Seq(RxByte) /\ Len(buf) <= ReadChunk /\ line \in Seq(RxByte) /\ Len(line) <= LineMax - 1
        /\ accepted \in Seq(RxByte)
    BY <1>2, Sizes
  <2>3. inbox \in 0 .. QueueLen
    BY <1>2, Sizes
  <2>4. done \in Seq([argv : Seq(Seq(Chars)), known : BOOLEAN])
    BY <1>2
  <2>5. table \subseteq Earlier \cup {Help}
    BY <1>2
  <2>6. QED
    BY <1>1, <1>2, <2>1, <2>2, <2>3, <2>4, <2>5 DEF CliTypeOK
<1>4. line \in Seq(LineChar)
  BY <1>2
<1>5. QED
  BY <1>2, <1>3, <1>4 DEF InputInv

(* Registering the port leaves the input alone; a flag once set stays set. *)
LEMMA InputBoot ==
  ASSUME InputInv, PortInv', NEW t \in Booter, Boot(t)
  PROVE  InputInv'
<1>1. UNCHANGED <<stream, arrived, rxtmp, ring, inbox, notified, at, buf, line, table, done, accepted, heard>>
  BY DEF Boot, cliVars
<1>2. evt_cb /\ rx_isr => evt_cb' /\ rx_isr'
  <2>1. rx_isr' = rx_isr \/ rx_isr' = (rx_isr \/ t = "cli")
    BY Zenon DEF Boot, serial_register, TestUp, TestInited, InitRings, InitHw, StartReception, SetInited,
       SetUp, SetClaim, RegisterEvent
  <2>2. evt_cb' = evt_cb \/ evt_cb' = TRUE
    BY Zenon DEF Boot, serial_register, TestUp, TestInited, InitRings, InitHw, StartReception, SetInited,
       SetUp, SetClaim, RegisterEvent
  <2>3. QED
    BY <2>1, <2>2, Zenon
<1>3. CliTypeOK'
  <2>1. BootTypeOK'
    BY DEF PortInv
  <2>2. QED
    BY <1>1, <2>1 DEF InputInv, CliTypeOK
<1>4. QED
  BY <1>1, <1>2, <1>3 DEF InputInv

(* What an input byte does. *)
LEMMA InputByteArrives ==
  ASSUME InputInv, ByteArrives
  PROVE  InputInv'
<1>1. /\ arrived < Len(stream) /\ Len(rxtmp) < RxChunk /\ arrived' = arrived + 1
      /\ rxtmp' = Append(rxtmp, stream[arrived + 1])
      /\ UNCHANGED bootVars
      /\ UNCHANGED <<stream, ring, inbox, notified, at, buf, line, table, done, accepted, heard>>
  BY DEF ByteArrives, cliVars
<1>2. stream \in Seq(RxByte) /\ arrived \in 0 .. Len(stream) /\ rxtmp \in Seq(RxByte)
  BY DEF InputInv, CliTypeOK
<1>3. arrived' \in 0 .. Len(stream) /\ rxtmp' \in Seq(RxByte) /\ Len(rxtmp') <= RxChunk
  <2>1. stream[arrived + 1] \in RxByte
    BY <1>1, <1>2
  <2>2. QED
    BY <1>1, <1>2, <2>1, Sizes
<1>4. CliTypeOK'
  BY <1>1, <1>3 DEF InputInv, CliTypeOK, bootVars, BootTypeOK
<1>5. QED
  BY <1>1, <1>4 DEF InputInv, bootVars

(* What fits is a part of the bytes received. *)
LEMMA FitsIs ==
  ASSUME InputInv
  PROVE  /\ Fits \in 0 .. Len(rxtmp) /\ Len(ring) + Fits <= RingRoom
         /\ SubSeq(rxtmp, 1, Fits) \in Seq(RxByte) /\ Len(SubSeq(rxtmp, 1, Fits)) = Fits
<1>1. rxtmp \in Seq(RxByte) /\ ring \in Seq(RxByte) /\ Len(ring) <= RingRoom
  BY DEF InputInv, CliTypeOK
<1>2. Fits \in 0 .. Len(rxtmp) /\ Len(ring) + Fits <= RingRoom
  BY <1>1, Sizes DEF Fits
<1>3. QED
  BY <1>1, <1>2, SubSeqProperties

(* What the interrupt does. *)
LEMMA InputCallback ==
  ASSUME InputInv, RxEventCallback
  PROVE  InputInv'
<1> DEFINE x == SubSeq(rxtmp, 1, Fits)
<1>1. /\ ring' = ring \o x /\ accepted' = accepted \o x /\ rxtmp' = <<>>
      /\ UNCHANGED bootVars
      /\ UNCHANGED <<stream, arrived, at, buf, line, table, done>>
  BY DEF RxEventCallback, cliVars
<1>2. IF Fits > 0 /\ evt_cb /\ rx_isr THEN PostRx /\ heard' = TRUE
                                      ELSE UNCHANGED <<inbox, notified, heard>>
  BY DEF RxEventCallback
<1>3. Fits \in Nat /\ Len(ring) + Fits <= RingRoom /\ x \in Seq(RxByte) /\ Len(x) = Fits
  BY FitsIs
<1>4. /\ ring \in Seq(RxByte) /\ accepted \in Seq(RxByte) /\ inbox \in 0 .. QueueLen /\ notified \in BOOLEAN
      /\ heard \in BOOLEAN
  BY DEF InputInv, CliTypeOK
<1> HIDE DEF x
<1>5. ring' \in Seq(RxByte) /\ Len(ring') <= RingRoom /\ accepted' \in Seq(RxByte)
  <2>1. ring \o x \in Seq(RxByte) /\ Len(ring \o x) = Len(ring) + Len(x)
    BY <1>3, <1>4
  <2>2. accepted \o x \in Seq(RxByte)
    BY <1>3, <1>4
  <2>3. QED
    BY <1>1, <1>3, <2>1, <2>2
<1>6. /\ inbox' \in 0 .. QueueLen /\ notified' \in BOOLEAN /\ heard' \in BOOLEAN
      /\ inbox > 0 => inbox' > 0
      /\ notified => notified'
  <2>1. notified' \in BOOLEAN /\ heard' \in BOOLEAN /\ (notified => notified')
    BY <1>2, <1>4, Zenon DEF PostRx
  <2>2. inbox' = inbox \/ (inbox' = inbox + 1 /\ inbox < QueueLen)
    BY <1>2, Zenon DEF PostRx
  <2>3. inbox' \in 0 .. QueueLen /\ (inbox > 0 => inbox' > 0)
    BY <1>4, <2>2, Sizes
  <2>4. QED
    BY <2>1, <2>3, Zenon
<1>7. CliTypeOK'
  <2>1. rxtmp' \in Seq(RxByte) /\ Len(rxtmp') <= RxChunk
    BY <1>1, Sizes
  <2>2. QED
    BY <1>1, <1>5, <1>6, <2>1 DEF InputInv, CliTypeOK, bootVars, BootTypeOK
<1>8. CASE Fits > 0 /\ evt_cb /\ rx_isr
  <2>1. inbox' > 0 /\ (inbox' = inbox \/ notified')
    BY <1>2, <1>4, <1>8, Sizes DEF PostRx
  <2>2. (at \in {"register", "wait"} /\ inbox > 0 => notified)'
    BY <1>1, <1>6, <2>1 DEF InputInv
  <2>3. (heard => evt_cb /\ rx_isr)'
    BY <1>1, <1>8 DEF bootVars
  <2>4. QED
    BY <1>1, <1>7, <2>1, <2>2, <2>3 DEF InputInv
<1>9. CASE ~ (Fits > 0 /\ evt_cb /\ rx_isr)
  <2>1. UNCHANGED <<inbox, notified, heard>>
    BY <1>2, <1>9
  <2>2. heard => ring' = ring
    <3> SUFFICES ASSUME heard PROVE ring' = ring
      OBVIOUS
    <3>1. evt_cb /\ rx_isr
      BY DEF InputInv
    <3>2. Fits = 0
      BY <1>3, <1>9, <3>1
    <3>3. x = <<>>
      BY <1>3, <3>2
    <3>4. QED
      BY <1>1, <1>4, <3>3
  <2>3. QED
    BY <1>1, <1>7, <2>1, <2>2 DEF InputInv, bootVars
<1>10. QED
  BY <1>8, <1>9

(* What a receive error does. *)
LEMMA InputError ==
  ASSUME InputInv, ErrorCallback
  PROVE  InputInv'
<1>1. /\ rxtmp' = <<>> /\ UNCHANGED bootVars
      /\ UNCHANGED <<stream, arrived, ring, inbox, notified, at, buf, line, table, done, accepted, heard>>
  BY DEF ErrorCallback, cliVars
<1>2. rxtmp' \in Seq(RxByte) /\ Len(rxtmp') <= RxChunk
  BY <1>1, Sizes
<1>3. CliTypeOK'
  BY <1>1, <1>2 DEF InputInv, CliTypeOK, bootVars, BootTypeOK
<1>4. QED
  BY <1>1, <1>3 DEF InputInv, bootVars

(* A sequence that is not empty: its first element and the rest. *)
LEMMA HeadAndTail ==
  ASSUME NEW S, NEW s \in Seq(S), s # <<>>
  PROVE  Head(s) \in S /\ Tail(s) \in Seq(S) /\ Len(Tail(s)) = Len(s) - 1 /\ Len(s) \in Nat /\ Len(s) >= 1
  OBVIOUS

(* What the cli task registering, waking, going to sleep or receiving does. *)
LEMMA InputTaskWaits ==
  ASSUME InputInv, cli_register_command \/ Wake \/ RecvEmpty \/ Recv
  PROVE  InputInv'
<1>0. inbox \in 0 .. QueueLen /\ table \subseteq Earlier \cup {Help}
  BY DEF InputInv, CliTypeOK
<1>1. CASE cli_register_command
  <2>1. table' = Earlier \cup {Help}
    <3>1. at = "register" /\ table = Earlier
      BY <1>1 DEF cli_register_command, InputInv
    <3>2. Cardinality(table) < TableMax
      BY <3>1, SizeAssumption
    <3>3. QED
      BY <1>1, <3>1, <3>2 DEF cli_register_command
  <2>2. /\ at = "register" /\ at' = "wait"
        /\ UNCHANGED <<bootVars, stream, arrived, rxtmp, ring, inbox, notified, buf, line, done, accepted, heard>>
    BY <1>1 DEF cli_register_command, receiveVars
  <2>3. CliTypeOK'
    BY <2>1, <2>2 DEF InputInv, CliTypeOK, bootVars, BootTypeOK
  <2>4. QED
    BY <2>1, <2>2, <2>3 DEF InputInv, bootVars
<1>2. CASE Wake
  <2>1. /\ at = "wait" /\ at' = "recv" /\ notified' = FALSE
        /\ UNCHANGED <<bootVars, stream, arrived, rxtmp, ring, inbox, buf, line, table, done, accepted, heard>>
    BY <1>2 DEF Wake, receiveVars
  <2>2. CliTypeOK'
    BY <2>1 DEF InputInv, CliTypeOK, bootVars, BootTypeOK
  <2>3. QED
    BY <2>1, <2>2 DEF InputInv, bootVars
<1>3. CASE RecvEmpty
  <2>1. /\ at = "recv" /\ at' = "wait" /\ inbox = 0
        /\ UNCHANGED <<bootVars, stream, arrived, rxtmp, ring, inbox, notified, buf, line, table, done,
                       accepted, heard>>
    BY <1>3 DEF RecvEmpty, receiveVars
  <2>2. CliTypeOK'
    BY <2>1 DEF InputInv, CliTypeOK, bootVars, BootTypeOK
  <2>3. QED
    BY <2>1, <2>2 DEF InputInv, bootVars
<1>4. CASE Recv
  <2>1. /\ at = "recv" /\ at' = "read" /\ inbox > 0 /\ inbox' = inbox - 1
        /\ UNCHANGED <<bootVars, stream, arrived, rxtmp, ring, notified, buf, line, table, done, accepted, heard>>
    BY <1>4 DEF Recv, receiveVars
  <2>2. inbox' \in 0 .. QueueLen
    BY <1>0, <2>1, Sizes
  <2>3. CliTypeOK'
    BY <2>1, <2>2 DEF InputInv, CliTypeOK, bootVars, BootTypeOK
  <2>4. QED
    BY <2>1, <2>3 DEF InputInv, bootVars
<1>5. QED
  BY <1>1, <1>2, <1>3, <1>4

(* What reading the ring does. *)
LEMMA InputTaskReads ==
  ASSUME InputInv, ReadByte \/ ReadDone \/ ScanDone
  PROVE  InputInv'
<1>0. ring \in Seq(RxByte) /\ Len(ring) <= RingRoom /\ buf \in Seq(RxByte) /\ Len(buf) <= ReadChunk
  BY DEF InputInv, CliTypeOK
<1>1. CASE ReadByte
  <2>1. /\ at = "read" /\ at' = "read" /\ ring # <<>> /\ Len(buf) < ReadChunk
        /\ buf' = Append(buf, Head(ring)) /\ ring' = Tail(ring)
        /\ UNCHANGED <<bootVars, stream, arrived, rxtmp, inbox, notified, line, table, done, accepted, heard>>
    BY <1>1 DEF ReadByte, receiveVars
  <2>2. Head(ring) \in RxByte /\ ring' \in Seq(RxByte) /\ Len(ring') = Len(ring) - 1 /\ Len(ring) \in Nat
    BY <1>0, <2>1, HeadAndTail
  <2>3. Len(ring') <= RingRoom
    BY <1>0, <2>2, Sizes
  <2>4. buf' \in Seq(RxByte) /\ Len(buf') <= ReadChunk
    BY <1>0, <2>1, <2>2, Sizes
  <2>5. CliTypeOK'
    BY <2>1, <2>2, <2>3, <2>4 DEF InputInv, CliTypeOK, bootVars, BootTypeOK
  <2>6. QED
    BY <2>1, <2>5 DEF InputInv, bootVars
<1>2. CASE ReadDone
  <2>1. /\ at = "read" /\ (ring = <<>> \/ Len(buf) = ReadChunk) /\ at' = IF buf = <<>> THEN "recv" ELSE "scan"
        /\ UNCHANGED <<bootVars, stream, arrived, rxtmp, ring, inbox, notified, buf, line, table, done,
                       accepted, heard>>
    BY <1>2 DEF ReadDone, receiveVars
  <2>2. at' \in {"recv", "scan"}
    BY <2>1
  <2>3. CliTypeOK'
    BY <2>1, <2>2 DEF InputInv, CliTypeOK, bootVars, BootTypeOK
  <2>4. at' = "recv" => ring' = <<>>
    <3> SUFFICES ASSUME at' = "recv" PROVE ring' = <<>>
      OBVIOUS
    <3>1. Len(buf) = 0
      BY <2>1
    <3>2. QED
      BY <2>1, <3>1, Sizes
  <2>5. QED
    BY <2>1, <2>2, <2>3, <2>4 DEF InputInv, bootVars
<1>3. CASE ScanDone
  <2>1. /\ at = "scan" /\ at' = "read"
        /\ UNCHANGED <<bootVars, stream, arrived, rxtmp, ring, inbox, notified, buf, line, table, done,
                       accepted, heard>>
    BY <1>3 DEF ScanDone, receiveVars
  <2>2. CliTypeOK'
    BY <2>1 DEF InputInv, CliTypeOK, bootVars, BootTypeOK
  <2>3. QED
    BY <2>1, <2>2 DEF InputInv, bootVars
<1>4. QED
  BY <1>1, <1>2, <1>3

(* process_line yields calls, at most one of them. *)
LEMMA ProcessLineType ==
  ASSUME NEW l \in Seq(LineChar)
  PROVE  process_line(l, Earlier \cup {Help}) \in Seq(Call)
<1>1. CASE Words(l) = <<>>
  <2>1. process_line(l, Earlier \cup {Help}) = <<>>
    BY <1>1, ProcessLineIs, Zenon
  <2>2. QED
    BY <2>1
<1>2. CASE Words(l) # <<>>
  <2>1. process_line(l, Earlier \cup {Help}) = <<Command(l)>> /\ Command(l) \in Call
    BY <1>2, ProcessLineIs, Zenon
  <2> DEFINE c == Command(l)
  <2> HIDE DEF c
  <2>2. process_line(l, Earlier \cup {Help}) = <<c>> /\ c \in Call
    BY <2>1 DEF c
  <2>3. <<c>> \in Seq(Call)
    BY <2>2
  <2>4. QED
    BY <2>2, <2>3, Zenon
<1>3. QED
  BY <1>1, <1>2

(* What taking a byte of the buffer into the line does. *)
LEMMA InputTaskScans ==
  ASSUME InputInv, EndLine \/ KeepByte \/ DropLine
  PROVE  InputInv'
<1>1. /\ at = "scan" /\ at' = "scan" /\ buf # <<>> /\ buf' = Tail(buf)
      /\ UNCHANGED <<bootVars, stream, arrived, rxtmp, ring, inbox, notified, table, accepted, heard>>
  BY DEF EndLine, KeepByte, DropLine, TakeByte, receiveVars
<1>2. /\ buf \in Seq(RxByte) /\ Len(buf) <= ReadChunk /\ line \in Seq(LineChar) /\ Len(line) <= LineMax - 1
      /\ table = Earlier \cup {Help} /\ done \in Seq(Call)
  BY <1>1 DEF InputInv, CliTypeOK, Call
<1>3. Head(buf) \in RxByte /\ buf' \in Seq(RxByte) /\ Len(buf') = Len(buf) - 1 /\ Len(buf) \in Nat
  BY <1>1, <1>2, HeadAndTail
<1>4. Len(buf') <= ReadChunk
  BY <1>2, <1>3, Sizes
<1>5. line' \in Seq(LineChar) /\ Len(line') <= LineMax - 1 /\ done' \in Seq(Call)
  <2>1. CASE EndLine
    <3>1. line' = <<>>
      BY <2>1 DEF EndLine
    <3>2. done' = IF line = <<>> THEN done ELSE done \o process_line(line, Earlier \cup {Help})
      BY <1>2, <2>1 DEF EndLine
    <3> DEFINE p == process_line(line, Earlier \cup {Help})
    <3>3. p \in Seq(Call)
      BY <1>2, ProcessLineType, Zenon
    <3> HIDE DEF p
    <3>4. done' = IF line = <<>> THEN done ELSE done \o p
      BY <3>2 DEF p
    <3>5. done' \in Seq(Call)
      BY <1>2, <3>3, <3>4
    <3>6. QED
      BY <3>1, <3>5, Sizes
  <2>2. CASE KeepByte
    <3>1. Head(buf) # "eol" /\ Len(line) < LineMax - 1 /\ line' = Append(line, Head(buf)) /\ done' = done
      BY <2>2 DEF KeepByte
    <3>2. Head(buf) \in LineChar
      BY <1>3, <3>1 DEF LineChar
    <3>3. line' \in Seq(LineChar) /\ Len(line') = Len(line) + 1 /\ Len(line) \in Nat
      BY <1>2, <3>1, <3>2
    <3>4. QED
      BY <1>2, <3>1, <3>3, Sizes
  <2>3. CASE DropLine
    <3>1. line' = <<>> /\ done' = done
      BY <2>3 DEF DropLine
    <3>2. QED
      BY <1>2, <3>1, Sizes
  <2>4. QED
    BY <2>1, <2>2, <2>3
<1>6. line' \in Seq(RxByte)
  <2>1. LineChar \subseteq RxByte
    BY DEF LineChar
  <2>2. QED
    BY <1>5, <2>1, SeqOfMore, Zenon
<1>7. CliTypeOK'
  <2>1. done' \in Seq([argv : Seq(Seq(Chars)), known : BOOLEAN])
    BY <1>5 DEF Call
  <2>2. QED
    BY <1>1, <1>3, <1>4, <1>5, <1>6, <2>1 DEF InputInv, CliTypeOK, bootVars, BootTypeOK
<1>8. QED
  BY <1>1, <1>5, <1>7 DEF InputInv, bootVars

(* Every step keeps both. *)
LEMMA InputStep ==
  ASSUME InputInv, PortInv, [CliNext]_rxVars
  PROVE  InputInv' /\ PortInv'
<1>1. ASSUME NEW t \in Booter, Boot(t), ~ twice PROVE InputInv' /\ PortInv'
  <2>1. PortInv'
    BY <1>1, PortStep DEF Boot
  <2>2. QED
    BY <1>1, <2>1, InputBoot
<1>2. CASE ByteArrives
  <2>1. UNCHANGED bootVars
    BY <1>2 DEF ByteArrives
  <2>2. QED
    BY <1>2, <2>1, InputByteArrives, PortKept
<1>3. CASE RxEventCallback
  <2>1. UNCHANGED bootVars
    BY <1>3 DEF RxEventCallback
  <2>2. QED
    BY <1>3, <2>1, InputCallback, PortKept
<1>4. CASE ErrorCallback
  <2>1. UNCHANGED bootVars
    BY <1>4 DEF ErrorCallback
  <2>2. QED
    BY <1>4, <2>1, InputError, PortKept
<1>5. CASE Task
  <2>1. UNCHANGED bootVars
    BY <1>5 DEF Task, cli_register_command, Wake, RecvEmpty, Recv, ReadByte, ReadDone, EndLine, KeepByte,
       DropLine, TakeByte, ScanDone, receiveVars
  <2>2. InputInv'
    BY <1>5, InputTaskWaits, InputTaskReads, InputTaskScans DEF Task
  <2>3. QED
    BY <2>1, <2>2, PortKept
<1>6. CASE UNCHANGED rxVars
  <2>1. UNCHANGED bootVars
    BY <1>6 DEF rxVars
  <2>2. InputInv'
    BY <1>6 DEF rxVars, bootVars, InputInv, CliTypeOK, BootTypeOK
  <2>3. QED
    BY <2>1, <2>2, PortKept
<1>7. QED
  BY <1>1, <1>2, <1>3, <1>4, <1>5, <1>6, Zenon DEF CliNext, Step

(***************************************************************************)
(* The cli task never sleeps on input nobody will wake it for, no buffer   *)
(* of the receive path exceeds its size, and a port that is claimed is up: *)
(* for all sizes of chunks, rings, inbox and line.                         *)
(***************************************************************************)
THEOREM ReceiveInvariance == CliSpec => []RxInv
<1>1. CliInit => InputInv /\ PortInv
  BY InputInit, PortInit
<1>2. InputInv /\ PortInv /\ [CliNext]_rxVars => (InputInv /\ PortInv)'
  BY InputStep
<1>3. InputInv /\ PortInv => RxInv
  <2> SUFFICES ASSUME InputInv, PortInv PROVE RxInv
    OBVIOUS
  <2>1. CliTypeOK
    BY DEF InputInv
  <2>2. NoStrandedInput
    BY DEF InputInv, NoStrandedInput
  <2>3. PortComesUp
    BY DEF PortInv, PortComesUp
  <2>4. QED
    BY <2>1, <2>2, <2>3 DEF RxInv
<1>4. QED
  BY <1>1, <1>2, <1>3, PTL DEF CliSpec

-----------------------------------------------------------------------------
(* The commands are those of the lines. *)

(* The bytes s are scanned, the others wait in the buffer and on the ring. *)
ScannedAre(s) ==
  /\ s \in Seq(RxByte)
  /\ accepted = s \o (buf \o ring)
  /\ line = LineTo(s, Len(s) + 1)
  /\ done = Commands(s)

(* Such bytes are those that CommandsAreLines speaks of. *)
LEMMA ScannedIs ==
  ASSUME InputInv, NEW s, ScannedAre(s)
  PROVE  CommandsAreLines
<1>1. /\ s \in Seq(RxByte) /\ buf \in Seq(RxByte) /\ ring \in Seq(RxByte)
      /\ accepted = s \o (buf \o ring)
  BY DEF ScannedAre, InputInv, CliTypeOK
<1>2. Len(accepted) = Len(s) + (Len(buf) + Len(ring)) /\ accepted \in Seq(RxByte)
  BY <1>1
<1>3. \A k \in 1 .. Len(s) : accepted[k] = s[k]
  BY <1>1
<1>4. Len(s) \in Nat /\ Len(buf) \in Nat /\ Len(ring) \in Nat
  BY <1>1
<1>5. Len(accepted) - Len(ring) - Len(buf) = Len(s) /\ Len(s) <= Len(accepted)
  BY <1>2, <1>4
<1>6. SubSeq(accepted, 1, Len(s)) = s
  <2>1. /\ SubSeq(accepted, 1, Len(s)) \in Seq(RxByte) /\ Len(SubSeq(accepted, 1, Len(s))) = Len(s)
        /\ \A k \in 1 .. Len(s) : SubSeq(accepted, 1, Len(s))[k] = accepted[k]
    BY <1>2, <1>4, <1>5, SubSeqProperties
  <2> DEFINE u == SubSeq(accepted, 1, Len(s))
  <2> HIDE DEF u
  <2>2. u \in Seq(RxByte) /\ Len(u) = Len(s) /\ \A k \in 1 .. Len(s) : u[k] = s[k]
    BY <1>3, <2>1 DEF u
  <2>3. u = s
    <3>1. s \in Seq(RxByte)
      BY <1>1
    <3>2. QED
      BY <2>2, <3>1, SeqEqual
  <2>4. QED
    BY <2>3 DEF u
<1>7. Scanned = s
  BY <1>5, <1>6 DEF Scanned
<1>8. (s \o buf) \o ring = s \o (buf \o ring)
  <2>1. Assoc(s, buf, ring)
    BY <1>1, ConcatAssoc, Zenon
  <2>2. QED
    BY <2>1 DEF Assoc
<1>9. QED
  BY <1>1, <1>7, <1>8 DEF CommandsAreLines, ScannedAre

(* At first nothing is. *)
LEMMA ScannedInit == CliInit => ScannedAre(<<>>)
<1> SUFFICES ASSUME CliInit PROVE ScannedAre(<<>>)
  OBVIOUS
<1>1. accepted = <<>> /\ buf = <<>> /\ ring = <<>> /\ line = <<>> /\ done = <<>>
  BY DEF CliInit
<1>2. <<>> \in Seq(RxByte) /\ Len(<<>>) + 1 = 1
  OBVIOUS
<1>3. accepted = <<>> \o (buf \o ring)
  BY <1>1
<1>4. QED
  BY <1>1, <1>2, <1>3, NoCommands DEF ScannedAre

(* What the interrupt pushes waits on the ring. *)
LEMMA ScannedPush ==
  ASSUME InputInv, NEW s, ScannedAre(s), RxEventCallback
  PROVE  ScannedAre(s)'
<1> DEFINE x == SubSeq(rxtmp, 1, Fits)
<1>1. ring' = ring \o x /\ accepted' = accepted \o x /\ UNCHANGED <<buf, line, done>>
  BY DEF RxEventCallback, cliVars
<1>2. x \in Seq(RxByte) /\ ring \in Seq(RxByte) /\ buf \in Seq(RxByte)
  BY FitsIs DEF InputInv, CliTypeOK
<1>3. s \in Seq(RxByte) /\ accepted = s \o (buf \o ring) /\ line = LineTo(s, Len(s) + 1) /\ done = Commands(s)
  BY DEF ScannedAre
<1> HIDE DEF x
<1>4. (s \o (buf \o ring)) \o x = s \o (buf \o (ring \o x))
  <2>1. buf \o ring \in Seq(RxByte)
    BY <1>2
  <2>2. Assoc(buf, ring, x)
    BY <1>2, ConcatAssoc, Zenon
  <2>3. Assoc(s, buf \o ring, x)
    BY <1>2, <1>3, <2>1, ConcatAssoc, Zenon
  <2>4. QED
    BY <2>2, <2>3, Zenon DEF Assoc
<1>5. accepted' = s \o (buf' \o ring')
  BY <1>1, <1>3, <1>4
<1>6. QED
  BY <1>1, <1>3, <1>5 DEF ScannedAre

(* What serial_read takes from the ring waits in the buffer. *)
LEMMA ScannedRead ==
  ASSUME InputInv, NEW s, ScannedAre(s), ReadByte
  PROVE  ScannedAre(s)'
<1>1. /\ ring # <<>> /\ buf' = Append(buf, Head(ring)) /\ ring' = Tail(ring)
      /\ UNCHANGED <<accepted, line, done>>
  BY DEF ReadByte, receiveVars
<1>2. ring \in Seq(RxByte) /\ buf \in Seq(RxByte)
  BY DEF InputInv, CliTypeOK
<1>3. Append(buf, Head(ring)) \o Tail(ring) = buf \o ring
  BY <1>1, <1>2
<1>4. accepted' = s \o (buf' \o ring')
  BY <1>1, <1>3 DEF ScannedAre
<1>5. QED
  BY <1>1, <1>4 DEF ScannedAre

(* A byte taken from the buffer is scanned, and its line and command are as they should be. *)
LEMMA ScannedMore ==
  ASSUME InputInv, NEW s, ScannedAre(s), EndLine \/ KeepByte \/ DropLine,
         NEW b, b = Head(buf), NEW m, m = Append(s, b)
  PROVE  ScannedAre(m)'
<1> DEFINE n == Len(s)
           l == LineTo(s, n + 1)
<1>1. at = "scan" /\ buf # <<>> /\ buf' = Tail(buf) /\ UNCHANGED <<ring, table, accepted>>
  BY DEF EndLine, KeepByte, DropLine, TakeByte, receiveVars
<1>2. ring \in Seq(RxByte) /\ buf \in Seq(RxByte) /\ table = Earlier \cup {Help}
  BY <1>1 DEF InputInv, CliTypeOK
<1>3. s \in Seq(RxByte) /\ accepted = s \o (buf \o ring) /\ line = l /\ done = Commands(s)
  BY DEF ScannedAre
<1>4. b \in RxByte /\ buf' \in Seq(RxByte)
  BY <1>1, <1>2, HeadAndTail
<1> HIDE DEF l
<1>5. m \in Seq(RxByte) /\ Len(m) = n + 1 /\ n \in Nat /\ Len(m) + 1 = n + 2
  <2>1. m \in Seq(RxByte) /\ Len(m) = n + 1 /\ n \in Nat
    BY <1>3, <1>4, OneMore
  <2>2. QED
    BY <2>1
<1>6. accepted' = m \o (buf' \o ring')
  <2>1. buf = <<b>> \o Tail(buf) /\ m = s \o <<b>>
    BY <1>1, <1>2, <1>3, <1>4
  <2> DEFINE h == <<b>>
             e == Tail(buf)
  <2>2. h \in Seq(RxByte) /\ e \in Seq(RxByte)
    BY <1>1, <1>4
  <2> HIDE DEF h, e
  <2>3. (s \o h) \o (e \o ring) = s \o ((h \o e) \o ring)
    <3>1. e \o ring \in Seq(RxByte)
      BY <1>2, <2>2
    <3>2. Assoc(h, e, ring)
      BY <1>2, <2>2, ConcatAssoc, Zenon
    <3>3. Assoc(s, h, e \o ring)
      BY <1>3, <2>2, <3>1, ConcatAssoc, Zenon
    <3>4. QED
      BY <3>2, <3>3, Zenon DEF Assoc
  <2>4. m \o (e \o ring) = s \o (buf \o ring)
    BY <2>1, <2>3 DEF h, e
  <2>5. QED
    BY <1>1, <1>3, <2>4 DEF e
<1>7. l \in Seq(LineChar)
  <2>1. n + 1 \in 1 .. n + 1
    BY <1>5
  <2>2. QED
    BY <1>3, <2>1, LineToIs, Zenon DEF l
<1> HIDE DEF n
<1>8. CASE EndLine
  <2>1. b = "eol" /\ line' = <<>> /\ done' = IF line = <<>> THEN done ELSE done \o process_line(line, table)
    BY <1>8 DEF EndLine
  <2>2. LineTo(m, n + 2) = <<>>
    BY <1>3, <1>4, <2>1, NextLine, Zenon DEF n
  <2>3. done' = Commands(m)
    <3>1. CASE Words(l) = <<>>
      <4>1. done' = done
        <5>1. process_line(line, table) = <<>>
          BY <1>2, <1>3, <1>7, <3>1, ProcessLineIs, Zenon
        <5>2. done \o <<>> = done
          BY DEF InputInv, CliTypeOK
        <5>3. QED
          BY <2>1, <5>1, <5>2
      <4>2. Commands(m) = Commands(s)
        BY <1>3, <1>4, <3>1, CommandsSame, Zenon DEF n, l
      <4>3. QED
        BY <1>3, <4>1, <4>2
    <3>2. CASE Words(l) # <<>>
      <4>1. process_line(line, table) = <<Command(l)>> /\ Command(l) \in Call
        BY <1>2, <1>3, <1>7, <3>2, ProcessLineIs, Zenon
      <4>2. line # <<>>
        BY <1>3, <3>2, CutNothing, Zenon
      <4>3. Commands(m) = Append(Commands(s), Command(l))
        BY <1>3, <1>4, <2>1, <3>2, CommandsMore, Zenon DEF n, l
      <4> DEFINE c == Command(l)
      <4> HIDE DEF c
      <4>4. done \in Seq(Call)
        BY DEF InputInv, CliTypeOK, Call
      <4>5. done \o <<c>> = Append(done, c)
        BY <4>1, <4>4 DEF c
      <4>6. done' = done \o <<c>>
        BY <2>1, <4>1, <4>2 DEF c
      <4>7. QED
        BY <1>3, <4>3, <4>5, <4>6 DEF c
    <3>3. QED
      BY <3>1, <3>2
  <2>4. QED
    BY <1>5, <1>6, <2>1, <2>2, <2>3 DEF ScannedAre
<1>9. ASSUME b # "eol" PROVE Commands(m) = Commands(s)
  BY <1>3, <1>4, <1>9, CommandsSame, Zenon DEF n
<1>10. CASE KeepByte
  <2>1. b # "eol" /\ Len(l) < LineMax - 1 /\ line' = Append(l, b) /\ done' = done
    BY <1>3, <1>10 DEF KeepByte
  <2>2. LineTo(m, n + 2) = Append(l, b)
    BY <1>3, <1>4, <2>1, LineMore, Zenon DEF n, l
  <2>3. done' = Commands(m)
    BY <1>3, <1>9, <2>1
  <2>4. QED
    BY <1>5, <1>6, <2>1, <2>2, <2>3 DEF ScannedAre
<1>11. CASE DropLine
  <2>1. b # "eol" /\ Len(l) >= LineMax - 1 /\ line' = <<>> /\ done' = done
    BY <1>3, <1>11 DEF DropLine
  <2>2. LineTo(m, n + 2) = <<>>
    BY <1>3, <1>4, <2>1, LineMore, Zenon DEF n, l
  <2>3. done' = Commands(m)
    BY <1>3, <1>9, <2>1
  <2>4. QED
    BY <1>5, <1>6, <2>1, <2>2, <2>3 DEF ScannedAre
<1>12. QED
  BY <1>8, <1>10, <1>11

(* Every step keeps some bytes scanned. *)
LEMMA ScannedStep ==
  ASSUME InputInv, \E s : ScannedAre(s), [CliNext]_rxVars
  PROVE  (\E s : ScannedAre(s))'
<1>1. PICK s : ScannedAre(s)
  OBVIOUS
<1>2. ASSUME UNCHANGED <<accepted, ring, buf, line, done>> PROVE ScannedAre(s)'
  BY <1>1, <1>2 DEF ScannedAre
<1>3. ASSUME NEW t \in Booter, Boot(t) PROVE ScannedAre(s)'
  BY <1>2, <1>3 DEF Boot, cliVars
<1>4. CASE ByteArrives
  BY <1>2, <1>4 DEF ByteArrives, cliVars
<1>5. CASE RxEventCallback
  BY <1>1, <1>5, ScannedPush
<1>6. CASE ErrorCallback
  BY <1>2, <1>6 DEF ErrorCallback, cliVars
<1>7. CASE cli_register_command \/ Wake \/ RecvEmpty \/ Recv \/ ReadDone \/ ScanDone
  BY <1>2, <1>7 DEF cli_register_command, Wake, RecvEmpty, Recv, ReadDone, ScanDone, receiveVars
<1>8. CASE ReadByte
  BY <1>1, <1>8, ScannedRead
<1>9. CASE EndLine \/ KeepByte \/ DropLine
  <2>1. PICK b : b = Head(buf)
    OBVIOUS
  <2>2. PICK m : m = Append(s, b)
    OBVIOUS
  <2>3. ScannedAre(m)'
    BY <1>1, <1>9, <2>1, <2>2, ScannedMore
  <2>4. QED
    BY <2>3
<1>10. CASE UNCHANGED rxVars
  BY <1>2, <1>10 DEF rxVars
<1>11. QED
  BY <1>3, <1>4, <1>5, <1>6, <1>7, <1>8, <1>9, <1>10, Zenon DEF CliNext, Step, Task

(***************************************************************************)
(* The commands the cli task runs, with their arguments, are those of the  *)
(* lines of the bytes it has scanned, in order; the bytes accepted and not *)
(* yet scanned are in its buffer and on the ring: for every stream, every  *)
(* way it is cut into chunks, reads and messages, and all sizes.           *)
(***************************************************************************)
THEOREM CommandsOfTheInput == CliSpec => []CommandsAreLines
<1>1. CliInit => InputInv /\ PortInv /\ \E s : ScannedAre(s)
  BY InputInit, PortInit, ScannedInit
<1>2. InputInv /\ PortInv /\ (\E s : ScannedAre(s)) /\ [CliNext]_rxVars
        => (InputInv /\ PortInv /\ \E s : ScannedAre(s))'
  <2> SUFFICES ASSUME InputInv, PortInv, \E s : ScannedAre(s), [CliNext]_rxVars
               PROVE  InputInv' /\ PortInv' /\ (\E s : ScannedAre(s))'
    OBVIOUS
  <2>1. InputInv' /\ PortInv'
    BY InputStep
  <2>2. (\E s : ScannedAre(s))'
    BY ScannedStep
  <2>3. QED
    BY <2>1, <2>2
<1>3. InputInv /\ (\E s : ScannedAre(s)) => CommandsAreLines
  BY ScannedIs
<1>4. QED
  BY <1>1, <1>2, <1>3, PTL DEF CliSpec
=============================================================================
