------------------------------- MODULE IrProofs -------------------------------
(***************************************************************************)
(* Theorems about the infrared path: about SlotQueue and IrRx, which       *)
(* extends it, for every Depth, Cap, QueueLen and every number of bursts   *)
(* and edges; then about IrTx and the codec, for every set of frames,      *)
(* every number of timer entries and every widths the receiver may see.    *)
(***************************************************************************)
EXTENDS IrRx, IrTx, SeqFacts

(* The next index is an index.                                               *)
LEMMA NextIndex ==
  ASSUME NEW i \in Index
  PROVE  /\ next_index(i) \in Index
         /\ next_index(i) = IF i = Depth - 1 THEN 0 ELSE i + 1
  BY DepthAssumption, Z3 DEF next_index, Index

-----------------------------------------------------------------------------

(* A push keeps the invariant.                                               *)
LEMMA PushStep == QueueInv /\ IsrPush => QueueInv'
<1> SUFFICES ASSUME QueueInv, IsrPush
             PROVE  QueueInv'
  OBVIOUS
<1> USE DepthAssumption, MaxBurstsAssumption
<1>t. /\ TypeOK /\ NoPhantomElement /\ ExactUntilRaced /\ OrderedUntilRaced
      /\ next_index(head) \in Index
      /\ next_index(head) = IF head = Depth - 1 THEN 0 ELSE head + 1
  BY NextIndex DEF QueueInv, TypeOK
<1>1. TypeOK'
  <2>1. Whole(released + 1) \in Element
    BY <1>t DEF TypeOK, IsrPush, Whole, Element
  <2>2. QED
    BY <1>t, <2>1 DEF TypeOK, IsrPush, is_full
<1>2. NoPhantomElement'
  BY <1>t DEF TypeOK, IsrPush, NoPhantomElement
<1>3. ExactUntilRaced'
  <2>1. ~ raced' => ~ raced /\ cpc # "store"
    BY DEF IsrPush
  <2>2. /\ count' = count + 1 /\ released' = released + 1 /\ popped' = popped
        /\ cpc' = cpc /\ out' = out
    BY DEF IsrPush
  <2>3. QED
    BY <1>t, <2>1, <2>2 DEF TypeOK, ExactUntilRaced
<1>4. OrderedUntilRaced'
  <2> SUFFICES ASSUME ~ raced'
               PROVE  Ordered'
    BY DEF OrderedUntilRaced
  <2>1. ~ raced /\ cpc # "store" /\ Ordered
    BY <1>t DEF IsrPush, OrderedUntilRaced, TypeOK
  <2>2. count = released - popped /\ count < Depth
    BY <1>t, <2>1 DEF ExactUntilRaced, IsrPush, is_full, TypeOK
  <2>3. /\ Taken' = Taken /\ Taken \in Nat
        /\ Held' = Held + 1 /\ Held \in 0 .. Depth - 1
    BY <1>t, <2>1, <2>2 DEF Taken, Held, IsrPush, TypeOK, Ordered
  <2>4. \A i \in 1 .. Depth + 1 : SlotAt(i)' = SlotAt(i)
    BY DEF SlotAt, IsrPush
  <2>5. head' = SlotAt(Held + 2)
    BY <1>t, <2>1, <2>3 DEF SlotAt, Ordered, IsrPush, TypeOK, Index
  <2>6. \A i \in 1 .. Held : SlotAt(i) # head /\ SlotAt(i) \in Index
    BY <1>t, <2>1, <2>3 DEF SlotAt, Ordered, TypeOK, Index
  <2>7. slot'[head] = Whole(Taken + (Held + 1))
    <3>1. released + 1 = Taken + (Held + 1)
      BY <1>t, <2>3 DEF Held, TypeOK
    <3>2. QED
      BY <1>t, <3>1 DEF IsrPush, TypeOK
  <2>8. \A i \in 1 .. Held + 1 : slot'[SlotAt(i)] = Whole(Taken + i)
    <3> TAKE i \in 1 .. Held + 1
    <3>1. CASE i = Held + 1
      BY <2>1, <2>7, <3>1 DEF Ordered
    <3>2. CASE i \in 1 .. Held
      BY <1>t, <2>1, <2>6, <3>2 DEF IsrPush, TypeOK, Ordered
    <3>3. QED
      BY <2>3, <3>1, <3>2
  <2>9. cpc' = "copy2" => out'.first = popped' + 1
    BY <2>1 DEF IsrPush, Ordered
  <2>10. QED
    BY <2>3, <2>4, <2>5, <2>8, <2>9 DEF Ordered
<1>5. QED
  BY <1>1, <1>2, <1>3, <1>4 DEF QueueInv

(* A pop keeps the invariant.                                                *)
LEMMA PopStep == QueueInv /\ (Pop \/ Reset) => QueueInv'
<1> SUFFICES ASSUME QueueInv, Pop \/ Reset
             PROVE  QueueInv'
  OBVIOUS
<1> USE DepthAssumption, MaxBurstsAssumption DEF QueueInv
<1>1. CASE PopEmpty
  BY <1>1 DEF PopEmpty, vars, TypeOK, NoPhantomElement, ExactUntilRaced,
     OrderedUntilRaced, Ordered, Held, Taken, SlotAt
<1>2. CASE PopSome
  BY <1>2 DEF PopSome, is_empty, TypeOK, NoPhantomElement, ExactUntilRaced,
     OrderedUntilRaced, Ordered, Held, Taken, SlotAt
<1>3. CASE PopCopyFirst
  <2>1. slot[tail] \in Element
    BY DEF TypeOK
  <2>2. ~ raced => slot[tail].first = popped + 1
    <3> SUFFICES ASSUME ~ raced PROVE slot[tail].first = popped + 1
      OBVIOUS
    <3>1. 1 \in 1 .. Held /\ SlotAt(1) = tail /\ Taken = popped
      BY <1>3 DEF TypeOK, PopCopyFirst, NoPhantomElement, ExactUntilRaced,
         OrderedUntilRaced, Ordered, Held, Taken, SlotAt, Index
    <3>2. slot[tail] = Whole(popped + 1)
      BY <3>1 DEF OrderedUntilRaced, Ordered
    <3>3. QED
      BY <3>2 DEF Whole
  <2>3. TypeOK' /\ out' \in Element /\ out'.first = slot[tail].first
    BY <1>3, <2>1 DEF TypeOK, PopCopyFirst, Element
  <2>4. NoPhantomElement' /\ ExactUntilRaced'
    BY <1>3 DEF PopCopyFirst, NoPhantomElement, ExactUntilRaced
  <2>5. OrderedUntilRaced'
    BY <1>3, <2>2, <2>3 DEF PopCopyFirst, OrderedUntilRaced, Ordered, Held,
       Taken, SlotAt
  <2>6. QED
    BY <2>3, <2>4, <2>5
<1>4. CASE PopCopySecond
  <2>1. slot[tail] \in Element
    BY DEF TypeOK
  <2>2. ~ raced => slot[tail].second = popped + 1 /\ out.first = popped + 1
    <3> SUFFICES ASSUME ~ raced
                 PROVE  slot[tail].second = popped + 1 /\ out.first = popped + 1
      OBVIOUS
    <3>1. /\ 1 \in 1 .. Held /\ SlotAt(1) = tail /\ Taken = popped
          /\ out.first = popped + 1
      BY <1>4 DEF TypeOK, PopCopySecond, NoPhantomElement, ExactUntilRaced,
         OrderedUntilRaced, Ordered, Held, Taken, SlotAt, Index
    <3>2. slot[tail] = Whole(popped + 1)
      BY <3>1 DEF OrderedUntilRaced, Ordered
    <3>3. QED
      BY <3>1, <3>2 DEF Whole
  <2>3. /\ TypeOK' /\ out' = [first |-> out.first, second |-> slot[tail].second]
    BY <1>4, <2>1 DEF TypeOK, PopCopySecond, Element
  <2>4. NoPhantomElement' /\ ExactUntilRaced'
    BY <1>4, <2>2, <2>3 DEF PopCopySecond, NoPhantomElement, ExactUntilRaced, Whole
  <2>5. OrderedUntilRaced'
    BY <1>4 DEF PopCopySecond, OrderedUntilRaced, Ordered, Held, Taken, SlotAt
  <2>6. QED
    BY <2>3, <2>4, <2>5
<1>5. CASE PopAdvance
  <2>1. /\ next_index(tail) \in Index
        /\ next_index(tail) = IF tail = Depth - 1 THEN 0 ELSE tail + 1
    BY NextIndex DEF TypeOK
  <2>2. TypeOK' /\ NoPhantomElement' /\ ExactUntilRaced'
    BY <1>5, <2>1 DEF PopAdvance, TypeOK, NoPhantomElement, ExactUntilRaced
  <2>3. ASSUME ~ raced PROVE Ordered'
    <3>1. Ordered /\ Taken = popped /\ Held >= 1 /\ count = released - popped
      BY <1>5, <2>3 DEF PopAdvance, TypeOK, NoPhantomElement, ExactUntilRaced,
         OrderedUntilRaced, Ordered, Held, Taken
    <3>2. Taken' = Taken + 1 /\ Held' = Held - 1 /\ Held \in 1 .. Depth
      BY <1>5, <3>1 DEF PopAdvance, TypeOK, Taken, Held, Ordered
    <3>3. \A i \in 1 .. Held : SlotAt(i)' = SlotAt(i + 1)
      BY <1>5, <2>1, <3>2 DEF PopAdvance, TypeOK, SlotAt, Index
    <3>4. \A i \in 1 .. Held - 1 : slot[SlotAt(i + 1)] = Whole(Taken + (i + 1))
      BY <3>1, <3>2 DEF Ordered
    <3>5. \A i \in 1 .. Held - 1 : Taken + (i + 1) = Taken + 1 + i
      BY <3>1, <3>2 DEF TypeOK
    <3>6. \A i \in 1 .. Held' : slot'[SlotAt(i)'] = Whole(Taken' + i)
      BY <1>5, <3>2, <3>3, <3>4, <3>5 DEF PopAdvance
    <3>7. \A i \in 1 .. Held : i = Held' + 1 => head' = SlotAt(i)'
      <4>1. head' = SlotAt(Held + 1)
        BY <1>5, <3>1 DEF PopAdvance, Ordered
      <4>2. \A i \in 1 .. Held : i = Held' + 1 => i = Held
        BY <3>2
      <4>3. QED
        BY <3>3, <4>1, <4>2
    <3>8. Held' + 1 \in 1 .. Held /\ Held' \in 0 .. Depth
      BY <3>2
    <3>9. head' = IF tail' + (Held' + 1) - 1 < Depth THEN tail' + (Held' + 1) - 1
                  ELSE tail' + (Held' + 1) - 1 - Depth
      BY <3>7, <3>8 DEF SlotAt
    <3>10. QED
      BY <1>5, <3>6, <3>8, <3>9 DEF Ordered, PopAdvance, SlotAt
  <2>4. QED
    BY <1>5, <2>2, <2>3 DEF OrderedUntilRaced, PopAdvance
<1>6. CASE PopLoadCount
  BY <1>6 DEF PopLoadCount, TypeOK, NoPhantomElement, ExactUntilRaced,
     OrderedUntilRaced, Ordered, Held, Taken, SlotAt
<1>7. CASE PopStoreCount
  <2>1. TypeOK' /\ NoPhantomElement' /\ ExactUntilRaced'
    BY <1>7 DEF PopStoreCount, TypeOK, NoPhantomElement, ExactUntilRaced
  <2>2. Taken' = Taken /\ Held' = Held /\ \A i \in 1 .. Depth + 1 : SlotAt(i)' = SlotAt(i)
    BY <1>7 DEF PopStoreCount, Taken, Held, SlotAt
  <2>3. OrderedUntilRaced'
    BY <1>7, <2>2 DEF PopStoreCount, OrderedUntilRaced, Ordered
  <2>4. QED
    BY <2>1, <2>3
<1>8. CASE Reset
  <2>1. TypeOK' /\ NoPhantomElement' /\ ExactUntilRaced'
    <3>0. raced' \in BOOLEAN
      BY <1>8, Zenon DEF Reset
    <3>1. 0 \in Index
      BY DEF Index
    <3>2. TypeOK'
      BY <1>8, <3>0, <3>1 DEF Reset, TypeOK
    <3>3. NoPhantomElement' /\ ExactUntilRaced'
      BY <1>8 DEF Reset, TypeOK, NoPhantomElement, ExactUntilRaced
    <3>4. QED
      BY <3>2, <3>3
  <2>2. Held' = 0 /\ head' = SlotAt(1)' /\ cpc' = "idle"
    BY <1>8 DEF Reset, TypeOK, Held, Taken, SlotAt
  <2>3. OrderedUntilRaced'
    BY <2>2 DEF OrderedUntilRaced, Ordered
  <2>4. QED
    BY <2>1, <2>3
<1>9. QED
  BY <1>1, <1>2, <1>3, <1>4, <1>5, <1>6, <1>7, <1>8 DEF Pop

(* A step that leaves the queue alone keeps it.                              *)
LEMMA QueueStutter == QueueInv /\ UNCHANGED vars => QueueInv'
  BY DEF vars, QueueInv, TypeOK, NoPhantomElement, ExactUntilRaced,
     OrderedUntilRaced, Ordered, Held, Taken, SlotAt

(* The empty queue satisfies the invariant.                                  *)
LEMMA QueueStart == Init => QueueInv
<1> SUFFICES ASSUME Init PROVE QueueInv
  OBVIOUS
<1> USE DepthAssumption, MaxBurstsAssumption
<1>1. Whole(0) \in Element
  BY DEF Whole, Element
<1>2. TypeOK
  <2>0. raced \in BOOLEAN
    BY Zenon DEF Init
  <2>1. 0 \in Index
    BY DEF Index
  <2>2. slot \in [Index -> Element] /\ out \in Element
    BY <1>1 DEF Init
  <2>3. QED
    BY <2>0, <2>1, <2>2 DEF Init, TypeOK
<1>3. NoPhantomElement /\ ExactUntilRaced
  BY DEF Init, NoPhantomElement, ExactUntilRaced
<1>4. OrderedUntilRaced
  <2>0. cpc = "idle" /\ popped = 0 /\ released = 0
    BY Zenon DEF Init
  <2>1. Taken = 0 /\ Held = 0
    <3>1. Taken = 0
      BY <2>0 DEF Taken
    <3>2. QED
      BY <2>0, <3>1 DEF Held
  <2>2. head = SlotAt(Held + 1)
    BY <2>1 DEF Init, SlotAt
  <2>3. QED
    BY <2>1, <2>2 DEF Init, OrderedUntilRaced, Ordered
<1>5. QED
  BY <1>2, <1>3, <1>4 DEF QueueInv

(* The queue keeps its invariant, for every depth.                           *)
THEOREM Invariance == Spec => []QueueInv
  BY QueueStart, QueueStutter, PushStep, PopStep, PTL DEF Spec, Next

(* Every reachable state is well typed; in particular 0 <= count <= depth.  *)
THEOREM TypeCorrect == Spec => []TypeOK
  BY Invariance, PTL DEF QueueInv

(* The count never wraps and never promises an element that is not there.   *)
THEOREM CountNeverOverstates == Spec => []NoPhantomElement
  BY Invariance, PTL DEF QueueInv

(* Only a release between the load and the store of q->count-- can make the *)
(* queue lose track: without one it is exact and elements come out whole.   *)
THEOREM ExactWithoutRaces == Spec => []ExactUntilRaced
  BY Invariance, PTL DEF QueueInv

-----------------------------------------------------------------------------
(***************************************************************************)
(* The receiver.  A task that is not in a pop left none open, one that     *)
(* sleeps unnotified has an empty inbox, and a burst that lies in the      *)
(* queue while the task is not draining it has a message behind it.        *)
(***************************************************************************)
WakeInv ==
  /\ at # "pop" => cpc = "idle"
  /\ at \in {"init", "wait"} /\ ~ notified => inbox = 0
  /\ ~ raced /\ at # "pop" /\ popped # released => inbox > 0

(***************************************************************************)
(* What the buffer holds in a frame whose predecessor was ended by its     *)
(* timer: every pulse so far, perhaps with a false one in front, or, after *)
(* an overflow, a tail of them.                                            *)
(***************************************************************************)
From(k) == [i \in 1 .. edges - k |-> i + k - 1]
False == IF before = "lone" THEN 1 ELSE 0

WholeSoFar == ~ is_new_frame /\ pulses = From(1)
FalseFirst == ~ is_new_frame /\ before = "lone" /\ pulses = <<0>> \o From(1)
TailSoFar ==
  /\ edges - 1 + False > Cap
  /\ is_new_frame => pulses = <<>>
  /\ \E k \in 1 .. edges : pulses = From(k)

FrameInv ==
  /\ before # "open" => edges >= 1
  /\ ended # "open" => quiet /\ ~ armed /\ pulses = <<>>
  /\ ended = "burst" => is_new_frame
  /\ ended # "open" \/ before # "open" => listening
  /\ ended = "open" /\ before # "open" => WholeSoFar \/ FalseFirst \/ TailSoFar

IrInv == IrTypeOK /\ QueueInv /\ WakeInv /\ FrameInv

-----------------------------------------------------------------------------

(* The steps on the queue are pushes, steps of a pop, or none.               *)
LEMMA QueueSteps == QueueInv /\ [IrNext]_irVars => QueueInv'
<1> SUFFICES ASSUME QueueInv, [IrNext]_irVars PROVE QueueInv'
  OBVIOUS
<1>1. CASE UNCHANGED irVars
  BY <1>1, QueueStutter DEF irVars, queueVars
<1>2. CASE IrNext
  <2>1. IsrPush \/ Pop \/ UNCHANGED vars
    BY <1>2 DEF IrNext, FirstEdge, NextEdge, LineGoesQuiet, idle_timer_fired, FireLone, FireQueued,
       FireFull, FireUnheard, Task, ir_rx_drv_set_event_fn, Wake, RecvEmpty, Recv, ir_handle_rx,
       ir_rx_try_read_nec, queueVars
  <2>2. QED
    BY <2>1, PushStep, PopStep, QueueStutter
<1>3. QED
  BY <1>1, <1>2

(* An edge leaves everything but the buffer, the timer and the line alone.   *)
LEMMA EdgeStep ==
  ASSUME FirstEdge \/ NextEdge
  PROVE  /\ UNCHANGED <<listening, queueVars, postVars, at>>
         /\ armed' \in BOOLEAN
         /\ edges' \in {1, edges + 1}
  BY DEF FirstEdge, NextEdge, idle_timer_arm

(* An edge stores at most one pulse, and only where there is room.           *)
LEMMA EdgeTypes == IrTypeOK /\ (FirstEdge \/ NextEdge) => IrTypeOK'
<1> SUFFICES ASSUME IrTypeOK, FirstEdge \/ NextEdge PROVE IrTypeOK'
  OBVIOUS
<1> USE CapAssumption, MaxEdgesAssumption DEF IrTypeOK
<1>1. ASSUME NEW p \in 0 .. MaxEdges, on_gpio_edge(p)
      PROVE  /\ pulses' \in Seq(0 .. MaxEdges) /\ Len(pulses') <= Cap
             /\ is_new_frame' \in BOOLEAN
  <2>1. CASE is_new_frame
    BY <1>1, <2>1 DEF on_gpio_edge
  <2>2. CASE ~ is_new_frame /\ Len(pulses) >= Cap
    <3>1. \/ pulses' = <<>> /\ is_new_frame' = TRUE
          \/ UNCHANGED <<pulses, is_new_frame>>
      BY <1>1, <2>2 DEF on_gpio_edge, push_pulse_width
    <3>2. <<>> \in Seq(0 .. MaxEdges) /\ Len(<<>>) = 0
      OBVIOUS
    <3>3. CASE pulses' = <<>> /\ is_new_frame' = TRUE
      BY <3>2, <3>3
    <3>4. CASE UNCHANGED <<pulses, is_new_frame>>
      BY <3>4
    <3>5. QED
      BY <3>1, <3>3, <3>4
  <2>3. CASE ~ is_new_frame /\ ~ Len(pulses) >= Cap
    <3>1. pulses' = Append(pulses, p) /\ UNCHANGED is_new_frame
      BY <1>1, <2>3 DEF on_gpio_edge, push_pulse_width
    <3>2. QED
      BY <3>1, <2>3
  <2>4. QED
    BY <2>1, <2>2, <2>3
<1>2. /\ pulses' \in Seq(0 .. MaxEdges) /\ Len(pulses') <= Cap
      /\ is_new_frame' \in BOOLEAN
  <2>1. CASE FirstEdge
    BY <1>1, <2>1 DEF FirstEdge
  <2>2. CASE NextEdge
    BY <1>1, <2>2 DEF NextEdge
  <2>3. QED
    BY <2>1, <2>2
<1>3. edges' \in 0 .. MaxEdges
  BY DEF FirstEdge, NextEdge
<1>4. /\ quiet' \in BOOLEAN
      /\ ended' \in {"open", "lone", "burst"} /\ before' \in {"open", "lone", "burst"}
  BY DEF FirstEdge, NextEdge
<1>5. /\ listening' \in BOOLEAN /\ inbox' \in 0 .. QueueLen /\ notified' \in BOOLEAN
      /\ at' \in {"init", "wait", "recv", "pop"} /\ armed' \in BOOLEAN
  BY EdgeStep DEF postVars
<1>6. QED
  BY <1>2, <1>3, <1>4, <1>5

(* A sequence with an element appended, as a function.                       *)
LEMMA Appended ==
  ASSUME NEW S, NEW s \in Seq(S), NEW e \in S
  PROVE  Append(s, e) = [i \in 1 .. Len(s) + 1 |-> IF i = Len(s) + 1 THEN e ELSE s[i]]
<1> DEFINE f == [i \in 1 .. Len(s) + 1 |-> IF i = Len(s) + 1 THEN e ELSE s[i]]
<1>1. Append(s, e) \in Seq(S) /\ Len(Append(s, e)) = Len(s) + 1
  OBVIOUS
<1>2. f \in Seq(S) /\ Len(f) = Len(s) + 1
  OBVIOUS
<1>3. \A i \in 1 .. Len(s) + 1 : Append(s, e)[i] = f[i]
  OBVIOUS
<1>4. QED
  BY <1>1, <1>2, <1>3, SeqEqual

(* The buffer after an edge of a frame.                                      *)
LEMMA EdgeFrame == IrTypeOK /\ FrameInv /\ NextEdge => FrameInv'
<1> SUFFICES ASSUME IrTypeOK, FrameInv, NextEdge PROVE FrameInv'
  OBVIOUS
<1> USE CapAssumption, MaxEdgesAssumption
<1>1. /\ ended = "open" /\ ended' = "open" /\ before' = before /\ listening' = listening
      /\ edges' = edges + 1 /\ edges \in Nat
  BY DEF NextEdge, FrameInv, IrTypeOK
<1> SUFFICES ASSUME before # "open"
             PROVE  (WholeSoFar \/ FalseFirst \/ TailSoFar)'
  BY <1>1 DEF FrameInv
<1>2. edges >= 1 /\ listening /\ on_gpio_edge(edges) /\ False' = False /\ False \in {0, 1}
  BY <1>1 DEF FrameInv, NextEdge, False
<1>3. pulses \in Seq(0 .. MaxEdges) /\ Len(pulses) \in Nat
  BY DEF IrTypeOK
<1>4. ASSUME NEW k \in 1 .. edges, pulses = From(k), ~ is_new_frame, Len(pulses) < Cap
      PROVE  pulses' = From(k)' /\ ~ is_new_frame'
  <2>1. pulses' = Append(pulses, edges) /\ is_new_frame' = is_new_frame
    BY <1>2, <1>3, <1>4 DEF on_gpio_edge, push_pulse_width
  <2>2. Len(pulses) = edges - k
    BY <1>1, <1>3, <1>4 DEF From
  <2>3. pulses' = [i \in 1 .. edges - k + 1 |-> IF i = edges - k + 1 THEN edges ELSE pulses[i]]
    <3>1. edges \in 0 .. MaxEdges
      BY DEF IrTypeOK
    <3>2. pulses' = [i \in 1 .. Len(pulses) + 1 |->
                       IF i = Len(pulses) + 1 THEN edges ELSE pulses[i]]
      BY <1>3, <2>1, <3>1, Appended
    <3>3. QED
      BY <2>2, <3>2
  <2>4. \A i \in 1 .. edges - k : pulses[i] = i + k - 1
    BY <1>4 DEF From
  <2>5. From(k)' = [i \in 1 .. edges + 1 - k |-> i + k - 1]
    BY <1>1 DEF From
  <2>6. QED
    BY <1>1, <2>1, <2>3, <2>4, <2>5, <1>4
<1>5. ASSUME Len(pulses) >= Cap, ~ is_new_frame
      PROVE  is_new_frame' /\ pulses' = <<>>
  BY <1>2, <1>5 DEF on_gpio_edge, push_pulse_width
<1>6. pulses' = <<>> => \E k \in 1 .. edges' : pulses' = From(k)'
  <2>1. From(edges)' = <<>> /\ edges' \in 1 .. edges'
    BY <1>1, <1>2 DEF From
  <2>2. QED
    BY <2>1
<1>7. CASE WholeSoFar
  <2>1. CASE Len(pulses) < Cap
    BY <1>4, <1>2, <1>7, <2>1 DEF WholeSoFar
  <2>2. CASE Len(pulses) >= Cap
    <3>1. Len(pulses) = edges - 1
      BY <1>1, <1>2, <1>3, <1>7 DEF WholeSoFar, From
    <3>2. edges' - 1 + False' > Cap
      BY <1>1, <1>2, <2>2, <3>1
    <3>3. QED
      BY <1>5, <1>6, <1>7, <2>2, <3>2 DEF WholeSoFar, TailSoFar
  <2>3. QED
    BY <1>3, <2>1, <2>2
<1>8. CASE FalseFirst
  <2>1. From(1) \in Seq(Nat) /\ Len(From(1)) = edges - 1 /\ Len(pulses) = edges
    BY <1>1, <1>2, <1>3, <1>8 DEF FalseFirst, From
  <2>2. CASE Len(pulses) < Cap
    <3>1. pulses' = Append(pulses, edges) /\ ~ is_new_frame'
      BY <1>2, <1>3, <1>8, <2>2 DEF on_gpio_edge, push_pulse_width, FalseFirst
    <3>2. From(1)' = [i \in 1 .. edges |-> i]
      BY <1>1 DEF From
    <3>3. pulses = [i \in 1 .. edges |-> i - 1]
      BY <1>1, <1>2, <1>8 DEF FalseFirst, From
    <3>4. pulses' = [i \in 1 .. edges + 1 |-> i - 1]
      BY <1>1, <3>1, <3>3
    <3>5. <<0>> \o From(1)' = [i \in 1 .. edges + 1 |-> i - 1]
      BY <1>1, <3>2
    <3>6. QED
      BY <1>1, <1>8, <3>1, <3>4, <3>5 DEF FalseFirst
  <2>3. CASE Len(pulses) >= Cap
    <3>1. False = 1
      BY <1>8 DEF FalseFirst, False
    <3>2. edges' - 1 + False' > Cap
      BY <1>1, <1>2, <2>1, <2>3, <3>1
    <3>3. QED
      BY <1>5, <1>6, <1>8, <2>3, <3>2 DEF FalseFirst, TailSoFar
  <2>4. QED
    BY <1>3, <2>2, <2>3
<1>9. CASE TailSoFar
  <2>1. edges' - 1 + False' > Cap
    BY <1>1, <1>2, <1>9 DEF TailSoFar
  <2>2. CASE is_new_frame
    <3>1. pulses' = <<>>
      BY <1>2, <1>9, <2>2 DEF TailSoFar, on_gpio_edge
    <3>2. QED
      BY <1>6, <2>1, <3>1 DEF TailSoFar
  <2>3. CASE ~ is_new_frame /\ Len(pulses) < Cap
    <3>1. PICK k \in 1 .. edges : pulses = From(k)
      BY <1>9 DEF TailSoFar
    <3>2. pulses' = From(k)' /\ ~ is_new_frame' /\ k \in 1 .. edges'
      BY <1>1, <1>4, <2>3, <3>1
    <3>3. QED
      BY <2>1, <3>2 DEF TailSoFar
  <2>4. CASE ~ is_new_frame /\ Len(pulses) >= Cap
    BY <1>5, <1>6, <2>1, <2>4 DEF TailSoFar
  <2>5. QED
    BY <1>3, <2>2, <2>3, <2>4
<1>10. QED
  BY <1>1, <1>7, <1>8, <1>9 DEF FrameInv

(* The first edge finds the buffer as the timer of the frame before left it. *)
LEMMA FirstEdgeFrame == IrTypeOK /\ FrameInv /\ FirstEdge => FrameInv'
<1> SUFFICES ASSUME IrTypeOK, FrameInv, FirstEdge PROVE FrameInv'
  OBVIOUS
<1> USE CapAssumption, MaxEdgesAssumption
<1>1. /\ ended' = "open" /\ before' = ended /\ listening' = listening /\ edges' = 1
  BY DEF FirstEdge
<1> SUFFICES ASSUME ended # "open"
             PROVE  (WholeSoFar \/ FalseFirst \/ TailSoFar)'
  BY <1>1 DEF FrameInv
<1>2. /\ pulses = <<>> /\ listening /\ Len(pulses) = 0
      /\ ended = "burst" => is_new_frame
      /\ ended \in {"lone", "burst"}
  BY DEF FrameInv, IrTypeOK
<1>3. From(1)' = <<>>
  BY <1>1 DEF From
<1>4. CASE pulses' = <<>> /\ ~ is_new_frame'
  BY <1>3, <1>4 DEF WholeSoFar
<1>5. CASE pulses' = <<0>> /\ ~ is_new_frame' /\ ended = "lone"
  BY <1>1, <1>3, <1>5 DEF FalseFirst
<1>6. QED
  BY <1>2, <1>4, <1>5 DEF FirstEdge, on_gpio_edge, push_pulse_width

(* An edge, too, keeps the task's affairs as they are.                       *)
LEMMA EdgeWake == WakeInv /\ (FirstEdge \/ NextEdge) => WakeInv'
  BY EdgeStep DEF WakeInv, queueVars, vars, postVars

(* The quiet line.                                                           *)
LEMMA QuietStep == IrTypeOK /\ WakeInv /\ FrameInv /\ LineGoesQuiet => (IrTypeOK /\ WakeInv /\ FrameInv)'
<1> SUFFICES ASSUME IrTypeOK, WakeInv, FrameInv, LineGoesQuiet
             PROVE  (IrTypeOK /\ WakeInv /\ FrameInv)'
  OBVIOUS
<1>1. /\ UNCHANGED <<pulses, is_new_frame, armed, listening, inbox, notified, at, edges, ended, before>>
      /\ UNCHANGED <<cpc, raced, popped, released>>
      /\ quiet' = TRUE
  BY DEF LineGoesQuiet, drvVars, queueVars, vars, postVars
<1>2. IrTypeOK' /\ WakeInv'
  BY <1>1 DEF IrTypeOK, WakeInv
<1>3. FrameInv'
  BY <1>1 DEF FrameInv, WholeSoFar, FalseFirst, TailSoFar, From, False
<1>4. QED
  BY <1>2, <1>3

(* The timer ends a frame at most once and leaves the buffer empty.          *)
LEMMA FireStep ==
  IrTypeOK /\ QueueInv /\ WakeInv /\ FrameInv /\ idle_timer_fired
    => (IrTypeOK /\ WakeInv /\ FrameInv)'
<1> SUFFICES ASSUME IrTypeOK, QueueInv, WakeInv, FrameInv, idle_timer_fired
             PROVE  (IrTypeOK /\ WakeInv /\ FrameInv)'
  OBVIOUS
<1> USE QueueAssumption
<1>1. /\ UNCHANGED <<listening, at, edges, quiet, before>>
      /\ armed' = FALSE /\ armed /\ quiet
      /\ ended' = IF ~ listening THEN "open" ELSE IF pulses = <<>> THEN "lone" ELSE "burst"
      /\ ended = "open"
  BY DEF idle_timer_fired, FrameInv
<1>2. /\ pulses' \in {pulses, <<>>} /\ is_new_frame' \in {is_new_frame, TRUE}
      /\ listening => pulses' = <<>>
      /\ listening /\ pulses # <<>> => is_new_frame' = TRUE
  BY DEF idle_timer_fired, FireLone, FireQueued, FireFull, FireUnheard, TakePulses
<1>3. IrTypeOK'
  <2>1. inbox' \in 0 .. QueueLen /\ notified' \in BOOLEAN
    <3>1. Post \/ UNCHANGED postVars
      BY DEF idle_timer_fired, FireLone, FireQueued, FireFull, FireUnheard
    <3>2. inbox' = inbox \/ (inbox < QueueLen /\ inbox' = inbox + 1)
      BY <3>1 DEF Post, postVars
    <3>3. notified' = TRUE \/ notified' = notified
      BY <3>1 DEF Post, postVars
    <3>4. inbox \in 0 .. QueueLen /\ notified \in BOOLEAN
      BY DEF IrTypeOK
    <3>5. inbox' \in 0 .. QueueLen
      BY <3>2, <3>4
    <3>6. notified' \in BOOLEAN
      BY <3>3, <3>4, Zenon
    <3>7. QED
      BY <3>5, <3>6
  <2>2. pulses' \in Seq(0 .. MaxEdges) /\ Len(pulses') <= Cap
    <3>1. <<>> \in Seq(0 .. MaxEdges) /\ Len(<<>>) <= Cap
      BY CapAssumption
    <3>2. pulses' = pulses \/ pulses' = <<>>
      BY <1>2
    <3>3. QED
      BY <3>1, <3>2 DEF IrTypeOK
  <2>3. ended' \in {"open", "lone", "burst"} /\ is_new_frame' \in BOOLEAN
    BY <1>1, <1>2 DEF IrTypeOK
  <2>4. QED
    BY <1>1, <2>1, <2>2, <2>3 DEF IrTypeOK
<1>4. WakeInv'
  <2>1. CASE UNCHANGED <<queueVars, postVars>>
    BY <1>1, <2>1 DEF WakeInv, queueVars, vars, postVars
  <2>2. CASE IsrPush /\ Post
    <3>1. UNCHANGED <<cpc, popped>> /\ (~ raced' => ~ raced)
      BY <2>2 DEF IsrPush
    <3>2. inbox' > 0 /\ (~ notified' => ~ notified /\ inbox' = inbox)
      BY <2>2 DEF Post, postVars, IrTypeOK
    <3>3. notified' \/ at \notin {"init", "wait"}
      BY <3>2 DEF WakeInv
    <3>4. QED
      BY <1>1, <3>1, <3>2, <3>3 DEF WakeInv
  <2>3. QED
    BY <2>1, <2>2 DEF idle_timer_fired, FireLone, FireQueued, FireFull, FireUnheard
<1>5. FrameInv'
  BY <1>1, <1>2 DEF FrameInv, IrTypeOK, WholeSoFar, FalseFirst, TailSoFar, From, False
<1>6. QED
  BY <1>3, <1>4, <1>5

(* The task sleeps only after it has found its inbox empty, and leaves the   *)
(* queue only after it has found that empty.                                 *)
LEMMA TaskStep ==
  IrTypeOK /\ QueueInv /\ WakeInv /\ FrameInv /\ Task
    => (IrTypeOK /\ WakeInv /\ FrameInv)'
<1> SUFFICES ASSUME IrTypeOK, QueueInv, WakeInv, FrameInv, Task
             PROVE  (IrTypeOK /\ WakeInv /\ FrameInv)'
  OBVIOUS
<1>1. /\ UNCHANGED <<pulses, is_new_frame, armed, edges, quiet, ended, before>>
      /\ listening' \in {listening, TRUE}
  BY DEF Task, ir_rx_drv_set_event_fn, Wake, RecvEmpty, Recv, ir_handle_rx, drvVars, lineVars
<1>2. IrTypeOK'
  <2>1. inbox' \in 0 .. QueueLen /\ notified' \in BOOLEAN /\ at' \in {"init", "wait", "recv", "pop"}
    <3>1. inbox \in 0 .. QueueLen /\ notified \in BOOLEAN /\ at \in {"init", "wait", "recv", "pop"}
      BY DEF IrTypeOK
    <3>2. inbox' = inbox \/ (inbox > 0 /\ inbox' = inbox - 1)
      BY DEF Task, ir_rx_drv_set_event_fn, Wake, RecvEmpty, Recv, ir_handle_rx, postVars
    <3>3. notified' = notified \/ notified' = FALSE
      BY DEF Task, ir_rx_drv_set_event_fn, Wake, RecvEmpty, Recv, ir_handle_rx, postVars
    <3>4. at' \in {"init", "wait", "recv", "pop"}
      BY DEF Task, ir_rx_drv_set_event_fn, Wake, RecvEmpty, Recv, ir_handle_rx
    <3>5. inbox' \in 0 .. QueueLen
      BY <3>1, <3>2, QueueAssumption
    <3>6. notified' \in BOOLEAN
      BY <3>1, <3>3, Zenon
    <3>7. QED
      BY <3>4, <3>5, <3>6
  <2>2. QED
    BY <1>1, <2>1 DEF IrTypeOK
<1>3. FrameInv'
  BY <1>1 DEF FrameInv, IrTypeOK, WholeSoFar, FalseFirst, TailSoFar, From, False
<1>4. WakeInv'
  <2>1. CASE ir_rx_drv_set_event_fn
    BY <2>1 DEF ir_rx_drv_set_event_fn, WakeInv, queueVars, vars, postVars
  <2>2. CASE Wake
    BY <2>2 DEF Wake, WakeInv, queueVars, vars
  <2>3. CASE RecvEmpty
    BY <2>3 DEF RecvEmpty, WakeInv, queueVars, vars, postVars
  <2>4. CASE Recv
    BY <2>4 DEF Recv, WakeInv, queueVars, vars
  <2>5. CASE ir_handle_rx /\ ~ (cpc = "idle" /\ is_empty)
    BY <2>5 DEF ir_handle_rx, WakeInv, postVars
  <2>6. CASE ir_handle_rx /\ cpc = "idle" /\ is_empty
    <3>1. UNCHANGED vars /\ at' = "recv"
      BY <2>6 DEF ir_handle_rx, ir_rx_try_read_nec, Pop, PopEmpty, PopSome, PopCopyFirst,
         PopCopySecond, PopAdvance, PopLoadCount, PopStoreCount
    <3>2. ~ raced => popped = released
      BY <2>6 DEF QueueInv, ExactUntilRaced, is_empty, TypeOK
    <3>3. QED
      BY <2>6, <3>1, <3>2 DEF WakeInv, vars
  <2>7. QED
    BY <2>1, <2>2, <2>3, <2>4, <2>5, <2>6 DEF Task
<1>5. QED
  BY <1>2, <1>3, <1>4

(* The whole invariant, for every size of queue, buffer and inbox.           *)
THEOREM ReceiverInvariance == IrSpec => []IrInv
<1>1. IrInit => IrInv
  <2> SUFFICES ASSUME IrInit PROVE IrInv
    OBVIOUS
  <2>1. QueueInv
    BY QueueStart DEF IrInit
  <2>2. IrTypeOK /\ FrameInv
    <3>1. <<>> \in Seq(0 .. MaxEdges) /\ Len(<<>>) <= Cap
      BY CapAssumption
    <3>2. /\ is_new_frame \in BOOLEAN /\ armed \in BOOLEAN /\ listening \in BOOLEAN
          /\ notified \in BOOLEAN /\ quiet \in BOOLEAN
      BY Zenon DEF IrInit
    <3>3. IrTypeOK
      BY <3>1, <3>2, QueueAssumption, MaxEdgesAssumption DEF IrInit, IrTypeOK
    <3>4. FrameInv
      BY DEF IrInit, FrameInv
    <3>5. QED
      BY <3>3, <3>4
  <2>3. WakeInv
    BY DEF IrInit, Init, WakeInv
  <2>4. QED
    BY <2>1, <2>2, <2>3 DEF IrInv
<1>2. IrInv /\ [IrNext]_irVars => IrInv'
  <2> SUFFICES ASSUME IrInv, [IrNext]_irVars PROVE IrInv'
    OBVIOUS
  <2> USE DEF IrInv
  <2>1. QueueInv'
    BY QueueSteps
  <2>2. CASE UNCHANGED irVars
    <3>1. UNCHANGED <<pulses, is_new_frame, armed, listening, inbox, notified, at, edges, quiet,
                      ended, before, cpc, raced, popped, released>>
      BY <2>2 DEF irVars, drvVars, queueVars, vars, postVars, lineVars
    <3>2. IrTypeOK' /\ WakeInv'
      BY <3>1 DEF IrTypeOK, WakeInv
    <3>3. FrameInv'
      BY <3>1 DEF FrameInv, WholeSoFar, FalseFirst, TailSoFar, From, False
    <3>4. QED
      BY <2>1, <3>2, <3>3
  <2>3. CASE FirstEdge
    BY <2>1, <2>3, EdgeTypes, EdgeWake, FirstEdgeFrame
  <2>4. CASE NextEdge
    BY <2>1, <2>4, EdgeTypes, EdgeWake, EdgeFrame
  <2>5. CASE LineGoesQuiet
    BY <2>1, <2>5, QuietStep
  <2>6. CASE idle_timer_fired
    BY <2>1, <2>6, FireStep
  <2>7. CASE Task
    BY <2>1, <2>7, TaskStep
  <2>8. QED
    BY <2>2, <2>3, <2>4, <2>5, <2>6, <2>7 DEF IrNext
<1>3. QED
  BY <1>1, <1>2, PTL DEF IrSpec

(* The ir task never sleeps on a burst that nobody will wake it for, unless  *)
(* one was queued inside its q->count--: NoStrandedBurst, in IrRxInv.        *)
THEOREM NothingStranded == IrSpec => []IrRxInv
<1>1. IrInv => IrRxInv
  BY DEF IrInv, IrRxInv, WakeInv, NoStrandedBurst
<1>2. QED
  BY <1>1, ReceiverInvariance, PTL

(* The queue under the receiver keeps the invariant it has by itself.        *)
THEOREM ReceiverQueue == IrSpec => []QueueInv
  BY ReceiverInvariance, PTL DEF IrInv

(* A queued burst is one whole frame, has one false pulse in front, or is a  *)
(* tail of a frame that overflowed the buffer, if the timer of the frame     *)
(* before it came in time.                                                   *)
THEOREM WholeFrames == IrSpec => BurstIsFrame
<1> DEFINE Queued ==
      released' # released /\ before # "open" =>
        \/ pulses = Frame
        \/ before = "lone" /\ pulses = <<0>> \o Frame
        \/ /\ Len(Frame) + (IF before = "lone" THEN 1 ELSE 0) > Cap
           /\ \E k \in DOMAIN Frame : pulses = SubSeq(Frame, k, Len(Frame))
<1>1. IrInv /\ [IrNext]_irVars => [Queued]_irVars
  <2> SUFFICES ASSUME IrInv, [IrNext]_irVars, released' # released, before # "open"
               PROVE  Queued
    OBVIOUS
  <2>1. idle_timer_fired /\ FireQueued
    BY DEF IrNext, irVars, queueVars, vars, FirstEdge, NextEdge, LineGoesQuiet, idle_timer_fired,
       FireLone, FireFull, FireUnheard, Task, ir_rx_drv_set_event_fn, Wake, RecvEmpty, Recv,
       ir_handle_rx, ir_rx_try_read_nec, Pop, PopEmpty, PopSome, PopCopyFirst, PopCopySecond,
       PopAdvance, PopLoadCount, PopStoreCount
  <2>2. edges \in Nat /\ edges >= 1 /\ pulses # <<>> /\ (WholeSoFar \/ FalseFirst \/ TailSoFar)
    BY <2>1 DEF idle_timer_fired, FireQueued, IrInv, FrameInv, IrTypeOK
  <2>3. Frame = From(1) /\ Frame \in Seq(Nat) /\ Len(Frame) = edges - 1
    BY <2>2 DEF Frame, From
  <2>4. CASE TailSoFar
    <3>1. PICK k \in 1 .. edges : pulses = From(k)
      BY <2>4 DEF TailSoFar
    <3>2. k # edges
      BY <2>2, <3>1 DEF From
    <3>3. k \in DOMAIN Frame
      BY <2>2, <2>3, <3>2
    <3>4. SubSeq(Frame, k, Len(Frame)) = From(k)
      BY <2>2, <2>3, <3>3 DEF Frame, From
    <3>5. QED
      BY <2>3, <2>4, <3>1, <3>3, <3>4 DEF TailSoFar, False
  <2>5. QED
    BY <2>2, <2>3, <2>4 DEF WholeSoFar, FalseFirst
<1>2. QED
  BY <1>1, ReceiverInvariance, PTL DEF IrSpec, BurstIsFrame

-----------------------------------------------------------------------------
(* The transmitter: what it plays and whose timers it touches. *)

Segments == [duration_us : NecWidths, carrier_on : BOOLEAN]

Space(f, i) == IF DataBit(f, i) = 1 THEN ONE_SPACE ELSE ZERO_SPACE

(* The two segments of the first 33 waves of a data frame. *)
Halves(f) ==
  [k \in 1 .. 33 |->
     IF k = 1 THEN <<Mark(LEADER_MARK), Gap(LEADER_SPACE)>>
     ELSE <<Mark(BIT_MARK), Gap(Space(f, k - 2))>>]

(* Every width of a frame is a width. *)
LEMMA WidthsFit ==
  /\ LEADER_MARK \in NecWidths /\ LEADER_SPACE \in NecWidths /\ BIT_MARK \in NecWidths
  /\ REPEAT_SPACE \in NecWidths
  /\ \A f, i : Space(f, i) \in NecWidths
  /\ \A w \in NecWidths : w \in Nat /\ w # 0
  BY DEF NecWidths, LEADER_MARK, LEADER_SPACE, BIT_MARK, ZERO_SPACE, ONE_SPACE, REPEAT_SPACE, Space

(* A mark is a segment. *)
LEMMA MarkType == ASSUME NEW m \in NecWidths PROVE Mark(m) \in Segments
  BY DEF Mark, Segments

(* So is a gap. *)
LEMMA GapType == ASSUME NEW m \in NecWidths PROVE Gap(m) \in Segments
  BY DEF Gap, Segments

(* A mark and a space give a segment each, a mark alone gives one. *)
LEMMA OfWave ==
  ASSUME NEW m \in NecWidths, NEW s \in NecWidths
  PROVE  WaveSegments(Wave(m, s)) = <<Mark(m), Gap(s)>>
<1>1. Mark(m) \in Segments /\ Gap(s) \in Segments
  BY MarkType, GapType
<1>2. WaveSegments(Wave(m, s)) = <<Mark(m)>> \o <<Gap(s)>>
  BY WidthsFit DEF WaveSegments, Wave
<1>3. QED
  BY <1>1, <1>2, TwoElements, Zenon

(* A mark alone gives one segment. *)
LEMMA OfMark ==
  ASSUME NEW m \in NecWidths
  PROVE  WaveSegments(Wave(m, 0)) = <<Mark(m)>>
<1>1. Mark(m) \in Segments
  BY MarkType
<1>2. WaveSegments(Wave(m, 0)) = <<Mark(m)>> \o <<>>
  BY WidthsFit DEF WaveSegments, Wave
<1> DEFINE x == <<Mark(m)>>
<1>3. x \in Seq(Segments)
  BY <1>1
<1> HIDE DEF x
<1>4. x \o <<>> = x
  BY <1>3
<1>5. QED
  BY <1>2, <1>4 DEF x

(* The 34 waves of a data frame. *)
LEMMA DataWaves ==
  ASSUME NEW f, f # Repeat
  PROVE  /\ DOMAIN encode(f) = 1 .. 34
         /\ encode(f)[1] = Wave(LEADER_MARK, LEADER_SPACE)
         /\ \A k \in 2 .. 33 : encode(f)[k] = Wave(BIT_MARK, Space(f, k - 2))
         /\ encode(f)[34] = Wave(BIT_MARK, 0)
<1> DEFINE b == [n \in 1 .. 32 |-> Wave(BIT_MARK, IF DataBit(f, n - 1) = 1 THEN ONE_SPACE ELSE ZERO_SPACE)]
           W == {Wave(BIT_MARK, ONE_SPACE), Wave(BIT_MARK, ZERO_SPACE), Wave(BIT_MARK, 0), Wave(LEADER_MARK, LEADER_SPACE)}
           l == Wave(LEADER_MARK, LEADER_SPACE)
           z == Wave(BIT_MARK, 0)
<1>1. encode(f) = <<l>> \o b \o <<z>>
  BY DEF encode
<1>2. b \in Seq(W) /\ Len(b) = 32 /\ l \in W /\ z \in W
  <2>1. \A n \in 1 .. 32 : b[n] \in W
    OBVIOUS
  <2>2. QED
    BY <2>1
<1>3. \A n \in 1 .. 32 : b[n] = Wave(BIT_MARK, Space(f, n - 1))
  BY DEF Space
<1> HIDE DEF b, W, l, z
<1> DEFINE a == <<l>> \o b
<1> HIDE DEF a
<1>4. a \in Seq(W) /\ Len(a) = Len(b) + 1
  BY <1>2, ConsType, Zenon DEF a
<1>5. a[1] = l /\ \A k \in 1 .. Len(b) : a[k + 1] = b[k]
  <2>1. Begins(a, l, b)
    BY <1>2, ConsElements, Zenon DEF a
  <2>2. QED
    BY <2>1, Zenon DEF Begins
<1>6. Len(a) = 33 /\ \A k \in 2 .. 33 : a[k] = b[k - 1]
  <2>1. ASSUME NEW k \in 2 .. 33 PROVE a[k] = b[k - 1]
    <3>1. k - 1 \in 1 .. Len(b) /\ (k - 1) + 1 = k
      BY <1>2
    <3>2. a[(k - 1) + 1] = b[k - 1]
      BY <1>5, <3>1, Zenon
    <3>3. QED
      BY <3>1, <3>2, Zenon
  <2>2. QED
    BY <1>2, <1>4, <2>1
<1> DEFINE c == a \o <<z>>
<1>7. c \in Seq(W) /\ Ends(c, a, z)
  BY <1>2, <1>4, LastElement, Zenon
<1> HIDE DEF c
<1>8. Len(c) = 34 /\ c[34] = z /\ \A k \in 1 .. 33 : c[k] = a[k]
  <2>1. Len(a) = 33 /\ 33 + 1 = 34
    BY <1>6
  <2>2. QED
    BY <1>7, <2>1, Zenon DEF Ends
<1>9. encode(f) = c
  BY <1>1 DEF a, c
<1>10. ASSUME NEW k \in 2 .. 33
       PROVE  encode(f)[k] = Wave(BIT_MARK, Space(f, k - 2))
  <2>1. k - 1 \in 1 .. 32 /\ (k - 1) - 1 = k - 2 /\ k \in 1 .. 33
    OBVIOUS
  <2>2. encode(f)[k] = b[k - 1]
    BY <1>6, <1>8, <1>9, <2>1
  <2>3. QED
    BY <1>3, <2>1, <2>2
<1>11. DOMAIN encode(f) = 1 .. 34
  <2>1. DOMAIN c = 1 .. Len(c)
    BY <1>7
  <2>2. QED
    BY <1>8, <1>9, <2>1, Zenon
<1>12. encode(f)[1] = l /\ encode(f)[34] = z
  <2>1. 1 \in 1 .. 33
    OBVIOUS
  <2>2. QED
    BY <1>5, <1>8, <1>9, <2>1
<1>13. QED
  BY <1>10, <1>11, <1>12 DEF l, z

(* The segments of a data frame. *)
LEMMA DataFrameSegments ==
  ASSUME NEW f, f # Repeat
  PROVE  /\ flatten_waves(encode(f)) \in Seq(Segments)
         /\ Len(flatten_waves(encode(f))) = 67
         /\ flatten_waves(encode(f))[1] = Mark(LEADER_MARK)
         /\ flatten_waves(encode(f))[2] = Gap(LEADER_SPACE)
         /\ flatten_waves(encode(f))[67] = Mark(BIT_MARK)
         /\ \A i \in 0 .. 31 :
              /\ flatten_waves(encode(f))[3 + 2 * i] = Mark(BIT_MARK)
              /\ flatten_waves(encode(f))[4 + 2 * i] = Gap(Space(f, i))
<1> DEFINE H == Halves(f)
           z == <<Mark(BIT_MARK)>>
           e == encode(f)
           all == [n \in DOMAIN e |-> WaveSegments(e[n])]
<1>0. /\ LEADER_MARK \in NecWidths /\ LEADER_SPACE \in NecWidths /\ BIT_MARK \in NecWidths
      /\ \A i : Space(f, i) \in NecWidths
  BY WidthsFit
<1>1. /\ H \in Seq(Seq(Segments)) /\ Len(H) = 33 /\ \A k \in 1 .. 33 : Len(H[k]) = 2
      /\ z \in Seq(Segments) /\ Len(z) = 1 /\ z[1] = Mark(BIT_MARK)
  <2>1. /\ Mark(LEADER_MARK) \in Segments /\ Gap(LEADER_SPACE) \in Segments
        /\ Mark(BIT_MARK) \in Segments /\ \A i : Gap(Space(f, i)) \in Segments
    BY <1>0, MarkType, GapType, Zenon
  <2>2. \A k \in 1 .. 33 : H[k] \in Seq(Segments) /\ Len(H[k]) = 2
    BY <2>1 DEF Halves
  <2>3. H \in Seq(Seq(Segments)) /\ Len(H) = 33
    BY <2>2 DEF Halves
  <2>4. z \in Seq(Segments) /\ Len(z) = 1 /\ z[1] = Mark(BIT_MARK)
    BY <2>1
  <2>5. QED
    BY <2>2, <2>3, <2>4
<1>2. all = Append(H, z)
  <2>1. DOMAIN e = 1 .. 34
    BY DataWaves
  <2>2. \A k \in 1 .. 33 : all[k] = H[k]
    <3> SUFFICES ASSUME NEW k \in 1 .. 33
                 PROVE  all[k] = H[k]
      OBVIOUS
    <3>1. all[k] = WaveSegments(e[k])
      BY <2>1
    <3>2. CASE k = 1
      <4>1. e[k] = Wave(LEADER_MARK, LEADER_SPACE)
        BY <3>2, DataWaves
      <4>2. WaveSegments(e[k]) = <<Mark(LEADER_MARK), Gap(LEADER_SPACE)>>
        BY <1>0, <4>1, OfWave, Zenon
      <4>3. H[k] = <<Mark(LEADER_MARK), Gap(LEADER_SPACE)>>
        BY <3>2 DEF Halves
      <4>4. QED
        BY <3>1, <4>2, <4>3, Zenon
    <3>3. CASE k # 1
      <4>1. e[k] = Wave(BIT_MARK, Space(f, k - 2))
        <5>1. k \in 2 .. 33
          BY <3>3
        <5>2. QED
          BY <5>1, DataWaves, Zenon
      <4>2. WaveSegments(e[k]) = <<Mark(BIT_MARK), Gap(Space(f, k - 2))>>
        BY <1>0, <4>1, OfWave, Zenon
      <4>3. H[k] = <<Mark(BIT_MARK), Gap(Space(f, k - 2))>>
        BY <3>3 DEF Halves
      <4>4. QED
        BY <3>1, <4>2, <4>3, Zenon
    <3>4. QED
      BY <3>2, <3>3
  <2>3. all[34] = z
    <3>1. all[34] = WaveSegments(e[34])
      BY <2>1
    <3>2. e[34] = Wave(BIT_MARK, 0)
      BY DataWaves, Zenon
    <3>3. QED
      BY <1>0, <3>1, <3>2, OfMark, Zenon
  <2>4. DOMAIN all = 1 .. 34 /\ all = [n \in 1 .. 34 |-> all[n]]
    BY <2>1
  <2> DEFINE w == Append(H, z)
  <2> HIDE DEF H, z, e, all
  <2>5. w \in Seq(Seq(Segments)) /\ Ends(w, H, z)
    BY <1>1, AppendElement, Zenon
  <2> HIDE DEF w
  <2>6. Len(w) = 34 /\ w[34] = z /\ \A i \in 1 .. 33 : w[i] = H[i]
    <3>1. 33 + 1 = 34
      OBVIOUS
    <3>2. QED
      BY <1>1, <2>5, <3>1, Zenon DEF Ends
  <2>7. w = [n \in 1 .. 34 |-> w[n]]
    BY <2>5, <2>6
  <2>8. \A n \in 1 .. 34 : w[n] = all[n]
    <3> SUFFICES ASSUME NEW n \in 1 .. 34
                 PROVE  w[n] = all[n]
      OBVIOUS
    <3>1. CASE n = 34
      BY <2>3, <2>6, <3>1, Zenon
    <3>2. CASE n # 34
      <4>1. n \in 1 .. 33
        BY <3>2
      <4>2. QED
        BY <2>2, <2>6, <4>1, Zenon
    <3>3. QED
      BY <3>1, <3>2
  <2>9. w = all
    BY <2>4, <2>7, <2>8
  <2>10. QED
    BY <2>9 DEF w
<1>3. FlattenSeq(all) = FlattenSeq(H) \o z
  BY <1>1, <1>2, FlattenAppend
<1> DEFINE g == FlattenSeq(H)
<1> HIDE DEF H, z, e, all, g
<1>4. g \in Seq(Segments) /\ Pairs(g, H, 33)
  <2>1. g \in Seq(Segments)
    BY <1>1, FlattenType DEF g
  <2>2. \A i \in 1 .. Len(H) : Len(H[i]) = 2
    BY <1>1
  <2>3. Pairs(g, H, Len(H))
    BY <1>1, <2>2, FlattenPairs, Zenon DEF g
  <2>4. QED
    BY <1>1, <2>1, <2>3
<1>5. Len(g) = 66 /\ \A i \in 1 .. 33 : g[2 * i - 1] = H[i][1] /\ g[2 * i] = H[i][2]
  BY <1>4 DEF Pairs
<1>6. /\ g \o z \in Seq(Segments) /\ Len(g \o z) = 67
      /\ (g \o z)[67] = Mark(BIT_MARK) /\ \A n \in 1 .. 66 : (g \o z)[n] = g[n]
  <2>1. Mark(BIT_MARK) \in Segments
    BY <1>0, MarkType, Zenon
  <2>2. g \o z \in Seq(Segments) /\ Ends(g \o z, g, Mark(BIT_MARK))
    BY <1>4, <2>1, LastElement, Zenon DEF z
  <2>3. Len(g) = 66 /\ 66 + 1 = 67
    BY <1>5
  <2> DEFINE u == g \o z
  <2> HIDE DEF u
  <2>4. u \in Seq(Segments) /\ Ends(u, g, Mark(BIT_MARK))
    BY <2>2 DEF u
  <2>5. /\ u \in Seq(Segments) /\ Len(u) = 67
        /\ u[67] = Mark(BIT_MARK) /\ \A n \in 1 .. 66 : u[n] = g[n]
    <3>1. /\ Len(u) = Len(g) + 1 /\ u[Len(g) + 1] = Mark(BIT_MARK)
          /\ \A n \in 1 .. Len(g) : u[n] = g[n]
      BY <2>4, Zenon DEF Ends
    <3>2. Len(g) + 1 = 67
      BY <2>3
    <3>3. QED
      BY <2>3, <2>4, <3>1, <3>2, Zenon
  <2>6. QED
    BY <2>5 DEF u
<1>7. flatten_waves(e) = g \o z
  <2>1. FlattenSeq(all) = g \o z
    BY <1>3 DEF g
  <2>2. Len(FlattenSeq(all)) <= MAX_SEGMENTS
    BY <1>6, <2>1, SegmentsAssumption
  <2>3. QED
    BY <2>1, <2>2, Zenon DEF flatten_waves, all
<1>8. g[1] = Mark(LEADER_MARK) /\ g[2] = Gap(LEADER_SPACE)
  <2>1. H[1] = <<Mark(LEADER_MARK), Gap(LEADER_SPACE)>>
    BY DEF H, Halves
  <2>2. 1 \in 1 .. 33 /\ 2 * 1 - 1 = 1 /\ 2 * 1 = 2
    OBVIOUS
  <2>3. g[1] = H[1][1] /\ g[2] = H[1][2]
    BY <1>5, <2>2
  <2>4. QED
    BY <2>1, <2>3
<1>9. ASSUME NEW i \in 0 .. 31
      PROVE  g[3 + 2 * i] = Mark(BIT_MARK) /\ g[4 + 2 * i] = Gap(Space(f, i))
  <2>1. i + 2 \in 1 .. 33 /\ i + 2 # 1 /\ 2 * (i + 2) - 1 = 3 + 2 * i /\ 2 * (i + 2) = 4 + 2 * i /\ (i + 2) - 2 = i
    OBVIOUS
  <2>2. H[i + 2] = <<Mark(BIT_MARK), Gap(Space(f, (i + 2) - 2))>>
    BY <2>1 DEF H, Halves
  <2>3. H[i + 2][1] = Mark(BIT_MARK) /\ H[i + 2][2] = Gap(Space(f, (i + 2) - 2))
    BY <2>2
  <2>4. g[2 * (i + 2) - 1] = H[i + 2][1] /\ g[2 * (i + 2)] = H[i + 2][2]
    BY <1>5, <2>1
  <2>5. QED
    BY <2>1, <2>3, <2>4
<1>10. ASSUME NEW i \in 0 .. 31
       PROVE  (g \o z)[3 + 2 * i] = g[3 + 2 * i] /\ (g \o z)[4 + 2 * i] = g[4 + 2 * i]
  <2>1. 3 + 2 * i \in 1 .. 66 /\ 4 + 2 * i \in 1 .. 66
    OBVIOUS
  <2>2. QED
    BY <1>6, <2>1
<1>11. (g \o z)[1] = g[1] /\ (g \o z)[2] = g[2]
  <2>1. 1 \in 1 .. 66 /\ 2 \in 1 .. 66
    OBVIOUS
  <2>2. QED
    BY <1>6, <2>1, Zenon
<1>12. QED
  BY <1>1, <1>6, <1>7, <1>8, <1>9, <1>10, <1>11 DEF e
(* The segments of a repeat frame. *)
LEMMA RepeatSegments ==
  flatten_waves(encode(Repeat)) = <<Mark(LEADER_MARK), Gap(REPEAT_SPACE), Mark(BIT_MARK)>>
<1> DEFINE e == encode(Repeat)
           all == [n \in DOMAIN e |-> WaveSegments(e[n])]
           p == <<Mark(LEADER_MARK), Gap(REPEAT_SPACE)>>
           z == <<Mark(BIT_MARK)>>
           r == <<Mark(LEADER_MARK), Gap(REPEAT_SPACE), Mark(BIT_MARK)>>
<1>1. e = <<Wave(LEADER_MARK, REPEAT_SPACE), Wave(BIT_MARK, 0)>>
  BY DEF encode
<1>2. Mark(LEADER_MARK) \in Segments /\ Gap(REPEAT_SPACE) \in Segments /\ Mark(BIT_MARK) \in Segments
  BY WidthsFit, MarkType, GapType, Zenon
<1>3. p \in Seq(Segments) /\ Len(p) = 2 /\ z \in Seq(Segments) /\ r \in Seq(Segments) /\ Len(r) = 3
  BY <1>2
<1>4. WaveSegments(Wave(LEADER_MARK, REPEAT_SPACE)) = p /\ WaveSegments(Wave(BIT_MARK, 0)) = z
  BY WidthsFit, OfWave, OfMark, Zenon
<1>5. all = <<p, z>>
  <2>1. DOMAIN e = 1 .. 2
    BY <1>1
  <2>2. all[1] = WaveSegments(e[1]) /\ all[2] = WaveSegments(e[2])
    BY <2>1
  <2>3. e[1] = Wave(LEADER_MARK, REPEAT_SPACE) /\ e[2] = Wave(BIT_MARK, 0)
    BY <1>1
  <2>4. all[1] = p /\ all[2] = z
    BY <1>4, <2>2, <2>3, Zenon
  <2>5. all = [n \in 1 .. 2 |-> all[n]]
    BY <2>1
  <2> HIDE DEF all, p, z
  <2>6. <<p, z>> = [n \in 1 .. 2 |-> <<p, z>>[n]] /\ <<p, z>>[1] = p /\ <<p, z>>[2] = z
    OBVIOUS
  <2>7. \A n \in 1 .. 2 : all[n] = <<p, z>>[n]
    BY <2>4, <2>6
  <2>8. QED
    BY <2>5, <2>6, <2>7
<1>6. Append(<<p>>, z) = <<p, z>>
  <2> HIDE DEF p, z
  <2>1. p \in Seq(Segments) /\ z \in Seq(Segments)
    BY <1>3
  <2>2. <<p>> \o <<z>> = <<p, z>>
    BY <2>1, TwoElements, Zenon
  <2>3. <<p>> \in Seq(Seq(Segments))
    BY <2>1
  <2>4. Append(<<p>>, z) = <<p>> \o <<z>>
    BY <2>1, <2>3, AppendIsConcat
  <2>5. QED
    BY <2>2, <2>4, Zenon
<1>7. FlattenSeq(<<p>>) = p
  <2> HIDE DEF p
  <2>1. <<p>> \in Seq(Seq(Segments)) /\ Len(<<p>>) = 1 /\ <<p>>[1] = p
    BY <1>3
  <2>2. PICK f : Flattening(f, <<p>>) /\ FlattenSeq(<<p>>) = f[Len(<<p>>)]
    <3>1. Len(<<p>>) > 0
      BY <2>1
    <3>2. QED
      BY <2>1, <3>1, FlattenRec, Zenon
  <2>3. f[1] = <<p>>[1]
    BY <2>1, <2>2 DEF Flattening
  <2>4. QED
    BY <2>1, <2>2, <2>3, Zenon
<1>8. FlattenSeq(all) = p \o z
  <2> HIDE DEF p, z, all
  <2>1. <<p>> \in Seq(Seq(Segments)) /\ z \in Seq(Segments)
    BY <1>3
  <2>2. FlattenSeq(Append(<<p>>, z)) = FlattenSeq(<<p>>) \o z
    BY <2>1, FlattenAppend
  <2>3. QED
    BY <1>5, <1>6, <1>7, <2>2, Zenon
<1>9. p \o z = r
  <2>1. p \o z \in Seq(Segments) /\ Ends(p \o z, p, Mark(BIT_MARK))
    BY <1>2, <1>3, LastElement, Zenon
  <2>2. p[1] = Mark(LEADER_MARK) /\ p[2] = Gap(REPEAT_SPACE)
    OBVIOUS
  <2>3. r[1] = Mark(LEADER_MARK) /\ r[2] = Gap(REPEAT_SPACE) /\ r[3] = Mark(BIT_MARK)
    OBVIOUS
  <2> DEFINE u == p \o z
  <2> HIDE DEF p, z, r, u
  <2>4. Len(u) = 3 /\ u[3] = Mark(BIT_MARK) /\ u[1] = p[1] /\ u[2] = p[2]
    BY <1>3, <2>1 DEF Ends, u
  <2>5. \A i \in 1 .. 3 : u[i] = r[i]
    BY <2>2, <2>3, <2>4
  <2>6. u \in Seq(Segments)
    BY <2>1 DEF u
  <2>7. u = r
    BY <1>3, <2>4, <2>5, <2>6, SeqEqual
  <2>8. QED
    BY <2>7 DEF u
<1>10. Len(FlattenSeq(all)) <= MAX_SEGMENTS
  <2>1. FlattenSeq(all) = r
    BY <1>8, <1>9, Zenon
  <2>2. Len(FlattenSeq(all)) = 3
    BY <1>3, <2>1, Zenon
  <2>3. 3 <= MAX_SEGMENTS
    BY SegmentsAssumption
  <2>4. QED
    BY <2>2, <2>3, Zenon
<1>11. QED
  BY <1>8, <1>9, <1>10, Zenon DEF flatten_waves

(* A frame has at least three segments, and they fit. *)
LEMMA FrameSegments ==
  ASSUME NEW f
  PROVE  /\ flatten_waves(encode(f)) \in Seq(Segments)
         /\ Len(flatten_waves(encode(f))) \in 3 .. MAX_SEGMENTS
<1> DEFINE s == flatten_waves(encode(f))
<1> HIDE DEF s
<1>1. CASE f = Repeat
  <2>1. s = <<Mark(LEADER_MARK), Gap(REPEAT_SPACE), Mark(BIT_MARK)>>
    BY <1>1, RepeatSegments, Zenon DEF s
  <2>2. Mark(LEADER_MARK) \in Segments /\ Gap(REPEAT_SPACE) \in Segments /\ Mark(BIT_MARK) \in Segments
    BY WidthsFit, MarkType, GapType, Zenon
  <2>3. s \in Seq(Segments) /\ Len(s) = 3
    BY <2>1, <2>2
  <2>4. QED
    BY <2>3, SegmentsAssumption DEF s
<1>2. CASE f # Repeat
  <2>1. s \in Seq(Segments) /\ Len(s) = 67
    BY <1>2, DataFrameSegments, Zenon DEF s
  <2>2. QED
    BY <2>1, SegmentsAssumption DEF s
<1>3. QED
  BY <1>1, <1>2
(***************************************************************************)
(* Where task and transmission are: which segment is being played and who  *)
(* arms the next timer; what the stored id stands for as long as no timer  *)
(* ran out too early; and what is being played.                            *)
(***************************************************************************)
Playing ==
  /\ pc \in {"play", "register"} => is_transmitting /\ timer = NoSlot
  /\ is_transmitting =>
       /\ pc = "play" => segment_index = 0 /\ played = <<>>
       /\ pc # "play" => segment_index = Len(played) + 1

Stored ==
  ~ overtaken =>
    /\ pc = "store" => is_transmitting /\ tid = timer /\ timer # NoSlot
    /\ segment_timer_id = IF pc = "store" THEN NoSlot ELSE timer

Loaded == is_transmitting \/ sent # Nothing => segment_buf = flatten_waves(encode(sent))

Transmitter == IrTxInv /\ Playing /\ Stored /\ Loaded

(* The first free entry is a free entry. *)
LEMMA FirstFreeEntry ==
  ASSUME NEW held, Free(held) # {}
  PROVE  FirstFree(held) \in Slot \ held
<1>1. Free(held) \in SUBSET Nat
  BY SlotsAssumption DEF Free, Slot
<1>2. \E i \in Free(held) : \A j \in Free(held) : i <= j
  BY <1>1, Least
<1>3. FirstFree(held) \in Free(held)
  BY <1>2 DEF FirstFree
<1>4. QED
  BY <1>3 DEF Free

(* No timer entry is the entry of nobody. *)
LEMMA NoSlotApart == NoSlot \notin Slot
  BY SlotsAssumption DEF NoSlot, Slot

(* What has been played grows by the segment being played. *)
LEMMA PlayedMore ==
  ASSUME NEW S, NEW s \in Seq(S), NEW n \in Nat, n < Len(s)
  PROVE  /\ Append(SubSeq(s, 1, n), s[n + 1]) = SubSeq(s, 1, n + 1)
         /\ Len(SubSeq(s, 1, n)) = n
<1>1. Len(SubSeq(s, 1, n)) = n /\ SubSeq(s, 1, n) \in Seq(S) /\ s[n + 1] \in S
  OBVIOUS
<1>2. SubSeq(s, 1, n + 1) \in Seq(S) /\ Len(SubSeq(s, 1, n + 1)) = n + 1
  OBVIOUS
<1> DEFINE a == SubSeq(s, 1, n)
           b == SubSeq(s, 1, n + 1)
<1>3. \A i \in 1 .. n : a[i] = b[i]
  OBVIOUS
<1>4. b[n + 1] = s[n + 1]
  OBVIOUS
<1> HIDE DEF a, b
<1>5. Append(a, s[n + 1]) \in Seq(S) /\ Ends(Append(a, s[n + 1]), a, s[n + 1])
  BY <1>1, AppendElement, Zenon DEF a
<1> DEFINE c == Append(a, s[n + 1])
<1> HIDE DEF c
<1>6. c \in Seq(S) /\ Len(c) = n + 1 /\ c[n + 1] = s[n + 1] /\ \A i \in 1 .. n : c[i] = a[i]
  <2>1. Len(a) = n
    BY <1>1 DEF a
  <2>2. c \in Seq(S) /\ Len(c) = Len(a) + 1 /\ c[Len(a) + 1] = s[n + 1] /\ \A i \in 1 .. Len(a) : c[i] = a[i]
    BY <1>5, Zenon DEF Ends, c
  <2>3. QED
    BY <2>1, <2>2, Zenon
<1>7. \A i \in 1 .. n + 1 : c[i] = b[i]
  BY <1>3, <1>4, <1>6
<1>8. c = b
  BY <1>2, <1>6, <1>7, SeqEqual DEF b
<1>9. QED
  BY <1>1, <1>8 DEF a, b, c
-----------------------------------------------------------------------------
(* What a state of the transmitter says, taken apart.                       *)
LEMMA Facts ==
  ASSUME Transmitter
  PROVE  /\ segment_buf \in Seq(Segments) /\ Len(segment_buf) <= MAX_SEGMENTS
         /\ segment_index \in 0 .. Len(segment_buf)
         /\ is_transmitting \in BOOLEAN /\ carrier \in BOOLEAN
         /\ Len(played) <= Len(segment_buf)
         /\ played = SubSeq(segment_buf, 1, Len(played)) /\ Len(played) \in Nat
         /\ others \subseteq Slot /\ timer \notin others
         /\ is_transmitting => Len(segment_buf) >= 3
<1>1. /\ segment_buf \in Seq(Segments) /\ Len(segment_buf) <= MAX_SEGMENTS
      /\ segment_index \in 0 .. Len(segment_buf)
      /\ is_transmitting \in BOOLEAN /\ carrier \in BOOLEAN
      /\ Len(played) <= Len(segment_buf)
      /\ others \subseteq Slot /\ timer \notin others
  BY DEF Transmitter, IrTxInv, TxTypeOK, Segments
<1>2. played = SubSeq(segment_buf, 1, Len(played))
  BY DEF Transmitter, IrTxInv, PlayedInOrder
<1>3. Len(played) \in Nat
  BY DEF Transmitter, IrTxInv, TxTypeOK
<1>4. is_transmitting => Len(segment_buf) >= 3
  <2> SUFFICES ASSUME is_transmitting
               PROVE  Len(segment_buf) >= 3
    OBVIOUS
  <2>1. segment_buf = flatten_waves(encode(sent))
    BY DEF Transmitter, Loaded
  <2>2. Len(segment_buf) \in 3 .. MAX_SEGMENTS
    BY <2>1, FrameSegments, Zenon
  <2>3. QED
    BY <2>2, SegmentsAssumption
<1>5. QED
  BY <1>1, <1>2, <1>3, <1>4

(* At the start nothing is sent. *)
LEMMA TransmitterStart == TxInit => Transmitter
<1> SUFFICES ASSUME TxInit
             PROVE  Transmitter
  OBVIOUS
<1>1. TxTypeOK
  <2>1. Len(<<>>) <= MAX_SEGMENTS /\ 0 \in 0 .. Len(<<>>) /\ Len(<<>>) <= Len(<<>>)
    BY SegmentsAssumption
  <2>2. \A S : <<>> \in Seq(S)
    OBVIOUS
  <2>3. QED
    BY <2>1, <2>2, Zenon DEF TxInit, TxTypeOK
<1>2. PlayedInOrder /\ CarrierFollows /\ ForeignTimersKept
  <2>1. <<>> = SubSeq(<<>>, 1, Len(<<>>))
    OBVIOUS
  <2>2. QED
    BY <2>1 DEF TxInit, PlayedInOrder, CarrierFollows, ForeignTimersKept
<1>3. Playing /\ Stored /\ Loaded
  BY DEF TxInit, Playing, Stored, Loaded
<1>4. QED
  BY <1>1, <1>2, <1>3 DEF Transmitter, IrTxInv

(* A send loads the segments and leaves everything else where it was.       *)
LEMMA SendKeeps ==
  ASSUME Transmitter, NEW f \in Frames, Send(f)
  PROVE  Transmitter'
<1> USE DEF Send, timerVars
<1>1. carrier = FALSE /\ timer = NoSlot
  BY Facts DEF Transmitter, IrTxInv, CarrierFollows, PlayedInOrder
<1>2. /\ segment_buf' \in Seq(Segments) /\ Len(segment_buf') <= MAX_SEGMENTS
      /\ 0 \in 0 .. Len(segment_buf')
  BY FrameSegments, SegmentsAssumption
<1>3. TxTypeOK'
  <2>1. played' = <<>> /\ Len(played') <= Len(segment_buf') /\ played' \in Seq(Segments)
    BY <1>2
  <2>2. QED
    BY <1>2, <2>1 DEF Transmitter, IrTxInv, TxTypeOK, Segments
<1>4. CarrierFollows'
  <2>1. ~ (segment_index' > 0)
    OBVIOUS
  <2>2. QED
    BY <1>1, <2>1, Zenon DEF CarrierFollows
<1>5. PlayedInOrder'
  <2>1. played' = SubSeq(segment_buf', 1, Len(played'))
    BY <1>2
  <2>2. QED
    BY <1>1, <2>1 DEF PlayedInOrder
<1>6. ForeignTimersKept' /\ Stored'
  BY <1>1 DEF Transmitter, IrTxInv, ForeignTimersKept, Stored
<1>7. Playing' /\ Loaded'
  BY <1>1 DEF Playing, Loaded
<1>8. QED
  BY <1>3, <1>4, <1>5, <1>6, <1>7 DEF Transmitter, IrTxInv

(* The first segment starts when its carrier is switched.                   *)
LEMMA PlayFirstKeeps ==
  ASSUME Transmitter, PlayFirst
  PROVE  Transmitter'
<1> USE DEF PlayFirst, SwitchCarrier, timerVars, airVars
<1>1. is_transmitting /\ timer = NoSlot /\ segment_index = 0 /\ played = <<>>
  BY DEF Transmitter, Playing
<1>2. /\ segment_buf[1] \in Segments /\ segment_index' = 1 /\ carrier' = segment_buf[1].carrier_on
      /\ 1 \in 0 .. Len(segment_buf)
  BY <1>1, Facts
<1>3. TxTypeOK'
  BY <1>2 DEF Transmitter, IrTxInv, TxTypeOK, Segments
<1>4. CarrierFollows'
  <2>1. carrier' \in BOOLEAN
    BY <1>3 DEF TxTypeOK
  <2>2. QED
    BY <1>1, <1>2, <2>1 DEF CarrierFollows
<1>5. PlayedInOrder'
  BY <1>1 DEF Transmitter, IrTxInv, PlayedInOrder
<1>6. ForeignTimersKept' /\ Stored' /\ Loaded'
  BY DEF Transmitter, IrTxInv, ForeignTimersKept, Stored, Loaded
<1>7. Playing'
  BY <1>1, <1>2 DEF Transmitter, Playing
<1>8. QED
  BY <1>3, <1>4, <1>5, <1>6, <1>7 DEF Transmitter, IrTxInv

(* The first timer is armed. *)
LEMMA RegisterFirstKeeps ==
  ASSUME Transmitter, RegisterFirst
  PROVE  Transmitter'
<1> USE DEF RegisterFirst, Register, playVars, airVars
<1>1. is_transmitting /\ timer = NoSlot /\ pc = "register"
  BY DEF Transmitter, Playing
<1>2. timer' \in Slot \ others /\ timer' # NoSlot
  BY FirstFreeEntry, NoSlotApart
<1>3. TxTypeOK'
  BY <1>2 DEF Transmitter, IrTxInv, TxTypeOK
<1>4. CarrierFollows'
  BY DEF Transmitter, IrTxInv, CarrierFollows
<1>5. PlayedInOrder'
  BY <1>1, <1>2 DEF Transmitter, IrTxInv, PlayedInOrder
<1>6. ForeignTimersKept' /\ Loaded'
  BY DEF Transmitter, IrTxInv, ForeignTimersKept, Loaded
<1>7. Stored'
  BY <1>1, <1>2 DEF Transmitter, Stored
<1>8. Playing'
  BY <1>1, <1>2 DEF Transmitter, Playing
<1>9. QED
  BY <1>3, <1>4, <1>5, <1>6, <1>7, <1>8 DEF Transmitter, IrTxInv

(* Without a timer the transmission ends, and no foreign timer with it.     *)
LEMMA RegisterFailsKeeps ==
  ASSUME Transmitter, RegisterFirstFails
  PROVE  Transmitter'
<1> USE DEF RegisterFirstFails, finish, airVars
<1>1. is_transmitting /\ timer = NoSlot /\ pc = "register"
  BY DEF Transmitter, Playing
<1>2. timer' = NoSlot
  OBVIOUS
<1>3. others' \subseteq others /\ NoSlot \notin others
  BY Facts, NoSlotApart
<1>4. TxTypeOK'
  BY <1>2, <1>3, Facts DEF Transmitter, IrTxInv, TxTypeOK
<1>5. CarrierFollows' /\ Loaded'
  BY DEF Transmitter, CarrierFollows, Loaded
<1>6. PlayedInOrder'
  BY <1>1, <1>2 DEF Transmitter, IrTxInv, PlayedInOrder
<1>7. Stored' /\ Playing'
  BY <1>2 DEF Stored, Playing
<1>8. ForeignTimersKept'
  BY <1>1, <1>3 DEF Transmitter, IrTxInv, ForeignTimersKept, Stored
<1>9. QED
  BY <1>4, <1>5, <1>6, <1>7, <1>8 DEF Transmitter, IrTxInv

(* The id is stored, in time or too late. *)
LEMMA StoreFirstKeeps ==
  ASSUME Transmitter, StoreFirst
  PROVE  Transmitter'
<1> USE DEF StoreFirst, playVars, airVars
<1>1. TxTypeOK'
  BY DEF Transmitter, IrTxInv, TxTypeOK
<1>2. CarrierFollows' /\ Loaded' /\ ForeignTimersKept'
  BY DEF Transmitter, IrTxInv, CarrierFollows, Loaded, ForeignTimersKept
<1>3. PlayedInOrder'
  BY DEF Transmitter, IrTxInv, PlayedInOrder
<1>4. Stored'
  BY DEF Transmitter, Stored
<1>5. Playing'
  BY DEF Transmitter, Playing
<1>6. QED
  BY <1>1, <1>2, <1>3, <1>4, <1>5 DEF Transmitter, IrTxInv

(* A segment that is over is the next of those played. *)
LEMMA OneMorePlayed ==
  ASSUME Transmitter, SegmentOver
  PROVE  /\ is_transmitting /\ timer # NoSlot /\ pc \notin {"play", "register"}
         /\ segment_index = Len(played) + 1
         /\ played' = SubSeq(segment_buf, 1, segment_index) /\ Len(played') = segment_index
<1>1. is_transmitting /\ timer # NoSlot
  BY DEF SegmentOver
<1>2. pc \notin {"play", "register"} /\ segment_index = Len(played) + 1
  BY <1>1 DEF Transmitter, Playing
<1>3. /\ segment_buf \in Seq(Segments) /\ Len(played) \in Nat /\ Len(played) < Len(segment_buf)
      /\ played = SubSeq(segment_buf, 1, Len(played))
  BY <1>2, Facts
<1>4. played' = Append(played, segment_buf[Len(played) + 1])
  BY <1>2 DEF SegmentOver
<1>5. Append(SubSeq(segment_buf, 1, Len(played)), segment_buf[Len(played) + 1]) = SubSeq(segment_buf, 1, Len(played) + 1)
  BY <1>3, PlayedMore
<1>6. played' = SubSeq(segment_buf, 1, segment_index)
  BY <1>2, <1>3, <1>4, <1>5, Zenon
<1>7. Len(SubSeq(segment_buf, 1, segment_index)) = segment_index
  BY <1>2, <1>3
<1>8. QED
  BY <1>1, <1>2, <1>6, <1>7, Zenon

(* The next segment starts, with a timer of its own. *)
LEMMA PlayNextKeeps ==
  ASSUME Transmitter, PlayNext
  PROVE  Transmitter'
<1> USE DEF PlayNext, SwitchCarrier, Register, airVars
<1>1. /\ is_transmitting /\ timer # NoSlot /\ pc \notin {"play", "register"}
      /\ played' = SubSeq(segment_buf, 1, segment_index) /\ Len(played') = segment_index
  BY OneMorePlayed
<1>2. timer' \in Slot \ others /\ timer' # NoSlot
  <2>1. Register(others)
    BY DEF PlayNext
  <2>2. Free(others) # {} /\ timer' = FirstFree(others)
    BY <2>1 DEF Register
  <2>3. FirstFree(others) \in Slot \ others
    BY <2>2, FirstFreeEntry
  <2>4. timer' \in Slot \ others
    BY <2>2, <2>3
  <2>5. QED
    BY <2>4, NoSlotApart
<1>3. /\ segment_index' \in 0 .. Len(segment_buf) /\ segment_index' = segment_index + 1
      /\ segment_buf[segment_index'] \in Segments /\ segment_index \in Nat
      /\ segment_index <= Len(segment_buf)
  BY Facts
<1>4. TxTypeOK'
  <2>1. segment_buf \in Seq(Segments) /\ played' \in Seq(Segments) /\ Len(played') <= Len(segment_buf)
    BY <1>1, <1>3, Facts
  <2>2. carrier' \in BOOLEAN
    BY <1>3 DEF Segments
  <2>3. overtaken' \in BOOLEAN
    BY DEF Transmitter, IrTxInv, TxTypeOK, SegmentOver
  <2>4. others \subseteq Slot \ {timer'}
    BY <1>2, Facts
  <2>5. QED
    BY <1>2, <1>3, <2>1, <2>2, <2>3, <2>4 DEF Transmitter, IrTxInv, TxTypeOK, Segments
<1>5. CarrierFollows'
  <2>1. carrier' \in BOOLEAN /\ carrier' = segment_buf[segment_index'].carrier_on /\ segment_index' > 0
    BY <1>3, <1>4 DEF TxTypeOK
  <2>2. QED
    BY <1>1, <2>1 DEF CarrierFollows
<1>6. PlayedInOrder'
  BY <1>1, <1>2 DEF PlayedInOrder
<1>7. ForeignTimersKept' /\ Loaded'
  BY DEF Transmitter, IrTxInv, ForeignTimersKept, Loaded, SegmentOver
<1>8. Stored'
  <2>1. ~ overtaken' => pc # "store"
    BY DEF SegmentOver
  <2>2. QED
    BY <2>1 DEF Stored
<1>9. Playing'
  BY <1>1, <1>2, <1>3 DEF Transmitter, Playing
<1>10. QED
  BY <1>4, <1>5, <1>6, <1>7, <1>8, <1>9 DEF Transmitter, IrTxInv

(* The last segment is over. *)
LEMMA PlayedAllKeeps ==
  ASSUME Transmitter, PlayedAll
  PROVE  Transmitter'
<1> USE DEF PlayedAll, finish, airVars
<1>1. /\ is_transmitting /\ timer # NoSlot /\ pc \notin {"play", "register"}
      /\ played' = SubSeq(segment_buf, 1, segment_index) /\ Len(played') = segment_index
  BY OneMorePlayed
<1>2. segment_index = Len(segment_buf) /\ segment_buf \in Seq(Segments)
  BY Facts
<1>3. timer' = NoSlot /\ others' = others
  BY Facts, NoSlotApart
<1>4. played' = segment_buf
  <2>1. SubSeq(segment_buf, 1, Len(segment_buf)) = segment_buf
    BY <1>2
  <2>2. QED
    BY <1>1, <1>2, <2>1, Zenon
<1>5. TxTypeOK'
  <2>1. played' \in Seq(Segments) /\ Len(played') <= Len(segment_buf)
    BY <1>2, <1>4
  <2>2. overtaken' \in BOOLEAN /\ foreign' \in BOOLEAN
    BY DEF Transmitter, IrTxInv, TxTypeOK, SegmentOver
  <2>3. others' \subseteq Slot \ {timer'}
    BY <1>3, Facts, NoSlotApart
  <2>4. QED
    BY <1>3, <2>1, <2>2, <2>3 DEF Transmitter, IrTxInv, TxTypeOK, Segments
<1>6. CarrierFollows' /\ Loaded'
  BY DEF Transmitter, CarrierFollows, Loaded
<1>7. PlayedInOrder'
  BY <1>1, <1>2, <1>3, <1>4 DEF PlayedInOrder
<1>8. ForeignTimersKept'
  BY Facts, NoSlotApart DEF Transmitter, IrTxInv, ForeignTimersKept, SegmentOver
<1>9. Stored'
  BY <1>3 DEF Stored, SegmentOver
<1>10. Playing'
  BY <1>1, <1>3 DEF Playing
<1>11. QED
  BY <1>5, <1>6, <1>7, <1>8, <1>9, <1>10 DEF Transmitter, IrTxInv

(* Other drivers take free entries and give theirs back; a reception        *)
(* changes nothing of the transmitter.                                      *)
LEMMA OthersKeep ==
  ASSUME Transmitter, OthersRegister \/ OthersRelease \/ Receive \/ UNCHANGED txVars
  PROVE  Transmitter'
<1>1. UNCHANGED <<playVars, segment_timer_id, timer, foreign, overtaken, pc, tid>>
  BY DEF OthersRegister, OthersRelease, Receive, Heard, txVars, playVars, timerVars
<1>2. others' \subseteq Slot \ {timer}
  <2>1. CASE OthersRegister
    <3>1. Free(others \cup {timer}) # {}
      BY <2>1 DEF OthersRegister
    <3>2. FirstFree(others \cup {timer}) \in Slot \ (others \cup {timer})
      BY <3>1, FirstFreeEntry, Zenon
    <3>3. QED
      BY <2>1, <3>2, Facts DEF OthersRegister
  <2>2. CASE OthersRelease
    BY <2>2, Facts DEF OthersRelease
  <2>3. CASE Receive \/ UNCHANGED txVars
    BY <2>3, Facts DEF Receive, Heard, txVars, timerVars
  <2>4. QED
    BY <2>1, <2>2, <2>3
<1> USE DEF playVars
<1>3. TxTypeOK'
  BY <1>1, <1>2 DEF Transmitter, IrTxInv, TxTypeOK
<1>4. CarrierFollows' /\ ForeignTimersKept' /\ Loaded'
  BY <1>1 DEF Transmitter, IrTxInv, CarrierFollows, ForeignTimersKept, Loaded
<1>5. PlayedInOrder'
  BY <1>1 DEF Transmitter, IrTxInv, PlayedInOrder
<1>6. Stored' /\ Playing'
  BY <1>1 DEF Transmitter, Stored, Playing
<1>7. QED
  BY <1>3, <1>4, <1>5, <1>6 DEF Transmitter, IrTxInv

(* Every step keeps the invariant of the transmitter. *)
LEMMA TransmitterStep == Transmitter /\ [TxNext]_txVars => Transmitter'
<1> SUFFICES ASSUME Transmitter, [TxNext]_txVars
             PROVE  Transmitter'
  OBVIOUS
<1>1. ASSUME NEW f \in Frames, Send(f) PROVE Transmitter'
  BY <1>1, SendKeeps
<1>2. CASE TxTask
  BY <1>2, PlayFirstKeeps, RegisterFirstKeeps, RegisterFailsKeeps, StoreFirstKeeps DEF TxTask
<1>3. CASE SegmentTimer
  BY <1>3, PlayNextKeeps, PlayedAllKeeps DEF SegmentTimer
<1>4. CASE OthersRegister \/ OthersRelease \/ Receive \/ UNCHANGED txVars
  BY <1>4, OthersKeep
<1>5. QED
  BY <1>1, <1>2, <1>3, <1>4 DEF TxNext

(***************************************************************************)
(* The transmitter keeps its invariant: for any number of timer entries,   *)
(* whatever the other drivers do with them, and however late the task      *)
(* stores the id of its first timer.                                       *)
(***************************************************************************)
THEOREM TransmitterInvariance == TxSpec => []Transmitter
  BY TransmitterStart, TransmitterStep, PTL DEF TxSpec

(***************************************************************************)
(* The carrier follows the segments, they are played in order, each once,  *)
(* and no other driver's timer is unregistered unless the first timer ran  *)
(* out before its id was stored.                                           *)
(***************************************************************************)
THEOREM SegmentsPlayed == TxSpec => []IrTxInv
<1>1. Transmitter => IrTxInv
  BY DEF Transmitter
<1>2. QED
  BY <1>1, TransmitterInvariance, PTL

-----------------------------------------------------------------------------
(* The codec: bits, bytes and frames. *)

(* What each width is taken for. *)
LEMMA Tolerances ==
  /\ \A w : matches(w, BIT_MARK) <=> 280 <= w /\ w <= 840
  /\ \A w : matches(w, ZERO_SPACE) <=> 280 <= w /\ w <= 840
  /\ \A w : matches(w, ONE_SPACE) <=> 845 <= w /\ w <= 2535
  /\ \A w : matches(w, REPEAT_SPACE) <=> 1125 <= w /\ w <= 3375
  /\ \A w : matches(w, LEADER_SPACE) <=> 2250 <= w /\ w <= 6750
  /\ \A w : matches(w, LEADER_MARK) <=> 4500 <= w /\ w <= 13500
  BY DEF matches, TOL_PCT, BIT_MARK, ZERO_SPACE, ONE_SPACE, REPEAT_SPACE, LEADER_SPACE, LEADER_MARK

(* Bit j of a byte, in the order of transmission. *)
BitOf(B, j) == (B \div Weight[1 + j]) % 2

(* The eight bits of a byte, most significant first. *)
LEMMA BitsAre ==
  ASSUME NEW B
  PROVE  /\ BitOf(B, 0) = (B \div 128) % 2 /\ BitOf(B, 1) = (B \div 64) % 2
         /\ BitOf(B, 2) = (B \div 32) % 2 /\ BitOf(B, 3) = (B \div 16) % 2
         /\ BitOf(B, 4) = (B \div 8) % 2 /\ BitOf(B, 5) = (B \div 4) % 2
         /\ BitOf(B, 6) = (B \div 2) % 2 /\ BitOf(B, 7) = (B \div 1) % 2
<1>1. /\ Weight[1 + 0] = 128 /\ Weight[1 + 1] = 64 /\ Weight[1 + 2] = 32 /\ Weight[1 + 3] = 16
      /\ Weight[1 + 4] = 8 /\ Weight[1 + 5] = 4 /\ Weight[1 + 6] = 2 /\ Weight[1 + 7] = 1
  BY DEF Weight
<1>2. QED
  BY <1>1, Zenon DEF BitOf

(* A byte is the weighted sum of its bits. *)
LEMMA ByteOfBits ==
  ASSUME NEW B \in Nat, B <= 255
  PROVE  128 * ((B \div 128) % 2) + 64 * ((B \div 64) % 2) + 32 * ((B \div 32) % 2) + 16 * ((B \div 16) % 2)
         + 8 * ((B \div 8) % 2) + 4 * ((B \div 4) % 2) + 2 * ((B \div 2) % 2) + ((B \div 1) % 2) = B
  BY Z3

(* Where a bit of the frame is in its bytes. *)
LEMMA BitPlace ==
  ASSUME NEW k \in 0 .. 3, NEW j \in 0 .. 7, NEW f
  PROVE  DataBit(f, 8 * k + j) = (DataBytes(f)[1 + k] \div Weight[1 + j]) % 2
<1>1. (8 * k + j) \div 8 = k /\ (8 * k + j) % 8 = j
  OBVIOUS
<1>2. QED
  BY <1>1, Zenon DEF DataBit

(* A byte whose eight bits are read as they were sent is read as sent. *)
LEMMA ByteRead ==
  ASSUME NEW k \in 0 .. 3, NEW p, NEW f,
         DataBytes(f)[1 + k] \in Nat, DataBytes(f)[1 + k] <= 255,
         \A j \in 0 .. 7 : ReadBit(p, 8 * k + j) = DataBit(f, 8 * k + j)
  PROVE  ReadByte(p, k) = DataBytes(f)[1 + k]
<1> DEFINE B == DataBytes(f)[1 + k]
<1>1. \A j \in 0 .. 7 : ReadBit(p, 8 * k + j) = BitOf(B, j)
  BY BitPlace, Zenon DEF BitOf
<1> HIDE DEF B
<1>2. /\ ReadBit(p, 8 * k + 0) = BitOf(B, 0) /\ ReadBit(p, 8 * k + 1) = BitOf(B, 1)
      /\ ReadBit(p, 8 * k + 2) = BitOf(B, 2) /\ ReadBit(p, 8 * k + 3) = BitOf(B, 3)
      /\ ReadBit(p, 8 * k + 4) = BitOf(B, 4) /\ ReadBit(p, 8 * k + 5) = BitOf(B, 5)
      /\ ReadBit(p, 8 * k + 6) = BitOf(B, 6) /\ ReadBit(p, 8 * k + 7) = BitOf(B, 7)
  BY <1>1
<1>3. ReadByte(p, k) = 128 * ((B \div 128) % 2) + 64 * ((B \div 64) % 2) + 32 * ((B \div 32) % 2)
         + 16 * ((B \div 16) % 2) + 8 * ((B \div 8) % 2) + 4 * ((B \div 4) % 2) + 2 * ((B \div 2) % 2) + ((B \div 1) % 2)
  BY <1>2, BitsAre, ZenonT(60) DEF ReadByte
<1>4. B \in Nat /\ B <= 255
  BY DEF B
<1>5. QED
  BY <1>3, <1>4, ByteOfBits, Zenon DEF B

(* The four bytes of a frame. *)
LEMMA BytesOf ==
  ASSUME NEW f \in DataFrame
  PROVE  /\ DataBytes(f)[1] = f.address /\ DataBytes(f)[2] = 255 - f.address
         /\ DataBytes(f)[3] = f.command /\ DataBytes(f)[4] = 255 - f.command
         /\ f.address \in Nat /\ f.address <= 255 /\ f.command \in Nat /\ f.command <= 255
         /\ \A k \in 0 .. 3 : DataBytes(f)[1 + k] \in Nat /\ DataBytes(f)[1 + k] <= 255
<1>1. f.address \in Nat /\ f.address <= 255 /\ f.command \in Nat /\ f.command <= 255
  BY DEF DataFrame, Byte
<1>2. /\ DataBytes(f)[1] = f.address /\ DataBytes(f)[2] = 255 - f.address
      /\ DataBytes(f)[3] = f.command /\ DataBytes(f)[4] = 255 - f.command
  BY DEF DataBytes
<1>3. ASSUME NEW k \in 0 .. 3
      PROVE  DataBytes(f)[1 + k] \in Nat /\ DataBytes(f)[1 + k] <= 255
  <2>1. k = 0 \/ k = 1 \/ k = 2 \/ k = 3
    OBVIOUS
  <2>2. CASE k = 0
    BY <1>1, <1>2, <2>2
  <2>3. CASE k = 1
    BY <1>1, <1>2, <2>3
  <2>4. CASE k = 2
    BY <1>1, <1>2, <2>4
  <2>5. CASE k = 3
    BY <1>1, <1>2, <2>5
  <2>6. QED
    BY <2>1, <2>2, <2>3, <2>4, <2>5
<1>4. QED
  BY <1>1, <1>2, <1>3

(* Every bit but bit x is read as it was sent.                              *)
ReadsAllBut(p, f, x) == \A i \in 0 .. 31 : i # x => ReadBit(p, i) = DataBit(f, i)

(***************************************************************************)
(* One bit read wrongly is found out: the byte it is in no longer is the   *)
(* inverse of its partner.                                                 *)
(***************************************************************************)
LEMMA OneBitWrong ==
  ASSUME NEW f \in DataFrame, NEW x \in Int, NEW p, ReadsAllBut(p, f, x), InversesMatch(p)
  PROVE  [address |-> ReadByte(p, 0), command |-> ReadByte(p, 2)] = f
<1>1. ASSUME NEW k \in 0 .. 3, ~ (8 * k <= x /\ x <= 8 * k + 7)
      PROVE  ReadByte(p, k) = DataBytes(f)[1 + k]
  <2>1. ASSUME NEW j \in 0 .. 7
        PROVE  ReadBit(p, 8 * k + j) = DataBit(f, 8 * k + j)
    <3>1. 8 * k + j \in 0 .. 31 /\ 8 * k + j # x
      BY <1>1
    <3>2. QED
      BY <3>1, Zenon DEF ReadsAllBut
  <2>2. DataBytes(f)[1 + k] \in Nat /\ DataBytes(f)[1 + k] <= 255
    BY BytesOf
  <2>3. QED
    BY <2>1, <2>2, ByteRead
<1>2. /\ ReadByte(p, 0) = f.address \/ ReadByte(p, 1) = 255 - f.address
      /\ ReadByte(p, 2) = f.command \/ ReadByte(p, 3) = 255 - f.command
  <2>1. /\ ~ (8 * 0 <= x /\ x <= 8 * 0 + 7) \/ ~ (8 * 1 <= x /\ x <= 8 * 1 + 7)
        /\ ~ (8 * 2 <= x /\ x <= 8 * 2 + 7) \/ ~ (8 * 3 <= x /\ x <= 8 * 3 + 7)
    OBVIOUS
  <2>2. 0 \in 0 .. 3 /\ 1 \in 0 .. 3 /\ 2 \in 0 .. 3 /\ 3 \in 0 .. 3
    OBVIOUS
  <2>3. /\ ReadByte(p, 0) = DataBytes(f)[1] \/ ReadByte(p, 1) = DataBytes(f)[2]
        /\ ReadByte(p, 2) = DataBytes(f)[3] \/ ReadByte(p, 3) = DataBytes(f)[4]
    <3>1. /\ ReadByte(p, 0) = DataBytes(f)[1 + 0] \/ ReadByte(p, 1) = DataBytes(f)[1 + 1]
          /\ ReadByte(p, 2) = DataBytes(f)[1 + 2] \/ ReadByte(p, 3) = DataBytes(f)[1 + 3]
      BY <1>1, <2>1, <2>2, Zenon
    <3>2. QED
      BY <3>1
  <2>4. /\ DataBytes(f)[1] = f.address /\ DataBytes(f)[2] = 255 - f.address
        /\ DataBytes(f)[3] = f.command /\ DataBytes(f)[4] = 255 - f.command
    BY BytesOf
  <2>5. QED
    BY <2>3, <2>4, Zenon
<1>3. \A k \in 0 .. 3 : ReadByte(p, k) \in Nat
  <2>1. \A i : ReadBit(p, i) \in {0, 1}
    BY DEF ReadBit
  <2>2. QED
    BY <2>1 DEF ReadByte
<1>4. ReadByte(p, 0) = f.address /\ ReadByte(p, 2) = f.command
  <2>1. ReadByte(p, 0) + ReadByte(p, 1) = 255 /\ ReadByte(p, 2) + ReadByte(p, 3) = 255
    BY DEF InversesMatch
  <2>2. /\ ReadByte(p, 0) \in Nat /\ ReadByte(p, 1) \in Nat /\ ReadByte(p, 2) \in Nat /\ ReadByte(p, 3) \in Nat
        /\ f.address \in Nat /\ f.command \in Nat
    BY <1>3, BytesOf
  <2>3. QED
    BY <1>2, <2>1, <2>2
<1>5. f = [address |-> f.address, command |-> f.command]
  BY DEF DataFrame
<1>6. QED
  BY <1>4, <1>5


-----------------------------------------------------------------------------
(* What the pulses of a frame are, and what reading them needs. *)

(* A bit is zero or one. *)
LEMMA BitRange ==
  ASSUME NEW f \in DataFrame, NEW i \in 0 .. 31
  PROVE  DataBit(f, i) \in {0, 1}
<1>1. PICK k \in 0 .. 3, j \in 0 .. 7 : i = 8 * k + j
  <2>1. CASE i < 8
    <3>1. i \in 0 .. 7 /\ 0 \in 0 .. 3 /\ i = 8 * 0 + i
      BY <2>1
    <3>2. QED
      BY <3>1
  <2>2. CASE i >= 8 /\ i < 16
    <3>1. i - 8 \in 0 .. 7 /\ 1 \in 0 .. 3 /\ i = 8 * 1 + (i - 8)
      BY <2>2
    <3>2. QED
      BY <3>1
  <2>3. CASE i >= 16 /\ i < 24
    <3>1. i - 16 \in 0 .. 7 /\ 2 \in 0 .. 3 /\ i = 8 * 2 + (i - 16)
      BY <2>3
    <3>2. QED
      BY <3>1
  <2>4. CASE i >= 24
    <3>1. i - 24 \in 0 .. 7 /\ 3 \in 0 .. 3 /\ i = 8 * 3 + (i - 24)
      BY <2>4
    <3>2. QED
      BY <3>1
  <2>5. QED
    BY <2>1, <2>2, <2>3, <2>4
<1>2. DataBytes(f)[1 + k] \in Nat
  BY BytesOf
<1>3. Weight[1 + j] \in Nat \ {0}
  BY DEF Weight
<1>4. DataBit(f, i) = (DataBytes(f)[1 + k] \div Weight[1 + j]) % 2
  BY <1>1, BitPlace
<1> DEFINE B == DataBytes(f)[1 + k]
           W == Weight[1 + j]
<1> HIDE DEF B, W
<1>5. B \in Nat /\ W \in Nat /\ W > 0
  BY <1>2, <1>3 DEF B, W
<1>6. (B \div W) % 2 \in {0, 1}
  <2>1. B \div W \in Int
    BY <1>5
  <2>2. QED
    BY <2>1
<1>7. QED
  BY <1>4, <1>6 DEF B, W

(***************************************************************************)
(* What the decoder can make of pulses in which at most one bit of frame f *)
(* is wrong, if they can be read at all: the frame, an error, or a repeat. *)
(***************************************************************************)
LEMMA FrameOrError ==
  ASSUME NEW f \in DataFrame, NEW p, NEW x \in Int, BitsReadable(p) => ReadsAllBut(p, f, x)
  PROVE  \/ decode(p) \in {Error, f}
         \/ decode(p) = Repeat /\ Len(p) >= 3 /\ matches(p[1], LEADER_MARK) /\ matches(p[2], REPEAT_SPACE)
<1>1. CASE Len(p) < 3 \/ ~ matches(p[1], LEADER_MARK)
  BY <1>1 DEF decode
<1>2. CASE ~ (Len(p) < 3) /\ matches(p[1], LEADER_MARK) /\ matches(p[2], REPEAT_SPACE)
  BY <1>2 DEF decode
<1>3. CASE /\ ~ (Len(p) < 3 \/ ~ matches(p[1], LEADER_MARK)) /\ ~ matches(p[2], REPEAT_SPACE)
           /\ matches(p[2], LEADER_SPACE) /\ BitsReadable(p) /\ InversesMatch(p)
  <2>1. [address |-> ReadByte(p, 0), command |-> ReadByte(p, 2)] = f
    BY <1>3, OneBitWrong
  <2>2. decode(p) = [address |-> ReadByte(p, 0), command |-> ReadByte(p, 2)]
    BY <1>3, Zenon DEF decode
  <2>3. QED
    BY <2>1, <2>2
<1>4. CASE /\ ~ (Len(p) < 3 \/ ~ matches(p[1], LEADER_MARK)) /\ ~ matches(p[2], REPEAT_SPACE)
           /\ ~ (matches(p[2], LEADER_SPACE) /\ BitsReadable(p) /\ InversesMatch(p))
  <2>1. decode(p) = Error
    BY <1>4, Zenon DEF decode
  <2>2. QED
    BY <2>1
<1>5. QED
  BY <1>1, <1>2, <1>3, <1>4

(* The width of pulse n of a data frame. *)
Width(f, n) ==
  IF n = 1 THEN LEADER_MARK
  ELSE IF n = 2 THEN LEADER_SPACE
  ELSE IF n % 2 = 1 THEN BIT_MARK
  ELSE Space(f, (n - 4) \div 2)

(* What was played is the beginning of data frame f.                        *)
Begun(f) ==
  /\ played \in Seq(Segments) /\ Len(played) <= 67
  /\ \A n \in 1 .. Len(played) :
       played[n].duration_us = Width(f, n) /\ played[n].carrier_on = (n % 2 = 1)

(* A mark is not a gap, and both have their width.                          *)
LEMMA OnAndOff ==
  /\ \A us : Mark(us).duration_us = us /\ Mark(us).carrier_on = TRUE
  /\ \A us : Gap(us).duration_us = us /\ Gap(us).carrier_on = FALSE
  BY DEF Mark, Gap

(* The segments of a data frame are its pulses.                             *)
LEMMA FramePulses ==
  ASSUME NEW f, f # Repeat, NEW n \in 1 .. 67
  PROVE  /\ flatten_waves(encode(f))[n].duration_us = Width(f, n)
         /\ flatten_waves(encode(f))[n].carrier_on = (n % 2 = 1)
<1> DEFINE s == flatten_waves(encode(f))
<1>1. /\ s[1] = Mark(LEADER_MARK) /\ s[2] = Gap(LEADER_SPACE) /\ s[67] = Mark(BIT_MARK)
      /\ \A i \in 0 .. 31 : s[3 + 2 * i] = Mark(BIT_MARK) /\ s[4 + 2 * i] = Gap(Space(f, i))
  BY DataFrameSegments
<1> HIDE DEF s
<1>2. CASE n = 1
  <2>1. s[n] = Mark(LEADER_MARK) /\ Width(f, n) = LEADER_MARK
    BY <1>1, <1>2, Zenon DEF Width
  <2>2. (n % 2 = 1) = TRUE
    BY <1>2
  <2>3. QED
    BY <2>1, <2>2, OnAndOff, Zenon DEF s
<1>3. CASE n = 2
  <2>1. s[n] = Gap(LEADER_SPACE) /\ Width(f, n) = LEADER_SPACE /\ (n % 2 = 1) = FALSE
    BY <1>1, <1>3 DEF Width
  <2>2. QED
    BY <2>1, OnAndOff, Zenon DEF s
<1>4. CASE n = 67
  <2>1. n # 1 /\ n # 2 /\ n % 2 = 1
    BY <1>4
  <2>2. s[n] = Mark(BIT_MARK) /\ Width(f, n) = BIT_MARK
    BY <1>1, <1>4, <2>1 DEF Width
  <2>3. (n % 2 = 1) = TRUE
    BY <2>1
  <2>4. QED
    BY <2>2, <2>3, OnAndOff, Zenon DEF s
<1>5. CASE n > 2 /\ n < 67 /\ n % 2 = 1
  <2>1. PICK i \in 0 .. 31 : n = 3 + 2 * i
    <3>1. (n - 3) \div 2 \in 0 .. 31 /\ n = 3 + 2 * ((n - 3) \div 2)
      BY <1>5
    <3>2. QED
      BY <3>1
  <2>2. s[n] = Mark(BIT_MARK)
    BY <1>1, <2>1
  <2>3. Width(f, n) = BIT_MARK
    BY <1>5 DEF Width
  <2>4. (n % 2 = 1) = TRUE
    BY <1>5
  <2>5. QED
    BY <2>2, <2>3, <2>4, OnAndOff, Zenon DEF s
<1>6. CASE n > 2 /\ n % 2 # 1
  <2>1. PICK i \in 0 .. 31 : n = 4 + 2 * i
    <3>1. (n - 4) \div 2 \in 0 .. 31 /\ n = 4 + 2 * ((n - 4) \div 2)
      BY <1>6
    <3>2. QED
      BY <3>1
  <2>2. s[n] = Gap(Space(f, i))
    BY <1>1, <2>1
  <2>3. n # 1 /\ n # 2 /\ (n - 4) \div 2 = i
    BY <1>6, <2>1
  <2>4. Width(f, n) = Space(f, i)
    BY <1>6, <2>3, Zenon DEF Width
  <2>5. (n % 2 = 1) = FALSE
    BY <1>6
  <2>6. QED
    BY <2>2, <2>4, <2>5, OnAndOff, Zenon DEF s
<1>7. QED
  BY <1>2, <1>3, <1>4, <1>5, <1>6

(* When a frame is received, what was played of it is its beginning.        *)
LEMMA PlayedOfFrame ==
  ASSUME Transmitter, sent # Nothing
  PROVE  /\ sent = Repeat => played \in Seq(Segments) /\ Len(played) <= 3
         /\ sent # Repeat => Begun(sent)
<1>1. /\ segment_buf = flatten_waves(encode(sent))
      /\ segment_buf \in Seq(Segments) /\ Len(played) <= Len(segment_buf) /\ Len(played) \in Nat
      /\ played = SubSeq(segment_buf, 1, Len(played))
  BY Facts DEF Transmitter, Loaded
<1> DEFINE L == Len(played)
<1> HIDE DEF L
<1>2. /\ L \in Nat /\ L <= Len(segment_buf) /\ played = SubSeq(segment_buf, 1, L) /\ L = Len(played)
  BY <1>1, Zenon DEF L
<1>3. played \in Seq(Segments) /\ \A n \in 1 .. L : played[n] = segment_buf[n]
  BY <1>1, <1>2
<1>4. CASE sent = Repeat
  <2>1. segment_buf = <<Mark(LEADER_MARK), Gap(REPEAT_SPACE), Mark(BIT_MARK)>>
    BY <1>1, <1>4, RepeatSegments, Zenon
  <2>2. Len(segment_buf) = 3
    BY <2>1
  <2>3. QED
    BY <1>2, <1>3, <1>4, <2>2
<1>5. CASE sent # Repeat
  <2>1. Len(segment_buf) = 67
    BY <1>1, <1>5, DataFrameSegments, Zenon
  <2>2. Len(played) <= 67
    BY <1>2, <2>1
  <2>3. ASSUME NEW n \in 1 .. Len(played)
        PROVE  played[n].duration_us = Width(sent, n) /\ played[n].carrier_on = (n % 2 = 1)
    <3>1. n \in 1 .. 67 /\ n \in 1 .. L
      BY <1>2, <2>2
    <3>2. played[n] = segment_buf[n]
      BY <1>3, <3>1
    <3>3. QED
      BY <1>1, <1>5, <3>1, <3>2, FramePulses, Zenon
  <2>4. QED
    BY <1>3, <1>5, <2>2, <2>3 DEF Begun
<1>6. QED
  BY <1>4, <1>5

-----------------------------------------------------------------------------
(* The pulses of the beginning of a data frame.                             *)
BegunAs(Q, f) ==
  /\ Q \in Seq(Int) /\ Len(Q) <= 67
  /\ \A n \in 1 .. Len(Q) : Q[n] = Width(f, n)

(* The mark and the space of bit i. *)
BitPulses(Q, f, i) ==
  /\ Len(Q) >= 3 + 2 * i => Q[3 + 2 * i] = 560
  /\ Len(Q) >= 4 + 2 * i => Q[4 + 2 * i] = IF DataBit(f, i) = 1 THEN 1690 ELSE 560
  /\ Len(Q) >= 5 + 2 * i => Q[5 + 2 * i] = 560

(* Bit i of the beginning of a data frame. *)
LEMMA BitPulsesOf ==
  ASSUME NEW f, NEW Q, BegunAs(Q, f), NEW i \in 0 .. 31
  PROVE  BitPulses(Q, f, i)
<1>1. Len(Q) \in Nat /\ \A n \in 1 .. Len(Q) : Q[n] = Width(f, n)
  BY DEF BegunAs
<1>2. ASSUME NEW n \in Nat, n >= 1, Len(Q) >= n
      PROVE  Q[n] = Width(f, n)
  BY <1>1, <1>2
<1>3. /\ Width(f, 3 + 2 * i) = 560 /\ Width(f, 4 + 2 * i) = IF DataBit(f, i) = 1 THEN 1690 ELSE 560
      /\ Width(f, 5 + 2 * i) = 560
  <2>1. /\ 3 + 2 * i # 1 /\ 3 + 2 * i # 2 /\ (3 + 2 * i) % 2 = 1
        /\ 5 + 2 * i # 1 /\ 5 + 2 * i # 2 /\ (5 + 2 * i) % 2 = 1
    OBVIOUS
  <2>2. 4 + 2 * i # 1 /\ 4 + 2 * i # 2 /\ (4 + 2 * i) % 2 # 1 /\ ((4 + 2 * i) - 4) \div 2 = i
    OBVIOUS
  <2>3. Width(f, 3 + 2 * i) = BIT_MARK /\ Width(f, 5 + 2 * i) = BIT_MARK
    BY <2>1, Zenon DEF Width
  <2>4. Width(f, 4 + 2 * i) = Space(f, i)
    BY <2>2, Zenon DEF Width
  <2>5. QED
    BY <2>3, <2>4 DEF Space, ONE_SPACE, ZERO_SPACE, BIT_MARK
<1>4. /\ 3 + 2 * i \in Nat /\ 3 + 2 * i >= 1
      /\ 4 + 2 * i \in Nat /\ 4 + 2 * i >= 1
      /\ 5 + 2 * i \in Nat /\ 5 + 2 * i >= 1
  OBVIOUS
<1>5. /\ Len(Q) >= 3 + 2 * i => Q[3 + 2 * i] = Width(f, 3 + 2 * i)
      /\ Len(Q) >= 4 + 2 * i => Q[4 + 2 * i] = Width(f, 4 + 2 * i)
      /\ Len(Q) >= 5 + 2 * i => Q[5 + 2 * i] = Width(f, 5 + 2 * i)
  BY <1>2, <1>4, Zenon
<1>6. QED
  BY <1>3, <1>5 DEF BitPulses

(* The leader of a frame. *)
LEMMA LeaderOf ==
  ASSUME NEW f, NEW Q, BegunAs(Q, f)
  PROVE  (Len(Q) >= 1 => Q[1] = 9000) /\ (Len(Q) >= 2 => Q[2] = 4500)
<1>1. Len(Q) \in Nat /\ \A n \in 1 .. Len(Q) : Q[n] = Width(f, n)
  BY DEF BegunAs
<1>2. Width(f, 1) = 9000 /\ Width(f, 2) = 4500
  BY DEF Width, LEADER_MARK, LEADER_SPACE
<1>3. QED
  BY <1>1, <1>2

(* What the bits of some pulses are read as.                                *)
LEMMA ReadAs ==
  ASSUME NEW p, NEW i
  PROVE  /\ 845 <= p[4 + 2 * i] /\ p[4 + 2 * i] <= 2535 => ReadBit(p, i) = 1
         /\ ~ (845 <= p[4 + 2 * i] /\ p[4 + 2 * i] <= 2535) => ReadBit(p, i) = 0
<1>1. matches(p[4 + 2 * i], ONE_SPACE) <=> 845 <= p[4 + 2 * i] /\ p[4 + 2 * i] <= 2535
  BY Tolerances
<1>2. ReadBit(p, i) = IF matches(p[4 + 2 * i], ONE_SPACE) THEN 1 ELSE 0
  BY DEF ReadBit
<1>3. CASE matches(p[4 + 2 * i], ONE_SPACE)
  BY <1>1, <1>2, <1>3
<1>4. CASE ~ matches(p[4 + 2 * i], ONE_SPACE)
  BY <1>1, <1>2, <1>4
<1>5. QED
  BY <1>3, <1>4

(* Bit i is there, and its mark has the width of a mark. *)
MarkReadable(p, i) == 4 + 2 * i <= Len(p) /\ 280 <= p[3 + 2 * i] /\ p[3 + 2 * i] <= 840

(* What the receiver has found of every bit before it reads one. *)
LEMMA Readable ==
  ASSUME NEW p, BitsReadable(p), NEW i \in 0 .. 31
  PROVE  MarkReadable(p, i)
<1>1. 4 + 2 * i <= Len(p) /\ matches(p[3 + 2 * i], BIT_MARK)
  BY DEF BitsReadable
<1>2. matches(p[3 + 2 * i], BIT_MARK) <=> 280 <= p[3 + 2 * i] /\ p[3 + 2 * i] <= 840
  BY Tolerances
<1>3. QED
  BY <1>1, <1>2, Zenon DEF MarkReadable

(* Only a long enough sequence can be read.                                 *)
LEMMA TooShort == ASSUME NEW p, Len(p) \in Nat, Len(p) < 66 PROVE ~ BitsReadable(p)
<1> SUFFICES ASSUME BitsReadable(p) PROVE FALSE
  OBVIOUS
<1>1. PICK i \in 0 .. 31 : i = 31
  OBVIOUS
<1>2. MarkReadable(p, i)
  BY Readable, Zenon
<1>3. 4 + 2 * i <= Len(p)
  BY <1>2, Zenon DEF MarkReadable
<1>4. QED
  BY <1>1, <1>3

-----------------------------------------------------------------------------
(* The space of bit i is on its side of the limit between zero and one.    *)
OnItsSide(p, f, i) ==
  /\ p[4 + 2 * i] \in Int
  /\ DataBit(f, i) = 1 => 845 <= p[4 + 2 * i] /\ p[4 + 2 * i] <= 2535
  /\ DataBit(f, i) # 1 => p[4 + 2 * i] < 845

(* Then it is read as the bit it was sent for.                              *)
LEMMA RightBit ==
  ASSUME NEW f \in DataFrame, NEW p, NEW i \in 0 .. 31, OnItsSide(p, f, i)
  PROVE  ReadBit(p, i) = DataBit(f, i)
<1>1. DataBit(f, i) \in {0, 1}
  BY BitRange
<1>2. CASE DataBit(f, i) = 1
  <2>1. 845 <= p[4 + 2 * i] /\ p[4 + 2 * i] <= 2535
    BY <1>2 DEF OnItsSide
  <2>2. ReadBit(p, i) = 1
    BY <2>1, ReadAs
  <2>3. QED
    BY <1>2, <2>2
<1>3. CASE DataBit(f, i) = 0
  <2>1. ~ (845 <= p[4 + 2 * i] /\ p[4 + 2 * i] <= 2535)
    BY <1>3 DEF OnItsSide
  <2>2. ReadBit(p, i) = 0
    BY <2>1, ReadAs
  <2>3. QED
    BY <1>3, <2>2
<1>4. QED
  BY <1>1, <1>2, <1>3

(* The pulses of bit i, the marks longer by d and the spaces shorter.       *)
StretchedBit(p, f, i, d) ==
  p[3 + 2 * i] = 560 + d /\ p[4 + 2 * i] = (IF DataBit(f, i) = 1 THEN 1690 ELSE 560) - d

(* The marks of Q are longer by d in p, and its spaces shorter.             *)
StretchedBy(p, Q, d) ==
  Len(p) = Len(Q) /\ \A n \in 1 .. Len(Q) : p[n] = IF n % 2 = 1 THEN Q[n] + d ELSE Q[n] - d

(* What can be read of it is right, and all of it is as wide as expected.   *)
StretchedRight(p, Q, f, d) ==
  /\ BitsReadable(p) => ReadsAllBut(p, f, -1)
  /\ Len(Q) >= 2 => p[1] = 9000 + d /\ p[2] = 4500 - d
  /\ \A i \in 0 .. 31 : Len(Q) >= 4 + 2 * i => StretchedBit(p, f, i, d) /\ OnItsSide(p, f, i)

(* Stretched marks and shortened spaces are read as they were sent.         *)
LEMMA StretchedRead ==
  ASSUME NEW f \in DataFrame, NEW Q, BegunAs(Q, f), NEW d \in Nat, d <= 560,
         NEW p \in Seq(Int), StretchedBy(p, Q, d)
  PROVE  StretchedRight(p, Q, f, d)
<1>1. Len(Q) \in Nat
  BY DEF BegunAs
<1>2. Len(Q) >= 2 => p[1] = 9000 + d /\ p[2] = 4500 - d
  <2>1. (Len(Q) >= 1 => Q[1] = 9000) /\ (Len(Q) >= 2 => Q[2] = 4500)
    BY LeaderOf
  <2>2. QED
    BY <1>1, <2>1 DEF StretchedBy
<1>3. ASSUME NEW i \in 0 .. 31, Len(Q) >= 4 + 2 * i
      PROVE  StretchedBit(p, f, i, d) /\ OnItsSide(p, f, i)
  <2>1. /\ 3 + 2 * i \in 1 .. Len(Q) /\ (3 + 2 * i) % 2 = 1 /\ Len(Q) >= 3 + 2 * i
        /\ 4 + 2 * i \in 1 .. Len(Q) /\ (4 + 2 * i) % 2 # 1
    BY <1>1, <1>3
  <2>2. Q[3 + 2 * i] = 560 /\ Q[4 + 2 * i] = IF DataBit(f, i) = 1 THEN 1690 ELSE 560
    <3>1. BitPulses(Q, f, i)
      BY BitPulsesOf, Zenon
    <3>2. QED
      BY <1>3, <2>1, <3>1, Zenon DEF BitPulses
  <2>3. p[3 + 2 * i] = Q[3 + 2 * i] + d /\ p[4 + 2 * i] = Q[4 + 2 * i] - d
    BY <2>1 DEF StretchedBy
  <2>4. QED
    BY <2>2, <2>3 DEF StretchedBit, OnItsSide
<1>4. BitsReadable(p) => ReadsAllBut(p, f, -1)
  <2> SUFFICES ASSUME BitsReadable(p), NEW i \in 0 .. 31
               PROVE  ReadBit(p, i) = DataBit(f, i)
    BY DEF ReadsAllBut
  <2>1. MarkReadable(p, i)
    BY Readable, Zenon
  <2>2. Len(Q) >= 4 + 2 * i
    BY <1>1, <2>1 DEF MarkReadable, StretchedBy
  <2>3. OnItsSide(p, f, i)
    BY <1>3, <2>2, Zenon
  <2>4. QED
    BY <2>3, RightBit, Zenon
<1>5. QED
  BY <1>2, <1>3, <1>4 DEF StretchedRight

(* A number names one bit at most. *)
LEMMA OneBit == ASSUME NEW m \in Int PROVE \E x \in Int : \A i \in 0 .. 31 : 4 + 2 * i = m => i = x
<1>1. CASE \E x \in 0 .. 31 : 4 + 2 * x = m
  <2>1. PICK x \in 0 .. 31 : 4 + 2 * x = m
    BY <1>1
  <2>2. x \in Int /\ \A i \in 0 .. 31 : 4 + 2 * i = m => i = x
    BY <2>1
  <2>3. QED
    BY <2>2, Zenon
<1>2. CASE ~ \E x \in 0 .. 31 : 4 + 2 * x = m
  <2>1. \A i \in 0 .. 31 : 4 + 2 * i = m => i = -1
    BY <1>2
  <2>2. -1 \in Int
    OBVIOUS
  <2>3. QED
    BY <2>1, <2>2
<1>3. QED
  BY <1>1, <1>2

(* The space of a bit that is there is one of the pulses.                   *)
LEMMA SpaceOfBit ==
  ASSUME NEW n \in Nat, NEW i \in 0 .. 31, 4 + 2 * i <= n
  PROVE  4 + 2 * i \in 1 .. n
  OBVIOUS

(* One changed pulse changes at most one bit.                               *)
LEMMA ChangedRead ==
  ASSUME NEW f \in DataFrame, NEW Q, BegunAs(Q, f), NEW m \in 1 .. Len(Q),
         NEW p \in Seq(Int), Len(p) = Len(Q),
         \A n \in 1 .. Len(Q) : n # m => p[n] = Q[n]
  PROVE  \E x \in Int : BitsReadable(p) => ReadsAllBut(p, f, x)
<1>1. Len(Q) \in Nat /\ m \in Int
  BY DEF BegunAs
<1>2. PICK x \in Int : \A i \in 0 .. 31 : 4 + 2 * i = m => i = x
  BY <1>1, OneBit, Zenon
<1>3. ASSUME BitsReadable(p), NEW i \in 0 .. 31, i # x
      PROVE  ReadBit(p, i) = DataBit(f, i)
  <2>1. MarkReadable(p, i)
    BY <1>3, Readable, Zenon
  <2>2. Len(Q) >= 4 + 2 * i
    BY <1>1, <2>1 DEF MarkReadable
  <2>3. 4 + 2 * i \in 1 .. Len(Q) /\ 4 + 2 * i # m
    <3>1. 4 + 2 * i # m
      BY <1>2, <1>3, Zenon
    <3>2. 4 + 2 * i \in 1 .. Len(Q)
      BY <1>1, <2>1, SpaceOfBit, Zenon DEF MarkReadable
    <3>3. QED
      BY <3>1, <3>2, Zenon
  <2>4. p[4 + 2 * i] = Q[4 + 2 * i]
    BY <2>3, Zenon
  <2>5. BitPulses(Q, f, i)
    BY BitPulsesOf, Zenon
  <2>6. Q[4 + 2 * i] = IF DataBit(f, i) = 1 THEN 1690 ELSE 560
    BY <2>2, <2>5, Zenon DEF BitPulses
  <2>7. OnItsSide(p, f, i)
    BY <2>4, <2>6 DEF OnItsSide
  <2>8. QED
    BY <2>7, RightBit, Zenon
<1>4. QED
  BY <1>3 DEF ReadsAllBut

(***************************************************************************)
(* A hidden edge turns a space into a mark, which cannot be read unless it *)
(* belongs to a zero; so only the bit at the edge itself may be wrong.     *)
(***************************************************************************)
LEMMA EdgeMissedRead ==
  ASSUME NEW f \in DataFrame, NEW Q, BegunAs(Q, f), NEW m \in 1 .. Len(Q) - 1,
         NEW p \in Seq(Int), Len(p) = Len(Q) - 1,
         \A n \in 1 .. m - 1 : p[n] = Q[n],
         p[m] = Q[m] + Q[m + 1],
         \A n \in m + 1 .. Len(Q) - 1 : p[n] = Q[n + 1]
  PROVE  \E x \in Int : BitsReadable(p) => ReadsAllBut(p, f, x)
<1>1. Len(Q) \in Nat /\ Len(Q) <= 67
  BY DEF BegunAs
<1>0. CASE ~ BitsReadable(p)
  <2>1. -1 \in Int
    OBVIOUS
  <2>2. QED
    BY <1>0, <2>1
<1> SUFFICES ASSUME BitsReadable(p)
             PROVE  \E x \in Int : ReadsAllBut(p, f, x)
  BY <1>0
<1> DEFINE At(i) ==
             /\ 4 + 2 * i <= Len(Q) - 1 /\ 280 <= p[3 + 2 * i] /\ p[3 + 2 * i] <= 840
             /\ Q[3 + 2 * i] = 560 /\ Q[4 + 2 * i] = IF DataBit(f, i) = 1 THEN 1690 ELSE 560
             /\ Q[5 + 2 * i] = 560
<1>2. ASSUME NEW i \in 0 .. 31 PROVE At(i)
  <2>1. MarkReadable(p, i) /\ BitPulses(Q, f, i)
    BY Readable, BitPulsesOf, Zenon
  <2>2. 4 + 2 * i <= Len(Q) - 1 /\ 280 <= p[3 + 2 * i] /\ p[3 + 2 * i] <= 840
    BY <2>1 DEF MarkReadable
  <2>3. Len(Q) >= 3 + 2 * i /\ Len(Q) >= 4 + 2 * i /\ Len(Q) >= 5 + 2 * i
    <3>1. 4 + 2 * i <= Len(Q) - 1
      BY <2>2
    <3>2. Len(Q) \in Int /\ i \in Int
      BY <1>1
    <3>3. QED
      BY <3>1, <3>2
  <2>4. QED
    BY <2>1, <2>2, <2>3, ZenonT(60) DEF BitPulses
<1> HIDE DEF At
<1>3. ASSUME NEW i \in 0 .. 31, m < 3 + 2 * i
      PROVE  ReadBit(p, i) = DataBit(f, i)
  <2>0. At(i)
    BY <1>2
  <2>1. 4 + 2 * i <= Len(Q) - 1 /\ 3 + 2 * i \in m + 1 .. Len(Q) - 1 /\ 4 + 2 * i \in m + 1 .. Len(Q) - 1
    BY <1>1, <1>3, <2>0 DEF At
  <2>2. p[3 + 2 * i] = Q[4 + 2 * i] /\ p[4 + 2 * i] = Q[5 + 2 * i]
    <3>1. (3 + 2 * i) + 1 = 4 + 2 * i /\ (4 + 2 * i) + 1 = 5 + 2 * i
      OBVIOUS
    <3>2. p[3 + 2 * i] = Q[(3 + 2 * i) + 1] /\ p[4 + 2 * i] = Q[(4 + 2 * i) + 1]
      BY <2>1
    <3>3. QED
      BY <3>1, <3>2
  <2>3. DataBit(f, i) # 1 /\ p[4 + 2 * i] = 560
    <3>1. p[3 + 2 * i] <= 840 /\ Q[4 + 2 * i] = IF DataBit(f, i) = 1 THEN 1690 ELSE 560
      BY <2>0 DEF At
    <3>2. Q[5 + 2 * i] = 560
      BY <2>0 DEF At
    <3>3. QED
      BY <2>2, <3>1, <3>2
  <2>4. OnItsSide(p, f, i)
    BY <2>3 DEF OnItsSide
  <2>5. QED
    BY <2>4, RightBit, Zenon
<1>4. ASSUME NEW i \in 0 .. 31, 4 + 2 * i < m
      PROVE  ReadBit(p, i) = DataBit(f, i)
  <2>0. At(i)
    BY <1>2
  <2>1. 4 + 2 * i \in 1 .. m - 1
    BY <1>4
  <2>2. p[4 + 2 * i] = Q[4 + 2 * i]
    BY <2>1
  <2>3. Q[4 + 2 * i] = IF DataBit(f, i) = 1 THEN 1690 ELSE 560
    BY <2>0 DEF At
  <2>4. OnItsSide(p, f, i)
    BY <2>2, <2>3 DEF OnItsSide
  <2>5. QED
    BY <2>4, RightBit, Zenon
<1>5. ASSUME NEW i \in 0 .. 31
      PROVE  m # 3 + 2 * i
  <2> SUFFICES ASSUME m = 3 + 2 * i PROVE FALSE
    OBVIOUS
  <2>0. At(i)
    BY <1>2
  <2>1. p[3 + 2 * i] = Q[3 + 2 * i] + Q[4 + 2 * i]
    <3>1. m + 1 = 4 + 2 * i
      OBVIOUS
    <3>2. QED
      BY <3>1
  <2>2. QED
    BY <2>0, <2>1 DEF At
<1>6. CASE \E x \in 0 .. 31 : m = 4 + 2 * x
  <2>1. PICK x \in 0 .. 31 : m = 4 + 2 * x
    BY <1>6
  <2>2. ASSUME NEW i \in 0 .. 31, i # x
        PROVE  ReadBit(p, i) = DataBit(f, i)
    <3>1. m < 3 + 2 * i \/ 4 + 2 * i < m
      BY <2>1, <2>2
    <3>2. QED
      BY <1>3, <1>4, <2>2, <3>1
  <2>3. x \in Int
    OBVIOUS
  <2>4. QED
    BY <2>2, <2>3 DEF ReadsAllBut
<1>7. CASE ~ \E x \in 0 .. 31 : m = 4 + 2 * x
  <2>1. ASSUME NEW i \in 0 .. 31
        PROVE  ReadBit(p, i) = DataBit(f, i)
    <3>1. m # 4 + 2 * i /\ m # 3 + 2 * i
      BY <1>5, <1>7, <2>1
    <3>2. m < 3 + 2 * i \/ 4 + 2 * i < m
      BY <3>1
    <3>3. QED
      BY <1>3, <1>4, <2>1, <3>2
  <2>2. -1 \in Int
    OBVIOUS
  <2>3. QED
    BY <2>1, <2>2 DEF ReadsAllBut
<1>8. QED
  BY <1>6, <1>7

-----------------------------------------------------------------------------
(* The pulses of what was played. *)
LEMMA PulsesPlayed ==
  ASSUME played \in Seq(Segments)
  PROVE  /\ DOMAIN played = 1 .. Len(played) /\ Len(played) \in Nat
         /\ Pulses \in Seq(Int) /\ Len(Pulses) = Len(played)
         /\ \A n \in 1 .. Len(played) : Pulses[n] = played[n].duration_us
<1>1. DOMAIN played = 1 .. Len(played) /\ Len(played) \in Nat
  OBVIOUS
<1>2. \A n \in 1 .. Len(played) : played[n].duration_us \in Int
  <2> SUFFICES ASSUME NEW n \in 1 .. Len(played)
               PROVE  played[n].duration_us \in Int
    OBVIOUS
  <2>1. played[n] \in Segments
    OBVIOUS
  <2>2. played[n].duration_us \in NecWidths
    BY <2>1 DEF Segments
  <2>3. QED
    BY <2>2, WidthsFit
<1>3. Pulses = [n \in 1 .. Len(played) |-> played[n].duration_us]
  BY <1>1 DEF Pulses
<1>4. QED
  BY <1>1, <1>2, <1>3

(* The pulses of what was played of a data frame. *)
LEMMA PulsesBegun ==
  ASSUME NEW f, Begun(f)
  PROVE  BegunAs(Pulses, f)
<1>1. played \in Seq(Segments) /\ Len(played) <= 67 /\ \A n \in 1 .. Len(played) : played[n].duration_us = Width(f, n)
  BY DEF Begun
<1>2. QED
  BY <1>1, PulsesPlayed DEF BegunAs

(* What the receiver makes of a sequence without the leader of a frame.     *)
LEMMA NoLeader ==
  ASSUME NEW p \in Seq(Int),
         Len(p) >= 3 => \/ p[1] < 4500
                        \/ p[2] < 1125
                        \/ p[2] > 6750
  PROVE  decode(p) = Error
<1>1. CASE Len(p) < 3 \/ ~ matches(p[1], LEADER_MARK)
  BY <1>1 DEF decode
<1>2. CASE ~ (Len(p) < 3) /\ matches(p[1], LEADER_MARK)
  <2>1. p[1] \in Int /\ p[2] \in Int /\ Len(p) >= 3
    BY <1>2
  <2>2. 4500 <= p[1]
    BY <1>2, Tolerances
  <2>3. matches(p[2], REPEAT_SPACE) <=> 1125 <= p[2] /\ p[2] <= 3375
    BY Tolerances
  <2>4. matches(p[2], LEADER_SPACE) <=> 2250 <= p[2] /\ p[2] <= 6750
    BY Tolerances
  <2>5. ~ matches(p[2], REPEAT_SPACE) /\ ~ matches(p[2], LEADER_SPACE)
    BY <2>1, <2>2, <2>3, <2>4
  <2>6. QED
    BY <1>2, <2>5 DEF decode
<1>3. QED
  BY <1>1, <1>2

(* A sequence too short for a data frame is none.                           *)
LEMMA ShortOnes ==
  ASSUME NEW p, Len(p) \in Nat, Len(p) < 66
  PROVE  decode(p) \in {Error, Repeat}
  BY TooShort DEF decode

(* What the receiver makes of a frame when its leader is that of a frame.   *)
LEMMA WithLeader ==
  ASSUME NEW f \in DataFrame, NEW p \in Seq(Int), NEW x \in Int, BitsReadable(p) => ReadsAllBut(p, f, x),
         Len(p) >= 3 => p[2] < 1125 \/ p[2] > 3375
  PROVE  decode(p) \in {Error, f}
<1>1. \/ decode(p) \in {Error, f}
      \/ decode(p) = Repeat /\ Len(p) >= 3 /\ matches(p[1], LEADER_MARK) /\ matches(p[2], REPEAT_SPACE)
  BY FrameOrError
<1>2. ASSUME Len(p) >= 3
      PROVE  ~ matches(p[2], REPEAT_SPACE)
  <2>1. p[2] \in Int
    BY <1>2
  <2>2. matches(p[2], REPEAT_SPACE) <=> 1125 <= p[2] /\ p[2] <= 3375
    BY Tolerances
  <2>3. QED
    BY <1>2, <2>1, <2>2
<1>3. QED
  BY <1>1, <1>2

-----------------------------------------------------------------------------
(* A stretched frame. *)
LEMMA StretchedPulses ==
  ASSUME NEW f \in DataFrame, Begun(f), NEW d \in Nat, d <= 560
  PROVE  /\ Stretched(d) \in Seq(Int) /\ StretchedBy(Stretched(d), Pulses, d)
         /\ BegunAs(Pulses, f)
<1> DEFINE p == Stretched(d)
<1>1. /\ played \in Seq(Segments) /\ Len(played) <= 67
      /\ \A n \in 1 .. Len(played) : played[n].carrier_on = (n % 2 = 1)
  BY DEF Begun
<1>2. /\ DOMAIN played = 1 .. Len(played) /\ Len(played) \in Nat
      /\ Pulses \in Seq(Int) /\ Len(Pulses) = Len(played)
  BY <1>1, PulsesPlayed
<1>3. \A n \in 1 .. Len(played) : p[n] = IF played[n].carrier_on THEN Pulses[n] + d ELSE Pulses[n] - d
  BY <1>2 DEF Stretched
<1>4. \A n \in 1 .. Len(played) : p[n] = IF n % 2 = 1 THEN Pulses[n] + d ELSE Pulses[n] - d
  BY <1>1, <1>3
<1>5. p = [n \in 1 .. Len(played) |-> p[n]]
  BY <1>2 DEF Stretched
<1>6. \A n \in 1 .. Len(played) : p[n] \in Int
  <2>1. \A n \in 1 .. Len(played) : Pulses[n] \in Int
    BY <1>2
  <2> HIDE DEF p
  <2>2. QED
    BY <1>4, <2>1
<1> HIDE DEF p
<1>7. p \in Seq(Int) /\ Len(p) = Len(played)
  BY <1>2, <1>5, <1>6
<1>8. BegunAs(Pulses, f)
  BY PulsesBegun
<1>9. QED
  BY <1>2, <1>4, <1>7, <1>8 DEF StretchedBy, p

(* A data frame whose marks are stretched is an error or is read as sent. *)
LEMMA HearStretched ==
  ASSUME NEW f \in DataFrame, Begun(f), NEW d \in Nat, d <= 560
  PROVE  decode(Stretched(d)) \in {Error, f}
<1> DEFINE p == Stretched(d)
<1>1. p \in Seq(Int) /\ StretchedBy(p, Pulses, d) /\ BegunAs(Pulses, f)
  BY StretchedPulses
<1> HIDE DEF p
<1>2. /\ BitsReadable(p) => ReadsAllBut(p, f, -1)
      /\ Len(Pulses) >= 2 => p[1] = 9000 + d /\ p[2] = 4500 - d
  <2>1. StretchedRight(p, Pulses, f, d)
    BY <1>1, StretchedRead, Zenon
  <2>2. QED
    BY <2>1 DEF StretchedRight
<1>3. Len(p) >= 3 => p[2] > 3375
  BY <1>1, <1>2 DEF StretchedBy
<1>4. -1 \in Int
  OBVIOUS
<1>5. QED
  BY <1>1, <1>2, <1>3, <1>4, WithLeader DEF p

(* The frame, an error, or a repeat if the space of the leader was changed. *)
RightOrRepeat(g, f, m) == g \in {Error, f} \/ (g = Repeat /\ m = 2)

(* A frame with one pulse of another width.                                 *)
LEMMA HearChanged ==
  ASSUME NEW f \in DataFrame, Begun(f), NEW m \in DOMAIN played, NEW w \in Nat
  PROVE  RightOrRepeat(decode(Changed(m, w)), f, m)
<1> DEFINE p == Changed(m, w)
<1>1. /\ Pulses \in Seq(Int) /\ m \in 1 .. Len(Pulses) /\ BegunAs(Pulses, f)
  BY PulsesPlayed, PulsesBegun DEF Begun
<1>2. /\ p \in Seq(Int) /\ Len(p) = Len(Pulses)
      /\ \A n \in 1 .. Len(Pulses) : n # m => p[n] = Pulses[n]
  BY <1>1 DEF Changed
<1> HIDE DEF p
<1>3. PICK x \in Int : BitsReadable(p) => ReadsAllBut(p, f, x)
  BY <1>1, <1>2, ChangedRead
<1>4. CASE m # 2
  <2>1. Len(p) >= 3 => p[2] = 4500
    <3>1. Len(Pulses) >= 2 => Pulses[2] = 4500
      BY <1>1, LeaderOf
    <3>2. QED
      BY <1>2, <1>4, <3>1
  <2>2. Len(p) >= 3 => p[2] < 1125 \/ p[2] > 3375
    BY <2>1
  <2>3. QED
    <3>1. decode(p) \in {Error, f}
      BY <1>2, <1>3, <2>2, WithLeader
    <3>2. RightOrRepeat(decode(p), f, m)
      BY <3>1 DEF RightOrRepeat
    <3>3. QED
      BY <3>2 DEF p
<1>5. CASE m = 2
  <2>1. decode(p) \in {Error, f} \/ decode(p) = Repeat
    BY <1>3, FrameOrError
  <2>2. QED
    BY <1>5, <2>1 DEF p, RightOrRepeat
<1>6. QED
  BY <1>4, <1>5

-----------------------------------------------------------------------------
(* Sequence p is b followed by c. *)
Joined(p, b, c) ==
  /\ Len(p) = Len(b) + Len(c)
  /\ \A n \in 1 .. Len(b) : p[n] = b[n]
  /\ \A n \in 1 .. Len(c) : p[Len(b) + n] = c[n]

(* The elements of two sequences joined. *)
LEMMA JoinedElements ==
  ASSUME NEW S, NEW b \in Seq(S), NEW c \in Seq(S)
  PROVE  b \o c \in Seq(S) /\ Joined(b \o c, b, c)
<1>1. Len(b) \in Nat /\ Len(c) \in Nat
  OBVIOUS
<1>2. b \o c \in Seq(S) /\ Len(b \o c) = Len(b) + Len(c)
  OBVIOUS
<1>3. ASSUME NEW n \in 1 .. Len(b)
      PROVE  (b \o c)[n] = b[n]
  OBVIOUS
<1>4. ASSUME NEW n \in 1 .. Len(c)
      PROVE  (b \o c)[Len(b) + n] = c[n]
  <2>1. Len(b) + n \in 1 .. Len(b) + Len(c) /\ ~ (Len(b) + n <= Len(b)) /\ (Len(b) + n) - Len(b) = n
    BY <1>1
  <2>2. QED
    BY <2>1
<1>5. QED
  BY <1>2, <1>3, <1>4 DEF Joined

(* The tail of a sequence. *)
LEMMA TailElements ==
  ASSUME NEW Q \in Seq(Int), NEW m \in 1 .. Len(Q)
  PROVE  /\ SubSeq(Q, m + 1, Len(Q)) \in Seq(Int) /\ Len(SubSeq(Q, m + 1, Len(Q))) = Len(Q) - m
         /\ \A n \in 1 .. Len(Q) - m : SubSeq(Q, m + 1, Len(Q))[n] = Q[m + n]
<1>1. Len(Q) \in Nat
  OBVIOUS
<1>2. \A i \in m + 1 .. Len(Q) : Q[i] \in Int
  BY <1>1
<1>3. SubSeq(Q, m + 1, Len(Q)) \in Seq(Int) /\ Len(SubSeq(Q, m + 1, Len(Q))) = Len(Q) - m
  BY <1>1
<1>4. ASSUME NEW n \in 1 .. Len(Q) - m
      PROVE  SubSeq(Q, m + 1, Len(Q))[n] = Q[m + n]
  <2>1. (m + 1) + n - 1 = m + n /\ n \in 1 .. Len(Q) - (m + 1) + 1
    BY <1>1
  <2>2. SubSeq(Q, m + 1, Len(Q))[n] = Q[(m + 1) + n - 1]
    BY <1>1, <1>2, <2>1, SubSeqProperties
  <2>3. QED
    BY <2>1, <2>2, Zenon
<1>5. QED
  BY <1>3, <1>4

(* In p, pulses m and m + 1 of Q have become one. *)
OneEdgeLess(p, Q, m) ==
  /\ p \in Seq(Int) /\ Len(p) = Len(Q) - 1
  /\ \A n \in 1 .. m - 1 : p[n] = Q[n]
  /\ p[m] = Q[m] + Q[m + 1]
  /\ \A n \in m + 1 .. Len(Q) - 1 : p[n] = Q[n + 1]

(* The pulses that are left when an edge is missed. *)
LEMMA EdgeElements ==
  ASSUME NEW Q \in Seq(Int), NEW m \in 1 .. Len(Q) - 1, NEW p,
         p = SubSeq(Q, 1, m - 1) \o <<Q[m] + Q[m + 1]>> \o SubSeq(Q, m + 2, Len(Q))
  PROVE  OneEdgeLess(p, Q, m)
<1> DEFINE a == SubSeq(Q, 1, m - 1)
           v == Q[m] + Q[m + 1]
           c == SubSeq(Q, m + 2, Len(Q))
           b == a \o <<v>>
<1>1. Len(Q) \in Nat /\ v \in Int
  OBVIOUS
<1>2. a \in Seq(Int) /\ Len(a) = m - 1 /\ \A n \in 1 .. m - 1 : a[n] = Q[n]
  BY <1>1
<1>3. c \in Seq(Int) /\ Len(c) = Len(Q) - (m + 1) /\ \A n \in 1 .. Len(Q) - (m + 1) : c[n] = Q[(m + 1) + n]
  <2>1. m + 1 \in 1 .. Len(Q) /\ (m + 1) + 1 = m + 2
    BY <1>1
  <2>2. c = SubSeq(Q, (m + 1) + 1, Len(Q))
    BY <2>1, Zenon
  <2>3. QED
    BY <2>1, <2>2, TailElements, Zenon
<1> HIDE DEF a, v, c
<1>4. b \in Seq(Int) /\ Ends(b, a, v)
  BY <1>1, <1>2, LastElement, Zenon
<1> HIDE DEF b
<1>5. Len(b) = m /\ b[m] = v /\ \A n \in 1 .. m - 1 : b[n] = Q[n]
  <2>1. Len(b) = Len(a) + 1 /\ b[Len(a) + 1] = v /\ \A n \in 1 .. Len(a) : b[n] = a[n]
    BY <1>4, Zenon DEF Ends
  <2>2. Len(a) + 1 = m
    BY <1>2
  <2>3. QED
    BY <1>2, <2>1, <2>2
<1>6. p = b \o c
  BY DEF a, b, c, v
<1>7. p \in Seq(Int) /\ Joined(p, b, c)
  BY <1>3, <1>4, <1>6, JoinedElements, Zenon
<1>8. /\ Len(p) = Len(b) + Len(c)
      /\ \A n \in 1 .. Len(b) : p[n] = b[n]
      /\ \A n \in 1 .. Len(c) : p[Len(b) + n] = c[n]
  BY <1>7, Zenon DEF Joined
<1>9. ASSUME NEW n \in 1 .. m - 1
      PROVE  p[n] = Q[n]
  <2>1. n \in 1 .. Len(b)
    BY <1>5
  <2>2. QED
    BY <1>5, <1>8, <2>1, Zenon
<1>10. p[m] = v
  <2>1. m \in 1 .. Len(b)
    BY <1>5
  <2>2. QED
    BY <1>5, <1>8, <2>1, Zenon
<1>11. ASSUME NEW n \in m + 1 .. Len(Q) - 1
       PROVE  p[n] = Q[n + 1]
  <2>1. n - m \in 1 .. Len(c) /\ n - m \in 1 .. Len(Q) - (m + 1) /\ Len(b) + (n - m) = n /\ (m + 1) + (n - m) = n + 1
    BY <1>1, <1>3, <1>5
  <2>2. p[Len(b) + (n - m)] = c[n - m]
    BY <1>8, <2>1, Zenon
  <2>3. c[n - m] = Q[(m + 1) + (n - m)]
    BY <1>3, <2>1, Zenon
  <2>4. QED
    BY <2>1, <2>2, <2>3, Zenon
<1>12. Len(p) = Len(Q) - 1
  <2>1. Len(b) = m /\ Len(c) = Len(Q) - (m + 1) /\ Len(p) = Len(b) + Len(c)
    BY <1>3, <1>5, <1>8, Zenon
  <2>2. Len(p) = m + (Len(Q) - (m + 1))
    BY <2>1, Zenon
  <2>3. m + (Len(Q) - (m + 1)) = Len(Q) - 1
    BY <1>1
  <2>4. QED
    BY <2>2, <2>3, Zenon
<1>13. QED
  BY <1>7, <1>9, <1>10, <1>11, <1>12, Zenon DEF v, OneEdgeLess

(* A frame with an edge missed. *)
LEMMA HearEdgeMissed ==
  ASSUME NEW f \in DataFrame, Begun(f), NEW m \in 1 .. Len(played) - 1
  PROVE  decode(EdgeMissed(m)) \in {Error, f}
<1> DEFINE p == EdgeMissed(m)
           Q == Pulses
<1>1. Q \in Seq(Int) /\ m \in 1 .. Len(Q) - 1 /\ BegunAs(Q, f) /\ Len(Q) \in Nat
  BY PulsesPlayed, PulsesBegun DEF Begun
<1>2. p = SubSeq(Q, 1, m - 1) \o <<Q[m] + Q[m + 1]>> \o SubSeq(Q, m + 2, Len(Q))
  BY DEF EdgeMissed
<1> HIDE DEF p, Q
<1>3. /\ p \in Seq(Int) /\ Len(p) = Len(Q) - 1
      /\ \A n \in 1 .. m - 1 : p[n] = Q[n]
      /\ p[m] = Q[m] + Q[m + 1]
      /\ \A n \in m + 1 .. Len(Q) - 1 : p[n] = Q[n + 1]
  <2>1. OneEdgeLess(p, Q, m)
    BY <1>1, <1>2, EdgeElements, Zenon
  <2>2. QED
    BY <2>1, Zenon DEF OneEdgeLess
<1>4. PICK x \in Int : BitsReadable(p) => ReadsAllBut(p, f, x)
  BY <1>1, <1>3, EdgeMissedRead, Zenon
<1>5. ASSUME Len(p) >= 3
      PROVE  p[2] < 1125 \/ p[2] > 3375
  <2>1. Q[2] = 4500 /\ Q[3] = 560
    <3>1. 0 \in 0 .. 31 /\ 3 + 2 * 0 = 3
      OBVIOUS
    <3>2. BitPulses(Q, f, 0)
      BY <1>1, <3>1, BitPulsesOf, Zenon
    <3>3. Q[3] = 560
      BY <1>1, <1>3, <1>5, <3>1, <3>2 DEF BitPulses
    <3>4. Len(Q) >= 2
      BY <1>1, <1>3, <1>5
    <3>5. QED
      BY <1>1, <3>3, <3>4, LeaderOf
  <2>2. CASE m = 1
    <3>1. 2 \in m + 1 .. Len(Q) - 1 /\ 2 + 1 = 3
      BY <1>1, <1>3, <1>5, <2>2
    <3>2. p[2] = Q[3]
      BY <1>3, <3>1
    <3>3. QED
      BY <2>1, <3>2
  <2>3. CASE m = 2
    BY <1>3, <2>1, <2>3
  <2>4. CASE m > 2
    <3>1. 2 \in 1 .. m - 1
      BY <1>1, <2>4
    <3>2. p[2] = Q[2]
      BY <1>3, <3>1
    <3>3. QED
      BY <2>1, <3>2
  <2>5. QED
    BY <1>1, <2>2, <2>3, <2>4
<1>6. QED
  BY <1>3, <1>4, <1>5, WithLeader DEF p

(* A frame after a false start. *)
LEMMA HearFalseStart ==
  ASSUME NEW f \in DataFrame, Begun(f), NEW w \in Nat
  PROVE  decode(<<w>> \o Pulses) = Error
<1> DEFINE Q == Pulses
           p == <<w>> \o Q
<1>1. Q \in Seq(Int) /\ BegunAs(Q, f) /\ Len(Q) \in Nat
  BY PulsesPlayed, PulsesBegun DEF Begun
<1> HIDE DEF Q
<1>2. p \in Seq(Int) /\ Len(p) = Len(Q) + 1 /\ Begins(p, w, Q)
  <2>1. w \in Int
    OBVIOUS
  <2>2. QED
    BY <1>1, <2>1, ConsElements, ConsType, Zenon
<1> HIDE DEF p
<1>3. Len(p) >= 3 => p[2] > 6750
  <2> SUFFICES ASSUME Len(p) >= 3
               PROVE  p[2] > 6750
    OBVIOUS
  <2>1. 1 \in 1 .. Len(Q) /\ Len(Q) >= 1 /\ 1 + 1 = 2
    BY <1>1, <1>2
  <2>2. p[1 + 1] = Q[1]
    BY <1>2, <2>1, Zenon DEF Begins
  <2>3. Q[1] = 9000
    BY <1>1, <2>1, LeaderOf
  <2>4. QED
    BY <2>1, <2>2, <2>3
<1>4. decode(p) = Error
  BY <1>2, <1>3, NoLeader
<1>5. QED
  BY <1>4 DEF p, Q

(* No pulse after the first two is as long as a leader.                     *)
LEMMA LaterPulses ==
  ASSUME NEW f, NEW Q, BegunAs(Q, f), NEW n \in 3 .. Len(Q)
  PROVE  Q[n] < 4500
<1>1. Q[n] = Width(f, n)
  <2>1. Len(Q) \in Nat /\ n \in 1 .. Len(Q)
    BY DEF BegunAs
  <2>2. QED
    BY <2>1 DEF BegunAs
<1>2. n # 1 /\ n # 2
  OBVIOUS
<1>3. QED
  BY <1>1, <1>2 DEF Width, Space, BIT_MARK, ONE_SPACE, ZERO_SPACE

(* The tail of a frame. *)
LEMMA HearTail ==
  ASSUME NEW f \in DataFrame, Begun(f), NEW m \in DOMAIN played
  PROVE  decode(SubSeq(Pulses, m + 1, Len(played))) = Error
<1> DEFINE Q == Pulses
           p == SubSeq(Q, m + 1, Len(played))
<1>1. Q \in Seq(Int) /\ BegunAs(Q, f) /\ Len(Q) \in Nat /\ Len(Q) = Len(played) /\ m \in 1 .. Len(Q)
  BY PulsesPlayed, PulsesBegun DEF Begun
<1> HIDE DEF Q
<1>2. /\ p \in Seq(Int) /\ Len(p) = Len(Q) - m
      /\ \A n \in 1 .. Len(Q) - m : p[n] = Q[m + n]
  <2>1. p = SubSeq(Q, m + 1, Len(Q))
    BY <1>1, Zenon
  <2>2. QED
    BY <1>1, <2>1, TailElements, Zenon
<1> HIDE DEF p
<1>3. ASSUME Len(p) >= 3
      PROVE  p[1] < 4500 \/ p[2] < 1125
  <2>0. Len(Q) \in Nat /\ m \in Nat /\ m >= 1 /\ Len(Q) >= m + 3
    <3>1. Len(p) = Len(Q) - m
      BY <1>2
    <3>2. Len(Q) \in Nat /\ m \in 1 .. Len(Q)
      BY <1>1
    <3>3. QED
      BY <1>3, <3>1, <3>2
  <2>1. p[1] = Q[m + 1] /\ p[2] = Q[m + 2]
    <3>1. 1 \in 1 .. Len(Q) - m /\ 2 \in 1 .. Len(Q) - m
      BY <2>0
    <3>2. QED
      BY <1>2, <3>1, Zenon
  <2>2. CASE m = 1
    <3>1. PICK i \in 0 .. 31 : i = 0
      OBVIOUS
    <3>2. BitPulses(Q, f, i)
      BY <1>1, BitPulsesOf, Zenon
    <3>3. Len(Q) >= 3 + 2 * i
      BY <2>0, <2>2, <3>1
    <3>4. Q[3 + 2 * i] = 560
      BY <3>2, <3>3, Zenon DEF BitPulses
    <3>5. m + 2 = 3 + 2 * i
      BY <2>2, <3>1
    <3>6. p[2] = Q[3 + 2 * i]
      <4>1. p[2] = Q[m + 2]
        BY <2>1
      <4>2. QED
        BY <3>5, <4>1, Zenon
    <3>7. QED
      BY <3>4, <3>6
  <2>3. CASE m > 1
    <3>1. m + 1 \in 3 .. Len(Q)
      BY <2>0, <2>3
    <3>2. Q[m + 1] < 4500
      BY <1>1, <3>1, LaterPulses
    <3>3. QED
      BY <2>1, <3>2
  <2>4. QED
    BY <1>1, <2>2, <2>3
<1>4. decode(p) = Error
  BY <1>2, <1>3, NoLeader
<1>5. QED
  BY <1>4 DEF p, Q

-----------------------------------------------------------------------------
(* Whatever becomes of a repeat frame, it is an error or a repeat.          *)
LEMMA RepeatReceived ==
  ASSUME played \in Seq(Segments), Len(played) <= 3
  PROVE  /\ \A d \in Stretch : decode(Stretched(d)) \in {Error, Repeat}
         /\ \A n \in DOMAIN played, w \in Widths : decode(Changed(n, w)) \in {Error, Repeat}
         /\ \A n \in 1 .. Len(played) - 1 : decode(EdgeMissed(n)) \in {Error, Repeat}
         /\ \A w \in Widths : decode(<<w>> \o Pulses) \in {Error, Repeat}
         /\ \A n \in DOMAIN played : decode(SubSeq(Pulses, n + 1, Len(played))) \in {Error, Repeat}
<1>1. /\ DOMAIN played = 1 .. Len(played) /\ Len(played) \in Nat
      /\ Pulses \in Seq(Int) /\ Len(Pulses) = Len(played)
  BY PulsesPlayed
<1>2. ASSUME NEW d \in Stretch PROVE decode(Stretched(d)) \in {Error, Repeat}
  <2>1. Len(Stretched(d)) = Len(played)
    BY <1>1 DEF Stretched
  <2>2. QED
    BY <1>1, <2>1, ShortOnes
<1>3. ASSUME NEW n \in DOMAIN played, NEW w \in Widths PROVE decode(Changed(n, w)) \in {Error, Repeat}
  <2>1. Len(Changed(n, w)) = Len(played)
    BY <1>1 DEF Changed
  <2>2. QED
    BY <1>1, <2>1, ShortOnes
<1>4. ASSUME NEW n \in 1 .. Len(played) - 1 PROVE decode(EdgeMissed(n)) \in {Error, Repeat}
  <2> DEFINE Q == Pulses
             p == EdgeMissed(n)
  <2>1. p = SubSeq(Q, 1, n - 1) \o <<Q[n] + Q[n + 1]>> \o SubSeq(Q, n + 2, Len(Q))
    BY DEF EdgeMissed
  <2>2. Q \in Seq(Int) /\ n \in 1 .. Len(Q) - 1 /\ Len(Q) <= 3 /\ Len(Q) \in Nat
    BY <1>1
  <2> HIDE DEF p, Q
  <2>3. OneEdgeLess(p, Q, n)
    BY <2>1, <2>2, EdgeElements, Zenon
  <2>4. Len(p) = Len(Q) - 1
    BY <2>3, Zenon DEF OneEdgeLess
  <2>5. Len(p) \in Nat /\ Len(p) < 66
    BY <2>2, <2>4
  <2>6. decode(p) \in {Error, Repeat}
    BY <2>5, ShortOnes
  <2>7. QED
    BY <2>6 DEF p
<1>5. ASSUME NEW w \in Widths PROVE decode(<<w>> \o Pulses) \in {Error, Repeat}
  <2> DEFINE Q == Pulses
             p == <<w>> \o Q
  <2>1. Q \in Seq(Int) /\ Len(Q) <= 3 /\ w \in Int
    BY <1>1, WidthAssumption
  <2> HIDE DEF Q
  <2>2. Len(p) = Len(Q) + 1
    BY <2>1, ConsType, Zenon
  <2> HIDE DEF p
  <2>3. Len(p) \in Nat /\ Len(p) < 66
    BY <2>1, <2>2
  <2>4. decode(p) \in {Error, Repeat}
    BY <2>3, ShortOnes
  <2>5. QED
    BY <2>4 DEF p, Q
<1>6. ASSUME NEW n \in DOMAIN played PROVE decode(SubSeq(Pulses, n + 1, Len(played))) \in {Error, Repeat}
  <2> DEFINE Q == Pulses
             p == SubSeq(Q, n + 1, Len(played))
  <2>1. Q \in Seq(Int) /\ n \in 1 .. Len(Q) /\ Len(Q) <= 3 /\ Len(Q) = Len(played)
    BY <1>1
  <2> HIDE DEF Q
  <2>2. Len(p) = Len(Q) - n
    BY <2>1, TailElements
  <2> HIDE DEF p
  <2>3. Len(p) \in Nat /\ Len(p) < 66
    BY <2>1, <2>2
  <2>4. decode(p) \in {Error, Repeat}
    BY <2>3, ShortOnes
  <2>5. QED
    BY <2>4 DEF p, Q
<1>7. QED
  BY <1>2, <1>3, <1>4, <1>5, <1>6

(* Whatever becomes of a data frame, it is an error or the frame itself, or *)
(* a repeat if the space of its leader was changed.                         *)
LEMMA FrameReceived ==
  ASSUME NEW f \in DataFrame, Begun(f)
  PROVE  /\ \A d \in Stretch : decode(Stretched(d)) \in {Error, f}
         /\ \A n \in DOMAIN played, w \in Widths : RightOrRepeat(decode(Changed(n, w)), f, n)
         /\ \A n \in 1 .. Len(played) - 1 : decode(EdgeMissed(n)) \in {Error, f}
         /\ \A w \in Widths : decode(<<w>> \o Pulses) = Error
         /\ \A n \in DOMAIN played : decode(SubSeq(Pulses, n + 1, Len(played))) = Error
<1>1. \A d \in Stretch : d \in Nat /\ d <= 560
  BY WidthAssumption DEF ZERO_SPACE
<1>2. \A w \in Widths : w \in Nat
  BY WidthAssumption
<1>3. ASSUME NEW d \in Stretch PROVE decode(Stretched(d)) \in {Error, f}
  BY <1>1, HearStretched
<1>4. ASSUME NEW n \in DOMAIN played, NEW w \in Widths
      PROVE  RightOrRepeat(decode(Changed(n, w)), f, n)
  <2>1. w \in Nat
    BY <1>2
  <2>2. QED
    BY <2>1, HearChanged, Zenon
<1>5. ASSUME NEW n \in 1 .. Len(played) - 1 PROVE decode(EdgeMissed(n)) \in {Error, f}
  BY HearEdgeMissed
<1>6. ASSUME NEW w \in Widths PROVE decode(<<w>> \o Pulses) = Error
  BY <1>2, HearFalseStart
<1>7. ASSUME NEW n \in DOMAIN played PROVE decode(SubSeq(Pulses, n + 1, Len(played))) = Error
  BY HearTail
<1>8. QED
  BY <1>3, <1>4, <1>5, <1>6, <1>7

(* What is sent is nothing, a repeat or a data frame. *)
LEMMA WhatIsSent ==
  ASSUME Transmitter, sent # Nothing, sent # Repeat
  PROVE  sent \in DataFrame
<1>1. sent \in Frames
  BY DEF Transmitter, IrTxInv, TxTypeOK
<1>2. PICK a \in Bytes, c \in Bytes : sent = [address |-> a, command |-> c]
  BY <1>1 DEF Frames
<1>3. a \in Byte /\ c \in Byte
  BY BytesAssumption
<1>4. QED
  BY <1>2, <1>3 DEF DataFrame

(* A reception that is no misreading of what is sent. *)
LEMMA ReceivedRight ==
  ASSUME Transmitter, Receive
  PROVE  heard' \in {Error, sent'} \/ (heard' = Repeat /\ fault' = "leader")
<1>1. sent # Nothing /\ sent' = sent
  BY DEF Receive, Heard, playVars
<1>2. CASE sent = Repeat
  <2>1. played \in Seq(Segments) /\ Len(played) <= 3
    BY <1>1, <1>2, PlayedOfFrame
  <2>2. /\ \A d \in Stretch : decode(Stretched(d)) \in {Error, Repeat}
        /\ \A n \in DOMAIN played, w \in Widths : decode(Changed(n, w)) \in {Error, Repeat}
        /\ \A n \in 1 .. Len(played) - 1 : decode(EdgeMissed(n)) \in {Error, Repeat}
        /\ \A w \in Widths : decode(<<w>> \o Pulses) \in {Error, Repeat}
        /\ \A n \in DOMAIN played : decode(SubSeq(Pulses, n + 1, Len(played))) \in {Error, Repeat}
    BY <2>1, RepeatReceived
  <2>3. heard' \in {Error, Repeat}
    BY <2>2 DEF Receive, Heard
  <2>4. QED
    BY <1>1, <1>2, <2>3
<1>3. CASE sent # Repeat
  <2>1. sent \in DataFrame /\ Begun(sent)
    BY <1>1, <1>3, PlayedOfFrame, WhatIsSent
  <2>2. /\ \A d \in Stretch : decode(Stretched(d)) \in {Error, sent}
        /\ \A n \in DOMAIN played, w \in Widths : RightOrRepeat(decode(Changed(n, w)), sent, n)
        /\ \A n \in 1 .. Len(played) - 1 : decode(EdgeMissed(n)) \in {Error, sent}
        /\ \A w \in Widths : decode(<<w>> \o Pulses) = Error
        /\ \A n \in DOMAIN played : decode(SubSeq(Pulses, n + 1, Len(played))) = Error
    BY <2>1, FrameReceived
  <2>3. heard' \in {Error, sent} \/ (heard' = Repeat /\ fault' = "leader")
    BY <2>2 DEF Receive, Heard, RightOrRepeat
  <2>4. QED
    BY <1>1, <2>3
<1>4. QED
  BY <1>2, <1>3

(* Only a reception and a new transmission change what was heard.           *)
LEMMA HeardKept ==
  ASSUME [TxNext]_txVars, ~ Receive, \A f \in Frames : ~ Send(f)
  PROVE  UNCHANGED <<sent, fault, heard>> /\ (cut' = cut \/ cut' = TRUE)
  BY DEF TxNext, TxTask, PlayFirst, RegisterFirst, RegisterFirstFails, StoreFirst, SegmentTimer, PlayNext, PlayedAll,
         OthersRegister, OthersRelease, txVars, playVars, airVars

(***************************************************************************)
(* No single damage to a frame, whatever the widths of the pulses, and no  *)
(* transmission cut short makes the receiver take a frame for another: the *)
(* inverse bytes of the NEC frame find out one wrong bit, and no damage of *)
(* these kinds makes two.                                                  *)
(***************************************************************************)
THEOREM NoFrameMisread == TxSpec => []NeverMisread
<1>1. TxInit => NeverMisread
  BY DEF TxInit, NeverMisread
<1>2. Transmitter /\ NeverMisread /\ [TxNext]_txVars => NeverMisread'
  <2> SUFFICES ASSUME Transmitter, NeverMisread, [TxNext]_txVars
               PROVE  NeverMisread'
    OBVIOUS
  <2>1. CASE Receive
    BY <2>1, ReceivedRight DEF NeverMisread
  <2>2. CASE \E f \in Frames : Send(f)
    BY <2>2 DEF Send, NeverMisread
  <2>3. CASE ~ Receive /\ ~ \E f \in Frames : Send(f)
    BY <2>3, HeardKept DEF NeverMisread
  <2>4. QED
    BY <2>1, <2>2, <2>3
<1>3. QED
  BY <1>1, <1>2, TransmitterInvariance, PTL DEF TxSpec

-----------------------------------------------------------------------------
(* A whole data frame, stretched within the tolerance, is decoded.          *)
LEMMA WholeFrameDecoded ==
  ASSUME NEW f \in DataFrame, Begun(f), Len(played) = 67, NEW d \in Nat, d <= 280
  PROVE  decode(Stretched(d)) = f
<1> DEFINE p == Stretched(d)
<1>1. p \in Seq(Int) /\ StretchedBy(p, Pulses, d) /\ BegunAs(Pulses, f)
  BY StretchedPulses
<1>2. Len(Pulses) = 67
  BY PulsesPlayed DEF Begun
<1> HIDE DEF p
<1>3. Len(p) = 67
  BY <1>1, <1>2 DEF StretchedBy
<1>4. d <= 560
  OBVIOUS
<1>5. /\ Len(Pulses) >= 2 => p[1] = 9000 + d /\ p[2] = 4500 - d
      /\ \A i \in 0 .. 31 : Len(Pulses) >= 4 + 2 * i => StretchedBit(p, f, i, d) /\ OnItsSide(p, f, i)
  <2>1. StretchedRight(p, Pulses, f, d)
    BY <1>1, <1>4, StretchedRead, Zenon
  <2>2. QED
    BY <2>1 DEF StretchedRight
<1>6. p[1] = 9000 + d /\ p[2] = 4500 - d
  BY <1>2, <1>5
<1>7. ASSUME NEW i \in 0 .. 31
      PROVE  /\ StretchedBit(p, f, i, d) /\ OnItsSide(p, f, i) /\ 4 + 2 * i <= Len(p)
  BY <1>2, <1>3, <1>5
<1>8. BitsReadable(p)
  <2> SUFFICES ASSUME NEW i \in 0 .. 31
               PROVE  /\ 4 + 2 * i <= Len(p) /\ matches(p[3 + 2 * i], BIT_MARK)
                      /\ matches(p[4 + 2 * i], ONE_SPACE) \/ matches(p[4 + 2 * i], ZERO_SPACE)
    BY DEF BitsReadable
  <2>1. StretchedBit(p, f, i, d) /\ 4 + 2 * i <= Len(p)
    BY <1>7
  <2>2. p[3 + 2 * i] = 560 + d /\ p[4 + 2 * i] = (IF DataBit(f, i) = 1 THEN 1690 ELSE 560) - d
    BY <2>1 DEF StretchedBit
  <2>3. /\ 280 <= p[3 + 2 * i] /\ p[3 + 2 * i] <= 840
        /\ \/ 845 <= p[4 + 2 * i] /\ p[4 + 2 * i] <= 2535
           \/ 280 <= p[4 + 2 * i] /\ p[4 + 2 * i] <= 840
    BY <2>2
  <2>4. matches(p[3 + 2 * i], BIT_MARK)
    BY <2>3, Tolerances
  <2>5. matches(p[4 + 2 * i], ONE_SPACE) \/ matches(p[4 + 2 * i], ZERO_SPACE)
    BY <2>3, Tolerances
  <2>6. QED
    BY <2>1, <2>4, <2>5
<1>9. ASSUME NEW i \in 0 .. 31
      PROVE  ReadBit(p, i) = DataBit(f, i)
  <2>1. OnItsSide(p, f, i)
    BY <1>7
  <2>2. QED
    BY <2>1, RightBit, Zenon
<1>10. ASSUME NEW k \in 0 .. 3
       PROVE  ReadByte(p, k) = DataBytes(f)[1 + k]
  <2>1. ASSUME NEW j \in 0 .. 7
        PROVE  ReadBit(p, 8 * k + j) = DataBit(f, 8 * k + j)
    <3>1. 8 * k + j \in 0 .. 31
      OBVIOUS
    <3>2. QED
      BY <1>9, <3>1, Zenon
  <2>2. DataBytes(f)[1 + k] \in Nat /\ DataBytes(f)[1 + k] <= 255
    BY BytesOf
  <2>3. QED
    BY <2>1, <2>2, ByteRead
<1>11. /\ ReadByte(p, 0) = f.address /\ ReadByte(p, 1) = 255 - f.address
       /\ ReadByte(p, 2) = f.command /\ ReadByte(p, 3) = 255 - f.command
  <2>1. 0 \in 0 .. 3 /\ 1 \in 0 .. 3 /\ 2 \in 0 .. 3 /\ 3 \in 0 .. 3
    OBVIOUS
  <2>2. /\ ReadByte(p, 0) = DataBytes(f)[1] /\ ReadByte(p, 1) = DataBytes(f)[2]
        /\ ReadByte(p, 2) = DataBytes(f)[3] /\ ReadByte(p, 3) = DataBytes(f)[4]
    <3>1. /\ ReadByte(p, 0) = DataBytes(f)[1 + 0] /\ ReadByte(p, 1) = DataBytes(f)[1 + 1]
          /\ ReadByte(p, 2) = DataBytes(f)[1 + 2] /\ ReadByte(p, 3) = DataBytes(f)[1 + 3]
      BY <1>10, <2>1, Zenon
    <3>2. QED
      BY <3>1
  <2>3. /\ DataBytes(f)[1] = f.address /\ DataBytes(f)[2] = 255 - f.address
        /\ DataBytes(f)[3] = f.command /\ DataBytes(f)[4] = 255 - f.command
    BY BytesOf
  <2>4. QED
    BY <2>2, <2>3, Zenon
<1>12. InversesMatch(p)
  <2>1. f.address \in Nat /\ f.command \in Nat
    BY BytesOf
  <2>2. QED
    BY <1>11, <2>1 DEF InversesMatch
<1>13. matches(p[1], LEADER_MARK) /\ ~ matches(p[2], REPEAT_SPACE) /\ matches(p[2], LEADER_SPACE)
  <2>1. /\ matches(p[1], LEADER_MARK) <=> 4500 <= p[1] /\ p[1] <= 13500
        /\ matches(p[2], REPEAT_SPACE) <=> 1125 <= p[2] /\ p[2] <= 3375
        /\ matches(p[2], LEADER_SPACE) <=> 2250 <= p[2] /\ p[2] <= 6750
    BY Tolerances
  <2>2. QED
    BY <1>6, <2>1
<1>14. ~ (Len(p) < 3)
  BY <1>3
<1>15. decode(p) = [address |-> ReadByte(p, 0), command |-> ReadByte(p, 2)]
  BY <1>8, <1>12, <1>13, <1>14, Zenon DEF decode
<1>16. f = [address |-> f.address, command |-> f.command]
  BY DEF DataFrame
<1>17. QED
  BY <1>11, <1>15, <1>16 DEF p

(* A whole repeat frame, stretched within the tolerance, is decoded.        *)
LEMMA WholeRepeatDecoded ==
  ASSUME played = <<Mark(LEADER_MARK), Gap(REPEAT_SPACE), Mark(BIT_MARK)>>, NEW d \in Nat, d <= 280
  PROVE  decode(Stretched(d)) = Repeat
<1> DEFINE p == Stretched(d)
<1>1. DOMAIN played = 1 .. 3
  BY DEF Mark, Gap
<1>2. Len(p) = 3
  BY <1>1 DEF Stretched
<1>3. /\ played[1] = Mark(LEADER_MARK) /\ played[2] = Gap(REPEAT_SPACE)
      /\ 1 \in DOMAIN played /\ 2 \in DOMAIN played
  BY <1>1
<1>4. p[1] = LEADER_MARK + d /\ p[2] = REPEAT_SPACE - d
  <2>1. /\ played[1].duration_us = LEADER_MARK /\ played[1].carrier_on = TRUE
        /\ played[2].duration_us = REPEAT_SPACE /\ played[2].carrier_on = FALSE
    BY <1>3, OnAndOff, Zenon
  <2>2. Pulses[1] = LEADER_MARK /\ Pulses[2] = REPEAT_SPACE
    BY <1>3, <2>1 DEF Pulses
  <2>3. QED
    BY <1>3, <2>1, <2>2 DEF Stretched
<1> HIDE DEF p
<1>5. p[1] = 9000 + d /\ p[2] = 2250 - d
  BY <1>4 DEF LEADER_MARK, REPEAT_SPACE
<1>6. matches(p[1], LEADER_MARK) /\ matches(p[2], REPEAT_SPACE)
  <2>1. /\ matches(p[1], LEADER_MARK) <=> 4500 <= p[1] /\ p[1] <= 13500
        /\ matches(p[2], REPEAT_SPACE) <=> 1125 <= p[2] /\ p[2] <= 3375
    BY Tolerances
  <2>2. QED
    BY <1>5, <2>1
<1>7. ~ (Len(p) < 3)
  BY <1>2
<1>8. QED
  BY <1>6, <1>7 DEF decode, p

(* The tolerance of the decoder, in microseconds of a mark.                 *)
Tolerance == (BIT_MARK * TOL_PCT) \div 100

(* An undamaged reception of a whole transmission is right.                 *)
LEMMA ReceivedAsSent ==
  ASSUME Stretch \subseteq 0 .. Tolerance, Transmitter, Receive, fault' = "none", ~ cut
  PROVE  heard' = sent'
<1>1. /\ sent # Nothing /\ sent' = sent /\ ~ is_transmitting
      /\ \E d \in Stretch : heard' = decode(Stretched(d))
  BY DEF Receive, Heard, playVars
<1>2. PICK d \in Stretch : heard' = decode(Stretched(d))
  BY <1>1
<1>3. d \in Nat /\ d <= 280
  BY DEF Tolerance, BIT_MARK, TOL_PCT
<1>4. played = segment_buf /\ segment_buf = flatten_waves(encode(sent))
  BY <1>1 DEF Transmitter, IrTxInv, PlayedInOrder, Loaded
<1>5. CASE sent = Repeat
  <2>1. played = <<Mark(LEADER_MARK), Gap(REPEAT_SPACE), Mark(BIT_MARK)>>
    BY <1>4, <1>5, RepeatSegments, Zenon
  <2>2. decode(Stretched(d)) = Repeat
    BY <1>3, <2>1, WholeRepeatDecoded, Zenon
  <2>3. QED
    BY <1>1, <1>2, <1>5, <2>2
<1>6. CASE sent # Repeat
  <2>1. sent \in DataFrame /\ Begun(sent)
    BY <1>1, <1>6, PlayedOfFrame, WhatIsSent
  <2>2. Len(played) = 67
    BY <1>4, <1>6, DataFrameSegments, Zenon
  <2>3. decode(Stretched(d)) = sent
    BY <1>3, <2>1, <2>2, WholeFrameDecoded, Zenon
  <2>4. QED
    BY <1>1, <1>2, <2>3
<1>7. QED
  BY <1>5, <1>6

(***************************************************************************)
(* What was sent whole is what is decoded, as long as the receiver does    *)
(* not stretch the marks by more than the decoder's tolerance.             *)
(***************************************************************************)
THEOREM FrameDecodedAsSent ==
  ASSUME Stretch \subseteq 0 .. Tolerance
  PROVE  TxSpec => []DecodesAsSent
<1>1. TxInit => DecodesAsSent
  BY DEF TxInit, DecodesAsSent
<1>2. Transmitter /\ DecodesAsSent /\ [TxNext]_txVars => DecodesAsSent'
  <2> SUFFICES ASSUME Transmitter, DecodesAsSent, [TxNext]_txVars
               PROVE  DecodesAsSent'
    OBVIOUS
  <2>1. CASE Receive
    <3>1. cut' = cut
      BY <2>1 DEF Receive, Heard, playVars
    <3>2. QED
      BY <2>1, <3>1, ReceivedAsSent DEF DecodesAsSent
  <2>2. CASE \E f \in Frames : Send(f)
    BY <2>2 DEF Send, DecodesAsSent
  <2>3. CASE ~ Receive /\ ~ \E f \in Frames : Send(f)
    BY <2>3, HeardKept DEF DecodesAsSent
  <2>4. QED
    BY <2>1, <2>2, <2>3
<1>3. QED
  BY <1>1, <1>2, TransmitterInvariance, PTL DEF TxSpec
=============================================================================
