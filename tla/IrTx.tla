-------------------------------- MODULE IrTx --------------------------------
(***************************************************************************)
(* drivers/device/ir_tx/ir_tx_drv.c under middleware/ir/ir_tx.c: the ir    *)
(* task starts a transmission, a chain of one-shot timers plays its        *)
(* segments, each timer interrupt arming the next.  The first timer may    *)
(* run out before the task that armed it has stored its id.                *)
(*                                                                         *)
(* The timer table is that of HSoftTimer: the first free entry is taken,   *)
(* an entry is free again before its callback runs.  What was played is    *)
(* received, possibly damaged on the way as an infrared link does, and     *)
(* decoded by ir_rx_nec.c.                                                 *)
(***************************************************************************)
EXTENDS NecCodec

CONSTANTS
  Bytes,        \* the addresses and commands sent
  Slots,        \* entries of the timer table
  MAX_SEGMENTS, \* IR_TX_DRV_MAX_SEGMENTS
  Widths,       \* pulse widths a disturbance can turn a pulse into
  Stretch       \* by how much the receiver lengthens marks and shortens spaces

ASSUME BytesAssumption == Bytes \subseteq Byte
ASSUME SegmentsAssumption == MAX_SEGMENTS \in Nat /\ MAX_SEGMENTS >= 67   \* a data frame
ASSUME SlotsAssumption == Slots \in Nat \ {0}
ASSUME WidthAssumption == Widths \subseteq Nat /\ Stretch \subseteq 0 .. ZERO_SPACE

VARIABLES
  segment_buf,     \* segment_buf, the first segment_total of it
  segment_index,
  is_transmitting,
  segment_timer_id,
  carrier,         \* the PWM output is on
  timer,           \* the entry in which the segment timer is armed, or NoSlot
  others,          \* the entries other drivers hold
  pc,              \* where the task is in ir_tx_drv_start_waves
  tid,             \* the id h_soft_timer_register returned to it
  sent,            \* history: the frame last started
  played,          \* history: the segments played of it
  cut,             \* history: no timer was free for one of its segments
  foreign,         \* history: another driver's timer was unregistered
  overtaken,       \* history: a timer ran out before its id was stored
  fault,           \* what became of the transmission on its way
  heard            \* what the receiver decoded

timerVars == <<segment_timer_id, timer, others, foreign, overtaken>>
playVars == <<segment_buf, segment_index, is_transmitting, carrier, sent, played, cut>>
airVars == <<fault, heard>>
txVars == <<segment_buf, segment_index, is_transmitting, segment_timer_id, carrier, timer, others,
            pc, tid, sent, played, cut, foreign, overtaken, fault, heard>>

NoSlot == Slots
Slot == 0 .. Slots - 1
Nothing == [nothing |-> TRUE]
Frames == [address : Bytes, command : Bytes] \cup {Repeat}

(* ir_tx_drv_init *)
TxInit ==
  /\ segment_buf = <<>> /\ segment_index = 0 /\ is_transmitting = FALSE
  /\ carrier = FALSE
  /\ segment_timer_id = NoSlot /\ timer = NoSlot /\ others = {}
  /\ pc = "idle" /\ tid = NoSlot
  /\ sent = Nothing /\ played = <<>> /\ cut = FALSE
  /\ foreign = FALSE /\ overtaken = FALSE
  /\ fault = "none" /\ heard = Nothing

-----------------------------------------------------------------------------
(* ir_tx_drv_flatten_waves *)
Mark(us) == [duration_us |-> us, carrier_on |-> TRUE]
Gap(us) == [duration_us |-> us, carrier_on |-> FALSE]
WaveSegments(w) ==
  (IF w.mark # 0 THEN <<Mark(w.mark)>> ELSE <<>>)
  \o (IF w.space # 0 THEN <<Gap(w.space)>> ELSE <<>>)

flatten_waves(waves) ==
  LET all == FlattenSeq([n \in DOMAIN waves |-> WaveSegments(waves[n])])
  IN  IF Len(all) <= MAX_SEGMENTS THEN all ELSE SubSeq(all, 1, MAX_SEGMENTS)

(***************************************************************************)
(* ir_tx_drv_play_next_segment in three parts: the switch of the carrier,  *)
(* the registration of the timer, the end of the transmission (which       *)
(* unregisters the timer id it finds stored).                              *)
(***************************************************************************)
SwitchCarrier ==
  /\ carrier' = segment_buf[segment_index + 1].carrier_on
  /\ segment_index' = segment_index + 1

Free(held) == Slot \ held
FirstFree(held) == CHOOSE i \in Free(held) : \A j \in Free(held) : i <= j
Register(held) == Free(held) # {} /\ timer' = FirstFree(held)

finish(id, armed) ==
  /\ is_transmitting' = FALSE
  /\ carrier' = FALSE
  /\ segment_timer_id' = NoSlot
  /\ timer' = IF armed = id THEN NoSlot ELSE armed
  /\ others' = others \ {id}
  /\ foreign' = (foreign \/ id \in others)

-----------------------------------------------------------------------------
(***************************************************************************)
(* The task: ir_tx_send_nec, ir_tx_send_nec_repeat, ir_tx_drv_start_waves. *)
(* A send during a transmission is refused and changes nothing.            *)
(***************************************************************************)
SendAnyway(f) ==          \* variant: busy is not tested
  /\ pc = "idle"
  /\ segment_buf' = flatten_waves(encode(f))
  /\ segment_index' = 0
  /\ is_transmitting' = TRUE
  /\ pc' = "play"
  /\ sent' = f /\ played' = <<>> /\ cut' = FALSE
  /\ fault' = "none" /\ heard' = Nothing
  /\ UNCHANGED <<carrier, timerVars, tid>>

Send(f) ==
  /\ pc = "idle" /\ ~ is_transmitting
  /\ segment_buf' = flatten_waves(encode(f))
  /\ segment_index' = 0
  /\ is_transmitting' = TRUE
  /\ pc' = "play"
  /\ sent' = f /\ played' = <<>> /\ cut' = FALSE
  /\ fault' = "none" /\ heard' = Nothing
  /\ UNCHANGED <<carrier, timerVars, tid>>

PlayFirst ==
  /\ pc = "play"
  /\ SwitchCarrier
  /\ pc' = "register"
  /\ UNCHANGED <<segment_buf, is_transmitting, sent, played, cut, timerVars, tid, airVars>>

RegisterFirst ==
  /\ pc = "register"
  /\ Register(others)
  /\ tid' = timer'
  /\ pc' = "store"
  /\ UNCHANGED <<playVars, segment_timer_id, others, foreign, overtaken, airVars>>

RegisterFirstGivesUp ==    \* variant: the task returns without ending the transmission
  /\ pc = "register"
  /\ Free(others) = {}
  /\ cut' = TRUE
  /\ pc' = "idle"
  /\ UNCHANGED <<segment_buf, segment_index, is_transmitting, carrier, sent, played, timerVars, tid, airVars>>

RegisterFirstFails ==
  /\ pc = "register"
  /\ Free(others) = {}
  /\ finish(segment_timer_id, NoSlot)
  /\ cut' = TRUE
  /\ pc' = "idle"
  /\ UNCHANGED <<segment_buf, segment_index, sent, played, overtaken, tid, airVars>>

StoreFirst ==
  /\ pc = "store"
  /\ segment_timer_id' = tid
  /\ tid' = NoSlot
  /\ pc' = "idle"
  /\ UNCHANGED <<playVars, timer, others, foreign, overtaken, airVars>>

TxTask == PlayFirst \/ RegisterFirst \/ RegisterFirstFails \/ StoreFirst

-----------------------------------------------------------------------------
(***************************************************************************)
(* The timer interrupt, ir_tx_drv_segment_timer_cb.  It resets the id, so  *)
(* that finish unregisters nothing.  Registering the next timer cannot     *)
(* fail here: the entry of the last one is free again.                     *)
(***************************************************************************)
SegmentOver ==
  /\ timer # NoSlot /\ is_transmitting
  /\ played' = Append(played, segment_buf[segment_index])
  /\ overtaken' = (overtaken \/ pc = "store")

PlayNext ==
  /\ SegmentOver
  /\ segment_index < Len(segment_buf)
  /\ SwitchCarrier
  /\ Register(others)
  /\ segment_timer_id' = timer'
  /\ UNCHANGED <<segment_buf, is_transmitting, sent, cut, others, foreign, pc, tid, airVars>>

PlayedAllKeepsId ==        \* variant: the id is not reset
  /\ SegmentOver
  /\ segment_index >= Len(segment_buf)
  /\ is_transmitting' = FALSE /\ carrier' = FALSE /\ timer' = NoSlot
  /\ UNCHANGED <<segment_buf, segment_index, segment_timer_id, others, foreign, sent, cut, pc, tid, airVars>>

PlayedAll ==
  /\ SegmentOver
  /\ segment_index >= Len(segment_buf)
  /\ finish(NoSlot, NoSlot)
  /\ UNCHANGED <<segment_buf, segment_index, sent, cut, pc, tid, airVars>>

SegmentTimer == PlayNext \/ PlayedAll

OthersRegister ==
  /\ Free(others \cup {timer}) # {}
  /\ others' = others \cup {FirstFree(others \cup {timer})}
  /\ UNCHANGED <<playVars, segment_timer_id, timer, foreign, overtaken, pc, tid, airVars>>

OthersRelease ==
  /\ \E i \in others : others' = others \ {i}
  /\ UNCHANGED <<playVars, segment_timer_id, timer, foreign, overtaken, pc, tid, airVars>>

-----------------------------------------------------------------------------
(***************************************************************************)
(* The way to the receiver.  It may stretch every mark at the cost of the  *)
(* spaces; a disturbance may change one pulse, or hide one edge, so that   *)
(* two pulses become one.  IrRx shows two more: a false pulse before the   *)
(* first, and the loss of all but a tail.                                  *)
(***************************************************************************)
Pulses == [n \in DOMAIN played |-> played[n].duration_us]
Stretched(d) ==
  [n \in DOMAIN played |-> IF played[n].carrier_on THEN Pulses[n] + d ELSE Pulses[n] - d]
Changed(n, w) == [Pulses EXCEPT ![n] = w]
EdgeMissed(n) ==
  SubSeq(Pulses, 1, n - 1) \o <<Pulses[n] + Pulses[n + 1]>> \o SubSeq(Pulses, n + 2, Len(Pulses))

Heard(kind, p) ==
  /\ ~ is_transmitting /\ pc = "idle" /\ sent # Nothing /\ heard = Nothing
  /\ fault' = kind
  /\ heard' = decode(p)
  /\ UNCHANGED <<playVars, timerVars, pc, tid>>

Receive ==
  \/ \E d \in Stretch : Heard("none", Stretched(d))
  \/ \E n \in DOMAIN played, w \in Widths : Heard(IF n = 2 THEN "leader" ELSE "pulse", Changed(n, w))
  \/ \E n \in 1 .. Len(played) - 1 : Heard("edge", EdgeMissed(n))
  \/ \E w \in Widths : Heard("false start", <<w>> \o Pulses)
  \/ \E n \in DOMAIN played : Heard("tail", SubSeq(Pulses, n + 1, Len(played)))

TxNext ==
  \/ \E f \in Frames : Send(f)
  \/ TxTask \/ SegmentTimer \/ OthersRegister \/ OthersRelease \/ Receive

TxSpec == TxInit /\ [][TxNext]_txVars

(* The ir task runs when it is ready, and its timers run out (HSoftTimer).  *)
TxFairSpec == TxSpec /\ WF_txVars(TxTask) /\ WF_txVars(SegmentTimer)

-----------------------------------------------------------------------------
(* The types. *)
TxTypeOK ==
  /\ segment_buf \in Seq([duration_us : NecWidths, carrier_on : BOOLEAN])
  /\ Len(segment_buf) <= MAX_SEGMENTS
  /\ segment_index \in 0 .. Len(segment_buf)
  /\ is_transmitting \in BOOLEAN /\ carrier \in BOOLEAN
  /\ segment_timer_id \in Slot \cup {NoSlot} /\ timer \in Slot \cup {NoSlot} /\ tid \in Slot \cup {NoSlot}
  /\ others \subseteq Slot \ {timer}
  /\ pc \in {"idle", "play", "register", "store"}
  /\ sent \in Frames \cup {Nothing}
  /\ played \in Seq([duration_us : NecWidths, carrier_on : BOOLEAN]) /\ Len(played) <= Len(segment_buf)
  /\ cut \in BOOLEAN /\ foreign \in BOOLEAN /\ overtaken \in BOOLEAN

(***************************************************************************)
(* The carrier is on exactly in the marks: it is off as soon as nothing is *)
(* transmitted, also when a transmission ended for want of a timer, and in *)
(* a segment it is what the segment says.                                  *)
(***************************************************************************)
CarrierFollows ==
  carrier = (is_transmitting /\ segment_index > 0 /\ segment_buf[segment_index].carrier_on)

(***************************************************************************)
(* Segments are played in order, each once, whichever of task and          *)
(* interrupt plays them, and a transmission ends with the last of them or  *)
(* because no timer was free.  While it goes on one timer is armed, or the *)
(* task is about to arm it.                                                *)
(***************************************************************************)
PlayedInOrder ==
  /\ played = SubSeq(segment_buf, 1, Len(played))
  /\ is_transmitting => (timer = NoSlot <=> pc \in {"play", "register"})
  /\ ~ is_transmitting => timer = NoSlot /\ (cut \/ played = segment_buf)

(***************************************************************************)
(* No other driver's timer is unregistered, unless the first timer ran out *)
(* before its id was stored: then a stale id lies in segment_timer_id      *)
(* until the next segment ends or the next transmission starts.            *)
(***************************************************************************)
ForeignTimersKept == ~ overtaken => ~ foreign

(* What was sent whole and only stretched is what is decoded.               *)
DecodesAsSent == heard # Nothing /\ fault = "none" /\ ~ cut => heard = sent

(***************************************************************************)
(* No damage to a frame, and no transmission cut short, makes the receiver *)
(* take it for another: the worst is a data frame read as a repeat, and    *)
(* only when the space of the leader is shortened.                         *)
(***************************************************************************)
NeverMisread == heard \in {Nothing, Error, sent} \/ (heard = Repeat /\ fault = "leader")

(* Every transmission ends. *)
TransmissionEnds == is_transmitting ~> ~ is_transmitting

(***************************************************************************)
(* The carrier is what the segment being played says, segments are played  *)
(* in order and each once, no foreign timer is dropped unless an id was    *)
(* stored too late, and all variables have their types.                    *)
(***************************************************************************)
IrTxInv ==
  /\ TxTypeOK
  /\ CarrierFollows
  /\ PlayedInOrder
  /\ ForeignTimersKept
=============================================================================
