------------------------------ MODULE NecCodec -------------------------------
(***************************************************************************)
(* The NEC protocol as the firmware sends and reads it: ir_tx_nec.c turns  *)
(* a frame into waves, ir_rx_nec.c turns pulse widths into a frame.  A     *)
(* wave is a mark and the space after it, in microseconds.  The bits of    *)
(* the four bytes are numbered from 0 in the order they are sent.          *)
(***************************************************************************)
EXTENDS Naturals, Sequences, SequencesExt

LEADER_MARK == 9000
LEADER_SPACE == 4500
BIT_MARK == 560
ZERO_SPACE == 560
ONE_SPACE == 1690
REPEAT_SPACE == 2250
TOL_PCT == 50
NecWidths == {LEADER_MARK, LEADER_SPACE, BIT_MARK, ZERO_SPACE, ONE_SPACE, REPEAT_SPACE}

Byte == 0 .. 255
DataFrame == [address : Byte, command : Byte]
Repeat == [is_repeat |-> TRUE]
Error == [error |-> TRUE]

-----------------------------------------------------------------------------
(* ir_tx_nec_encode, ir_tx_nec_encode_repeat.                               *)
Wave(mark, space) == [mark |-> mark, space |-> space]

DataBytes(f) == <<f.address, 255 - f.address, f.command, 255 - f.command>>

(* The weights of the bits of a byte, in the order they are sent.           *)
Weight == <<128, 64, 32, 16, 8, 4, 2, 1>>

LsbFirst(f, i) == (DataBytes(f)[1 + i \div 8] \div Weight[8 - (i % 8)]) % 2   \* variant
DataBit(f, i) == (DataBytes(f)[1 + i \div 8] \div Weight[1 + (i % 8)]) % 2

encode(f) ==
  IF f = Repeat
  THEN <<Wave(LEADER_MARK, REPEAT_SPACE), Wave(BIT_MARK, 0)>>
  ELSE <<Wave(LEADER_MARK, LEADER_SPACE)>>
       \o [n \in 1 .. 32 |-> Wave(BIT_MARK, IF DataBit(f, n - 1) = 1 THEN ONE_SPACE ELSE ZERO_SPACE)]
       \o <<Wave(BIT_MARK, 0)>>

-----------------------------------------------------------------------------
(* ir_rx_nec_decode of a sequence p of pulse widths.                        *)
matches(width, target) ==
  /\ width >= (target * (100 - TOL_PCT)) \div 100
  /\ width <= (target * (100 + TOL_PCT)) \div 100

(* nec_decode_data_bits: bit i is in the mark and the space from 3 + 2i on. *)
BitsReadable(p) ==
  \A i \in 0 .. 31 :
    /\ 4 + 2 * i <= Len(p)
    /\ matches(p[3 + 2 * i], BIT_MARK)
    /\ matches(p[4 + 2 * i], ONE_SPACE) \/ matches(p[4 + 2 * i], ZERO_SPACE)

ReadBit(p, i) == IF matches(p[4 + 2 * i], ONE_SPACE) THEN 1 ELSE 0

ReadByte(p, k) ==
  LET bit(j) == ReadBit(p, 8 * k + j)
  IN  128 * bit(0) + 64 * bit(1) + 32 * bit(2) + 16 * bit(3)
      + 8 * bit(4) + 4 * bit(5) + 2 * bit(6) + bit(7)

InverseUnchecked(p) == TRUE                           \* variant
InversesMatch(p) == ReadByte(p, 0) + ReadByte(p, 1) = 255 /\ ReadByte(p, 2) + ReadByte(p, 3) = 255

decode(p) ==
  IF Len(p) < 3 \/ ~ matches(p[1], LEADER_MARK) THEN Error
  ELSE IF matches(p[2], REPEAT_SPACE) THEN Repeat
  ELSE IF matches(p[2], LEADER_SPACE) /\ BitsReadable(p) /\ InversesMatch(p)
  THEN [address |-> ReadByte(p, 0), command |-> ReadByte(p, 2)]
  ELSE Error
=============================================================================
