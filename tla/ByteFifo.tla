------------------------------ MODULE ByteFifo ------------------------------
(***************************************************************************)
(* What lib/ringbuf promises its two users: a bounded first-in first-out   *)
(* queue of bytes.  One slot of the storage is always left empty, so at    *)
(* most Capacity - 1 bytes are held (lib/ringbuf/ringbuf.h:13).  RingBuf   *)
(* implements this specification.                                          *)
(***************************************************************************)
EXTENDS Naturals, Sequences

CONSTANTS
  Byte,      \* the byte values
  Capacity   \* size of the storage handed to ringbuf_init

VARIABLES
  queue,     \* the bytes stored, oldest first
  last       \* the byte most recently handed to the consumer

vars == <<queue, last>>

Init ==
  /\ queue = <<>>
  /\ last \in Byte

(* One iteration of ringbuf_push takes effect. *)
Put(b) ==
  /\ Len(queue) < Capacity - 1
  /\ queue' = Append(queue, b)
  /\ UNCHANGED last

(* One iteration of ringbuf_pop takes effect. *)
Get ==
  /\ queue # <<>>
  /\ last' = Head(queue)
  /\ queue' = Tail(queue)

(* ringbuf_reset drops everything. *)
Clear ==
  /\ queue' = <<>>
  /\ UNCHANGED last

Next ==
  \/ \E b \in Byte : Put(b)
  \/ Get
  \/ Clear

Spec == Init /\ [][Next]_vars
=============================================================================
