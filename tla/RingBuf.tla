------------------------------- MODULE RingBuf -------------------------------
(***************************************************************************)
(* lib/ringbuf/ringbuf.c: the byte ring under the UART driver, shared      *)
(* without a lock by one producer and one consumer, one of which is an     *)
(* interrupt handler.  Each load and store of a shared word (head, tail,   *)
(* a storage slot) is a step of its own, so that either side may be        *)
(* interrupted by the other anywhere.  The pc values name the place inside *)
(* the loop of ringbuf_push and of ringbuf_pop.                            *)
(***************************************************************************)
EXTENDS Naturals, Sequences

CONSTANTS
  Byte,      \* the byte values
  Capacity,  \* rb->capacity
  MaxLen     \* longest len argument of a push or a pop

ASSUME ByteAssumption == Byte # {}
ASSUME CapacityAssumption == Capacity \in Nat /\ Capacity >= 2
ASSUME MaxLenAssumption == MaxLen \in Nat \ {0}

VARIABLES
  storage,   \* rb->storage
  head,      \* rb->head, next write index
  tail,      \* rb->tail, next read index
  ppc,       \* where the producer is in ringbuf_push
  pleft,     \* len - pushed
  pspace,    \* the producer's last answer from ringbuf_space, or NoAnswer
  cpc,       \* where the consumer is in ringbuf_pop
  cleft,     \* len - popped
  cout,      \* out[popped] before it counts as popped
  clen,      \* the consumer's last answer from ringbuf_len, or NoAnswer
  got        \* history: the last byte a pop delivered

producerVars == <<ppc, pleft, pspace>>
consumerVars == <<cpc, cleft, cout, clen, got>>
vars == <<storage, head, tail, ppc, pleft, pspace, cpc, cleft, cout, clen, got>>

Index == 0 .. Capacity - 1
NoAnswer == Capacity          \* larger than any answer

(***************************************************************************)
(* The index arithmetic.  The variants are plausible bugs that the         *)
(* properties below must notice.                                           *)
(***************************************************************************)
next_index(i) == (i + 1) % Capacity

RingLen(h, t) == IF h >= t THEN h - t ELSE Capacity - (t - h)

RingSpace(h, t) == (Capacity - 1) - RingLen(h, t)

NeverFull(h, t) == FALSE
Full(h, t) == next_index(h) = t

Empty(h, t) == t = h

-----------------------------------------------------------------------------
(* ringbuf_init on a fresh storage, both users outside the calls. *)
Init ==
  /\ storage \in [Index -> Byte]
  /\ head = 0
  /\ tail = 0
  /\ ppc = "idle"
  /\ pleft = 0
  /\ pspace = NoAnswer
  /\ cpc = "idle"
  /\ cleft = 0
  /\ cout \in Byte
  /\ clen = NoAnswer
  /\ got \in Byte

(***************************************************************************)
(* ringbuf_push, called with a length of 1 .. MaxLen (0 returns at once).  *)
(***************************************************************************)
PushCall ==
  /\ ppc = "idle"
  /\ pleft' \in 1 .. MaxLen
  /\ ppc' = "check"
  /\ pspace' = NoAnswer
  /\ UNCHANGED <<storage, head, tail, consumerVars>>

PushFull ==
  /\ ppc = "check"
  /\ Full(head, tail)
  /\ ppc' = "idle"
  /\ UNCHANGED <<storage, head, tail, pleft, pspace, consumerVars>>

PushRoom ==
  /\ ppc = "check"
  /\ ~ Full(head, tail)
  /\ ppc' = "store"
  /\ UNCHANGED <<storage, head, tail, pleft, pspace, consumerVars>>

PushStore(b) ==
  /\ ppc = "store"
  /\ storage' = [storage EXCEPT ![head] = b]
  /\ ppc' = "publish"
  /\ UNCHANGED <<head, tail, pleft, pspace, consumerVars>>

PushPublish ==
  /\ ppc = "publish"
  /\ head' = next_index(head)
  /\ pleft' = pleft - 1
  /\ ppc' = IF pleft = 1 THEN "idle" ELSE "check"
  /\ UNCHANGED <<storage, tail, pspace, consumerVars>>

(* ringbuf_space by the producer: head is its own, the load of tail decides. *)
Space ==
  /\ ppc = "idle"
  /\ pspace' = RingSpace(head, tail)
  /\ UNCHANGED <<storage, head, tail, ppc, pleft, consumerVars>>

(***************************************************************************)
(* ringbuf_pop, called with a length of 1 .. MaxLen.                       *)
(***************************************************************************)
PopCall ==
  /\ cpc = "idle"
  /\ cleft' \in 1 .. MaxLen
  /\ cpc' = "check"
  /\ clen' = NoAnswer
  /\ UNCHANGED <<storage, head, tail, cout, got, producerVars>>

PopEmpty ==
  /\ cpc = "check"
  /\ Empty(head, tail)
  /\ cpc' = "idle"
  /\ UNCHANGED <<storage, head, tail, cleft, cout, clen, got, producerVars>>

PopSome ==
  /\ cpc = "check"
  /\ ~ Empty(head, tail)
  /\ cpc' = "read"
  /\ UNCHANGED <<storage, head, tail, cleft, cout, clen, got, producerVars>>

ReadAhead ==                   \* variant: reads the slot after the oldest
  /\ cpc = "read"
  /\ cout' = storage[next_index(tail)]
  /\ cpc' = "advance"
  /\ UNCHANGED <<storage, head, tail, cleft, clen, got, producerVars>>

PopRead ==
  /\ cpc = "read"
  /\ cout' = storage[tail]
  /\ cpc' = "advance"
  /\ UNCHANGED <<storage, head, tail, cleft, clen, got, producerVars>>

PopAdvance ==
  /\ cpc = "advance"
  /\ tail' = next_index(tail)
  /\ got' = cout
  /\ cleft' = cleft - 1
  /\ cpc' = IF cleft = 1 THEN "idle" ELSE "check"
  /\ UNCHANGED <<storage, head, cout, clen, producerVars>>

(* ringbuf_len by the consumer: tail is its own, the load of head decides. *)
Length ==
  /\ cpc = "idle"
  /\ clen' = RingLen(head, tail)
  /\ UNCHANGED <<storage, head, tail, cpc, cleft, cout, got, producerVars>>

(***************************************************************************)
(* ringbuf_reset writes the producer's and the consumer's word, so it is   *)
(* legal only while both are outside their calls.                          *)
(***************************************************************************)
Reset ==
  /\ ppc = "idle" /\ cpc = "idle"
  /\ head' = 0
  /\ tail' = 0
  /\ pspace' = NoAnswer
  /\ clen' = NoAnswer
  /\ UNCHANGED <<storage, ppc, pleft, cpc, cleft, cout, got>>

Producer ==
  \/ PushCall \/ PushFull \/ PushRoom \/ PushPublish \/ Space
  \/ \E b \in Byte : PushStore(b)

Consumer ==
  \/ PopCall \/ PopEmpty \/ PopSome \/ PopRead \/ PopAdvance \/ Length

Next == Producer \/ Consumer \/ Reset

Spec == Init /\ [][Next]_vars

-----------------------------------------------------------------------------
(* The types; inside a call some length is left and no earlier answer kept. *)
TypeOK ==
  /\ storage \in [Index -> Byte]
  /\ head \in Index
  /\ tail \in Index
  /\ ppc \in {"idle", "check", "store", "publish"}
  /\ pleft \in 0 .. MaxLen
  /\ ppc # "idle" => pleft > 0
  /\ pspace \in 0 .. Capacity
  /\ ppc # "idle" => pspace = NoAnswer
  /\ cpc \in {"idle", "check", "read", "advance"}
  /\ cleft \in 0 .. MaxLen
  /\ cpc # "idle" => cleft > 0
  /\ cout \in Byte
  /\ clen \in 0 .. Capacity
  /\ cpc # "idle" => clen = NoAnswer
  /\ got \in Byte

Occupancy == RingLen(head, tail)

(***************************************************************************)
(* A byte is written and read without a lock; what keeps the two sides     *)
(* apart is only that a stale answer to the full or empty test errs on the *)
(* safe side.  While the producer is between its test and publishing head, *)
(* and the consumer between its test and releasing tail, they are never at *)
(* the same slot.                                                          *)
(***************************************************************************)
NoSlotRace ==
  (ppc \in {"store", "publish"} /\ cpc \in {"read", "advance"}) => head # tail

(***************************************************************************)
(* An answer of ringbuf_space stays a promise to the producer, and one of  *)
(* ringbuf_len to the consumer, however much the other side has done since *)
(* the indices were loaded.                                                *)
(***************************************************************************)
ProbesConservative ==
  /\ pspace # NoAnswer => pspace <= (Capacity - 1) - Occupancy
  /\ clen # NoAnswer => clen <= Occupancy

(* The tests made before an access still hold when it takes effect, and a   *)
(* byte read but not yet released is still the oldest one.                  *)
GuardsStillHold ==
  /\ ppc \in {"store", "publish"} => next_index(head) # tail
  /\ cpc \in {"read", "advance"} => head # tail
  /\ cpc = "advance" => cout = storage[tail]

(* The stored bytes, oldest first. *)
Contents == [i \in 1 .. Occupancy |-> storage[(tail + i - 1) % Capacity]]

Fifo == INSTANCE ByteFifo WITH queue <- Contents, last <- got

(***************************************************************************)
(* Every interleaving of one producer and one consumer behaves as a        *)
(* bounded FIFO queue: no byte is lost, duplicated, reordered or torn.     *)
(***************************************************************************)
FifoSpec == Fifo!Spec

(***************************************************************************)
(* The inductive invariant: what each side tested before an access still   *)
(* holds when it takes effect, and what a probe answered stays a promise,  *)
(* whatever the other side did in between.                                 *)
(***************************************************************************)
RingInv ==
  /\ TypeOK
  /\ GuardsStillHold
  /\ ProbesConservative
=============================================================================
