------------------------------ MODULE SlotQueue ------------------------------
(***************************************************************************)
(* lib/slot_queue/slot_queue.c as middleware/ir/ir_rx.c uses it: an        *)
(* interrupt handler fills a slot in place (acquire, write, release) and a *)
(* task copies slots out (try_pop).  The handler runs to completion        *)
(* between two steps of the task; every load and store that try_pop makes  *)
(* of a shared word is a step, and the copy takes two.  In particular      *)
(* q->count-- is a load and a later store of a word the handler also       *)
(* increments.                                                             *)
(***************************************************************************)
EXTENDS Naturals

CONSTANTS
  Depth,      \* q->depth
  MaxBursts   \* bound: elements the handler offers in a behaviour

ASSUME DepthAssumption == Depth \in Nat \ {0}
ASSUME MaxBurstsAssumption == MaxBursts \in Nat

VARIABLES
  slot,      \* the storage: slot[i] holds the two halves of an element
  head,      \* q->head
  tail,      \* q->tail
  count,     \* q->count
  cpc,       \* where the task is in slot_queue_try_pop
  ccount,    \* q->count as loaded for the decrement
  out,       \* the task's copy
  released,  \* history: elements released so far; they are numbered from 1
  popped,    \* history: elements popped so far
  raced      \* history: an element was released between load and store

vars == <<slot, head, tail, count, cpc, ccount, out, released, popped, raced>>

Index == 0 .. Depth - 1

next_index(i) == (i + 1) % Depth

is_empty == count = 0

is_full == count >= Depth

Element == [first : 0 .. MaxBursts, second : 0 .. MaxBursts]
Whole(n) == [first |-> n, second |-> n]

-----------------------------------------------------------------------------
(* slot_queue_init *)
Init ==
  /\ slot = [i \in Index |-> Whole(0)]
  /\ head = 0
  /\ tail = 0
  /\ count = 0
  /\ cpc = "idle"
  /\ ccount = 0
  /\ out = Whole(0)
  /\ released = 0
  /\ popped = 0
  /\ raced = FALSE

(***************************************************************************)
(* The handler: slot_queue_acquire returns the slot at head, the handler   *)
(* writes it, slot_queue_release moves head and counts.  When the queue is *)
(* full it gets no slot and drops the element, changing nothing here.      *)
(***************************************************************************)
IsrPush ==
  /\ released < MaxBursts
  /\ ~ is_full
  /\ slot' = [slot EXCEPT ![head] = Whole(released + 1)]
  /\ head' = next_index(head)
  /\ count' = count + 1
  /\ released' = released + 1
  /\ raced' = (raced \/ cpc = "store")
  /\ UNCHANGED <<tail, cpc, ccount, out, popped>>

(***************************************************************************)
(* slot_queue_try_pop.                                                     *)
(***************************************************************************)
PopEmpty ==
  /\ cpc = "idle"
  /\ is_empty
  /\ UNCHANGED vars

PopUnchecked ==           \* variant: the empty test is missing
  /\ cpc = "idle"
  /\ cpc' = "copy"
  /\ UNCHANGED <<slot, head, tail, count, ccount, out, released, popped, raced>>

PopSome ==
  /\ cpc = "idle"
  /\ ~ is_empty
  /\ cpc' = "copy"
  /\ UNCHANGED <<slot, head, tail, count, ccount, out, released, popped, raced>>

PopCopyFirst ==
  /\ cpc = "copy"
  /\ out' = [out EXCEPT !.first = slot[tail].first]
  /\ cpc' = "copy2"
  /\ UNCHANGED <<slot, head, tail, count, ccount, released, popped, raced>>

PopCopySecond ==
  /\ cpc = "copy2"
  /\ out' = [out EXCEPT !.second = slot[tail].second]
  /\ cpc' = "advance"
  /\ UNCHANGED <<slot, head, tail, count, ccount, released, popped, raced>>

PopAdvance ==
  /\ cpc = "advance"
  /\ tail' = next_index(tail)
  /\ cpc' = "load"
  /\ UNCHANGED <<slot, head, count, ccount, out, released, popped, raced>>

PopLoadCount ==
  /\ cpc = "load"
  /\ ccount' = count
  /\ cpc' = "store"
  /\ UNCHANGED <<slot, head, tail, count, out, released, popped, raced>>

PopStoreCount ==
  /\ cpc = "store"
  /\ count' = ccount - 1
  /\ popped' = popped + 1
  /\ cpc' = "idle"
  /\ UNCHANGED <<slot, head, tail, ccount, out, released, raced>>

(***************************************************************************)
(* slot_queue_reset writes both sides' words: only outside their calls.    *)
(***************************************************************************)
Reset ==
  /\ cpc = "idle"
  /\ head' = 0
  /\ tail' = 0
  /\ count' = 0
  /\ popped' = released
  /\ raced' = FALSE
  /\ UNCHANGED <<slot, cpc, ccount, out, released>>

Pop ==
  \/ PopEmpty \/ PopSome \/ PopCopyFirst \/ PopCopySecond \/ PopAdvance
  \/ PopLoadCount \/ PopStoreCount

Next == IsrPush \/ Pop \/ Reset

Spec == Init /\ [][Next]_vars

-----------------------------------------------------------------------------
(* The types. *)
TypeOK ==
  /\ slot \in [Index -> Element]
  /\ head \in Index
  /\ tail \in Index
  /\ count \in 0 .. Depth
  /\ cpc \in {"idle", "copy", "copy2", "advance", "load", "store"}
  /\ ccount \in 0 .. Depth
  /\ out \in Element
  /\ released \in 0 .. MaxBursts
  /\ popped \in 0 .. MaxBursts
  /\ raced \in BOOLEAN

(***************************************************************************)
(* Whatever the interleaving, q->count never promises the task an element  *)
(* that was not released, and an ongoing pop always has one to take: the   *)
(* count cannot wrap below zero.  Races only ever lose increments.         *)
(***************************************************************************)
NoPhantomElement ==
  /\ popped + count <= released
  /\ cpc # "idle" => count >= 1
  /\ cpc = "store" => ccount >= 1 /\ ccount <= count

(***************************************************************************)
(* Until a release falls between the load and the store of q->count--, the *)
(* queue is exact: nothing is stranded, overwritten or torn, and elements  *)
(* come out whole and in order.                                            *)
(***************************************************************************)
ExactUntilRaced ==
  ~ raced =>
    /\ count = released - popped
    /\ cpc = "store" => ccount = count
    /\ cpc \in {"advance", "load", "store"} => out = Whole(popped + 1)

(***************************************************************************)
(* Where the elements lie.  Between PopAdvance and PopStoreCount tail is   *)
(* one ahead of popped; the stored elements are the Held ones from tail.   *)
(***************************************************************************)
Taken == IF cpc \in {"load", "store"} THEN popped + 1 ELSE popped
Held == released - Taken
SlotAt(i) == IF tail + i - 1 < Depth THEN tail + i - 1 ELSE tail + i - 1 - Depth

Ordered ==
  /\ Held \in 0 .. Depth
  /\ head = SlotAt(Held + 1)
  /\ \A i \in 1 .. Held : slot[SlotAt(i)] = Whole(Taken + i)
  /\ cpc = "copy2" => out.first = popped + 1

OrderedUntilRaced == ~ raced => Ordered

(* The inductive invariant: all of the above.                               *)
QueueInv ==
  /\ TypeOK
  /\ NoPhantomElement
  /\ ExactUntilRaced
  /\ OrderedUntilRaced
=============================================================================
