-------------------------------- MODULE IrRx --------------------------------
(***************************************************************************)
(* drivers/device/ir_rx/ir_rx_drv.c, middleware/ir/ir_rx.c and the receive *)
(* half of middleware/ir/ir.c: edge interrupts measure the pulses of a     *)
(* frame, an idle timer ends it, the burst goes through a slot queue, the  *)
(* one of SlotQueue, and a message to the ir task, which drains the queue. *)
(*                                                                         *)
(* Interrupts run whole between two steps of the task.  The line sends     *)
(* frames of any number of edges; between two of them it is quiet for the  *)
(* idle timeout, so the timer is due, but an edge interrupt that became    *)
(* pending with it comes first.  A pulse is recorded by the edge that      *)
(* starts it, counted from 1 in its frame, or 0 when it began in an        *)
(* earlier frame: a good frame of n edges reads 1, 2, ..., n - 1.          *)
(***************************************************************************)
EXTENDS SlotQueue, Sequences

CONSTANTS
  Cap,        \* pulse_ring_cap
  QueueLen,   \* depth of the ir task's inbox
  MaxEdges    \* bound: edges of one frame

ASSUME CapAssumption == Cap \in Nat \ {0}
ASSUME QueueAssumption == QueueLen \in Nat \ {0}
ASSUME MaxEdgesAssumption == MaxEdges \in Nat \ {0}

VARIABLES
  pulses,       \* pulse_buf, the first pulse_count of it
  is_new_frame,
  armed,        \* the idle timer: idle_timer_id is valid
  listening,    \* event_fn is set
  inbox,        \* messages in the ir task's inbox
  notified,     \* the task has a pending notification
  at,           \* where the task is: "wait", "recv" or "pop"
  edges,        \* edges of the frame on the line, so far
  quiet,        \* the line was quiet for the idle timeout since
  ended,        \* history: how this frame ended
  before        \* history: how the frame before it ended

queueVars == vars
drvVars == <<pulses, is_new_frame, armed, listening>>
postVars == <<inbox, notified>>
lineVars == <<edges, quiet, ended, before>>
irVars == <<drvVars, queueVars, postVars, at, lineVars>>

(* ir_rx_init.  The listener is set after the edge interrupt was enabled.   *)
IrInit ==
  /\ pulses = <<>> /\ is_new_frame = TRUE /\ armed = FALSE /\ listening = FALSE
  /\ Init
  /\ inbox = 0 /\ notified = FALSE /\ at = "init"
  /\ edges = 0 /\ quiet = TRUE /\ ended = "open" /\ before = "open"

ir_rx_drv_set_event_fn ==
  /\ at = "init"
  /\ listening' = TRUE
  /\ at' = "wait"
  /\ UNCHANGED <<pulses, is_new_frame, armed, queueVars, postVars, lineVars>>

-----------------------------------------------------------------------------
(***************************************************************************)
(* The edge interrupt, ir_rx_drv_on_gpio_edge.  The first edge of a frame  *)
(* only starts the clock.  Any other ends a pulse, which is stored if the  *)
(* buffer has room; if not, the listener has the buffer flushed.  Every    *)
(* edge restarts the idle timer, unless the timer table is full.           *)
(***************************************************************************)
push_pulse_width(p) ==
  IF Len(pulses) >= Cap
  THEN IF listening THEN pulses' = <<>> /\ is_new_frame' = TRUE
                    ELSE UNCHANGED <<pulses, is_new_frame>>
  ELSE pulses' = Append(pulses, p) /\ UNCHANGED is_new_frame

FirstEdgeForgotten(p) ==   \* variant: is_new_frame is not looked at
  push_pulse_width(p)

on_gpio_edge(p) ==
  IF is_new_frame
  THEN is_new_frame' = FALSE /\ UNCHANGED pulses
  ELSE push_pulse_width(p)

idle_timer_arm == armed' \in BOOLEAN

NextEdge ==
  /\ ~ quiet /\ edges < MaxEdges
  /\ on_gpio_edge(edges)
  /\ idle_timer_arm
  /\ edges' = edges + 1
  /\ UNCHANGED <<listening, queueVars, postVars, at, quiet, ended, before>>

(* A pulse from an earlier frame is stored only if its width fits 16 bits.  *)
FirstEdge ==
  /\ quiet
  /\ \/ on_gpio_edge(0)
     \/ ~ is_new_frame /\ UNCHANGED <<pulses, is_new_frame>>
  /\ idle_timer_arm
  /\ edges' = 1
  /\ quiet' = FALSE
  /\ before' = ended
  /\ ended' = "open"
  /\ UNCHANGED <<listening, queueVars, postVars, at>>

LineGoesQuiet ==
  /\ ~ quiet
  /\ quiet' = TRUE
  /\ UNCHANGED <<drvVars, queueVars, postVars, at, edges, ended, before>>

-----------------------------------------------------------------------------
(***************************************************************************)
(* The idle timer, ir_rx_drv_idle_timer_fired.  A frame without a pulse is *)
(* not an end of frame.  Otherwise the listener moves the pulses into a    *)
(* slot of the queue, or drops them when there is none, and posts a        *)
(* message, which is lost when the inbox is full.                          *)
(***************************************************************************)
PostSilently ==           \* variant: the task is not notified
  IF inbox < QueueLen THEN inbox' = inbox + 1 /\ UNCHANGED notified ELSE UNCHANGED postVars
Post == IF inbox < QueueLen THEN inbox' = inbox + 1 /\ notified' = TRUE ELSE UNCHANGED postVars

TakePulses == pulses' = <<>>

FireLone ==
  /\ pulses = <<>>
  /\ UNCHANGED <<pulses, is_new_frame, queueVars, postVars>>

FireQueued ==
  /\ pulses # <<>> /\ listening
  /\ is_new_frame' = TRUE
  /\ IsrPush
  /\ TakePulses
  /\ Post

FireFull ==
  /\ pulses # <<>> /\ listening
  /\ is_new_frame' = TRUE
  /\ is_full
  /\ TakePulses
  /\ UNCHANGED <<queueVars, postVars>>

FireUnheard ==
  /\ pulses # <<>> /\ ~ listening
  /\ is_new_frame' = TRUE
  /\ UNCHANGED <<pulses, queueVars, postVars>>

idle_timer_fired ==
  /\ armed /\ quiet
  /\ FireLone \/ FireQueued \/ FireFull \/ FireUnheard
  /\ armed' = FALSE
  /\ ended' = IF ~ listening THEN "open" ELSE IF pulses = <<>> THEN "lone" ELSE "burst"
  /\ UNCHANGED <<listening, at, edges, quiet, before>>

-----------------------------------------------------------------------------
(***************************************************************************)
(* The task: ir_process, ir_handle_rx.  Every message drains the queue.    *)
(***************************************************************************)
Wake ==
  /\ at = "wait" /\ notified
  /\ notified' = FALSE
  /\ at' = "recv"
  /\ UNCHANGED <<drvVars, queueVars, inbox, lineVars>>

RecvEmpty ==
  /\ at = "recv" /\ inbox = 0
  /\ at' = "wait"
  /\ UNCHANGED <<drvVars, queueVars, postVars, lineVars>>

Recv ==
  /\ at = "recv" /\ inbox > 0
  /\ inbox' = inbox - 1
  /\ at' = "pop"
  /\ UNCHANGED <<drvVars, queueVars, notified, lineVars>>

(* ir_rx_try_read_nec.  Decoding and logging the burst change nothing here.  *)
ir_rx_try_read_nec == Pop

OnePerMessage ==          \* variant: one burst per message
  /\ at = "pop"
  /\ ir_rx_try_read_nec
  /\ at' = IF (cpc = "idle" /\ is_empty) \/ cpc = "store" THEN "recv" ELSE "pop"
  /\ UNCHANGED <<drvVars, postVars, lineVars>>

ir_handle_rx ==
  /\ at = "pop"
  /\ ir_rx_try_read_nec
  /\ at' = IF cpc = "idle" /\ is_empty THEN "recv" ELSE "pop"
  /\ UNCHANGED <<drvVars, postVars, lineVars>>

Task == ir_rx_drv_set_event_fn \/ Wake \/ RecvEmpty \/ Recv \/ ir_handle_rx

IrNext == FirstEdge \/ NextEdge \/ LineGoesQuiet \/ idle_timer_fired \/ Task

IrSpec == IrInit /\ [][IrNext]_irVars

(* The ir task runs when it is ready; nothing obliges the line.             *)
FairSpec == IrSpec /\ WF_irVars(Task)

-----------------------------------------------------------------------------
(* The types; the buffer is never overrun. *)
IrTypeOK ==
  /\ pulses \in Seq(0 .. MaxEdges) /\ Len(pulses) <= Cap
  /\ is_new_frame \in BOOLEAN /\ armed \in BOOLEAN /\ listening \in BOOLEAN
  /\ inbox \in 0 .. QueueLen /\ notified \in BOOLEAN
  /\ at \in {"init", "wait", "recv", "pop"}
  /\ edges \in 0 .. MaxEdges
  /\ quiet \in BOOLEAN
  /\ ended \in {"open", "lone", "burst"} /\ before \in {"open", "lone", "burst"}

Frame == [i \in 1 .. edges - 1 |-> i]

(***************************************************************************)
(* A queued burst is one frame, whole, if the timer of the frame before    *)
(* was armed and came before the frame, with two exceptions.  If that      *)
(* timer found no pulse, because only one edge had come in (in all, or     *)
(* after an overflow), the burst may have one false pulse in front.  And   *)
(* of a frame that overflows the buffer only a tail is left.               *)
(***************************************************************************)
BurstIsFrame ==
  [][released' # released /\ before # "open" =>
       \/ pulses = Frame
       \/ before = "lone" /\ pulses = <<0>> \o Frame
       \/ /\ Len(Frame) + (IF before = "lone" THEN 1 ELSE 0) > Cap
          /\ \E k \in DOMAIN Frame : pulses = SubSeq(Frame, k, Len(Frame))]_irVars

(***************************************************************************)
(* While the task sleeps no burst lies in the queue, whatever messages     *)
(* were lost to a full inbox: unless a burst was queued inside the task's  *)
(* q->count--, see SlotQueue.                                              *)
(***************************************************************************)
NoStrandedBurst ==
  ~ raced /\ at = "wait" /\ ~ notified => inbox = 0 /\ popped = released

(* Every queued burst is handled. *)
BurstsHandled == \A n \in 1 .. MaxBursts : (released >= n) ~> (popped >= n \/ raced)

(***************************************************************************)
(* The IR task never sleeps on a burst nobody will wake it for, neither    *)
(* buffer is overrun, and all variables have their types.                  *)
(***************************************************************************)
IrRxInv ==
  /\ IrTypeOK
  /\ NoStrandedBurst
=============================================================================
