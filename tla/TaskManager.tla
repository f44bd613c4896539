----------------------------- MODULE TaskManager -----------------------------
(***************************************************************************)
(* middleware/taskmanager: every task has an inbox (a FreeRTOS queue) and a *)
(* notification, and runs                                                  *)
(*                                                                         *)
(*     task_init();                                                        *)
(*     for (;;) { tm_wait_notif(); while (tm_recv(&m) == TM_OK) handle; }  *)
(*                                                                         *)
(* the loop of cli_process, ir_process and sensor_process.  A sender puts  *)
(* the message in the inbox and then, in a separate step, notifies; a      *)
(* notification only counts, so several may be taken by one wake-up.       *)
(* task_init and the handlers may themselves send (log_printf does).       *)
(* Interrupt handlers send too; they run to completion between two steps   *)
(* of the tasks.                                                           *)
(***************************************************************************)
EXTENDS Naturals, Sequences, FiniteSets

CONSTANTS
  Tasks,     \* the task nodes os_init wants to create
  ISR,       \* SYS_NODE_ISR, the source of messages sent from interrupts
  QueueLen,  \* depth of an inbox (TM_QUEUE_LENGTH unless configured)
  MaxTask,   \* TM_MAX_TASK, size of g_tasks
  MaxSends   \* bound: messages sent by task_init, or by handling a message

ASSUME QueueLenAssumption == QueueLen \in Nat \ {0}
ASSUME MaxSendsAssumption == MaxSends \in Nat
ASSUME NodeAssumption == ISR \notin Tasks

VARIABLES
  started,     \* vTaskStartScheduler has been called
  registered,  \* the tasks that have an entry in g_tasks
  creating,    \* the task whose queue and FreeRTOS task are being created
  created,     \* the tasks whose queue and FreeRTOS task exist
  inbox,       \* inbox[t]: sources of the messages queued for t, oldest first
  notified,    \* notified[t]: t's notification count is not zero
  pc,          \* pc[t]: where t is
  caller,      \* caller[t]: what t runs: "init" or "handle"
  dst,         \* dst[t]: destination of the tm_send t is in
  quota        \* quota[t]: sends left to what t runs

sendVars == <<caller, dst, quota>>
entryVars == <<registered, creating, created>>
tmVars == <<started, registered, creating, created, inbox, notified, pc, caller, dst, quota>>

TmInit ==
  /\ started = FALSE
  /\ registered = {} /\ creating = {} /\ created = {}
  /\ inbox = [t \in Tasks |-> <<>>]
  /\ notified = [t \in Tasks |-> FALSE]
  /\ pc = [t \in Tasks |-> "off"]
  /\ caller = [t \in Tasks |-> "init"]
  /\ dst \in [Tasks -> Tasks]
  /\ quota = [t \in Tasks |-> MaxSends]

(***************************************************************************)
(* os_init: tm_init for each task.  It takes an entry, unless the table is *)
(* full, and withdraws it when FreeRTOS has no memory for the queue or the *)
(* task; the caller ignores the result and boots on.                       *)
(***************************************************************************)
tm_init(t) ==
  /\ ~ started
  /\ creating = {}
  /\ t \notin registered
  /\ Cardinality(registered) < MaxTask
  /\ registered' = registered \cup {t}
  /\ creating' = {t}
  /\ UNCHANGED <<started, created, inbox, notified, pc, sendVars>>

xTaskCreate(t) ==
  /\ t \in creating
  /\ creating' = {}
  /\ created' = created \cup {t}
  /\ UNCHANGED <<started, registered, inbox, notified, pc, sendVars>>

KeepsEntry(t) ==         \* variant: the entry of the failed task stays
  /\ t \in creating
  /\ creating' = {}
  /\ UNCHANGED <<started, registered, created, inbox, notified, pc, sendVars>>

CreationFails(t) ==
  /\ t \in creating
  /\ creating' = {}
  /\ registered' = registered \ {t}
  /\ UNCHANGED <<started, created, inbox, notified, pc, sendVars>>

os_start ==
  /\ ~ started
  /\ creating = {}
  /\ started' = TRUE
  /\ pc' = [t \in Tasks |-> IF t \in created THEN "run" ELSE "off"]
  /\ UNCHANGED <<entryVars, inbox, notified, sendVars>>

(***************************************************************************)
(* The loop of a task.                                                     *)
(***************************************************************************)
InitDone(t) ==
  /\ pc[t] = "run" /\ caller[t] = "init"
  /\ pc' = [pc EXCEPT ![t] = "wait"]
  /\ UNCHANGED <<started, entryVars, inbox, notified, sendVars>>

(* ulTaskNotifyTake(pdTRUE, portMAX_DELAY) returns and clears the count. *)
tm_wait_notif(t) ==
  /\ pc[t] = "wait"
  /\ notified[t]
  /\ notified' = [notified EXCEPT ![t] = FALSE]
  /\ pc' = [pc EXCEPT ![t] = "recv"]
  /\ caller' = [caller EXCEPT ![t] = "handle"]
  /\ UNCHANGED <<started, entryVars, inbox, dst, quota>>

tm_recv(t) ==
  /\ pc[t] = "recv"
  /\ inbox[t] # <<>>
  /\ inbox' = [inbox EXCEPT ![t] = Tail(@)]
  /\ pc' = [pc EXCEPT ![t] = "run"]
  /\ quota' = [quota EXCEPT ![t] = MaxSends]
  /\ UNCHANGED <<started, entryVars, notified, caller, dst>>

RecvOne(t) ==            \* variant: back to sleep after every message
  /\ pc[t] = "run" /\ caller[t] = "handle"
  /\ pc' = [pc EXCEPT ![t] = "wait"]
  /\ UNCHANGED <<started, entryVars, inbox, notified, sendVars>>

HandleDone(t) ==
  /\ pc[t] = "run" /\ caller[t] = "handle"
  /\ pc' = [pc EXCEPT ![t] = "recv"]
  /\ UNCHANGED <<started, entryVars, inbox, notified, sendVars>>

RecvEmpty(t) ==
  /\ pc[t] = "recv"
  /\ inbox[t] = <<>>
  /\ pc' = [pc EXCEPT ![t] = "wait"]
  /\ UNCHANGED <<started, entryVars, inbox, notified, sendVars>>

(***************************************************************************)
(* tm_send by a task: find the destination, queue the message, blocking    *)
(* for a bounded time while the inbox is full, then notify.                *)
(***************************************************************************)
SendCallUnchecked(t, d) ==    \* variant: the destination is not looked up
  /\ pc[t] = "run"
  /\ quota[t] > 0
  /\ quota' = [quota EXCEPT ![t] = @ - 1]
  /\ dst' = [dst EXCEPT ![t] = d]
  /\ pc' = [pc EXCEPT ![t] = "send"]
  /\ UNCHANGED <<started, entryVars, inbox, notified, caller>>

SendCall(t, d) ==
  /\ pc[t] = "run"
  /\ quota[t] > 0
  /\ quota' = [quota EXCEPT ![t] = @ - 1]
  /\ dst' = [dst EXCEPT ![t] = d]
  /\ pc' = [pc EXCEPT ![t] = IF d \in registered THEN "send" ELSE "run"]
  /\ UNCHANGED <<started, entryVars, inbox, notified, caller>>

SendQueued(t) ==
  /\ pc[t] = "send"
  /\ Len(inbox[dst[t]]) < QueueLen
  /\ inbox' = [inbox EXCEPT ![dst[t]] = Append(@, t)]
  /\ pc' = [pc EXCEPT ![t] = "noti"]
  /\ UNCHANGED <<started, entryVars, notified, sendVars>>

WaitForever(t) == FALSE    \* variant: portMAX_DELAY instead of 10 ms

(* xQueueSend gives up: TM_ERR_FULL, and no notification. *)
SendTimeout(t) ==
  /\ pc[t] = "send"
  /\ Len(inbox[dst[t]]) >= QueueLen
  /\ pc' = [pc EXCEPT ![t] = "run"]
  /\ UNCHANGED <<started, entryVars, inbox, notified, sendVars>>

tm_noti(t) ==
  /\ pc[t] = "noti"
  /\ notified' = [notified EXCEPT ![dst[t]] = TRUE]
  /\ pc' = [pc EXCEPT ![t] = "run"]
  /\ UNCHANGED <<started, entryVars, inbox, sendVars>>

(***************************************************************************)
(* From interrupts.  tm_send_from_isr does nothing when the inbox is full. *)
(* The log task is also notified without a message (log_tx_isr).           *)
(***************************************************************************)
tm_send_from_isr(d) ==
  /\ started
  /\ d \in registered
  /\ Len(inbox[d]) < QueueLen
  /\ inbox' = [inbox EXCEPT ![d] = Append(@, ISR)]
  /\ notified' = [notified EXCEPT ![d] = TRUE]
  /\ UNCHANGED <<started, entryVars, pc, sendVars>>

tm_noti_from_isr(d) ==
  /\ started
  /\ d \in registered
  /\ notified' = [notified EXCEPT ![d] = TRUE]
  /\ UNCHANGED <<started, entryVars, inbox, pc, sendVars>>

TaskStep(t) ==
  \/ InitDone(t) \/ tm_wait_notif(t) \/ tm_recv(t) \/ HandleDone(t)
  \/ RecvEmpty(t) \/ SendQueued(t) \/ SendTimeout(t) \/ tm_noti(t)

Interrupt == \E d \in Tasks : tm_send_from_isr(d) \/ tm_noti_from_isr(d)

TmNext ==
  \/ os_start
  \/ Interrupt
  \/ \E t \in Tasks : tm_init(t) \/ xTaskCreate(t) \/ CreationFails(t) \/ TaskStep(t)
  \/ \E t, d \in Tasks : SendCall(t, d)

TmSpec == TmInit /\ [][TmNext]_tmVars

(***************************************************************************)
(* The scheduler runs every ready task again and again: priorities differ, *)
(* but each task blocks once its inbox is empty, and those of equal        *)
(* priority are time-sliced (configUSE_PREEMPTION, time slicing at its     *)
(* default).  Interrupts are not required to occur.                        *)
(***************************************************************************)
TmFairSpec == TmSpec /\ \A t \in Tasks : WF_tmVars(TaskStep(t))

-----------------------------------------------------------------------------
Pc == {"off", "wait", "recv", "run", "send", "noti"}

(* The types; a task that was never created has no activity. *)
TmTypeOK ==
  /\ started \in BOOLEAN
  /\ registered \in SUBSET Tasks
  /\ creating \in SUBSET Tasks /\ created \in SUBSET Tasks
  /\ inbox \in [Tasks -> Seq(Tasks \cup {ISR})]
  /\ \A t \in Tasks : Len(inbox[t]) <= QueueLen
  /\ notified \in [Tasks -> BOOLEAN]
  /\ pc \in [Tasks -> Pc]
  /\ caller \in [Tasks -> {"init", "handle"}]
  /\ dst \in [Tasks -> Tasks]
  /\ quota \in [Tasks -> 0 .. MaxSends]

(* A sender has queued its message for t but not notified t yet. *)
Notifying(t) == \E s \in Tasks : pc[s] = "noti" /\ dst[s] = t

(* t is inside its receive loop and will call tm_recv again. *)
Draining(t) == pc[t] # "wait" /\ caller[t] = "handle"

(***************************************************************************)
(* No message waits for a task nobody will wake: whenever an inbox is not  *)
(* empty its task is draining it, or has a notification pending, or a      *)
(* sender is about to notify it.  A notification taken while further       *)
(* messages were queued, one given before the task first waited, and a     *)
(* preemption between queueing and notifying are all covered.              *)
(***************************************************************************)
NoLostWakeup ==
  \A t \in Tasks : inbox[t] # <<>> => Draining(t) \/ notified[t] \/ Notifying(t)

(***************************************************************************)
(* A task whose creation failed is invisible: its entry is withdrawn, and  *)
(* nothing is ever queued for it, nor is anybody about to touch its        *)
(* (deleted) queue or its handle.                                          *)
(***************************************************************************)
FailedTaskUntouched ==
  /\ registered = created \cup creating
  /\ \A t \in creating : ~ started /\ t \notin created /\ creating = {t}
  /\ \A t \in Tasks \ created :
       /\ inbox[t] = <<>> /\ ~ notified[t] /\ pc[t] = "off"
       /\ \A s \in Tasks : pc[s] \in {"send", "noti"} => dst[s] # t

(* A message found by a sleeping task's inbox is eventually taken out.      *)
MessagesServed ==
  \A t \in Tasks : (inbox[t] # <<>> /\ pc[t] = "wait") ~> pc[t] = "run"

(***************************************************************************)
(* Nobody waits on everybody: tasks that send to each other (or, as the    *)
(* log task does, to themselves) with all inboxes full still get out.      *)
(***************************************************************************)
SendersReturn ==
  \A t \in Tasks : pc[t] \in {"send", "noti"} ~> pc[t] = "run"

(* No task runs and nothing is queued until the scheduler is started. *)
QuietBoot == ~ started => \A t \in Tasks : pc[t] = "off" /\ inbox[t] = <<>>

(* The inductive invariant: types, no task running before the scheduler,    *)
(* failed tasks left alone, and no wake-up lost.                            *)
TaskInv ==
  /\ TmTypeOK
  /\ QuietBoot
  /\ FailedTaskUntouched
  /\ NoLostWakeup
=============================================================================
