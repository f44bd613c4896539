----------------------------- MODULE HSoftTimer -----------------------------
(***************************************************************************)
(* middleware/h_soft_timer/h_soft_timer.c on drivers/platform/.../h_timer.c *)
(* (the same file for both boards): a table of one-shot timers multiplexed *)
(* on one compare channel of a wrapping counter.                           *)
(*                                                                         *)
(* Clients are the drivers that hold one timer id each.  One of them works *)
(* in a task, where the timer interrupt, another interrupt or the passing  *)
(* of time may come between two steps; nothing in h_soft_timer.c prevents  *)
(* it.  The others work in interrupt handlers, which do not preempt each   *)
(* other.  Between two reads of the counter in a handler, and between the  *)
(* last one and the programming of the compare, ticks go by all the same:  *)
(* a handler's call is one step, dated when it programs, and what it has   *)
(* read of the counter before is up to MaxSpan ticks old.  The counter is  *)
(* frozen while HAL_TIM_OC_Stop_IT has disabled the only channel.          *)
(***************************************************************************)
EXTENDS Naturals

CONSTANTS
  TaskClient,  \* the client that calls from a task
  IsrClient,   \* the clients that call from interrupt handlers
  Slots,       \* H_SOFT_TIMER_MAX_ENTRIES
  TickMod,     \* 2^32
  Delays,      \* the delays that are asked for
  MaxLate,     \* bound: ticks an interrupt may have to wait
  MaxStall,    \* bound: ticks the task's call may take
  MaxSpan,     \* bound: ticks a call in an interrupt handler may take
  MaxPutOff    \* bound: calls of other clients while an expired entry waits

ASSUME ClientAssumption == TaskClient \notin IsrClient
ASSUME SlotsAssumption == Slots \in Nat \ {0}
ASSUME TickAssumption == TickMod \in Nat /\ TickMod >= 4 /\ TickMod % 2 = 0
ASSUME DelayAssumption ==
  /\ MaxLate \in Nat /\ MaxStall \in Nat /\ MaxPutOff \in Nat /\ MaxSpan \in Nat
  /\ Delays # {}
  /\ \A d \in Delays :
       /\ d \in Nat /\ d > MaxSpan
       /\ d + MaxStall + MaxLate + 1 + (MaxPutOff + 1) * (MaxLate + d) <= TickMod \div 2

VARIABLES
  now,       \* the counter
  running,   \* the counter is enabled
  cmp,       \* the compare register, or Stop while its channel is disabled
  flag,      \* the compare matched and its interrupt is pending
  putoff,    \* times the compare was moved while an expired entry waited
  entry,     \* s_entries, the active ones: deadline, and whose callback and ctx
  next,      \* s_next_deadline
  id,        \* id[c]: the timer id client c holds, or NoId
  hook,      \* h_soft_timer_expire_hook: entry examined next, tick it read,
             \* client being called back, and whether one was
  tpc,       \* where the task client is in register or unregister
  tslot,     \* the slot it works on
  tdelay,    \* the delay it asked for
  tval,      \* the compare value it decided on
  tticks,    \* ticks since its call began
  overtaken  \* history: an interrupt changed the table inside the task's call,
             \* or, in a task or a handler, the counter passed the value about
             \* to be programmed or matched the one about to be replaced

hwVars == <<now, running, cmp, flag, putoff>>
tableVars == <<entry, next>>
taskVars == <<tpc, tslot, tdelay, tval, tticks>>
vars == <<now, running, cmp, flag, putoff, entry, next, id, hook, tpc, tslot, tdelay,
          tval, tticks, overtaken>>

Client == IsrClient \cup {TaskClient}
Slot == 0 .. Slots - 1
Tick == 0 .. TickMod - 1
NoId == Slots                  \* H_SOFT_TIMER_INVALID_ID
NoDeadline == TickMod - 1      \* H_SOFT_TIMER_NONE_DEADLINE, also a tick
Stop == TickMod                \* no tick: stop the compare
NoHook == [at |-> Slots + 1, now |-> 0, calling |-> {}, fired |-> FALSE]

Ahead(t, from) == (t + TickMod - from) % TickMod

deadline_due(d, t) == Ahead(t, d) < TickMod \div 2

(* The smallest deadline as a number, wrapped or not. *)
find_earliest(tab) ==
  IF DOMAIN tab = {} THEN NoDeadline
  ELSE LET dls == {tab[i].deadline : i \in DOMAIN tab}
       IN  CHOOSE e \in dls : \A d \in dls : e <= d

active == DOMAIN entry
With(i, d, c) ==
  [j \in active \cup {i} |->
     IF j = i THEN [deadline |-> d % TickMod, owner |-> c] ELSE entry[j]]
Without(i) == [j \in active \ {i} |-> entry[j]]

FirstFree == CHOOSE i \in Slot \ active : \A j \in Slot \ active : i <= j

-----------------------------------------------------------------------------
(* h_soft_timer_init and h_timer_init; the counter has been started.        *)
Init ==
  /\ now = 0
  /\ running = TRUE
  /\ cmp = Stop
  /\ flag = FALSE
  /\ putoff = 0
  /\ entry = <<>>
  /\ next = NoDeadline
  /\ id = [c \in Client |-> NoId]
  /\ hook = NoHook
  /\ tpc = "idle"
  /\ tslot = NoId
  /\ tdelay = 0
  /\ tval = Stop
  /\ tticks = 0
  /\ overtaken = FALSE

HookIdle == hook = NoHook

(***************************************************************************)
(* The hardware.  A pending interrupt waits at most MaxLate ticks, and a   *)
(* call of the task takes at most MaxStall.                                *)
(***************************************************************************)
CountUp ==
  /\ running
  /\ flag => Ahead(now, cmp) < MaxLate
  /\ tpc # "idle" => tticks < MaxStall
  /\ now' = (now + 1) % TickMod
  /\ flag' = (flag \/ now' = cmp)
  /\ tticks' = IF tpc = "idle" THEN 0 ELSE tticks + 1
  /\ UNCHANGED <<running, cmp, putoff, tableVars, id, hook, tpc, tslot, tdelay, tval,
                 overtaken>>

(* h_timer_schedule: the counter matches a value again only when it comes   *)
(* to it.                                                                   *)
h_timer_schedule(d, waiting) ==
  /\ cmp' = d
  /\ flag' = FALSE
  /\ putoff' = IF waiting /\ HookIdle THEN putoff + 1 ELSE putoff
  /\ running' = TRUE
  /\ UNCHANGED now

(* h_timer_stop_compare: no channel is left enabled, and the counter stops. *)
h_timer_stop_compare ==
  /\ cmp' = Stop
  /\ flag' = FALSE
  /\ putoff' = 0
  /\ running' = FALSE
  /\ UNCHANGED now

(* An expired entry waits; NoDeadline as a deadline is taken for "none".     *)
Waiting(tab) ==
  \E i \in DOMAIN tab : tab[i].deadline # NoDeadline /\ deadline_due(tab[i].deadline, now)

Program(v, tab) ==
  IF v = Stop THEN h_timer_stop_compare ELSE h_timer_schedule(v, Waiting(tab))

(* The tick k ticks ago, and how long ago a handler may have read it.        *)
Ago(k) == (now + TickMod - k) % TickMod
Span == IF running THEN 0 .. MaxSpan ELSE {0}

(* h_soft_timer_reschedule: what to program, for the earliest deadline e and *)
(* the tick that was read.                                                   *)
CompareFor(e, read) ==
  IF e = NoDeadline THEN Stop
  ELSE IF deadline_due(e, read) THEN (read + 1) % TickMod ELSE e

Passed(v) == v # Stop /\ deadline_due(v, now)

(* The old compare value may still match between the clearing of the flag    *)
(* and the writing of the new one: the interrupt then finds nothing expired, *)
(* stops the compare and does not reschedule.                                *)
Mistaken(v) == v # Stop /\ running /\ now = cmp

(* In a handler: k ticks ago it has read the counter.                        *)
Reschedule(tab, k) ==
  LET v == CompareFor(find_earliest(tab), Ago(k)) IN
  /\ next' = find_earliest(tab)
  /\ Program(v, tab)
  /\ \/ overtaken' = (tpc # "idle" \/ Passed(v))
     \/ Mistaken(v) /\ overtaken' = TRUE

NoReschedule == UNCHANGED <<hwVars, next>> /\ overtaken' = (tpc # "idle")

ReplacesEarliest(d) == next = NoDeadline \/ d < next

(* h_soft_timer_register by client c, in a handler: it counts the delay from *)
(* a tick j ticks ago, and if it reschedules reads the counter again.        *)
Register(c, d) ==
  IF active = Slot
  THEN UNCHANGED <<id, entry>> /\ NoReschedule
  ELSE /\ id' = [id EXCEPT ![c] = FirstFree]
       /\ \E j \in Span :
            /\ entry' = With(FirstFree, Ago(j) + d, c)
            /\ IF ReplacesEarliest((Ago(j) + d) % TickMod)
               THEN \E k \in 0 .. j : Reschedule(entry', k)
               ELSE NoReschedule

-----------------------------------------------------------------------------
(***************************************************************************)
(* The timer interrupt: HAL_TIM_OC_DelayElapsedCallback stops the channel, *)
(* and the hook calls back every expired entry.  The callback of a client  *)
(* forgets its id and may register again.                                  *)
(***************************************************************************)
HookEnter ==
  /\ flag /\ HookIdle
  /\ h_timer_stop_compare
  /\ hook' = [at |-> 0, now |-> now, calling |-> {}, fired |-> FALSE]
  /\ overtaken' = (tpc # "idle")
  /\ UNCHANGED <<tableVars, id, taskVars>>

Expired(i) == i \in active /\ deadline_due(entry[i].deadline, hook.now)

HookSkip ==
  /\ hook.at \in Slot /\ hook.calling = {}
  /\ ~ Expired(hook.at)
  /\ hook' = [hook EXCEPT !.at = @ + 1]
  /\ UNCHANGED <<hwVars, tableVars, id, taskVars, overtaken>>

KeepsActive ==              \* variant: the entry stays in the table
  /\ hook.at \in Slot /\ hook.calling = {}
  /\ Expired(hook.at)
  /\ id' = [id EXCEPT ![entry[hook.at].owner] = NoId]
  /\ hook' = [hook EXCEPT !.at = @ + 1, !.calling = {entry[hook.at].owner}, !.fired = TRUE]
  /\ UNCHANGED <<hwVars, tableVars, taskVars, overtaken>>

HookFire ==
  /\ hook.at \in Slot /\ hook.calling = {}
  /\ Expired(hook.at)
  /\ entry' = Without(hook.at)
  /\ id' = [id EXCEPT ![entry[hook.at].owner] = NoId]
  /\ hook' = [hook EXCEPT !.at = @ + 1, !.calling = {entry[hook.at].owner}, !.fired = TRUE]
  /\ UNCHANGED <<hwVars, next, taskVars, overtaken>>

CallbackReturns ==
  /\ hook.calling # {}
  /\ hook' = [hook EXCEPT !.calling = {}]
  /\ UNCHANGED <<hwVars, tableVars, id, taskVars, overtaken>>

CallbackRegisters(d) ==
  /\ \E c \in hook.calling : Register(c, d)
  /\ hook' = [hook EXCEPT !.calling = {}]
  /\ UNCHANGED taskVars

NotRescheduled ==           \* variant: what is left is not scheduled
  /\ hook.at = Slots /\ hook.calling = {}
  /\ NoReschedule
  /\ hook' = NoHook
  /\ UNCHANGED <<entry, id, taskVars>>

HookExit ==
  /\ hook.at = Slots /\ hook.calling = {}
  /\ IF hook.fired THEN \E k \in Span : Reschedule(entry, k) ELSE NoReschedule
  /\ hook' = NoHook
  /\ UNCHANGED <<entry, id, taskVars>>

Hook == HookEnter \/ HookSkip \/ HookFire \/ CallbackReturns \/ HookExit

-----------------------------------------------------------------------------
(* Clients in other interrupt handlers: arm an idle timer, drop it.         *)
MayCall == HookIdle /\ (Waiting(entry) => putoff < MaxPutOff)

IsrRegister(c, d) ==
  /\ MayCall /\ id[c] = NoId
  /\ Register(c, d)
  /\ UNCHANGED <<hook, taskVars>>

IsrUnregister(c) ==
  /\ MayCall /\ id[c] # NoId
  /\ entry' = Without(id[c])
  /\ id' = [id EXCEPT ![c] = NoId]
  /\ \E k \in Span : Reschedule(entry', k)
  /\ UNCHANGED <<hook, taskVars>>

-----------------------------------------------------------------------------
(* The client in a task; it does not run while an interrupt is pending.     *)
TaskRuns == HookIdle /\ ~ flag

(* h_soft_timer_register: find a slot, fill it, reschedule, return the id.  *)
TaskRegister(d) ==
  /\ MayCall /\ TaskRuns /\ tpc = "idle" /\ id[TaskClient] = NoId
  /\ active # Slot
  /\ tslot' = FirstFree
  /\ tdelay' = d
  /\ tticks' = 0
  /\ tpc' = "claim"
  /\ UNCHANGED <<hwVars, tableVars, id, hook, tval, overtaken>>

TaskClaim ==
  /\ TaskRuns /\ tpc = "claim"
  /\ entry' = With(tslot, now + tdelay, TaskClient)
  /\ tpc' = IF ReplacesEarliest((now + tdelay) % TickMod) THEN "plan" ELSE "return"
  /\ UNCHANGED <<hwVars, next, id, hook, tslot, tdelay, tval, tticks, overtaken>>

(* h_soft_timer_unregister of the id the client holds.                      *)
TaskUnregister ==
  /\ MayCall /\ TaskRuns /\ tpc = "idle" /\ id[TaskClient] # NoId
  /\ tslot' = id[TaskClient]
  /\ tticks' = 0
  /\ tpc' = "drop"
  /\ UNCHANGED <<hwVars, tableVars, id, hook, tdelay, tval, overtaken>>

TaskDrop ==
  /\ TaskRuns /\ tpc = "drop"
  /\ entry' = Without(tslot)
  /\ tslot' = NoId
  /\ tpc' = "plan"
  /\ UNCHANGED <<hwVars, next, id, hook, tdelay, tval, tticks, overtaken>>

(* h_soft_timer_reschedule: read the tick and the table, then program.      *)
TaskPlan ==
  /\ TaskRuns /\ tpc = "plan"
  /\ next' = find_earliest(entry)
  /\ tval' = CompareFor(next', now)
  /\ tpc' = "program"
  /\ UNCHANGED <<hwVars, entry, id, hook, tslot, tdelay, tticks, overtaken>>

TaskProgram ==
  /\ TaskRuns /\ tpc = "program"
  /\ Program(tval, entry)
  /\ tval' = Stop
  /\ tpc' = "return"
  /\ overtaken' = Passed(tval)
  /\ UNCHANGED <<tableVars, id, hook, tslot, tdelay, tticks>>

TaskReturn ==
  /\ TaskRuns /\ tpc = "return"
  /\ id' = [id EXCEPT ![TaskClient] = tslot]
  /\ tslot' = NoId
  /\ tdelay' = 0
  /\ tpc' = "idle"
  /\ UNCHANGED <<hwVars, tableVars, hook, tval, tticks, overtaken>>

Task == TaskClaim \/ TaskDrop \/ TaskPlan \/ TaskProgram \/ TaskReturn

(* Nothing is promised, and nothing followed, once a call was overtaken.    *)
Next ==
  /\ ~ overtaken
  /\ \/ CountUp
     \/ Hook
     \/ Task
     \/ TaskUnregister
     \/ \E c \in IsrClient : IsrUnregister(c)
     \/ \E d \in Delays :
          \/ CallbackRegisters(d)
          \/ TaskRegister(d)
          \/ \E c \in IsrClient : IsrRegister(c, d)

Spec == Init /\ [][Next]_vars

(***************************************************************************)
(* An enabled counter counts, a call in progress is finished and a pending *)
(* interrupt is taken.                                                     *)
(***************************************************************************)
FairSpec ==
  /\ Spec
  /\ WF_vars(CountUp /\ ~ overtaken)
  /\ WF_vars(Task /\ ~ overtaken)
  /\ WF_vars(Hook /\ ~ overtaken)

-----------------------------------------------------------------------------
(* The types. *)
TypeOK ==
  /\ now \in Tick /\ next \in Tick /\ cmp \in Tick \cup {Stop}
  /\ running \in BOOLEAN /\ flag \in BOOLEAN
  /\ cmp # Stop => running
  /\ flag => cmp # Stop
  /\ putoff \in 0 .. MaxPutOff + 1
  /\ active \subseteq Slot
  /\ entry \in [active -> [deadline : Tick, owner : Client]]
  /\ id \in [Client -> Slot \cup {NoId}]
  /\ hook \in [at : 0 .. Slots + 1, now : Tick, calling : SUBSET Client, fired : BOOLEAN]
  /\ tpc \in {"idle", "claim", "drop", "plan", "program", "return"}
  /\ tslot \in Slot \cup {NoId}
  /\ tdelay \in Delays \cup {0}
  /\ tval \in Tick \cup {Stop}
  /\ tticks \in 0 .. MaxStall
  /\ overtaken \in BOOLEAN

Quiet == tpc = "idle" /\ ~ overtaken

(***************************************************************************)
(* Ids and entries match: a client that holds an id has exactly that entry *)
(* armed with its own callback, and every armed entry is held by its       *)
(* client.  So unregistering never drops another driver's timer, and no    *)
(* callback comes to a client that has unregistered.                       *)
(***************************************************************************)
IdsMatchEntries ==
  Quiet =>
    /\ \A c \in Client : id[c] # NoId => id[c] \in active /\ entry[id[c]].owner = c
    /\ \A i \in active : id[entry[i].owner] = i

(* Entry i will expire; NoDeadline as a deadline is taken for "none".       *)
Armed(i) == i \in active /\ entry[i].deadline # NoDeadline

(***************************************************************************)
(* While a timer is armed the compare interrupt is pending or comes within *)
(* the longest delay, across the wrap of the counter.                      *)
(***************************************************************************)
Timely ==
  (Quiet /\ HookIdle /\ \E i \in Slot : Armed(i)) =>
    flag \/ (cmp # Stop /\ \E d \in Delays : Ahead(cmp, now) <= d)

(* Every armed timer expires or is unregistered, unless an interrupt        *)
(* overtook the task's call, or the counter a call of the task's or a       *)
(* handler's.                                                               *)
TimersFire == \A i \in Slot : Armed(i) ~> (i \notin active \/ overtaken)

(***************************************************************************)
(* Ids and armed entries match one to one whenever the task is outside the *)
(* module, and all variables, ticks across the wrap included, have their   *)
(* types.                                                                  *)
(***************************************************************************)
TimerInv ==
  /\ TypeOK
  /\ IdsMatchEntries
=============================================================================
