----------------------------- MODULE I2cDriver ------------------------------
(***************************************************************************)
(* drivers/platform/stm32f2/i2c/i2c.c (the stm32n6 file has the same code): *)
(* asynchronous transfers on one bus, each guarded by a soft timer.  A     *)
(* task accepts the bus, starts the HAL, and arms the timeout; from the    *)
(* moment the HAL runs, its completion or error interrupt, and the timer   *)
(* interrupts, may come between any two of the task's steps.  Interrupts   *)
(* do not preempt each other.  One task uses the bus (the sensor task).    *)
(*                                                                         *)
(* Timer entries are named after the request that armed them; all have the *)
(* same delay, so the oldest expires first.  The timer table and the HAL   *)
(* are external: HSoftTimer says what the table does, and the HAL aborts   *)
(* whatever transfer is running and refuses when none is.  The two HALs    *)
(* abort differently.  The stm32f2's calls back before it returns.  The    *)
(* stm32n6's only requests a STOP: the transfer stands still, no further   *)
(* transfer can start, and the callback comes from the interrupt of that   *)
(* STOP, which a device that holds the lines can put off for ever.         *)
(***************************************************************************)
EXTENDS Naturals, Sequences, FiniteSets, FiniteSetsExt

CONSTANTS
  Slots,       \* entries of the timer table left to this driver
  MaxRequests  \* bound: requests the driver accepts

ASSUME SlotsAssumption == Slots \in Nat \ {0}
ASSUME BoundAssumption == MaxRequests \in Nat \ {0}

VARIABLES
  atOnce,    \* the build: an abort ends the transfer before it returns (stm32f2),
             \* or later (stm32n6)
  busy,      \* s_rt[id].busy
  aborting,  \* s_rt[id].aborting
  cb,        \* the request whose callback is in s_rt[id].cb, or None
  timer_id,  \* s_rt[id].timer_id: the request its entry was armed for, or None
  timers,    \* the active timer entries of this driver
  hal,       \* the request the HAL transfers, or None: hi2c->State is READY
  stopping,  \* hi2c->State is ABORT: the HAL waits for the STOP it requested
  pc,        \* where the task is
  req,       \* history: requests accepted; the last one is the current one
  slot,      \* what h_soft_timer_register returned
  ret,       \* what the driver returned to the task
  moved,     \* history: the requests whose transfer the HAL completed
  reports,   \* history: callbacks made
  cuts,      \* history: aborts of a transfer, and the entry that asked for them
  early,     \* history: the requests whose transfer ended before the call that
             \* started it had armed and checked the timer, or had failed
  loose      \* history: a start call failed under its own transfer, for which no
             \* timer was free or, on the stm32n6, an abort was under way

rtVars == <<busy, aborting, cb, timer_id>>
history == <<moved, reports, cuts, early, loose>>
vars == <<atOnce, busy, aborting, cb, timer_id, timers, hal, stopping, pc, req, slot, ret,
          moved, reports, cuts, early, loose>>

None == 0
Request == 1 .. MaxRequests
Status == {"OK", "IO"}

Report(n, st) ==
  reports' = IF n = None THEN reports ELSE Append(reports, [req |-> n, status |-> st])

-----------------------------------------------------------------------------
(* i2c_init.                                                                *)
Init ==
  /\ atOnce \in BOOLEAN
  /\ busy = FALSE
  /\ aborting = FALSE
  /\ cb = None
  /\ timer_id = None
  /\ timers = {}
  /\ hal = None
  /\ stopping = FALSE
  /\ pc = "idle"
  /\ req = 0
  /\ slot = None
  /\ ret = "OK"
  /\ moved = {}
  /\ reports = <<>>
  /\ cuts = {}
  /\ early = {}
  /\ loose = FALSE

-----------------------------------------------------------------------------
(***************************************************************************)
(* The task.                                                               *)
(***************************************************************************)
AcquireKeepsId ==         \* variant: the last transfer's timer_id stays
  /\ busy' = TRUE
  /\ aborting' = FALSE
  /\ cb' = None
  /\ UNCHANGED timer_id

i2c_bus_acquire ==
  /\ busy' = TRUE
  /\ aborting' = FALSE
  /\ cb' = None
  /\ timer_id' = None

RefuseBusy ==
  /\ pc = "idle" /\ busy
  /\ ret' = "BUSY"
  /\ UNCHANGED <<rtVars, timers, hal, stopping, pc, req, slot, history>>

Accept ==
  /\ pc = "idle" /\ ~ busy
  /\ req < MaxRequests
  /\ i2c_bus_acquire
  /\ req' = req + 1
  /\ pc' = "try_busy"
  /\ UNCHANGED <<timers, hal, stopping, slot, ret, history>>

(* i2c_bus_try_busy, once the bus is acquired.                              *)
StoreCallback ==
  /\ pc = "try_busy"
  /\ cb' = req
  /\ pc' = "start"
  /\ UNCHANGED <<busy, aborting, timer_id, timers, hal, stopping, req, slot, ret, history>>

(* HAL_I2C_Mem_Read_IT and the like: accepted when the HAL is ready and the *)
(* line is free.                                                            *)
StartAccepted ==
  /\ pc = "start" /\ hal = None
  /\ hal' = req
  /\ pc' = "arm"
  /\ UNCHANGED <<rtVars, timers, stopping, req, slot, ret, history>>

StartRefused ==
  /\ pc = "start"
  /\ pc' = "fail"
  /\ UNCHANGED <<rtVars, timers, hal, stopping, req, slot, ret, history>>

(* i2c_timeout_arm: register an entry, then store its id.                   *)
Register ==
  /\ pc = "arm"
  /\ IF Cardinality(timers) < Slots
     THEN timers' = timers \cup {req} /\ slot' = req
     ELSE slot' = None /\ UNCHANGED timers
  /\ pc' = "store"
  /\ UNCHANGED <<rtVars, hal, stopping, req, ret, history>>

StoreId ==
  /\ pc = "store"
  /\ timer_id' = slot
  /\ slot' = None
  /\ pc' = "check"
  /\ UNCHANGED <<busy, aborting, cb, timers, hal, stopping, req, ret, history>>

CheckArmed ==
  /\ pc = "check"
  /\ IF timer_id = None THEN pc' = "fail" /\ UNCHANGED ret
     ELSE pc' = "idle" /\ ret' = "OK"
  /\ UNCHANGED <<rtVars, timers, hal, stopping, req, slot, history>>

i2c_timer_stop ==
  /\ timers' = timers \ {timer_id}
  /\ timer_id' = None

i2c_bus_release ==
  /\ i2c_timer_stop
  /\ aborting' = FALSE
  /\ busy' = FALSE
  /\ cb' = None

FailSilently ==           \* variant: the callback is not called
  /\ pc = "fail"
  /\ i2c_bus_release
  /\ ret' = "IO"
  /\ pc' = "idle"
  /\ UNCHANGED <<hal, stopping, req, slot, history>>

i2c_async_fail ==
  /\ pc = "fail"
  /\ i2c_bus_release
  /\ Report(req, "IO")
  /\ ret' = "IO"
  /\ pc' = "idle"
  /\ loose' = (loose \/ hal # None)
  /\ UNCHANGED <<hal, stopping, req, slot, moved, cuts, early>>

(* i2c_is_device_ready: the bus is held while the HAL polls.                *)
Probe ==
  /\ pc = "idle" /\ ~ busy
  /\ i2c_bus_acquire
  /\ pc' = "probe"
  /\ UNCHANGED <<timers, hal, stopping, req, slot, ret, history>>

ProbeDone ==
  /\ pc = "probe"
  /\ i2c_bus_release
  /\ ret' \in Status
  /\ pc' = "idle"
  /\ UNCHANGED <<hal, stopping, req, slot, history>>

Call == StoreCallback \/ StartAccepted \/ StartRefused \/ Register \/ StoreId
          \/ CheckArmed \/ i2c_async_fail \/ ProbeDone

-----------------------------------------------------------------------------
(***************************************************************************)
(* The interrupts.                                                         *)
(***************************************************************************)
Starting == pc \in {"arm", "store", "check"}
EndedEarly == IF Starting \/ pc = "fail" THEN early \cup {hal} ELSE early

FinishKeepsTimer(st) ==   \* variant: the timer goes on
  IF ~ busy THEN UNCHANGED <<rtVars, timers, reports>>
  ELSE /\ timer_id' = None
       /\ aborting' = FALSE
       /\ busy' = FALSE
       /\ cb' = None
       /\ Report(cb, st)
       /\ UNCHANGED timers

i2c_finish(st) ==
  IF ~ busy THEN UNCHANGED <<rtVars, timers, reports>>
  ELSE /\ i2c_timer_stop
       /\ aborting' = FALSE
       /\ busy' = FALSE
       /\ cb' = None
       /\ Report(cb, st)

(* HAL_I2C_MasterTxCpltCallback and the three like it.                      *)
TransferComplete ==
  /\ hal # None /\ ~ stopping
  /\ hal' = None
  /\ moved' = moved \cup {hal}
  /\ early' = EndedEarly
  /\ i2c_finish("OK")
  /\ UNCHANGED <<stopping, pc, req, slot, ret, cuts, loose>>

(* HAL_I2C_ErrorCallback: no acknowledge, bus error, lost arbitration.      *)
ErrorCallback ==
  /\ hal # None /\ ~ stopping
  /\ hal' = None
  /\ early' = EndedEarly
  /\ i2c_finish("IO")
  /\ UNCHANGED <<stopping, pc, req, slot, ret, moved, cuts, loose>>

AbortSaysOk ==            \* variant: an aborted transfer counts as done
  /\ stopping
  /\ hal' = None /\ stopping' = FALSE
  /\ early' = EndedEarly
  /\ i2c_finish("OK")
  /\ UNCHANGED <<pc, req, slot, ret, moved, cuts, loose>>

AbortSaysNothing ==       \* variant: only a transfer still marked is finished
  /\ stopping
  /\ hal' = None /\ stopping' = FALSE
  /\ early' = EndedEarly
  /\ UNCHANGED <<rtVars, timers, reports, pc, req, slot, ret, moved, cuts, loose>>

(* HAL_I2C_AbortCpltCallback, from the interrupt of the requested STOP.  A   *)
(* start call that failed meanwhile has taken the mark, or a next request    *)
(* has: the abort then counts as a completion, of whoever holds the bus.     *)
AbortComplete ==
  /\ stopping
  /\ hal' = None /\ stopping' = FALSE
  /\ early' = EndedEarly
  /\ i2c_finish(IF aborting THEN "IO" ELSE "OK")
  /\ UNCHANGED <<pc, req, slot, ret, moved, cuts, loose>>

(* HAL_I2C_Master_Abort_IT, asked for by entry e with the mark set: refused   *)
(* without a transfer; otherwise its callback ends the request within, or    *)
(* the STOP is requested (once more, if it was before).                      *)
CutSaysOk(e) ==           \* variant: an aborted transfer counts as done
  \/ /\ hal = None
     /\ aborting' = TRUE
     /\ UNCHANGED <<busy, cb, hal, stopping, reports, cuts, early>>
  \/ /\ hal # None
     /\ cuts' = cuts \cup {[hit |-> hal, by |-> e]}
     /\ hal' = None
     /\ early' = EndedEarly
     /\ aborting' = FALSE /\ busy' = FALSE /\ cb' = None
     /\ Report(cb, "OK")
     /\ UNCHANGED stopping

HAL_I2C_Master_Abort_IT(e) ==
  \/ /\ hal = None
     /\ aborting' = TRUE
     /\ UNCHANGED <<busy, cb, hal, stopping, reports, cuts, early>>
  \/ /\ hal # None
     /\ cuts' = cuts \cup {[hit |-> hal, by |-> e]}
     /\ IF atOnce
        THEN /\ hal' = None
             /\ early' = EndedEarly
             /\ aborting' = FALSE /\ busy' = FALSE /\ cb' = None
             /\ Report(cb, "IO")
             /\ UNCHANGED stopping
        ELSE /\ aborting' = TRUE /\ stopping' = TRUE
             /\ UNCHANGED <<busy, cb, hal, reports, early>>

TimeoutOnlyMarks(e) ==    \* variant: nobody aborts the transfer
  /\ timers' = timers \ {e}
  /\ timer_id' = IF busy THEN None ELSE timer_id
  /\ aborting' = (busy \/ aborting)
  /\ UNCHANGED <<busy, cb, hal, stopping, reports, cuts, early>>

(* i2c_timeout_cb, called when entry e has expired.                          *)
i2c_timeout_cb(e) ==
  /\ timers' = timers \ {e}
  /\ \/ ~ busy /\ UNCHANGED <<rtVars, hal, stopping, reports, cuts, early>>
     \/ busy /\ timer_id' = None /\ HAL_I2C_Master_Abort_IT(e)

TimerExpires ==
  /\ timers # {}
  /\ i2c_timeout_cb(Min(timers))
  /\ UNCHANGED <<pc, req, slot, ret, moved, loose>>

Interrupt == TransferComplete \/ ErrorCallback \/ AbortComplete \/ TimerExpires

Next == (RefuseBusy \/ Accept \/ Probe \/ Call \/ Interrupt) /\ UNCHANGED atOnce

Spec == Init /\ [][Next]_vars

(* The task finishes its call and timers expire; the device may stay silent, *)
(* and hold the lines against a STOP.                                        *)
FairSpec == Spec /\ WF_vars(Call /\ UNCHANGED atOnce)
                 /\ WF_vars(TimerExpires /\ UNCHANGED atOnce)

-----------------------------------------------------------------------------
(* The types; the driver never holds more timer entries than there are.     *)
TypeOK ==
  /\ atOnce \in BOOLEAN
  /\ busy \in BOOLEAN /\ aborting \in BOOLEAN
  /\ cb \in Request \cup {None}
  /\ timer_id \in Request \cup {None}
  /\ timers \subseteq Request /\ Cardinality(timers) <= Slots
  /\ hal \in Request \cup {None}
  /\ pc \in {"idle", "try_busy", "start", "arm", "store", "check", "fail", "probe"}
  /\ req \in 0 .. MaxRequests
  /\ slot \in Request \cup {None}
  /\ ret \in Status \cup {"BUSY"}
  /\ moved \subseteq Request
  /\ reports \in Seq([req : Request, status : Status])
  /\ cuts \subseteq [hit : Request, by : Request]
  /\ early \subseteq Request /\ loose \in BOOLEAN /\ stopping \in BOOLEAN

(***************************************************************************)
(* The driver unregisters only entries it owns: a stored id that may still *)
(* be used names an active entry, although the entry expires, or its       *)
(* transfer ends, behind the task's back.  On the stm32n6 there is one     *)
(* exception: an entry that expires before the start call has stored its   *)
(* id, and whose abort is still under way, leaves a dead id.               *)
(***************************************************************************)
Dead(e) == stopping /\ [hit |-> hal, by |-> e] \in cuts

IdIsOwn == busy /\ timer_id # None => timer_id \in timers \/ Dead(timer_id)

(***************************************************************************)
(* A started transfer cannot go on for ever: while it does the bus is busy *)
(* and, once the call has returned, a timer is pending that will abort it, *)
(* or has.  Only then may the client be waiting for the STOP alone.        *)
(***************************************************************************)
RunningIsGuarded ==
  hal # None /\ ~ loose =>
    /\ busy /\ cb = hal
    /\ pc = "idle" => timers # {} \/ (stopping /\ aborting)

(* The reports of request n.                                                *)
ReportsOf(n) == {i \in DOMAIN reports : reports[i].req = n}

Over(n) == n < req \/ (n = req /\ pc = "idle" /\ hal = None)

(***************************************************************************)
(* Every accepted request is reported, and once, unless its transfer ended *)
(* before the call that started it: a second report, an error, may then    *)
(* follow the first.                                                       *)
(***************************************************************************)
ReportedOnce ==
  ~ loose =>
    \A n \in 1 .. req :
      /\ Over(n) => ReportsOf(n) # {}
      /\ n \notin early => Cardinality(ReportsOf(n)) <= 1
      /\ \A i, j \in ReportsOf(n) : i < j => reports[j].status = "IO" /\ j = i + 1

(***************************************************************************)
(* The driver is the bus its client reckons with: whatever completions,    *)
(* errors and timeouts fall into a start call or after it, each step is    *)
(* one of I2cBus or none.  A call about to fail had started its transfer   *)
(* if that goes on or has ended since.                                     *)
(***************************************************************************)
Bus == INSTANCE I2cBus WITH
  phase <- IF pc \in {"idle", "probe"} THEN "out"
           ELSE IF Starting \/ (pc = "fail" /\ req \in early \cup {hal}) THEN "started" ELSE "called",
  running <- hal # None,
  told <- Cardinality(ReportsOf(req)),
  last <- IF ReportsOf(req) = {} THEN "none" ELSE reports[Max(ReportsOf(req))].status,
  exhausted <- loose

ImplementsBus == Bus!Spec

(* OK is reported only of a request whose own transfer completed.           *)
OkMeansMoved ==
  ~ loose => \A i \in DOMAIN reports : reports[i].status = "OK" => reports[i].req \in moved

(***************************************************************************)
(* A timeout aborts no transfer but its own, except in a cascade: the entry *)
(* of a transfer that ended before the start call armed it hits a later     *)
(* one, whose entry is then forgotten and hits a later one in turn.  (Once  *)
(* a call failed under its transfer, a request may be accepted under it,   *)
(* lose its busy flag to its end, and leave its own entry behind.)         *)
(***************************************************************************)
Explained(e, n) ==
  \/ e = n
  \/ e \in early
  \/ \E d \in cuts : d.hit = e /\ d.by < e

CutsOwnTransfer == ~ loose => \A c \in cuts : Explained(c.by, c.hit)

(* Every accepted request is eventually reported, silent device or not: on   *)
(* the stm32n6 as long as no abort waits for its STOP for ever.              *)
RequestsReported ==
  []<>~ stopping => \A n \in Request : (req = n) ~> (ReportsOf(n) # {} \/ loose)

(***************************************************************************)
(* The driver holds no id but its own, a running transfer has a timer that *)
(* ends it and aborts no other, and all variables have their types.        *)
(***************************************************************************)
BusInv ==
  /\ TypeOK
  /\ IdIsOwn
  /\ RunningIsGuarded
  /\ CutsOwnTransfer
=============================================================================
