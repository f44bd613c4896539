----------------------------- MODULE SensorImu ------------------------------
(***************************************************************************)
(* middleware/sensor/sensor_mpu6050.c on drivers/device/mpu6050/mpu6050.c: *)
(* the sensor task brings the chip up register by register, then a timer   *)
(* asks for a burst read every sample period.  The end of a transfer and   *)
(* the timer are interrupts that post a message to the task; they may come *)
(* between any two of its steps, also before the call that started the     *)
(* transfer has returned.                                                  *)
(*                                                                         *)
(* The bus is what I2cDriver shows of it: every accepted transfer ends in  *)
(* a report, and one that ends inside its own start call may be reported a *)
(* second time, as failed.  The timer table is that of HSoftTimer: the     *)
(* first free entry is taken, an entry is free again before its callback   *)
(* runs.  The task takes a message whenever there is one (TaskManager).    *)
(***************************************************************************)
EXTENDS Naturals, Sequences

CONSTANTS
  QueueLen,  \* depth of the sensor task's inbox
  Slots      \* entries of the timer table

ASSUME QueueAssumption == QueueLen \in Nat \ {0}
ASSUME SlotsAssumption == Slots \in Nat \ {0}

VARIABLES
  state,    \* s_state
  busy,     \* s_busy of the mpu6050 driver
  xfer,     \* the transfer the bus is doing, or None
  buf,      \* s_reg_buf in two parts: which burst each was last read by
  burst,    \* number of the last burst read started, modulo QueueLen + 1: no more
            \* than that many are under way, reported in the inbox, or being read
  got,      \* parts of it received
  inbox,    \* the sensor task's messages, oldest first
  id,       \* s_sample_timer_id, or NoSlot
  timer,    \* the entry in which the sample timer is armed, or NoSlot
  others,   \* the entries other drivers hold
  pc,       \* where the task is
  job,      \* the transfer it starts
  tid,      \* the timer id sensor_mpu6050_fail has loaded
  latest,   \* s_latest, in the parts of buf it was made from
  written,  \* history: the transfers of the bring-up that were done, in order
  foreign,  \* history: the task unregistered another driver's timer
  overtaken,\* history: the timer fired inside sensor_mpu6050_fail
  isrfail   \* history: sensor_mpu6050_fail was called in an interrupt

busVars == <<busy, xfer, buf, burst, got, written>>
timerVars == <<id, timer, others, foreign, overtaken, isrfail>>
taskVars == <<state, pc, job, tid, latest>>
vars == <<state, busy, xfer, buf, burst, got, inbox, id, timer, others, pc, job, tid,
          latest, written, foreign, overtaken, isrfail>>

None == "none"
NoSlot == Slots
Slot == 0 .. Slots - 1

(* The bring-up: states, and the transfer each of them waits for.           *)
InitSteps == <<"WAKE", "WHOAMI", "SMPLRT", "CONFIG", "GYRO", "ACCEL">>
InitState == {InitSteps[i] : i \in DOMAIN InitSteps}
After(s) == InitSteps[1 + CHOOSE i \in DOMAIN InitSteps : InitSteps[i] = s]
Job == InitState \cup {"BURST"}

Init ==
  /\ state = "OFF"
  /\ busy = FALSE
  /\ xfer = None
  /\ buf = <<0, 0>>
  /\ burst = 0
  /\ got = 0
  /\ inbox = <<>>
  /\ id = NoSlot
  /\ timer = NoSlot
  /\ others = {}
  /\ pc = "boot"
  /\ job = "WAKE"
  /\ tid = NoSlot
  /\ latest = <<0, 0>>
  /\ written = <<>>
  /\ foreign = FALSE
  /\ overtaken = FALSE
  /\ isrfail = FALSE

-----------------------------------------------------------------------------
(* tm_send_from_isr: a message that finds the inbox full is lost.  It is    *)
(* tagged, for the properties, with the burst last started.                 *)
Post(q, m) == IF Len(q) < QueueLen THEN Append(q, [op |-> m, tag |-> burst]) ELSE q

(* mpu6050_map_i2c_status, and its use as the parameter of I2C_DONE.        *)
AlwaysOk(status) == "OK"                              \* variant
map_i2c_status(status) == status

FirstFree(free) == CHOOSE i \in free : \A j \in free : i <= j

-----------------------------------------------------------------------------
(***************************************************************************)
(* The task.  mpu6050_hw_init probes the device.                           *)
(***************************************************************************)
Boot ==
  /\ pc = "boot"
  /\ \/ state' = "WAKE" /\ job' = "WAKE" /\ pc' = "start"
     \/ pc' = "fail" /\ UNCHANGED <<state, job>>
  /\ UNCHANGED <<busVars, inbox, timerVars, tid, latest>>

Take(m) == pc = "idle" /\ inbox # <<>> /\ Head(inbox).op = m /\ inbox' = Tail(inbox)

(* sensor_mpu6050_start_sample.                                             *)
OnSample ==
  /\ Take("SAMPLE")
  /\ IF state = "RUNNING" THEN pc' = "start" /\ job' = "BURST" ELSE UNCHANGED <<pc, job>>
  /\ UNCHANGED <<busVars, timerVars, state, tid, latest>>

FailureIgnored ==        \* variant: the status is not looked at
  /\ Take("IO")
  /\ state \in InitState \ {"ACCEL"}
  /\ state' = After(state) /\ job' = After(state) /\ pc' = "start"
  /\ UNCHANGED <<busVars, timerVars, tid, latest>>

(* sensor_mpu6050_on_i2c_done; WHO_AM_I may hold another value.             *)
OnFailure ==
  /\ Take("IO")
  /\ pc' = "fail"
  /\ UNCHANGED <<busVars, timerVars, state, job, tid, latest>>

NextStepForgotten ==     \* variant: the next register is not written
  /\ Take("OK")
  /\ state \in InitState \ {"ACCEL"}
  /\ state' = After(state)
  /\ UNCHANGED <<busVars, timerVars, pc, job, tid, latest>>

OnInitStep ==
  /\ Take("OK")
  /\ state \in InitState \ {"ACCEL"}
  /\ \/ state' = After(state) /\ job' = After(state) /\ pc' = "start"
     \/ state = "WHOAMI" /\ pc' = "fail" /\ UNCHANGED <<state, job>>
  /\ UNCHANGED <<busVars, timerVars, tid, latest>>

OnInitDone ==
  /\ Take("OK")
  /\ state = "ACCEL"
  /\ state' = "RUNNING"
  /\ pc' = "arm"
  /\ UNCHANGED <<busVars, timerVars, job, tid, latest>>

(* sensor_mpu6050_publish_sample.                                           *)
OnBurst ==
  /\ Take("OK")
  /\ state = "RUNNING"
  /\ latest' = buf
  /\ UNCHANGED <<busVars, timerVars, state, pc, job, tid>>

OnLateDone ==
  /\ Take("OK")
  /\ state \in {"OFF", "ERROR"}
  /\ UNCHANGED <<busVars, timerVars, taskVars>>

(***************************************************************************)
(* sensor_mpu6050_arm_sample_timer, then start_sample.  Registering and    *)
(* storing the id are one step: the period is long.                        *)
(***************************************************************************)
ArmForgetsId ==          \* variant: the id is not stored
  /\ pc = "arm"
  /\ Slot \ others # {}
  /\ timer' = FirstFree(Slot \ others)
  /\ pc' = "start" /\ job' = "BURST"
  /\ UNCHANGED <<busVars, inbox, id, others, foreign, overtaken, isrfail, state, tid, latest>>

ArmSampleTimer ==
  /\ pc = "arm"
  /\ IF Slot \ others # {}
     THEN /\ timer' = FirstFree(Slot \ others)
          /\ id' = timer'
          /\ pc' = "start" /\ job' = "BURST"
     ELSE pc' = "fail" /\ UNCHANGED <<timer, id, job>>
  /\ UNCHANGED <<busVars, inbox, others, foreign, overtaken, isrfail, state, tid, latest>>

(***************************************************************************)
(* mpu6050_start_mem_write and _read.  What the caller does with an error: *)
(* the bring-up gives up, a sample is skipped.                             *)
(***************************************************************************)
Refused == pc' = IF job = "BURST" THEN "idle" ELSE "fail"

StartBusy ==
  /\ pc = "start" /\ busy
  /\ Refused
  /\ UNCHANGED <<busVars, inbox, timerVars, state, job, tid, latest>>

StartAccepted ==
  /\ pc = "start" /\ ~ busy
  /\ busy' = TRUE
  /\ xfer' = job
  /\ IF job = "BURST" THEN burst' = (burst + 1) % (QueueLen + 1) /\ got' = 0 ELSE UNCHANGED <<burst, got>>
  /\ pc' = "return"
  /\ UNCHANGED <<buf, written, inbox, timerVars, state, job, tid, latest>>

(* i2c_async_fail calls back before the start call returns its error.       *)
StartRefused ==
  /\ pc = "start" /\ ~ busy
  /\ inbox' = Post(inbox, map_i2c_status("IO"))
  /\ Refused
  /\ UNCHANGED <<busVars, timerVars, state, job, tid, latest>>

BusySetLate ==           \* variant: s_busy is set once the start call returned
  /\ pc = "return"
  /\ busy' = TRUE
  /\ pc' = "idle"
  /\ UNCHANGED <<xfer, buf, burst, got, written, inbox, timerVars, state, job, tid, latest>>

StartReturns ==
  /\ pc = "return"
  /\ pc' = "idle"
  /\ UNCHANGED <<busVars, inbox, timerVars, state, job, tid, latest>>

StartFailsLate ==
  /\ pc = "return" /\ xfer = None
  /\ inbox' = Post(inbox, map_i2c_status("IO"))
  /\ busy' = FALSE
  /\ Refused
  /\ UNCHANGED <<xfer, buf, burst, got, written, timerVars, state, job, tid, latest>>

(* sensor_mpu6050_fail: mark, load the timer id; unregister, forget the id. *)
Fail ==
  /\ pc = "fail"
  /\ state' = "ERROR"
  /\ tid' = id
  /\ pc' = "drop"
  /\ UNCHANGED <<busVars, inbox, timerVars, job, latest>>

FailDrop ==
  /\ pc = "drop"
  /\ timer' = IF timer = tid THEN NoSlot ELSE timer
  /\ others' = others \ {tid}
  /\ foreign' = (foreign \/ tid \in others)
  /\ id' = IF tid # NoSlot THEN NoSlot ELSE id
  /\ tid' = NoSlot
  /\ pc' = "idle"
  /\ UNCHANGED <<busVars, inbox, overtaken, isrfail, state, job, latest>>

Task ==
  \/ Boot \/ OnSample \/ OnFailure \/ OnInitStep \/ OnInitDone \/ OnBurst \/ OnLateDone
  \/ ArmSampleTimer \/ StartBusy \/ StartAccepted \/ StartRefused \/ StartReturns
  \/ StartFailsLate \/ Fail \/ FailDrop

-----------------------------------------------------------------------------
(***************************************************************************)
(* The interrupts.  The HAL stores a burst as it comes in; at its end the  *)
(* driver's i2c_finish calls mpu6050_i2c_done and sensor_mpu6050_on_evt.   *)
(***************************************************************************)
BytesArrive ==
  /\ xfer = "BURST" /\ got < 2
  /\ got' = got + 1
  /\ buf' = [buf EXCEPT ![got + 1] = burst]
  /\ UNCHANGED <<busy, xfer, burst, written, inbox, timerVars, taskVars>>

TransferEnds(status) ==
  /\ xfer # None
  /\ status = "OK" => (xfer = "BURST" => got = 2)
  /\ xfer' = None
  /\ busy' = FALSE
  /\ inbox' = Post(inbox, map_i2c_status(status))
  /\ written' = IF status = "OK" /\ xfer # "BURST" THEN Append(written, xfer) ELSE written
  /\ UNCHANGED <<buf, burst, got, timerVars, taskVars>>

(* The expiry hook frees the entry, then calls sensor_mpu6050_sample_timer_cb, *)
(* which posts and registers again.                                            *)
FreeInCallback == Slot \ others

SampleTimerFires ==
  /\ timer # NoSlot
  /\ inbox' = Post(inbox, "SAMPLE")
  /\ IF FreeInCallback # {}
     THEN /\ timer' = FirstFree(FreeInCallback)
          /\ id' = timer'
          /\ UNCHANGED <<state, isrfail>>
     ELSE /\ timer' = NoSlot
          /\ id' = NoSlot
          /\ state' = "ERROR"
          /\ isrfail' = TRUE
  /\ overtaken' = (overtaken \/ pc = "drop")
  /\ UNCHANGED <<busVars, others, foreign, pc, job, tid, latest>>

(* Other drivers arm and drop timers; the entry they get is the first free. *)
OthersRegister ==
  LET free == Slot \ (others \cup {timer}) IN
  /\ free # {}
  /\ others' = others \cup {FirstFree(free)}
  /\ UNCHANGED <<busVars, inbox, id, timer, foreign, overtaken, isrfail, taskVars>>

OthersRelease ==
  /\ \E i \in others : others' = others \ {i}
  /\ UNCHANGED <<busVars, inbox, id, timer, foreign, overtaken, isrfail, taskVars>>

Bus == BytesArrive \/ \E status \in {"OK", "IO"} : TransferEnds(status)

Next == Task \/ Bus \/ SampleTimerFires \/ OthersRegister \/ OthersRelease

Spec == Init /\ [][Next]_vars

(* The task runs when it is ready, and every transfer ends: I2cDriver (on    *)
(* the stm32n6 only if the device lets go of the lines for an abort's STOP). *)
FairSpec == Spec /\ WF_vars(Task) /\ WF_vars(Bus)

-----------------------------------------------------------------------------
Part == 0 .. QueueLen

(* The types. *)
TypeOK ==
  /\ state \in InitState \cup {"OFF", "RUNNING", "ERROR"}
  /\ busy \in BOOLEAN
  /\ xfer \in Job \cup {None}
  /\ buf \in Part \X Part /\ latest \in Part \X Part /\ burst \in Part /\ got \in 0 .. 2
  /\ inbox \in Seq([op : {"OK", "IO", "SAMPLE"}, tag : Part]) /\ Len(inbox) <= QueueLen
  /\ id \in Slot \cup {NoSlot} /\ timer \in Slot \cup {NoSlot} /\ tid \in Slot \cup {NoSlot}
  /\ others \subseteq Slot \ {timer}
  /\ pc \in {"boot", "idle", "arm", "start", "return", "fail", "drop"}
  /\ job \in Job
  /\ written \in Seq(InitState)
  /\ foreign \in BOOLEAN /\ overtaken \in BOOLEAN /\ isrfail \in BOOLEAN

(***************************************************************************)
(* The bring-up takes no step on the strength of another transfer's end:   *)
(* in each of its states exactly the earlier registers were written, in    *)
(* order, and the sensor runs only with all of them written.               *)
(***************************************************************************)
ConfiguredInOrder ==
  /\ state = "RUNNING" => written = InitSteps
  /\ state \in InitState =>
       \E n \in 0 .. Len(InitSteps) - 1 :
         /\ state = InitSteps[n + 1]
         /\ \/ written = SubSeq(InitSteps, 1, n)
            \/ written = SubSeq(InitSteps, 1, n + 1)

(***************************************************************************)
(* The driver's busy flag neither outlives the transfer, which would end   *)
(* all sampling, nor falls while it runs, also when the transfer ends      *)
(* before the call that started it has returned.                           *)
(***************************************************************************)
BusyIsHonest == busy <=> xfer # None

(***************************************************************************)
(* A sample mixes two bursts only if the next read had been started before *)
(* the end of its own was handled: a SAMPLE message queued ahead of the    *)
(* I2C_DONE message does that, and both reads use the same buffer.         *)
(***************************************************************************)
WholeUnlessOverrun ==
  [][latest' # latest /\ Head(inbox).tag = burst => latest'[1] = latest'[2]]_vars

(* Sampling never dies unnoticed: the running sensor has its timer armed,   *)
(* whatever messages were lost.                                             *)
RunningIsTimed == state = "RUNNING" /\ pc \notin {"arm", "fail"} => timer # NoSlot

(***************************************************************************)
(* Giving up stops the sample timer and nobody else's, unless the timer    *)
(* fires while sensor_mpu6050_fail is about to unregister the id it read.  *)
(***************************************************************************)
FailStopsOwnTimer ==
  ~ overtaken =>
    /\ ~ foreign
    /\ state = "ERROR" /\ pc # "drop" => timer = NoSlot

(* sensor_mpu6050_fail, which logs and so may block, is never called from   *)
(* the timer interrupt: re-arming in the callback cannot fail.              *)
NeverFailsInIsr == ~ isrfail

(* The bring-up ends, in the running state or in the error state.           *)
InitEnds == (state \in InitState) ~> (state \in {"RUNNING", "ERROR"})

(***************************************************************************)
(* The busy flag is the state of the bus, a running sensor has its timer   *)
(* armed, giving up stops that timer and no other, the failure path stays  *)
(* out of the interrupts, and all variables have their types.              *)
(***************************************************************************)
SensorInv ==
  /\ TypeOK
  /\ BusyIsHonest
  /\ RunningIsTimed
  /\ FailStopsOwnTimer
  /\ NeverFailsInIsr
=============================================================================
