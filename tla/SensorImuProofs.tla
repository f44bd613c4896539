--------------------------- MODULE SensorImuProofs ---------------------------
(***************************************************************************)
(* Theorems about SensorImu for every depth of the inbox and every size of *)
(* the timer table.  ServiceInv is the inductive invariant behind them:    *)
(* who owns the sample timer (Owned), how far the bring-up is (BringUp),   *)
(* and which bursts the messages in the inbox speak of (Bursts).           *)
(***************************************************************************)
EXTENDS SensorImu, FiniteSetTheorems, TLAPS

(* The id is the armed entry, in whatever place the task keeps it; there is  *)
(* none before the bring-up is over and none after giving up.                *)
Owned ==
  /\ pc = "boot" => state = "OFF"
  /\ pc = "arm" => state = "RUNNING"
  /\ pc = "drop" => state = "ERROR"
  /\ state \in InitState \cup {"OFF"} => timer = NoSlot
  /\ RunningIsTimed
  /\ NeverFailsInIsr
  /\ ~ overtaken =>
       /\ ~ foreign /\ id = timer
       /\ pc = "drop" => tid = timer
       /\ state = "ERROR" /\ pc # "drop" => timer = NoSlot

(* The first n registers, in order.                                         *)
FirstOf(n) == SubSeq(InitSteps, 1, n)

(* One transfer or one message at a time carries the bring-up on; a message  *)
(* says OK only of the register the state waits for.                         *)
Waits(n) ==
  /\ pc \in {"start", "return", "idle", "fail"}
  /\ job = state
  /\ xfer \in {None, state}
  /\ pc = "start" => xfer = None /\ inbox = <<>>
  /\ pc = "fail" => xfer = None
  /\ xfer = state => inbox = <<>>
  /\ pc = "start" \/ xfer = state => written = FirstOf(n)
  /\ pc = "fail" => written \in {FirstOf(n), FirstOf(n + 1)}
  /\ pc \in {"return", "idle"} /\ xfer = None =>
       /\ Len(inbox) = 1
       /\ \/ inbox[1].op = "OK" /\ written = FirstOf(n + 1)
          \/ inbox[1].op = "IO" /\ written = FirstOf(n)

BringUp ==
  /\ state = "OFF" => pc \in {"boot", "fail"} /\ written = <<>> /\ inbox = <<>>
  /\ state \in {"OFF", "RUNNING", "ERROR"} => xfer \in {None, "BURST"}
  /\ state = "OFF" => xfer = None
  /\ state = "RUNNING" => /\ written = InitSteps
                          /\ pc \in {"start", "return"} => job = "BURST"
  /\ state = "ERROR" => pc \in {"idle", "fail", "drop"}
  /\ state \in InitState =>
       \E n \in 0 .. 5 : state = InitSteps[n + 1] /\ Waits(n)

(* How many bursts were started since the one numbered t.                   *)
Age(t) == IF t <= burst THEN burst - t ELSE burst + QueueLen + 1 - t

(* A message grows older only by what is queued ahead of it, so the number   *)
(* in the message at the head tells the last burst from all others; and      *)
(* that burst was received whole, with no other under way.                   *)
Bursts ==
  /\ state \in InitState \cup {"OFF"} => buf = <<0, 0>>
  /\ xfer = "BURST" => /\ got >= 1 => buf[1] = burst
                       /\ got = 2 => buf[2] = burst
  /\ \A p \in DOMAIN inbox :
       inbox[p].op = "OK" =>
         /\ p + Age(inbox[p].tag) <= QueueLen + 1
         /\ pc \in {"arm", "start"} => p + Age(inbox[p].tag) <= QueueLen
         /\ inbox[p].tag = burst => buf[1] = buf[2] /\ xfer # "BURST"

ServiceInv == TypeOK /\ BusyIsHonest /\ Owned /\ BringUp /\ Bursts

-----------------------------------------------------------------------------

(* The six steps of the configuration, spelled out.                          *)
LEMMA Steps ==
  /\ InitState = {"WAKE", "WHOAMI", "SMPLRT", "CONFIG", "GYRO", "ACCEL"}
  /\ DOMAIN InitSteps = 1 .. 6 /\ Len(InitSteps) = 6
  /\ InitSteps \in Seq(InitState)
  /\ InitSteps[1] = "WAKE" /\ InitSteps[2] = "WHOAMI" /\ InitSteps[3] = "SMPLRT"
  /\ InitSteps[4] = "CONFIG" /\ InitSteps[5] = "GYRO" /\ InitSteps[6] = "ACCEL"
<1>1. /\ DOMAIN InitSteps = 1 .. 6 /\ Len(InitSteps) = 6
      /\ InitSteps[1] = "WAKE" /\ InitSteps[2] = "WHOAMI" /\ InitSteps[3] = "SMPLRT"
      /\ InitSteps[4] = "CONFIG" /\ InitSteps[5] = "GYRO" /\ InitSteps[6] = "ACCEL"
  BY DEF InitSteps
<1>2. InitState = {"WAKE", "WHOAMI", "SMPLRT", "CONFIG", "GYRO", "ACCEL"}
  BY <1>1 DEF InitState
<1>3. InitSteps \in Seq(InitState)
  BY <1>2 DEF InitSteps
<1>4. QED
  BY <1>1, <1>2, <1>3

(* The state after a step is the next one.                                   *)
LEMMA AfterStep ==
  ASSUME NEW n \in 0 .. 5, InitSteps[n + 1] # "ACCEL"
  PROVE  n \in 0 .. 4 /\ After(InitSteps[n + 1]) = InitSteps[n + 2]
<1>1. n \in 0 .. 4
  BY Steps
<1>2. \A i \in DOMAIN InitSteps : InitSteps[i] = InitSteps[n + 1] => i = n + 1
  BY <1>1, Steps
<1>3. (CHOOSE i \in DOMAIN InitSteps : InitSteps[i] = InitSteps[n + 1]) = n + 1
  <2>1. n + 1 \in DOMAIN InitSteps
    BY <1>1, Steps
  <2>2. QED
    BY <1>2, <2>1, Zenon
<1>4. After(InitSteps[n + 1]) = InitSteps[1 + (n + 1)]
  BY <1>3, Zenon DEF After
<1>5. 1 + (n + 1) = n + 2
  BY <1>1
<1>6. QED
  BY <1>1, <1>4, <1>5

(* The steps written so far, and one more.                                   *)
LEMMA Extend ==
  ASSUME NEW n \in 0 .. 5
  PROVE  /\ FirstOf(n) \in Seq(InitState) /\ FirstOf(n + 1) \in Seq(InitState)
         /\ Append(FirstOf(n), InitSteps[n + 1]) = FirstOf(n + 1)
         /\ FirstOf(0) = <<>> /\ FirstOf(6) = InitSteps
<1>1. FirstOf(n) \in Seq(InitState) /\ FirstOf(n + 1) \in Seq(InitState)
  BY Steps DEF FirstOf
<1>2. Append(FirstOf(n), InitSteps[n + 1]) = FirstOf(n + 1)
  BY Steps DEF FirstOf
<1>3. FirstOf(0) = <<>> /\ FirstOf(6) = InitSteps
  BY Steps DEF FirstOf
<1>4. QED
  BY <1>1, <1>2, <1>3

Message == [op : {"OK", "IO", "SAMPLE"}, tag : Part]

(* The inbox is a sequence of messages.                                      *)
LEMMA Inbox ==
  ASSUME TypeOK
  PROVE  /\ inbox \in Seq(Message) /\ Len(inbox) \in 0 .. QueueLen
         /\ DOMAIN inbox = 1 .. Len(inbox)
         /\ \A p \in 1 .. Len(inbox) : inbox[p] \in Message /\ inbox[p].tag \in Part
         /\ inbox # <<>> => Head(inbox) = inbox[1] /\ Len(inbox) >= 1
<1>1. inbox \in Seq(Message) /\ Len(inbox) <= QueueLen
  BY DEF TypeOK, Message
<1> HIDE DEF Message
<1>2. /\ Len(inbox) \in Nat /\ DOMAIN inbox = 1 .. Len(inbox)
      /\ \A p \in 1 .. Len(inbox) : inbox[p] \in Message
      /\ inbox # <<>> => Head(inbox) = inbox[1] /\ Len(inbox) >= 1
  BY <1>1
<1>3. \A m \in Message : m.tag \in Part
  BY DEF Message
<1>4. QED
  BY <1>1, <1>2, <1>3, QueueAssumption

(* A message that is posted comes last, or is lost.                          *)
LEMMA PostEffect ==
  ASSUME TypeOK, NEW m \in {"OK", "IO", "SAMPLE"}
  PROVE  LET q == Post(inbox, m)
             k == Len(inbox)
         IN  /\ q \in Seq(Message) /\ Len(q) <= QueueLen
             /\ k = QueueLen => q = inbox
             /\ k < QueueLen =>
                  /\ Len(q) = k + 1 /\ DOMAIN q = 1 .. k + 1
                  /\ q[k + 1].op = m /\ q[k + 1].tag = burst
                  /\ \A p \in 1 .. k : q[p] = inbox[p]
<1> DEFINE e == [op |-> m, tag |-> burst]
<1>1. e \in Message /\ e.op = m /\ e.tag = burst
  BY DEF TypeOK, Message
<1> HIDE DEF e
<1>2. inbox \in Seq(Message) /\ Len(inbox) \in 0 .. QueueLen
  BY Inbox
<1>3. CASE Len(inbox) < QueueLen
  <2>1. Post(inbox, m) = Append(inbox, e)
    BY <1>3 DEF Post, e
  <2> HIDE DEF Message
  <2>2. /\ Append(inbox, e) \in Seq(Message) /\ Len(Append(inbox, e)) = Len(inbox) + 1
        /\ DOMAIN Append(inbox, e) = 1 .. Len(inbox) + 1
        /\ Append(inbox, e)[Len(inbox) + 1] = e
        /\ \A p \in 1 .. Len(inbox) : Append(inbox, e)[p] = inbox[p]
    BY <1>1, <1>2
  <2>3. QED
    BY <1>1, <1>2, <1>3, <2>1, <2>2, QueueAssumption
<1>4. CASE ~ (Len(inbox) < QueueLen)
  BY <1>2, <1>4, QueueAssumption DEF Post
<1>5. QED
  BY <1>3, <1>4

(* Taking a message shifts the others.                                       *)
LEMMA TakeEffect ==
  ASSUME TypeOK, NEW m, Take(m)
  PROVE  /\ inbox' \in Seq(Message) /\ Len(inbox') = Len(inbox) - 1
         /\ DOMAIN inbox' = 1 .. Len(inbox) - 1
         /\ Len(inbox) \in 1 .. QueueLen /\ inbox[1].op = m
         /\ \A p \in 1 .. Len(inbox) - 1 : inbox'[p] = inbox[p + 1]
<1>1. /\ inbox \in Seq(Message) /\ inbox # <<>> /\ inbox' = Tail(inbox)
      /\ Len(inbox) \in 1 .. QueueLen /\ Head(inbox) = inbox[1] /\ Head(inbox).op = m
  BY Inbox, QueueAssumption DEF Take
<1> HIDE DEF Message
<1>2. QED
  BY <1>1

-----------------------------------------------------------------------------
(* A set of entries has a first one: of the sets 0 .. i, one contains no     *)
(* other strictly.                                                           *)
LEMMA Free ==
  ASSUME NEW T \in SUBSET Slot, T # {}
  PROVE  FirstFree(T) \in T
<1> DEFINE F == {0 .. i : i \in T}
           R == StrictSubsetOrdering(Nat)
<1>1. T \subseteq Nat
  BY SlotsAssumption DEF Slot
<1>2. IsWellFoundedOn(R, FiniteSubsetsOf(Nat))
  BY FS_StrictSubsetOrderingWellFounded
<1>3. F \subseteq FiniteSubsetsOf(Nat) /\ F # {}
  <2>1. \A i \in T : IsFiniteSet(0 .. i) /\ 0 .. i \in SUBSET Nat
    BY <1>1, FS_Interval
  <2>2. QED
    BY <2>1 DEF FiniteSubsetsOf
<1> HIDE DEF R
<1>4. PICK s \in F : \A y \in F : ~ (<<y, s>> \in R)
  BY <1>2, <1>3, WFMin
<1>5. PICK m \in T : s = 0 .. m
  BY <1>4
<1>6. \A i \in T : i < m => <<0 .. i, 0 .. m>> \in R
  BY <1>1 DEF R, StrictSubsetOrdering
<1>9. \A i \in T : ~ (i < m)
  BY <1>4, <1>5, <1>6
<1>7. \A i \in T : m <= i
  BY <1>1, <1>9
<1>8. QED
  BY <1>5, <1>7, Zenon DEF FirstFree

(* Every step keeps the types.                                               *)
LEMMA TypeStep ==
  ASSUME TypeOK, [Next]_vars
  PROVE  TypeOK'
<1> USE DEF None
<1>0. NoSlot \notin Slot
  BY SlotsAssumption DEF NoSlot, Slot
<1> DEFINE Control ==
      /\ state \in InitState \cup {"OFF", "RUNNING", "ERROR"}
      /\ busy \in BOOLEAN /\ xfer \in Job \cup {None}
      /\ pc \in {"boot", "idle", "arm", "start", "return", "fail", "drop"}
      /\ job \in Job
      /\ foreign \in BOOLEAN /\ overtaken \in BOOLEAN /\ isrfail \in BOOLEAN
    Timers ==
      /\ id \in Slot \cup {NoSlot} /\ timer \in Slot \cup {NoSlot}
      /\ tid \in Slot \cup {NoSlot} /\ others \subseteq Slot \ {timer}
    Data == /\ buf \in Part \X Part /\ latest \in Part \X Part
            /\ burst \in Part /\ got \in 0 .. 2
    Box == inbox \in Seq(Message) /\ Len(inbox) <= QueueLen
    Path == written \in Seq(InitState)
<1>1. SUFFICES Control' /\ Timers' /\ Data' /\ Box' /\ Path'
  BY DEF TypeOK, Message
<1>2. Control /\ Timers /\ Data /\ Box /\ Path
  BY DEF TypeOK, Message
<1> HIDE DEF Box, Path, Data
<1>3. /\ inbox' = inbox => Box'
      /\ written' = written => Path'
      /\ UNCHANGED <<buf, latest, burst, got>> => Data'
  BY <1>2 DEF Box, Path, Data
<1>4. ASSUME NEW m \in {"OK", "IO", "SAMPLE"}, inbox' = Post(inbox, m) \/ Take(m)
      PROVE  Box'
  <2>1. Take(m) => Box'
    BY TakeEffect, QueueAssumption DEF Box
  <2>2. inbox' = Post(inbox, m) => Box'
    BY PostEffect DEF Box
  <2>3. QED
    BY <1>4, <2>1, <2>2
<1> USE DEF busVars, timerVars, taskVars
<1>5. CASE Boot
  <2>1. Control'
    BY <1>2, <1>5, Steps DEF Boot, Job
  <2>2. QED
    BY <1>2, <1>3, <1>5, <2>1 DEF Boot
<1>6. CASE OnSample \/ OnFailure \/ OnInitDone \/ OnLateDone
  <2>1. Control' /\ Timers'
    BY <1>2, <1>6 DEF OnSample, OnFailure, OnInitDone, OnLateDone, Job
  <2>2. Box' /\ Path' /\ Data'
    BY <1>3, <1>4, <1>6 DEF OnSample, OnFailure, OnInitDone, OnLateDone
  <2>3. QED
    BY <2>1, <2>2
<1>7. CASE OnInitStep
  <2>1. state \in InitState /\ state # "ACCEL"
    BY <1>7 DEF OnInitStep
  <2>2. \E n \in 0 .. 5 : state = InitSteps[n + 1]
    BY <2>1, Steps
  <2>3. After(state) \in InitState
    BY <2>1, <2>2, AfterStep, Steps
  <2>4. Box' /\ Path' /\ Data'
    BY <1>3, <1>4, <1>7 DEF OnInitStep
  <2>5. QED
    BY <1>2, <1>7, <2>3, <2>4 DEF OnInitStep, Job
<1>8. CASE OnBurst
  <2>1. Data'
    BY <1>2, <1>8 DEF OnBurst, Data
  <2>2. QED
    BY <1>2, <1>3, <1>4, <1>8, <2>1 DEF OnBurst
<1>9. CASE ArmSampleTimer
  <2>1. Slot \ others # {} => FirstFree(Slot \ others) \in Slot \ others
    BY Free
  <2>2. QED
    BY <1>2, <1>3, <1>9, <2>1 DEF ArmSampleTimer, Job
<1>10. CASE StartBusy \/ StartReturns
  BY <1>2, <1>3, <1>10 DEF StartBusy, StartReturns, Refused
<1>11. CASE StartAccepted
  <2>1. Data'
    <3>1. burst' \in {burst, (burst + 1) % (QueueLen + 1)} /\ got' \in {got, 0}
          /\ buf' = buf /\ latest' = latest
      BY <1>11 DEF StartAccepted
    <3>2. QED
      BY <1>2, <3>1, QueueAssumption DEF Data, Part
  <2>2. QED
    BY <1>2, <1>3, <1>11, <2>1 DEF StartAccepted
<1>12. CASE StartRefused \/ StartFailsLate
  <2>1. Box' /\ Path' /\ Data'
    BY <1>3, <1>4, <1>12 DEF StartRefused, StartFailsLate, map_i2c_status
  <2>2. QED
    BY <1>2, <1>12, <2>1 DEF StartRefused, StartFailsLate, Refused
<1>13. CASE Fail \/ FailDrop
  <2>1. Control'
    BY <1>2, <1>13 DEF Fail, FailDrop
  <2>2. Timers'
    BY <1>0, <1>2, <1>13 DEF Fail, FailDrop
  <2>3. QED
    BY <1>3, <1>13, <2>1, <2>2 DEF Fail, FailDrop
<1>14. CASE BytesArrive
  <2>1. Data'
    BY <1>2, <1>14 DEF BytesArrive, Data
  <2>2. QED
    BY <1>2, <1>3, <1>14, <2>1 DEF BytesArrive
<1>15. ASSUME NEW st \in {"OK", "IO"}, TransferEnds(st)
       PROVE  Control' /\ Timers' /\ Data' /\ Box' /\ Path'
  <2>1. Box' /\ Data'
    BY <1>3, <1>4, <1>15 DEF TransferEnds, map_i2c_status
  <2>2. Path'
    BY <1>2, <1>15 DEF TransferEnds, Path, Job
  <2>3. QED
    BY <1>2, <1>15, <2>1, <2>2 DEF TransferEnds
<1>16. CASE SampleTimerFires
  <2>1. FirstFree(FreeInCallback) \in Slot \ others
    BY <1>2, <1>16, Free DEF SampleTimerFires, FreeInCallback
  <2>2. Box' /\ Path' /\ Data'
    BY <1>3, <1>4, <1>16 DEF SampleTimerFires
  <2>3. Control'
    BY <1>2, <1>16 DEF SampleTimerFires
  <2>4. Timers'
    BY <1>0, <1>2, <1>16, <2>1 DEF SampleTimerFires
  <2>5. QED
    BY <2>2, <2>3, <2>4
<1>17. CASE OthersRegister
  <2>1. FirstFree(Slot \ (others \cup {timer})) \in Slot \ (others \cup {timer})
    BY <1>17, Free DEF OthersRegister
  <2>2. QED
    BY <1>2, <1>3, <1>17, <2>1 DEF OthersRegister
<1>18. CASE OthersRelease
  BY <1>2, <1>3, <1>18 DEF OthersRelease
<1>19. CASE UNCHANGED vars
  BY <1>2, <1>3, <1>19 DEF vars
<1>20. QED
  BY <1>5, <1>6, <1>7, <1>8, <1>9, <1>10, <1>11, <1>12, <1>13, <1>14, <1>15, <1>16, <1>17,
     <1>18, <1>19 DEF Next, Task, Bus

(* Every step keeps the busy flag honest.                                    *)
LEMMA HonestStep ==
  ASSUME TypeOK, BusyIsHonest, [Next]_vars
  PROVE  BusyIsHonest'
<1>1. /\ job # None /\ busy \in BOOLEAN /\ (busy <=> xfer # None)
  BY Steps DEF TypeOK, Job, None, BusyIsHonest
<1>2. CASE UNCHANGED <<busy, xfer>>
  BY <1>1, <1>2 DEF BusyIsHonest
<1>3. CASE StartAccepted
  BY <1>1, <1>3 DEF StartAccepted, BusyIsHonest
<1>4. CASE StartFailsLate
  BY <1>1, <1>4 DEF StartFailsLate, BusyIsHonest
<1>5. CASE \E st \in {"OK", "IO"} : TransferEnds(st)
  BY <1>5 DEF TransferEnds, BusyIsHonest
<1>6. QED
  BY <1>2, <1>3, <1>4, <1>5 DEF Next, Task, Bus, Boot, OnSample, OnFailure, OnInitStep,
     OnInitDone, OnBurst, OnLateDone, ArmSampleTimer, StartBusy, StartRefused, StartReturns,
     Fail, FailDrop, BytesArrive, SampleTimerFires, OthersRegister, OthersRelease, vars,
     busVars

(* Every step keeps the i2c request in one pair of hands.                    *)
LEMMA OwnedStep ==
  ASSUME TypeOK, Owned, [Next]_vars
  PROVE  Owned'
<1>0. /\ NoSlot \notin Slot
      /\ InitState = {"WAKE", "WHOAMI", "SMPLRT", "CONFIG", "GYRO", "ACCEL"}
  BY SlotsAssumption, Steps DEF NoSlot, Slot
<1> DEFINE Types ==
      /\ overtaken \in BOOLEAN /\ foreign \in BOOLEAN
      /\ id \in Slot \cup {NoSlot} /\ timer \in Slot \cup {NoSlot}
      /\ others \subseteq Slot \ {timer}
      /\ state \in InitState \cup {"OFF", "RUNNING", "ERROR"}
<1>1. Types
  BY DEF TypeOK
<1> USE DEF Owned, RunningIsTimed, NeverFailsInIsr, busVars, timerVars, taskVars
<1>2. CASE Boot
  BY <1>0, <1>1, <1>2 DEF Boot
<1>3. CASE OnSample \/ OnFailure \/ OnInitDone \/ OnLateDone \/ OnBurst
  BY <1>0, <1>1, <1>3 DEF OnSample, OnFailure, OnInitDone, OnLateDone, OnBurst, Take
<1>4. CASE OnInitStep
  <2>1. \E n \in 0 .. 5 : state = InitSteps[n + 1] /\ InitSteps[n + 1] # "ACCEL"
    BY <1>0, <1>4, Steps DEF OnInitStep
  <2>2. After(state) \in InitState
    BY <1>0, <2>1, AfterStep, Steps
  <2>3. QED
    BY <1>0, <1>1, <1>4, <2>2 DEF OnInitStep, Take
<1>5. CASE ArmSampleTimer
  <2>1. Slot \ others # {} => FirstFree(Slot \ others) \in Slot
    BY Free
  <2>2. QED
    BY <1>0, <1>1, <1>5, <2>1 DEF ArmSampleTimer
<1>6. CASE StartBusy \/ StartAccepted \/ StartRefused \/ StartReturns \/ StartFailsLate
  BY <1>0, <1>1, <1>6 DEF StartBusy, StartAccepted, StartRefused, StartReturns,
     StartFailsLate, Refused
<1>7. CASE Fail
  BY <1>0, <1>1, <1>7 DEF Fail
<1>8. CASE FailDrop
  BY <1>0, <1>1, <1>8 DEF FailDrop
<1>9. CASE Bus
  BY <1>0, <1>1, <1>9 DEF Bus, BytesArrive, TransferEnds
<1>10. CASE SampleTimerFires
  <2>1. FreeInCallback # {} /\ FirstFree(FreeInCallback) \in Slot
    BY <1>0, <1>1, <1>10, Free DEF SampleTimerFires, FreeInCallback
  <2>2. /\ timer' = FirstFree(FreeInCallback) /\ id' = timer' /\ timer # NoSlot
        /\ overtaken' = (overtaken \/ pc = "drop")
        /\ UNCHANGED <<state, isrfail, foreign, pc, tid>>
    BY <1>10, <2>1 DEF SampleTimerFires
  <2>3. QED
    BY <1>0, <1>1, <2>1, <2>2
<1>11. CASE OthersRegister \/ OthersRelease
  BY <1>0, <1>1, <1>11 DEF OthersRegister, OthersRelease
<1>12. CASE UNCHANGED vars
  BY <1>0, <1>1, <1>12 DEF vars
<1>13. QED
  BY <1>2, <1>3, <1>4, <1>5, <1>6, <1>7, <1>8, <1>9, <1>10, <1>11, <1>12
     DEF Next, Task

(* The configuration stays where it is.                                      *)
LEMMA NoFurther ==
  ASSUME BringUp, UNCHANGED <<state, pc, job, xfer, inbox, written>>
  PROVE  BringUp'
BY DEF BringUp, Waits, FirstOf

(* Every step keeps the configuration in order.                              *)
LEMMA BringUpStep ==
  ASSUME TypeOK, BusyIsHonest, Owned, BringUp, [Next]_vars
  PROVE  BringUp'
<1> USE DEF None
<1>1. /\ InitState = {"WAKE", "WHOAMI", "SMPLRT", "CONFIG", "GYRO", "ACCEL"}
      /\ state \in InitState \cup {"OFF", "RUNNING", "ERROR"}
      /\ \A n \in 0 .. 5 : InitSteps[n + 1] \in InitState
  BY Steps DEF TypeOK
<1> DEFINE Other(s) ==
      /\ s = "OFF" => pc \in {"boot", "fail"} /\ written = <<>> /\ inbox = <<>>
      /\ s \in {"OFF", "RUNNING", "ERROR"} => xfer \in {None, "BURST"}
      /\ s = "OFF" => xfer = None
      /\ s = "RUNNING" => /\ written = InitSteps
                          /\ pc \in {"start", "return"} => job = "BURST"
      /\ s = "ERROR" => pc \in {"idle", "fail", "drop"}
<1>2. Other(state)
  BY DEF BringUp
<1>3. ASSUME state' \notin InitState, Other(state)'
      PROVE  BringUp'
  BY <1>3 DEF BringUp
<1>4. ASSUME NEW n \in 0 .. 5, state' = InitSteps[n + 1], Waits(n)'
      PROVE  BringUp'
  BY <1>1, <1>4 DEF BringUp
<1> USE DEF busVars, timerVars, taskVars
<1>5. CASE state \notin InitState
  <2>1. CASE Boot
    <3>1. CASE state' = "WAKE"
      <4>1. Waits(0)'
        BY <1>1, <1>2, <1>5, <2>1, <3>1, Extend DEF Boot, Waits, Owned
      <4>2. QED
        BY <1>4, <3>1, <4>1, Steps
    <3>2. CASE state' # "WAKE"
      BY <1>1, <1>2, <1>3, <1>5, <2>1, <3>2 DEF Boot
    <3>3. QED
      BY <3>1, <3>2
  <2>2. CASE OnSample \/ OnFailure \/ OnInitStep \/ OnInitDone \/ OnLateDone \/ OnBurst
    BY <1>1, <1>2, <1>3, <1>5, <2>2 DEF OnSample, OnFailure, OnInitStep, OnInitDone,
       OnLateDone, OnBurst, Take
  <2>3. CASE ArmSampleTimer \/ Fail \/ FailDrop
    BY <1>1, <1>2, <1>3, <1>5, <2>3 DEF ArmSampleTimer, Fail, FailDrop, Owned
  <2>4. CASE StartBusy \/ StartAccepted \/ StartRefused \/ StartReturns \/ StartFailsLate
    BY <1>1, <1>2, <1>3, <1>5, <2>4 DEF StartBusy, StartAccepted, StartRefused,
       StartReturns, StartFailsLate, Refused
  <2>5. CASE Bus
    BY <1>1, <1>2, <1>3, <1>5, <2>5 DEF Bus, BytesArrive, TransferEnds
  <2>6. CASE SampleTimerFires
    <3>1. state # "OFF" /\ FreeInCallback # {}
      BY <1>5, <2>6 DEF SampleTimerFires, FreeInCallback, Owned, TypeOK
    <3>2. UNCHANGED <<state, pc, job, xfer, written>>
      BY <2>6, <3>1 DEF SampleTimerFires
    <3>3. QED
      BY <1>1, <1>2, <1>3, <1>5, <3>1, <3>2
  <2>7. CASE OthersRegister \/ OthersRelease \/ UNCHANGED vars
    BY <2>7, NoFurther DEF OthersRegister, OthersRelease, vars
  <2>8. QED
    BY <2>1, <2>2, <2>3, <2>4, <2>5, <2>6, <2>7 DEF Next, Task
<1>6. CASE state \in InitState
  <2>1. PICK n \in 0 .. 5 : state = InitSteps[n + 1] /\ Waits(n)
    BY <1>6 DEF BringUp
  <2>2. /\ state \notin {"OFF", "RUNNING", "ERROR", None, "BURST"}
        /\ timer = NoSlot /\ pc \notin {"boot", "arm", "drop"} /\ job = state
    BY <1>1, <1>6, <2>1 DEF Owned, Waits
  <2>3. state' = state /\ Waits(n)' => BringUp'
    BY <1>4, <2>1
  <2>4. CASE OnSample
    <3>1. Len(inbox) \in 1 .. QueueLen /\ inbox[1].op = "SAMPLE" /\ pc = "idle"
      BY <2>4, TakeEffect DEF OnSample, Take
    <3>2. QED
      BY <2>1, <3>1 DEF Waits
  <2>5. CASE OnFailure
    <3>1. Len(inbox) \in 1 .. QueueLen /\ pc = "idle"
      BY <2>5, TakeEffect DEF OnFailure, Take
    <3>2. xfer = None /\ written \in {FirstOf(n), FirstOf(n + 1)}
      BY <2>1, <3>1 DEF Waits
    <3>3. Waits(n)'
      BY <2>1, <2>2, <2>5, <3>2 DEF OnFailure, Waits
    <3>4. QED
      BY <2>3, <2>5, <3>3 DEF OnFailure
  <2>6. CASE OnInitStep \/ OnInitDone
    <3>1. Take("OK")
      BY <2>6 DEF OnInitStep, OnInitDone
    <3>2. /\ Len(inbox) \in 1 .. QueueLen /\ pc = "idle" /\ inbox[1].op = "OK"
          /\ Len(inbox') = Len(inbox) - 1 /\ inbox' \in Seq(Message)
      BY <3>1, TakeEffect DEF Take
    <3>3. xfer = None /\ written = FirstOf(n + 1) /\ Len(inbox) = 1
      BY <2>1, <3>2 DEF Waits
    <3>4. inbox' = <<>>
      BY <3>2, <3>3
    <3>5. CASE OnInitDone
      <4>1. n = 5
        <5>1. InitSteps[n + 1] = "ACCEL"
          BY <2>1, <3>5 DEF OnInitDone
        <5>2. n # 0 /\ n # 1 /\ n # 2 /\ n # 3 /\ n # 4
          BY <5>1, Steps
        <5>3. QED
          BY <5>2
      <4>2. written = InitSteps
        BY <3>3, <4>1, Extend
      <4>3. QED
        BY <1>1, <1>3, <3>3, <3>5, <4>2 DEF OnInitDone
    <3>6. CASE OnInitStep /\ pc' = "start"
      <4>1. state # "ACCEL"
        BY <3>6 DEF OnInitStep
      <4>2. n \in 0 .. 4 /\ After(state) = InitSteps[n + 2] /\ n + 1 \in 0 .. 5
        BY <2>1, <4>1, AfterStep
      <4>3. /\ state' = After(state) /\ job' = state' /\ xfer' = None /\ pc' = "start"
            /\ written' = FirstOf(n + 1)
        BY <3>3, <3>6 DEF OnInitStep
      <4>4. state' # None
        BY <1>1, <4>2, <4>3
      <4>5. Waits(n + 1)'
        BY <3>4, <4>3, <4>4 DEF Waits
      <4>6. state' = InitSteps[(n + 1) + 1]
        BY <4>2, <4>3
      <4>7. QED
        BY <1>4, <4>2, <4>5, <4>6
    <3>7. CASE OnInitStep /\ pc' = "fail"
      <4>1. Waits(n)' /\ state' = state
        BY <2>1, <2>2, <3>3, <3>7 DEF OnInitStep, Waits
      <4>2. QED
        BY <2>3, <4>1
    <3>8. QED
      BY <2>6, <3>5, <3>6, <3>7 DEF OnInitStep
  <2>7. CASE StartAccepted
    <3>1. Waits(n)'
      BY <2>1, <2>2, <2>7 DEF StartAccepted, Waits
    <3>2. QED
      BY <2>3, <2>7, <3>1 DEF StartAccepted
  <2>8. CASE StartBusy \/ StartRefused \/ StartFailsLate
    <3>1. pc \in {"start", "return"} /\ xfer = None /\ pc' = "fail"
      BY <2>1, <2>2, <2>8 DEF StartBusy, StartRefused, StartFailsLate, Refused, Waits,
         BusyIsHonest
    <3>2. UNCHANGED <<state, job, xfer, written>>
      BY <2>8 DEF StartBusy, StartRefused, StartFailsLate
    <3>3. Waits(n)'
      BY <2>1, <2>2, <3>1, <3>2 DEF Waits
    <3>4. QED
      BY <2>3, <3>2, <3>3
  <2>9. CASE StartReturns
    <3>1. Waits(n)'
      BY <2>1, <2>2, <2>9 DEF StartReturns, Waits
    <3>2. QED
      BY <2>3, <2>9, <3>1 DEF StartReturns
  <2>10. CASE Fail
    <3>1. xfer = None
      BY <2>1, <2>10 DEF Waits, Fail
    <3>2. QED
      BY <1>1, <1>3, <2>10, <3>1 DEF Fail
  <2>11. ASSUME NEW st \in {"OK", "IO"}, TransferEnds(st)
         PROVE  BringUp'
    <3>1. /\ xfer = state /\ inbox = <<>> /\ written = FirstOf(n)
          /\ pc \in {"return", "idle"}
      BY <2>1, <2>11 DEF TransferEnds, Waits
    <3>2. /\ inbox' = Post(inbox, st) /\ xfer' = None /\ UNCHANGED <<state, pc, job>>
          /\ written' = IF st = "OK" THEN Append(written, state) ELSE written
      BY <2>2, <2>11, <3>1 DEF TransferEnds, map_i2c_status
    <3>3. Len(inbox') = 1 /\ inbox'[1].op = st
      <4>1. Len(inbox) = 0 /\ 0 < QueueLen
        BY <3>1, QueueAssumption
      <4>2. QED
        BY <3>2, <4>1, PostEffect
    <3>4. \/ st = "OK" /\ written' = FirstOf(n + 1)
          \/ st = "IO" /\ written' = FirstOf(n)
      BY <2>1, <3>1, <3>2, Extend
    <3>5. Waits(n)'
      BY <2>1, <2>2, <3>1, <3>2, <3>3, <3>4 DEF Waits
    <3>6. QED
      BY <2>3, <3>2, <3>5
  <2>12. CASE BytesArrive \/ OthersRegister \/ OthersRelease \/ UNCHANGED vars
    BY <2>12, NoFurther DEF BytesArrive, OthersRegister, OthersRelease, vars
  <2>13. ~ (Boot \/ OnBurst \/ OnLateDone \/ ArmSampleTimer \/ FailDrop \/ SampleTimerFires)
    BY <2>2 DEF Boot, OnBurst, OnLateDone, ArmSampleTimer, FailDrop, SampleTimerFires
  <2>14. QED
    BY <2>4, <2>5, <2>6, <2>7, <2>8, <2>9, <2>10, <2>11, <2>12, <2>13 DEF Next, Task, Bus
<1>7. QED
  BY <1>5, <1>6

-----------------------------------------------------------------------------

(* The age of a burst.                                                       *)
LEMMA AgeType ==
  ASSUME burst \in Part, NEW t \in Part
  PROVE  Age(t) \in 0 .. QueueLen /\ Age(burst) = 0
BY QueueAssumption DEF Age, Part

(* A new burst makes the others older.                                       *)
LEMMA Ageing ==
  ASSUME burst \in Part, NEW t \in Part, burst' = (burst + 1) % (QueueLen + 1),
         Age(t) < QueueLen
  PROVE  Age(t)' = Age(t) + 1 /\ t # burst'
<1>1. burst' = IF burst = QueueLen THEN 0 ELSE burst + 1
  BY QueueAssumption DEF Part
<1>2. QED
  BY <1>1, QueueAssumption DEF Age, Part

(* What Bursts says of the message m at place p.                            *)
Tells(m, p) ==
  m.op = "OK" =>
    /\ p + Age(m.tag) <= QueueLen + 1
    /\ pc \in {"arm", "start"} => p + Age(m.tag) <= QueueLen
    /\ m.tag = burst => buf[1] = buf[2] /\ xfer # "BURST"

AllTell == \A p \in DOMAIN inbox, m \in Message : inbox[p] = m => Tells(m, p)

(* What a message tells of its burst stays true.                             *)
LEMMA TellsOn ==
  ASSUME NEW m, NEW p, Tells(m, p), burst' = burst, buf' = buf, xfer' = xfer \/ xfer' # "BURST",
         pc' \in {"arm", "start"} => pc \in {"arm", "start"}
  PROVE  Tells(m, p)'
BY DEF Tells, Age

(* And when the message before it is taken.                                  *)
LEMMA TellsTaken ==
  ASSUME TypeOK, AllTell, NEW op, Take(op), UNCHANGED <<burst, buf, xfer>>
  PROVE  AllTell'
<1>1. ASSUME NEW m \in Message, NEW p \in Nat, Tells(m, p + 1)
      PROVE  Tells(m, p)'
  <2>1. m.tag \in Part
    BY DEF Message
  <2>2. Age(m.tag) \in Nat /\ Age(m.tag)' = Age(m.tag)
    BY <2>1, AgeType, QueueAssumption DEF TypeOK, Age
  <2>3. QED
    BY <1>1, <2>2, QueueAssumption DEF Tells
<1> DEFINE k == Len(inbox)
<1>2. /\ DOMAIN inbox' = 1 .. k - 1
      /\ \A p \in 1 .. k - 1 : inbox'[p] = inbox[p + 1]
  BY TakeEffect
<1>3. k \in Nat /\ DOMAIN inbox = 1 .. k
  BY Inbox, QueueAssumption
<1> HIDE DEF k
<1>4. ASSUME NEW p \in 1 .. k - 1, NEW m \in Message, inbox'[p] = m
      PROVE  Tells(m, p)'
  <2>1. p \in Nat /\ p + 1 \in 1 .. k
    BY <1>3
  <2>2. Tells(m, p + 1)
    BY <1>2, <1>3, <1>4, <2>1 DEF AllTell
  <2>3. QED
    BY <1>1, <2>1, <2>2
<1>5. QED
  BY <1>2, <1>4 DEF AllTell

(* And when another is posted.                                               *)
LEMMA TellsPosted ==
  ASSUME TypeOK, AllTell, NEW op \in {"OK", "IO", "SAMPLE"}, inbox' = Post(inbox, op),
         burst' = burst, buf' = buf, xfer' = xfer \/ xfer' # "BURST",
         pc' \in {"arm", "start"} => pc \in {"arm", "start"},
         op = "OK" => buf[1] = buf[2] /\ xfer' # "BURST"
  PROVE  AllTell'
<1> DEFINE k == Len(inbox)
<1>1. CASE inbox' = inbox
  BY <1>1, TellsOn DEF AllTell
<1>2. CASE k < QueueLen
  <2>1. /\ DOMAIN inbox' = 1 .. k + 1
        /\ inbox'[k + 1].op = op /\ inbox'[k + 1].tag = burst
        /\ \A p \in 1 .. k : inbox'[p] = inbox[p]
    BY <1>2, PostEffect
  <2>2. k \in Nat /\ DOMAIN inbox = 1 .. k
    BY Inbox, QueueAssumption
  <2> HIDE DEF k
  <2>3. ASSUME NEW p \in 1 .. k, NEW m \in Message, inbox'[p] = m
        PROVE  Tells(m, p)'
    <3>1. Tells(m, p)
      BY <2>1, <2>2, <2>3 DEF AllTell
    <3>2. QED
      BY <3>1, TellsOn
  <2>4. ASSUME NEW p \in {k + 1}, NEW m \in Message, inbox'[p] = m
        PROVE  Tells(m, p)'
    <3>1. m.op = op /\ m.tag = burst
      BY <2>1, <2>4
    <3>2. Age(m.tag)' = 0
      BY <3>1, AgeType DEF Age, TypeOK
    <3>3. p \in Nat /\ p <= QueueLen
      BY <1>2, <2>2, <2>4, QueueAssumption DEF k
    <3>4. QED
      BY <3>1, <3>2, <3>3, QueueAssumption DEF Tells
  <2>5. \A p \in 1 .. k + 1 : p \in 1 .. k \/ p \in {k + 1}
    BY <2>2
  <2>6. QED
    BY <2>1, <2>3, <2>4, <2>5 DEF AllTell
<1>3. k \in 0 .. QueueLen /\ (k = QueueLen => inbox' = inbox)
  BY PostEffect, Inbox
<1>4. QED
  BY <1>1, <1>2, <1>3, QueueAssumption

(* Every step keeps what the messages tell of their bursts.                  *)
LEMMA BurstsStep ==
  ASSUME TypeOK, BusyIsHonest, Owned, BringUp, Bursts, [Next]_vars
  PROVE  Bursts'
<1> DEFINE Clean == state \in InitState \cup {"OFF"} => buf = <<0, 0>>
           Filling == xfer = "BURST" => /\ got >= 1 => buf[1] = burst
                                        /\ got = 2 => buf[2] = burst
<1>1. TypeOK'
  BY TypeStep
<1>2. /\ (AllTell <=> \A p \in DOMAIN inbox : Tells(inbox[p], p))
      /\ (AllTell' <=> (\A p \in DOMAIN inbox : Tells(inbox[p], p))')
  <2>1. \A p \in DOMAIN inbox : inbox[p] \in Message
    BY Inbox
  <2>2. \A p \in DOMAIN inbox' : inbox'[p] \in Message
    <3>1. inbox' \in Seq(Message)
      BY <1>1 DEF TypeOK, Message
    <3>2. QED
      BY <3>1
  <2>3. QED
    BY <2>1, <2>2 DEF AllTell
<1>3. /\ (Bursts <=> Clean /\ Filling /\ AllTell)
      /\ (Bursts' <=> Clean' /\ Filling' /\ AllTell')
  BY <1>2 DEF Bursts, Tells
<1>4. Clean /\ Filling /\ AllTell
  BY <1>3
<1>5. /\ burst \in Part /\ got \in 0 .. 2
      /\ buf = <<buf[1], buf[2]>> /\ "BURST" # None
      /\ InitState = {"WAKE", "WHOAMI", "SMPLRT", "CONFIG", "GYRO", "ACCEL"}
      /\ state \in InitState \cup {"OFF", "RUNNING", "ERROR"}
  BY Steps DEF TypeOK, None
<1>6. state \in InitState \cup {"OFF"} => xfer # "BURST" /\ (pc = "boot" => inbox = <<>>)
  BY <1>5 DEF BringUp, Waits, None, Owned
<1> USE DEF busVars, timerVars, taskVars
<1> HIDE DEF Clean, Filling
<1>7. ASSUME UNCHANGED <<buf, burst, got>>, xfer' # "BURST" \/ xfer' = xfer,
             state' \in InitState \cup {"OFF"} => state \in InitState \cup {"OFF"}
      PROVE  Clean' /\ Filling'
  BY <1>4, <1>7 DEF Clean, Filling
<1>8. CASE Boot
  <2>1. pc = "boot" /\ UNCHANGED <<buf, burst, got, xfer, inbox>>
    BY <1>8 DEF Boot
  <2>2. inbox = <<>>
    BY <1>6, <2>1 DEF Owned
  <2>3. AllTell'
    BY <2>1, <2>2 DEF AllTell
  <2>4. QED
    BY <1>3, <1>5, <1>7, <2>1, <2>3 DEF Owned
<1>9. CASE OnSample \/ OnFailure \/ OnInitStep \/ OnInitDone \/ OnBurst \/ OnLateDone
  <2>1. /\ Take("SAMPLE") \/ Take("IO") \/ Take("OK")
        /\ UNCHANGED <<buf, burst, got, xfer>>
    BY <1>9 DEF OnSample, OnFailure, OnInitStep, OnInitDone, OnBurst, OnLateDone
  <2>2. state' \in InitState \cup {"OFF"} => state \in InitState \cup {"OFF"}
    <3>1. CASE OnSample \/ OnFailure \/ OnBurst \/ OnLateDone
      <4>1. state' = state
        BY <3>1 DEF OnSample, OnFailure, OnBurst, OnLateDone
      <4>2. QED
        BY <4>1
    <3>2. CASE OnInitStep \/ OnInitDone
      BY <1>5, <3>2 DEF OnInitStep, OnInitDone
    <3>3. QED
      BY <1>9, <3>1, <3>2
  <2>3. AllTell'
    BY <1>4, <2>1, TellsTaken
  <2>4. QED
    BY <1>3, <1>7, <2>1, <2>2, <2>3
<1>10. CASE ArmSampleTimer \/ StartBusy \/ StartReturns \/ Fail \/ FailDrop \/ OthersRegister
              \/ OthersRelease \/ UNCHANGED vars
  <2>1. /\ UNCHANGED <<buf, burst, got, xfer, inbox>>
        /\ state' \in InitState \cup {"OFF"} => state \in InitState \cup {"OFF"}
        /\ pc' \in {"arm", "start"} => pc \in {"arm", "start"}
    BY <1>5, <1>10 DEF ArmSampleTimer, StartBusy, StartReturns, Fail, FailDrop,
       OthersRegister, OthersRelease, vars, Refused
  <2>2. AllTell'
    BY <1>4, <2>1, TellsOn DEF AllTell
  <2>3. QED
    BY <1>3, <1>7, <2>1, <2>2
<1>11. CASE StartAccepted /\ job # "BURST"
  <2>1. /\ UNCHANGED <<buf, burst, got, inbox, state>> /\ xfer' # "BURST" /\ pc' = "return"
    BY <1>11 DEF StartAccepted
  <2>2. AllTell'
    BY <1>4, <2>1, TellsOn DEF AllTell
  <2>3. QED
    BY <1>3, <1>7, <2>1, <2>2
<1>12. CASE StartAccepted /\ job = "BURST"
  <2>1. /\ UNCHANGED <<buf, inbox, state>> /\ burst' = (burst + 1) % (QueueLen + 1)
        /\ got' = 0 /\ pc = "start" /\ pc' = "return"
    BY <1>12 DEF StartAccepted
  <2>2. ASSUME NEW p \in DOMAIN inbox, NEW m \in Message, inbox[p] = m
        PROVE  Tells(m, p)'
    <3>1. Tells(m, p) /\ m.tag \in Part /\ p \in Nat \ {0}
      BY <1>4, <2>2, Inbox DEF AllTell, Message
    <3>2. SUFFICES ASSUME m.op = "OK"
                   PROVE  p + Age(m.tag)' <= QueueLen + 1 /\ m.tag # burst'
      BY <2>1 DEF Tells
    <3>3. p + Age(m.tag) <= QueueLen /\ Age(m.tag) \in Nat
      BY <1>5, <2>1, <3>1, <3>2, AgeType DEF Tells
    <3>4. Age(m.tag) < QueueLen
      BY <3>1, <3>3, QueueAssumption
    <3>5. Age(m.tag)' = Age(m.tag) + 1 /\ m.tag # burst'
      BY <1>5, <2>1, <3>1, <3>4, Ageing
    <3>6. QED
      BY <3>1, <3>3, <3>5, QueueAssumption
  <2>3. AllTell'
    BY <2>1, <2>2 DEF AllTell
  <2>4. Clean' /\ Filling'
    BY <1>4, <2>1 DEF Clean, Filling
  <2>5. QED
    BY <1>3, <2>3, <2>4
<1>13. CASE StartRefused \/ StartFailsLate
  <2>1. /\ UNCHANGED <<buf, burst, got, xfer, state>> /\ inbox' = Post(inbox, "IO")
        /\ pc' \in {"idle", "fail"}
    BY <1>13 DEF StartRefused, StartFailsLate, Refused, map_i2c_status
  <2>2. AllTell'
    BY <1>4, <2>1, TellsPosted
  <2>3. QED
    BY <1>3, <1>7, <2>1, <2>2
<1>14. CASE BytesArrive
  <2>1. /\ xfer = "BURST" /\ got < 2 /\ got' = got + 1
        /\ buf' = [buf EXCEPT ![got + 1] = burst]
        /\ UNCHANGED <<xfer, burst, inbox, pc, state>>
    BY <1>14 DEF BytesArrive
  <2>2. Filling'
    <3>1. CASE got = 0
      <4>1. got' = 1 /\ buf'[1] = burst
        BY <1>5, <2>1, <3>1
      <4>2. QED
        BY <2>1, <4>1 DEF Filling
    <3>2. CASE got = 1
      <4>1. got' = 2 /\ buf'[1] = buf[1] /\ buf'[2] = burst
        BY <1>5, <2>1, <3>2
      <4>2. QED
        BY <1>4, <2>1, <3>2, <4>1 DEF Filling
    <3>3. QED
      BY <1>5, <2>1, <3>1, <3>2
  <2>3. AllTell'
    BY <1>4, <2>1 DEF AllTell, Tells, Age
  <2>4. Clean'
    BY <1>6, <2>1 DEF Clean
  <2>5. QED
    BY <1>3, <2>2, <2>3, <2>4
<1>15. ASSUME NEW st \in {"OK", "IO"}, TransferEnds(st)
       PROVE  Bursts'
  <2>1. /\ UNCHANGED <<buf, burst, got, state, pc>> /\ inbox' = Post(inbox, st)
        /\ xfer' = None /\ xfer # None /\ (st = "OK" /\ xfer = "BURST" => got = 2)
    BY <1>15 DEF TransferEnds, map_i2c_status
  <2>2. st = "OK" => buf[1] = buf[2]
    <3>1. CASE xfer = "BURST"
      BY <1>4, <2>1, <3>1 DEF Filling
    <3>2. CASE xfer # "BURST"
      <4>1. state \in InitState
        BY <1>5, <2>1, <3>2 DEF BringUp
      <4>2. QED
        BY <1>4, <4>1 DEF Clean
    <3>3. QED
      BY <3>1, <3>2
  <2>3. AllTell'
    BY <1>4, <1>5, <2>1, <2>2, TellsPosted
  <2>4. QED
    BY <1>3, <1>5, <1>7, <2>1, <2>3
<1>16. CASE SampleTimerFires
  <2>1. FreeInCallback # {}
    BY <1>16 DEF SampleTimerFires, FreeInCallback, TypeOK
  <2>2. /\ UNCHANGED <<buf, burst, got, xfer, state, pc>> /\ inbox' = Post(inbox, "SAMPLE")
    BY <1>16, <2>1 DEF SampleTimerFires
  <2>3. AllTell'
    BY <1>4, <2>2, TellsPosted
  <2>4. QED
    BY <1>3, <1>7, <2>2, <2>3
<1>17. QED
  BY <1>8, <1>9, <1>10, <1>11, <1>12, <1>13, <1>14, <1>15, <1>16 DEF Next, Task, Bus

(* The start.                                                                *)
LEMMA ServiceInit == Init => ServiceInv
<1> SUFFICES ASSUME Init PROVE ServiceInv
  OBVIOUS
<1>1. TypeOK
  <2>1. <<>> \in Seq([op : {"OK", "IO", "SAMPLE"}, tag : Part]) /\ <<>> \in Seq(InitState)
        /\ Len(<<>>) = 0
    OBVIOUS
  <2>2. <<0, 0>> \in Part \X Part /\ 0 \in Part /\ 0 \in 0 .. 2 /\ 0 <= QueueLen
    BY QueueAssumption DEF Part
  <2>3. QED
    BY <2>1, <2>2, Steps DEF Init, TypeOK, Job, None
<1>2. BusyIsHonest /\ Owned
  BY Steps DEF Init, BusyIsHonest, Owned, RunningIsTimed, NeverFailsInIsr, None
<1>3. BringUp
  BY Steps DEF Init, BringUp, None
<1>4. Bursts
  BY Steps DEF Init, Bursts, None
<1>5. QED
  BY <1>1, <1>2, <1>3, <1>4 DEF ServiceInv

(* Every step.                                                               *)
LEMMA ServiceStep == ServiceInv /\ [Next]_vars => ServiceInv'
  BY TypeStep, HonestStep, OwnedStep, BringUpStep, BurstsStep DEF ServiceInv

(* The service keeps its invariant, for every inbox and every number of slots.*)
THEOREM Invariance == Spec => []ServiceInv
  BY ServiceInit, ServiceStep, PTL DEF Spec

(* The busy flag of the mpu6050 driver is the state of the bus, a running    *)
(* sensor keeps its timer, giving up stops that timer and nobody else's, and *)
(* sensor_mpu6050_fail stays out of the interrupts.                          *)
THEOREM Service == Spec => []SensorInv
<1>1. ServiceInv => SensorInv
  BY DEF ServiceInv, SensorInv, Owned, FailStopsOwnTimer, RunningIsTimed, NeverFailsInIsr
<1>2. QED
  BY <1>1, Invariance, PTL

(* sensor_mpu6050_on_i2c_done writes the registers in order, each after the  *)
(* end of the one before, and runs the sensor only with all of them written. *)
THEOREM Configuration == Spec => []ConfiguredInOrder
<1>1. ServiceInv => ConfiguredInOrder
  <2>1. ASSUME ServiceInv, state \in InitState
        PROVE  \E n \in 0 .. 5 : /\ state = InitSteps[n + 1]
                                 /\ written = FirstOf(n) \/ written = FirstOf(n + 1)
    <3>1. PICK n \in 0 .. 5 : state = InitSteps[n + 1] /\ Waits(n)
      BY <2>1 DEF ServiceInv, BringUp
    <3>2. written = FirstOf(n) \/ written = FirstOf(n + 1)
      BY <3>1 DEF Waits
    <3>3. QED
      BY <3>1, <3>2
  <2>2. Len(InitSteps) - 1 = 5
    BY Steps
  <2>3. QED
    BY <2>1, <2>2 DEF ServiceInv, BringUp, ConfiguredInOrder, FirstOf
<1>2. QED
  BY <1>1, Invariance, PTL

(* sensor_mpu6050_publish_sample copies one burst, whole, unless the next    *)
(* had been started before the I2C_DONE message of its own was taken: for    *)
(* every depth of the inbox.                                                 *)
THEOREM WholeSamples == Spec => WholeUnlessOverrun
<1>1. ASSUME ServiceInv, [Next]_vars
      PROVE  [latest' # latest /\ Head(inbox).tag = burst => latest'[1] = latest'[2]]_vars
  <2>1. SUFFICES ASSUME latest' # latest, Head(inbox).tag = burst
                 PROVE  latest'[1] = latest'[2]
    OBVIOUS
  <2>2. OnBurst
    BY <1>1, <2>1 DEF Next, Task, Bus, Boot, OnSample, OnFailure, OnInitStep, OnInitDone,
       OnLateDone, ArmSampleTimer, StartBusy, StartAccepted, StartRefused, StartReturns,
       StartFailsLate, Fail, FailDrop, BytesArrive, TransferEnds, SampleTimerFires,
       OthersRegister, OthersRelease, vars, taskVars
  <2>3. latest' = buf /\ Take("OK")
    BY <2>2 DEF OnBurst
  <2>4. 1 \in DOMAIN inbox /\ inbox[1].op = "OK" /\ inbox[1].tag = burst
    BY <1>1, <2>1, <2>3, TakeEffect, Inbox DEF ServiceInv, Take
  <2>5. QED
    BY <1>1, <2>3, <2>4 DEF ServiceInv, Bursts
<1>2. QED
  BY <1>1, Invariance, PTL DEF Spec, WholeUnlessOverrun

==============================================================================
