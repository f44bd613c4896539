------------------------------- MODULE OsProofs -------------------------------
(***************************************************************************)
(* Theorems about the two services every task uses.  TaskManager: for      *)
(* every set of tasks, every inbox depth and every number of sends per     *)
(* handler.  HSoftTimer: for every table size, every set of clients, every *)
(* width of the counter and all delays the assumption admits; TableInv is  *)
(* the inductive invariant behind them: whose entry is whose inside a call *)
(* (Matched), and how the compare register, the earliest deadline and the  *)
(* armed timers relate outside the timer interrupt (Outside) and inside it *)
(* (Inside), where time passes too.                                        *)
(***************************************************************************)
EXTENDS TaskManager, HSoftTimer, FiniteSetTheorems, TLAPS

(* Every reachable state is well typed, and no inbox exceeds its depth. *)
THEOREM TypeCorrect == TmSpec => []TmTypeOK
<1>1. TmInit => TmTypeOK
  <2> SUFFICES ASSUME TmInit PROVE TmTypeOK
    OBVIOUS
  <2>1. inbox \in [Tasks -> Seq(Tasks \cup {ISR})]
    BY DEF TmInit
  <2>2. \A t \in Tasks : Len(inbox[t]) <= QueueLen
    BY QueueLenAssumption DEF TmInit
  <2>3. quota \in [Tasks -> 0 .. MaxSends]
    BY MaxSendsAssumption DEF TmInit
  <2>4. /\ started \in BOOLEAN /\ registered \in SUBSET Tasks
        /\ creating \in SUBSET Tasks /\ created \in SUBSET Tasks
        /\ notified \in [Tasks -> BOOLEAN] /\ pc \in [Tasks -> Pc]
        /\ caller \in [Tasks -> {"init", "handle"}] /\ dst \in [Tasks -> Tasks]
    BY DEF TmInit, Pc
  <2>5. QED
    BY <2>1, <2>2, <2>3, <2>4 DEF TmTypeOK
<1>2. TmTypeOK /\ [TmNext]_tmVars => TmTypeOK'
  <2> SUFFICES ASSUME TmTypeOK, [TmNext]_tmVars
               PROVE  TmTypeOK'
    OBVIOUS
  <2> USE QueueLenAssumption, MaxSendsAssumption DEF TmTypeOK, Pc, entryVars
  <2>1. CASE os_start
    BY <2>1 DEF os_start, sendVars
  <2>2. ASSUME NEW d \in Tasks, tm_send_from_isr(d)
        PROVE  TmTypeOK'
    <3>1. Append(inbox[d], ISR) \in Seq(Tasks \cup {ISR})
      OBVIOUS
    <3>2. Len(Append(inbox[d], ISR)) <= QueueLen
      BY <2>2 DEF tm_send_from_isr
    <3>3. QED
      BY <2>2, <3>1, <3>2 DEF tm_send_from_isr, sendVars
  <2>3. ASSUME NEW d \in Tasks, tm_noti_from_isr(d)
        PROVE  TmTypeOK'
    BY <2>3 DEF tm_noti_from_isr, sendVars
  <2>4. ASSUME NEW t \in Tasks, tm_init(t) \/ xTaskCreate(t) \/ CreationFails(t)
        PROVE  TmTypeOK'
    BY <2>4 DEF tm_init, xTaskCreate, CreationFails, sendVars
  <2>5. ASSUME NEW t \in Tasks, InitDone(t)
        PROVE  TmTypeOK'
    BY <2>5 DEF InitDone, sendVars
  <2>6. ASSUME NEW t \in Tasks, tm_wait_notif(t)
        PROVE  TmTypeOK'
    BY <2>6 DEF tm_wait_notif
  <2>7. ASSUME NEW t \in Tasks, tm_recv(t)
        PROVE  TmTypeOK'
    <3>1. /\ Tail(inbox[t]) \in Seq(Tasks \cup {ISR})
          /\ Len(Tail(inbox[t])) <= QueueLen
      BY <2>7 DEF tm_recv
    <3>2. QED
      BY <2>7, <3>1 DEF tm_recv
  <2>8. ASSUME NEW t \in Tasks, HandleDone(t)
        PROVE  TmTypeOK'
    BY <2>8 DEF HandleDone, sendVars
  <2>9. ASSUME NEW t \in Tasks, RecvEmpty(t)
        PROVE  TmTypeOK'
    BY <2>9 DEF RecvEmpty, sendVars
  <2>10. ASSUME NEW t \in Tasks, SendQueued(t)
         PROVE  TmTypeOK'
    <3>1. Append(inbox[dst[t]], t) \in Seq(Tasks \cup {ISR})
      OBVIOUS
    <3>2. Len(Append(inbox[dst[t]], t)) <= QueueLen
      BY <2>10 DEF SendQueued
    <3>3. QED
      BY <2>10, <3>1, <3>2 DEF SendQueued, sendVars
  <2>11. ASSUME NEW t \in Tasks, SendTimeout(t)
         PROVE  TmTypeOK'
    BY <2>11 DEF SendTimeout, sendVars
  <2>12. ASSUME NEW t \in Tasks, tm_noti(t)
         PROVE  TmTypeOK'
    BY <2>12 DEF tm_noti, sendVars
  <2>13. ASSUME NEW t \in Tasks, NEW d \in Tasks, SendCall(t, d)
         PROVE  TmTypeOK'
    BY <2>13 DEF SendCall
  <2>14. CASE UNCHANGED tmVars
    BY <2>14 DEF tmVars, sendVars
  <2>15. QED
    BY <2>1, <2>2, <2>3, <2>4, <2>5, <2>6, <2>7, <2>8, <2>9, <2>10, <2>11,
       <2>12, <2>13, <2>14 DEF TmNext, Interrupt, TaskStep
<1>3. QED
  BY <1>1, <1>2, PTL DEF TmSpec

-----------------------------------------------------------------------------

(* Every step of the boot keeps the invariant.                               *)
LEMMA BootStep == TmTypeOK /\ QuietBoot /\ [TmNext]_tmVars => QuietBoot'
<1> SUFFICES ASSUME TmTypeOK, QuietBoot, [TmNext]_tmVars
             PROVE  QuietBoot'
  OBVIOUS
<1> USE DEF QuietBoot, entryVars
<1>1. CASE os_start
  BY <1>1 DEF os_start
<1>2. ASSUME NEW d \in Tasks, tm_send_from_isr(d) \/ tm_noti_from_isr(d)
      PROVE  QuietBoot'
  BY <1>2 DEF tm_send_from_isr, tm_noti_from_isr
<1>3. ASSUME NEW t \in Tasks, tm_init(t) \/ xTaskCreate(t) \/ CreationFails(t)
      PROVE  QuietBoot'
  BY <1>3 DEF tm_init, xTaskCreate, CreationFails
<1>4. ASSUME NEW t \in Tasks, TaskStep(t)
      PROVE  QuietBoot'
  BY <1>4 DEF TaskStep, InitDone, tm_wait_notif, tm_recv, HandleDone,
     RecvEmpty, SendQueued, SendTimeout, tm_noti
<1>5. ASSUME NEW t \in Tasks, NEW d \in Tasks, SendCall(t, d)
      PROVE  QuietBoot'
  BY <1>5 DEF SendCall
<1>6. CASE UNCHANGED tmVars
  BY <1>6 DEF tmVars
<1>7. QED
  BY <1>1, <1>2, <1>3, <1>4, <1>5, <1>6 DEF TmNext, Interrupt

(* Nothing happens before vTaskStartScheduler. *)
THEOREM BootIsQuiet == TmSpec => []QuietBoot
<1>1. TmInit => QuietBoot
  BY DEF TmInit, QuietBoot
<1>2. QED
  BY <1>1, BootStep, TypeCorrect, PTL DEF TmSpec

(* A task whose creation failed is never queued for, notified or run. *)
THEOREM FailedTasksUntouched == TmSpec => []FailedTaskUntouched
<1>1. TmInit => FailedTaskUntouched
  BY DEF TmInit, FailedTaskUntouched
<1>2. TmTypeOK /\ QuietBoot /\ FailedTaskUntouched /\ [TmNext]_tmVars => FailedTaskUntouched'
  <2> SUFFICES ASSUME TmTypeOK, QuietBoot, FailedTaskUntouched, [TmNext]_tmVars
               PROVE  FailedTaskUntouched'
    OBVIOUS
  <2> USE DEF FailedTaskUntouched, TmTypeOK, entryVars
  <2>1. CASE os_start
    BY <2>1 DEF os_start, sendVars
  <2>2. ASSUME NEW d \in Tasks, tm_send_from_isr(d)
        PROVE  FailedTaskUntouched'
    BY <2>2 DEF tm_send_from_isr, sendVars
  <2>3. ASSUME NEW d \in Tasks, tm_noti_from_isr(d)
        PROVE  FailedTaskUntouched'
    BY <2>3 DEF tm_noti_from_isr, sendVars
  <2>4. ASSUME NEW t \in Tasks, tm_init(t) \/ xTaskCreate(t) \/ CreationFails(t)
        PROVE  FailedTaskUntouched'
    <3>1. ~ started /\ \A u \in Tasks : pc[u] = "off"
      BY <2>4 DEF tm_init, xTaskCreate, CreationFails, QuietBoot
    <3>2. CASE tm_init(t)
      BY <3>1, <3>2 DEF tm_init, sendVars
    <3>3. CASE xTaskCreate(t)
      BY <3>1, <3>3 DEF xTaskCreate, sendVars
    <3>4. CASE CreationFails(t)
      BY <3>1, <3>4 DEF CreationFails, sendVars
    <3>5. QED
      BY <2>4, <3>2, <3>3, <3>4
  <2>5. ASSUME NEW t \in Tasks, InitDone(t) \/ HandleDone(t) \/ RecvEmpty(t)
                                 \/ SendTimeout(t)
        PROVE  FailedTaskUntouched'
    BY <2>5 DEF InitDone, HandleDone, RecvEmpty, SendTimeout, sendVars
  <2>6. ASSUME NEW t \in Tasks, tm_wait_notif(t) \/ tm_recv(t)
        PROVE  FailedTaskUntouched'
    BY <2>6 DEF tm_wait_notif, tm_recv
  <2>7. ASSUME NEW t \in Tasks, SendQueued(t)
        PROVE  FailedTaskUntouched'
    BY <2>7 DEF SendQueued, sendVars
  <2>8. ASSUME NEW t \in Tasks, tm_noti(t)
        PROVE  FailedTaskUntouched'
    BY <2>8 DEF tm_noti, sendVars
  <2>9. ASSUME NEW t \in Tasks, NEW d \in Tasks, SendCall(t, d)
        PROVE  FailedTaskUntouched'
    <3>1. started
      BY <2>9 DEF SendCall, QuietBoot
    <3>2. d \in registered => d \in created
      BY <3>1
    <3>3. QED
      BY <2>9, <3>2 DEF SendCall
  <2>10. CASE UNCHANGED tmVars
    BY <2>10 DEF tmVars, sendVars
  <2>11. QED
    BY <2>1, <2>2, <2>3, <2>4, <2>5, <2>6, <2>7, <2>8, <2>9, <2>10
    DEF TmNext, Interrupt, TaskStep
<1>3. QED
  BY <1>1, <1>2, TypeCorrect, BootIsQuiet, PTL DEF TmSpec

-----------------------------------------------------------------------------
(***************************************************************************)
(* Where a message for t may sit (the invariant, for one task).            *)
(***************************************************************************)
Covered(t) == inbox[t] # <<>> => Draining(t) \/ notified[t] \/ Notifying(t)

(* A receiver only gives up its loop on an empty inbox, and a sender only    *)
(* stops being about to notify by notifying.                                *)
LEMMA WakeupStep ==
  TmTypeOK /\ QuietBoot /\ NoLostWakeup /\ [TmNext]_tmVars => NoLostWakeup'
<1> SUFFICES ASSUME TmTypeOK, QuietBoot, NoLostWakeup, [TmNext]_tmVars, NEW u \in Tasks
             PROVE  Covered(u)'
  BY DEF NoLostWakeup, Covered
<1> USE DEF Covered, Draining, Notifying, entryVars
<1>0. Covered(u)
  BY DEF NoLostWakeup
<1>1. CASE os_start
  BY <1>1 DEF os_start, QuietBoot
<1>2. ASSUME NEW d \in Tasks, tm_send_from_isr(d)
      PROVE  Covered(u)'
  BY <1>2, <1>0 DEF tm_send_from_isr, sendVars, TmTypeOK
<1>3. ASSUME NEW d \in Tasks, tm_noti_from_isr(d)
      PROVE  Covered(u)'
  BY <1>3, <1>0 DEF tm_noti_from_isr, sendVars, TmTypeOK
<1>4. ASSUME NEW t \in Tasks, tm_init(t) \/ xTaskCreate(t) \/ CreationFails(t)
      PROVE  Covered(u)'
  BY <1>4, <1>0 DEF tm_init, xTaskCreate, CreationFails, sendVars
<1>5. ASSUME NEW t \in Tasks, InitDone(t)
      PROVE  Covered(u)'
  BY <1>5, <1>0 DEF InitDone, sendVars, TmTypeOK
<1>6. ASSUME NEW t \in Tasks, tm_wait_notif(t)
      PROVE  Covered(u)'
  BY <1>6, <1>0 DEF tm_wait_notif, TmTypeOK
<1>7. ASSUME NEW t \in Tasks, tm_recv(t)
      PROVE  Covered(u)'
  BY <1>7, <1>0 DEF tm_recv, TmTypeOK
<1>8. ASSUME NEW t \in Tasks, HandleDone(t)
      PROVE  Covered(u)'
  BY <1>8, <1>0 DEF HandleDone, sendVars, TmTypeOK
<1>9. ASSUME NEW t \in Tasks, RecvEmpty(t)
      PROVE  Covered(u)'
  BY <1>9, <1>0 DEF RecvEmpty, sendVars, TmTypeOK
<1>10. ASSUME NEW t \in Tasks, SendQueued(t)
       PROVE  Covered(u)'
  BY <1>10, <1>0 DEF SendQueued, sendVars, TmTypeOK
<1>11. ASSUME NEW t \in Tasks, SendTimeout(t)
       PROVE  Covered(u)'
  BY <1>11, <1>0 DEF SendTimeout, sendVars, TmTypeOK
<1>12. ASSUME NEW t \in Tasks, tm_noti(t)
       PROVE  Covered(u)'
  BY <1>12, <1>0 DEF tm_noti, sendVars, TmTypeOK
<1>13. ASSUME NEW t \in Tasks, NEW d \in Tasks, SendCall(t, d)
       PROVE  Covered(u)'
  BY <1>13, <1>0 DEF SendCall, TmTypeOK
<1>14. CASE UNCHANGED tmVars
  BY <1>14, <1>0 DEF tmVars, sendVars
<1>15. QED
  BY <1>1, <1>2, <1>3, <1>4, <1>5, <1>6, <1>7, <1>8, <1>9, <1>10, <1>11,
     <1>12, <1>13, <1>14 DEF TmNext, Interrupt, TaskStep

(* No message is ever left in an inbox with nobody to wake its task. *)
THEOREM NoWakeupIsLost == TmSpec => []NoLostWakeup
<1>1. TmInit => NoLostWakeup
  BY DEF TmInit, NoLostWakeup
<1>2. QED
  BY <1>1, WakeupStep, BootIsQuiet, TypeCorrect, PTL DEF TmSpec

(* The invariant of the task manager, for every set of tasks, every queue   *)
(* length and every number of sends.                                        *)
THEOREM TmInvariance == TmSpec => []TaskInv
  BY TypeCorrect, BootIsQuiet, FailedTasksUntouched, NoWakeupIsLost, PTL
  DEF TaskInv

-----------------------------------------------------------------------------
(***************************************************************************)
(* An expired timer waits for its interrupt, which is late, and calls that *)
(* move the compare register make it wait again, each for the longest      *)
(* delay at most.  Patience bounds the wait after k such calls.            *)
(***************************************************************************)
Half == TickMod \div 2
Longest == CHOOSE m \in Delays : \A d \in Delays : d <= m
Patience(k) == MaxStall + MaxLate + 1 + (k + 1) * (MaxLate + Longest)
Allowed == Patience(IF putoff <= MaxPutOff THEN putoff ELSE MaxPutOff)

Soon(t) == Ahead(t, now) \in 1 .. Longest
Late(t) == Ahead(now, t)

(* How long the hook may still be away, and what the compare register holds. *)
Remaining == IF flag THEN MaxLate - Late(cmp) ELSE Ahead(cmp, now) + MaxLate
CompareSet == cmp # Stop => IF flag THEN Late(cmp) <= MaxLate ELSE Soon(cmp)

(***************************************************************************)
(* Whose entry is whose while the task is inside a call: it stores the id  *)
(* when the call returns.  A client being called back holds none.          *)
(***************************************************************************)
Rescheduling == tpc \in {"plan", "program"}
Holds(c) == IF c = TaskClient /\ (Rescheduling \/ tpc = "return") THEN tslot ELSE id[c]

Matched ==
  /\ \A c \in Client : Holds(c) # NoId => Holds(c) \in active /\ entry[Holds(c)].owner = c
  /\ \A i \in active : Holds(entry[i].owner) = i
  /\ tpc = "claim" => tslot \in Slot \ active /\ id[TaskClient] = NoId /\ tdelay \in Delays
  /\ tpc = "drop" => tslot = id[TaskClient] /\ tslot # NoId
  /\ \A c \in hook.calling : id[c] = NoId

(***************************************************************************)
(* Outside the hook the compare register holds the earliest deadline, or   *)
(* the next tick if that has expired; the task's call computes it in one   *)
(* step and programs it in another.                                        *)
(***************************************************************************)
Planned ==
  /\ tpc # "plan" => next = find_earliest(entry)
  /\ ~ Rescheduling =>
       /\ cmp = Stop <=> next = NoDeadline
       /\ cmp # Stop => cmp = next \/ deadline_due(next, now)
  /\ tpc = "program" =>
       /\ tval = Stop <=> next = NoDeadline
       /\ tval # Stop => /\ tval = next \/ deadline_due(next, now)
                         /\ Soon(tval) \/ Late(tval) <= tticks

(* The deadlines of armed timers: one equal to NoDeadline is taken for none.  *)
Deadlines(tab) == {tab[i].deadline : i \in DOMAIN tab} \ {NoDeadline}
Armings == Deadlines(entry)

(* No armed timer is further away than the longest delay, or later than the  *)
(* calls that put it off explain.                                            *)
Served(t) ==
  \/ Soon(t)
  \/ /\ cmp # Stop => Late(t) + Remaining <= Allowed
     /\ cmp = Stop => Late(t) <= tticks
     /\ tpc \notin {"idle", "return"} => putoff < MaxPutOff \/ Late(t) <= tticks

Outside ==
  /\ Planned
  /\ \A t \in Armings : Served(t)
  /\ tpc \notin {"idle", "return"} => putoff <= MaxPutOff
  /\ putoff > MaxPutOff => Waiting(entry)

(***************************************************************************)
(* Inside the hook time passes only once a callback has armed a timer:     *)
(* its deadline, smaller as a number than all others, lies past the wrap   *)
(* of the counter, so that the next one to go before it is nearer still.   *)
(***************************************************************************)
Clocked ==
  /\ Ahead(cmp, hook.now) \in 1 .. Longest
  /\ Late(hook.now) = IF flag THEN Ahead(cmp, hook.now) + Late(cmp)
                      ELSE Ahead(cmp, hook.now) - Ahead(cmp, now)
  /\ cmp = next /\ next < Half /\ next \in Armings

Frozen ==
  /\ ~ running /\ now = hook.now
  /\ next # NoDeadline /\ Late(next) + Longest <= Half

Inside ==
  /\ tpc = "idle" /\ putoff = 0 /\ hook.at <= Slots
  /\ IF cmp = Stop THEN Frozen ELSE Clocked
  /\ \A t \in Armings : next <= t
  /\ \A i \in active : i < hook.at => ~ Expired(i)
  /\ hook.fired \/ \E i \in active : hook.at <= i /\ Expired(i)
  /\ \A t \in Armings : \/ deadline_due(t, hook.now)
                         \/ Soon(t)
                         \/ Late(t) <= Late(hook.now)

Timing == CompareSet /\ IF HookIdle THEN Outside ELSE Inside

TableInv ==
  /\ TypeOK
  /\ ~ overtaken => Matched /\ Timing

-----------------------------------------------------------------------------
(* The constants. *)
LEMMA Halves ==
  /\ TickMod \in Nat /\ Half \in Nat /\ Half >= 2 /\ TickMod = Half + Half
  BY TickAssumption DEF Half

(* The bounds, and delays of at most half a turn.                            *)
LEMMA Waits ==
  /\ MaxLate \in Nat /\ MaxStall \in Nat /\ MaxPutOff \in Nat /\ MaxSpan \in Nat
  /\ \A d \in Delays : d \in Nat /\ 1 <= d /\ d <= Half /\ MaxSpan < d
  BY DelayAssumption, Halves DEF Half

(* A set of naturals has a least element: of the sets 0 .. x, one contains   *)
(* no other strictly.                                                        *)
LEMMA Least ==
  ASSUME NEW T \in SUBSET Nat, T # {}
  PROVE  \E m \in T : \A x \in T : m <= x
<1> DEFINE F == {0 .. x : x \in T}
           R == StrictSubsetOrdering(Nat)
<1>1. IsWellFoundedOn(R, FiniteSubsetsOf(Nat))
  BY FS_StrictSubsetOrderingWellFounded
<1>2. F \subseteq FiniteSubsetsOf(Nat) /\ F # {}
  <2>1. \A x \in T : IsFiniteSet(0 .. x) /\ 0 .. x \in SUBSET Nat
    BY FS_Interval
  <2>2. QED
    BY <2>1 DEF FiniteSubsetsOf
<1> HIDE DEF R
<1>3. PICK s \in F : \A y \in F : ~ (<<y, s>> \in R)
  BY <1>1, <1>2, WFMin
<1>4. PICK m \in T : s = 0 .. m
  BY <1>3
<1>5. \A x \in T : x < m => <<0 .. x, 0 .. m>> \in R
  BY DEF R, StrictSubsetOrdering
<1>6. \A x \in T : ~ (x < m)
  BY <1>3, <1>4, <1>5
<1>7. QED
  BY <1>6

(* There is a longest delay.                                                 *)
LEMMA LongestDelay ==
  /\ Longest \in Delays /\ Longest \in Nat /\ 1 <= Longest
  /\ \A d \in Delays : d \in Nat /\ 1 <= d /\ d <= Longest
<1> DEFINE Rest == {Half - d : d \in Delays}
<1>1. Rest \in SUBSET Nat /\ Rest # {}
  BY Waits, Halves, DelayAssumption
<1>2. PICK m \in Rest : \A x \in Rest : m <= x
  BY <1>1, Least
<1>3. PICK d \in Delays : m = Half - d
  BY <1>2
<1>4. ASSUME NEW e \in Delays
      PROVE  e <= d
  <2>1. m <= Half - e
    BY <1>2
  <2>2. QED
    BY <1>3, <2>1, Waits, Halves
<1>5. \E l \in Delays : \A e \in Delays : e <= l
  BY <1>3, <1>4
<1>6. Longest \in Delays /\ \A e \in Delays : e <= Longest
  BY <1>5 DEF Longest
<1>7. QED
  BY <1>6, Waits

(* The bound on the wait in steps of one call, never half a turn.            *)
LEMMA Patient ==
  ASSUME NEW k \in Nat
  PROVE  /\ Patience(k) \in Nat
         /\ MaxStall + MaxLate + 1 + (MaxLate + Longest) <= Patience(k)
         /\ Patience(k + 1) = Patience(k) + (MaxLate + Longest)
         /\ k <= MaxPutOff => Patience(k) + Longest <= Half
<1> DEFINE w == MaxLate + Longest
<1>1. w \in Nat /\ MaxStall \in Nat /\ MaxLate \in Nat /\ MaxPutOff \in Nat /\ Longest \in Nat
  BY Waits, LongestDelay
<1>2. /\ (k + 1) * w = k * w + w /\ (k + 1 + 1) * w = (k + 1) * w + w
      /\ k * w \in Nat /\ (k + 1) * w \in Nat
  BY <1>1
<1>3. /\ Patience(k) = MaxStall + MaxLate + 1 + (k + 1) * w
      /\ Patience(k + 1) = MaxStall + MaxLate + 1 + (k + 1 + 1) * w
  BY DEF Patience
<1>4. Longest + MaxStall + MaxLate + 1 + (MaxPutOff + 1) * w <= Half
  BY LongestDelay, DelayAssumption DEF Half
<1>5. ASSUME k <= MaxPutOff
      PROVE  (k + 1) * w <= (MaxPutOff + 1) * w
  <2>1. PICK n \in Nat : MaxPutOff = k + n
    <3>1. MaxPutOff - k \in Nat /\ MaxPutOff = k + (MaxPutOff - k)
      BY <1>1, <1>5
    <3>2. QED
      BY <3>1
  <2>2. (k + n + 1) * w = (k + 1) * w + n * w /\ n * w \in Nat
    BY <1>1
  <2> HIDE DEF w
  <2>3. (k + n + 1) * w >= (k + 1) * w
    BY <1>2, <2>2
  <2>4. QED
    BY <2>1, <2>3
<1>6. (MaxPutOff + 1) * w \in Nat
  BY <1>1
<1> HIDE DEF w
<1>7. /\ Patience(k) \in Nat
      /\ MaxStall + MaxLate + 1 + w <= Patience(k)
      /\ Patience(k + 1) = Patience(k) + w
  BY <1>1, <1>2, <1>3
<1>8. k <= MaxPutOff => Patience(k) + Longest <= Half
  BY <1>1, <1>2, <1>3, <1>4, <1>5, <1>6, Halves
<1>9. QED
  BY <1>7, <1>8 DEF w

(***************************************************************************)
(* Ticks on the circle: how far one is ahead of another, without modulo,   *)
(* and what a tick more, a delay, or a tick between the two make of it.    *)
(***************************************************************************)
LEMMA OnceRound ==
  ASSUME NEW x \in Nat, x < TickMod + TickMod
  PROVE  x % TickMod = IF x < TickMod THEN x ELSE x - TickMod
  BY TickAssumption, Z3

(* The distance on the circle without modulo.                                *)
LEMMA AheadIs ==
  ASSUME NEW t \in Tick, NEW f \in Tick
  PROVE  /\ Ahead(t, f) = IF f <= t THEN t - f ELSE t + TickMod - f
         /\ Ahead(t, f) \in Nat /\ Ahead(t, f) < TickMod
<1>1. t \in Nat /\ f \in Nat /\ t < TickMod /\ f < TickMod
  BY Halves DEF Tick
<1>2. t + TickMod - f \in Nat /\ t + TickMod - f < TickMod + TickMod
  BY <1>1, Halves
<1> DEFINE x == t + TickMod - f
<1>3. Ahead(t, f) = x % TickMod
  BY DEF Ahead
<1>4. x \in Nat /\ x < TickMod + TickMod /\ (x < TickMod <=> t < f) /\ x - TickMod = t - f
  BY <1>1, <1>2, Halves
<1> HIDE DEF x
<1>5. x % TickMod = IF x < TickMod THEN x ELSE x - TickMod
  BY <1>4, OnceRound
<1>6. Ahead(t, f) = IF t < f THEN x ELSE t - f
  BY <1>3, <1>4, <1>5
<1>7. QED
  BY <1>1, <1>6, Halves DEF x

(* The two ways round the circle add up to a turn.                           *)
LEMMA BothWays ==
  ASSUME NEW t \in Tick, NEW f \in Tick
  PROVE  /\ Ahead(t, f) = 0 <=> t = f
         /\ t # f => Ahead(f, t) = TickMod - Ahead(t, f)
<1>1. /\ Ahead(t, f) = IF f <= t THEN t - f ELSE t + TickMod - f
      /\ Ahead(f, t) = IF t <= f THEN f - t ELSE f + TickMod - t
  BY AheadIs
<1>2. t \in Nat /\ f \in Nat /\ t < TickMod /\ f < TickMod
  BY Halves DEF Tick
<1>3. QED
  BY <1>1, <1>2, Halves

(* Distances add up along the circle.                                        *)
LEMMA Between ==
  ASSUME NEW a \in Tick, NEW b \in Tick, NEW c \in Tick, Ahead(a, b) + Ahead(b, c) < TickMod
  PROVE  Ahead(a, c) = Ahead(a, b) + Ahead(b, c)
<1> DEFINE x == Ahead(a, b)
           y == Ahead(b, c)
           z == Ahead(a, c)
<1>1. /\ x = IF b <= a THEN a - b ELSE a + TickMod - b
      /\ y = IF c <= b THEN b - c ELSE b + TickMod - c
      /\ z = IF c <= a THEN a - c ELSE a + TickMod - c
      /\ x + y < TickMod
  BY AheadIs
<1>2. /\ a \in Nat /\ b \in Nat /\ c \in Nat /\ a < TickMod /\ b < TickMod /\ c < TickMod
  BY Halves DEF Tick
<1> HIDE DEF x, y, z
<1>3. z = x + y
  BY <1>1, <1>2, Halves
<1>4. QED
  BY <1>3 DEF x, y, z

(* A delay of at most half a turn puts a deadline just that far ahead.       *)
LEMMA AfterDelay ==
  ASSUME NEW f \in Tick, NEW d \in Nat, d <= Half
  PROVE  /\ (f + d) % TickMod \in Tick
         /\ (f + d) % TickMod = IF f + d < TickMod THEN f + d ELSE f + d - TickMod
         /\ Ahead((f + d) % TickMod, f) = d
<1>1. f \in Nat /\ f < TickMod /\ d < TickMod /\ f + d \in Nat /\ f + d < TickMod + TickMod
  BY Halves DEF Tick
<1> DEFINE x == f + d
<1>2. (f + d) % TickMod = IF f + d < TickMod THEN f + d ELSE f + d - TickMod
  <2>1. x \in Nat /\ x < TickMod + TickMod
    BY <1>1
  <2> HIDE DEF x
  <2>2. x % TickMod = IF x < TickMod THEN x ELSE x - TickMod
    BY <2>1, OnceRound
  <2>3. QED
    BY <1>1, <2>2, Halves DEF x
<1>3. (f + d) % TickMod \in Tick
  BY <1>1, <1>2, Halves DEF Tick
<1>4. PICK t \in Tick : t = (f + d) % TickMod
  BY <1>3
<1>5. Ahead(t, f) = d
  BY <1>1, <1>2, <1>4, AheadIs, Halves
<1>6. QED
  BY <1>2, <1>3, <1>4, <1>5

(* The counter counts up.                                                    *)
LEMMA TickPasses ==
  ASSUME NEW n \in Tick, NEW m \in Tick, m = (n + 1) % TickMod, NEW t \in Tick
  PROVE  /\ Ahead(t, n) > 0 => Ahead(t, m) = Ahead(t, n) - 1
         /\ Ahead(n, t) < Half => Ahead(m, t) = Ahead(n, t) + 1
         /\ t = m <=> Ahead(t, n) = 1
         /\ Ahead(m, m) = 0
<1>1. m = IF n + 1 < TickMod THEN n + 1 ELSE n + 1 - TickMod
  <2>1. 1 \in Nat /\ 1 <= Half
    BY Halves
  <2>2. (n + 1) % TickMod = IF n + 1 < TickMod THEN n + 1 ELSE n + 1 - TickMod
    BY <2>1, AfterDelay
  <2>3. QED
    BY <2>2
<1>2. /\ n \in Nat /\ m \in Nat /\ t \in Nat /\ n < TickMod /\ m < TickMod /\ t < TickMod
  BY Halves DEF Tick
<1>3. /\ Ahead(t, n) = IF n <= t THEN t - n ELSE t + TickMod - n
      /\ Ahead(t, m) = IF m <= t THEN t - m ELSE t + TickMod - m
      /\ Ahead(n, t) = IF t <= n THEN n - t ELSE n + TickMod - t
      /\ Ahead(m, t) = IF t <= m THEN m - t ELSE m + TickMod - t
      /\ Ahead(m, m) = 0
  BY AheadIs, BothWays
<1>4. QED
  BY <1>1, <1>2, <1>3, Halves

(* A deadline has expired if it is less than half a turn ago.                *)
LEMMA DueIs ==
  ASSUME NEW d, NEW t
  PROVE  deadline_due(d, t) <=> Ahead(t, d) < Half
  BY DEF deadline_due, Half

-----------------------------------------------------------------------------
(* The table of timers. *)
Entry == [deadline : Tick, owner : Client]
Table == UNION {[S -> Entry] : S \in SUBSET Slot}

(* A table that is not full has a first free slot.                           *)
LEMMA FreeSlot ==
  ASSUME active \subseteq Slot, active # Slot
  PROVE  FirstFree \in Slot \ active
<1>1. Slot \ active \in SUBSET Nat /\ Slot \ active # {}
  <2>1. Slot \subseteq Nat
    BY SlotsAssumption DEF Slot
  <2> HIDE DEF active
  <2>2. Slot \ active # {}
    OBVIOUS
  <2>3. QED
    BY <2>1, <2>2
<1>2. \E i \in Slot \ active : \A j \in Slot \ active : i <= j
  BY <1>1, Least
<1>3. QED
  BY <1>2 DEF FirstFree

(* The table with a slot filled.                                             *)
LEMMA Filled ==
  ASSUME active \subseteq Slot, entry \in [active -> Entry], NEW i \in Slot, NEW c \in Client,
         NEW d \in Nat
  PROVE  /\ DOMAIN With(i, d, c) = active \cup {i} /\ active \cup {i} \subseteq Slot
         /\ With(i, d, c) \in [active \cup {i} -> Entry]
         /\ With(i, d, c)[i].deadline = d % TickMod /\ With(i, d, c)[i].owner = c
         /\ \A j \in active \ {i} : With(i, d, c)[j] = entry[j]
<1>1. d % TickMod \in Tick
  BY TickAssumption DEF Tick
<1>2. QED
  BY <1>1 DEF With, Entry

(* The table with a slot freed.                                              *)
LEMMA Dropped ==
  ASSUME active \subseteq Slot, entry \in [active -> Entry], NEW i
  PROVE  /\ DOMAIN Without(i) = active \ {i}
         /\ Without(i) \in [active \ {i} -> Entry]
         /\ \A j \in active \ {i} : Without(i)[j] = entry[j]
  BY DEF Without

(* find_earliest returns a deadline of the table and none is smaller.        *)
LEMMA EarliestIs ==
  ASSUME NEW S \in SUBSET Slot, NEW tab \in [S -> Entry]
  PROVE  /\ find_earliest(tab) \in Tick
         /\ S = {} => find_earliest(tab) = NoDeadline
         /\ S # {} => \E i \in S : tab[i].deadline = find_earliest(tab)
         /\ \A i \in S : find_earliest(tab) <= tab[i].deadline
         /\ \A i \in S : tab[i].deadline \in Tick
<1> DEFINE dls == {tab[i].deadline : i \in S}
<1>1. dls \in SUBSET Tick /\ \A i \in S : tab[i].deadline \in Tick
  BY DEF Entry
<1>2. NoDeadline \in Tick /\ Tick \subseteq Nat
  BY Halves DEF NoDeadline, Tick
<1>3. CASE S = {}
  BY <1>2, <1>3 DEF find_earliest
<1>4. CASE S # {}
  <2>1. dls # {}
    BY <1>4
  <2>2. \E e \in dls : \A d \in dls : e <= d
    BY <1>1, <1>2, <2>1, Least
  <2>3. find_earliest(tab) = CHOOSE e \in dls : \A d \in dls : e <= d
    BY <1>4 DEF find_earliest
  <2>4. find_earliest(tab) \in dls /\ \A d \in dls : find_earliest(tab) <= d
    BY <2>2, <2>3
  <2>5. QED
    BY <1>1, <1>4, <2>4
<1>5. QED
  BY <1>3, <1>4

(* None comes after NoDeadline; the table's earliest deadline is unique.     *)
LEMMA EarliestArmed ==
  ASSUME NEW S \in SUBSET Slot, NEW tab \in [S -> Entry]
  PROVE  /\ find_earliest(tab) = NoDeadline <=> \A i \in S : tab[i].deadline = NoDeadline
         /\ \A e \in Tick : /\ \A i \in S : e <= tab[i].deadline
                            /\ \E i \in S : tab[i].deadline = e
                            => find_earliest(tab) = e
<1>1. \A t \in Tick : t \in Nat /\ t <= NoDeadline
  BY Halves DEF Tick, NoDeadline
<1>2. NoDeadline \in Nat
  BY Halves DEF NoDeadline
<1>3. ASSUME find_earliest(tab) = NoDeadline, NEW i \in S
      PROVE  tab[i].deadline = NoDeadline
  BY <1>1, <1>2, <1>3, EarliestIs
<1>4. ASSUME NEW e \in Tick, \A i \in S : e <= tab[i].deadline,
             NEW j \in S, tab[j].deadline = e
      PROVE  find_earliest(tab) = e
  <2>1. PICK i \in S : tab[i].deadline = find_earliest(tab)
    BY <1>4, EarliestIs
  <2>2. e <= find_earliest(tab) /\ find_earliest(tab) <= e /\ find_earliest(tab) \in Tick
    BY <1>4, <2>1, EarliestIs
  <2>3. QED
    BY <1>1, <2>2
<1>5. (\A i \in S : tab[i].deadline = NoDeadline) => find_earliest(tab) = NoDeadline
  BY EarliestIs
<1>6. QED
  BY <1>3, <1>4, <1>5

-----------------------------------------------------------------------------
(* What is soon is not due, and what is due is neither soon nor at hand.     *)
LEMMA SoonOrDue ==
  ASSUME now \in Tick, NEW t \in Tick
  PROVE  /\ Soon(t) => Ahead(t, now) \in Nat /\ 1 <= Ahead(t, now) /\ Ahead(t, now) <= Longest
         /\ Soon(t) => ~ deadline_due(t, now)
         /\ deadline_due(t, now) <=> Late(t) < Half
         /\ Late(t) \in Nat
<1>1. Longest \in Nat /\ Longest + 1 <= Half /\ Late(t) \in Nat
  BY LongestDelay, Waits, Patient, Halves, AheadIs DEF Late
<1>2. deadline_due(t, now) <=> Late(t) < Half
  BY DueIs DEF Late
<1>3. ASSUME Soon(t)
      PROVE  Ahead(t, now) \in Nat /\ 1 <= Ahead(t, now) /\ Ahead(t, now) <= Longest
  BY <1>1, <1>3 DEF Soon
<1>4. ASSUME Soon(t)
      PROVE  ~ (Late(t) < Half)
  <2>1. Late(t) = TickMod - Ahead(t, now)
    BY <1>3, <1>4, BothWays DEF Late
  <2>2. QED
    BY <1>1, <1>3, <1>4, <2>1, Halves
<1>5. QED
  BY <1>1, <1>2, <1>3, <1>4

(* A deadline just computed is ahead by the delay, or by what is left of it. *)
LEMMA Fresh ==
  ASSUME now \in Tick, NEW d \in 1 .. Longest
  PROVE  /\ (now + d) % TickMod \in Tick
         /\ (now + d) % TickMod = IF now + d < TickMod THEN now + d ELSE now + d - TickMod
         /\ Ahead((now + d) % TickMod, now) = d
         /\ Soon((now + d) % TickMod)
<1>1. d \in Nat /\ d <= Half /\ 1 <= d /\ d <= Longest /\ Longest \in Nat
  <2>1. Longest \in Nat /\ Longest <= Half /\ Half \in Nat
    BY Waits, LongestDelay, Halves
  <2>2. QED
    BY <2>1
<1>2. QED
  BY <1>1, AfterDelay DEF Soon

(* A tick that was read k ticks ago is k ticks behind the counter.           *)
LEMMA Reading ==
  ASSUME now \in Tick, NEW k \in Span
  PROVE  /\ k \in Nat /\ k <= MaxSpan /\ k < Longest
         /\ Ago(k) \in Tick /\ Ahead(now, Ago(k)) = k
         /\ k = 0 => Ago(k) = now
         /\ k > 0 => (Ago(k) + 1) % TickMod = Ago(k - 1)
<1>1. k \in Nat /\ k <= MaxSpan /\ k < Longest /\ k < Half
  <2>1. k \in Nat /\ k <= MaxSpan /\ MaxSpan \in Nat
    BY Waits DEF Span
  <2>2. MaxSpan < Longest /\ Longest <= Half /\ Longest \in Nat /\ Half \in Nat
    BY Waits, LongestDelay, Halves
  <2>3. QED
    BY <2>1, <2>2
<1>2. \A n \in Nat : n <= k => Ago(n) = IF n <= now THEN now - n ELSE now + TickMod - n
  <2>1. ASSUME NEW n \in Nat, n <= k
        PROVE  Ago(n) = IF n <= now THEN now - n ELSE now + TickMod - n
    <3>1. n \in Tick
      BY <1>1, <2>1, Halves DEF Tick
    <3>2. Ago(n) = Ahead(now, n)
      BY DEF Ago, Ahead
    <3>3. QED
      BY <3>1, <3>2, AheadIs
  <2>2. QED
    BY <2>1
<1>3. now \in Nat /\ now < TickMod /\ Half \in Nat /\ TickMod = Half + Half
  BY Halves DEF Tick
<1>4. Ago(k) = IF k <= now THEN now - k ELSE now + TickMod - k
  BY <1>1, <1>2
<1>5. Ago(k) \in Tick
  BY <1>1, <1>3, <1>4 DEF Tick
<1>6. Ahead(now, Ago(k)) = k
  BY <1>1, <1>3, <1>4, <1>5, AheadIs
<1>7. ASSUME k > 0
      PROVE  (Ago(k) + 1) % TickMod = Ago(k - 1)
  <2>1. Ago(k - 1) = IF k - 1 <= now THEN now - (k - 1) ELSE now + TickMod - (k - 1)
    BY <1>1, <1>2, <1>7
  <2>2. 1 \in Nat /\ 1 <= Half
    BY Halves
  <2>3. (Ago(k) + 1) % TickMod = IF Ago(k) + 1 < TickMod THEN Ago(k) + 1 ELSE Ago(k) + 1 - TickMod
    BY <1>5, <2>2, AfterDelay
  <2>4. QED
    BY <1>1, <1>3, <1>4, <1>7, <2>1, <2>3
<1>8. k = 0 => Ago(k) = now
  BY <1>3, <1>4
<1>9. QED
  BY <1>1, <1>5, <1>6, <1>7, <1>8

(* A delay counted from a tick that was read earlier is that much shorter.   *)
LEMMA Shorter ==
  ASSUME now \in Tick, NEW k \in Span, NEW d \in Delays
  PROVE  /\ d - k \in 1 .. Longest
         /\ (Ago(k) + d) % TickMod = (now + (d - k)) % TickMod
<1>1. /\ k \in Nat /\ k <= MaxSpan /\ d \in Nat /\ MaxSpan < d /\ d <= Longest /\ d <= Half
      /\ Longest \in Nat /\ MaxSpan \in Nat
  BY Reading, Waits, LongestDelay
<1>2. d - k \in 1 .. Longest
  BY <1>1
<1>3. Ago(k) \in Tick /\ Ahead(now, Ago(k)) = k
  BY Reading
<1>4. /\ (Ago(k) + d) % TickMod = IF Ago(k) + d < TickMod THEN Ago(k) + d ELSE Ago(k) + d - TickMod
  BY <1>1, <1>3, AfterDelay
<1>5. /\ (now + (d - k)) % TickMod
         = IF now + (d - k) < TickMod THEN now + (d - k) ELSE now + (d - k) - TickMod
  BY <1>2, Fresh
<1>6. k = IF Ago(k) <= now THEN now - Ago(k) ELSE now + TickMod - Ago(k)
  BY <1>3, AheadIs
<1>7. now \in Nat /\ Ago(k) \in Nat /\ now < TickMod /\ Ago(k) < TickMod /\ TickMod \in Nat
  BY <1>3, Halves DEF Tick
<1>8. QED
  BY <1>1, <1>2, <1>4, <1>5, <1>6, <1>7

(* What the compare register is set to: a tick that is soon, or nothing.     *)
LEMMA CompareIs ==
  ASSUME now \in Tick, NEW e \in Tick
  PROVE  /\ CompareFor(e, now) \in Tick \cup {Stop}
         /\ CompareFor(e, now) = Stop <=> e = NoDeadline
         /\ e # NoDeadline => CompareFor(e, now) = e \/ deadline_due(e, now)
         /\ e # NoDeadline /\ ~ deadline_due(e, now) => CompareFor(e, now) = e
         /\ e # NoDeadline /\ (deadline_due(e, now) \/ Soon(e)) => Soon(CompareFor(e, now))
         /\ e # NoDeadline /\ deadline_due(e, now) => Ahead(CompareFor(e, now), now) = 1
<1>1. Stop \notin Tick
  BY Halves DEF Stop, Tick
<1>2. (now + 1) % TickMod \in Tick /\ Ahead((now + 1) % TickMod, now) = 1
  <2>1. 1 \in Nat /\ 1 <= Half
    BY Halves
  <2>2. QED
    BY <2>1, AfterDelay
<1>3. Soon((now + 1) % TickMod)
  <2>1. 1 \in 1 .. Longest
    BY LongestDelay
  <2>2. QED
    BY <1>2, <2>1 DEF Soon
<1>4. QED
  BY <1>1, <1>2, <1>3 DEF CompareFor

(***************************************************************************)
(* What is set for a tick read earlier: a tick or nothing, and what would  *)
(* be set for the present one, unless the counter has passed it.           *)
(***************************************************************************)
LEMMA ReadEarlier ==
  ASSUME now \in Tick, NEW e \in Tick, NEW k \in Span
  PROVE  /\ CompareFor(e, Ago(k)) \in Tick \cup {Stop}
         /\ CompareFor(e, Ago(k)) = Stop <=> e = NoDeadline
         /\ ~ Passed(CompareFor(e, Ago(k))) => CompareFor(e, Ago(k)) = CompareFor(e, now)
<1>1. Stop \notin Tick
  BY Halves DEF Stop, Tick
<1>2. (Ago(k) + 1) % TickMod \in Tick
  <2>1. 1 \in Nat /\ 1 <= Half
    BY Halves
  <2>2. QED
    BY <2>1, Reading, AfterDelay
<1>3. CASE e = NoDeadline
  BY <1>3 DEF CompareFor
<1>4. CASE e # NoDeadline /\ ~ deadline_due(e, Ago(k))
  BY <1>1, <1>4 DEF CompareFor, Passed
<1>5. CASE e # NoDeadline /\ deadline_due(e, Ago(k))
  <2>1. CompareFor(e, Ago(k)) = (Ago(k) + 1) % TickMod
    BY <1>5 DEF CompareFor
  <2>2. k = 0 => Ago(k) = now
    BY Reading
  <2>3. ASSUME k # 0
        PROVE  Passed(CompareFor(e, Ago(k)))
    <3>1. k - 1 \in Span /\ k > 0
      BY <2>3, Reading, Waits DEF Span
    <3>2. CompareFor(e, Ago(k)) = Ago(k - 1) /\ Ago(k - 1) \in Tick
      BY <2>1, <3>1, Reading
    <3>3. Ahead(now, Ago(k - 1)) = k - 1 /\ k - 1 < Longest
      BY <3>1, Reading
    <3>4. Longest < Half
      BY Patient, Waits, LongestDelay, Halves
    <3>5. deadline_due(Ago(k - 1), now)
      BY <3>1, <3>3, <3>4, DueIs, LongestDelay, Halves, Reading
    <3>6. QED
      BY <1>1, <3>2, <3>5 DEF Passed
  <2>4. QED
    BY <1>1, <1>2, <2>1, <2>2, <2>3, <1>5
<1>6. QED
  BY <1>3, <1>4, <1>5

Hardware ==
  /\ now \in Tick /\ cmp \in Tick \cup {Stop}
  /\ running \in BOOLEAN /\ flag \in BOOLEAN
  /\ cmp # Stop => running
  /\ flag => cmp # Stop

(* What h_timer_schedule or h_timer_stop_compare leaves in the hardware.     *)
LEMMA ProgramEffect ==
  ASSUME TypeOK, NEW v \in Tick \cup {Stop}, NEW tab, Program(v, tab)
  PROVE  /\ Hardware' /\ now' = now /\ cmp' = v /\ ~ flag'
         /\ v = Stop => putoff' = 0 /\ ~ running'
         /\ v # Stop => putoff' = IF Waiting(tab) /\ HookIdle THEN putoff + 1 ELSE putoff
<1>1. CASE v = Stop
  BY <1>1 DEF TypeOK, Program, h_timer_stop_compare, Hardware
<1>2. CASE v # Stop
  BY <1>2 DEF TypeOK, Program, h_timer_schedule, Hardware
<1>3. QED
  BY <1>1, <1>2

(* A handler's h_soft_timer_reschedule, whenever it has read the counter.    *)
Rewritten(tab) == \E k \in Span : Reschedule(tab, k)

(* What h_soft_timer_reschedule leaves behind.                               *)
LEMMA Rescheduled ==
  ASSUME TypeOK, NEW S \in SUBSET Slot, NEW tab \in [S -> Entry], Rewritten(tab)
  PROVE  /\ Hardware' /\ now' = now /\ ~ flag' /\ overtaken' \in BOOLEAN
         /\ next' = find_earliest(tab) /\ next' \in Tick
         /\ ~ overtaken' => cmp' = CompareFor(next', now)
         /\ cmp' = Stop <=> next' = NoDeadline
         /\ cmp' = Stop => putoff' = 0 /\ ~ running'
         /\ cmp' # Stop => putoff' = IF Waiting(tab) /\ HookIdle THEN putoff + 1 ELSE putoff
<1>1. now \in Tick
  BY DEF TypeOK
<1>2. PICK k \in Span : Reschedule(tab, k)
  BY DEF Rewritten
<1>3. next' = find_earliest(tab) /\ next' \in Tick
  BY <1>2, EarliestIs DEF Reschedule
<1> DEFINE v == CompareFor(next', Ago(k))
<1>4. /\ v \in Tick \cup {Stop} /\ (v = Stop <=> next' = NoDeadline)
      /\ ~ Passed(v) => v = CompareFor(next', now)
  BY <1>1, <1>3, ReadEarlier
<1>5. /\ Program(v, tab)
      /\ overtaken' = (tpc # "idle" \/ Passed(v)) \/ overtaken' = TRUE
  BY <1>2, <1>3 DEF Reschedule
<1>6. overtaken' \in BOOLEAN /\ (~ overtaken' => ~ Passed(v))
  <2>1. Passed(v) \in BOOLEAN
    BY DEF Passed, deadline_due
  <2> HIDE DEF v
  <2>2. QED
    BY <1>5, <2>1
<1> HIDE DEF v
<1>7. /\ Hardware' /\ now' = now /\ cmp' = v /\ ~ flag'
      /\ v = Stop => putoff' = 0 /\ ~ running'
      /\ v # Stop => putoff' = IF Waiting(tab) /\ HookIdle THEN putoff + 1 ELSE putoff
  BY <1>4, <1>5, ProgramEffect
<1>8. QED
  BY <1>3, <1>4, <1>6, <1>7

(***************************************************************************)
(* h_soft_timer_register leaves a full table alone or fills a free slot    *)
(* with a deadline that is the delay, or what is left of it, ahead.        *)
(***************************************************************************)
LEMMA Registered ==
  ASSUME TypeOK, NEW c \in Client, NEW d \in Delays, Register(c, d)
  PROVE  \/ UNCHANGED <<hwVars, tableVars, id>> /\ overtaken' \in BOOLEAN
         \/ \E i \in Slot \ active, s \in 1 .. Longest :
              /\ id' = [id EXCEPT ![c] = i]
              /\ active' = active \cup {i} /\ entry' \in [active \cup {i} -> Entry]
              /\ entry'[i].deadline = (now + s) % TickMod /\ entry'[i].owner = c
              /\ \A j \in active : entry'[j] = entry[j]
              /\ IF ReplacesEarliest((now + s) % TickMod) THEN Rewritten(entry')
                 ELSE NoReschedule
<1>1. CASE active = Slot
  BY <1>1 DEF Register, NoReschedule, tableVars
<1>2. CASE active # Slot
  <2>1. active \subseteq Slot /\ entry \in [active -> Entry] /\ now \in Tick
    BY DEF TypeOK, Entry
  <2>2. FirstFree \in Slot \ active
    BY <1>2, <2>1, FreeSlot
  <2>3. PICK r \in Span :
          /\ entry' = With(FirstFree, Ago(r) + d, c)
          /\ IF ReplacesEarliest((Ago(r) + d) % TickMod)
             THEN \E k \in 0 .. r : Reschedule(entry', k)
             ELSE NoReschedule
    BY <1>2 DEF Register
  <2>4. PICK s \in 1 .. Longest : (Ago(r) + d) % TickMod = (now + s) % TickMod
    BY <2>1, Shorter
  <2>5. Ago(r) + d \in Nat /\ (now + s) % TickMod \in Tick
    BY <2>1, Fresh, Reading, Waits, Halves DEF Tick
  <2>6. /\ active' = active \cup {FirstFree} /\ entry' \in [active \cup {FirstFree} -> Entry]
        /\ entry'[FirstFree].deadline = (now + s) % TickMod /\ entry'[FirstFree].owner = c
        /\ \A j \in active : entry'[j] = entry[j]
    <3>1. PICK i \in Slot \ active, t \in Nat : i = FirstFree /\ t = Ago(r) + d
      BY <2>2, <2>5
    <3>2. t % TickMod = (now + s) % TickMod /\ t % TickMod \in Tick
      BY <2>4, <2>5, <3>1
    <3>3. /\ DOMAIN With(i, t, c) = active \cup {i} /\ With(i, t, c) \in [active \cup {i} -> Entry]
          /\ With(i, t, c)[i].deadline = t % TickMod /\ With(i, t, c)[i].owner = c
          /\ \A j \in active \ {i} : With(i, t, c)[j] = entry[j]
      <4>1. i \in Slot /\ t \in Nat /\ active \subseteq Slot /\ entry \in [active -> Entry]
        BY <2>1, <3>1
      <4>2. QED
        BY <3>2, <4>1 DEF With, Entry
    <3>4. active \ {i} = active
      BY <3>1
    <3>5. entry' = With(i, t, c)
      BY <2>3, <3>1
    <3>6. DOMAIN entry' = active \cup {i}
      BY <3>3, <3>5
    <3>7. active' = active \cup {i}
      BY <3>6 DEF active
    <3>8. /\ entry' \in [active \cup {i} -> Entry] /\ entry'[i].owner = c
          /\ \A j \in active : entry'[j] = entry[j]
      BY <3>3, <3>4, <3>5
    <3>9. entry'[i].deadline = t % TickMod
      BY <3>3, <3>5
    <3>10. QED
      BY <3>1, <3>2, <3>7, <3>8, <3>9
  <2>7. id' = [id EXCEPT ![c] = FirstFree]
    BY <1>2 DEF Register
  <2>8. IF ReplacesEarliest((now + s) % TickMod) THEN Rewritten(entry') ELSE NoReschedule
    <3>1. 0 .. r \subseteq Span
      BY Waits DEF Span
    <3>2. QED
      BY <2>3, <2>4, <3>1 DEF Rewritten
  <2>9. QED
    BY <2>2, <2>6, <2>7, <2>8
<1>3. QED
  BY <1>1, <1>2

(* What an interrupt does to the table inside the task's call is noted.      *)
LEMMA Undisturbed ==
  ASSUME ~ overtaken', tpc # "idle"
  PROVE  /\ ~ NoReschedule
         /\ \A tab : ~ Rewritten(tab)
         /\ \A c, d : ~ Register(c, d)
<1>1. ~ NoReschedule
  BY DEF NoReschedule
<1>2. \A tab, k : ~ Reschedule(tab, k)
  BY DEF Reschedule
<1>3. \A c, d : ~ Register(c, d)
  BY <1>1, <1>2 DEF Register
<1>4. QED
  BY <1>1, <1>2, <1>3 DEF Rewritten

-----------------------------------------------------------------------------
(* The types, in groups that actions leave alone. *)
TableOK ==
  /\ next \in Tick /\ active \subseteq Slot /\ entry \in [active -> Entry]
  /\ id \in [Client -> Slot \cup {NoId}]
Hooks == [at : 0 .. Slots + 1, now : Tick, calling : SUBSET Client, fired : BOOLEAN]
TaskOK ==
  /\ tpc \in {"idle", "claim", "drop", "plan", "program", "return"}
  /\ tslot \in Slot \cup {NoId}
  /\ tdelay \in Delays \cup {0}
  /\ tval \in Tick \cup {Stop}
  /\ tticks \in 0 .. MaxStall

(* The types are those of the groups.                                        *)
LEMMA TypeGroups ==
  /\ TypeOK <=> /\ Hardware /\ TableOK /\ hook \in Hooks /\ TaskOK
                /\ putoff \in 0 .. MaxPutOff + 1 /\ overtaken \in BOOLEAN
  /\ TypeOK' <=> /\ Hardware' /\ TableOK' /\ hook' \in Hooks /\ TaskOK'
                 /\ putoff' \in 0 .. MaxPutOff + 1 /\ overtaken' \in BOOLEAN
  BY DEF TypeOK, Hardware, TableOK, Hooks, TaskOK, Entry

(* A tick keeps the types.                                                   *)
LEMMA CountTypes ==
  ASSUME TypeOK, CountUp
  PROVE  Hardware' /\ TaskOK' /\ now' \in Tick /\ now' = (now + 1) % TickMod
<1>1. Hardware /\ TaskOK
  BY TypeGroups
<1>2. now' = (now + 1) % TickMod /\ now' \in Tick
  <2>1. 1 \in Nat /\ 1 <= Half /\ now \in Tick
    BY <1>1, Halves DEF Hardware
  <2>2. QED
    BY <2>1, AfterDelay DEF CountUp
<1>3. Stop \notin Tick
  BY Halves DEF Stop, Tick
<1>4. Hardware'
  <2>1. running /\ UNCHANGED <<running, cmp>> /\ (flag' <=> flag \/ now' = cmp) /\ flag' \in BOOLEAN
    BY DEF CountUp
  <2>2. QED
    BY <1>1, <1>2, <1>3, <2>1 DEF Hardware
<1>5. TaskOK'
  <2>1. tticks' = (IF tpc = "idle" THEN 0 ELSE tticks + 1) /\ (tpc # "idle" => tticks < MaxStall)
        /\ UNCHANGED <<tpc, tslot, tdelay, tval>>
    BY DEF CountUp
  <2>2. tticks' \in 0 .. MaxStall
    BY <1>1, <2>1, Waits DEF TaskOK
  <2>3. QED
    BY <1>1, <2>1, <2>2 DEF TaskOK
<1>6. QED
  BY <1>2, <1>4, <1>5

(* Without rescheduling nothing is programmed.                               *)
LEMMA Unscheduled ==
  ASSUME TypeOK, NoReschedule
  PROVE  Hardware' /\ next' = next /\ overtaken' \in BOOLEAN
  BY TypeGroups DEF NoReschedule, Hardware, hwVars

(* A registration keeps the types.                                           *)
LEMMA RegisterTypes ==
  ASSUME TypeOK, NEW c \in Client, NEW d \in Delays, Register(c, d)
  PROVE  Hardware' /\ TableOK' /\ overtaken' \in BOOLEAN
<1>1. Hardware /\ TableOK
  BY TypeGroups
<1>2. CASE UNCHANGED <<hwVars, tableVars, id>> /\ overtaken' \in BOOLEAN
  BY <1>1, <1>2 DEF Hardware, TableOK, hwVars, tableVars, active
<1>3. ASSUME NEW i \in Slot \ active, NEW s \in 1 .. Longest,
             id' = [id EXCEPT ![c] = i],
             active' = active \cup {i}, entry' \in [active \cup {i} -> Entry],
             IF ReplacesEarliest((now + s) % TickMod) THEN Rewritten(entry') ELSE NoReschedule
      PROVE  Hardware' /\ TableOK' /\ overtaken' \in BOOLEAN
  <2>1. active \cup {i} \in SUBSET Slot
    BY <1>1 DEF TableOK
  <2>2. Hardware' /\ next' \in Tick /\ overtaken' \in BOOLEAN
    <3>1. CASE ReplacesEarliest((now + s) % TickMod)
      BY <1>3, <2>1, <3>1, Rescheduled
    <3>2. CASE ~ ReplacesEarliest((now + s) % TickMod)
      BY <1>1, <1>3, <3>2, Unscheduled DEF TableOK
    <3>3. QED
      BY <3>1, <3>2
  <2>3. id' \in [Client -> Slot \cup {NoId}]
    BY <1>1, <1>3 DEF TableOK
  <2>4. QED
    BY <1>3, <2>1, <2>2, <2>3 DEF TableOK
<1>4. QED
  BY <1>2, <1>3, Registered

(* One entry leaves the table, and the client's id with it or later.         *)
LEMMA Dropping ==
  ASSUME TypeOK, NEW i, entry' = Without(i)
  PROVE  /\ active' = active \ {i} /\ active' \in SUBSET Slot /\ entry' \in [active \ {i} -> Entry]
         /\ \A j \in active \ {i} : entry'[j] = entry[j]
<1>1. active \subseteq Slot /\ entry \in [active -> Entry]
  BY TypeGroups DEF TableOK
<1>2. QED
  BY <1>1, Dropped DEF active

(* The hook's record.                                                        *)
LEMMA HookEffect ==
  ASSUME TypeOK
  PROVE  /\ NoHook \in Hooks /\ NoHook.at = Slots + 1 /\ NoHook.calling = {}
         /\ hook.at \in Nat /\ hook.at <= Slots + 1 /\ hook.now \in Tick /\ hook.calling \subseteq Client
         /\ hook.at <= Slots => ~ HookIdle
         /\ hook.calling # {} => ~ HookIdle
         /\ hook.at \in Slot <=> hook.at < Slots
         /\ hook.at \in Slot => hook.at <= Slots
<1>1. hook \in Hooks /\ Slots \in Nat
  BY TypeGroups, SlotsAssumption
<1>2. NoHook \in Hooks /\ NoHook.at = Slots + 1 /\ NoHook.calling = {}
  BY <1>1, Halves DEF NoHook, Hooks, Tick
<1>3. /\ hook.at \in Nat /\ hook.at <= Slots + 1 /\ hook.now \in Tick
      /\ hook.calling \subseteq Client
  BY <1>1 DEF Hooks
<1>4. hook.at <= Slots => ~ HookIdle
  BY <1>1, <1>2, <1>3 DEF HookIdle
<1>5. hook.calling # {} => ~ HookIdle
  BY <1>2 DEF HookIdle
<1>6. hook.at \in Slot <=> hook.at < Slots
  BY <1>1, <1>3 DEF Slot
<1>7. QED
  BY <1>1, <1>2, <1>3, <1>4, <1>5, <1>6

(* How the hook's record moves.                                              *)
LEMMA HookMoves ==
  ASSUME TypeOK
  PROVE  /\ HookEnter => /\ hook' \in Hooks /\ hook'.at = 0 /\ hook'.now = now
                         /\ hook'.calling = {} /\ ~ hook'.fired
         /\ HookSkip => /\ hook' \in Hooks /\ hook'.at = hook.at + 1 /\ hook'.now = hook.now
                        /\ hook'.calling = {} /\ hook'.fired = hook.fired
         /\ HookFire => /\ hook' \in Hooks /\ hook'.at = hook.at + 1 /\ hook'.now = hook.now
                        /\ hook'.calling = {entry[hook.at].owner} /\ hook'.fired
         /\ \A d \in Delays : CallbackReturns \/ CallbackRegisters(d) =>
              /\ hook' \in Hooks /\ hook'.at = hook.at /\ hook'.now = hook.now
              /\ hook'.calling = {} /\ hook'.fired = hook.fired
<1>1. hook \in Hooks /\ Slots \in Nat /\ now \in Tick /\ entry \in [active -> Entry]
  BY TypeGroups, SlotsAssumption DEF Hardware, TableOK
<1>2. ASSUME hook.at \in Slot
      PROVE  hook.at + 1 \in 0 .. Slots + 1
  BY <1>1, <1>2 DEF Slot
<1>3. ASSUME HookEnter
      PROVE  /\ hook' \in Hooks /\ hook'.at = 0 /\ hook'.now = now
             /\ hook'.calling = {} /\ ~ hook'.fired
  BY <1>1, <1>3 DEF HookEnter, Hooks
<1>4. ASSUME HookSkip
      PROVE  /\ hook' \in Hooks /\ hook'.at = hook.at + 1 /\ hook'.now = hook.now
             /\ hook'.calling = {} /\ hook'.fired = hook.fired
  BY <1>1, <1>2, <1>4 DEF HookSkip, Hooks
<1>5. ASSUME HookFire
      PROVE  /\ hook' \in Hooks /\ hook'.at = hook.at + 1 /\ hook'.now = hook.now
             /\ hook'.calling = {entry[hook.at].owner} /\ hook'.fired
  <2>1. entry[hook.at].owner \in Client
    BY <1>1, <1>5 DEF HookFire, Expired, Entry
  <2>2. QED
    BY <1>1, <1>2, <1>5, <2>1 DEF HookFire, Hooks
<1>6. ASSUME NEW d \in Delays, CallbackReturns \/ CallbackRegisters(d)
      PROVE  /\ hook' \in Hooks /\ hook'.at = hook.at /\ hook'.now = hook.now
             /\ hook'.calling = {} /\ hook'.fired = hook.fired
  BY <1>1, <1>6 DEF CallbackReturns, CallbackRegisters, Hooks
<1>7. QED
  BY <1>3, <1>4, <1>5, <1>6

(* Every step keeps the types, if it keeps the bound on putoff.              *)
LEMMA TypeStep ==
  ASSUME TypeOK, [Next]_vars, putoff' \in 0 .. MaxPutOff + 1,
         ~ overtaken /\ tpc = "claim" => tslot \in Slot /\ tdelay \in Delays
  PROVE  TypeOK'
<1>1. /\ Hardware /\ TableOK /\ hook \in Hooks /\ TaskOK /\ overtaken \in BOOLEAN
      /\ TaskClient \in Client /\ \A c \in IsrClient : c \in Client
  BY TypeGroups DEF Client
<1>2. ASSUME UNCHANGED hwVars
      PROVE  Hardware'
  BY <1>1, <1>2 DEF Hardware, hwVars
<1>3. ASSUME UNCHANGED <<tableVars, id>>
      PROVE  TableOK'
  BY <1>1, <1>3 DEF TableOK, tableVars, active
<1>4. ASSUME UNCHANGED taskVars
      PROVE  TaskOK'
  BY <1>1, <1>4 DEF TaskOK, taskVars
<1>5. ASSUME Hardware', TableOK', hook' \in Hooks, TaskOK', overtaken' \in BOOLEAN
      PROVE  TypeOK'
  BY <1>5, TypeGroups
<1>6. CASE CountUp
  <2>1. UNCHANGED <<tableVars, id, hook, overtaken>>
    BY <1>6 DEF CountUp
  <2>2. QED
    BY <1>1, <1>3, <1>5, <1>6, <2>1, CountTypes
<1>7. CASE HookEnter
  <2>1. UNCHANGED <<tableVars, id, taskVars>> /\ overtaken' \in BOOLEAN
    BY <1>7 DEF HookEnter
  <2>2. Hardware'
    BY <1>1, <1>7 DEF HookEnter, h_timer_stop_compare, Hardware
  <2>3. QED
    BY <1>3, <1>4, <1>5, <1>7, <2>1, <2>2, HookMoves
<1>8. CASE HookSkip \/ CallbackReturns
  <2>1. UNCHANGED <<hwVars, tableVars, id, taskVars, overtaken>>
    BY <1>8 DEF HookSkip, CallbackReturns
  <2>2. hook' \in Hooks
    BY <1>8, HookMoves, LongestDelay
  <2>3. QED
    BY <1>1, <1>2, <1>3, <1>4, <1>5, <2>1, <2>2
<1>9. CASE HookFire
  <2>1. UNCHANGED <<hwVars, next, taskVars, overtaken>> /\ entry' = Without(hook.at)
        /\ id' = [id EXCEPT ![entry[hook.at].owner] = NoId]
    BY <1>9 DEF HookFire
  <2>2. TableOK'
    <3>1. id' \in [Client -> Slot \cup {NoId}]
      BY <1>1, <2>1 DEF TableOK
    <3>2. QED
      BY <1>1, <2>1, <3>1, Dropping DEF TableOK
  <2>3. QED
    BY <1>1, <1>2, <1>4, <1>5, <1>9, <2>1, <2>2, HookMoves
<1>10. CASE HookExit
  <2>1. UNCHANGED <<entry, id, taskVars>> /\ hook' \in Hooks
    BY <1>10, HookEffect DEF HookExit
  <2>2. Hardware' /\ next' \in Tick /\ overtaken' \in BOOLEAN
    <3>1. CASE hook.fired
      BY <1>1, <1>10, <3>1, Rescheduled DEF HookExit, TableOK, Rewritten
    <3>2. CASE ~ hook.fired
      BY <1>1, <1>10, <3>2, Unscheduled DEF HookExit, TableOK
    <3>3. QED
      BY <3>1, <3>2
  <2>3. TableOK'
    BY <1>1, <2>1, <2>2 DEF TableOK, active
  <2>4. QED
    BY <1>1, <1>4, <1>5, <2>1, <2>2, <2>3
<1>11. ASSUME NEW d \in Delays, CallbackRegisters(d)
       PROVE  TypeOK'
  <2>1. UNCHANGED taskVars /\ hook' \in Hooks
    BY <1>11, HookMoves DEF CallbackRegisters
  <2>2. PICK c \in Client : Register(c, d)
    BY <1>11, HookEffect DEF CallbackRegisters
  <2>3. QED
    BY <1>1, <1>4, <1>5, <2>1, <2>2, RegisterTypes
<1>12. ASSUME NEW d \in Delays, NEW c \in IsrClient, IsrRegister(c, d)
       PROVE  TypeOK'
  <2>1. UNCHANGED <<hook, taskVars>> /\ Register(c, d)
    BY <1>12 DEF IsrRegister
  <2>2. QED
    BY <1>1, <1>4, <1>5, <2>1, RegisterTypes
<1>13. ASSUME NEW c \in IsrClient, IsrUnregister(c)
       PROVE  TypeOK'
  <2>1. /\ UNCHANGED <<hook, taskVars>> /\ entry' = Without(id[c])
        /\ id' = [id EXCEPT ![c] = NoId] /\ Rewritten(entry')
    BY <1>13 DEF IsrUnregister, Rewritten
  <2>2. active' \in SUBSET Slot /\ entry' \in [active' -> Entry]
    BY <2>1, Dropping
  <2>3. id' \in [Client -> Slot \cup {NoId}]
    BY <1>1, <2>1 DEF TableOK
  <2>4. Hardware' /\ next' \in Tick /\ overtaken' \in BOOLEAN
    BY <2>1, <2>2, Rescheduled
  <2>5. QED
    BY <1>1, <1>4, <1>5, <2>1, <2>2, <2>3, <2>4 DEF TableOK
<1>14. ASSUME NEW d \in Delays, TaskRegister(d)
       PROVE  TypeOK'
  <2>1. UNCHANGED <<hwVars, tableVars, id, hook, overtaken>>
    BY <1>14 DEF TaskRegister
  <2>2. TaskOK'
    <3>1. FirstFree \in Slot
      BY <1>1, <1>14, FreeSlot DEF TaskRegister, TableOK
    <3>2. QED
      BY <1>1, <1>14, <3>1, Waits DEF TaskRegister, TaskOK
  <2>3. QED
    BY <1>1, <1>2, <1>3, <1>5, <2>1, <2>2
<1>15. CASE TaskUnregister
  <2>1. UNCHANGED <<hwVars, tableVars, id, hook, overtaken>>
    BY <1>15 DEF TaskUnregister
  <2>2. TaskOK'
    BY <1>1, <1>15, Waits DEF TaskUnregister, TaskOK, TableOK
  <2>3. QED
    BY <1>1, <1>2, <1>3, <1>5, <2>1, <2>2
<1>16. ASSUME TaskClaim, tslot \in Slot, tdelay \in Delays
       PROVE  TypeOK'
  <2>1. /\ UNCHANGED <<hwVars, next, id, hook, tslot, tdelay, tval, tticks, overtaken>>
        /\ entry' = With(tslot, now + tdelay, TaskClient) /\ tpc' \in {"plan", "return"}
    BY <1>16 DEF TaskClaim
  <2>2. PICK i \in Slot, t \in Nat : i = tslot /\ t = now + tdelay
    <3>1. now + tdelay \in Nat
      BY <1>1, <1>16, Waits, Halves DEF Hardware, Tick
    <3>2. QED
      BY <1>16, <3>1
  <2>3. /\ DOMAIN With(i, t, TaskClient) = active \cup {i} /\ active \cup {i} \subseteq Slot
        /\ With(i, t, TaskClient) \in [active \cup {i} -> Entry]
    BY <1>1, <2>2, Filled DEF TableOK
  <2>4. TableOK'
    BY <1>1, <2>1, <2>2, <2>3 DEF TableOK, active
  <2>5. TaskOK'
    BY <1>1, <2>1 DEF TaskOK
  <2>6. QED
    BY <1>1, <1>2, <1>5, <2>1, <2>4, <2>5
<1>17. CASE TaskDrop
  <2>1. /\ UNCHANGED <<hwVars, next, id, hook, tdelay, tval, tticks, overtaken>>
        /\ entry' = Without(tslot) /\ tslot' = NoId /\ tpc' = "plan"
    BY <1>17 DEF TaskDrop
  <2>2. TableOK'
    BY <1>1, <2>1, Dropping DEF TableOK
  <2>3. TaskOK'
    BY <1>1, <2>1 DEF TaskOK
  <2>4. QED
    BY <1>1, <1>2, <1>5, <2>1, <2>2, <2>3
<1>18. CASE TaskPlan
  <2>1. /\ UNCHANGED <<hwVars, entry, id, hook, tslot, tdelay, tticks, overtaken>>
        /\ next' = find_earliest(entry) /\ tval' = CompareFor(next', now) /\ tpc' = "program"
    BY <1>18 DEF TaskPlan
  <2>2. next' \in Tick
    BY <1>1, <2>1, EarliestIs DEF TableOK
  <2>3. TableOK'
    BY <1>1, <2>1, <2>2 DEF TableOK, active
  <2>4. tval' \in Tick \cup {Stop}
    BY <1>1, <2>1, <2>2, CompareIs DEF Hardware
  <2>5. TaskOK'
    BY <1>1, <2>1, <2>4 DEF TaskOK
  <2>6. QED
    BY <1>1, <1>2, <1>5, <2>1, <2>3, <2>5
<1>19. CASE TaskProgram
  <2>1. /\ UNCHANGED <<tableVars, id, hook, tslot, tdelay, tticks>> /\ Program(tval, entry)
        /\ tval' = Stop /\ tpc' = "return" /\ overtaken' \in BOOLEAN
    BY <1>19 DEF TaskProgram, Passed, deadline_due
  <2>2. Hardware'
    BY <1>1, <2>1, ProgramEffect DEF TaskOK
  <2>3. TaskOK'
    BY <1>1, <2>1 DEF TaskOK
  <2>4. QED
    BY <1>1, <1>3, <1>5, <2>1, <2>2, <2>3
<1>20. CASE TaskReturn
  <2>1. /\ UNCHANGED <<hwVars, tableVars, hook, tval, tticks, overtaken>>
        /\ id' = [id EXCEPT ![TaskClient] = tslot] /\ tslot' = NoId /\ tdelay' = 0 /\ tpc' = "idle"
    BY <1>20 DEF TaskReturn
  <2>2. TableOK'
    BY <1>1, <2>1 DEF TableOK, TaskOK, tableVars, active
  <2>3. TaskOK'
    BY <1>1, <2>1 DEF TaskOK
  <2>4. QED
    BY <1>1, <1>2, <1>5, <2>1, <2>2, <2>3
<1>21. CASE UNCHANGED vars
  <2>1. UNCHANGED <<hwVars, tableVars, id, hook, taskVars, overtaken>>
    BY <1>21 DEF vars, hwVars, tableVars, taskVars
  <2>2. QED
    BY <1>1, <1>2, <1>3, <1>4, <1>5, <2>1
<1>22. ASSUME Next, TaskClaim
       PROVE  TypeOK'
  <2>1. tslot \in Slot /\ tdelay \in Delays
    BY <1>22 DEF Next, TaskClaim
  <2>2. QED
    BY <1>16, <1>22, <2>1
<1>23. QED
  BY <1>22, <1>6, <1>7, <1>8, <1>9, <1>10, <1>11, <1>12, <1>13, <1>14, <1>15, <1>17, <1>18,
     <1>19, <1>20, <1>21 DEF Next, Hook, Task

-----------------------------------------------------------------------------
(* Ids and entries: who holds what, seen as one function.                    *)
Ids == [c \in Client |-> Holds(c)]
Pairs ==
  /\ \A c \in Client : Ids[c] # NoId => Ids[c] \in active /\ entry[Ids[c]].owner = c
  /\ \A i \in active : Ids[entry[i].owner] = i

Stages ==
  /\ tpc = "claim" => tslot \in Slot \ active /\ id[TaskClient] = NoId /\ tdelay \in Delays
  /\ tpc = "drop" => tslot = id[TaskClient] /\ tslot # NoId
  /\ \A c \in hook.calling : id[c] = NoId

(* What Matched says of ids and entries, and of the stages of a call.        *)
LEMMA Owning ==
  ASSUME TypeOK
  PROVE  /\ NoId \notin Slot /\ active \subseteq Slot /\ Ids \in [Client -> Slot \cup {NoId}]
         /\ TaskClient \in Client /\ \A c \in IsrClient : c \in Client /\ c # TaskClient
         /\ \A i \in active : entry[i].owner \in Client
         /\ Matched <=> Pairs /\ Stages
<1>1. TableOK /\ TaskOK
  BY TypeGroups
<1>2. NoId \notin Slot
  BY SlotsAssumption DEF NoId, Slot
<1>3. Ids \in [Client -> Slot \cup {NoId}]
  BY <1>1 DEF Ids, Holds, TableOK, TaskOK
<1>4. TaskClient \in Client /\ \A c \in IsrClient : c \in Client /\ c # TaskClient
  BY ClientAssumption DEF Client
<1>5. \A i \in active : entry[i].owner \in Client
  BY <1>1 DEF TableOK, Entry
<1>6. Pairs <=> /\ \A c \in Client : Holds(c) # NoId => Holds(c) \in active /\ entry[Holds(c)].owner = c
                /\ \A i \in active : Holds(entry[i].owner) = i
  BY <1>5 DEF Pairs, Ids
<1>7. QED
  BY <1>1, <1>2, <1>3, <1>4, <1>5, <1>6 DEF Matched, Stages, TableOK

(* Ids and entries that stay, stay matched.                                  *)
LEMMA StillMatched ==
  ASSUME TypeOK', Pairs', Stages'
  PROVE  Matched'
<1>1. \A i \in active' : (entry[i].owner)' \in Client
  BY TypeGroups DEF TableOK, Entry
<1>2. QED
  BY <1>1 DEF Pairs, Ids, Matched, Stages

(* Filling a free slot for a client without id keeps ids and entries paired. *)
LEMMA PairAdded ==
  ASSUME TypeOK, Pairs, NEW c \in Client, NEW i \in Slot \ active, Ids[c] = NoId,
         Ids' = [Ids EXCEPT ![c] = i], active' = active \cup {i},
         entry'[i].owner = c, \A j \in active : entry'[j] = entry[j]
  PROVE  Pairs'
<1>1. Ids \in [Client -> Slot \cup {NoId}] /\ NoId \notin Slot /\ active \subseteq Slot
      /\ \A j \in active : entry[j].owner \in Client
  BY Owning
<1>2. ASSUME NEW x \in Client, Ids'[x] # NoId
      PROVE  Ids'[x] \in active' /\ entry'[Ids'[x]].owner = x
  <2>1. CASE x = c
    BY <1>1, <2>1
  <2>2. CASE x # c
    <3>1. Ids'[x] = Ids[x]
      BY <1>1, <2>2
    <3>2. QED
      BY <1>2, <3>1 DEF Pairs
  <2>3. QED
    BY <2>1, <2>2
<1>3. ASSUME NEW j \in active'
      PROVE  Ids'[entry'[j].owner] = j
  <2>1. CASE j = i
    BY <1>1, <2>1
  <2>2. CASE j # i
    <3>1. j \in active /\ entry'[j].owner = entry[j].owner /\ Ids[entry[j].owner] = j
      BY <1>3, <2>2 DEF Pairs
    <3>2. entry[j].owner # c /\ entry[j].owner \in Client
      BY <1>1, <3>1
    <3>3. QED
      BY <1>1, <3>1, <3>2
  <2>3. QED
    BY <2>1, <2>2
<1>4. QED
  BY <1>2, <1>3 DEF Pairs

(* Freeing a slot together with its id keeps the others paired.              *)
LEMMA PairRemoved ==
  ASSUME TypeOK, Pairs, NEW c \in Client, NEW i \in active, Ids[c] = i,
         Ids' = [Ids EXCEPT ![c] = NoId], active' = active \ {i},
         \A j \in active \ {i} : entry'[j] = entry[j]
  PROVE  Pairs'
<1>1. Ids \in [Client -> Slot \cup {NoId}] /\ NoId \notin Slot /\ active \subseteq Slot
      /\ \A j \in active : entry[j].owner \in Client
  BY Owning
<1>2. ASSUME NEW x \in Client, Ids'[x] # NoId
      PROVE  Ids'[x] \in active' /\ entry'[Ids'[x]].owner = x
  <2>1. x # c /\ Ids'[x] = Ids[x]
    BY <1>1, <1>2
  <2>2. Ids[x] \in active /\ entry[Ids[x]].owner = x /\ entry[i].owner = c
    BY <1>1, <1>2, <2>1 DEF Pairs
  <2>3. Ids[x] # i
    BY <2>1, <2>2
  <2>4. QED
    BY <2>1, <2>2, <2>3
<1>3. ASSUME NEW j \in active'
      PROVE  Ids'[entry'[j].owner] = j
  <2>1. j \in active /\ j # i /\ entry'[j].owner = entry[j].owner /\ Ids[entry[j].owner] = j
    BY <1>3 DEF Pairs
  <2>2. entry[j].owner # c /\ entry[j].owner \in Client
    BY <1>1, <2>1
  <2>3. QED
    BY <1>1, <2>1, <2>2
<1>4. QED
  BY <1>2, <1>3 DEF Pairs

(* A register outside the task, of a client without an id.                   *)
LEMMA RegisterPairs ==
  ASSUME TypeOK, Pairs, NEW c \in Client, NEW d \in Delays, Register(c, d), id[c] = NoId,
         tpc = "idle", tpc' = "idle"
  PROVE  Pairs'
<1>1. Ids = id /\ id \in [Client -> Slot \cup {NoId}]
  BY TypeGroups DEF Ids, Holds, Rescheduling, TableOK
<1>2. ASSUME NEW f, id' = f, f \in [Client -> Slot \cup {NoId}]
      PROVE  Ids' = f
  BY <1>2 DEF Ids, Holds, Rescheduling
<1>3. CASE UNCHANGED <<hwVars, tableVars, id>>
  <2>1. Ids' = Ids /\ UNCHANGED <<entry, active>>
    BY <1>1, <1>2, <1>3 DEF tableVars, active
  <2>2. QED
    BY <2>1 DEF Pairs
<1>4. ASSUME NEW i \in Slot \ active,
             id' = [id EXCEPT ![c] = i], active' = active \cup {i},
             entry'[i].owner = c, \A j \in active : entry'[j] = entry[j]
      PROVE  Pairs'
  <2>1. Ids' = [Ids EXCEPT ![c] = i] /\ Ids[c] = NoId
    BY <1>1, <1>2, <1>4
  <2>2. QED
    BY <1>4, <2>1, PairAdded
<1>5. QED
  BY <1>3, <1>4, Registered

(* An entry and the id of its owner go together.                             *)
LEMMA DropPairs ==
  ASSUME TypeOK, Pairs, NEW c \in Client, NEW i \in active, id[c] = i,
         entry' = Without(i), id' = [id EXCEPT ![c] = NoId], tpc = "idle", tpc' = "idle"
  PROVE  Pairs'
<1>1. Ids = id /\ id \in [Client -> Slot \cup {NoId}]
  BY TypeGroups DEF Ids, Holds, Rescheduling, TableOK
<1>2. Ids' = id'
  BY <1>1 DEF Ids, Holds, Rescheduling
<1>3. QED
  BY <1>1, <1>2, Dropping, PairRemoved

(* Every step keeps ids and entries matched.                                 *)
LEMMA MatchedStep ==
  ASSUME TypeOK, TypeOK', ~ overtaken, Matched, ~ HookIdle => tpc = "idle", Next, ~ overtaken'
  PROVE  Matched'
<1> DEFINE Calling == \A c \in hook.calling : id[c] = NoId
<1>1. /\ Pairs /\ Stages /\ TaskClient \in Client /\ NoId \notin Slot
      /\ Ids \in [Client -> Slot \cup {NoId}] /\ id \in [Client -> Slot \cup {NoId}]
      /\ \A c \in IsrClient : c \in Client /\ c # TaskClient
      /\ active \subseteq Slot
  BY Owning, TypeGroups DEF TableOK
<1>2. ASSUME UNCHANGED <<entry, Ids>>
      PROVE  Pairs'
  BY <1>1, <1>2 DEF Pairs, active
<1>3. ASSUME UNCHANGED <<id, tpc, tslot>>
      PROVE  UNCHANGED Ids
  BY <1>3 DEF Ids, Holds, Rescheduling
<1>4. ASSUME tpc' \notin {"claim", "drop"}, Calling'
      PROVE  Stages'
  BY <1>4 DEF Stages
<1>5. ASSUME HookIdle', UNCHANGED hook
      PROVE  hook'.calling = {}
  BY <1>5, HookEffect DEF HookIdle
<1>6. CASE CountUp
  <2>1. UNCHANGED <<entry, id, hook, tpc, tslot, tdelay>>
    BY <1>6 DEF CountUp, tableVars
  <2>2. Stages'
    BY <1>1, <2>1 DEF Stages, active
  <2>3. QED
    BY <1>2, <1>3, <2>1, <2>2, StillMatched
<1>7. ASSUME NEW d \in Delays, HookEnter \/ HookSkip \/ CallbackReturns
      PROVE  Matched'
  <2>1. UNCHANGED <<entry, id, tpc, tslot, tdelay>> /\ hook'.calling = {}
    <3>1. UNCHANGED <<entry, id, tpc, tslot, tdelay>>
      BY <1>7 DEF HookEnter, HookSkip, CallbackReturns, tableVars, taskVars
    <3>2. QED
      BY <1>7, <3>1, HookMoves
  <2>2. Stages'
    BY <1>1, <2>1 DEF Stages, active
  <2>3. QED
    BY <1>2, <1>3, <2>1, <2>2, StillMatched
<1>8. CASE HookExit
  <2>1. UNCHANGED <<entry, id, tpc, tslot, tdelay>> /\ hook'.calling = {}
    BY <1>8, HookEffect DEF HookExit, taskVars
  <2>2. Stages'
    BY <1>1, <2>1 DEF Stages, active
  <2>3. QED
    BY <1>2, <1>3, <2>1, <2>2, StillMatched
<1>9. CASE HookFire
  <2>1. /\ hook.at \in active /\ entry' = Without(hook.at) /\ hook.at \in Slot
        /\ id' = [id EXCEPT ![entry[hook.at].owner] = NoId] /\ UNCHANGED <<tpc, tslot>>
        /\ hook'.calling = {entry[hook.at].owner}
    BY <1>9, HookMoves DEF HookFire, Expired, taskVars
  <2>2. tpc = "idle" /\ tpc' = "idle"
    BY <2>1, HookEffect
  <2>3. PICK c \in Client : c = entry[hook.at].owner
    BY <2>1, Owning
  <2>4. id[c] = hook.at
    BY <1>1, <2>1, <2>2, <2>3 DEF Pairs, Ids, Holds, Rescheduling
  <2>5. Pairs'
    BY <1>1, <2>1, <2>2, <2>3, <2>4, DropPairs
  <2>6. Stages'
    BY <1>1, <1>4, <2>1, <2>2, <2>3
  <2>7. QED
    BY <2>5, <2>6, StillMatched
<1>10. ASSUME NEW d \in Delays, CallbackRegisters(d)
       PROVE  Matched'
  <2>1. PICK c \in Client : c \in hook.calling /\ Register(c, d)
    BY <1>10, HookEffect DEF CallbackRegisters
  <2>2. tpc = "idle" /\ tpc' = "idle" /\ hook'.calling = {}
    BY <1>10, <2>1, HookEffect, HookMoves DEF CallbackRegisters, taskVars
  <2>3. id[c] = NoId
    BY <1>1, <2>1 DEF Stages
  <2>4. Pairs' /\ Stages'
    BY <1>1, <1>4, <2>1, <2>2, <2>3, RegisterPairs
  <2>5. QED
    BY <2>4, StillMatched
<1>11. ASSUME NEW d \in Delays, NEW c \in IsrClient, IsrRegister(c, d)
       PROVE  Matched'
  <2>1. /\ Register(c, d) /\ id[c] = NoId /\ c \in Client /\ tpc = "idle" /\ tpc' = "idle"
        /\ hook'.calling = {}
    BY <1>1, <1>11, HookEffect, Undisturbed DEF IsrRegister, MayCall, HookIdle, taskVars
  <2>2. Pairs' /\ Stages'
    BY <1>1, <1>4, <2>1, RegisterPairs
  <2>3. QED
    BY <2>2, StillMatched
<1>12. ASSUME NEW c \in IsrClient, IsrUnregister(c)
       PROVE  Matched'
  <2>1. /\ entry' = Without(id[c]) /\ id' = [id EXCEPT ![c] = NoId] /\ id[c] # NoId
        /\ c \in Client /\ tpc = "idle" /\ tpc' = "idle" /\ hook'.calling = {}
    BY <1>1, <1>12, HookEffect, Undisturbed DEF IsrUnregister, MayCall, HookIdle, taskVars, Rewritten
  <2>2. PICK i \in active : id[c] = i
    BY <1>1, <2>1 DEF Pairs, Ids, Holds, Rescheduling
  <2>3. Pairs' /\ Stages'
    BY <1>1, <1>4, <2>1, <2>2, DropPairs
  <2>4. QED
    BY <2>3, StillMatched
<1>13. ASSUME NEW d \in Delays, TaskRegister(d)
       PROVE  Matched'
  <2>1. /\ UNCHANGED <<entry, id, hook>> /\ tpc = "idle" /\ tpc' = "claim" /\ tslot' = FirstFree
        /\ tdelay' = d /\ id[TaskClient] = NoId /\ active # Slot /\ HookIdle
    BY <1>13 DEF TaskRegister, tableVars, TaskRuns
  <2>2. FirstFree \in Slot \ active
    BY <1>1, <2>1, FreeSlot
  <2>3. UNCHANGED Ids
    BY <2>1 DEF Ids, Holds, Rescheduling
  <2>4. hook'.calling = {}
    BY <2>1, HookEffect DEF HookIdle
  <2>5. Stages'
    BY <1>1, <2>1, <2>2, <2>4 DEF Stages, active
  <2>6. QED
    BY <1>2, <2>1, <2>3, <2>5, StillMatched
<1>14. CASE TaskUnregister
  <2>1. /\ UNCHANGED <<entry, id, hook>> /\ tpc = "idle" /\ tpc' = "drop" /\ tslot' = id[TaskClient]
        /\ id[TaskClient] # NoId /\ HookIdle
    BY <1>14 DEF TaskUnregister, tableVars, TaskRuns
  <2>2. UNCHANGED Ids
    BY <2>1 DEF Ids, Holds, Rescheduling
  <2>3. hook'.calling = {}
    BY <2>1, HookEffect DEF HookIdle
  <2>4. Stages'
    BY <1>1, <2>1, <2>3 DEF Stages
  <2>5. QED
    BY <1>2, <2>1, <2>2, <2>4, StillMatched
<1>15. CASE TaskClaim
  <2>1. /\ UNCHANGED <<id, hook, tslot>> /\ tpc = "claim" /\ tpc' \in {"plan", "return"} /\ HookIdle
        /\ entry' = With(tslot, now + tdelay, TaskClient)
    BY <1>15 DEF TaskClaim, TaskRuns
  <2>2. tslot \in Slot \ active /\ id[TaskClient] = NoId /\ tdelay \in Delays
    BY <1>1, <2>1 DEF Stages
  <2>3. PICK i \in Slot \ active, t \in Nat : i = tslot /\ t = now + tdelay
    <3>1. now + tdelay \in Nat
      BY <2>2, Waits, Halves, TypeGroups DEF Hardware, Tick
    <3>2. QED
      BY <2>2, <3>1
  <2>4. /\ active' = active \cup {i} /\ entry'[i].owner = TaskClient
        /\ \A j \in active : entry'[j] = entry[j]
    BY <1>1, <2>1, <2>3 DEF With, active
  <2>5. Ids' = [Ids EXCEPT ![TaskClient] = i] /\ Ids[TaskClient] = NoId
    <3>1. Ids = id
      BY <1>1, <2>1 DEF Ids, Holds, Rescheduling
    <3>2. Ids' = [id EXCEPT ![TaskClient] = i]
      BY <1>1, <2>1, <2>3 DEF Ids, Holds, Rescheduling
    <3>3. QED
      BY <2>2, <3>1, <3>2
  <2>6. Pairs'
    BY <1>1, <2>3, <2>4, <2>5, PairAdded
  <2>7. hook'.calling = {}
    BY <2>1, HookEffect DEF HookIdle
  <2>8. Stages'
    BY <2>1, <2>7 DEF Stages
  <2>9. QED
    BY <2>6, <2>8, StillMatched
<1>16. CASE TaskDrop
  <2>1. /\ UNCHANGED <<id, hook>> /\ tpc = "drop" /\ tpc' = "plan" /\ HookIdle
        /\ entry' = Without(tslot) /\ tslot' = NoId
    BY <1>16 DEF TaskDrop, TaskRuns
  <2>2. tslot = id[TaskClient] /\ tslot # NoId
    BY <1>1, <2>1 DEF Stages
  <2>3. Ids = id /\ Ids' = [id EXCEPT ![TaskClient] = NoId]
    BY <1>1, <2>1 DEF Ids, Holds, Rescheduling
  <2>4. PICK i \in active : i = tslot
    BY <1>1, <2>2, <2>3 DEF Pairs
  <2>5. Pairs'
    BY <1>1, <2>1, <2>2, <2>3, <2>4, Dropping, PairRemoved
  <2>6. hook'.calling = {}
    BY <2>1, HookEffect DEF HookIdle
  <2>7. Stages'
    BY <2>1, <2>6 DEF Stages
  <2>8. QED
    BY <2>5, <2>7, StillMatched
<1>17. CASE TaskPlan \/ TaskProgram \/ TaskReturn
  <2>1. /\ UNCHANGED <<entry, hook>> /\ HookIdle
        /\ \/ tpc = "plan" /\ tpc' = "program" /\ UNCHANGED <<id, tslot>>
           \/ tpc = "program" /\ tpc' = "return" /\ UNCHANGED <<id, tslot>>
           \/ tpc = "return" /\ tpc' = "idle" /\ id' = [id EXCEPT ![TaskClient] = tslot]
    BY <1>17 DEF TaskPlan, TaskProgram, TaskReturn, TaskRuns, tableVars
  <2>2. UNCHANGED Ids
    <3>1. CASE tpc \in {"plan", "program"}
      BY <2>1, <3>1 DEF Ids, Holds, Rescheduling
    <3>2. CASE tpc = "return"
      <4>1. id' = [id EXCEPT ![TaskClient] = tslot] /\ tpc' = "idle"
        BY <2>1, <3>2
      <4>2. Ids = [c \in Client |-> IF c = TaskClient THEN tslot ELSE id[c]]
        BY <3>2 DEF Ids, Holds
      <4>3. Ids' = [c \in Client |-> id'[c]]
        BY <4>1 DEF Ids, Holds, Rescheduling
      <4>4. QED
        BY <1>1, <4>1, <4>2, <4>3
    <3>3. QED
      BY <2>1, <3>1, <3>2
  <2>3. hook'.calling = {}
    BY <2>1, HookEffect DEF HookIdle
  <2>4. Stages'
    BY <2>1, <2>3 DEF Stages
  <2>5. QED
    BY <1>2, <2>1, <2>2, <2>4, StillMatched
<1>18. QED
  BY <1>6, <1>7, <1>8, <1>9, <1>10, <1>11, <1>12, <1>13, <1>14, <1>15, <1>16, <1>17, LongestDelay
  DEF Next, Hook, Task

-----------------------------------------------------------------------------
(* The bound on the wait, and how long the hook may still be away.           *)
LEMMA Allowance ==
  ASSUME putoff \in Nat
  PROVE  /\ Allowed \in Nat /\ Allowed + Longest <= Half
         /\ MaxStall + MaxLate + 1 + (MaxLate + Longest) <= Allowed
         /\ putoff < MaxPutOff => Patience(putoff + 1) = Allowed + (MaxLate + Longest)
<1>1. MaxPutOff \in Nat
  BY Waits
<1>2. CASE putoff <= MaxPutOff
  <2>1. Allowed = Patience(putoff)
    BY <1>2 DEF Allowed
  <2>2. QED
    BY <1>2, <2>1, Patient
<1>3. CASE ~ (putoff <= MaxPutOff)
  <2>1. Allowed = Patience(MaxPutOff) /\ ~ (putoff < MaxPutOff)
    BY <1>1, <1>3 DEF Allowed
  <2>2. MaxPutOff <= MaxPutOff
    BY <1>1
  <2>3. QED
    BY <1>1, <2>1, <2>2, Patient
<1>4. QED
  BY <1>2, <1>3

(* The numbers that bound each other.                                        *)
LEMMA Scales ==
  /\ MaxLate \in Nat /\ MaxStall \in Nat /\ MaxPutOff \in Nat /\ Longest \in Nat /\ 1 <= Longest
  /\ Half \in Nat /\ TickMod \in Nat /\ TickMod = Half + Half
  /\ MaxStall + MaxLate + 1 + (MaxLate + Longest) + Longest <= Half
<1>1. 0 \in Nat /\ 0 <= MaxPutOff /\ Patience(0) \in Nat
  BY Waits, Patient
<1>2. MaxStall + MaxLate + 1 + (MaxLate + Longest) <= Patience(0) /\ Patience(0) + Longest <= Half
  BY <1>1, Patient
<1>3. QED
  BY <1>1, <1>2, Waits, LongestDelay, Halves

(* What is left until the compare interrupt is served.                       *)
LEMMA Away ==
  ASSUME TypeOK, CompareSet, cmp # Stop
  PROVE  /\ cmp \in Tick /\ now \in Tick /\ Remaining \in Nat /\ Remaining <= MaxLate + Longest
         /\ flag => /\ Late(cmp) \in Nat /\ Late(cmp) <= MaxLate /\ Remaining = MaxLate - Late(cmp)
                    /\ deadline_due(cmp, now)
         /\ ~ flag => Soon(cmp) /\ Remaining = Ahead(cmp, now) + MaxLate
<1>1. cmp \in Tick /\ now \in Tick
  BY TypeGroups DEF Hardware
<1>2. Late(cmp) \in Nat /\ Ahead(cmp, now) \in Nat
  BY <1>1, AheadIs DEF Late
<1>3. ASSUME flag
      PROVE  /\ Late(cmp) <= MaxLate /\ Remaining = MaxLate - Late(cmp) /\ Remaining \in Nat
             /\ Remaining <= MaxLate + Longest /\ deadline_due(cmp, now)
  <2>1. Late(cmp) <= MaxLate /\ Remaining = MaxLate - Late(cmp)
    BY <1>3 DEF CompareSet, Remaining
  <2>2. Late(cmp) < Half /\ Remaining \in Nat /\ Remaining <= MaxLate + Longest
    BY <1>2, <2>1, Scales
  <2>3. QED
    BY <1>1, <2>1, <2>2, SoonOrDue
<1>4. ASSUME ~ flag
      PROVE  /\ Soon(cmp) /\ Remaining = Ahead(cmp, now) + MaxLate /\ Remaining \in Nat
             /\ Remaining <= MaxLate + Longest
  <2>1. Soon(cmp) /\ Remaining = Ahead(cmp, now) + MaxLate
    BY <1>4 DEF CompareSet, Remaining
  <2>2. Ahead(cmp, now) <= Longest
    BY <1>1, <2>1, SoonOrDue
  <2>3. QED
    BY <1>2, <2>1, <2>2, Scales
<1>5. QED
  BY <1>1, <1>2, <1>3, <1>4

(* A timer outside the hook: soon, or due with room to spare.                *)
LEMMA ServedIs ==
  ASSUME TypeOK, CompareSet, NEW t \in Tick, Served(t)
  PROVE  Soon(t) \/ (Late(t) + Longest <= Half /\ deadline_due(t, now))
<1>1. now \in Tick /\ putoff \in Nat /\ tticks \in Nat /\ tticks <= MaxStall
  BY TypeGroups, Waits DEF Hardware, TaskOK
<1>2. Late(t) \in Nat
  BY <1>1, SoonOrDue
<1>3. ASSUME cmp # Stop, ~ Soon(t)
      PROVE  Late(t) + Longest <= Half /\ deadline_due(t, now)
  <2>1. Late(t) + Remaining <= Allowed /\ Remaining \in Nat
    BY <1>3, Away DEF Served
  <2>2. Late(t) + Longest <= Half /\ Late(t) < Half
    BY <1>1, <1>2, <2>1, Allowance, Scales
  <2>3. QED
    BY <1>1, <2>2, SoonOrDue
<1>4. ASSUME cmp = Stop, ~ Soon(t)
      PROVE  Late(t) + Longest <= Half /\ deadline_due(t, now)
  <2>1. Late(t) <= tticks
    BY <1>4 DEF Served
  <2>2. Late(t) + Longest <= Half /\ Late(t) < Half
    BY <1>1, <1>2, <2>1, Scales
  <2>3. QED
    BY <1>1, <2>2, SoonOrDue
<1>5. QED
  BY <1>3, <1>4

(***************************************************************************)
(* The armed timers' deadlines, the earliest of them and whether one waits *)
(* for its interrupt, in this state and in the next.                       *)
(***************************************************************************)
ArmingFacts ==
  /\ Armings \subseteq Tick /\ NoDeadline \notin Armings /\ NoDeadline \in Tick
  /\ \A i \in active : entry[i].deadline # NoDeadline => entry[i].deadline \in Armings
  /\ \A t \in Armings : \E i \in active : entry[i].deadline = t
  /\ find_earliest(entry) \in Tick
  /\ find_earliest(entry) = NoDeadline <=> Armings = {}
  /\ find_earliest(entry) # NoDeadline => find_earliest(entry) \in Armings
  /\ \A t \in Armings : find_earliest(entry) <= t
  /\ \A e \in Armings : (\A t \in Armings : e <= t) => find_earliest(entry) = e
  /\ Waiting(entry) <=> \E t \in Armings : deadline_due(t, now)

(* In a state with types.                                                    *)
LEMMA ArmingIs == TypeOK => ArmingFacts
<1> SUFFICES ASSUME TypeOK
             PROVE  ArmingFacts
  OBVIOUS
<1>1. active \in SUBSET Slot /\ entry \in [active -> Entry] /\ active = DOMAIN entry
  BY TypeGroups DEF TableOK, active
<1>2. Armings = {entry[i].deadline : i \in active} \ {NoDeadline}
  BY <1>1 DEF Armings, Deadlines
<1>3. NoDeadline \in Tick
  BY Halves DEF NoDeadline, Tick
<1>4. /\ find_earliest(entry) \in Tick
      /\ active = {} => find_earliest(entry) = NoDeadline
      /\ active # {} => \E i \in active : entry[i].deadline = find_earliest(entry)
      /\ \A i \in active : find_earliest(entry) <= entry[i].deadline
      /\ \A i \in active : entry[i].deadline \in Tick
  BY <1>1, EarliestIs
<1>5. /\ find_earliest(entry) = NoDeadline <=> \A i \in active : entry[i].deadline = NoDeadline
      /\ \A e \in Tick : /\ \A i \in active : e <= entry[i].deadline
                         /\ \E i \in active : entry[i].deadline = e
                         => find_earliest(entry) = e
  BY <1>1, EarliestArmed
<1>6. find_earliest(entry) # NoDeadline => find_earliest(entry) \in Armings
  BY <1>2, <1>4
<1>7. find_earliest(entry) = NoDeadline <=> Armings = {}
  BY <1>2, <1>5, <1>6
<1>8. ASSUME NEW e \in Armings, \A t \in Armings : e <= t
      PROVE  find_earliest(entry) = e
  <2>1. e \in Tick /\ e <= NoDeadline /\ \E i \in active : entry[i].deadline = e
    BY <1>2, <1>4, Halves DEF Tick, NoDeadline
  <2>2. \A i \in active : e <= entry[i].deadline
    BY <1>2, <1>8, <2>1
  <2>3. QED
    BY <1>5, <2>1, <2>2
<1>9. Waiting(entry) <=> \E t \in Armings : deadline_due(t, now)
  BY <1>1, <1>2 DEF Waiting
<1>10. QED
  BY <1>2, <1>3, <1>4, <1>6, <1>7, <1>8, <1>9 DEF ArmingFacts

(* And in the state after a step.                                            *)
LEMMA ArmingNext == TypeOK' => ArmingFacts'
  BY ArmingIs, PTL

(* What a registration and the end of a timer make of the deadlines.         *)
LEMMA ArmingsAdded ==
  ASSUME TypeOK, TypeOK', NEW i \in Slot \ active, active' = active \cup {i},
         \A j \in active : entry'[j] = entry[j]
  PROVE  /\ Armings \subseteq Armings'
         /\ \A t \in Armings' : t \in Armings \/ t = entry'[i].deadline
         /\ entry'[i].deadline # NoDeadline => entry'[i].deadline \in Armings'
<1>1. Armings = {entry[j].deadline : j \in active} \ {NoDeadline}
  BY DEF Armings, Deadlines, active
<1>2. Armings' = {entry'[j].deadline : j \in active'} \ {NoDeadline}
  BY DEF Armings, Deadlines, active
<1>3. QED
  BY <1>1, <1>2

(* The deadlines after a timer ended.                                        *)
LEMMA ArmingsDropped ==
  ASSUME TypeOK, TypeOK', NEW i, active' = active \ {i}, \A j \in active \ {i} : entry'[j] = entry[j]
  PROVE  /\ Armings' \subseteq Armings
         /\ \A j \in active : j # i /\ entry[j].deadline # NoDeadline => entry[j].deadline \in Armings'
<1>1. Armings = {entry[j].deadline : j \in active} \ {NoDeadline}
  BY DEF Armings, Deadlines, active
<1>2. Armings' = {entry'[j].deadline : j \in active'} \ {NoDeadline}
  BY DEF Armings, Deadlines, active
<1>3. QED
  BY <1>1, <1>2

(* Outside the hook every armed timer is soon or due; the earliest is served.*)
LEMMA OutsideArmed ==
  ASSUME TypeOK, HookIdle, Timing
  PROVE  /\ \A t \in Armings : Soon(t) \/ (deadline_due(t, now) /\ Late(t) + Longest <= Half)
         /\ \A t \in Armings : Served(t)
         /\ tpc = "idle" /\ cmp = Stop => Armings = {}
<1>1. Armings \subseteq Tick /\ (find_earliest(entry) = NoDeadline => Armings = {})
  BY ArmingIs DEF ArmingFacts
<1>2. CompareSet /\ (\A t \in Armings : Served(t)) /\ Planned
  BY DEF Timing, Outside
<1>3. ASSUME NEW t \in Armings
      PROVE  Soon(t) \/ (deadline_due(t, now) /\ Late(t) + Longest <= Half)
  BY <1>1, <1>2, ServedIs
<1>4. QED
  BY <1>1, <1>2, <1>3 DEF Planned, Rescheduling

-----------------------------------------------------------------------------
(* The count of calls that put an expired timer off stays within its bound.  *)
LEMMA PutOffBy ==
  ASSUME TypeOK
  PROVE  /\ putoff \in Nat /\ putoff <= MaxPutOff + 1
         /\ \A S \in SUBSET Slot : \A tab \in [S -> Entry] : Rewritten(tab) =>
              putoff' \in {0, putoff, putoff + 1} /\ (~ HookIdle => putoff' \in {0, putoff})
         /\ \A c \in Client, d \in Delays : Register(c, d) =>
              putoff' \in {0, putoff, putoff + 1} /\ (~ HookIdle => putoff' \in {0, putoff})
<1>1. putoff \in Nat /\ putoff <= MaxPutOff + 1
  BY TypeGroups, Waits
<1>2. ASSUME NEW S \in SUBSET Slot, NEW tab \in [S -> Entry], Rewritten(tab)
      PROVE  putoff' \in {0, putoff, putoff + 1} /\ (~ HookIdle => putoff' \in {0, putoff})
  BY <1>2, Rescheduled
<1>3. ASSUME NEW c \in Client, NEW d \in Delays, Register(c, d)
      PROVE  putoff' \in {0, putoff, putoff + 1} /\ (~ HookIdle => putoff' \in {0, putoff})
  <2>1. CASE UNCHANGED hwVars
    BY <1>1, <2>1 DEF hwVars
  <2>2. ASSUME NEW i \in Slot \ active, entry' \in [active \cup {i} -> Entry], Rewritten(entry')
        PROVE  putoff' \in {0, putoff, putoff + 1} /\ (~ HookIdle => putoff' \in {0, putoff})
    <3>1. active \cup {i} \in SUBSET Slot
      BY <2>2, TypeGroups DEF TableOK
    <3>2. QED
      BY <1>2, <2>2, <3>1
  <2>3. QED
    BY <1>3, <2>1, <2>2, Registered DEF NoReschedule
<1>4. QED
  BY <1>1, <1>2, <1>3

(* Every step keeps the bound on putoff: an expired timer stops it.          *)
LEMMA PutOffStep ==
  ASSUME TypeOK, Timing, Next
  PROVE  putoff' \in 0 .. MaxPutOff + 1
<1>1. putoff \in Nat /\ putoff <= MaxPutOff + 1 /\ MaxPutOff \in Nat
  BY PutOffBy, Waits
<1>2. ASSUME putoff' = putoff \/ putoff' = 0
      PROVE  putoff' \in 0 .. MaxPutOff + 1
  BY <1>1, <1>2
<1>3. ASSUME putoff <= MaxPutOff, putoff' \in {0, putoff, putoff + 1}
      PROVE  putoff' \in 0 .. MaxPutOff + 1
  BY <1>1, <1>3
<1>4. CASE CountUp
  BY <1>2, <1>4 DEF CountUp
<1>5. CASE HookEnter
  BY <1>2, <1>5 DEF HookEnter, h_timer_stop_compare
<1>6. CASE HookSkip \/ HookFire \/ CallbackReturns
  BY <1>2, <1>6 DEF HookSkip, HookFire, CallbackReturns, hwVars
<1>7. ASSUME NEW d \in Delays, CallbackRegisters(d)
      PROVE  putoff' = putoff \/ putoff' = 0
  <2>1. PICK c \in hook.calling : Register(c, d)
    BY <1>7 DEF CallbackRegisters
  <2>2. c \in Client /\ ~ HookIdle
    BY <2>1, HookEffect
  <2>3. QED
    BY <2>1, <2>2, PutOffBy
<1>8. CASE HookExit
  <2>1. ~ HookIdle /\ active \in SUBSET Slot /\ entry \in [active -> Entry]
    BY <1>8, HookEffect, SlotsAssumption, TypeGroups DEF HookExit, TableOK
  <2>2. CASE Rewritten(entry)
    BY <1>2, <2>1, <2>2, PutOffBy
  <2>3. CASE NoReschedule
    BY <1>2, <2>3 DEF NoReschedule, hwVars
  <2>4. QED
    BY <1>8, <2>2, <2>3 DEF HookExit, Rewritten
<1>9. ASSUME MayCall
      PROVE  putoff <= MaxPutOff
  <2>1. HookIdle /\ (Waiting(entry) => putoff < MaxPutOff)
    BY <1>9 DEF MayCall
  <2>2. putoff > MaxPutOff => Waiting(entry)
    BY <2>1 DEF Timing, Outside
  <2>3. QED
    BY <1>1, <2>1, <2>2
<1>10. ASSUME NEW c \in IsrClient, NEW d \in Delays, IsrRegister(c, d)
       PROVE  MayCall /\ putoff' \in {0, putoff, putoff + 1}
  BY <1>10, PutOffBy DEF IsrRegister, Client
<1>11. ASSUME NEW c \in IsrClient, IsrUnregister(c)
       PROVE  MayCall /\ putoff' \in {0, putoff, putoff + 1}
  <2>1. MayCall /\ entry' = Without(id[c]) /\ Rewritten(entry')
    BY <1>11 DEF IsrUnregister, Rewritten
  <2>2. entry' \in [active \ {id[c]} -> Entry] /\ active \ {id[c]} \in SUBSET Slot
    BY <2>1, Dropping
  <2>3. QED
    BY <2>1, <2>2, PutOffBy
<1>12. CASE TaskProgram
  <2>1. HookIdle /\ tpc = "program" /\ Program(tval, entry) /\ tval \in Tick \cup {Stop}
    BY <1>12, TypeGroups DEF TaskProgram, TaskRuns, TaskOK
  <2>2. putoff <= MaxPutOff
    BY <2>1 DEF Timing, Outside
  <2>3. putoff' \in {0, putoff, putoff + 1}
    BY <2>1, ProgramEffect
  <2>4. QED
    BY <1>3, <2>2, <2>3
<1>13. ASSUME NEW d \in Delays,
              TaskRegister(d) \/ TaskClaim \/ TaskUnregister \/ TaskDrop \/ TaskPlan \/ TaskReturn
       PROVE  putoff' = putoff
  BY <1>13 DEF TaskRegister, TaskClaim, TaskUnregister, TaskDrop, TaskPlan, TaskReturn, hwVars
<1>14. QED
  BY <1>2, <1>3, <1>4, <1>5, <1>6, <1>7, <1>8, <1>9, <1>10, <1>11, <1>12, <1>13, LongestDelay
  DEF Next, Hook, Task

-----------------------------------------------------------------------------
(***************************************************************************)
(* The task's steps.                                                       *)
(***************************************************************************)
LEMMA StandingStill ==
  ASSUME UNCHANGED <<now, cmp, flag, putoff>>
  PROVE  /\ CompareSet <=> CompareSet'
         /\ \A t \in Tick : Soon(t)' <=> Soon(t)
         /\ \A t \in Tick :
              /\ tticks' = tticks
              /\ tpc' \notin {"idle", "return"} => tpc \notin {"idle", "return"}
              /\ Served(t)
              => Served(t)'
<1>1. CompareSet <=> CompareSet'
  BY DEF CompareSet, Late, Soon
<1>2. Remaining' = Remaining /\ Allowed' = Allowed
  BY DEF Remaining, Allowed, Late
<1>3. \A t \in Tick : Late(t)' = Late(t) /\ (Soon(t)' <=> Soon(t))
  BY DEF Late, Soon
<1>4. ASSUME NEW t \in Tick, tticks' = tticks,
             tpc' \notin {"idle", "return"} => tpc \notin {"idle", "return"}, Served(t)
      PROVE  Served(t)'
  BY <1>2, <1>3, <1>4 DEF Served
<1>5. QED
  BY <1>1, <1>3, <1>4

(* The task's call begins: whatever waits may be put off once more.          *)
LEMMA CallBegins ==
  ASSUME TypeOK, TypeOK', Timing, MayCall, tpc = "idle", tpc' \in {"claim", "drop"},
         UNCHANGED <<hwVars, tableVars, hook>>
  PROVE  Timing'
<1>1. UNCHANGED <<now, cmp, flag, putoff, entry, next>> /\ HookIdle /\ HookIdle'
      /\ UNCHANGED <<Armings, find_earliest(entry)>>
  BY DEF hwVars, tableVars, MayCall, HookIdle, Armings, Deadlines, find_earliest
<1>2. putoff \in Nat /\ putoff <= MaxPutOff
  <2>1. putoff > MaxPutOff => Waiting(entry)
    BY <1>1 DEF Timing, Outside
  <2>2. Waiting(entry) => putoff < MaxPutOff
    BY DEF MayCall
  <2>3. QED
    BY <2>1, <2>2, PutOffBy, Waits
<1>3. ASSUME NEW t \in Armings
      PROVE  Served(t)'
  <2>1. t \in Tick /\ Served(t) /\ cmp # Stop
    BY <1>1, ArmingIs, OutsideArmed DEF ArmingFacts
  <2>2. (Late(t)' = Late(t)) /\ (Soon(t)' <=> Soon(t)) /\ Remaining' = Remaining /\ Allowed' = Allowed
    BY <1>1 DEF Late, Soon, Remaining, Allowed
  <2>3. Soon(t) \/ deadline_due(t, now)
    BY <1>1, OutsideArmed
  <2>4. Soon(t) \/ putoff < MaxPutOff
    BY <1>3, <2>3, ArmingIs DEF ArmingFacts, MayCall
  <2>5. cmp' # Stop /\ putoff' = putoff
    BY <1>1, <2>1
  <2>6. QED
    BY <2>1, <2>2, <2>4, <2>5 DEF Served
<1>4. Planned'
  BY <1>1 DEF Timing, Outside, Planned, Rescheduling
<1>5. CompareSet'
  BY <1>1, StandingStill DEF Timing
<1>6. ~ (putoff' > MaxPutOff) /\ putoff' <= MaxPutOff
  BY <1>1, <1>2, Waits
<1>7. QED
  BY <1>1, <1>3, <1>4, <1>5, <1>6 DEF Timing, Outside

(* The steps of the call that leave the hardware alone.                      *)
LEMMA CallGoesOn ==
  ASSUME TypeOK, TypeOK', Timing, HookIdle, UNCHANGED <<hwVars, hook, tticks>>,
         \A t \in Armings' : t \in Armings \/ Soon(t),
         tpc \notin {"idle", "return"} \/ (tpc = "return" /\ tpc' = "idle" /\ UNCHANGED entry),
         Planned'
  PROVE  Timing'
<1>1. UNCHANGED <<now, cmp, flag, putoff>> /\ HookIdle'
  BY DEF hwVars, HookIdle
<1>2. \A t \in Armings' : Served(t)'
  <2>1. ASSUME NEW t \in Armings'
        PROVE  Served(t)'
    <3>1. t \in Tick /\ (t \in Armings => Served(t))
      BY ArmingNext, OutsideArmed DEF ArmingFacts
    <3>2. Soon(t) => Served(t)
      BY DEF Served
    <3>3. QED
      BY <1>1, <3>1, <3>2, StandingStill
  <2>2. QED
    BY <2>1
<1>3. CompareSet'
  BY <1>1, StandingStill DEF Timing
<1>4. /\ putoff' > MaxPutOff => Waiting(entry)'
      /\ tpc' \notin {"idle", "return"} => putoff' <= MaxPutOff
  <2>1. CASE tpc \notin {"idle", "return"}
    <3>1. putoff <= MaxPutOff /\ putoff \in Nat
      BY <2>1, PutOffBy DEF Timing, Outside
    <3>2. putoff' <= MaxPutOff /\ ~ (putoff' > MaxPutOff)
      BY <1>1, <3>1, Waits
    <3>3. QED
      BY <3>2
  <2>2. CASE tpc = "return" /\ tpc' = "idle" /\ UNCHANGED entry
    BY <1>1, <2>2 DEF Timing, Outside, Waiting
  <2>3. QED
    BY <2>1, <2>2
<1>5. QED
  BY <1>1, <1>2, <1>3, <1>4 DEF Timing, Outside

(* The task fills its slot.                                                  *)
LEMMA ClaimTiming ==
  ASSUME TypeOK, TypeOK', Matched, Timing, TaskClaim
  PROVE  Timing'
<1>1. /\ HookIdle /\ tpc = "claim" /\ UNCHANGED <<hwVars, next, hook, tticks>>
      /\ tpc' = IF ReplacesEarliest((now + tdelay) % TickMod) THEN "plan" ELSE "return"
      /\ tslot \in Slot \ active /\ tdelay \in Delays /\ now \in Tick
      /\ entry' = With(tslot, now + tdelay, TaskClient)
  BY TypeGroups DEF TaskClaim, TaskRuns, Matched, Hardware
<1>2. PICK i \in Slot \ active, dl \in Tick :
        /\ i = tslot /\ dl = (now + tdelay) % TickMod /\ Soon(dl)
  <2>1. tdelay \in 1 .. Longest
    BY <1>1, LongestDelay
  <2>2. QED
    BY <1>1, <2>1, Fresh
<1>3. /\ active' = active \cup {i} /\ entry'[i].deadline = dl
      /\ \A j \in active : entry'[j] = entry[j]
  BY <1>1, <1>2 DEF With, active
<1>4. /\ Armings \subseteq Armings' /\ (\A t \in Armings' : t \in Armings \/ t = dl)
      /\ (dl # NoDeadline => dl \in Armings')
  BY <1>3, ArmingsAdded
<1>5. Planned'
  <2>1. CASE tpc' = "plan"
    BY <2>1 DEF Planned, Rescheduling
  <2>2. CASE tpc' = "return"
    <3>1. next # NoDeadline /\ ~ (dl < next)
      BY <1>1, <1>2, <2>2 DEF ReplacesEarliest
    <3>2. next = find_earliest(entry)
      BY <1>1 DEF Timing, Outside, Planned
    <3>3. next \in Armings /\ (\A t \in Armings : next <= t) /\ next \in Nat /\ dl \in Nat
      BY <3>1, <3>2, ArmingIs, Halves DEF ArmingFacts, Tick
    <3>4. next' \in Armings' /\ \A t \in Armings' : next' <= t
      BY <1>1, <1>4, <3>1, <3>3
    <3>5. find_earliest(entry)' = next'
      BY <3>4, ArmingNext DEF ArmingFacts
    <3>6. /\ cmp = Stop <=> next = NoDeadline
          /\ cmp # Stop => cmp = next \/ deadline_due(next, now)
      BY <1>1 DEF Timing, Outside, Planned, Rescheduling
    <3>7. UNCHANGED <<cmp, next, now>>
      BY <1>1 DEF hwVars
    <3>8. QED
      BY <2>2, <3>5, <3>6, <3>7 DEF Planned, Rescheduling
  <2>3. QED
    BY <1>1, <2>1, <2>2
<1>6. QED
  BY <1>1, <1>2, <1>4, <1>5, CallGoesOn

(* The task frees its slot.                                                  *)
LEMMA DropTiming ==
  ASSUME TypeOK, TypeOK', Timing, TaskDrop
  PROVE  Timing'
<1>1. /\ HookIdle /\ tpc = "drop" /\ tpc' = "plan" /\ UNCHANGED <<hwVars, hook, tticks>>
      /\ entry' = Without(tslot)
  BY DEF TaskDrop, TaskRuns
<1>2. Armings' \subseteq Armings
  BY <1>1, Dropping, ArmingsDropped
<1>3. Planned'
  BY <1>1 DEF Planned, Rescheduling
<1>4. QED
  BY <1>1, <1>2, <1>3, CallGoesOn

(* The task computes the earliest deadline.                                  *)
LEMMA PlanTiming ==
  ASSUME TypeOK, TypeOK', Timing, TaskPlan
  PROVE  Timing'
<1>1. /\ HookIdle /\ tpc = "plan" /\ tpc' = "program" /\ UNCHANGED <<hwVars, entry, hook, tticks>>
      /\ next' = find_earliest(entry) /\ tval' = CompareFor(next', now)
  BY DEF TaskPlan, TaskRuns
<1>2. UNCHANGED <<now, Armings, find_earliest(entry)>>
  BY <1>1 DEF hwVars, Armings, Deadlines, find_earliest
<1>3. PICK e \in Tick : e = next'
  BY TypeGroups DEF TableOK
<1>4. /\ tval' = Stop <=> e = NoDeadline
      /\ e # NoDeadline => tval' = e \/ deadline_due(e, now)
      /\ e # NoDeadline /\ (deadline_due(e, now) \/ Soon(e)) => Soon(tval')
  BY <1>1, <1>3, CompareIs, TypeGroups DEF Hardware
<1>5. e # NoDeadline => Soon(tval')
  <2>1. e # NoDeadline => e \in Armings
    BY <1>1, <1>3, ArmingIs DEF ArmingFacts
  <2>2. QED
    BY <1>1, <1>4, <2>1, OutsideArmed
<1>6. Soon(tval') => Soon(tval)'
  BY <1>2 DEF Soon
<1>7. Planned'
  BY <1>1, <1>2, <1>3, <1>4, <1>5, <1>6 DEF Planned, Rescheduling
<1>8. QED
  BY <1>1, <1>2, <1>7, CallGoesOn

(* The call returns.                                                         *)
LEMMA ReturnTiming ==
  ASSUME TypeOK, TypeOK', Timing, TaskReturn
  PROVE  Timing'
<1>1. /\ HookIdle /\ tpc = "return" /\ tpc' = "idle" /\ UNCHANGED <<hwVars, tableVars, hook, tticks>>
  BY DEF TaskReturn, TaskRuns
<1>2. UNCHANGED <<now, cmp, entry, next, Armings, find_earliest(entry)>>
  BY <1>1 DEF hwVars, tableVars, Armings, Deadlines, find_earliest
<1>3. Planned'
  BY <1>1, <1>2 DEF Timing, Outside, Planned, Rescheduling
<1>4. QED
  BY <1>1, <1>2, <1>3, CallGoesOn

(* The task programs what it decided on: the counter has not passed it.      *)
LEMMA ProgramTiming ==
  ASSUME TypeOK, TypeOK', Timing, TaskProgram, ~ overtaken'
  PROVE  Timing'
<1>1. /\ HookIdle /\ tpc = "program" /\ tpc' = "return" /\ UNCHANGED <<tableVars, hook, tticks>>
      /\ Program(tval, entry) /\ ~ (tval # Stop /\ deadline_due(tval, now))
  BY DEF TaskProgram, TaskRuns, Passed
<1>2. /\ now \in Tick /\ tval \in Tick \cup {Stop} /\ tticks \in Nat /\ tticks <= MaxStall
      /\ Stop \notin Tick
  BY TypeGroups, Waits, Halves DEF Hardware, TaskOK, Stop, Tick
<1>3. /\ now' = now /\ cmp' = tval /\ ~ flag'
      /\ tval = Stop => putoff' = 0
      /\ tval # Stop => putoff' = IF Waiting(entry) THEN putoff + 1 ELSE putoff
  BY <1>1, <1>2, ProgramEffect
<1>4. /\ UNCHANGED <<now, entry, next, tticks, Armings, find_earliest(entry)>> /\ HookIdle'
      /\ (Waiting(entry)' <=> Waiting(entry))
  BY <1>1, <1>3 DEF tableVars, Armings, Deadlines, find_earliest, Waiting, HookIdle
<1>5. /\ next = find_earliest(entry) /\ (tval = Stop <=> next = NoDeadline)
      /\ tval # Stop => tval = next \/ deadline_due(next, now)
      /\ tval # Stop => Soon(tval) \/ Late(tval) <= tticks
      /\ putoff \in Nat /\ putoff <= MaxPutOff
  BY <1>1, PutOffBy DEF Timing, Outside, Planned, Rescheduling
<1>6. tval # Stop => Soon(tval)
  <2>1. ASSUME tval # Stop, Late(tval) <= tticks
        PROVE  FALSE
    <3>1. tval \in Tick
      BY <1>2, <2>1
    <3>2. Late(tval) \in Nat /\ ~ (Late(tval) < Half)
      BY <1>1, <1>2, <2>1, <3>1, SoonOrDue
    <3>3. QED
      BY <1>2, <2>1, <3>2, Scales
  <2>2. QED
    BY <1>5, <2>1
<1>7. CompareSet' /\ (cmp' # Stop => Soon(cmp)')
  BY <1>3, <1>6 DEF CompareSet, Soon
<1>8. Planned'
  BY <1>1, <1>3, <1>4, <1>5 DEF Planned, Rescheduling
<1>9. ASSUME NEW t \in Armings'
      PROVE  Served(t)'
  <2>1. t \in Armings /\ t \in Tick /\ tval # Stop
    BY <1>4, <1>5, <1>9, ArmingIs DEF ArmingFacts
  <2>2. (Soon(t) <=> Soon(t)') /\ Late(t)' = Late(t) /\ Late(t) \in Nat
    BY <1>2, <1>3, <2>1, SoonOrDue DEF Soon, Late
  <2>3. CASE Soon(t)
    BY <2>2, <2>3 DEF Served
  <2>4. ASSUME ~ Soon(t)
        PROVE  Served(t)'
    <3>1. deadline_due(t, now) /\ Served(t)
      BY <1>1, <2>1, <2>4, OutsideArmed
    <3>2. putoff' = putoff + 1
      BY <1>3, <2>1, <3>1, ArmingIs DEF ArmingFacts
    <3>3. Remaining' \in Nat /\ Remaining' <= MaxLate + Longest
      <4>1. Remaining' = Ahead(tval, now) + MaxLate
        BY <1>3 DEF Remaining
      <4>2. Ahead(tval, now) \in Nat /\ Ahead(tval, now) <= Longest
        BY <1>2, <1>6, <2>1, SoonOrDue
      <4>3. QED
        BY <4>1, <4>2, Scales
    <3>4. Allowed \in Nat /\ MaxStall + MaxLate + 1 + (MaxLate + Longest) <= Allowed
      BY <1>5, Allowance
    <3>5. Allowed' \in Nat /\ MaxStall + MaxLate + 1 + (MaxLate + Longest) <= Allowed'
      <4>1. putoff' \in Nat
        BY <1>5, <3>2
      <4>2. putoff \in Nat => Allowed \in Nat /\ MaxStall + MaxLate + 1 + (MaxLate + Longest) <= Allowed
        BY Allowance
      <4>3. Allowed' = Patience(IF putoff' <= MaxPutOff THEN putoff' ELSE MaxPutOff)
        BY DEF Allowed
      <4>4. \A k \in Nat : Patience(k) \in Nat /\ MaxStall + MaxLate + 1 + (MaxLate + Longest) <= Patience(k)
        BY Patient
      <4>5. QED
        BY <4>1, <4>3, <4>4, Waits
    <3>6. (putoff < MaxPutOff \/ Late(t) <= tticks) /\ (cmp # Stop => Late(t) + Remaining <= Allowed)
          /\ (cmp = Stop => Late(t) <= tticks)
      BY <1>1, <2>4, <3>1 DEF Served
    <3>7. ASSUME putoff < MaxPutOff
          PROVE  Late(t) + Remaining' <= Allowed'
      <4>1. Allowed' = Allowed + (MaxLate + Longest)
        <5>1. Patience(putoff + 1) = Allowed + (MaxLate + Longest)
          BY <1>5, <3>7, Allowance
        <5>2. putoff + 1 <= MaxPutOff
          BY <1>5, <3>7, Waits
        <5>3. QED
          BY <3>2, <5>1, <5>2 DEF Allowed
      <4>2. Late(t) <= Allowed
        <5>1. cmp # Stop => Remaining \in Nat
          BY Away DEF Timing
        <5>2. QED
          BY <1>2, <2>2, <3>4, <3>6, <5>1, Scales
      <4>3. QED
        BY <2>2, <3>3, <3>4, <4>1, <4>2, Scales
    <3>8. ASSUME Late(t) <= tticks
          PROVE  Late(t) + Remaining' <= Allowed'
      BY <1>2, <2>2, <3>3, <3>5, <3>8, Scales
    <3>9. Late(t) + Remaining' <= Allowed'
      BY <3>6, <3>7, <3>8
    <3>10. cmp' # Stop /\ tpc' = "return"
      BY <1>1, <1>3, <2>1
    <3>11. (Late(t) + Remaining <= Allowed)'
      BY <2>2, <3>9
    <3>12. QED
      BY <3>10, <3>11 DEF Served
  <2>5. QED
    BY <2>3, <2>4
<1>10. putoff' > MaxPutOff => Waiting(entry)'
  <2>1. ~ Waiting(entry) => putoff' <= MaxPutOff /\ putoff' \in Nat
    BY <1>3, <1>5, Waits
  <2>2. QED
    BY <1>4, <2>1, Waits
<1>11. QED
  BY <1>1, <1>4, <1>7, <1>8, <1>9, <1>10 DEF Timing, Outside

-----------------------------------------------------------------------------
(***************************************************************************)
(* Rescheduling without interruption: what it programs.                    *)
(***************************************************************************)
LEMMA Moved ==
  ASSUME TypeOK, TypeOK', Rewritten(entry'), ~ overtaken',
         \A t \in Armings' : Soon(t) \/ deadline_due(t, now)
  PROVE  /\ now' = now /\ ~ flag' /\ next' = find_earliest(entry)'
         /\ cmp' = Stop <=> next' = NoDeadline
         /\ cmp' = Stop <=> Armings' = {}
         /\ cmp' = Stop => putoff' = 0
         /\ CompareSet'
         /\ cmp' # Stop =>
              /\ next' \in Armings' /\ Soon(cmp')
              /\ cmp' = next' \/ deadline_due(next', now)
              /\ deadline_due(next', now) => Remaining' = 1 + MaxLate
              /\ ~ deadline_due(next', now) => cmp' = next'
              /\ Remaining' = Ahead(cmp', now) + MaxLate
              /\ Remaining' \in Nat /\ Remaining' <= MaxLate + Longest
              /\ putoff' = IF Waiting(entry') /\ HookIdle THEN putoff + 1 ELSE putoff
<1>1. PICK S \in SUBSET Slot : entry' \in [S -> Entry]
  BY TypeGroups DEF TableOK
<1>2. PICK e \in Tick : e = next'
  BY TypeGroups DEF TableOK
<1>3. /\ now' = now /\ ~ flag' /\ next' = find_earliest(entry') /\ cmp' = CompareFor(e, now)
      /\ cmp' = Stop <=> next' = NoDeadline
      /\ cmp' = Stop => putoff' = 0
      /\ cmp' # Stop => putoff' = IF Waiting(entry') /\ HookIdle THEN putoff + 1 ELSE putoff
  BY <1>1, <1>2, Rescheduled
<1>4. find_earliest(entry)' = find_earliest(entry')
  BY DEF find_earliest
<1>5. /\ next' = NoDeadline <=> Armings' = {}
      /\ next' # NoDeadline => next' \in Armings'
  BY <1>3, <1>4, ArmingNext DEF ArmingFacts
<1>6. now \in Tick
  BY TypeGroups DEF Hardware
<1>7. cmp' # Stop =>
        /\ Soon(cmp') /\ (cmp' = next' \/ deadline_due(next', now))
        /\ deadline_due(next', now) => Ahead(cmp', now) = 1
        /\ ~ deadline_due(next', now) => cmp' = next'
  BY <1>2, <1>3, <1>5, <1>6, CompareIs
<1>8. Remaining' = Ahead(cmp', now) + MaxLate
  BY <1>3 DEF Remaining
<1>9. cmp' # Stop => Ahead(cmp', now) \in Nat /\ Ahead(cmp', now) <= Longest
  <2>1. cmp' \in Tick \cup {Stop}
    BY TypeGroups DEF Hardware
  <2>2. QED
    BY <1>6, <1>7, <2>1, SoonOrDue
<1>10. CompareSet'
  <2>1. cmp' # Stop => Soon(cmp)'
    BY <1>3, <1>7 DEF Soon
  <2>2. QED
    BY <1>3, <2>1 DEF CompareSet
<1>11. cmp' # Stop => Remaining' \in Nat /\ Remaining' <= MaxLate + Longest
                      /\ (deadline_due(next', now) => Remaining' = 1 + MaxLate)
  <2>1. ASSUME cmp' # Stop
        PROVE  /\ Remaining' \in Nat /\ Remaining' <= MaxLate + Longest
               /\ Ahead(cmp', now) = 1 => Remaining' = 1 + MaxLate
    BY <1>8, <1>9, <2>1, Scales
  <2>2. QED
    BY <1>7, <2>1
<1>12. QED
  BY <1>3, <1>4, <1>5, <1>7, <1>8, <1>10, <1>11

(* A call of another interrupt handler that moves the compare register: an   *)
(* expired timer waits longer, and the call is counted.                      *)
LEMMA PutOffTiming ==
  ASSUME TypeOK, TypeOK', Timing, MayCall, tpc = "idle", UNCHANGED <<hook, tpc>>,
         ~ overtaken', Rewritten(entry'), \A t \in Armings' : t \in Armings \/ Soon(t)
  PROVE  Timing'
<1>1. HookIdle /\ HookIdle' /\ now \in Tick /\ putoff \in Nat /\ putoff <= MaxPutOff
  <2>1. HookIdle /\ HookIdle' /\ now \in Tick
    BY TypeGroups DEF MayCall, HookIdle, Hardware
  <2>2. putoff > MaxPutOff => Waiting(entry)
    BY <2>1 DEF Timing, Outside
  <2>3. Waiting(entry) => putoff < MaxPutOff
    BY DEF MayCall
  <2>4. QED
    BY <2>1, <2>2, <2>3, PutOffBy, Waits
<1>2. \A t \in Armings' : Soon(t) \/ deadline_due(t, now)
  BY <1>1, OutsideArmed
<1>3. /\ now' = now /\ ~ flag' /\ next' = find_earliest(entry)'
      /\ cmp' = Stop <=> next' = NoDeadline
      /\ cmp' = Stop <=> Armings' = {}
      /\ cmp' = Stop => putoff' = 0
      /\ CompareSet'
      /\ cmp' # Stop =>
           /\ cmp' = next' \/ deadline_due(next', now)
           /\ Remaining' \in Nat /\ Remaining' <= MaxLate + Longest
           /\ putoff' = IF Waiting(entry') /\ HookIdle THEN putoff + 1 ELSE putoff
  BY <1>2, Moved
<1>4. Waiting(entry)' <=> Waiting(entry')
  BY <1>3 DEF Waiting
<1>5. Planned'
  BY <1>3 DEF Planned, Rescheduling
<1>6. putoff' > MaxPutOff => Waiting(entry)'
  <2>1. ~ Waiting(entry') => putoff' <= MaxPutOff /\ putoff' \in Nat
    BY <1>1, <1>3, Waits
  <2>2. QED
    BY <1>4, <2>1, Waits
<1>7. ASSUME NEW t \in Armings'
      PROVE  Served(t)'
  <2>1. t \in Tick /\ cmp' # Stop
    BY <1>3, ArmingNext DEF ArmingFacts
  <2>2. (Soon(t) <=> Soon(t)') /\ Late(t)' = Late(t) /\ Late(t) \in Nat
    BY <1>1, <1>3, <2>1, SoonOrDue DEF Soon, Late
  <2>3. CASE Soon(t)
    BY <2>2, <2>3 DEF Served
  <2>4. ASSUME ~ Soon(t)
        PROVE  Served(t)'
    <3>1. t \in Armings /\ deadline_due(t, now) /\ Served(t) /\ cmp # Stop
      BY <1>1, <1>7, <2>4, OutsideArmed
    <3>2. putoff < MaxPutOff /\ putoff' = putoff + 1
      <4>1. Waiting(entry)
        BY <3>1, ArmingIs DEF ArmingFacts
      <4>2. Waiting(entry)'
        BY <1>3, <1>7, <3>1, ArmingNext DEF ArmingFacts
      <4>3. QED
        BY <1>1, <1>3, <1>4, <2>1, <4>1, <4>2 DEF MayCall
    <3>3. Allowed' = Allowed + (MaxLate + Longest) /\ Allowed \in Nat
      <4>1. Patience(putoff + 1) = Allowed + (MaxLate + Longest) /\ Allowed \in Nat
        BY <1>1, <3>2, Allowance
      <4>2. putoff + 1 <= MaxPutOff
        BY <1>1, <3>2, Waits
      <4>3. QED
        BY <3>2, <4>1, <4>2 DEF Allowed
    <3>4. Late(t) + Remaining <= Allowed /\ Remaining \in Nat
      BY <2>4, <3>1, Away DEF Served, Timing
    <3>5. Late(t) + Remaining' <= Allowed'
      BY <1>3, <2>1, <2>2, <3>3, <3>4, Scales
    <3>6. (Late(t) + Remaining <= Allowed)'
      BY <2>2, <3>5
    <3>7. QED
      BY <2>1, <3>6 DEF Served
  <2>5. QED
    BY <2>3, <2>4
<1>8. QED
  BY <1>1, <1>3, <1>5, <1>6, <1>7 DEF Timing, Outside

(* A timer further away than the earliest moves nothing.                     *)
LEMMA LaterTimer ==
  ASSUME TypeOK, TypeOK', Timing, HookIdle, tpc = "idle", UNCHANGED <<hook, tpc, tticks, hwVars, next>>,
         Armings \subseteq Armings', \A t \in Armings' : t \in Armings \/ (Soon(t) /\ next <= t),
         next # NoDeadline
  PROVE  Timing'
<1>1. UNCHANGED <<now, cmp, flag, putoff>> /\ HookIdle'
  BY DEF hwVars, HookIdle
<1>2. next = find_earliest(entry)
  BY DEF Timing, Outside, Planned
<1>3. find_earliest(entry)' = next'
  <2>1. next \in Armings /\ \A t \in Armings : next <= t
    BY <1>2, ArmingIs DEF ArmingFacts
  <2>2. next' \in Armings' /\ \A t \in Armings' : next' <= t
    BY <2>1
  <2>3. QED
    BY <2>2, ArmingNext DEF ArmingFacts
<1>4. Planned'
  BY <1>1, <1>2, <1>3 DEF Timing, Outside, Planned, Rescheduling
<1>5. ASSUME NEW t \in Armings'
      PROVE  Served(t)'
  <2>1. t \in Tick /\ (t \in Armings => Served(t))
    BY ArmingNext, OutsideArmed DEF ArmingFacts
  <2>2. Soon(t) => Served(t)
    BY DEF Served
  <2>3. QED
    BY <1>1, <1>5, <2>1, <2>2, StandingStill
<1>6. CompareSet'
  BY <1>1, StandingStill DEF Timing
<1>7. putoff' > MaxPutOff => Waiting(entry)'
  <2>1. ASSUME Waiting(entry)
        PROVE  Waiting(entry)'
    <3>1. PICK t \in Armings : deadline_due(t, now)
      BY <2>1, ArmingIs DEF ArmingFacts
    <3>2. t \in Armings' /\ deadline_due(t, now')
      BY <1>1, <3>1
    <3>3. QED
      BY <3>2, ArmingNext DEF ArmingFacts
  <2>2. putoff > MaxPutOff => Waiting(entry)
    BY DEF Timing, Outside
  <2>3. QED
    BY <1>1, <2>1, <2>2
<1>8. QED
  BY <1>1, <1>4, <1>5, <1>6, <1>7 DEF Timing, Outside

(* A call of another interrupt handler, arming or dropping a timer.          *)
LEMMA IsrTiming ==
  ASSUME TypeOK, TypeOK', Timing, ~ overtaken',
         NEW c \in IsrClient, NEW d \in Delays, IsrRegister(c, d) \/ IsrUnregister(c)
  PROVE  Timing'
<1>1. MayCall /\ HookIdle /\ tpc = "idle" /\ UNCHANGED <<hook, tpc, tticks>> /\ c \in Client
      /\ now \in Tick
  BY TypeGroups, Undisturbed
  DEF IsrRegister, IsrUnregister, MayCall, taskVars, Client, Hardware, Rewritten
<1>2. CASE IsrUnregister(c)
  <2>1. entry' = Without(id[c]) /\ Rewritten(entry')
    BY <1>2 DEF IsrUnregister, Rewritten
  <2>2. Armings' \subseteq Armings
    BY <2>1, Dropping, ArmingsDropped
  <2>3. QED
    BY <1>1, <2>1, <2>2, PutOffTiming
<1>3. CASE IsrRegister(c, d)
  <2>1. Register(c, d)
    BY <1>3 DEF IsrRegister
  <2>2. CASE UNCHANGED <<hwVars, tableVars, id>>
    <3>1. UNCHANGED <<now, cmp, flag, putoff, entry, next, hook, tpc, tticks>>
      BY <1>1, <2>2 DEF hwVars, tableVars
    <3>2. UNCHANGED <<CompareSet, HookIdle, Planned>>
      BY <1>1, <3>1 DEF CompareSet, HookIdle, Planned, Rescheduling, Late, Soon, find_earliest
    <3>3. \A t \in Armings' : Served(t)'
      BY <1>1, <3>1, ArmingIs, OutsideArmed, StandingStill DEF ArmingFacts, Armings, Deadlines
    <3>4. Waiting(entry)' <=> Waiting(entry)
      BY <3>1 DEF Waiting
    <3>5. QED
      BY <1>1, <3>1, <3>2, <3>3, <3>4 DEF Timing, Outside
  <2>3. ASSUME NEW i \in Slot \ active, NEW s \in 1 .. Longest,
               active' = active \cup {i}, entry'[i].deadline = (now + s) % TickMod,
               \A j \in active : entry'[j] = entry[j],
               IF ReplacesEarliest((now + s) % TickMod) THEN Rewritten(entry') ELSE NoReschedule
        PROVE  Timing'
    <3>1. PICK dl \in Tick : dl = (now + s) % TickMod /\ Soon(dl)
      BY <1>1, Fresh
    <3>2. Armings \subseteq Armings' /\ \A t \in Armings' : t \in Armings \/ t = dl
      BY <2>3, <3>1, ArmingsAdded
    <3>3. CASE ReplacesEarliest(dl)
      BY <1>1, <2>3, <3>1, <3>2, <3>3, PutOffTiming
    <3>4. CASE ~ ReplacesEarliest(dl)
      <4>1. next # NoDeadline /\ next <= dl
        <5>1. next \in Nat /\ dl \in Nat
          BY TypeGroups, Halves DEF TableOK, Tick
        <5>2. QED
          BY <3>4, <5>1 DEF ReplacesEarliest
      <4>2. UNCHANGED <<hwVars, next>>
        BY <2>3, <3>1, <3>4 DEF NoReschedule
      <4>3. QED
        BY <1>1, <3>1, <3>2, <4>1, <4>2, LaterTimer
    <3>5. QED
      BY <3>3, <3>4
  <2>4. QED
    BY <1>1, <2>1, <2>2, <2>3, Registered
<1>4. QED
  BY <1>2, <1>3

-----------------------------------------------------------------------------
(***************************************************************************)
(* A tick passes.                                                          *)
(***************************************************************************)
LEMMA Ticks ==
  ASSUME TypeOK, TypeOK', CountUp, NEW t \in Tick
  PROVE  /\ Late(t) \in Nat /\ Late(t)' \in Nat
         /\ Soon(t) => \/ Soon(t)' /\ Ahead(t, now)' = Ahead(t, now) - 1 /\ t # now'
                       \/ Late(t)' = 0 /\ Ahead(t, now) = 1 /\ t = now'
         /\ Late(t) < Half => Late(t)' = Late(t) + 1
         /\ Late(t)' <= Half => ~ Soon(t)'
<1>1. now \in Tick /\ now' \in Tick /\ now' = (now + 1) % TickMod
  BY CountTypes, TypeGroups DEF Hardware
<1>2. PICK n \in Tick, m \in Tick : n = now /\ m = now' /\ m = (n + 1) % TickMod
  BY <1>1
<1>3. /\ Ahead(t, n) > 0 => Ahead(t, m) = Ahead(t, n) - 1
      /\ Ahead(n, t) < Half => Ahead(m, t) = Ahead(n, t) + 1
      /\ t = m <=> Ahead(t, n) = 1
      /\ Ahead(m, m) = 0
  BY <1>2, TickPasses
<1>4. /\ Ahead(t, n) \in Nat /\ Ahead(n, t) \in Nat /\ Ahead(t, m) \in Nat /\ Ahead(m, t) \in Nat
      /\ t # m => Ahead(m, t) = TickMod - Ahead(t, m)
      /\ Ahead(t, m) = 0 <=> t = m
  BY AheadIs, BothWays
<1>5. /\ Late(t) = Ahead(n, t) /\ Late(t)' = Ahead(m, t)
      /\ Ahead(t, now) = Ahead(t, n) /\ Ahead(t, now)' = Ahead(t, m)
  BY <1>2 DEF Late, Ahead
<1>6. (Soon(t) <=> Ahead(t, n) \in 1 .. Longest) /\ (Soon(t)' <=> Ahead(t, m) \in 1 .. Longest)
  BY <1>2 DEF Soon
<1>7. ASSUME Ahead(t, n) \in 1 .. Longest
      PROVE  \/ Ahead(t, m) \in 1 .. Longest /\ Ahead(t, m) = Ahead(t, n) - 1 /\ t # m
             \/ Ahead(m, t) = 0 /\ Ahead(t, n) = 1 /\ t = m
  BY <1>3, <1>4, <1>7, Scales
<1>8. ASSUME Ahead(m, t) <= Half
      PROVE  ~ (Ahead(t, m) \in 1 .. Longest)
  BY <1>4, <1>8, Scales
<1>9. QED
  BY <1>2, <1>3, <1>4, <1>5, <1>6, <1>7, <1>8

(* The compare register comes nearer, or its interrupt gets later.           *)
LEMMA CompareTicks ==
  ASSUME TypeOK, TypeOK', CompareSet, CountUp
  PROVE  /\ CompareSet' /\ cmp' = cmp
         /\ cmp # Stop => /\ Remaining' = Remaining - 1
                          /\ flag => Late(cmp)' = Late(cmp) + 1
                          /\ ~ flag /\ flag' => Late(cmp)' = 0 /\ Ahead(cmp, now) = 1
                          /\ ~ flag' => Ahead(cmp, now)' = Ahead(cmp, now) - 1
<1>1. /\ cmp' = cmp /\ (flag' <=> flag \/ now' = cmp) /\ (flag => Late(cmp) < MaxLate)
      /\ now' \in Tick /\ cmp \in Tick \cup {Stop} /\ now \in Tick /\ (flag => cmp # Stop)
      /\ flag \in BOOLEAN
  BY TypeGroups DEF CountUp, Late, Hardware
<1>2. CASE cmp = Stop
  BY <1>1, <1>2, Halves DEF CompareSet, Stop, Tick
<1>3. ASSUME cmp # Stop, flag
      PROVE  Late(cmp)' = Late(cmp) + 1 /\ Late(cmp)' <= MaxLate /\ Remaining' = Remaining - 1
  <2>1. PICK t \in Tick : t = cmp
    BY <1>1, <1>3
  <2>2. Late(t) < MaxLate /\ Late(t) \in Nat
    BY <1>1, <1>3, <2>1, Ticks
  <2>3. Late(t) < Half
    BY <2>2, Scales
  <2>4. Late(t)' = Late(t) + 1
    BY <2>3, Ticks
  <2>5. Late(cmp)' = Late(t)' /\ Late(cmp) = Late(t)
    BY <1>1, <2>1 DEF Late
  <2>6. Remaining' = MaxLate - Late(cmp)' /\ Remaining = MaxLate - Late(cmp)
    BY <1>1, <1>3 DEF Remaining
  <2>7. QED
    BY <2>2, <2>4, <2>5, <2>6, Scales
<1>4. ASSUME cmp # Stop, ~ flag
      PROVE  /\ flag' => Late(cmp)' = 0 /\ Ahead(cmp, now) = 1
             /\ ~ flag' => Ahead(cmp, now)' = Ahead(cmp, now) - 1 /\ Soon(cmp)'
             /\ Remaining' = Remaining - 1
  <2>1. PICK t \in Tick : t = cmp
    BY <1>1, <1>4
  <2>2. Soon(t)
    BY <1>4, <2>1 DEF CompareSet
  <2>3. \/ Soon(t)' /\ Ahead(t, now)' = Ahead(t, now) - 1 /\ ~ flag'
        \/ Late(t)' = 0 /\ Ahead(t, now) = 1 /\ flag'
    BY <1>1, <1>4, <2>1, <2>2, Ticks
  <2>4. /\ Late(cmp)' = Late(t)' /\ Ahead(cmp, now) = Ahead(t, now) /\ Ahead(cmp, now)' = Ahead(t, now)'
        /\ Soon(cmp)' <=> Soon(t)'
    BY <1>1, <2>1 DEF Late, Ahead, Soon
  <2>5. Remaining = Ahead(cmp, now) + MaxLate /\ Ahead(cmp, now) \in Nat
    BY <1>4, <2>1, <1>1, AheadIs DEF Remaining
  <2>6. Remaining' = IF flag' THEN MaxLate - Late(cmp)' ELSE Ahead(cmp, now)' + MaxLate
    BY DEF Remaining
  <2>7. CASE ~ flag'
    BY <2>3, <2>4, <2>5, <2>6, <2>7, Scales
  <2>8. CASE flag'
    BY <2>3, <2>4, <2>5, <2>6, <2>8, Scales
  <2>9. QED
    BY <2>7, <2>8
<1>5. ASSUME cmp # Stop
      PROVE  CompareSet'
  <2>1. CASE flag
    BY <1>1, <1>3, <1>5, <2>1 DEF CompareSet
  <2>2. CASE ~ flag
    <3>1. flag' => Late(cmp)' <= MaxLate
      BY <1>4, <1>5, <2>2, Scales
    <3>2. ~ flag' => Soon(cmp)'
      BY <1>4, <1>5, <2>2
    <3>3. QED
      BY <3>1, <3>2 DEF CompareSet
  <2>3. QED
    BY <2>1, <2>2, <1>1
<1>6. QED
  BY <1>1, <1>2, <1>3, <1>4, <1>5

DueIfServed == \A t \in Tick : Served(t) => Soon(t) \/ deadline_due(t, now)

(* A timer that is served is soon or due, in a state with types.             *)
LEMMA ServedAll == TypeOK /\ CompareSet => DueIfServed
  BY ServedIs DEF DueIfServed

(* And in the state after a step.                                            *)
LEMMA ServedNext == TypeOK' /\ CompareSet' => DueIfServed'
  BY ServedAll, PTL

(* A tick outside the hook.                                                  *)
LEMMA TickOutside ==
  ASSUME TypeOK, TypeOK', Timing, HookIdle, CountUp
  PROVE  Timing'
<1>1. /\ UNCHANGED <<cmp, putoff, entry, next, hook, tpc, tval, Armings, find_earliest(entry)>>
      /\ HookIdle' /\ (tpc # "idle" => tticks' = tticks + 1) /\ tticks' \in Nat /\ tticks \in Nat
      /\ tticks <= MaxStall
  <2>1. tticks \in Nat /\ tticks' \in Nat /\ tticks <= MaxStall
    BY TypeGroups, Waits DEF TaskOK
  <2>2. QED
    BY <2>1 DEF CountUp, tableVars, HookIdle, Armings, Deadlines, find_earliest
<1>2. CompareSet /\ Planned /\ Armings \subseteq Tick /\ Allowed' = Allowed /\ putoff \in Nat
  BY <1>1, ArmingIs, PutOffBy DEF Timing, Outside, ArmingFacts, Allowed
<1>3. CompareSet' /\ (cmp # Stop => Remaining' = Remaining - 1 /\ Remaining \in Nat)
  BY <1>2, CompareTicks, Away
<1>4. ASSUME NEW t \in Armings
      PROVE  Served(t)' /\ (~ Soon(t) => ~ Soon(t)')
  <2>1. t \in Tick /\ Served(t) /\ (Soon(t) \/ (deadline_due(t, now) /\ Late(t) + Longest <= Half))
    BY <1>2, OutsideArmed
  <2>2. /\ Late(t) \in Nat /\ Late(t)' \in Nat
        /\ Soon(t) => Soon(t)' \/ Late(t)' = 0
        /\ Late(t) < Half => Late(t)' = Late(t) + 1
        /\ Late(t)' <= Half => ~ Soon(t)'
    BY <2>1, Ticks
  <2>3. Allowed \in Nat /\ MaxStall + MaxLate + 1 + (MaxLate + Longest) <= Allowed
    BY <1>2, Allowance
  <2>4. ASSUME Soon(t)
        PROVE  Served(t)'
    <3>1. CASE Soon(t)'
      BY <3>1 DEF Served
    <3>2. CASE Late(t)' = 0
      <4>1. cmp # Stop => Late(t)' + Remaining' <= Allowed'
        <5>1. ASSUME cmp # Stop
              PROVE  Remaining <= MaxLate + Longest
          BY <1>2, <5>1, Away
        <5>2. QED
          BY <1>2, <1>3, <2>3, <3>2, <5>1, Scales
      <4>2. Late(t)' <= tticks'
        BY <1>1, <3>2
      <4>3. QED
        BY <1>1, <4>1, <4>2 DEF Served
    <3>3. QED
      BY <2>2, <2>4, <3>1, <3>2
  <2>5. ASSUME ~ Soon(t)
        PROVE  Served(t)' /\ ~ Soon(t)'
    <3>1. Late(t) + Longest <= Half /\ Late(t)' = Late(t) + 1 /\ ~ Soon(t)'
      <4>1. Late(t) + Longest <= Half
        BY <2>1, <2>5
      <4>2. Late(t) < Half /\ Late(t) + 1 <= Half
        BY <2>2, <4>1, Scales
      <4>3. QED
        BY <2>2, <4>1, <4>2
    <3>2. /\ cmp # Stop => Late(t) + Remaining <= Allowed
          /\ cmp = Stop => Late(t) <= tticks
          /\ tpc \notin {"idle", "return"} => putoff < MaxPutOff \/ Late(t) <= tticks
      BY <2>1, <2>5 DEF Served
    <3>3. cmp' # Stop => Late(t)' + Remaining' <= Allowed'
      BY <1>1, <1>2, <1>3, <2>2, <2>3, <3>1, <3>2
    <3>4. tpc # "idle" /\ Late(t) <= tticks => Late(t)' <= tticks'
      BY <1>1, <2>2, <3>1
    <3>5. cmp = Stop => tpc # "idle"
      BY <1>4, OutsideArmed
    <3>6. cmp' = Stop => Late(t)' <= tticks'
      BY <1>1, <3>2, <3>4, <3>5
    <3>7. tpc' \notin {"idle", "return"} => putoff' < MaxPutOff \/ Late(t)' <= tticks'
      BY <1>1, <3>2, <3>4
    <3>8. QED
      BY <3>1, <3>3, <3>6, <3>7 DEF Served
  <2>6. QED
    BY <2>4, <2>5
<1>5. ASSUME NEW t \in Armings, deadline_due(t, now)
      PROVE  deadline_due(t, now')
  <2>1. t \in Tick /\ now \in Tick /\ now' \in Tick
    BY <1>2, TypeGroups DEF Hardware
  <2>2. ~ Soon(t) /\ Late(t) + Longest <= Half /\ Late(t) \in Nat /\ Late(t) < Half
    BY <1>5, <2>1, SoonOrDue, OutsideArmed
  <2>3. ~ Soon(t)' /\ Served(t)'
    BY <1>4, <2>2
  <2>4. Soon(t)' \/ deadline_due(t, now)'
    BY <1>3, <2>1, <2>3, ServedNext DEF DueIfServed
  <2>5. deadline_due(t, now)' <=> deadline_due(t, now')
    BY DEF deadline_due, Ahead
  <2>6. QED
    BY <2>3, <2>4, <2>5
<1>6. next = find_earliest(entry) /\ next # NoDeadline => next \in Armings
  BY ArmingIs DEF ArmingFacts
<1>7. ASSUME tpc # "plan", next # NoDeadline, deadline_due(next, now)
      PROVE  deadline_due(next', now')
  <2>1. next \in Armings
    BY <1>2, <1>6, <1>7 DEF Planned
  <2>2. QED
    BY <1>1, <1>5, <1>7, <2>1
<1>8. ASSUME tpc = "program", tval # Stop
      PROVE  Soon(tval)' \/ Late(tval)' <= tticks'
  <2>1. PICK t \in Tick : t = tval
    BY <1>8, TypeGroups DEF TaskOK
  <2>2. Soon(t) \/ Late(t) <= tticks
    BY <1>2, <1>8, <2>1 DEF Planned
  <2>3. /\ Late(t) \in Nat /\ Late(t)' \in Nat
        /\ Soon(t) => Soon(t)' \/ Late(t)' = 0
        /\ Late(t) < Half => Late(t)' = Late(t) + 1
    BY Ticks
  <2>4. Soon(t)' \/ Late(t)' <= tticks'
    <3>1. tticks' = tticks + 1
      BY <1>1, <1>8
    <3>2. CASE Soon(t)'
      BY <3>2
    <3>3. CASE Late(t)' = 0
      BY <1>1, <3>3
    <3>4. CASE Late(t) <= tticks
      <4>1. Late(t) < Half
        BY <1>1, <2>3, <3>4, Scales
      <4>2. QED
        BY <1>1, <2>3, <3>1, <3>4, <4>1
    <3>5. QED
      BY <2>2, <2>3, <3>2, <3>3, <3>4
  <2>5. (Soon(t)' <=> Soon(tval)') /\ Late(t)' = Late(tval)'
    BY <1>1, <2>1 DEF Soon, Late
  <2>6. QED
    BY <2>4, <2>5
<1>9. Planned'
  <2>1. tpc' # "plan" => next' = find_earliest(entry)'
    BY <1>1, <1>2 DEF Planned
  <2>2. ~ Rescheduling' => /\ cmp' = Stop <=> next' = NoDeadline
                           /\ cmp' # Stop => cmp' = next' \/ deadline_due(next', now')
    BY <1>1, <1>2, <1>7 DEF Planned, Rescheduling
  <2>3. tpc' = "program" =>
          /\ tval' = Stop <=> next' = NoDeadline
          /\ tval' # Stop => /\ tval' = next' \/ deadline_due(next', now')
                             /\ Soon(tval)' \/ Late(tval)' <= tticks'
    BY <1>1, <1>2, <1>7, <1>8 DEF Planned
  <2>4. QED
    BY <2>1, <2>2, <2>3 DEF Planned
<1>10. putoff' > MaxPutOff => Waiting(entry)'
  <2>1. putoff > MaxPutOff => \E t \in Armings : deadline_due(t, now)
    BY ArmingIs DEF Timing, Outside, ArmingFacts
  <2>2. (\E t \in Armings' : deadline_due(t, now')) => Waiting(entry)'
    BY ArmingNext DEF ArmingFacts
  <2>3. QED
    BY <1>1, <1>5, <2>1, <2>2
<1>11. tpc' \notin {"idle", "return"} => putoff' <= MaxPutOff
  BY <1>1 DEF Timing, Outside
<1>12. \A t \in Armings' : Served(t)'
  BY <1>1, <1>4
<1>13. QED
  BY <1>1, <1>3, <1>9, <1>10, <1>11, <1>12 DEF Timing, Outside

-----------------------------------------------------------------------------
(***************************************************************************)
(* Inside the hook.                                                        *)
(***************************************************************************)
LEMMA InsideIs ==
  ASSUME TypeOK, ~ HookIdle, Timing
  PROVE  /\ CompareSet /\ Inside
         /\ now \in Tick /\ hook.now \in Tick /\ next \in Tick /\ next # NoDeadline
         /\ Late(hook.now) \in Nat /\ Late(hook.now) <= Longest + MaxLate
         /\ cmp = Stop => Late(hook.now) = 0
<1>1. CompareSet /\ Inside /\ now \in Tick /\ hook.now \in Tick /\ next \in Tick
  BY HookEffect, TypeGroups DEF Timing, Hardware, TableOK
<1>2. Late(hook.now) \in Nat
  BY <1>1, SoonOrDue
<1>3. CASE cmp = Stop
  <2>1. Frozen
    BY <1>1, <1>3 DEF Inside
  <2>2. Late(hook.now) = 0
    BY <1>1, <2>1, BothWays DEF Frozen, Late
  <2>3. QED
    BY <1>1, <2>1, <2>2, Scales DEF Frozen
<1>4. ASSUME cmp # Stop
      PROVE  next # NoDeadline /\ Late(hook.now) <= Longest + MaxLate
  <2>1. Clocked
    BY <1>1, <1>4 DEF Inside
  <2>2. next # NoDeadline
    BY <2>1, Halves DEF Clocked, NoDeadline
  <2>3. Ahead(cmp, hook.now) \in Nat /\ Ahead(cmp, hook.now) <= Longest /\ Ahead(cmp, now) \in Nat
    BY <1>1, <2>1, Scales, AheadIs DEF Clocked
  <2>4. CASE flag
    <3>1. Late(hook.now) = Ahead(cmp, hook.now) + Late(cmp) /\ Late(cmp) <= MaxLate
          /\ Late(cmp) \in Nat
      BY <1>1, <1>4, <2>1, <2>4, Away DEF Clocked
    <3>2. QED
      BY <2>2, <2>3, <3>1, Scales
  <2>5. CASE ~ flag
    <3>1. Late(hook.now) = Ahead(cmp, hook.now) - Ahead(cmp, now)
      BY <2>1, <2>5 DEF Clocked
    <3>2. QED
      BY <1>2, <2>2, <2>3, <3>1, Scales
  <2>6. QED
    BY <2>4, <2>5
<1>5. QED
  BY <1>1, <1>2, <1>3, <1>4

(* A tick inside the hook: a callback has armed the compare register.        *)
LEMMA TickInside ==
  ASSUME TypeOK, TypeOK', Timing, ~ HookIdle, CountUp
  PROVE  Timing'
<1>1. /\ UNCHANGED <<cmp, putoff, entry, next, hook, tpc, Armings>> /\ ~ HookIdle' /\ running
      /\ \A i \in Slot : Expired(i)' <=> Expired(i)
  BY DEF CountUp, tableVars, HookIdle, Armings, Deadlines, Expired, deadline_due, Ahead, active
<1>2. /\ CompareSet /\ Inside /\ hook.now \in Tick
      /\ Late(hook.now) \in Nat /\ Late(hook.now) <= Longest + MaxLate
      /\ Armings \subseteq Tick /\ active \subseteq Slot
  BY InsideIs, ArmingIs, TypeGroups DEF ArmingFacts, TableOK
<1>3. cmp # Stop /\ Clocked
  BY <1>1, <1>2 DEF Inside, Frozen
<1>4. /\ CompareSet'
      /\ flag => Late(cmp)' = Late(cmp) + 1
      /\ ~ flag /\ flag' => Late(cmp)' = 0 /\ Ahead(cmp, now) = 1
      /\ ~ flag' => Ahead(cmp, now)' = Ahead(cmp, now) - 1
      /\ flag => flag'
  BY <1>2, <1>3, CompareTicks DEF CountUp
<1>5. PICK h \in Tick : h = hook.now
  BY <1>2
<1>6. Late(h)' = Late(h) + 1 /\ Late(h)' = Late(hook.now)' /\ Late(h) = Late(hook.now) /\ Late(h) \in Nat
  <2>1. Late(h) = Late(hook.now) /\ Late(h)' = Late(hook.now)'
    BY <1>1, <1>5 DEF Late
  <2>2. Late(h) < Half /\ Late(h) \in Nat
    BY <1>2, <2>1, Scales
  <2>3. QED
    BY <2>1, <2>2, Ticks
<1>7. Clocked'
  <2>1. /\ Ahead(cmp, hook.now) \in 1 .. Longest
        /\ Late(hook.now) = IF flag THEN Ahead(cmp, hook.now) + Late(cmp)
                            ELSE Ahead(cmp, hook.now) - Ahead(cmp, now)
        /\ cmp = next /\ next < Half /\ next \in Armings
    BY <1>3 DEF Clocked
  <2>2. Ahead(cmp, hook.now)' = Ahead(cmp, hook.now)
    BY <1>1 DEF Ahead
  <2>3. Late(hook.now)' = IF flag' THEN Ahead(cmp, hook.now) + Late(cmp)'
                          ELSE Ahead(cmp, hook.now) - Ahead(cmp, now)'
    <3>1. /\ Ahead(cmp, hook.now) \in Nat /\ Ahead(cmp, now) \in Nat /\ Late(cmp) \in Nat
      BY <1>2, <1>3, <2>1, AheadIs, Away, Scales DEF Late
    <3>2. CASE flag
      BY <1>4, <1>6, <2>1, <3>1, <3>2
    <3>3. CASE ~ flag /\ flag'
      BY <1>4, <1>6, <2>1, <3>1, <3>3
    <3>4. CASE ~ flag'
      BY <1>4, <1>6, <2>1, <3>1, <3>4
    <3>5. QED
      BY <3>2, <3>3, <3>4
  <2>4. QED
    BY <1>1, <2>1, <2>2, <2>3 DEF Clocked
<1>8. ASSUME NEW t \in Armings
      PROVE  deadline_due(t, hook.now) \/ Soon(t)' \/ Late(t)' <= Late(hook.now)'
  <2>1. t \in Tick /\ (deadline_due(t, hook.now) \/ Soon(t) \/ Late(t) <= Late(hook.now))
    BY <1>2 DEF Inside
  <2>2. /\ Late(t) \in Nat /\ Late(t)' \in Nat
        /\ Soon(t) => Soon(t)' \/ Late(t)' = 0
        /\ Late(t) < Half => Late(t)' = Late(t) + 1
    BY <2>1, Ticks
  <2>3. ASSUME Late(t) <= Late(hook.now)
        PROVE  Late(t)' <= Late(hook.now)'
    <3>1. Late(t) < Half
      BY <1>2, <2>2, <2>3, Scales
    <3>2. QED
      BY <1>6, <2>2, <2>3, <3>1
  <2>4. ASSUME Late(t)' = 0
        PROVE  Late(t)' <= Late(hook.now)'
    BY <1>6, <2>4
  <2>5. QED
    BY <2>1, <2>2, <2>3, <2>4
<1>9. \A t \in Armings' : deadline_due(t, hook'.now) \/ Soon(t)' \/ Late(t)' <= Late(hook.now)'
  BY <1>1, <1>8
<1>10. /\ tpc' = "idle" /\ putoff' = 0 /\ hook'.at <= Slots
       /\ \A t \in Armings' : next' <= t
       /\ \A i \in active' : i < hook'.at => ~ Expired(i)'
       /\ hook'.fired \/ \E i \in active' : hook'.at <= i /\ Expired(i)'
  BY <1>1, <1>2 DEF Inside, active
<1>11. Inside'
  BY <1>1, <1>3, <1>7, <1>9, <1>10 DEF Inside
<1>12. QED
  BY <1>1, <1>4, <1>11 DEF Timing

(* The hook begins: it stops the counter, and the earliest timer is due.     *)
LEMMA EnterTiming ==
  ASSUME TypeOK, TypeOK', Timing, HookEnter, ~ overtaken'
  PROVE  Timing'
<1>1. /\ flag /\ HookIdle /\ tpc = "idle" /\ tpc' = "idle" /\ cmp # Stop
      /\ cmp' = Stop /\ ~ flag' /\ ~ running' /\ putoff' = 0 /\ now' = now
      /\ UNCHANGED <<entry, next>> /\ active' = active
      /\ hook'.at = 0 /\ hook'.now = now /\ ~ hook'.fired
  BY HookMoves, TypeGroups DEF HookEnter, h_timer_stop_compare, tableVars, taskVars, Hardware, active
<1>2. CompareSet' /\ ~ HookIdle'
  <2>1. ~ HookIdle'
    <3>1. NoHook.at # 0
      BY SlotsAssumption, HookEffect
    <3>2. QED
      BY <1>1, <3>1 DEF HookIdle
  <2>2. QED
    BY <1>1, <2>1 DEF CompareSet
<1>3. /\ next = find_earliest(entry) /\ next # NoDeadline
      /\ cmp = next \/ deadline_due(next, now)
  BY <1>1 DEF Timing, Outside, Planned, Rescheduling
<1>4. /\ next \in Armings /\ (\A t \in Armings : next <= t) /\ Armings \subseteq Tick /\ Armings' = Armings
      /\ now \in Tick /\ Late(next) \in Nat
      /\ \E i \in active : entry[i].deadline = next
  <2>1. /\ next \in Armings /\ (\A t \in Armings : next <= t) /\ Armings \subseteq Tick
        /\ \E i \in active : entry[i].deadline = next
    BY <1>3, ArmingIs DEF ArmingFacts
  <2>2. now \in Tick /\ Armings' = Armings
    BY <1>1, TypeGroups DEF Hardware, Armings, Deadlines
  <2>3. QED
    BY <2>1, <2>2, SoonOrDue
<1>5. Late(next) + Longest <= Half
  <2>1. CASE cmp = next
    <3>1. Late(next) <= MaxLate
      BY <1>1, <2>1, Away DEF Timing
    <3>2. QED
      BY <1>4, <3>1, Scales
  <2>2. CASE deadline_due(next, now)
    BY <1>1, <1>4, <2>2, OutsideArmed, SoonOrDue
  <2>3. QED
    BY <1>3, <2>1, <2>2
<1>6. Frozen'
  <2>1. Late(next)' = Late(next)
    BY <1>1 DEF Late
  <2>2. QED
    BY <1>1, <1>3, <1>5, <2>1 DEF Frozen
<1>7. \A i \in active' : Expired(i)' <=> deadline_due(entry[i].deadline, now)
  BY <1>1 DEF Expired, active
<1>8. \E i \in active' : hook'.at <= i /\ Expired(i)'
  <2>1. deadline_due(next, now)
    <3>1. Late(next) < Half
      BY <1>4, <1>5, Scales
    <3>2. QED
      BY <1>4, <3>1, SoonOrDue
  <2>2. \A i \in active : 0 <= i
    BY TypeGroups, SlotsAssumption DEF TableOK, Slot
  <2>3. QED
    BY <1>1, <1>4, <1>7, <2>1, <2>2
<1>9. \A i \in active' : ~ (i < hook'.at)
  BY <1>1, TypeGroups, SlotsAssumption DEF TableOK, Slot
<1>10. \A t \in Armings' : deadline_due(t, hook'.now) \/ Soon(t)'
  BY <1>1, <1>4, OutsideArmed DEF Soon
<1>11. hook'.at <= Slots
  BY <1>1, SlotsAssumption
<1>12. Inside'
  BY <1>1, <1>4, <1>6, <1>8, <1>9, <1>10, <1>11 DEF Inside
<1>13. QED
  BY <1>2, <1>12 DEF Timing

(* Steps that leave the hardware and the earliest deadline alone.            *)
LEMMA HookGoesOn ==
  ASSUME TypeOK, TypeOK', Timing, ~ HookIdle, UNCHANGED <<hwVars, next, tpc>>,
         hook'.at <= Slots, hook'.now = hook.now,
         Armings' \subseteq Armings, next \in Armings => next \in Armings' \/ deadline_due(next, hook.now),
         \A i \in active' : i < hook'.at => ~ deadline_due(entry'[i].deadline, hook.now),
         hook'.fired \/ \E i \in active' : hook'.at <= i /\ deadline_due(entry'[i].deadline, hook.now)
  PROVE  Timing'
<1>1. UNCHANGED <<now, running, cmp, flag, putoff, next, tpc>> /\ ~ HookIdle'
  <2>1. ~ HookIdle'
    <3>1. hook'.at # NoHook.at
      <4>1. hook'.at \in Nat
        BY TypeGroups DEF Hooks
      <4>2. QED
        BY <4>1, HookEffect, SlotsAssumption
    <3>2. QED
      BY <3>1 DEF HookIdle
  <2>2. QED
    BY <2>1 DEF hwVars
<1>2. /\ CompareSet /\ Inside /\ now \in Tick /\ hook.now \in Tick /\ next \in Tick
      /\ next # NoDeadline
  BY InsideIs
<1>3. CompareSet'
  BY <1>1, <1>2, StandingStill
<1>4. /\ Late(hook.now)' = Late(hook.now) /\ Late(cmp)' = Late(cmp) /\ Late(next)' = Late(next)
      /\ Ahead(cmp, now)' = Ahead(cmp, now) /\ Ahead(cmp, hook.now)' = Ahead(cmp, hook.now)
      /\ \A t \in Tick : (Soon(t)' <=> Soon(t)) /\ Late(t)' = Late(t)
  BY <1>1 DEF Late, Soon, Ahead
<1>5. cmp' = Stop => Frozen'
  BY <1>1, <1>2, <1>4 DEF Inside, Frozen
<1>6. cmp' # Stop => Clocked'
  <2>1. ASSUME Clocked
        PROVE  ~ deadline_due(next, hook.now)
    <3>1. Ahead(next, hook.now) \in 1 .. Longest
      BY <2>1 DEF Clocked
    <3>2. /\ Ahead(next, hook.now) = 0 <=> next = hook.now
          /\ next # hook.now => Ahead(hook.now, next) = TickMod - Ahead(next, hook.now)
      BY <1>2, BothWays
    <3>3. Ahead(hook.now, next) \in Nat /\ ~ (Ahead(hook.now, next) < Half)
      BY <1>2, <3>1, <3>2, AheadIs, Scales
    <3>4. QED
      BY <3>3, DueIs
  <2>2. ASSUME Clocked
        PROVE  Clocked'
    <3>1. next \in Armings'
      BY <2>1, <2>2 DEF Clocked
    <3>2. QED
      BY <1>1, <1>4, <2>2, <3>1 DEF Clocked
  <2>3. QED
    BY <1>1, <1>2, <2>2 DEF Inside
<1>7. \A i \in active' : Expired(i)' <=> deadline_due(entry'[i].deadline, hook.now)
  BY <1>1 DEF Expired, deadline_due, Ahead, active
<1>8. /\ \A i \in active' : i < hook'.at => ~ Expired(i)'
      /\ hook'.fired \/ \E i \in active' : hook'.at <= i /\ Expired(i)'
  BY <1>7
<1>9. /\ tpc' = "idle" /\ putoff' = 0 /\ hook'.at <= Slots
      /\ \A t \in Armings' : next' <= t
  BY <1>1, <1>2 DEF Inside
<1>10. ASSUME NEW t \in Armings'
       PROVE  deadline_due(t, hook'.now) \/ Soon(t)' \/ Late(t)' <= Late(hook.now)'
  <2>1. t \in Tick /\ (deadline_due(t, hook.now) \/ Soon(t) \/ Late(t) <= Late(hook.now))
    BY <1>2, <1>10, ArmingIs DEF Inside, ArmingFacts
  <2>2. QED
    BY <1>4, <2>1
<1>11. Inside'
  BY <1>5, <1>6, <1>8, <1>9, <1>10 DEF Inside
<1>12. QED
  BY <1>1, <1>3, <1>11 DEF Timing

(* The hook goes on to the next entry, fires one, or a callback returns.     *)
LEMMA HookStepTiming ==
  ASSUME TypeOK, TypeOK', Timing, HookSkip \/ HookFire \/ CallbackReturns
  PROVE  Timing'
<1>1. /\ UNCHANGED <<hwVars, next, tpc>> /\ hook'.now = hook.now /\ ~ HookIdle
  <2>1. ~ HookIdle
    BY HookEffect DEF HookSkip, HookFire, CallbackReturns
  <2>2. hook'.now = hook.now
    BY HookMoves, LongestDelay
  <2>3. QED
    BY <2>1, <2>2 DEF HookSkip, HookFire, CallbackReturns, tableVars, taskVars
<1>2. /\ Inside /\ active \subseteq Slot /\ Slots \in Nat /\ hook.at \in Nat
      /\ \A i \in Slot : i \in Nat
  BY <1>1, InsideIs, HookEffect, SlotsAssumption, TypeGroups DEF TableOK, Slot
<1>3. /\ hook.at <= Slots
      /\ \A i \in active : i < hook.at => ~ deadline_due(entry[i].deadline, hook.now)
      /\ hook.fired \/ \E i \in active : hook.at <= i /\ deadline_due(entry[i].deadline, hook.now)
  BY <1>2 DEF Inside, Expired
<1>4. CASE CallbackReturns
  <2>1. /\ UNCHANGED entry /\ active' = active /\ Armings' = Armings
        /\ hook'.at = hook.at /\ hook'.fired = hook.fired
    BY <1>4, HookMoves, LongestDelay DEF CallbackReturns, tableVars, active, Armings, Deadlines
  <2>2. QED
    BY <1>1, <1>3, <2>1, HookGoesOn
<1>5. CASE HookSkip
  <2>1. /\ UNCHANGED entry /\ active' = active /\ Armings' = Armings
        /\ hook'.at = hook.at + 1 /\ hook'.fired = hook.fired
        /\ hook.at \in Slot /\ hook.at < Slots
        /\ hook.at \in active => ~ deadline_due(entry[hook.at].deadline, hook.now)
    BY <1>5, HookMoves, HookEffect DEF HookSkip, tableVars, active, Armings, Deadlines, Expired
  <2>2. hook'.at <= Slots
    BY <1>2, <2>1
  <2>3. \A i \in active' : i < hook'.at => ~ deadline_due(entry'[i].deadline, hook.now)
    <3>1. \A i \in active : i < hook.at + 1 => i < hook.at \/ i = hook.at
      BY <1>2
    <3>2. QED
      BY <1>3, <2>1, <3>1
  <2>4. hook'.fired \/ \E i \in active' : hook'.at <= i /\ deadline_due(entry'[i].deadline, hook.now)
    <3>1. \A i \in active : hook.at <= i => hook.at + 1 <= i \/ i = hook.at
      BY <1>2
    <3>2. QED
      BY <1>3, <2>1, <3>1
  <2>5. QED
    BY <1>1, <2>1, <2>2, <2>3, <2>4, HookGoesOn
<1>6. CASE HookFire
  <2>1. /\ hook.at \in active /\ hook.at < Slots /\ hook'.at = hook.at + 1 /\ hook'.fired
        /\ deadline_due(entry[hook.at].deadline, hook.now) /\ entry' = Without(hook.at)
    BY <1>6, HookMoves, HookEffect DEF HookFire, Expired
  <2>2. active' = active \ {hook.at} /\ \A j \in active \ {hook.at} : entry'[j] = entry[j]
    BY <2>1, Dropping
  <2>3. /\ Armings' \subseteq Armings
        /\ \A j \in active : j # hook.at /\ entry[j].deadline # NoDeadline => entry[j].deadline \in Armings'
    BY <2>2, ArmingsDropped
  <2>4. next \in Armings => next \in Armings' \/ deadline_due(next, hook.now)
    <3>1. ASSUME next \in Armings
          PROVE  next # NoDeadline /\ \E i \in active : entry[i].deadline = next
      BY <3>1, ArmingIs DEF ArmingFacts
    <3>2. QED
      BY <2>1, <2>3, <3>1
  <2>5. hook'.at <= Slots
    BY <1>2, <2>1
  <2>6. \A i \in active' : i < hook'.at => ~ deadline_due(entry'[i].deadline, hook.now)
    <3>1. \A i \in active : i < hook.at + 1 => i < hook.at \/ i = hook.at
      BY <1>2
    <3>2. QED
      BY <1>3, <2>1, <2>2, <3>1
  <2>7. QED
    BY <1>1, <2>1, <2>3, <2>4, <2>5, <2>6, HookGoesOn
<1>7. QED
  BY <1>4, <1>5, <1>6

(* The last step of the hook: the timers that are left are scheduled.        *)
LEMMA ExitTiming ==
  ASSUME TypeOK, TypeOK', Timing, HookExit, ~ overtaken'
  PROVE  Timing'
<1>1. /\ hook.at = Slots /\ ~ HookIdle /\ UNCHANGED <<entry, tpc>> /\ HookIdle'
      /\ IF hook.fired THEN Rewritten(entry) ELSE NoReschedule
  BY HookEffect, SlotsAssumption DEF HookExit, HookIdle, taskVars, Rewritten
<1>2. /\ CompareSet /\ Inside /\ now \in Tick /\ hook.now \in Tick /\ next \in Tick
      /\ Late(hook.now) \in Nat /\ Late(hook.now) <= Longest + MaxLate
      /\ cmp = Stop => Late(hook.now) = 0
  BY <1>1, InsideIs
<1>3. \A i \in active : i < hook.at /\ ~ Expired(i)
  BY <1>1, <1>2, TypeGroups, SlotsAssumption DEF Inside, TableOK, Slot
<1>4. Rewritten(entry') /\ Armings' = Armings /\ active' = active
  <2>1. hook.fired
    BY <1>2, <1>3 DEF Inside
  <2>2. QED
    BY <1>1, <2>1 DEF Armings, Deadlines, active
<1>5. \A t \in Armings : t \in Tick /\ ~ deadline_due(t, hook.now)
  BY <1>3, ArmingIs DEF ArmingFacts, Expired
<1>6. ASSUME NEW t \in Armings
      PROVE  /\ Soon(t) \/ Late(t) <= Late(hook.now)
             /\ Soon(t) \/ deadline_due(t, now)
             /\ cmp = Stop => Soon(t)
             /\ Late(t) \in Nat
  <2>1. t \in Tick /\ (Soon(t) \/ Late(t) <= Late(hook.now))
    BY <1>2, <1>5 DEF Inside
  <2>2. Late(t) \in Nat /\ (deadline_due(t, now) <=> Late(t) < Half)
    BY <1>2, <2>1, SoonOrDue
  <2>3. Late(t) <= Late(hook.now) => Late(t) < Half
    BY <1>2, <2>2, Scales
  <2>4. ASSUME cmp = Stop, Late(t) <= Late(hook.now)
        PROVE  FALSE
    <3>1. Late(t) = 0 /\ Late(hook.now) = 0
      BY <1>2, <2>2, <2>4
    <3>2. t = now /\ hook.now = now
      BY <1>2, <2>1, <3>1, BothWays DEF Late
    <3>3. ~ deadline_due(t, now)
      BY <1>5, <3>2
    <3>4. QED
      BY <2>2, <2>3, <2>4, <3>3
  <2>5. QED
    BY <2>1, <2>2, <2>3, <2>4
<1>7. /\ now' = now /\ ~ flag' /\ next' = find_earliest(entry)'
      /\ cmp' = Stop <=> next' = NoDeadline
      /\ cmp' = Stop <=> Armings' = {}
      /\ cmp' = Stop => putoff' = 0
      /\ CompareSet'
      /\ cmp' # Stop =>
           /\ next' \in Armings' /\ (cmp' = next' \/ deadline_due(next', now))
           /\ deadline_due(next', now) => Remaining' = 1 + MaxLate
           /\ ~ deadline_due(next', now) => cmp' = next'
           /\ Remaining' = Ahead(cmp', now) + MaxLate
           /\ Remaining' \in Nat
           /\ putoff' = IF Waiting(entry') /\ HookIdle THEN putoff + 1 ELSE putoff
  BY <1>4, <1>6, Moved
<1>8. tpc' = "idle" /\ putoff' = 0
  BY <1>1, <1>2, <1>7 DEF Inside
<1>9. Planned'
  BY <1>7, <1>8 DEF Planned, Rescheduling
<1>10. Allowed' \in Nat /\ MaxStall + MaxLate + 1 + (MaxLate + Longest) <= Allowed'
  <2>1. Allowed' = Patience(0)
    BY <1>8, Waits DEF Allowed
  <2>2. QED
    BY <2>1, Patient
<1>11. ASSUME NEW t \in Armings'
       PROVE  Served(t)'
  <2>1. /\ t \in Armings /\ t \in Tick /\ cmp' # Stop
        /\ (Soon(t) <=> Soon(t)') /\ Late(t)' = Late(t)
    BY <1>4, <1>5, <1>7 DEF Soon, Late
  <2>2. CASE Soon(t)
    BY <2>1, <2>2 DEF Served
  <2>3. ASSUME ~ Soon(t)
        PROVE  Served(t)'
    <3>1. Late(t) <= Late(hook.now) /\ cmp # Stop /\ Late(t) \in Nat
      BY <1>6, <2>1, <2>3
    <3>2. Clocked
      BY <1>2, <3>1 DEF Inside
    <3>3. next' = next
      <4>1. next \in Armings' /\ \A u \in Armings' : next <= u
        BY <1>2, <1>4, <3>2 DEF Clocked, Inside
      <4>2. QED
        BY <1>7, <4>1, ArmingNext DEF ArmingFacts
    <3>4. CASE deadline_due(next', now)
      <4>1. Remaining' = 1 + MaxLate
        BY <1>7, <2>1, <3>4
      <4>2. Late(t) + Remaining' <= Allowed'
        BY <1>2, <1>10, <3>1, <4>1, Scales
      <4>3. (Late(t) + Remaining <= Allowed)'
        BY <2>1, <4>2
      <4>4. QED
        BY <1>8, <2>1, <4>3 DEF Served
    <3>5. CASE ~ deadline_due(next', now)
      <4>1. /\ cmp' = next /\ cmp = next /\ Remaining' = Ahead(cmp, now) + MaxLate
            /\ Ahead(cmp, now) \in Nat /\ Ahead(cmp, hook.now) \in Nat /\ Ahead(cmp, hook.now) <= Longest
        BY <1>2, <1>7, <2>1, <3>2, <3>3, <3>5, AheadIs, Scales DEF Clocked
      <4>2. ~ flag
        BY <1>2, <3>1, <3>3, <3>5, <4>1, Away
      <4>3. Late(hook.now) = Ahead(cmp, hook.now) - Ahead(cmp, now)
        BY <3>2, <4>2 DEF Clocked
      <4>4. Late(t) + Remaining' <= Allowed'
        BY <1>2, <1>10, <3>1, <4>1, <4>3, Scales
      <4>5. (Late(t) + Remaining <= Allowed)'
        BY <2>1, <4>4
      <4>6. QED
        BY <1>8, <2>1, <4>5 DEF Served
    <3>6. QED
      BY <3>4, <3>5
  <2>4. QED
    BY <2>2, <2>3
<1>12. ~ (putoff' > MaxPutOff)
  BY <1>8, Waits
<1>13. QED
  BY <1>1, <1>7, <1>8, <1>9, <1>11, <1>12 DEF Timing, Outside

(***************************************************************************)
(* A callback registers.  The hook left the counter stopped, or a callback *)
(* before it armed a deadline that is smaller as a number: it lies past    *)
(* the wrap, and a deadline smaller still is nearer.                       *)
(***************************************************************************)
LEMMA Wraps ==
  ASSUME NEW n \in Tick, NEW e \in Tick, NEW d \in Nat, d <= Longest, NEW t \in Tick,
         Ahead(t, n) = d, Ahead(n, e) + Longest <= Half, t < e
  PROVE  t < Half
<1>1. /\ n \in Nat /\ e \in Nat /\ t \in Nat /\ n < TickMod /\ e < TickMod /\ t < TickMod
  BY Halves DEF Tick
<1>2. /\ Ahead(t, n) = IF n <= t THEN t - n ELSE t + TickMod - n
      /\ Ahead(n, e) = IF e <= n THEN n - e ELSE n + TickMod - e
  BY AheadIs
<1>3. QED
  BY <1>1, <1>2, Scales

(* Past the wrap a smaller deadline is nearer.                               *)
LEMMA Nearer ==
  ASSUME NEW h \in Tick, NEW e \in Tick, NEW t \in Tick, e < Half, t < e,
         Ahead(t, h) < Half
  PROVE  Ahead(t, h) < Ahead(e, h)
<1>1. /\ h \in Nat /\ e \in Nat /\ t \in Nat /\ h < TickMod /\ e < TickMod /\ t < TickMod
  BY Halves DEF Tick
<1>2. /\ Ahead(t, h) = IF h <= t THEN t - h ELSE t + TickMod - h
      /\ Ahead(e, h) = IF h <= e THEN e - h ELSE e + TickMod - h
  BY AheadIs
<1>3. QED
  BY <1>1, <1>2, Scales

(* The registration, in its three cases.                                     *)
LEMMA CallbackTiming ==
  ASSUME TypeOK, TypeOK', Timing, NEW d \in Delays, CallbackRegisters(d),
         ~ overtaken'
  PROVE  Timing'
<1>1. PICK c \in Client : c \in hook.calling /\ Register(c, d)
  BY HookEffect DEF CallbackRegisters
<1>2. /\ ~ HookIdle /\ tpc' = tpc
      /\ hook'.at = hook.at /\ hook'.now = hook.now /\ hook'.fired = hook.fired
  BY <1>1, HookEffect, HookMoves DEF CallbackRegisters, taskVars
<1>3. /\ CompareSet /\ Inside /\ now \in Tick /\ hook.now \in Tick /\ next \in Tick
      /\ next # NoDeadline /\ Late(hook.now) \in Nat /\ Late(hook.now) <= Longest + MaxLate
      /\ hook.at \in Nat /\ hook.at <= Slots /\ active \subseteq Slot
  BY <1>2, InsideIs, HookEffect, TypeGroups DEF Inside, TableOK
<1>4. /\ \A i \in active : i < hook.at => ~ deadline_due(entry[i].deadline, hook.now)
      /\ hook.fired \/ \E i \in active : hook.at <= i /\ deadline_due(entry[i].deadline, hook.now)
  BY <1>3 DEF Inside, Expired
<1>5. CASE UNCHANGED <<hwVars, tableVars, id>>
  <2>1. UNCHANGED <<hwVars, entry, next>> /\ active' = active /\ Armings' = Armings
    BY <1>5 DEF tableVars, active, Armings, Deadlines
  <2>2. QED
    BY <1>2, <1>3, <1>4, <2>1, HookGoesOn
<1>6. ASSUME NEW i \in Slot \ active, NEW s \in 1 .. Longest,
             active' = active \cup {i}, entry'[i].deadline = (now + s) % TickMod,
             \A j \in active : entry'[j] = entry[j],
             IF ReplacesEarliest((now + s) % TickMod) THEN Rewritten(entry') ELSE NoReschedule
      PROVE  Timing'
  <2>1. PICK dl \in Tick : dl = (now + s) % TickMod /\ Soon(dl) /\ Ahead(dl, now) = s
    BY <1>3, Fresh
  <2>2. /\ Armings \subseteq Armings' /\ (\A t \in Armings' : t \in Armings \/ t = dl)
        /\ (dl # NoDeadline => dl \in Armings') /\ Armings' \subseteq Tick /\ Armings \subseteq Tick
    BY <1>6, <2>1, ArmingsAdded, ArmingIs, ArmingNext DEF ArmingFacts
  <2>3. /\ Ahead(dl, hook.now) = s + Late(hook.now) /\ Ahead(dl, hook.now) < Half
        /\ s \in Nat /\ 1 <= s /\ s <= Longest
    <3>1. s \in Nat /\ 1 <= s /\ s <= Longest
      BY LongestDelay
    <3>2. Ahead(dl, now) + Ahead(now, hook.now) < Half
      BY <1>3, <2>1, <3>1, Scales DEF Late
    <3>3. Ahead(dl, now) + Ahead(now, hook.now) < TickMod
      BY <1>3, <2>1, <3>1, <3>2, Scales DEF Late
    <3>4. Ahead(dl, hook.now) = Ahead(dl, now) + Ahead(now, hook.now)
      BY <1>3, <2>1, <3>3, Between
    <3>5. QED
      BY <2>1, <3>1, <3>2, <3>4 DEF Late
  <2>4. ~ deadline_due(dl, hook.now) /\ ~ deadline_due(dl, now)
    <3>1. Ahead(dl, hook.now) # 0
      BY <1>3, <2>3
    <3>2. dl # hook.now /\ Ahead(hook.now, dl) = TickMod - Ahead(dl, hook.now)
      BY <1>3, <2>1, <3>1, BothWays
    <3>3. Ahead(hook.now, dl) \in Nat /\ ~ (Ahead(hook.now, dl) < Half)
      BY <1>3, <2>3, <3>2, AheadIs, Scales
    <3>4. QED
      BY <1>3, <2>1, <3>3, DueIs, SoonOrDue
  <2>5. /\ \A j \in active' : j < hook'.at => ~ deadline_due(entry'[j].deadline, hook.now)
        /\ hook'.fired \/ \E j \in active' : hook'.at <= j /\ deadline_due(entry'[j].deadline, hook.now)
        /\ \A j \in active' : Expired(j)' <=> deadline_due(entry'[j].deadline, hook.now)
    BY <1>2, <1>4, <1>6, <2>1, <2>4 DEF Expired, active, deadline_due, Ahead
  <2>6. ~ HookIdle'
    <3>1. hook'.at # NoHook.at
      BY <1>2, <1>3, HookEffect, SlotsAssumption
    <3>2. QED
      BY <3>1 DEF HookIdle
  <2>7. ASSUME now' = now
        PROVE  /\ \A t \in Tick : (Soon(t)' <=> Soon(t)) /\ Late(t)' = Late(t)
               /\ Late(hook.now)' = Late(hook.now)
               /\ \A t \in Armings' :
                    deadline_due(t, hook'.now) \/ Soon(t)' \/ Late(t)' <= Late(hook.now)'
    <3>1. /\ \A t \in Tick : (Soon(t)' <=> Soon(t)) /\ Late(t)' = Late(t)
          /\ Late(hook.now)' = Late(hook.now)
      BY <1>2, <2>7 DEF Soon, Late
    <3>2. \A t \in Armings : deadline_due(t, hook.now) \/ Soon(t) \/ Late(t) <= Late(hook.now)
      BY <1>3 DEF Inside
    <3>3. QED
      BY <1>2, <2>1, <2>2, <3>1, <3>2
  <2>8. next \in Nat /\ dl \in Nat /\ next <= NoDeadline /\ NoDeadline \in Nat
    BY <1>3, Halves DEF Tick, NoDeadline
  <2>9. CASE ~ ReplacesEarliest(dl)
    <3>1. UNCHANGED <<hwVars, next>> /\ next <= dl
      BY <1>6, <2>1, <2>8, <2>9 DEF NoReschedule, ReplacesEarliest
    <3>2. UNCHANGED <<now, running, cmp, flag, putoff, next>>
      BY <3>1 DEF hwVars
    <3>3. CompareSet'
      BY <1>3, <3>2, StandingStill
    <3>4. /\ Late(cmp)' = Late(cmp) /\ Ahead(cmp, now)' = Ahead(cmp, now) /\ Late(next)' = Late(next)
          /\ Ahead(cmp, hook.now)' = Ahead(cmp, hook.now) /\ Late(hook.now)' = Late(hook.now)
      BY <1>2, <3>2 DEF Late, Ahead
    <3>5. Frozen => Frozen'
      BY <1>2, <3>2, <3>4 DEF Frozen
    <3>6. Clocked => Clocked'
      BY <2>2, <3>2, <3>4 DEF Clocked
    <3>7. \A t \in Armings' : next' <= t
      BY <1>3, <2>2, <3>1, <3>2 DEF Inside
    <3>8. Inside'
      BY <1>2, <1>3, <2>5, <2>7, <3>2, <3>5, <3>6, <3>7 DEF Inside
    <3>9. QED
      BY <2>6, <3>3, <3>8 DEF Timing
  <2>10. CASE ReplacesEarliest(dl)
    <3>1. Rewritten(entry') /\ dl < next
      BY <1>3, <1>6, <2>1, <2>10 DEF ReplacesEarliest
    <3>2. PICK S \in SUBSET Slot : entry' \in [S -> Entry]
      BY TypeGroups DEF TableOK
    <3>3. /\ Hardware' /\ now' = now /\ ~ flag' /\ next' = find_earliest(entry')
          /\ cmp' = CompareFor(next', now)
          /\ cmp' = Stop <=> next' = NoDeadline
          /\ cmp' # Stop => putoff' = putoff
      BY <1>2, <3>1, <3>2, Rescheduled
    <3>4. next' = dl /\ dl \in Armings' /\ (\A t \in Armings' : dl <= t) /\ dl # NoDeadline
      <4>1. dl # NoDeadline /\ dl \in Armings'
        BY <2>2, <2>8, <3>1
      <4>2. \A t \in Armings' : t \in Nat
        BY <2>2, Halves DEF Tick
      <4>3. \A t \in Armings' : dl <= t
        BY <1>3, <2>2, <2>8, <3>1, <4>2 DEF Inside
      <4>4. find_earliest(entry)' = find_earliest(entry')
        BY DEF find_earliest
      <4>5. QED
        BY <3>3, <4>1, <4>3, <4>4, ArmingNext DEF ArmingFacts
    <3>5. cmp' = dl /\ putoff' = 0 /\ cmp' # Stop
      <4>1. CompareFor(dl, now) = dl
        BY <1>3, <2>1, <2>4, <3>4, CompareIs
      <4>2. QED
        BY <1>3, <3>3, <3>4, <4>1 DEF Inside
    <3>6. CompareSet'
      BY <2>1, <2>7, <3>3, <3>5 DEF CompareSet, Soon
    <3>7. s + Late(hook.now) <= Longest /\ dl < Half
      <4>1. CASE cmp = Stop
        <5>1. Frozen /\ Late(hook.now) = 0
          BY <1>2, <1>3, <4>1, InsideIs DEF Inside
        <5>2. Ahead(now, next) + Longest <= Half
          BY <5>1 DEF Frozen, Late
        <5>3. dl < Half
          BY <1>3, <2>1, <2>3, <3>1, <5>2, Wraps
        <5>4. QED
          BY <2>3, <5>1, <5>3
      <4>2. CASE cmp # Stop
        <5>1. Clocked
          BY <1>3, <4>2 DEF Inside
        <5>2. next < Half /\ Ahead(next, hook.now) \in 1 .. Longest
          BY <5>1 DEF Clocked
        <5>3. Ahead(dl, hook.now) < Ahead(next, hook.now)
          BY <1>3, <2>3, <3>1, <5>2, Nearer
        <5>4. QED
          BY <1>3, <2>3, <2>8, <3>1, <5>2, <5>3, Scales
      <4>3. QED
        BY <4>1, <4>2
    <3>8. Clocked'
      <4>1. Ahead(cmp, hook.now)' = s + Late(hook.now) /\ Ahead(cmp, now)' = s
        BY <1>2, <2>1, <2>3, <3>3, <3>5 DEF Ahead
      <4>2. Ahead(cmp, hook.now)' \in 1 .. Longest
        BY <1>3, <2>3, <3>7, <4>1, Scales
      <4>3. Late(hook.now)' = Ahead(cmp, hook.now)' - Ahead(cmp, now)'
        BY <1>3, <2>3, <2>7, <3>3, <4>1
      <4>4. cmp' = next' /\ next' < Half /\ next' \in Armings'
        BY <3>4, <3>5, <3>7
      <4>5. QED
        BY <3>3, <4>2, <4>3, <4>4 DEF Clocked
    <3>9. \A t \in Armings' : next' <= t
      BY <3>4
    <3>10. Inside'
      BY <1>2, <1>3, <2>5, <2>7, <3>3, <3>5, <3>8, <3>9 DEF Inside
    <3>11. QED
      BY <2>6, <3>6, <3>10 DEF Timing
  <2>11. QED
    BY <2>9, <2>10
<1>7. QED
  BY <1>1, <1>5, <1>6, Registered

-----------------------------------------------------------------------------

(* Every step keeps the promise to the armed timers.                         *)
LEMMA TimingStep ==
  ASSUME TypeOK, TypeOK', Matched, Timing, Next, ~ overtaken'
  PROVE  Timing'
<1>1. CASE CountUp
  BY <1>1, TickOutside, TickInside
<1>2. CASE HookEnter
  BY <1>2, EnterTiming
<1>3. CASE HookSkip \/ HookFire \/ CallbackReturns
  BY <1>3, HookStepTiming
<1>4. CASE HookExit
  BY <1>4, ExitTiming
<1>5. ASSUME NEW d \in Delays, CallbackRegisters(d)
      PROVE  Timing'
  BY <1>5, CallbackTiming
<1>6. ASSUME NEW c \in IsrClient, NEW d \in Delays, IsrRegister(c, d) \/ IsrUnregister(c)
      PROVE  Timing'
  BY <1>6, IsrTiming
<1>7. ASSUME NEW d \in Delays, TaskRegister(d) \/ TaskUnregister
      PROVE  Timing'
  <2>1. MayCall /\ tpc = "idle" /\ tpc' \in {"claim", "drop"} /\ UNCHANGED <<hwVars, tableVars, hook>>
    BY <1>7 DEF TaskRegister, TaskUnregister
  <2>2. QED
    BY <2>1, CallBegins
<1>8. CASE Task
  BY <1>8, ClaimTiming, DropTiming, PlanTiming, ProgramTiming, ReturnTiming DEF Task
<1>9. QED
  BY <1>1, <1>2, <1>3, <1>4, <1>5, <1>6, <1>7, <1>8, LongestDelay DEF Next, Hook

(* The start.                                                                *)
LEMMA TableInit == Init => TableInv
<1> SUFFICES ASSUME Init
             PROVE  TableInv
  OBVIOUS
<1>1. active = {} /\ entry \in [active -> Entry] /\ find_earliest(entry) = NoDeadline
  <2>1. DOMAIN entry = {} /\ entry \in [{} -> Entry]
    BY DEF Init
  <2>2. QED
    BY <2>1 DEF active, find_earliest
<1>2. NoHook \in Hooks /\ NoHook.calling = {}
  BY Halves, SlotsAssumption DEF NoHook, Hooks, Tick
<1>3. NoDeadline \in Tick /\ 0 \in Tick /\ Stop \notin Tick
  BY Halves DEF NoDeadline, Tick, Stop
<1>4. TypeOK
  <2>1. Hardware
    BY <1>3 DEF Init, Hardware
  <2>2. TableOK
    BY <1>1, <1>3 DEF Init, TableOK
  <2>3. hook \in Hooks
    BY <1>2 DEF Init
  <2>4. TaskOK
    BY Waits DEF Init, TaskOK
  <2>5. putoff \in 0 .. MaxPutOff + 1 /\ overtaken \in BOOLEAN
    <3>1. putoff = 0 /\ overtaken = FALSE
      BY DEF Init
    <3>2. 0 \in 0 .. MaxPutOff + 1
      BY Waits
    <3>3. QED
      BY <3>1, <3>2
  <2>6. QED
    BY <2>1, <2>2, <2>3, <2>4, <2>5, TypeGroups
<1>5. Matched
  <2>1. \A c \in Client : Holds(c) = NoId
    BY DEF Init, Holds, Rescheduling
  <2>2. tpc = "idle" /\ hook.calling = {}
    BY <1>2 DEF Init
  <2>3. QED
    BY <1>1, <2>1, <2>2 DEF Matched
<1>6. Timing
  <2>1. HookIdle /\ cmp = Stop /\ putoff = 0 /\ tpc = "idle" /\ next = NoDeadline
    BY DEF Init, HookIdle
  <2>2. Armings = {}
    BY <1>1 DEF Armings, Deadlines, active
  <2>3. Planned
    BY <1>1, <2>1 DEF Planned, Rescheduling
  <2>4. ~ (putoff > MaxPutOff)
    BY <2>1, Waits
  <2>5. QED
    BY <2>1, <2>2, <2>3, <2>4 DEF Timing, CompareSet, Outside
<1>7. QED
  BY <1>4, <1>5, <1>6 DEF TableInv

(* Every step.                                                               *)
LEMMA TableStep == TableInv /\ [Next]_vars => TableInv'
<1> SUFFICES ASSUME TableInv, [Next]_vars
             PROVE  TableInv'
  OBVIOUS
<1>1. TypeOK /\ (~ overtaken => Matched /\ Timing)
  BY DEF TableInv
<1>2. CASE Next
  <2>1. ~ overtaken /\ Matched /\ Timing
    BY <1>1, <1>2 DEF Next
  <2>2. tpc = "claim" => tslot \in Slot /\ tdelay \in Delays
    BY <2>1 DEF Matched
  <2>3. putoff' \in 0 .. MaxPutOff + 1
    BY <1>1, <1>2, <2>1, PutOffStep
  <2>4. TypeOK'
    BY <1>1, <1>2, <2>2, <2>3, TypeStep
  <2>5. ASSUME ~ overtaken'
        PROVE  Matched' /\ Timing'
    <3>1. ~ HookIdle => tpc = "idle"
      BY <2>1 DEF Timing, Inside
    <3>2. Matched'
      BY <1>1, <1>2, <2>1, <2>4, <2>5, <3>1, MatchedStep
    <3>3. Timing'
      BY <1>1, <1>2, <2>1, <2>4, <2>5, TimingStep
    <3>4. QED
      BY <3>2, <3>3
  <2>6. QED
    BY <2>4, <2>5 DEF TableInv
<1>3. CASE UNCHANGED vars
  <2>1. UNCHANGED <<hwVars, tableVars, taskVars, id, hook, overtaken, active, Armings>>
        /\ UNCHANGED <<now, running, cmp, flag, putoff, entry, next, tpc, tslot, tdelay, tval, tticks>>
    BY <1>3 DEF vars, hwVars, tableVars, taskVars, active, Armings, Deadlines
  <2>2. TypeOK' <=> TypeOK
    BY <2>1 DEF TypeOK, active
  <2>3. Matched' <=> Matched
    BY <2>1 DEF Matched, Holds, Rescheduling, active
  <2>4. Timing' <=> Timing
    BY <2>1 DEF Timing, CompareSet, Late, Soon, Ahead, HookIdle, Outside, Planned, Rescheduling,
       find_earliest, deadline_due, Served, Remaining, Allowed, Waiting, Inside, Frozen, Clocked,
       Expired, active
  <2>5. QED
    BY <1>1, <2>1, <2>2, <2>3, <2>4 DEF TableInv
<1>4. QED
  BY <1>2, <1>3

(***************************************************************************)
(* The invariant: types, whose entry is whose inside and outside a call,   *)
(* and what the compare register promises the armed timers.                *)
(***************************************************************************)
THEOREM Invariance == Spec => []TableInv
<1>1. Init => TableInv
  BY TableInit
<1>2. TableInv /\ [Next]_vars => TableInv'
  BY TableStep
<1>3. QED
  BY <1>1, <1>2, PTL DEF Spec

(***************************************************************************)
(* Ids and armed entries match one to one: no client unregisters another's *)
(* timer, and no callback comes to a client that has unregistered.         *)
(***************************************************************************)
THEOREM OwnTimers == Spec => []TimerInv
<1>1. TableInv => TimerInv
  <2> SUFFICES ASSUME TableInv
               PROVE  TimerInv
    OBVIOUS
  <2>1. TypeOK /\ (~ overtaken => Matched)
    BY DEF TableInv
  <2>2. ASSUME Quiet
        PROVE  /\ \A c \in Client : id[c] # NoId => id[c] \in active /\ entry[id[c]].owner = c
               /\ \A i \in active : id[entry[i].owner] = i
    <3>1. Matched /\ tpc = "idle"
      BY <2>1, <2>2 DEF Quiet
    <3>2. \A c \in Client : Holds(c) = id[c]
      BY <3>1 DEF Holds, Rescheduling
    <3>3. \A i \in active : entry[i].owner \in Client
      BY <2>1, TypeGroups DEF TableOK, Entry
    <3>4. QED
      BY <3>1, <3>2, <3>3 DEF Matched
  <2>3. IdsMatchEntries
    BY <2>2 DEF IdsMatchEntries
  <2>4. QED
    BY <2>1, <2>3 DEF TimerInv
<1>2. QED
  BY Invariance, <1>1, PTL

(***************************************************************************)
(* While a timer is armed its interrupt is pending or comes within the     *)
(* longest delay: for every width of the counter, across its wrap, with    *)
(* callbacks that register again and calls that move the compare register. *)
(***************************************************************************)
THEOREM InterruptComes == Spec => []Timely
<1>1. TableInv => Timely
  <2> SUFFICES ASSUME TableInv, Quiet, HookIdle, NEW i \in Slot, Armed(i)
               PROVE  flag \/ (cmp # Stop /\ \E d \in Delays : Ahead(cmp, now) <= d)
    BY DEF Timely
  <2>1. TypeOK /\ Timing /\ tpc = "idle" /\ now \in Tick /\ cmp \in Tick \cup {Stop}
    BY TypeGroups DEF TableInv, Quiet, Hardware
  <2>2. Armings # {}
    BY <2>1, ArmingIs DEF ArmingFacts, Armed
  <2>3. cmp # Stop
    BY <2>1, <2>2, OutsideArmed
  <2>4. ~ flag => Soon(cmp)
    BY <2>1, <2>3 DEF Timing, CompareSet
  <2>5. ~ flag => Ahead(cmp, now) <= Longest
    BY <2>1, <2>3, <2>4, SoonOrDue
  <2>6. QED
    BY <2>3, <2>5, LongestDelay
<1>2. QED
  BY Invariance, <1>1, PTL
=============================================================================
