--------------------------- MODULE I2cDriverProofs ---------------------------
(***************************************************************************)
(* Theorems about I2cDriver for every size of the timer table, every       *)
(* number of requests and both ways of the HAL to abort.  DriverInv is the *)
(* inductive invariant behind them.                                        *)
(***************************************************************************)
EXTENDS I2cDriver, FiniteSetTheorems, TLAPS

(* The task's own entry, wherever it keeps the id: only a task past StoreId  *)
(* holds one, and whoever holds the bus still finds it in the table, unless  *)
(* the abort it asked for is under way.                                      *)
IdsOwned ==
  /\ pc \in {"try_busy", "start", "arm", "store", "fail", "probe"} => timer_id = None
  /\ busy => timer_id \in timers \cup {None} \/ Dead(timer_id)
  /\ pc = "store" /\ busy => slot \in timers \cup {None} \/ Dead(slot)
  /\ (Starting \/ pc = "idle") /\ busy => hal = req /\ hal # None

(* Every id is that of a request already accepted; only a transfer of a HAL  *)
(* that aborts later is ever being stopped.                                  *)
Known ==
  /\ cb <= req /\ hal <= req /\ slot <= req /\ timer_id <= req
  /\ timers \subseteq 1 .. req
  /\ moved \subseteq 1 .. req /\ early \subseteq 1 .. req
  /\ \A i \in DOMAIN reports : reports[i].req <= req
  /\ pc \notin {"idle", "probe"} => req # 0
  /\ stopping => hal # None /\ ~ atOnce

(* While no call failed under its transfer: the transfer that runs is the    *)
(* current one, it holds the bus, and once its call has returned its entry   *)
(* is in the table, or an abort is under way, for which the mark stands.     *)
Guarded ==
  hal # None =>
    /\ hal = req /\ busy /\ cb = req
    /\ Starting \/ pc \in {"idle", "fail"}
    /\ pc = "store" => slot \in {None, req}
    /\ pc = "check" => timer_id \in {None, req}
    /\ pc = "idle" => (timer_id = req /\ req \in timers) \/ stopping
    /\ stopping => aborting

(* A transfer that outlives its start call has lost sight of its own entry   *)
(* only to an older one.                                                     *)
Overtaken == \E d \in cuts : d.hit = req /\ d.by < req

EntryHeld ==
  hal # None /\ pc = "idle" /\ req \in timers => timer_id = req \/ Overtaken

(* What has become of the current request at each place.                    *)
Unreported == \A i \in DOMAIN reports : reports[i].req # req
ReportedLast == reports # <<>> /\ reports[Len(reports)].req = req

Progress ==
  /\ cb \in {None, req}
  /\ pc \in {"try_busy", "start"} => Unreported /\ busy /\ req \notin early
  /\ pc = "try_busy" => cb = None
  /\ pc = "start" => cb = req
  /\ pc = "probe" => cb = None
  /\ hal # None => Unreported /\ req \notin early
  /\ Starting /\ hal = None => ReportedLast /\ req \in early
  /\ pc = "fail" => \/ Unreported /\ req \notin early
                    \/ ReportedLast /\ req \in early
  /\ pc \in {"idle", "probe"} /\ hal = None /\ req # 0 => ReportedLast

(* An early request is reported at most twice, in direct succession, every  *)
(* other one once.                                                          *)
Paired ==
  \A i, j \in DOMAIN reports :
    i < j /\ reports[i].req = reports[j].req =>
      /\ j = i + 1 /\ reports[j].status = "IO"
      /\ reports[i].req \in early

(* In a call about to fail after its transfer ended, one report is out.     *)
OneYet ==
  Starting \/ pc = "fail" =>
    \A i \in DOMAIN reports : reports[i].req = req => i = Len(reports)

AllReported == \A n \in 1 .. req - 1 : \E i \in DOMAIN reports : reports[i].req = n

(* An entry in the table belongs to the running transfer or has a cause.    *)
EntriesExplained == \A e \in timers : Explained(e, hal)

UntilLoose ==
  ~ loose =>
    /\ Guarded /\ Progress /\ Paired /\ OneYet /\ AllReported
    /\ EntryHeld /\ EntriesExplained /\ CutsOwnTransfer /\ OkMeansMoved

DriverInv == TypeOK /\ IdsOwned /\ Known /\ UntilLoose

-----------------------------------------------------------------------------
(* A set of naturals has a least element: of the sets 0 .. x, one contains  *)
(* no other strictly.                                                       *)
LEMMA Least ==
  ASSUME NEW T \in SUBSET Nat, T # {}
  PROVE  \E m \in T : \A x \in T : m <= x
<1> DEFINE Below(x) == 0 .. x
           F == {Below(x) : x \in T}
           R == StrictSubsetOrdering(Nat)
<1>1. IsWellFoundedOn(R, FiniteSubsetsOf(Nat))
  BY FS_StrictSubsetOrderingWellFounded
<1>2. F \subseteq FiniteSubsetsOf(Nat) /\ F # {}
  <2>1. \A x \in T : IsFiniteSet(Below(x)) /\ Below(x) \in SUBSET Nat
    BY FS_Interval
  <2>2. QED
    BY <2>1 DEF FiniteSubsetsOf
<1> HIDE DEF R
<1>3. PICK s \in F : \A y \in F : ~ (<<y, s>> \in R)
  BY <1>1, <1>2, WFMin
<1>4. PICK m \in T : s = Below(m)
  BY <1>3
<1>5. \A x \in T : x < m => <<Below(x), Below(m)>> \in R
  BY DEF R, StrictSubsetOrdering
<1>6. \A x \in T : ~ (x < m)
  BY <1>3, <1>4, <1>5
<1>7. QED
  BY <1>6

(* Min picks the oldest armed timer.                                         *)
LEMMA OldestTimer ==
  ASSUME TypeOK, timers # {}
  PROVE  Min(timers) \in timers /\ \A e \in timers : Min(timers) <= e
<1>1. timers \in SUBSET Nat
  BY BoundAssumption DEF TypeOK, Request
<1>2. \E m \in timers : \A e \in timers : m =< e
  BY <1>1, Least
<1>3. QED
  BY <1>2, Zenon DEF Min

(* The table only grows by Register, and then within its size.              *)
LEMMA TimersFit ==
  ASSUME TypeOK
  PROVE  /\ IsFiniteSet(timers) /\ Cardinality(timers) \in Nat
         /\ \A T \in SUBSET timers : Cardinality(T) <= Slots
         /\ \A e : Cardinality(timers) < Slots => Cardinality(timers \cup {e}) <= Slots
<1>1. IsFiniteSet(Request)
  BY BoundAssumption, FS_Interval DEF Request
<1>2. IsFiniteSet(timers)
  BY <1>1, FS_Subset DEF TypeOK
<1>3. Cardinality(timers) \in Nat
  BY <1>2, FS_CardinalityType
<1>4. ASSUME NEW T \in SUBSET timers
      PROVE  Cardinality(T) <= Slots
  <2>1. IsFiniteSet(T) /\ Cardinality(T) <= Cardinality(timers) /\ Cardinality(T) \in Nat
    BY <1>2, FS_Subset, FS_CardinalityType
  <2>2. QED
    BY <1>3, <2>1, SlotsAssumption DEF TypeOK
<1>5. ASSUME NEW e, Cardinality(timers) < Slots
      PROVE  Cardinality(timers \cup {e}) <= Slots
  BY <1>2, <1>3, <1>5, FS_AddElement, SlotsAssumption
<1>6. QED
  BY <1>2, <1>3, <1>4, <1>5

(* The reports are a sequence of requests and outcomes.                      *)
LEMMA ReportsAre ==
  ASSUME TypeOK
  PROVE  /\ Len(reports) \in Nat /\ DOMAIN reports = 1 .. Len(reports)
         /\ \A i \in 1 .. Len(reports) :
              reports[i].req \in Request /\ reports[i].status \in Status
<1> DEFINE S == [req : Request, status : Status]
<1>1. reports \in Seq(S)
  BY DEF TypeOK
<1> HIDE DEF S
<1>2. /\ Len(reports) \in Nat /\ DOMAIN reports = 1 .. Len(reports)
      /\ \A i \in 1 .. Len(reports) : reports[i] \in S
  BY <1>1
<1>3. QED
  BY <1>2 DEF S

(* What Report leaves: at most one more entry, at the end.                   *)
LEMMA ReportEffect ==
  ASSUME TypeOK, NEW n \in Request \cup {None}, NEW st \in Status, Report(n, st)
  PROVE  /\ reports' \in Seq([req : Request, status : Status])
         /\ DOMAIN reports' = 1 .. Len(reports')
         /\ n = None => reports' = reports
         /\ n # None =>
              LET k == Len(reports) IN
              /\ Len(reports') = k + 1 /\ DOMAIN reports' = 1 .. k + 1
              /\ reports'[k + 1].req = n /\ reports'[k + 1].status = st
              /\ \A i \in 1 .. k : reports'[i] = reports[i]
<1> DEFINE S == [req : Request, status : Status]
           r == [req |-> n, status |-> st]
<1>1. reports \in Seq(S)
  BY DEF TypeOK
<1>2. CASE n = None
  BY <1>1, <1>2 DEF Report
<1>3. CASE n # None
  <2>1. r \in S /\ r.req = n /\ r.status = st
    BY <1>3
  <2>2. reports' = Append(reports, r)
    BY <1>3 DEF Report
  <2> HIDE DEF S, r
  <2>3. /\ Append(reports, r) \in Seq(S)
        /\ Len(Append(reports, r)) = Len(reports) + 1
        /\ DOMAIN Append(reports, r) = 1 .. Len(reports) + 1
        /\ \A i \in 1 .. Len(reports) : Append(reports, r)[i] = reports[i]
        /\ Append(reports, r)[Len(reports) + 1] = r
    BY <1>1, <2>1
  <2>4. QED
    BY <1>3, <2>1, <2>2, <2>3 DEF S
<1>4. QED
  BY <1>2, <1>3

(* Every step keeps the types.                                               *)
LEMMA TypeStep ==
  ASSUME TypeOK, Known, [Next]_vars
  PROVE  TypeOK'
<1> USE BoundAssumption, SlotsAssumption DEF None, Request, Status
<1> DEFINE Rest ==
      /\ busy \in BOOLEAN /\ aborting \in BOOLEAN
      /\ cb \in Request \cup {None} /\ timer_id \in Request \cup {None}
      /\ hal \in Request \cup {None} /\ slot \in Request \cup {None}
      /\ pc \in {"idle", "try_busy", "start", "arm", "store", "check", "fail", "probe"}
      /\ req \in 0 .. MaxRequests /\ ret \in Status \cup {"BUSY"}
      /\ moved \subseteq Request /\ cuts \subseteq [hit : Request, by : Request]
      /\ early \subseteq Request /\ loose \in BOOLEAN /\ stopping \in BOOLEAN
    Table == timers \subseteq Request /\ Cardinality(timers) <= Slots
    Reported == reports \in Seq([req : Request, status : Status])
<1>17. atOnce' = atOnce
  BY DEF Next, vars
<1>1. SUFFICES Rest' /\ Table' /\ Reported'
  BY <1>17 DEF TypeOK
<1>2. Rest /\ Table /\ Reported
  BY DEF TypeOK
<1> HIDE DEF Reported, Table
<1>3. timers' \subseteq timers => Table'
  BY <1>2, TimersFit DEF Table
<1>4. reports' = reports => Reported'
  BY <1>2 DEF Reported
<1>5. ASSUME NEW n \in Request \cup {None}, NEW st \in Status, Report(n, st)
      PROVE  Reported'
  BY <1>5, ReportEffect DEF Reported
<1>6. CASE RefuseBusy \/ Accept \/ Probe \/ StoreCallback \/ StartAccepted \/ StartRefused
             \/ StoreId \/ CheckArmed
  <2>1. Table' /\ Reported'
    BY <1>2, <1>3, <1>4, <1>6 DEF RefuseBusy, Accept, Probe, StoreCallback, StartAccepted,
       StartRefused, StoreId, CheckArmed, rtVars, history
  <2>2. CASE RefuseBusy
    BY <1>2, <2>1, <2>2 DEF RefuseBusy, rtVars, history
  <2>3. CASE Accept
    <3>1. req' \in 0 .. MaxRequests
      BY <1>2, <2>3 DEF Accept
    <3>2. QED
      BY <1>2, <2>1, <2>3, <3>1 DEF Accept, rtVars, history, i2c_bus_acquire
  <2>4. CASE Probe
    BY <1>2, <2>1, <2>4 DEF Probe, rtVars, history, i2c_bus_acquire
  <2>5. CASE StoreCallback
    BY <1>2, <2>1, <2>5 DEF StoreCallback, rtVars, history
  <2>6. CASE StartAccepted
    BY <1>2, <2>1, <2>6 DEF StartAccepted, rtVars, history
  <2>7. CASE StartRefused
    BY <1>2, <2>1, <2>7 DEF StartRefused, rtVars, history
  <2>8. CASE StoreId
    BY <1>2, <2>1, <2>8 DEF StoreId, rtVars, history
  <2>9. CASE CheckArmed
    BY <1>2, <2>1, <2>9 DEF CheckArmed, rtVars, history
  <2>10. QED
    BY <1>6, <2>2, <2>3, <2>4, <2>5, <2>6, <2>7, <2>8, <2>9
<1>7. CASE Register
  <2>1. req \in Request
    BY <1>2, <1>7 DEF Register, Known
  <2>2. Table'
    BY <1>2, <1>3, <1>7, <2>1, TimersFit DEF Register, Table
  <2>3. QED
    BY <1>2, <1>4, <1>7, <2>1, <2>2 DEF Register, rtVars, history
<1>8. CASE i2c_async_fail
  <2>1. Reported'
    BY <1>2, <1>5, <1>8 DEF i2c_async_fail
  <2>2. QED
    BY <1>2, <1>3, <1>8, <2>1 DEF i2c_async_fail, i2c_bus_release, i2c_timer_stop
<1>9. CASE ProbeDone
  BY <1>2, <1>3, <1>4, <1>9 DEF ProbeDone, i2c_bus_release, i2c_timer_stop, history
<1>10. ASSUME NEW st \in Status, i2c_finish(st)
       PROVE  /\ Table' /\ Reported'
              /\ busy' \in BOOLEAN /\ aborting' \in BOOLEAN
              /\ cb' \in Request \cup {None} /\ timer_id' \in Request \cup {None}
  BY <1>2, <1>3, <1>4, <1>5, <1>10 DEF i2c_finish, i2c_timer_stop, rtVars
<1>11. CASE TransferComplete
  BY <1>2, <1>10, <1>11 DEF TransferComplete, EndedEarly
<1>12. CASE ErrorCallback
  BY <1>2, <1>10, <1>12 DEF ErrorCallback, EndedEarly
<1>13. CASE AbortComplete
  <2>1. PICK st \in Status : i2c_finish(st)
    BY <1>13 DEF AbortComplete
  <2>2. hal # None
    BY <1>13 DEF AbortComplete, Known
  <2>3. QED
    BY <1>2, <1>10, <1>13, <2>1, <2>2 DEF AbortComplete, EndedEarly
<1>14. CASE TimerExpires
  <2> DEFINE e == Min(timers)
             c == [hit |-> hal, by |-> e]
  <2>1. e \in Request /\ i2c_timeout_cb(e)
    BY <1>14, OldestTimer DEF TimerExpires, TypeOK
  <2> HIDE DEF e
  <2>2. Table'
    BY <1>3, <2>1 DEF i2c_timeout_cb
  <2>3. Reported'
    BY <1>2, <1>4, <1>5, <2>1 DEF i2c_timeout_cb, HAL_I2C_Master_Abort_IT
  <2>4. early' \subseteq Request
    BY <1>2, <2>1 DEF i2c_timeout_cb, HAL_I2C_Master_Abort_IT, EndedEarly
  <2>5. cuts' \subseteq [hit : Request, by : Request]
    <3>1. hal # None => c \in [hit : Request, by : Request]
      BY <1>2, <2>1
    <3>2. cuts' = cuts \/ (hal # None /\ cuts' = cuts \cup {c})
      BY <2>1 DEF i2c_timeout_cb, HAL_I2C_Master_Abort_IT
    <3> HIDE DEF c
    <3>3. QED
      BY <1>2, <3>1, <3>2
  <2>6. /\ UNCHANGED <<pc, req, slot, ret, moved, loose>>
        /\ busy' \in BOOLEAN /\ aborting' \in BOOLEAN /\ stopping' \in BOOLEAN
        /\ cb' \in {cb, None} /\ hal' \in {hal, None} /\ timer_id' \in {timer_id, None}
    BY <1>2, <1>14, <2>1
       DEF TimerExpires, i2c_timeout_cb, HAL_I2C_Master_Abort_IT, rtVars
  <2>7. QED
    BY <1>2, <2>2, <2>3, <2>4, <2>5, <2>6
<1>15. CASE UNCHANGED vars
  BY <1>2, <1>3, <1>4, <1>15 DEF vars
<1>16. QED
  BY <1>6, <1>7, <1>8, <1>9, <1>11, <1>12, <1>13, <1>14, <1>15 DEF Next, Call, Interrupt

(* Every step keeps the ids of requests fresh.                               *)
LEMMA IdsStep ==
  ASSUME TypeOK, IdsOwned, Known, [Next]_vars
  PROVE  IdsOwned'
<1> USE BoundAssumption DEF None, Request, TypeOK, IdsOwned, Starting
<1>1. CASE RefuseBusy
  BY <1>1 DEF RefuseBusy, rtVars, history, Dead
<1>2. CASE Accept \/ Probe
  BY <1>2 DEF Accept, Probe, i2c_bus_acquire
<1>3. CASE StoreCallback
  BY <1>3 DEF StoreCallback
<1>4. CASE StartAccepted
  BY <1>4 DEF StartAccepted, rtVars, Known
<1>5. CASE StartRefused
  BY <1>5 DEF StartRefused, rtVars
<1>6. CASE Register
  BY <1>6 DEF Register, rtVars, history, Dead
<1>7. CASE StoreId
  BY <1>7 DEF StoreId, history, Dead
<1>8. CASE CheckArmed
  BY <1>8 DEF CheckArmed, rtVars, history, Dead
<1>9. CASE i2c_async_fail \/ ProbeDone
  BY <1>9 DEF i2c_async_fail, ProbeDone, i2c_bus_release, i2c_timer_stop
<1>10. CASE TransferComplete \/ ErrorCallback
  BY <1>10 DEF TransferComplete, ErrorCallback, i2c_finish, i2c_timer_stop, rtVars
<1>11. CASE AbortComplete
  BY <1>11 DEF AbortComplete, i2c_finish, i2c_timer_stop, rtVars
<1>12. CASE TimerExpires
  <2> DEFINE e == Min(timers)
             c == [hit |-> hal, by |-> e]
  <2>1. i2c_timeout_cb(e) /\ UNCHANGED <<pc, req, slot>>
    BY <1>12 DEF TimerExpires
  <2> HIDE DEF e
  <2>2. CASE ~ busy \/ hal = None \/ atOnce
    BY <2>1, <2>2 DEF i2c_timeout_cb, HAL_I2C_Master_Abort_IT, rtVars, Known
  <2>3. CASE busy /\ hal # None /\ ~ atOnce
    <3>1. /\ timers' = timers \ {e} /\ timer_id' = None /\ stopping'
          /\ UNCHANGED <<busy, hal>> /\ cuts' = cuts \cup {c}
      BY <2>1, <2>3 DEF i2c_timeout_cb, HAL_I2C_Master_Abort_IT
    <3>2. \A x : Dead(x) \/ x = e => Dead(x)'
      BY <3>1 DEF Dead
    <3>3. QED
      BY <2>1, <2>3, <3>1, <3>2
  <2>4. QED
    BY <2>2, <2>3
<1>13. CASE UNCHANGED vars
  BY <1>13 DEF vars, Dead
<1>14. QED
  BY <1>1, <1>2, <1>3, <1>4, <1>5, <1>6, <1>7, <1>8, <1>9, <1>10, <1>11, <1>12, <1>13
     DEF Next, Call, Interrupt

(* Every step keeps what is known of the request in hand.                    *)
LEMMA KnownStep ==
  ASSUME TypeOK, IdsOwned, Known, [Next]_vars
  PROVE  Known'
<1> DEFINE Ids ==
      /\ cb <= req /\ hal <= req /\ slot <= req /\ timer_id <= req
      /\ timers \subseteq 1 .. req
      /\ moved \subseteq 1 .. req /\ early \subseteq 1 .. req
      /\ pc \notin {"idle", "probe"} => req # 0
      /\ stopping => hal # None /\ ~ atOnce
    Told == \A i \in DOMAIN reports : reports[i].req <= req
    Types == /\ cb \in Nat /\ hal \in Nat /\ slot \in Nat /\ timer_id \in Nat
             /\ req \in Nat /\ timers \subseteq Nat
<1>1. SUFFICES Ids' /\ Told'
  BY DEF Known
<1>2. Ids /\ Told /\ Types
  BY BoundAssumption DEF Known, TypeOK, None, Request
<1>3. req' = req /\ reports' = reports => Told'
  BY <1>2
<1>4. ASSUME NEW n \in Request \cup {None}, n <= req, NEW st \in Status, Report(n, st),
             req' = req
      PROVE  Told'
  BY <1>2, <1>4, ReportEffect, ReportsAre
<1> HIDE DEF Told
<1>19. atOnce' = atOnce
  BY DEF Next, vars
<1> USE <1>19 DEF None
<1>5. CASE RefuseBusy \/ StartRefused \/ CheckArmed
  <2>1. UNCHANGED <<rtVars, timers, req, slot, hal, stopping, history>>
    BY <1>5 DEF RefuseBusy, StartRefused, CheckArmed
  <2>2. pc' \notin {"idle", "probe"} => pc \notin {"idle", "probe"}
    BY <1>5 DEF RefuseBusy, StartRefused, CheckArmed
  <2>3. QED
    BY <1>2, <1>3, <2>1, <2>2 DEF rtVars, history
<1>6. CASE Accept
  <2>1. req' = req + 1 /\ reports' = reports
    BY <1>6 DEF Accept, history
  <2>2. Told'
    BY <1>2, <2>1, BoundAssumption, ReportsAre DEF Told, Request
  <2>3. QED
    BY <1>2, <1>6, <2>2 DEF Accept, i2c_bus_acquire, history
<1>7. CASE Probe
  BY <1>2, <1>3, <1>7 DEF Probe, i2c_bus_acquire, history
<1>17. CASE StoreCallback
  BY <1>2, <1>3, <1>17 DEF StoreCallback, history
<1>18. CASE StartAccepted
  BY <1>2, <1>3, <1>18 DEF StartAccepted, rtVars, history
<1>8. CASE Register
  <2>1. /\ UNCHANGED <<rtVars, hal, stopping, req, moved, reports, early>> /\ req # 0
        /\ slot' \in {None, req} /\ timers' \subseteq timers \cup {req}
    BY <1>2, <1>8 DEF Register, history
  <2>2. QED
    BY <1>2, <1>3, <1>8, <2>1 DEF Register, rtVars
<1>9. CASE StoreId
  BY <1>2, <1>3, <1>9 DEF StoreId, history
<1>10. CASE i2c_async_fail
  <2>1. Told'
    BY <1>2, <1>4, <1>10 DEF i2c_async_fail, TypeOK, Request, Status
  <2>2. QED
    BY <1>2, <1>10, <2>1 DEF i2c_async_fail, i2c_bus_release, i2c_timer_stop
<1>11. CASE ProbeDone
  BY <1>2, <1>3, <1>11 DEF ProbeDone, i2c_bus_release, i2c_timer_stop, history
<1>12. ASSUME NEW st \in Status, i2c_finish(st), req' = req
       PROVE  Told' /\ cb' <= req /\ timer_id' <= req /\ timers' \subseteq timers
  BY <1>2, <1>3, <1>4, <1>12 DEF i2c_finish, i2c_timer_stop, rtVars, TypeOK
<1>13. CASE TransferComplete \/ ErrorCallback \/ AbortComplete
  <2>1. PICK st \in Status : i2c_finish(st)
    BY <1>13 DEF TransferComplete, ErrorCallback, AbortComplete, Status
  <2>2. /\ req' = req /\ slot' = slot /\ pc' = pc /\ hal' = None /\ hal # None /\ ~ stopping'
        /\ moved' \subseteq moved \cup {hal} /\ early' \subseteq early \cup {hal}
    BY <1>2, <1>13 DEF TransferComplete, ErrorCallback, AbortComplete, EndedEarly, TypeOK
  <2>3. Told' /\ cb' <= req /\ timer_id' <= req /\ timers' \subseteq timers
    BY <1>12, <2>1, <2>2
  <2>4. QED
    BY <1>2, <2>2, <2>3
<1>14. CASE TimerExpires
  <2> DEFINE e == Min(timers)
  <2>1. i2c_timeout_cb(e) /\ UNCHANGED <<pc, req, slot, ret, moved, loose>>
    BY <1>14 DEF TimerExpires
  <2> HIDE DEF e
  <2>2. Told'
    BY <1>2, <1>3, <1>4, <2>1 DEF i2c_timeout_cb, HAL_I2C_Master_Abort_IT, Status, TypeOK
  <2>3. early' \subseteq 1 .. req
    BY <1>2, <2>1 DEF i2c_timeout_cb, HAL_I2C_Master_Abort_IT, EndedEarly
  <2>4. /\ UNCHANGED <<pc, req, slot, moved>> /\ timers' \subseteq timers
        /\ cb' \in {cb, None} /\ hal' \in {hal, None} /\ timer_id' \in {timer_id, None}
    BY <2>1 DEF i2c_timeout_cb, HAL_I2C_Master_Abort_IT, rtVars
  <2>5. stopping' => hal' # None /\ ~ atOnce
    BY <1>2, <2>1 DEF i2c_timeout_cb, HAL_I2C_Master_Abort_IT
  <2>6. QED
    BY <1>2, <2>2, <2>3, <2>4, <2>5
<1>15. CASE UNCHANGED vars
  BY <1>2, <1>3, <1>15 DEF vars
<1>16. QED
  BY <1>5, <1>6, <1>7, <1>8, <1>9, <1>10, <1>11, <1>13, <1>14, <1>15,
     <1>17, <1>18 DEF Next, Call, Interrupt

(* While Guarded, a transfer that ends is the current request's: it lets go  *)
(* of the bus and is reported, as OK only if it moved its data.              *)
EndsRunning(st) ==
  /\ hal' = None /\ busy' = FALSE /\ cb' = None
  /\ Report(req, st)
  /\ early' = EndedEarly
  /\ timers' \subseteq timers
  /\ moved \subseteq moved' /\ (st = "OK" => req \in moved')
  /\ UNCHANGED <<pc, req, loose>>

(* An interrupt that ends the transfer ends the request.                     *)
LEMMA Ending ==
  ASSUME TypeOK, Known, Guarded, hal # None, Interrupt, hal' # hal
  PROVE  \E st \in Status : EndsRunning(st)
<1>1. hal = req /\ busy /\ cb = req /\ req # None /\ (stopping => aborting)
  BY DEF Guarded, Known
<1>2. CASE TransferComplete
  <2>1. EndsRunning("OK")
    BY <1>1, <1>2 DEF TransferComplete, EndsRunning, i2c_finish, i2c_timer_stop
  <2>2. QED
    BY <2>1 DEF Status
<1>3. CASE ErrorCallback
  <2>1. EndsRunning("IO")
    BY <1>1, <1>3 DEF ErrorCallback, EndsRunning, i2c_finish, i2c_timer_stop
  <2>2. QED
    BY <2>1 DEF Status
<1>4. CASE AbortComplete
  <2>1. EndsRunning("IO")
    BY <1>1, <1>4 DEF AbortComplete, EndsRunning, i2c_finish, i2c_timer_stop
  <2>2. QED
    BY <2>1 DEF Status
<1>5. CASE TimerExpires
  <2> DEFINE e == Min(timers)
  <2>1. i2c_timeout_cb(e) /\ UNCHANGED <<pc, req, slot, ret, moved, loose>>
    BY <1>5 DEF TimerExpires
  <2> HIDE DEF e
  <2>2. EndsRunning("IO")
    BY <1>1, <2>1 DEF EndsRunning, i2c_timeout_cb, HAL_I2C_Master_Abort_IT
  <2>3. QED
    BY <2>2 DEF Status
<1>6. QED
  BY <1>2, <1>3, <1>4, <1>5 DEF Interrupt

(* Any other is a timer's: it finds nothing to end, or has the HAL request a *)
(* STOP, for which the mark is then set.                                     *)
LEMMA NothingEnds ==
  ASSUME Known, Interrupt, hal' = hal
  PROVE  /\ timers' \subseteq timers
         /\ UNCHANGED <<busy, cb, hal, pc, req, slot, moved, reports, early, loose>>
         /\ timer_id' \in {timer_id, None}
         /\ \/ UNCHANGED <<stopping, cuts>> /\ (hal # None => ~ busy)
            \/ /\ stopping' /\ aborting' /\ hal # None
               /\ timers' = timers \ {Min(timers)}
               /\ cuts' = cuts \cup {[hit |-> hal, by |-> Min(timers)]}
<1> DEFINE e == Min(timers)
<1>1. i2c_timeout_cb(e) /\ UNCHANGED <<pc, req, slot, ret, moved, loose>>
  BY DEF Interrupt, TransferComplete, ErrorCallback, AbortComplete, TimerExpires, Known
<1> HIDE DEF e
<1>2. QED
  BY <1>1 DEF e, i2c_timeout_cb, HAL_I2C_Master_Abort_IT, rtVars

(* No interrupt starts a transfer.                                           *)
LEMMA EndsOnce ==
  ASSUME Known, Interrupt, hal' # hal
  PROVE  hal # None /\ hal' = None
  BY DEF Interrupt, TransferComplete, ErrorCallback, AbortComplete, TimerExpires,
     i2c_timeout_cb, HAL_I2C_Master_Abort_IT, Known

(* Every step keeps a running transfer guarded, until a call failed under one. *)
LEMMA GuardedStep ==
  ASSUME TypeOK, IdsOwned, Known, Guarded, Progress, ~ loose', [Next]_vars
  PROVE  Guarded'
<1> USE DEF None, Guarded, Starting
<1>1. CASE RefuseBusy
  BY <1>1 DEF RefuseBusy, rtVars
<1>2. CASE Accept \/ Probe
  BY <1>2 DEF Accept, Probe
<1>3. CASE StoreCallback
  BY <1>3 DEF StoreCallback
<1>4. CASE StartAccepted
  BY <1>4 DEF StartAccepted, rtVars, Progress, Known
<1>5. CASE StartRefused
  BY <1>5 DEF StartRefused, rtVars
<1>6. CASE Register
  BY <1>6 DEF Register, rtVars
<1>7. CASE StoreId
  BY <1>7 DEF StoreId
<1>8. CASE CheckArmed
  BY <1>8 DEF CheckArmed, rtVars, IdsOwned, Dead
<1>9. CASE i2c_async_fail \/ ProbeDone
  BY <1>9 DEF i2c_async_fail, ProbeDone, TypeOK
<1>10. CASE Interrupt
  <2>1. CASE hal' # hal /\ hal # None
    BY <1>10, <2>1, Ending DEF EndsRunning
  <2>2. CASE hal' = hal /\ hal # None
    BY <1>10, <2>2, NothingEnds
  <2>3. CASE hal = None
    BY <1>10, <2>3, EndsOnce
  <2>4. QED
    BY <2>1, <2>2, <2>3
<1>11. CASE UNCHANGED vars
  BY <1>11 DEF vars
<1>12. QED
  BY <1>1, <1>2, <1>3, <1>4, <1>5, <1>6, <1>7, <1>8, <1>9, <1>10, <1>11 DEF Next, Call

(* Every step keeps the progress of the transfer.                            *)
LEMMA ProgressStep ==
  ASSUME TypeOK, IdsOwned, Known, Guarded, Progress, ~ loose', [Next]_vars
  PROVE  Progress'
<1> USE DEF None
<1>1. ASSUME reports' = reports, req' = req
      PROVE  (Unreported <=> Unreported') /\ (ReportedLast <=> ReportedLast')
  BY <1>1 DEF Unreported, ReportedLast
<1>2. ASSUME NEW st \in Status, Report(req, st), req' = req, req # None
      PROVE  ReportedLast'
  <2>1. Len(reports') = Len(reports) + 1 /\ reports'[Len(reports) + 1].req = req
    BY <1>2, ReportEffect DEF TypeOK, Request
  <2>2. QED
    BY <1>2, <2>1, ReportsAre DEF ReportedLast
<1> HIDE DEF Unreported, ReportedLast
<1> USE DEF Progress, Starting
<1>3. CASE RefuseBusy
  BY <1>1, <1>3 DEF RefuseBusy, rtVars, history
<1>4. CASE Accept
  <2>1. /\ req' = req + 1 /\ reports' = reports /\ early' = early /\ busy' = TRUE
        /\ cb' = None /\ pc' = "try_busy" /\ hal' = None
    BY <1>4 DEF Accept, i2c_bus_acquire, history, Guarded
  <2>2. Unreported' /\ req' \notin early
    BY <2>1, ReportsAre, BoundAssumption DEF Known, Unreported, TypeOK, Request
  <2>3. QED
    BY <2>1, <2>2
<1>5. CASE Probe
  BY <1>1, <1>5 DEF Probe, i2c_bus_acquire, history, Guarded
<1>6. CASE StoreCallback
  BY <1>1, <1>6 DEF StoreCallback, history, Guarded
<1>7. CASE StartAccepted
  BY <1>1, <1>7 DEF StartAccepted, history, rtVars, Known
<1>8. CASE StartRefused
  BY <1>1, <1>8 DEF StartRefused, history, rtVars, Guarded
<1>9. CASE Register
  BY <1>1, <1>9 DEF Register, rtVars, history
<1>10. CASE StoreId
  BY <1>1, <1>10 DEF StoreId, history
<1>11. CASE CheckArmed
  <2>1. UNCHANGED <<cb, busy, hal, req, reports, early>>
    BY <1>11 DEF CheckArmed, history, rtVars
  <2>2. CASE pc' = "fail"
    <3>1. hal # None => Unreported /\ req \notin early
      BY <1>11
    <3>2. QED
      BY <1>1, <1>11, <2>1, <2>2, <3>1 DEF CheckArmed
  <2>3. CASE pc' = "idle"
    BY <1>1, <1>11, <2>1, <2>3 DEF CheckArmed
  <2>4. QED
    BY <1>11, <2>2, <2>3 DEF CheckArmed
<1>12. CASE i2c_async_fail
  <2>1. ReportedLast'
    BY <1>2, <1>12 DEF i2c_async_fail, Status, Known
  <2>2. QED
    BY <1>12, <2>1 DEF i2c_async_fail, i2c_bus_release, TypeOK
<1>13. CASE ProbeDone
  BY <1>1, <1>13 DEF ProbeDone, i2c_bus_release, history, Guarded
<1>14. CASE Interrupt /\ hal' # hal
  <2>1. PICK st \in Status : EndsRunning(st)
    BY <1>14, Ending, EndsOnce
  <2>2. hal = req /\ req # None /\ (Starting \/ pc \in {"idle", "fail"})
    BY <1>14, EndsOnce DEF Guarded
  <2>3. ReportedLast'
    BY <1>2, <2>1, <2>2 DEF EndsRunning
  <2>4. QED
    BY <2>1, <2>2, <2>3 DEF EndsRunning, EndedEarly
<1>15. CASE Interrupt /\ hal' = hal
  BY <1>1, <1>15, NothingEnds
<1>16. CASE UNCHANGED vars
  BY <1>1, <1>16 DEF vars
<1>17. QED
  BY <1>3, <1>4, <1>5, <1>6, <1>7, <1>8, <1>9, <1>10, <1>11, <1>12, <1>13, <1>14, <1>15,
     <1>16 DEF Next, Call

(* A report of the current request is its first, or an error that follows    *)
(* its first at once.                                                        *)
LEMMA Appended ==
  ASSUME TypeOK, req # None, NEW st \in Status, Report(req, st),
         Paired, AllReported, OkMeansMoved, ~ loose,
         req' = req, early \subseteq early', moved \subseteq moved',
         st = "OK" => req \in moved',
         \/ Unreported
         \/ /\ st = "IO" /\ req \in early
            /\ \A i \in DOMAIN reports : reports[i].req = req => i = Len(reports)
  PROVE  Paired' /\ AllReported' /\ OkMeansMoved'
<1> DEFINE k == Len(reports)
<1>1. /\ k \in Nat /\ DOMAIN reports = 1 .. k /\ DOMAIN reports' = 1 .. k + 1
      /\ reports'[k + 1].req = req /\ reports'[k + 1].status = st
      /\ \A i \in 1 .. k : reports'[i] = reports[i]
  BY ReportEffect, ReportsAre DEF TypeOK, Request, None
<1> HIDE DEF k
<1>2. Paired'
  <2>1. SUFFICES ASSUME NEW i \in 1 .. k + 1, NEW j \in 1 .. k + 1,
                        i < j, reports'[i].req = reports'[j].req
                 PROVE  /\ j = i + 1 /\ reports'[j].status = "IO"
                        /\ reports'[i].req \in early
    BY <1>1 DEF Paired
  <2>2. i \in 1 .. k /\ reports'[i] = reports[i]
    BY <1>1, <2>1
  <2>3. CASE j \in 1 .. k
    BY <1>1, <2>1, <2>2, <2>3 DEF Paired
  <2>4. CASE j = k + 1
    <3>1. reports[i].req = req
      BY <1>1, <2>1, <2>2, <2>4
    <3>2. i = k /\ st = "IO" /\ req \in early
      BY <1>1, <2>2, <3>1 DEF Unreported, k
    <3>3. QED
      BY <1>1, <2>2, <2>4, <3>1, <3>2
  <2>5. QED
    BY <1>1, <2>1, <2>3, <2>4
<1>3. AllReported'
  BY <1>1 DEF AllReported
<1>4. OkMeansMoved'
  BY <1>1 DEF OkMeansMoved
<1>5. QED
  BY <1>2, <1>3, <1>4

ReportsKept == Paired /\ OneYet /\ AllReported /\ OkMeansMoved

(* Every step keeps what was reported.                                       *)
LEMMA ReportsStep ==
  ASSUME TypeOK, Known, Guarded, Progress, ReportsKept, ~ loose, ~ loose', [Next]_vars
  PROVE  ReportsKept'
<1> USE DEF None
<1>1. ASSUME reports' = reports, req' = req, early' = early, moved' = moved,
             pc' = pc \/ ~ (Starting \/ pc = "fail")' \/ Unreported
                \/ (Starting /\ pc' \in {"store", "check", "fail"})
      PROVE  ReportsKept'
  <2>1. Paired' /\ AllReported' /\ OkMeansMoved'
    BY <1>1 DEF ReportsKept, Paired, AllReported, OkMeansMoved
  <2>2. OneYet'
    BY <1>1 DEF ReportsKept, OneYet, Unreported, Starting
  <2>3. QED
    BY <2>1, <2>2 DEF ReportsKept
<1>2. CASE RefuseBusy \/ Probe \/ StoreCallback \/ ProbeDone
  BY <1>1, <1>2 DEF RefuseBusy, Probe, StoreCallback, ProbeDone, rtVars, history, Starting
<1>3. CASE Accept
  <2>1. /\ req' = req + 1 /\ UNCHANGED <<reports, early, moved>> /\ pc' = "try_busy"
        /\ hal = None /\ pc = "idle"
    BY <1>3 DEF Accept, history, Guarded
  <2>2. req # 0 => \E i \in DOMAIN reports : reports[i].req = req
    BY <2>1, ReportsAre DEF Progress, ReportedLast
  <2>3. AllReported'
    BY <2>1, <2>2 DEF AllReported, ReportsKept, TypeOK
  <2>4. QED
    BY <2>1, <2>3 DEF ReportsKept, Paired, OneYet, OkMeansMoved, Starting
<1>4. CASE StartAccepted \/ StartRefused
  BY <1>1, <1>4 DEF StartAccepted, StartRefused, history, Progress
<1>5. CASE Register \/ StoreId \/ CheckArmed
  BY <1>1, <1>5 DEF Register, StoreId, CheckArmed, history, Starting
<1>6. CASE i2c_async_fail
  <2>1. /\ Report(req, "IO") /\ req # None /\ req' = req /\ moved' = moved
        /\ early' = early /\ pc = "fail" /\ pc' = "idle"
    BY <1>6 DEF i2c_async_fail, Known
  <2>2. \/ Unreported
        \/ /\ req \in early
           /\ \A i \in DOMAIN reports : reports[i].req = req => i = Len(reports)
    BY <2>1 DEF Progress, ReportsKept, OneYet
  <2>3. Paired' /\ AllReported' /\ OkMeansMoved'
    BY <2>1, <2>2, Appended DEF ReportsKept, Status
  <2>4. QED
    BY <2>1, <2>3 DEF ReportsKept, OneYet, Starting
<1>7. CASE Interrupt /\ hal' # hal
  <2>1. PICK st \in Status : EndsRunning(st)
    BY <1>7, Ending, EndsOnce
  <2>2. hal = req /\ req # None /\ Unreported
    BY <1>7, EndsOnce DEF Guarded, Progress
  <2>3. early \subseteq early'
    BY <2>1 DEF EndsRunning, EndedEarly
  <2>4. Paired' /\ AllReported' /\ OkMeansMoved'
    BY <2>1, <2>2, <2>3, Appended DEF ReportsKept, EndsRunning
  <2>5. OneYet'
    <3>1. Report(req, st) /\ req' = req
      BY <2>1 DEF EndsRunning
    <3>2. /\ Len(reports') = Len(reports) + 1 /\ DOMAIN reports' = 1 .. Len(reports) + 1
          /\ \A i \in 1 .. Len(reports) : reports'[i] = reports[i]
      BY <2>2, <3>1, ReportEffect DEF TypeOK, Request
    <3>3. QED
      BY <2>2, <3>1, <3>2, ReportsAre DEF OneYet, Unreported
  <2>6. QED
    BY <2>4, <2>5 DEF ReportsKept
<1>8. CASE Interrupt /\ hal' = hal
  BY <1>1, <1>8, NothingEnds
<1>9. CASE UNCHANGED vars
  BY <1>1, <1>9 DEF vars
<1>10. QED
  BY <1>2, <1>3, <1>4, <1>5, <1>6, <1>7, <1>8, <1>9 DEF Next, Call

Causes ==
  /\ EntryHeld
  /\ EntriesExplained
  /\ \A c \in cuts : Explained(c.by, c.hit)

(* The entry of an ended transfer stays behind only if the start call was    *)
(* still to store it, or if an older entry asked for its abort.              *)
LEMMA CausesStep ==
  ASSUME TypeOK, IdsOwned, Known, Guarded, Progress, Causes, ~ loose', [Next]_vars
  PROVE  Causes'
<1> USE DEF None
<1>1. ASSUME early \subseteq early', cuts \subseteq cuts', NEW e, NEW n, Explained(e, n)
      PROVE  Explained(e, n)'
  BY <1>1 DEF Explained
<1>2. None \notin timers
  BY DEF TypeOK, Request
<1>3. ASSUME early \subseteq early', cuts' = cuts, timers' \subseteq timers,
             hal' = hal \/ hal = None
      PROVE  EntriesExplained' /\ \A c \in cuts' : Explained(c.by, c.hit)'
  <2>1. \A c \in cuts' : Explained(c.by, c.hit)'
    BY <1>1, <1>3 DEF Causes
  <2>2. ASSUME NEW e \in timers'
        PROVE  Explained(e, hal)'
    <3>1. e # None /\ Explained(e, hal)
      BY <1>2, <1>3, <2>2 DEF Causes, EntriesExplained
    <3>2. Explained(e, hal')
      BY <1>3, <3>1 DEF Explained
    <3>3. QED
      BY <1>3, <3>2 DEF Explained
  <2>3. QED
    BY <2>1, <2>2 DEF EntriesExplained
<1>4. CASE Register
  <2>1. UNCHANGED <<cuts, early, hal>> /\ timers' \subseteq timers \cup {req}
    BY <1>4 DEF Register, history
  <2>2. Explained(req, hal)
    BY <1>4 DEF Register, Guarded, Progress, Starting, Explained
  <2>3. EntryHeld'
    BY <1>4 DEF Register, EntryHeld
  <2>4. QED
    BY <2>1, <2>2, <2>3 DEF Causes, EntriesExplained, Explained
<1>5. CASE RefuseBusy \/ Accept \/ Probe \/ StoreCallback \/ StartAccepted \/ StartRefused
             \/ StoreId \/ CheckArmed
  <2>1. early' = early /\ cuts' = cuts /\ timers' = timers /\ (hal' = hal \/ hal = None)
    BY <1>5 DEF RefuseBusy, Accept, Probe, StoreCallback, StartAccepted, StartRefused,
       StoreId, CheckArmed, history
  <2>2. EntryHeld'
    <3>1. SUFFICES ASSUME hal' # None, pc' = "idle", (req \in timers)'
                   PROVE  timer_id' = req' \/ Overtaken'
      BY DEF EntryHeld
    <3>2. CASE CheckArmed
      BY <3>1, <3>2 DEF CheckArmed, Guarded, rtVars
    <3>3. CASE RefuseBusy
      BY <3>1, <3>3 DEF RefuseBusy, Causes, EntryHeld, Overtaken, rtVars, history
    <3>4. QED
      BY <1>5, <3>1, <3>2, <3>3
         DEF Accept, Probe, StoreCallback, StartAccepted, StartRefused, StoreId
  <2>3. QED
    BY <1>3, <2>1, <2>2 DEF Causes
<1>6. CASE i2c_async_fail \/ ProbeDone
  <2>1. /\ early' = early /\ cuts' = cuts /\ timers' \subseteq timers /\ hal' = hal
    BY <1>6 DEF i2c_async_fail, ProbeDone, i2c_bus_release, i2c_timer_stop, history
  <2>2. hal = None
    BY <1>6 DEF i2c_async_fail, ProbeDone, Guarded, Starting, TypeOK
  <2>3. QED
    BY <1>3, <2>1, <2>2 DEF Causes, EntryHeld
<1>7. CASE Interrupt /\ hal = None
  <2>1. hal' = None
    BY <1>7, EndsOnce
  <2>2. QED
    BY <1>3, <1>7, <2>1, NothingEnds DEF Causes, EntryHeld
<1>8. CASE (TransferComplete \/ ErrorCallback \/ AbortComplete) /\ hal # None
  <2>1. hal = req /\ busy
    BY <1>8 DEF Guarded
  <2>2. /\ hal' = None /\ cuts' = cuts /\ early' = EndedEarly
        /\ timers' = timers \ {timer_id}
    BY <1>8, <2>1
       DEF TransferComplete, ErrorCallback, AbortComplete, i2c_finish, i2c_timer_stop
  <2>3. early \subseteq early' /\ (hal \in timers' => hal \in early' \/ Overtaken)
    BY <1>8, <2>1, <2>2 DEF EndedEarly, Guarded, Causes, EntryHeld
  <2>4. \A c \in cuts' : Explained(c.by, c.hit)'
    BY <1>1, <2>2, <2>3 DEF Causes
  <2>5. \A e \in timers' : Explained(e, hal)'
    BY <2>1, <2>2, <2>3 DEF Causes, EntriesExplained, Explained, Overtaken
  <2>6. QED
    BY <2>2, <2>4, <2>5 DEF Causes, EntriesExplained, EntryHeld
<1>9. CASE TimerExpires /\ hal # None
  <2> DEFINE m == Min(timers)
             c0 == [hit |-> hal, by |-> m]
  <2>1. /\ i2c_timeout_cb(m) /\ m \in timers /\ (\A e \in timers : m <= e)
        /\ m \in Nat /\ hal \in Nat /\ timers \subseteq Nat
    <3>1. /\ i2c_timeout_cb(m) /\ m \in timers /\ (\A e \in timers : m <= e)
      BY <1>9, OldestTimer DEF TimerExpires
    <3> HIDE DEF m
    <3>2. QED
      BY <3>1, BoundAssumption DEF TypeOK, Request
  <2> HIDE DEF m
  <2>2. /\ timers' = timers \ {m} /\ cuts' = cuts \cup {c0}
        /\ hal' \in {hal, None} /\ early \subseteq early'
    BY <1>9, <2>1 DEF i2c_timeout_cb, HAL_I2C_Master_Abort_IT, Guarded, EndedEarly
  <2>3. cuts \subseteq cuts'
    BY <2>2
  <2>4. \A c \in cuts' : Explained(c.by, c.hit)'
    <3>1. Explained(m, hal)
      BY <2>1 DEF Causes, EntriesExplained
    <3>2. c0.by = m /\ c0.hit = hal
      OBVIOUS
    <3>3. QED
      BY <1>1, <2>2, <2>3, <3>1, <3>2 DEF Causes
  <2>5. ASSUME NEW e \in timers'
        PROVE  Explained(e, hal)'
    <3>1. e \in timers /\ e # m /\ Explained(e, hal)
      BY <2>2, <2>5 DEF Causes, EntriesExplained
    <3>2. CASE e = hal
      <4>1. c0 \in cuts' /\ c0.hit = e /\ c0.by < e
        BY <2>1, <2>2, <3>1, <3>2
      <4>2. QED
        BY <4>1 DEF Explained
    <3>3. CASE e # hal
      BY <2>2, <2>3, <3>1, <3>3 DEF Explained
    <3>4. QED
      BY <3>2, <3>3
  <2>6. EntryHeld'
    <3>1. SUFFICES ASSUME hal' = hal, (req \in timers)'
                   PROVE  Overtaken'
      BY <2>2 DEF EntryHeld
    <3>2. req' = req /\ req = hal
      BY <1>9 DEF TimerExpires, Guarded
    <3>3. c0 \in cuts' /\ c0.hit = req /\ c0.by < req
      BY <2>1, <2>2, <3>1, <3>2
    <3>4. QED
      BY <3>2, <3>3 DEF Overtaken
  <2>7. QED
    BY <2>4, <2>5, <2>6 DEF Causes, EntriesExplained
<1>10. CASE UNCHANGED vars
  BY <1>3, <1>10 DEF vars, Causes, EntryHeld, Overtaken
<1>11. QED
  BY <1>4, <1>5, <1>6, <1>7, <1>8, <1>9, <1>10 DEF Next, Call, Interrupt

-----------------------------------------------------------------------------
(* Once a call has failed under its transfer, that stays on record.          *)
LEMMA LooseStays ==
  ASSUME loose \in BOOLEAN, loose, [Next]_vars
  PROVE  loose'
  BY DEF Next, Call, Interrupt, RefuseBusy, Accept, Probe, StoreCallback, StartAccepted,
     StartRefused, Register, StoreId, CheckArmed, i2c_async_fail, ProbeDone,
     TransferComplete, ErrorCallback, AbortComplete, TimerExpires, history, vars

(* Every step keeps what holds until a call failed under its transfer.       *)
LEMMA UntilLooseStep ==
  ASSUME DriverInv, [Next]_vars
  PROVE  UntilLoose'
<1>1. SUFFICES ASSUME ~ loose'
               PROVE  /\ Guarded' /\ Progress' /\ ReportsKept' /\ Causes'
  BY DEF UntilLoose, ReportsKept, Causes, CutsOwnTransfer
<1>2. ~ loose
  BY <1>1, LooseStays DEF DriverInv, TypeOK
<1>3. Guarded /\ Progress /\ ReportsKept /\ Causes
  BY <1>2 DEF DriverInv, UntilLoose, ReportsKept, Causes, CutsOwnTransfer
<1>4. QED
  BY <1>1, <1>2, <1>3, GuardedStep, ProgressStep, ReportsStep, CausesStep DEF DriverInv

(* The start.                                                                *)
LEMMA DriverInvInit == Init => DriverInv
<1> SUFFICES ASSUME Init PROVE DriverInv
  OBVIOUS
<1>1. TypeOK
  <2>1. <<>> \in Seq([req : Request, status : Status])
    OBVIOUS
  <2>2. Cardinality({}) <= Slots
    BY FS_EmptySet, SlotsAssumption
  <2>3. req \in 0 .. MaxRequests
    BY BoundAssumption DEF Init
  <2>4. QED
    BY <2>1, <2>2, <2>3, Zenon DEF Init, TypeOK, None, Request, Status
<1>2. IdsOwned /\ Known
  BY DEF Init, IdsOwned, Known, None, Starting
<1>3. UntilLoose
  BY DEF Init, UntilLoose, Guarded, Progress, Paired, OneYet, AllReported, EntriesExplained,
     EntryHeld, CutsOwnTransfer, OkMeansMoved, None, Starting
<1>4. QED
  BY <1>1, <1>2, <1>3 DEF DriverInv

(* Every step.                                                               *)
LEMMA DriverInvStep == DriverInv /\ [Next]_vars => DriverInv'
  BY TypeStep, IdsStep, KnownStep, UntilLooseStep DEF DriverInv

(* Whatever order the task's steps and the interrupts come in, the driver    *)
(* keeps its invariant (i2c.c: i2c_timeout_arm, i2c_finish, i2c_timeout_cb). *)
THEOREM Invariance == Spec => []DriverInv
  BY DriverInvInit, DriverInvStep, PTL DEF Spec

(* No state of the driver unregisters a foreign timer (a dead id apart),     *)
(* leaves a started transfer without a timer or an abort, or cuts a transfer  *)
(* with an entry that is not its own without a cause (i2c_timer_stop,         *)
(* i2c_timeout_arm, i2c_timeout_cb).                                          *)
THEOREM BusSafety == Spec => []BusInv
<1>1. DriverInv => BusInv
  <2>1. DriverInv => TypeOK /\ CutsOwnTransfer
    BY DEF DriverInv, UntilLoose, CutsOwnTransfer
  <2>2. DriverInv => IdIsOwn
    BY DEF DriverInv, IdsOwned, IdIsOwn, None
  <2>3. DriverInv => RunningIsGuarded
    BY DEF DriverInv, UntilLoose, Guarded, RunningIsGuarded
  <2>4. QED
    BY <2>1, <2>2, <2>3 DEF BusInv
<1>2. QED
  BY <1>1, Invariance, PTL

(* What is reported as OK has moved its own data (i2c_finish, called from    *)
(* HAL_I2C_MasterTxCpltCallback and the three like it).                      *)
THEOREM OkIsTrue == Spec => []OkMeansMoved
<1>1. DriverInv => OkMeansMoved
  BY DEF DriverInv, UntilLoose, OkMeansMoved
<1>2. QED
  BY <1>1, Invariance, PTL

-----------------------------------------------------------------------------
(***************************************************************************)
(* Reports, and the bus the client reckons with.                           *)
(***************************************************************************)
LEMMA ReportsOfFinite ==
  ASSUME TypeOK, NEW n
  PROVE  IsFiniteSet(ReportsOf(n)) /\ ReportsOf(n) \subseteq 1 .. Len(reports)
<1>1. ReportsOf(n) \subseteq 1 .. Len(reports) /\ Len(reports) \in Nat
  BY ReportsAre DEF ReportsOf
<1>2. IsFiniteSet(1 .. Len(reports))
  BY <1>1, FS_Interval
<1>3. QED
  BY <1>1, <1>2, FS_Subset

(* A set whose elements are all equal has at most one.                       *)
LEMMA AtMostOne ==
  ASSUME NEW S, \A i, j \in S : i = j
  PROVE  Cardinality(S) <= 1
<1>1. CASE S = {}
  BY <1>1, FS_EmptySet
<1>2. CASE S # {}
  <2>1. PICK i \in S : S = {i}
    BY <1>2
  <2>2. Cardinality({i}) = 1
    BY FS_Singleton
  <2>3. QED
    BY <2>1, <2>2, SMT
<1>3. QED
  BY <1>1, <1>2

(* Every accepted request is reported; a second report, an error, only       *)
(* follows the first of a request whose transfer ended within its own start  *)
(* call (i2c_async_fail after i2c_finish).                                   *)
THEOREM Reporting == Spec => []ReportedOnce
<1>1. ASSUME DriverInv
      PROVE  ReportedOnce
  <2>1. SUFFICES ASSUME ~ loose, NEW n \in 1 .. req
                 PROVE  /\ Over(n) => ReportsOf(n) # {}
                        /\ n \notin early => Cardinality(ReportsOf(n)) <= 1
                        /\ \A i, j \in ReportsOf(n) :
                             i < j => reports[j].status = "IO" /\ j = i + 1
    BY DEF ReportedOnce
  <2>2. TypeOK /\ Progress /\ Paired /\ AllReported
    BY <1>1, <2>1 DEF DriverInv, UntilLoose
  <2>3. ASSUME Over(n)
        PROVE  ReportsOf(n) # {}
    <3>1. CASE n < req
      <4>1. n \in 1 .. req - 1
        BY <2>1, <2>2, <3>1 DEF TypeOK
      <4>2. QED
        BY <2>2, <4>1 DEF AllReported, ReportsOf
    <3>2. CASE n = req /\ pc = "idle" /\ hal = None
      BY <2>1, <2>2, <3>2, ReportsAre DEF Progress, ReportedLast, ReportsOf
    <3>3. QED
      BY <2>3, <3>1, <3>2 DEF Over
  <2>4. \A i, j \in ReportsOf(n) :
          i < j => reports[j].status = "IO" /\ j = i + 1 /\ n \in early
    BY <2>2 DEF Paired, ReportsOf
  <2>5. ASSUME n \notin early
        PROVE  Cardinality(ReportsOf(n)) <= 1
    <3>1. \A i, j \in ReportsOf(n) : i = j
      BY <2>2, <2>4, <2>5, ReportsOfFinite, ReportsAre
    <3>2. QED
      BY <3>1, AtMostOne
  <2>6. QED
    BY <2>3, <2>4, <2>5
<1>2. QED
  BY <1>1, Invariance, PTL

(* The state of the bus as I2cDriver maps it.                               *)
Phase == IF pc \in {"idle", "probe"} THEN "out"
         ELSE IF Starting \/ (pc = "fail" /\ req \in early \cup {hal}) THEN "started" ELSE "called"
Told == Cardinality(ReportsOf(req))
LastTold == IF ReportsOf(req) = {} THEN "none" ELSE reports[Max(ReportsOf(req))].status

(* Reporting the request in hand tells its client once.                      *)
LEMMA Telling ==
  ASSUME TypeOK, req # None, NEW st \in Status, Report(req, st), req' = req
  PROVE  Told' = Told + 1 /\ LastTold' = st
<1> DEFINE k == Len(reports)
           R == ReportsOf(req)
<1>1. /\ k \in Nat /\ DOMAIN reports = 1 .. k /\ DOMAIN reports' = 1 .. k + 1
      /\ reports'[k + 1].req = req /\ reports'[k + 1].status = st
      /\ \A i \in 1 .. k : reports'[i] = reports[i]
  BY ReportEffect, ReportsAre DEF TypeOK, Request, None
<1>2. IsFiniteSet(R) /\ R \subseteq 1 .. k
  BY ReportsOfFinite
<1>3. R' = R \cup {k + 1} /\ k + 1 \notin R
  BY <1>1, <1>2 DEF ReportsOf
<1>4. Cardinality(R') = Cardinality(R) + 1
  BY <1>2, <1>3, FS_AddElement
<1>5. Max(R') = k + 1
  <2> HIDE DEF R, k
  <2>1. k + 1 \in R' /\ \A y \in R' : k + 1 >= y
    BY <1>1, <1>2, <1>3
  <2>2. \A x \in R' : x >= k + 1 => x = k + 1
    BY <1>1, <1>2, <1>3
  <2>3. Max(R') \in R' /\ \A y \in R' : Max(R') >= y
    BY <2>1, Zenon DEF Max
  <2>4. QED
    BY <2>1, <2>2, <2>3
<1>6. QED
  BY <1>1, <1>3, <1>4, <1>5 DEF Told, LastTold

(* A request not reported was told nothing.                                  *)
LEMMA UntoldIsNone ==
  ASSUME Unreported
  PROVE  Told = 0 /\ LastTold = "none"
<1>1. ReportsOf(req) = {}
  BY DEF Unreported, ReportsOf
<1>2. QED
  BY <1>1, FS_EmptySet DEF Told, LastTold

(* One step of the driver is one step of the bus its client sees, or none.   *)
LEMMA BusStep ==
  ASSUME DriverInv, DriverInv', ~ loose', Next
  PROVE  UNCHANGED loose /\ [Bus!Step]_(Bus!vars)
<1> DEFINE run == hal # None
<1> USE DEF None
<1>1. ~ loose /\ TypeOK /\ Known /\ Guarded /\ Progress /\ Progress'
  BY LooseStays DEF DriverInv, TypeOK, UntilLoose
<1>2. UNCHANGED loose
  BY <1>1 DEF DriverInv, TypeOK
<1>3. /\ Bus!Begin <=> /\ Phase = "out" /\ ~ run /\ Phase' = "called"
                       /\ Told' = 0 /\ LastTold' = "none" /\ run' = run
      /\ Bus!Refused <=> /\ Phase = "called" /\ Phase' = "out"
                         /\ Told' = Told + 1 /\ LastTold' = "IO" /\ run' = run
      /\ Bus!Started <=> /\ Phase = "called" /\ Phase' = "started" /\ run' = TRUE
                         /\ UNCHANGED <<Told, LastTold>>
      /\ Bus!Returned <=> /\ Phase = "started" /\ Phase' = "out"
                          /\ UNCHANGED <<run, Told, LastTold>>
      /\ Bus!FailedLate <=> /\ Phase = "started" /\ ~ run /\ Phase' = "out"
                            /\ Told' = Told + 1 /\ LastTold' = "IO" /\ run' = run
  BY Zenon DEF Bus!Begin, Bus!Refused, Bus!Started, Bus!Returned, Bus!FailedLate,
     Bus!Tell, Phase, Told, LastTold
<1>4. \A st : Bus!Ended(st) <=> /\ run /\ run' = FALSE /\ Phase' = Phase
                                /\ Told' = Told + 1 /\ LastTold' = st
  BY Zenon DEF Bus!Ended, Bus!Tell, Phase, Told, LastTold
<1>5. Phase' = Phase /\ run' = run /\ Told' = Told /\ LastTold' = LastTold
        => UNCHANGED Bus!vars
  BY <1>2, Zenon DEF Bus!vars, Phase, Told, LastTold
<1>6. reports' = reports /\ req' = req => Told' = Told /\ LastTold' = LastTold
  BY Zenon DEF Told, LastTold, ReportsOf
<1>7. ASSUME NEW st \in Status, Report(req, st), req' = req, req # None
      PROVE  Told' = Told + 1 /\ LastTold' = st
  BY <1>1, <1>7, Telling
<1> USE DEF Bus!Step
<1>8. CASE RefuseBusy \/ Probe \/ StoreCallback \/ StartRefused \/ Register \/ StoreId
             \/ ProbeDone
  <2>1. reports' = reports /\ req' = req /\ hal' = hal /\ early' = early
    BY <1>8 DEF RefuseBusy, Probe, StoreCallback, StartRefused, Register, StoreId,
       ProbeDone, history
  <2>2. Phase' = Phase
    <3>1. pc \in {"try_busy", "start"} => req \notin early \cup {hal}
      BY <1>1 DEF Guarded, Known, Progress, Starting
    <3>2. QED
      BY <1>1, <1>8, <2>1, <3>1 DEF RefuseBusy, Probe, StoreCallback, StartRefused, Register,
         StoreId, ProbeDone, Phase, Starting
  <2>3. QED
    BY <1>2, <1>5, <1>6, <2>1, <2>2
<1>9. CASE Accept
  <2>1. ReportsOf(req)' = {}
    BY <1>1, <1>9 DEF Accept, Progress, Unreported, ReportsOf
  <2>2. Told' = 0 /\ LastTold' = "none"
    BY <2>1, FS_EmptySet DEF Told, LastTold
  <2>3. Phase = "out" /\ Phase' = "called" /\ ~ run /\ run' = run
    BY <1>1, <1>9 DEF Accept, Guarded, Phase, Starting
  <2>4. QED
    BY <1>2, <1>3, <2>2, <2>3
<1>10. CASE StartAccepted
  <2>1. Phase = "called" /\ Phase' = "started" /\ run' = TRUE
    BY <1>1, <1>10 DEF StartAccepted, Phase, Starting, Known
  <2>2. QED
    BY <1>2, <1>3, <1>6, <1>10, <2>1 DEF StartAccepted, history
<1>11. CASE CheckArmed
  <2>1. reports' = reports /\ req' = req /\ hal' = hal /\ early' = early
    BY <1>11 DEF CheckArmed, history
  <2>2. CASE pc' = "fail"
    <3>1. req \in early \cup {hal}
      BY <1>1, <1>11, <2>2 DEF CheckArmed, Guarded, Known, Progress, Starting
    <3>2. Phase' = Phase
      BY <1>11, <2>1, <2>2, <3>1 DEF CheckArmed, Phase, Starting
    <3>3. QED
      BY <1>2, <1>5, <1>6, <2>1, <3>2
  <2>3. CASE pc' = "idle"
    <3>1. Phase = "started" /\ Phase' = "out"
      BY <1>11, <2>3 DEF CheckArmed, Phase, Starting
    <3>2. QED
      BY <1>2, <1>3, <1>6, <2>1, <3>1
  <2>4. QED
    BY <1>11, <2>2, <2>3 DEF CheckArmed
<1>12. CASE i2c_async_fail
  <2>1. /\ Report(req, "IO") /\ req' = req /\ req # None /\ hal' = hal /\ hal = None
        /\ Phase' = "out" /\ Phase \in {"called", "started"}
    BY <1>1, <1>12 DEF i2c_async_fail, Known, Phase, Starting, TypeOK
  <2>2. Told' = Told + 1 /\ LastTold' = "IO"
    BY <1>7, <2>1 DEF Status
  <2>3. QED
    BY <1>2, <1>3, <2>1, <2>2
<1>13. CASE Interrupt /\ hal' # hal
  <2>1. PICK st \in Status : EndsRunning(st)
    BY <1>1, <1>13, Ending, EndsOnce
  <2>2. hal = req /\ req # None /\ hal' = None
    BY <1>1, <1>13, EndsOnce DEF Guarded
  <2>3. Told' = Told + 1 /\ LastTold' = st
    BY <1>7, <2>1, <2>2 DEF EndsRunning
  <2>4. Phase' = Phase /\ run' = FALSE /\ run
    BY <2>1, <2>2 DEF EndsRunning, EndedEarly, Phase, Starting
  <2>5. QED
    BY <1>2, <1>4, <2>3, <2>4 DEF Status
<1>14. CASE Interrupt /\ hal' = hal
  <2>1. UNCHANGED <<hal, pc, req, reports, early>>
    BY <1>1, <1>14, NothingEnds
  <2>2. Phase' = Phase
    BY <2>1 DEF Phase, Starting
  <2>3. QED
    BY <1>2, <1>5, <1>6, <2>1, <2>2
<1>15. QED
  BY <1>8, <1>9, <1>10, <1>11, <1>12, <1>13, <1>14 DEF Next, Call

(* The driver starts where the abstract bus does.                            *)
LEMMA BusInit ==
  ASSUME Init
  PROVE  Bus!Init
<1>1. ReportsOf(req) = {}
  BY DEF Init, ReportsOf
<1>2. QED
  BY <1>1, FS_EmptySet DEF Init, Bus!Init, None, Starting

(* The driver implements the bus its client reckons with: every completion,  *)
(* error and timeout, within a start call or after it, is a step of I2cBus   *)
(* or invisible to it (i2c.c: the async calls, i2c_finish, i2c_timeout_cb).  *)
THEOREM Refinement == Spec => ImplementsBus
<1>1. ASSUME DriverInv, DriverInv', [Next]_vars
      PROVE  [Bus!Next]_(Bus!vars)
  <2>1. CASE UNCHANGED vars
    <3>1. UNCHANGED Bus!vars
      BY <2>1, Zenon DEF vars, Bus!vars, ReportsOf, Starting
    <3>2. QED
      BY <3>1
  <2>2. CASE Next /\ loose'
    BY <2>2 DEF Bus!Next
  <2>3. CASE Next /\ ~ loose'
    BY <1>1, <2>3, BusStep DEF Bus!Next
  <2>4. QED
    BY <1>1, <2>1, <2>2, <2>3
<1>2. QED
  BY <1>1, BusInit, Invariance, PTL DEF Spec, ImplementsBus, Bus!Spec

==============================================================================
