------------------------------- MODULE I2cBus -------------------------------
(***************************************************************************)
(* What an i2c driver promises its client, one request at a time: a start  *)
(* call is refused, and reports so, or starts the transfer; a transfer     *)
(* that was started ends, and is reported, once.  It may end before the    *)
(* call returns, and only then may the call fail nevertheless and report a *)
(* failure after the end.  SensorImu relies on just this; I2cDriver        *)
(* implements it as long as there is a free timer for every transfer.      *)
(***************************************************************************)
EXTENDS Naturals

VARIABLES
  phase,     \* "out" of a start call, "called", or with the transfer "started"
  running,   \* the transfer goes on
  told,      \* reports made of the current request
  last,      \* status of the last of them, or "none"
  exhausted  \* a call failed under its transfer: nothing is promised any more

vars == <<phase, running, told, last, exhausted>>

Init == phase = "out" /\ running = FALSE /\ told = 0 /\ last = "none" /\ exhausted = FALSE

Tell(status) == told' = told + 1 /\ last' = status

Begin ==
  /\ phase = "out" /\ ~ running
  /\ phase' = "called"
  /\ told' = 0 /\ last' = "none"
  /\ UNCHANGED running

Refused ==
  /\ phase = "called"
  /\ phase' = "out"
  /\ Tell("IO")
  /\ UNCHANGED running

Started ==
  /\ phase = "called"
  /\ phase' = "started" /\ running' = TRUE
  /\ UNCHANGED <<told, last>>

Ended(status) ==
  /\ running
  /\ running' = FALSE
  /\ Tell(status)
  /\ UNCHANGED phase

Returned ==
  /\ phase = "started"
  /\ phase' = "out"
  /\ UNCHANGED <<running, told, last>>

FailedLate ==
  /\ phase = "started" /\ ~ running
  /\ phase' = "out"
  /\ Tell("IO")
  /\ UNCHANGED running

Step ==
  \/ Begin \/ Refused \/ Started \/ Returned \/ FailedLate
  \/ \E status \in {"OK", "IO"} : Ended(status)

Next == (Step /\ UNCHANGED exhausted) \/ exhausted'

Spec == Init /\ [][Next]_vars
=============================================================================
