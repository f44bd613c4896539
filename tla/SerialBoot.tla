----------------------------- MODULE SerialBoot -----------------------------
(***************************************************************************)
(* serial_register of middleware/serial/serial.c, as the log task (TX) and *)
(* the cli task (RX) call it at start for the same UART, with uart_init of *)
(* drivers/platform/.../uart/uart.c below it.  The tasks have the same     *)
(* priority and are time-sliced, and nothing is locked: every test and     *)
(* every store of a shared flag is a step.  The two claims are for         *)
(* different directions, so neither finds the port claimed.                *)
(*                                                                         *)
(* If both tasks find the UART down, the second initialisation resets      *)
(* rings and HAL under the first one's feet.  That is recorded in twice,   *)
(* and such a behaviour is followed no further.                            *)
(***************************************************************************)
EXTENDS Naturals

VARIABLES
  stage,      \* where each task is in serial_register
  hw_up,      \* s_hw_up
  inited,     \* s_inited
  receiving,  \* reception was started
  rx_isr,     \* s_rx_isr is set
  evt_cb,     \* the UART's evt_cb is serial_uart_evt_cb
  failed,     \* history: HAL_UART_Init failed
  twice       \* history: initialised while the other task had it running

bootVars == <<stage, hw_up, inited, receiving, rx_isr, evt_cb, failed, twice>>

Booter == {"log", "cli"}

Initialising == {"hw", "kick", "inited"}

BootInit ==
  /\ stage = [t \in Booter |-> "test"]
  /\ hw_up = FALSE /\ inited = FALSE /\ receiving = FALSE
  /\ rx_isr = FALSE /\ evt_cb = FALSE /\ failed = FALSE /\ twice = FALSE

Go(t, from, to) == stage[t] = from /\ stage' = [stage EXCEPT ![t] = to]

(* serial_ensure_hw *)
TestClaims(t) ==          \* variant: the port is marked up before uart_init
  /\ Go(t, "test", IF hw_up THEN "claim" ELSE "init")
  /\ hw_up' = TRUE
  /\ UNCHANGED <<inited, receiving, rx_isr, evt_cb, failed, twice>>

TestUp(t) ==
  /\ Go(t, "test", IF hw_up THEN "claim" ELSE "init")
  /\ UNCHANGED <<hw_up, inited, receiving, rx_isr, evt_cb, failed, twice>>

(* uart_init *)
TestInited(t) ==
  /\ Go(t, "init", IF inited THEN "up" ELSE "rings")
  /\ UNCHANGED <<hw_up, inited, receiving, rx_isr, evt_cb, failed, twice>>

InitRings(t) ==
  /\ Go(t, "rings", "hw")
  /\ twice' = (receiving \/ \E u \in Booter \ {t} : stage[u] \in Initialising)
  /\ UNCHANGED <<hw_up, inited, receiving, rx_isr, evt_cb, failed>>

(* HAL_UART_Init may fail; serial_ensure_hw does not notice.                *)
InitHw(t) ==
  /\ \/ Go(t, "hw", "kick") /\ UNCHANGED failed
     \/ Go(t, "hw", "up") /\ failed' = TRUE
  /\ UNCHANGED <<hw_up, inited, receiving, rx_isr, evt_cb, twice>>

StartReception(t) ==
  /\ Go(t, "kick", "inited")
  /\ receiving' = TRUE
  /\ UNCHANGED <<hw_up, inited, rx_isr, evt_cb, failed, twice>>

SetInited(t) ==
  /\ Go(t, "inited", "up")
  /\ inited' = TRUE
  /\ UNCHANGED <<hw_up, receiving, rx_isr, evt_cb, failed, twice>>

SetUp(t) ==
  /\ Go(t, "up", "claim")
  /\ hw_up' = TRUE
  /\ UNCHANGED <<inited, receiving, rx_isr, evt_cb, failed, twice>>

(* The claim and its handler, then serial_update_uart_event.                *)
SetClaim(t) ==
  /\ Go(t, "claim", "event")
  /\ rx_isr' = (rx_isr \/ t = "cli")
  /\ UNCHANGED <<hw_up, inited, receiving, evt_cb, failed, twice>>

RegisterEvent(t) ==
  /\ Go(t, "event", "done")
  /\ evt_cb' = TRUE
  /\ UNCHANGED <<hw_up, inited, receiving, rx_isr, failed, twice>>

serial_register(t) ==
  \/ TestUp(t) \/ TestInited(t) \/ InitRings(t) \/ InitHw(t)
  \/ StartReception(t) \/ SetInited(t) \/ SetUp(t)
  \/ SetClaim(t) \/ RegisterEvent(t)

BootTypeOK ==
  /\ stage \in [Booter -> Initialising \cup
                  {"test", "init", "rings", "up", "claim", "event", "done"}]
  /\ {hw_up, inited, receiving, rx_isr, evt_cb, failed, twice} \subseteq BOOLEAN

(***************************************************************************)
(* A task that has its claim finds the UART working, although it may have  *)
(* left the initialisation to the other task, unless the HAL refused it;   *)
(* and a UART that works was received from before it was said to.          *)
(***************************************************************************)
PortComesUp ==
  /\ \A t \in Booter :
       stage[t] \in {"claim", "event", "done"} => hw_up /\ (inited \/ failed \/ twice)
  /\ inited => receiving
=============================================================================
