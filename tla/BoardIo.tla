------------------------------ MODULE BoardIo ------------------------------
(***************************************************************************)
(* The board after its start: the tasks bring up the peripherals they own, *)
(* and the external interrupts come in.  Every step of a driver's          *)
(* initialisation is an operation of a script; the scripts of two tasks of *)
(* equal priority are interleaved by time slicing, and interrupts preempt  *)
(* them.  On the F2 a peripheral clock is enabled by a read-modify-write   *)
(* of a shared register, on the N6 by a write to a set register.           *)
(***************************************************************************)
EXTENDS ClockTree, Sequences

CONSTANTS
    Lines,          \* EXTI lines in use: 0 by the IR receiver, others by an application
    MaxEdges        \* bound: edges per line

ASSUME IoAssumption == Lines \subseteq 0..15 /\ 0 \in Lines /\ MaxEdges \in Nat

Tasks == {"ir", "sensor", "serial"}
Prio == [ir |-> 2, sensor |-> 2, serial |-> 1]
Ports == {"PA", "PB", "PC", "PD", "PE", "PH"}
Units == Ports \cup {"TIM1", "TIM3", "I2C1", "USART1", "USART3"}

VARIABLES
    todo,           \* what is left of each task's script
    clocked, held,  \* units with their clock on; a register as a task loaded it
    clobbered,      \* history: enable bits lost to the store of another task
    lost,           \* history: writes to a unit whose clock is off
    i2cUp,          \* s_inited of the bus
    slot,           \* s_exti: the callback and the context stored for a line
    armed, nvic,    \* lines with their edge detection on, vectors enabled
    edges, pend,    \* edges seen by a line, and its pending flags
    isr,            \* lines and flags the running interrupt still has to look at
    missed          \* history: an edge found no callback, or one without its context

ioVars == <<todo, clocked, held, clobbered, lost, i2cUp, slot, armed, nvic, edges, pend,
            isr, missed>>
vars == <<bootVars, ioVars>>

---------------------------------------------------------------------------
(* The drivers' initialisations, as scripts of <<operation, operand>>; two pins of one *)
(* port are one operation.                                                            *)

RegOf(u) == CASE u \in Ports -> "AHB" [] u \in {"I2C1", "USART3"} -> "APB1" [] OTHER -> "APB2"

clk_enable(b, u) == IF b = "F2" THEN <<<<"load", u>>, <<"store", u>>>> ELSE <<<<"set", u>>>>

gpio_pin_init(b, port) == clk_enable(b, port) \o <<<<"pin", port>>>>

\* variant: the line is armed before its callback is stored
ArmFirst(b, port, l) ==
    clk_enable(b, port) \o <<<<"arm", l>>, <<"ctx", l>>, <<"cb", l>>, <<"nvic", l>>>>

gpio_config_input_exti(b, port, l) ==
    <<<<"ctx", l>>, <<"cb", l>>>> \o clk_enable(b, port) \o <<<<"arm", l>>, <<"nvic", l>>>>

ir_rx_drv_init(b) == gpio_config_input_exti(b, [F2 |-> "PC", N6 |-> "PA"][b], 0)

ir_tx_drv_init(b) ==
    LET tim == [F2 |-> "TIM1", N6 |-> "TIM3"][b]
    IN  clk_enable(b, tim) \o gpio_pin_init(b, "PA") \o <<<<"dev", tim>>>>

\* Clock source (N6), port clocks, bus clock, pins, controller.
i2c_hw_init(b) ==
    IF b = "F2"
    THEN clk_enable(b, "PB") \o clk_enable(b, "I2C1") \o <<<<"pin", "PB">>, <<"i2c", "I2C1">>>>
    ELSE <<<<"source", "I2C1">>>> \o clk_enable(b, "PH") \o clk_enable(b, "PC")
         \o clk_enable(b, "I2C1") \o <<<<"pin", "PH">>, <<"pin", "PC">>, <<"i2c", "I2C1">>>>

\* The console's port and unit: the virtual COM port of the debugger.
ConsolePort == [F2 |-> "PD", N6 |-> "PE"]
ConsoleUart == [F2 |-> "USART3", N6 |-> "USART1"]

HAL_UART_MspInit(b) ==
    clk_enable(b, ConsolePort[b]) \o clk_enable(b, ConsoleUart[b])
    \o <<<<"pin", ConsolePort[b]>>, <<"dev", ConsoleUart[b]>>>>

Scripts == [b \in Boards |-> [ir |-> ir_rx_drv_init(b) \o ir_tx_drv_init(b),
                              sensor |-> i2c_hw_init(b),
                              serial |-> HAL_UART_MspInit(b)]]

Done(t) == todo[t] = <<>>
Op(t) == Head(todo[t])

\* A task runs when the scheduler does, no interrupt is active and nothing of higher
\* priority is ready.
Scheduled(t) ==
    /\ pc = "running" /\ isr = {}
    /\ \A o \in Tasks : Prio[o] > Prio[t] => Done(o)

Running(t) == Scheduled(t) /\ ~Done(t)

Step(t) == todo' = [todo EXCEPT ![t] = Tail(@)]

---------------------------------------------------------------------------
(* The operations *)

IoInit ==
    /\ BootInit
    /\ todo = Scripts[board]
    /\ clocked = {} /\ held = [t \in Tasks |-> {}]
    /\ clobbered = {} /\ lost = {} /\ i2cUp = FALSE
    /\ slot = [l \in Lines |-> {}]
    /\ armed = {} /\ nvic = {}
    /\ edges = [l \in Lines |-> 0] /\ pend = [l \in Lines |-> {}]
    /\ isr = {} /\ missed = FALSE

SetClock(t) ==
    /\ Running(t) /\ Op(t)[1] = "set"
    /\ clocked' = clocked \cup {Op(t)[2]}
    /\ Step(t)
    /\ UNCHANGED <<bootVars, held, clobbered, lost, i2cUp, slot, armed, nvic, edges, pend,
                   isr, missed>>

InReg(u) == {v \in Units : RegOf(v) = RegOf(u)}

LoadReg(t) ==
    /\ Running(t) /\ Op(t)[1] = "load"
    /\ held' = [held EXCEPT ![t] = clocked \cap InReg(Op(t)[2])]
    /\ Step(t)
    /\ UNCHANGED <<bootVars, clocked, clobbered, lost, i2cUp, slot, armed, nvic, edges, pend,
                   isr, missed>>

StoreReg(t) ==
    /\ Running(t) /\ Op(t)[1] = "store"
    /\ LET reg == InReg(Op(t)[2])
           new == held[t] \cup {Op(t)[2]}
       IN  /\ clocked' = (clocked \ reg) \cup new
           /\ clobbered' = clobbered \cup ((clocked \cap reg) \ new)
    /\ held' = [held EXCEPT ![t] = {}]
    /\ Step(t)
    /\ UNCHANGED <<bootVars, lost, i2cUp, slot, armed, nvic, edges, pend, isr, missed>>

\* HAL_GPIO_Init, HAL_TIM_PWM_Init, HAL_UART_Init: writes to the unit's registers.
WriteUnit(t) ==
    /\ Running(t) /\ Op(t)[1] \in {"pin", "dev"}
    /\ lost' = lost \cup ({Op(t)[2]} \ clocked)
    /\ Step(t)
    /\ UNCHANGED <<bootVars, clocked, held, clobbered, i2cUp, slot, armed, nvic, edges, pend,
                   isr, missed>>

\* clk_config_i2c_source: on failure i2c_init returns and the bus stays closed.
SelectSource(t) ==
    /\ Running(t) /\ Op(t)[1] = "source"
    /\ \/ Step(t)
       \/ todo' = [todo EXCEPT ![t] = <<>>]
    /\ UNCHANGED <<bootVars, clocked, held, clobbered, lost, i2cUp, slot, armed, nvic, edges,
                   pend, isr, missed>>

\* HAL_I2C_Init, and the filters of the N6: any of them may fail.
OpenBus(t) ==
    /\ Running(t) /\ Op(t)[1] = "i2c"
    /\ lost' = lost \cup ({"I2C1"} \ clocked)
    /\ i2cUp' \in BOOLEAN
    /\ Step(t)
    /\ UNCHANGED <<bootVars, clocked, held, clobbered, slot, armed, nvic, edges, pend, isr,
                   missed>>

StoreSlot(t) ==
    /\ Running(t) /\ Op(t)[1] \in {"ctx", "cb"}
    /\ slot' = [slot EXCEPT ![Op(t)[2]] = @ \cup {Op(t)[1]}]
    /\ Step(t)
    /\ UNCHANGED <<bootVars, clocked, held, clobbered, lost, i2cUp, armed, nvic, edges, pend,
                   isr, missed>>

\* HAL_GPIO_Init with an interrupt mode switches the line's edge detection on.
ArmLine(t) ==
    /\ Running(t) /\ Op(t)[1] = "arm"
    /\ armed' = armed \cup {Op(t)[2]}
    /\ Step(t)
    /\ UNCHANGED <<bootVars, clocked, held, clobbered, lost, i2cUp, slot, nvic, edges, pend,
                   isr, missed>>

---------------------------------------------------------------------------
(* The interrupt vectors *)

\* Lines 0 to 4 have a vector each; on the F2 lines 5 to 9 and 10 to 15 share one.
Group(b, l) == IF b = "N6" \/ l <= 4 THEN {l} ELSE IF l <= 9 THEN 5..9 ELSE 10..15

\* What HAL_GPIO_EXTI_IRQHandler looks at for a line.
Looks(b, l) == IF b = "F2" THEN {<<l, "edge">>} ELSE {<<l, "rise">>, <<l, "fall">>}

\* variant: a shared vector looks at the first line of its group only
FirstOfGroup(b, l) ==
    UNION {Looks(b, k) : k \in {g \in Group(b, l) : \A h \in Group(b, l) : g <= h}}

\* What a vector looks at.
VectorLooks(b, l) == UNION {Looks(b, k) : k \in Group(b, l) \cap Lines}

\* Line by line from the lowest, rising edges before falling ones.
NextLook(x) == \A y \in isr \ {x} : x[1] < y[1] \/ (x[1] = y[1] /\ y[2] = "fall")

EnableIrq(t) ==
    /\ Running(t) /\ Op(t)[1] = "nvic"
    /\ nvic' = nvic \cup Group(board, Op(t)[2])
    /\ Step(t)
    /\ UNCHANGED <<bootVars, clocked, held, clobbered, lost, i2cUp, slot, armed, edges, pend,
                   isr, missed>>

\* The N6 keeps rising and falling edges apart, the F2 has one pending flag per line.
Flag(l) == IF board = "F2" THEN "edge" ELSE IF edges[l] % 2 = 0 THEN "rise" ELSE "fall"

Edge(l) ==
    /\ pc = "running" /\ l \in armed /\ edges[l] < MaxEdges
    /\ edges' = [edges EXCEPT ![l] = @ + 1]
    /\ pend' = [pend EXCEPT ![l] = @ \cup {Flag(l)}]
    /\ UNCHANGED <<bootVars, todo, clocked, held, clobbered, lost, i2cUp, slot, armed, nvic,
                   isr, missed>>

EnterIrq(l) ==
    /\ pc = "running" /\ isr = {}
    /\ l \in nvic /\ pend[l] # {}
    /\ isr' = VectorLooks(board, l)
    /\ UNCHANGED <<bootVars, todo, clocked, held, clobbered, lost, i2cUp, slot, armed, nvic,
                   edges, pend, missed>>

\* A pending flag is cleared first, then the line's callback runs, if there is one.
Serve(l, f) ==
    /\ <<l, f>> \in isr /\ NextLook(<<l, f>>)
    /\ isr' = isr \ {<<l, f>>}
    /\ pend' = [pend EXCEPT ![l] = @ \ {f}]
    /\ missed' = (missed \/ (f \in pend[l] /\ slot[l] # {"ctx", "cb"}))
    /\ UNCHANGED <<bootVars, todo, clocked, held, clobbered, lost, i2cUp, slot, armed, nvic,
                   edges>>

ServeLine == \E l \in Lines, f \in {"edge", "rise", "fall"} : Serve(l, f)

\* An application registers an input of its own, in a task of the lowest priority.
AppInput(l) ==
    /\ Scheduled("serial") /\ Done("serial")
    /\ l # 0 /\ slot[l] = {}
    /\ todo' = [todo EXCEPT !["serial"] = gpio_config_input_exti(board, "PA", l)]
    /\ UNCHANGED <<bootVars, clocked, held, clobbered, lost, i2cUp, slot, armed, nvic, edges,
                   pend, isr, missed>>

TaskStep(t) ==
    \/ SetClock(t) \/ LoadReg(t) \/ StoreReg(t) \/ WriteUnit(t) \/ SelectSource(t)
    \/ OpenBus(t) \/ StoreSlot(t) \/ ArmLine(t) \/ EnableIrq(t)

Irq == (\E l \in Lines : EnterIrq(l)) \/ ServeLine

Boot == (BootStep \/ PartReady) /\ UNCHANGED ioVars

Next ==
    \/ Boot
    \/ (PartTimeout \/ SysTick) /\ UNCHANGED ioVars
    \/ \E t \in Tasks : TaskStep(t)
    \/ \E l \in Lines : Edge(l) \/ AppInput(l)
    \/ Irq

Spec == IoInit /\ [][Next]_vars
FairSpec ==
    /\ Spec
    /\ WF_vars(Boot)
    /\ \A t \in Tasks : WF_vars(TaskStep(t))
    /\ WF_vars(Irq)

---------------------------------------------------------------------------
(* Properties *)

Operation ==
    {"set", "load", "store", "pin", "dev", "source", "i2c"} \X Units
    \cup {"ctx", "cb", "arm", "nvic"} \X Lines

IoTypeOK ==
    /\ todo \in [Tasks -> Seq(Operation)]
    /\ clocked \subseteq Units /\ clobbered \subseteq Units /\ lost \subseteq Units
    /\ held \in [Tasks -> SUBSET Units] /\ i2cUp \in BOOLEAN
    /\ slot \in [Lines -> SUBSET {"ctx", "cb"}] /\ edges \in [Lines -> 0..MaxEdges]
    /\ armed \subseteq Lines /\ nvic \subseteq 0..15
    /\ pend \in [Lines -> SUBSET {"edge", "rise", "fall"}]
    /\ isr \subseteq Lines \X {"edge", "rise", "fall"} /\ missed \in BOOLEAN

\* A register write is lost only when another task's store took the clock away, which
\* the N6, whose clocks are set by a single write, never sees; and a bus is opened only
\* when its clock is on, with the same reservation.
WritesLand ==
    /\ lost \subseteq clobbered
    /\ board = "N6" => clobbered = {}
    /\ i2cUp => "I2C1" \in clocked \cup clobbered

\* The first edge of a line finds the callback and the context it was registered with,
\* also when the vector it shares was enabled for another line before.
FirstEdgeAnswered == ~missed

\* The start and the bring-up of the peripherals are safe at every step, for both boards,
\* both clock sources, every failing part and every clock configuration left behind.
BoardInv == BootInv /\ IoTypeOK /\ WritesLand /\ FirstEdgeAnswered

\* Once the scheduler runs, the core runs at configCPU_CLOCK_HZ, SystemCoreClock says so,
\* and the 1 MHz time base and (F2) the 38 kHz carrier are what their comments promise.
ClocksAsConfigured ==
    pc = "running" =>
        /\ CpuMHz = ConfigCpuMHz /\ core = CpuMHz
        /\ TimerMHz = prescaler + 1
        /\ board = "F2" => (1000 * CarrierTimerMHz + CarrierPeriod \div 2) \div CarrierPeriod = 38

\* Whatever clock configuration an earlier stage left, a board whose needed parts work
\* gets to its scheduler, unless an early tick got into the kernel first.
BootEnds ==
    [](broken = {} => <>(pc \in {"running", "fault"}))

\* Every edge that set a pending flag is looked at, in a vector of its own or a shared one.
EdgesAnswered == \A l \in Lines : pend[l] # {} ~> pend[l] = {}

\* What a comment says of the time base: HAL_GetTick returns 0 until the scheduler starts.
TickIsZeroAtBoot == pc # "running" => HAL_GetTick = 0
=============================================================================
