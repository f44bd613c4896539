----------------------------- MODULE ClockTree -----------------------------
(***************************************************************************)
(* Start-up of the two boards, from the reset vector to the scheduler:     *)
(* SystemInit, driver_init (caches, supply, oscillators, PLL, buses),      *)
(* os_init and vTaskStartScheduler.  One thread of code, run against       *)
(* hardware that gets ready in its own time or never, against the clock    *)
(* configuration an earlier stage left behind, and against the SysTick     *)
(* interrupt that HAL_Init starts.  Frequencies are whole MHz.             *)
(***************************************************************************)
EXTENDS Integers, FiniteSets

CONSTANTS
    MaxTicks,       \* bound: SysTick interrupts taken before the scheduler
    HalTimeout      \* the HAL's time-outs, in ticks (2 to 5000 in the HAL)

ASSUME BootAssumption == MaxTicks \in Nat /\ HalTimeout \in Nat \ {0}

Boards == {"N6", "F2"}
Oscillators == {"HSI", "HSE"}

VARIABLES
    board, pllSrc,  \* the build: BOARD and BSP_CLOCK_PLL_SRC
    broken,         \* parts of this unit that never get ready
    pc, await,      \* next stage of the boot, and the part it waits for
    start, tick,    \* HAL_GetTick at the start of a wait, and xTickCount
    sources,        \* oscillators switched on
    pll,            \* configuration of the first PLL, or Off
    cpuSel, sysSel, \* what drives the core and the system bus: "HSI" or "PLL"
    ic, bus,        \* dividers behind the PLL (N6), and of AHB and APB1
    latency,        \* flash wait states (F2)
    supply, scale0, \* regulator settings (N6)
    smps,           \* the pin that selects the core voltage (N6)
    mpu, dcache,    \* non-cacheable region set up, data cache on (N6)
    core, prescaler \* SystemCoreClock, and the prescaler of TIM2

regVars == <<sources, pll, cpuSel, sysSel, ic, bus, latency>>
powerVars == <<supply, scale0, smps>>
cacheVars == <<mpu, dcache>>
bootVars == <<board, pllSrc, broken, pc, await, start, tick, regVars, powerVars,
              cacheVars, core, prescaler>>

Off == [src |-> "HSI", m |-> 1, n |-> 0, p |-> 1]

---------------------------------------------------------------------------
(* The board support packages' numbers, one column per board. *)

OscMHz(o) == [N6 |-> [HSI |-> 64, HSE |-> 48], F2 |-> [HSI |-> 16, HSE |-> 8]][board][o]

TargetPll ==
    [N6 |-> [src |-> pllSrc, m |-> [HSI |-> 8, HSE |-> 6][pllSrc], n |-> 100, p |-> 1],
     F2 |-> [src |-> pllSrc, m |-> [HSI |-> 16, HSE |-> 8][pllSrc], n |-> 240, p |-> 2]][board]

TargetIc == [N6 |-> [cpu |-> 1, sys |-> 2], F2 |-> [cpu |-> 1, sys |-> 1]][board]
TargetBus == [N6 |-> [ahb |-> 2, apb1 |-> 1], F2 |-> [ahb |-> 1, apb1 |-> 4]][board]
FlashLatency == 3
ConfigCpuMHz == [N6 |-> 800, F2 |-> 120][board]

---------------------------------------------------------------------------
(* What the registers make of it. *)

PllMHz == (OscMHz(pll.src) * pll.n) \div (pll.m * pll.p)

CpuMHz == IF cpuSel = "HSI" THEN OscMHz("HSI") ELSE PllMHz \div ic.cpu
SysMHz == IF sysSel = "HSI" THEN OscMHz("HSI") ELSE PllMHz \div ic.sys

\* SystemCoreClockUpdate: the core clock of the N6, the bus clock of the F2.
CoreClock == IF board = "N6" THEN CpuMHz ELSE CpuMHz \div bus.ahb

\* The clock TIM2 really counts: an APB1 timer of the F2 runs at twice a divided PCLK1.
TimerMHz ==
    IF board = "N6" THEN SysMHz
    ELSE (IF bus.apb1 = 1 THEN 1 ELSE 2) * (CoreClock \div bus.apb1)

\* TIM1 of the F2 makes the infrared carrier: prescaler 0, period 3157, on APB2 (/2).
CarrierTimerMHz == 2 * (CoreClock \div 2)
CarrierPeriod == 3158

\* variant: an APB1 timer taken to run at PCLK1
KernelAtPclk1 == IF board = "N6" THEN SysMHz ELSE core \div bus.apb1

\* BSP_H_TIMER_KERNEL_HZ, from the variable the HAL keeps the core clock in.
KernelMHz == IF board = "N6" THEN SysMHz ELSE 2 * (core \div bus.apb1)

---------------------------------------------------------------------------

Stages ==
    [N6 |-> <<"reset", "mpu", "caches", "hal", "smpsPort", "smpsLatch", "smpsOut", "supply",
              "scale", "osc", "toHsi", "pll", "bus", "update", "timers", "tasks", "start",
              "running">>,
     F2 |-> <<"reset", "hal", "osc", "pll", "latency", "bus", "timers", "tasks", "start",
              "running">>]

PcSet == {Stages[b][i] : b \in Boards, i \in 1..10} \cup {Stages["N6"][i] : i \in 11..18}
         \cup {"halted", "fault"}

After(stage) == LET s == Stages[board]
                    i == CHOOSE j \in DOMAIN s : s[j] = stage
                IN  s[i + 1]

\* The stage runs: the boot thread is there and waits for nothing.
At(stage) == pc = stage /\ await = "none"

\* On to the next stage, once the part is ready.
Advance(part) ==
    /\ pc' = After(pc)
    /\ await' = part
    /\ start' = IF part = "none" THEN 0 ELSE tick
    /\ UNCHANGED <<board, pllSrc, broken, tick>>

\* A HAL call that answers HAL_ERROR ends in clk_halt, an endless loop.
ClkHalt ==
    /\ pc' = "halted"
    /\ await' = "none"
    /\ start' = 0
    /\ UNCHANGED <<board, pllSrc, broken, tick, regVars, powerVars, cacheVars, core, prescaler>>

\* The parts this build cannot do without.
Needed == {"PLL"} \cup (IF board = "N6" THEN {"REG"} ELSE {})
                  \cup (IF pllSrc = "HSE" THEN {"HSE"} ELSE {})

\* The clocks an earlier stage may have left: those of reset, or a core run from the PLL.
BootInit ==
    /\ board \in Boards /\ pllSrc \in Oscillators
    /\ broken \in SUBSET Needed
    /\ pc = "reset" /\ await = "none" /\ start = 0 /\ tick = 0
    /\ sources = {"HSI"}
    /\ \/ pll = Off /\ cpuSel = "HSI" /\ sysSel = "HSI"
       \/ pll = [src |-> "HSI", m |-> 8, n |-> 50, p |-> 1] /\ cpuSel = "PLL" /\ sysSel = "PLL"
    /\ ic = [cpu |-> 1, sys |-> 2] /\ bus = [ahb |-> 1, apb1 |-> 1]
    /\ latency = IF board = "F2" /\ cpuSel = "PLL" THEN 3 ELSE 0
    /\ supply = FALSE /\ scale0 = FALSE
    /\ smps = [clocked |-> FALSE, high |-> FALSE, out |-> FALSE]
    /\ mpu = FALSE /\ dcache = FALSE
    /\ core = OscMHz("HSI") /\ prescaler = 0

\* F2: back to the reset clocks.  N6: peripherals only, the clocks stay as they are.
SystemInit ==
    /\ At("reset")
    /\ IF board = "F2"
       THEN /\ cpuSel' = "HSI" /\ sysSel' = "HSI" /\ pll' = Off
            /\ bus' = [ahb |-> 1, apb1 |-> 1] /\ sources' = {"HSI"}
            /\ UNCHANGED <<ic, latency>>
       ELSE UNCHANGED regVars
    /\ Advance("none")
    /\ UNCHANGED <<powerVars, cacheVars, core, prescaler>>

mpu_config_noncacheable ==
    /\ At("mpu")
    /\ mpu' = TRUE
    /\ Advance("none")
    /\ UNCHANGED <<regVars, powerVars, dcache, core, prescaler>>

EnableCaches ==
    /\ At("caches")
    /\ dcache' = TRUE
    /\ Advance("none")
    /\ UNCHANGED <<regVars, powerVars, mpu, core, prescaler>>

\* HAL_Init: reads the core clock (N6), and starts SysTick with its interrupt.
HalInit ==
    /\ At("hal")
    /\ core' = IF board = "N6" THEN CoreClock ELSE core
    /\ Advance("none")
    /\ UNCHANGED <<regVars, powerVars, cacheVars, prescaler>>

---------------------------------------------------------------------------
(* smps_init_overdrive, through gpio_config_output. *)

\* variant: the latch is preset before the port has a clock
NoPortClock ==
    /\ At("smpsPort")
    /\ Advance("none")
    /\ UNCHANGED <<regVars, powerVars, cacheVars, core, prescaler>>

SmpsPort ==
    /\ At("smpsPort")
    /\ smps' = [smps EXCEPT !.clocked = TRUE]
    /\ Advance("none")
    /\ UNCHANGED <<regVars, supply, scale0, cacheVars, core, prescaler>>

\* A write to a port without clock is lost.
SmpsLatch ==
    /\ At("smpsLatch")
    /\ smps' = [smps EXCEPT !.high = smps.high \/ smps.clocked]
    /\ Advance("none")
    /\ UNCHANGED <<regVars, supply, scale0, cacheVars, core, prescaler>>

\* gpio_pin_init enables the port's clock again, then makes the pin an output.
SmpsOut ==
    /\ At("smpsOut")
    /\ smps' = [smps EXCEPT !.clocked = TRUE, !.out = TRUE]
    /\ Advance("none")
    /\ UNCHANGED <<regVars, supply, scale0, cacheVars, core, prescaler>>

---------------------------------------------------------------------------
(* clk_init *)

ConfigSupply ==
    /\ At("supply")
    /\ supply' = TRUE
    /\ Advance("REG")
    /\ UNCHANGED <<regVars, scale0, smps, cacheVars, core, prescaler>>

ScaleVoltage ==
    /\ At("scale")
    /\ scale0' = TRUE
    /\ Advance("REG")
    /\ UNCHANGED <<regVars, supply, smps, cacheVars, core, prescaler>>

\* variant: the PLL's source is left off
HsiOnly ==
    /\ At("osc")
    /\ Advance("none")
    /\ UNCHANGED <<regVars, powerVars, cacheVars, core, prescaler>>

\* HSI is on in any case; HSE when the build takes it for the PLL.
clk_enable_oscillators ==
    /\ At("osc")
    /\ sources' = sources \cup {pllSrc}
    /\ Advance(IF pllSrc = "HSE" THEN "HSE" ELSE "none")
    /\ UNCHANGED <<pll, cpuSel, sysSel, ic, bus, latency, powerVars, cacheVars, core, prescaler>>

\* variant: the PLL is configured under the core that runs from it
StayOnPll ==
    /\ At("toHsi")
    /\ Advance("none")
    /\ UNCHANGED <<regVars, powerVars, cacheVars, core, prescaler>>

clk_switch_to_hsi ==
    /\ At("toHsi")
    /\ IF "PLL" \in {cpuSel, sysSel}
       THEN cpuSel' = "HSI" /\ sysSel' = "HSI" /\ core' = OscMHz("HSI")
       ELSE UNCHANGED <<cpuSel, sysSel, core>>
    /\ Advance("none")
    /\ UNCHANGED <<sources, pll, ic, bus, latency, powerVars, cacheVars, prescaler>>

PllFeeds == "PLL" \in {cpuSel, sysSel}

\* The HAL refuses to change a PLL that something runs from.
clk_configure_pll1 ==
    /\ At("pll")
    /\ IF PllFeeds /\ pll # TargetPll
       THEN ClkHalt
       ELSE /\ pll' = TargetPll
            /\ Advance("PLL")
            /\ UNCHANGED <<sources, cpuSel, sysSel, ic, bus, latency, powerVars, cacheVars,
                           core, prescaler>>

\* variant: the wait states follow the switch
LatencyLater ==
    /\ At("latency")
    /\ Advance("none")
    /\ UNCHANGED <<regVars, powerVars, cacheVars, core, prescaler>>

\* HAL_RCC_ClockConfig of the F2: wait states go up before the clock does.
RaiseLatency ==
    /\ At("latency")
    /\ latency' = IF FlashLatency > latency THEN FlashLatency ELSE latency
    /\ Advance("none")
    /\ UNCHANGED <<sources, pll, cpuSel, sysSel, ic, bus, powerVars, cacheVars, core, prescaler>>

\* variant: SystemCoreClock is not brought up to date by the switch
SwitchOnly ==
    /\ At("bus")
    /\ cpuSel' = "PLL" /\ sysSel' = "PLL" /\ ic' = TargetIc /\ bus' = TargetBus
    /\ Advance("none")
    /\ UNCHANGED <<sources, pll, latency, powerVars, cacheVars, core, prescaler>>

\* HAL_RCC_ClockConfig: dividers and switch, then SystemCoreClock and SysTick again.
clk_apply_bus_from_pll ==
    /\ At("bus")
    /\ IF pll = Off
       THEN ClkHalt
       ELSE /\ cpuSel' = "PLL" /\ sysSel' = "PLL" /\ ic' = TargetIc /\ bus' = TargetBus
            /\ Advance("none")
            /\ UNCHANGED <<sources, pll, latency, powerVars, cacheVars, prescaler>>
            /\ core' = CoreClock'

SystemCoreClockUpdate ==
    /\ At("update")
    /\ core' = CoreClock
    /\ Advance("none")
    /\ UNCHANGED <<regVars, powerVars, cacheVars, prescaler>>

---------------------------------------------------------------------------
(* os_init and os_start *)

h_timer_init ==
    /\ At("timers")
    /\ prescaler' = KernelMHz - 1
    /\ Advance("none")
    /\ UNCHANGED <<regVars, powerVars, cacheVars, core>>

\* The first task created enters a critical section that masks SysTick until the start.
os_init ==
    /\ At("tasks")
    /\ Advance("none")
    /\ UNCHANGED <<regVars, powerVars, cacheVars, core, prescaler>>

os_start ==
    /\ At("start")
    /\ pc' = "running"
    /\ tick' = 0
    /\ UNCHANGED <<board, pllSrc, broken, await, start, regVars, powerVars, cacheVars,
                   core, prescaler>>

---------------------------------------------------------------------------
(* The hardware *)

\* A part gets ready unless it is broken; a PLL also needs its source.
GetsReady(part) == part \notin broken /\ (part = "PLL" => pll.src \in sources)

PartReady ==
    /\ await # "none" /\ GetsReady(await)
    /\ pc \notin {"halted", "fault"}
    /\ await' = "none" /\ start' = 0
    /\ UNCHANGED <<board, pllSrc, broken, pc, tick, regVars, powerVars, cacheVars, core, prescaler>>

\* The HAL gives a part up by HAL_GetTick; one that works is ready long before.
PartTimeout ==
    /\ await # "none" /\ ~GetsReady(await)
    /\ pc \notin {"halted", "fault"}
    /\ tick - start > HalTimeout
    /\ ClkHalt

\* SysTick runs from HAL_Init on and enters the kernel's tick handler, which counts first
\* and then, until a first walk found it empty, follows a list pointer not yet set.
SysTick ==
    /\ pc \notin {"reset", "mpu", "caches", "hal", "start", "running", "halted", "fault"}
    /\ tick < MaxTicks
    /\ tick' = tick + 1
    /\ \/ UNCHANGED <<pc, await, start>>
       \/ tick = 0 /\ pc' = "fault" /\ await' = "none" /\ start' = 0
    /\ UNCHANGED <<board, pllSrc, broken, regVars, powerVars, cacheVars, core, prescaler>>

BootStep ==
    \/ SystemInit \/ mpu_config_noncacheable \/ EnableCaches \/ HalInit
    \/ SmpsPort \/ SmpsLatch \/ SmpsOut \/ ConfigSupply \/ ScaleVoltage
    \/ clk_enable_oscillators \/ clk_switch_to_hsi \/ clk_configure_pll1 \/ RaiseLatency
    \/ clk_apply_bus_from_pll \/ SystemCoreClockUpdate \/ h_timer_init \/ os_init \/ os_start

\* The HAL's time base is the kernel's tick count.
HAL_GetTick == tick

---------------------------------------------------------------------------
(* Properties *)

BootTypeOK ==
    /\ board \in Boards /\ pllSrc \in Oscillators /\ broken \subseteq Needed
    /\ pc \in PcSet /\ await \in {"none", "REG", "HSE", "PLL"}
    /\ tick \in 0..MaxTicks /\ start \in 0..MaxTicks
    /\ sources \subseteq Oscillators /\ {cpuSel, sysSel} \subseteq {"HSI", "PLL"}
    /\ latency \in 0..7 /\ {supply, scale0, mpu, dcache} \subseteq BOOLEAN

\* The core never runs faster than its supply (N6) or its flash (F2, 30 MHz per wait
\* state) allows, whatever the order of the steps that raise them.
NeverOverclocked ==
    /\ board = "F2" => CpuMHz <= 30 * (latency + 1)
    /\ (board = "N6" /\ CpuMHz > 600) => supply /\ scale0 /\ smps.high /\ smps.out

\* Once an output, the pin that selects the core voltage is never driven low.
NoUndervolt == smps.out => smps.clocked /\ smps.high

\* The data cache is on only with the non-cacheable region for shared buffers set up.
CacheCoherent == dcache => mpu

\* clk_halt is reached only for a part that failed.
HaltsForCause == pc = "halted" => broken # {}

BootInv == BootTypeOK /\ NeverOverclocked /\ NoUndervolt /\ CacheCoherent /\ HaltsForCause
=============================================================================
