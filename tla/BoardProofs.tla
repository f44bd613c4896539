---------------------------- MODULE BoardProofs -----------------------------
(***************************************************************************)
(* Theorems about ClockTree and BoardIo: for every number of ticks, every  *)
(* time-out, every set of interrupt lines and any number of edges.         *)
(***************************************************************************)
EXTENDS BoardIo, SequenceTheorems, TLAPS

-----------------------------------------------------------------------------
(***************************************************************************)
(* The start.  pc names the next stage; the sets below are the stages that *)
(* follow one another on the way to the scheduler.                         *)
(***************************************************************************)
Programmed == {"tasks", "start", "running"}
OnPll == {"update", "timers"} \cup Programmed
PllSet == {"latency", "bus"} \cup OnPll
SourceOn == {"toHsi", "pll"} \cup PllSet
FromOsc == {"osc"} \cup SourceOn
FromScale == {"scale"} \cup FromOsc
FromSupply == {"supply"} \cup FromScale
FromOut == {"smpsOut"} \cup FromSupply
FromLatch == {"smpsLatch"} \cup FromOut
OnlyN6 == {"mpu", "caches", "smpsPort", "smpsLatch", "smpsOut", "supply", "scale", "toHsi", "update"}

Left == [src |-> "HSI", m |-> 8, n |-> 50, p |-> 1]

(* The N6: what each stage leaves for those that rely on it.                *)
StagesN6 ==
  /\ pc # "latency"
  /\ pc = "caches" => mpu
  /\ smps \in [clocked : BOOLEAN, high : BOOLEAN, out : BOOLEAN]
  /\ pc \in FromLatch => smps.clocked
  /\ pc \in FromOut => smps.high
  /\ pc \in FromSupply => smps.out
  /\ pc \in FromScale => supply
  /\ pc \in FromOsc => scale0
  /\ pc \in {"pll", "bus"} => cpuSel = "HSI" /\ sysSel = "HSI"
  /\ pll = TargetPll => supply /\ scale0 /\ smps.high /\ smps.out

(* The F2.                                                                   *)
StagesF2 ==
  /\ pc \notin OnlyN6
  /\ ~ dcache /\ ~ smps.out
  /\ latency \in {0, 3}
  /\ pc \in {"bus"} \cup OnPll => latency = 3
  /\ pc \in {"hal", "osc", "pll", "latency", "bus"} => cpuSel = "HSI" /\ sysSel = "HSI"
  /\ cpuSel = "PLL" => latency = 3

(* Both.  The PLL is off, as it was left, or as it should be.                *)
ClocksInv ==
  /\ pll \in {Off, Left, TargetPll}
  /\ ic.cpu = 1
  /\ pc \in SourceOn => pllSrc \in sources
  /\ pc \in PllSet => pll = TargetPll
  /\ await = "PLL" => pll = TargetPll /\ pllSrc \in sources
  /\ pc \in OnPll => /\ cpuSel = "PLL" /\ sysSel = "PLL" /\ ic = TargetIc /\ bus = TargetBus
                     /\ core = CoreClock
  /\ pc \in Programmed => prescaler = KernelMHz - 1

StartInv ==
  /\ BootTypeOK /\ NoUndervolt /\ CacheCoherent /\ HaltsForCause
  /\ board = "N6" => StagesN6
  /\ board = "F2" => StagesF2
  /\ ClocksInv

-----------------------------------------------------------------------------

(* The lists of stages, place by place.                                      *)
LEMMA StageLists ==
  /\ LET s == Stages["N6"]
     IN  /\ DOMAIN s = 1 .. 18
         /\ s[1] = "reset" /\ s[2] = "mpu" /\ s[3] = "caches" /\ s[4] = "hal" /\ s[5] = "smpsPort"
         /\ s[6] = "smpsLatch" /\ s[7] = "smpsOut" /\ s[8] = "supply" /\ s[9] = "scale"
         /\ s[10] = "osc" /\ s[11] = "toHsi" /\ s[12] = "pll" /\ s[13] = "bus" /\ s[14] = "update"
         /\ s[15] = "timers" /\ s[16] = "tasks" /\ s[17] = "start" /\ s[18] = "running"
  /\ LET s == Stages["F2"]
     IN  /\ DOMAIN s = 1 .. 10
         /\ s[1] = "reset" /\ s[2] = "hal" /\ s[3] = "osc" /\ s[4] = "pll" /\ s[5] = "latency"
         /\ s[6] = "bus" /\ s[7] = "timers" /\ s[8] = "tasks" /\ s[9] = "start" /\ s[10] = "running"
  BY DEF Stages

(* Their order.                                                              *)
LEMMA StageOrder ==
  /\ board = "N6" =>
       /\ After("reset") = "mpu" /\ After("mpu") = "caches" /\ After("caches") = "hal"
       /\ After("hal") = "smpsPort" /\ After("smpsPort") = "smpsLatch"
       /\ After("smpsLatch") = "smpsOut" /\ After("smpsOut") = "supply"
       /\ After("supply") = "scale" /\ After("scale") = "osc" /\ After("osc") = "toHsi"
       /\ After("toHsi") = "pll" /\ After("pll") = "bus" /\ After("bus") = "update"
       /\ After("update") = "timers" /\ After("timers") = "tasks" /\ After("tasks") = "start"
  /\ board = "F2" =>
       /\ After("reset") = "hal" /\ After("hal") = "osc" /\ After("osc") = "pll"
       /\ After("pll") = "latency" /\ After("latency") = "bus" /\ After("bus") = "timers"
       /\ After("timers") = "tasks" /\ After("tasks") = "start"
<1>1. \A j \in 1 .. 18 : j \in {1, 2, 3, 4, 5, 6, 7, 8, 9, 10, 11, 12, 13, 14, 15, 16, 17, 18}
  OBVIOUS
<1>2. \A j \in 1 .. 10 : j \in {1, 2, 3, 4, 5, 6, 7, 8, 9, 10}
  OBVIOUS
<1>3. CASE board = "N6"
  <2> DEFINE s == Stages["N6"]
  <2>1. \A i, j \in 1 .. 18 : s[i] = s[j] => i = j
    BY <1>1, StageLists
  <2>2. \A i \in 1 .. 17 : After(s[i]) = s[i + 1]
    BY <1>3, <2>1, StageLists DEF After
  <2>3. QED
    BY <1>3, <2>2, StageLists
<1>4. CASE board = "F2"
  <2> DEFINE s == Stages["F2"]
  <2>1. \A i, j \in 1 .. 10 : s[i] = s[j] => i = j
    BY <1>2, StageLists
  <2>2. \A i \in 1 .. 9 : After(s[i]) = s[i + 1]
    BY <1>4, <2>1, StageLists DEF After
  <2>3. QED
    BY <1>4, <2>2, StageLists
<1>5. QED
  BY <1>3, <1>4

(* All stages.                                                               *)
LEMMA AllStages ==
  PcSet = {"reset", "mpu", "caches", "hal", "smpsPort", "smpsLatch", "smpsOut", "supply", "scale",
           "osc", "toHsi", "pll", "latency", "bus", "update", "timers", "tasks", "start", "running",
           "halted", "fault"}
  BY StageLists DEF PcSet, Boards

(* The numbers of both boards.                                               *)
LEMMA Numbers ==
  ASSUME board \in Boards, pllSrc \in Oscillators
  PROVE  /\ OscMHz("HSI") = IF board = "N6" THEN 64 ELSE 16
         /\ TargetPll # Off /\ TargetPll # Left /\ Left # Off
         /\ TargetPll.src = pllSrc
         /\ TargetIc.cpu = 1 /\ ConfigCpuMHz = IF board = "N6" THEN 800 ELSE 120
         /\ pll = TargetPll => PllMHz = ConfigCpuMHz
         /\ pll = Left => PllMHz = IF board = "N6" THEN 400 ELSE 100
         /\ pll = Off => PllMHz = 0
  BY DEF Boards, Oscillators, OscMHz, TargetPll, Off, Left, TargetIc, ConfigCpuMHz, PllMHz

(* Board and build are fixed, and so are the targets.                        *)
LEMMA Kept ==
  ASSUME UNCHANGED <<board, pllSrc>>
  PROVE  /\ TargetPll' = TargetPll /\ TargetIc' = TargetIc /\ TargetBus' = TargetBus
         /\ Needed' = Needed
         /\ UNCHANGED regVars =>
              CoreClock' = CoreClock /\ CpuMHz' = CpuMHz /\ SysMHz' = SysMHz
         /\ UNCHANGED <<regVars, core>> => KernelMHz' = KernelMHz
  BY DEF TargetPll, TargetIc, TargetBus, Needed, regVars, CoreClock, CpuMHz, SysMHz, PllMHz,
     OscMHz, KernelMHz

(* What all boot steps that move on have in common.                          *)
LEMMA MovesOn ==
  ASSUME BootTypeOK, NEW part \in {"none", "REG", "HSE", "PLL"}, Advance(part), After(pc) \in PcSet
  PROVE  /\ board' \in Boards /\ pllSrc' \in Oscillators /\ broken' \subseteq Needed'
         /\ pc' \in PcSet /\ await' \in {"none", "REG", "HSE", "PLL"}
         /\ tick' \in 0..MaxTicks /\ start' \in 0..MaxTicks
         /\ UNCHANGED <<board, pllSrc>> /\ pc' = After(pc) /\ await' = part
  BY BootAssumption, Kept DEF BootTypeOK, Advance

(* The stages that prepare the N6 and leave the clocks alone.                *)
LEMMA PreparesN6 ==
  ASSUME StartInv,
         \/ mpu_config_noncacheable \/ EnableCaches \/ SmpsPort \/ SmpsLatch \/ SmpsOut
         \/ ConfigSupply \/ ScaleVoltage
  PROVE  StartInv'
<1> USE DEF StartInv
<1>1. /\ await = "none" /\ UNCHANGED <<regVars, core, prescaler>>
      /\ pc \in {"mpu", "caches", "smpsPort", "smpsLatch", "smpsOut", "supply", "scale"}
      /\ Advance("none") \/ Advance("REG")
  BY DEF mpu_config_noncacheable, EnableCaches, SmpsPort, SmpsLatch, SmpsOut, ConfigSupply,
     ScaleVoltage, At
<1>2. board = "N6"
  BY <1>1 DEF StagesF2, OnlyN6, BootTypeOK, Boards
<1>3. /\ pc' = After(pc) /\ await' \in {"none", "REG"} /\ UNCHANGED <<board, pllSrc>>
      /\ board' \in Boards /\ pllSrc' \in Oscillators /\ broken' \subseteq Needed'
      /\ pc' \in PcSet /\ tick' \in 0..MaxTicks /\ start' \in 0..MaxTicks
  <2>1. After(pc) \in PcSet
    BY <1>1, <1>2, StageOrder, AllStages
  <2>2. QED
    BY <1>1, <2>1, MovesOn
<1>4. BootTypeOK' /\ NoUndervolt' /\ CacheCoherent' /\ HaltsForCause'
  <2>1. /\ smps \in [clocked : BOOLEAN, high : BOOLEAN, out : BOOLEAN]
        /\ pc \in FromLatch => smps.clocked
        /\ pc \in FromOut => smps.high
    BY <1>2 DEF StagesN6
  <2>2. {supply', scale0', mpu', dcache'} \subseteq BOOLEAN
    BY <1>1 DEF BootTypeOK, mpu_config_noncacheable, EnableCaches, SmpsPort, SmpsLatch,
       SmpsOut, ConfigSupply, ScaleVoltage, powerVars, cacheVars
  <2>3. BootTypeOK'
    BY <1>1, <1>3, <2>2 DEF BootTypeOK, regVars
  <2>4. NoUndervolt'
    BY <2>1 DEF NoUndervolt, FromLatch, FromOut, mpu_config_noncacheable, EnableCaches,
       SmpsPort, SmpsLatch, SmpsOut, ConfigSupply, ScaleVoltage, powerVars, At
  <2>5. CacheCoherent'
    BY <1>2 DEF CacheCoherent, StagesN6, mpu_config_noncacheable, EnableCaches, SmpsPort,
       SmpsLatch, SmpsOut, ConfigSupply, ScaleVoltage, cacheVars, At
  <2>6. HaltsForCause'
    BY <1>1, <1>2, <1>3, StageOrder DEF HaltsForCause
  <2>7. QED
    BY <2>3, <2>4, <2>5, <2>6
<1>5. StagesN6'
  <2>1. StagesN6 /\ TargetPll' = TargetPll
    BY <1>2, <1>3, Kept
  <2>2. smps' \in [clocked : BOOLEAN, high : BOOLEAN, out : BOOLEAN]
    BY <2>1 DEF StagesN6, mpu_config_noncacheable, EnableCaches, SmpsPort, SmpsLatch, SmpsOut,
       ConfigSupply, ScaleVoltage, powerVars
  <2>3. /\ supply => supply'
        /\ scale0 => scale0'
        /\ smps.high => smps'.high
        /\ smps.out => smps'.out
        /\ smps.clocked => smps'.clocked
    BY <2>1 DEF StagesN6, mpu_config_noncacheable, EnableCaches, SmpsPort, SmpsLatch, SmpsOut,
       ConfigSupply, ScaleVoltage, powerVars
  <2>4. /\ pc' # "latency" /\ pc' \notin {"pll", "bus"}
        /\ pc' = "caches" => mpu'
        /\ pc' \in FromLatch => smps'.clocked
        /\ pc' \in FromOut => smps'.high
        /\ pc' \in FromSupply => smps'.out
        /\ pc' \in FromScale => supply'
        /\ pc' \in FromOsc => scale0'
    BY <1>1, <1>2, <1>3, <2>1, <2>2, <2>3, StageOrder DEF StagesN6, At, FromLatch, FromOut,
       FromSupply, FromScale, FromOsc, SourceOn, PllSet, OnPll, Programmed,
       mpu_config_noncacheable, EnableCaches, SmpsPort, SmpsLatch, SmpsOut, ConfigSupply,
       ScaleVoltage
  <2>5. pll' = TargetPll' => supply' /\ scale0' /\ smps'.high /\ smps'.out
    BY <1>1, <2>1, <2>3 DEF StagesN6, regVars
  <2>6. QED
    BY <2>2, <2>4, <2>5 DEF StagesN6
<1>6. ClocksInv'
  <2>1. pc' \notin SourceOn /\ await' # "PLL"
    BY <1>1, <1>2, <1>3, StageOrder DEF SourceOn, PllSet, OnPll, Programmed
  <2>2. QED
    BY <1>1, <1>3, <2>1, Kept DEF ClocksInv, regVars, SourceOn, PllSet, OnPll
<1>7. QED
  BY <1>2, <1>3, <1>4, <1>5, <1>6

(* SystemInit: the F2 falls back to its reset clocks.                        *)
LEMMA ResetStep == StartInv /\ SystemInit => StartInv'
<1> SUFFICES ASSUME StartInv, SystemInit PROVE StartInv'
  OBVIOUS
<1> USE DEF StartInv
<1>1. /\ pc = "reset" /\ await = "none" /\ Advance("none")
      /\ UNCHANGED <<powerVars, cacheVars, core, prescaler>>
  BY DEF SystemInit, At
<1>2. board = "N6" \/ board = "F2"
  BY DEF BootTypeOK, Boards
<1>3. /\ pc' = After(pc) /\ await' = "none" /\ UNCHANGED <<board, pllSrc>>
      /\ board' \in Boards /\ pllSrc' \in Oscillators /\ broken' \subseteq Needed'
      /\ pc' \in PcSet /\ tick' \in 0..MaxTicks /\ start' \in 0..MaxTicks
  BY <1>1, <1>2, StageOrder, AllStages, MovesOn
<1>4. pc' = IF board = "N6" THEN "mpu" ELSE "hal"
  BY <1>1, <1>2, <1>3, StageOrder
<1>5. /\ board = "N6" => UNCHANGED regVars
      /\ board = "F2" => /\ cpuSel' = "HSI" /\ sysSel' = "HSI" /\ pll' = Off /\ sources' = {"HSI"}
                         /\ UNCHANGED <<ic, latency>>
  BY DEF SystemInit
<1>6. BootTypeOK'
  BY <1>1, <1>2, <1>3, <1>5 DEF BootTypeOK, powerVars, cacheVars, regVars, Oscillators
<1>7. NoUndervolt' /\ CacheCoherent' /\ HaltsForCause'
  BY <1>1, <1>4 DEF NoUndervolt, CacheCoherent, HaltsForCause, powerVars, cacheVars
<1>8. board' = "N6" => StagesN6'
  BY <1>1, <1>3, <1>4, <1>5, Kept DEF StagesN6, powerVars, cacheVars, regVars, FromLatch, FromOut,
     FromSupply, FromScale, FromOsc, SourceOn, PllSet, OnPll, Programmed
<1>9. board' = "F2" => StagesF2'
  BY <1>1, <1>3, <1>4, <1>5 DEF StagesF2, OnlyN6, powerVars, cacheVars, OnPll, Programmed
<1>10. ClocksInv'
  BY <1>2, <1>3, <1>4, <1>5, Kept DEF ClocksInv, regVars, SourceOn, PllSet, OnPll, Programmed
<1>11. QED
  BY <1>6, <1>7, <1>8, <1>9, <1>10

(* HAL_Init reads the core clock; the first task masks SysTick.              *)
LEMMA OtherStages == StartInv /\ (HalInit \/ h_timer_init \/ os_init) => StartInv'
<1> SUFFICES ASSUME StartInv, HalInit \/ h_timer_init \/ os_init PROVE StartInv'
  OBVIOUS
<1> USE DEF StartInv
<1>1. /\ pc \in {"hal", "timers", "tasks"} /\ await = "none" /\ Advance("none")
      /\ UNCHANGED <<regVars, powerVars, cacheVars>>
      /\ pc = "timers" => prescaler' = KernelMHz - 1 /\ core' = core
      /\ pc = "tasks" => prescaler' = prescaler /\ core' = core
  BY DEF HalInit, h_timer_init, os_init, At
<1>2. board = "N6" \/ board = "F2"
  BY DEF BootTypeOK, Boards
<1>3. /\ pc' = After(pc) /\ await' = "none" /\ UNCHANGED <<board, pllSrc>>
      /\ board' \in Boards /\ pllSrc' \in Oscillators /\ broken' \subseteq Needed'
      /\ pc' \in PcSet /\ tick' \in 0..MaxTicks /\ start' \in 0..MaxTicks
  BY <1>1, <1>2, StageOrder, AllStages, MovesOn
<1>4. pc' = CASE pc = "hal" -> IF board = "N6" THEN "smpsPort" ELSE "osc"
              [] pc = "timers" -> "tasks"
              [] pc = "tasks" -> "start"
  BY <1>1, <1>2, <1>3, StageOrder
<1>5. BootTypeOK'
  BY <1>1, <1>3 DEF BootTypeOK, powerVars, cacheVars, regVars
<1>6. NoUndervolt' /\ CacheCoherent' /\ HaltsForCause'
  BY <1>1, <1>2, <1>4 DEF NoUndervolt, CacheCoherent, HaltsForCause, powerVars, cacheVars
<1>7. board' = "N6" => StagesN6'
  BY <1>1, <1>3, <1>4, Kept DEF StagesN6, powerVars, cacheVars, regVars, FromLatch, FromOut,
     FromSupply, FromScale, FromOsc, SourceOn, PllSet, OnPll, Programmed
<1>8. board' = "F2" => StagesF2'
  BY <1>1, <1>3, <1>4 DEF StagesF2, OnlyN6, powerVars, cacheVars, regVars, OnPll, Programmed
<1>9. ClocksInv'
  <2>1. CASE pc = "hal"
    BY <1>1, <1>2, <1>3, <1>4, <2>1, Kept DEF ClocksInv, regVars, SourceOn, PllSet, OnPll, Programmed
  <2>2. CASE pc = "timers"
    BY <1>1, <1>3, <1>4, <2>2, Kept DEF ClocksInv, regVars, SourceOn, PllSet, OnPll, Programmed
  <2>3. CASE pc = "tasks"
    BY <1>1, <1>3, <1>4, <2>3, Kept DEF ClocksInv, regVars, SourceOn, PllSet, OnPll, Programmed
  <2>4. QED
    BY <1>1, <2>1, <2>2, <2>3
<1>10. QED
  BY <1>5, <1>6, <1>7, <1>8, <1>9

(* The oscillators are switched on before anything is to run from them, and  *)
(* the N6 leaves a PLL it found running before it changes it.                *)
LEMMA SourceSteps == StartInv /\ (clk_enable_oscillators \/ clk_switch_to_hsi) => StartInv'
<1> SUFFICES ASSUME StartInv, clk_enable_oscillators \/ clk_switch_to_hsi PROVE StartInv'
  OBVIOUS
<1> USE DEF StartInv
<1>1. /\ await = "none" /\ (Advance("none") \/ Advance("HSE"))
      /\ UNCHANGED <<powerVars, cacheVars, prescaler, pll, ic, bus, latency>>
      /\ \/ /\ pc = "osc" /\ sources' = sources \cup {pllSrc} /\ UNCHANGED <<cpuSel, sysSel, core>>
         \/ /\ pc = "toHsi" /\ sources' = sources
            /\ \/ cpuSel' = "HSI" /\ sysSel' = "HSI"
               \/ UNCHANGED <<cpuSel, sysSel>> /\ "PLL" \notin {cpuSel, sysSel}
  BY DEF clk_enable_oscillators, clk_switch_to_hsi, At
<1>2. board = "N6" \/ (board = "F2" /\ pc = "osc")
  BY <1>1 DEF BootTypeOK, Boards, StagesF2, OnlyN6
<1>3. /\ pc' = After(pc) /\ await' \in {"none", "HSE"} /\ UNCHANGED <<board, pllSrc>>
      /\ board' \in Boards /\ pllSrc' \in Oscillators /\ broken' \subseteq Needed'
      /\ pc' \in PcSet /\ tick' \in 0..MaxTicks /\ start' \in 0..MaxTicks
  BY <1>1, <1>2, StageOrder, AllStages, MovesOn
<1>4. /\ board = "N6" /\ pc = "osc" => pc' = "toHsi"
      /\ board = "N6" /\ pc = "toHsi" => pc' = "pll"
      /\ board = "F2" => pc' = "pll"
  BY <1>1, <1>2, <1>3, StageOrder
<1>5. /\ sources' \subseteq Oscillators /\ pllSrc \in sources'
      /\ {cpuSel', sysSel'} \subseteq {"HSI", "PLL"}
      /\ pc = "toHsi" => cpuSel' = "HSI" /\ sysSel' = "HSI"
  BY <1>1 DEF BootTypeOK, ClocksInv, SourceOn
<1>6. BootTypeOK'
  BY <1>1, <1>3, <1>5 DEF BootTypeOK, powerVars, cacheVars
<1>7. NoUndervolt' /\ CacheCoherent' /\ HaltsForCause'
  BY <1>1, <1>2, <1>4 DEF NoUndervolt, CacheCoherent, HaltsForCause, powerVars, cacheVars
<1>8. board' = "N6" => StagesN6'
  BY <1>1, <1>3, <1>4, <1>5, Kept DEF StagesN6, powerVars, cacheVars, FromLatch, FromOut,
     FromSupply, FromScale, FromOsc, SourceOn, PllSet, OnPll, Programmed
<1>9. board' = "F2" => StagesF2'
  BY <1>1, <1>2, <1>3, <1>4 DEF StagesF2, OnlyN6, powerVars, cacheVars, OnPll, Programmed
<1>10. ClocksInv'
  BY <1>1, <1>2, <1>3, <1>4, <1>5, Kept DEF ClocksInv, PllSet, OnPll, Programmed
<1>11. QED
  BY <1>6, <1>7, <1>8, <1>9, <1>10

(* The PLL is programmed only when nothing runs from it.                     *)
LEMMA PllStep == StartInv /\ clk_configure_pll1 => StartInv'
<1> SUFFICES ASSUME StartInv, clk_configure_pll1 PROVE StartInv'
  OBVIOUS
<1> USE DEF StartInv
<1>1. pc = "pll" /\ await = "none"
  BY DEF clk_configure_pll1, At
<1>2. board = "N6" \/ board = "F2"
  BY DEF BootTypeOK, Boards
<1>3. cpuSel = "HSI" /\ sysSel = "HSI"
  BY <1>1, <1>2 DEF StagesN6, StagesF2
<1>4. /\ pll' = TargetPll /\ Advance("PLL")
      /\ UNCHANGED <<sources, cpuSel, sysSel, ic, bus, latency, powerVars, cacheVars, core, prescaler>>
  BY <1>3 DEF clk_configure_pll1, PllFeeds
<1>5. /\ pc' = After(pc) /\ await' = "PLL" /\ UNCHANGED <<board, pllSrc>>
      /\ board' \in Boards /\ pllSrc' \in Oscillators /\ broken' \subseteq Needed'
      /\ pc' \in PcSet /\ tick' \in 0..MaxTicks /\ start' \in 0..MaxTicks
  BY <1>1, <1>2, <1>4, StageOrder, AllStages, MovesOn
<1>6. pc' = IF board = "N6" THEN "bus" ELSE "latency"
  BY <1>1, <1>2, <1>5, StageOrder
<1>7. BootTypeOK'
  BY <1>4, <1>5 DEF BootTypeOK, powerVars, cacheVars
<1>8. NoUndervolt' /\ CacheCoherent' /\ HaltsForCause'
  BY <1>4, <1>6 DEF NoUndervolt, CacheCoherent, HaltsForCause, powerVars, cacheVars
<1>9. board' = "N6" => StagesN6'
  BY <1>1, <1>3, <1>4, <1>5, <1>6 DEF StagesN6, powerVars, cacheVars, FromLatch, FromOut,
     FromSupply, FromScale, FromOsc, SourceOn, PllSet, OnPll, Programmed
<1>10. board' = "F2" => StagesF2'
  BY <1>3, <1>4, <1>5, <1>6 DEF StagesF2, OnlyN6, powerVars, cacheVars, OnPll, Programmed
<1>11. ClocksInv'
  BY <1>1, <1>2, <1>4, <1>5, <1>6, Kept DEF ClocksInv, SourceOn, PllSet, OnPll, Programmed
<1>12. QED
  BY <1>7, <1>8, <1>9, <1>10, <1>11

(* The wait states go up before the clock does.                              *)
LEMMA LatencyStep == StartInv /\ RaiseLatency => StartInv'
<1> SUFFICES ASSUME StartInv, RaiseLatency PROVE StartInv'
  OBVIOUS
<1> USE DEF StartInv
<1>1. /\ pc = "latency" /\ await = "none" /\ Advance("none")
      /\ latency' = IF FlashLatency > latency THEN FlashLatency ELSE latency
      /\ UNCHANGED <<sources, pll, cpuSel, sysSel, ic, bus, powerVars, cacheVars, core, prescaler>>
  BY DEF RaiseLatency, At
<1>2. board = "F2" /\ StagesF2
  BY <1>1 DEF BootTypeOK, Boards, StagesN6
<1>3. latency' = 3
  BY <1>1, <1>2 DEF StagesF2, FlashLatency
<1>4. /\ pc' = "bus" /\ await' = "none" /\ UNCHANGED <<board, pllSrc>>
      /\ board' \in Boards /\ pllSrc' \in Oscillators /\ broken' \subseteq Needed'
      /\ pc' \in PcSet /\ tick' \in 0..MaxTicks /\ start' \in 0..MaxTicks
  BY <1>1, <1>2, StageOrder, AllStages, MovesOn
<1>5. BootTypeOK'
  BY <1>1, <1>3, <1>4 DEF BootTypeOK, powerVars, cacheVars
<1>6. NoUndervolt' /\ CacheCoherent' /\ HaltsForCause'
  BY <1>1, <1>4 DEF NoUndervolt, CacheCoherent, HaltsForCause, powerVars, cacheVars
<1>7. StagesF2' /\ board' = "F2"
  BY <1>1, <1>2, <1>3, <1>4 DEF StagesF2, OnlyN6, powerVars, cacheVars
<1>8. ClocksInv'
  BY <1>1, <1>4, Kept DEF ClocksInv, SourceOn, PllSet, OnPll, Programmed
<1>9. QED
  BY <1>5, <1>6, <1>7, <1>8

(* The switch, and on the N6 a second look at the core clock.                *)
LEMMA SwitchSteps == StartInv /\ (clk_apply_bus_from_pll \/ SystemCoreClockUpdate) => StartInv'
<1> SUFFICES ASSUME StartInv, clk_apply_bus_from_pll \/ SystemCoreClockUpdate PROVE StartInv'
  OBVIOUS
<1> USE DEF StartInv
<1>1. board = "N6" \/ board = "F2"
  BY DEF BootTypeOK, Boards
<1>2. /\ pc \in {"bus", "update"} /\ await = "none" /\ pll = TargetPll
      /\ pc = "update" => board = "N6"
  BY <1>1 DEF clk_apply_bus_from_pll, SystemCoreClockUpdate, At, ClocksInv, PllSet, OnPll,
     StagesF2, OnlyN6
<1>3. pll # Off
  BY <1>2, Numbers DEF BootTypeOK
<1>4. /\ Advance("none") /\ UNCHANGED <<sources, pll, latency, powerVars, cacheVars, prescaler>>
      /\ core' = CoreClock'
      /\ cpuSel' = "PLL" /\ sysSel' = "PLL" /\ ic' = TargetIc /\ bus' = TargetBus
  <2>1. CASE clk_apply_bus_from_pll
    BY <1>3, <2>1 DEF clk_apply_bus_from_pll
  <2>2. CASE SystemCoreClockUpdate
    <3>1. pc = "update" /\ UNCHANGED <<regVars, powerVars, cacheVars, prescaler>> /\ core' = CoreClock
          /\ Advance("none")
      BY <2>2 DEF SystemCoreClockUpdate, At
    <3>2. UNCHANGED <<board, pllSrc>>
      BY <3>1 DEF Advance
    <3>3. QED
      BY <3>1, <3>2, Kept DEF regVars, ClocksInv, OnPll
  <2>3. QED
    BY <2>1, <2>2
<1>5. /\ pc' = After(pc) /\ await' = "none" /\ UNCHANGED <<board, pllSrc>>
      /\ board' \in Boards /\ pllSrc' \in Oscillators /\ broken' \subseteq Needed'
      /\ pc' \in PcSet /\ tick' \in 0..MaxTicks /\ start' \in 0..MaxTicks
  BY <1>1, <1>2, <1>4, StageOrder, AllStages, MovesOn
<1>6. pc' \in {"update", "timers"} /\ (board = "F2" => pc' = "timers")
  BY <1>1, <1>2, <1>5, StageOrder
<1>7. BootTypeOK'
  BY <1>4, <1>5 DEF BootTypeOK, powerVars, cacheVars
<1>8. NoUndervolt' /\ CacheCoherent' /\ HaltsForCause'
  BY <1>4, <1>6 DEF NoUndervolt, CacheCoherent, HaltsForCause, powerVars, cacheVars
<1>9. board' = "N6" => StagesN6'
  BY <1>2, <1>4, <1>5, <1>6, Kept DEF StagesN6, powerVars, cacheVars, FromLatch, FromOut,
     FromSupply, FromScale, FromOsc, SourceOn, PllSet, OnPll, Programmed
<1>10. board' = "F2" => StagesF2'
  BY <1>2, <1>4, <1>5, <1>6 DEF StagesF2, OnlyN6, powerVars, cacheVars, OnPll, Programmed
<1>11. ClocksInv'
  <2>1. TargetIc.cpu = 1
    BY Numbers DEF BootTypeOK
  <2>2. QED
    BY <1>2, <1>4, <1>5, <1>6, <2>1, Kept DEF ClocksInv, SourceOn, PllSet, OnPll, Programmed
<1>12. QED
  BY <1>7, <1>8, <1>9, <1>10, <1>11

(* Steps that leave all registers alone: the scheduler's start, the hardware *)
(* getting ready, a time-out, a tick, and steps of the tasks.                *)
LEMMA QuietSteps ==
  StartInv /\ (os_start \/ PartReady \/ PartTimeout \/ SysTick \/ UNCHANGED bootVars) => StartInv'
<1> SUFFICES ASSUME StartInv, os_start \/ PartReady \/ PartTimeout \/ SysTick \/ UNCHANGED bootVars
             PROVE  StartInv'
  OBVIOUS
<1> USE DEF StartInv
<1>1. /\ UNCHANGED <<board, pllSrc, broken, regVars, powerVars, cacheVars, core, prescaler>>
      /\ await' \in {await, "none"}
  BY DEF os_start, PartReady, PartTimeout, ClkHalt, SysTick, bootVars
<1>2. \/ pc' = pc
      \/ pc = "start" /\ pc' = "running"
      \/ pc' = "fault"
      \/ pc' = "halted" /\ broken # {}
  <2>1. CASE PartTimeout
    <3>1. await # "none" /\ ~ GetsReady(await) /\ pc' = "halted"
      BY <2>1 DEF PartTimeout, ClkHalt
    <3>2. await = "PLL" => pll.src \in sources
      BY Numbers DEF ClocksInv, BootTypeOK
    <3>3. QED
      BY <3>1, <3>2 DEF GetsReady
  <2>2. CASE os_start \/ PartReady \/ SysTick \/ UNCHANGED bootVars
    BY <2>2 DEF os_start, At, PartReady, SysTick, bootVars
  <2>3. QED
    BY <2>1, <2>2
<1>3. pc' \in PcSet /\ tick' \in 0..MaxTicks /\ start' \in 0..MaxTicks
  BY <1>2, AllStages, BootAssumption
     DEF BootTypeOK, os_start, PartReady, PartTimeout, ClkHalt, SysTick, bootVars
<1>4. BootTypeOK'
  BY <1>1, <1>3, Kept DEF BootTypeOK, powerVars, cacheVars, regVars
<1>5. NoUndervolt' /\ CacheCoherent' /\ HaltsForCause'
  BY <1>1, <1>2 DEF NoUndervolt, CacheCoherent, HaltsForCause, powerVars, cacheVars
<1>6. board' = "N6" => StagesN6'
  BY <1>1, <1>2, Kept DEF StagesN6, powerVars, cacheVars, regVars, FromLatch, FromOut,
     FromSupply, FromScale, FromOsc, SourceOn, PllSet, OnPll, Programmed
<1>7. board' = "F2" => StagesF2'
  BY <1>1, <1>2 DEF StagesF2, OnlyN6, powerVars, cacheVars, regVars, OnPll, Programmed
<1>8. ClocksInv'
  BY <1>1, <1>2, Kept DEF ClocksInv, regVars, SourceOn, PllSet, OnPll, Programmed
<1>9. QED
  BY <1>1, <1>4, <1>5, <1>6, <1>7, <1>8

(* The states a board can start in.                                          *)
LEMMA StartBegins == BootInit => StartInv
<1> SUFFICES ASSUME BootInit PROVE StartInv
  OBVIOUS
<1>1. /\ board \in Boards /\ pllSrc \in Oscillators /\ pc = "reset" /\ await = "none"
      /\ ~ supply /\ ~ scale0 /\ ~ mpu /\ ~ dcache
      /\ smps = [clocked |-> FALSE, high |-> FALSE, out |-> FALSE]
      /\ pll \in {Off, Left} /\ ic = [cpu |-> 1, sys |-> 2]
      /\ latency = IF board = "F2" /\ cpuSel = "PLL" THEN 3 ELSE 0
  BY DEF BootInit, Left
<1>2. BootTypeOK
  <2>1. {supply, scale0, mpu, dcache} \subseteq BOOLEAN
    BY Zenon DEF BootInit
  <2>2. broken \subseteq Needed /\ start = 0 /\ tick = 0 /\ sources = {"HSI"}
        /\ {cpuSel, sysSel} \subseteq {"HSI", "PLL"}
    BY DEF BootInit
  <2>3. QED
    BY <1>1, <2>1, <2>2, AllStages, BootAssumption DEF BootTypeOK, Oscillators
<1>3. NoUndervolt /\ CacheCoherent /\ HaltsForCause
  BY <1>1 DEF NoUndervolt, CacheCoherent, HaltsForCause
<1>4. StagesN6
  BY <1>1, Numbers DEF StagesN6, FromLatch, FromOut, FromSupply, FromScale, FromOsc, SourceOn,
     PllSet, OnPll, Programmed
<1>5. board = "F2" => StagesF2
  BY <1>1 DEF StagesF2, OnlyN6, OnPll, Programmed
<1>6. ClocksInv
  BY <1>1 DEF ClocksInv, SourceOn, PllSet, OnPll, Programmed
<1>7. QED
  BY <1>2, <1>3, <1>4, <1>5, <1>6 DEF StartInv

(* Every step of the system does one of these to the start.                  *)
LEMMA StartStep == StartInv /\ [Next]_vars => StartInv'
<1> SUFFICES ASSUME StartInv, [Next]_vars PROVE StartInv'
  OBVIOUS
<1>1. BootStep \/ PartReady \/ PartTimeout \/ SysTick \/ UNCHANGED bootVars
  BY DEF Next, vars, Boot, AppInput, TaskStep, SetClock, LoadReg, StoreReg, WriteUnit, SelectSource,
     OpenBus, StoreSlot, ArmLine, EnableIrq, Edge, Irq, EnterIrq, ServeLine, Serve
<1>2. QED
  BY <1>1, PreparesN6, ResetStep, OtherStages, SourceSteps, PllStep, LatencyStep, SwitchSteps,
     QuietSteps DEF BootStep

(* What the invariant says of the speed of the core.                         *)
LEMMA Speeds == StartInv => NeverOverclocked
<1> SUFFICES ASSUME StartInv PROVE NeverOverclocked
  OBVIOUS
<1> USE DEF StartInv
<1>1. /\ OscMHz("HSI") = IF board = "N6" THEN 64 ELSE 16
      /\ pll = TargetPll => PllMHz = ConfigCpuMHz
      /\ pll = Left => PllMHz = IF board = "N6" THEN 400 ELSE 100
      /\ pll = Off => PllMHz = 0
      /\ ConfigCpuMHz = IF board = "N6" THEN 800 ELSE 120
  BY Numbers DEF BootTypeOK
<1>2. pll \in {Off, Left, TargetPll} /\ ic.cpu = 1
  BY DEF ClocksInv
<1>3. CpuMHz = IF cpuSel = "HSI" THEN OscMHz("HSI") ELSE PllMHz
  BY <1>1, <1>2 DEF CpuMHz
<1>4. ASSUME board = "F2" PROVE CpuMHz <= 30 * (latency + 1)
  BY <1>1, <1>2, <1>3, <1>4 DEF StagesF2, BootTypeOK
<1>5. ASSUME board = "N6", CpuMHz > 600 PROVE supply /\ scale0 /\ smps.high /\ smps.out
  BY <1>1, <1>2, <1>3, <1>5 DEF StagesN6, BootTypeOK
<1>6. QED
  BY <1>4, <1>5 DEF NeverOverclocked

(* What it says of the clocks once the scheduler runs.                       *)
LEMMA RunningClocks == StartInv => ClocksAsConfigured
<1> SUFFICES ASSUME StartInv, pc = "running"
             PROVE  /\ CpuMHz = ConfigCpuMHz /\ core = CpuMHz
                    /\ TimerMHz = prescaler + 1
                    /\ board = "F2" => (1000 * CarrierTimerMHz + CarrierPeriod \div 2) \div CarrierPeriod = 38
  BY DEF ClocksAsConfigured
<1> USE DEF StartInv
<1>1. /\ pll = TargetPll /\ cpuSel = "PLL" /\ sysSel = "PLL" /\ ic = TargetIc /\ bus = TargetBus
      /\ core = CoreClock /\ prescaler = KernelMHz - 1
  BY DEF ClocksInv, SourceOn, PllSet, OnPll, Programmed
<1>2. PllMHz = ConfigCpuMHz /\ ConfigCpuMHz = IF board = "N6" THEN 800 ELSE 120
  BY <1>1, Numbers DEF BootTypeOK
<1>3. CASE board = "N6"
  <2>1. CpuMHz = 800 /\ CoreClock = 800
    BY <1>1, <1>2, <1>3 DEF CpuMHz, TargetIc, CoreClock
  <2>2. SysMHz = 400
    BY <1>1, <1>2, <1>3 DEF SysMHz, TargetIc
  <2>3. QED
    BY <1>1, <1>2, <1>3, <2>1, <2>2 DEF KernelMHz, TimerMHz
<1>4. CASE board = "F2"
  <2>1. CpuMHz = 120 /\ CoreClock = 120
    BY <1>1, <1>2, <1>4 DEF CpuMHz, TargetIc, TargetBus, CoreClock
  <2>2. KernelMHz = 60 /\ TimerMHz = 60
    BY <1>1, <1>4, <2>1 DEF KernelMHz, TimerMHz, TargetBus
  <2>3. CarrierTimerMHz = 120 /\ CarrierPeriod = 3158
    BY <2>1 DEF CarrierTimerMHz, CarrierPeriod
  <2>4. QED
    BY <1>1, <1>2, <1>4, <2>1, <2>2, <2>3
<1>5. QED
  BY <1>3, <1>4 DEF BootTypeOK, Boards

(* The start is safe at every step, for both boards, both clock sources,     *)
(* every failing part and every clock configuration left behind.             *)
THEOREM SafeStart == Spec => []BootInv
<1>1. StartInv => BootInv
  BY Speeds DEF StartInv, BootInv
<1>2. IoInit => StartInv
  BY StartBegins DEF IoInit
<1>3. QED
  BY <1>1, <1>2, StartStep, PTL DEF Spec

(* Once the scheduler runs, the clocks are what the configuration and the    *)
(* comments promise.                                                         *)
THEOREM RightClocks == Spec => []ClocksAsConfigured
<1>1. IoInit => StartInv
  BY StartBegins DEF IoInit
<1>2. QED
  BY <1>1, StartStep, RunningClocks, PTL DEF Spec

-----------------------------------------------------------------------------
(***************************************************************************)
(* The bring-up.  What is left of a script is sound, given the units whose *)
(* clock was switched on and the callbacks stored so far: a unit is        *)
(* written only after its clock, and a line armed only after its callback  *)
(* and context, in the same script if not before.                          *)
(***************************************************************************)
Enabled(s, i, x, on) == x \in on \/ \E j \in 1 .. i - 1 : s[j] \in {<<"set", x>>, <<"store", x>>}
Stored(s, i, c, x, kept) == c \in kept[x] \/ \E j \in 1 .. i - 1 : s[j] = <<c, x>>

SoundAt(b, s, i, on, kept) ==
  /\ s[i][1] \in {"pin", "dev", "i2c"} => Enabled(s, i, s[i][2], on)
  /\ s[i][1] = "i2c" => s[i][2] = "I2C1"
  /\ s[i][1] = "arm" => \A c \in {"ctx", "cb"} : Stored(s, i, c, s[i][2], kept)
  /\ s[i][1] = "store" => b = "F2"

Sound(b, s, on, kept) == \A i \in 1 .. Len(s) : SoundAt(b, s, i, on, kept)

\* What a script leaves behind: the clocks it switches on, the callbacks it stores.
Enables(s) == {x \in Units : \E j \in 1 .. Len(s) : s[j] \in {<<"set", x>>, <<"store", x>>}}
Stores(s) == [x \in Lines |-> {c \in {"ctx", "cb"} : \E j \in 1 .. Len(s) : s[j] = <<c, x>>}]

Scripted == \A t \in Tasks : Sound(board, todo[t], clocked \cup clobbered, slot)

\* An armed line has its callback and context, and only an armed line has edges.
Answerable ==
  /\ \A l \in armed : slot[l] = {"ctx", "cb"}
  /\ \A l \in Lines : pend[l] # {} => l \in armed

IoInv == IoTypeOK /\ Scripted /\ WritesLand /\ FirstEdgeAnswered /\ Answerable

-----------------------------------------------------------------------------

(* Every operation of a driver's script is one.                              *)
LEMMA Operations ==
  /\ \A o \in {"set", "load", "store", "pin", "dev", "source", "i2c"}, u \in Units :
       <<o, u>> \in Operation
  /\ \A o \in {"ctx", "cb", "arm", "nvic"}, l \in Lines : <<o, l>> \in Operation
  BY DEF Operation

(* An operation is a pair of a name and an operand.                          *)
LEMMA Operands ==
  ASSUME NEW x \in Operation
  PROVE  /\ x = <<x[1], x[2]>>
         /\ \/ x[1] \in {"set", "load", "store", "pin", "dev", "source", "i2c"} /\ x[2] \in Units
            \/ x[1] \in {"ctx", "cb", "arm", "nvic"} /\ x[2] \in Lines
  BY DEF Operation

(* Two scripts run one after the other: the second may rely on what the      *)
(* first leaves behind, and both leave behind what they do.                  *)
LEMMA SoundJoin ==
  ASSUME NEW b, NEW on, NEW kept, NEW s \in Seq(Operation), NEW t \in Seq(Operation),
         NEW on2, NEW kept2,
         Sound(b, s, on, kept), Sound(b, t, on2, kept2),
         on2 \subseteq on \cup Enables(s),
         \A x \in Lines : kept2[x] \subseteq kept[x] \cup Stores(s)[x]
  PROVE  /\ s \o t \in Seq(Operation) /\ Sound(b, s \o t, on, kept)
         /\ Enables(s) \cup Enables(t) \subseteq Enables(s \o t)
         /\ \A x \in Lines : Stores(s)[x] \subseteq Stores(s \o t)[x]
<1> DEFINE r == s \o t
<1>1. /\ r \in Seq(Operation) /\ Len(r) = Len(s) + Len(t) /\ Len(s) \in Nat /\ Len(t) \in Nat
      /\ \A i \in 1 .. Len(s) : r[i] = s[i]
      /\ \A i \in 1 .. Len(t) : r[Len(s) + i] = t[i]
  OBVIOUS
<1> HIDE DEF r
<1>2. \A i \in 1 .. Len(s) : i \in 1 .. Len(r)
  BY <1>1
<1>3. \A i \in 1 .. Len(t) : Len(s) + i \in 1 .. Len(r)
  BY <1>1
<1>4. Enables(s) \subseteq Enables(r)
  BY <1>1, <1>2, Zenon DEF Enables
<1>5. Enables(t) \subseteq Enables(r)
  BY <1>1, <1>3, Zenon DEF Enables
<1>6. \A x \in Lines : Stores(s)[x] \subseteq Stores(r)[x]
  BY <1>1, <1>2, Zenon DEF Stores
<1>7. ASSUME NEW i \in 1 .. Len(s)
      PROVE  SoundAt(b, r, i, on, kept)
  <2>1. r[i] = s[i] /\ SoundAt(b, s, i, on, kept)
    BY <1>1 DEF Sound
  <2>2. \A j \in 1 .. i - 1 : r[j] = s[j]
    BY <1>1
  <2>3. QED
    BY <2>1, <2>2, Zenon DEF SoundAt, Enabled, Stored
<1>8. ASSUME NEW k \in 1 .. Len(t)
      PROVE  SoundAt(b, r, Len(s) + k, on, kept)
  <2> DEFINE i == Len(s) + k
  <2>1. r[i] = t[k] /\ SoundAt(b, t, k, on2, kept2) /\ t[k] \in Operation
    BY <1>1 DEF Sound
  <2>2. \A j \in 1 .. k - 1 : Len(s) + j \in 1 .. i - 1 /\ r[Len(s) + j] = t[j]
    BY <1>1
  <2>3. \A j \in 1 .. Len(s) : j \in 1 .. i - 1 /\ r[j] = s[j]
    BY <1>1
  <2> HIDE DEF i
  <2>4. ASSUME NEW x, Enabled(t, k, x, on2)
        PROVE  Enabled(r, i, x, on)
    <3>1. CASE x \in on2
      BY <2>3, <3>1, Zenon DEF Enabled, Enables
    <3>2. CASE \E j \in 1 .. k - 1 : t[j] \in {<<"set", x>>, <<"store", x>>}
      BY <2>2, <3>2, Zenon DEF Enabled
    <3>3. QED
      BY <2>4, <3>1, <3>2, Zenon DEF Enabled
  <2>5. ASSUME NEW x \in Lines, NEW c \in {"ctx", "cb"}, Stored(t, k, c, x, kept2)
        PROVE  Stored(r, i, c, x, kept)
    <3>1. CASE c \in kept2[x]
      <4>1. c \in kept[x] \/ c \in Stores(s)[x]
        BY <3>1
      <4>2. c \in Stores(s)[x] => \E j \in 1 .. Len(s) : s[j] = <<c, x>>
        BY DEF Stores
      <4>3. QED
        BY <2>3, <4>1, <4>2, Zenon DEF Stored
    <3>2. CASE \E j \in 1 .. k - 1 : t[j] = <<c, x>>
      BY <2>2, <3>2, Zenon DEF Stored
    <3>3. QED
      BY <2>5, <3>1, <3>2, Zenon DEF Stored
  <2>6. t[k][1] = "arm" => t[k][2] \in Lines
    BY <2>1, Operands
  <2>7. QED
    BY <2>1, <2>4, <2>5, <2>6, Zenon DEF SoundAt, i
<1>9. Sound(b, r, on, kept)
  <2>1. \A i \in 1 .. Len(r) : i \in 1 .. Len(s) \/ \E k \in 1 .. Len(t) : i = Len(s) + k
    <3>1. \A i \in 1 .. Len(r) : i \notin 1 .. Len(s) =>
            i - Len(s) \in 1 .. Len(t) /\ i = Len(s) + (i - Len(s))
      BY <1>1
    <3>2. QED
      BY <3>1, Zenon
  <2>2. QED
    BY <1>7, <1>8, <2>1, Zenon DEF Sound
<1>10. QED
  BY <1>1, <1>4, <1>5, <1>6, <1>9 DEF r

(* A script stays sound when more clocks are on and more callbacks stored.   *)
LEMMA More ==
  ASSUME NEW b, NEW on, NEW on2, NEW kept, NEW kept2, NEW s \in Seq(Operation),
         Sound(b, s, on, kept), on \subseteq on2, \A x \in Lines : kept[x] \subseteq kept2[x]
  PROVE  Sound(b, s, on2, kept2)
<1> SUFFICES ASSUME NEW i \in 1 .. Len(s)
             PROVE  SoundAt(b, s, i, on2, kept2)
  BY DEF Sound
<1>1. SoundAt(b, s, i, on, kept) /\ s[i] \in Operation
  BY DEF Sound
<1>2. s[i][1] = "arm" => s[i][2] \in Lines
  BY <1>1, Operands
<1>3. QED
  BY <1>1, <1>2 DEF SoundAt, Enabled, Stored

(* Once the first operation took effect, the rest of the script is sound.    *)
LEMMA Rest ==
  ASSUME NEW b, NEW on, NEW on2, NEW kept, NEW kept2, NEW s \in Seq(Operation), s # <<>>,
         Sound(b, s, on, kept), on \subseteq on2, \A x \in Lines : kept[x] \subseteq kept2[x],
         Head(s)[1] \in {"set", "store"} => Head(s)[2] \in on2,
         Head(s)[1] \in {"ctx", "cb"} => Head(s)[1] \in kept2[Head(s)[2]]
  PROVE  Tail(s) \in Seq(Operation) /\ Sound(b, Tail(s), on2, kept2)
<1> DEFINE r == Tail(s)
<1>1. /\ r \in Seq(Operation) /\ Len(s) \in Nat /\ Len(r) = Len(s) - 1
      /\ Head(s) = s[1] /\ \A i \in 1 .. Len(r) : r[i] = s[i + 1]
  OBVIOUS
<1> HIDE DEF r
<1> SUFFICES ASSUME NEW i \in 1 .. Len(r)
             PROVE  SoundAt(b, r, i, on2, kept2)
  BY <1>1 DEF Sound, r
<1>2. i + 1 \in 1 .. Len(s)
  BY <1>1
<1>3. r[i] = s[i + 1] /\ r[i] \in Operation /\ SoundAt(b, s, i + 1, on, kept)
  BY <1>1, <1>2 DEF Sound
<1>4. \A j \in 1 .. (i + 1) - 1 : j = 1 \/ (j - 1 \in 1 .. i - 1 /\ s[j] = r[j - 1])
  BY <1>1
<1>5. ASSUME NEW x, Enabled(s, i + 1, x, on)
      PROVE  Enabled(r, i, x, on2)
  <2>1. CASE x \in on
    BY <2>1 DEF Enabled
  <2>2. ASSUME NEW j \in 1 .. (i + 1) - 1, s[j] \in {<<"set", x>>, <<"store", x>>}
        PROVE  Enabled(r, i, x, on2)
    <3>1. CASE j = 1
      BY <1>1, <2>2, <3>1 DEF Enabled
    <3>2. CASE j - 1 \in 1 .. i - 1 /\ s[j] = r[j - 1]
      BY <2>2, <3>2, Zenon DEF Enabled
    <3>3. QED
      BY <1>4, <3>1, <3>2, Zenon
  <2>3. QED
    BY <1>5, <2>1, <2>2, Zenon DEF Enabled
<1>6. ASSUME NEW x \in Lines, NEW c \in {"ctx", "cb"}, Stored(s, i + 1, c, x, kept)
      PROVE  Stored(r, i, c, x, kept2)
  <2>1. CASE c \in kept[x]
    BY <2>1 DEF Stored
  <2>2. ASSUME NEW j \in 1 .. (i + 1) - 1, s[j] = <<c, x>>
        PROVE  Stored(r, i, c, x, kept2)
    <3>1. CASE j = 1
      BY <1>1, <2>2, <3>1 DEF Stored
    <3>2. CASE j - 1 \in 1 .. i - 1 /\ s[j] = r[j - 1]
      BY <2>2, <3>2, Zenon DEF Stored
    <3>3. QED
      BY <1>4, <3>1, <3>2, Zenon
  <2>3. QED
    BY <1>6, <2>1, <2>2, Zenon DEF Stored
<1>7. r[i][1] = "arm" => r[i][2] \in Lines
  BY <1>3, Operands
<1>8. QED
  BY <1>3, <1>5, <1>6, <1>7, Zenon DEF SoundAt

(* A unit's clock is switched on by the operations that do so.               *)
LEMMA ClockScript ==
  ASSUME NEW b \in Boards, NEW u \in Units, NEW on, NEW kept
  PROVE  /\ clk_enable(b, u) \in Seq(Operation) /\ Sound(b, clk_enable(b, u), on, kept)
         /\ u \in Enables(clk_enable(b, u))
<1>1. CASE b = "F2"
  <2> DEFINE s == <<<<"load", u>>, <<"store", u>>>>
  <2>1. clk_enable(b, u) = s
    BY <1>1 DEF clk_enable
  <2>2. s \in Seq(Operation) /\ Len(s) = 2 /\ s[1] = <<"load", u>> /\ s[2] = <<"store", u>>
    BY Operations
  <2> HIDE DEF s
  <2>3. Sound(b, s, on, kept)
    BY <1>1, <2>2 DEF Sound, SoundAt
  <2>4. u \in Enables(s)
    BY <2>2 DEF Enables
  <2>5. QED
    BY <2>1, <2>2, <2>3, <2>4
<1>2. CASE b = "N6"
  <2> DEFINE s == <<<<"set", u>>>>
  <2>1. clk_enable(b, u) = s
    BY <1>2 DEF clk_enable
  <2>2. s \in Seq(Operation) /\ Len(s) = 1 /\ s[1] = <<"set", u>>
    BY Operations
  <2> HIDE DEF s
  <2>3. Sound(b, s, on, kept)
    BY <1>2, <2>2 DEF Sound, SoundAt
  <2>4. u \in Enables(s)
    <3>1. 1 \in 1 .. Len(s) /\ s[1] \in {<<"set", u>>, <<"store", u>>}
      BY <2>2
    <3>2. QED
      BY <3>1, Zenon DEF Enables
  <2>5. QED
    BY <2>1, <2>2, <2>3, <2>4
<1>3. QED
  BY <1>1, <1>2 DEF Boards

(* A write to a unit whose clock is on is a sound script.                    *)
LEMMA WriteScript ==
  ASSUME NEW b, NEW u \in Units, NEW o \in {"pin", "dev", "i2c"}, NEW on, NEW kept,
         u \in on, o = "i2c" => u = "I2C1"
  PROVE  <<<<o, u>>>> \in Seq(Operation) /\ Sound(b, <<<<o, u>>>>, on, kept)
<1> DEFINE s == <<<<o, u>>>>
<1>1. s \in Seq(Operation) /\ Len(s) = 1 /\ s[1] = <<o, u>>
  BY Operations
<1> HIDE DEF s
<1>2. Sound(b, s, on, kept)
  BY <1>1 DEF Sound, SoundAt, Enabled
<1>3. QED
  BY <1>1, <1>2 DEF s

(* So are two.                                                               *)
LEMMA WriteTwo ==
  ASSUME NEW b, NEW u \in Units, NEW o \in {"pin", "dev", "i2c"}, NEW on, NEW kept,
         NEW v \in Units, NEW p \in {"pin", "dev", "i2c"},
         u \in on, o = "i2c" => u = "I2C1", v \in on, p = "i2c" => v = "I2C1"
  PROVE  <<<<o, u>>, <<p, v>>>> \in Seq(Operation) /\ Sound(b, <<<<o, u>>, <<p, v>>>>, on, kept)
<1> DEFINE s == <<<<o, u>>, <<p, v>>>>
<1>1. s \in Seq(Operation) /\ Len(s) = 2 /\ s[1] = <<o, u>> /\ s[2] = <<p, v>>
  BY Operations
<1> HIDE DEF s
<1>2. SoundAt(b, s, 1, on, kept) /\ SoundAt(b, s, 2, on, kept)
  BY <1>1 DEF SoundAt, Enabled
<1>3. Sound(b, s, on, kept)
  BY <1>1, <1>2 DEF Sound
<1>4. QED
  BY <1>1, <1>3 DEF s

(* An input is registered before its line is armed.                          *)
LEMMA InputScript ==
  ASSUME NEW b \in Boards, NEW p \in Ports, NEW l \in Lines, NEW on, NEW kept
  PROVE  /\ gpio_config_input_exti(b, p, l) \in Seq(Operation)
         /\ Sound(b, gpio_config_input_exti(b, p, l), on, kept)
<1> DEFINE s1 == <<<<"ctx", l>>, <<"cb", l>>>>
           s2 == clk_enable(b, p)
           s3 == <<<<"arm", l>>, <<"nvic", l>>>>
           kept2 == [x \in Lines |-> kept[x] \cup Stores(s1)[x]]
           kept3 == [x \in Lines |-> kept[x] \cup Stores(s1 \o s2)[x]]
<1>1. s1 \in Seq(Operation) /\ Len(s1) = 2 /\ s1[1] = <<"ctx", l>> /\ s1[2] = <<"cb", l>>
  BY Operations
<1>2. s3 \in Seq(Operation) /\ Len(s3) = 2 /\ s3[1] = <<"arm", l>> /\ s3[2] = <<"nvic", l>>
  BY Operations
<1>3. gpio_config_input_exti(b, p, l) = (s1 \o s2) \o s3
  BY DEF gpio_config_input_exti
<1>4. p \in Units
  BY DEF Units
<1> HIDE DEF s1, s2, s3
<1>5. Sound(b, s1, on, kept)
  BY <1>1 DEF Sound, SoundAt
<1>6. Stores(s1)[l] = {"ctx", "cb"}
  <2>1. 1 \in 1 .. Len(s1) /\ 2 \in 1 .. Len(s1)
    BY <1>1
  <2>2. \A c \in {"ctx", "cb"} : \E j \in 1 .. Len(s1) : s1[j] = <<c, l>>
    BY <1>1, <2>1, Zenon
  <2>3. QED
    BY <2>2, Zenon DEF Stores
<1>7. s2 \in Seq(Operation) /\ Sound(b, s2, on, kept2)
  BY <1>4, ClockScript DEF s2
<1>8. \A x \in Lines : kept2[x] \subseteq kept[x] \cup Stores(s1)[x]
  OBVIOUS
<1>9. /\ s1 \o s2 \in Seq(Operation) /\ Sound(b, s1 \o s2, on, kept)
      /\ \A x \in Lines : Stores(s1)[x] \subseteq Stores(s1 \o s2)[x]
  <2> HIDE DEF kept2
  <2>1. on \subseteq on \cup Enables(s1)
    OBVIOUS
  <2>2. QED
    BY <1>1, <1>5, <1>7, <1>8, <2>1, SoundJoin, Zenon
<1>10. {"ctx", "cb"} \subseteq kept3[l]
  BY <1>6, <1>9
<1>11. \A x \in Lines : kept3[x] \subseteq kept[x] \cup Stores(s1 \o s2)[x]
  OBVIOUS
<1> HIDE DEF kept2, kept3
<1>12. SoundAt(b, s3, 1, on, kept3) /\ SoundAt(b, s3, 2, on, kept3)
  BY <1>2, <1>10 DEF SoundAt, Stored
<1>13. Sound(b, s3, on, kept3)
  BY <1>2, <1>12 DEF Sound
<1>14. QED
  <2>1. on \subseteq on \cup Enables(s1 \o s2)
    OBVIOUS
  <2>2. (s1 \o s2) \o s3 \in Seq(Operation) /\ Sound(b, (s1 \o s2) \o s3, on, kept)
    <3> DEFINE r == s1 \o s2
    <3>1. r \in Seq(Operation) /\ Sound(b, r, on, kept) /\ on \subseteq on \cup Enables(r)
      BY <1>9, <2>1
    <3>2. \A x \in Lines : kept3[x] \subseteq kept[x] \cup Stores(r)[x]
      BY <1>11
    <3> HIDE DEF r
    <3>3. r \o s3 \in Seq(Operation) /\ Sound(b, r \o s3, on, kept)
      BY <1>2, <1>13, <3>1, <3>2, SoundJoin, Zenon
    <3>4. QED
      BY <3>3 DEF r
  <2>3. QED
    BY <1>3, <2>2

(* A script may use the clocks the one before it switched on.                *)
LEMMA Then ==
  ASSUME NEW b, NEW on, NEW kept, NEW s \in Seq(Operation), NEW t \in Seq(Operation),
         Sound(b, s, on, kept), Sound(b, t, on \cup Enables(s), kept)
  PROVE  /\ s \o t \in Seq(Operation) /\ Sound(b, s \o t, on, kept)
         /\ Enables(s) \cup Enables(t) \subseteq Enables(s \o t)
<1> DEFINE on2 == on \cup Enables(s)
<1>1. on2 \subseteq on \cup Enables(s) /\ \A x \in Lines : kept[x] \subseteq kept[x] \cup Stores(s)[x]
  OBVIOUS
<1>2. Sound(b, t, on2, kept)
  OBVIOUS
<1> HIDE DEF on2
<1>3. QED
  BY <1>1, <1>2, SoundJoin, Zenon

(* Another clock switched on.                                                *)
LEMMA ThenClock ==
  ASSUME NEW b \in Boards, NEW u \in Units, NEW on, NEW kept, NEW s \in Seq(Operation),
         Sound(b, s, on, kept)
  PROVE  /\ s \o clk_enable(b, u) \in Seq(Operation) /\ Sound(b, s \o clk_enable(b, u), on, kept)
         /\ Enables(s) \cup {u} \subseteq Enables(s \o clk_enable(b, u))
<1> DEFINE t == clk_enable(b, u)
<1>1. /\ t \in Seq(Operation) /\ Sound(b, t, on \cup Enables(s), kept)
      /\ u \in Enables(t)
  BY ClockScript
<1> HIDE DEF t
<1>2. /\ s \o t \in Seq(Operation) /\ Sound(b, s \o t, on, kept)
      /\ Enables(s) \cup Enables(t) \subseteq Enables(s \o t)
  BY <1>1, Then
<1>3. QED
  BY <1>1, <1>2 DEF t

(* The infrared transmitter: its timer, its pin, then the timer is set up.   *)
LEMMA TransmitScript ==
  ASSUME NEW b \in Boards, NEW on, NEW kept
  PROVE  ir_tx_drv_init(b) \in Seq(Operation) /\ Sound(b, ir_tx_drv_init(b), on, kept)
<1> DEFINE tim == [F2 |-> "TIM1", N6 |-> "TIM3"][b]
           pin == <<<<"pin", "PA">>>>
           dev == <<<<"dev", tim>>>>
           ct == clk_enable(b, tim)
           cp == clk_enable(b, "PA")
           io == cp \o pin
           s == ct \o io
<1>1. tim \in Units /\ "PA" \in Units
  BY DEF Units, Ports, Boards
<1>2. ir_tx_drv_init(b) = s \o dev
  BY DEF ir_tx_drv_init, gpio_pin_init
<1> HIDE DEF tim
<1>3. ct \in Seq(Operation) /\ Sound(b, ct, on, kept) /\ tim \in Enables(ct)
  BY <1>1, ClockScript
<1>4. io \in Seq(Operation) /\ Sound(b, io, on \cup Enables(ct), kept)
  <2> DEFINE on2 == on \cup Enables(ct)
             on3 == on2 \cup Enables(cp)
  <2> HIDE DEF on2
  <2>1. cp \in Seq(Operation) /\ Sound(b, cp, on2, kept) /\ "PA" \in on3
    BY <1>1, ClockScript
  <2>2. pin \in Seq(Operation) /\ Sound(b, pin, on3, kept)
    <3> HIDE DEF on3
    <3>1. QED
      BY <1>1, <2>1, WriteScript
  <2> HIDE DEF cp, pin
  <2>3. QED
    BY <2>1, <2>2, Then DEF on2
<1> HIDE DEF ct, io
<1>5. /\ s \in Seq(Operation) /\ Sound(b, s, on, kept)
      /\ Enables(ct) \cup Enables(io) \subseteq Enables(s)
  BY <1>3, <1>4, Then
<1> HIDE DEF s
<1>6. dev \in Seq(Operation) /\ Sound(b, dev, on \cup Enables(s), kept)
  <2> DEFINE on2 == on \cup Enables(s)
  <2>1. tim \in on2
    BY <1>3, <1>5
  <2> HIDE DEF on2
  <2>2. dev \in Seq(Operation) /\ Sound(b, dev, on2, kept)
    BY <1>1, <2>1, WriteScript
  <2>3. QED
    BY <2>2 DEF on2
<1> HIDE DEF dev
<1>7. s \o dev \in Seq(Operation) /\ Sound(b, s \o dev, on, kept)
  BY <1>5, <1>6, Then
<1>8. QED
  BY <1>2, <1>7

(* The serial port: port clock, unit clock, pins, unit.                      *)
LEMMA UartScript ==
  ASSUME NEW b \in Boards, NEW on, NEW kept
  PROVE  HAL_UART_MspInit(b) \in Seq(Operation) /\ Sound(b, HAL_UART_MspInit(b), on, kept)
<1> DEFINE port == ConsolePort[b]
           uart == ConsoleUart[b]
           init == <<<<"pin", port>>, <<"dev", uart>>>>
           cp == clk_enable(b, port)
           s == cp \o clk_enable(b, uart)
           on2 == on \cup Enables(s)
<1>1. port \in Units /\ uart \in Units
  BY DEF Units, Ports, Boards, ConsolePort, ConsoleUart
<1>2. HAL_UART_MspInit(b) = s \o init
  BY DEF HAL_UART_MspInit
<1> HIDE DEF port, uart
<1>3. cp \in Seq(Operation) /\ Sound(b, cp, on, kept) /\ port \in Enables(cp)
  BY <1>1, ClockScript
<1> HIDE DEF cp
<1>4. /\ s \in Seq(Operation) /\ Sound(b, s, on, kept)
      /\ Enables(cp) \cup {uart} \subseteq Enables(s)
  BY <1>1, <1>3, ThenClock
<1>5. port \in on2 /\ uart \in on2
  BY <1>3, <1>4
<1> HIDE DEF s
<1>6. init \in Seq(Operation) /\ Sound(b, init, on2, kept)
  <2> HIDE DEF on2
  <2>1. QED
    BY <1>1, <1>5, WriteTwo
<1> HIDE DEF init
<1>7. s \o init \in Seq(Operation) /\ Sound(b, s \o init, on, kept)
  BY <1>4, <1>6, Then
<1>8. QED
  BY <1>2, <1>7

(* The bus: its clocks before its pins and its controller.                   *)
LEMMA BusScript ==
  ASSUME NEW b \in Boards, NEW on, NEW kept
  PROVE  i2c_hw_init(b) \in Seq(Operation) /\ Sound(b, i2c_hw_init(b), on, kept)
<1>1. "I2C1" \in Units /\ "PB" \in Units /\ "PC" \in Units /\ "PH" \in Units
  BY DEF Units, Ports
<1>2. CASE b = "F2"
  <2> DEFINE init == <<<<"pin", "PB">>, <<"i2c", "I2C1">>>>
             cb == clk_enable(b, "PB")
             s == cb \o clk_enable(b, "I2C1")
             on2 == on \cup Enables(s)
  <2>1. i2c_hw_init(b) = s \o init
    BY <1>2 DEF i2c_hw_init
  <2>2. cb \in Seq(Operation) /\ Sound(b, cb, on, kept) /\ "PB" \in Enables(cb)
    BY <1>1, ClockScript
  <2> HIDE DEF cb
  <2>3. /\ s \in Seq(Operation) /\ Sound(b, s, on, kept)
        /\ Enables(cb) \cup {"I2C1"} \subseteq Enables(s)
    BY <1>1, <2>2, ThenClock
  <2>4. "PB" \in on2 /\ "I2C1" \in on2
    BY <2>2, <2>3
  <2> HIDE DEF s
  <2>5. init \in Seq(Operation) /\ Sound(b, init, on2, kept)
    <3> HIDE DEF on2
    <3>1. QED
      BY <1>1, <2>4, WriteTwo
  <2> HIDE DEF init
  <2>6. s \o init \in Seq(Operation) /\ Sound(b, s \o init, on, kept)
    BY <2>3, <2>5, Then
  <2>7. QED
    BY <2>1, <2>6
<1>3. CASE b = "N6"
  <2> DEFINE src == <<<<"source", "I2C1">>>>
             s1 == src \o clk_enable(b, "PH")
             s2 == s1 \o clk_enable(b, "PC")
             s3 == s2 \o clk_enable(b, "I2C1")
             init == <<<<"pin", "PH">>, <<"pin", "PC">>, <<"i2c", "I2C1">>>>
             on2 == on \cup Enables(s3)
  <2>1. i2c_hw_init(b) = s3 \o init
    BY <1>3 DEF i2c_hw_init
  <2>2. src \in Seq(Operation) /\ Sound(b, src, on, kept)
    <3>1. src \in Seq(Operation) /\ Len(src) = 1 /\ src[1] = <<"source", "I2C1">>
      BY <1>1, Operations
    <3> HIDE DEF src
    <3>2. QED
      BY <3>1 DEF Sound, SoundAt
  <2> HIDE DEF src
  <2>3. /\ s1 \in Seq(Operation) /\ Sound(b, s1, on, kept) /\ "PH" \in Enables(s1)
    BY <1>1, <2>2, ThenClock
  <2> HIDE DEF s1
  <2>4. /\ s2 \in Seq(Operation) /\ Sound(b, s2, on, kept) /\ {"PH", "PC"} \subseteq Enables(s2)
    BY <1>1, <2>3, ThenClock
  <2> HIDE DEF s2
  <2>5. /\ s3 \in Seq(Operation) /\ Sound(b, s3, on, kept)
        /\ {"PH", "PC", "I2C1"} \subseteq Enables(s3)
    BY <1>1, <2>4, ThenClock
  <2> HIDE DEF s3
  <2>6. "PH" \in on2 /\ "PC" \in on2 /\ "I2C1" \in on2
    BY <2>5
  <2>7. init \in Seq(Operation) /\ Sound(b, init, on2, kept)
    <3>1. /\ init \in Seq(Operation) /\ Len(init) = 3 /\ init[1] = <<"pin", "PH">>
          /\ init[2] = <<"pin", "PC">> /\ init[3] = <<"i2c", "I2C1">>
      BY <1>1, Operations
    <3> HIDE DEF init, on2
    <3>2. /\ SoundAt(b, init, 1, on2, kept) /\ SoundAt(b, init, 2, on2, kept)
          /\ SoundAt(b, init, 3, on2, kept)
      BY <2>6, <3>1 DEF SoundAt, Enabled
    <3>3. QED
      BY <3>1, <3>2 DEF Sound
  <2> HIDE DEF init
  <2>8. s3 \o init \in Seq(Operation) /\ Sound(b, s3 \o init, on, kept)
    BY <2>5, <2>7, Then
  <2>9. QED
    BY <2>1, <2>8
<1>4. QED
  BY <1>2, <1>3 DEF Boards

(* Every script a task starts with is sound, whatever ran before it.         *)
LEMMA ScriptsSound ==
  ASSUME NEW b \in Boards, NEW t \in Tasks, NEW on, NEW kept
  PROVE  Scripts[b][t] \in Seq(Operation) /\ Sound(b, Scripts[b][t], on, kept)
<1>1. /\ Scripts[b]["ir"] = ir_rx_drv_init(b) \o ir_tx_drv_init(b)
      /\ Scripts[b]["sensor"] = i2c_hw_init(b) /\ Scripts[b]["serial"] = HAL_UART_MspInit(b)
  BY DEF Scripts
<1>2. CASE t = "ir"
  <2> DEFINE rx == ir_rx_drv_init(b)
             tx == ir_tx_drv_init(b)
  <2>1. 0 \in Lines /\ [F2 |-> "PC", N6 |-> "PA"][b] \in Ports
    BY IoAssumption DEF Boards, Ports
  <2>2. rx \in Seq(Operation) /\ Sound(b, rx, on, kept)
    BY <2>1, InputScript DEF ir_rx_drv_init
  <2>3. tx \in Seq(Operation) /\ Sound(b, tx, on \cup Enables(rx), kept)
    BY TransmitScript
  <2> HIDE DEF rx, tx
  <2>4. rx \o tx \in Seq(Operation) /\ Sound(b, rx \o tx, on, kept)
    BY <2>2, <2>3, Then
  <2>5. QED
    BY <1>1, <1>2, <2>4 DEF rx, tx
<1>3. CASE t = "sensor"
  BY <1>1, <1>3, BusScript
<1>4. CASE t = "serial"
  BY <1>1, <1>4, UartScript
<1>5. QED
  BY <1>2, <1>3, <1>4 DEF Tasks

-----------------------------------------------------------------------------

(* The next operation of a task may rely on what its script was sound for.   *)
LEMMA NextOperation ==
  ASSUME IoTypeOK, Scripted, NEW t \in Tasks, ~ Done(t)
  PROVE  /\ Op(t) \in Operation
         /\ Op(t)[1] \in {"pin", "dev", "i2c"} => Op(t)[2] \in clocked \cup clobbered
         /\ Op(t)[1] = "i2c" => Op(t)[2] = "I2C1"
         /\ Op(t)[1] = "arm" => {"ctx", "cb"} \subseteq slot[Op(t)[2]]
         /\ Op(t)[1] = "store" => board = "F2"
<1> DEFINE s == todo[t]
<1>1. s \in Seq(Operation) /\ s # <<>> /\ Sound(board, s, clocked \cup clobbered, slot)
  BY DEF IoTypeOK, Scripted, Done
<1>2. Op(t) = s[1] /\ s[1] \in Operation /\ 1 \in 1 .. Len(s)
  BY <1>1 DEF Op
<1> HIDE DEF s
<1>3. SoundAt(board, s, 1, clocked \cup clobbered, slot)
  BY <1>1, <1>2, Zenon DEF Sound
<1>4. 1 .. 1 - 1 = {}
  OBVIOUS
<1>5. QED
  BY <1>2, <1>3, <1>4 DEF SoundAt, Enabled, Stored

(* A step of one task's script keeps all scripts sound.                      *)
LEMMA StepsScripted ==
  ASSUME IoTypeOK, Scripted, NEW t \in Tasks, ~ Done(t), Step(t), UNCHANGED board,
         clocked \cup clobbered \subseteq (clocked \cup clobbered)',
         \A x \in Lines : slot[x] \subseteq slot'[x],
         Op(t)[1] \in {"set", "store"} => Op(t)[2] \in (clocked \cup clobbered)',
         Op(t)[1] \in {"ctx", "cb"} => Op(t)[1] \in slot'[Op(t)[2]]
  PROVE  todo' \in [Tasks -> Seq(Operation)] /\ Scripted'
<1> DEFINE on == clocked \cup clobbered
           on2 == (clocked \cup clobbered)'
<1>1. todo \in [Tasks -> Seq(Operation)] /\ todo' = [todo EXCEPT ![t] = Tail(@)]
  BY DEF IoTypeOK, Step
<1>2. \A u \in Tasks : Sound(board, todo[u], on, slot)
  BY DEF Scripted
<1>3. on \subseteq on2
  OBVIOUS
<1>4. /\ Op(t)[1] \in {"set", "store"} => Op(t)[2] \in on2
      /\ Op(t)[1] \in {"ctx", "cb"} => Op(t)[1] \in slot'[Op(t)[2]]
  OBVIOUS
<1>5. ASSUME NEW u \in Tasks
      PROVE  todo'[u] \in Seq(Operation) /\ Sound(board, todo'[u], on2, slot')
  <2> HIDE DEF on, on2
  <2>1. todo[u] \in Seq(Operation) /\ Sound(board, todo[u], on, slot)
    BY <1>1, <1>2
  <2>2. CASE u = t
    <3>1. todo'[u] = Tail(todo[t]) /\ todo[t] # <<>>
      BY <1>1, <2>2 DEF Done
    <3>2. QED
      BY <1>3, <1>4, <2>1, <2>2, <3>1, Rest DEF Op
  <2>3. CASE u # t
    <3>1. todo'[u] = todo[u]
      BY <1>1, <2>3
    <3>2. QED
      BY <1>3, <2>1, <3>1, More
  <2>4. QED
    BY <2>2, <2>3
<1>6. todo' \in [Tasks -> Seq(Operation)]
  BY <1>1, <1>5
<1>7. QED
  BY <1>5, <1>6 DEF Scripted

(* The peripherals' part of the board is left alone by the start.            *)
LEMMA IoUnchanged == IoInv /\ UNCHANGED <<board, ioVars>> => IoInv'
<1> SUFFICES ASSUME IoInv, UNCHANGED <<board, ioVars>> PROVE IoInv'
  OBVIOUS
<1>1. UNCHANGED <<board, todo, clocked, held, clobbered, lost, i2cUp, slot, armed, nvic, edges,
                  pend, isr, missed>>
  BY DEF ioVars
<1>2. IoTypeOK'
  BY <1>1 DEF IoInv, IoTypeOK
<1>3. Scripted'
  BY <1>1 DEF IoInv, Scripted
<1>4. (WritesLand /\ FirstEdgeAnswered)'
  BY <1>1 DEF IoInv, WritesLand, FirstEdgeAnswered
<1>5. Answerable'
  BY <1>1 DEF IoInv, Answerable
<1>6. QED
  BY <1>2, <1>3, <1>4, <1>5 DEF IoInv

(* No step of the start changes the board it runs on.                        *)
LEMMA BootSameBoard == BootStep => UNCHANGED board
<1>1. ASSUME NEW x, Advance(x) PROVE UNCHANGED board
  BY <1>1 DEF Advance
<1>2. ClkHalt => UNCHANGED board
  BY DEF ClkHalt
<1>3. SystemInit \/ mpu_config_noncacheable \/ EnableCaches \/ HalInit => UNCHANGED board
  BY <1>1, <1>2 DEF SystemInit, mpu_config_noncacheable, EnableCaches, HalInit
<1>4. SmpsPort \/ SmpsLatch \/ SmpsOut \/ ConfigSupply \/ ScaleVoltage => UNCHANGED board
  BY <1>1, <1>2 DEF SmpsPort, SmpsLatch, SmpsOut, ConfigSupply, ScaleVoltage
<1>5. clk_enable_oscillators \/ clk_switch_to_hsi \/ clk_configure_pll1 \/ RaiseLatency
        => UNCHANGED board
  BY <1>1, <1>2 DEF clk_enable_oscillators, clk_switch_to_hsi, clk_configure_pll1, RaiseLatency
<1>6. clk_apply_bus_from_pll \/ SystemCoreClockUpdate \/ h_timer_init \/ os_init \/ os_start
        => UNCHANGED board
  BY <1>1, <1>2 DEF clk_apply_bus_from_pll, SystemCoreClockUpdate, h_timer_init, os_init, os_start
<1>7. QED
  BY <1>3, <1>4, <1>5, <1>6 DEF BootStep

(* A clock switched on by one write (N6).                                    *)
LEMMA SetStep == ASSUME NEW t \in Tasks PROVE IoInv /\ SetClock(t) => IoInv'
<1> SUFFICES ASSUME IoInv, SetClock(t) PROVE IoInv'
  OBVIOUS
<1> USE DEF IoInv
<1>1. /\ ~ Done(t) /\ Op(t)[1] = "set" /\ Step(t) /\ clocked' = clocked \cup {Op(t)[2]}
      /\ UNCHANGED <<board, held, clobbered, lost, i2cUp, slot, armed, nvic, edges, pend, isr, missed>>
  BY DEF SetClock, Running, bootVars
<1>2. Op(t) \in Operation /\ Op(t)[2] \in Units
  BY <1>1, NextOperation, Operands
<1>3. todo' \in [Tasks -> Seq(Operation)] /\ Scripted'
  BY <1>1, StepsScripted
<1>4. IoTypeOK'
  BY <1>1, <1>2, <1>3 DEF IoTypeOK
<1>5. (WritesLand /\ FirstEdgeAnswered /\ Answerable)'
  BY <1>1 DEF WritesLand, FirstEdgeAnswered, Answerable
<1>6. QED
  BY <1>3, <1>4, <1>5

(* A clock register loaded (F2).                                             *)
LEMMA LoadStep == ASSUME NEW t \in Tasks PROVE IoInv /\ LoadReg(t) => IoInv'
<1> SUFFICES ASSUME IoInv, LoadReg(t) PROVE IoInv'
  OBVIOUS
<1> USE DEF IoInv
<1>1. /\ ~ Done(t) /\ Op(t)[1] = "load" /\ Step(t)
      /\ held' = [held EXCEPT ![t] = clocked \cap InReg(Op(t)[2])]
      /\ UNCHANGED <<board, clocked, clobbered, lost, i2cUp, slot, armed, nvic, edges, pend, isr, missed>>
  BY DEF LoadReg, Running, bootVars
<1>2. todo' \in [Tasks -> Seq(Operation)] /\ Scripted'
  BY <1>1, StepsScripted
<1>3. IoTypeOK'
  BY <1>1, <1>2 DEF IoTypeOK
<1>4. (WritesLand /\ FirstEdgeAnswered /\ Answerable)'
  BY <1>1 DEF WritesLand, FirstEdgeAnswered, Answerable
<1>5. QED
  BY <1>2, <1>3, <1>4

(* And stored: what it takes away is remembered as clobbered.                *)
LEMMA StoreStep == ASSUME NEW t \in Tasks PROVE IoInv /\ StoreReg(t) => IoInv'
<1> SUFFICES ASSUME IoInv, StoreReg(t) PROVE IoInv'
  OBVIOUS
<1> USE DEF IoInv
<1> DEFINE reg == InReg(Op(t)[2])
           new == held[t] \cup {Op(t)[2]}
<1>1. /\ ~ Done(t) /\ Op(t)[1] = "store" /\ Step(t)
      /\ clocked' = (clocked \ reg) \cup new
      /\ clobbered' = clobbered \cup ((clocked \cap reg) \ new)
      /\ held' = [held EXCEPT ![t] = {}]
      /\ UNCHANGED <<board, lost, i2cUp, slot, armed, nvic, edges, pend, isr, missed>>
  BY DEF StoreReg, Running, bootVars
<1>2. Op(t) \in Operation /\ Op(t)[2] \in Units /\ board = "F2"
  BY <1>1, NextOperation, Operands
<1>3. new \subseteq Units /\ Op(t)[2] \in new
  BY <1>2 DEF IoTypeOK
<1> HIDE DEF reg, new
<1>4. clocked \cup clobbered \subseteq (clocked \cup clobbered)'
  BY <1>1
<1>5. Op(t)[2] \in (clocked \cup clobbered)'
  BY <1>1, <1>3
<1>6. todo' \in [Tasks -> Seq(Operation)] /\ Scripted'
  BY <1>1, <1>4, <1>5, StepsScripted
<1>7. IoTypeOK'
  BY <1>1, <1>3, <1>6 DEF IoTypeOK
<1>8. WritesLand'
  BY <1>1, <1>2, <1>4 DEF WritesLand, Boards
<1>9. (FirstEdgeAnswered /\ Answerable)'
  BY <1>1 DEF FirstEdgeAnswered, Answerable
<1>10. QED
  BY <1>6, <1>7, <1>8, <1>9

(* A write to a unit: lost only when the clock was clobbered.                *)
LEMMA WriteStep == ASSUME NEW t \in Tasks PROVE IoInv /\ WriteUnit(t) => IoInv'
<1> SUFFICES ASSUME IoInv, WriteUnit(t) PROVE IoInv'
  OBVIOUS
<1> USE DEF IoInv
<1>1. /\ ~ Done(t) /\ Op(t)[1] \in {"pin", "dev"} /\ Step(t)
      /\ lost' = lost \cup ({Op(t)[2]} \ clocked)
      /\ UNCHANGED <<board, clocked, held, clobbered, i2cUp, slot, armed, nvic, edges, pend, isr, missed>>
  BY DEF WriteUnit, Running, bootVars
<1>2. Op(t) \in Operation /\ Op(t)[2] \in Units /\ Op(t)[2] \in clocked \cup clobbered
  BY <1>1, NextOperation, Operands
<1>3. todo' \in [Tasks -> Seq(Operation)] /\ Scripted'
  BY <1>1, StepsScripted
<1>4. IoTypeOK'
  BY <1>1, <1>2, <1>3 DEF IoTypeOK
<1>5. (WritesLand /\ FirstEdgeAnswered /\ Answerable)'
  BY <1>1, <1>2 DEF WritesLand, FirstEdgeAnswered, Answerable
<1>6. QED
  BY <1>3, <1>4, <1>5

(* The clock source of the bus: on failure the rest of the script is dropped. *)
LEMMA SourceStep == ASSUME NEW t \in Tasks PROVE IoInv /\ SelectSource(t) => IoInv'
<1> SUFFICES ASSUME IoInv, SelectSource(t) PROVE IoInv'
  OBVIOUS
<1> USE DEF IoInv
<1>1. /\ ~ Done(t) /\ Op(t)[1] = "source"
      /\ Step(t) \/ todo' = [todo EXCEPT ![t] = <<>>]
      /\ UNCHANGED <<board, clocked, held, clobbered, lost, i2cUp, slot, armed, nvic, edges, pend, isr, missed>>
  BY DEF SelectSource, Running, bootVars
<1>2. todo' \in [Tasks -> Seq(Operation)] /\ Scripted'
  <2>1. CASE Step(t)
    BY <1>1, <2>1, StepsScripted
  <2>2. CASE todo' = [todo EXCEPT ![t] = <<>>]
    <3>1. Sound(board, <<>>, clocked \cup clobbered, slot)
      BY DEF Sound
    <3>2. todo \in [Tasks -> Seq(Operation)]
      BY DEF IoTypeOK
    <3>3. \A u \in Tasks : todo'[u] = IF u = t THEN <<>> ELSE todo[u]
      BY <2>2, <3>2
    <3>4. Scripted'
      BY <1>1, <3>1, <3>3 DEF Scripted
    <3>5. QED
      BY <2>2, <3>2, <3>4
  <2>3. QED
    BY <1>1, <2>1, <2>2
<1>3. IoTypeOK'
  BY <1>1, <1>2 DEF IoTypeOK
<1>4. (WritesLand /\ FirstEdgeAnswered /\ Answerable)'
  BY <1>1 DEF WritesLand, FirstEdgeAnswered, Answerable
<1>5. QED
  BY <1>2, <1>3, <1>4

(* The bus opens with its clock on, unless that was clobbered.               *)
LEMMA BusStep == ASSUME NEW t \in Tasks PROVE IoInv /\ OpenBus(t) => IoInv'
<1> SUFFICES ASSUME IoInv, OpenBus(t) PROVE IoInv'
  OBVIOUS
<1> USE DEF IoInv
<1>1. /\ ~ Done(t) /\ Op(t)[1] = "i2c" /\ Step(t)
      /\ lost' = lost \cup ({"I2C1"} \ clocked) /\ i2cUp' \in BOOLEAN
      /\ UNCHANGED <<board, clocked, held, clobbered, slot, armed, nvic, edges, pend, isr, missed>>
  BY DEF OpenBus, Running, bootVars
<1>2. "I2C1" \in Units /\ "I2C1" \in clocked \cup clobbered
  <2>1. Op(t)[2] = "I2C1" /\ Op(t)[2] \in clocked \cup clobbered
    BY <1>1, NextOperation
  <2>2. QED
    BY <2>1 DEF Units
<1>3. todo' \in [Tasks -> Seq(Operation)] /\ Scripted'
  BY <1>1, StepsScripted
<1>4. IoTypeOK'
  BY <1>1, <1>2, <1>3 DEF IoTypeOK
<1>5. (WritesLand /\ FirstEdgeAnswered /\ Answerable)'
  BY <1>1, <1>2 DEF WritesLand, FirstEdgeAnswered, Answerable
<1>6. QED
  BY <1>3, <1>4, <1>5

(* A callback or its context stored.                                         *)
LEMMA SlotStep == ASSUME NEW t \in Tasks PROVE IoInv /\ StoreSlot(t) => IoInv'
<1> SUFFICES ASSUME IoInv, StoreSlot(t) PROVE IoInv'
  OBVIOUS
<1> USE DEF IoInv
<1>1. /\ ~ Done(t) /\ Op(t)[1] \in {"ctx", "cb"} /\ Step(t)
      /\ slot' = [slot EXCEPT ![Op(t)[2]] = @ \cup {Op(t)[1]}]
      /\ UNCHANGED <<board, clocked, held, clobbered, lost, i2cUp, armed, nvic, edges, pend, isr, missed>>
  BY DEF StoreSlot, Running, bootVars
<1>2. Op(t) \in Operation /\ Op(t)[2] \in Lines
  BY <1>1, NextOperation, Operands
<1>3. /\ slot \in [Lines -> SUBSET {"ctx", "cb"}] /\ slot' \in [Lines -> SUBSET {"ctx", "cb"}]
      /\ \A x \in Lines : slot[x] \subseteq slot'[x]
      /\ Op(t)[1] \in slot'[Op(t)[2]]
  BY <1>1, <1>2 DEF IoTypeOK
<1>4. todo' \in [Tasks -> Seq(Operation)] /\ Scripted'
  BY <1>1, <1>3, StepsScripted
<1>5. IoTypeOK'
  BY <1>1, <1>3, <1>4 DEF IoTypeOK
<1>6. Answerable'
  BY <1>1, <1>3 DEF Answerable, IoTypeOK
<1>7. (WritesLand /\ FirstEdgeAnswered)'
  BY <1>1 DEF WritesLand, FirstEdgeAnswered
<1>8. QED
  BY <1>4, <1>5, <1>6, <1>7

(* A line armed, after its callback and its context.                         *)
LEMMA ArmStep == ASSUME NEW t \in Tasks PROVE IoInv /\ ArmLine(t) => IoInv'
<1> SUFFICES ASSUME IoInv, ArmLine(t) PROVE IoInv'
  OBVIOUS
<1> USE DEF IoInv
<1>1. /\ ~ Done(t) /\ Op(t)[1] = "arm" /\ Step(t) /\ armed' = armed \cup {Op(t)[2]}
      /\ UNCHANGED <<board, clocked, held, clobbered, lost, i2cUp, slot, nvic, edges, pend, isr, missed>>
  BY DEF ArmLine, Running, bootVars
<1>2. Op(t) \in Operation /\ Op(t)[2] \in Lines /\ {"ctx", "cb"} \subseteq slot[Op(t)[2]]
  BY <1>1, NextOperation, Operands
<1>3. slot[Op(t)[2]] = {"ctx", "cb"}
  BY <1>2 DEF IoTypeOK
<1>4. todo' \in [Tasks -> Seq(Operation)] /\ Scripted'
  BY <1>1, StepsScripted
<1>5. IoTypeOK'
  BY <1>1, <1>2, <1>4 DEF IoTypeOK
<1>6. (WritesLand /\ FirstEdgeAnswered /\ Answerable)'
  BY <1>1, <1>3 DEF WritesLand, FirstEdgeAnswered, Answerable
<1>7. QED
  BY <1>4, <1>5, <1>6

(* A vector enabled.                                                         *)
LEMMA IrqStep == ASSUME NEW t \in Tasks PROVE IoInv /\ EnableIrq(t) => IoInv'
<1> SUFFICES ASSUME IoInv, EnableIrq(t) PROVE IoInv'
  OBVIOUS
<1> USE DEF IoInv
<1>1. /\ ~ Done(t) /\ Op(t)[1] = "nvic" /\ Step(t) /\ nvic' = nvic \cup Group(board, Op(t)[2])
      /\ UNCHANGED <<board, clocked, held, clobbered, lost, i2cUp, slot, armed, edges, pend, isr, missed>>
  BY DEF EnableIrq, Running, bootVars
<1>2. Op(t) \in Operation /\ Op(t)[2] \in 0 .. 15
  BY <1>1, NextOperation, Operands, IoAssumption
<1>3. Group(board, Op(t)[2]) \subseteq 0 .. 15
  BY <1>2 DEF Group
<1>4. todo' \in [Tasks -> Seq(Operation)] /\ Scripted'
  BY <1>1, StepsScripted
<1>5. IoTypeOK'
  BY <1>1, <1>3, <1>4 DEF IoTypeOK
<1>6. (WritesLand /\ FirstEdgeAnswered /\ Answerable)'
  BY <1>1 DEF WritesLand, FirstEdgeAnswered, Answerable
<1>7. QED
  BY <1>4, <1>5, <1>6

(* An application's input.                                                   *)
LEMMA AppStep == ASSUME NEW l \in Lines, board \in Boards PROVE IoInv /\ AppInput(l) => IoInv'
<1> SUFFICES ASSUME IoInv, AppInput(l) PROVE IoInv'
  OBVIOUS
<1> USE DEF IoInv
<1> DEFINE s == gpio_config_input_exti(board, "PA", l)
<1>1. /\ todo' = [todo EXCEPT !["serial"] = s]
      /\ UNCHANGED <<board, clocked, held, clobbered, lost, i2cUp, slot, armed, nvic, edges, pend, isr, missed>>
  BY DEF AppInput, bootVars
<1>2. "PA" \in Ports
  BY DEF Ports
<1>3. s \in Seq(Operation) /\ Sound(board, s, clocked \cup clobbered, slot)
  BY <1>2, InputScript
<1> HIDE DEF s
<1>4. todo \in [Tasks -> Seq(Operation)]
  BY DEF IoTypeOK
<1>5. \A u \in Tasks : todo'[u] = IF u = "serial" THEN s ELSE todo[u]
  BY <1>1, <1>4
<1>6. Scripted'
  BY <1>1, <1>3, <1>5 DEF Scripted
<1>7. IoTypeOK'
  BY <1>1, <1>3, <1>4 DEF IoTypeOK
<1>8. (WritesLand /\ FirstEdgeAnswered /\ Answerable)'
  BY <1>1 DEF WritesLand, FirstEdgeAnswered, Answerable
<1>9. QED
  BY <1>6, <1>7, <1>8

(* An edge of an armed line.                                                 *)
LEMMA EdgeStep == ASSUME NEW l \in Lines PROVE IoInv /\ Edge(l) => IoInv'
<1> SUFFICES ASSUME IoInv, Edge(l) PROVE IoInv'
  OBVIOUS
<1> USE DEF IoInv
<1>1. /\ l \in armed /\ edges[l] < MaxEdges
      /\ edges' = [edges EXCEPT ![l] = @ + 1]
      /\ pend' = [pend EXCEPT ![l] = @ \cup {Flag(l)}]
      /\ UNCHANGED <<board, todo, clocked, held, clobbered, lost, i2cUp, slot, armed, nvic, isr, missed>>
  BY DEF Edge, bootVars
<1>2. Flag(l) \in {"edge", "rise", "fall"}
  BY DEF Flag
<1>3. edges' \in [Lines -> 0 .. MaxEdges]
  BY <1>1, IoAssumption DEF IoTypeOK
<1>4. pend' \in [Lines -> SUBSET {"edge", "rise", "fall"}]
  BY <1>1, <1>2 DEF IoTypeOK
<1>5. IoTypeOK'
  BY <1>1, <1>3, <1>4 DEF IoTypeOK
<1>6. Answerable'
  BY <1>1 DEF Answerable, IoTypeOK
<1>7. (Scripted /\ WritesLand /\ FirstEdgeAnswered)'
  BY <1>1 DEF Scripted, WritesLand, FirstEdgeAnswered
<1>8. QED
  BY <1>5, <1>6, <1>7

(* An interrupt taken.                                                       *)
LEMMA EnterStep == ASSUME NEW l \in Lines PROVE IoInv /\ EnterIrq(l) => IoInv'
<1> SUFFICES ASSUME IoInv, EnterIrq(l) PROVE IoInv'
  OBVIOUS
<1> USE DEF IoInv
<1>1. /\ isr' = VectorLooks(board, l)
      /\ UNCHANGED <<board, todo, clocked, held, clobbered, lost, i2cUp, slot, armed, nvic, edges, pend, missed>>
  BY DEF EnterIrq, bootVars
<1>2. VectorLooks(board, l) \subseteq Lines \X {"edge", "rise", "fall"}
  BY DEF VectorLooks, Looks
<1>3. IoTypeOK'
  BY <1>1, <1>2 DEF IoTypeOK
<1>4. (Scripted /\ WritesLand /\ FirstEdgeAnswered /\ Answerable)'
  BY <1>1 DEF Scripted, WritesLand, FirstEdgeAnswered, Answerable
<1>5. QED
  BY <1>3, <1>4

(* A look at a line: a pending flag finds the callback and its context.      *)
LEMMA ServeStep == IoInv /\ ServeLine => IoInv'
<1> SUFFICES ASSUME IoInv, NEW l \in Lines, NEW f \in {"edge", "rise", "fall"}, Serve(l, f)
             PROVE  IoInv'
  BY DEF ServeLine
<1> USE DEF IoInv
<1>1. /\ isr' = isr \ {<<l, f>>} /\ pend' = [pend EXCEPT ![l] = @ \ {f}]
      /\ missed' = (missed \/ (f \in pend[l] /\ slot[l] # {"ctx", "cb"}))
      /\ UNCHANGED <<board, todo, clocked, held, clobbered, lost, i2cUp, slot, armed, nvic, edges>>
  BY DEF Serve, bootVars
<1>2. f \in pend[l] => slot[l] = {"ctx", "cb"}
  BY DEF Answerable
<1>3. missed' = FALSE
  BY <1>1, <1>2 DEF FirstEdgeAnswered, IoTypeOK
<1>4. pend' \in [Lines -> SUBSET {"edge", "rise", "fall"}]
  BY <1>1 DEF IoTypeOK
<1>5. IoTypeOK'
  BY <1>1, <1>3, <1>4 DEF IoTypeOK
<1>6. Answerable'
  BY <1>1 DEF Answerable, IoTypeOK
<1>7. (Scripted /\ WritesLand /\ FirstEdgeAnswered)'
  BY <1>1, <1>3 DEF Scripted, WritesLand, FirstEdgeAnswered
<1>8. QED
  BY <1>5, <1>6, <1>7

(* The bring-up begins with nothing on and the scripts whole.                *)
LEMMA IoBegins == IoInit => IoInv
<1> SUFFICES ASSUME IoInit PROVE IoInv
  OBVIOUS
<1>1. board \in Boards
  BY DEF IoInit, BootInit
<1>2. todo = Scripts[board] /\ DOMAIN Scripts[board] = Tasks
  BY <1>1 DEF IoInit, Scripts, Tasks
<1>3. \A t \in Tasks : /\ todo[t] \in Seq(Operation)
                       /\ Sound(board, todo[t], clocked \cup clobbered, slot)
  BY <1>1, <1>2, ScriptsSound
<1>4. todo \in [Tasks -> Seq(Operation)]
  <2>1. todo = [t \in Tasks |-> todo[t]]
    BY <1>1, <1>2 DEF Scripts, Tasks
  <2>2. QED
    BY <1>3, <2>1
<1>5. IoTypeOK
  <2>1. clocked = {} /\ clobbered = {} /\ lost = {} /\ i2cUp = FALSE /\ armed = {} /\ nvic = {}
        /\ isr = {} /\ missed = FALSE /\ held = [t \in Tasks |-> {}]
        /\ slot = [l \in Lines |-> {}] /\ pend = [l \in Lines |-> {}]
    BY DEF IoInit
  <2>2. edges \in [Lines -> 0 .. MaxEdges]
    BY IoAssumption DEF IoInit
  <2>3. QED
    BY <1>4, <2>1, <2>2 DEF IoTypeOK
<1>6. Scripted
  BY <1>3 DEF Scripted
<1>7. QED
  BY <1>5, <1>6 DEF IoInv, IoInit, WritesLand, FirstEdgeAnswered, Answerable

(* Every step of the board keeps the bring-up in order.                      *)
LEMMA IoStep == board \in Boards /\ IoInv /\ [Next]_vars => IoInv'
<1> SUFFICES ASSUME board \in Boards, IoInv, [Next]_vars PROVE IoInv'
  OBVIOUS
<1>1. UNCHANGED ioVars => UNCHANGED board
  BY BootSameBoard DEF Next, vars, bootVars, Boot, PartReady, PartTimeout, ClkHalt, SysTick,
     TaskStep, Irq, AppInput, SetClock, LoadReg, StoreReg, WriteUnit, SelectSource, OpenBus,
     StoreSlot, ArmLine, EnableIrq, Edge, EnterIrq, ServeLine, Serve
<1>2. ASSUME NEW t \in Tasks, TaskStep(t)
      PROVE  IoInv'
  BY <1>2, SetStep, LoadStep, StoreStep, WriteStep, SourceStep, BusStep, SlotStep, ArmStep,
     IrqStep DEF TaskStep
<1>3. CASE UNCHANGED ioVars
  BY <1>1, <1>3, IoUnchanged
<1>4. ASSUME NEW l \in Lines, Edge(l) \/ AppInput(l) \/ EnterIrq(l)
      PROVE  IoInv'
  BY <1>4, EdgeStep, AppStep, EnterStep
<1>5. QED
  BY <1>2, <1>3, <1>4, ServeStep DEF Next, Irq, Boot, vars

(* The start and the bring-up are safe at every step: besides the start      *)
(* itself, no write to a unit is lost but for a clobbered clock (and none on *)
(* the N6), and the first edge of every line is answered.                    *)
THEOREM BoardSafe == Spec => []BoardInv
<1>1. StartInv => board \in Boards
  BY DEF StartInv, BootTypeOK
<1>2. StartInv => BootInv
  BY Speeds DEF StartInv, BootInv
<1>3. IoInv /\ BootInv => BoardInv
  BY DEF IoInv, BoardInv
<1>4. IoInit => StartInv /\ IoInv
  BY StartBegins, IoBegins DEF IoInit
<1>5. (StartInv /\ IoInv) /\ [Next]_vars => (StartInv /\ IoInv)'
  BY <1>1, StartStep, IoStep
<1>6. QED
  BY <1>2, <1>3, <1>4, <1>5, PTL DEF Spec
=============================================================================
