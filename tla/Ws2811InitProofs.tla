-------------------------- MODULE Ws2811InitProofs --------------------------
(***************************************************************************)
(* Theorems of Ws2811Init, for every choice of boards, pins and counts: on *)
(* no path through ws2811_init, ws2811_render and ws2811_fini does the     *)
(* driver leave behind, release twice or take from the DMA what it should  *)
(* not.                                                                    *)
(*                                                                         *)
(* The inductive invariant says, for each thing ws2811_init may be about   *)
(* to acquire, what it holds by then (Holds), and that the fields that     *)
(* ws2811_cleanup goes by agree with it (FieldsSet, FieldsNull).           *)
(***************************************************************************)
EXTENDS Ws2811Init, TLAPS

-----------------------------------------------------------------------------
(* The order in which the two kinds of driver acquire things.              *)
SpiStages == {"spi_fd", "ioctl", "leds0", "pxl_raw", "ready"}
DmaStages(source) ==
  {"mbox", "mem", "lock", "virt_addr", "leds0", "leds1", "dma", source, "gpio", "cm_clk",
   "gpio_init", "setup", "ready"}
source_of(mode) == IF mode = "PWM" THEN "pwm" ELSE "pcm"

Stages(mode) == IF mode = "SPI" THEN SpiStages ELSE DmaStages(source_of(mode))

turn_spi(p) == CASE p = "spi_fd" -> 1 [] p = "ioctl" -> 2 [] p = "leds0" -> 3
                 [] p = "pxl_raw" -> 4 [] OTHER -> 5
turn_dma(p) == CASE p = "mbox" -> 1 [] p = "mem" -> 2 [] p = "lock" -> 3
                 [] p = "virt_addr" -> 4 [] p = "leds0" -> 5 [] p = "leds1" -> 6
                 [] p = "dma" -> 7 [] p \in {"pwm", "pcm"} -> 8 [] p = "gpio" -> 9
                 [] p = "cm_clk" -> 10 [] OTHER -> 11

(* What has been acquired when it is the turn of p.                        *)
taken(mode, p) ==
  IF mode = "SPI" THEN {r \in {"spi_fd", "leds0", "pxl_raw"} : turn_spi(r) < turn_spi(p)}
  ELSE {r \in Needs(mode) \ {"device"} : turn_dma(r) < turn_dma(p)}

Modes == {"PWM", "PCM", "SPI"}

LEMMA SpiFollows ==
  ASSUME driver_mode = "SPI", NEW r \in SpiStages \ {"ready"}
  PROVE  /\ following(r) \in SpiStages
         /\ taken("SPI", following(r)) = taken("SPI", r) \cup ({r} \cap Resources)
<1>1. CASE r = "spi_fd"
  <2>1. following(r) = "ioctl"
    BY <1>1 DEF following
  <2> QED BY <1>1, <2>1 DEF SpiStages, taken, turn_spi, Resources, Registers, Memory, LedArrays
<1>2. CASE r = "ioctl"
  <2>1. following(r) = "leds0"
    BY <1>2 DEF following
  <2> QED BY <1>2, <2>1 DEF SpiStages, taken, turn_spi, Resources, Registers, Memory, LedArrays
<1>3. CASE r = "leds0"
  <2>1. following(r) = "pxl_raw"
    BY <1>3 DEF following
  <2> QED BY <1>3, <2>1 DEF SpiStages, taken, turn_spi, Resources, Registers, Memory, LedArrays
<1>4. CASE r = "pxl_raw"
  <2>1. following(r) = "ready"
    BY <1>4 DEF following
  <2> QED BY <1>4, <2>1 DEF SpiStages, taken, turn_spi, Resources, Registers, Memory, LedArrays
<1> QED BY <1>1, <1>2, <1>3, <1>4 DEF SpiStages

LEMMA DmaFollows ==
  ASSUME driver_mode \in {"PWM", "PCM"},
         NEW r \in DmaStages(source_of(driver_mode)) \ {"gpio_init", "setup", "ready"}
  PROVE  /\ following(r) \in DmaStages(source_of(driver_mode))
         /\ turn_dma(following(r)) = turn_dma(r) + 1
         /\ r \in Needs(driver_mode) \ {"device"}
<1>1. driver_mode # "SPI"
  OBVIOUS
<1>2. CASE r \in {"mbox", "mem", "lock", "virt_addr", "leds0"}
  BY <1>1, <1>2 DEF following, DmaStages, turn_dma, Needs, Memory, LedArrays
<1>3. CASE r \in {"leds1", "dma", "gpio", "cm_clk"}
  BY <1>1, <1>3 DEF following, DmaStages, turn_dma, Needs, Memory, LedArrays, source_of
<1>4. CASE r = source_of(driver_mode)
  BY <1>1, <1>4 DEF following, DmaStages, turn_dma, Needs, Memory, LedArrays, source_of
<1> QED BY <1>2, <1>3, <1>4 DEF DmaStages

LEMMA TurnsDiffer ==
  ASSUME NEW mode \in {"PWM", "PCM"}, NEW r \in Needs(mode) \ {"device"},
         NEW x \in Needs(mode) \ {"device"}
  PROVE  turn_dma(r) \in 1 .. 10 /\ turn_dma(x) \in 1 .. 10 /\ (turn_dma(r) = turn_dma(x) => r = x)
<1> DEFINE source == IF mode = "PWM" THEN "pwm" ELSE "pcm"
<1>1. Needs(mode) \ {"device"} = {"mbox", "mem", "lock", "virt_addr", "leds0", "leds1", "dma",
                                  source, "gpio", "cm_clk"}
  BY DEF Needs, Memory, LedArrays
<1>2. source \in {"pwm", "pcm"}
  OBVIOUS
<1> HIDE DEF source
<1>3. CASE x = source
  BY <1>1, <1>2, <1>3 DEF turn_dma
<1>4. CASE x # source
  BY <1>1, <1>2, <1>4 DEF turn_dma
<1> QED BY <1>3, <1>4

LEMMA TakenGrows ==
  ASSUME driver_mode \in Modes, NEW r \in Stages(driver_mode) \ {"gpio_init", "setup", "ready"}
  PROVE  /\ following(r) \in Stages(driver_mode)
         /\ taken(driver_mode, following(r)) = taken(driver_mode, r) \cup ({r} \cap Resources)
<1>1. CASE driver_mode = "SPI"
  BY <1>1, SpiFollows DEF Stages
<1>2. CASE driver_mode # "SPI"
  <2> DEFINE N == Needs(driver_mode) \ {"device"}
             n == following(r)
  <2>1. driver_mode \in {"PWM", "PCM"} /\ Stages(driver_mode) = DmaStages(source_of(driver_mode))
    BY <1>2 DEF Stages, Modes
  <2>2. n \in Stages(driver_mode) /\ turn_dma(n) = turn_dma(r) + 1 /\ r \in N
    BY <2>1, DmaFollows
  <2>3. \A x \in N : turn_dma(x) \in 1 .. 10 /\ turn_dma(r) \in 1 .. 10
                     /\ (turn_dma(r) = turn_dma(x) => r = x)
    BY <2>1, <2>2, TurnsDiffer
  <2>4. r \in Resources
    BY <2>2 DEF Needs, Resources, Registers, Memory, LedArrays
  <2>5. taken(driver_mode, n) = {x \in N : turn_dma(x) < turn_dma(n)}
    BY <1>2 DEF taken
  <2>6. taken(driver_mode, r) = {x \in N : turn_dma(x) < turn_dma(r)}
    BY <1>2 DEF taken
  <2> HIDE DEF N, n
  <2>7. ASSUME NEW x \in N
        PROVE  turn_dma(x) < turn_dma(n) <=> turn_dma(x) < turn_dma(r) \/ x = r
    BY <2>2, <2>3
  <2>8. taken(driver_mode, n) = taken(driver_mode, r) \cup {r}
    BY <2>2, <2>5, <2>6, <2>7
  <2> QED BY <2>2, <2>4, <2>8 DEF n
<1> QED BY <1>1, <1>2

LEMMA TakenIsNeeded ==
  ASSUME NEW mode \in Modes, NEW p \in {"gpio_init", "setup", "ready"}, p \in Stages(mode)
  PROVE  {"device"} \cup taken(mode, p) = Needs(mode)
<1>1. CASE mode = "SPI"
  BY <1>1 DEF taken, Needs, turn_spi, Stages, SpiStages
<1>2. CASE mode # "SPI"
  <2>1. turn_dma(p) = 11
    BY DEF turn_dma
  <2>2. mode \in {"PWM", "PCM"} /\ taken(mode, p) = {x \in Needs(mode) \ {"device"} : turn_dma(x) < turn_dma(p)}
    BY <1>2 DEF taken, Modes
  <2>3. \A x \in Needs(mode) \ {"device"} : turn_dma(x) < turn_dma(p)
    BY <2>1, <2>2, TurnsDiffer
  <2>4. "device" \in Needs(mode)
    BY <1>2 DEF Needs
  <2> QED BY <2>2, <2>3, <2>4
<1> QED BY <1>1, <1>2

-----------------------------------------------------------------------------
(* The board detected is one of the table.                                 *)
LEMMA BoardIsKnown ==
  ASSUME NEW f \in CpuInfos
  PROVE  rpi_hw_detect(f) \in boards \cup {NoBoard}
<1> DEFINE found == {i \in DOMAIN f : identifies(f[i])}
           first(i) == i \in found /\ \A k \in found : i <= k
<1>1. CASE found = {}
  BY <1>1 DEF rpi_hw_detect
<1>2. CASE found # {}
  <2>1. PICK n \in 0 .. 2 : f \in [1 .. n -> Lines]
    BY DEF CpuInfos
  <2>2. found \subseteq {1, 2}
    BY <2>1
  <2> HIDE DEF found
  <2>3. \E i : first(i)
    BY <1>2, <2>2
  <2>4. PICK j : j = CHOOSE i : first(i)
    OBVIOUS
  <2>5. first(j)
    BY <2>3, <2>4
  <2>6. (CHOOSE i \in found : \A k \in found : i <= k) = j
    BY <2>4
  <2>7. rpi_hw_detect(f) = unmasked(f[j].code)
    BY <1>2, <2>6 DEF rpi_hw_detect, found
  <2>8. identifies(f[j])
    BY <2>5 DEF found
  <2> QED BY <2>7, <2>8 DEF identifies
<1> QED BY <1>1, <1>2

LEMMA BoardsAreNumbers == \A b \in boards : b % \h10000 \in Int
<1>1. \A h \in rpi_hw_info : h \in Int
  BY DEF rpi_hw_info, RPI_HWVER_TYPE_PI1, RPI_HWVER_TYPE_PI2
<1>2. \A h \in Int : unmasked(h) \in Int
  BY DEF unmasked, field
<1>3. \A b \in boards : b \in Int
  BY <1>1, <1>2 DEF boards
<1>4. \A b \in Int : b % \h10000 \in Int
  OBVIOUS
<1> QED BY <1>3, <1>4

-----------------------------------------------------------------------------
(* The inductive invariant.                                                *)
Types ==
  /\ pc \in Acquirable \cup {"off", "detect", "check", "gpio_init", "setup",
                             "ready", "failed", "finished"}
  /\ rpi_hw \in boards \cup {NoBoard}
  /\ driver_mode \in {"none", "PWM", "PCM", "SPI"}
  /\ max_count \in Nat
  /\ ptr \in [Resources -> {"set", "null", "junk"}]
  /\ held \subseteq Resources /\ wrong \subseteq Resources
  /\ dma_active \in BOOLEAN /\ dma_error \in BOOLEAN /\ dma_own \in BOOLEAN
  /\ orphans \in 0 .. runs /\ runs \in 0 .. MaxRuns

Acquiring == pc \in Acquirable \cup {"gpio_init", "setup", "ready"}

Before ==
  /\ pc = "detect" => held = {}
  /\ pc = "check" => held = {"device"} /\ rpi_hw \in boards

Holds ==
  Acquiring => /\ driver_mode \in Modes /\ pc \in Stages(driver_mode)
               /\ held = {"device"} \cup taken(driver_mode, pc)

(* What is held is set; the other fields that cleanup would go by are null *)
(* as soon as it may be called.                                            *)
FieldsSet == Acquiring => \A r \in held \ {"device"} : ptr[r] = "set"

FieldsNull ==
  /\ Acquiring /\ driver_mode = "SPI" => ptr["leds1"] = "null"
  /\ pc \in {"leds0", "pxl_raw", "ready"} /\ driver_mode = "SPI" =>
       \A f \in Registers \cup {"mbox"} : ptr[f] = "null"
  /\ pc \in {"leds0", "leds1"} /\ driver_mode # "SPI" => ptr["leds1"] = "null"

(* Only main leaves channel[1] as malloc left it, and it uses pin 21.  The *)
(* pins of a driver that was accepted fit its mode.                        *)
Channels ==
  pc \in {"detect", "check"} =>
    /\ DOMAIN gpionum = 0 .. 1 /\ DOMAIN count = 0 .. 1
    /\ count[0] \in Counts /\ count[1] \in Counts \cup {Junk}
    /\ count[1] = Junk => gpionum[0] = 21 /\ count[0] # 0

PinsFit ==
  IF driver_mode = "PWM" THEN gpionum[0] \in {12, 18} /\ gpionum[1] \in {0, 13, 19}
  ELSE gpionum[1] = 0 /\ (driver_mode = "PCM" => gpionum[0] \in {21, 31})

Accepted == Acquiring => channel1_alone \/ PinsFit

Quiet ==
  /\ pc \notin {"off", "failed"} => error = "NONE"
  /\ pc \notin {"failed", "finished"} => wrong = {}

Process == Before /\ Holds /\ FieldsSet /\ FieldsNull /\ Channels /\ Accepted /\ Quiet

(* A DMA without an error works for a process only while the driver is     *)
(* ready.                                                                  *)
DmaOwned == dma_active /\ dma_own /\ ~dma_error => pc = "ready" /\ driver_mode # "SPI"

Counted == pc # "off" => orphans < runs

Machine == DmaOwned /\ Counted /\ DmaReadsLiveMemory

IInv == Types /\ Process /\ Machine /\ TablesAgree /\ NothingLeft /\ ReleasedOnce

LEMMA ReadyHolds ==
  ASSUME Types, Holds, pc \in {"gpio_init", "setup", "ready"}
  PROVE  driver_mode \in Modes /\ held = Needs(driver_mode)
<1>1. driver_mode \in Modes /\ pc \in Stages(driver_mode)
      /\ held = {"device"} \cup taken(driver_mode, pc)
  BY DEF Holds, Acquiring
<1> QED BY <1>1, TakenIsNeeded

LEMMA TypesHoldHere == Types /\ Holds => TypeOK
<1> SUFFICES ASSUME Types, Holds PROVE TypeOK
  OBVIOUS
<1>1. pc = "ready" => held = Needs(driver_mode)
  BY ReadyHolds
<1>2. {dma_active, dma_error, dma_own} \subseteq BOOLEAN
  BY DEF Types
<1> QED BY <1>1, <1>2 DEF Types, TypeOK

(* Before anything is acquired, and after all is over.                     *)
LEMMA Idle ==
  ASSUME pc' \in {"off", "detect", "check", "failed", "finished"}
  PROVE  Holds' /\ FieldsSet' /\ FieldsNull' /\ Accepted'
<1>1. ~Acquiring'
  BY DEF Acquiring, Acquirable, Resources, Registers, Memory, LedArrays
<1> QED BY <1>1 DEF Holds, FieldsSet, FieldsNull, Accepted

LEMMA MachineWaits ==
  ASSUME Types, Machine, pc \notin {"off", "ready"}, pc' # "off",
         UNCHANGED <<dma_cs, orphans, runs>>
  PROVE  Machine'
<1>1. ~(dma_active /\ dma_own /\ ~dma_error)
  BY DEF Machine, DmaOwned
<1>2. dma_active' = dma_active /\ dma_error' = dma_error /\ dma_own' = dma_own
      /\ orphans' = orphans /\ runs' = runs
  BY DEF dma_cs
<1>3. DmaOwned' /\ DmaReadsLiveMemory'
  BY <1>1, <1>2 DEF Machine, DmaOwned, DmaReadsLiveMemory
<1>4. Counted'
  BY <1>2 DEF Machine, Counted
<1> QED BY <1>3, <1>4 DEF Machine

-----------------------------------------------------------------------------
(* Starting.                                                               *)
LEMMA InitHolds == Init => IInv
<1> SUFFICES ASSUME Init PROVE IInv
  OBVIOUS
<1>1. Types
  <2>1. 0 \in 0 .. MaxRuns /\ 0 \in 0 .. 0
    BY InitAssumption
  <2> QED BY <2>1 DEF Init, Types
<1>2. Process
  <2>1. ~Acquiring
    BY DEF Init, Acquiring, Acquirable, Resources, Registers, Memory, LedArrays
  <2> QED BY <2>1 DEF Init, Process, Before, Holds, FieldsSet, FieldsNull, Channels, Accepted, Quiet
<1>3. Machine
  BY DEF Init, Machine, DmaOwned, Counted, DmaReadsLiveMemory
<1>4. TablesAgree /\ NothingLeft /\ ReleasedOnce
  BY DEF Init, TablesAgree, NothingLeft, ReleasedOnce
<1> QED BY <1>1, <1>2, <1>3, <1>4 DEF IInv

LEMMA StartKeeps ==
  ASSUME IInv, Start
  PROVE  IInv'
<1>1. Types /\ Machine /\ Quiet
  BY DEF IInv, Process
<1>2. /\ pc = "off" /\ pc' = "detect" /\ held' = {} /\ wrong' = {} /\ error' = "NONE"
      /\ runs < MaxRuns /\ runs' = runs + 1
      /\ dma_active' = dma_active /\ dma_error' = dma_error /\ dma_own' = dma_own
      /\ orphans' = orphans
  BY DEF Start, dma_cs
<1>3. Types'
  <2>1. rpi_hw' = NoBoard /\ driver_mode' = "none" /\ max_count' = 0
        /\ ptr' = [r \in Resources |-> "junk"]
    BY DEF Start
  <2>2. orphans' \in 0 .. runs' /\ runs' \in 0 .. MaxRuns
    BY <1>1, <1>2, InitAssumption DEF Types
  <2>3. ptr' \in [Resources -> {"set", "null", "junk"}]
    BY <2>1
  <2> QED BY <1>1, <1>2, <2>1, <2>2, <2>3 DEF Types
<1>4. Process'
  <2>1. Channels'
    <3>1. PICK p \in Pins0, q \in Pins1 \cup {Junk}, c \in Counts, d \in Counts \cup {Junk} :
            /\ (q = Junk) = (d = Junk) /\ (q = Junk => p = 21 /\ c # 0)
            /\ gpionum' = [chan \in 0 .. 1 |-> IF chan = 0 THEN p ELSE q]
            /\ count' = [chan \in 0 .. 1 |-> IF chan = 0 THEN c ELSE d]
      BY DEF Start
    <3>2. gpionum'[0] = p /\ count'[0] = c /\ count'[1] = d
      BY <3>1
    <3> QED BY <3>1, <3>2 DEF Channels
  <2> QED BY <1>2, <2>1, Idle DEF Process, Before, Quiet
<1>5. Machine'
  BY <1>1, <1>2 DEF Types, Machine, DmaOwned, Counted, DmaReadsLiveMemory
<1>6. TablesAgree' /\ NothingLeft' /\ ReleasedOnce'
  BY <1>2 DEF TablesAgree, NothingLeft, ReleasedOnce
<1> QED BY <1>3, <1>4, <1>5, <1>6 DEF IInv

LEMMA DetectKeeps ==
  ASSUME IInv, Detect
  PROVE  IInv'
<1>1. Types /\ Process /\ Machine
  BY DEF IInv
<1>2. /\ pc = "detect" /\ pc' \in {"check", "failed"}
      /\ UNCHANGED <<gpionum, count, driver_mode, max_count, ptr, wrong, dma_cs, orphans, runs>>
  BY DEF Detect, Return
<1>3. held = {} /\ error = "NONE" /\ wrong = {}
  BY <1>1, <1>2 DEF Process, Before, Quiet
<1>4. rpi_hw' \in boards \cup {NoBoard}
  BY BoardIsKnown DEF Detect
<1>5. \/ rpi_hw' # NoBoard /\ held' = {"device"} /\ pc' = "check" /\ error' = "NONE"
      \/ held' = {} /\ pc' = "failed" /\ error' \in {"HW_NOT_SUPPORTED", "OUT_OF_MEMORY"}
  BY <1>3 DEF Detect, Return
<1>6. Types'
  BY <1>1, <1>2, <1>4, <1>5 DEF Types, dma_cs, Resources
<1>7. Process'
  <2>1. Channels'
    BY <1>1, <1>2 DEF Process, Channels
  <2> QED BY <1>2, <1>3, <1>4, <1>5, <2>1, Idle DEF Process, Before, Quiet
<1>8. Machine'
  BY <1>1, <1>2, MachineWaits
<1>9. TablesAgree' /\ NothingLeft' /\ ReleasedOnce'
  BY <1>2, <1>3, <1>5 DEF TablesAgree, NothingLeft, ReleasedOnce
<1> QED BY <1>6, <1>7, <1>8, <1>9 DEF IInv

-----------------------------------------------------------------------------
(* ws2811_init settles the channels and the mode.                          *)
LEMMA LongestIsANumber ==
  ASSUME Channels, pc = "check",
         channel1_alone \/ zeroes_channel1 \/ mode_of(gpionum[0]) = "PWM",
         count' = IF zeroes_channel1 THEN [count EXCEPT ![1] = 0] ELSE count
  PROVE  longest(count') \in Nat
<1>1. /\ DOMAIN count = 0 .. 1 /\ count[0] \in Counts /\ count[1] \in Counts \cup {Junk}
      /\ count[1] = Junk => gpionum[0] = 21 /\ count[0] # 0
  BY DEF Channels
<1>2. Counts \subseteq Nat
  BY InitAssumption
<1>3. count'[0] = count[0] /\ count'[1] = IF zeroes_channel1 THEN 0 ELSE count[1]
  <2>1. CASE zeroes_channel1
    <3>1. count' = [count EXCEPT ![1] = 0] /\ 0 \in DOMAIN count /\ 1 \in DOMAIN count
      BY <1>1, <2>1
    <3> QED BY <2>1, <3>1
  <2>2. CASE ~zeroes_channel1
    BY <2>2
  <2> QED BY <2>1, <2>2
<1>4. count'[0] \in Nat /\ (count'[1] \in Nat)
  <2>1. CASE zeroes_channel1
    <3>1. count'[0] = count[0] /\ count'[1] = 0
      BY <1>3, <2>1
    <3>2. count[0] \in Nat
      BY <1>1, <1>2
    <3> QED BY <3>1, <3>2
  <2>2. CASE ~zeroes_channel1 /\ count[1] # Junk
    BY <1>1, <1>2, <1>3, <2>2
  <2>3. CASE ~zeroes_channel1 /\ count[1] = Junk
    <3>1. ~channel1_alone
      BY <1>1, <2>3 DEF channel1_alone
    <3>2. mode_of(gpionum[0]) # "PWM"
      BY <1>1, <2>3 DEF mode_of
    <3> QED BY <2>3, <3>1, <3>2
  <2> QED BY <2>1, <2>2, <2>3
<1>5. CASE Junk \in {count'[0], count'[1]}
  BY <1>4, <1>5 DEF longest, max_channel_led_count
<1>6. CASE Junk \notin {count'[0], count'[1]}
  BY <1>4, <1>6 DEF longest, max_channel_led_count
<1> QED BY <1>5, <1>6

LEMMA RefusedRightly ==
  ASSUME rpi_hw \in boards, illegal_gpio, gpionum[0] = 18
  PROVE  hwver \in 4 .. 13 \/ channel1_alone
<1>1. hwver \in Int
  BY BoardsAreNumbers DEF hwver
<1>2. CASE ~channel1_alone
  <2>1. 18 \notin gpionums
    BY <1>2 DEF illegal_gpio
  <2>2. ~(hwver < 4) /\ hwver \notin boards_B2 /\ ~(hwver >= 16)
    BY <2>1 DEF gpionums
  <2> QED BY <1>1, <2>2 DEF boards_B2
<1> QED BY <1>2

LEMMA NothingTaken ==
  ASSUME NEW mode \in Modes, NEW p, p = IF mode = "SPI" THEN "spi_fd" ELSE "mbox"
  PROVE  taken(mode, p) = {} /\ p \in Stages(mode)
<1>1. CASE mode = "SPI"
  BY <1>1 DEF taken, turn_spi, Stages, SpiStages
<1>2. CASE mode # "SPI"
  <2>1. "mbox" \in Needs(mode) \ {"device"} /\ mode \in {"PWM", "PCM"} /\ turn_dma("mbox") = 1
    BY <1>2 DEF Needs, Memory, Modes, turn_dma
  <2>2. \A x \in Needs(mode) \ {"device"} : turn_dma(x) \in 1 .. 10
    BY <2>1, TurnsDiffer
  <2>3. taken(mode, p) = {x \in Needs(mode) \ {"device"} : turn_dma(x) < 1}
    BY <1>2, <2>1 DEF taken
  <2>4. taken(mode, p) = {}
    BY <2>2, <2>3
  <2> QED BY <1>2, <2>4 DEF Stages, DmaStages
<1> QED BY <1>1, <1>2

LEMMA CheckKeeps ==
  ASSUME IInv, Check
  PROVE  IInv'
<1>1. Types /\ Process /\ Machine
  BY DEF IInv
<1>2. pc = "check" /\ UNCHANGED <<rpi_hw, held, wrong, dma_cs, orphans, runs>>
  BY DEF Check
<1>3. /\ held = {"device"} /\ rpi_hw \in boards /\ error = "NONE" /\ wrong = {}
  BY <1>1, <1>2 DEF Process, Before, Quiet
<1>4. ReleasedOnce'
  BY <1>2, <1>3 DEF ReleasedOnce
<1>5. CASE /\ illegal_gpio
           /\ Return("ILLEGAL_GPIO")
           /\ UNCHANGED <<gpionum, count, driver_mode, max_count, ptr>>
  <2>1. pc' = "failed" /\ error' = "ILLEGAL_GPIO"
    BY <1>5 DEF Return
  <2>2. Types'
    BY <1>1, <1>2, <1>5, <2>1 DEF Types, dma_cs
  <2>3. Process'
    BY <2>1, Idle DEF Process, Before, Channels, Quiet
  <2>4. Machine'
    BY <1>1, <1>2, <2>1, MachineWaits
  <2>5. NothingLeft'
    BY <1>2, <1>3, <2>1 DEF NothingLeft
  <2>6. hwver' = hwver /\ (channel1_alone' <=> channel1_alone) /\ gpionum' = gpionum
    BY <1>2, <1>5 DEF hwver, channel1_alone
  <2>7. TablesAgree'
    <3>1. gpionum[0] = 18 => hwver \in 4 .. 13 \/ channel1_alone
      BY <1>3, <1>5, RefusedRightly
    <3> QED BY <2>1, <2>6, <3>1 DEF TablesAgree
  <2> QED BY <1>4, <2>2, <2>3, <2>4, <2>5, <2>7 DEF IInv
<1>6. CASE /\ ~illegal_gpio
           /\ driver_mode' = IF channel1_alone THEN "PWM" ELSE mode_of(gpionum[0])
           /\ IF zeroes_channel1
              THEN /\ gpionum' = [gpionum EXCEPT ![1] = 0]
                   /\ count' = [count EXCEPT ![1] = 0]
                   /\ ptr' = [ptr EXCEPT !["leds1"] = "null"]
              ELSE UNCHANGED <<gpionum, count, ptr>>
           /\ max_count' = longest(count')
           /\ pc' = IF driver_mode' = "SPI" THEN "spi_fd" ELSE "mbox"
           /\ UNCHANGED error
  <2>1. driver_mode' \in Modes
    BY <1>6 DEF mode_of, Modes
  <2>2. pc' \in Stages(driver_mode') /\ taken(driver_mode', pc') = {}
    BY <1>6, <2>1, NothingTaken
  <2>3. pc' \in {"spi_fd", "mbox"} /\ pc' \in Acquirable
    BY <1>6 DEF Acquirable, Resources, Memory
  <2>4. Channels
    BY <1>1 DEF Process
  <2>5. max_count' \in Nat
    <3>1. channel1_alone \/ zeroes_channel1 \/ mode_of(gpionum[0]) = "PWM"
      BY DEF zeroes_channel1
    <3>2. count' = IF zeroes_channel1 THEN [count EXCEPT ![1] = 0] ELSE count
      BY <1>6
    <3> QED BY <1>2, <1>6, <2>4, <3>1, <3>2, LongestIsANumber
  <2>6. Types'
    <3>1. ptr' \in [Resources -> {"set", "null", "junk"}]
      BY <1>1, <1>6 DEF Types
    <3>2. driver_mode' \in {"none", "PWM", "PCM", "SPI"}
      BY <2>1 DEF Modes
    <3>3. UNCHANGED <<rpi_hw, held, wrong, dma_active, dma_error, dma_own, orphans, runs>>
      BY <1>2 DEF dma_cs
    <3> QED BY <1>1, <2>3, <2>5, <3>1, <3>2, <3>3 DEF Types
  <2>7. Holds' /\ FieldsSet'
    BY <1>2, <1>3, <2>1, <2>2 DEF Holds, FieldsSet
  <2>8. FieldsNull'
    <3>1. ASSUME driver_mode' = "SPI" PROVE ptr'["leds1"] = "null"
      <4>1. zeroes_channel1
        BY <1>6, <3>1 DEF zeroes_channel1
      <4>2. ptr \in [Resources -> {"set", "null", "junk"}] /\ "leds1" \in Resources
        BY <1>1 DEF Types, Resources, LedArrays
      <4> QED BY <1>6, <4>1, <4>2
    <3> QED BY <2>3, <3>1 DEF FieldsNull
  <2>9. ~channel1_alone => ~channel1_alone' /\ PinsFit'
    <3>1. CASE zeroes_channel1
      <4>1. gpionum' = [i \in 0 .. 1 |-> IF i = 1 THEN 0 ELSE gpionum[i]]
            /\ count' = [i \in 0 .. 1 |-> IF i = 1 THEN 0 ELSE count[i]]
        BY <1>2, <1>6, <2>4, <3>1 DEF Channels
      <4>2. gpionum'[0] = gpionum[0] /\ gpionum'[1] = 0 /\ count'[1] = 0
        BY <4>1
      <4>3. ~channel1_alone'
        BY <4>2 DEF channel1_alone
      <4>4. ASSUME ~channel1_alone PROVE PinsFit'
        BY <1>6, <4>2, <4>4 DEF PinsFit, mode_of
      <4> QED BY <4>3, <4>4
    <3>2. CASE ~zeroes_channel1
      <4>1. UNCHANGED <<gpionum, count, rpi_hw>>
        BY <1>2, <1>6, <3>2
      <4>2. channel1_alone' <=> channel1_alone
        BY <4>1 DEF channel1_alone, hwver
      <4>3. ASSUME ~channel1_alone PROVE PinsFit'
        BY <1>6, <3>2, <4>1, <4>3 DEF PinsFit, mode_of, zeroes_channel1
      <4> QED BY <4>2, <4>3
    <3> QED BY <3>1, <3>2
  <2>10. channel1_alone => channel1_alone'
    <3>1. channel1_alone => UNCHANGED <<gpionum, count, rpi_hw>>
      BY <1>2, <1>6 DEF zeroes_channel1
    <3> QED BY <3>1 DEF channel1_alone, hwver
  <2>11. Process'
    <3>1. Before' /\ Channels' /\ Quiet'
      BY <1>2, <1>3, <1>6, <2>3 DEF Before, Channels, Quiet
    <3>2. Accepted'
      BY <2>9, <2>10 DEF Accepted
    <3> QED BY <2>7, <2>8, <3>1, <3>2 DEF Process
  <2>12. Machine'
    BY <1>1, <1>2, <2>3, MachineWaits
  <2>13. TablesAgree' /\ NothingLeft'
    BY <1>3, <1>6, <2>3 DEF TablesAgree, NothingLeft
  <2> QED BY <1>4, <2>6, <2>11, <2>12, <2>13 DEF IInv
<1> QED BY <1>5, <1>6 DEF Check

-----------------------------------------------------------------------------
(* One thing after the other.                                              *)
LEMMA StageOf ==
  ASSUME Holds, Acquiring, NEW r, pc = r, r \in Acquirable
  PROVE  /\ driver_mode \in Modes /\ r \in Stages(driver_mode) \ {"gpio_init", "setup", "ready"}
         /\ held = {"device"} \cup taken(driver_mode, r) /\ r \notin held
<1>1. driver_mode \in Modes /\ r \in Stages(driver_mode)
      /\ held = {"device"} \cup taken(driver_mode, r)
  BY DEF Holds
<1>2. r \notin {"gpio_init", "setup", "ready", "device"}
  BY DEF Acquirable, Resources, Registers, Memory, LedArrays
<1>3. r \notin taken(driver_mode, r)
  <2>1. CASE driver_mode = "SPI"
    BY <1>1, <2>1 DEF taken, turn_spi, Stages, SpiStages
  <2>2. CASE driver_mode # "SPI"
    <3>1. driver_mode \in {"PWM", "PCM"}
      BY <1>1, <2>2 DEF Modes
    <3>2. ASSUME r \in Needs(driver_mode) \ {"device"} PROVE ~(turn_dma(r) < turn_dma(r))
      <4>1. turn_dma(r) \in 1 .. 10
        BY <3>1, <3>2, TurnsDiffer
      <4> QED BY <4>1
    <3> QED BY <2>2, <3>2 DEF taken
  <2> QED BY <2>1, <2>2
<1> QED BY <1>1, <1>2, <1>3

LEMMA AcquireKeeps ==
  ASSUME IInv, NEW r \in Acquirable, Acquire(r)
  PROVE  IInv'
<1>1. Types /\ Process /\ Machine
  BY DEF IInv
<1>2. /\ pc = r /\ held' = held \cup ({r} \cap Resources) /\ pc' = following(r)
      /\ ptr' = [p \in Resources |-> IF p = r THEN "set"
                                     ELSE IF p \in nulled(r) THEN "null" ELSE ptr[p]]
      /\ UNCHANGED <<config, driver_mode, max_count, wrong, error, dma_cs, orphans, runs>>
  BY DEF Acquire
<1>3. Holds /\ FieldsSet /\ FieldsNull /\ Accepted /\ Acquiring
  BY <1>1, <1>2 DEF Process, Acquiring
<1>4. /\ driver_mode \in Modes /\ r \in Stages(driver_mode) \ {"gpio_init", "setup", "ready"}
      /\ held = {"device"} \cup taken(driver_mode, r) /\ r \notin held
  BY <1>2, <1>3, StageOf
<1>5. /\ pc' \in Stages(driver_mode)
      /\ held' = {"device"} \cup taken(driver_mode, pc')
  BY <1>2, <1>4, TakenGrows
<1>6. pc' \in Acquirable \cup {"gpio_init", "setup", "ready"}
  BY <1>4, <1>5 DEF Stages, SpiStages, DmaStages, source_of, Acquirable, Resources, Registers,
                    Memory, LedArrays
<1>7. pc' \notin {"off", "detect", "check", "failed", "finished"}
      /\ pc \notin {"off", "detect", "check", "ready", "failed", "finished"}
  BY <1>2, <1>4, <1>6 DEF Acquirable, Resources, Registers, Memory, LedArrays
<1>8. Types'
  <2>1. held' \subseteq Resources
    BY <1>1, <1>2 DEF Types
  <2>2. ptr' \in [Resources -> {"set", "null", "junk"}]
    BY <1>1, <1>2 DEF Types
  <2> QED BY <1>1, <1>2, <1>6, <2>1, <2>2 DEF Types, config, dma_cs
<1>9. Holds'
  BY <1>2, <1>4, <1>5 DEF Holds
<1>10. FieldsSet'
  <2>1. ASSUME NEW x \in held', x # "device" PROVE ptr'[x] = "set"
    <3>1. x \in Resources
      BY <1>1, <1>2, <2>1 DEF Types
    <3>2. CASE x = r
      BY <1>2, <3>1, <3>2
    <3>3. CASE x # r
      <4>1. x \in held /\ ptr[x] = "set"
        BY <1>2, <1>3, <2>1, <3>3 DEF FieldsSet
      <4>2. x \notin nulled(r)
        <5>1. CASE r = "virt_addr"
          <6>1. driver_mode # "SPI" /\ driver_mode \in {"PWM", "PCM"}
            BY <1>4, <5>1 DEF Stages, SpiStages, Modes
          <6>2. turn_dma(x) < turn_dma(r) /\ x \in Needs(driver_mode)
            BY <1>2, <1>4, <2>1, <3>3, <6>1 DEF taken
          <6>3. x \notin LedArrays \cup {"pxl_raw"}
            BY <5>1, <6>2 DEF turn_dma, LedArrays
          <6> QED BY <5>1, <6>3 DEF nulled
        <5>2. CASE r = "ioctl"
          <6>1. driver_mode = "SPI"
            BY <1>4, <5>2 DEF Stages, DmaStages, source_of
          <6>2. x = "spi_fd"
            BY <1>4, <2>1, <4>1, <5>2, <6>1 DEF taken, turn_spi
          <6> QED BY <5>2, <6>2 DEF nulled, Registers
        <5>3. CASE r \notin {"virt_addr", "ioctl"}
          BY <5>3 DEF nulled
        <5> QED BY <5>1, <5>2, <5>3
      <4> QED BY <1>2, <3>1, <3>3, <4>1, <4>2
    <3> QED BY <3>2, <3>3
  <2> QED BY <2>1 DEF FieldsSet
<1>11. FieldsNull'
  <2>1. "leds1" \in Resources /\ Registers \cup {"mbox"} \subseteq Resources
    BY DEF Resources, LedArrays, Memory
  <2>2. ASSUME driver_mode = "SPI" PROVE ptr'["leds1"] = "null"
    <3>1. ptr["leds1"] = "null" /\ r # "leds1"
      BY <1>3, <1>4, <2>2 DEF FieldsNull, Stages, SpiStages
    <3> QED BY <1>2, <2>1, <3>1
  <2>3. ASSUME driver_mode = "SPI", pc' \in {"leds0", "pxl_raw", "ready"},
               NEW f \in Registers \cup {"mbox"}
        PROVE  ptr'[f] = "null"
    <3>1. r \in {"ioctl", "leds0", "pxl_raw"}
      BY <1>2, <1>4, <2>3 DEF Stages, SpiStages, following
    <3>2. CASE r = "ioctl"
      BY <1>2, <2>1, <2>3, <3>2 DEF nulled, Registers
    <3>3. CASE r # "ioctl"
      <4>1. ptr[f] = "null"
        BY <1>2, <1>3, <2>3, <3>1, <3>3 DEF FieldsNull
      <4>2. f # r
        BY <2>3, <3>1 DEF Registers
      <4> QED BY <1>2, <2>1, <2>3, <4>1, <4>2
    <3> QED BY <3>2, <3>3
  <2>4. ASSUME driver_mode # "SPI", pc' \in {"leds0", "leds1"} PROVE ptr'["leds1"] = "null"
    <3>1. driver_mode \in {"PWM", "PCM"} /\ r \in DmaStages(source_of(driver_mode)) \ {"gpio_init", "setup", "ready"}
      BY <1>4, <2>4 DEF Stages, Modes
    <3>2. turn_dma(pc') = turn_dma(r) + 1 /\ r \in Needs(driver_mode) \ {"device"}
      BY <1>2, <3>1, DmaFollows
    <3>3. turn_dma(pc') \in {5, 6}
      BY <2>4 DEF turn_dma
    <3>4. turn_dma(r) \in {4, 5}
      <4>1. turn_dma(r) \in 1 .. 10
        BY <3>1, <3>2, TurnsDiffer
      <4> QED BY <3>2, <3>3, <4>1
    <3>5. r \in {"virt_addr", "leds0"}
      BY <3>1, <3>4 DEF turn_dma, DmaStages, source_of
    <3>6. CASE r = "virt_addr"
      BY <1>2, <2>1, <3>6 DEF nulled, LedArrays
    <3>7. CASE r = "leds0"
      <4>1. ptr["leds1"] = "null"
        BY <1>2, <1>3, <2>4, <3>7 DEF FieldsNull
      <4> QED BY <1>2, <2>1, <3>7, <4>1
    <3> QED BY <3>5, <3>6, <3>7
  <2> QED BY <1>2, <2>2, <2>3, <2>4 DEF FieldsNull
<1>12. Before' /\ Channels' /\ Quiet' /\ TablesAgree' /\ NothingLeft' /\ ReleasedOnce'
  <2>1. error' = "NONE" /\ wrong' = {}
    BY <1>1, <1>2, <1>7 DEF Process, Quiet
  <2> QED BY <1>7, <2>1 DEF Before, Channels, Quiet, TablesAgree, NothingLeft, ReleasedOnce
<1>13. Accepted'
  <2>1. channel1_alone \/ PinsFit
    BY <1>3 DEF Accepted
  <2> QED BY <1>2, <2>1 DEF Accepted, channel1_alone, PinsFit, hwver, config
<1>14. Machine'
  BY <1>1, <1>2, <1>7, MachineWaits
<1> QED BY <1>8, <1>9, <1>10, <1>11, <1>12, <1>13, <1>14 DEF IInv, Process

-----------------------------------------------------------------------------
(* Releasing: what ws2811_cleanup releases through fields that agree with  *)
(* what is held.                                                           *)
Cleans(mode, p, h) ==
  /\ "device" \in h /\ h \subseteq Needs(mode)
  /\ \A r \in h \ {"device"} : p[r] = "set"
  /\ IF mode = "SPI" THEN /\ p["leds1"] = "null" /\ p["mbox"] = "null" /\ "spi_fd" \in h
                          /\ "leds0" \in h \/ p["leds0"] = "null"
     ELSE /\ Memory \subseteq h
          /\ \A l \in LedArrays : l \in h \/ p[l] = "null"

LEMMA CleanupReleases ==
  ASSUME NEW mode \in Modes, NEW p, NEW h, Cleans(mode, p, h),
         NEW S, NEW junk \in JunkOf(p, S)
  PROVE  /\ h \ cleanup(p, junk) \subseteq Registers \cup ({"pxl_raw"} \cap h)
         /\ cleanup(p, junk) \ h \subseteq IF mode = "SPI" THEN {} ELSE {"spi_fd"}
<1>1. \A r \in junk : p[r] = "junk"
  BY DEF JunkOf
<1>2. "device" \in cleanup(p, junk)
  BY DEF cleanup
<1>3. CASE mode = "SPI"
  <2>1. h \subseteq {"device", "spi_fd", "leds0", "pxl_raw"} /\ p["mbox"] # "set"
        /\ "leds1" \notin junk /\ p["leds1"] # "set" /\ "spi_fd" \in h
        /\ ("leds0" \in h \/ (p["leds0"] # "set" /\ "leds0" \notin junk))
    BY <1>1, <1>3 DEF Cleans, Needs
  <2>2. cleanup(p, junk) = Seen(p, LedArrays \cup {"spi_fd"}, junk) \cup {"device"}
    BY <2>1 DEF cleanup
  <2>3. ASSUME NEW r \in h, r \in {"leds0", "spi_fd"} PROVE r \in Seen(p, LedArrays \cup {"spi_fd"}, junk)
    BY <2>3 DEF Cleans, Seen, LedArrays
  <2>4. Seen(p, LedArrays \cup {"spi_fd"}, junk) \subseteq h
    BY <2>1 DEF Seen, LedArrays
  <2>5. h \ cleanup(p, junk) \subseteq {"pxl_raw"} \cap h
    BY <2>1, <2>2, <2>3
  <2>6. cleanup(p, junk) \ h = {}
    BY <2>2, <2>4 DEF Cleans
  <2> QED BY <1>3, <2>5, <2>6
<1>4. CASE mode # "SPI"
  <2>1. /\ "device" \in h /\ Memory \subseteq h /\ p["mbox"] = "set"
        /\ h \subseteq {"device", "dma", "gpio", "cm_clk", "pwm", "pcm"} \cup Memory \cup LedArrays
    BY <1>4 DEF Cleans, Needs, Memory
  <2>2. cleanup(p, junk) = Seen(p, LedArrays \cup {"spi_fd"}, junk) \cup {"device"} \cup Memory
    BY <2>1 DEF cleanup
  <2>3. ASSUME NEW l \in LedArrays
        PROVE  l \in h <=> l \in Seen(p, LedArrays \cup {"spi_fd"}, junk)
    <3>1. l \in h => p[l] = "set"
      BY <2>3 DEF Cleans, LedArrays
    <3>2. l \notin h => p[l] = "null" /\ l \notin junk
      BY <1>1, <1>4, <2>3 DEF Cleans
    <3> QED BY <2>3, <3>1, <3>2 DEF Seen
  <2>4. h \ cleanup(p, junk) \subseteq Registers
    BY <2>1, <2>2, <2>3 DEF Registers
  <2>5. ASSUME NEW r \in cleanup(p, junk), r \notin h PROVE r = "spi_fd"
    <3>1. r \in Seen(p, LedArrays \cup {"spi_fd"}, junk)
      BY <2>1, <2>2, <2>5
    <3>2. r \in LedArrays \cup {"spi_fd"}
      BY <3>1 DEF Seen
    <3> QED BY <2>3, <2>5, <3>1, <3>2
  <2> QED BY <1>4, <2>4, <2>5
<1> QED BY <1>3, <1>4

LEMMA CleanupTypes ==
  ASSUME NEW p, NEW S, S \subseteq Resources, NEW junk \in JunkOf(p, S)
  PROVE  /\ cleanup(p, junk) \subseteq Resources
         /\ unmap_registers(p, junk) \subseteq Registers
<1>1. cleanup(p, junk) \subseteq LedArrays \cup {"spi_fd"} \cup {"device"} \cup Memory
  BY DEF cleanup, Seen
<1> QED BY <1>1 DEF unmap_registers, Seen, Resources

(* What is held and set when the acquisition of r has just failed.         *)
LEMMA FailedFields ==
  ASSUME Types, Holds, FieldsSet, FieldsNull, NEW r \in Acquirable, pc = r,
         ~returns_at_once(r), r # "virt_addr",
         NEW p, p = [x \in Resources |-> IF x = r THEN "null" ELSE ptr[x]]
  PROVE  driver_mode \in Modes /\ Cleans(driver_mode, p, held) /\ "pxl_raw" \notin held
<1>1. Acquiring
  BY DEF Acquiring
<1>2. /\ driver_mode \in Modes /\ r \in Stages(driver_mode) \ {"gpio_init", "setup", "ready"}
      /\ held = {"device"} \cup taken(driver_mode, r) /\ r \notin held
  BY <1>1, StageOf
<1>3. held \subseteq Resources
  BY DEF Types
<1>4. \A x \in held \ {"device"} : p[x] = "set"
  BY <1>1, <1>2, <1>3 DEF FieldsSet
<1>5. {"leds0", "leds1", "mbox"} \subseteq Resources
  BY DEF Resources, LedArrays, Memory
<1>6. CASE driver_mode = "SPI"
  <2>1. r \in {"leds0", "pxl_raw"}
    BY <1>2, <1>6 DEF Stages, SpiStages, returns_at_once
  <2>2. p["leds1"] = "null" /\ p["mbox"] = "null"
    BY <1>1, <1>5, <1>6, <2>1 DEF FieldsNull
  <2>3. "leds0" \in held \/ p["leds0"] = "null"
    <3>1. CASE r = "leds0"
      BY <1>5, <3>1
    <3>2. CASE r = "pxl_raw"
      BY <1>2, <1>6, <3>2 DEF taken, turn_spi
    <3> QED BY <2>1, <3>1, <3>2
  <2>4. held \subseteq Needs(driver_mode) /\ "pxl_raw" \notin held
    BY <1>2, <1>6, <2>1 DEF taken, turn_spi, Needs
  <2>5. "spi_fd" \in held
    BY <1>2, <1>6, <2>1 DEF taken, turn_spi
  <2> QED BY <1>2, <1>4, <1>6, <2>2, <2>3, <2>4, <2>5 DEF Cleans
<1>7. CASE driver_mode # "SPI"
  <2>1. driver_mode \in {"PWM", "PCM"}
    BY <1>2, <1>7 DEF Modes
  <2>2. r \in {"leds0", "leds1", "dma", "pwm", "pcm", "gpio", "cm_clk"}
    BY <1>2, <1>7 DEF Stages, DmaStages, source_of, returns_at_once
  <2>3. \A x \in Needs(driver_mode) \ {"device"} : x \in held <=> turn_dma(x) < turn_dma(r)
    BY <1>2, <1>7 DEF taken
  <2>4. Memory \cup LedArrays \subseteq Needs(driver_mode) \ {"device"}
    BY <1>7 DEF Needs, Memory, LedArrays
  <2>5. Memory \subseteq held
    <3>1. \A x \in Memory : turn_dma(x) < turn_dma(r)
      BY <2>2 DEF Memory, turn_dma
    <3> QED BY <2>3, <2>4, <3>1
  <2>6. ASSUME NEW l \in LedArrays PROVE l \in held \/ p[l] = "null"
    <3>1. CASE r = l
      BY <1>5, <3>1 DEF LedArrays
    <3>2. CASE r = "leds0" /\ l = "leds1"
      BY <1>5, <1>7, <3>2 DEF FieldsNull
    <3>3. CASE r # l /\ ~(r = "leds0" /\ l = "leds1")
      <4>1. turn_dma(l) < turn_dma(r)
        BY <2>2, <3>3 DEF LedArrays, turn_dma
      <4> QED BY <2>3, <2>4, <4>1
    <3> QED BY <3>1, <3>2, <3>3 DEF LedArrays
  <2>7. held \subseteq Needs(driver_mode) /\ "pxl_raw" \notin held
    BY <1>2, <1>7, <2>1 DEF taken, Needs, Memory, LedArrays
  <2> QED BY <1>2, <1>4, <1>7, <2>5, <2>6, <2>7 DEF Cleans
<1> QED BY <1>6, <1>7

LEMMA ErrorsDiffer ==
  ASSUME NEW r \in Acquirable
  PROVE  /\ error_of(r) \notin {"ILLEGAL_GPIO", "GPIO_INIT"}
         /\ r = "lock" => error_of(r) = "MEM_LOCK"
         /\ r = "virt_addr" => error_of(r) = "MMAP"
<1>1. r \in {"mbox", "mem", "leds0", "leds1", "pxl_raw", "lock", "virt_addr", "spi_fd", "ioctl"}
        \cup Registers
  BY DEF Acquirable, Resources, Memory, LedArrays
<1>2. CASE r \in Registers
  BY <1>2 DEF error_of, Registers
<1>3. CASE r \notin Registers
  BY <1>1, <1>3 DEF error_of
<1> QED BY <1>2, <1>3

LEMMA AcquireFailsKeeps ==
  ASSUME IInv, NEW r \in Acquirable, AcquireFails(r)
  PROVE  IInv'
<1> DEFINE p == [x \in Resources |-> IF x = r THEN "null" ELSE ptr[x]]
<1>1. Types /\ Process /\ Machine
  BY DEF IInv
<1>2. /\ pc = r /\ pc' = "failed" /\ error' = error_of(r) /\ ptr' = p
      /\ UNCHANGED <<config, driver_mode, max_count, dma_cs, orphans, runs>>
  BY DEF AcquireFails, Return
<1>3. /\ Holds /\ FieldsSet /\ FieldsNull /\ Acquiring
      /\ pc \notin {"off", "detect", "check", "ready", "failed", "finished"}
  BY <1>1, <1>2 DEF Process, Acquiring, Acquirable, Resources, Registers, Memory, LedArrays
<1>4. wrong = {} /\ held \subseteq Resources /\ p \in [Resources -> {"set", "null", "junk"}]
  BY <1>1, <1>3 DEF Process, Quiet, Types
<1>5. /\ driver_mode \in Modes /\ r \in Stages(driver_mode) \ {"gpio_init", "setup", "ready"}
      /\ held = {"device"} \cup taken(driver_mode, r)
  BY <1>2, <1>3, StageOf
<1>6. UNCHANGED <<rpi_hw, gpionum, count, dma_active, dma_error, dma_own>>
  BY <1>2 DEF config, dma_cs
<1>7. LedArrays \cup {"spi_fd"} \subseteq Resources /\ "mem" \in Resources
  BY DEF Resources, Memory
<1>8. /\ held' \subseteq Resources /\ wrong' \subseteq Resources
      /\ "mem" \in held' => error' = "MEM_LOCK"
      /\ "device" \notin held' => held' \subseteq Registers
      /\ wrong' \ never_set # {} => error' \in {"MEM_LOCK", "MMAP"}
  <2>1. undone(r).misdirected = IF r \in {"lock", "virt_addr"} THEN {"mem"} ELSE {}
    BY DEF undone
  <2>2. undone(r).released = IF r = "virt_addr" THEN {"lock"} ELSE {}
    BY DEF undone
  <2>3. CASE returns_at_once(r)
    <3>1. held' = held /\ wrong' = undone(r).misdirected
      BY <1>4, <2>3 DEF AcquireFails
    <3>2. r \in {"mbox", "mem", "spi_fd", "ioctl"} => "mem" \notin held
      <4>1. CASE driver_mode = "SPI"
        BY <1>5, <4>1 DEF taken
      <4>2. CASE driver_mode # "SPI"
        BY <1>5, <4>2 DEF taken, turn_dma, Stages, DmaStages, source_of
      <4> QED BY <4>1, <4>2
    <3>3. r \in {"mbox", "mem", "spi_fd", "ioctl", "lock"}
      BY <2>3 DEF returns_at_once
    <3>4. "device" \in held'
      BY <1>5, <3>1
    <3> QED BY <1>2, <1>4, <1>7, <2>1, <3>1, <3>2, <3>3, <3>4, ErrorsDiffer
  <2>4. CASE ~returns_at_once(r) /\ r # "virt_addr"
    <3>1. undone(r).misdirected = {} /\ held \ undone(r).released = held
      BY <2>1, <2>2, <2>4 DEF returns_at_once
    <3>2. PICK junk \in JunkOf(p, LedArrays \cup {"spi_fd"}) :
            held' = held \ cleanup(p, junk) /\ wrong' = cleanup(p, junk) \ held
      BY <1>2, <1>4, <2>4, <3>1 DEF AcquireFails
    <3>3. Cleans(driver_mode, p, held) /\ "pxl_raw" \notin held
      BY <1>1, <1>2, <1>3, <2>4, FailedFields
    <3> HIDE DEF p
    <3>4. /\ held \ cleanup(p, junk) \subseteq Registers \cup ({"pxl_raw"} \cap held)
          /\ cleanup(p, junk) \ held \subseteq never_set
      BY <1>5, <3>3, CleanupReleases DEF never_set
    <3>5. cleanup(p, junk) \subseteq Resources
      BY <1>7, CleanupTypes
    <3>6. "mem" \notin Registers
      BY DEF Registers
    <3> QED BY <1>4, <3>2, <3>3, <3>4, <3>5, <3>6
  <2>5. CASE r = "virt_addr"
    <3>1. PICK junk \in JunkOf(p, LedArrays \cup {"spi_fd"}) :
            /\ held' = (held \ {"lock"}) \ cleanup(p, junk)
            /\ wrong' = {"mem"} \cup (cleanup(p, junk) \ (held \ {"lock"}))
      BY <1>2, <1>4, <2>1, <2>2, <2>5 DEF AcquireFails, returns_at_once
    <3>2. driver_mode # "SPI"
      BY <1>5, <2>5 DEF Stages, SpiStages
    <3>3. "mbox" \in held /\ held \subseteq {"device", "mbox", "mem", "lock"}
      BY <1>5, <2>5, <3>2 DEF taken, turn_dma, Needs, Memory, LedArrays
    <3>4. p["mbox"] = "set"
      BY <1>3, <1>4, <2>5, <3>3 DEF FieldsSet
    <3> HIDE DEF p
    <3>5. {"device", "mbox", "mem", "lock"} \subseteq cleanup(p, junk)
      BY <3>4 DEF cleanup, Memory
    <3>6. cleanup(p, junk) \subseteq Resources
      BY <1>7, CleanupTypes
    <3>7. held' = {} /\ wrong' \subseteq Resources
      BY <1>7, <3>1, <3>3, <3>5, <3>6
    <3> QED BY <1>2, <2>5, <3>7, ErrorsDiffer
  <2> QED BY <2>3, <2>4, <2>5
<1> HIDE DEF p
<1>9. Types'
  BY <1>1, <1>2, <1>4, <1>6, <1>8 DEF Types
<1>10. Process'
  BY <1>2, Idle DEF Process, Before, Channels, Quiet
<1>11. Machine'
  BY <1>1, <1>2, <1>3, MachineWaits
<1>12. TablesAgree' /\ NothingLeft' /\ ReleasedOnce'
  BY <1>2, <1>8, ErrorsDiffer DEF TablesAgree, NothingLeft, ReleasedOnce, never_set
<1> QED BY <1>9, <1>10, <1>11, <1>12 DEF IInv

-----------------------------------------------------------------------------
(* The driver is complete, or gives back what it holds.                    *)
LEMMA CompleteFields ==
  ASSUME Holds, FieldsSet, FieldsNull, pc \in {"gpio_init", "setup", "ready"}
  PROVE  Cleans(driver_mode, ptr, Needs(driver_mode))
<1>1. Acquiring
  BY DEF Acquiring
<1>2. driver_mode \in Modes /\ pc \in Stages(driver_mode)
      /\ held = {"device"} \cup taken(driver_mode, pc)
  BY <1>1 DEF Holds
<1>3. held = Needs(driver_mode)
  BY <1>2, TakenIsNeeded
<1>4. \A r \in held \ {"device"} : ptr[r] = "set"
  BY <1>1 DEF FieldsSet
<1>5. CASE driver_mode = "SPI"
  <2>1. pc = "ready"
    BY <1>2, <1>5 DEF Stages, SpiStages
  <2>2. ptr["leds1"] = "null" /\ ptr["mbox"] = "null"
    BY <1>1, <1>5, <2>1 DEF FieldsNull
  <2> QED BY <1>3, <1>4, <1>5, <2>2 DEF Cleans, Needs
<1>6. CASE driver_mode # "SPI"
  <2>1. Memory \cup LedArrays \cup {"device"} \subseteq Needs(driver_mode)
    BY <1>6 DEF Needs
  <2> QED BY <1>3, <1>4, <1>6, <2>1 DEF Cleans
<1> QED BY <1>5, <1>6

LEMMA GivesBack ==
  ASSUME Types, Holds, FieldsSet, FieldsNull, wrong = {}, pc \in {"gpio_init", "setup", "ready"},
         NEW S, S \subseteq Resources, NEW junk \in JunkOf(ptr, S),
         GiveBack(held, unmap_registers(ptr, junk) \cup cleanup(ptr, junk))
  PROVE  /\ held' \subseteq Resources /\ wrong' \subseteq Resources
         /\ wrong' \subseteq never_set
         /\ driver_mode # "SPI" => held' = {}
<1> DEFINE U == unmap_registers(ptr, junk)
           C == cleanup(ptr, junk)
<1>1. driver_mode \in Modes /\ held = Needs(driver_mode)
  BY ReadyHolds
<1>2. Cleans(driver_mode, ptr, held)
  BY <1>1, CompleteFields
<1>3. held \ C \subseteq Registers \cup ({"pxl_raw"} \cap held) /\ C \ held \subseteq never_set
  BY <1>1, <1>2, CleanupReleases DEF never_set
<1>4. C \subseteq Resources /\ U \subseteq Registers
  BY CleanupTypes
<1>5. held' = held \ (U \cup C) /\ wrong' = (U \cup C) \ held
  BY DEF GiveBack
<1>6. Registers \subseteq Resources
  BY DEF Resources
<1>7. ASSUME driver_mode # "SPI" PROVE held \ C \subseteq U
  <2>1. "pxl_raw" \notin held
    BY <1>1, <1>7 DEF Needs, Memory, LedArrays
  <2>2. ASSUME NEW r \in held \ C PROVE r \in U
    <3>1. r \in Registers /\ ptr[r] = "set"
      BY <1>2, <1>3, <2>1, <2>2 DEF Cleans, Registers
    <3> QED BY <3>1 DEF unmap_registers, Seen
  <2> QED BY <2>2
<1>8. held \subseteq Resources
  BY DEF Types
<1>9. U \ held \subseteq never_set
  <2>1. ASSUME NEW r \in U PROVE r \in Registers /\ ptr[r] # "null"
    BY <2>1 DEF unmap_registers, Seen, JunkOf
  <2>2. CASE driver_mode = "SPI"
    <3>1. pc = "ready"
      BY <2>2 DEF Holds, Acquiring, Stages, SpiStages
    <3>2. \A r \in Registers : ptr[r] = "null"
      BY <2>2, <3>1 DEF FieldsNull
    <3> QED BY <2>1, <3>2
  <2>3. CASE driver_mode # "SPI"
    <3>1. Registers \ held \subseteq never_set
      BY <1>1, <2>3 DEF Needs, Registers, never_set, Modes
    <3> QED BY <1>4, <3>1
  <2> QED BY <2>2, <2>3
<1> HIDE DEF U, C
<1> QED BY <1>3, <1>4, <1>5, <1>6, <1>7, <1>8, <1>9

LEMMA GpioInitKeeps ==
  ASSUME IInv, GpioInit
  PROVE  IInv'
<1>1. Types /\ Process /\ Machine
  BY DEF IInv
<1>2. /\ pc = "gpio_init" /\ pc' \in {"failed", "setup"}
      /\ UNCHANGED <<config, driver_mode, max_count, ptr, dma_cs, orphans, runs>>
  BY DEF GpioInit, Return
<1>3. /\ Holds /\ FieldsSet /\ FieldsNull /\ Accepted /\ Acquiring
      /\ error = "NONE" /\ wrong = {}
  BY <1>1, <1>2 DEF Process, Quiet, Acquiring
<1>4. driver_mode \in Modes /\ driver_mode # "SPI" /\ pc \in Stages(driver_mode)
  BY <1>2, <1>3 DEF Holds, Stages, SpiStages
<1>5. UNCHANGED <<rpi_hw, gpionum, count, dma_active, dma_error, dma_own>>
  BY <1>2 DEF config, dma_cs
<1>6. Machine'
  BY <1>1, <1>2, MachineWaits
<1>7. channel1_alone' = channel1_alone /\ (PinsFit' <=> PinsFit)
  BY <1>2, <1>5 DEF channel1_alone, PinsFit, hwver
<1>8. CASE /\ no_alt(0) \/ no_alt(1)
           /\ \E junk \in JunkOf(ptr, Registers \cup LedArrays \cup {"spi_fd"}) :
                GiveBack(held, unmap_registers(ptr, junk) \cup cleanup(ptr, junk))
           /\ Return("GPIO_INIT")
  <2>1. pc' = "failed" /\ error' = "GPIO_INIT"
    BY <1>8 DEF Return
  <2>2. Registers \cup LedArrays \cup {"spi_fd"} \subseteq Resources
    BY DEF Resources
  <2>3. /\ held' = {} /\ wrong' \subseteq Resources /\ wrong' \subseteq never_set
    BY <1>1, <1>2, <1>3, <1>4, <1>8, <2>2, GivesBack
  <2>4. Types'
    BY <1>1, <1>2, <1>5, <2>1, <2>3 DEF Types
  <2>5. Process'
    BY <2>1, Idle DEF Process, Before, Channels, Quiet
  <2>6. channel1_alone
    <3>1. CASE PinsFit
      BY <1>4, <1>8, <3>1 DEF PinsFit, no_alt, pwm_pin_alt, pcm_pin_alt, Modes
    <3> QED BY <1>3, <3>1 DEF Accepted
  <2>7. TablesAgree' /\ NothingLeft' /\ ReleasedOnce'
    BY <1>2, <1>7, <2>1, <2>3, <2>6 DEF TablesAgree, NothingLeft, ReleasedOnce, never_set
  <2> QED BY <1>6, <2>4, <2>5, <2>7 DEF IInv
<1>9. CASE ~(no_alt(0) \/ no_alt(1)) /\ pc' = "setup" /\ UNCHANGED <<held, wrong, error>>
  <2>1. Types'
    BY <1>1, <1>2, <1>5, <1>9 DEF Types
  <2>2. Holds'
    <3>1. held = Needs(driver_mode)
      BY <1>1, <1>2, <1>3, ReadyHolds
    <3>2. "setup" \in Stages(driver_mode)
      BY <1>4 DEF Stages, DmaStages
    <3>3. held = {"device"} \cup taken(driver_mode, "setup")
      BY <1>4, <3>1, <3>2, TakenIsNeeded
    <3> QED BY <1>2, <1>4, <1>9, <3>2, <3>3 DEF Holds
  <2>3. FieldsSet' /\ FieldsNull'
    BY <1>2, <1>3, <1>4, <1>9 DEF FieldsSet, FieldsNull
  <2>4. Before' /\ Channels' /\ Quiet' /\ Accepted'
    BY <1>3, <1>7, <1>9 DEF Before, Channels, Quiet, Accepted
  <2>5. TablesAgree' /\ NothingLeft' /\ ReleasedOnce'
    BY <1>3, <1>9 DEF TablesAgree, NothingLeft, ReleasedOnce
  <2> QED BY <1>6, <2>1, <2>2, <2>3, <2>4, <2>5 DEF IInv, Process
<1> QED BY <1>8, <1>9 DEF GpioInit

LEMMA SetupKeeps ==
  ASSUME IInv, Setup
  PROVE  IInv'
<1>1. Types /\ Process /\ Machine
  BY DEF IInv
<1>2. /\ pc = "setup" /\ pc' = "ready" /\ dma_active' = FALSE
      /\ UNCHANGED <<config, driver_mode, max_count, ptr, held, wrong, error, dma_error, dma_own,
                     orphans, runs>>
  BY DEF Setup
<1>3. /\ Holds /\ FieldsSet /\ FieldsNull /\ Accepted /\ Acquiring
      /\ error = "NONE" /\ wrong = {}
  BY <1>1, <1>2 DEF Process, Quiet, Acquiring
<1>4. driver_mode \in Modes /\ driver_mode # "SPI"
  BY <1>2, <1>3 DEF Holds, Stages, SpiStages
<1>5. UNCHANGED <<rpi_hw, gpionum, count>>
  BY <1>2 DEF config
<1>6. Types'
  BY <1>1, <1>2, <1>5 DEF Types
<1>7. Holds'
  <2>1. held = Needs(driver_mode)
    BY <1>1, <1>2, <1>3, ReadyHolds
  <2>2. "ready" \in Stages(driver_mode)
    BY <1>4 DEF Stages, DmaStages
  <2>3. held = {"device"} \cup taken(driver_mode, "ready")
    BY <1>4, <2>1, <2>2, TakenIsNeeded
  <2> QED BY <1>2, <1>4, <2>2, <2>3 DEF Holds
<1>8. FieldsSet' /\ FieldsNull'
  BY <1>2, <1>3, <1>4 DEF FieldsSet, FieldsNull
<1>9. Accepted'
  <2>1. channel1_alone \/ PinsFit
    BY <1>3 DEF Accepted
  <2> QED BY <1>2, <1>5, <2>1 DEF Accepted, channel1_alone, PinsFit, hwver
<1>10. Before' /\ Channels' /\ Quiet'
  BY <1>2, <1>3 DEF Before, Channels, Quiet
<1>11. Machine'
  BY <1>1, <1>2 DEF Machine, DmaOwned, Counted, DmaReadsLiveMemory
<1>12. TablesAgree' /\ NothingLeft' /\ ReleasedOnce'
  BY <1>2, <1>3 DEF TablesAgree, NothingLeft, ReleasedOnce
<1> QED BY <1>6, <1>7, <1>8, <1>9, <1>10, <1>11, <1>12 DEF IInv, Process

(* Steps of the DMA and of ws2811_render change the DMA's flags only.      *)
LEMMA ProcessStays ==
  ASSUME IInv, UNCHANGED <<pc, config, driver_mode, max_count, ptr, held, wrong, error>>
  PROVE  Process' /\ TablesAgree' /\ NothingLeft' /\ ReleasedOnce'
<1>1. UNCHANGED <<pc, rpi_hw, gpionum, count, driver_mode, ptr, held, wrong, error>>
  BY DEF config
<1>2. Process /\ TablesAgree /\ NothingLeft /\ ReleasedOnce
  BY DEF IInv
<1>3. channel1_alone' = channel1_alone /\ hwver' = hwver /\ (PinsFit' <=> PinsFit)
      /\ (Acquiring' <=> Acquiring)
  BY <1>1 DEF channel1_alone, hwver, PinsFit, Acquiring
<1>4. Before' /\ Holds' /\ FieldsSet' /\ FieldsNull'
  BY <1>1, <1>2, <1>3 DEF Process, Before, Holds, FieldsSet, FieldsNull
<1>5. Channels' /\ Quiet'
  BY <1>1, <1>2 DEF Process, Channels, Quiet
<1>6. Accepted'
  BY <1>2, <1>3 DEF Process, Accepted
<1>7. TablesAgree'
  BY <1>1, <1>2, <1>3 DEF TablesAgree
<1>8. NothingLeft' /\ ReleasedOnce'
  BY <1>1, <1>2 DEF NothingLeft, ReleasedOnce, never_set
<1> QED BY <1>4, <1>5, <1>6, <1>7, <1>8 DEF Process

LEMMA RenderKeeps ==
  ASSUME IInv, Render
  PROVE  IInv'
<1>1. Types /\ Process /\ Machine
  BY DEF IInv
<1>2. /\ pc = "ready" /\ driver_mode # "SPI" /\ ~dma_error
      /\ dma_active' = TRUE /\ dma_own' = TRUE
      /\ UNCHANGED <<pc, config, driver_mode, max_count, ptr, held, wrong, error, dma_error,
                     orphans, runs>>
  BY DEF Render
<1>3. Types'
  BY <1>1, <1>2 DEF Types, config
<1>4. Machine'
  <2>1. held = Needs(driver_mode)
    BY <1>1, <1>2, ReadyHolds DEF Process
  <2>2. {"mem", "lock"} \subseteq held
    BY <1>2, <2>1 DEF Needs, Memory
  <2> QED BY <1>1, <1>2, <2>2 DEF Machine, DmaOwned, Counted, DmaReadsLiveMemory
<1>5. Process' /\ TablesAgree' /\ NothingLeft' /\ ReleasedOnce'
  BY <1>2, ProcessStays
<1> QED BY <1>3, <1>4, <1>5 DEF IInv

LEMMA DmaEndsKeeps ==
  ASSUME IInv, DmaEnds
  PROVE  IInv'
<1>1. Types /\ Machine
  BY DEF IInv
<1>2. /\ dma_active' = FALSE
      /\ UNCHANGED <<pc, config, driver_mode, max_count, ptr, held, wrong, error, dma_error,
                     dma_own, orphans, runs>>
  BY DEF DmaEnds
<1>3. Types'
  BY <1>1, <1>2 DEF Types, config
<1>4. Machine'
  BY <1>1, <1>2 DEF Machine, DmaOwned, Counted, DmaReadsLiveMemory
<1>5. Process' /\ TablesAgree' /\ NothingLeft' /\ ReleasedOnce'
  BY <1>2, ProcessStays
<1> QED BY <1>3, <1>4, <1>5 DEF IInv

LEMMA DmaFailsKeeps ==
  ASSUME IInv, DmaFails
  PROVE  IInv'
<1>1. Types /\ Machine
  BY DEF IInv
<1>2. /\ dma_active' \in BOOLEAN /\ dma_error' = TRUE
      /\ UNCHANGED <<pc, config, driver_mode, max_count, ptr, held, wrong, error, dma_own,
                     orphans, runs>>
  BY DEF DmaFails
<1>3. Types'
  BY <1>1, <1>2 DEF Types, config
<1>4. Machine'
  BY <1>1, <1>2 DEF Machine, DmaOwned, Counted, DmaReadsLiveMemory
<1>5. Process' /\ TablesAgree' /\ NothingLeft' /\ ReleasedOnce'
  BY <1>2, ProcessStays
<1> QED BY <1>3, <1>4, <1>5 DEF IInv

LEMMA FiniKeeps ==
  ASSUME IInv, Fini
  PROVE  IInv'
<1>1. Types /\ Process /\ Machine
  BY DEF IInv
<1>2. /\ pc = "ready" /\ waited /\ pc' = "finished"
      /\ UNCHANGED <<config, driver_mode, max_count, ptr, error, dma_cs, orphans, runs>>
  BY DEF Fini
<1>3. Holds /\ FieldsSet /\ FieldsNull /\ error = "NONE" /\ wrong = {}
  BY <1>1, <1>2 DEF Process, Quiet
<1>4. UNCHANGED <<rpi_hw, gpionum, count, dma_active, dma_error, dma_own>>
  BY <1>2 DEF config, dma_cs
<1>5. /\ held' \subseteq Resources /\ wrong' \subseteq Resources /\ wrong' \subseteq never_set
      /\ driver_mode # "SPI" => held' = {}
  <2>1. Registers \cup LedArrays \cup {"spi_fd"} \subseteq Resources
    BY DEF Resources
  <2>2. PICK junk \in JunkOf(ptr, Registers \cup LedArrays \cup {"spi_fd"}) :
          GiveBack(held, unmap_registers(ptr, junk) \cup cleanup(ptr, junk))
    BY DEF Fini
  <2> QED BY <1>1, <1>2, <1>3, <2>1, <2>2, GivesBack
<1>6. Types'
  BY <1>1, <1>2, <1>4, <1>5 DEF Types
<1>7. Process'
  BY <1>2, <1>3, Idle DEF Process, Before, Channels, Quiet
<1>8. Machine'
  <2>1. ~(dma_active /\ dma_own /\ ~dma_error)
    BY <1>1, <1>2 DEF Machine, DmaOwned, waited
  <2> QED BY <1>1, <1>2, <1>4, <2>1 DEF Machine, DmaOwned, Counted, DmaReadsLiveMemory
<1>9. TablesAgree' /\ NothingLeft' /\ ReleasedOnce'
  BY <1>2, <1>3, <1>5 DEF TablesAgree, NothingLeft, ReleasedOnce, never_set
<1> QED BY <1>6, <1>7, <1>8, <1>9 DEF IInv

LEMMA ExitKeeps ==
  ASSUME IInv, Exit
  PROVE  IInv'
<1>1. Types /\ Process /\ Machine /\ TablesAgree
  BY DEF IInv
<1>2. /\ pc # "off" /\ pc' = "off" /\ held' = {} /\ wrong' = {} /\ dma_own' = FALSE
      /\ orphans' = orphans + IF "mem" \in held THEN 1 ELSE 0
      /\ UNCHANGED <<config, driver_mode, max_count, ptr, error, dma_active, dma_error, runs>>
  BY DEF Exit
<1>3. UNCHANGED <<rpi_hw, gpionum, count>>
  BY <1>2 DEF config
<1>4. orphans \in Nat /\ runs \in Nat /\ orphans < runs
  BY <1>1, <1>2, InitAssumption DEF Types, Machine, Counted
<1>5. orphans' \in 0 .. runs' /\ orphans' >= orphans
  BY <1>2, <1>4
<1>6. Types'
  BY <1>1, <1>2, <1>3, <1>5 DEF Types
<1>7. Process'
  BY <1>2, Idle DEF Process, Before, Channels, Quiet
<1>8. Machine'
  <2>1. dma_active /\ ~dma_error => orphans' > 0
    <3>1. CASE dma_active /\ ~dma_error /\ dma_own
      <4>1. "mem" \in held
        BY <1>1, <3>1 DEF Machine, DmaReadsLiveMemory
      <4> QED BY <1>2, <1>4, <4>1
    <3>2. CASE dma_active /\ ~dma_error /\ ~dma_own
      BY <1>1, <1>4, <1>5, <3>2 DEF Machine, DmaReadsLiveMemory
    <3> QED BY <3>1, <3>2
  <2> QED BY <1>1, <1>2, <2>1 DEF Machine, DmaOwned, Counted, DmaReadsLiveMemory
<1>9. TablesAgree'
  <2>1. channel1_alone' = channel1_alone /\ hwver' = hwver
    BY <1>3 DEF channel1_alone, hwver
  <2> QED BY <1>1, <1>2, <1>3, <2>1 DEF TablesAgree
<1>10. NothingLeft' /\ ReleasedOnce'
  BY <1>2 DEF NothingLeft, ReleasedOnce
<1> QED BY <1>6, <1>7, <1>8, <1>9, <1>10 DEF IInv

-----------------------------------------------------------------------------
LEMMA StutterKeeps ==
  ASSUME IInv, UNCHANGED vars
  PROVE  IInv'
<1>1. /\ UNCHANGED <<pc, config, driver_mode, max_count, ptr, held, wrong, error>>
      /\ UNCHANGED <<rpi_hw, dma_active, dma_error, dma_own, orphans, runs>>
  BY DEF vars, config, dma_cs
<1>2. Types /\ Machine
  BY DEF IInv
<1>3. Types'
  BY <1>1, <1>2 DEF Types
<1>4. Machine'
  BY <1>1, <1>2 DEF Machine, DmaOwned, Counted, DmaReadsLiveMemory
<1>5. Process' /\ TablesAgree' /\ NothingLeft' /\ ReleasedOnce'
  BY <1>1, ProcessStays
<1> QED BY <1>3, <1>4, <1>5 DEF IInv

LEMMA Invariant == Spec => []IInv
<1>1. IInv /\ [Next]_vars => IInv'
  <2> SUFFICES ASSUME IInv, [Next]_vars PROVE IInv'
    OBVIOUS
  <2>1. CASE UNCHANGED vars
    BY <2>1, StutterKeeps
  <2>2. CASE Start
    BY <2>2, StartKeeps
  <2>3. CASE Detect
    BY <2>3, DetectKeeps
  <2>4. CASE Check
    BY <2>4, CheckKeeps
  <2>5. CASE GpioInit
    BY <2>5, GpioInitKeeps
  <2>6. CASE Setup
    BY <2>6, SetupKeeps
  <2>7. ASSUME NEW r \in Acquirable, Acquire(r) PROVE IInv'
    BY <2>7, AcquireKeeps
  <2>8. ASSUME NEW r \in Acquirable, AcquireFails(r) PROVE IInv'
    BY <2>8, AcquireFailsKeeps
  <2>9. CASE Render
    BY <2>9, RenderKeeps
  <2>10. CASE DmaEnds
    BY <2>10, DmaEndsKeeps
  <2>11. CASE DmaFails
    BY <2>11, DmaFailsKeeps
  <2>12. CASE Fini
    BY <2>12, FiniKeeps
  <2>13. CASE Exit
    BY <2>13, ExitKeeps
  <2> QED
    BY <2>1, <2>2, <2>3, <2>4, <2>5, <2>6, <2>7, <2>8, <2>9, <2>10, <2>11, <2>12,
       <2>13 DEF Next
<1> QED BY <1>1, InitHolds, PTL DEF Spec

(* The buffers are sized by a count that somebody set, though main leaves  *)
(* channel[1] as malloc left it; and a driver that is ready holds all it   *)
(* needs for its mode and nothing else.                                    *)
THEOREM TypesHold == Spec => []TypeOK
<1>1. IInv => TypeOK
  BY TypesHoldHere DEF IInv, Process
<1> QED BY <1>1, Invariant, PTL

(* The boards and pins of ws2811.c and the pin tables of pwm.h, pcm.h and  *)
(* rpihw.c agree: gpio_init refuses nothing check_hwver_and_gpionum let    *)
(* through but for a channel[0] that is not in use.                        *)
THEOREM TablesFit == Spec => []TablesAgree
<1>1. IInv => TablesAgree
  BY DEF IInv
<1> QED BY <1>1, Invariant, PTL

(* A failed ws2811_init leaves VideoCore memory behind only if mem_lock    *)
(* failed, and ws2811_fini tears down all that PWM and PCM had set up.     *)
THEOREM NothingIsLeft == Spec => []NothingLeft
<1>1. IInv => NothingLeft
  BY DEF IInv
<1> QED BY <1>1, Invariant, PTL

(* But for the failures of mem_lock and of mapmem, nothing that the driver *)
(* acquires is released twice or through a field that was not set; except  *)
(* that PWM and PCM never set spi_fd, nor the registers of one another,    *)
(* and release them through what malloc left there.                        *)
THEOREM EachReleasedOnce == Spec => []ReleasedOnce
<1>1. IInv => ReleasedOnce
  BY DEF IInv
<1> QED BY <1>1, Invariant, PTL

(* As long as the DMA reports no error, it never reads memory of the       *)
(* process that was unlocked or freed.                                     *)
THEOREM DmaMemoryIsLive == Spec => []DmaReadsLiveMemory
<1>1. IInv => DmaReadsLiveMemory
  BY DEF IInv, Machine
<1> QED BY <1>1, Invariant, PTL
=============================================================================
