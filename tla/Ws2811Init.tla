----------------------------- MODULE Ws2811Init -----------------------------
(***************************************************************************)
(* What the LED driver (src/rpi_ws281x/ws2811.c) takes and gives back:     *)
(* ws2811_init acquires a dozen things in a row, each of which may fail,   *)
(* and ws2811_cleanup, unmap_registers and ws2811_fini release them        *)
(* through the pointers of two structs that malloc left uninitialised.     *)
(*                                                                         *)
(* pc is the thing ws2811_init is about to acquire.  held is what the      *)
(* process really holds; ptr is what the driver's own fields say.  The DMA *)
(* engine runs beside the process and outlives it, and so does VideoCore   *)
(* memory that nobody freed.                                               *)
(***************************************************************************)
EXTENDS Rpihw, FiniteSets

CONSTANTS
  Pins0, Pins1,  (* bound: channel[0].gpionum and channel[1].gpionum        *)
  Counts,        (* bound: channel[].count                                  *)
  Junk,          (* the contents of an uninitialised int                    *)
  MaxRuns        (* bound: starts of the program                            *)

ASSUME InitAssumption ==
  /\ Counts \subseteq Nat
  /\ MaxRuns \in Nat

Registers == {"dma", "pwm", "pcm", "gpio", "cm_clk"}
Memory    == {"mbox", "mem", "lock", "virt_addr"}
LedArrays == {"leds0", "leds1"}
Resources == Registers \cup Memory \cup LedArrays \cup {"device", "spi_fd", "pxl_raw"}

VARIABLES
  pc,
  rpi_hw,                  \* the board detected
  gpionum, count,          \* the two channels, as configured
  driver_mode, max_count,
  ptr,                     \* a field of the driver: "set", "null" or "junk"
  held,                    \* the Resources the process holds
  wrong,                   \* what was released without being held
  error,                   \* what ws2811_init returned
  dma_active, dma_error,   \* two flags of dma->cs
  dma_own,                 \* the DMA reads this process's memory
  orphans,                 \* VideoCore blocks whose process has ended
  runs

config == <<rpi_hw, gpionum, count>>
dma_cs == <<dma_active, dma_error, dma_own>>
vars   == <<pc, config, driver_mode, max_count, ptr, held, wrong, error, dma_cs, orphans, runs>>

-----------------------------------------------------------------------------
(* check_hwver_and_gpionum: the pins each board allows on channel 0, and   *)
(* the special case of channel 1 alone.  Variant, a bug the checks must    *)
(* notice: the last board of two lists is on neither.                      *)
hwver == rpi_hw % \h10000

boards_B2_short == 14 .. 14
boards_B2       == 14 .. 15

gpionums ==
  UNION {IF hwver < 4           THEN {10, 18, 21}     ELSE {},
         IF hwver \in boards_B2 THEN {10, 18, 31}     ELSE {},
         IF hwver >= 16         THEN {10, 12, 18, 21} ELSE {}}

channel1_alone == hwver >= 16 /\ count[0] = 0 /\ count[1] # 0

illegal_gpio ==
  IF channel1_alone THEN gpionum[1] \notin {13, 19} ELSE gpionum[0] \notin gpionums

mode_of(pin) == IF pin \in {12, 18} THEN "PWM" ELSE IF pin \in {21, 31} THEN "PCM" ELSE "SPI"

(* set_driver_mode zeroes the second channel unless PWM can drive it.      *)
zeroes_channel1 == ~channel1_alone /\ ~(mode_of(gpionum[0]) = "PWM" /\ gpionum[1] \in {0, 13, 19})

(* max_channel_led_count; an uninitialised count makes it anything.        *)
max_channel_led_count(c) ==
  IF Junk \in {c[0], c[1]} THEN Junk ELSE IF c[0] > c[1] THEN c[0] ELSE c[1]

(* The pins with an alternate function, and gpio_init's test of them.      *)
pwm_pin_alt(chan, pin) == pin \in IF chan = 0 THEN {12, 18, 40, 52} ELSE {13, 19, 41, 45, 53}
pcm_pin_alt(pin)       == pin \in {21, 31}       \* PCMFUN_DOUT

no_alt(chan) ==
  /\ gpionum[chan] # 0
  /\ ~ IF driver_mode = "PCM" THEN pcm_pin_alt(gpionum[chan])
                              ELSE pwm_pin_alt(chan, gpionum[chan])

(* What is acquired after r.  Variant, a bug the checks must notice: the   *)
(* clock registers are forgotten.                                          *)
following_no_clock(r) ==
  IF driver_mode = "SPI"
  THEN [spi_fd |-> "ioctl", ioctl |-> "leds0", leds0 |-> "pxl_raw", pxl_raw |-> "ready"][r]
  ELSE [mbox |-> "mem", mem |-> "lock", lock |-> "virt_addr", virt_addr |-> "leds0",
        leds0 |-> "leds1", leds1 |-> "dma", dma |-> IF driver_mode = "PWM" THEN "pwm" ELSE "pcm",
        pwm |-> "gpio", pcm |-> "gpio", gpio |-> "gpio_init"][r]
following(r) ==
  IF driver_mode = "SPI"
  THEN [spi_fd |-> "ioctl", ioctl |-> "leds0", leds0 |-> "pxl_raw", pxl_raw |-> "ready"][r]
  ELSE [mbox |-> "mem", mem |-> "lock", lock |-> "virt_addr", virt_addr |-> "leds0",
        leds0 |-> "leds1", leds1 |-> "dma", dma |-> IF driver_mode = "PWM" THEN "pwm" ELSE "pcm",
        pwm |-> "gpio", pcm |-> "gpio", gpio |-> "cm_clk", cm_clk |-> "gpio_init"][r]

-----------------------------------------------------------------------------
(* main starts: it sets channel[0] up, with pin 21, and leaves channel[1]  *)
(* as malloc left it.  Other users of the driver set both channels up.     *)
Start ==
  /\ pc = "off" /\ runs < MaxRuns
  /\ \E p \in Pins0, q \in Pins1 \cup {Junk}, c \in Counts, d \in Counts \cup {Junk} :
       /\ (q = Junk) = (d = Junk) /\ (q = Junk => p = 21 /\ c # 0)
       /\ gpionum' = [chan \in 0 .. 1 |-> IF chan = 0 THEN p ELSE q]
       /\ count' = [chan \in 0 .. 1 |-> IF chan = 0 THEN c ELSE d]
  /\ rpi_hw' = NoBoard /\ driver_mode' = "none" /\ max_count' = 0
  /\ ptr' = [r \in Resources |-> "junk"]
  /\ held' = {} /\ wrong' = {} /\ error' = "NONE"
  /\ runs' = runs + 1
  /\ pc' = "detect"
  /\ UNCHANGED <<dma_cs, orphans>>

Return(e) == pc' = "failed" /\ error' = e

(* rpi_hw_detect, on a /proc/cpuinfo that may not open, and the malloc of  *)
(* the device.                                                             *)
Detect ==
  /\ pc = "detect"
  /\ rpi_hw' \in {rpi_hw_detect(f) : f \in CpuInfos}
  /\ \/ rpi_hw' # NoBoard /\ held' = {"device"} /\ pc' = "check" /\ UNCHANGED error
     \/ rpi_hw' = NoBoard /\ Return("HW_NOT_SUPPORTED") /\ UNCHANGED held
     \/ rpi_hw' # NoBoard /\ Return("OUT_OF_MEMORY") /\ UNCHANGED held
  /\ UNCHANGED <<gpionum, count, driver_mode, max_count, ptr, wrong, dma_cs, orphans, runs>>

(* The count of the longest channel, once the driver mode, and with it     *)
(* channel[1], is settled.  Variant: before.                               *)
longest_early(c) == max_channel_led_count(count)
longest(c)       == max_channel_led_count(c)

Check ==
  /\ pc = "check"
  /\ \/ /\ illegal_gpio
        /\ Return("ILLEGAL_GPIO")
        /\ UNCHANGED <<gpionum, count, driver_mode, max_count, ptr>>
     \/ /\ ~illegal_gpio
        /\ driver_mode' = IF channel1_alone THEN "PWM" ELSE mode_of(gpionum[0])
        /\ IF zeroes_channel1
           THEN /\ gpionum' = [gpionum EXCEPT ![1] = 0]
                /\ count' = [count EXCEPT ![1] = 0]
                /\ ptr' = [ptr EXCEPT !["leds1"] = "null"]
           ELSE UNCHANGED <<gpionum, count, ptr>>
        /\ max_count' = longest(count')
        /\ pc' = IF driver_mode' = "SPI" THEN "spi_fd" ELSE "mbox"
        /\ UNCHANGED error
  /\ UNCHANGED <<rpi_hw, held, wrong, dma_cs, orphans, runs>>

-----------------------------------------------------------------------------
(* Releasing: every pointer of S that is not NULL, a junk one if the       *)
(* memory happened to hold something else.                                 *)
Seen(p, S, junk) == {r \in S : p[r] = "set" \/ r \in junk}
JunkOf(p, S)     == SUBSET {r \in S : p[r] = "junk"}

GiveBack(from, S) == held' = from \ S /\ wrong' = wrong \cup (S \ from)

(* ws2811_cleanup.  Its test of mbox.handle stands for all four of Memory. *)
(* Variant: the memory is left locked.                                     *)
cleanup_without_unlock(p, junk) ==
  Seen(p, LedArrays \cup {"spi_fd"}, junk) \cup {"device"}
    \cup IF p["mbox"] = "set" THEN Memory \ {"lock"} ELSE {}
cleanup(p, junk) ==
  Seen(p, LedArrays \cup {"spi_fd"}, junk) \cup {"device"}
    \cup IF p["mbox"] = "set" THEN Memory ELSE {}

(* Variant: the clock registers are forgotten.                             *)
unmap_registers_but_clock(p, junk) == Seen(p, Registers \ {"cm_clk"}, junk)
unmap_registers(p, junk)           == Seen(p, Registers, junk)

(* What the code does when r cannot be acquired.  It returns at once until *)
(* VideoCore memory is mapped; mem_free is handed mbox.size for a handle,  *)
(* so that it frees nothing of the driver's.                               *)
undone(r) == CASE r = "lock"      -> [released |-> {}, misdirected |-> {"mem"}]
               [] r = "virt_addr" -> [released |-> {"lock"}, misdirected |-> {"mem"}]
               [] OTHER           -> [released |-> {}, misdirected |-> {}]

(* Variant: so it does when the mapping fails.                             *)
returns_unmapped(r) == r \in {"mbox", "mem", "lock", "virt_addr", "spi_fd", "ioctl"}
returns_at_once(r)  == r \in {"mbox", "mem", "lock", "spi_fd", "ioctl"}

error_of(r) == CASE r = "mbox" -> "MAILBOX_DEVICE"
                 [] r \in {"mem", "leds0", "leds1", "pxl_raw"} -> "OUT_OF_MEMORY"
                 [] r = "lock" -> "MEM_LOCK"
                 [] r = "virt_addr" -> "MMAP"
                 [] r \in Registers -> "MAP_REGISTERS"
                 [] r \in {"spi_fd", "ioctl"} -> "SPI_SETUP"

Acquirable == (Resources \ {"device"}) \cup {"ioctl"}

(* The pointers that are reset once r is there.  Variant: none is.         *)
nulled_none(r) == {}
nulled(r) == CASE r = "virt_addr" -> LedArrays \cup {"pxl_raw"}
               [] r = "ioctl"     -> Registers \cup {"pxl_raw", "mbox"}
               [] OTHER           -> {}

Acquire(r) ==
  /\ pc = r
  /\ held' = held \cup ({r} \cap Resources)
  /\ ptr' = [p \in Resources |-> IF p = r THEN "set"
                                 ELSE IF p \in nulled(r) THEN "null" ELSE ptr[p]]
  /\ pc' = following(r)
  /\ UNCHANGED <<config, driver_mode, max_count, wrong, error, dma_cs, orphans, runs>>

AcquireFails(r) ==
  /\ pc = r
  /\ ptr' = [p \in Resources |-> IF p = r THEN "null" ELSE ptr[p]]
  /\ IF returns_at_once(r)
     THEN /\ held' = held
          /\ wrong' = wrong \cup undone(r).misdirected
     ELSE \E junk \in JunkOf(ptr', LedArrays \cup {"spi_fd"}) :
            LET from == held \ undone(r).released
            IN  /\ held' = from \ cleanup(ptr', junk)
                /\ wrong' = wrong \cup undone(r).misdirected \cup (cleanup(ptr', junk) \ from)
  /\ Return(error_of(r))
  /\ UNCHANGED <<config, driver_mode, max_count, dma_cs, orphans, runs>>

(* gpio_init, then setup_pwm or setup_pcm, which cannot fail and stop the  *)
(* DMA channel.                                                            *)
GpioInit ==
  /\ pc = "gpio_init"
  /\ \/ /\ no_alt(0) \/ no_alt(1)
        /\ \E junk \in JunkOf(ptr, Registers \cup LedArrays \cup {"spi_fd"}) :
             GiveBack(held, unmap_registers(ptr, junk) \cup cleanup(ptr, junk))
        /\ Return("GPIO_INIT")
     \/ /\ ~(no_alt(0) \/ no_alt(1))
        /\ pc' = "setup"
        /\ UNCHANGED <<held, wrong, error>>
  /\ UNCHANGED <<config, driver_mode, max_count, ptr, dma_cs, orphans, runs>>

Setup ==
  /\ pc = "setup"
  /\ dma_active' = FALSE
  /\ pc' = "ready"
  /\ UNCHANGED <<config, driver_mode, max_count, ptr, held, wrong, error, dma_error, dma_own,
                 orphans, runs>>

-----------------------------------------------------------------------------
(* ws2811_wait has returned.  Variant: it does not wait.                   *)
waited_not == TRUE
waited     == driver_mode = "SPI" \/ ~dma_active \/ dma_error

(* ws2811_render, as far as the DMA goes: it fails on a DMA error.         *)
Render ==
  /\ pc = "ready" /\ driver_mode # "SPI"
  /\ waited /\ ~dma_error
  /\ dma_active' = TRUE /\ dma_own' = TRUE
  /\ UNCHANGED <<pc, config, driver_mode, max_count, ptr, held, wrong, error, dma_error,
                 orphans, runs>>

(* The DMA engine is done with the buffer, ...                             *)
DmaEnds ==
  /\ dma_active
  /\ dma_active' = FALSE
  /\ UNCHANGED <<pc, config, driver_mode, max_count, ptr, held, wrong, error, dma_error, dma_own,
                 orphans, runs>>

(* ... or reports an error, of which ws2811_wait does not expect that the  *)
(* channel is no longer active.                                            *)
DmaFails ==
  /\ dma_active
  /\ dma_active' \in BOOLEAN /\ dma_error' = TRUE
  /\ UNCHANGED <<pc, config, driver_mode, max_count, ptr, held, wrong, error, dma_own,
                 orphans, runs>>

(* ws2811_fini.                                                            *)
Fini ==
  /\ pc = "ready"
  /\ waited
  /\ \E junk \in JunkOf(ptr, Registers \cup LedArrays \cup {"spi_fd"}) :
       GiveBack(held, unmap_registers(ptr, junk) \cup cleanup(ptr, junk))
  /\ pc' = "finished"
  /\ UNCHANGED <<config, driver_mode, max_count, ptr, error, dma_cs, orphans, runs>>

(* The process ends, by main's exit or by a signal: the kernel takes back  *)
(* all but the memory the VideoCore lent it, and stops no DMA.             *)
Exit ==
  /\ pc # "off"
  /\ orphans' = orphans + IF "mem" \in held THEN 1 ELSE 0
  /\ dma_own' = FALSE
  /\ held' = {} /\ wrong' = {}
  /\ pc' = "off"
  /\ UNCHANGED <<config, driver_mode, max_count, ptr, error, dma_active, dma_error, runs>>

Init ==
  /\ pc = "off"
  /\ rpi_hw = NoBoard
  /\ gpionum = [chan \in 0 .. 1 |-> Junk] /\ count = [chan \in 0 .. 1 |-> Junk]
  /\ driver_mode = "none" /\ max_count = 0
  /\ ptr = [r \in Resources |-> "junk"]
  /\ held = {} /\ wrong = {} /\ error = "NONE"
  /\ dma_active = FALSE /\ dma_error \in BOOLEAN /\ dma_own = FALSE
  /\ orphans = 0 /\ runs = 0

Next == \/ Start \/ Detect \/ Check \/ GpioInit \/ Setup
        \/ \E r \in Acquirable : Acquire(r) \/ AcquireFails(r)
        \/ Render \/ DmaEnds \/ DmaFails \/ Fini \/ Exit

Spec == Init /\ [][Next]_vars

-----------------------------------------------------------------------------
(* Properties.                                                             *)

Needs(mode) ==
  IF mode = "SPI" THEN {"device", "spi_fd", "leds0", "pxl_raw"}
  ELSE {"device", "dma", "gpio", "cm_clk", IF mode = "PWM" THEN "pwm" ELSE "pcm"}
         \cup Memory \cup LedArrays

(* Types; the buffers are sized by a count that somebody set (main leaves  *)
(* channel[1] uninitialised and relies on set_driver_mode to zero it before*)
(* max_channel_led_count reads it); and a driver that is ready holds all   *)
(* it needs for its mode and nothing else.                                 *)
TypeOK ==
  /\ pc \in Acquirable \cup {"off", "detect", "check", "gpio_init", "setup",
                             "ready", "failed", "finished"}
  /\ rpi_hw \in boards \cup {NoBoard}
  /\ driver_mode \in {"none", "PWM", "PCM", "SPI"}
  /\ max_count \in Nat
  /\ ptr \in [Resources -> {"set", "null", "junk"}]
  /\ held \subseteq Resources /\ wrong \subseteq Resources
  /\ {dma_active, dma_error, dma_own} \subseteq BOOLEAN
  /\ orphans \in 0 .. runs /\ runs \in 0 .. MaxRuns
  /\ pc = "ready" => held = Needs(driver_mode)

(* What the table of boards, the lists of pins and the tables of alternate *)
(* functions say, in four files, fits together: pin 18, which all lists    *)
(* have, is refused on no known board but those of hwver 4 .. 0xd (see     *)
(* ws2811.c:694), and a pin that was accepted is refused later only when   *)
(* channel 0 is not in use.                                                *)
TablesAgree ==
  /\ error = "ILLEGAL_GPIO" /\ gpionum[0] = 18 => hwver \in 4 .. 13 \/ channel1_alone
  /\ error = "GPIO_INIT" => channel1_alone

(* A failed ws2811_init leaves VideoCore memory allocated, which not even  *)
(* the end of the process frees, only when mem_lock failed (ws2811.c:923); *)
(* once it has freed the device, the only record of what it held, nothing  *)
(* but mappings of registers is left; and ws2811_fini tears down all that  *)
(* PWM and PCM had set up.                                                 *)
NothingLeft ==
  /\ pc = "failed" /\ "mem" \in held => error = "MEM_LOCK"
  /\ pc = "failed" /\ "device" \notin held => held \subseteq Registers
  /\ pc = "finished" /\ driver_mode # "SPI" => held = {}

(* The fields that PWM and PCM leave as malloc left them: spi_fd, and the  *)
(* registers of the other mode.                                            *)
never_set ==
  IF driver_mode = "SPI" THEN {} ELSE {"spi_fd", IF driver_mode = "PWM" THEN "pcm" ELSE "pwm"}

(* But for two failures (ws2811.c:923 and 930-933), everything else that   *)
(* the driver acquires is released at most once, and never through a field *)
(* that was not set.                                                       *)
ReleasedOnce == wrong \ never_set # {} => error \in {"MEM_LOCK", "MMAP"}

(* ws2811.c:937 says "Initialize all pointers to NULL.  Any non-NULL       *)
(* pointers will be freed on cleanup": so none is that was never mapped.   *)
(* In PWM and PCM one is that of the other mode: this is false.            *)
RegistersWereMapped == wrong \cap Registers = {}

(* A DMA engine that reports no error never reads memory of the process    *)
(* after it was unlocked or freed; that of a process that has ended stays  *)
(* allocated.                                                              *)
DmaReadsLiveMemory ==
  dma_active /\ ~dma_error => IF dma_own THEN {"mem", "lock"} \subseteq held ELSE orphans > 0

(* ws2811_fini is to shut down the DMA before it cleans up the memory      *)
(* (ws2811.c:1031), after a wait for any executing DMA operation to        *)
(* complete (ws2811.c:1059); with an error it does not: this is false.     *)
FiniShutsDown == pc = "finished" => ~(dma_active /\ dma_own)
=============================================================================
