---------------------------- MODULE Ws2811Render ----------------------------
(***************************************************************************)
(* The frames that main sends down the LED strip: ws2811_render encodes    *)
(* the LEDs into the DMA buffer, waits for the previous transfer, waits    *)
(* for the LEDs to reset and starts the DMA, which then reads the buffer   *)
(* while main sleeps and goes on (src/rpi_ws281x/ws2811.c, src/main.c).    *)
(*                                                                         *)
(* Time is discrete: Tick lets one unit pass, for the DMA as for sleepers. *)
(* Nothing is urgent: any step may come late, by any number of ticks.      *)
(* One channel is modelled, driven by PCM or PWM; SPI, whose transfer is   *)
(* synchronous, is not.                                                    *)
(***************************************************************************)
EXTENDS Naturals

CONSTANTS
  LED_COUNT,
  LED_TIME,             (* the time one LED's bits take on the line            *)
  Pads,                 (* the time the zeros behind the last LED may take: a  *)
                        (* buffer for 4 colours leaves many behind 3           *)
  LED_RESET_WAIT_TIME,  (* how long the line must be low for the LEDs to latch *)
  PERIOD                (* what main sleeps after each frame                   *)

ASSUME RenderAssumption ==
  /\ {LED_COUNT, LED_TIME} \subseteq Nat \ {0}
  /\ Pads \subseteq Nat \ {0}
  /\ {LED_RESET_WAIT_TIME, PERIOD} \subseteq Nat

LEDs == 0 .. LED_COUNT - 1
DATA == LED_COUNT * LED_TIME     \* protocol_time

VARIABLES
  pad,         \* of Pads, by the strip type
  pc,          \* "sleep" in main; "encode", "wait", "settle" in ws2811_render; "failed"
  timer,       \* the sleep of that thread lasts at least this much longer
  led,         \* the next LED to encode
  raw,         \* raw[i]: LED i in the DMA buffer, "sent" or encoded since ("new")
  sent,        \* how much of the stream the DMA has sent
  dma_active, dma_error,
  low,         \* how long the line has been low, up to LED_RESET_WAIT_TIME
  since_call,  \* since previous_timestamp was taken, up to LED_RESET_WAIT_TIME + 1
  render_wait_time

dma  == <<sent, dma_active, dma_error, low>>
vars == <<pad, pc, timer, led, raw, dma, since_call, render_wait_time>>

STREAM    == DATA + pad
streaming == dma_active /\ ~dma_error

up_to(n, limit) == IF n <= limit THEN n ELSE limit

-----------------------------------------------------------------------------
(* One unit of time.  The line is low once the last LED's bits are out.    *)
Tick ==
  /\ timer' = IF timer = 0 THEN 0 ELSE timer - 1
  /\ sent' = IF streaming THEN sent + 1 ELSE sent
  /\ dma_active' = (dma_active /\ (streaming => sent + 1 < STREAM))
  /\ low' = IF streaming /\ sent + 1 <= DATA THEN 0 ELSE up_to(low + 1, LED_RESET_WAIT_TIME)
  /\ since_call' = up_to(since_call + 1, LED_RESET_WAIT_TIME + 1)
  /\ UNCHANGED <<pad, pc, led, raw, dma_error, render_wait_time>>

(* The DMA engine reports an error, and may never be done; what the line   *)
(* then does is not looked at.                                             *)
DmaFails ==
  /\ streaming
  /\ dma_active' \in BOOLEAN /\ dma_error' = TRUE
  /\ UNCHANGED <<pad, pc, timer, led, raw, sent, low, since_call, render_wait_time>>

(* main wakes up and calls ws2811_render, which forgets when it last       *)
(* started the DMA.  Variant: there is nothing to wait for.                *)
initial_wait_none == 0
initial_wait      == LED_RESET_WAIT_TIME

Call ==
  /\ pc = "sleep" /\ timer = 0
  /\ since_call' = 0
  /\ render_wait_time' = initial_wait
  /\ led' = 0
  /\ pc' = "encode"
  /\ UNCHANGED <<pad, timer, raw, dma>>

(* The bits of one LED go into the buffer; nobody asks what the DMA does.  *)
(* Variant: one LED too many.                                              *)
encoded_past(n) == n > LED_COUNT
encoded(n)      == n = LED_COUNT

Encode ==
  /\ pc = "encode"
  /\ raw' = [raw EXCEPT ![led] = "new"]
  /\ led' = led + 1
  /\ pc' = IF encoded(led + 1) THEN "wait" ELSE "encode"
  /\ UNCHANGED <<pad, timer, dma, since_call, render_wait_time>>

(* ws2811_wait returns.  Variants: it does not wait; it ignores errors.    *)
finished_not           == TRUE
finished_despite_error == ~dma_active
finished               == ~dma_active \/ dma_error

(* What is left of render_wait_time since the call.                        *)
nap == IF render_wait_time > since_call THEN render_wait_time - since_call ELSE 0

Wait ==
  /\ pc = "wait" /\ finished
  /\ \/ dma_error /\ pc' = "failed" /\ UNCHANGED timer     \* main exits
     \/ ~dma_error /\ pc' = "settle" /\ timer' = nap
  /\ UNCHANGED <<pad, led, raw, dma, since_call, render_wait_time>>

(* The usleep of ws2811_render ends; dma_start, and back in main usleep.   *)
(* Variant: main does not sleep.                                           *)
main_sleep_none == 0
main_sleep      == PERIOD

Start ==
  /\ pc = "settle" /\ timer = 0
  /\ raw' = [i \in LEDs |-> "sent"]
  /\ sent' = 0 /\ dma_active' = TRUE /\ low' = 0
  /\ since_call' = 0
  /\ render_wait_time' = DATA + LED_RESET_WAIT_TIME
  /\ timer' = main_sleep
  /\ pc' = "sleep"
  /\ UNCHANGED <<pad, led, dma_error>>

(* ws2811_init has returned: the line is low and the DMA stopped.          *)
Init ==
  /\ pad \in Pads
  /\ pc = "sleep" /\ timer = 0
  /\ led = 0 /\ raw = [i \in LEDs |-> "sent"]
  /\ sent = STREAM /\ dma_active = FALSE /\ dma_error = FALSE
  /\ low = LED_RESET_WAIT_TIME
  /\ since_call = 0
  /\ render_wait_time = 0

Render == Call \/ Encode \/ Wait \/ Start
Next   == Render \/ Tick \/ DmaFails
Spec   == Init /\ [][Next]_vars

(* Time passes, and a thread that can go on does.                          *)
Fairness == WF_vars(Tick) /\ WF_vars(Render)
FairSpec == Spec /\ Fairness

-----------------------------------------------------------------------------
(* Properties.                                                             *)

TypeOK ==
  /\ pad \in Pads
  /\ pc \in {"sleep", "encode", "wait", "settle", "failed"}
  /\ timer \in Nat /\ led \in 0 .. LED_COUNT
  /\ raw \in [LEDs -> {"sent", "new"}]
  /\ sent \in 0 .. STREAM /\ low \in 0 .. LED_RESET_WAIT_TIME
  /\ {dma_active, dma_error} \subseteq BOOLEAN
  /\ since_call \in Nat /\ render_wait_time \in Nat

(* No frame is torn: what the DMA has still to read of an LED is what was  *)
(* there when the transfer started.  ws2811_render encodes before it waits *)
(* for the DMA, so this rests on main's sleep alone.                       *)
unread(i) == streaming /\ sent < (i + 1) * LED_TIME
NoTear    == \A i \in LEDs : unread(i) => raw[i] = "sent"

(* A transfer never starts over another, nor before the LEDs have latched  *)
(* the last frame.                                                         *)
GapKept ==
  [][pc = "settle" /\ pc' = "sleep" => ~dma_active /\ low >= LED_RESET_WAIT_TIME]_vars

(* Every call of ws2811_render starts a transfer, or has found that the    *)
(* last one failed.                                                        *)
FramesGoOut == pc = "encode" ~> pc \in {"sleep", "failed"}
=============================================================================
