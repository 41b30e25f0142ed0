------------------------- MODULE Ws2811RenderProofs -------------------------
(***************************************************************************)
(* That main's sleep is what keeps ws2811_render right: with any strip and *)
(* any padding, frames are whole and the LEDs latch between them if main   *)
(* sleeps, after each frame, at least as long as its data take on the line *)
(* (62500 microseconds against 88 * 30 = 2640).                            *)
(*                                                                         *)
(* NoTear is not inductive: nothing in it says why the DMA is past the     *)
(* last LED when main wakes up.  The inductive invariant counts what the   *)
(* sleep still lasts and what the DMA has sent together.                   *)
(***************************************************************************)
EXTENDS Ws2811Render, TLAPS

Types ==
  /\ pad \in Nat /\ timer \in Nat /\ led \in Nat /\ sent \in Nat /\ low \in Nat
  /\ since_call \in Nat /\ render_wait_time \in Nat
  /\ raw \in [LEDs -> {"sent", "new"}]
  /\ dma_active \in BOOLEAN /\ dma_error \in BOOLEAN
  /\ pc \in {"sleep", "encode", "wait", "settle", "failed"}

rendering == pc \in {"encode", "wait", "settle"}

(* The buffer is as the DMA found it until main wakes up, and main does    *)
(* not wake up before the data are out.                                    *)
Asleep == pc = "sleep" => /\ \A i \in LEDs : raw[i] = "sent"
                          /\ streaming => sent + timer >= PERIOD

(* From then on the line is low, at least since the call.                  *)
Rendering == rendering => /\ streaming => sent >= DATA
                          /\ since_call <= low \/ LED_RESET_WAIT_TIME <= low
                          /\ render_wait_time = LED_RESET_WAIT_TIME

Settling == pc = "settle" => /\ ~dma_active
                             /\ timer + since_call >= LED_RESET_WAIT_TIME

(* main exits on a DMA error.                                              *)
Failed == pc = "failed" => ~streaming

IInv == Types /\ Asleep /\ Rendering /\ Settling /\ Failed

-----------------------------------------------------------------------------
(* Whatever main does, the DMA stops at the end of its buffer, and encoding *)
(* ends with the last LED.                                                 *)
TInv == /\ TypeOK
        /\ streaming => sent < STREAM
        /\ pc = "encode" => led < LED_COUNT

LEMMA DataIsNat == DATA \in Nat
  BY RenderAssumption DEF DATA

LEMMA StreamIsPositive ==
  ASSUME pad \in Pads
  PROVE  STREAM \in Nat \ {0}
<1>1. pad \in Nat \ {0}
  BY RenderAssumption
<1> QED BY <1>1, DataIsNat DEF STREAM

LEMMA InitTInv == Init => TInv
<1> SUFFICES ASSUME Init PROVE TInv
  OBVIOUS
<1>1. pad \in Pads /\ sent = STREAM /\ STREAM \in Nat
  BY StreamIsPositive DEF Init
<1>2. raw \in [LEDs -> {"sent", "new"}]
  BY DEF Init
<1>3. LED_COUNT \in Nat /\ LED_RESET_WAIT_TIME \in Nat
  BY RenderAssumption
<1>4. {dma_active, dma_error} \subseteq BOOLEAN /\ ~streaming
  BY DEF Init, streaming
<1>5. sent \in 0 .. STREAM /\ led \in 0 .. LED_COUNT /\ low \in 0 .. LED_RESET_WAIT_TIME
  BY <1>1, <1>3 DEF Init
<1> QED BY <1>1, <1>2, <1>3, <1>4, <1>5 DEF Init, TInv, TypeOK

LEMMA TickTInv ==
  ASSUME TInv, Tick
  PROVE  TInv'
<1>1. STREAM \in Nat \ {0} /\ STREAM' = STREAM
  BY StreamIsPositive DEF TInv, TypeOK, Tick, STREAM
<1>2. sent' \in 0 .. STREAM' /\ (streaming' => sent' < STREAM')
  BY <1>1 DEF TInv, TypeOK, Tick, streaming
<1>3. low' \in 0 .. LED_RESET_WAIT_TIME /\ since_call' \in Nat
  BY RenderAssumption DEF TInv, TypeOK, Tick, up_to
<1>4. timer' \in Nat /\ dma_active' \in BOOLEAN
  BY DEF TInv, TypeOK, Tick, streaming
<1> QED BY <1>2, <1>3, <1>4 DEF TInv, TypeOK, Tick

LEMMA EncodeTInv ==
  ASSUME TInv, Encode
  PROVE  TInv'
<1>1. raw' \in [LEDs -> {"sent", "new"}]
  BY DEF TInv, TypeOK, Encode
<1>2. led' \in 0 .. LED_COUNT /\ (pc' = "encode" => led' < LED_COUNT)
  BY RenderAssumption DEF TInv, TypeOK, Encode, encoded
<1>3. pc' \in {"encode", "wait"} /\ STREAM' = STREAM /\ streaming' = streaming
  BY DEF Encode, dma, STREAM, streaming
<1> QED BY <1>1, <1>2, <1>3 DEF TInv, TypeOK, Encode, dma

LEMMA RestTInv ==
  ASSUME TInv, Call \/ Wait \/ Start \/ DmaFails
  PROVE  TInv'
<1>1. STREAM \in Nat \ {0} /\ STREAM' = STREAM
  BY StreamIsPositive DEF TInv, TypeOK, Call, Wait, Start, DmaFails, STREAM
<1>2. CASE Call
  BY <1>1, <1>2, RenderAssumption DEF TInv, TypeOK, Call, dma, streaming, initial_wait
<1>3. CASE Wait
  <2>1. timer' \in Nat
    BY <1>3 DEF TInv, TypeOK, Wait, nap
  <2> QED BY <1>1, <1>3, <2>1 DEF TInv, TypeOK, Wait, dma, streaming
<1>4. CASE Start
  BY <1>1, <1>4, DataIsNat, RenderAssumption DEF TInv, TypeOK, Start, streaming, main_sleep
<1>5. CASE DmaFails
  BY <1>1, <1>5 DEF TInv, TypeOK, DmaFails, streaming
<1> QED BY <1>2, <1>3, <1>4, <1>5

(* Whatever main sleeps, every variable has its type: in particular the    *)
(* DMA never reads on behind its buffer and no LED is encoded that the     *)
(* strip does not have.                                                    *)
THEOREM TypeCorrect == Spec => []TypeOK
<1>1. Init => TInv
  BY InitTInv
<1>2. TInv /\ [Next]_vars => TInv'
  <2> SUFFICES ASSUME TInv, [Next]_vars PROVE TInv'
    OBVIOUS
  <2>1. CASE Next
    BY <2>1, TickTInv, EncodeTInv, RestTInv DEF Next, Render
  <2>2. CASE UNCHANGED vars
    BY <2>2 DEF vars, dma, TInv, TypeOK, STREAM, streaming
  <2> QED BY <2>1, <2>2
<1>3. TInv => TypeOK
  BY DEF TInv
<1> QED BY <1>1, <1>2, <1>3, PTL DEF Spec

-----------------------------------------------------------------------------
(* The line and the LEDs.                                                  *)
LEMMA InitIInv == Init => IInv
<1> SUFFICES ASSUME Init PROVE IInv
  OBVIOUS
<1>1. Types
  <2>1. pad \in Nat /\ LED_RESET_WAIT_TIME \in Nat
    BY RenderAssumption DEF Init
  <2>2. sent \in Nat
    BY <2>1, DataIsNat DEF Init, STREAM
  <2>3. raw \in [LEDs -> {"sent", "new"}]
    BY DEF Init
  <2> QED BY <2>1, <2>2, <2>3 DEF Init, Types
<1>2. Asleep /\ Rendering /\ Settling /\ Failed
  BY DEF Init, Asleep, Rendering, rendering, Settling, Failed, streaming
<1> QED BY <1>1, <1>2 DEF IInv

LEMMA TickIInv ==
  ASSUME IInv, Tick
  PROVE  IInv'
<1>1. Types'
  BY RenderAssumption DEF IInv, Types, Tick, up_to
<1>2. streaming' => streaming /\ sent' = sent + 1
  BY DEF IInv, Types, Tick, streaming
<1>3. Asleep' /\ Failed'
  BY <1>2, RenderAssumption DEF IInv, Types, Asleep, Failed, Tick
<1>4. Rendering'
  BY <1>2, DataIsNat, RenderAssumption DEF IInv, Types, Rendering, rendering, Tick, up_to
<1>5. Settling'
  BY RenderAssumption DEF IInv, Types, Settling, Tick, up_to, streaming
<1> QED BY <1>1, <1>3, <1>4, <1>5 DEF IInv

LEMMA CallIInv ==
  ASSUME IInv, Call, PERIOD >= DATA
  PROVE  IInv'
<1>1. Types'
  BY RenderAssumption DEF IInv, Types, Call, dma, initial_wait
<1>2. streaming' = streaming /\ sent' = sent
  BY DEF Call, dma, streaming
<1>3. Rendering'
  BY <1>2, DataIsNat, RenderAssumption
  DEF IInv, Types, Asleep, Rendering, Call, dma, initial_wait
<1>4. Asleep' /\ Settling' /\ Failed'
  BY DEF Asleep, Settling, Failed, Call
<1> QED BY <1>1, <1>3, <1>4 DEF IInv

LEMMA EncodeIInv ==
  ASSUME IInv, Encode
  PROVE  IInv'
<1>1. Types'
  <2>1. raw' \in [LEDs -> {"sent", "new"}]
    BY DEF IInv, Types, Encode
  <2>2. pc' \in {"encode", "wait"} /\ led' \in Nat
    BY DEF IInv, Types, Encode
  <2> QED BY <2>1, <2>2 DEF IInv, Types, Encode, dma
<1>2. streaming' = streaming /\ UNCHANGED <<sent, low, since_call, render_wait_time>>
  BY DEF Encode, dma, streaming
<1>3. pc = "encode" /\ pc' \in {"encode", "wait"}
  BY DEF Encode
<1>4. Rendering' /\ Asleep' /\ Settling' /\ Failed'
  BY <1>2, <1>3 DEF IInv, Rendering, rendering, Asleep, Settling, Failed
<1> QED BY <1>1, <1>4 DEF IInv

LEMMA WaitIInv ==
  ASSUME IInv, Wait
  PROVE  IInv'
<1>1. Types'
  BY RenderAssumption DEF IInv, Types, Wait, dma, nap
<1>2. streaming' = streaming /\ UNCHANGED <<sent, low, since_call, render_wait_time, dma_active>>
  BY DEF Wait, dma, streaming
<1>3. Rendering' /\ Asleep' /\ Failed'
  BY <1>2 DEF IInv, Rendering, rendering, Asleep, Failed, Wait, streaming
<1>4. Settling'
  BY <1>2, RenderAssumption
  DEF IInv, Types, Rendering, rendering, Settling, Wait, nap, finished
<1> QED BY <1>1, <1>3, <1>4 DEF IInv

LEMMA StartIInv ==
  ASSUME IInv, Start
  PROVE  IInv'
  BY DataIsNat, RenderAssumption
  DEF IInv, Types, Asleep, Rendering, rendering, Settling, Failed, Start, streaming, main_sleep

LEMMA DmaFailsIInv ==
  ASSUME IInv, DmaFails
  PROVE  IInv'
<1>1. ~streaming' /\ streaming
  BY DEF DmaFails, streaming
<1> QED BY <1>1 DEF IInv, Types, Asleep, Rendering, rendering, Settling, Failed, DmaFails, streaming

LEMMA NextIInv ==
  ASSUME IInv, [Next]_vars, PERIOD >= DATA
  PROVE  IInv'
<1>1. CASE Render
  BY <1>1, CallIInv, EncodeIInv, WaitIInv, StartIInv DEF Render
<1>2. CASE Tick \/ DmaFails
  BY <1>2, TickIInv, DmaFailsIInv
<1>3. CASE UNCHANGED vars
  BY <1>3 DEF vars, dma, IInv, Types, Asleep, Rendering, rendering, Settling, Failed, streaming
<1> QED BY <1>1, <1>2, <1>3 DEF Next

THEOREM Invariance ==
  ASSUME PERIOD >= DATA
  PROVE  Spec => []IInv
<1>1. Init => IInv
  BY InitIInv
<1>2. IInv /\ [Next]_vars => IInv'
  BY NextIInv
<1> QED BY <1>1, <1>2, PTL DEF Spec

(* The DMA reads of every LED what was in the buffer when it started,      *)
(* though ws2811_render encodes before it waits for the DMA.               *)
THEOREM FramesAreWhole ==
  ASSUME PERIOD >= DATA
  PROVE  Spec => []NoTear
<1>1. IInv => NoTear
  <2> SUFFICES ASSUME IInv, NEW i \in LEDs, unread(i)
               PROVE  raw[i] = "sent"
    BY DEF NoTear
  <2>1. (i + 1) * LED_TIME <= LED_COUNT * LED_TIME
    BY RenderAssumption DEF LEDs
  <2>2. streaming /\ sent < DATA
    <3>1. i + 1 \in Nat /\ LED_TIME \in Nat /\ (i + 1) * LED_TIME \in Nat /\ sent \in Nat
      BY RenderAssumption DEF LEDs, IInv, Types
    <3> QED BY <2>1, <3>1, DataIsNat DEF unread, DATA
  <2>3. pc = "sleep"
    BY <2>2, DataIsNat DEF IInv, Types, Rendering, rendering, Failed
  <2> QED BY <2>3 DEF IInv, Asleep
<1> QED BY <1>1, Invariance, PTL

(* A transfer starts only on a line that has been low long enough for the  *)
(* LEDs to latch, and never over another.                                  *)
THEOREM LedsLatch ==
  ASSUME PERIOD >= DATA
  PROVE  Spec => GapKept
<1>1. IInv /\ [Next]_vars
        => [pc = "settle" /\ pc' = "sleep" => ~dma_active /\ low >= LED_RESET_WAIT_TIME]_vars
  <2> SUFFICES ASSUME IInv, Next, pc = "settle", pc' = "sleep"
               PROVE  ~dma_active /\ low >= LED_RESET_WAIT_TIME
    OBVIOUS
  <2>1. timer = 0
    BY DEF Next, Render, Call, Encode, Wait, Start, Tick, DmaFails
  <2> QED BY <2>1, RenderAssumption DEF IInv, Types, Rendering, rendering, Settling
<1> QED BY <1>1, Invariance, PTL DEF Spec, GapKept
=============================================================================
