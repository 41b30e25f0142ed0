------------------------------ MODULE PianoLeds ------------------------------
(***************************************************************************)
(* The program: the collector thread of src/main.c, and main, which sets   *)
(* up the LED driver while the thread collects already and then loops;     *)
(* they are joined by a pipe, with the pattern led_update_piano_normal of  *)
(* src/led_patterns/piano.c at the loop's end of it.                       *)
(*                                                                         *)
(* The pipe is the queue that module Pipe is shown to implement, plus what *)
(* a queue does not say: a push makes its byte visible first and signals   *)
(* afterwards, and a popper looks first and sleeps afterwards.             *)
(*                                                                         *)
(* Either thread may fail and then ends the process, after freeing what    *)
(* the other one may be using.                                             *)
(*                                                                         *)
(* The colour of an LED is represented by its brightest channel, its level.*)
(***************************************************************************)
EXTENDS Integers, Sequences

CONSTANTS
  LED_COUNT,      (* one LED for each key, from MIDI note 21 up                  *)
  Velocities,     (* bound: how hard keys are hit in this instance               *)
  Chatter,        (* the messages of the keyboard that the program has no use for*)
  MaxTransit,     (* bound: nothing is played while more bytes are on their way, *)
                  (* nor once main gives up                                      *)
  MidiMayFail,    (* TRUE when snd_rawmidi_read may fail                         *)
  LedsMayFail     (* TRUE when ws2811_init and ws2811_render may fail            *)

ASSUME PianoAssumption ==
  /\ LED_COUNT \in 1 .. 88
  /\ Velocities \subseteq 1 .. 127
  /\ MaxTransit \in Nat
  /\ {MidiMayFail, LedsMayFail} \subseteq BOOLEAN

(* MIDI: the first byte of a message, and no other, is 128 or more.  The   *)
(* messages of no use are of other kinds or channels than a note-on and a  *)
(* controller on the first channel, or of other controllers than the pedal.*)
ASSUME ChatterAssumption ==
  \A m \in Chatter :
    /\ m \in Seq(0 .. 253)
    /\ \/ \A i \in 1 .. Len(m) : m[i] \notin {144, 176}
       \/ /\ Len(m) = 3 /\ m[1] = 176
          /\ m[2] \in 0 .. 127 \ {64} /\ m[3] \in 0 .. 127

LEDs == 0 .. LED_COUNT - 1

VARIABLES
  held, pedal,       \* the keyboard: keys and pedal that are down
  wire,              \* bytes it has sent and nobody has read
  cpc, byte,         \* the collector thread and its buffer
  queue,             \* the pipe
  closed,            \* it has no producer any more
  pc,                \* main
  status,            \* the status byte it has popped the data bytes of, or 0
  buffer, left,      \* data->buffer, and how many bytes of it are to be popped
  key_pressed, key_sustain, sustain, led_states,
  color,             \* the colour of the new keys: "unpicked" in this frame, a
                     \* random one that is "black", or one that is not, "lit"
  struck,            \* the LEDs of the keys hit since the last frame, not
                     \* counting those last hit with the least velocity there is
  corrupted,         \* an array has been written outside its bounds, or
                     \* memory used that was freed
  exited             \* the process has ended

keyboard  == <<held, pedal>>
collector == <<cpc, byte>>
pipe      == <<queue, closed>>
loop      == <<pc, status, buffer, left>>
pattern   == <<key_pressed, key_sustain, sustain, led_states, color, struck, corrupted>>
vars      == <<keyboard, wire, collector, pipe, loop, pattern, exited>>

-----------------------------------------------------------------------------
(* What main has freed when it gives up.  A handle is the pipe itself,     *)
(* which is deallocated with the last one.                                 *)
gives_up    == pc \in {"free_producer", "free_consumer", "deallocate", "exit"}
no_consumer == pc \in {"deallocate", "exit"}
freed       == pc = "exit"

-----------------------------------------------------------------------------
(* The keyboard.  A key that is let go is a note-on of velocity 0.         *)
Play(message) ==
  /\ Len(wire) + Len(queue) <= MaxTransit /\ ~gives_up
  /\ wire' = wire \o message
  /\ UNCHANGED <<collector, pipe, loop, pattern, exited>>

Key(k) ==
  /\ \/ held[k] = 0 /\ \E v \in Velocities : Play(<<144, 21 + k, v>>)
     \/ held[k] = 1 /\ Play(<<144, 21 + k, 0>>)
  /\ held' = [held EXCEPT ![k] = 1 - @]
  /\ UNCHANGED pedal

Pedal ==
  /\ Play(<<176, 64, 1 - pedal>>)
  /\ pedal' = 1 - pedal
  /\ UNCHANGED held

Other == (\E m \in Chatter : Play(m)) /\ UNCHANGED keyboard

-----------------------------------------------------------------------------
(* midi_collector_thread copies its argument first.                        *)
CollectorStart ==
  /\ cpc = "start" /\ ~freed
  /\ cpc' = "read"
  /\ UNCHANGED <<keyboard, wire, byte, pipe, loop, pattern, exited>>

(* What it uses may be gone; what happens then is undefined.               *)
UseAfterFree ==
  /\ freed /\ cpc \in {"start", "push", "signal", "free"}
  /\ corrupted' = TRUE
  /\ UNCHANGED <<keyboard, wire, collector, pipe, loop,
                 key_pressed, key_sustain, sustain, led_states, color, struck, exited>>

(* The keyboard puts active sensing, 254, wherever *)
(* it likes, also between the bytes of a message.  Variant, a bug that the *)
(* checks must notice: it is passed on.                                    *)
wanted_all(b) == TRUE
wanted(b)     == b # 254

CollectorRead ==
  /\ cpc = "read"
  /\ \/ byte' = 254 /\ UNCHANGED wire
     \/ wire # <<>> /\ byte' = Head(wire) /\ wire' = Tail(wire)
  /\ cpc' = IF wanted(byte') THEN "push" ELSE "read"
  /\ UNCHANGED <<keyboard, pipe, loop, pattern, exited>>

(* pipe_push of one byte: the byte first, then the signal; neither when    *)
(* nobody consumes.                                                        *)
CollectorPush ==
  /\ cpc = "push" /\ ~freed
  /\ IF no_consumer THEN cpc' = "read" /\ UNCHANGED queue
     ELSE cpc' = "signal" /\ queue' = Append(queue, byte)
  /\ UNCHANGED <<keyboard, wire, byte, closed, loop, pattern, exited>>

(* The signal of just_pushed.  Variant: none for a single byte.            *)
woken_never(asleep) == asleep
woken(asleep)       == IF asleep = "pop_asleep" THEN "pop_look" ELSE asleep

CollectorSignal ==
  /\ cpc = "signal" /\ ~freed
  /\ cpc' = "read" /\ byte' = 254
  /\ pc' = woken(pc)
  /\ UNCHANGED <<keyboard, wire, pipe, status, buffer, left, pattern, exited>>

ReadError ==
  /\ MidiMayFail
  /\ cpc = "read"
  /\ cpc' = "free"
  /\ UNCHANGED <<keyboard, wire, byte, pipe, loop, pattern, exited>>

(* pipe_producer_free takes begin_lock, which a popper has until it sleeps,*)
(* and aborts when main has freed the producer already; then the process   *)
(* ends.  Variant: only the thread does.                                   *)
end_thread  == "ended"
end_process == "exit"

CollectorFree ==
  /\ cpc = "free" /\ ~freed
  /\ pc # "pop_sleep"
  /\ closed' = TRUE /\ exited' = closed
  /\ pc' = woken(pc)
  /\ cpc' = end_process
  /\ UNCHANGED <<keyboard, wire, byte, queue, status, buffer, left, pattern>>

Exit ==
  /\ cpc = "exit" \/ pc = "exit"
  /\ exited' = TRUE
  /\ UNCHANGED <<keyboard, wire, collector, pipe, loop, pattern>>

-----------------------------------------------------------------------------
(* main.  ws2811_init takes its time, the collector collects already.      *)
InitLeds ==
  /\ pc = "init"
  /\ \/ pc' = "size"
     \/ LedsMayFail /\ pc' = "free_producer"
  /\ UNCHANGED <<keyboard, wire, collector, pipe, status, buffer, left, pattern, exited>>

(* The colour of the new keys in a frame: with no last_color, any colour   *)
(* there is, 0 among them, which is no last_color to the next frame        *)
(* either; else one near the last, which has no channel that went to 0     *)
(* (Gently of module Patterns).                                            *)
picked == IF color = "unpicked" THEN {"black", "lit"} ELSE {color}

(* The loop.  pipe_size of an only consumer is right about an element being*)
(* there (SizeIsSafe of module Pipe).                                      *)
NextMessage ==
  /\ pc = "size" /\ queue # <<>>
  /\ color' \in picked
  /\ status' = 0 /\ left' = 1
  /\ pc' = "pop_look"
  /\ UNCHANGED <<keyboard, wire, collector, pipe, buffer, key_pressed, key_sustain,
                 sustain, led_states, struck, corrupted, exited>>

(* pipe_pop, as far as the pipe has bytes; short when it is closed.        *)
PopSome ==
  LET n     == IF Len(queue) < left THEN Len(queue) ELSE left
      first == (IF status = 0 THEN 1 ELSE 2) - left
  IN  /\ pc = "pop_look" /\ queue # <<>>
      /\ buffer' = [i \in 1 .. 2 |-> IF i \in first + 1 .. first + n
                                     THEN queue[i - first] ELSE buffer[i]]
      /\ queue' = SubSeq(queue, n + 1, Len(queue))
      /\ left' = left - n
      /\ pc' = IF n = left THEN "popped" ELSE "pop_look"
      /\ UNCHANGED <<keyboard, wire, collector, closed, status, pattern, exited>>

PopNone ==
  /\ pc = "pop_look" /\ queue = <<>>
  /\ pc' = IF closed THEN "popped" ELSE "pop_sleep"
  /\ UNCHANGED <<keyboard, wire, collector, pipe, status, buffer, left, pattern, exited>>

PopSleep ==
  /\ pc = "pop_sleep"
  /\ pc' = "pop_asleep"
  /\ UNCHANGED <<keyboard, wire, collector, pipe, status, buffer, left, pattern, exited>>

SpuriousWake ==
  /\ pc = "pop_asleep"
  /\ pc' = woken(pc)
  /\ UNCHANGED <<keyboard, wire, collector, pipe, status, buffer, left, pattern, exited>>

(* Variant: a MIDI message has three bytes.                                *)
data_bytes_and_status == 3
data_bytes            == 2

(* A popped byte that is not a status byte of interest is skipped.         *)
Dispatch ==
  /\ pc = "popped" /\ status = 0
  /\ IF buffer[1] \in {144, 176}
     THEN status' = buffer[1] /\ left' = data_bytes /\ pc' = "pop_look"
     ELSE pc' = "size" /\ UNCHANGED <<status, left>>
  /\ UNCHANGED <<keyboard, wire, collector, pipe, buffer, pattern, exited>>

Applied ==
  /\ pc' = "size" /\ status' = 0 /\ left' = 0
  /\ UNCHANGED <<keyboard, wire, collector, pipe, buffer, exited>>

(* normalize_color: twice the velocity, or one less when the division and  *)
(* the multiplication by the brightest channel round down.  Of black it    *)
(* divides by 0, and 0 times infinity is no number; to convert that is     *)
(* undefined, and comes out as 0 on ARM and on x86.                        *)
normalized(v) == IF color = "black" THEN {0} ELSE {2 * v - 1, 2 * v}

key == buffer[1] - 21

NoteOn ==
  /\ pc = "popped" /\ status = 144 /\ buffer[2] > 0 /\ key \in LEDs
  /\ \E level \in normalized(buffer[2]) : led_states' = [led_states EXCEPT ![key] = level]
  /\ key_pressed' = [key_pressed EXCEPT ![key] = 1]
  /\ key_sustain' = [key_sustain EXCEPT ![key] = 1]
  /\ struck' = IF buffer[2] > 1 THEN struck \cup {key} ELSE struck \ {key}
  /\ Applied
  /\ UNCHANGED <<sustain, color, corrupted>>

(* Variant: the light goes out with the key.                               *)
led_off(i)  == 0
led_kept(i) == led_states[i]

NoteOff ==
  /\ pc = "popped" /\ status = 144 /\ buffer[2] = 0 /\ key \in LEDs
  /\ key_pressed' = [key_pressed EXCEPT ![key] = 0]
  /\ key_sustain' = [key_sustain EXCEPT ![key] = IF sustain = 0 THEN 0 ELSE @]
  /\ led_states' = [led_states EXCEPT ![key] = led_kept(key)]
  /\ Applied
  /\ UNCHANGED <<sustain, color, struck, corrupted>>

NoteOutside ==
  /\ pc = "popped" /\ status = 144 /\ key \notin LEDs
  /\ corrupted' = TRUE
  /\ Applied
  /\ UNCHANGED <<key_pressed, key_sustain, sustain, led_states, color, struck>>

(* Variant: every controller is taken for the pedal.                       *)
is_pedal_any == TRUE
is_pedal     == buffer[1] = 64

Controller ==
  /\ pc = "popped" /\ status = 176
  /\ sustain' = IF ~is_pedal THEN sustain ELSE IF buffer[2] > 0 THEN 1 ELSE 0
  /\ Applied
  /\ UNCHANGED <<key_pressed, key_sustain, led_states, color, struck, corrupted>>

(* adjacent_color by DECAY_IF_SUSTAIN or DECAY_IF_N_SUSTAIN.  Variant: it  *)
(* rounds to the nearest level.                                            *)
faded_rounding(level, slowly) == IF slowly THEN (level * 99 + 50) \div 100 ELSE (level + 1) \div 2
faded(level, slowly)          == IF slowly THEN (level * 99) \div 100 ELSE level \div 2

(* Variant: released keys are not let go.                                  *)
released_never      == key_sustain
released == IF sustain = 1 THEN key_sustain
            ELSE [i \in LEDs |-> IF key_pressed[i] = 0 THEN 0 ELSE key_sustain[i]]

(* The rest of led_update_piano_normal, once the pipe is empty.            *)
Frame ==
  /\ pc = "size" /\ queue = <<>>
  /\ key_sustain' = released
  /\ led_states' = [i \in LEDs |-> faded(led_states[i], released[i] = 1)]
  /\ pc' = "render"
  /\ UNCHANGED <<keyboard, wire, collector, pipe, status, buffer, left,
                 key_pressed, sustain, color, struck, corrupted, exited>>

(* The LEDs are copied and rendered; then usleep, and the next call of     *)
(* run_led_update_function resets the buffer.                              *)
Render ==
  /\ pc = "render"
  /\ \/ /\ pc' = "size" /\ buffer' = <<0, 0>> /\ struck' = {}
        /\ color' = IF color = "black" THEN "unpicked" ELSE color
     \/ LedsMayFail /\ pc' = "free_producer" /\ UNCHANGED <<buffer, color, struck>>
  /\ UNCHANGED <<keyboard, wire, collector, pipe, status, left,
                 key_pressed, key_sustain, sustain, led_states, corrupted, exited>>

(* After a failure main frees both handles, the collector's too, and what  *)
(* the collector was started with.  The first aborts when the collector    *)
(* has freed the producer itself.                                          *)
FreeProducer ==
  /\ pc = "free_producer"
  /\ closed' = TRUE /\ exited' = closed
  /\ pc' = "free_consumer"
  /\ UNCHANGED <<keyboard, wire, collector, queue, status, buffer, left, pattern>>

(* pipe_consumer_free counts down, then deallocates; free(arg) follows     *)
(* (copying arg in between is as good as before).                          *)
FreeRest ==
  /\ \/ pc = "free_consumer" /\ pc' = "deallocate"
     \/ pc = "deallocate" /\ pc' = "exit"
  /\ UNCHANGED <<keyboard, wire, collector, pipe, status, buffer, left, pattern, exited>>

-----------------------------------------------------------------------------
Init ==
  /\ held = [i \in LEDs |-> 0] /\ pedal = 0 /\ wire = <<>>
  /\ cpc = "start" /\ byte = 254
  /\ queue = <<>> /\ closed = FALSE
  /\ pc = "init" /\ status = 0 /\ buffer = <<0, 0>> /\ left = 0
  /\ key_pressed = [i \in LEDs |-> 0] /\ key_sustain = [i \in LEDs |-> 0] /\ sustain = 0
  /\ led_states = [i \in LEDs |-> 0] /\ color = "unpicked"
  /\ struck = {} /\ corrupted = FALSE /\ exited = FALSE

Collector == \/ CollectorStart \/ CollectorRead \/ CollectorPush \/ CollectorSignal
             \/ CollectorFree \/ UseAfterFree \/ Exit
Loop == \/ NextMessage \/ PopSome \/ PopNone \/ PopSleep \/ Dispatch
        \/ NoteOn \/ NoteOff \/ NoteOutside \/ Controller
        \/ InitLeds \/ Frame \/ Render \/ FreeProducer \/ FreeRest
Environment == Pedal \/ Other \/ ReadError \/ SpuriousWake \/ \E i \in LEDs : Key(i)

Running == ~exited /\ ~corrupted
Next    == Running /\ (Collector \/ Loop \/ Environment)

Spec == Init /\ [][Next]_vars

(* The threads run, and one that wants a lock which is free again and      *)
(* again gets it; nobody has to play, and nobody wakes for nothing.        *)
FairSpec == /\ Spec /\ WF_vars(Running /\ Collector) /\ WF_vars(Running /\ Loop)
            /\ SF_vars(Running /\ CollectorFree)

-----------------------------------------------------------------------------
(* Properties.                                                             *)

Bytes == 0 .. 254

(* Types; the loop never waits for more bytes than its buffer has.         *)
TypeOK ==
  /\ held \in [LEDs -> {0, 1}] /\ pedal \in {0, 1} /\ wire \in Seq(Bytes)
  /\ cpc \in {"start", "read", "push", "signal", "free", "exit"} /\ byte \in Bytes
  /\ queue \in Seq(Bytes) /\ {closed, corrupted, exited} \subseteq BOOLEAN
  /\ pc \in {"init", "size", "pop_look", "pop_sleep", "pop_asleep", "popped", "render",
             "free_producer", "free_consumer", "deallocate", "exit"}
  /\ status \in {0, 144, 176} /\ buffer \in [1 .. 2 -> Bytes]
  /\ left \in 0 .. (IF status = 0 THEN 1 ELSE 2)
  /\ key_pressed \in [LEDs -> {0, 1}] /\ key_sustain \in [LEDs -> {0, 1}] /\ sustain \in {0, 1}
  /\ led_states \in [LEDs -> 0 .. 254] /\ struck \subseteq LEDs
  /\ color \in {"unpicked", "black", "lit"}

delivered == wire = <<>> /\ cpc \notin {"push"} /\ queue = <<>> /\ pc \in {"size", "render"}

(* Once all that was played has been applied, the program knows exactly    *)
(* which keys are down and whether the pedal is: no byte was lost,         *)
(* duplicated or taken for another one on its way through collector, pipe  *)
(* and partial pops, with active sensing anywhere in between.              *)
Agrees == delivered => key_pressed = held /\ sustain = pedal

(* A key that is down always fades slowly; after a frame with the pedal up *)
(* no other one does.                                                      *)
SustainFollows ==
  /\ \A i \in LEDs : key_pressed[i] = 1 => key_sustain[i] = 1
  /\ pc = "render" /\ sustain = 0 => key_sustain = key_pressed

(* Every key hit since the last frame is visible in the next one, however  *)
(* soon it was released, unless it was hit as softly as can be, or black   *)
(* was drawn for the keys of this frame; that lasts one frame, as the next *)
(* one draws anew, and cannot come back once some colour was drawn.        *)
StruckIsShown ==
  pc = "render" /\ color # "black" => \A i \in struck : led_states[i] > 0

(* ... while "keys that are hit harder create brighter LEDs" (piano.c:130) *)
(* leaves no colour out.  With black drawn for the frame this is false.    *)
NewKeyIsLit == pc = "render" => \A i \in struck : led_states[i] > 0

(* Until a thread has failed, no byte but a key's number is used as an     *)
(* index, and nothing that was freed is used.                              *)
InBoundsWhileOpen == ~closed => ~corrupted

(* ... which does not depend on the keyboard, for "pop contained a new key"*)
(* (piano.c:125).                                                          *)
AlwaysInBounds == ~corrupted

(* A signal that came between the loop's look and its sleep is lost, but   *)
(* with the next byte the keyboard sends, the loop wakes.                  *)
WokenByTraffic == pc = "pop_asleep" /\ wire # <<>> ~> pc # "pop_asleep"

(* When nothing is held, the pedal is up and everything has been applied,  *)
(* the lights go out, unless somebody plays again or the program ends.     *)
quiet    == delivered /\ ~exited /\ pedal = 0 /\ \A i \in LEDs : held[i] = 0
dark     == \A i \in LEDs : led_states[i] = 0
GoesDark == quiet ~> dark \/ ~quiet

(* A thread that fails ends the process, whatever the other one is in the  *)
(* middle of, be it asleep in a pop or failing too.                        *)
FatalEnds == cpc = "free" \/ pc = "free_producer" ~> exited \/ corrupted
=============================================================================
