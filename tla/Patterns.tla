------------------------------ MODULE Patterns ------------------------------
(***************************************************************************)
(* The switch between LED patterns of src/led_patterns/core.c and utils.c: *)
(* the led_update_function_data_t, its pattern_data, whose layout only     *)
(* current_pattern tells, and the two patterns of ambient.c.  What the     *)
(* piano patterns do with their data is in PianoLeds and PianoWar; here it *)
(* is only how many frames the data remember.  The caller switches with    *)
(* set_data_for_pattern, as main does.                                     *)
(***************************************************************************)
EXTENDS Colors

CONSTANTS
  NONE, PIANO_NORMAL, PIANO_WAR, AMBIENT_NORMAL, AMBIENT_GRADIENT,
  Uninitialised,   (* what malloc leaves in led_states                        *)
  LED_COUNT,
  Factors,         (* percentages between 75 and 124 that random() may give   *)
  MaxFrames        (* bound: frames are counted up to this                    *)

Kinds    == {PIANO_NORMAL, PIANO_WAR, AMBIENT_NORMAL, AMBIENT_GRADIENT}
Patterns == Kinds \cup {NONE}

LEDs     == 0 .. LED_COUNT - 1

(* The patterns are different members of the enum of core.h; a factor is   *)
(* (random() % 50 + 75) / 100.                                             *)
ASSUME PatternsAssumption ==
  /\ MaxFrames \in Nat \ {0} /\ LED_COUNT \in Nat \ {0}
  /\ Factors \subseteq 75 .. 124
  /\ AMBIENT_NORMAL \notin {NONE, PIANO_NORMAL, PIANO_WAR, AMBIENT_GRADIENT}
  /\ AMBIENT_GRADIENT \notin {NONE, PIANO_NORMAL, PIANO_WAR}

VARIABLES
  data,    \* the struct, or what is left of it after it was freed; with it
           \*   blocks: pattern_data blocks allocated and not freed, up to 2
           \*   leds:   the colours in led_states, of an ambient pattern only
           \*   wild:   memory was freed that is not a block of the kind it
           \*           was freed as
  exists,  \* it has not been freed
  call     \* the last call: "run" of run_led_update_function, or "other"

vars == <<data, exists, call>>

NULL == [kind |-> NONE, frames |-> 0, colors |-> <<>>, factors |-> <<>>]

-----------------------------------------------------------------------------
(* new_led_update_*_data_t: nothing is remembered; the ambient patterns    *)
(* have no colour yet, and random factors are drawn for the normal one.    *)
new_data(kind, drawn) ==
  [kind   |-> kind,
   frames |-> 0,
   colors |-> CASE kind = AMBIENT_NORMAL   -> <<zero>>
                [] kind = AMBIENT_GRADIENT -> <<zero, zero>>
                [] OTHER                   -> <<>>,
   factors |-> drawn]

(* The pattern by which set_data_for_pattern finds how to free the data.   *)
(* Variant: the pattern that ran last.                                     *)
freed_as_last(d) == d.last_pattern
freed_as(d)      == d.current_pattern

(* "wipe LED states".  Variant: it does not.                               *)
wiped_not(d) == d.led_states
wiped(d)     == {}

frees(d) == IF freed_as(d) # NONE /\ d.blocks > 0 THEN 1 ELSE 0

set_data_for_pattern(d, pattern, drawn) ==
  [current_pattern         |-> pattern,
   last_pattern            |-> NONE,
   current_update_function |-> pattern,
   pattern_data            |-> IF pattern = NONE THEN NULL ELSE new_data(pattern, drawn),
   led_states              |-> wiped(d),
   leds                    |-> <<>>,
   blocks                  |-> IF pattern = NONE THEN d.blocks - frees(d)
                               ELSE IF d.blocks - frees(d) = 2 THEN 2 ELSE d.blocks - frees(d) + 1,
   wild                    |-> d.wild \/ (freed_as(d) # NONE /\ freed_as(d) # d.pattern_data.kind)]

-----------------------------------------------------------------------------
(* The update functions.  All but led_update_piano_normal, which fades     *)
(* what it finds, set every LED.                                           *)
Up(n) == IF n < MaxFrames THEN n + 1 ELSE n

new_colors(p, kind) ==
  CASE kind = AMBIENT_NORMAL ->
         {<<c>> : c \in next_color(p.colors[1], Colors)}
    [] kind = AMBIENT_GRADIENT ->
         LET picks == {c \in Colors : c[Top] = 0 /\ \E ch \in Channels : c[ch] < MAX}
         IN  next_color(p.colors[1], picks) \X next_color(p.colors[2], picks)
    [] OTHER -> {p.colors}

(* A pattern's data after a frame that left it colors.                     *)
framed(p, colors) == [p EXCEPT !.frames = Up(@), !.colors = colors]

(* Variant: the factors are drawn anew.                                    *)
factors_anew(d, drawn) == drawn
factors(d, drawn)      == d.pattern_data.factors

(* What is drawn when the data are made.                                   *)
Draws(pattern) == IF pattern = AMBIENT_NORMAL THEN [LEDs -> Factors] ELSE {<<>>}

(* led_states once colors are in them; below: the LEDs whose product comes *)
(* out a hair below a whole value, wraps: what becomes of one too large.   *)
shown(d, colors, drawn, below, wraps) ==
  CASE d.current_update_function = AMBIENT_NORMAL ->
         [i \in LEDs |-> adjacent_color(colors[1], factors(d, drawn)[i], i \in below, wraps)]
    [] d.current_update_function = AMBIENT_GRADIENT ->
         [i \in LEDs |-> between(colors[1], colors[2], i, LED_COUNT, i \in below)]
    [] OTHER -> <<>>

lit(d) == {d.current_pattern} \cup IF d.current_pattern = PIANO_NORMAL THEN d.led_states ELSE {}

(* run_led_update_function.  "set up data for first use", then "set up data *)
(* if the LED pattern changed": data that no frame has run on yet are made *)
(* twice over, since set_data_for_pattern forgets last_pattern; drawn are  *)
(* then the factors of the second time.                                    *)
first(d, drawn) ==
  IF d.last_pattern = NONE THEN set_data_for_pattern(d, d.current_pattern, drawn) ELSE d
changed_to(d, drawn) ==
  IF d.current_pattern # d.last_pattern
  THEN set_data_for_pattern(d, d.current_pattern, drawn) ELSE d

(* Variant: last_pattern is not updated.                                   *)
recorded_not(d) == NONE
recorded(d)     == d.current_pattern

Run ==
  \E drawn \in Draws(data.current_pattern), below \in SUBSET LEDs,
     wraps \in IF data.current_pattern = AMBIENT_NORMAL THEN BOOLEAN ELSE {TRUE} :
  LET d == changed_to(first(data, drawn), drawn)
  IN  /\ exists /\ data.current_pattern # NONE     \* else it calls NULL
      /\ \E colors \in new_colors(d.pattern_data, d.current_update_function) :
           data' = [d EXCEPT !.pattern_data = framed(@, colors),
                             !.led_states   = lit(d),
                             !.leds         = shown(d, colors, drawn, below, wraps),
                             !.last_pattern = recorded(d)]
      /\ call' = "run" /\ UNCHANGED exists

SetPattern(pattern) ==
  /\ exists
  /\ \E drawn \in Draws(pattern) : data' = set_data_for_pattern(data, pattern, drawn)
  /\ call' = "other" /\ UNCHANGED exists

(* free_led_update_function_data_t                                         *)
Free ==
  /\ exists
  /\ data' = set_data_for_pattern(data, NONE, <<>>)
  /\ exists' = FALSE /\ call' = "other"

(* new_led_update_function_data_t                                          *)
new == [current_pattern         |-> NONE,
        last_pattern            |-> NONE,
        current_update_function |-> NONE,
        pattern_data            |-> NULL,
        led_states              |-> {Uninitialised},
        leds                    |-> <<>>,
        blocks                  |-> 0,
        wild                    |-> FALSE]

New ==
  /\ ~exists
  /\ data' = [new EXCEPT !.blocks = data.blocks, !.wild = data.wild]
  /\ exists' = TRUE /\ call' = "other"

Init == data = new /\ exists = TRUE /\ call = "other"
Next == Run \/ Free \/ New \/ \E pattern \in Patterns : SetPattern(pattern)
Spec == Init /\ [][Next]_vars

-----------------------------------------------------------------------------
(* Properties.                                                             *)

(* pattern_data has no type: what it points to is known by current_pattern *)
(* alone, also to the update function and to the function that frees it.   *)
(* Whatever the order of switches, frames and frees, they agree, and there *)
(* is exactly one block while a pattern is set and none otherwise.         *)
DataMatches ==
  LET p == data.current_pattern
  IN  /\ data.current_update_function = p /\ data.pattern_data.kind = p
      /\ data.last_pattern \in {NONE, p}
      /\ data.blocks = IF p = NONE THEN 0 ELSE 1
      /\ ~data.wild
      /\ ~exists => p = NONE

(* No frame shows any light of the pattern before, or of uninitialised     *)
(* memory, though led_update_piano_normal only fades what it finds.        *)
OnlyItsLight ==
  data.current_pattern # NONE => data.led_states \subseteq {data.current_pattern}

(* The keys, bursts and colours of a pattern live from frame to frame:     *)
(* only a switch, to whatever pattern, makes it forget.                    *)
Remembers ==
  [][call' = "run" /\ data.pattern_data.frames > 0
       => data'.pattern_data.frames = Up(data.pattern_data.frames)]_vars

(* ambient.h: the colours change gently over time.  In particular one that *)
(* is not dark never becomes 0, which would stand for no colour yet and    *)
(* make the next frame jump to any other.                                  *)
gentle(c, d) ==
  \A ch \in Channels : /\ c[ch] <= d[ch] + RAND_COLOR_THRESHOLD
                       /\ d[ch] <= c[ch] + RAND_COLOR_THRESHOLD

Gently ==
  [][call' = "run" /\ data.pattern_data.frames > 0
       => \A i \in DOMAIN data.pattern_data.colors :
            LET c == data.pattern_data.colors[i]
            IN  ~dark(c) => /\ gentle(c, data'.pattern_data.colors[i])
                            /\ ~dark(data'.pattern_data.colors[i])]_vars

(* The same of what is seen: between two frames, each LED moves no further *)
(* than its share of that, and one for the cut-off, because the factors of *)
(* a strip are those it was set up with.  Not so for a channel that a      *)
(* factor takes beyond MAX, before or after (see the README).              *)
overflowed(p, v) == \E i \in LEDs : p.kind = AMBIENT_NORMAL /\ v * p.factors[i] >= (MAX + 1) * 100
share(p, i)      == IF p.kind = AMBIENT_NORMAL THEN p.factors[i] ELSE 100

LedsGently ==
  [][LET p == data.pattern_data
         q == data'.pattern_data
     IN  call' = "run" /\ p.frames > 0 /\ (\A n \in DOMAIN p.colors : ~dark(p.colors[n]))
           => \A i \in DOMAIN data.leds, ch \in Channels :
                \/ \E n \in DOMAIN p.colors :
                     overflowed(p, p.colors[n][ch]) \/ overflowed(p, q.colors[n][ch])
                \/ LET most == ((RAND_COLOR_THRESHOLD * share(p, i)) \div 100) + 1
                   IN  /\ data'.leds[i][ch] <= data.leds[i][ch] + most
                       /\ data.leds[i][ch] <= data'.leds[i][ch] + most]_vars

(* "create a smooth gradient": the strip starts at the left colour, and    *)
(* from LED to LED each channel goes towards the right one, never back     *)
(* and never past it, also where the right colour is the darker one and    *)
(* the slope is negative.                                                  *)
GradientSmooth ==
  LET p == data.pattern_data
  IN  p.kind = AMBIENT_GRADIENT /\ p.frames > 0 =>
        \A ch \in Channels :
          LET left  == p.colors[1][ch]
              right == p.colors[2][ch]
              at(i) == data.leds[i][ch]
          IN  /\ at(0) = left
              /\ \A i \in LEDs \ {0} :
                   IF left <= right THEN at(i - 1) <= at(i) /\ at(i) <= right
                                    ELSE at(i - 1) >= at(i) /\ at(i) >= right
=============================================================================
