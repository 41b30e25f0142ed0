--------------------------- MODULE PatternsProofs ---------------------------
(***************************************************************************)
(* That the switch between patterns is safe in whatever order it is used,  *)
(* for any strip, channels, colours and factors: the untyped pattern_data  *)
(* are always those of the current pattern, no frame shows light that is   *)
(* not its pattern's, and nothing but a switch makes a pattern forget.     *)
(* And that the ambient patterns are what ambient.h says of them: their    *)
(* colours, and what the strip shows of them, change gently, and the       *)
(* gradient is smooth.                                                     *)
(*                                                                         *)
(* DataMatches alone is not inductive: whether run_led_update_function     *)
(* sets the data up again depends on last_pattern, which is NONE exactly   *)
(* as long as no frame has run on them (PInv).  What is seen is related to *)
(* the colours by Painted: each channel of an LED is the exact product or  *)
(* mean of the colours kept, cut off one way or the other (IsCut), so that *)
(* two frames, or two LEDs, compare as the exact values do.                *)
(***************************************************************************)
EXTENDS Patterns, Integers, TLAPS

(* data is a record of the struct's fields, pattern_data one of a block's. *)
BlockFields  == {"kind", "frames", "colors", "factors"}
StructFields == {"current_pattern", "last_pattern", "current_update_function", "pattern_data",
                 "led_states", "leds", "blocks", "wild"}

IsBlock(p)  == p = [f \in BlockFields |-> p[f]]
IsStruct(d) == d = [f \in StructFields |-> d[f]] /\ IsBlock(d.pattern_data)

(* What set_data_for_pattern makes and every frame keeps.                  *)
Matching(d) ==
  LET p == d.current_pattern
  IN  /\ d.current_update_function = p /\ d.pattern_data.kind = p
      /\ d.last_pattern \in {NONE, p}
      /\ d.blocks = IF p = NONE THEN 0 ELSE 1
      /\ ~d.wild
      /\ p # NONE => d.led_states \subseteq {p}

Fresh(d) == d.last_pattern = NONE => d.pattern_data.frames = 0

Good(d) == IsStruct(d) /\ Matching(d) /\ Fresh(d)

PInv == Good(data) /\ (~exists => data.current_pattern = NONE)

-----------------------------------------------------------------------------
(* set_data_for_pattern, on good data, makes good data of the pattern.     *)
LEMMA SetData ==
  ASSUME NEW d, NEW pattern, NEW drawn, Good(d)
  PROVE  LET e == set_data_for_pattern(d, pattern, drawn)
         IN  /\ Good(e)
             /\ e.current_pattern = pattern /\ e.last_pattern = NONE
<1> DEFINE e == set_data_for_pattern(d, pattern, drawn)
<1>1. IsStruct(e)
  BY DEF set_data_for_pattern, IsStruct, IsBlock, BlockFields, StructFields, new_data, NULL
<1>2. e.current_pattern = pattern /\ e.last_pattern = NONE /\ e.current_update_function = pattern
  BY DEF set_data_for_pattern
<1>3. e.pattern_data.kind = pattern /\ e.pattern_data.frames = 0
  BY DEF set_data_for_pattern, new_data, NULL
<1>4. e.led_states = {}
  BY DEF set_data_for_pattern, wiped
<1>5. ~e.wild
  BY DEF set_data_for_pattern, freed_as, Good, Matching
<1>6. e.blocks = IF pattern = NONE THEN 0 ELSE 1
  <2>1. d.blocks - frees(d) = 0
    BY DEF frees, freed_as, Good, Matching
  <2> QED BY <2>1 DEF set_data_for_pattern
<1> QED BY <1>1, <1>2, <1>3, <1>4, <1>5, <1>6 DEF Good, Matching, Fresh

(* A frame runs on data of the current pattern, on those there were if a   *)
(* frame has run on them before.                                           *)
LEMMA SetUpForFrame ==
  ASSUME NEW d, NEW drawn, Good(d), d.current_pattern # NONE
  PROVE  LET e == changed_to(first(d, drawn), drawn)
         IN  /\ Good(e) /\ e.current_pattern = d.current_pattern
             /\ d.last_pattern # NONE => e = d
<1> DEFINE f == first(d, drawn)
           e == changed_to(f, drawn)
<1>1. Good(f) /\ f.current_pattern = d.current_pattern /\ (d.last_pattern # NONE => f = d)
  BY SetData DEF first
<1>2. Good(e) /\ e.current_pattern = f.current_pattern
  BY <1>1, SetData DEF changed_to
<1>3. d.last_pattern # NONE => e = f
  BY <1>1 DEF changed_to, Good, Matching
<1> QED BY <1>1, <1>2, <1>3

(* A frame is counted and replaces the colors, nothing else of the block. *)
LEMMA Framed ==
  ASSUME NEW p, IsBlock(p), NEW colors
  PROVE  LET q == framed(p, colors)
         IN  /\ IsBlock(q)
             /\ q.kind = p.kind /\ q.frames = Up(p.frames)
  BY DEF framed, IsBlock, BlockFields

(* What a frame leaves is good.                                            *)
LEMMA FrameKeeps ==
  ASSUME NEW d, Good(d), d.current_pattern # NONE, NEW colors, NEW leds
  PROVE  LET e == [d EXCEPT !.pattern_data = framed(@, colors),
                            !.led_states   = lit(d),
                            !.leds         = leds,
                            !.last_pattern = recorded(d)]
         IN  /\ Good(e) /\ e.current_pattern = d.current_pattern
             /\ e.pattern_data.frames = Up(d.pattern_data.frames)
<1> DEFINE p == framed(d.pattern_data, colors)
           e == [d EXCEPT !.pattern_data = framed(@, colors),
                          !.led_states   = lit(d),
                          !.leds         = leds,
                          !.last_pattern = recorded(d)]
<1>0. IsBlock(p) /\ p.kind = d.pattern_data.kind /\ p.frames = Up(d.pattern_data.frames)
  BY Framed DEF Good, IsStruct
<1> HIDE DEF p
<1>1. /\ e = [f \in StructFields |-> e[f]]
      /\ e.pattern_data = p
      /\ e.current_pattern = d.current_pattern
      /\ e.current_update_function = d.current_update_function
      /\ e.last_pattern = recorded(d)
      /\ e.led_states = lit(d)
      /\ e.blocks = d.blocks /\ e.wild = d.wild
  BY DEF Good, IsStruct, StructFields, p
<1> HIDE DEF e
<1>2. lit(d) \subseteq {d.current_pattern}
  BY DEF lit, Good, Matching
<1>3. IsStruct(e)
  BY <1>0, <1>1 DEF IsStruct
<1>4. Matching(e) /\ Fresh(e)
  BY <1>0, <1>1, <1>2 DEF Good, Matching, Fresh, recorded
<1>5. Good(e) /\ e.current_pattern = d.current_pattern
             /\ e.pattern_data.frames = Up(d.pattern_data.frames)
  BY <1>0, <1>1, <1>3, <1>4 DEF Good
<1> QED BY <1>5 DEF e

-----------------------------------------------------------------------------
LEMMA InitPInv == Init => PInv
<1> SUFFICES ASSUME Init
             PROVE  PInv
  OBVIOUS
<1>1. data = new /\ exists
  BY DEF Init
<1>2. IsStruct(new)
  BY DEF new, NULL, IsStruct, IsBlock, BlockFields, StructFields
<1>3. Matching(new) /\ Fresh(new)
  BY DEF new, NULL, Matching, Fresh
<1> QED BY <1>1, <1>2, <1>3 DEF PInv, Good

LEMMA RunPInv ==
  ASSUME PInv, Run
  PROVE  /\ PInv'
         /\ data.pattern_data.frames # 0
              => data'.pattern_data.frames = Up(data.pattern_data.frames)
<1>1. PICK drawn \in Draws(data.current_pattern), below \in SUBSET LEDs,
           wraps \in (IF data.current_pattern = AMBIENT_NORMAL THEN BOOLEAN ELSE {TRUE}) :
        LET d == changed_to(first(data, drawn), drawn)
        IN  /\ exists /\ data.current_pattern # NONE
            /\ \E colors \in new_colors(d.pattern_data, d.current_update_function) :
                 data' = [d EXCEPT !.pattern_data = framed(@, colors),
                                   !.led_states   = lit(d),
                                   !.leds         = shown(d, colors, drawn, below, wraps),
                                   !.last_pattern = recorded(d)]
            /\ call' = "run" /\ UNCHANGED exists
  BY DEF Run
<1> DEFINE d == changed_to(first(data, drawn), drawn)
<1>2. exists /\ exists' = exists /\ data.current_pattern # NONE
  BY <1>1
<1>3. PICK colors :
        data' = [d EXCEPT !.pattern_data = framed(@, colors),
                          !.led_states   = lit(d),
                          !.leds         = shown(d, colors, drawn, below, wraps),
                          !.last_pattern = recorded(d)]
  BY <1>1
<1>4. Good(d) /\ d.current_pattern = data.current_pattern /\ (data.last_pattern # NONE => d = data)
  BY <1>2, SetUpForFrame DEF PInv
<1> HIDE DEF d
<1>5. Good(data') /\ data'.pattern_data.frames = Up(d.pattern_data.frames)
  BY <1>2, <1>3, <1>4, FrameKeeps
<1>6. data.pattern_data.frames # 0 => data.last_pattern # NONE
  BY DEF PInv, Good, Fresh
<1>7. PInv'
  BY <1>2, <1>5 DEF PInv, Good, IsStruct, IsBlock, BlockFields, StructFields, Matching, Fresh
<1> QED BY <1>4, <1>5, <1>6, <1>7

LEMMA SwitchPInv ==
  ASSUME PInv, Free \/ New \/ \E pattern \in Patterns : SetPattern(pattern)
  PROVE  PInv'
<1>1. CASE Free
  <2>1. data' = set_data_for_pattern(data, NONE, <<>>)
    BY <1>1 DEF Free
  <2>2. Good(data') /\ data'.current_pattern = NONE
    BY <2>1, SetData DEF PInv
  <2> QED BY <2>2 DEF PInv, Good, IsStruct, IsBlock, BlockFields, StructFields, Matching, Fresh
<1>2. CASE New
  <2>1. data.blocks = 0 /\ ~data.wild
    BY <1>2 DEF New, PInv, Good, Matching
  <2>2. data' = [new EXCEPT !.blocks = data.blocks, !.wild = data.wild] /\ exists'
    BY <1>2 DEF New
  <2>3. Good(data')
    BY <2>1, <2>2 DEF new, NULL, Good, IsStruct, IsBlock, BlockFields, StructFields, Matching, Fresh
  <2> QED BY <2>2, <2>3 DEF PInv, Good, IsStruct, IsBlock, BlockFields, StructFields, Matching, Fresh
<1>3. ASSUME NEW pattern \in Patterns, SetPattern(pattern)
      PROVE  PInv'
  <2>1. PICK drawn : data' = set_data_for_pattern(data, pattern, drawn)
    BY <1>3 DEF SetPattern
  <2>2. Good(data') /\ exists'
    BY <1>3, <2>1, SetData DEF SetPattern, PInv
  <2> QED BY <2>2 DEF PInv, Good, IsStruct, IsBlock, BlockFields, StructFields, Matching, Fresh
<1> QED BY <1>1, <1>2, <1>3

LEMMA NextPInv ==
  ASSUME PInv, [Next]_vars
  PROVE  PInv'
<1>1. CASE Run
  BY <1>1, RunPInv
<1>2. CASE Free \/ New \/ \E pattern \in Patterns : SetPattern(pattern)
  BY <1>2, SwitchPInv
<1>3. CASE UNCHANGED vars
  BY <1>3 DEF vars, PInv, Good, IsStruct, IsBlock, BlockFields, StructFields, Matching, Fresh
<1> QED BY <1>1, <1>2, <1>3 DEF Next

(* The inductive invariant.                                                *)
THEOREM PatternInvariance == Spec => []PInv
  BY InitPInv, NextPInv, PTL DEF Spec

(* set_data_for_pattern, run_led_update_function and the frees, in any     *)
(* order, treat pattern_data as data of the kind they are, once.           *)
THEOREM DataAlwaysMatch == Spec => []DataMatches
<1>1. PInv => DataMatches
  BY DEF PInv, Good, Matching, DataMatches
<1> QED BY <1>1, PatternInvariance, PTL

(* No frame shows light of another pattern, or uninitialised memory.       *)
THEOREM NoForeignLight == Spec => []OnlyItsLight
<1>1. PInv => OnlyItsLight
  BY DEF PInv, Good, Matching, OnlyItsLight
<1> QED BY <1>1, PatternInvariance, PTL

(* No frame makes a pattern forget what earlier frames left it.            *)
THEOREM FramesRemember == Spec => Remembers
<1>1. PInv /\ [Next]_vars
        => [call' = "run" /\ data.pattern_data.frames > 0
              => data'.pattern_data.frames = Up(data.pattern_data.frames)]_vars
  <2> SUFFICES ASSUME PInv, Next, call' = "run", data.pattern_data.frames > 0
               PROVE  data'.pattern_data.frames = Up(data.pattern_data.frames)
    OBVIOUS
  <2>1. Run
    BY DEF Next, Free, New, SetPattern
  <2>2. data.pattern_data.frames # 0
    OBVIOUS
  <2> QED BY <2>1, <2>2, RunPInv
<1> QED BY <1>1, PatternInvariance, PTL DEF Spec, Remembers
-----------------------------------------------------------------------------
(* Arithmetic.                                                             *)
LEMMA Scale ==
  ASSUME NEW a \in Int, NEW b \in Int, NEW n \in Nat, a <= b
  PROVE  a * n <= b * n
<1> DEFINE e == b - a
<1>1. e \in Nat /\ b = a + e
  OBVIOUS
<1> HIDE DEF e
<1>2. b * n = a * n + e * n /\ e * n >= 0 /\ a * n \in Int /\ e * n \in Int
  BY <1>1
<1> QED BY <1>2

LEMMA Cancel ==
  ASSUME NEW a \in Int, NEW b \in Int, NEW n \in Nat \ {0}, a * n < (b + 1) * n
  PROVE  a <= b
<1>1. ASSUME b + 1 <= a PROVE FALSE
  <2>1. (b + 1) * n <= a * n
    BY <1>1, Scale
  <2>2. (b + 1) * n \in Int /\ a * n \in Int
    OBVIOUS
  <2> QED BY <2>1, <2>2
<1> QED BY <1>1

(* Cutting off rounds down, or takes one off a whole value.                *)
LEMMA CutOff ==
  ASSUME NEW x \in Nat, NEW n \in Nat \ {0}, NEW below \in BOOLEAN
  PROVE  LET c == cut_off(x, n, below)
         IN  /\ c \in Nat /\ c * n <= x /\ x <= (c + 1) * n
             /\ ~below => x < (c + 1) * n
<1> DEFINE q == x \div n
           r == x % n
<1>1. q \in Nat /\ r \in 0 .. n - 1 /\ x = q * n + r /\ q * n \in Nat
  OBVIOUS
<1>2. cut_off(x, n, below) = IF below /\ x > 0 /\ r = 0 THEN q - 1 ELSE q
  BY DEF cut_off
<1> HIDE DEF q, r
<1>3. (q + 1) * n = q * n + n /\ (q - 1) * n = q * n - n
  BY <1>1
<1>4. CASE below /\ x > 0 /\ r = 0
  <2>1. q # 0
    BY <1>1, <1>4
  <2>2. cut_off(x, n, below) = q - 1
    BY <1>2, <1>4, Zenon
  <2>3. q - 1 \in Nat /\ (q - 1) + 1 = q
    BY <1>1, <2>1
  <2>4. r = 0
    BY <1>4, Zenon
  <2>5. (q - 1) * n <= x /\ x <= ((q - 1) + 1) * n
    BY <1>1, <1>3, <2>3, <2>4
  <2> QED BY <1>4, <2>2, <2>3, <2>5, Zenon
<1>5. CASE ~(below /\ x > 0 /\ r = 0)
  <2>1. cut_off(x, n, below) = q
    BY <1>2, <1>5, Zenon
  <2>2. q \in Nat /\ q * n <= x /\ x < (q + 1) * n /\ x <= (q + 1) * n
    BY <1>1, <1>3
  <2> QED BY <2>1, <2>2, Zenon
<1> QED BY <1>4, <1>5

LEMMA WrapsBack ==
  ASSUME NEW x \in 0 .. MAX
  PROVE  x % (MAX + 1) = x /\ (x + MAX + 1) % (MAX + 1) = x
<1> DEFINE N == MAX + 1
<1>1. N \in Nat \ {0} /\ x \in 0 .. N - 1
  BY ColorsAssumption
<1> HIDE DEF N
<1>2. ASSUME NEW y \in Nat, NEW k \in {0, 1}, y = x + k * N PROVE y % N = x
  <2> DEFINE q == y \div N
             r == y % N
  <2>1. q \in Nat /\ r \in 0 .. N - 1 /\ y = q * N + r
    BY <1>1
  <2> HIDE DEF q, r
  <2>2. q * N < (k + 1) * N /\ k * N < (q + 1) * N
    BY <1>1, <1>2, <2>1
  <2>3. q <= k /\ k <= q
    BY <1>1, <2>1, <2>2, Cancel
  <2> QED BY <1>1, <1>2, <2>1, <2>3 DEF r
<1>3. x % N = x
  BY <1>1, <1>2
<1>4. (x + N) % N = x
  BY <1>1, <1>2
<1>5. x + N = x + MAX + 1
  BY <1>1, ColorsAssumption DEF N
<1> QED BY <1>3, <1>4, <1>5 DEF N

(* A channel that random_near_color changes goes up or down by less than   *)
(* the threshold and stays in its byte; one that is lit stays lit.         *)
LEMMA Changed ==
  ASSUME NEW v \in 0 .. MAX, NEW d \in 0 .. 2 * RAND_COLOR_THRESHOLD - 1
  PROVE  LET w == changed(v, d)
         IN  /\ w \in 0 .. MAX
             /\ w <= v + RAND_COLOR_THRESHOLD /\ v <= w + RAND_COLOR_THRESHOLD
             /\ v > 0 => w > 0
<1> DEFINE R == RAND_COLOR_THRESHOLD
<1>1. MAX \in Nat /\ R \in 1 .. MAX
  BY ColorsAssumption
<1>2. CASE raises(v, d)
  <2>1. v + (d - R) \in 0 .. MAX /\ d > R
    BY <1>1, <1>2 DEF raises
  <2>2. changed(v, d) = v + (d - R)
    BY <1>2, <2>1, WrapsBack DEF changed
  <2> QED BY <1>1, <2>1, <2>2
<1>3. CASE ~raises(v, d) /\ lowers(v, d)
  <2>1. v - d \in 0 .. MAX /\ d < R /\ v > d
    BY <1>1, <1>3 DEF lowers
  <2>2. (v + MAX + 1) - d = (v - d) + MAX + 1
    BY <1>1, <2>1
  <2>3. changed(v, d) = v - d
    BY <1>3, <2>1, <2>2, WrapsBack DEF changed
  <2> QED BY <1>1, <2>1, <2>3
<1>4. CASE ~raises(v, d) /\ ~lowers(v, d)
  <2>1. changed(v, d) = v
    BY <1>4, WrapsBack DEF changed
  <2> QED BY <1>1, <2>1
<1> QED BY <1>2, <1>3, <1>4

-----------------------------------------------------------------------------
(* Colours.                                                                *)
LEMMA Channel ==
  ASSUME NEW f, NEW ch \in Channels
  PROVE  from_channels(f)[ch] = f[ch]
  BY ColorsAssumption DEF from_channels

LEMMA Neighbours ==
  ASSUME NEW c \in Colors, NEW e \in random_near_color(c)
  PROVE  e \in Colors /\ gentle(c, e) /\ (~dark(c) => ~dark(e))
<1>1. PICK d \in [Channels -> 0 .. 2 * RAND_COLOR_THRESHOLD - 1] :
        e = from_channels([ch \in Channels |-> changed(c[ch], d[ch])])
  BY DEF random_near_color
<1>2. ASSUME NEW ch \in Channels
      PROVE  /\ c[ch] \in 0 .. MAX /\ e[ch] = changed(c[ch], d[ch])
             /\ d[ch] \in 0 .. 2 * RAND_COLOR_THRESHOLD - 1
  <2>1. e[ch] = [x \in Channels |-> changed(c[x], d[x])][ch]
    BY <1>1, Channel
  <2> QED BY <2>1 DEF Colors
<1>3. ASSUME NEW ch \in Channels
      PROVE  /\ e[ch] \in 0 .. MAX /\ c[ch] \in 0 .. MAX
             /\ e[ch] <= c[ch] + RAND_COLOR_THRESHOLD /\ c[ch] <= e[ch] + RAND_COLOR_THRESHOLD
             /\ c[ch] > 0 => e[ch] > 0
  BY <1>2, Changed
<1>4. e \in Colors
  <2>1. e = [ch \in Channels \cup {Top} |-> e[ch]] /\ e[Top] = 0
    BY <1>1 DEF from_channels
  <2>2. 0 \in 0 .. MAX /\ 0 <= 1
    BY ColorsAssumption
  <2>3. \A ch \in Channels \cup {Top} : e[ch] \in 0 .. MAX
    BY <1>3, <2>1, <2>2
  <2>4. e \in [Channels \cup {Top} -> 0 .. MAX]
    BY <2>1, <2>3
  <2> QED BY <2>1, <2>2, <2>4 DEF Colors
<1>5. gentle(c, e)
  BY <1>3 DEF gentle
<1>6. ASSUME ~dark(c) PROVE ~dark(e)
  <2>1. PICK ch \in Channels : c[ch] # 0
    BY <1>6 DEF dark
  <2>2. c[ch] \in 0 .. MAX /\ (c[ch] > 0 => e[ch] > 0) /\ e[ch] \in 0 .. MAX
    BY <1>3
  <2>3. e[ch] # 0
    BY <2>1, <2>2, ColorsAssumption
  <2> QED BY <2>3 DEF dark
<1> QED BY <1>4, <1>5, <1>6

LEMMA ZeroIsDark == dark(zero)
  BY DEF dark, zero

LEMMA NextColorTypes ==
  ASSUME NEW c \in Colors, NEW picks, picks \subseteq Colors, NEW e \in next_color(c, picks)
  PROVE  e \in Colors /\ (~dark(c) => e \in random_near_color(c))
<1>1. CASE c = zero
  BY <1>1, ZeroIsDark DEF next_color
<1>2. CASE c # zero
  BY <1>2, Neighbours DEF next_color
<1> QED BY <1>1, <1>2

-----------------------------------------------------------------------------
(* What a double that stands for x/n is when it is cut off to a channel,   *)
(* whatever the hair; Exactly is added when the double is exact.           *)
IsCut(v, x, n)   == v \in 0 .. MAX /\ v * n <= x /\ x <= (v + 1) * n
Exactly(v, x, n) == x < (v + 1) * n

LEMMA CutsOff ==
  ASSUME NEW x \in Nat, NEW n \in Nat \ {0}, x < (MAX + 1) * n,
         NEW b \in BOOLEAN, NEW w \in BOOLEAN, NEW v, v = to_uchar(cut_off(x, n, b), w)
  PROVE  IsCut(v, x, n) /\ (~b => Exactly(v, x, n))
<1> DEFINE c == cut_off(x, n, b)
<1>1. c \in Nat /\ c * n <= x /\ x <= (c + 1) * n /\ (~b => x < (c + 1) * n)
  BY CutOff
<1> HIDE DEF c
<1>2. MAX \in Int /\ c \in Int
  BY <1>1, ColorsAssumption
<1>3. c * n < (MAX + 1) * n
  <2>1. c * n \in Int /\ (MAX + 1) * n \in Int
    BY <1>2
  <2> QED BY <1>1, <2>1
<1>4. c <= MAX
  BY <1>2, <1>3, Cancel
<1>5. v = c
  BY <1>4 DEF to_uchar, c
<1>6. c \in 0 .. MAX
  BY <1>1, <1>2, <1>4
<1> QED BY <1>1, <1>5, <1>6 DEF IsCut, Exactly

(* What an LED shows moves no further than the colour does.                *)
LEMMA AdjacentMoves ==
  ASSUME NEW v \in 0 .. MAX, NEW w \in 0 .. MAX, v <= w + RAND_COLOR_THRESHOLD,
         NEW f \in Nat, NEW p, IsCut(p, v * f, 100), NEW q, IsCut(q, w * f, 100)
  PROVE  p <= q + (((RAND_COLOR_THRESHOLD * f) \div 100) + 1)
<1> DEFINE R == RAND_COLOR_THRESHOLD
           m == (R * f) \div 100
           vf == v * f
           wf == w * f
           rf == R * f
<1>1. MAX \in Nat /\ R \in Nat /\ v \in Nat /\ w \in Nat
  BY ColorsAssumption
<1>2. vf \in Nat /\ wf \in Nat /\ rf \in Nat /\ (w + R) * f = wf + rf
  BY <1>1
<1>3. vf <= wf + rf
  <2>1. v * f <= (w + R) * f
    BY <1>1, Scale
  <2> QED BY <1>2, <2>1
<1>4. p \in Nat /\ p * 100 <= vf /\ q \in Nat /\ wf <= (q + 1) * 100
  BY <1>1 DEF IsCut
<1>5. m = rf \div 100
  OBVIOUS
<1> HIDE DEF vf, wf, rf, m
<1>6. p <= q + (m + 1)
  BY <1>2, <1>3, <1>4, <1>5
<1> QED BY <1>6 DEF m, R

LEMMA AlongTypes ==
  ASSUME NEW l \in 0 .. MAX, NEW r \in 0 .. MAX, NEW n \in Nat \ {0}, NEW i \in 0 .. n - 1
  PROVE  along(l, r, i, n) \in Nat /\ along(l, r, i, n) < (MAX + 1) * n
<1>1. MAX \in Nat /\ l \in Nat /\ r \in Nat /\ n - i \in Nat /\ i \in Nat
  BY ColorsAssumption
<1>2. l * (n - i) <= MAX * (n - i) /\ r * i <= MAX * i
  BY <1>1, Scale
<1>3. /\ MAX * (n - i) + MAX * i = MAX * n /\ (MAX + 1) * n = MAX * n + n
      /\ MAX * (n - i) \in Nat /\ MAX * i \in Nat /\ MAX * n \in Nat
      /\ l * (n - i) \in Nat /\ r * i \in Nat
  BY <1>1
<1> QED BY <1>2, <1>3 DEF along

LEMMA BetweenMoves ==
  ASSUME NEW l \in 0 .. MAX, NEW r \in 0 .. MAX, NEW k \in 0 .. MAX, NEW s \in 0 .. MAX,
         l <= k + RAND_COLOR_THRESHOLD, r <= s + RAND_COLOR_THRESHOLD,
         NEW n \in Nat \ {0}, NEW i \in 0 .. n - 1,
         NEW p, IsCut(p, along(l, r, i, n), n), NEW q, IsCut(q, along(k, s, i, n), n)
  PROVE  p <= q + (RAND_COLOR_THRESHOLD + 1)
<1> DEFINE R == RAND_COLOR_THRESHOLD
           x == along(l, r, i, n)
           y == along(k, s, i, n)
<1>1. MAX \in Nat /\ R \in Nat /\ n - i \in Nat /\ i \in Nat /\ l \in Nat /\ r \in Nat
      /\ k \in Nat /\ s \in Nat
  BY ColorsAssumption
<1>2. x <= y + R * n
  <2>1. l * (n - i) <= (k + R) * (n - i) /\ r * i <= (s + R) * i
    BY <1>1, Scale
  <2>2. (k + R) * (n - i) + (s + R) * i = (k * (n - i) + s * i) + R * n
    BY <1>1
  <2>3. /\ l * (n - i) \in Nat /\ r * i \in Nat /\ (k + R) * (n - i) \in Nat /\ (s + R) * i \in Nat
        /\ k * (n - i) \in Nat /\ s * i \in Nat /\ R * n \in Nat
    BY <1>1
  <2> QED BY <2>1, <2>2, <2>3 DEF along
<1>3. p \in Int /\ p * n <= x /\ q \in Int /\ y <= (q + 1) * n
  BY DEF IsCut
<1>4. x \in Nat /\ y \in Nat
  BY AlongTypes
<1> HIDE DEF x, y
<1>5. p * n < ((q + (R + 1)) + 1) * n
  <2>1. ((q + (R + 1)) + 1) * n = (q + 1) * n + R * n + n /\ (q + 1) * n \in Int /\ R * n \in Nat
        /\ p * n \in Int
    BY <1>1, <1>3
  <2> QED BY <1>2, <1>3, <1>4, <2>1
<1>6. q + (R + 1) \in Int
  BY <1>1, <1>3
<1> QED BY <1>3, <1>5, <1>6, Cancel

(* The gradient from LED to LED.                                           *)
LEMMA AlongSteps ==
  ASSUME NEW l \in 0 .. MAX, NEW r \in 0 .. MAX, NEW n \in Nat \ {0}, NEW i \in 1 .. n - 1
  PROVE  /\ along(l, r, i, n) = along(l, r, i - 1, n) + (r - l)
         /\ l <= r => along(l, r, i, n) <= r * n
         /\ l > r => along(l, r, i, n) > r * n
<1>1. MAX \in Nat /\ l \in Nat /\ r \in Nat /\ n - i \in Nat /\ n - i > 0 /\ i \in Nat
  BY ColorsAssumption
<1>2. l * (n - i) + r * i = l * (n - (i - 1)) + r * (i - 1) + (r - l)
  BY <1>1
<1>3. r * (n - i) + r * i = r * n /\ (r + 1) * (n - i) = r * (n - i) + (n - i)
      /\ l * (n - i) \in Nat /\ r * i \in Nat /\ r * (n - i) \in Nat /\ r * n \in Nat
  BY <1>1
<1>4. l <= r => l * (n - i) <= r * (n - i)
  BY <1>1, Scale
<1>5. r + 1 <= l => (r + 1) * (n - i) <= l * (n - i)
  BY <1>1, Scale
<1> DEFINE u == l * (n - i)
           v == r * i
           w == r * (n - i)
           z == (r + 1) * (n - i)
           t == r * n
<1>6. /\ w + v = t /\ z = w + (n - i) /\ u \in Nat /\ v \in Nat /\ w \in Nat /\ t \in Nat
      /\ l <= r => u <= w
      /\ r + 1 <= l => z <= u
  BY <1>3, <1>4, <1>5
<1>7. along(l, r, i, n) = u + v
  BY DEF along
<1>8. along(l, r, i, n) = along(l, r, i - 1, n) + (r - l)
  BY <1>2 DEF along
<1> HIDE DEF u, v, w, z, t
<1>9. (l <= r => u + v <= t) /\ (l > r => u + v > t)
  BY <1>1, <1>6
<1> QED BY <1>7, <1>8, <1>9 DEF t

LEMMA Exact ==
  ASSUME NEW l \in 0 .. MAX, NEW r \in 0 .. MAX, NEW n \in Nat \ {0}, NEW i \in 0 .. n - 1,
         i = 0 \/ l = r, NEW p, IsCut(p, along(l, r, i, n), n), Exactly(p, along(l, r, i, n), n)
  PROVE  p = l
<1>1. MAX \in Nat /\ l \in Nat /\ r \in Nat /\ i \in Nat
  BY ColorsAssumption
<1>2. l * (n - i) + r * i = l * n
  <2>1. CASE i = 0
    BY <1>1, <2>1
  <2>2. CASE l = r
    BY <1>1, <2>2
  <2> QED BY <2>1, <2>2
<1>3. p \in Int /\ l \in Int /\ p * n <= l * n /\ l * n < (p + 1) * n
  BY <1>1, <1>2 DEF along, IsCut, Exactly
<1>4. l <= p
  BY <1>3, Cancel
<1>5. p <= l
  <2>1. (l + 1) * n = l * n + n /\ l * n \in Int /\ p * n \in Int
    BY <1>3
  <2>2. p * n < (l + 1) * n
    BY <1>3, <2>1
  <2> QED BY <1>3, <2>2, Cancel
<1> QED BY <1>3, <1>4, <1>5

(* From an LED k to the next one, i.                                       *)
LEMMA Rises ==
  ASSUME NEW l \in 0 .. MAX, NEW r \in 0 .. MAX, NEW n \in Nat \ {0}, NEW i \in 1 .. n - 1,
         NEW k \in 0 .. n - 1, k = i - 1, l < r,
         NEW u, IsCut(u, along(l, r, k, n), n), NEW v, IsCut(v, along(l, r, i, n), n)
  PROVE  u <= v /\ v <= r
<1> DEFINE x == along(l, r, k, n)
           y == along(l, r, i, n)
<1>1. MAX \in Nat /\ l \in Int /\ r \in Int /\ i \in 0 .. n - 1 /\ l <= r
  BY ColorsAssumption
<1>2. u \in Int /\ v \in Int /\ u * n <= x /\ v * n <= y /\ y <= (v + 1) * n
  BY <1>1 DEF IsCut
<1>3. y = x + (r - l) /\ y <= r * n
  BY <1>1, AlongSteps
<1>4. x \in Int /\ y \in Int
  BY <1>1, AlongTypes
<1> HIDE DEF x, y
<1>5. /\ u * n \in Int /\ v * n \in Int /\ (v + 1) * n \in Int /\ r * n \in Int
      /\ (r + 1) * n = r * n + n
  BY <1>1, <1>2
<1>6. u * n < (v + 1) * n
  BY <1>1, <1>2, <1>3, <1>4, <1>5
<1>7. v * n < (r + 1) * n
  BY <1>1, <1>2, <1>3, <1>4, <1>5
<1> QED BY <1>1, <1>2, <1>6, <1>7, Cancel

LEMMA Falls ==
  ASSUME NEW l \in 0 .. MAX, NEW r \in 0 .. MAX, NEW n \in Nat \ {0}, NEW i \in 1 .. n - 1,
         NEW k \in 0 .. n - 1, k = i - 1, r < l,
         NEW u, IsCut(u, along(l, r, k, n), n), NEW v, IsCut(v, along(l, r, i, n), n)
  PROVE  v <= u /\ r <= v
<1> DEFINE x == along(l, r, k, n)
           y == along(l, r, i, n)
<1>1. MAX \in Nat /\ l \in Int /\ r \in Int /\ i \in 0 .. n - 1 /\ l > r
  BY ColorsAssumption
<1>2. u \in Int /\ v \in Int /\ x <= (u + 1) * n /\ v * n <= y /\ y <= (v + 1) * n
  BY <1>1 DEF IsCut
<1>3. y = x + (r - l) /\ y > r * n
  BY <1>1, AlongSteps
<1>4. x \in Int /\ y \in Int
  BY <1>1, AlongTypes
<1> HIDE DEF x, y
<1>5. (u + 1) * n \in Int /\ v * n \in Int /\ (v + 1) * n \in Int /\ r * n \in Int
  BY <1>1, <1>2
<1>6. v * n < (u + 1) * n
  BY <1>1, <1>2, <1>3, <1>4, <1>5
<1>7. r * n < (v + 1) * n
  BY <1>1, <1>2, <1>3, <1>4, <1>5
<1> QED BY <1>1, <1>2, <1>6, <1>7, Cancel

-----------------------------------------------------------------------------
(* What the ambient patterns keep in their data and show.  Each has its    *)
(* colours and, for the normal one, a factor per LED from the moment the   *)
(* data are made; once a frame has run, the LEDs are those colours with    *)
(* those factors, cut off in some way the doubles allow.                   *)
Ambient == {AMBIENT_NORMAL, AMBIENT_GRADIENT}

HasColors(p) ==
  /\ p.kind = AMBIENT_NORMAL =>
       p.factors \in [LEDs -> Factors] /\ \E c \in Colors : p.colors = <<c>>
  /\ p.kind = AMBIENT_GRADIENT => \E a, b \in Colors : p.colors = <<a, b>>
  /\ p.kind \notin Ambient => p.colors = <<>>

Shows(p, leds) ==
  /\ p.kind = AMBIENT_NORMAL =>
       /\ DOMAIN leds = LEDs
       /\ \A i \in LEDs, ch \in Channels :
            LET x == p.colors[1][ch] * p.factors[i]
            IN  x < (MAX + 1) * 100 => IsCut(leds[i][ch], x, 100)
  /\ p.kind = AMBIENT_GRADIENT =>
       /\ DOMAIN leds = LEDs
       /\ \A i \in LEDs, ch \in Channels :
            LET left  == p.colors[1][ch]
                right == p.colors[2][ch]
                x     == along(left, right, i, LED_COUNT)
            IN  /\ IsCut(leds[i][ch], x, LED_COUNT)
                /\ i = 0 \/ left = right => Exactly(leds[i][ch], x, LED_COUNT)
  /\ p.kind \notin Ambient => leds = <<>>

Painted(d) ==
  HasColors(d.pattern_data) /\ (d.pattern_data.frames # 0 => Shows(d.pattern_data, d.leds))

(* One channel of one LED.                                                 *)
LEMMA AdjacentChannel ==
  ASSUME NEW c \in Colors, NEW f \in Nat, NEW b \in BOOLEAN, NEW w \in BOOLEAN,
         NEW ch \in Channels, c[ch] * f < (MAX + 1) * 100
  PROVE  IsCut(adjacent_color(c, f, b, w)[ch], c[ch] * f, 100)
<1> DEFINE g == [x \in Channels |-> to_uchar(cut_off(c[x] * f, 100, b), w)]
           v == to_uchar(cut_off(c[ch] * f, 100, b), w)
<1>1. adjacent_color(c, f, b, w)[ch] = v
  <2>1. from_channels(g)[ch] = g[ch]
    BY Channel
  <2> QED BY <2>1 DEF adjacent_color
<1>2. c[ch] * f \in Nat
  <2>1. c[ch] \in Nat
    BY ColorsAssumption DEF Colors
  <2> QED BY <2>1
<1>3. IsCut(v, c[ch] * f, 100)
  BY <1>2, CutsOff
<1> QED BY <1>1, <1>3

LEMMA BetweenChannel ==
  ASSUME NEW l \in Colors, NEW r \in Colors, NEW n \in Nat \ {0}, NEW i \in 0 .. n - 1,
         NEW b \in BOOLEAN, NEW ch \in Channels, NEW v, v = between(l, r, i, n, b)[ch]
  PROVE  /\ IsCut(v, along(l[ch], r[ch], i, n), n)
         /\ i = 0 \/ l[ch] = r[ch] => Exactly(v, along(l[ch], r[ch], i, n), n)
<1> DEFINE hair(x) == b /\ i > 0 /\ l[x] # r[x]
           cut(x) == cut_off(along(l[x], r[x], i, n), n, hair(x))
           g == [x \in Channels |-> to_uchar(cut(x), TRUE)]
           x == along(l[ch], r[ch], i, n)
           h == hair(ch)
<1>1. v = to_uchar(cut_off(x, n, h), TRUE)
  <2>1. from_channels(g)[ch] = g[ch]
    BY Channel
  <2>2. g[ch] = to_uchar(cut(ch), TRUE)
    BY Zenon
  <2>3. between(l, r, i, n, b) = from_channels(g)
    BY Zenon DEF between
  <2> QED BY <2>1, <2>2, <2>3, Zenon
<1>2. h \in BOOLEAN /\ (i = 0 \/ l[ch] = r[ch] => ~h)
  OBVIOUS
<1>3. l[ch] \in 0 .. MAX /\ r[ch] \in 0 .. MAX
  BY DEF Colors
<1>4. x \in Nat /\ x < (MAX + 1) * n
  BY <1>3, AlongTypes
<1> HIDE DEF h, x
<1> DEFINE w == TRUE
<1>5. w \in BOOLEAN
  OBVIOUS
<1>6. v = to_uchar(cut_off(x, n, h), w)
  BY <1>1
<1> HIDE DEF w
<1>7. IsCut(v, x, n) /\ (~h => Exactly(v, x, n))
  BY <1>2, <1>4, <1>5, <1>6, CutsOff
<1> QED BY <1>2, <1>7 DEF x

LEMMA ZeroIsColor == zero \in Colors
  BY ColorsAssumption DEF zero, Colors

(* The colours of the next frame: as many, and close to the last ones.     *)
LEMMA NewColors ==
  ASSUME NEW p, IsBlock(p), HasColors(p), NEW colors \in new_colors(p, p.kind)
  PROVE  /\ HasColors(framed(p, colors))
         /\ DOMAIN colors = DOMAIN p.colors
         /\ \A n \in DOMAIN p.colors :
              /\ p.colors[n] \in Colors /\ colors[n] \in Colors
              /\ ~dark(p.colors[n]) => colors[n] \in random_near_color(p.colors[n])
<1> DEFINE q == framed(p, colors)
<1>1. q.kind = p.kind /\ q.colors = colors /\ q.factors = p.factors
  BY DEF framed, IsBlock, BlockFields
<1> HIDE DEF q
<1>2. CASE p.kind = AMBIENT_NORMAL
  <2>1. PICK c \in Colors : p.colors = <<c>>
    BY <1>2 DEF HasColors
  <2>2. PICK e \in next_color(c, Colors) : colors = <<e>>
    <3>1. p.colors[1] = c
      BY <2>1
    <3>2. colors \in {<<e>> : e \in next_color(p.colors[1], Colors)}
      <4>1. new_colors(p, AMBIENT_NORMAL) = {<<e>> : e \in next_color(p.colors[1], Colors)}
        BY PatternsAssumption DEF new_colors
      <4> QED BY <1>2, <4>1
    <3> QED BY <3>1, <3>2
  <2>3. e \in Colors /\ (~dark(c) => e \in random_near_color(c))
    BY <2>2, NextColorTypes
  <2>4. HasColors(q)
    BY <1>1, <1>2, <2>2, <2>3, PatternsAssumption DEF HasColors, Ambient
  <2>5. DOMAIN colors = {1} /\ DOMAIN p.colors = {1} /\ colors[1] = e /\ p.colors[1] = c
    BY <2>1, <2>2
  <2> QED BY <2>3, <2>4, <2>5 DEF q
<1>3. CASE p.kind = AMBIENT_GRADIENT
  <2> DEFINE picks == {c \in Colors : c[Top] = 0 /\ \E ch \in Channels : c[ch] < MAX}
  <2>1. PICK a, b \in Colors : p.colors = <<a, b>>
    BY <1>3 DEF HasColors
  <2>2. p.kind # AMBIENT_NORMAL
    BY <1>3, PatternsAssumption
  <2>3. colors \in next_color(p.colors[1], picks) \X next_color(p.colors[2], picks)
    BY <1>3, <2>2 DEF new_colors
  <2>4. picks \subseteq Colors
    OBVIOUS
  <2> HIDE DEF picks
  <2>5. PICK e \in next_color(a, picks), f \in next_color(b, picks) : colors = <<e, f>>
    BY <2>1, <2>3
  <2>6. e \in Colors /\ (~dark(a) => e \in random_near_color(a))
    BY <2>4, <2>5, NextColorTypes
  <2>7. f \in Colors /\ (~dark(b) => f \in random_near_color(b))
    BY <2>4, <2>5, NextColorTypes
  <2>8. HasColors(q)
    BY <1>1, <1>3, <2>2, <2>5, <2>6, <2>7 DEF HasColors, Ambient
  <2>9. /\ DOMAIN colors = {1, 2} /\ DOMAIN p.colors = {1, 2}
        /\ colors[1] = e /\ colors[2] = f /\ p.colors[1] = a /\ p.colors[2] = b
    BY <2>1, <2>5
  <2> QED BY <2>6, <2>7, <2>8, <2>9 DEF q
<1>4. CASE p.kind \notin Ambient
  <2>1. p.colors = <<>> /\ colors = p.colors
    BY <1>4 DEF HasColors, new_colors, Ambient
  <2>2. HasColors(q)
    BY <1>1, <1>4, <2>1 DEF HasColors, Ambient
  <2>3. DOMAIN colors = {} /\ DOMAIN p.colors = {}
    BY <2>1
  <2> QED BY <2>2, <2>3 DEF q
<1> QED BY <1>2, <1>3, <1>4 DEF Ambient

LEMMA SetDataPaints ==
  ASSUME NEW d, NEW pattern, NEW drawn \in Draws(pattern)
  PROVE  Painted(set_data_for_pattern(d, pattern, drawn))
<1> DEFINE p == IF pattern = NONE THEN NULL ELSE new_data(pattern, drawn)
<1>1. set_data_for_pattern(d, pattern, drawn).pattern_data = p
  BY DEF set_data_for_pattern
<1>2. p.frames = 0 /\ p.kind = pattern
  BY DEF NULL, new_data
<1>3. CASE pattern = AMBIENT_NORMAL
  <2>1. p.colors = <<zero>> /\ p.factors = drawn /\ drawn \in [LEDs -> Factors]
    BY <1>3, PatternsAssumption DEF new_data, Draws
  <2> QED BY <1>1, <1>2, <1>3, <2>1, ZeroIsColor, PatternsAssumption DEF Painted, HasColors, Ambient
<1>4. CASE pattern = AMBIENT_GRADIENT
  <2>1. p.colors = <<zero, zero>>
    BY <1>4, PatternsAssumption DEF new_data
  <2> QED BY <1>1, <1>2, <1>4, <2>1, ZeroIsColor, PatternsAssumption DEF Painted, HasColors, Ambient
<1>5. CASE pattern \notin Ambient
  <2>1. p.colors = <<>>
    BY <1>5 DEF new_data, NULL, Ambient
  <2> QED BY <1>1, <1>2, <1>5, <2>1 DEF Painted, HasColors, Ambient
<1> QED BY <1>3, <1>4, <1>5 DEF Ambient

LEMMA SetUpPaints ==
  ASSUME NEW d, Good(d), Painted(d), NEW drawn \in Draws(d.current_pattern)
  PROVE  Painted(changed_to(first(d, drawn), drawn))
<1> DEFINE f == first(d, drawn)
<1>1. Painted(f) /\ f.current_pattern = d.current_pattern
  BY SetData, SetDataPaints DEF first
<1> HIDE DEF f
<1>2. Painted(changed_to(f, drawn))
  BY <1>1, SetDataPaints DEF changed_to
<1> QED BY <1>2 DEF f

LEMMA RunPaints ==
  ASSUME PInv, Painted(data), Run
  PROVE  /\ Painted(data') /\ Shows(data'.pattern_data, data'.leds)
         /\ data.pattern_data.frames # 0
              => \E colors \in new_colors(data.pattern_data, data.pattern_data.kind) :
                   data'.pattern_data = framed(data.pattern_data, colors)
<1>1. PICK drawn \in Draws(data.current_pattern), below \in SUBSET LEDs,
           wraps \in (IF data.current_pattern = AMBIENT_NORMAL THEN BOOLEAN ELSE {TRUE}) :
        LET d == changed_to(first(data, drawn), drawn)
        IN  /\ exists /\ data.current_pattern # NONE
            /\ \E colors \in new_colors(d.pattern_data, d.current_update_function) :
                 data' = [d EXCEPT !.pattern_data = framed(@, colors),
                                   !.led_states   = lit(d),
                                   !.leds         = shown(d, colors, drawn, below, wraps),
                                   !.last_pattern = recorded(d)]
            /\ call' = "run" /\ UNCHANGED exists
  BY DEF Run
<1> DEFINE d == changed_to(first(data, drawn), drawn)
<1>2. data.current_pattern # NONE
  BY <1>1
<1>3. PICK colors \in new_colors(d.pattern_data, d.current_update_function) :
        data' = [d EXCEPT !.pattern_data = framed(@, colors),
                          !.led_states   = lit(d),
                          !.leds         = shown(d, colors, drawn, below, wraps),
                          !.last_pattern = recorded(d)]
  BY <1>1
<1>4. Good(d) /\ d.current_pattern = data.current_pattern /\ (data.last_pattern # NONE => d = data)
  BY <1>2, SetUpForFrame DEF PInv
<1>5. Painted(d)
  BY SetUpPaints DEF PInv
<1> HIDE DEF d
<1> DEFINE p == d.pattern_data
           q == framed(p, colors)
<1>6. /\ d.current_update_function = p.kind /\ d.current_pattern = p.kind /\ IsBlock(p)
      /\ HasColors(p)
  BY <1>4, <1>5 DEF Good, Matching, IsStruct, Painted
<1>7. colors \in new_colors(p, p.kind)
  BY <1>3, <1>6
<1>8. HasColors(q)
  BY <1>6, <1>7, NewColors
<1>9. q.kind = p.kind /\ q.colors = colors /\ q.factors = p.factors
  BY <1>6 DEF framed, IsBlock, BlockFields
<1> HIDE DEF p, q
<1>10. data'.pattern_data = q /\ data'.leds = shown(d, colors, drawn, below, wraps)
  BY <1>3, <1>4 DEF Good, IsStruct, StructFields, p, q
<1> DEFINE leds == shown(d, colors, drawn, below, wraps)
<1>11. Shows(q, leds)
  <2>1. CASE p.kind = AMBIENT_NORMAL
    <3>1. wraps \in BOOLEAN
      BY <1>1, <1>4, <1>6, <2>1
    <3>2. PICK c \in Colors : q.colors = <<c>>
      BY <1>8, <1>9, <2>1 DEF HasColors
    <3>3. q.colors[1] = c /\ colors[1] = c /\ q.factors \in [LEDs -> Factors]
      BY <1>8, <1>9, <2>1, <3>2 DEF HasColors
    <3>4. leds = [i \in LEDs |-> adjacent_color(c, q.factors[i], i \in below, wraps)]
      <4>1. leds = [i \in LEDs |->
                      adjacent_color(colors[1], factors(d, drawn)[i], i \in below, wraps)]
        BY <1>6, <2>1, PatternsAssumption DEF shown
      <4>2. factors(d, drawn) = q.factors
        BY <1>9 DEF factors, p
      <4> QED BY <3>3, <4>1, <4>2
    <3> HIDE DEF leds
    <3>5. ASSUME NEW i \in LEDs, NEW ch \in Channels, c[ch] * q.factors[i] < (MAX + 1) * 100
          PROVE  IsCut(leds[i][ch], c[ch] * q.factors[i], 100)
      <4> DEFINE b == i \in below
      <4>1. leds[i] = adjacent_color(c, q.factors[i], b, wraps) /\ b \in BOOLEAN
        BY <3>4
      <4> HIDE DEF b
      <4>2. q.factors[i] \in Nat
        <5>1. q.factors[i] \in Factors
          BY <3>3
        <5>2. q.factors[i] \in 75 .. 124
          BY <5>1, PatternsAssumption
        <5> QED BY <5>2
      <4> QED BY <3>1, <3>5, <4>1, <4>2, AdjacentChannel
    <3>6. DOMAIN leds = LEDs
      BY <3>4
    <3> QED BY <1>9, <2>1, <3>3, <3>5, <3>6, PatternsAssumption DEF Shows, Ambient
  <2>2. CASE p.kind = AMBIENT_GRADIENT
    <3>1. PICK l, r \in Colors : q.colors = <<l, r>>
      BY <1>8, <1>9, <2>2 DEF HasColors
    <3>2. q.colors[1] = l /\ q.colors[2] = r /\ colors[1] = l /\ colors[2] = r
      BY <1>9, <3>1
    <3>3. leds = [i \in LEDs |-> between(l, r, i, LED_COUNT, i \in below)]
      BY <1>6, <2>2, <3>2, PatternsAssumption DEF shown
    <3> HIDE DEF leds
    <3>4. ASSUME NEW i \in LEDs, NEW ch \in Channels
          PROVE  /\ IsCut(leds[i][ch], along(l[ch], r[ch], i, LED_COUNT), LED_COUNT)
                 /\ i = 0 \/ l[ch] = r[ch]
                      => Exactly(leds[i][ch], along(l[ch], r[ch], i, LED_COUNT), LED_COUNT)
      <4> DEFINE b == i \in below
                 v == leds[i][ch]
      <4>1. leds[i] = between(l, r, i, LED_COUNT, b) /\ b \in BOOLEAN
        BY <3>3
      <4> HIDE DEF b
      <4>2. v = between(l, r, i, LED_COUNT, b)[ch]
        BY <4>1
      <4> HIDE DEF v
      <4>3. LED_COUNT \in Nat \ {0} /\ i \in 0 .. LED_COUNT - 1
        BY PatternsAssumption DEF LEDs
      <4>4. /\ IsCut(v, along(l[ch], r[ch], i, LED_COUNT), LED_COUNT)
            /\ i = 0 \/ l[ch] = r[ch] => Exactly(v, along(l[ch], r[ch], i, LED_COUNT), LED_COUNT)
        BY <4>1, <4>2, <4>3, BetweenChannel
      <4> QED BY <4>4 DEF v
    <3>5. DOMAIN leds = LEDs
      BY <3>3
    <3> QED BY <1>9, <2>2, <3>2, <3>4, <3>5, PatternsAssumption DEF Shows, Ambient
  <2>3. CASE p.kind \notin Ambient
    <3>1. leds = <<>>
      BY <1>6, <2>3 DEF shown, Ambient
    <3> QED BY <1>9, <2>3, <3>1 DEF Shows, Ambient
  <2> QED BY <2>1, <2>2, <2>3 DEF Ambient
<1>12. Painted(data') /\ Shows(data'.pattern_data, data'.leds)
  BY <1>8, <1>10, <1>11 DEF Painted
<1>13. data.pattern_data.frames # 0 => d = data
  BY <1>4 DEF PInv, Good, Fresh
<1> QED BY <1>7, <1>10, <1>12, <1>13 DEF p, q

(* The invariant of what the ambient patterns show.                        *)
AInv == PInv /\ Painted(data)

LEMMA InitAInv == Init => AInv
<1> SUFFICES ASSUME Init PROVE Painted(data)
  BY InitPInv DEF AInv
<1>1. data.pattern_data.kind = NONE /\ data.pattern_data.frames = 0
      /\ data.pattern_data.colors = <<>>
  BY DEF Init, new, NULL
<1> QED BY <1>1, PatternsAssumption DEF Painted, HasColors, Ambient

LEMMA NextAInv ==
  ASSUME AInv, [Next]_vars
  PROVE  AInv'
<1>1. PInv'
  BY NextPInv DEF AInv
<1>2. CASE Run
  <2>1. Painted(data')
    BY <1>2, RunPaints DEF AInv
  <2> QED BY <1>1, <2>1 DEF AInv, Painted, HasColors, Shows
<1>3. CASE Free
  <2>1. data' = set_data_for_pattern(data, NONE, <<>>)
    BY <1>3 DEF Free
  <2>2. <<>> \in Draws(NONE)
    BY PatternsAssumption DEF Draws
  <2>3. Painted(data')
    BY <2>1, <2>2, SetDataPaints
  <2> QED BY <1>1, <2>3 DEF AInv, Painted, HasColors, Shows
<1>4. CASE New
  <2>1. data'.pattern_data = NULL
    BY <1>4 DEF New, new
  <2>2. Painted(data')
    BY <2>1, PatternsAssumption DEF NULL, Painted, HasColors, Ambient
  <2> QED BY <1>1, <2>2 DEF AInv, Painted, HasColors, Shows
<1>5. ASSUME NEW pattern \in Patterns, SetPattern(pattern)
      PROVE  AInv'
  <2>1. PICK drawn \in Draws(pattern) : data' = set_data_for_pattern(data, pattern, drawn)
    BY <1>5 DEF SetPattern
  <2>2. Painted(data')
    BY <2>1, SetDataPaints
  <2> QED BY <1>1, <2>2 DEF AInv, Painted, HasColors, Shows
<1>6. CASE UNCHANGED vars
  BY <1>1, <1>6 DEF vars, AInv, Painted, HasColors, Shows
<1> QED BY <1>2, <1>3, <1>4, <1>5, <1>6 DEF Next

(* What the strip shows is the colours kept, in every reachable state.     *)
THEOREM PaintInvariance == Spec => []AInv
  BY InitAInv, NextAInv, PTL DEF Spec

-----------------------------------------------------------------------------
(* update_pattern_data for the ambient patterns, random_near_color: the    *)
(* colours change gently, and one that is lit stays lit.                   *)
THEOREM ColorsChangeGently == Spec => Gently
<1>1. AInv /\ [Next]_vars
        => [call' = "run" /\ data.pattern_data.frames > 0
              => \A i \in DOMAIN data.pattern_data.colors :
                   LET c == data.pattern_data.colors[i]
                   IN  ~dark(c) => /\ gentle(c, data'.pattern_data.colors[i])
                                   /\ ~dark(data'.pattern_data.colors[i])]_vars
  <2> SUFFICES ASSUME AInv, Next, call' = "run", data.pattern_data.frames > 0,
                      NEW i \in DOMAIN data.pattern_data.colors,
                      ~dark(data.pattern_data.colors[i])
               PROVE  /\ gentle(data.pattern_data.colors[i], data'.pattern_data.colors[i])
                      /\ ~dark(data'.pattern_data.colors[i])
    OBVIOUS
  <2> DEFINE p == data.pattern_data
  <2>1. Run
    BY DEF Next, Free, New, SetPattern
  <2>2. p.frames # 0
    OBVIOUS
  <2>3. PICK colors \in new_colors(p, p.kind) : data'.pattern_data = framed(p, colors)
    BY <2>1, <2>2, RunPaints DEF AInv
  <2>4. IsBlock(p) /\ HasColors(p)
    BY DEF AInv, PInv, Good, IsStruct, Painted
  <2>5. data'.pattern_data.colors = colors
    BY <2>3, <2>4 DEF framed, IsBlock, BlockFields
  <2> HIDE DEF p
  <2>6. p.colors[i] \in Colors /\ colors[i] \in random_near_color(p.colors[i])
    BY <2>3, <2>4, NewColors DEF p
  <2>7. gentle(p.colors[i], colors[i]) /\ ~dark(colors[i])
    BY <2>6, Neighbours DEF p
  <2> QED BY <2>5, <2>7 DEF p
<1> QED BY <1>1, PaintInvariance, PTL DEF Spec, Gently

(* led_update_ambient_gradient: the strip is a smooth gradient from the    *)
(* left colour towards the right one, whichever channel is the brighter    *)
(* and however the doubles come out.                                       *)
THEOREM StripIsSmooth == Spec => []GradientSmooth
<1>1. AInv => GradientSmooth
  <2> SUFFICES ASSUME AInv, data.pattern_data.kind = AMBIENT_GRADIENT,
                      data.pattern_data.frames > 0, NEW ch \in Channels
               PROVE  LET left  == data.pattern_data.colors[1][ch]
                          right == data.pattern_data.colors[2][ch]
                          at(i) == data.leds[i][ch]
                      IN  /\ at(0) = left
                          /\ \A i \in LEDs \ {0} :
                               IF left <= right THEN at(i - 1) <= at(i) /\ at(i) <= right
                                                ELSE at(i - 1) >= at(i) /\ at(i) >= right
    BY DEF GradientSmooth
  <2> DEFINE n == LED_COUNT
  <2>1. n \in Nat \ {0}
    BY PatternsAssumption
  <2>2. data.pattern_data.frames # 0
    OBVIOUS
  <2>3. PICK a, b \in Colors : data.pattern_data.colors = <<a, b>>
    BY DEF AInv, Painted, HasColors
  <2>4. data.pattern_data.colors[1] = a /\ data.pattern_data.colors[2] = b
    BY <2>3
  <2> DEFINE l == a[ch]
             r == b[ch]
             at(i) == data.leds[i][ch]
  <2>5. l \in 0 .. MAX /\ r \in 0 .. MAX
    BY DEF Colors
  <2>6. ASSUME NEW i \in LEDs
        PROVE  /\ IsCut(at(i), along(l, r, i, n), n)
               /\ i = 0 \/ l = r => Exactly(at(i), along(l, r, i, n), n)
    BY <2>2, <2>4 DEF AInv, Painted, Shows
  <2>7. MAX \in Nat /\ l \in Int /\ r \in Int
    BY <2>5, ColorsAssumption
  <2> HIDE DEF l, r, n, at
  <2>8. at(0) = l
    <3>1. 0 \in LEDs /\ 0 \in 0 .. n - 1
      BY <2>1 DEF LEDs, n
    <3> DEFINE v == at(0)
    <3>2. IsCut(v, along(l, r, 0, n), n) /\ Exactly(v, along(l, r, 0, n), n)
      BY <2>6, <3>1
    <3> HIDE DEF v
    <3>3. v = l
      BY <2>1, <2>5, <3>1, <3>2, Exact
    <3> QED BY <3>3 DEF v
  <2>9. ASSUME NEW i \in LEDs \ {0}
        PROVE  IF l <= r THEN at(i - 1) <= at(i) /\ at(i) <= r
                         ELSE at(i - 1) >= at(i) /\ at(i) >= r
    <3> DEFINE k == i - 1
               u == at(k)
               v == at(i)
    <3>1. /\ i \in 1 .. n - 1 /\ i \in LEDs /\ k \in LEDs
          /\ i \in 0 .. n - 1 /\ k \in 0 .. n - 1
      BY <2>1 DEF LEDs, n
    <3>2. k = i - 1
      OBVIOUS
    <3> HIDE DEF k
    <3>3. /\ IsCut(u, along(l, r, k, n), n) /\ (l = r => Exactly(u, along(l, r, k, n), n))
          /\ IsCut(v, along(l, r, i, n), n) /\ (l = r => Exactly(v, along(l, r, i, n), n))
      BY <2>6, <3>1
    <3> HIDE DEF u, v
    <3>4. u \in Int /\ v \in Int
      BY <2>7, <3>3 DEF IsCut
    <3>5. CASE l = r
      <4>1. u = l /\ v = l
        BY <2>1, <2>5, <3>1, <3>3, <3>5, Exact
      <4> QED BY <2>7, <3>2, <3>5, <4>1 DEF u, v
    <3>6. CASE l < r
      <4>1. u <= v /\ v <= r
        BY <2>1, <2>5, <3>1, <3>2, <3>3, <3>6, Rises
      <4>2. l <= r
        BY <2>7, <3>6
      <4> QED BY <3>2, <4>1, <4>2 DEF u, v
    <3>7. CASE r < l
      <4>1. v <= u /\ r <= v
        BY <2>1, <2>5, <3>1, <3>2, <3>3, <3>7, Falls
      <4>2. ~(l <= r) /\ u >= v /\ v >= r
        BY <2>7, <3>4, <3>7, <4>1
      <4> QED BY <3>2, <4>2 DEF u, v
    <3>8. l = r \/ l < r \/ r < l
      BY <2>7
    <3> QED BY <3>5, <3>6, <3>7, <3>8, Zenon
  <2> QED BY <2>4, <2>8, <2>9 DEF at, l, r
<1> QED BY <1>1, PaintInvariance, PTL

(* What is seen changes gently too, as far as no channel overflows: the    *)
(* factors are drawn once, and the cut-off loses less than one.            *)
THEOREM LedsChangeGently == Spec => LedsGently
<1>1. AInv /\ [Next]_vars
        => [LET p == data.pattern_data
                q == data'.pattern_data
            IN  call' = "run" /\ p.frames > 0 /\ (\A n \in DOMAIN p.colors : ~dark(p.colors[n]))
                  => \A i \in DOMAIN data.leds, ch \in Channels :
                       \/ \E n \in DOMAIN p.colors :
                            overflowed(p, p.colors[n][ch]) \/ overflowed(p, q.colors[n][ch])
                       \/ LET most == ((RAND_COLOR_THRESHOLD * share(p, i)) \div 100) + 1
                          IN  /\ data'.leds[i][ch] <= data.leds[i][ch] + most
                              /\ data.leds[i][ch] <= data'.leds[i][ch] + most]_vars
  <2> DEFINE p == data.pattern_data
             q == data'.pattern_data
             most(i) == ((RAND_COLOR_THRESHOLD * share(p, i)) \div 100) + 1
  <2> SUFFICES ASSUME AInv, Next, call' = "run", p.frames > 0,
                      \A n \in DOMAIN p.colors : ~dark(p.colors[n]),
                      NEW i \in DOMAIN data.leds, NEW ch \in Channels,
                      ~ \E n \in DOMAIN p.colors :
                          overflowed(p, p.colors[n][ch]) \/ overflowed(p, q.colors[n][ch])
               PROVE  /\ data'.leds[i][ch] <= data.leds[i][ch] + most(i)
                      /\ data.leds[i][ch] <= data'.leds[i][ch] + most(i)
    OBVIOUS
  <2>1. Run /\ p.frames # 0
    BY DEF Next, Free, New, SetPattern
  <2>2. PICK colors \in new_colors(p, p.kind) : q = framed(p, colors)
    BY <2>1, RunPaints DEF AInv
  <2>3. IsBlock(p) /\ HasColors(p) /\ Shows(p, data.leds)
    BY <2>1 DEF AInv, PInv, Good, IsStruct, Painted
  <2>4. Shows(q, data'.leds)
    BY <2>1, RunPaints DEF AInv
  <2>5. q.kind = p.kind /\ q.colors = colors /\ q.factors = p.factors
    BY <2>2, <2>3 DEF framed, IsBlock, BlockFields
  <2> DEFINE was == data.leds[i][ch]
             is  == data'.leds[i][ch]
  <2> HIDE DEF p, q
  <2>6. ASSUME NEW n \in DOMAIN p.colors
        PROVE  /\ p.colors[n][ch] \in 0 .. MAX /\ q.colors[n][ch] \in 0 .. MAX
               /\ p.colors[n][ch] <= q.colors[n][ch] + RAND_COLOR_THRESHOLD
               /\ q.colors[n][ch] <= p.colors[n][ch] + RAND_COLOR_THRESHOLD
    <3>1. /\ p.colors[n] \in Colors /\ colors[n] \in Colors
          /\ colors[n] \in random_near_color(p.colors[n])
      BY <2>2, <2>3, NewColors DEF p
    <3>2. gentle(p.colors[n], colors[n])
      BY <3>1, Neighbours
    <3> QED BY <2>5, <3>1, <3>2 DEF gentle, Colors
  <2>7. CASE p.kind = AMBIENT_NORMAL
    <3>1. DOMAIN p.colors = {1} /\ p.factors \in [LEDs -> Factors]
      BY <2>3, <2>7 DEF HasColors
    <3>2. i \in LEDs
      BY <2>3, <2>7 DEF Shows, p
    <3> DEFINE v == p.colors[1][ch]
               w == q.colors[1][ch]
               f == p.factors[i]
    <3>3. f \in Nat
      <4>1. f \in Factors
        BY <3>1, <3>2
      <4>2. f \in 75 .. 124
        BY <4>1, PatternsAssumption
      <4> QED BY <4>2
    <3>4. /\ v \in 0 .. MAX /\ w \in 0 .. MAX
          /\ v <= w + RAND_COLOR_THRESHOLD /\ w <= v + RAND_COLOR_THRESHOLD
      BY <2>6, <3>1
    <3>5. v * f < (MAX + 1) * 100 /\ w * f < (MAX + 1) * 100
      <4>1. ~(v * f >= (MAX + 1) * 100) /\ ~(w * f >= (MAX + 1) * 100)
        BY <2>7, <3>1, <3>2 DEF overflowed, p, q
      <4>2. v * f \in Int /\ w * f \in Int /\ (MAX + 1) * 100 \in Int
        <5>1. v \in Int /\ w \in Int /\ MAX \in Int
          BY <3>4, ColorsAssumption
        <5> HIDE DEF v, w, f
        <5> QED BY <3>3, <5>1
      <4> QED BY <4>1, <4>2
    <3>6. IsCut(was, v * f, 100)
      BY <2>3, <2>7, <3>2, <3>5 DEF Shows
    <3>7. IsCut(is, w * f, 100)
      BY <2>4, <2>5, <2>7, <3>2, <3>5 DEF Shows
    <3> HIDE DEF v, w, f, was, is
    <3> DEFINE m == ((RAND_COLOR_THRESHOLD * f) \div 100) + 1
    <3>8. is <= was + m /\ was <= is + m
      BY <3>3, <3>4, <3>6, <3>7, AdjacentMoves
    <3>9. most(i) = m
      BY <2>7 DEF share, f
    <3> QED BY <3>8, <3>9 DEF was, is
  <2>8. CASE p.kind = AMBIENT_GRADIENT
    <3> DEFINE n == LED_COUNT
               l == p.colors[1][ch]
               r == p.colors[2][ch]
               k == q.colors[1][ch]
               s == q.colors[2][ch]
               R == RAND_COLOR_THRESHOLD
    <3>1. DOMAIN p.colors = {1, 2}
      BY <2>3, <2>8 DEF HasColors
    <3>2. i \in LEDs
      BY <2>3, <2>8 DEF Shows, p
    <3>3. n \in Nat \ {0} /\ i \in 0 .. n - 1
      BY <3>2, PatternsAssumption DEF LEDs
    <3>4. /\ l \in 0 .. MAX /\ r \in 0 .. MAX /\ k \in 0 .. MAX /\ s \in 0 .. MAX
          /\ l <= k + R /\ r <= s + R /\ k <= l + R /\ s <= r + R
      BY <2>6, <3>1
    <3>5. IsCut(was, along(l, r, i, n), n)
      BY <2>3, <2>8, <3>2 DEF Shows
    <3>6. IsCut(is, along(k, s, i, n), n)
      BY <2>4, <2>5, <2>8, <3>2 DEF Shows
    <3> HIDE DEF l, r, k, s, n, was, is
    <3>7. was <= is + (R + 1)
      BY <3>3, <3>4, <3>5, <3>6, BetweenMoves
    <3>8. is <= was + (R + 1)
      BY <3>3, <3>4, <3>5, <3>6, BetweenMoves
    <3>9. most(i) = R + 1
      <4>1. share(p, i) = 100
        BY <2>8, PatternsAssumption DEF share
      <4>2. R \in Nat
        BY ColorsAssumption
      <4>3. (R * 100) \div 100 = R
        BY <4>2
      <4> QED BY <4>1, <4>3
    <3> QED BY <3>7, <3>8, <3>9 DEF was, is
  <2>9. CASE p.kind \notin Ambient
    <3>1. data.leds = <<>>
      BY <2>3, <2>9 DEF Shows, p
    <3> QED BY <3>1
  <2> QED BY <2>7, <2>8, <2>9 DEF Ambient
<1> QED BY <1>1, PaintInvariance, PTL DEF Spec, LedsGently
=============================================================================
