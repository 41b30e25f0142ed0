------------------------------- MODULE Colors -------------------------------
(***************************************************************************)
(* The arithmetic on colours of src/led_patterns/color_utils.c, in         *)
(* integers of the width of a channel.  A colour is an unsigned int of     *)
(* three channels and, above them, a top byte that only the raw result of  *)
(* random() has: such a colour is not 0 even when it is black.             *)
(***************************************************************************)
EXTENDS Naturals

CONSTANTS
  Channels,               (* red, blue and green                             *)
  Top,                    (* the byte above them                             *)
  MAX,                    (* the largest value of a channel                  *)
  RAND_COLOR_THRESHOLD

ASSUME ColorsAssumption ==
  /\ Top \notin Channels
  /\ MAX \in Nat /\ RAND_COLOR_THRESHOLD \in 1 .. MAX

Colors == {c \in [Channels \cup {Top} -> 0 .. MAX] : c[Top] <= 1}
zero   == [ch \in Channels \cup {Top} |-> 0]
dark(c) == \A ch \in Channels : c[ch] = 0

(* color_from_channels                                                     *)
from_channels(f) == [ch \in Channels \cup {Top} |-> IF ch = Top THEN 0 ELSE f[ch]]

-----------------------------------------------------------------------------
(* random_near_color: each channel goes up or down by what random() gave,  *)
(* or stays when it would leave its byte or reach 0.  Variants, bugs that  *)
(* the checks must notice: it may reach 0; it may pass 0 and wrap.         *)
lowers_to_zero(v, d) == d < RAND_COLOR_THRESHOLD /\ v >= d
lowers_always(v, d)  == d < RAND_COLOR_THRESHOLD
lowers(v, d)         == d < RAND_COLOR_THRESHOLD /\ v > d

raises(v, d) == d > RAND_COLOR_THRESHOLD /\ v < MAX - (d - RAND_COLOR_THRESHOLD)

changed(v, d) ==
  (IF raises(v, d) THEN v + (d - RAND_COLOR_THRESHOLD)
   ELSE IF lowers(v, d) THEN (v + MAX + 1) - d ELSE v) % (MAX + 1)

random_near_color(c) ==
  {from_channels([ch \in Channels |-> changed(c[ch], d[ch])]) :
     d \in [Channels -> 0 .. 2 * RAND_COLOR_THRESHOLD - 1]}

(* adjacent_color and the gradient compute in doubles and cut the result   *)
(* off to an unsigned char.  x/n is the exact value; one that is whole may *)
(* come out a hair below it, and cutting off one that is too large is      *)
(* undefined: builds wrap it round, or saturate.                           *)
cut_off(x, n, below) == IF below /\ x > 0 /\ x % n = 0 THEN (x \div n) - 1 ELSE x \div n

to_uchar(v, wraps) == IF v <= MAX THEN v ELSE IF wraps THEN v % (MAX + 1) ELSE MAX

adjacent_color(c, percent, below, wraps) ==
  from_channels([ch \in Channels |-> to_uchar(cut_off(c[ch] * percent, 100, below), wraps)])

(* The colour at LED i of n between two colours: int + i * slope.          *)
(* Variant: the slope is the difference of two unsigned chars.             *)
along_unsigned(l, r, i, n) == (l * n) + (i * (((r + MAX + 1) - l) % (MAX + 1)))
along(l, r, i, n)          == (l * (n - i)) + (r * i)

between(left, right, i, n, below) ==
  from_channels([ch \in Channels |->
    to_uchar(cut_off(along(left[ch], right[ch], i, n), n, below /\ i > 0 /\ left[ch] # right[ch]), TRUE)])

(* What a colour becomes that is picked again at every frame: random()     *)
(* once, cut down to `picks', and from then on close to what it was.       *)
next_color(c, picks) == IF c = zero THEN picks ELSE random_near_color(c)
=============================================================================
