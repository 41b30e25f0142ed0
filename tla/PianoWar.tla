------------------------------ MODULE PianoWar ------------------------------
(***************************************************************************)
(* led_update_piano_war (src/led_patterns/piano.c): bursts of light travel *)
(* along the strip.  A key struck sends one in from its end of the strip,  *)
(* as big as the number of keys struck since the last frame; a burst loses *)
(* one unit of size and turns round whenever it meets the end of the strip *)
(* or another burst, and goes out at size 0.                               *)
(*                                                                         *)
(* One step is one frame.  Colours are left out: a burst is lit whatever   *)
(* its colour, and random_near_color changes nothing else.                 *)
(***************************************************************************)
EXTENDS Integers, Sequences, FiniteSets

CONSTANTS
  LED_COUNT,
  Notes,      (* bound: the MIDI notes struck in this instance               *)
  MaxKeys     (* bound: keys struck between two frames                       *)

ASSUME WarAssumption ==
  /\ LED_COUNT \in Nat /\ LED_COUNT >= 2
  /\ Notes \subseteq 21 .. 108
  /\ MaxKeys \in Nat

LEDs == 0 .. LED_COUNT - 1

VARIABLES
  occupied, direction, size,   \* the arrays of led_update_piano_war_data_t
  struck                       \* the notes popped by the last frame

vars == <<occupied, direction, size, struck>>

(* The strip while a frame goes through it; locked is cleared at its start. *)
Strip(o, d, s, l) == [occupied |-> o, direction |-> d, size |-> s, locked |-> l]

at_end(st, i) ==
  (i = 0 /\ st.direction[i] = -1) \/ (i = LED_COUNT - 1 /\ st.direction[i] = 1)

(* An impact: smaller and the other way round, or dead.  Variants, bugs    *)
(* the checks must notice: the dead keep their direction; nothing is lost. *)
impact_half_erased(st, i) ==
  Strip([st.occupied EXCEPT ![i] = IF st.size[i] = 1 THEN 0 ELSE 1],
        [st.direction EXCEPT ![i] = -@], [st.size EXCEPT ![i] = @ - 1], st.locked)
impact_lossless(st, i) ==
  Strip(st.occupied, [st.direction EXCEPT ![i] = -@], st.size, st.locked)

impact(st, i) ==
  Strip([st.occupied EXCEPT ![i] = IF st.size[i] = 1 THEN 0 ELSE 1],
        [st.direction EXCEPT ![i] = IF st.size[i] = 1 THEN 0 ELSE -@],
        [st.size EXCEPT ![i] = @ - 1], st.locked)

(* The burst is not visited again in its new place.  Variant: it is.       *)
shifted(f, i, j) == [f EXCEPT ![j] = f[i], ![i] = 0]

move_unlocked(st, i) ==
  LET j == i + st.direction[i]
  IN  Strip([st.occupied EXCEPT ![j] = 1, ![i] = 0], shifted(st.direction, i, j),
            shifted(st.size, i, j), st.locked)

move(st, i) ==
  LET j == i + st.direction[i]
  IN  Strip([st.occupied EXCEPT ![j] = 1, ![i] = 0], shifted(st.direction, i, j),
            shifted(st.size, i, j), [st.locked EXCEPT ![j] = 1])

visit(st, i) ==
  IF st.occupied[i] = 0 \/ st.locked[i] = 1 THEN st
  ELSE IF at_end(st, i) THEN impact(st, i)
  ELSE IF st.occupied[i + st.direction[i]] = 1 THEN impact(st, i)
  ELSE move(st, i)

(* The loop over the LEDs, left to right: the set of the one strip that    *)
(* there is after the first k (a set, so that TLC evaluates it once).      *)
after[k \in 0 .. LED_COUNT] ==
  IF k = 0 THEN {Strip(occupied, direction, size, [i \in LEDs |-> 0])}
           ELSE {visit(st, k - 1) : st \in after[k - 1]}

swept == after[LED_COUNT]

(* Keys of the left half come in from the left, the others from the right. *)
(* Variant: all of them.                                                   *)
left_count(ns)      == Cardinality({k \in DOMAIN ns : ns[k] - 21 < 44})
right_count_all(ns) == Len(ns)
right_count(ns)     == Len(ns) - left_count(ns)

(* A new burst takes the place of whatever is at its end of the strip.     *)
enter(f, i, n, v) == IF n = 0 THEN f ELSE [f EXCEPT ![i] = v]
both_ends(f, l, lv, r, rv) == enter(enter(f, 0, l, lv), LED_COUNT - 1, r, rv)

-----------------------------------------------------------------------------
Init ==
  /\ occupied = [i \in LEDs |-> 0]
  /\ direction = [i \in LEDs |-> 0]
  /\ size = [i \in LEDs |-> 0]
  /\ struck = <<>>

Frame(ns) ==
  LET l == left_count(ns)
      r == right_count(ns)
  IN  \E st \in swept :
      /\ occupied'  = both_ends(st.occupied, l, 1, r, 1)
      /\ direction' = both_ends(st.direction, l, 1, r, -1)
      /\ size'      = both_ends(st.size, l, l, r, r)
      /\ struck' = ns

Next == \E n \in 0 .. MaxKeys : \E ns \in [1 .. n -> Notes] : Frame(ns)

(* main's loop runs a frame after each usleep, with keys or without.       *)
Spec == Init /\ [][Next]_vars /\ WF_vars(Frame(<<>>))

-----------------------------------------------------------------------------
(* The three arrays always tell the same story: an LED is occupied exactly *)
(* when it has a direction and a positive size, so a burst never reads a   *)
(* neighbour outside the strip and never lives on at size 0.               *)
Coherent ==
  /\ occupied \in [LEDs -> {0, 1}]
  /\ direction \in [LEDs -> {-1, 0, 1}]
  /\ size \in [LEDs -> Nat]
  /\ \A i \in LEDs : /\ occupied[i] = 1 <=> direction[i] # 0
                     /\ occupied[i] = 1 <=> size[i] > 0

(* A frame in which the bursts of the LEDs in free could go on: where the  *)
(* burst that was at i is afterwards, and those that are still there.      *)
lit             == {i \in LEDs : occupied[i] = 1}
lands(free, i)  == IF i \in free THEN i + direction[i] ELSE i
surviving(free) == {i \in lit : i \in free \/ size[i] > 1}

(* A frame acts exactly once on every burst: each one moves one LED on or, *)
(* in its place, bounces; none overtakes, swallows or splits another.      *)
ActsOnceOnEach ==
  \A st \in swept : \E free \in SUBSET lit :
    /\ {p \in LEDs : st.occupied[p] = 1} = {lands(free, i) : i \in surviving(free)}
    /\ \A i \in surviving(free) :
         LET p == lands(free, i)
         IN  IF i \in free THEN st.direction[p] = direction[i] /\ st.size[p] = size[i]
                           ELSE st.direction[p] = -direction[i] /\ st.size[p] = size[i] - 1
    /\ \A i, j \in surviving(free) : i < j => lands(free, i) < lands(free, j)

total(s) ==
  LET sum[k \in 0 .. LED_COUNT] == IF k = 0 THEN 0 ELSE sum[k - 1] + s[k - 1]
  IN  sum[LED_COUNT]

(* Light comes from keys only: a frame adds at most one unit per key       *)
(* struck, whatever the collisions and the bursts it replaces.             *)
OneUnitPerKey == [][total(size') <= total(size) + Len(struck')]_vars

(* When no key is struck any more, the strip goes dark and stays dark.     *)
GoesDark == <>[](struck = <<>>) => <>[](\A i \in LEDs : occupied[i] = 0)
=============================================================================
