--------------------------- MODULE PianoWarProofs ---------------------------
(***************************************************************************)
(* That the arrays of led_update_piano_war stay coherent, that light comes *)
(* from keys only and that a frame acts exactly once on each burst, for a  *)
(* strip of any length and any number of keys.                             *)
(*                                                                         *)
(* Coherent is inductive from frame to frame.  Within a frame it holds     *)
(* after each LED that the loop visits, and no visit makes the sum of the  *)
(* sizes grow.  The loop and the sum are recursive functions: that such a  *)
(* function exists, and what is true of all its values, is shown for one   *)
(* value after the other, up to LED_COUNT.                                 *)
(***************************************************************************)
EXTENDS PianoWar, FiniteSetTheorems, NaturalsInduction, WellFoundedInduction, TLAPS

-----------------------------------------------------------------------------
(* What holds of 0, and of k + 1 when of k, holds of all up to n.          *)
LEMMA LeastExists ==
  ASSUME NEW S \in SUBSET Nat, S # {}
  PROVE  \E m \in S : \A k \in S : m <= k
<1> DEFINE R == OpToRel(<, Nat)
<1>1. IsWellFoundedOn(R, Nat)
  BY NatLessThanWellFounded
<1>2. PICK m \in S : \A y \in S : ~ (<<y, m>> \in R)
  <2> HIDE DEF R
  <2> QED BY <1>1, WFMin
<1>3. \A y \in S : ~(y < m)
  BY <1>2 DEF OpToRel
<1> QED BY <1>3

LEMMA UpTo ==
  ASSUME NEW n \in Nat, NEW Q, 0 \in Q, \A k \in 0 .. n - 1 : k \in Q => k + 1 \in Q
  PROVE  \A k \in 0 .. n : k \in Q
<1> DEFINE S == (0 .. n) \ Q
<1>1. CASE S = {}
  BY <1>1
<1>2. CASE S # {}
  <2>1. S \in SUBSET Nat
    OBVIOUS
  <2>2. PICK m \in S : \A k \in S : m <= k
    <3> HIDE DEF S
    <3> QED BY <1>2, <2>1, LeastExists
  <2>3. m # 0 /\ m \in 1 .. n /\ m \notin Q
    BY <2>2
  <2>4. m - 1 \in Q
    BY <2>2, <2>3
  <2>5. m - 1 \in 0 .. n - 1 /\ (m - 1) + 1 = m
    BY <2>3
  <2> QED BY <2>3, <2>4, <2>5
<1> QED BY <1>1, <1>2

-----------------------------------------------------------------------------
(* The sum of the sizes.                                                   *)
IsSum(f, s) ==
  f = [k \in 0 .. LED_COUNT |-> IF k = 0 THEN 0 ELSE f[k - 1] + s[k - 1]]

LEMMA SumExists ==
  ASSUME NEW s
  PROVE  \E f : IsSum(f, s)
<1> DEFINE Sums(n, f) == f = [k \in 0 .. n |-> IF k = 0 THEN 0 ELSE f[k - 1] + s[k - 1]]
           Q == {n \in 0 .. LED_COUNT : \E f : Sums(n, f)}
<1>0. LED_COUNT \in Nat
  BY WarAssumption
<1>1. 0 \in Q
  <2> DEFINE f == [k \in 0 .. 0 |-> 0]
  <2>1. f = [k \in 0 .. 0 |-> IF k = 0 THEN 0 ELSE f[k - 1] + s[k - 1]]
    OBVIOUS
  <2>2. \E g : Sums(0, g)
    BY <2>1
  <2> QED BY <1>0, <2>2
<1>2. ASSUME NEW n \in 0 .. LED_COUNT - 1, n \in Q PROVE n + 1 \in Q
  <2>1. PICK f : f = [k \in 0 .. n |-> IF k = 0 THEN 0 ELSE f[k - 1] + s[k - 1]]
    BY <1>2
  <2> DEFINE g == [k \in 0 .. n + 1 |-> IF k = n + 1 THEN f[n] + s[n] ELSE f[k]]
             h == [k \in 0 .. n + 1 |-> IF k = 0 THEN 0 ELSE g[k - 1] + s[k - 1]]
  <2>2. ASSUME NEW k \in 0 .. n + 1 PROVE g[k] = h[k]
    <3>1. CASE k = 0
      BY <1>0, <1>2, <2>1, <3>1
    <3>2. CASE k = n + 1
      BY <1>0, <1>2, <3>2
    <3>3. CASE k \in 1 .. n
      <4>1. f[k] = f[k - 1] + s[k - 1]
        BY <2>1, <3>3
      <4>2. g[k] = f[k] /\ g[k - 1] = f[k - 1]
        BY <1>0, <1>2, <3>3
      <4>3. h[k] = g[k - 1] + s[k - 1]
        BY <1>0, <1>2, <3>3
      <4> QED BY <4>1, <4>2, <4>3
    <3> QED BY <1>0, <1>2, <3>1, <3>2, <3>3
  <2>3. g = h
    BY <2>2
  <2>4. Sums(n + 1, g)
    BY <2>3
  <2> HIDE DEF g, h
  <2>5. \E x : Sums(n + 1, x)
    BY <2>4
  <2> QED BY <1>0, <1>2, <2>5
<1> HIDE DEF Q
<1>3. LED_COUNT \in Q
  BY <1>0, <1>1, <1>2, UpTo
<1> QED BY <1>3 DEF Q, IsSum

LEMMA TotalIs ==
  ASSUME NEW s
  PROVE  \E f : IsSum(f, s) /\ total(s) = f[LED_COUNT]
<1> DEFINE f == CHOOSE x : x = [k \in 0 .. LED_COUNT |-> IF k = 0 THEN 0 ELSE x[k - 1] + s[k - 1]]
<1>1. IsSum(f, s)
  BY SumExists, Zenon DEF IsSum
<1>2. total(s) = f[LED_COUNT]
  BY Zenon DEF total
<1> HIDE DEF f
<1> QED BY <1>1, <1>2

LEMMA SumStep ==
  ASSUME NEW f, NEW s, IsSum(f, s), NEW k \in 0 .. LED_COUNT
  PROVE  f[k] = IF k = 0 THEN 0 ELSE f[k - 1] + s[k - 1]
  BY DEF IsSum

(* Changing one size changes the sum by as much.                           *)
LEMMA TotalChanges ==
  ASSUME NEW s \in [LEDs -> Int], NEW i \in LEDs, NEW v \in Int
  PROVE  /\ total(s) \in Int
         /\ total([s EXCEPT ![i] = v]) = (total(s) - s[i]) + v
<1> DEFINE t == [s EXCEPT ![i] = v]
<1>0. LED_COUNT \in Nat /\ i \in 0 .. LED_COUNT - 1 /\ s[i] \in Int
  BY WarAssumption DEF LEDs
<1>1. PICK f : IsSum(f, s) /\ total(s) = f[LED_COUNT]
  BY TotalIs
<1>2. PICK g : IsSum(g, t) /\ total(t) = g[LED_COUNT]
  BY TotalIs
<1>3. \A k \in LEDs : t[k] = IF k = i THEN v ELSE s[k]
  OBVIOUS
<1> HIDE DEF t
<1> DEFINE Q == {k \in 0 .. LED_COUNT : /\ f[k] \in Int
                                        /\ g[k] = IF k > i THEN (f[k] - s[i]) + v ELSE f[k]}
<1>4. 0 \in Q
  <2>1. f[0] = 0 /\ g[0] = 0
    BY <1>0, <1>1, <1>2, SumStep
  <2> QED BY <1>0, <2>1
<1>5. ASSUME NEW k \in 0 .. LED_COUNT - 1, k \in Q PROVE k + 1 \in Q
  <2>1. k + 1 \in 0 .. LED_COUNT /\ k + 1 # 0 /\ (k + 1) - 1 = k /\ k \in LEDs /\ k \in Int
    BY <1>0 DEF LEDs
  <2>2. f[k + 1] = f[k] + s[k] /\ g[k + 1] = g[k] + t[k]
    BY <1>1, <1>2, <2>1, SumStep
  <2>3. s[k] \in Int /\ t[k] = IF k = i THEN v ELSE s[k]
    BY <1>3, <2>1
  <2>4. f[k] \in Int /\ g[k] = IF k > i THEN (f[k] - s[i]) + v ELSE f[k]
    BY <1>5
  <2>5. f[k + 1] \in Int
    BY <2>2, <2>3, <2>4
  <2>6. g[k + 1] = IF k + 1 > i THEN (f[k + 1] - s[i]) + v ELSE f[k + 1]
    <3>1. CASE k = i
      BY <1>0, <2>1, <2>2, <2>3, <2>4, <3>1
    <3>2. CASE k > i
      BY <1>0, <2>1, <2>2, <2>3, <2>4, <3>2
    <3>3. CASE k < i
      BY <1>0, <2>1, <2>2, <2>3, <2>4, <3>3
    <3> QED BY <1>0, <2>1, <3>1, <3>2, <3>3
  <2> QED BY <2>1, <2>5, <2>6
<1> HIDE DEF Q
<1>6. LED_COUNT \in Q
  BY <1>0, <1>4, <1>5, UpTo
<1> QED BY <1>0, <1>1, <1>2, <1>6 DEF Q, t

-----------------------------------------------------------------------------
(* A strip.                                                                *)
Fits(o, d, s) ==
  /\ o \in [LEDs -> {0, 1}] /\ d \in [LEDs -> {-1, 0, 1}] /\ s \in [LEDs -> Nat]
  /\ \A i \in LEDs : /\ o[i] = 1 <=> d[i] # 0
                     /\ o[i] = 1 <=> s[i] > 0

Good(st, sum) ==
  /\ Fits(st.occupied, st.direction, st.size) /\ st.locked \in [LEDs -> {0, 1}]
  /\ total(st.size) <= sum

(* A burst that is not sent on into its neighbour's place has one.         *)
LEMMA NeighbourExists ==
  ASSUME NEW st, NEW sum, Good(st, sum), NEW i \in LEDs, st.occupied[i] # 0, ~at_end(st, i)
  PROVE  i + st.direction[i] \in LEDs /\ i + st.direction[i] # i
<1> DEFINE d == st.direction[i]
<1>1. d \in {-1, 0, 1} /\ d # 0
  BY DEF Good, Fits
<1>2. LED_COUNT \in Nat /\ i \in 0 .. LED_COUNT - 1
  BY WarAssumption DEF LEDs
<1>3. ~(i = 0 /\ d = -1) /\ ~(i = LED_COUNT - 1 /\ d = 1)
  BY DEF at_end
<1> HIDE DEF d
<1>4. i + d \in 0 .. LED_COUNT - 1 /\ i + d # i
  BY <1>1, <1>2, <1>3
<1> QED BY <1>4 DEF d, LEDs

LEMMA ImpactIsGood ==
  ASSUME NEW st, NEW sum \in Int, Good(st, sum), NEW i \in LEDs, st.occupied[i] # 0
  PROVE  Good(impact(st, i), sum)
<1> DEFINE o == st.occupied
           d == st.direction
           s == st.size
           p == [o EXCEPT ![i] = IF s[i] = 1 THEN 0 ELSE 1]
           e == [d EXCEPT ![i] = IF s[i] = 1 THEN 0 ELSE -@]
           t == [s EXCEPT ![i] = @ - 1]
<1>1. /\ o \in [LEDs -> {0, 1}] /\ d \in [LEDs -> {-1, 0, 1}] /\ s \in [LEDs -> Nat]
      /\ \A k \in LEDs : (o[k] = 1 <=> d[k] # 0) /\ (o[k] = 1 <=> s[k] > 0)
      /\ st.locked \in [LEDs -> {0, 1}] /\ total(s) <= sum
  BY DEF Good, Fits
<1>2. o[i] = 1 /\ d[i] \in {-1, 1} /\ s[i] \in Nat \ {0}
  BY <1>1
<1>3. impact(st, i) = Strip(p, e, t, st.locked)
  BY DEF impact
<1> HIDE DEF o, d, s
<1>4. p \in [LEDs -> {0, 1}] /\ e \in [LEDs -> {-1, 0, 1}] /\ t \in [LEDs -> Nat]
  BY <1>1, <1>2
<1>5. ASSUME NEW k \in LEDs PROVE (p[k] = 1 <=> e[k] # 0) /\ (p[k] = 1 <=> t[k] > 0)
  <2>1. CASE k = i /\ s[i] = 1
    BY <1>1, <1>2, <2>1
  <2>2. CASE k = i /\ s[i] # 1
    <3>1. p[k] = 1 /\ t[k] = s[i] - 1 /\ e[k] = -d[i]
      BY <1>1, <2>2
    <3>2. -d[i] # 0 /\ s[i] - 1 > 0
      BY <1>2, <2>2
    <3> QED BY <3>1, <3>2
  <2>3. CASE k # i
    <3>1. p[k] = o[k] /\ e[k] = d[k] /\ t[k] = s[k]
      BY <1>1, <2>3
    <3> QED BY <1>1, <3>1
  <2> QED BY <2>1, <2>2, <2>3
<1>6. total(t) <= sum
  <2>1. s \in [LEDs -> Int] /\ s[i] - 1 \in Int /\ t = [s EXCEPT ![i] = s[i] - 1]
    BY <1>1, <1>2
  <2>2. total(s) \in Int /\ total(t) = (total(s) - s[i]) + (s[i] - 1)
    BY <2>1, TotalChanges
  <2> QED BY <1>1, <1>2, <2>2
<1> HIDE DEF p, e, t
<1>7. Fits(p, e, t)
  BY <1>4, <1>5 DEF Fits
<1> QED BY <1>1, <1>3, <1>6, <1>7 DEF Good, Strip

LEMMA MoveIsGood ==
  ASSUME NEW st, NEW sum \in Int, Good(st, sum), NEW i \in LEDs, st.occupied[i] # 0,
         ~at_end(st, i), st.occupied[i + st.direction[i]] # 1
  PROVE  Good(move(st, i), sum)
<1> DEFINE o == st.occupied
           d == st.direction
           s == st.size
           j == i + d[i]
           p == [o EXCEPT ![j] = 1, ![i] = 0]
           e == shifted(d, i, j)
           t == shifted(s, i, j)
           m == [st.locked EXCEPT ![j] = 1]
<1>1. /\ o \in [LEDs -> {0, 1}] /\ d \in [LEDs -> {-1, 0, 1}] /\ s \in [LEDs -> Nat]
      /\ \A k \in LEDs : (o[k] = 1 <=> d[k] # 0) /\ (o[k] = 1 <=> s[k] > 0)
      /\ st.locked \in [LEDs -> {0, 1}] /\ total(s) <= sum
  BY DEF Good, Fits
<1>2. o[i] = 1 /\ d[i] # 0 /\ s[i] > 0
  BY <1>1
<1>3. j \in LEDs /\ j # i
  BY NeighbourExists
<1>4. move(st, i) = Strip(p, e, t, m)
  BY DEF move
<1>5. o[j] # 1
  OBVIOUS
<1> HIDE DEF o, d, s, j
<1>6. o[j] = 0 /\ d[j] = 0 /\ s[j] = 0
  BY <1>1, <1>3, <1>5
<1>7. /\ p \in [LEDs -> {0, 1}] /\ e \in [LEDs -> {-1, 0, 1}] /\ t \in [LEDs -> Nat]
      /\ m \in [LEDs -> {0, 1}]
  BY <1>1, <1>3 DEF shifted
<1>8. ASSUME NEW k \in LEDs PROVE (p[k] = 1 <=> e[k] # 0) /\ (p[k] = 1 <=> t[k] > 0)
  <2>1. CASE k = i
    <3>1. p[k] = 0 /\ e[k] = 0 /\ t[k] = 0
      BY <1>1, <1>3, <2>1 DEF shifted
    <3> QED BY <3>1
  <2>2. CASE k = j
    <3>1. p[k] = 1 /\ e[k] = d[i] /\ t[k] = s[i]
      BY <1>1, <1>3, <2>2 DEF shifted
    <3> QED BY <1>2, <3>1
  <2>3. CASE k # i /\ k # j
    <3>1. p[k] = o[k] /\ e[k] = d[k] /\ t[k] = s[k]
      BY <1>1, <1>3, <2>3 DEF shifted
    <3> QED BY <1>1, <3>1
  <2> QED BY <2>1, <2>2, <2>3
<1>9. total(t) <= sum
  <2> DEFINE u == [s EXCEPT ![j] = s[i]]
  <2>1. s \in [LEDs -> Int] /\ s[i] \in Int /\ u \in [LEDs -> Int] /\ u[i] = s[i]
    BY <1>1, <1>3
  <2>2. t = [u EXCEPT ![i] = 0]
    BY <1>1, <1>3 DEF shifted
  <2>3. total(s) \in Int /\ total(u) = (total(s) - s[j]) + s[i]
    BY <1>3, <2>1, TotalChanges
  <2> HIDE DEF u, t
  <2>4. total([u EXCEPT ![i] = 0]) = (total(u) - u[i]) + 0
    <3>1. u \in [LEDs -> Int] /\ 0 \in Int
      BY <2>1
    <3> QED BY <3>1, TotalChanges
  <2> QED BY <1>1, <1>6, <2>1, <2>2, <2>3, <2>4
<1> HIDE DEF p, e, t, m
<1>10. Fits(p, e, t)
  BY <1>7, <1>8 DEF Fits
<1> QED BY <1>4, <1>7, <1>9, <1>10 DEF Good, Strip

LEMMA VisitIsGood ==
  ASSUME NEW st, NEW sum \in Int, Good(st, sum), NEW i \in LEDs
  PROVE  Good(visit(st, i), sum)
<1>1. CASE st.occupied[i] = 0 \/ st.locked[i] = 1
  BY <1>1 DEF visit
<1>2. CASE ~(st.occupied[i] = 0 \/ st.locked[i] = 1)
  <2>1. CASE at_end(st, i)
    <3>1. visit(st, i) = impact(st, i)
      BY <1>2, <2>1 DEF visit
    <3> QED BY <1>2, <3>1, ImpactIsGood
  <2>2. CASE ~at_end(st, i) /\ st.occupied[i + st.direction[i]] = 1
    <3>1. visit(st, i) = impact(st, i)
      BY <1>2, <2>2 DEF visit
    <3> QED BY <1>2, <3>1, ImpactIsGood
  <2>3. CASE ~at_end(st, i) /\ st.occupied[i + st.direction[i]] # 1
    <3>1. visit(st, i) = move(st, i)
      BY <1>2, <2>3 DEF visit
    <3> QED BY <1>2, <2>3, <3>1, MoveIsGood
  <2> QED BY <2>1, <2>2, <2>3
<1> QED BY <1>1, <1>2

-----------------------------------------------------------------------------
(* The loop.                                                               *)
Sweep(f) ==
  f = [k \in 0 .. LED_COUNT |->
         IF k = 0 THEN {Strip(occupied, direction, size, [i \in LEDs |-> 0])}
                  ELSE {visit(st, k - 1) : st \in f[k - 1]}]

LEMMA SweepExists == \E f : Sweep(f)
<1> DEFINE first == {Strip(occupied, direction, size, [i \in LEDs |-> 0])}
           Sweeps(n, f) == f = [k \in 0 .. n |-> IF k = 0 THEN first
                                                 ELSE {visit(st, k - 1) : st \in f[k - 1]}]
           Q == {n \in 0 .. LED_COUNT : \E f : Sweeps(n, f)}
<1> HIDE DEF first
<1>0. LED_COUNT \in Nat
  BY WarAssumption
<1>1. 0 \in Q
  <2> DEFINE f == [k \in 0 .. 0 |-> first]
  <2>1. f = [k \in 0 .. 0 |-> IF k = 0 THEN first ELSE {visit(st, k - 1) : st \in f[k - 1]}]
    OBVIOUS
  <2>2. \E g : Sweeps(0, g)
    BY <2>1
  <2> QED BY <1>0, <2>2
<1>2. ASSUME NEW n \in 0 .. LED_COUNT - 1, n \in Q PROVE n + 1 \in Q
  <2>1. PICK f : f = [k \in 0 .. n |-> IF k = 0 THEN first
                                       ELSE {visit(st, k - 1) : st \in f[k - 1]}]
    BY <1>2
  <2> DEFINE g == [k \in 0 .. n + 1 |-> IF k = n + 1 THEN {visit(st, n) : st \in f[n]} ELSE f[k]]
             h == [k \in 0 .. n + 1 |-> IF k = 0 THEN first
                                        ELSE {visit(st, k - 1) : st \in g[k - 1]}]
  <2>2. ASSUME NEW k \in 0 .. n + 1 PROVE g[k] = h[k]
    <3>1. CASE k = 0
      BY <1>0, <1>2, <2>1, <3>1
    <3>2. CASE k = n + 1
      <4>1. g[k] = {visit(st, n) : st \in f[n]} /\ g[k - 1] = f[n] /\ k - 1 = n
        BY <1>0, <1>2, <3>2
      <4>2. k # 0
        BY <1>0, <1>2, <3>2
      <4> HIDE DEF g
      <4>3. h[k] = {visit(st, k - 1) : st \in g[k - 1]}
        BY <4>2
      <4> QED BY <4>1, <4>3
    <3>3. CASE k \in 1 .. n
      <4>1. f[k] = {visit(st, k - 1) : st \in f[k - 1]}
        BY <2>1, <3>3
      <4>2. g[k] = f[k] /\ g[k - 1] = f[k - 1]
        BY <1>0, <1>2, <3>3
      <4>3. k # 0
        BY <1>0, <1>2, <3>3
      <4> HIDE DEF g
      <4>4. h[k] = {visit(st, k - 1) : st \in g[k - 1]}
        BY <4>3
      <4> QED BY <4>1, <4>2, <4>4
    <3> QED BY <1>0, <1>2, <3>1, <3>2, <3>3
  <2>3. g = h
    BY <2>2
  <2>4. Sweeps(n + 1, g)
    BY <2>3
  <2> HIDE DEF g, h
  <2>5. \E x : Sweeps(n + 1, x)
    BY <2>4
  <2> QED BY <1>0, <1>2, <2>5
<1> HIDE DEF Q
<1>3. LED_COUNT \in Q
  BY <1>0, <1>1, <1>2, UpTo
<1> QED BY <1>3 DEF Q, Sweep, first

LEMMA SweepStep ==
  ASSUME NEW k \in 0 .. LED_COUNT
  PROVE  after[k] = IF k = 0 THEN {Strip(occupied, direction, size, [i \in LEDs |-> 0])}
                    ELSE {visit(st, k - 1) : st \in after[k - 1]}
<1>1. Sweep(after)
  BY SweepExists, Zenon DEF Sweep, after
<1> QED BY <1>1 DEF Sweep

LEMMA SweptIsGood ==
  ASSUME Fits(occupied, direction, size), NEW st \in swept
  PROVE  Good(st, total(size))
<1> DEFINE Q == {k \in 0 .. LED_COUNT : \A x \in after[k] : Good(x, total(size))}
<1>0. LED_COUNT \in Nat
  BY WarAssumption
<1>1. total(size) \in Int
  <2>1. size \in [LEDs -> Int] /\ 0 \in LEDs /\ 0 \in Int
    BY WarAssumption DEF Fits, LEDs
  <2> QED BY <2>1, TotalChanges
<1>2. 0 \in Q
  <2>1. after[0] = {Strip(occupied, direction, size, [i \in LEDs |-> 0])}
    <3>1. 0 \in 0 .. LED_COUNT
      BY <1>0
    <3> QED BY <3>1, SweepStep
  <2>2. Good(Strip(occupied, direction, size, [i \in LEDs |-> 0]), total(size))
    <3>1. [i \in LEDs |-> 0] \in [LEDs -> {0, 1}] /\ total(size) <= total(size)
      BY <1>1
    <3> QED BY <3>1 DEF Good, Strip
  <2> QED BY <1>0, <2>1, <2>2
<1>3. ASSUME NEW k \in 0 .. LED_COUNT - 1, k \in Q PROVE k + 1 \in Q
  <2>1. k + 1 \in 0 .. LED_COUNT /\ k + 1 # 0 /\ (k + 1) - 1 = k /\ k \in LEDs
    BY <1>0 DEF LEDs
  <2>2. after[k + 1] = {visit(x, k) : x \in after[k]}
    BY <2>1, SweepStep
  <2>3. ASSUME NEW x \in after[k] PROVE Good(visit(x, k), total(size))
    BY <1>1, <1>3, <2>1, VisitIsGood
  <2> QED BY <2>1, <2>2, <2>3
<1>4. LED_COUNT \in Q
  <2> HIDE DEF Q
  <2> QED BY <1>0, <1>2, <1>3, UpTo
<1> QED BY <1>4 DEF swept

-----------------------------------------------------------------------------
(* The new bursts.                                                         *)
LEMMA CountsAreSplit ==
  ASSUME NEW n \in Nat, NEW ns \in [1 .. n -> Notes]
  PROVE  /\ left_count(ns) \in Nat /\ right_count(ns) \in Nat
         /\ left_count(ns) + right_count(ns) = Len(ns)
<1>1. ns \in Seq(Notes) /\ Len(ns) = n /\ DOMAIN ns = 1 .. n
  OBVIOUS
<1> DEFINE S == {k \in DOMAIN ns : ns[k] - 21 < 44}
<1>2. IsFiniteSet(1 .. n) /\ Cardinality(1 .. n) = n
  <2>1. 1 \in Int /\ n \in Int /\ (IF 1 > n THEN 0 ELSE n - 1 + 1) = n
    OBVIOUS
  <2> QED BY <2>1, FS_Interval
<1>3. S \in SUBSET (1 .. n)
  BY <1>1
<1> HIDE DEF S
<1>4. IsFiniteSet(S) /\ Cardinality(S) <= n /\ Cardinality(S) \in Nat
  <2>1. IsFiniteSet(S) /\ Cardinality(S) <= Cardinality(1 .. n)
    BY <1>2, <1>3, FS_Subset
  <2>2. Cardinality(S) \in Nat
    BY <2>1, FS_CardinalityType
  <2> QED BY <1>2, <2>1, <2>2
<1>5. left_count(ns) = Cardinality(S)
  BY DEF left_count, S
<1>6. right_count(ns) = n - Cardinality(S)
  BY <1>1, <1>5 DEF right_count
<1> QED BY <1>1, <1>4, <1>5, <1>6

LEMMA EnterFits ==
  ASSUME NEW o, NEW d, NEW s, Fits(o, d, s), NEW i \in LEDs, NEW n \in Nat,
         NEW v \in {-1, 1}
  PROVE  /\ Fits(enter(o, i, n, 1), enter(d, i, n, v), enter(s, i, n, n))
         /\ total(enter(s, i, n, n)) <= total(s) + n
         /\ total(s) \in Int /\ total(enter(s, i, n, n)) \in Int
<1>1. s \in [LEDs -> Int] /\ s[i] \in Nat
  BY DEF Fits
<1>2. total(s) \in Int /\ total([s EXCEPT ![i] = n]) = (total(s) - s[i]) + n
  <2>1. n \in Int
    OBVIOUS
  <2> QED BY <1>1, <2>1, TotalChanges
<1>3. CASE n = 0
  BY <1>2, <1>3 DEF enter
<1>4. CASE n # 0
  <2> DEFINE p == [o EXCEPT ![i] = 1]
             e == [d EXCEPT ![i] = v]
             t == [s EXCEPT ![i] = n]
  <2>1. /\ o \in [LEDs -> {0, 1}] /\ d \in [LEDs -> {-1, 0, 1}] /\ s \in [LEDs -> Nat]
        /\ \A k \in LEDs : (o[k] = 1 <=> d[k] # 0) /\ (o[k] = 1 <=> s[k] > 0)
    BY DEF Fits
  <2>2. p \in [LEDs -> {0, 1}] /\ e \in [LEDs -> {-1, 0, 1}] /\ t \in [LEDs -> Nat]
    BY <2>1
  <2>3. ASSUME NEW k \in LEDs PROVE (p[k] = 1 <=> e[k] # 0) /\ (p[k] = 1 <=> t[k] > 0)
    <3>1. CASE k = i
      <4>1. p[k] = 1 /\ e[k] = v /\ t[k] = n
        BY <2>1, <3>1
      <4> QED BY <1>4, <4>1
    <3>2. CASE k # i
      <4>1. p[k] = o[k] /\ e[k] = d[k] /\ t[k] = s[k]
        BY <2>1, <3>2
      <4> QED BY <2>1, <4>1
    <3> QED BY <3>1, <3>2
  <2>4. enter(o, i, n, 1) = p /\ enter(d, i, n, v) = e /\ enter(s, i, n, n) = t
    BY <1>4 DEF enter
  <2>5. total(t) = (total(s) - s[i]) + n
    BY <1>2
  <2> HIDE DEF p, e, t
  <2>6. Fits(p, e, t)
    BY <2>2, <2>3 DEF Fits
  <2> QED BY <1>1, <1>2, <2>4, <2>5, <2>6
<1> QED BY <1>3, <1>4

-----------------------------------------------------------------------------
(* A frame.                                                                *)
LEMMA FrameFits ==
  ASSUME Fits(occupied, direction, size), NEW n \in Nat, NEW ns \in [1 .. n -> Notes], Frame(ns)
  PROVE  /\ Fits(occupied', direction', size')
         /\ total(size') <= total(size) + Len(struck')
<1> DEFINE l == left_count(ns)
           r == right_count(ns)
<1>1. PICK st \in swept :
        /\ occupied'  = both_ends(st.occupied, l, 1, r, 1)
        /\ direction' = both_ends(st.direction, l, 1, r, -1)
        /\ size'      = both_ends(st.size, l, l, r, r)
        /\ struck' = ns
  BY DEF Frame
<1>2. l \in Nat /\ r \in Nat /\ l + r = Len(ns)
  BY CountsAreSplit
<1> HIDE DEF l, r
<1>3. 0 \in LEDs /\ LED_COUNT - 1 \in LEDs
  BY WarAssumption DEF LEDs
<1>4. Good(st, total(size))
  BY SweptIsGood
<1> DEFINE o == enter(st.occupied, 0, l, 1)
           d == enter(st.direction, 0, l, 1)
           s == enter(st.size, 0, l, l)
<1>5. Fits(st.occupied, st.direction, st.size) /\ total(st.size) <= total(size)
  BY <1>4 DEF Good
<1>6. /\ Fits(o, d, s) /\ total(s) <= total(st.size) + l
      /\ total(st.size) \in Int /\ total(s) \in Int
  BY <1>2, <1>3, <1>5, EnterFits
<1>7. /\ occupied' = enter(o, LED_COUNT - 1, r, 1)
      /\ direction' = enter(d, LED_COUNT - 1, r, -1)
      /\ size' = enter(s, LED_COUNT - 1, r, r)
  BY <1>1 DEF both_ends
<1> HIDE DEF o, d, s
<1>8. Fits(occupied', direction', size') /\ total(size') <= total(s) + r /\ total(size') \in Int
  BY <1>2, <1>3, <1>6, <1>7, EnterFits
<1>9. total(size) \in Int
  <2>1. size \in [LEDs -> Int] /\ 0 \in Int
    BY DEF Fits
  <2> QED BY <1>3, <2>1, TotalChanges
<1> QED BY <1>1, <1>2, <1>5, <1>6, <1>8, <1>9

LEMMA FramesOnly ==
  Fits(occupied, direction, size) /\ Next =>
    /\ Fits(occupied', direction', size')
    /\ total(size') <= total(size) + Len(struck')
<1> SUFFICES ASSUME Fits(occupied, direction, size), Next
             PROVE  /\ Fits(occupied', direction', size')
                    /\ total(size') <= total(size) + Len(struck')
  OBVIOUS
<1>1. PICK n \in 0 .. MaxKeys : \E ns \in [1 .. n -> Notes] : Frame(ns)
  BY DEF Next
<1>2. n \in Nat
  BY WarAssumption
<1> QED BY <1>1, <1>2, FrameFits

LEMMA Invariant == Spec => []Fits(occupied, direction, size)
<1>1. Init => Fits(occupied, direction, size)
  BY DEF Init, Fits
<1>2. Fits(occupied, direction, size) /\ [Next]_vars => Fits(occupied, direction, size)'
  <2>1. Fits(occupied, direction, size) /\ UNCHANGED vars => Fits(occupied, direction, size)'
    BY DEF Fits, vars
  <2> QED BY <2>1, FramesOnly DEF Fits
<1> QED BY <1>1, <1>2, PTL DEF Spec

(* The three arrays of led_update_piano_war tell the same story after each *)
(* frame: a burst has a direction and a positive size, other LEDs neither. *)
THEOREM StaysCoherent == Spec => []Coherent
<1>1. Fits(occupied, direction, size) => Coherent
  BY DEF Fits, Coherent
<1> QED BY <1>1, Invariant, PTL

(* A frame adds at most one unit of light per key struck.                  *)
THEOREM LightComesFromKeys == Spec => OneUnitPerKey
<1>1. Fits(occupied, direction, size) /\ [Next]_vars
        => [total(size') <= total(size) + Len(struck')]_vars
  BY FramesOnly
<1> QED BY <1>1, Invariant, PTL DEF Spec, OneUnitPerKey

-----------------------------------------------------------------------------
(* Each burst once.  Here is the loop halfway: it has come to LED k, and   *)
(* free are the bursts that it has sent on.                                *)
through(free, k) == {i \in surviving(free) : i < k}

Acted(st, free, k) ==
  LET there == through(free, k)
  IN  /\ free \in SUBSET {i \in lit : i < k}
      /\ \A i \in there : lands(free, i) \in LEDs
      /\ \A p \in LEDs : st.occupied[p] = 1 <=> \/ \E i \in there : lands(free, i) = p
                                                \/ p >= k /\ p \in lit
      /\ \A i \in there :
           LET p == lands(free, i)
           IN  IF i \in free THEN st.direction[p] = direction[i] /\ st.size[p] = size[i]
                             ELSE st.direction[p] = -direction[i] /\ st.size[p] = size[i] - 1
      /\ \A i, j \in there : i < j => lands(free, i) < lands(free, j)
      /\ \A i \in there : lands(free, i) >= k => st.locked[lands(free, i)] = 1
      /\ \A p \in lit : p >= k => /\ st.direction[p] = direction[p] /\ st.size[p] = size[p]
                                  /\ st.locked[p] = 0
      /\ \A i \in there : lands(free, i) <= k

LEMMA LitFits ==
  ASSUME Fits(occupied, direction, size), NEW i \in lit
  PROVE  /\ i \in LEDs /\ i \in 0 .. LED_COUNT - 1 /\ LED_COUNT \in Nat
         /\ occupied[i] = 1 /\ direction[i] \in {-1, 1} /\ size[i] \in Nat \ {0}
  BY WarAssumption DEF Fits, lit, LEDs

(* An LED without a burst of its own is passed over.                       *)
LEMMA PassedOver ==
  ASSUME Fits(occupied, direction, size), NEW st, NEW free, NEW k \in LEDs,
         Acted(st, free, k), k \notin lit
  PROVE  /\ st.occupied[k] # 1 \/ st.locked[k] = 1
         /\ Acted(st, free, k + 1)
<1>1. k \in Nat /\ lit \subseteq LEDs /\ LEDs \subseteq Nat
  BY WarAssumption DEF LEDs, lit
<1>2. \A i \in LEDs : i < k + 1 <=> i < k \/ i = k
  BY <1>1
<1>3. through(free, k + 1) = through(free, k)
  BY <1>1, <1>2 DEF through, surviving
<1>4. \A p \in LEDs : (p >= k /\ p \in lit) <=> (p >= k + 1 /\ p \in lit)
  BY <1>1
<1>5. {i \in lit : i < k + 1} = {i \in lit : i < k}
  BY <1>1, <1>2
<1>6. \A i \in through(free, k) : lands(free, i) \in Nat /\ lands(free, i) <= k
  BY <1>1 DEF Acted
<1>7. \A i \in through(free, k) : lands(free, i) <= k + 1 /\ ~(lands(free, i) >= k + 1)
  BY <1>1, <1>6
<1>8. st.occupied[k] # 1 \/ st.locked[k] = 1
  BY <1>1 DEF Acted
<1> QED BY <1>1, <1>3, <1>4, <1>5, <1>7, <1>8 DEF Acted

(* What the loop finds at an LED with a burst.                             *)
LEMMA Found ==
  ASSUME Fits(occupied, direction, size), NEW st, NEW free, NEW k \in lit, Acted(st, free, k)
  PROVE  /\ st.occupied[k] = 1 /\ st.locked[k] = 0
         /\ st.direction[k] = direction[k] /\ st.size[k] = size[k]
         /\ \A i \in through(free, k) : lands(free, i) \in Nat /\ lands(free, i) < k
<1>1. k \in LEDs /\ k \in Nat /\ k >= k
  BY LitFits
<1>2. /\ st.occupied[k] = 1 /\ st.locked[k] = 0
      /\ st.direction[k] = direction[k] /\ st.size[k] = size[k]
  BY <1>1 DEF Acted
<1>3. ASSUME NEW i \in through(free, k)
      PROVE  lands(free, i) \in Nat /\ lands(free, i) < k
  <2>1. lands(free, i) \in LEDs /\ lands(free, i) <= k
    BY DEF Acted
  <2>2. lands(free, i) \in Nat
    BY <2>1, WarAssumption DEF LEDs
  <2>3. lands(free, i) # k
    BY <1>1, <1>2, <2>2 DEF Acted
  <2> QED BY <1>1, <2>1, <2>2, <2>3
<1> QED BY <1>2, <1>3

(* A burst that meets something.                                           *)
LEMMA Bounces ==
  ASSUME Fits(occupied, direction, size), NEW st, NEW sum, Good(st, sum),
         NEW free, NEW k \in lit, Acted(st, free, k)
  PROVE  Acted(impact(st, k), free, k + 1)
<1> DEFINE there == through(free, k)
           next  == through(free, k + 1)
           to(i) == lands(free, i)
           new   == impact(st, k)
<1>0. /\ k \in LEDs /\ k \in Nat /\ LED_COUNT \in Nat /\ lit \subseteq LEDs /\ LEDs \subseteq Nat
      /\ direction[k] \in {-1, 1} /\ size[k] \in Nat \ {0}
  BY LitFits DEF lit, LEDs
<1>1. /\ st.occupied[k] = 1 /\ st.locked[k] = 0
      /\ st.direction[k] = direction[k] /\ st.size[k] = size[k]
  BY Found
<1>2. \A i \in there : to(i) \in LEDs /\ to(i) \in Nat /\ to(i) <= k /\ to(i) # k
  <2>1. ASSUME NEW i \in there PROVE to(i) \in LEDs /\ to(i) \in Nat /\ to(i) <= k /\ to(i) # k
    <3>1. to(i) \in LEDs
      BY DEF Acted
    <3>2. to(i) \in Nat /\ to(i) < k
      BY Found
    <3> QED BY <1>0, <3>1, <3>2
  <2> QED BY <2>1
<1>3. k \notin free /\ to(k) = k
  BY <1>0 DEF Acted, lands
<1>4. next = there \cup (IF size[k] > 1 THEN {k} ELSE {})
  <2>1. \A i \in LEDs : i < k + 1 <=> i < k \/ i = k
    BY <1>0
  <2>2. k \in surviving(free) <=> size[k] > 1
    BY <1>3 DEF surviving
  <2>3. surviving(free) \subseteq LEDs
    BY <1>0 DEF surviving
  <2> QED BY <2>1, <2>2, <2>3 DEF through
<1>5. /\ DOMAIN st.occupied = LEDs /\ DOMAIN st.direction = LEDs /\ DOMAIN st.size = LEDs
  BY DEF Good, Fits
<1>6. /\ new.occupied[k] = IF size[k] = 1 THEN 0 ELSE 1
      /\ new.direction[k] = IF size[k] = 1 THEN 0 ELSE -direction[k]
      /\ new.size[k] = size[k] - 1
      /\ new.locked = st.locked
      /\ \A p \in LEDs \ {k} : /\ new.occupied[p] = st.occupied[p]
                               /\ new.direction[p] = st.direction[p]
                               /\ new.size[p] = st.size[p]
  BY <1>0, <1>1, <1>5 DEF impact, Strip
<1> HIDE DEF new, to, there, next
<1>7. /\ free \in SUBSET {i \in lit : i < k + 1}
      /\ \A p \in lit : p >= k + 1 => p >= k /\ p # k
  <2>1. free \in SUBSET {i \in lit : i < k}
    BY DEF Acted
  <2>2. \A p \in lit : (p < k => p < k + 1) /\ (p >= k + 1 => p >= k /\ p # k)
    BY <1>0
  <2> QED BY <2>1, <2>2
<1>8. \A i \in next : to(i) \in LEDs /\ to(i) \in Nat /\ to(i) <= k
  BY <1>0, <1>2, <1>3, <1>4
<1>9. ASSUME NEW p \in LEDs
      PROVE  new.occupied[p] = 1 <=> (\E i \in next : to(i) = p) \/ (p >= k + 1 /\ p \in lit)
  <2>1. CASE p = k
    <3>1. ~(p >= k + 1) /\ \A i \in there : to(i) # p
      BY <1>0, <1>2, <2>1
    <3> QED BY <1>0, <1>3, <1>4, <1>6, <2>1, <3>1
  <2>2. CASE p # k
    <3>1. p >= k <=> p >= k + 1
      BY <1>0, <2>2
    <3>2. (\E i \in next : to(i) = p) <=> (\E i \in there : to(i) = p)
      BY <1>3, <1>4, <2>2
    <3>3. st.occupied[p] = 1 <=> (\E i \in there : to(i) = p) \/ (p >= k /\ p \in lit)
      BY DEF Acted, there, to
    <3> QED BY <1>6, <2>2, <3>1, <3>2, <3>3
  <2> QED BY <2>1, <2>2
<1>10. ASSUME NEW i \in next
       PROVE  IF i \in free THEN new.direction[to(i)] = direction[i] /\ new.size[to(i)] = size[i]
              ELSE new.direction[to(i)] = -direction[i] /\ new.size[to(i)] = size[i] - 1
  <2>1. CASE i \in there
    <3>1. to(i) \in LEDs \ {k}
      BY <1>2, <2>1
    <3>2. IF i \in free THEN st.direction[to(i)] = direction[i] /\ st.size[to(i)] = size[i]
          ELSE st.direction[to(i)] = -direction[i] /\ st.size[to(i)] = size[i] - 1
      BY <2>1 DEF Acted, there, to
    <3> QED BY <1>6, <3>1, <3>2
  <2>2. CASE i = k /\ size[k] > 1
    BY <1>3, <1>6, <2>2
  <2> QED BY <1>4, <2>1, <2>2
<1>11. ASSUME NEW i \in next, NEW j \in next, i < j PROVE to(i) < to(j)
  <2>1. CASE i \in there /\ j \in there
    BY <1>11, <2>1 DEF Acted, there, to
  <2>2. CASE j = k /\ i \in there
    BY <1>0, <1>2, <1>3, <2>2
  <2>3. CASE i = k /\ j \in there
    BY <1>0, <1>11, <2>3 DEF there, through, surviving
  <2> QED BY <1>0, <1>4, <1>11, <2>1, <2>2, <2>3
<1>12. \A i \in next : to(i) <= k + 1 /\ (to(i) >= k + 1 => new.locked[to(i)] = 1)
  BY <1>0, <1>8
<1>13. ASSUME NEW p \in lit, p >= k + 1
       PROVE  new.direction[p] = direction[p] /\ new.size[p] = size[p] /\ new.locked[p] = 0
  <2>1. p \in LEDs \ {k} /\ p >= k
    BY <1>0, <1>7, <1>13
  <2>2. st.direction[p] = direction[p] /\ st.size[p] = size[p] /\ st.locked[p] = 0
    BY <2>1 DEF Acted
  <2> QED BY <1>6, <2>1, <2>2
<1> QED BY <1>7, <1>8, <1>9, <1>10, <1>11, <1>12, <1>13 DEF Acted, new, next, to

(* A burst that goes on.                                                   *)
LEMMA GoesOn ==
  ASSUME Fits(occupied, direction, size), NEW st, NEW sum, Good(st, sum),
         NEW free, NEW k \in lit, Acted(st, free, k),
         ~at_end(st, k), st.occupied[k + st.direction[k]] # 1
  PROVE  Acted(move(st, k), free \cup {k}, k + 1)
<1> DEFINE sent  == free \cup {k}
           there == through(free, k)
           next  == through(sent, k + 1)
           at(i) == lands(free, i)
           to(i) == lands(sent, i)
           j     == k + direction[k]
           new   == move(st, k)
<1>0. /\ k \in LEDs /\ k \in Nat /\ LED_COUNT \in Nat /\ lit \subseteq LEDs /\ LEDs \subseteq Nat
      /\ direction[k] \in {-1, 1} /\ size[k] \in Nat \ {0}
  BY LitFits DEF lit, LEDs
<1>1. /\ st.occupied[k] = 1 /\ st.locked[k] = 0
      /\ st.direction[k] = direction[k] /\ st.size[k] = size[k]
  BY Found
<1>2. j \in LEDs /\ j \in {k - 1, k + 1} /\ j # k /\ j \in Nat /\ st.occupied[j] # 1
  <2>1. j \in LEDs
    BY <1>0, <1>1, NeighbourExists
  <2> QED BY <1>0, <1>1, <2>1
<1>3. /\ DOMAIN st.occupied = LEDs /\ DOMAIN st.direction = LEDs /\ DOMAIN st.size = LEDs
      /\ DOMAIN st.locked = LEDs
  BY DEF Good, Fits
<1>4. /\ new.occupied[j] = 1 /\ new.direction[j] = direction[k] /\ new.size[j] = size[k]
      /\ new.occupied[k] = 0 /\ new.locked[j] = 1
      /\ \A p \in LEDs \ {k, j} : /\ new.occupied[p] = st.occupied[p]
                                  /\ new.direction[p] = st.direction[p]
                                  /\ new.size[p] = st.size[p]
                                  /\ new.locked[p] = st.locked[p]
  <2>1. new = Strip([st.occupied EXCEPT ![j] = 1, ![k] = 0], shifted(st.direction, k, j),
                    shifted(st.size, k, j), [st.locked EXCEPT ![j] = 1])
    BY <1>1 DEF move
  <2> QED BY <1>0, <1>1, <1>2, <1>3, <2>1 DEF Strip, shifted
<1> HIDE DEF new
<1>5. /\ free \in SUBSET {i \in lit : i < k} /\ k \notin free
      /\ sent \in SUBSET {i \in lit : i < k + 1}
  <2>1. free \in SUBSET {i \in lit : i < k}
    BY DEF Acted
  <2>2. \A p \in lit : p < k => p < k + 1 /\ p # k
    BY <1>0
  <2> QED BY <1>0, <2>1, <2>2
<1>6. to(k) = j /\ \A i \in LEDs : i # k => to(i) = at(i)
  BY DEF lands
<1>7. next = there \cup {k} /\ k \notin there /\ \A i \in there : i \in LEDs /\ i < k
  <2>1. \A i \in LEDs : i < k + 1 <=> i < k \/ i = k
    BY <1>0
  <2>2. \A i \in LEDs : i # k => (i \in surviving(sent) <=> i \in surviving(free))
    BY DEF surviving
  <2>3. k \in surviving(sent) /\ surviving(sent) \subseteq LEDs /\ surviving(free) \subseteq LEDs
    BY <1>0 DEF surviving
  <2>4. ~(k < k) /\ k < k + 1
    BY <1>0
  <2>5. ASSUME NEW i \in LEDs PROVE i \in next <=> i \in there \cup {k}
    BY <2>1, <2>2, <2>3, <2>4 DEF through
  <2>6. next \subseteq LEDs /\ there \subseteq {i \in LEDs : i < k}
    BY <2>3 DEF through
  <2> HIDE DEF next, there
  <2> QED BY <1>0, <2>4, <2>5, <2>6
<1>8. ASSUME NEW i \in there
      PROVE  /\ to(i) = at(i) /\ to(i) \in LEDs /\ to(i) \in Nat
             /\ to(i) < k /\ to(i) # j /\ to(i) < j
  <2>1. at(i) \in LEDs /\ st.occupied[at(i)] = 1
    BY DEF Acted
  <2>2. at(i) \in Nat /\ at(i) < k
    BY Found
  <2>3. to(i) = at(i)
    BY <1>6, <1>7
  <2> HIDE DEF at, to
  <2>4. at(i) # j
    BY <1>2, <2>1
  <2> QED BY <1>0, <1>2, <2>1, <2>2, <2>3, <2>4
<1> HIDE DEF at, to, there, next, sent, j
<1>9. j \notin lit \/ ~(j >= k)
  BY <1>2 DEF Acted
<1>10. ASSUME NEW i \in next
       PROVE  to(i) \in LEDs /\ to(i) \in Nat /\ to(i) <= k + 1
  <2>1. CASE i \in there
    BY <1>0, <1>8, <2>1
  <2>2. CASE i = k
    BY <1>0, <1>2, <1>6, <2>2
  <2> QED BY <1>7, <2>1, <2>2
<1>11. ASSUME NEW p \in LEDs
       PROVE  new.occupied[p] = 1 <=> (\E i \in next : to(i) = p) \/ (p >= k + 1 /\ p \in lit)
  <2>1. CASE p = k
    <3>1. ~(p >= k + 1) /\ (\A i \in there : to(i) # p) /\ to(k) # p
      BY <1>0, <1>2, <1>6, <1>8, <2>1
    <3> QED BY <1>4, <1>7, <2>1, <3>1
  <2>2. CASE p = j
    BY <1>4, <1>6, <1>7, <2>2
  <2>3. CASE p # k /\ p # j
    <3>1. p >= k <=> p >= k + 1
      BY <1>0, <2>3
    <3>2. (\E i \in next : to(i) = p) <=> (\E i \in there : at(i) = p)
      BY <1>6, <1>7, <1>8, <2>3
    <3>3. st.occupied[p] = 1 <=> (\E i \in there : at(i) = p) \/ (p >= k /\ p \in lit)
      BY DEF Acted, there, at
    <3> QED BY <1>4, <2>3, <3>1, <3>2, <3>3
  <2> QED BY <2>1, <2>2, <2>3
<1>12. ASSUME NEW i \in next
       PROVE  IF i \in sent THEN new.direction[to(i)] = direction[i] /\ new.size[to(i)] = size[i]
              ELSE new.direction[to(i)] = -direction[i] /\ new.size[to(i)] = size[i] - 1
  <2>1. CASE i \in there
    <3>1. to(i) \in LEDs \ {k, j} /\ to(i) = at(i)
      BY <1>0, <1>8, <2>1
    <3>2. i \in sent <=> i \in free
      BY <1>7, <2>1 DEF sent
    <3>3. IF i \in free THEN st.direction[at(i)] = direction[i] /\ st.size[at(i)] = size[i]
          ELSE st.direction[at(i)] = -direction[i] /\ st.size[at(i)] = size[i] - 1
      BY <2>1 DEF Acted, there, at
    <3>4. new.direction[to(i)] = st.direction[at(i)] /\ new.size[to(i)] = st.size[at(i)]
      BY <1>4, <3>1
    <3> QED BY <3>2, <3>3, <3>4
  <2>2. CASE i = k
    BY <1>4, <1>6, <2>2 DEF sent
  <2> QED BY <1>7, <2>1, <2>2
<1>13. ASSUME NEW i \in next, NEW h \in next, i < h PROVE to(i) < to(h)
  <2>1. CASE i \in there /\ h \in there
    <3>1. at(i) < at(h)
      BY <1>13, <2>1 DEF Acted, there, at
    <3> QED BY <1>8, <2>1, <3>1
  <2>2. CASE i \in there /\ h = k
    BY <1>6, <1>8, <2>2
  <2>3. CASE i = k /\ h \in there
    BY <1>0, <1>7, <1>13, <2>3
  <2>4. CASE i = k /\ h = k
    BY <1>0, <1>13, <2>4
  <2> QED BY <1>7, <2>1, <2>2, <2>3, <2>4
<1>14. ASSUME NEW i \in next, to(i) >= k + 1 PROVE new.locked[to(i)] = 1
  <2>1. CASE i \in there
    BY <1>0, <1>8, <1>14, <2>1
  <2>2. CASE i = k
    BY <1>4, <1>6, <2>2
  <2> QED BY <1>7, <2>1, <2>2
<1>15. ASSUME NEW p \in lit, p >= k + 1
       PROVE  new.direction[p] = direction[p] /\ new.size[p] = size[p] /\ new.locked[p] = 0
  <2>1. p \in LEDs /\ p >= k /\ p # k
    BY <1>0, <1>15
  <2>2. p # j
    BY <1>9, <2>1
  <2>3. st.direction[p] = direction[p] /\ st.size[p] = size[p] /\ st.locked[p] = 0
    BY <2>1 DEF Acted
  <2> QED BY <1>4, <2>1, <2>2, <2>3
<1> QED BY <1>5, <1>10, <1>11, <1>12, <1>13, <1>14, <1>15 DEF Acted, next, to, sent, new

LEMMA VisitActs ==
  ASSUME Fits(occupied, direction, size), NEW st, NEW sum, Good(st, sum), NEW k \in LEDs,
         NEW free, Acted(st, free, k)
  PROVE  \E sent : Acted(visit(st, k), sent, k + 1)
<1>1. CASE k \notin lit
  <2>1. st.occupied[k] \in {0, 1} /\ Acted(st, free, k + 1)
    BY <1>1, PassedOver DEF Good, Fits
  <2>2. visit(st, k) = st
    BY <1>1, <2>1, PassedOver DEF visit
  <2> QED BY <2>1, <2>2
<1>2. CASE k \in lit
  <2>0. st.occupied[k] = 1 /\ st.locked[k] = 0
    BY <1>2, Found
  <2>1. CASE at_end(st, k) \/ st.occupied[k + st.direction[k]] = 1
    <3>1. visit(st, k) = impact(st, k)
      BY <2>0, <2>1 DEF visit
    <3>2. Acted(impact(st, k), free, k + 1)
      BY <1>2, Bounces
    <3> QED BY <3>1, <3>2
  <2>2. CASE ~at_end(st, k) /\ st.occupied[k + st.direction[k]] # 1
    <3>1. visit(st, k) = move(st, k)
      BY <2>0, <2>2 DEF visit
    <3>2. Acted(move(st, k), free \cup {k}, k + 1)
      BY <1>2, <2>2, GoesOn
    <3> QED BY <3>1, <3>2
  <2> QED BY <2>1, <2>2
<1> QED BY <1>1, <1>2

(* At the end of the loop it has acted on every burst.                     *)
LEMMA FrameActs ==
  ASSUME Fits(occupied, direction, size), NEW st \in swept
  PROVE  \E free : Acted(st, free, LED_COUNT)
<1> DEFINE sum == total(size)
           Q == {k \in 0 .. LED_COUNT :
                   \A x \in after[k] : Good(x, sum) /\ \E free : Acted(x, free, k)}
<1>0. LED_COUNT \in Nat
  BY WarAssumption
<1>1. sum \in Int
  <2>1. size \in [LEDs -> Int] /\ 0 \in LEDs /\ 0 \in Int
    BY WarAssumption DEF Fits, LEDs
  <2> QED BY <2>1, TotalChanges
<1>2. 0 \in Q
  <2> DEFINE first == Strip(occupied, direction, size, [i \in LEDs |-> 0])
  <2>1. after[0] = {first}
    <3>1. 0 \in 0 .. LED_COUNT
      BY <1>0
    <3> QED BY <3>1, SweepStep
  <2>2. Good(first, sum)
    <3>1. [i \in LEDs |-> 0] \in [LEDs -> {0, 1}] /\ total(size) <= total(size)
      BY <1>1
    <3> QED BY <3>1 DEF Good, Strip
  <2>3. Acted(first, {}, 0)
    <3>1. through({}, 0) = {}
      <4>1. \A i \in LEDs : ~(i < 0)
        BY <1>0 DEF LEDs
      <4> QED BY <4>1 DEF through, surviving, lit
    <3>2. \A p \in LEDs : p >= 0
      BY <1>0 DEF LEDs
    <3>3. \A p \in LEDs : first.occupied[p] = 1 <=> p >= 0 /\ p \in lit
      BY <3>2 DEF Strip, lit
    <3>4. \A p \in lit : /\ first.direction[p] = direction[p] /\ first.size[p] = size[p]
                         /\ first.locked[p] = 0
      BY DEF Strip, lit
    <3> HIDE DEF first
    <3> QED BY <3>1, <3>3, <3>4 DEF Acted
  <2> QED BY <1>0, <2>1, <2>2, <2>3
<1>3. ASSUME NEW k \in 0 .. LED_COUNT - 1, k \in Q PROVE k + 1 \in Q
  <2>1. k + 1 \in 0 .. LED_COUNT /\ k + 1 # 0 /\ (k + 1) - 1 = k /\ k \in LEDs
    BY <1>0 DEF LEDs
  <2>2. after[k + 1] = {visit(x, k) : x \in after[k]}
    BY <2>1, SweepStep
  <2>3. ASSUME NEW x \in after[k]
        PROVE  Good(visit(x, k), sum) /\ \E free : Acted(visit(x, k), free, k + 1)
    <3>1. Good(x, sum) /\ \E free : Acted(x, free, k)
      BY <1>3
    <3> HIDE DEF sum
    <3> QED BY <1>1, <2>1, <3>1, VisitIsGood, VisitActs
  <2> QED BY <2>1, <2>2, <2>3
<1>4. LED_COUNT \in Q
  <2> HIDE DEF Q
  <2> QED BY <1>0, <1>2, <1>3, UpTo
<1> QED BY <1>4 DEF swept

(* Whatever the bursts of a strip, a frame acts once on each of them: it   *)
(* goes on by one LED or bounces, and stays in its place among the others. *)
THEOREM EachBurstOnce == Spec => []ActsOnceOnEach
<1>1. Fits(occupied, direction, size) => ActsOnceOnEach
  <2> SUFFICES ASSUME Fits(occupied, direction, size), NEW st \in swept
               PROVE  \E free \in SUBSET lit :
                 /\ {p \in LEDs : st.occupied[p] = 1} = {lands(free, i) : i \in surviving(free)}
                 /\ \A i \in surviving(free) :
                      LET p == lands(free, i)
                      IN  IF i \in free
                          THEN st.direction[p] = direction[i] /\ st.size[p] = size[i]
                          ELSE st.direction[p] = -direction[i] /\ st.size[p] = size[i] - 1
                 /\ \A i, j \in surviving(free) : i < j => lands(free, i) < lands(free, j)
    BY DEF ActsOnceOnEach
  <2>1. PICK free : Acted(st, free, LED_COUNT)
    BY FrameActs
  <2>2. LED_COUNT \in Nat /\ \A i \in LEDs : i < LED_COUNT /\ ~(i >= LED_COUNT)
    BY WarAssumption DEF LEDs
  <2>3. through(free, LED_COUNT) = surviving(free) /\ free \in SUBSET lit
    BY <2>1, <2>2 DEF Acted, through, surviving, lit
  <2>4. /\ \A i \in surviving(free) : lands(free, i) \in LEDs
        /\ \A p \in LEDs : st.occupied[p] = 1 <=> \E i \in surviving(free) : lands(free, i) = p
    BY <2>1, <2>2, <2>3 DEF Acted
  <2>5. {p \in LEDs : st.occupied[p] = 1} = {lands(free, i) : i \in surviving(free)}
    BY <2>4
  <2> QED BY <2>1, <2>3, <2>5 DEF Acted
<1> QED BY <1>1, Invariant, PTL
=============================================================================
