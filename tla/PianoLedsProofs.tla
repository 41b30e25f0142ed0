--------------------------- MODULE PianoLedsProofs ---------------------------
(***************************************************************************)
(* That piano_normal knows which keys are down and whether the pedal is,   *)
(* for any number of keys, whatever else the keyboard sends and however    *)
(* the bytes are cut up on their way.                                      *)
(*                                                                         *)
(* Agrees is about the end of the way.  The invariant is about all of it:  *)
(* the bytes of messages not applied yet, from the ones that the loop has  *)
(* popped to the ones on the wire, are one stream, in which every 144 and  *)
(* every 176 is followed by its two data bytes, and which, applied to what *)
(* the program knows, gives what the keyboard knows.  That is said without *)
(* applying it, by the last message of the stream about each key.          *)
(***************************************************************************)
EXTENDS PianoLeds, SequenceTheorems, TLAPS

-----------------------------------------------------------------------------
(* Byte streams.                                                           *)
Plain == 0 .. 253
Data  == 0 .. 127

(* A note-on or controller starts at each of its status bytes and is all   *)
(* there.                                                                  *)
Framed(s) ==
  \A p \in 1 .. Len(s) : s[p] \in {144, 176} =>
    /\ p + 2 <= Len(s) /\ s[p + 1] \in Data /\ s[p + 2] \in Data
    /\ s[p] = 144 => s[p + 1] - 21 \in LEDs

(* A message about d starts at p: a key, with st = 144, or the pedal.      *)
About(s, p, st, d) == s[p] = st /\ s[p + 1] = d
On(x)              == IF x > 0 THEN 1 ELSE 0

(* What is true of d after s, when h is before.                            *)
Yields(s, st, d, h, v) ==
  \/ h = v /\ \A p \in 1 .. Len(s) : ~About(s, p, st, d)
  \/ \E p \in 1 .. Len(s) : /\ About(s, p, st, d) /\ v = On(s[p + 2])
                            /\ \A q \in p + 1 .. Len(s) : ~About(s, q, st, d)

-----------------------------------------------------------------------------
(* The invariant.                                                          *)
popped  == IF status = 0 THEN IF pc = "popped" THEN <<buffer[1]>> ELSE <<>>
           ELSE IF left = 2 THEN <<status>>
           ELSE IF left = 1 THEN <<status, buffer[1]>>
           ELSE <<status, buffer[1], buffer[2]>>
pending == IF cpc = "push" THEN <<byte>> ELSE <<>>
stream  == popped \o (queue \o (pending \o wire))

TInv ==
  /\ held \in [LEDs -> {0, 1}] /\ pedal \in {0, 1} /\ wire \in Seq(Plain)
  /\ cpc \in {"start", "read", "push", "signal", "free", "exit"}
  /\ byte \in Bytes /\ (cpc = "push" => byte \in Plain)
  /\ queue \in Seq(Plain) /\ {closed, corrupted, exited} \subseteq BOOLEAN
  /\ pc \in {"init", "size", "pop_look", "pop_sleep", "pop_asleep", "popped", "render",
             "free_producer", "free_consumer", "deallocate", "exit"}
  /\ status \in {0, 144, 176} /\ buffer \in [1 .. 2 -> Plain] /\ buffer[2] \in Data
  /\ left \in 0 .. 2 /\ (status = 0 => left < 2)
  /\ key_pressed \in [LEDs -> {0, 1}] /\ key_sustain \in [LEDs -> {0, 1}] /\ sustain \in {0, 1}
  /\ led_states \in [LEDs -> 0 .. 254] /\ struck \subseteq LEDs
  /\ color \in {"unpicked", "black", "lit"}

(* Where the loop is, and how the process comes to its end.                *)
Control ==
  /\ pc \in {"init", "size", "render"} => status = 0
  /\ pc \in {"pop_sleep", "pop_asleep"} => status # 0
  /\ pc \in {"pop_look", "pop_sleep", "pop_asleep"} => left > 0
  /\ pc = "pop_look" /\ status = 0 => queue # <<>>
  /\ closed <=> cpc = "exit" \/ pc \in {"free_consumer", "deallocate", "exit"}
  /\ corrupted => closed

(* The lights of keys hit since the last frame survive one fading.         *)
Lights ==
  /\ \A i \in LEDs : key_pressed[i] = 1 => key_sustain[i] = 1
  /\ pc = "render" /\ sustain = 0 => key_sustain = key_pressed
  /\ pc = "render" /\ color # "black" => \A i \in struck : led_states[i] > 0
  /\ pc # "render" /\ color # "black" /\ ~gives_up => \A i \in struck : led_states[i] >= 3

(* Nothing gets lost, until main gives up or the collector has given up    *)
(* with bytes on the wire.                                                 *)
Lost == gives_up \/ (cpc = "exit" /\ queue = <<>> /\ wire # <<>>)

Tracked ==
  /\ Framed(stream)
  /\ pc = "popped" => left = 0
  /\ \A k \in LEDs : Yields(stream, 144, 21 + k, key_pressed[k], held[k])
  /\ Yields(stream, 176, 64, sustain, pedal)

IInv == TInv /\ Control /\ Lights /\ (Lost \/ Tracked)

-----------------------------------------------------------------------------
(* A message added at the end of a stream, or taken away at its front.     *)
Adds(s, m, t) ==
  /\ s \in Seq(Plain) /\ m \in Seq(Plain) /\ t \in Seq(Plain)
  /\ Len(t) = Len(s) + Len(m)
  /\ \A p \in 1 .. Len(s) : t[p] = s[p]
  /\ \A p \in 1 .. Len(m) : t[Len(s) + p] = m[p]

Takes(s, n, t) ==
  /\ s \in Seq(Plain) /\ t \in Seq(Plain) /\ n \in Nat
  /\ Len(s) = n + Len(t)
  /\ \A p \in 1 .. Len(t) : t[p] = s[n + p]

LEMMA ConcatAdds ==
  ASSUME NEW s \in Seq(Plain), NEW m \in Seq(Plain)
  PROVE  Adds(s, m, s \o m)
  BY DEF Adds

LEMMA ConcatTakes ==
  ASSUME NEW m \in Seq(Plain), NEW s \in Seq(Plain)
  PROVE  Takes(m \o s, Len(m), s)
  BY DEF Takes

LEMMA AddsFrames ==
  ASSUME NEW s, NEW m, NEW t, Adds(s, m, t), Framed(s), Framed(m)
  PROVE  Framed(t)
<1> SUFFICES ASSUME NEW p \in 1 .. Len(t), t[p] \in {144, 176}
             PROVE  /\ p + 2 <= Len(t) /\ t[p + 1] \in Data /\ t[p + 2] \in Data
                    /\ t[p] = 144 => t[p + 1] - 21 \in LEDs
  BY DEF Framed
<1>0. Len(s) \in Nat /\ Len(m) \in Nat
  BY DEF Adds
<1>1. CASE p <= Len(s)
  <2>1. p \in 1 .. Len(s) /\ t[p] = s[p]
    BY <1>0, <1>1 DEF Adds
  <2>2. /\ p + 2 <= Len(s) /\ s[p + 1] \in Data /\ s[p + 2] \in Data
        /\ s[p] = 144 => s[p + 1] - 21 \in LEDs
    BY <2>1 DEF Framed
  <2>3. p + 1 \in 1 .. Len(s) /\ p + 2 \in 1 .. Len(s)
    BY <1>0, <2>1, <2>2
  <2>4. t[p + 1] = s[p + 1] /\ t[p + 2] = s[p + 2]
    BY <2>3 DEF Adds
  <2> QED BY <1>0, <2>1, <2>2, <2>4 DEF Adds
<1>2. CASE ~(p <= Len(s))
  <2> DEFINE q == p - Len(s)
  <2>1. q \in 1 .. Len(m) /\ p = Len(s) + q
    BY <1>0, <1>2 DEF Adds
  <2> HIDE DEF q
  <2>2. t[p] = m[q]
    BY <2>1 DEF Adds
  <2>3. /\ q + 2 <= Len(m) /\ m[q + 1] \in Data /\ m[q + 2] \in Data
        /\ m[q] = 144 => m[q + 1] - 21 \in LEDs
    BY <2>1, <2>2 DEF Framed
  <2>4. q + 1 \in 1 .. Len(m) /\ q + 2 \in 1 .. Len(m)
        /\ p + 1 = Len(s) + (q + 1) /\ p + 2 = Len(s) + (q + 2)
    BY <1>0, <2>1, <2>3
  <2>5. t[p + 1] = m[q + 1] /\ t[p + 2] = m[q + 2]
    BY <2>4 DEF Adds
  <2> QED BY <1>0, <2>1, <2>2, <2>3, <2>5 DEF Adds
<1> QED BY <1>1, <1>2

LEMMA TakesFrames ==
  ASSUME NEW s, NEW n, NEW t, Takes(s, n, t), Framed(s)
  PROVE  Framed(t)
<1> SUFFICES ASSUME NEW p \in 1 .. Len(t), t[p] \in {144, 176}
             PROVE  /\ p + 2 <= Len(t) /\ t[p + 1] \in Data /\ t[p + 2] \in Data
                    /\ t[p] = 144 => t[p + 1] - 21 \in LEDs
  BY DEF Framed
<1>0. Len(s) \in Nat /\ Len(t) \in Nat /\ n \in Nat /\ Len(s) = n + Len(t)
  BY DEF Takes
<1>1. n + p \in 1 .. Len(s) /\ t[p] = s[n + p]
  BY <1>0 DEF Takes
<1>2. /\ (n + p) + 2 <= Len(s) /\ s[(n + p) + 1] \in Data /\ s[(n + p) + 2] \in Data
      /\ s[n + p] = 144 => s[(n + p) + 1] - 21 \in LEDs
  BY <1>1 DEF Framed
<1>3. /\ p + 1 \in 1 .. Len(t) /\ p + 2 \in 1 .. Len(t)
      /\ (n + p) + 1 = n + (p + 1) /\ (n + p) + 2 = n + (p + 2)
  BY <1>0, <1>2
<1>4. t[p + 1] = s[(n + p) + 1] /\ t[p + 2] = s[(n + p) + 2]
  BY <1>3 DEF Takes
<1> QED BY <1>1, <1>2, <1>3, <1>4

(* What a message yields comes after what the stream did.                  *)
LEMMA AddsYields ==
  ASSUME NEW s, NEW m, NEW t, Adds(s, m, t), Framed(s), NEW st \in {144, 176}, NEW d,
         NEW h, NEW v, NEW w, Yields(s, st, d, h, v), Yields(m, st, d, v, w),
         Framed(m)
  PROVE  Yields(t, st, d, h, w)
<1>0. Len(s) \in Nat /\ Len(m) \in Nat /\ Len(t) = Len(s) + Len(m)
  BY DEF Adds
<1>1. ASSUME NEW p \in 1 .. Len(s)
      PROVE  /\ About(t, p, st, d) <=> About(s, p, st, d)
             /\ About(s, p, st, d) => t[p + 2] = s[p + 2]
  <2>1. t[p] = s[p] /\ p \in 1 .. Len(t)
    BY <1>0 DEF Adds
  <2>2. CASE s[p] = st
    <3>1. p + 2 <= Len(s)
      BY <2>2 DEF Framed
    <3>2. p + 1 \in 1 .. Len(s) /\ p + 2 \in 1 .. Len(s)
      BY <1>0, <3>1
    <3>3. t[p + 1] = s[p + 1] /\ t[p + 2] = s[p + 2]
      BY <3>2 DEF Adds
    <3> QED BY <2>1, <3>3 DEF About
  <2>3. CASE s[p] # st
    BY <2>1, <2>3 DEF About
  <2> QED BY <2>2, <2>3
<1>2. ASSUME NEW p \in 1 .. Len(m)
      PROVE  /\ About(t, Len(s) + p, st, d) <=> About(m, p, st, d)
             /\ About(m, p, st, d) => t[(Len(s) + p) + 2] = m[p + 2]
  <2>1. t[Len(s) + p] = m[p]
    BY DEF Adds
  <2>2. CASE m[p] = st
    <3>1. p + 2 <= Len(m)
      BY <2>2 DEF Framed
    <3>2. p + 1 \in 1 .. Len(m) /\ p + 2 \in 1 .. Len(m)
          /\ (Len(s) + p) + 1 = Len(s) + (p + 1) /\ (Len(s) + p) + 2 = Len(s) + (p + 2)
      BY <1>0, <3>1
    <3>3. t[(Len(s) + p) + 1] = m[p + 1] /\ t[(Len(s) + p) + 2] = m[p + 2]
      BY <3>2 DEF Adds
    <3> QED BY <2>1, <3>3 DEF About
  <2>3. CASE m[p] # st
    BY <2>1, <2>3 DEF About
  <2> QED BY <2>2, <2>3
<1>3. \A q \in 1 .. Len(t) : q \in 1 .. Len(s) \/ \E p \in 1 .. Len(m) : q = Len(s) + p
  <2> TAKE q \in 1 .. Len(t)
  <2>1. ~(q <= Len(s)) => q - Len(s) \in 1 .. Len(m) /\ q = Len(s) + (q - Len(s))
    BY <1>0
  <2> QED BY <1>0, <2>1
<1>4. CASE v = w /\ \A p \in 1 .. Len(m) : ~About(m, p, st, d)
  <2>1. CASE h = v /\ \A p \in 1 .. Len(s) : ~About(s, p, st, d)
    BY <1>1, <1>2, <1>3, <1>4, <2>1 DEF Yields
  <2>2. ASSUME NEW p \in 1 .. Len(s), About(s, p, st, d), v = On(s[p + 2]),
               \A q \in p + 1 .. Len(s) : ~About(s, q, st, d)
        PROVE  Yields(t, st, d, h, w)
    <3>1. p \in 1 .. Len(t) /\ About(t, p, st, d) /\ w = On(t[p + 2])
      BY <1>0, <1>1, <1>4, <2>2
    <3>2. ASSUME NEW q \in p + 1 .. Len(t) PROVE ~About(t, q, st, d)
      <4>1. q \in 1 .. Len(t)
        BY <1>0
      <4>2. CASE q \in 1 .. Len(s)
        <5>1. q \in p + 1 .. Len(s)
          BY <1>0, <4>2
        <5> QED BY <1>1, <2>2, <4>2, <5>1
      <4>3. CASE \E r \in 1 .. Len(m) : q = Len(s) + r
        BY <1>2, <1>4, <4>3
      <4> QED BY <1>3, <4>1, <4>2, <4>3
    <3> QED BY <3>1, <3>2 DEF Yields
  <2> QED BY <2>1, <2>2 DEF Yields
<1>5. ASSUME NEW p \in 1 .. Len(m), About(m, p, st, d), w = On(m[p + 2]),
             \A q \in p + 1 .. Len(m) : ~About(m, q, st, d)
      PROVE  Yields(t, st, d, h, w)
  <2> DEFINE r == Len(s) + p
  <2>1. r \in 1 .. Len(t)
    BY <1>0
  <2>2. About(t, r, st, d) /\ w = On(t[r + 2])
    BY <1>2, <1>5
  <2>3. ASSUME NEW q \in r + 1 .. Len(t) PROVE ~About(t, q, st, d)
    <3> DEFINE x == q - Len(s)
    <3>1. x \in 1 .. Len(m) /\ x \in p + 1 .. Len(m) /\ q = Len(s) + x
      BY <1>0
    <3> HIDE DEF x
    <3>2. ~About(m, x, st, d)
      BY <1>5, <3>1
    <3> QED BY <1>2, <3>1, <3>2
  <2> HIDE DEF r
  <2> QED BY <2>1, <2>2, <2>3 DEF Yields
<1> QED BY <1>4, <1>5 DEF Yields

(* What is taken off the front has been applied, or says nothing.          *)
LEMMA TakesYields ==
  ASSUME NEW s, NEW n, NEW t, Takes(s, n, t), Framed(s), NEW st \in {144, 176}, NEW d,
         NEW h, NEW v, NEW w, Yields(s, st, d, h, v),
         \/ w = h /\ \A p \in 1 .. n : ~About(s, p, st, d)
         \/ /\ n > 0 /\ About(s, 1, st, d) /\ w = On(s[3])
            /\ \A p \in 2 .. n : ~About(s, p, st, d)
  PROVE  Yields(t, st, d, w, v)
<1>0. Len(s) \in Nat /\ Len(t) \in Nat /\ n \in Nat /\ Len(s) = n + Len(t)
  BY DEF Takes
<1>1. ASSUME NEW p \in 1 .. Len(t)
      PROVE  /\ About(t, p, st, d) <=> About(s, n + p, st, d)
             /\ About(s, n + p, st, d) => t[p + 2] = s[(n + p) + 2]
  <2>1. t[p] = s[n + p] /\ n + p \in 1 .. Len(s)
    BY <1>0 DEF Takes
  <2>2. CASE s[n + p] = st
    <3>1. (n + p) + 2 <= Len(s)
      BY <2>1, <2>2 DEF Framed
    <3>2. /\ p + 1 \in 1 .. Len(t) /\ p + 2 \in 1 .. Len(t)
          /\ (n + p) + 1 = n + (p + 1) /\ (n + p) + 2 = n + (p + 2)
      BY <1>0, <3>1
    <3>3. t[p + 1] = s[(n + p) + 1] /\ t[p + 2] = s[(n + p) + 2]
      BY <3>2 DEF Takes
    <3> QED BY <2>1, <3>3 DEF About
  <2>3. CASE s[n + p] # st
    BY <2>1, <2>3 DEF About
  <2> QED BY <2>2, <2>3
<1>2. CASE \A p \in 1 .. Len(s) : ~About(s, p, st, d)
  <2>1. h = v
    BY <1>2 DEF Yields
  <2>2. ~(n > 0 /\ About(s, 1, st, d))
    BY <1>0, <1>2
  <2>3. ASSUME NEW p \in 1 .. Len(t) PROVE ~About(t, p, st, d)
    <3>1. n + p \in 1 .. Len(s)
      BY <1>0
    <3> QED BY <1>1, <1>2, <3>1
  <2> QED BY <2>1, <2>2, <2>3 DEF Yields
<1>3. ASSUME NEW p \in 1 .. Len(s), About(s, p, st, d), v = On(s[p + 2]),
             \A q \in p + 1 .. Len(s) : ~About(s, q, st, d)
      PROVE  Yields(t, st, d, w, v)
  <2>1. CASE p <= n
    <3>1. w = v
      <4>1. CASE p = 1
        <5>1. 1 \in 1 .. n /\ 1 + 2 = 3
          BY <2>1, <4>1
        <5> QED BY <1>3, <4>1, <5>1
      <4>2. CASE p # 1
        <5>1. p \in 2 .. n /\ p \in 1 .. n
          BY <2>1, <4>2, <1>0
        <5> QED BY <1>3, <5>1
      <4> QED BY <4>1, <4>2
    <3>2. ASSUME NEW r \in 1 .. Len(t) PROVE ~About(t, r, st, d)
      <4>1. n + r \in p + 1 .. Len(s)
        BY <1>0, <2>1
      <4> QED BY <1>1, <1>3, <4>1
    <3> QED BY <3>1, <3>2 DEF Yields
  <2>2. CASE ~(p <= n)
    <3> DEFINE x == p - n
    <3>1. x \in 1 .. Len(t) /\ p = n + x
      BY <1>0, <2>2
    <3> HIDE DEF x
    <3>2. About(t, x, st, d) /\ v = On(t[x + 2])
      BY <1>1, <1>3, <3>1
    <3>3. ASSUME NEW r \in x + 1 .. Len(t) PROVE ~About(t, r, st, d)
      <4>1. n + r \in p + 1 .. Len(s) /\ r \in 1 .. Len(t)
        BY <1>0, <3>1
      <4> QED BY <1>1, <1>3, <4>1
    <3> QED BY <3>1, <3>2, <3>3 DEF Yields
  <2> QED BY <2>1, <2>2
<1> QED BY <1>2, <1>3 DEF Yields

-----------------------------------------------------------------------------
(* The messages of the keyboard.                                           *)
LEMMA KeyMessage ==
  ASSUME NEW k \in LEDs, NEW x \in Data
  PROVE  LET m == <<144, 21 + k, x>>
         IN  /\ m \in Seq(Plain) /\ Framed(m)
             /\ \A v : Yields(m, 144, 21 + k, v, On(x))
             /\ \A j \in LEDs \ {k} : \A v : Yields(m, 144, 21 + j, v, v)
             /\ \A v : Yields(m, 176, 64, v, v)
<1> DEFINE m == <<144, 21 + k, x>>
<1>0. LED_COUNT \in 1 .. 88 /\ k \in 0 .. LED_COUNT - 1
  BY PianoAssumption DEF LEDs
<1>1. 144 \in Plain /\ 21 + k \in Plain /\ 21 + k \in Data /\ x \in Plain /\ k \in Int
      /\ (21 + k) - 21 = k
  BY <1>0 DEF Plain, Data
<1>2. m \in Seq(Plain) /\ Len(m) = 3 /\ m[1] = 144 /\ m[2] = 21 + k /\ m[3] = x
  BY <1>1
<1> HIDE DEF m
<1>3. m[2] \notin {144, 176} /\ m[3] \notin {144, 176}
  BY <1>1, <1>2 DEF Data
<1>4. \A p \in 1 .. Len(m) : p = 1 \/ p = 2 \/ p = 3
  BY <1>2
<1>5. Framed(m)
  BY <1>1, <1>2, <1>3, <1>4 DEF Framed
<1>6. ASSUME NEW v PROVE Yields(m, 144, 21 + k, v, On(x))
  <2>1. About(m, 1, 144, 21 + k) /\ On(x) = On(m[1 + 2]) /\ 1 \in 1 .. Len(m)
    BY <1>2 DEF About
  <2>2. \A q \in 1 + 1 .. Len(m) : ~About(m, q, 144, 21 + k)
    BY <1>2, <1>3 DEF About
  <2> QED BY <2>1, <2>2 DEF Yields
<1>7. ASSUME NEW j \in LEDs \ {k}, NEW v PROVE Yields(m, 144, 21 + j, v, v)
  <2>1. 21 + j # 21 + k
    BY <1>0 DEF LEDs
  <2> QED BY <1>2, <1>3, <1>4, <2>1 DEF About, Yields
<1>8. ASSUME NEW v PROVE Yields(m, 176, 64, v, v)
  BY <1>2, <1>3, <1>4 DEF About, Yields
<1> QED BY <1>2, <1>5, <1>6, <1>7, <1>8 DEF m

LEMMA PedalMessage ==
  ASSUME NEW x \in {0, 1}
  PROVE  LET m == <<176, 64, x>>
         IN  /\ m \in Seq(Plain) /\ Framed(m)
             /\ \A v : Yields(m, 176, 64, v, x)
             /\ \A j \in LEDs : \A v : Yields(m, 144, 21 + j, v, v)
<1> DEFINE m == <<176, 64, x>>
<1>1. 176 \in Plain /\ 64 \in Plain /\ 64 \in Data /\ x \in Plain /\ x \in Data /\ On(x) = x
  BY DEF Plain, Data, On
<1>2. m \in Seq(Plain) /\ Len(m) = 3 /\ m[1] = 176 /\ m[2] = 64 /\ m[3] = x
  BY <1>1
<1> HIDE DEF m
<1>3. m[2] \notin {144, 176} /\ m[3] \notin {144, 176}
  BY <1>1, <1>2 DEF Data
<1>4. \A p \in 1 .. Len(m) : p = 1 \/ p = 2 \/ p = 3
  BY <1>2
<1>5. Framed(m)
  BY <1>1, <1>2, <1>3, <1>4 DEF Framed
<1>6. ASSUME NEW v PROVE Yields(m, 176, 64, v, x)
  <2>1. About(m, 1, 176, 64) /\ x = On(m[1 + 2]) /\ 1 \in 1 .. Len(m)
    BY <1>1, <1>2 DEF About
  <2>2. \A q \in 1 + 1 .. Len(m) : ~About(m, q, 176, 64)
    BY <1>2, <1>3 DEF About
  <2> QED BY <2>1, <2>2 DEF Yields
<1>7. ASSUME NEW j \in LEDs, NEW v PROVE Yields(m, 144, 21 + j, v, v)
  BY <1>2, <1>3, <1>4 DEF About, Yields
<1> QED BY <1>2, <1>5, <1>6, <1>7 DEF m

LEMMA ChatterMessage ==
  ASSUME NEW m \in Chatter
  PROVE  /\ m \in Seq(Plain) /\ Framed(m)
         /\ \A v : Yields(m, 176, 64, v, v)
         /\ \A j \in LEDs : \A v : Yields(m, 144, 21 + j, v, v)
<1>1. m \in Seq(Plain)
  BY ChatterAssumption DEF Plain
<1>2. CASE \A i \in 1 .. Len(m) : m[i] \notin {144, 176}
  BY <1>1, <1>2 DEF Framed, Yields, About
<1>3. CASE /\ Len(m) = 3 /\ m[1] = 176
           /\ m[2] \in 0 .. 127 \ {64} /\ m[3] \in 0 .. 127
  <2>1. m[2] \notin {144, 176} /\ m[3] \notin {144, 176} /\ m[2] # 64
        /\ m[2] \in Data /\ m[3] \in Data
    BY <1>3 DEF Data
  <2>2. \A p \in 1 .. Len(m) : p = 1 \/ p = 2 \/ p = 3
    BY <1>3
  <2>3. Framed(m)
    BY <1>3, <2>1, <2>2 DEF Framed
  <2> QED BY <1>1, <1>3, <2>1, <2>2, <2>3 DEF Yields, About
<1> QED BY <1>2, <1>3, ChatterAssumption

-----------------------------------------------------------------------------
(* The stream and its parts.                                               *)
LEMMA StreamType ==
  TInv => /\ popped \in Seq(Plain) /\ pending \in Seq(Plain)
          /\ queue \in Seq(Plain) /\ wire \in Seq(Plain) /\ stream \in Seq(Plain)
          /\ queue \o (pending \o wire) \in Seq(Plain)
<1> SUFFICES ASSUME TInv
             PROVE  /\ popped \in Seq(Plain) /\ pending \in Seq(Plain)
                    /\ queue \in Seq(Plain) /\ wire \in Seq(Plain) /\ stream \in Seq(Plain)
                    /\ queue \o (pending \o wire) \in Seq(Plain)
  OBVIOUS
<1>1. popped \in Seq(Plain)
  <2>1. buffer[1] \in Plain /\ buffer[2] \in Plain /\ (status # 0 => status \in Plain)
    BY DEF TInv, Plain
  <2>2. /\ <<>> \in Seq(Plain) /\ <<buffer[1]>> \in Seq(Plain)
        /\ status # 0 => /\ <<status>> \in Seq(Plain) /\ <<status, buffer[1]>> \in Seq(Plain)
                         /\ <<status, buffer[1], buffer[2]>> \in Seq(Plain)
    BY <2>1
  <2> QED BY <2>2 DEF popped
<1>2. pending \in Seq(Plain)
  <2>1. cpc = "push" => <<byte>> \in Seq(Plain)
    BY DEF TInv
  <2>2. <<>> \in Seq(Plain)
    OBVIOUS
  <2> QED BY <2>1, <2>2 DEF pending
<1>3. queue \in Seq(Plain) /\ wire \in Seq(Plain)
  BY DEF TInv
<1>4. pending \o wire \in Seq(Plain)
  BY <1>2, <1>3, ConcatProperties
<1>5. queue \o (pending \o wire) \in Seq(Plain)
  BY <1>3, <1>4, ConcatProperties
<1>6. stream \in Seq(Plain)
  BY <1>1, <1>5, ConcatProperties DEF stream
<1> QED BY <1>1, <1>2, <1>3, <1>5, <1>6

LEMMA StreamTypeNext == TInv' => stream' \in Seq(Plain)
<1>1. TInv' => (stream \in Seq(Plain))'
  BY StreamType, PTL
<1> QED BY <1>1

LEMMA Regroup ==
  \A a, b, c \in Seq(Plain) : (a \o b) \o c = a \o (b \o c)
  BY ConcatAssociative

(* A message sent is added to the stream.                                  *)
LEMMA WireGrows ==
  ASSUME TInv, NEW m \in Seq(Plain), popped' = popped, queue' = queue, pending' = pending,
         wire' = wire \o m
  PROVE  Adds(stream, m, stream')
<1>1. pending \in Seq(Plain) /\ wire \in Seq(Plain)
  BY StreamType
<1>2. pending \o (wire \o m) = (pending \o wire) \o m
  BY <1>1, Regroup
<1> DEFINE rest == pending \o wire
<1>3. rest \in Seq(Plain)
  BY <1>1, ConcatProperties
<1> HIDE DEF rest
<1>4. queue \in Seq(Plain)
  BY StreamType
<1>5. queue \o (rest \o m) = (queue \o rest) \o m
  BY <1>3, <1>4, Regroup
<1> DEFINE all == queue \o rest
<1>6. all \in Seq(Plain)
  BY <1>3, <1>4, ConcatProperties
<1> HIDE DEF all
<1>7. popped \in Seq(Plain)
  BY StreamType
<1>8. popped \o (all \o m) = (popped \o all) \o m
  BY <1>6, <1>7, Regroup
<1>9. stream' = popped \o (queue \o (pending \o (wire \o m))) /\ stream = popped \o all
  BY DEF stream, rest, all
<1>10. stream' = stream \o m
  BY <1>2, <1>5, <1>8, <1>9 DEF rest, all
<1>11. stream \in Seq(Plain)
  BY StreamType
<1> QED BY <1>10, <1>11, ConcatAdds

(* The collector reads a byte, or pushes it.                               *)
LEMMA WireShrinks ==
  ASSUME TInv, wire # <<>>, pending = <<>>, pending' = <<Head(wire)>>, wire' = Tail(wire),
         popped' = popped, queue' = queue
  PROVE  stream' = stream
<1>1. wire \in Seq(Plain)
  BY DEF TInv
<1>2. <<Head(wire)>> \o Tail(wire) = wire
  <2>1. Head(wire) \in Plain /\ Tail(wire) \in Seq(Plain) /\ Len(Tail(wire)) = Len(wire) - 1
        /\ \A i \in 1 .. Len(Tail(wire)) : Tail(wire)[i] = wire[i + 1]
    BY <1>1, HeadTailProperties
  <2> DEFINE a == <<Head(wire)>>
             t == Tail(wire)
  <2>2. a \in Seq(Plain) /\ Len(a) = 1 /\ a[1] = wire[1] /\ Len(wire) \in Nat \ {0}
    BY <1>1, <2>1, EmptySeq
  <2>3. /\ a \o t \in Seq(Plain) /\ Len(a \o t) = Len(a) + Len(t)
        /\ \A i \in 1 .. Len(a) + Len(t) : (a \o t)[i] = IF i <= Len(a) THEN a[i] ELSE t[i - Len(a)]
    BY <2>1, <2>2, ConcatProperties
  <2> HIDE DEF a, t
  <2>4. ASSUME NEW i \in 1 .. Len(a \o t) PROVE (a \o t)[i] = wire[i]
    <3>1. CASE i = 1
      BY <2>2, <2>3, <3>1
    <3>2. CASE i # 1
      <4>1. i - 1 \in 1 .. Len(t) /\ ~(i <= Len(a)) /\ (i - 1) + 1 = i
        BY <2>1, <2>2, <2>3, <3>2 DEF t
      <4>2. t[i - 1] = wire[(i - 1) + 1]
        BY <2>1, <4>1 DEF t
      <4> QED BY <2>2, <2>3, <4>1, <4>2
    <3> QED BY <3>1, <3>2
  <2>5. Len(a \o t) = Len(wire)
    BY <2>1, <2>2, <2>3 DEF t
  <2>6. a \o t = wire
    BY <1>1, <2>3, <2>4, <2>5, SeqEqual
  <2> QED BY <2>6 DEF a, t
<1>3. pending \o wire = wire
  BY <1>1, ConcatEmptySeq
<1> QED BY <1>2, <1>3 DEF stream

LEMMA QueueGrows ==
  ASSUME TInv, cpc = "push", pending' = <<>>, queue' = Append(queue, byte),
         popped' = popped, wire' = wire
  PROVE  stream' = stream
<1>1. queue \in Seq(Plain) /\ wire \in Seq(Plain) /\ byte \in Plain /\ <<byte>> \in Seq(Plain)
  BY DEF TInv
<1>2. queue' = queue \o <<byte>>
  BY <1>1, AppendIsConcat
<1>3. (queue \o <<byte>>) \o wire = queue \o (<<byte>> \o wire)
  BY <1>1, Regroup
<1>4. <<>> \o wire = wire /\ pending = <<byte>>
  BY <1>1, ConcatEmptySeq DEF pending
<1> QED BY <1>2, <1>3, <1>4 DEF stream

(* A pop takes some bytes off the queue.                                   *)
LEMMA QueueShrinks ==
  ASSUME TInv, NEW m \in Seq(Plain), queue = m \o queue', queue' \in Seq(Plain),
         popped' = popped \o m, pending' = pending, wire' = wire
  PROVE  stream' = stream
<1> DEFINE rest == pending \o wire
<1>1. popped \in Seq(Plain) /\ rest \in Seq(Plain) /\ queue' \o rest \in Seq(Plain)
  BY StreamType, ConcatProperties
<1>2. queue \o rest = m \o (queue' \o rest)
  BY <1>1, Regroup
<1>3. (popped \o m) \o (queue' \o rest) = popped \o (m \o (queue' \o rest))
  BY <1>1, Regroup
<1>4. stream = popped \o (queue \o rest) /\ stream' = (popped \o m) \o (queue' \o rest)
  BY DEF stream
<1> HIDE DEF rest
<1> QED BY <1>2, <1>3, <1>4

(* What has been popped is applied, or skipped.                            *)
LEMMA PoppedUsed ==
  ASSUME TInv, popped' = <<>>, queue' = queue, pending' = pending, wire' = wire
  PROVE  Takes(stream, Len(popped), stream')
<1> DEFINE rest == queue \o (pending \o wire)
<1>1. popped \in Seq(Plain) /\ rest \in Seq(Plain)
  BY StreamType
<1>2. stream = popped \o rest /\ stream' = <<>> \o rest
  BY DEF stream
<1> HIDE DEF rest
<1>3. stream' = rest
  BY <1>1, <1>2, ConcatEmptySeq
<1> QED BY <1>1, <1>2, <1>3, ConcatTakes

-----------------------------------------------------------------------------
(* Types.                                                                  *)
LEMMA TypesAtInit == Init => TInv
<1> SUFFICES ASSUME Init PROVE TInv
  OBVIOUS
<1>1. 0 \in Plain /\ 0 \in Data /\ 254 \in Bytes /\ <<>> \in Seq(Plain)
  BY DEF Plain, Data, Bytes
<1>2. buffer \in [1 .. 2 -> Plain] /\ buffer[2] \in Data
  BY <1>1 DEF Init
<1>3. /\ held \in [LEDs -> {0, 1}] /\ key_pressed \in [LEDs -> {0, 1}]
      /\ key_sustain \in [LEDs -> {0, 1}] /\ led_states \in [LEDs -> 0 .. 254]
  BY DEF Init
<1>4. /\ pedal \in {0, 1} /\ wire \in Seq(Plain) /\ byte \in Bytes /\ queue \in Seq(Plain)
      /\ {closed, corrupted, exited} \subseteq BOOLEAN
      /\ cpc = "start" /\ pc = "init" /\ status = 0 /\ left = 0
      /\ sustain \in {0, 1} /\ struck = {} /\ color = "unpicked"
  BY <1>1 DEF Init
<1> QED BY <1>2, <1>3, <1>4 DEF TInv

LEMMA TypesInCollector == TInv /\ Collector => TInv'
<1> SUFFICES ASSUME TInv, Collector PROVE TInv'
  OBVIOUS
<1> USE DEF keyboard, collector, pipe, loop, pattern
<1>1. CASE CollectorStart
  BY <1>1 DEF TInv, CollectorStart
<1>2. CASE CollectorRead
  <2>1. CASE byte' = 254 /\ UNCHANGED wire
    <3>1. cpc' = "read" /\ byte' \in Bytes
      BY <1>2, <2>1 DEF CollectorRead, wanted, Bytes
    <3> QED BY <1>2, <2>1, <3>1 DEF TInv, CollectorRead
  <2>2. CASE wire # <<>> /\ byte' = Head(wire) /\ wire' = Tail(wire)
    <3>1. wire \in Seq(Plain)
      BY DEF TInv
    <3>2. byte' \in Plain /\ wire' \in Seq(Plain)
      BY <2>2, <3>1, HeadTailProperties
    <3>3. byte' \in Bytes
      BY <3>2 DEF Plain, Bytes
    <3> QED BY <1>2, <3>2, <3>3 DEF TInv, CollectorRead
  <2> QED BY <1>2, <2>1, <2>2 DEF CollectorRead
<1>3. CASE CollectorPush
  <2>1. queue' \in Seq(Plain)
    <3>1. queue \in Seq(Plain) /\ byte \in Plain
      BY <1>3 DEF TInv, CollectorPush
    <3>2. queue' = queue \/ queue' = Append(queue, byte)
      BY <1>3 DEF CollectorPush
    <3> QED BY <3>1, <3>2, AppendProperties
  <2>2. /\ cpc' = "read" \/ cpc' = "signal"
        /\ UNCHANGED <<keyboard, wire, byte, closed, loop, pattern, exited>>
    BY <1>3 DEF CollectorPush
  <2> QED BY <2>1, <2>2 DEF TInv
<1>4. CASE CollectorSignal
  BY <1>4 DEF TInv, CollectorSignal, woken, Bytes
<1>5. CASE CollectorFree
  BY <1>5 DEF TInv, CollectorFree, woken, end_process
<1>6. CASE UseAfterFree
  BY <1>6 DEF TInv, UseAfterFree
<1>7. CASE Exit
  BY <1>7 DEF TInv, Exit
<1> QED BY <1>1, <1>2, <1>3, <1>4, <1>5, <1>6, <1>7 DEF Collector

LEMMA TypesInEnvironment == TInv /\ Environment => TInv'
<1> SUFFICES ASSUME TInv, Environment PROVE TInv'
  OBVIOUS
<1> USE DEF keyboard, collector, pipe, loop, pattern
<1>0. ASSUME NEW m \in Seq(Plain), Play(m) PROVE wire' \in Seq(Plain)
  BY <1>0, ConcatProperties DEF TInv, Play
<1>1. CASE Pedal
  <2>1. <<176, 64, 1 - pedal>> \in Seq(Plain) /\ 1 - pedal \in {0, 1}
    BY DEF TInv, Plain
  <2> QED BY <1>0, <1>1, <2>1 DEF TInv, Pedal, Play
<1>2. CASE Other
  <2>1. PICK m \in Chatter : Play(m)
    BY <1>2 DEF Other
  <2>2. wire' \in Seq(Plain)
    BY <1>0, <2>1, ChatterMessage
  <2> QED BY <1>2, <2>1, <2>2 DEF TInv, Other, Play
<1>3. CASE ReadError
  BY <1>3 DEF TInv, ReadError
<1>4. CASE SpuriousWake
  BY <1>4 DEF TInv, SpuriousWake, woken
<1>5. ASSUME NEW i \in LEDs, Key(i) PROVE TInv'
  <2>1. PICK x \in Data : Play(<<144, 21 + i, x>>)
    <3>1. 0 \in Data /\ Velocities \subseteq Data
      BY PianoAssumption DEF Data
    <3> QED BY <1>5, <3>1 DEF Key
  <2>2. wire' \in Seq(Plain)
    BY <1>0, <2>1, KeyMessage
  <2>3. held' \in [LEDs -> {0, 1}]
    BY <1>5 DEF TInv, Key
  <2>4. pedal' = pedal /\ UNCHANGED <<cpc, byte, queue, closed, pc, status, buffer, left, pattern, exited>>
    BY <1>5, <2>1 DEF Key, Play
  <2> QED BY <2>2, <2>3, <2>4 DEF TInv
<1> QED BY <1>1, <1>2, <1>3, <1>4, <1>5 DEF Environment

LEMMA Fading ==
  ASSUME NEW x \in 0 .. 254, NEW slowly \in BOOLEAN
  PROVE  /\ faded(x, slowly) \in 0 .. 254
         /\ x >= 3 => faded(x, slowly) > 0
<1>1. (x * 99) \div 100 \in 0 .. 254 /\ x \div 2 \in 0 .. 254
  OBVIOUS
<1>2. x >= 3 => (x * 99) \div 100 > 0 /\ x \div 2 > 0
  OBVIOUS
<1> QED BY <1>1, <1>2 DEF faded

(* Of what is popped into the second place of the buffer, the stream says  *)
(* that it is data.                                                        *)
LEMMA SecondIsData ==
  ASSUME TInv, status # 0, left > 0, left <= Len(queue), Framed(stream)
  PROVE  queue[left] \in Data
<1> DEFINE rest == queue \o (pending \o wire)
<1>0. status \in {144, 176} /\ (left = 1 \/ left = 2)
  BY DEF TInv
<1>1. Len(popped) = 3 - left /\ popped[1] = status
  BY <1>0 DEF popped
<1>2. popped \in Seq(Plain) /\ queue \in Seq(Plain) /\ pending \o wire \in Seq(Plain)
      /\ rest \in Seq(Plain)
  BY StreamType, ConcatProperties
<1>3. /\ Len(rest) = Len(queue) + Len(pending \o wire) /\ Len(pending \o wire) \in Nat
      /\ left \in 1 .. Len(queue) + Len(pending \o wire)
      /\ Len(queue) \in Nat /\ rest[left] = queue[left]
  BY <1>0, <1>2, ConcatProperties
<1> HIDE DEF rest
<1>4. stream = popped \o rest
  BY DEF stream, rest
<1>5. /\ \A i \in 1 .. Len(popped) + Len(rest) :
           stream[i] = IF i <= Len(popped) THEN popped[i] ELSE rest[i - Len(popped)]
      /\ Len(stream) = Len(popped) + Len(rest)
  BY <1>2, <1>4, ConcatProperties
<1>6. 1 \in 1 .. Len(popped) + Len(rest) /\ 3 \in 1 .. Len(popped) + Len(rest) /\ 3 - (3 - left) = left
  BY <1>0, <1>1, <1>3
<1>7. stream[1] = status /\ stream[3] = rest[left]
  BY <1>0, <1>1, <1>5, <1>6
<1>8. stream[1 + 2] \in Data
  BY <1>0, <1>5, <1>6, <1>7 DEF Framed
<1> QED BY <1>3, <1>7, <1>8

LEMMA TypesInLoop == TInv /\ Loop /\ (pc = "pop_look" /\ queue # <<>> => Framed(stream)) => TInv'
<1> SUFFICES ASSUME TInv, Loop, pc = "pop_look" /\ queue # <<>> => Framed(stream)
             PROVE  TInv'
  OBVIOUS
<1> USE DEF keyboard, collector, pipe, loop, pattern
<1>0. buffer[1] \in 0 .. 253 /\ buffer[2] \in 0 .. 127
  BY DEF TInv, Plain, Data
<1>1. CASE NextMessage
  BY <1>1 DEF TInv, NextMessage, picked
<1>2. CASE PopSome
  <2> DEFINE n     == IF Len(queue) < left THEN Len(queue) ELSE left
             first == (IF status = 0 THEN 1 ELSE 2) - left
  <2>1. /\ pc = "pop_look" /\ queue # <<>> /\ left' = left - n
        /\ buffer' = [i \in 1 .. 2 |-> IF i \in first + 1 .. first + n
                                       THEN queue[i - first] ELSE buffer[i]]
        /\ queue' = SubSeq(queue, n + 1, Len(queue))
        /\ pc' \in {"popped", "pop_look"}
    BY <1>2 DEF PopSome
  <2>2. queue \in Seq(Plain) /\ Len(queue) \in Nat /\ left \in 0 .. 2 /\ (status = 0 => left < 2)
        /\ n \in 0 .. left /\ n \in 0 .. Len(queue) /\ first \in 0 .. 2
    BY DEF TInv
  <2>3. left' \in 0 .. 2 /\ (status = 0 => left' < 2)
    BY <2>1, <2>2
  <2>4. queue' \in Seq(Plain)
    <3>1. \A i \in n + 1 .. Len(queue) : queue[i] \in Plain
      BY <2>2
    <3> HIDE DEF n
    <3> QED BY <2>1, <2>2, <3>1, SubSeqProperties
  <2>5. ASSUME NEW i \in 1 .. 2 PROVE buffer'[i] \in Plain
    <3>1. /\ first \in Nat /\ n \in Nat /\ n <= Len(queue) /\ Len(queue) \in Nat
          /\ queue \in Seq(Plain)
      BY <2>2
    <3> HIDE DEF n, first
    <3>2. ASSUME i \in first + 1 .. first + n PROVE queue[i - first] \in Plain
      <4>1. i - first \in 1 .. Len(queue)
        BY <3>1, <3>2
      <4> QED BY <3>1, <4>1, ElementOfSeq
    <3>3. buffer[i] \in Plain
      BY DEF TInv
    <3> QED BY <2>1, <3>2, <3>3
  <2>6. buffer'[2] \in Data
    <3>1. CASE 2 \in first + 1 .. first + n
      <4>0. 2 <= first + n /\ first + 1 <= 2
        <5>1. first \in Int /\ n \in Int
          BY <2>2
        <5> HIDE DEF first, n
        <5> QED BY <3>1, <5>1
      <4>1. status # 0
        <5>1. status = 0 => first = 1 - left
          OBVIOUS
        <5> HIDE DEF first, n
        <5> QED BY <2>2, <4>0, <5>1
      <4>2. left > 0 /\ left <= Len(queue) /\ 2 - first = left
        BY <2>2, <4>0, <4>1
      <4>3. queue[left] \in Data
        BY <2>1, <4>1, <4>2, SecondIsData
      <4> HIDE DEF n, first
      <4> QED BY <2>1, <3>1, <4>2, <4>3
    <3>2. CASE ~(2 \in first + 1 .. first + n)
      <4> HIDE DEF n, first
      <4> QED BY <1>0, <2>1, <3>2 DEF Data
    <3> QED BY <3>1, <3>2
  <2>7. buffer' \in [1 .. 2 -> Plain]
    <3> HIDE DEF n, first
    <3>1. buffer' = [i \in 1 .. 2 |-> buffer'[i]]
      BY <2>1
    <3>2. \A i \in 1 .. 2 : buffer'[i] \in Plain
      BY <2>5
    <3> QED BY ONLY <3>1, <3>2, Zenon
  <2>8. UNCHANGED <<held, pedal, wire, cpc, byte, closed, status, key_pressed, key_sustain,
                    sustain, led_states, color, struck, corrupted, exited>>
    BY <1>2 DEF PopSome
  <2>9. left' \in 0 .. 2 /\ (status' = 0 => left' < 2)
    BY <2>3, <2>8
  <2> HIDE DEF n, first
  <2> QED BY <2>1, <2>4, <2>6, <2>7, <2>8, <2>9 DEF TInv
<1>3. CASE PopNone
  BY <1>3 DEF TInv, PopNone
<1>4. CASE PopSleep
  BY <1>4 DEF TInv, PopSleep
<1>5. CASE Dispatch
  BY <1>5 DEF TInv, Dispatch, data_bytes
<1>6. CASE NoteOn
  <2>1. key \in LEDs
    BY <1>6 DEF NoteOn
  <2>2. led_states' \in [LEDs -> 0 .. 254]
    <3>1. PICK level \in normalized(buffer[2]) : led_states' = [led_states EXCEPT ![key] = level]
      BY <1>6 DEF NoteOn
    <3>2. level \in 0 .. 254
      BY <1>0, <1>6, <3>1 DEF normalized, NoteOn
    <3> HIDE DEF key
    <3> QED BY <2>1, <3>1, <3>2 DEF TInv
  <2>3. struck' \subseteq LEDs
    BY <1>6, <2>1 DEF TInv, NoteOn
  <2> HIDE DEF key
  <2> QED BY <1>6, <2>1, <2>2, <2>3 DEF TInv, NoteOn, Applied
<1>7. CASE NoteOff
  BY <1>7 DEF TInv, NoteOff, Applied, led_kept
<1>8. CASE NoteOutside
  BY <1>8 DEF TInv, NoteOutside, Applied
<1>9. CASE Controller
  BY <1>9 DEF TInv, Controller, Applied
<1>10. CASE InitLeds
  BY <1>10 DEF TInv, InitLeds
<1>11. CASE Frame
  <2>1. released \in [LEDs -> {0, 1}]
    BY DEF TInv, released
  <2>2. ASSUME NEW i \in LEDs PROVE faded(led_states[i], released[i] = 1) \in 0 .. 254
    <3>1. led_states[i] \in 0 .. 254
      BY DEF TInv
    <3> QED BY <3>1, Fading
  <2>3. led_states' \in [LEDs -> 0 .. 254] /\ key_sustain' \in [LEDs -> {0, 1}] /\ pc' = "render"
    BY <1>11, <2>1, <2>2 DEF Frame
  <2> QED BY <1>11, <2>3, SMTT(30) DEF TInv, Frame
<1>12. CASE Render
  <2>1. buffer' \in [1 .. 2 -> Plain] /\ buffer'[2] \in Data
    <3>1. <<0, 0>> \in [1 .. 2 -> Plain] /\ <<0, 0>>[2] \in Data
      BY DEF Plain, Data
    <3> QED BY <1>12, <3>1 DEF TInv, Render
  <2>2. color' \in {"unpicked", "black", "lit"} /\ struck' \subseteq LEDs
    BY <1>12 DEF TInv, Render
  <2>3. pc' \in {"size", "free_producer"}
    BY <1>12 DEF Render
  <2> QED BY <1>12, <2>1, <2>2, <2>3 DEF TInv, Render
<1>13. CASE FreeProducer
  <2>1. pc' = "free_consumer" /\ closed' \in BOOLEAN /\ exited' \in BOOLEAN
    BY <1>13 DEF TInv, FreeProducer
  <2>2. UNCHANGED <<keyboard, wire, collector, queue, status, buffer, left, pattern>>
    BY <1>13 DEF FreeProducer
  <2> QED BY <2>1, <2>2, SMTT(60) DEF TInv
<1>14. CASE FreeRest
  <2>1. pc' \in {"deallocate", "exit"}
    BY <1>14 DEF FreeRest
  <2>2. UNCHANGED <<keyboard, wire, collector, pipe, status, buffer, left, pattern, exited>>
    BY <1>14 DEF FreeRest
  <2> QED BY <2>1, <2>2, SMTT(60) DEF TInv
<1> QED BY <1>1, <1>2, <1>3, <1>4, <1>5, <1>6, <1>7, <1>8, <1>9, <1>10, <1>11, <1>12, <1>13,
           <1>14 DEF Loop

-----------------------------------------------------------------------------
(* Control.                                                                *)

(* A message that is all popped is at the front of the stream.             *)
LEMMA FirstMessage ==
  ASSUME TInv, status # 0, left = 0, Framed(stream)
  PROVE  /\ Len(popped) = 3 /\ Len(stream) >= 3 /\ stream[1] = status
         /\ stream[2] = buffer[1] /\ stream[3] = buffer[2]
         /\ buffer[1] \in Data /\ (status = 144 => key \in LEDs)
<1> DEFINE rest == queue \o (pending \o wire)
<1>1. popped = <<status, buffer[1], buffer[2]>> /\ status \in {144, 176}
  BY DEF popped, TInv
<1>2. popped \in Seq(Plain) /\ rest \in Seq(Plain) /\ Len(rest) \in Nat
  BY StreamType, LenProperties
<1>3. Len(popped) = 3 /\ popped[1] = status /\ popped[2] = buffer[1] /\ popped[3] = buffer[2]
  BY <1>1
<1> HIDE DEF rest
<1>4. stream = popped \o rest
  BY DEF stream, rest
<1>5. /\ \A i \in 1 .. Len(popped) + Len(rest) :
           stream[i] = IF i <= Len(popped) THEN popped[i] ELSE rest[i - Len(popped)]
      /\ Len(stream) = Len(popped) + Len(rest)
  BY <1>2, <1>4, ConcatProperties
<1>6. \A i \in 1 .. 3 : i \in 1 .. Len(popped) + Len(rest) /\ i <= Len(popped)
  BY <1>2, <1>3
<1>7. \A i \in 1 .. 3 : stream[i] = popped[i]
  BY <1>5, <1>6
<1>8. stream[1] = status /\ stream[2] = buffer[1] /\ stream[3] = buffer[2] /\ Len(stream) >= 3
  BY <1>2, <1>3, <1>5, <1>7
<1>9. 1 \in 1 .. Len(stream) /\ 1 + 1 = 2
  BY <1>2, <1>3, <1>5
<1>10. buffer[1] \in Data /\ (status = 144 => key \in LEDs)
  <2>1. stream[1 + 1] \in Data /\ (stream[1] = 144 => stream[1 + 1] - 21 \in LEDs)
    BY <1>1, <1>8, <1>9 DEF Framed
  <2> QED BY <1>8, <1>9, <2>1 DEF key
<1> QED BY <1>3, <1>8, <1>10

LEMMA ControlAtInit == Init => Control
  BY DEF Init, Control

LEMMA ControlInCollector == TInv /\ Control /\ Collector => Control'
<1> SUFFICES ASSUME TInv, Control, Collector PROVE Control'
  OBVIOUS
<1> USE DEF keyboard, collector, pipe, loop, pattern
<1>1. CASE CollectorStart
  BY <1>1 DEF Control, CollectorStart
<1>2. CASE CollectorRead
  BY <1>2 DEF Control, CollectorRead
<1>3. CASE CollectorPush
  <2>1. queue # <<>> => queue' # <<>>
    <3>1. queue' = queue \/ queue' = Append(queue, byte)
      BY <1>3 DEF CollectorPush
    <3>2. queue \in Seq(Plain) /\ byte \in Plain
      BY <1>3 DEF TInv, CollectorPush
    <3> QED BY <3>1, <3>2, AppendProperties
  <2>2. cpc # "exit" /\ cpc' # "exit" /\ UNCHANGED <<pc, status, left, closed, corrupted>>
    BY <1>3 DEF CollectorPush
  <2> QED BY <2>1, <2>2 DEF Control
<1>4. CASE CollectorSignal
  BY <1>4 DEF Control, CollectorSignal, woken
<1>5. CASE CollectorFree
  BY <1>5 DEF Control, CollectorFree, woken, end_process
<1>6. CASE UseAfterFree
  BY <1>6 DEF Control, UseAfterFree, freed
<1>7. CASE Exit
  BY <1>7 DEF Control, Exit
<1> QED BY <1>1, <1>2, <1>3, <1>4, <1>5, <1>6, <1>7 DEF Collector

LEMMA ControlInEnvironment == Control /\ Environment => Control'
<1> SUFFICES ASSUME Control, Environment PROVE Control'
  OBVIOUS
<1> USE DEF keyboard, collector, pipe, loop, pattern
<1>1. CASE Pedal
  BY <1>1 DEF Control, Pedal, Play
<1>2. CASE Other
  BY <1>2 DEF Control, Other, Play
<1>3. CASE ReadError
  BY <1>3 DEF Control, ReadError
<1>4. CASE SpuriousWake
  BY <1>4 DEF Control, SpuriousWake, woken
<1>5. ASSUME NEW i \in LEDs, Key(i) PROVE Control'
  <2>1. PICK m : Play(m)
    BY <1>5 DEF Key
  <2> QED BY <2>1 DEF Control, Play
<1> QED BY <1>1, <1>2, <1>3, <1>4, <1>5 DEF Environment

LEMMA ControlInLoop == TInv /\ Control /\ (Lost \/ Tracked) /\ Loop => Control'
<1> SUFFICES ASSUME TInv, Control, Lost \/ Tracked, Loop PROVE Control'
  OBVIOUS
<1> USE DEF keyboard, collector, pipe, loop, pattern
<1>1. CASE NextMessage
  BY <1>1 DEF Control, NextMessage
<1>2. CASE PopSome
  <2> DEFINE n == IF Len(queue) < left THEN Len(queue) ELSE left
  <2>1. /\ queue # <<>> /\ left' = left - n /\ pc = "pop_look"
        /\ pc' = IF n = left THEN "popped" ELSE "pop_look"
        /\ UNCHANGED <<status, closed, cpc, corrupted>>
    BY <1>2 DEF PopSome
  <2>2. left \in 0 .. 2 /\ (status = 0 => left < 2) /\ Len(queue) \in Nat \ {0}
    BY <2>1, EmptySeq DEF TInv
  <2>3. n \in 0 .. left /\ (status = 0 => n = left)
    BY <2>2
  <2> HIDE DEF n
  <2>4. pc' = "pop_look" => left' > 0 /\ status # 0
    BY <2>1, <2>2, <2>3
  <2> QED BY <2>1, <2>4 DEF Control
<1>3. CASE PopNone
  BY <1>3 DEF Control, PopNone
<1>4. CASE PopSleep
  BY <1>4 DEF Control, PopSleep
<1>5. CASE Dispatch
  BY <1>5 DEF Control, Dispatch, data_bytes
<1>6. CASE NoteOn
  BY <1>6 DEF Control, NoteOn, Applied
<1>7. CASE NoteOff
  BY <1>7 DEF Control, NoteOff, Applied
<1>8. CASE NoteOutside
  <2>1. closed
    <3>1. CASE Tracked
      <4>1. left = 0 /\ Framed(stream) /\ status = 144 /\ key \notin LEDs
        BY <1>8, <3>1 DEF Tracked, NoteOutside
      <4> QED BY <4>1, FirstMessage
    <3>2. CASE Lost
      BY <1>8, <3>2 DEF Lost, NoteOutside, gives_up, Control
    <3> QED BY <3>1, <3>2
  <2> QED BY <1>8, <2>1 DEF Control, NoteOutside, Applied
<1>9. CASE Controller
  BY <1>9 DEF Control, Controller, Applied
<1>10. CASE InitLeds
  BY <1>10 DEF Control, InitLeds
<1>11. CASE Frame
  BY <1>11 DEF Control, Frame
<1>12. CASE Render
  BY <1>12 DEF Control, Render
<1>13. CASE FreeProducer
  BY <1>13 DEF Control, FreeProducer
<1>14. CASE FreeRest
  BY <1>14 DEF Control, FreeRest
<1> QED BY <1>1, <1>2, <1>3, <1>4, <1>5, <1>6, <1>7, <1>8, <1>9, <1>10, <1>11, <1>12, <1>13,
           <1>14 DEF Loop

-----------------------------------------------------------------------------
(* Lights.                                                                 *)
LEMMA LightsAtInit == Init => Lights
  BY DEF Init, Lights

LEMMA LightsInCollector == Lights /\ Collector => Lights'
<1> SUFFICES ASSUME Lights, Collector PROVE Lights'
  OBVIOUS
<1> USE DEF keyboard, collector, pipe, loop, pattern
<1>1. UNCHANGED <<key_pressed, key_sustain, sustain, led_states, color, struck>>
  BY DEF Collector, CollectorStart, CollectorRead, CollectorPush, CollectorSignal,
         CollectorFree, UseAfterFree, Exit
<1>2. (pc' = "render" <=> pc = "render") /\ (gives_up' <=> gives_up)
  <2>1. pc' = pc \/ pc' = woken(pc)
    BY DEF Collector, CollectorStart, CollectorRead, CollectorPush, CollectorSignal,
           CollectorFree, UseAfterFree, Exit
  <2> QED BY <2>1 DEF woken, gives_up
<1> QED BY <1>1, <1>2 DEF Lights

LEMMA LightsInEnvironment == Lights /\ Environment => Lights'
<1> SUFFICES ASSUME Lights, Environment PROVE Lights'
  OBVIOUS
<1> USE DEF keyboard, collector, pipe, loop, pattern
<1>1. CASE Pedal
  BY <1>1 DEF Lights, Pedal, Play, gives_up
<1>2. CASE Other
  BY <1>2 DEF Lights, Other, Play, gives_up
<1>3. CASE ReadError
  BY <1>3 DEF Lights, ReadError, gives_up
<1>4. CASE SpuriousWake
  BY <1>4 DEF Lights, SpuriousWake, woken, gives_up
<1>5. ASSUME NEW i \in LEDs, Key(i) PROVE Lights'
  <2>1. PICK m : Play(m)
    BY <1>5 DEF Key
  <2> QED BY <2>1 DEF Lights, Play, gives_up
<1> QED BY <1>1, <1>2, <1>3, <1>4, <1>5 DEF Environment

LEMMA LightsInLoop == TInv /\ Lights /\ Loop => Lights'
<1> SUFFICES ASSUME TInv, Lights, Loop PROVE Lights'
  OBVIOUS
<1> USE DEF keyboard, collector, pipe, loop, pattern
<1>0. ASSUME UNCHANGED <<key_pressed, key_sustain, led_states, struck>>,
             color = "black" => color' = "black",
             pc # "render", ~gives_up, pc' # "render"
      PROVE  Lights'
  BY <1>0 DEF Lights
<1>1. CASE NextMessage
  BY <1>0, <1>1 DEF NextMessage, picked, gives_up
<1>2. CASE PopSome
  <2>1. pc' \in {"popped", "pop_look"} /\ pc = "pop_look"
        /\ UNCHANGED <<key_pressed, key_sustain, led_states, color, struck>>
    BY <1>2 DEF PopSome
  <2> QED BY <1>0, <2>1 DEF gives_up
<1>3. CASE PopNone
  BY <1>0, <1>3 DEF PopNone, gives_up
<1>4. CASE PopSleep
  BY <1>0, <1>4 DEF PopSleep, gives_up
<1>5. CASE Dispatch
  BY <1>0, <1>5 DEF Dispatch, gives_up
<1>6. CASE NoteOn
  <2> DEFINE k == key
  <2>1. PICK level \in normalized(buffer[2]) : led_states' = [led_states EXCEPT ![k] = level]
    BY <1>6 DEF NoteOn
  <2>2. /\ k \in LEDs /\ pc = "popped" /\ pc' = "size" /\ color' = color
        /\ key_pressed' = [key_pressed EXCEPT ![k] = 1]
        /\ key_sustain' = [key_sustain EXCEPT ![k] = 1]
        /\ struck' = IF buffer[2] > 1 THEN struck \cup {k} ELSE struck \ {k}
    BY <1>6 DEF NoteOn, Applied
  <2>3. /\ key_pressed \in [LEDs -> {0, 1}] /\ key_sustain \in [LEDs -> {0, 1}]
        /\ led_states \in [LEDs -> 0 .. 254] /\ struck \subseteq LEDs /\ buffer[2] \in 0 .. 127
    BY DEF TInv, Data
  <2>4. color # "black" /\ buffer[2] > 1 => level >= 3
    BY <2>1, <2>3 DEF normalized
  <2> HIDE DEF k
  <2>5. \A i \in LEDs : key_pressed'[i] = 1 => key_sustain'[i] = 1
    BY <2>2, <2>3 DEF Lights
  <2>6. color # "black" => \A i \in struck : led_states[i] >= 3
    BY <2>2 DEF Lights, gives_up
  <2>7. color # "black" => \A i \in struck' : led_states'[i] >= 3
    <3> SUFFICES ASSUME color # "black" PROVE \A i \in struck' : led_states'[i] >= 3
      OBVIOUS
    <3>1. CASE buffer[2] > 1
      BY <2>1, <2>2, <2>3, <2>4, <2>6, <3>1
    <3>2. CASE ~(buffer[2] > 1)
      BY <2>1, <2>2, <2>3, <2>6, <3>2
    <3> QED BY <3>1, <3>2
  <2> QED BY <2>2, <2>5, <2>7 DEF Lights
<1>7. CASE NoteOff
  <2> DEFINE k == key
  <2>1. /\ k \in LEDs /\ pc = "popped" /\ pc' = "size" /\ UNCHANGED <<color, struck>>
        /\ key_pressed' = [key_pressed EXCEPT ![k] = 0]
        /\ key_sustain' = [key_sustain EXCEPT ![k] = IF sustain = 0 THEN 0 ELSE @]
        /\ led_states' = [led_states EXCEPT ![k] = led_states[k]]
    BY <1>7 DEF NoteOff, Applied, led_kept
  <2>2. /\ key_pressed \in [LEDs -> {0, 1}] /\ key_sustain \in [LEDs -> {0, 1}]
        /\ led_states \in [LEDs -> 0 .. 254]
    BY DEF TInv
  <2> HIDE DEF k
  <2>3. \A i \in LEDs : key_pressed'[i] = 1 => key_sustain'[i] = 1
    BY <2>1, <2>2 DEF Lights
  <2>4. led_states' = led_states
    BY <2>1, <2>2
  <2> QED BY <2>1, <2>3, <2>4 DEF Lights, gives_up
<1>8. CASE NoteOutside
  BY <1>0, <1>8 DEF NoteOutside, Applied, gives_up
<1>9. CASE Controller
  BY <1>0, <1>9 DEF Controller, Applied, gives_up
<1>10. CASE InitLeds
  <2>1. /\ UNCHANGED <<key_pressed, key_sustain, led_states, color, struck>>
        /\ pc = "init" /\ pc' # "render"
    BY <1>10 DEF InitLeds
  <2> QED BY <1>0, <2>1 DEF gives_up
<1>11. CASE Frame
  <2>1. /\ pc = "size" /\ pc' = "render" /\ UNCHANGED <<key_pressed, sustain, color, struck>>
        /\ key_sustain' = released
        /\ led_states' = [i \in LEDs |-> faded(led_states[i], released[i] = 1)]
    BY <1>11 DEF Frame
  <2>2. /\ key_pressed \in [LEDs -> {0, 1}] /\ key_sustain \in [LEDs -> {0, 1}]
        /\ led_states \in [LEDs -> 0 .. 254] /\ struck \subseteq LEDs
    BY SMTT(30) DEF TInv
  <2>3. color # "black" => \A i \in struck : led_states[i] >= 3
    BY <2>1 DEF Lights, gives_up
  <2>4. color # "black" => \A i \in struck' : led_states'[i] > 0
    <3> SUFFICES ASSUME color # "black", NEW i \in struck PROVE led_states'[i] > 0
      BY <2>1
    <3>1. i \in LEDs /\ led_states[i] \in 0 .. 254 /\ led_states[i] >= 3
      BY <2>2, <2>3
    <3>2. (released[i] = 1) \in BOOLEAN
      OBVIOUS
    <3> QED BY <2>1, <3>1, <3>2, Fading
  <2>5. \A i \in LEDs : key_pressed[i] = 1 => released[i] = 1
    BY <2>2 DEF Lights, released
  <2>6. sustain = 0 => released = key_pressed
    <3> SUFFICES ASSUME sustain = 0 PROVE released = key_pressed
      OBVIOUS
    <3>1. released = [i \in LEDs |-> IF key_pressed[i] = 0 THEN 0 ELSE key_sustain[i]]
      BY DEF released
    <3>2. \A i \in LEDs : (IF key_pressed[i] = 0 THEN 0 ELSE key_sustain[i]) = key_pressed[i]
      BY <2>2 DEF Lights
    <3> QED BY <2>2, <3>1, <3>2
  <2> HIDE DEF released
  <2> QED BY <2>1, <2>4, <2>5, <2>6 DEF Lights
<1>12. CASE Render
  BY <1>12 DEF Lights, Render, gives_up
<1>13. CASE FreeProducer
  BY <1>13 DEF Lights, FreeProducer, gives_up
<1>14. CASE FreeRest
  BY <1>14 DEF Lights, FreeRest, gives_up
<1> QED BY <1>1, <1>2, <1>3, <1>4, <1>5, <1>6, <1>7, <1>8, <1>9, <1>10, <1>11, <1>12, <1>13,
           <1>14 DEF Loop

-----------------------------------------------------------------------------
(* Nothing gets lost, and what is lost stays lost.                         *)
LEMMA LostStays == TInv /\ Lost /\ Next => Lost'
<1> SUFFICES ASSUME TInv, Lost, Next PROVE Lost'
  OBVIOUS
<1> USE DEF keyboard, collector, pipe, loop, pattern
<1>1. CASE gives_up
  <2>1. CASE Collector
    <3>1. pc' = pc \/ pc' = woken(pc)
      BY <2>1 DEF Collector, CollectorStart, CollectorRead, CollectorPush, CollectorSignal,
             CollectorFree, UseAfterFree, Exit
    <3> QED BY <1>1, <3>1 DEF woken, gives_up, Lost
  <2>2. CASE Loop
    BY <1>1, <2>2 DEF Loop, NextMessage, PopSome, PopNone, PopSleep, Dispatch, NoteOn, NoteOff,
         NoteOutside, Controller, InitLeds, Frame, Render, FreeProducer, FreeRest,
         gives_up, Lost
  <2>3. CASE Environment
    <3>1. pc' = pc \/ pc' = woken(pc)
      BY <2>3 DEF Environment, Pedal, Other, ReadError, SpuriousWake, Key, Play
    <3> QED BY <1>1, <3>1 DEF woken, gives_up, Lost
  <2> QED BY <2>1, <2>2, <2>3 DEF Next
<1>2. CASE cpc = "exit" /\ queue = <<>> /\ wire # <<>>
  <2>1. CASE Collector
    BY <1>2, <2>1 DEF Collector, CollectorStart, CollectorRead, CollectorPush, CollectorSignal,
         CollectorFree, UseAfterFree, Exit, Lost
  <2>2. CASE Loop
    BY <1>2, <2>2 DEF Loop, NextMessage, PopSome, PopNone, PopSleep, Dispatch, NoteOn, NoteOff,
         NoteOutside, Controller, Applied, InitLeds, Frame, Render, FreeProducer, FreeRest, Lost
  <2>3. CASE Environment
    <3>1. ASSUME NEW m \in Seq(Plain), Play(m) PROVE wire' # <<>>
      <4>1. wire \in Seq(Plain)
        BY DEF TInv
      <4>2. wire' = wire \o m
        BY <3>1 DEF Play
      <4> QED BY <1>2, <3>1, <4>1, <4>2, ConcatEqualIffEmpty
    <3>2. UNCHANGED <<cpc, queue>> \/ ReadError
      BY <2>3 DEF Environment, Pedal, Other, SpuriousWake, Key, Play
    <3>3. wire' # <<>>
      <4>1. CASE Pedal
        <5>1. 1 - pedal \in {0, 1}
          BY DEF TInv
        <5> QED BY <3>1, <4>1, <5>1, PedalMessage DEF Pedal
      <4>2. CASE Other
        BY <3>1, <4>2, ChatterMessage DEF Other
      <4>3. CASE ReadError \/ SpuriousWake
        BY <1>2, <4>3 DEF ReadError, SpuriousWake
      <4>4. ASSUME NEW k \in LEDs, Key(k) PROVE wire' # <<>>
        <5>1. 0 \in Data /\ Velocities \subseteq Data
          BY PianoAssumption DEF Data
        <5>2. PICK x \in Data : Play(<<144, 21 + k, x>>)
          BY <4>4, <5>1 DEF Key
        <5> QED BY <3>1, <5>2, KeyMessage
      <4> QED BY <2>3, <4>1, <4>2, <4>3, <4>4 DEF Environment
    <3> QED BY <1>2, <3>2, <3>3 DEF ReadError, Lost
  <2> QED BY <2>1, <2>2, <2>3 DEF Next
<1> QED BY <1>1, <1>2 DEF Lost

(* A byte moves on, or none.                                               *)
LEMMA SameStream ==
  ASSUME Tracked, stream' = stream, UNCHANGED <<key_pressed, sustain, held, pedal>>,
         pc' = "popped" => left' = 0
  PROVE  Tracked'
  BY DEF Tracked

LEMMA TrackedPlay ==
  ASSUME TInv, TInv', Tracked, NEW m, m \in Seq(Plain), Framed(m), Play(m),
         \A k \in LEDs : Yields(m, 144, 21 + k, held[k], held'[k]),
         Yields(m, 176, 64, pedal, pedal')
  PROVE  Tracked'
<1> USE DEF keyboard, collector, pipe, loop, pattern
<1>1. wire' = wire \o m /\ UNCHANGED <<pc, status, buffer, left, queue, cpc, byte, key_pressed, sustain>>
  BY DEF Play
<1>2. popped' = popped /\ pending' = pending
  BY <1>1 DEF popped, pending
<1>3. Adds(stream, m, stream')
  BY <1>1, <1>2, WireGrows
<1>4. Framed(stream) /\ Framed(stream')
  BY <1>3, AddsFrames DEF Tracked
<1>5. ASSUME NEW k \in LEDs PROVE Yields(stream', 144, 21 + k, key_pressed'[k], held'[k])
  <2>1. Yields(stream, 144, 21 + k, key_pressed[k], held[k]) /\ 144 \in {144, 176}
    BY DEF Tracked
  <2>2. Yields(m, 144, 21 + k, held[k], held'[k])
    OBVIOUS
  <2>3. Yields(stream', 144, 21 + k, key_pressed[k], held'[k])
    BY <1>3, <1>4, <2>1, <2>2, AddsYields
  <2> QED BY <1>1, <2>3
<1>6. Yields(stream', 176, 64, sustain', pedal')
  <2>1. Yields(stream, 176, 64, sustain, pedal) /\ 176 \in {144, 176}
    BY DEF Tracked
  <2>2. Yields(stream', 176, 64, sustain, pedal')
    BY <1>3, <1>4, <2>1, AddsYields
  <2> QED BY <1>1, <2>2
<1> QED BY <1>1, <1>4, <1>5, <1>6 DEF Tracked

LEMMA TrackedInEnvironment == TInv /\ TInv' /\ Tracked /\ Environment => Tracked'
<1> SUFFICES ASSUME TInv, TInv', Tracked, Environment PROVE Tracked'
  OBVIOUS
<1> USE DEF keyboard, collector, pipe, loop, pattern
<1>1. CASE Pedal
  <2>1. 1 - pedal \in {0, 1} /\ UNCHANGED held /\ pedal' = 1 - pedal
        /\ Play(<<176, 64, 1 - pedal>>)
    BY <1>1 DEF TInv, Pedal
  <2> DEFINE m == <<176, 64, 1 - pedal>>
  <2>2. /\ m \in Seq(Plain) /\ Framed(m) /\ Yields(m, 176, 64, pedal, pedal')
        /\ \A k \in LEDs : Yields(m, 144, 21 + k, held[k], held'[k])
    BY <2>1, PedalMessage
  <2>3. Play(m)
    BY <2>1
  <2> HIDE DEF m
  <2> QED BY <2>2, <2>3, TrackedPlay
<1>2. CASE Other
  <2>1. PICK m \in Chatter : Play(m)
    BY <1>2 DEF Other
  <2>2. UNCHANGED <<held, pedal>>
    BY <1>2 DEF Other
  <2>3. /\ m \in Seq(Plain) /\ Framed(m) /\ Yields(m, 176, 64, pedal, pedal')
        /\ \A k \in LEDs : Yields(m, 144, 21 + k, held[k], held'[k])
    BY <2>2, ChatterMessage
  <2> QED BY <2>1, <2>3, TrackedPlay
<1>3. CASE ReadError
  <2>1. UNCHANGED <<popped, pending, queue, wire>>
    BY <1>3 DEF ReadError, popped, pending
  <2> QED BY <1>3, <2>1, SameStream DEF ReadError, stream, Tracked
<1>4. CASE SpuriousWake
  <2>1. UNCHANGED <<popped, pending, queue, wire>>
    BY <1>4 DEF SpuriousWake, woken, popped, pending
  <2> QED BY <1>4, <2>1, SameStream DEF SpuriousWake, woken, stream, Tracked
<1>5. ASSUME NEW j \in LEDs, Key(j) PROVE Tracked'
  <2>1. PICK x \in Data : Play(<<144, 21 + j, x>>) /\ held'[j] = On(x)
    <3>1. 0 \in Data /\ On(0) = 0 /\ \A v \in Velocities : v \in Data /\ On(v) = 1
      BY PianoAssumption DEF Data, On
    <3>2. held'[j] = 1 - held[j]
      BY <1>5 DEF Key, TInv
    <3> QED BY <1>5, <3>1, <3>2 DEF Key
  <2> DEFINE m == <<144, 21 + j, x>>
  <2>2. /\ m \in Seq(Plain) /\ Framed(m) /\ \A v : Yields(m, 144, 21 + j, v, On(x))
        /\ \A k \in LEDs \ {j} : \A v : Yields(m, 144, 21 + k, v, v)
        /\ \A v : Yields(m, 176, 64, v, v)
    BY KeyMessage
  <2>3. Play(m)
    BY <2>1
  <2> HIDE DEF m
  <2>4. UNCHANGED pedal /\ \A k \in LEDs \ {j} : held'[k] = held[k]
    BY <1>5 DEF Key, TInv
  <2>5. \A k \in LEDs : Yields(m, 144, 21 + k, held[k], held'[k])
    <3> TAKE k \in LEDs
    <3>1. CASE k = j
      BY <2>1, <2>2, <3>1
    <3>2. CASE k # j
      BY <2>2, <2>4, <3>2
    <3> QED BY <3>1, <3>2
  <2>6. Yields(m, 176, 64, pedal, pedal')
    BY <2>2, <2>4
  <2> QED BY <2>2, <2>3, <2>5, <2>6, TrackedPlay
<1> QED BY <1>1, <1>2, <1>3, <1>4, <1>5 DEF Environment

LEMMA TrackedInCollector == TInv /\ Tracked /\ Collector => (Lost \/ Tracked)'
<1> SUFFICES ASSUME TInv, Tracked, Collector PROVE Lost' \/ Tracked'
  OBVIOUS
<1> USE DEF keyboard, collector, pipe, loop, pattern
<1>0. ASSUME stream' = stream PROVE Tracked'
  <2>1. UNCHANGED <<key_pressed, sustain, held, pedal, left>>
    BY DEF Collector, CollectorStart, CollectorRead, CollectorPush, CollectorSignal,
           CollectorFree, UseAfterFree, Exit
  <2>2. pc' = pc \/ pc' = woken(pc)
    BY DEF Collector, CollectorStart, CollectorRead, CollectorPush, CollectorSignal,
           CollectorFree, UseAfterFree, Exit
  <2>3. pc' = "popped" => left' = 0
    BY <2>1, <2>2 DEF woken, Tracked
  <2> QED BY <1>0, <2>1, <2>3, SameStream
<1>1. popped' = popped
  <2>1. UNCHANGED <<status, buffer, left>> /\ (pc' = pc \/ pc' = woken(pc))
    BY DEF Collector, CollectorStart, CollectorRead, CollectorPush, CollectorSignal,
           CollectorFree, UseAfterFree, Exit
  <2> QED BY <2>1 DEF woken, popped
<1>2. CASE CollectorStart
  BY <1>0, <1>1, <1>2 DEF CollectorStart, stream, pending
<1>3. CASE CollectorRead
  <2>1. cpc = "read" /\ queue' = queue /\ pending = <<>>
    BY <1>3 DEF CollectorRead, pending
  <2>2. CASE byte' = 254 /\ UNCHANGED wire
    <3>1. pending' = <<>>
      BY <1>3, <2>2 DEF CollectorRead, wanted, pending
    <3> QED BY <1>0, <1>1, <2>1, <2>2, <3>1 DEF stream
  <2>3. CASE wire # <<>> /\ byte' = Head(wire) /\ wire' = Tail(wire)
    <3>1. Head(wire) \in Plain
      BY <2>3, HeadTailProperties DEF TInv
    <3>2. Head(wire) # 254
      BY <3>1 DEF Plain
    <3>3. pending' = <<Head(wire)>>
      BY <1>3, <2>3, <3>2 DEF CollectorRead, wanted, pending
    <3> QED BY <1>0, <1>1, <2>1, <2>3, <3>3, WireShrinks
  <2> QED BY <1>3, <2>2, <2>3 DEF CollectorRead
<1>4. CASE CollectorPush
  <2>1. CASE no_consumer
    BY <1>4, <2>1 DEF CollectorPush, no_consumer, gives_up, Lost
  <2>2. CASE ~no_consumer
    <3>1. cpc = "push" /\ pending' = <<>> /\ queue' = Append(queue, byte) /\ wire' = wire
      BY <1>4, <2>2 DEF CollectorPush, pending
    <3> QED BY <1>0, <1>1, <3>1, QueueGrows
  <2> QED BY <2>1, <2>2
<1>5. CASE CollectorSignal
  BY <1>0, <1>1, <1>5 DEF CollectorSignal, stream, pending
<1>6. CASE CollectorFree
  BY <1>0, <1>1, <1>6 DEF CollectorFree, end_process, stream, pending
<1>7. CASE UseAfterFree
  BY <1>0, <1>1, <1>7 DEF UseAfterFree, stream, pending
<1>8. CASE Exit
  BY <1>0, <1>1, <1>8 DEF Exit, stream, pending
<1> QED BY <1>2, <1>3, <1>4, <1>5, <1>6, <1>7, <1>8 DEF Collector

(* A message is applied: what it is about is known, the rest is as before. *)
LEMMA TrackedApplied ==
  ASSUME TInv, TInv', Tracked, pc = "popped", status # 0, Applied,
         \A k \in LEDs : key_pressed'[k] = IF status = 144 /\ k = key THEN On(buffer[2]) ELSE key_pressed[k],
         sustain' = IF status = 176 /\ buffer[1] = 64 THEN On(buffer[2]) ELSE sustain
  PROVE  Tracked'
<1> USE DEF keyboard, collector, pipe, loop, pattern
<1>1. /\ pc' = "size" /\ status' = 0 /\ left' = 0 /\ left = 0
      /\ UNCHANGED <<queue, cpc, byte, wire, held, pedal>>
  BY DEF Applied, Tracked
<1>2. popped' = <<>> /\ pending' = pending
  BY <1>1 DEF popped, pending
<1>3. Framed(stream)
  BY DEF Tracked
<1>4. /\ Len(popped) = 3 /\ Len(stream) >= 3 /\ stream[1] = status
      /\ stream[2] = buffer[1] /\ stream[3] = buffer[2]
      /\ buffer[1] \in Data
  BY <1>1, <1>3, FirstMessage
<1>5. Takes(stream, 3, stream')
  BY <1>1, <1>2, <1>4, PoppedUsed
<1>6. Framed(stream')
  BY <1>3, <1>5, TakesFrames
<1>7. stream[2] \notin {144, 176} /\ stream[3] \notin {144, 176} /\ status \in {144, 176}
  <2>1. buffer[2] \in Data /\ status \in {144, 176}
    BY DEF TInv
  <2>2. \A x \in Data : x \notin {144, 176}
    BY DEF Data
  <2> QED BY <1>4, <2>1, <2>2
<1>8. ASSUME NEW st \in {144, 176}, NEW d, NEW h, NEW v, NEW w, Yields(stream, st, d, h, v),
             w = IF status = st /\ buffer[1] = d THEN On(buffer[2]) ELSE h
      PROVE  Yields(stream', st, d, w, v)
  <2>1. \A p \in 2 .. 3 : ~About(stream, p, st, d)
    <3>1. \A p \in 2 .. 3 : p = 2 \/ p = 3
      OBVIOUS
    <3> QED BY <1>7, <1>8, <3>1 DEF About
  <2>2. About(stream, 1, st, d) <=> status = st /\ buffer[1] = d
    BY <1>4 DEF About
  <2>3. CASE status = st /\ buffer[1] = d
    <3>1. About(stream, 1, st, d) /\ w = On(stream[3])
      BY <1>4, <1>8, <2>2, <2>3
    <3> QED BY <1>3, <1>5, <1>8, <2>1, <3>1, TakesYields
  <2>4. CASE ~(status = st /\ buffer[1] = d)
    <3>1. w = h
      BY <1>8, <2>4
    <3>2. \A p \in 1 .. 3 : ~About(stream, p, st, d)
      <4>1. \A p \in 1 .. 3 : p = 1 \/ p \in 2 .. 3
        OBVIOUS
      <4> QED BY <2>1, <2>2, <2>4, <4>1
    <3> QED BY <1>3, <1>5, <1>8, <3>1, <3>2, TakesYields
  <2> QED BY <2>3, <2>4
<1>9. ASSUME NEW k \in LEDs PROVE Yields(stream', 144, 21 + k, key_pressed'[k], held'[k])
  <2>1. Yields(stream, 144, 21 + k, key_pressed[k], held[k])
    BY DEF Tracked
  <2>2. k = key <=> buffer[1] = 21 + k
    <3>1. k \in Int
      <4>1. LED_COUNT \in Int
        BY PianoAssumption
      <4> QED BY <4>1 DEF LEDs
    <3>2. buffer[1] \in Int
      <4>1. buffer[1] \in Data
        BY <1>4
      <4> QED BY <4>1 DEF Data
    <3> QED BY <3>1, <3>2 DEF key
  <2>3. key_pressed'[k] = IF status = 144 /\ buffer[1] = 21 + k THEN On(buffer[2]) ELSE key_pressed[k]
    BY <2>2
  <2>4. Yields(stream', 144, 21 + k, key_pressed'[k], held[k])
    BY <1>8, <2>1, <2>3
  <2> QED BY <1>1, <2>4
<1>10. Yields(stream', 176, 64, sustain', pedal')
  <2>1. Yields(stream, 176, 64, sustain, pedal)
    BY DEF Tracked
  <2>2. Yields(stream', 176, 64, sustain', pedal)
    BY <1>8, <2>1
  <2> QED BY <1>1, <2>2
<1> QED BY <1>1, <1>6, <1>9, <1>10 DEF Tracked

(* A byte that no status byte has announced and is none is skipped.        *)
LEMMA TrackedSkip ==
  ASSUME TInv, TInv', Tracked, Dispatch, buffer[1] \notin {144, 176}
  PROVE  Tracked'
<1> USE DEF keyboard, collector, pipe, loop, pattern
<1>1. /\ pc = "popped" /\ status = 0 /\ pc' = "size" /\ left' = left /\ status' = 0
      /\ UNCHANGED <<queue, cpc, byte, wire, held, pedal, key_pressed, sustain>>
  BY DEF Dispatch
<1>2. popped = <<buffer[1]>> /\ popped' = <<>> /\ pending' = pending
  BY <1>1 DEF popped, pending
<1>3. Len(popped) = 1 /\ popped[1] = buffer[1]
  BY <1>2
<1>4. Takes(stream, 1, stream')
  BY <1>1, <1>2, <1>3, PoppedUsed
<1>5. Framed(stream) /\ Framed(stream')
  BY <1>4, TakesFrames DEF Tracked
<1>6. stream[1] = buffer[1]
  <2> DEFINE rest == queue \o (pending \o wire)
  <2>1. popped \in Seq(Plain) /\ rest \in Seq(Plain) /\ Len(rest) \in Nat
    BY StreamType, LenProperties
  <2> HIDE DEF rest
  <2>2. 1 \in 1 .. Len(popped) + Len(rest) /\ 1 <= Len(popped)
    BY <1>3, <2>1
  <2>3. \A i \in 1 .. Len(popped) + Len(rest) :
           (popped \o rest)[i] = IF i <= Len(popped) THEN popped[i] ELSE rest[i - Len(popped)]
    BY <2>1, ConcatProperties
  <2>4. (popped \o rest)[1] = popped[1]
    BY <2>2, <2>3
  <2> QED BY <1>3, <2>4 DEF stream, rest
<1>7. ASSUME NEW st \in {144, 176}, NEW d PROVE \A p \in 1 .. 1 : ~About(stream, p, st, d)
  BY <1>6 DEF About
<1>8. ASSUME NEW st \in {144, 176}, NEW d, NEW h, NEW v, Yields(stream, st, d, h, v)
      PROVE  Yields(stream', st, d, h, v)
  BY <1>4, <1>5, <1>7, <1>8, TakesYields
<1>9. \A k \in LEDs : Yields(stream', 144, 21 + k, key_pressed[k], held[k])
  BY <1>8 DEF Tracked
<1>10. Yields(stream', 176, 64, sustain, pedal)
  BY <1>8 DEF Tracked
<1> QED BY <1>1, <1>5, <1>9, <1>10 DEF Tracked

(* A pop moves bytes from the queue to the buffer.                         *)
LEMMA TrackedPop ==
  ASSUME TInv, TInv', Control, Tracked, PopSome
  PROVE  Tracked'
<1> USE DEF keyboard, collector, pipe, loop, pattern
<1> DEFINE n     == IF Len(queue) < left THEN Len(queue) ELSE left
           first == (IF status = 0 THEN 1 ELSE 2) - left
           m     == SubSeq(queue, 1, n)
<1>1. /\ pc = "pop_look" /\ queue # <<>> /\ left' = left - n
      /\ buffer' = [i \in 1 .. 2 |-> IF i \in first + 1 .. first + n
                                     THEN queue[i - first] ELSE buffer[i]]
      /\ queue' = SubSeq(queue, n + 1, Len(queue))
      /\ pc' = IF n = left THEN "popped" ELSE "pop_look"
      /\ UNCHANGED <<status, cpc, byte, wire, held, pedal, key_pressed, sustain>>
  BY DEF PopSome
<1>2. /\ queue \in Seq(Plain) /\ Len(queue) \in Nat \ {0} /\ left \in 1 .. 2
      /\ (status = 0 => left = 1)
  BY <1>1, EmptySeq DEF TInv, Control
<1>3. /\ n \in 1 .. left /\ n \in 1 .. Len(queue) /\ first \in 0 .. 1
      /\ (status = 0 => first = 0) /\ (status # 0 => first = 2 - left)
      /\ left' = left - n /\ left' \in 0 .. 1
  BY <1>1, <1>2
<1> HIDE DEF n, first, m
<1>4. /\ m \in Seq(Plain) /\ Len(m) = n /\ \A i \in 1 .. n : m[i] = queue[i]
  <2>1. \A i \in 1 .. n : queue[i] \in Plain
    BY <1>2, <1>3
  <2>2. n \in Int /\ 1 \in Int /\ 1 <= n /\ (n - 1) + 1 = n
    BY <1>3
  <2>3. /\ m \in Seq(Plain) /\ Len(m) = n - 1 + 1
        /\ \A i \in 1 .. n - 1 + 1 : m[i] = queue[1 + i - 1]
    BY <2>1, <2>2, SubSeqProperties DEF m
  <2> QED BY <2>2, <2>3
<1>5. queue = m \o queue'
  <2>1. /\ 1 \in 1 .. Len(queue) + 1 /\ n \in 1 - 1 .. Len(queue) /\ Len(queue) \in n .. Len(queue)
    BY <1>2, <1>3
  <2>2. SubSeq(queue, 1, n) \o SubSeq(queue, n + 1, Len(queue)) = SubSeq(queue, 1, Len(queue))
    BY <1>2, <2>1, ConcatAdjacentSubSeq
  <2>3. SubSeq(queue, 1, Len(queue)) = queue
    BY <1>2, SubSeqFull
  <2> QED BY <1>1, <2>2, <2>3 DEF m
<1>6. popped' = popped \o m
  <2>1. popped \in Seq(Plain)
    BY StreamType
  <2>2. CASE status = 0
    <3>1. n = 1 /\ left' = 0 /\ first = 0 /\ left = 1
      BY <1>2, <1>3, <2>2
    <3>2. popped = <<>> /\ popped' = <<buffer'[1]>>
      BY <1>1, <2>2, <3>1 DEF popped
    <3>3. buffer'[1] = queue[1]
      BY <1>1, <3>1
    <3>4. m = <<queue[1]>>
      BY <1>4, <3>1
    <3>5. <<>> \o m = m
      BY <1>4, ConcatEmptySeq
    <3> QED BY <3>2, <3>3, <3>4, <3>5
  <2>3. CASE status # 0 /\ left = 1
    <3>1. n = 1 /\ left' = 0 /\ first = 1
      BY <1>3, <2>3
    <3>2. popped = <<status, buffer[1]>> /\ popped' = <<status, buffer'[1], buffer'[2]>>
      BY <1>1, <2>3, <3>1 DEF popped
    <3>3. buffer'[1] = buffer[1] /\ buffer'[2] = queue[1]
      BY <1>1, <3>1
    <3>4. m = <<queue[1]>>
      BY <1>4, <3>1
    <3> QED BY <3>2, <3>3, <3>4
  <2>4. CASE status # 0 /\ left = 2 /\ n = 1
    <3>1. left' = 1 /\ first = 0
      BY <1>3, <2>4
    <3>2. popped = <<status>> /\ popped' = <<status, buffer'[1]>>
      BY <1>1, <2>4, <3>1 DEF popped
    <3>3. buffer'[1] = queue[1]
      BY <1>1, <2>4, <3>1
    <3>4. m = <<queue[1]>>
      BY <1>4, <2>4
    <3> QED BY <3>2, <3>3, <3>4
  <2>5. CASE status # 0 /\ left = 2 /\ n = 2
    <3>1. left' = 0 /\ first = 0
      BY <1>3, <2>5
    <3>2. popped = <<status>> /\ popped' = <<status, buffer'[1], buffer'[2]>>
      BY <1>1, <2>5, <3>1 DEF popped
    <3>3. buffer'[1] = queue[1] /\ buffer'[2] = queue[2]
      BY <1>1, <2>5, <3>1
    <3>4. m = <<queue[1], queue[2]>>
      BY <1>4, <2>5
    <3> QED BY <3>2, <3>3, <3>4
  <2> QED BY <1>2, <1>3, <2>2, <2>3, <2>4, <2>5
<1>7. stream' = stream
  <2>1. queue' \in Seq(Plain)
    BY DEF TInv
  <2>2. pending' = pending
    BY <1>1 DEF pending
  <2> QED BY <1>1, <1>4, <1>5, <1>6, <2>1, <2>2, QueueShrinks
<1>8. pc' = "popped" => left' = 0
  BY <1>1, <1>2, <1>3
<1> QED BY <1>1, <1>7, <1>8, SameStream

LEMMA TrackedInLoop ==
  TInv /\ TInv' /\ Control /\ Tracked /\ Loop => (Lost \/ Tracked)'
<1> SUFFICES ASSUME TInv, TInv', Control, Tracked, Loop PROVE Lost' \/ Tracked'
  OBVIOUS
<1> USE DEF keyboard, collector, pipe, loop, pattern
<1>0. ASSUME popped' = popped, UNCHANGED <<queue, cpc, byte, wire, key_pressed, sustain, held, pedal>>,
             pc' # "popped"
      PROVE  Tracked'
  <2>1. stream' = stream
    BY <1>0 DEF stream, pending
  <2> QED BY <1>0, <2>1, SameStream
<1>1. CASE NextMessage
  <2>1. popped' = popped
    BY <1>1 DEF NextMessage, Control, popped
  <2> QED BY <1>0, <1>1, <2>1 DEF NextMessage
<1>2. CASE PopSome
  BY <1>2, TrackedPop
<1>3. CASE PopNone
  <2>1. /\ pc = "pop_look" /\ queue = <<>> /\ status # 0 /\ left > 0
        /\ UNCHANGED <<queue, cpc, byte, wire, status, buffer, left, key_pressed, sustain, held, pedal>>
    BY <1>3 DEF PopNone, Control
  <2>2. CASE ~closed
    <3>1. pc' = "pop_sleep"
      BY <1>3, <2>2 DEF PopNone
    <3>2. popped' = popped
      BY <2>1, <3>1 DEF popped
    <3> QED BY <1>0, <2>1, <3>1, <3>2
  <2>3. CASE closed
    <3>1. cpc = "exit"
      BY <2>1, <2>3 DEF Control
    <3>2. CASE wire # <<>>
      BY <2>1, <3>1, <3>2 DEF Lost
    <3>3. CASE wire = <<>>
      <4>1. pending = <<>>
        BY <3>1 DEF pending
      <4>2. popped \in Seq(Plain)
        BY StreamType
      <4>3. stream = popped
        <5>1. <<>> \o (<<>> \o <<>>) = <<>>
          BY EmptySeq, ConcatEmptySeq
        <5>2. popped \o <<>> = popped
          BY <4>2, ConcatEmptySeq
        <5> QED BY <2>1, <3>3, <4>1, <5>1, <5>2 DEF stream
      <4>4. status \in {144, 176} /\ (left = 1 \/ left = 2)
        BY <2>1 DEF TInv
      <4>5. Len(popped) \in {1, 2} /\ popped[1] = status
        BY <4>4 DEF popped
      <4>6. 1 \in 1 .. Len(popped) /\ ~(1 + 2 <= Len(popped))
        <5>1. CASE left = 1
          <6>1. Len(popped) = 2
            BY <4>4, <5>1 DEF popped
          <6> QED BY <6>1
        <5>2. CASE left = 2
          <6>1. Len(popped) = 1
            BY <4>4, <5>2 DEF popped
          <6> QED BY <6>1
        <5> QED BY <4>4, <5>1, <5>2
      <4>7. Framed(popped)
        BY <4>3 DEF Tracked
      <4> QED BY <4>4, <4>5, <4>6, <4>7 DEF Framed
    <3> QED BY <3>2, <3>3
  <2> QED BY <2>2, <2>3
<1>4. CASE PopSleep
  <2>1. popped' = popped
    BY <1>4 DEF PopSleep, popped
  <2> QED BY <1>0, <1>4, <2>1 DEF PopSleep
<1>5. CASE Dispatch
  <2>1. CASE buffer[1] \in {144, 176}
    <3>1. popped = <<buffer[1]>>
      BY <1>5 DEF Dispatch, popped
    <3>2. popped' = <<buffer[1]>> /\ pc' # "popped"
      BY <1>5, <2>1 DEF Dispatch, data_bytes, popped
    <3> QED BY <1>0, <1>5, <3>1, <3>2 DEF Dispatch
  <2>2. CASE buffer[1] \notin {144, 176}
    BY <1>5, <2>2, TrackedSkip
  <2> QED BY <2>1, <2>2
<1>6. CASE NoteOn
  <2>1. /\ pc = "popped" /\ status = 144 /\ Applied /\ On(buffer[2]) = 1 /\ sustain' = sustain
        /\ key_pressed' = [key_pressed EXCEPT ![key] = 1]
    BY <1>6 DEF NoteOn, On
  <2>2. \A k \in LEDs : key_pressed'[k] = IF status = 144 /\ k = key THEN On(buffer[2]) ELSE key_pressed[k]
    BY <2>1 DEF TInv
  <2> QED BY <2>1, <2>2, TrackedApplied
<1>7. CASE NoteOff
  <2>1. /\ pc = "popped" /\ status = 144 /\ Applied /\ On(buffer[2]) = 0 /\ sustain' = sustain
        /\ key_pressed' = [key_pressed EXCEPT ![key] = 0]
    BY <1>7 DEF NoteOff, On
  <2>2. \A k \in LEDs : key_pressed'[k] = IF status = 144 /\ k = key THEN On(buffer[2]) ELSE key_pressed[k]
    BY <2>1 DEF TInv
  <2> QED BY <2>1, <2>2, TrackedApplied
<1>8. CASE NoteOutside
  <2>1. left = 0 /\ Framed(stream) /\ status = 144 /\ key \notin LEDs
    BY <1>8 DEF Tracked, NoteOutside
  <2> QED BY <2>1, FirstMessage
<1>9. CASE Controller
  <2>1. /\ pc = "popped" /\ status = 176 /\ Applied /\ key_pressed' = key_pressed
        /\ sustain' = IF buffer[1] = 64 THEN On(buffer[2]) ELSE sustain
    BY <1>9 DEF Controller, is_pedal, On
  <2> QED BY <2>1, TrackedApplied
<1>10. CASE InitLeds
  <2>1. popped' = popped /\ pc' # "popped"
    BY <1>10 DEF InitLeds, popped
  <2> QED BY <1>0, <1>10, <2>1 DEF InitLeds
<1>11. CASE Frame
  <2>1. popped' = popped /\ pc' # "popped"
    BY <1>11 DEF Frame, popped
  <2> QED BY <1>0, <1>11, <2>1 DEF Frame
<1>12. CASE Render
  <2>1. popped' = popped /\ pc' # "popped"
    BY <1>12 DEF Render, Control, popped
  <2> QED BY <1>0, <1>12, <2>1 DEF Render
<1>13. CASE FreeProducer
  BY <1>13 DEF FreeProducer, gives_up, Lost
<1>14. CASE FreeRest
  BY <1>14 DEF FreeRest, gives_up, Lost
<1> QED BY <1>1, <1>2, <1>3, <1>4, <1>5, <1>6, <1>7, <1>8, <1>9, <1>10, <1>11, <1>12, <1>13,
           <1>14 DEF Loop

LEMMA TrackedAtInit == Init => Tracked
<1> SUFFICES ASSUME Init PROVE Tracked
  OBVIOUS
<1>1. popped = <<>> /\ pending = <<>> /\ queue = <<>> /\ wire = <<>>
  BY DEF Init, popped, pending
<1>2. <<>> \o (<<>> \o (<<>> \o <<>>)) = <<>>
  BY EmptySeq, ConcatEmptySeq
<1>3. stream = <<>> /\ Len(stream) = 0
  BY <1>1, <1>2 DEF stream
<1>4. Framed(stream)
  BY <1>3 DEF Framed
<1>5. \A st, d, v : Yields(stream, st, d, v, v)
  BY <1>3 DEF Yields
<1> QED BY <1>4, <1>5 DEF Init, Tracked

-----------------------------------------------------------------------------
(* The invariant, and what follows.                                        *)
LEMMA Invariant == Spec => []IInv
<1>1. Init => IInv
  BY TypesAtInit, ControlAtInit, LightsAtInit, TrackedAtInit DEF IInv
<1>2. IInv /\ [Next]_vars => IInv'
  <2> SUFFICES ASSUME IInv, [Next]_vars PROVE IInv'
    OBVIOUS
  <2>1. TInv /\ Control /\ Lights /\ (Lost \/ Tracked)
    BY DEF IInv
  <2>2. CASE Next
    <3>1. Collector \/ Loop \/ Environment
      BY <2>2 DEF Next
    <3>2. pc = "pop_look" /\ queue # <<>> => Framed(stream)
      BY <2>1 DEF Lost, gives_up, Tracked
    <3>3. TInv'
      BY <2>1, <3>1, <3>2, TypesInCollector, TypesInLoop, TypesInEnvironment
    <3>4. Control'
      BY <2>1, <3>1, ControlInCollector, ControlInLoop, ControlInEnvironment
    <3>5. Lights'
      BY <2>1, <3>1, LightsInCollector, LightsInLoop, LightsInEnvironment
    <3>6. (Lost \/ Tracked)'
      BY <2>1, <2>2, <3>1, <3>3, LostStays, TrackedInCollector, TrackedInLoop, TrackedInEnvironment
    <3> QED BY <3>3, <3>4, <3>5, <3>6 DEF IInv
  <2>3. CASE UNCHANGED vars
    <3> USE DEF vars, keyboard, collector, pipe, loop, pattern
    <3>1. TInv'
      BY <2>1, <2>3 DEF TInv
    <3>2. Control' /\ Lights'
      BY <2>1, <2>3 DEF Control, Lights, gives_up
    <3>3. UNCHANGED <<popped, pending>>
      BY <2>3 DEF popped, pending
    <3>4. Lost' = Lost
      BY <2>3 DEF Lost, gives_up
    <3>5. Tracked => Tracked'
      BY <2>3, <3>3 DEF Tracked, stream
    <3> QED BY <2>1, <3>1, <3>2, <3>4, <3>5 DEF IInv
  <2> QED BY <2>2, <2>3
<1> QED BY <1>1, <1>2, PTL DEF Spec

(* Types; the loop never waits for more bytes than its buffer has          *)
(* (piano.c's data of two bytes, main.c's buffer of one).                  *)
THEOREM TypesHold == Spec => []TypeOK
<1>1. IInv => TypeOK
  <2> SUFFICES ASSUME IInv PROVE TypeOK
    OBVIOUS
  <2>1. TInv
    BY DEF IInv
  <2>2. Plain \subseteq Bytes
    BY DEF Plain, Bytes
  <2>3. wire \in Seq(Bytes) /\ queue \in Seq(Bytes)
    BY <2>1, <2>2, SeqMonotonic DEF TInv
  <2>4. buffer \in [1 .. 2 -> Bytes]
    BY <2>1, <2>2 DEF TInv
  <2>5. left \in 0 .. (IF status = 0 THEN 1 ELSE 2)
    BY <2>1 DEF TInv
  <2> QED BY <2>1, <2>3, <2>4, <2>5 DEF TInv, TypeOK
<1> QED BY <1>1, Invariant, PTL

(* Once all that was played has been applied, the program knows which keys *)
(* are down and whether the pedal is, whatever else the keyboard sends     *)
(* (midi_collector_thread of main.c and led_update_piano_normal).          *)
THEOREM StateAgrees == Spec => []Agrees
<1>1. IInv => Agrees
  <2> SUFFICES ASSUME IInv, delivered PROVE key_pressed = held /\ sustain = pedal
    BY DEF Agrees
  <2>1. TInv /\ Control /\ (Lost \/ Tracked)
    BY DEF IInv
  <2>2. /\ wire = <<>> /\ queue = <<>> /\ pending = <<>> /\ popped = <<>>
        /\ pc \in {"size", "render"}
    BY <2>1 DEF delivered, Control, pending, popped
  <2>3. Tracked
    BY <2>1, <2>2 DEF Lost, gives_up
  <2>4. <<>> \o (<<>> \o (<<>> \o <<>>)) = <<>>
    BY EmptySeq, ConcatEmptySeq
  <2>5. stream = <<>> /\ Len(stream) = 0
    BY <2>2, <2>4 DEF stream
  <2>6. \A st, d, h, v : Yields(stream, st, d, h, v) => h = v
    BY <2>5 DEF Yields
  <2>7. \A k \in LEDs : key_pressed[k] = held[k]
    BY <2>3, <2>6 DEF Tracked
  <2>8. sustain = pedal
    BY <2>3, <2>6 DEF Tracked
  <2> QED BY <2>1, <2>7, <2>8 DEF TInv
<1> QED BY <1>1, Invariant, PTL

(* A key that is down always fades slowly; after a frame with the pedal up *)
(* no other one does (key_sustain of piano.c).                             *)
THEOREM SustainIsRight == Spec => []SustainFollows
<1>1. IInv => SustainFollows
  BY DEF IInv, Lights, SustainFollows
<1> QED BY <1>1, Invariant, PTL

(* Every key hit since the last frame is visible in the next one, unless   *)
(* it was hit as softly as can be, or black was drawn for the keys of the  *)
(* frame (piano_black): a level of 3 or more survives a frame.             *)
THEOREM StruckIsSeen == Spec => []StruckIsShown
<1>1. IInv => StruckIsShown
  BY DEF IInv, Lights, StruckIsShown
<1> QED BY <1>1, Invariant, PTL

(* Until a thread has failed, no byte but a key's number is used as an     *)
(* index, and nothing that was freed is used.                              *)
THEOREM StaysInBounds == Spec => []InBoundsWhileOpen
<1>1. IInv => InBoundsWhileOpen
  BY DEF IInv, Control, InBoundsWhileOpen
<1> QED BY <1>1, Invariant, PTL
==============================================================================
