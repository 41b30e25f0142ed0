------------------------- MODULE Ws2811EncodeProofs -------------------------
(***************************************************************************)
(* Proofs about Ws2811Encode: for every picture, strip type, brightness    *)
(* and number of LEDs, each line carries exactly the last frame, and at    *)
(* the frequencies the driver names the reset time fits behind it.         *)
(***************************************************************************)
EXTENDS Ws2811Encode, TLAPS

-----------------------------------------------------------------------------
(* The inductive invariant: what ws2811_init has set up, and that a bit of *)
(* a line is 1 exactly where the loops of the last ws2811_render have put  *)
(* a 1.                                                                    *)
Shape ==
  /\ mode \in {"PWM", "PCM", "SPI"}
  /\ freq \in Freqs
  /\ \A c \in Channels :
       /\ channel[c].count \in Nat
       /\ channel[c].strip \in DOMAIN strip_type
  /\ mode # "PWM" => channel[1].count = 0

(* The time by which channel 0 has shifted bitpos when channel 1 begins.   *)
lead(c) == IF c = 0 THEN 0 ELSE written_bits(channel[0]) % UNIT

(* Bit p of the line of channel c, in the units buf.                       *)
bit(c, p, buf) == (UNIT - 1) - (p % UNIT) \in buf[c + lines * (p \div UNIT)]

(* The loops have put a 1 there, when they ran over these pixels.          *)
one(c, p, pixels) ==
  /\ p - lead(c) \in 0 .. written_bits(channel[c]) - 1
  /\ symbol_bit(channel[c], pixels, p - lead(c)) = 1

Painted ==
  \A c \in Channels :
    /\ leds[c] = <<>> \/ Len(leds[c]) = channel[c].count
    /\ c < lines => \A p \in 0 .. line_bits - 1 :
         bit(c, p, raw) <=> leds[c] # <<>> /\ one(c, p, leds[c])

IInv == Shape /\ Painted

-----------------------------------------------------------------------------
(* The longer of the two channels is one of them.                          *)
LEMMA MaxCount ==
  ASSUME Shape
  PROVE  /\ max_count \in Nat
         /\ \A c \in Channels : channel[c].count <= max_count
         /\ \E c \in Channels : max_count = channel[c].count
<1> DEFINE S == {channel[c].count : c \in Channels}
<1>1. \E m \in S : \A n \in S : m >= n
  <2>1. S = {channel[0].count, channel[1].count}
    BY DEF Channels
  <2>2. channel[0].count \in Nat /\ channel[1].count \in Nat
    BY DEF Shape, Channels
  <2>3. CASE channel[0].count >= channel[1].count
    <3>1. \A n \in S : channel[0].count >= n
      BY <2>1, <2>2, <2>3
    <3> QED BY <2>1, <3>1
  <2>4. CASE channel[1].count >= channel[0].count
    <3>1. \A n \in S : channel[1].count >= n
      BY <2>1, <2>2, <2>4
    <3> QED BY <2>1, <3>1
  <2> QED BY <2>2, <2>3, <2>4
<1>2. max_count \in S /\ \A n \in S : max_count >= n
  BY <1>1 DEF max_count, Max
<1> QED BY <1>2 DEF Shape

(* The reset time is a number of bits.                                     *)
LEMMA ResetBits ==
  ASSUME Shape PROVE reset_bits \in Nat
BY EncodeAssumption DEF Shape, reset_bits, LED_RESET_uS

(* Three or four bytes are sent for an LED, as its name says.              *)
LEMMA ArraySize ==
  ASSUME Shape, NEW c \in Channels
  PROVE  /\ array_size(channel[c]) = Len(takes(c))
         /\ Len(takes(c)) \in {3, 4}
         /\ \A j \in 1 .. Len(takes(c)) : strip_type[channel[c].strip][j] = takes(c)[j]
<1> DEFINE s == channel[c].strip
           Four == {"RGBW", "RBGW", "GRBW", "GBRW", "BRGW", "BGRW"}
           Three == {"RGB", "RBG", "GRB", "GBR", "BRG", "BGR"}
<1>1. s \in Four \cup Three
  BY DEF Shape, strip_type
<1>2. CASE s \in Four
  <2>1. wire_order[s] = strip_type[s]
    BY <1>2, SMTT(30) DEF strip_type, wire_order, R, G, B, W
  <2>2. Len(wire_order[s]) = 4
    BY <1>2 DEF wire_order, R, G, B, W
  <2>3. strip_type[s][4] = 24
    BY <1>2 DEF strip_type
  <2> QED BY <2>1, <2>2, <2>3 DEF array_size, takes
<1>3. CASE s \in Three
  <2>1. /\ Len(wire_order[s]) = 3 /\ strip_type[s][4] = 0
        /\ \A j \in 1 .. 3 : strip_type[s][j] = wire_order[s][j]
    BY <1>3 DEF strip_type, wire_order, R, G, B
  <2> QED BY <2>1 DEF array_size, takes
<1> QED BY <1>1, <1>2, <1>3

LEMMA WrittenBits ==
  ASSUME Shape, NEW c \in Channels
  PROVE  /\ written_bits(channel[c]) \in Nat
         /\ \/ array_size(channel[c]) = 3 /\ written_bits(channel[c]) = channel[c].count * 72
            \/ array_size(channel[c]) = 4 /\ written_bits(channel[c]) = channel[c].count * 96
<1>1. channel[c].count \in Nat /\ array_size(channel[c]) \in {3, 4}
  BY ArraySize DEF Shape
<1>2. CASE array_size(channel[c]) = 3
  BY <1>1, <1>2 DEF written_bits
<1>3. CASE array_size(channel[c]) = 4
  BY <1>1, <1>3 DEF written_bits
<1> QED BY <1>1, <1>2, <1>3

(* Channel 0 begins with its line, channel 1 within a unit of it.          *)
LEMMA Lead ==
  ASSUME Shape, NEW c \in Channels
  PROVE  /\ lead(c) \in 0 .. UNIT - 1
         /\ first_bitpos(c) = UNIT - 1 - lead(c)
<1>1. written_bits(channel[0]) \in Nat
  BY WrittenBits DEF Channels
<1>2. UNIT \in {8, 32}
  BY DEF UNIT
<1> QED BY <1>1, <1>2 DEF lead, first_bitpos, Channels

(* The units of the lines fill the buffer.                                 *)
LEMMA Buffer ==
  ASSUME Shape
  PROVE  /\ UNIT \in {8, 32}
         /\ lines \in {1, 2}
         /\ line_bits = ((max_count * 96 + reset_bits) \div 64) * 64 + 64
         /\ Units = 0 .. lines * (line_bits \div UNIT) - 1
         /\ line_bits = UNIT * (line_bits \div UNIT)
         /\ line_bits \in Nat
<1> DEFINE m == (max_count * 96 + reset_bits) \div 64
<1>1. UNIT \in {8, 32} /\ lines \in {1, 2}
  BY DEF UNIT, lines
<1>2. max_count \in Nat /\ reset_bits \in Nat
  BY MaxCount, ResetBits
<1>3. LED_BIT_COUNT(max_count) = max_count * 96 + reset_bits
  BY <1>2 DEF LED_BIT_COUNT, LED_COLOURS
<1>4. m \in Nat
  BY <1>2
<1>5. byte_count = (m * 8 + 8) * lines
  BY <1>1, <1>3, <1>4 DEF byte_count, PCM_BYTE_COUNT
<1> HIDE DEF m
<1>6. line_bits = m * 64 + 64
  BY <1>1, <1>4, <1>5 DEF line_bits
<1>7. line_bits = UNIT * (line_bits \div UNIT) /\ line_bits \div UNIT \in Nat
  BY <1>1, <1>4, <1>6
<1>8. (byte_count * 8) \div UNIT = lines * (line_bits \div UNIT)
  BY <1>1, <1>4, <1>5, <1>6
<1> QED BY <1>1, <1>4, <1>6, <1>7, <1>8 DEF Units, m

(* A bit of a line is a bit of a unit.                                     *)
LEMMA Place ==
  ASSUME Shape, NEW c \in Channels, c < lines, NEW p \in 0 .. line_bits - 1
  PROVE  /\ c + lines * (p \div UNIT) \in Units
         /\ (UNIT - 1) - (p % UNIT) \in 0 .. UNIT - 1
         /\ p \div UNIT \in Nat /\ p % UNIT \in 0 .. UNIT - 1
         /\ p = UNIT * (p \div UNIT) + (p % UNIT)
<1> DEFINE w == line_bits \div UNIT
<1>1. /\ UNIT \in {8, 32}
      /\ lines \in {1, 2}
      /\ line_bits = UNIT * w /\ line_bits \in Nat
      /\ Units = 0 .. lines * w - 1
  BY Buffer
<1>2. c \in {0, 1} /\ p \in Nat
  BY <1>1 DEF Channels
<1>3. /\ p \div UNIT \in Nat /\ p % UNIT \in 0 .. UNIT - 1
      /\ p = UNIT * (p \div UNIT) + (p % UNIT)
  BY <1>1, <1>2
<1>4. w \in Nat
  BY <1>1
<1> HIDE DEF w
<1>5. p \div UNIT < w
  BY <1>1, <1>2, <1>4
<1>6. c + lines * (p \div UNIT) \in 0 .. lines * w - 1
  BY <1>1, <1>2, <1>3, <1>4, <1>5
<1> QED BY <1>1, <1>3, <1>6

-----------------------------------------------------------------------------
(* The loops over one channel write its own line, from its lead on, and    *)
(* nothing else.                                                           *)
LEMMA OneChannel ==
  ASSUME Shape, NEW buf, NEW pixels, NEW c \in Channels, c < lines,
         NEW p \in 0 .. line_bits - 1, NEW d \in Channels
  PROVE  bit(c, p, encoded_channel(d, buf, pixels)) <=>
           IF d = c /\ p - lead(c) \in 0 .. written_bits(channel[c]) - 1
           THEN one(c, p, pixels) ELSE bit(c, p, buf)
<1> DEFINE w == p \div UNIT
           b == (UNIT - 1) - (p % UNIT)
           u == c + lines * w
           x == ((u - first_unit(d)) \div unit_step) * UNIT + first_bitpos(d) - b
<1>1. u \in Units /\ b \in 0 .. UNIT - 1 /\ w \in Nat /\ p % UNIT \in 0 .. UNIT - 1
      /\ p = UNIT * w + (p % UNIT)
  BY Place
<1>2. UNIT \in {8, 32} /\ lines \in {1, 2} /\ unit_step = lines /\ c \in {0, 1} /\ d \in {0, 1}
  BY Buffer DEF unit_step, Channels
<1>3. lead(d) \in 0 .. UNIT - 1 /\ first_bitpos(d) = UNIT - 1 - lead(d)
  BY Lead
<1>4. written_bits(channel[d]) \in Nat
  BY WrittenBits
<1>5. bit(c, p, encoded_channel(d, buf, pixels)) <=>
        IF (u - first_unit(d)) % unit_step # 0 THEN bit(c, p, buf)
        ELSE IF x \in 0 .. written_bits(channel[d]) - 1
             THEN symbol_bit(channel[d], pixels, x) = 1 ELSE bit(c, p, buf)
  BY <1>1 DEF bit, encoded_channel, overwritten
<1>6. CASE d = c
  <2>1. first_unit(d) = c
    BY <1>2, <1>6 DEF first_unit, lines
  <2>2. (u - first_unit(d)) % unit_step = 0 /\ (u - first_unit(d)) \div unit_step = w
    BY <1>1, <1>2, <2>1
  <2>3. x = w * UNIT + (UNIT - 1 - lead(c)) - b
    BY <1>3, <1>6, <2>2
  <2> HIDE DEF w, x
  <2>4. x = p - lead(c)
    BY <1>1, <1>2, <1>3, <1>6, <2>3
  <2> QED BY <1>5, <1>6, <2>2, <2>4 DEF one
<1>7. CASE d # c /\ lines = 2
  <2>1. first_unit(d) = d
    BY <1>7 DEF first_unit, lines
  <2>2. (u - first_unit(d)) % unit_step # 0
    BY <1>1, <1>2, <1>7, <2>1
  <2> QED BY <1>5, <1>7, <2>2
<1>8. CASE d # c /\ lines = 1
  <2>1. d = 1 /\ mode # "PWM"
    BY <1>2, <1>8 DEF lines
  <2>2. written_bits(channel[d]) = 0
    BY <2>1, WrittenBits, <1>2 DEF Shape
  <2> QED BY <1>5, <1>8, <2>2
<1> QED BY <1>2, <1>6, <1>7, <1>8

(* A frame puts on each line the pixels of its channel and keeps the rest. *)
LEMMA Encoded ==
  ASSUME Shape, NEW pixels, NEW c \in Channels, c < lines, NEW p \in 0 .. line_bits - 1
  PROVE  bit(c, p, encoded(pixels)) <=>
           IF p - lead(c) \in 0 .. written_bits(channel[c]) - 1
           THEN one(c, p, pixels[c]) ELSE bit(c, p, raw)
<1> DEFINE buf == encoded_channel(0, raw, pixels[0])
<1>1. bit(c, p, encoded(pixels)) <=>
        IF 1 = c /\ p - lead(c) \in 0 .. written_bits(channel[c]) - 1
        THEN one(c, p, pixels[1]) ELSE bit(c, p, buf)
  BY OneChannel DEF encoded, Channels
<1>2. bit(c, p, buf) <=>
        IF 0 = c /\ p - lead(c) \in 0 .. written_bits(channel[c]) - 1
        THEN one(c, p, pixels[0]) ELSE bit(c, p, raw)
  BY OneChannel DEF Channels
<1> QED BY <1>1, <1>2 DEF Channels

(* The frame is on the lines, and nothing else, if it was so before.       *)
LEMMA FramePainted ==
  ASSUME Shape, Painted, NEW pixels, NEW c \in Channels, c < lines,
         Len(pixels[c]) = channel[c].count, NEW p \in 0 .. line_bits - 1
  PROVE  bit(c, p, encoded(pixels)) <=> pixels[c] # <<>> /\ one(c, p, pixels[c])
<1>1. CASE p - lead(c) \in 0 .. written_bits(channel[c]) - 1
  <2>1. channel[c].count \in Nat /\ written_bits(channel[c]) # 0
    BY <1>1, WrittenBits DEF Shape
  <2>2. pixels[c] # <<>>
    BY <2>1, WrittenBits
  <2> QED BY <1>1, <2>2, Encoded
<1>2. CASE p - lead(c) \notin 0 .. written_bits(channel[c]) - 1
  <2>1. ~bit(c, p, raw)
    BY <1>2 DEF Painted, one
  <2> QED BY <1>2, <2>1, Encoded DEF one
<1> QED BY <1>1, <1>2

LEMMA PicturesFit ==
  ASSUME NEW n \in Nat, NEW x \in Pictures(n)
  PROVE  Len(x) = n
<1>1. PICK a \in Colours, b \in Colours : x = [i \in 1 .. n |-> IF i % 2 = 1 THEN a ELSE b]
  BY DEF Pictures
<1> QED BY <1>1

LEMMA InitIInv == Init => IInv
<1> SUFFICES ASSUME Init PROVE IInv
  OBVIOUS
<1>1. PICK n \in Counts, m \in IF mode = "PWM" THEN Counts ELSE {0} :
        \E ch0 \in ChannelTypes(n), ch1 \in ChannelTypes(m) :
          channel = [c \in Channels |-> IF c = 0 THEN ch0 ELSE ch1]
  BY DEF Init
<1>2. PICK ch0 \in ChannelTypes(n), ch1 \in ChannelTypes(m) :
        channel = [c \in Channels |-> IF c = 0 THEN ch0 ELSE ch1]
  BY <1>1
<1>3. Shape
  <2>1. n \in Nat /\ m \in Nat /\ (mode # "PWM" => m = 0)
    BY EncodeAssumption
  <2>2. /\ ch0.count = n /\ ch0.strip \in Strips
        /\ ch1.count = m /\ ch1.strip \in Strips
    BY DEF ChannelTypes
  <2> QED BY <1>2, <2>1, <2>2, EncodeAssumption DEF Shape, Init, Channels
<1>4. Painted
  <2>1. ASSUME NEW c \in Channels, c < lines, NEW p \in 0 .. line_bits - 1
        PROVE  ~bit(c, p, raw)
    BY <1>3, <2>1, Place DEF Init, raw_init, bit
  <2> QED BY <2>1 DEF Painted, Init
<1> QED BY <1>3, <1>4 DEF IInv

(* The driver's set-up stays as it is, so a state is described by what it  *)
(* last sent and what the buffer holds.                                    *)
LEMMA Described ==
  ASSUME Shape, UNCHANGED <<mode, freq, channel>>,
         NEW pixels, leds' = pixels, NEW buf, raw' = buf,
         \A c \in Channels :
           /\ pixels[c] = <<>> \/ Len(pixels[c]) = channel[c].count
           /\ c < lines => \A p \in 0 .. line_bits - 1 :
                bit(c, p, buf) <=> pixels[c] # <<>> /\ one(c, p, pixels[c])
  PROVE  IInv'
<1>1. Shape'
  BY DEF Shape
<1>2. UNIT' = UNIT /\ lines' = lines /\ line_bits' = line_bits
  <2>1. UNIT' = UNIT /\ lines' = lines /\ max_count' = max_count
    BY DEF UNIT, lines, max_count
  <2>2. byte_count' = byte_count
    BY <2>1 DEF byte_count, PCM_BYTE_COUNT, LED_BIT_COUNT, reset_bits
  <2> QED BY <2>1, <2>2 DEF line_bits
<1>3. ASSUME NEW c \in Channels PROVE lead(c)' = lead(c)
  BY <1>2 DEF lead, written_bits, array_size
<1>4. ASSUME NEW c \in Channels, (c < lines)', NEW p \in (0 .. line_bits - 1)'
      PROVE  (bit(c, p, raw))' <=> (leds[c] # <<>>)' /\ (one(c, p, leds[c]))'
  <2>1. bit(c, p, buf) <=> pixels[c] # <<>> /\ one(c, p, pixels[c])
    BY <1>2, <1>4
  <2>2. (bit(c, p, raw))' <=> bit(c, p, buf)
    BY <1>2 DEF bit
  <2>3. written_bits(channel[c])' = written_bits(channel[c])
    BY Zenon DEF written_bits, array_size
  <2>4. ASSUME NEW q
        PROVE  symbol_bit(channel[c], leds[c], q)' = symbol_bit(channel[c], pixels[c], q)
    <3>1. ASSUME NEW led, NEW j PROVE color(channel[c], led, j)' = color(channel[c], led, j)
      BY Zenon DEF color
    <3>2. ASSUME NEW on PROVE symbol(channel[c], on)' = symbol(channel[c], on)
      BY Zenon DEF symbol
    <3>3. array_size(channel[c])' = array_size(channel[c])
      BY Zenon DEF array_size
    <3> QED BY <3>1, <3>2, <3>3, Zenon DEF symbol_bit
  <2>5. (one(c, p, leds[c]))' <=> one(c, p, pixels[c])
    BY <1>3, <2>3, <2>4 DEF one
  <2> QED BY <2>1, <2>2, <2>5
<1>5. \A c \in Channels : leds'[c] = <<>> \/ Len(leds'[c]) = channel'[c].count
  OBVIOUS
<1> QED BY <1>1, <1>4, <1>5 DEF IInv, Painted

LEMMA NextIInv == IInv /\ [Next]_vars => IInv'
<1> SUFFICES ASSUME IInv, [Next]_vars PROVE IInv'
  OBVIOUS
<1>1. CASE Next
  <2>1. PICK p \in Pictures(channel[0].count), q \in Pictures(channel[1].count) :
          Render([c \in Channels |-> IF c = 0 THEN p ELSE q])
    BY <1>1 DEF Next
  <2>2. PICK pixels : pixels = [c \in Channels |-> IF c = 0 THEN p ELSE q]
    OBVIOUS
  <2>3. ASSUME NEW c \in Channels PROVE Len(pixels[c]) = channel[c].count
    BY <2>2, PicturesFit DEF IInv, Shape, Channels
  <2>4. PICK buf : buf = encoded(pixels)
    OBVIOUS
  <2>5. ASSUME NEW c \in Channels, c < lines, NEW p1 \in 0 .. line_bits - 1
        PROVE  bit(c, p1, buf) <=> pixels[c] # <<>> /\ one(c, p1, pixels[c])
    BY <2>3, <2>4, <2>5, FramePainted DEF IInv
  <2>6. leds' = pixels /\ raw' = buf /\ UNCHANGED <<mode, freq, channel>>
    BY <2>1, <2>2, <2>4 DEF Render
  <2> QED BY <2>3, <2>5, <2>6, Described DEF IInv
<1>2. CASE UNCHANGED vars
  <2>1. PICK pixels, buf : pixels = leds /\ buf = raw
    OBVIOUS
  <2>2. leds' = pixels /\ raw' = buf /\ UNCHANGED <<mode, freq, channel>>
    BY <1>2, <2>1 DEF vars
  <2>3. \A c \in Channels :
          /\ pixels[c] = <<>> \/ Len(pixels[c]) = channel[c].count
          /\ c < lines => \A p \in 0 .. line_bits - 1 :
               bit(c, p, buf) <=> pixels[c] # <<>> /\ one(c, p, pixels[c])
    BY <2>1 DEF IInv, Painted
  <2> QED BY <2>2, <2>3, Described DEF IInv
<1> QED BY <1>1, <1>2

-----------------------------------------------------------------------------
LEMMA DivTwice ==
  ASSUME NEW q \in Nat, NEW n \in {3, 4}
  PROVE  q \div (n * 24) = (q \div 24) \div n
<1>1. CASE n = 3
  <2>1. q \div 72 = (q \div 24) \div 3
    OBVIOUS
  <2> QED BY <1>1, <2>1
<1>2. CASE n = 4
  <2>1. q \div 96 = (q \div 24) \div 4
    OBVIOUS
  <2> QED BY <1>2, <2>1
<1> QED BY <1>1, <1>2

(* The symbol of the loops is the wave of the specification.               *)
LEMMA SymbolIsWave ==
  ASSUME Shape, NEW c \in Channels, NEW q \in Nat
  PROVE  /\ wave(c, q) \in {0, 1}
         /\ symbol_bit(channel[c], leds[c], q)
              = IF inverts(c) THEN 1 - wave(c, q) ELSE wave(c, q)
<1> DEFINE a == Len(takes(c))
           j == ((q \div 24) % a) + 1
           i == (q \div 24) \div a + 1
           on == (((leds[c][i][takes(c)[j]] * (channel[c].brightness + 1)) \div 256)
                    \div 2 ^ (7 - ((q \div 3) % 8))) % 2 = 1
<1>1. a = array_size(channel[c]) /\ a \in {3, 4}
  BY ArraySize
<1>2. j \in 1 .. a
  BY <1>1
<1>3. strip_type[channel[c].strip][j] = takes(c)[j]
  BY <1>2, ArraySize
<1>4. q \div (array_size(channel[c]) * 24) + 1 = i
  <2>1. q \div (a * 24) = (q \div 24) \div a
    BY <1>1, DivTwice
  <2> QED BY <1>1, <2>1
<1>5. symbol_bit(channel[c], leds[c], q) = symbol(channel[c], on)[(q % 3) + 1]
  BY <1>1, <1>3, <1>4, Zenon DEF symbol_bit, color
<1>6. wave(c, q) = <<1, IF on THEN 1 ELSE 0, 0>>[(q % 3) + 1]
  BY DEF wave
<1> HIDE DEF on
<1>7. q % 3 \in {0, 1, 2}
  OBVIOUS
<1> QED BY <1>5, <1>6, <1>7 DEF symbol, inverts

(* What is sent of a frame is what the loops run over.                     *)
LEMMA DataBits ==
  ASSUME Shape, NEW c \in Channels, Len(leds[c]) = channel[c].count
  PROVE  data_bits(c) = written_bits(channel[c])
<1> DEFINE n == channel[c].count
<1>1. n \in Nat /\ array_size(channel[c]) = Len(takes(c))
  BY ArraySize DEF Shape
<1>2. data_bits(c) = n * array_size(channel[c]) * 24
  BY <1>1 DEF data_bits
<1>3. CASE array_size(channel[c]) = 3
  BY <1>1, <1>2, <1>3, WrittenBits
<1>4. CASE array_size(channel[c]) = 4
  BY <1>1, <1>2, <1>4, WrittenBits
<1> QED BY <1>3, <1>4, WrittenBits

(* Each line carries the last frame.                                       *)
LEMMA IInvStream == IInv => StreamIsFrame
<1> SUFFICES ASSUME IInv, NEW c \in Channels, c < lines, NEW p \in 0 .. line_bits - 1
             PROVE  line(c)[p] = IF p < lead(c) \/ p >= lead(c) + data_bits(c) THEN 0
                                 ELSE IF inverts(c) THEN 1 - wave(c, p - lead(c))
                                 ELSE wave(c, p - lead(c))
  BY Lead DEF StreamIsFrame, IInv
<1>1. Shape /\ Painted
  BY DEF IInv
<1>2. line(c)[p] = IF bit(c, p, raw) THEN 1 ELSE 0
  BY DEF line, bit
<1>3. lead(c) \in Nat /\ p \in Nat /\ channel[c].count \in Nat
  BY <1>1, Lead, Buffer DEF Shape
<1>4. CASE leds[c] = <<>>
  <2>1. data_bits(c) = 0
    BY <1>1, <1>4, ArraySize DEF data_bits
  <2>2. ~bit(c, p, raw)
    BY <1>1, <1>4 DEF Painted
  <2> QED BY <1>2, <1>3, <2>1, <2>2
<1>5. CASE leds[c] # <<>>
  <2>1. data_bits(c) = written_bits(channel[c])
    BY <1>1, <1>5, DataBits DEF Painted
  <2>2. bit(c, p, raw) <=> one(c, p, leds[c])
    BY <1>1, <1>5 DEF Painted
  <2>3. written_bits(channel[c]) \in Nat
    BY <1>1, WrittenBits
  <2>4. CASE p < lead(c) \/ p >= lead(c) + data_bits(c)
    BY <1>2, <1>3, <2>1, <2>2, <2>3, <2>4 DEF one
  <2>5. CASE ~(p < lead(c) \/ p >= lead(c) + data_bits(c))
    <3>1. p - lead(c) \in 0 .. written_bits(channel[c]) - 1 /\ p - lead(c) \in Nat
      BY <1>3, <2>1, <2>3, <2>5
    <3> DEFINE q == p - lead(c)
    <3>2. /\ wave(c, q) \in {0, 1}
          /\ symbol_bit(channel[c], leds[c], q)
               = IF inverts(c) THEN 1 - wave(c, q) ELSE wave(c, q)
      BY <1>1, <3>1, SymbolIsWave
    <3>3. line(c)[p] = IF symbol_bit(channel[c], leds[c], q) = 1 THEN 1 ELSE 0
      BY <1>2, <2>2, <3>1 DEF one
    <3> HIDE DEF q
    <3>4. line(c)[p] = IF inverts(c) THEN 1 - wave(c, q) ELSE wave(c, q)
      BY <3>2, <3>3
    <3> QED BY <2>5, <3>4 DEF q
  <2> QED BY <2>4, <2>5
<1> QED BY <1>4, <1>5

(* What ws2811_render encodes is, on the line of every channel, exactly    *)
(* the last frame (ws2811.c:1112-1202), however many LEDs the channels     *)
(* have, whatever they show and however often a frame has been rendered.   *)
THEOREM LinesCarryTheFrame == Spec => []StreamIsFrame
<1>1. Init => IInv
  BY InitIInv
<1>2. IInv /\ [Next]_vars => IInv'
  BY NextIInv
<1>3. IInv => StreamIsFrame
  BY IInvStream
<1> QED BY <1>1, <1>2, <1>3, PTL DEF Spec

-----------------------------------------------------------------------------
(* The reset time leaves room, in the last unit of a PWM line, for the     *)
(* shift of channel 1.  It does at 800000 Hz (132 bits) and at 400000 Hz   *)
(* (66 bits), the only frequencies ws2811.h and ws2811.c name.             *)
RoomyReset == \A f \in Freqs : ((165 * f) \div 1000000) % 32 <= 8

THEOREM NamedFrequencies == Freqs = {400000, 800000} => RoomyReset
BY DEF RoomyReset

(* The data begins where the loops have begun.                             *)
LEMMA FirstBit ==
  ASSUME IInv, NEW c \in Channels, c < lines
  PROVE  first_bit(c) = 0 \/ (data_bits(c) > 0 /\ first_bit(c) = lead(c))
<1> DEFINE ones == {p \in 0 .. line_bits - 1 : line(c)[p] = 1}
<1> SUFFICES ASSUME ones # {}, ~inverts(c)
             PROVE  data_bits(c) > 0 /\ first_bit(c) = lead(c)
  BY DEF first_bit
<1>1. Shape /\ Painted
  BY DEF IInv
<1>2. lead(c) \in Nat /\ written_bits(channel[c]) \in Nat
  BY <1>1, Lead, Buffer, WrittenBits
<1>3. ASSUME NEW p \in 0 .. line_bits - 1
      PROVE  line(c)[p] = 1 <=> leds[c] # <<>> /\ one(c, p, leds[c])
  BY <1>1 DEF line, bit, Painted
<1>4. leds[c] # <<>> /\ \A p \in ones : one(c, p, leds[c])
  BY <1>3
<1>5. data_bits(c) = written_bits(channel[c])
  BY <1>1, <1>4, DataBits DEF Painted
<1>6. PICK p \in ones : one(c, p, leds[c])
  BY <1>4
<1>7. p - lead(c) \in 0 .. written_bits(channel[c]) - 1 /\ p \in 0 .. line_bits - 1
  BY <1>6 DEF one
<1>8. lead(c) \in ones
  <2>1. lead(c) \in 0 .. line_bits - 1 /\ line_bits \in Nat
    BY <1>1, <1>2, <1>7, Buffer
  <2>2. wave(c, 0) = 1
    BY DEF wave
  <2>3. symbol_bit(channel[c], leds[c], lead(c) - lead(c)) = 1
    BY <1>1, <1>2, <2>2, SymbolIsWave
  <2>4. lead(c) - lead(c) \in 0 .. written_bits(channel[c]) - 1
    BY <1>2, <1>7
  <2> QED BY <1>3, <1>4, <2>1, <2>3, <2>4 DEF one
<1>9. \A q \in ones : lead(c) <= q
  BY <1>2, <1>4 DEF one
<1>10. \A q \in ones : q \in Int
  OBVIOUS
<1> HIDE DEF ones
<1>11. Min(ones) = lead(c)
  <2>1. Min(ones) \in ones /\ \A q \in ones : Min(ones) <= q
    BY <1>8, <1>9 DEF Min
  <2> QED BY <1>2, <1>8, <1>9, <1>10, <2>1
<1> QED BY <1>2, <1>5, <1>7, <1>8, <1>11 DEF first_bit, ones

(* How far channel 1 is shifted: by three bytes at most, and only behind a *)
(* channel whose LEDs have three colours.                                  *)
LEMMA Shifted ==
  ASSUME Shape, 1 < lines
  PROVE  lead(1) \in {0, 8, 16, 24}
<1>1. UNIT = 32 /\ lead(1) = written_bits(channel[0]) % 32
  BY DEF lead, lines, UNIT
<1>2. 0 \in Channels /\ channel[0].count \in Nat
  BY DEF Channels, Shape
<1>3. PICK k \in Nat : written_bits(channel[0]) = 8 * k
  <2>1. CASE written_bits(channel[0]) = channel[0].count * 72
    <3>1. channel[0].count * 9 \in Nat /\ written_bits(channel[0]) = 8 * (channel[0].count * 9)
      BY <1>2, <2>1
    <3> QED BY <3>1
  <2>2. CASE written_bits(channel[0]) = channel[0].count * 96
    <3>1. channel[0].count * 12 \in Nat /\ written_bits(channel[0]) = 8 * (channel[0].count * 12)
      BY <1>2, <2>2
    <3> QED BY <3>1
  <2> QED BY <1>2, <2>1, <2>2, WrittenBits
<1> QED BY <1>1, <1>3

LEMMA IInvGap == RoomyReset /\ IInv => GapFits
<1> SUFFICES ASSUME RoomyReset, IInv, NEW c \in Channels, c < lines
             PROVE  first_bit(c) + data_bits(c) + reset_bits <= line_bits
  BY DEF GapFits
<1> DEFINE n == channel[c].count
<1>1. Shape /\ Painted
  BY DEF IInv
<1>2. /\ max_count \in Nat /\ n \in Nat /\ n <= max_count
      /\ reset_bits \in Nat /\ reset_bits % 32 <= 8
  <2>1. reset_bits = (165 * freq) \div 1000000
    BY <1>1, EncodeAssumption DEF Shape, reset_bits, LED_RESET_uS
  <2> QED BY <1>1, <2>1, MaxCount, ResetBits DEF Shape, RoomyReset
<1>3. line_bits = ((max_count * 96 + reset_bits) \div 64) * 64 + 64
  BY <1>1, Buffer
<1>4. line_bits \in Nat /\ line_bits > max_count * 96 + reset_bits
  BY <1>1, <1>2, <1>3, Buffer
<1>5. data_bits(c) = 0 \/ data_bits(c) = n * 72 \/ data_bits(c) = n * 96
  <2>1. CASE leds[c] = <<>>
    BY <1>1, <2>1, ArraySize DEF data_bits
  <2>2. CASE leds[c] # <<>>
    BY <1>1, <2>2, DataBits, WrittenBits DEF Painted
  <2> QED BY <2>1, <2>2
<1> HIDE DEF n
<1>6. CASE first_bit(c) = 0
  BY <1>2, <1>4, <1>5, <1>6
<1>7. CASE data_bits(c) > 0 /\ first_bit(c) = lead(c)
  <2>1. CASE c = 0
    BY <1>2, <1>4, <1>5, <1>7, <2>1 DEF lead
  <2>2. CASE c = 1
    <3>1. lead(c) \in {0, 8, 16, 24}
      BY <1>1, <2>2, Shifted
    <3>2. CASE data_bits(c) = n * 72 \/ n < max_count
      BY <1>2, <1>4, <1>5, <1>7, <3>1, <3>2
    <3>3. CASE data_bits(c) = n * 96 /\ n = max_count
      <4>1. (max_count * 96 + reset_bits) % 64 <= 40
        BY <1>2
      <4>2. line_bits >= max_count * 96 + reset_bits + 24
        BY <1>2, <1>3, <4>1
      <4> QED BY <1>2, <1>4, <1>7, <3>1, <3>3, <4>2
    <3> QED BY <1>2, <1>5, <1>7, <3>2, <3>3
  <2> QED BY <2>1, <2>2 DEF Channels
<1> QED BY <1>1, <1>6, <1>7, FirstBit

(* Behind the last LED of either channel the buffer keeps the line low for *)
(* the reset time (ws2811.c:56-72), at every frequency whose reset time    *)
(* leaves that room.                                                       *)
THEOREM ResetTimeFits ==
  ASSUME RoomyReset PROVE Spec => []GapFits
<1>1. Init => IInv
  BY InitIInv
<1>2. IInv /\ [Next]_vars => IInv'
  BY NextIInv
<1>3. IInv => GapFits
  BY IInvGap
<1> QED BY <1>1, <1>2, <1>3, PTL DEF Spec
=============================================================================
