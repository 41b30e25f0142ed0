---------------------------- MODULE Ws2811Encode ----------------------------
(***************************************************************************)
(* The bits of a frame: how ws2811_render turns the LED colours of both    *)
(* channels into the units (32-bit words for PWM and PCM, bytes for SPI)   *)
(* that the DMA or the SPI device sends, most significant bit first        *)
(* (src/rpi_ws281x/ws2811.c, ws2811.h).  When and whether a frame is sent  *)
(* is module Ws2811Render's matter.                                        *)
(*                                                                         *)
(* A unit is the set of its bits that are 1.  A colour, 0xWWRRGGBB, is the *)
(* function from the shifts 0, 8, 16, 24 to its bytes.                     *)
(***************************************************************************)
EXTENDS Integers, Sequences, FiniteSetsExt

CONSTANTS
  Counts,      (* bound: LEDs of a channel                                  *)
  Strips,      (* bound: strip types, of those in ws2811.h                  *)
  Colours,     (* bound: what the application puts into leds                *)
  Brightness,  (* bound: brightness                                         *)
  Freqs        (* 800000, "can go as low as 400000"                         *)

VARIABLES
  mode,        \* "PWM", "PCM", "SPI", as set_driver_mode has chosen it
  freq,
  channel,     \* 0 and 1: [count, strip, invert, brightness]
  leds,        \* leds[chan]: what the last frame was made of; <<>> before the first
  raw          \* pxl_raw

vars == <<mode, freq, channel, leds, raw>>

Channels == {0, 1}

(* ws2811.h: strip_type as the shifts of red, green, blue and white.       *)
strip_type ==
  [RGBW |-> <<16, 8, 0, 24>>, RBGW |-> <<16, 0, 8, 24>>, GRBW |-> <<8, 16, 0, 24>>,
   GBRW |-> <<8, 0, 16, 24>>, BRGW |-> <<0, 16, 8, 24>>, BGRW |-> <<0, 8, 16, 24>>,
   RGB  |-> <<16, 8, 0, 0>>,  RBG  |-> <<16, 0, 8, 0>>,  GRB  |-> <<8, 16, 0, 0>>,
   GBR  |-> <<8, 0, 16, 0>>,  BRG  |-> <<0, 16, 8, 0>>,  BGR  |-> <<0, 8, 16, 0>>]

ASSUME EncodeAssumption ==
  /\ Counts \subseteq Nat
  /\ Strips \subseteq DOMAIN strip_type
  /\ Colours \subseteq [{0, 8, 16, 24} -> 0 .. 255]
  /\ Brightness \subseteq 0 .. 255
  /\ Freqs \subseteq Nat \ {0}

-----------------------------------------------------------------------------
(* The length of a channel's data with its reset time, and of the buffer.  *)
(* Variant: the count is rounded down without room for the rest.           *)
LED_COLOURS  == 4
LED_RESET_uS == 55
reset_bits            == (LED_RESET_uS * (freq * 3)) \div 1000000
LED_BIT_COUNT(n)      == n * LED_COLOURS * 8 * 3 + reset_bits
PCM_BYTE_COUNT_tight(n) == (LED_BIT_COUNT(n) \div 64) * 8
PCM_BYTE_COUNT(n)     == (LED_BIT_COUNT(n) \div 64) * 8 + 4 + 4

max_count   == Max({channel[c].count : c \in Channels})
UNIT        == IF mode = "SPI" THEN 8 ELSE 32       \* the bits of a unit
lines       == IF mode = "PWM" THEN 2 ELSE 1        \* channels that share the buffer
byte_count  == PCM_BYTE_COUNT(max_count) * lines    \* PWM_BYTE_COUNT when PWM
Units       == 0 .. (byte_count * 8) \div UNIT - 1
raw_init    == [u \in Units |-> {}]

-----------------------------------------------------------------------------
(* The loops of ws2811_render over LEDs, colours, bits and symbols, by the *)
(* number p of the symbol bit they have come to.                           *)
array_size(ch) == IF strip_type[ch.strip][4] \div 16 # 0 THEN 4 ELSE 3
written_bits(ch) == ch.count * array_size(ch) * 8 * 3

color(ch, led, j) == (led[strip_type[ch.strip][j]] * (ch.brightness + 1)) \div 256

(* Inversion is done here for PCM and SPI only.                            *)
symbol(ch, on) ==
  IF mode # "PWM" /\ ch.invert
  THEN IF on THEN <<0, 0, 1>> ELSE <<0, 1, 1>>
  ELSE IF on THEN <<1, 1, 0>> ELSE <<1, 0, 0>>

symbol_bit(ch, pixels, p) ==
  LET i == p \div (array_size(ch) * 24) + 1
      j == ((p \div 24) % array_size(ch)) + 1
      k == 7 - ((p \div 3) % 8)
  IN  symbol(ch, (color(ch, pixels[i], j) \div 2 ^ k) % 2 = 1)[(p % 3) + 1]

(* Each bit is cleared, then set.  Variant: it is only ever set.           *)
overwritten_or(old, new) == old \/ new = 1
overwritten(old, new)    == new = 1

(* From one unit of a channel to its next: for PWM every other word is the *)
(* other channel's.  Variant: no word is left out.                         *)
unit_step_one == 1
unit_step     == lines

first_unit(c)   == IF mode = "SPI" THEN 0 ELSE c
first_bitpos(c) == (UNIT - 1) - (IF c = 0 THEN 0 ELSE written_bits(channel[0]) % UNIT)

(* Symbol bit p of channel c goes to bit b of unit u.  The unit starts     *)
(* afresh with each channel; bitpos goes on where the channel before ended.*)
encoded_channel(c, buf, pixels) ==
  LET ch    == channel[c]
      n     == written_bits(ch)
      start == first_bitpos(c)
      p(u, b) == ((u - first_unit(c)) \div unit_step) * UNIT + start - b
  IN  [u \in Units |->
         IF (u - first_unit(c)) % unit_step # 0 THEN buf[u]
         ELSE {b \in 0 .. UNIT - 1 :
                 IF p(u, b) \in 0 .. n - 1
                 THEN overwritten(b \in buf[u], symbol_bit(ch, pixels, p(u, b)))
                 ELSE b \in buf[u]}]

encoded(pixels) == encoded_channel(1, encoded_channel(0, raw, pixels[0]), pixels[1])

-----------------------------------------------------------------------------
ChannelTypes(n) ==
  [count : {n}, strip : Strips, brightness : Brightness,
   invert : IF mode = "PWM" THEN {FALSE} ELSE BOOLEAN]

(* After ws2811_init, which leaves channel 1 empty except with PWM.        *)
Init ==
  /\ mode \in {"PWM", "PCM", "SPI"}
  /\ freq \in Freqs
  /\ \E n \in Counts, m \in IF mode = "PWM" THEN Counts ELSE {0} :
       \E ch0 \in ChannelTypes(n), ch1 \in ChannelTypes(m) :
         channel = [c \in Channels |-> IF c = 0 THEN ch0 ELSE ch1]
  /\ leds = [c \in Channels |-> <<>>]
  /\ raw = raw_init

(* The pictures the application paints: two colours in turns.              *)
Pictures(n) == {[i \in 1 .. n |-> IF i % 2 = 1 THEN a ELSE b] : a, b \in Colours}

Render(pixels) ==
  /\ leds' = pixels
  /\ raw' = encoded(pixels)
  /\ UNCHANGED <<mode, freq, channel>>

Next ==
  \E p \in Pictures(channel[0].count), q \in Pictures(channel[1].count) :
    Render([c \in Channels |-> IF c = 0 THEN p ELSE q])

Spec == Init /\ [][Next]_vars

-----------------------------------------------------------------------------
(* Properties.                                                             *)

(* What goes out on the line of a channel: its units in order.             *)
line_bits == (byte_count \div lines) * 8
line(c)   == [p \in 0 .. line_bits - 1 |->
                IF (UNIT - 1) - (p % UNIT) \in raw[c + lines * (p \div UNIT)] THEN 1 ELSE 0]

(* The name of a strip type is the order in which its LEDs take the bytes  *)
(* of a colour, here by their shifts.                                      *)
R == 16
G == 8
B == 0
W == 24
wire_order ==
  [RGBW |-> <<R, G, B, W>>, RBGW |-> <<R, B, G, W>>, GRBW |-> <<G, R, B, W>>,
   GBRW |-> <<G, B, R, W>>, BRGW |-> <<B, R, G, W>>, BGRW |-> <<B, G, R, W>>,
   RGB  |-> <<R, G, B>>,    RBG  |-> <<R, B, G>>,    GRB  |-> <<G, R, B>>,
   GBR  |-> <<G, B, R>>,    BRG  |-> <<B, R, G>>,    BGR  |-> <<B, G, R>>]
takes(c)     == wire_order[channel[c].strip]
data_bits(c) == Len(leds[c]) * Len(takes(c)) * 24

(* The level at bit q of the data: every bit of a byte, highest first, is  *)
(* a pulse of one or two thirds of its time.                               *)
wave(c, q) ==
  LET byte == q \div 24
      led  == leds[c][byte \div Len(takes(c)) + 1]
      x    == (led[takes(c)[(byte % Len(takes(c))) + 1]] * (channel[c].brightness + 1)) \div 256
      on   == (x \div 2 ^ (7 - ((q \div 3) % 8))) % 2 = 1
  IN  <<1, IF on THEN 1 ELSE 0, 0>>[(q % 3) + 1]

inverts(c) == mode # "PWM" /\ channel[c].invert

(* On each line, after less than a unit's time, exactly the LEDs of the    *)
(* last frame go out, in order, scaled by the brightness, and then nothing *)
(* until the end of the buffer: no bit of another channel, of an earlier   *)
(* frame or of a shifted word (ws2811.c:1112-1202 carries bitpos over from *)
(* channel 0 to channel 1).                                                *)
StreamIsFrame ==
  \A c \in Channels :
    c < lines =>
      LET out == line(c)
      IN  \E lead \in 0 .. UNIT - 1 :
            \A p \in 0 .. line_bits - 1 :
              out[p] = IF p < lead \/ p >= lead + data_bits(c) THEN 0
                       ELSE IF inverts(c) THEN 1 - wave(c, p - lead) ELSE wave(c, p - lead)

(* Behind the data, wherever they begin, the buffer still keeps the line   *)
(* low for the reset time, for which ws2811.c:56 and :68 size it.          *)
first_bit(c) == LET ones == {p \in 0 .. line_bits - 1 : line(c)[p] = 1}
                IN  IF ones = {} \/ inverts(c) THEN 0 ELSE Min(ones)
GapFits ==
  \A c \in Channels :
    c < lines => first_bit(c) + data_bits(c) + reset_bits <= line_bits
=============================================================================
