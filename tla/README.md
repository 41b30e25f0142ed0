# piano_leds in TLA+

`piano_leds` runs on a Raspberry Pi.  One thread reads the bytes of a MIDI
keyboard and pushes them into a pipe; the main loop, sixteen times a second, pops
what is there, computes the colours of 88 LEDs by one of four *patterns* and hands
them to a driver that streams them to the strip by DMA.  This directory holds
TLA+ models of those parts, the TLC configurations that check them on small
instances and the TLAPS proofs that some of their properties hold on all.

Paths below are relative to the repository's root, as in the modules' comments:
`src/pipe/pipe.c`, `src/led_patterns/piano.c`, `src/rpi_ws281x/ws2811.c`, `main.c`.

## 1. The system

| component | state | operations | talks to |
|---|---|---|---|
| pipe (`src/pipe/pipe.c`) | a circular buffer (`buffer`, `bufend`, `begin`, `end`), two mutexes, two condition variables, two reference counts | `pipe_new`, handles new and free, `pipe_push`, `pipe_pop`, `pipe_size` | called from both threads |
| MIDI collector (`main.c`) | one byte | copy its argument, read, drop active sensing (254), push; on an error free its handle and exit | keyboard -> pipe |
| main (`main.c`) | the pattern's struct, the driver's | start the collector, set the LEDs up, then: run the pattern, copy the LEDs, render, sleep; on an error free everything and exit | pipe -> pattern -> driver |
| pattern core (`core.c`, `utils.c`) | `current_pattern`, `last_pattern`, the update function, `pattern_data` (a `void *`), `led_states` | new, free, `set_data_for_pattern`, `run_led_update_function` | one of the patterns |
| piano_normal (`piano.c`) | `key_pressed`, `key_sustain`, `sustain`, `last_color` | one frame: pop all messages, apply them, fade | pipe |
| piano_war (`piano.c`) | `occupied`, `direction`, `size`, `locked`, `colors` | one frame: move all bursts, pop all messages, start new bursts | pipe |
| ambient (`ambient.c`) | the colours last used, a factor for each LED | one frame: drift, paint | `color_utils.c` |
| color_utils (`color_utils.c`) | none | scale, normalise, drift of a colour | the patterns |
| ws2811 set-up (`ws2811.c`) | VideoCore memory through the mailbox, mappings of five sets of registers, LED arrays, an SPI device | `ws2811_init`, `ws2811_cleanup`, `ws2811_fini` | `mailbox.c`, `rpihw.c`, the tables of `dma.c`, `pwm.c`, `pcm.c` |
| rpihw (`rpihw.c`) | none | find the board in `/proc/cpuinfo` | |
| ws2811 render (`ws2811.c`) | the DMA buffer, `render_wait_time`, a static time stamp | `ws2811_render`, `ws2811_wait` | the DMA engine, which runs on its own |

What is hard in it:

* **Two locks for one buffer.**  A pusher holds `end_lock`, a popper `begin_lock`,
  and each works on a snapshot of the other side's pointer that may be old by
  then.  Growing and shrinking needs both, in a fixed order, and the popper has to
  give its lock up to get there.
* **Signals from another lock.**  The popper tests and sleeps under `begin_lock`,
  the pusher publishes under `end_lock` and signals under none; with a limit, the same
  the other way round.
* **Handles freed by several threads**, where the last one deallocates.
* **Messages through a pipe of bytes**: a message may arrive in pieces, inside a
  frame, with active sensing between its bytes, and its sender may end half way.
* **An in-place sweep** of the strip, where a burst must not meet itself.
* **Two threads that may fail**, each of which frees what the other one uses and
  then ends the process.
* **A buffer that is filled while the DMA may still be reading it**, never cleared,
  in which two channels alternate and one bit position is carried from one channel
  to the next.
* **Colours through floating point**, cut off to unsigned chars.
* **A dozen acquisitions in a row**, each of which may fail, released through
  fields that are uninitialised, and a DMA engine that outlives the process.

## 2. The modules

| module | models | extends / instantiates |
|---|---|---|
| `PipeRing` | the arithmetic of the circular buffer (no state) | |
| `Pipe` | `pipe.c`: every function, lock, wait, signal and assertion | `PipeRing`, instantiates `Fifo` |
| `Fifo` | what `pipe.h` promises: a queue that batches enter and leave at once | |
| `PipeProofs` | theorems about `Pipe`: locks, pointers, snapshots; handles and reference counts | `Pipe`, `TLAPS` |
| `PipeFifoProofs` | the same: assertions, types, `Pipe` implements `Fifo` | `PipeProofs` |
| `PianoLeds` | keyboard, collector, pipe, main and piano_normal together | |
| `PianoLedsProofs` | theorems about `PianoLeds` | `PianoLeds`, `TLAPS` |
| `PianoWar` | piano_war's frame | |
| `PianoWarProofs` | theorems about `PianoWar` | `PianoWar`, `TLAPS` |
| `Colors` | `color_utils.c` and the arithmetic of `ambient.c` (no state) | |
| `Patterns` | the switch between patterns, their data, the ambient patterns | `Colors` |
| `PatternsProofs` | theorems about `Patterns` | `Patterns`, `TLAPS` |
| `Rpihw` | the table of boards and the search for the board (no state) | |
| `Ws2811Init` | acquisition and release in the driver, crashes and restarts | `Rpihw` |
| `Ws2811InitProofs` | theorems about `Ws2811Init` | `Ws2811Init`, `TLAPS` |
| `Ws2811Render`, `Ws2811RenderProofs` | frames against the DMA, in time; theorems | |
| `Ws2811Encode` | the bits of a frame in the buffer | |
| `Ws2811EncodeProofs` | theorems about `Ws2811Encode` | `Ws2811Encode`, `TLAPS` |
| `MCPipe`, `MCPianoLeds`, `MCPianoWar`, `MCWs2811Encode` | sets for TLC | |

The other modules are small enough to be checked directly, with the constants in
the `.cfg`.  Definitions called `x_something` next to a definition `x`, announced
by the word *Variant* in its comment, are bugs that somebody might write there: no
specification uses them; substituted for `x` they show that a property notices.

### Pipe

`pc[t]` is where thread `t` is in which function.  A step is the longest stretch
of code that no other thread can observe half done: taking a lock is a step
(`PushLock`, `PopLock`, `PopTrimEnd`, `PushUpgrade`, `PopTrim`), so is the test of
a wait loop (`PushRoom`, `PopLook`) and, separately, falling asleep in it
(`PushSleep`, `PopSleep`), the copy (`PushCopy`, `PopCopy`), the publication of a
pointer (`PushPublish`), the signal (`PushSignal`, `PopSignal`).  A popper's copy
and its store to `p->begin` are one step: another thread reads only `begin`.
Addresses are counted from `p->buffer`, `bufend` is exclusive, and `elem_size` is
1 as in `main.c`.  `assertume` sets `failed`, which stops everything, unless
`NDEBUG`.  `PushPublishEarly` and `PushCopyLate` are the two stores of a push as
another core may see them (`StoresReorder`).  `pipe_size` is two steps, and any
number when a pointer it depends on moved in between (`GotoTearing`).
`pipe_pop_eager` and `pipe_reserve` are declared in `pipe.h` and defined nowhere.

`Pipe` implements `Fifo` under the mapping `queue <- contents(cells, ...)`: the
elements from behind `begin` up to `end`.  An element enters the queue when `end`
moves and leaves it when `begin` moves; resizing maps to a stutter.

### PianoLeds

The whole program, with the pipe as the queue that `Pipe` implements plus what a
queue does not say, and what matters here: a push is visible before its signal
(`CollectorPush`, `CollectorSignal`), and a popper looks before it sleeps
(`PopNone`, `PopSleep`).  The keyboard is environment: `Key`, `Pedal`, `Other` put
whole messages on `wire`, and 254 may be read at any point.  `Other` plays the messages
of `Chatter`, of which `ChatterAssumption` says what MIDI does: only the first byte of
a message is 128 or more.  A frame is the steps
from `pc = "size"` to `"render"`: `NextMessage` and `PopSome` per message, then
`NoteOn`, `NoteOff` or `Controller`, then `Frame`.

The collector runs from `main.c:66` on; `CollectorStart` is its reading of `arg`,
which may come as late as it likes.  `InitLeds` is `ws2811_init`, during which the
pipe fills.  `ReadError` starts the collector's end (`CollectorFree`, `Exit`), a
failed `InitLeds` or `Render` main's (`FreeProducer`, `FreeRest`, `Exit`).  A handle is
a pointer to the pipe itself, so it stays usable until both counts are 0;
`UseAfterFree` is whatever the collector does from then on, and the second
`pipe_producer_free` of the one producer aborts.  The colour of an LED is represented
by its brightest channel, which `normalize_color` takes to twice the velocity (or
one less, when the floating point rounds down) and every fade takes down.  `color` is
the one that a frame draws for its new keys, as far as it is black or not: without a
`last_color` it may be any, black included, which `normalize_color` makes 0 divided by 0,
that is, no light; once it is not black, `random_near_color` never makes it so.

### PianoWar, Patterns, Colors

A frame of piano_war is one step, `Frame(ns)`, with the notes popped in it: no
other thread sees the strip.  `visit` is the body of the loop, `after[k]` what its
first `k` rounds have made of the strip, `swept` the whole loop.  `Patterns` has the struct as a record; `pattern_data` is a block with
the kind it was allocated as, how many frames ran on it and, for the ambient
patterns, the colours and factors it holds; `blocks` and `wild` watch the heap.
`run_led_update_function` is `Run`, which like the code sets the data up twice
before the first frame, so that the factors in use are those of the second time.
`leds` are the colours that an ambient pattern shows.

`Colors` computes per channel.  A factor is a percentage and a slope a quotient; the
double that the code computes is the exact value except that a whole one may come
out a hair below (115 % of 100 is 114.99...), which `cut_off` makes one less: `below`
says at which LEDs.  A value beyond the unsigned char wraps or saturates (`wraps`),
as the build has it.

### Ws2811Init

`pc` is the resource that `ws2811_init` is about to acquire; `Acquire(r)` and
`AcquireFails(r)` are the two outcomes of each call, with the order, the early
returns and the clean-up of each error path.  `held` is what the process has,
`ptr` what the driver's fields say: `"junk"` until somebody sets them, so that a
release through such a field may hit anything.  `Exit` is `main`'s exit or a
signal at any time: mappings go, VideoCore memory and a running DMA stay.  The DMA
ends (`DmaEnds`) or reports an error (`DmaFails`), with which its channel may still be
active: `ws2811_wait` has a test for each.  `Detect`
reads a `/proc/cpuinfo` of up to two lines; a board is its revision code without the
masked bits, and `gpionums`, `pwm_pin_alt`, `pcm_pin_alt` are the lists of pins.

### Ws2811Render

Time is discrete and nothing is urgent: any step may be late.  `Encode` writes one
LED; `Wait` is `ws2811_wait` and the computation of the sleep; `Start` is the end of
that sleep, `dma_start` and the return to `main`, which sleeps `PERIOD`.  `Tick`
moves the DMA, the sleepers and the clocks.  The buffer is as long as 4 colours
need, so that behind the data of a 3-colour strip the DMA sends zeros for a while
(`Pads`).

### Ws2811Encode

`raw` is `pxl_raw`, as units of 32 bits (or 8, for SPI), a unit as the set of its bits
that are 1.  `encoded_channel` is the body of the loop over channels in closed form:
bit `b` of unit `u` belongs to the symbol bit `p(u, b)` that the loops over LEDs,
colours, bits and symbols have come to when `bitpos` and `wordpos` are there, or is
not written at all.  The second channel starts with the `bitpos` that the first left
(`first_bitpos`), hence the up to 31 idle bits in front of its data.  The reference,
`StreamIsFrame`, is told from the strip's side: a line's bits in the order in which
they go out, LED by LED.  With software inversion (PCM and SPI) only the data are
inverted: before and behind them the line idles low, as `pcm_raw_init` leaves it.

## 3. The runs

All runs take two workers; the longest about two minutes.

| run | instance | shows |
|---|---|---|
| `pipe_safety` | 2 producers, 2 consumers, pushes and pops of up to 2, at most 3 elements when a push starts, symmetry | `TypeOK`, `NoAbort` (no assertion fails), `SnapshotSound`, `NoOverlap`, `OnlyElementsPopped` |
| `pipe_lifetime` | 1 producer, 1 consumer, the `pipe_t`; all may be freed, at once or not; 2 distinct elements, symmetry; a limit of 3, asserts off | `FreedAfterUse`, `BufferKept`, `ShortMeansClosed`, `IsFifo` |
| `pipe_progress` | 1 producer, 1 consumer, pushes of up to 2 and pops of 1, `pipe_size`, a least buffer and a limit of 3, frees, reordered stores, fairness | `SizeIsSafe`, `PushReturns`, `CloseWakes` |
| `pipe_lost_wakeup` | 1 producer, 1 consumer, fairness | **violated**: `PopReturnsWhenFilled` |
| `pipe_free_race` | 1 producer, 1 consumer, the `pipe_t`; all may be freed | **violated**: `ExistsUntilFreed` |
| `piano_leds` | 1 key, two velocities, a message of no use, all errors, fairness | `TypeOK`, `Agrees`, `SustainFollows`, `StruckIsShown`, `InBoundsWhileOpen`, `WokenByTraffic`, `GoesDark`, `FatalEnds` |
| `piano_unplugged` | less to play, only the keyboard fails | **violated**: `AlwaysInBounds` |
| `piano_war` | 6 LEDs, up to 2 keys a frame, the notes on either side of the middle, fairness | `Coherent`, `ActsOnceOnEach`, `OneUnitPerKey`, `GoesDark` |
| `patterns` | 2 LEDs, 2 channels of 0..7, threshold 2, factors 0.75 and 1.24 | `DataMatches`, `OnlyItsLight`, `GradientSmooth`, `Remembers`, `Gently`, `LedsGently` |
| `ws2811_init` | eight revision codes, of boards of each kind and of none, eight pins, counts 0 and 1, two starts | `TypeOK`, `TablesAgree`, `NothingLeft`, `ReleasedOnce`, `DmaReadsLiveMemory` |
| `ws2811_render` | 3 LEDs of 2 ticks, padding of 1 and 5, reset time 3, sleep 6, fairness | `NoTear`, `GapKept`, `FramesGoOut` |
| `ws2811_encode` | 0, 1 or 3 LEDs on each channel, a 3- and a 4-colour strip, black and a colour of four different bytes, both frequencies, all modes, inverted or not | `StreamIsFrame`, `GapFits` |

Why the bounds are enough to see something.  `DEFAULT_MINCAP` is 2, as with `PIPE_DEBUG`,
so that four elements already make the buffer grow twice, wrap at every position,
and shrink again (3 in `pipe_progress`, where pushes are to be smaller than the least
buffer); both halves of a wrapped copy, both branches of `trim_buffer`
and the recheck after the lock upgrade occur.  Two threads on each side make every
lock contended.  Elements are indistinguishable where only their number matters
and two where order does.  One key suffices for framing, since messages of
different keys touch different LEDs, and `MaxTransit` still allows a frame to
begin in the middle of a message.  A limit of 3 gives a `max_cap` of 4, so that
pushes block, are cut, and meet frees of the last consumer while they wait; pops that
take the pipe down to a quarter, and pops that do not, both run into a pusher about to
sleep.  Six LEDs let bursts from both ends meet with
the gap between them odd and even, three in a row, and at the ends.  A colour
channel of 0..7 with steps of 1 meets both of its ends, is scaled up and down by
more than a step and overflows; two LEDs have a slope between them.  Two starts are
one restart.  Three LEDs of three or four colours fill words exactly or not, in
front of a second channel of any length, and one frame over another leaves every
combination of old and new bits.  In `ws2811_render` the sleep is exactly as long as the data
(`DATA = 6 = PERIOD`), and one padding is shorter, one longer than what is left.

Deadlock checking is off where the system may stop: nobody is obliged to call the
pipe, the program exits, starts are bounded by `MaxRuns`.

### Fairness

* `Pipe`: a thread inside a call goes on, and gets a mutex that is released again
  and again (`SF` for each thread, as POSIX threads on a preemptive scheduler with
  more pushes than can be made in a row).  No fairness for calls, for frees, or
  for spurious wakeups.
* `PianoLeds`: weak fairness for the collector and for main, strong fairness for
  `CollectorFree`, which takes the mutex that a popper has until it sleeps; none for
  the keyboard, for errors or for spurious wakeups.
* `PianoWar`: frames are run again and again, also without keys (`main`'s loop).
* `Ws2811Render`: time passes, and the thread runs.  That a transfer ends follows
  from `Tick`.

## 4. What the violations show

* **A pop can sleep over what it waits for** (`pipe.c:784`).  A push between
  `wait_for_elements`' test and its `cond_wait` signals nobody, because publishing
  and signalling are not under the popper's mutex.  `pipe.h:203` promises that
  `pipe_pop` blocks until the target is filled.  In this program the next byte of the
  keyboard repairs it (`WokenByTraffic`), so that it shows as a frame that stands
  still.  The popper is in that wait only for the data bytes of a message, since it
  asks `pipe_size` first.
* **A keyboard unplugged inside a message** (`piano.c:126`).  The collector frees
  its handle and calls `exit`; before the process is gone, the loop's pop returns
  short, and the status byte still in `buffer` is used as a note.  As long as the
  keyboard can be read, `InBoundsWhileOpen` holds.
* **Two last handles freed at once** (`pipe.c:531-544`).  A free drops one count and
  looks at the other in two critical sections.  The last producer and the last consumer
  may both find the other count at 0: one deallocates the pipe while the other is still
  at work on it, and then the other does, a second time.  With `pipe_free` it may be that
  neither does.  `pipe.h:136-138` promises that the pipe exists until all the handles have
  been freed, and synchronisation inside.  What remains true is `FreedAfterUse`: whatever
  runs on freed memory is the end of another free, never a push, a pop or a decrement.

## 5. What is proved

The eight `...Proofs` modules are checked by TLAPS in full.  Each theorem is for any
values of the constants that the modules' named assumptions allow: any threads, keys,
LEDs, colours, boards; where it needs more, its statement says so, and so does the
text below.  Together they state every invariant and every action property of the runs
that pass, and the refinement of `Fifo`; what is left is liveness.

**Pipe: locks and pointers** (`PipeProofs`).  `IInv` is inductive for a pipe that is
`Roomy`: without a limit, as `main.c` makes it, or with one of at least
`DEFAULT_MINCAP`: `Invariance == Roomy => (Spec => []IInv)`.  From it
`SnapshotsStaySound` and `CopiesNeverOverlap`.  Neither is inductive.  `IInv` adds that
each lock is held by exactly the thread whose `pc` says so, that `begin` and `end` are
inside the buffer and differ by the sentinel, that what a thread between two steps of
an operation remembers is current as to the pointers its lock protects and no more
than conservative as to the other one, and (`fitting`) that there is room for what a
push is about to copy, be it all of it or what the limit leaves, and that a pusher
whom the limit may stop has found less than `max_cap` in the pipe.  With a limit,
`validate_size` need not make room for the whole push; what it leaves is enough because
the buffer is then as big as was asked for, or holds `max_cap` elements and the sentinel
(`NewSizes`, `Resizes`).  With a limit below `DEFAULT_MINCAP` the first buffer does not, and
is never made larger (section 6).  The arithmetic of a wrapping buffer (`bytes_in_use`
after a pop and after a push, after a resize) is stated once in lemmas of its own.  The
invariant also rests on `next_pow2`, of which only that it returns a number not below
its argument is used.

**Pipe: handles** (`PipeProofs`).  For any limit: `CountsAreHandles`
(`Spec => []HInv`) and `BufferIsKept` (`Spec => []BufferKept`).  The counts say nothing of
who has a handle; `HInv` makes them the cardinalities of the sets `producing` and
`consuming`, told from the program counters, and says what a thread that has looked
at a count may still rely on.  From it `NoUseAfterFree` (`Spec => []FreedAfterUse`) as well,
with frees that overlap as they like: whoever deallocates has seen both counts at 0, the
counts are the handles, and none is ever made of nothing.

**Pipe: the queue** (`PipeFifoProofs`).  For `Limit = 0`: `AssertionsHold` (`NoAbort`);
with a limit it is false (section 6).  For every
`Roomy` pipe, with assertions compiled in or not: `ShortIsClosed` (`ShortMeansClosed`) and
`TypesHold` (`TypeOK`).  With `~StoresReorder` as
well: `PipeIsAQueue` (`Spec => IsFifo`), the refinement, and `PopsAreElements`
(`OnlyElementsPopped`).  On top of `HInv` and `IInv`, `CInv` says what each call has left
to do, `TInv` that every snapshot is a ring, and `DInv` that what a pusher has copied
stays in the cells from `end` on until it publishes it: this is the conjunct that
reordered stores break.  Each action is then shown to be a step of `Fifo` (a call, the
publication, a pop's copy, giving a push up, the last consumer's leaving) or a stutter
(everything else, resizing included); the lemmas `PushPuts`, `PopTakes` and those about `contents`
say what the two `memcpy`s of a wrapped push or pop do to the queue.
A push that the limit cuts short enters the queue in pieces, each of them at once.
`SizesAreSafe` (`SizeIsSafe`) holds for one consumer and pushes smaller than the least
buffer, as in `main.c`: `SInv` says that a torn `pipe_size` is only ever seen while the
pipe is not empty, because a push that makes the buffer grow is one into a pipe that
has something in it, and nobody else takes it out.

**PianoLeds** (`PianoLedsProofs`).  Without conditions: `TypesHold`, `StateAgrees`
(`Agrees`), `SustainIsRight` (`SustainFollows`), `StruckIsSeen` (`StruckIsShown`) and
`StaysInBounds` (`InBoundsWhileOpen`).  `StruckIsShown` leaves out a frame that has drawn
black, with which the key stays dark (section 6).  `Agrees` is about the end of the way from a key to
the program; the invariant is about all of it.  The bytes popped but not applied, in
the pipe, in the collector's hand and on the wire are one `stream`; `Framed` says that
every 144 and every 176 in it begins a whole message, also if the loop has popped part
of it; `Yields` that the last message for a key in the stream, or `key_pressed` if there
is none, is what the key does now.  `Lost` is when bytes get lost for good: the loop
gave up on a closed pipe, or the collector ended with bytes unread.  `Control` relates the two
threads' ends to the handles, `Lights` the levels to the keys.  `ChatterAssumption` is
what is needed of the keyboard.

**PianoWar** (`PianoWarProofs`).  Without conditions: `StaysCoherent` (`Coherent`),
`LightComesFromKeys` (`OneUnitPerKey`) and `EachBurstOnce` (`ActsOnceOnEach`).  `Coherent` holds after each LED that the loop
visits, and no visit makes the sum of the sizes grow: an impact takes a unit off one
or two bursts or swaps their directions, a move keeps them.  The loop and the sum are
recursive functions; since the induction theorems of the library cannot be
used, that they are defined and what all their values satisfy is shown from
the least number that would be an exception (`LeastExists`, `UpTo`).  `EachBurstOnce` is
about the two lists of bursts, before and after the sweep.  The invariant of the loop
(`Acted`) is that what the loop has passed has acted, once and in order, that a burst sent on
ahead of the loop is locked, and that what is in front of it and not locked is as it was.

**Patterns** (`PatternsProofs`).  Without conditions: `DataAlwaysMatch` (`DataMatches`),
`NoForeignLight` (`OnlyItsLight`) and `FramesRemember` (`Remembers`) from `PInv`;
`ColorsChangeGently` (`Gently`), `LedsChangeGently` (`LedsGently`) and `StripIsSmooth`
(`GradientSmooth`) from `AInv`.  `DataMatches` is not inductive alone: whether a frame
sets the data up anew depends on `last_pattern`, so `PInv` adds that it is `NONE` or the
current pattern, and `NONE` only while no frame has run on the data; that the update
function is the current pattern's; and that nothing is held once the struct is freed.
`SetUpForFrame` is the lemma about the two set-ups of `run_led_update_function`.
`AInv` adds `Painted`, which ties `led_states` to the data: a channel is a value `v` with
`v * n <= x <= (v + 1) * n` (`IsCut`), where `x/n` is the exact product with a factor or
the exact mean of the two colours, and `x < (v + 1) * n` where the double is exact.  All
that is said of two frames or two LEDs then follows from the exact values
(`AdjacentMoves`, `BetweenMoves`, `Exact`, `Rises`, `Falls`), whichever way each double
came out.

**Ws2811Init** (`Ws2811InitProofs`).  Without conditions, for any boards, pins and
counts and any number of restarts: `TypesHold`, `TablesFit` (`TablesAgree`),
`NothingIsLeft` (`NothingLeft`), `EachReleasedOnce` (`ReleasedOnce`) and `DmaMemoryIsLive`
(`DmaReadsLiveMemory`).  The invariant says, for each thing that `ws2811_init` may be
about to acquire, what it holds by then (`Holds`), that the fields `ws2811_cleanup` goes
by agree with it (`FieldsSet`, `FieldsNull`), and what a process that is no more has left to the
machine.  `ReleasedOnce` is of everything the driver acquires, in all three modes, but the
fields that PWM and PCM never set (`never_set`: `spi_fd`, the registers of the other mode) and
the failures of `mem_lock` and `mapmem`; `DmaReadsLiveMemory` is of a DMA that reports no
error.  What is left out there is released wrongly (section 6).

**Ws2811Render** (`Ws2811RenderProofs`).  With `PERIOD >= DATA`, for every strip length,
padding, bit and reset time: `FramesAreWhole` (`Spec => []NoTear`) and `LedsLatch`
(`Spec => GapKept`).  `NoTear` says nothing of why the DMA is past the last LED when
`main` wakes up; `IInv` counts what has been sent and what remains of the sleep together
(`streaming => sent + timer >= PERIOD`), and from then on how long the line has
been low against the time since the call.  Without any condition: `TypeCorrect`
(`Spec => []TypeOK`); that the DMA never reads behind its buffer and encoding ends with
the last LED needs `TInv`, which says where they are while they go on.

**Ws2811Encode** (`Ws2811EncodeProofs`).  For any pictures, strips, brightness, numbers
of LEDs, modes and polarities: `LinesCarryTheFrame` (`StreamIsFrame`).  `IInv` is `Shape`,
what `ws2811_init` sets up, and `Painted`: a bit of a line is 1 exactly where the loops of the
last frame have put a 1, so that the buffer, which is never cleared, shows nothing older;
it needs that a frame sets or clears the same bits as the one before it.  From
`Painted` the line is read off: channel 1 begins `lead` bits late, by what channel 0 has used
of its last word.  `ResetTimeFits` (`GapFits`) assumes `RoomyReset`: the reset time, in bits,
leaves room for that shift in the last word, which the rounding of `PWM_BYTE_COUNT` does not
by itself give.  `NamedFrequencies` shows it for the two frequencies the code names; for others
it may be false (section 6).

**Only model-checked.**  Liveness (`PushReturns`, `CloseWakes`, `WokenByTraffic`, both
`GoesDark`, `FatalEnds`, `FramesGoOut`): the prover has no rule for fairness and `ENABLED`.
What `Pipe` does with a limit below `DEFAULT_MINCAP`, or with stores reordered, is not proved
to be right, because it is not (section 6).

## 6. Observations

Found while reading, confirmed by changing a constant, by checking the property that
is named, or by the code itself, and not among the runs:

* **A pipe with a limit aborts before it is full** (`pipe.c:379`).  The buffer may grow to
  `max_cap`, and `check_invariants` asserts that with the sentinel it is no larger than
  that; asserts are on unless the build defines `NDEBUG`, which `CMakeLists.txt` does not.
  `NoAbort` fails with 1 producer, 1 consumer and a limit of 5.  `main` makes its pipe
  without a limit.
* **A push can sleep over room** (`pipe.c:711`): the mirror image of the lost wakeup of
  section 4.  A pusher finds the pipe full, a popper takes something out, which needs only
  `begin_lock`, and signals; then the pusher falls asleep.  `pipe.c:698` says that a push
  waits "until there is enough room in the buffer to push any elements":
  `PushReturnsWhenRoom` fails with pushes and pops of up to 2 and a limit of 3.  Since a
  popper may sleep over a full pipe, too, a pusher that is asleep for good reason and a
  popper that is not can wait for one another for ever.  What remains true is
  `PushReturns`: the next pop wakes the pusher, and one that leaves the buffer at most a
  quarter full cannot be slept through, because to trim the buffer it takes `end_lock`
  before it signals, and the pusher holds that until it sleeps.
* **A key that stays dark** (`color_utils.c:43`).  Without a `last_color` a frame draws any
  of 2^24 colours (`piano.c:106-108`), black among them, and `normalize_color` divides by
  its brightest channel, 0.  The next frame draws again, so it lasts one frame, and some
  colour once drawn never becomes black; but what was struck in that frame is not lit,
  while "keys that are hit harder create brighter LEDs" (`piano.c:130`): `NewKeyIsLit`
  fails.  `StruckIsShown` leaves such a frame out.
* **`ws2811_fini` under an active DMA** (`ws2811.c:1041`).  `ws2811_wait` gives up on a DMA
  error, also while the channel is still active (`1074`); `ws2811_fini` does not look at
  its result, and unlocks and frees what the DMA was given to read (`618-620`).  The
  comments at `ws2811.c:1031` and `1059` say that it shuts the DMA down and that the wait
  is for its completion: `FiniShutsDown` fails.  `DmaReadsLiveMemory` is of a DMA without
  an error.
* **Registers unmapped that were never mapped** (`ws2811.c:236-264`).  `unmap_registers`
  tests `device->pwm` and `device->pcm`, of which `map_registers` sets one; nobody sets the
  other to NULL, although the comment at `ws2811.c:937` says "Initialize all pointers to
  NULL": `RegistersWereMapped` fails.  `spi_fd` (`ws2811.c:626`) is closed in the same way.
  `ReleasedOnce` leaves these fields out.
* With two pushers, `PushReturns` is not claimed for each of them: `just_popped` is a
  signal to one, and POSIX lets it be the other one every time.
* With a limit below `DEFAULT_MINCAP`, the buffer cannot hold `max_cap` bytes and a
  sentinel, and `NoOverlap` fails.  With `NDEBUG` a pipe with a limit of 3 holds
  4 elements: `max_cap` is rounded up to a power of two, with the sentinel inside the
  number that is rounded and outside the number that is compared.
* With `StoresReorder`, `OnlyElementsPopped` fails: nothing orders a push's copy and
  its pointer for a popper.
* `pipe_consumer_free` keeps the buffer when the last consumer goes, `pipe_free`
  gives it up; the comment at `pipe.c:348-358` expects the latter.
* `main.c:83` and `112` free the collector's handle and argument while the collector
  may be pushing, or has not started yet: `AlwaysInBounds` fails in `piano_leds` that
  way too.  When both threads fail, the second `pipe_producer_free` aborts.
* `current_pattern` assigned directly, as the comment at `core.h:29` suggests, makes
  `core.c:46` free the old data as data of the new kind; a frame with `NONE` calls a
  NULL function.
* While an ambient pattern runs nobody pops, and the pipe grows.
* A factor above 1 takes a bright channel beyond the `unsigned char` of
  `adjacent_color`: 255 * 1.24 = 316, which is undefined and on ARM comes out as 60.
  The strip does not change gently then (`ambient.h:31`), and `LedsGently` has to
  leave such channels out.
* `ws2811_render` overwrites the time stamp and `render_wait_time` on entry
  (`ws2811.c:1108`), so that a caller that does not sleep is not held back until "the
  next render can run" (`ws2811.h:86`) but only for the reset time.  `main` sleeps
  62.5 ms against the 2.9 ms needed.
* `ws2811.c:694` takes hwver 0xe and 0xf for "Models B Rev2, A"; those of 4 to 0xd in
  `rpihw.c`, which are such models too, are refused whatever the pin.
* `ws2811_init` returns early (`ws2811.c:881`, `910`, `917`, `924`) without freeing
  the device, the mailbox or, once, the VideoCore memory; `mem_free` is given a size
  for a reference (`923`, `931`); the failure of `mapmem` unlocks twice, and frees
  LED arrays that nobody has set; a failed `map_registers` leaves registers mapped;
  the SPI teardown keeps `pxl_raw`.  `NothingLeft` and `ReleasedOnce` say
  exactly which of these cases there are.
* `GapFits` depends on the frequency, a field that the caller sets.  At 450000 Hz, with
  3 LEDs of three colours on channel 0 and 3 of four on channel 1, the buffer ends
  72 bits after the data of channel 1, which begins 24 bits late, and the reset time is
  74 bits (`ws2811.c:61`, `68`).
* `main` never calls `ws2811_fini`; the VideoCore memory and a running DMA outlive
  the process.  A DMA error flag is cleared by `dma_start` only, which a failing
  `ws2811_wait` comes before: once set, every later render fails, also after a restart.

## 7. Not modelled

* Register layouts, base addresses, clock dividers, the messages to the VideoCore:
  constants of the hardware, with nothing to go wrong that a model would show.
* `spi_transfer`, one synchronous system call; the second channel in `Ws2811Render`.
* Floating point, beyond what a whole value may come out as.
* Gamma correction: this version of the driver has none.
* `pipe` with elements of several bytes, and reordering on the popper's side.
* ALSA, beyond that a read gives a byte or fails.

## 8. Plan

Done: `PipeRing`, `Pipe`, `Fifo`; `PianoLeds` with both threads' failures; `PianoWar`;
`Colors` and `Patterns` with the LEDs of all patterns; `Rpihw` and `Ws2811Init`;
`Ws2811Encode`; `Ws2811Render`; for each of them the safety properties proved, and
that `Pipe` implements `Fifo`, with a limit and without.

Left, should the code change or the tools allow it: the liveness properties, which stay
with TLC; the order of a popper's reads of the cells and its store to `begin`
(`pipe.c:834`); the pipe filling up while an ambient pattern runs, once the program
decides what should happen to those messages.
