------------------------------ MODULE PipeRing ------------------------------
(***************************************************************************)
(* The geometry of the circular buffer of src/pipe/pipe.c, as operators.   *)
(*                                                                         *)
(* Addresses are offsets from p->buffer, so that p->buffer is 0 and the    *)
(* buffer is the interval 0 .. bufend - 1.  A snapshot (snapshot_t) is a   *)
(* record [bufend, begin, end]: `begin' is the sentinel, the first live    *)
(* element is the one after it, `end' is past the last one.                *)
(*                                                                         *)
(* main.c makes the pipe with elem_size = sizeof(unsigned char), so a      *)
(* byte is an element and elem_size is written 1.                          *)
(***************************************************************************)
EXTENDS Integers, Sequences

CONSTANTS
  DEFAULT_MINCAP,  (* initial and smallest buffer size: 32, or 2 with PIPE_DEBUG *)
  Limit,           (* the `limit' argument of pipe_new; 0 is "no maximum size"   *)
  PowersOf2        (* the powers of two a size_t can hold                        *)

ASSUME SizesAssumption ==
  /\ DEFAULT_MINCAP \in Nat \ {0, 1}
  /\ Limit \in Nat
  /\ PowersOf2 \subseteq Nat \ {0}

min(a, b) == IF a <= b THEN a ELSE b
max(a, b) == IF a >= b THEN a ELSE b

(* The least power of two that is at least n; n itself when it is above    *)
(* them all.                                                               *)
next_pow2(n) ==
  LET up == {m \in PowersOf2 : m >= n}
  IN  IF up = {} THEN n ELSE CHOOSE m \in up : \A k \in up : m <= k

(* pipe_new's limits.  Without a limit max_cap is ~(size_t)0, which no     *)
(* buffer reaches: comparisons with it are written through Bounded.        *)
Bounded == Limit # 0
min_cap == DEFAULT_MINCAP
max_cap == next_pow2(max(Limit + 1, DEFAULT_MINCAP))

(* Variants, bugs the checks must notice: the sentinel is not excluded.    *)
capacity_with_sentinel(s) == s.bufend
capacity(s)     == s.bufend - 1
wraps_around(s) == s.begin >= s.end
bytes_in_use_with_sentinel(s) ==
  IF wraps_around(s) THEN s.end + (s.bufend - s.begin) ELSE s.end - s.begin
bytes_in_use(s) ==
  (IF wraps_around(s) THEN s.end + (s.bufend - s.begin) ELSE s.end - s.begin) - 1

wrap_ptr_if_necessary(p, bufend)     == IF p >= bufend THEN p - bufend ELSE p
rev_wrap_ptr_if_necessary(p, bufend) == IF p < 0 THEN bufend + p ELSE p

(* memcpy into the buffer, and the range a memcpy out of it reads.         *)
memcpy(cells, dest, es) ==
  [a \in DOMAIN cells |->
     IF a \in dest .. (dest + Len(es) - 1) THEN es[a - dest + 1] ELSE cells[a]]
read(cells, src, n) == [i \in 1 .. n |-> cells[src + i - 1]]

-----------------------------------------------------------------------------
(* process_push: what fits between end and bufend in a nowrap buffer, then *)
(* the rest from the (wrapped) end.                                        *)
at_end(s, n) == IF wraps_around(s) THEN 0 ELSE min(n, s.bufend - s.end)

push_cells(cells, s, es) ==
  LET k == at_end(s, Len(es))
  IN  memcpy(memcpy(cells, s.end, SubSeq(es, 1, k)),
             wrap_ptr_if_necessary(s.end + k, s.bufend), SubSeq(es, k + 1, Len(es)))

(* Variant: the end pointer is left at bufend.                             *)
push_end_unwrapped(s, n) ==
  LET k == at_end(s, n) IN IF n = k THEN s.end + k ELSE n - k

push_end(s, n) ==
  LET k == at_end(s, n)
  IN  wrap_ptr_if_necessary(
        wrap_ptr_if_necessary(s.end + k, s.bufend) + (n - k), s.bufend)

(* Variant: room for one element more than there is.                       *)
push_count_off_by_one(s, n) == IF Bounded THEN min(n, max_cap + 1 - bytes_in_use(s)) ELSE n

(* How many elements of a push of n fit under the limit.                   *)
push_count(s, n) == IF Bounded THEN min(n, max_cap - bytes_in_use(s)) ELSE n

-----------------------------------------------------------------------------
(* pop_without_locking: the elements right of begin, then, past the        *)
(* wrap-around, the rest; begin ends on the last element copied.           *)
first_bytes(s, n) == min(n, s.bufend - s.begin - 1)

pop_elems(cells, s, n) ==
  LET k == first_bytes(s, n)
      b == wrap_ptr_if_necessary(s.begin + k, s.bufend)
  IN  read(cells, s.begin + 1, k)
        \o read(cells, wrap_ptr_if_necessary(b + 1, s.bufend), n - k)

(* Variant: begin is left on the next element to pop, past a wrap-around.  *)
pop_begin_no_step_back(s, n) ==
  LET k == first_bytes(s, n)
      b == wrap_ptr_if_necessary(s.begin + k, s.bufend)
  IN  IF n = k THEN b
      ELSE wrap_ptr_if_necessary(wrap_ptr_if_necessary(b + 1, s.bufend) + (n - k), s.bufend)

pop_begin(s, n) ==
  LET k == first_bytes(s, n)
      b == wrap_ptr_if_necessary(s.begin + k, s.bufend)
      c == wrap_ptr_if_necessary(b + 1, s.bufend) + (n - k)
  IN  IF n = k THEN b
      ELSE rev_wrap_ptr_if_necessary(wrap_ptr_if_necessary(c, s.bufend) - 1, s.bufend)

-----------------------------------------------------------------------------
(* resize_buffer: the size it settles on, and whether it moves the buffer. *)
new_size(n) == IF Bounded /\ n >= max_cap THEN max_cap ELSE n
resizes(n)  == new_size(n) > min_cap

(* Variant: the copy starts at the first element, not at the sentinel.     *)
copied_without_sentinel(cells, s, n, junk) ==
  [a \in 0 .. new_size(n) |->
     IF a < bytes_in_use(s) THEN cells[wrap_ptr_if_necessary(s.begin + 1 + a, s.bufend)]
                            ELSE junk]

(* copy_pipe_into_new_buf copies the sentinel and the live elements to the *)
(* front of the new buffer; the rest of it is uninitialised memory.        *)
copied(cells, s, n, junk) ==
  [a \in 0 .. new_size(n) |->
     IF a <= bytes_in_use(s) THEN cells[wrap_ptr_if_necessary(s.begin + a, s.bufend)]
                             ELSE junk]

(* The live elements, first to be popped first.                            *)
contents(cells, s) ==
  [i \in 1 .. bytes_in_use(s) |-> cells[wrap_ptr_if_necessary(s.begin + i, s.bufend)]]

(* check_invariants, for a pipe with a buffer.                             *)
sane(s, consumers) ==
  /\ consumers # 0
  /\ bytes_in_use(s) <= capacity(s)
  /\ s.begin \in 0 .. s.bufend
  /\ s.end \in 0 .. s.bufend
  /\ s.begin = s.end => bytes_in_use(s) = capacity(s)
  /\ min_cap <= capacity(s) + 1
  /\ Bounded => capacity(s) + 1 <= max_cap
=============================================================================
