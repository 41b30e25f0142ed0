--------------------------- MODULE PipeFifoProofs ---------------------------
(***************************************************************************)
(* That a pipe that may grow (Roomy) is the queue that pipe.h promises,    *)
(* whatever its threads do and in whatever order: a short pop means        *)
(* closed, every step of the code is a step of Fifo or none of its own, an *)
(* unlocked pipe_size can be trusted by the only consumer, and, without a  *)
(* limit, no assertion fails.                                              *)
(*                                                                         *)
(* On top of HInv (handles) and IInv (pointers and locks) it takes         *)
(*   CInv  what each call in progress has left to do; so with HInv and     *)
(*         IInv, Base,                                                     *)
(*   TInv  types, and that every snapshot is a ring,                       *)
(*   DInv  what a pusher copied is still in the cells before p->end that   *)
(*         it is about to publish: this is what the order of the two       *)
(*         stores of process_push is needed for, and QInv is the three,    *)
(*   SInv  a pipe_size is torn only while there is something in the pipe.  *)
(***************************************************************************)
EXTENDS PipeProofs

-----------------------------------------------------------------------------
(* What process_push and pop_without_locking do to memory: the n-th        *)
(* element after a pointer is n cells on, past the wrap-around.            *)

(* A copy of n elements to e, in a buffer of B: k of them there, and the   *)
(* rest from f.                                                            *)
InTwo(B, e, n, k, f) ==
  /\ B \in Nat /\ e \in 0 .. B - 1 /\ n \in 0 .. B - 1 /\ k \in 0 .. n /\ f \in 0 .. B - 1
  /\ e + k <= B
  /\ k = n \/ e + k = B \/ (k = 0 /\ e + n <= B)
  /\ f = IF e + k >= B THEN e + k - B ELSE e + k

Copies(B, e, n, k, f, c, c1, d, es) ==
  /\ \A a \in 0 .. B - 1 : c1[a] = IF a \in e .. (e + k - 1) THEN es[a - e + 1] ELSE c[a]
  /\ \A a \in 0 .. B - 1 :
       d[a] = IF a \in f .. (f + (n - k) - 1) THEN es[k + (a - f + 1)] ELSE c1[a]

PutsAll(B, e, n, c, d, es) ==
  /\ \A i \in 1 .. n : d[wrap_ptr_if_necessary(e + i - 1, B)] = es[i]
  /\ \A a \in 0 .. B - 1 :
       (\A i \in 1 .. n : a # wrap_ptr_if_necessary(e + i - 1, B)) => d[a] = c[a]

LEMMA TwoParts ==
  ASSUME NEW B, NEW e, NEW n, NEW k, NEW f, InTwo(B, e, n, k, f)
  PROVE  \A i \in 1 .. n : wrap_ptr_if_necessary(e + i - 1, B) =
                           IF i <= k THEN e + i - 1 ELSE f + (i - k - 1)
<1> USE DEF InTwo
<1>1. CASE k = n
  BY <1>1 DEF wrap_ptr_if_necessary
<1>2. CASE e + k = B
  BY <1>2 DEF wrap_ptr_if_necessary
<1>3. CASE k = 0 /\ e + n <= B
  BY <1>3 DEF wrap_ptr_if_necessary
<1> QED BY <1>1, <1>2, <1>3

LEMMA TwoCopies ==
  ASSUME NEW B, NEW e, NEW n, NEW k, NEW f, NEW c, NEW c1, NEW d, NEW es,
         InTwo(B, e, n, k, f), Copies(B, e, n, k, f, c, c1, d, es)
  PROVE  PutsAll(B, e, n, c, d, es)
<1>0. \A i \in 1 .. n : wrap_ptr_if_necessary(e + i - 1, B) =
                          IF i <= k THEN e + i - 1 ELSE f + (i - k - 1)
  BY TwoParts
<1>1. ASSUME NEW i \in 1 .. n
      PROVE  d[wrap_ptr_if_necessary(e + i - 1, B)] = es[i]
  <2>1. CASE i <= k
    <3>1. e + i - 1 \in 0 .. B - 1 /\ e + i - 1 \notin f .. (f + (n - k) - 1)
      BY <2>1 DEF InTwo
    <3>2. (e + i - 1) - e + 1 = i /\ e + i - 1 \in e .. (e + k - 1)
      BY <2>1 DEF InTwo
    <3> QED BY <1>0, <2>1, <3>1, <3>2 DEF Copies
  <2>2. CASE ~(i <= k)
    <3>1. f + (i - k - 1) \in 0 .. B - 1 /\ f + (i - k - 1) \in f .. (f + (n - k) - 1)
      BY <2>2 DEF InTwo
    <3>2. k + ((f + (i - k - 1)) - f + 1) = i
      BY <2>2 DEF InTwo
    <3> QED BY <1>0, <2>2, <3>1, <3>2 DEF Copies
  <2> QED BY <2>1, <2>2
<1>2. ASSUME NEW a \in 0 .. B - 1, \A i \in 1 .. n : a # wrap_ptr_if_necessary(e + i - 1, B)
      PROVE  d[a] = c[a]
  <2>1. a \notin e .. (e + k - 1)
    <3> SUFFICES ASSUME a \in e .. (e + k - 1) PROVE FALSE
      OBVIOUS
    <3>1. a - e + 1 \in 1 .. n /\ a - e + 1 <= k /\ e + (a - e + 1) - 1 = a
      BY DEF InTwo
    <3> QED BY <1>0, <1>2, <3>1
  <2>2. a \notin f .. (f + (n - k) - 1)
    <3> SUFFICES ASSUME a \in f .. (f + (n - k) - 1) PROVE FALSE
      OBVIOUS
    <3> DEFINE i == a - f + 1 + k
    <3>1. i \in 1 .. n /\ ~(i <= k) /\ f + (i - k - 1) = a
      BY DEF InTwo
    <3> HIDE DEF i
    <3> QED BY <1>0, <1>2, <3>1
  <2> QED BY <2>1, <2>2 DEF Copies
<1> QED BY <1>1, <1>2 DEF PutsAll

LEMMA PushPuts ==
  ASSUME NEW s \in Rings, NEW es \in Seq(Elements), fits(s, Len(es)),
         NEW c, DOMAIN c = 0 .. s.bufend - 1
  PROVE  LET d == push_cells(c, s, es)
         IN  /\ d = [a \in 0 .. s.bufend - 1 |-> d[a]]
             /\ PutsAll(s.bufend, s.end, Len(es), c, d, es)
<1> DEFINE B == s.bufend
           e == s.end
           n == Len(es)
           k == at_end(s, n)
           f == wrap_ptr_if_necessary(e + k, B)
           c1 == memcpy(c, e, SubSeq(es, 1, k))
           d == memcpy(c1, f, SubSeq(es, k + 1, n))
<1>1. /\ B \in Nat /\ e \in 0 .. B - 1 /\ n \in 0 .. B - 1
      /\ k \in 0 .. n /\ e + k <= B
      /\ k = n \/ e + k = B \/ (k = 0 /\ e + n <= B)
  BY DEF at_end, min, Rings, wraps_around, fits, capacity, bytes_in_use
<1>2. push_cells(c, s, es) = d
  BY DEF push_cells
<1> HIDE DEF k, B, e
<1>3. f \in 0 .. B - 1 /\ f = IF e + k >= B THEN e + k - B ELSE e + k
  BY <1>1 DEF wrap_ptr_if_necessary
<1> HIDE DEF f
<1>4. /\ DOMAIN c1 = 0 .. B - 1
      /\ \A a \in 0 .. B - 1 :
           c1[a] = IF a \in e .. (e + k - 1) THEN es[a - e + 1] ELSE c[a]
  <2>1. DOMAIN c = 0 .. B - 1
    BY DEF B
  <2>2. Len(SubSeq(es, 1, k)) = k /\ \A i \in 1 .. k : SubSeq(es, 1, k)[i] = es[i]
    BY <1>1
  <2>3. \A a \in e .. (e + k - 1) : a - e + 1 \in 1 .. k
    BY <1>1
  <2> QED BY <2>1, <2>2, <2>3 DEF memcpy
<1>5. /\ d = [a \in 0 .. B - 1 |-> d[a]]
      /\ \A a \in 0 .. B - 1 :
           d[a] = IF a \in f .. (f + (n - k) - 1) THEN es[k + (a - f + 1)] ELSE c1[a]
  <2>1. /\ Len(SubSeq(es, k + 1, n)) = n - k
        /\ \A i \in 1 .. n - k : SubSeq(es, k + 1, n)[i] = es[k + i]
    BY <1>1
  <2>2. \A a \in f .. (f + (n - k) - 1) : a - f + 1 \in 1 .. n - k
    BY <1>1, <1>3
  <2> HIDE DEF c1
  <2> QED BY <1>4, <2>1, <2>2 DEF memcpy
<1> HIDE DEF c1, d, n
<1>6. InTwo(B, e, n, k, f) /\ Copies(B, e, n, k, f, c, c1, d, es)
  BY <1>1, <1>3, <1>4, <1>5 DEF InTwo, Copies
<1>7. PutsAll(B, e, n, c, d, es)
  BY <1>6, TwoCopies
<1> QED BY <1>2, <1>5, <1>7 DEF n, B, e

LEMMA SeqIsFunction ==
  ASSUME NEW S, NEW q \in Seq(S)
  PROVE  q = [i \in 1 .. Len(q) |-> q[i]]
  OBVIOUS

Popped(s, c, n) == [i \in 1 .. n |-> c[wrap_ptr_if_necessary(s.begin + i, s.bufend)]]

LEMMA PopTakes ==
  ASSUME NEW s \in Rings, NEW n \in 0 .. bytes_in_use(s), NEW S, NEW c \in [0 .. s.bufend - 1 -> S]
  PROVE  pop_elems(c, s, n) = Popped(s, c, n) /\ Popped(s, c, n) \in Seq(S)
<1> DEFINE B == s.bufend
           e == s.begin
           k == first_bytes(s, n)
           f == wrap_ptr_if_necessary(wrap_ptr_if_necessary(e + k, B) + 1, B)
           r1 == read(c, e + 1, k)
           r2 == read(c, f, n - k)
<1>1. n \in Nat /\ B \in Nat /\ e \in 0 .. B - 1 /\ n < B
  BY UseBounds DEF Rings, capacity
<1>2. k = IF n <= B - e - 1 THEN n ELSE B - e - 1
  BY DEF first_bytes, min
<1>3. pop_elems(c, s, n) = r1 \o r2
  BY DEF pop_elems
<1>4. \A i \in 1 .. n : wrap_ptr_if_necessary(e + i, B) \in 0 .. B - 1
  <2> HIDE DEF e, B
  <2> QED BY <1>1 DEF wrap_ptr_if_necessary
<1>5. Popped(s, c, n) \in Seq(S)
  BY <1>1, <1>4 DEF Popped
<1> HIDE DEF B, e, k
<1>6. k \in 0 .. n /\ e + k <= B - 1 /\ (k # n => e + k = B - 1 /\ f = 0)
  BY <1>1, <1>2 DEF wrap_ptr_if_necessary
<1> HIDE DEF f
<1>7. r1 \in Seq(S) /\ Len(r1) = k /\ \A i \in 1 .. k : r1[i] = c[e + i]
  <2>1. \A i \in 1 .. k : e + i \in 0 .. B - 1 /\ (e + 1) + i - 1 = e + i
    BY <1>1, <1>6
  <2>2. \A i \in 1 .. k : c[(e + 1) + i - 1] \in S
    BY <2>1 DEF B
  <2> QED BY <1>1, <1>6, <2>1, <2>2 DEF read
<1>8. r2 \in Seq(S) /\ Len(r2) = n - k /\ \A i \in 1 .. n - k : r2[i] = c[i - 1]
  <2>1. CASE k = n
    BY <1>1, <2>1 DEF read
  <2>2. CASE k # n
    <3>1. f = 0 /\ n - k \in Nat
      BY <1>1, <1>6, <2>2
    <3>2. \A i \in 1 .. n - k : i - 1 \in 0 .. B - 1 /\ f + i - 1 = i - 1
      BY <1>1, <1>6, <3>1
    <3>3. \A i \in 1 .. n - k : c[f + i - 1] \in S
      BY <3>2 DEF B
    <3> QED BY <3>1, <3>2, <3>3 DEF read
  <2> QED BY <2>1, <2>2
<1> HIDE DEF r1, r2
<1>9. /\ r1 \o r2 \in Seq(S) /\ Len(r1 \o r2) = n
      /\ \A i \in 1 .. n : (r1 \o r2)[i] = IF i <= k THEN r1[i] ELSE r2[i - k]
  BY <1>1, <1>6, <1>7, <1>8
<1>10. ASSUME NEW i \in 1 .. n
       PROVE  (r1 \o r2)[i] = c[wrap_ptr_if_necessary(e + i, B)]
  <2>1. CASE i <= k
    BY <1>1, <1>6, <1>7, <1>9, <2>1 DEF wrap_ptr_if_necessary
  <2>2. CASE ~(i <= k)
    BY <1>1, <1>6, <1>8, <1>9, <2>2, SMTT(30) DEF wrap_ptr_if_necessary
  <2> QED BY <2>1, <2>2
<1>11. r1 \o r2 = Popped(s, c, n)
  <2>1. r1 \o r2 = [i \in 1 .. n |-> (r1 \o r2)[i]]
    BY <1>9, SeqIsFunction
  <2> QED BY <1>10, <2>1 DEF Popped, e, B
<1> QED BY <1>3, <1>5, <1>11

-----------------------------------------------------------------------------
(* What a call in progress is about: a push still has elements to push     *)
(* until it has published them, a pop has something left to pop, and a     *)
(* pop that came back short saw the pipe closed and drained.               *)
Entering == Pushing \ {"push_signal"}
Rounds   == {"pop_lock", "pop_look", "pop_sleep", "pop_asleep", "pop_copy"}
InRound  == Rounds \cup {"pop_trim_end", "pop_trim", "pop_signal"}
drained  == producer_refcount = 0 /\ used = 0

CallOK(t) ==
  /\ pc[t] \in Entering => elems[t] # <<>>
  /\ elems[t] # <<>> => pc[t] \in Pushing
  /\ pc[t] \in Rounds => bytes_left[t] # 0
  /\ pc[t] = "pop_copy" => bytes_in_use(snap[t]) # 0
  /\ bytes_left[t] # 0 /\ pc[t] \notin InRound => drained

(* Without a limit no assertion fails.  With one check_invariants asks too *)
(* much of a full pipe, and the process stops there or goes on.            *)
CInv ==
  /\ Limit = 0 => ~failed
  /\ \A t \in Threads : CallOK(t)

Base == Roomy /\ HInv /\ IInv /\ CInv

(* A step that changes nothing of the other threads' calls.                *)
Own(t, label) ==
  /\ Steers(t, label)
  /\ \A u \in Threads \ {t} : elems'[u] = elems[u] /\ bytes_left'[u] = bytes_left[u]
                              /\ snap'[u] = snap[u]

LEMMA CallsKept ==
  ASSUME CInv, NEW t \in Threads, NEW label, Own(t, label), Limit = 0 => ~failed',
         drained => drained', CallOK(t)'
  PROVE  CInv'
<1>1. ASSUME NEW u \in Threads \ {t} PROVE CallOK(u)'
  <2>1. CallOK(u) /\ (pc'[u] = pc[u] \/ <<pc[u], pc'[u]>> \in Nudges)
    BY DEF CInv, Own, Steers
  <2>2. /\ pc'[u] \in Entering <=> pc[u] \in Entering
        /\ pc'[u] \in Rounds <=> pc[u] \in Rounds
        /\ pc'[u] \in InRound <=> pc[u] \in InRound
        /\ pc'[u] \in Pushing <=> pc[u] \in Pushing
        /\ pc'[u] = "pop_copy" <=> pc[u] = "pop_copy"
    BY <2>1 DEF Nudges, Entering, Rounds, InRound, Pushing
  <2> QED BY <2>1, <2>2 DEF CallOK, Own
<1> QED BY <1>1 DEF CInv

(* A thread with a call in progress has a handle, so the pipe it pushes to *)
(* is open, and the pipe it pops from has a consumer.                      *)
LEMMA HandlesCount ==
  ASSUME HInv, NEW t \in Threads
  PROVE  /\ t \in Producers /\ pc[t] \notin Past => producer_refcount # 0
         /\ t \in Consumers /\ pc[t] \notin Past => consumer_refcount # 0
         /\ pc[t] = "free_producer" => producer_refcount # 0
         /\ pc[t] = "free_consumer" => consumer_refcount # 0
         /\ pc[Owner] = "idle" => producer_refcount # 0 /\ consumer_refcount # 0
<1>1. Counted /\ OfItsKind(t)
  BY DEF HInv, HandleOK
<1> QED BY <1>1, Counts, ThreadsAssumption DEF producing, consuming, Past, OfItsKind, Threads

(* check_invariants, of any state of an unlimited pipe's pointers.         *)
LEMMA SaneRing ==
  ASSUME Limit = 0, NEW s \in Rings, s.bufend >= DEFAULT_MINCAP, NEW consumers, consumers # 0
  PROVE  sane(s, consumers)
<1>1. bytes_in_use(s) <= capacity(s)
  BY UseBounds DEF Rings, capacity
<1>2. s.begin \in 0 .. s.bufend /\ s.end \in 0 .. s.bufend
  BY DEF Rings
<1>3. s.begin = s.end => bytes_in_use(s) = capacity(s)
  BY DEF Rings, bytes_in_use, capacity, wraps_around
<1>4. min_cap <= capacity(s) + 1
  BY SizesAssumption DEF Rings, min_cap, capacity
<1> QED BY <1>1, <1>2, <1>3, <1>4 DEF sane, Bounded

(* resize_buffer's assertions, given a buffer that what it holds fits in.  *)
LEMMA ResizeAsserts ==
  ASSUME Base, ~failed, NEW t \in Threads, NEW label, NEW n \in Nat, n >= used,
         consumer_refcount # 0, resize_buffer(t, n, label)
  PROVE  Limit = 0 => ~failed'
<1>0. SUFFICES ASSUME Limit = 0 PROVE ~failed'
  OBVIOUS
<1> ~Bounded
  BY <1>0 DEF Bounded
<1>1. /\ RingOK /\ make_snapshot \in Rings
      /\ used \in Nat
  BY CurrentRing, UseBounds DEF Base, IInv, used, RingOK, make_snapshot, capacity
<1>2. sane(make_snapshot, consumer_refcount)
  BY <1>0, <1>1, SaneRing DEF RingOK, make_snapshot
<1>3. CASE ~resizes(n)
  BY <1>2, <1>3 DEF resize_buffer, assertume
<1>4. CASE resizes(n)
  <2> DEFINE r == [bufend |-> n + 1, begin |-> 0, end |-> used + 1]
  <2>1. new_size(n) = n /\ n > DEFAULT_MINCAP
    BY <1>4 DEF resizes, new_size, min_cap
  <2>2. /\ r.bufend = n + 1 /\ r.begin = 0 /\ r.end = used + 1
        /\ r.begin # r.end
    BY <1>1
  <2>3. bytes_in_use(r) = used /\ capacity(r) = n
    BY <1>1, <2>2 DEF bytes_in_use, capacity, wraps_around
  <2>4. sane(r, consumer_refcount)
    <3> HIDE DEF r
    <3> QED BY <1>1, <2>1, <2>2, <2>3, SizesAssumption DEF sane, min_cap
  <2> QED BY <1>2, <1>4, <2>1, <2>4 DEF resize_buffer, assertume
<1> QED BY <1>3, <1>4

-----------------------------------------------------------------------------
(* The steps of pipe_push keep it, and none of their assertions fails.     *)
LEMMA OwnStep ==
  ASSUME Base, NEW t \in Threads, NEW label, Steers(t, label),
         elems' = elems \/ \E v : elems' = [elems EXCEPT ![t] = v],
         bytes_left' = bytes_left \/ \E v : bytes_left' = [bytes_left EXCEPT ![t] = v],
         snap' = snap \/ \E v : snap' = [snap EXCEPT ![t] = v]
  PROVE  Own(t, label)
  BY DEF Own, Base, IInv, LocalOK

LEMMA PushCalls ==
  ASSUME Base, ~failed, NEW t \in Producers,
         Push(t) \/ PushLock(t) \/ \E es \in Batches : CallPush(t, es)
  PROVE  CInv'
<1>0. /\ PcOK /\ LocalOK /\ RingOK /\ t \in Threads /\ CallOK(t) /\ ThreadOK(t) /\ CInv
      /\ bytes_left[t] \in Nat /\ elems[t] \in Seq(Elements)
      /\ pc[t] \in Filling => consumer_refcount # 0
      /\ pc[t] \notin Past /\ pc[t] \notin InRound /\ ~drained
  <2>1. t \in Threads /\ HandleOK(t) /\ t \notin Consumers
    BY ThreadsAssumption DEF Base, HInv, Threads
  <2>2. pc[t] \notin Past
    BY DEF Push, PushLock, CallPush, PushRoom, PushSleep, PushUpgrade, PushCopy, PushPublish,
           PushPublishEarly, PushCopyLate, PushSignal, Past
  <2>3. producer_refcount # 0
    BY <2>1, <2>2, HandlesCount DEF Base
  <2> QED BY <2>1, <2>2, <2>3
          DEF Base, HInv, IInv, CInv, LocalOK, HandleOK, Informed, OfItsKind, InRound, Rounds,
              Popping, drained
<1>1. bytes_left[t] = 0
  BY <1>0 DEF CallOK
<1>2. ASSUME NEW label \in {"idle"} \cup Pushing, Own(t, label),
             Limit = 0 => ~failed', bytes_left'[t] = 0,
             label \in Entering => elems'[t] # <<>>, label = "idle" => elems'[t] = <<>>
      PROVE  CInv'
  <2>1. CallOK(t)'
    BY <1>2 DEF CallOK, Own, Steers, Rounds, Pushing
  <2> QED BY <1>0, <1>2, <2>1, CallsKept
<1> USE DEF Pushing, Entering, Labels
<1>3. ASSUME NEW es \in Batches, CallPush(t, es)
      PROVE  CInv'
  <2>1. es # <<>> /\ elems'[t] = es /\ bytes_left' = bytes_left /\ (Limit = 0 => ~failed')
    BY <1>0, <1>3, BoundsAssumption DEF Batches, CallPush, LocalOK
  <2>2. Own(t, "push_lock")
    BY <1>0, <1>3, GotoSteers, OwnStep DEF CallPush
  <2> QED BY <1>1, <1>2, <2>1, <2>2
<1>4. CASE PushLock(t) \/ PushSleep(t)
  <2>1. \E label \in {"push_room", "push_asleep"} : Own(t, label)
    BY <1>0, <1>4, GotoSteers, OwnStep DEF PushLock, PushSleep, local
  <2>2. UNCHANGED <<elems, bytes_left, failed>> /\ elems[t] # <<>>
    BY <1>0, <1>4 DEF PushLock, PushSleep, local, CallOK
  <2> QED BY <1>1, <1>2, <2>1, <2>2
<1>5. CASE PushRoom(t)
  <2>0. elems[t] # <<>> /\ bytes_left' = bytes_left /\ (Limit = 0 => ~failed')
    BY <1>0, <1>5 DEF PushRoom, CallOK
  <2>1. CASE consumer_refcount = 0
    <3>1. Own(t, "idle") /\ elems'[t] = <<>>
      BY <1>0, <1>5, <2>1, GotoSteers, OwnStep DEF PushRoom, LocalOK
    <3> QED BY <1>1, <1>2, <2>0, <3>1
  <2>2. CASE consumer_refcount # 0
    <3>1. \E label \in {"push_sleep", "push_upgrade", "push_copy"} : Own(t, label)
      BY <1>0, <1>5, <2>2, GotoSteers, OwnStep DEF PushRoom
    <3>2. elems' = elems
      BY <1>5, <2>2 DEF PushRoom
    <3> QED BY <1>1, <1>2, <2>0, <3>1, <3>2
  <2> QED BY <2>1, <2>2
<1>6. CASE PushUpgrade(t)
  <2>0. elems[t] # <<>> /\ UNCHANGED <<bytes_left, elems>> /\ consumer_refcount # 0
    BY <1>0, <1>6 DEF PushUpgrade, CallOK, Filling
  <2>1. Own(t, "push_copy")
    <3>1. Goto(t, "push_copy") \/ GotoTearing(t, "push_copy")
      BY <1>6 DEF PushUpgrade, resize_buffer
    <3>2. \E v : snap' = [snap EXCEPT ![t] = v]
      BY <1>6 DEF PushUpgrade
    <3> QED BY <1>0, <2>0, <3>1, <3>2, GotoSteers, OwnStep
  <2>2. Limit = 0 => ~failed'
    <3>1. CASE needed(t) > capacity(snap[t])
      <4> DEFINE n == next_pow2(needed(t) + 1)
      <4>1. used \in Nat /\ needed(t) \in Nat /\ needed(t) >= used
        <5>1. used \in Nat
          BY <1>0, CurrentRing, UseBounds DEF used, Rings, capacity
        <5> QED BY <1>0, <5>1 DEF needed
      <4>2. n \in Nat /\ n >= needed(t) + 1
        <5>1. needed(t) + 1 \in Nat BY <4>1
        <5> QED BY <5>1, NextPow2RoundsUp
      <4>3. n >= used
        BY <4>1, <4>2
      <4>4. resize_buffer(t, n, "push_copy")
        BY <1>6, <3>1 DEF PushUpgrade
      <4> HIDE DEF n
      <4> QED BY <1>0, <2>0, <4>2, <4>3, <4>4, ResizeAsserts
    <3>2. CASE ~(needed(t) > capacity(snap[t]))
      BY <1>6, <3>2 DEF PushUpgrade
    <3> QED BY <3>1, <3>2
  <2> QED BY <1>1, <1>2, <2>0, <2>1, <2>2
<1>7. pc[t] = "push_copy" => pushed(t) > 0
  BY <1>0, PushedBounds DEF Base, ThreadOK, pushing, CallOK
<1>8. CASE PushCopy(t) \/ PushPublishEarly(t)
  <2>1. elems[t] # <<>> /\ UNCHANGED <<bytes_left, elems>> /\ pc[t] = "push_copy"
    BY <1>0, <1>8 DEF PushCopy, PushPublishEarly, CallOK, local
  <2>2. \E label \in {"push_publish", "push_late"} : Own(t, label)
    BY <1>0, <1>8, GotoSteers, OwnStep DEF PushCopy, PushPublishEarly, local
  <2>3. snap[t].end # bufend
    BY <1>0, <2>1 DEF ThreadOK, sound, pushing, RingOK
  <2>4. Limit = 0 => ~failed'
    BY <1>7, <1>8, <2>1, <2>3 DEF PushCopy, PushPublishEarly, assertume
  <2> QED BY <1>1, <1>2, <2>1, <2>2, <2>4
<1>9. CASE PushPublish(t) \/ PushCopyLate(t)
  <2>1. bytes_left' = bytes_left /\ (Limit = 0 => ~failed')
    BY <1>9 DEF PushPublish, PushCopyLate
  <2>2. Own(t, "push_signal")
    BY <1>0, <1>9, GotoSteers, OwnStep DEF PushPublish, PushCopyLate, Pushed
  <2> QED BY <1>1, <1>2, <2>1, <2>2
<1>10. CASE PushSignal(t)
  <2>1. UNCHANGED <<bytes_left, elems, snap, failed>>
    BY <1>10 DEF PushSignal
  <2>2. \E label \in {"idle", "push_lock"} : Own(t, label) /\ (elems[t] = <<>> <=> label = "idle")
    BY <1>0, <1>10, <2>1, WakeSteers, OwnStep DEF PushSignal
  <2> QED BY <1>1, <1>2, <2>1, <2>2
<1> QED BY <1>3, <1>4, <1>5, <1>6, <1>8, <1>9, <1>10 DEF Push

-----------------------------------------------------------------------------
(* The steps of pipe_pop and pipe_size.                                    *)
LEMMA PopCopyAsserts ==
  ASSUME Base, ~failed, NEW t \in Consumers, PopCopy(t)
  PROVE  (Limit = 0 => ~failed') /\ used # 0
<1> DEFINE s == snap[t]
           n == min(bytes_left[t], bytes_in_use(s))
           b == pop_begin(s, n)
           r == [make_snapshot EXCEPT !.begin = b]
<1>0. /\ RingOK /\ LocalOK /\ sound(t) /\ pc[t] = "pop_copy" /\ t \in Threads /\ CallOK(t)
  BY DEF Base, IInv, CInv, ThreadOK, PopCopy, Threads
<1>1. s \in Rings /\ make_snapshot \in Rings /\ s.bufend = bufend /\ s.begin = begin
  BY <1>0, SoundRing, CurrentRing DEF sound
<1>2. /\ bytes_left[t] \in Nat /\ bytes_left[t] # 0
      /\ bytes_in_use(s) \in Nat /\ bytes_in_use(s) # 0
      /\ used \in Nat /\ bytes_in_use(s) <= used
  <2>1. bytes_left[t] \in Nat /\ bytes_left[t] # 0 /\ bytes_in_use(s) # 0
        /\ bytes_in_use(s) <= used
    BY <1>0 DEF LocalOK, CallOK, Rounds, sound
  <2>2. bytes_in_use(s) \in Nat /\ used \in Nat
    <3> HIDE DEF s
    <3> QED BY <1>1, UseBounds DEF used, Rings, capacity
  <2> QED BY <2>1, <2>2
<1> HIDE DEF s
<1>3. n > 0 /\ n \in 0 .. bytes_in_use(s)
  BY <1>2 DEF min
<1> HIDE DEF n
<1>4. consumer_refcount # 0
  BY <1>0, HandlesCount DEF Base, Past
<1>5. b \in 0 .. bufend - 1
  BY <1>1, <1>3, PopMoves
<1> HIDE DEF b
<1>6. r \in Rings /\ r.bufend = bufend
  BY <1>1, <1>5 DEF Rings, make_snapshot
<1>7. Limit = 0 => sane(make_snapshot, consumer_refcount) /\ sane(r, consumer_refcount)
  <2> HIDE DEF r
  <2> QED BY <1>0, <1>1, <1>4, <1>6, SaneRing DEF Base, RingOK, make_snapshot
<1>8. s.begin # s.bufend
  BY <1>0, <1>1 DEF RingOK
<1>9. failed' = (~NDEBUG /\ ~(/\ sane(make_snapshot, consumer_refcount)
                            /\ sane(r, consumer_refcount)
                            /\ s.begin # s.bufend
                            /\ n > 0))
  BY DEF PopCopy, assertume, r, b, n, s
<1>10. Limit = 0 => ~failed'
  <2> HIDE DEF r, b
  <2> QED BY <1>3, <1>7, <1>8, <1>9
<1> QED BY <1>2, <1>10

(* trim_buffer asks for more than is in use, and less than the limit.      *)
LEMMA TrimFits ==
  ASSUME Base, trims
  PROVE  /\ capacity(make_snapshot) \div 2 \in Nat
         /\ capacity(make_snapshot) \div 2 >= used
         /\ capacity(make_snapshot) \div 2 > DEFAULT_MINCAP =>
              capacity(make_snapshot) \div 2 > used
         /\ Bounded => used < max_cap
<1>0. RingOK
  BY DEF Base, IInv
<1>1. used \in Nat /\ capacity(make_snapshot) \in Nat /\ capacity(make_snapshot) >= 1
  BY <1>0, SizesAssumption, CurrentRing, UseBounds DEF used, RingOK, make_snapshot, capacity
<1>2. Bounded => max_cap \in Nat /\ capacity(make_snapshot) <= max_cap
  BY <1>0, MaxCap DEF RingOK, Base
<1> QED BY <1>1, <1>2, SizesAssumption DEF trims

(* validate_size asks for more than is in use, seen below the limit.       *)
LEMMA UpgradeFits ==
  ASSUME Base, NEW t \in Threads, PushUpgrade(t)
  PROVE  /\ next_pow2(needed(t) + 1) \in Nat /\ next_pow2(needed(t) + 1) > used
         /\ Bounded => used < max_cap
<1>1. RingOK /\ Roomy /\ LocalOK /\ sound(t) /\ fitting(t) /\ pushing(t)
  BY DEF Base, IInv, ThreadOK, PushUpgrade, pushing
<1>2. used \in Nat
  BY <1>1, CurrentRing, UseBounds DEF used, Rings, capacity
<1>3. needed(t) + 1 \in Nat /\ needed(t) + 1 > used
  <2>1. Len(elems[t]) \in Nat
    BY <1>1 DEF LocalOK
  <2> QED BY <1>2, <2>1 DEF needed
<1>4. next_pow2(needed(t) + 1) \in Nat /\ next_pow2(needed(t) + 1) >= needed(t) + 1
  BY <1>3, NextPow2RoundsUp
<1>5. ASSUME Bounded PROVE used < max_cap
  <2>1. bytes_in_use(snap[t]) \in Int /\ max_cap \in Nat
    BY <1>1, <1>5, SnapUse, MaxCap
  <2>2. used <= bytes_in_use(snap[t]) /\ bytes_in_use(snap[t]) < max_cap
    BY <1>1, <1>5 DEF sound, fitting
  <2> QED BY <1>2, <2>1, <2>2
<1> QED BY <1>2, <1>3, <1>4, <1>5

LEMMA PopTrimAsserts ==
  ASSUME Base, ~failed, NEW t \in Consumers, PopTrim(t)
  PROVE  (Limit = 0 => ~failed') /\ used' = used
<1> DEFINE n == capacity(make_snapshot) \div 2
<1>0. Roomy /\ RingOK /\ LocalOK /\ t \in Threads /\ consumer_refcount # 0
  <2>1. t \in Threads /\ pc[t] = "pop_trim"
    BY DEF PopTrim, Threads
  <2> QED BY <2>1, HandlesCount DEF Base, IInv, Past
<1>2. CASE trims
  <2>1. n \in Nat /\ n >= used /\ (n > DEFAULT_MINCAP => n > used) /\ (Bounded => used < max_cap)
    BY <1>2, TrimFits
  <2>2. resize_buffer(t, n, "pop_signal")
    BY <1>2 DEF PopTrim
  <2> HIDE DEF n
  <2>3. used' = used
    BY <1>0, <2>1, <2>2, Resizes DEF Labels
  <2> QED BY <1>0, <2>1, <2>2, <2>3, ResizeAsserts
<1>3. CASE ~trims
  BY <1>3 DEF PopTrim, used, make_snapshot
<1> QED BY <1>2, <1>3

LEMMA PopCalls ==
  ASSUME Base, ~failed, NEW t \in Consumers,
         Pop(t) \/ PopLock(t) \/ PopTrimEnd(t) \/ SizeBegin(t) \/ \E n \in 1 .. MaxPop : CallPop(t, n)
  PROVE  CInv'
<1>0. /\ PcOK /\ LocalOK /\ RingOK /\ t \in Threads /\ CallOK(t) /\ CInv
      /\ bytes_left[t] \in Nat /\ pc[t] \notin Pushing /\ elems[t] = <<>>
  <2>1. t \in Threads /\ HandleOK(t) /\ t \notin Producers /\ CallOK(t)
    BY ThreadsAssumption DEF Base, HInv, CInv, Threads
  <2>2. pc[t] \notin Pushing
    BY <2>1 DEF HandleOK, OfItsKind
  <2> QED BY <2>1, <2>2 DEF Base, HInv, IInv, CInv, LocalOK, CallOK
<1>1. ASSUME NEW label \in {"idle"} \cup Popping, Own(t, label),
             Limit = 0 => ~failed', elems' = elems,
             drained => drained',
             label \in Rounds => bytes_left'[t] # 0,
             label = "pop_copy" => bytes_in_use(snap'[t]) # 0,
             label \notin InRound /\ bytes_left'[t] # 0 => drained'
      PROVE  CInv'
  <2>1. CallOK(t)'
    BY <1>0, <1>1 DEF CallOK, Own, Steers, Entering, Popping, Pushing
  <2> QED BY <1>0, <1>1, <2>1, CallsKept
<1> USE DEF Popping, Rounds, InRound, Labels
<1>2. ASSUME UNCHANGED <<ring, refs>> PROVE drained' <=> drained
  BY <1>2 DEF drained, used, make_snapshot, ring, refs
<1>3. ASSUME NEW n \in 1 .. MaxPop, CallPop(t, n)
      PROVE  CInv'
  <2>1. Own(t, "pop_lock")
    BY <1>0, <1>3, GotoSteers, OwnStep DEF CallPop
  <2>2. bytes_left'[t] # 0
    BY <1>0, <1>3, BoundsAssumption DEF CallPop, LocalOK
  <2>3. UNCHANGED <<elems, ring, refs, failed>>
    BY <1>3 DEF CallPop
  <2> QED BY <1>0, <1>1, <1>2, <2>1, <2>2, <2>3 DEF CInv
<1>4. CASE PopLock(t) \/ PopSleep(t) \/ PopTrimEnd(t)
  <2>1. \E label \in {"pop_look", "pop_asleep", "pop_trim"} :
          Own(t, label) /\ (label \in Rounds => pc[t] \in Rounds)
    BY <1>0, <1>4, GotoSteers, OwnStep DEF PopLock, PopSleep, PopTrimEnd, local
  <2>2. UNCHANGED <<elems, bytes_left, failed, ring, refs>>
    BY <1>4 DEF PopLock, PopSleep, PopTrimEnd, local
  <2> QED BY <1>0, <1>1, <1>2, <2>1, <2>2 DEF CallOK
<1>5. CASE PopLook(t)
  <2>0. UNCHANGED <<elems, bytes_left, failed, ring, refs>> /\ bytes_left[t] # 0
    BY <1>0, <1>5 DEF PopLook, CallOK
  <2>1. CASE used = 0 /\ ~closed
    <3>1. Own(t, "pop_sleep")
      BY <1>0, <1>5, <2>1, GotoSteers, OwnStep DEF PopLook
    <3> QED BY <1>1, <1>2, <2>0, <3>1
  <2>2. CASE used = 0 /\ closed
    <3>1. Own(t, "idle") /\ drained
      BY <1>0, <1>5, <2>2, GotoSteers, OwnStep DEF PopLook, drained, closed
    <3> QED BY <1>1, <1>2, <2>0, <3>1
  <2>3. CASE used # 0
    <3>1. Own(t, "pop_copy") /\ snap'[t] = make_snapshot
      BY <1>0, <1>5, <2>3, GotoSteers, OwnStep DEF PopLook, LocalOK
    <3>2. bytes_in_use(snap'[t]) # 0
      BY <2>3, <3>1 DEF used
    <3> QED BY <1>1, <1>2, <2>0, <3>1, <3>2
  <2> QED BY <2>1, <2>2, <2>3
<1>6. CASE PopCopy(t)
  <2>1. (Limit = 0 => ~failed') /\ ~drained
    BY <1>6, PopCopyAsserts DEF drained
  <2>2. \E label \in {"pop_signal", "pop_trim_end"} : GotoTearing(t, label)
    BY <1>6 DEF PopCopy
  <2>3. /\ elems' = elems /\ \E v : bytes_left' = [bytes_left EXCEPT ![t] = v]
        /\ \E v : snap' = [snap EXCEPT ![t] = v]
    BY <1>6 DEF PopCopy
  <2>4. \E label \in {"pop_signal", "pop_trim_end"} : Own(t, label)
    BY <1>0, <2>2, <2>3, GotoSteers, OwnStep
  <2> QED BY <1>1, <2>1, <2>3, <2>4
<1>7. CASE PopTrim(t)
  <2>1. (Limit = 0 => ~failed') /\ used' = used
    BY <1>7, PopTrimAsserts
  <2>2. Goto(t, "pop_signal") \/ GotoTearing(t, "pop_signal")
    BY <1>7 DEF PopTrim, resize_buffer
  <2>3. Own(t, "pop_signal") /\ UNCHANGED <<elems, refs>>
    BY <1>0, <1>7, <2>2, GotoSteers, OwnStep DEF PopTrim, local
  <2> QED BY <1>1, <2>1, <2>3 DEF drained, refs
<1>8. CASE PopSignal(t)
  <2>0. UNCHANGED <<elems, bytes_left, snap, failed, ring, refs>>
    BY <1>8 DEF PopSignal
  <2>1. CASE bytes_left[t] > 0
    <3>1. Own(t, "pop_lock") /\ bytes_left'[t] # 0
      BY <1>0, <1>8, <2>0, <2>1, WakeSteers, OwnStep DEF PopSignal
    <3> QED BY <1>0, <1>1, <1>2, <2>0, <3>1 DEF CInv
  <2>2. CASE ~(bytes_left[t] > 0)
    <3>1. Own(t, "idle") /\ bytes_left'[t] = 0
      BY <1>0, <1>8, <2>0, <2>2, WakeSteers, OwnStep DEF PopSignal
    <3> QED BY <1>0, <1>1, <1>2, <2>0, <3>1 DEF CInv
  <2> QED BY <2>1, <2>2
<1>9. CASE SizeBegin(t) \/ SizeEnd(t)
  <2>1. UNCHANGED <<elems, bytes_left, snap, failed, ring, refs>>
    BY <1>9 DEF SizeBegin, SizeEnd, local
  <2>2. \E label \in {"idle", "size_read"} : Own(t, label) /\ pc[t] \notin InRound
    BY <1>0, <1>9, <2>1, GotoSteers, OwnStep DEF SizeBegin, SizeEnd
  <2> QED BY <1>0, <1>1, <1>2, <2>1, <2>2 DEF CallOK, CInv
<1> QED BY <1>3, <1>4, <1>5, <1>6, <1>7, <1>8, <1>9 DEF Pop

(* A step by a thread between its calls, or that only goes back to a lock. *)
LEMMA IdleCalls ==
  ASSUME Base, NEW t \in Threads, NEW label, Steers(t, label), Limit = 0 => ~failed',
         UNCHANGED <<elems, bytes_left, snap>>, drained => drained',
         \/ {pc[t], label} \cap (Pushing \cup InRound) = {}
         \/ <<pc[t], label>> \in Nudges
  PROVE  CInv'
<1>1. Own(t, label)
  BY OwnStep
<1>2. CallOK(t) /\ pc'[t] = label /\ CInv
  BY <1>1 DEF Base, CInv, Own, Steers
<1>3. CallOK(t)'
  BY <1>2 DEF CallOK, Nudges, Entering, Pushing, InRound, Rounds
<1> QED BY <1>1, <1>2, <1>3, CallsKept

LEMMA OtherCalls ==
  ASSUME Base, ~failed, NEW t \in Threads,
         \/ t \in Producers /\ ProducerNew(t)
         \/ t \in Consumers /\ ConsumerNew(t)
         \/ CallFree(t) \/ Release(t) \/ SpuriousWake(t)
  PROVE  CInv'
<1> USE DEF Labels
<1>0. /\ PcOK /\ CInv
      /\ producer_refcount \in Nat /\ consumer_refcount \in Nat
      /\ HandleOK(t)
  BY CountsAreNat DEF Base, HInv
<1>1. CASE (t \in Producers /\ ProducerNew(t)) \/ (t \in Consumers /\ ConsumerNew(t))
  <2>1. Steers(t, "idle") /\ pc[t] = "none" /\ ~drained
    BY <1>0, <1>1, GotoSteers, HandlesCount DEF ProducerNew, ConsumerNew, drained, Base
  <2>2. UNCHANGED <<elems, bytes_left, snap, failed>>
    BY <1>1 DEF ProducerNew, ConsumerNew, local
  <2> QED BY <1>0, <2>1, <2>2, IdleCalls DEF CInv, Pushing, InRound, Rounds
<1>2. CASE SpuriousWake(t)
  <2>1. \E label : Steers(t, label) /\ <<pc[t], label>> \in Nudges
    BY <1>0, <1>2, GotoSteers DEF SpuriousWake, Nudges
  <2>2. UNCHANGED <<elems, bytes_left, snap, failed, ring, refs>>
    BY <1>2 DEF SpuriousWake, local
  <2>3. drained' <=> drained
    BY <2>2 DEF drained, used, make_snapshot, ring, refs
  <2> QED BY <1>0, <2>1, <2>2, <2>3, IdleCalls DEF CInv
<1>3. CASE CallFree(t) \/ Release(t)
  <2> DEFINE freeingLabels == {"free_producer", "free_consumer", "free_look", "free_wake",
                               "free_null", "free_last", "gone"}
  <2>1. \E label \in freeingLabels : Steers(t, label)
    BY <1>0, <1>3, GotoSteers, WakeSteers
       DEF CallFree, Release, FreeProducer, FreeConsumer, FreeLook, FreeWake, FreeNull, FreeLast
  <2>2. pc[t] \in {"idle"} \cup freeingLabels
    BY <1>3 DEF CallFree, Release, FreeProducer, FreeConsumer, FreeLook, FreeWake, FreeNull,
                FreeLast
  <2>3. UNCHANGED <<elems, bytes_left, snap, bufend, begin, end>>
    BY <1>3 DEF CallFree, Release, FreeProducer, FreeConsumer, FreeLook, FreeWake, FreeNull,
                FreeLast, local, ring
  <2>4. drained => drained'
    <3>1. FreeProducer(t) => ~drained
      BY HandlesCount DEF Base, FreeProducer, drained
    <3>2. ~FreeProducer(t) => producer_refcount' = producer_refcount
      BY <1>3 DEF CallFree, Release, FreeConsumer, FreeLook, FreeWake, FreeNull, FreeLast, refs
    <3> QED BY <2>3, <3>1, <3>2 DEF drained, used, make_snapshot
  <2>5. Limit = 0 => ~failed'
    <3>1. CASE FreeProducer(t)
      <4>1. producer_refcount > 0
        BY <1>0, <3>1, HandlesCount DEF Base, FreeProducer
      <4> QED BY <3>1, <4>1 DEF FreeProducer, assertume
    <3>2. CASE FreeConsumer(t)
      <4>1. consumer_refcount > 0
        BY <1>0, <3>2, HandlesCount DEF Base, FreeConsumer
      <4> QED BY <3>2, <4>1 DEF FreeConsumer, assertume
    <3>3. CASE FreeLast(t)
      BY <1>0, <3>3 DEF FreeLast, assertume, HandleOK, Informed
    <3>4. CASE CallFree(t) \/ FreeLook(t) \/ FreeWake(t) \/ FreeNull(t)
      BY <1>0, <3>4 DEF CallFree, FreeLook, FreeWake, FreeNull, CInv
    <3> QED BY <1>3, <3>1, <3>2, <3>3, <3>4 DEF Release
  <2>6. PICK label \in freeingLabels : Steers(t, label)
    BY <2>1
  <2>7. pc[t] \notin Pushing \cup InRound /\ label \notin Pushing \cup InRound
    BY <2>2 DEF Pushing, InRound, Rounds
  <2> QED BY <2>3, <2>4, <2>5, <2>6, <2>7, IdleCalls
<1> QED BY <1>1, <1>2, <1>3

LEMMA InitBase == Roomy /\ Init => Base
<1> SUFFICES ASSUME Roomy, Init PROVE Base
  OBVIOUS
<1>1. CInv
  BY DEF Init, CInv, CallOK, Entering, Pushing, Rounds
<1> QED BY <1>1, InitHInv, InitIInv DEF Base

LEMMA NextCInv == Base /\ [Next]_vars => CInv'
<1> SUFFICES ASSUME Base, [Next]_vars PROVE CInv'
  OBVIOUS
<1>1. CASE UNCHANGED vars
  BY <1>1 DEF vars, ring, locks, refs, local, Base, CInv, CallOK, drained, used, make_snapshot
<1>2. ASSUME ~failed, NEW t \in Producers, ProducerCalls(t) \/ Push(t) \/ PushLock(t)
      PROVE  CInv'
  BY <1>2, PushCalls, OtherCalls DEF ProducerCalls, Threads
<1>3. ASSUME ~failed, NEW t \in Consumers, ConsumerCalls(t) \/ Pop(t) \/ PopLock(t) \/ PopTrimEnd(t)
      PROVE  CInv'
  BY <1>3, PopCalls, OtherCalls DEF ConsumerCalls, Threads
<1>4. ASSUME ~failed, NEW t \in Threads, CallFree(t) \/ Release(t) \/ SpuriousWake(t)
      PROVE  CInv'
  BY <1>4, OtherCalls
<1> QED BY <1>1, <1>2, <1>3, <1>4 DEF Next

LEMMA NextBase == Base /\ [Next]_vars => Base'
  BY NextHInv, NextIInv, NextCInv DEF Base

LEMMA BaseHolds == Roomy => (Spec => []Base)
<1> SUFFICES ASSUME Roomy PROVE Spec => []Base
  OBVIOUS
<1>1. Init => Base
  BY InitBase
<1> QED BY <1>1, NextBase, PTL DEF Spec

(* No assertion of pipe.c fails on a pipe without a limit: check_invariants*)
(* holds wherever it is called, every push and pop moves something, and no *)
(* count is dropped below zero.                                            *)
THEOREM AssertionsHold == Limit = 0 => (Spec => []NoAbort)
<1> SUFFICES ASSUME Limit = 0 PROVE Spec => []NoAbort
  OBVIOUS
<1>1. Base => NoAbort
  BY DEF Base, CInv, NoAbort
<1>2. Roomy
  BY DEF Roomy
<1> QED BY <1>1, <1>2, BaseHolds, PTL

(* A pop that came back short means that the pipe is drained and that      *)
(* nobody can push any more, then and for good.                            *)
THEOREM ShortIsClosed == Roomy => (Spec => []ShortMeansClosed)
<1>1. Base => ShortMeansClosed
  <2> SUFFICES ASSUME Base, NEW t \in Consumers, pc[t] \in {"idle", "gone"}, bytes_left[t] > 0
               PROVE  producer_refcount = 0 /\ used = 0
    BY DEF ShortMeansClosed
  <2>1. CallOK(t) /\ bytes_left[t] # 0
    BY DEF Base, CInv, IInv, LocalOK, Threads
  <2> QED BY <2>1 DEF CallOK, InRound, Rounds, drained
<1> QED BY <1>1, BaseHolds, PTL

-----------------------------------------------------------------------------
(* The contents of the pipe, as a sequence.                                *)
LEMMA ContentsAre ==
  ASSUME NEW s \in Rings, NEW S, NEW c \in [0 .. s.bufend - 1 -> S]
  PROVE  /\ contents(c, s) \in Seq(S) /\ Len(contents(c, s)) = bytes_in_use(s)
         /\ \A i \in 1 .. bytes_in_use(s) :
              contents(c, s)[i] = c[wrap_ptr_if_necessary(s.begin + i, s.bufend)]
<1>1. bytes_in_use(s) \in Nat /\ bytes_in_use(s) < s.bufend
  BY UseBounds DEF Rings, capacity
<1>2. \A i \in 1 .. bytes_in_use(s) :
        wrap_ptr_if_necessary(s.begin + i, s.bufend) \in 0 .. s.bufend - 1
  BY <1>1 DEF Rings, wrap_ptr_if_necessary
<1> QED BY <1>1, <1>2 DEF contents

(* Past the last element comes the end pointer.                            *)
LEMMA EndFollows ==
  ASSUME NEW s \in Rings, NEW i \in Nat \ {0}, bytes_in_use(s) + i <= capacity(s)
  PROVE  wrap_ptr_if_necessary(s.begin + (bytes_in_use(s) + i), s.bufend)
           = wrap_ptr_if_necessary(s.end + i - 1, s.bufend)
  BY DEF Rings, bytes_in_use, capacity, wraps_around, wrap_ptr_if_necessary

(* After popping n elements the next one is the (n+1)-st.                  *)
LEMMA BeginFollows ==
  ASSUME NEW s \in Rings, NEW n \in 0 .. bytes_in_use(s), NEW i \in Nat, n + i < s.bufend
  PROVE  wrap_ptr_if_necessary(pop_begin(s, n) + i, s.bufend)
           = wrap_ptr_if_necessary(s.begin + (n + i), s.bufend)
<1>0. n \in Nat /\ n <= s.bufend - 1
  BY UseBounds DEF Rings, capacity
<1>1. pop_begin(s, n) = IF s.begin + n >= s.bufend THEN s.begin + n - s.bufend ELSE s.begin + n
  BY <1>0 DEF Rings, pop_begin, first_bytes, min, wrap_ptr_if_necessary,
              rev_wrap_ptr_if_necessary
<1> QED BY <1>0, <1>1 DEF Rings, wrap_ptr_if_necessary

-----------------------------------------------------------------------------
(* Types.  That a snapshot is a ring is what its copies rely on.           *)
Memory == Elements \cup {Junk}

TInv ==
  /\ cells \in [0 .. bufend - 1 -> Memory]
  /\ snap \in [Threads -> Rings]
  /\ moved \in [Threads -> Nat] /\ size \in [Threads -> Nat]
  /\ target \in [Threads -> Seq(Memory)]
  /\ {allocated, deallocated, failed} \subseteq BOOLEAN
  /\ {begin_lock, end_lock} \subseteq Threads \cup {Free}

LEMMA PushType ==
  ASSUME NEW s \in Rings, NEW es \in Seq(Elements), NEW D, NEW c \in [D -> Memory]
  PROVE  push_cells(c, s, es) \in [D -> Memory]
<1>1. ASSUME NEW dest \in Int, NEW b \in [D -> Memory], NEW q \in Seq(Elements)
      PROVE  memcpy(b, dest, q) \in [D -> Memory]
  <2>1. \A a \in dest .. (dest + Len(q) - 1) : a - dest + 1 \in 1 .. Len(q)
    OBVIOUS
  <2> QED BY <2>1 DEF memcpy, Memory
<1> DEFINE k == at_end(s, Len(es))
<1>2. k \in 0 .. Len(es) /\ Len(es) \in Nat
  BY DEF at_end, min, Rings
<1>3. s.end \in Int /\ wrap_ptr_if_necessary(s.end + k, s.bufend) \in Int
  BY <1>2 DEF Rings, wrap_ptr_if_necessary
<1> HIDE DEF k
<1>4. SubSeq(es, 1, k) \in Seq(Elements) /\ SubSeq(es, k + 1, Len(es)) \in Seq(Elements)
  BY <1>2
<1> QED BY <1>1, <1>3, <1>4 DEF push_cells, k

LEMMA ResizeTypes ==
  ASSUME Base, TInv, NEW t \in Threads, NEW n \in Nat, NEW label,
         resize_buffer(t, n, label)
  PROVE  /\ cells' \in [0 .. bufend' - 1 -> Memory] /\ failed' \in BOOLEAN
         /\ ~(n > DEFAULT_MINCAP) => UNCHANGED <<cells, bufend, begin, end>>
         /\ n > DEFAULT_MINCAP =>
              /\ bufend' = new_size(n) + 1 /\ begin' = 0 /\ end' = used + 1
              /\ \A i \in 0 .. used : i <= new_size(n) =>
                   cells'[i] = cells[wrap_ptr_if_necessary(begin + i, bufend)]
<1> DEFINE m == new_size(n)
<1>1. m \in Nat /\ (resizes(n) <=> n > DEFAULT_MINCAP)
  BY NewSizes DEF Base
<1>2. RingOK /\ make_snapshot \in Rings
  BY CurrentRing DEF Base, IInv
<1>3. used \in Nat /\ used < bufend
  BY <1>2, UseBounds DEF used, RingOK, make_snapshot, capacity
<1>4. failed' \in BOOLEAN
  BY DEF resize_buffer, assertume
<1>5. CASE ~(n > DEFAULT_MINCAP)
  BY <1>1, <1>4, <1>5 DEF resize_buffer, TInv
<1>6. CASE n > DEFAULT_MINCAP
  <2>1. /\ cells' = copied(cells, make_snapshot, n, Junk)
        /\ bufend' = m + 1 /\ begin' = 0 /\ end' = used + 1
    BY <1>1, <1>6 DEF resize_buffer
  <2>2. \A a \in 0 .. used : wrap_ptr_if_necessary(begin + a, bufend) \in 0 .. bufend - 1
    BY <1>2, <1>3 DEF RingOK, wrap_ptr_if_necessary
  <2>3. cells' = [a \in 0 .. m |-> IF a <= used THEN cells[wrap_ptr_if_necessary(begin + a, bufend)]
                                   ELSE Junk]
    BY <2>1 DEF copied, used, make_snapshot
  <2> HIDE DEF m
  <2>4. cells' \in [0 .. m -> Memory]
    BY <1>1, <1>3, <2>2, <2>3 DEF TInv, Memory
  <2>5. bufend' - 1 = m
    BY <1>1, <2>1
  <2> QED BY <1>1, <1>3, <1>4, <1>6, <2>1, <2>3, <2>4, <2>5 DEF m
<1> QED BY <1>5, <1>6

LEMMA TypesKept ==
  ASSUME TInv, NEW t \in Threads, cells' \in [0 .. bufend' - 1 -> Memory],
         snap' = snap \/ \E v \in Rings : snap' = [snap EXCEPT ![t] = v],
         moved' = moved \/ \E v \in Nat : moved' = [moved EXCEPT ![t] = v],
         size' = size \/ \E v \in Nat : size' = [size EXCEPT ![t] = v],
         target' = target \/ \E v \in Seq(Memory) : target' = [target EXCEPT ![t] = v],
         allocated' \in {allocated, FALSE}, deallocated' \in {deallocated, TRUE},
         failed' \in BOOLEAN,
         begin_lock' \in {begin_lock, t, Free}, end_lock' \in {end_lock, t, Free}
  PROVE  TInv'
<1>1. snap' \in [Threads -> Rings] /\ target' \in [Threads -> Seq(Memory)]
  BY Zenon DEF TInv
<1>2. moved' \in [Threads -> Nat] /\ size' \in [Threads -> Nat]
  BY Zenon DEF TInv
<1>3. {allocated', deallocated', failed'} \subseteq BOOLEAN
  BY Zenon DEF TInv
<1>4. {begin_lock', end_lock'} \subseteq Threads \cup {Free}
  BY DEF TInv
<1> QED BY <1>1, <1>2, <1>3, <1>4 DEF TInv

LEMMA RingTypes ==
  ASSUME RingOK
  PROVE  make_snapshot \in Rings /\ NoSnapshot \in Rings
  BY CurrentRing DEF NoSnapshot, Rings

LEMMA RingNow == RingOK => make_snapshot \in Rings
  BY CurrentRing

LEMMA RingNext == RingOK' => make_snapshot' \in Rings
<1>1. RingOK' => (make_snapshot \in Rings)'
  BY RingNow, PTL
<1> QED BY <1>1

LEMMA PushTypes ==
  ASSUME Base, Base', TInv, NEW t \in Threads,
         Push(t) \/ PushLock(t) \/ \E es \in Batches : CallPush(t, es)
  PROVE  TInv'
<1>0. RingOK /\ RingOK' /\ LocalOK /\ make_snapshot \in Rings /\ NoSnapshot \in Rings
      /\ failed \in BOOLEAN /\ cells \in [0 .. bufend - 1 -> Memory]
      /\ elems[t] \in Seq(Elements) /\ snap[t] \in Rings
  BY RingTypes DEF Base, IInv, TInv, LocalOK
<1>1. pushing(t) \/ pc[t] = "push_late" => pushed(t) \in Nat /\ batch(t) \in Seq(Elements)
  BY PushedBounds DEF Base, IInv, ThreadOK
<1> USE DEF ring, locks, refs, local
<1>2. ASSUME NEW es \in Batches, CallPush(t, es)
      PROVE  TInv'
  BY <1>0, <1>2, TypesKept DEF CallPush
<1>3. CASE PushLock(t)
  BY <1>0, <1>3, TypesKept DEF PushLock
<1>4. CASE PushSleep(t)
  BY <1>0, <1>4, TypesKept DEF PushSleep
<1>5. CASE PushRoom(t)
  <2>1. \E v \in Rings : snap' = [snap EXCEPT ![t] = v]
    BY <1>0, <1>5 DEF PushRoom
  <2> QED BY <1>0, <1>5, <2>1, TypesKept DEF PushRoom
<1>6. CASE PushUpgrade(t)
  <2>1. \E v \in Rings : snap' = [snap EXCEPT ![t] = v]
    <3>1. refreshed(t) = make_snapshot'
      BY DEF refreshed, make_snapshot
    <3>2. make_snapshot' \in Rings
      BY <1>0, RingNext
    <3>3. snap' = [snap EXCEPT ![t] = refreshed(t)]
      BY <1>6 DEF PushUpgrade
    <3> QED BY <3>1, <3>2, <3>3
  <2>2. cells' \in [0 .. bufend' - 1 -> Memory] /\ failed' \in BOOLEAN
    <3>1. CASE needed(t) > capacity(snap[t])
      <4> DEFINE n == next_pow2(needed(t) + 1)
      <4>2. n \in Nat
        BY <1>6, UpgradeFits
      <4>3. resize_buffer(t, n, "push_copy")
        BY <1>6, <3>1 DEF PushUpgrade
      <4> HIDE DEF n
      <4> QED BY <4>2, <4>3, ResizeTypes
    <3>2. CASE ~(needed(t) > capacity(snap[t]))
      BY <1>0, <1>6, <3>2 DEF PushUpgrade
    <3> QED BY <3>1, <3>2
  <2>3. UNCHANGED <<moved, size, target, allocated, deallocated, begin_lock, end_lock>>
    BY <1>6 DEF PushUpgrade
  <2> QED BY <1>0, <2>1, <2>2, <2>3, TypesKept
<1>7. CASE PushCopy(t)
  <2>1. cells' \in [0 .. bufend' - 1 -> Memory] /\ failed' \in BOOLEAN
    BY <1>0, <1>1, <1>7, PushType DEF PushCopy, assertume, pushing
  <2> QED BY <1>0, <1>7, <2>1, TypesKept DEF PushCopy
<1>8. CASE PushPublishEarly(t)
  <2>1. cells' \in [0 .. bufend' - 1 -> Memory] /\ failed' \in BOOLEAN
    BY <1>0, <1>8 DEF PushPublishEarly, assertume
  <2> QED BY <1>0, <1>8, <2>1, TypesKept DEF PushPublishEarly
<1>9. CASE PushPublish(t) \/ PushCopyLate(t)
  <2>1. cells' \in [0 .. bufend' - 1 -> Memory]
    <3>1. CASE PushPublish(t)
      BY <1>0, <3>1 DEF PushPublish
    <3>2. CASE PushCopyLate(t)
      <4>1. push_cells(cells, snap[t], batch(t)) \in [0 .. bufend - 1 -> Memory]
        BY <1>0, <1>1, <3>2, PushType DEF PushCopyLate
      <4> QED BY <3>2, <4>1 DEF PushCopyLate
    <3> QED BY <1>9, <3>1, <3>2
  <2>2. /\ \E v \in Nat : moved' = [moved EXCEPT ![t] = v]
        /\ \E v \in Rings : snap' = [snap EXCEPT ![t] = v]
        /\ end_lock' = Free /\ failed' = failed
        /\ UNCHANGED <<size, target, allocated, deallocated, begin_lock>>
    BY <1>0, <1>1, <1>9 DEF PushPublish, PushCopyLate, Pushed, pushing
  <2> QED BY <1>0, <2>1, <2>2, TypesKept
<1>10. CASE PushSignal(t)
  BY <1>0, <1>10, TypesKept DEF PushSignal
<1> QED BY <1>2, <1>3, <1>4, <1>5, <1>6, <1>7, <1>8, <1>9, <1>10 DEF Push

LEMMA PopTypes ==
  ASSUME Base, TInv, NEW t \in Threads,
         Pop(t) \/ PopLock(t) \/ PopTrimEnd(t) \/ SizeBegin(t) \/ \E n \in 1 .. MaxPop : CallPop(t, n)
  PROVE  TInv'
<1>0. RingOK /\ LocalOK /\ make_snapshot \in Rings /\ NoSnapshot \in Rings
      /\ failed \in BOOLEAN /\ cells \in [0 .. bufend - 1 -> Memory]
      /\ bytes_left[t] \in Nat /\ snap[t] \in Rings /\ target[t] \in Seq(Memory)
      /\ used \in Nat /\ bufend \in Nat
  <2>1. RingOK /\ LocalOK /\ make_snapshot \in Rings /\ NoSnapshot \in Rings
    BY RingTypes DEF Base, IInv
  <2>2. used \in Nat
    BY <2>1, UseBounds DEF used, Rings, capacity
  <2> QED BY <2>1, <2>2 DEF TInv, LocalOK, RingOK
<1> USE DEF ring, locks, refs, local
<1>1. ASSUME NEW n \in 1 .. MaxPop, CallPop(t, n)
      PROVE  TInv'
  <2>1. <<>> \in Seq(Memory)
    OBVIOUS
  <2> QED BY <1>0, <1>1, <2>1, TypesKept DEF CallPop
<1>2. CASE PopLock(t) \/ PopSleep(t) \/ PopTrimEnd(t) \/ SizeBegin(t)
  BY <1>0, <1>2, TypesKept DEF PopLock, PopSleep, PopTrimEnd, SizeBegin
<1>3. CASE PopLook(t)
  BY <1>0, <1>3, TypesKept DEF PopLook
<1>4. CASE PopCopy(t)
  <2> DEFINE s == snap[t]
             n == min(bytes_left[t], bytes_in_use(s))
  <2>1. pc[t] = "pop_copy" /\ s.bufend = bufend /\ n \in 0 .. bytes_in_use(s)
    <3>1. pc[t] = "pop_copy" /\ s.bufend = bufend
      BY <1>4 DEF PopCopy, Base, IInv, ThreadOK, sound
    <3>2. bytes_in_use(s) \in Nat
      BY <1>0, UseBounds DEF Rings, capacity
    <3> QED BY <1>0, <3>1, <3>2 DEF min
  <2>2. n \in Nat
    BY <1>0, <2>1, UseBounds DEF Rings, capacity
  <2>3. pop_elems(cells, s, n) \in Seq(Memory)
    <3>1. s \in Rings /\ cells \in [0 .. s.bufend - 1 -> Memory]
      BY <1>0, <2>1
    <3> HIDE DEF n, s
    <3>2. pop_elems(cells, s, n) = Popped(s, cells, n) /\ Popped(s, cells, n) \in Seq(Memory)
      BY <2>1, <3>1, PopTakes
    <3> QED BY <3>2
  <2>4. \E v \in Seq(Memory) : target' = [target EXCEPT ![t] = v]
    <3>1. target' = [target EXCEPT ![t] = @ \o pop_elems(cells, s, n)]
      BY <1>4 DEF PopCopy
    <3>2. target[t] \o pop_elems(cells, s, n) \in Seq(Memory)
      BY <1>0, <2>3
    <3> QED BY <3>1, <3>2
  <2>5. /\ moved' = [moved EXCEPT ![t] = n] /\ snap' = [snap EXCEPT ![t] = NoSnapshot]
        /\ begin_lock' = Free /\ failed' \in BOOLEAN
        /\ UNCHANGED <<cells, bufend, size, allocated, deallocated, end_lock>>
    BY <1>4 DEF PopCopy, assertume
  <2> HIDE DEF n
  <2> QED BY <1>0, <2>2, <2>4, <2>5, TypesKept
<1>5. CASE PopTrim(t)
  <2>1. cells' \in [0 .. bufend' - 1 -> Memory] /\ failed' \in BOOLEAN
    <3>1. CASE trims
      <4>1. capacity(make_snapshot) \div 2 \in Nat
        BY <1>0, SizesAssumption DEF capacity, make_snapshot, RingOK
      <4>2. resize_buffer(t, capacity(make_snapshot) \div 2, "pop_signal")
        BY <1>5, <3>1 DEF PopTrim
      <4> QED BY <4>1, <4>2, ResizeTypes
    <3>2. CASE ~trims
      BY <1>0, <1>5, <3>2 DEF PopTrim
    <3> QED BY <3>1, <3>2
  <2>2. UNCHANGED <<snap, moved, size, target, allocated, deallocated, begin_lock>> /\ end_lock' = Free
    BY <1>5 DEF PopTrim
  <2> QED BY <1>0, <2>1, <2>2, TypesKept
<1>6. CASE PopSignal(t)
  BY <1>0, <1>6, TypesKept DEF PopSignal
<1>7. CASE SizeEnd(t)
  <2>1. \E v \in Nat : size' = [size EXCEPT ![t] = v]
    BY <1>0, <1>7, BoundsAssumption DEF SizeEnd
  <2> QED BY <1>0, <1>7, <2>1, TypesKept DEF SizeEnd
<1> QED BY <1>1, <1>2, <1>3, <1>4, <1>5, <1>6, <1>7 DEF Pop

LEMMA OtherTypes ==
  ASSUME Base, TInv, NEW t \in Threads,
         ProducerNew(t) \/ ConsumerNew(t) \/ CallFree(t) \/ Release(t) \/ SpuriousWake(t)
  PROVE  TInv'
<1>0. /\ failed \in BOOLEAN /\ cells \in [0 .. bufend - 1 -> Memory]
      /\ producer_refcount \in Nat
  BY CountsAreNat DEF Base, TInv
<1> USE DEF ring, locks, refs, local
<1>1. CASE ProducerNew(t) \/ ConsumerNew(t) \/ CallFree(t) \/ SpuriousWake(t)
  BY <1>0, <1>1, TypesKept DEF ProducerNew, ConsumerNew, CallFree, SpuriousWake
<1>2. CASE FreeProducer(t)
  <2>1. producer_refcount - 1 \in Nat /\ failed' \in BOOLEAN
    BY <1>0, <1>2, HandlesCount DEF FreeProducer, Base, assertume
  <2> QED BY <1>0, <1>2, <2>1, TypesKept DEF FreeProducer
<1>3. CASE FreeConsumer(t) \/ FreeLast(t)
  <2>1. failed' \in BOOLEAN
    BY <1>3 DEF FreeConsumer, FreeLast, assertume
  <2> QED BY <1>0, <1>3, <2>1, TypesKept DEF FreeConsumer, FreeLast
<1>4. CASE FreeLook(t) \/ FreeWake(t) \/ FreeNull(t)
  BY <1>0, <1>4, TypesKept DEF FreeLook, FreeWake, FreeNull
<1> QED BY <1>1, <1>2, <1>3, <1>4 DEF Release

LEMMA InitTInv == Init => TInv
<1> SUFFICES ASSUME Init PROVE TInv
  OBVIOUS
<1>1. NoSnapshot \in Rings /\ <<>> \in Seq(Memory)
  BY DEF NoSnapshot, Rings
<1> QED BY <1>1 DEF Init, TInv, Memory

LEMMA NextTInv == Base /\ Base' /\ TInv /\ [Next]_vars => TInv'
<1> SUFFICES ASSUME Base, Base', TInv, [Next]_vars PROVE TInv'
  OBVIOUS
<1>1. CASE UNCHANGED vars
  BY <1>1 DEF vars, ring, locks, refs, local, TInv
<1>2. ASSUME NEW t \in Producers, ProducerCalls(t) \/ Push(t) \/ PushLock(t)
      PROVE  TInv'
  BY <1>2, PushTypes, OtherTypes DEF ProducerCalls, Threads
<1>3. ASSUME NEW t \in Consumers, ConsumerCalls(t) \/ Pop(t) \/ PopLock(t) \/ PopTrimEnd(t)
      PROVE  TInv'
  BY <1>3, PopTypes, OtherTypes DEF ConsumerCalls, Threads
<1>4. ASSUME NEW t \in Threads, CallFree(t) \/ Release(t) \/ SpuriousWake(t)
      PROVE  TInv'
  BY <1>4, OtherTypes
<1> QED BY <1>1, <1>2, <1>3, <1>4 DEF Next

(* Types: the pointers stay inside the buffer and every address that is    *)
(* ever read or written is one of its cells.                               *)
THEOREM TypesHold == Roomy => (Spec => []TypeOK)
<1> SUFFICES ASSUME Roomy PROVE Spec => []TypeOK
  OBVIOUS
<1>1. Init => Base /\ TInv
  BY InitBase, InitTInv
<1>2. Base /\ TInv /\ [Next]_vars => (Base /\ TInv)'
  BY NextBase, NextTInv
<1>3. Base /\ TInv => TypeOK
  <2> SUFFICES ASSUME Base, TInv PROVE TypeOK
    OBVIOUS
  <2>1. Rings \subseteq Snapshots
    BY DEF Rings, Snapshots
  <2>2. snap \in [Threads -> Snapshots]
    BY <2>1 DEF TInv
  <2>3. producer_refcount \in Nat /\ consumer_refcount \in Nat
    BY CountsAreNat DEF Base
  <2> QED BY <2>2, <2>3 DEF TypeOK, TInv, Base, IInv, RingOK, LocalOK, Memory
<1> QED BY <1>1, <1>2, <1>3, PTL DEF Spec

-----------------------------------------------------------------------------
(* The elements in the pipe, first to be popped first: IsFifo's queue.     *)
content == contents(cells, make_snapshot)

Holds(c, B, b, n, q) ==
  /\ q \in Seq(Memory) /\ Len(q) = n
  /\ \A i \in 1 .. n : q[i] = c[wrap_ptr_if_necessary(b + i, B)]

ContentHeld == Holds(cells, bufend, begin, used, content)

LEMMA ContentNow == Base /\ TInv => ContentHeld
<1> SUFFICES ASSUME Base, TInv PROVE ContentHeld
  OBVIOUS
<1>1. make_snapshot \in Rings /\ cells \in [0 .. bufend - 1 -> Memory]
  BY CurrentRing DEF Base, IInv, TInv
<1>2. cells \in [0 .. make_snapshot.bufend - 1 -> Memory]
  BY <1>1 DEF make_snapshot
<1>3. /\ content \in Seq(Memory) /\ Len(content) = bytes_in_use(make_snapshot)
      /\ \A i \in 1 .. bytes_in_use(make_snapshot) :
           content[i] = cells[wrap_ptr_if_necessary(make_snapshot.begin + i, make_snapshot.bufend)]
  BY <1>1, <1>2, ContentsAre DEF content
<1>4. make_snapshot.begin = begin /\ make_snapshot.bufend = bufend
  BY DEF make_snapshot
<1> QED BY <1>3, <1>4 DEF ContentHeld, Holds, used

LEMMA ContentNext == Base' /\ TInv' => ContentHeld'
  BY ContentNow, PTL

(* The numbers every step rests on.                                        *)
LEMMA Numbers ==
  ASSUME Base
  PROVE  /\ used \in Nat /\ used < bufend /\ bufend \in Nat
         /\ begin \in 0 .. bufend - 1 /\ end \in 0 .. bufend - 1
         /\ make_snapshot \in Rings
<1>1. RingOK /\ make_snapshot \in Rings
  BY CurrentRing DEF Base, IInv
<1> QED BY <1>1, UseBounds DEF used, RingOK, make_snapshot, capacity

LEMMA FitsNow == Base => used < bufend
  BY Numbers

LEMMA FitsNext == Base' => used' < bufend'
<1>1. Base' => (used < bufend)'
  BY FitsNow, PTL
<1> QED BY <1>1

LEMMA SameSeq ==
  ASSUME NEW S, NEW p \in Seq(S), NEW q \in Seq(S), Len(p) = Len(q),
         \A i \in 1 .. Len(p) : p[i] = q[i]
  PROVE  p = q
<1>1. p = [i \in 1 .. Len(p) |-> p[i]] /\ q = [i \in 1 .. Len(q) |-> q[i]]
  BY SeqIsFunction
<1> QED BY <1>1

LEMMA Appended ==
  ASSUME NEW S, NEW p \in Seq(S), NEW q \in Seq(S)
  PROVE  /\ p \o q \in Seq(S) /\ Len(p \o q) = Len(p) + Len(q)
         /\ \A i \in 1 .. Len(p) + Len(q) :
              (p \o q)[i] = IF i <= Len(p) THEN p[i] ELSE q[i - Len(p)]
  OBVIOUS

(* What a pusher has copied and not published yet is still where it put it.*)
CopiedOK(t) ==
  pc[t] = "push_publish" =>
    \A i \in 1 .. pushed(t) : cells[wrap_ptr_if_necessary(end + i - 1, bufend)] = elems[t][i]

DInv == (\A t \in Threads : pc[t] # "push_late" /\ CopiedOK(t))

LEMMA CopiesKept ==
  ASSUME Base, DInv, NEW t \in Threads, NEW label, Steers(t, label), label # "push_late",
         \A u \in Threads \ {t} : elems'[u] = elems[u] /\ snap'[u] = snap[u],
         end_lock = t \/ UNCHANGED <<cells, bufend, end>>, CopiedOK(t)'
  PROVE  DInv'
<1>1. ASSUME NEW u \in Threads \ {t} PROVE pc'[u] # "push_late" /\ CopiedOK(u)'
  <2>1. pc[u] # "push_late" /\ CopiedOK(u)
    BY DEF DInv
  <2>2. pc'[u] = pc[u] \/ pc'[u] \in {"size_torn", "pop_lock", "push_lock"}
    BY DEF Steers, Nudges
  <2>3. end_lock = t => pc[u] # "push_publish"
    BY KeptOut DEF Base, AtEnd
  <2> QED BY <2>1, <2>2, <2>3 DEF CopiedOK, pushed
<1> QED BY <1>1 DEF DInv, Steers

(* process_push's copies stay clear of what is in the pipe.                *)
LEMMA CopyKeeps ==
  ASSUME Base, TInv, Base', TInv', NEW t \in Threads, PushCopy(t)
  PROVE  content' = content /\ CopiedOK(t)'
<1> DEFINE es == batch(t)
           n == pushed(t)
<1>1. /\ pc[t] = "push_copy" /\ snap[t] \in Rings /\ elems[t] \in Seq(Elements)
      /\ snap[t].bufend = bufend /\ snap[t].end = end /\ fits(snap[t], n)
  BY DEF Base, IInv, LocalOK, TInv, ThreadOK, sound, pushing, fitting, PushCopy
<1>2. es \in Seq(Elements) /\ Len(es) = n /\ n \in 0 .. Len(elems[t]) /\ n \in Nat
  BY <1>1, PushedBounds DEF Base, IInv, ThreadOK, pushing
<1>3. UNCHANGED <<bufend, begin, end, elems, snap>> /\ cells' = push_cells(cells, snap[t], es)
  BY DEF PushCopy, local
<1>4. PutsAll(bufend, end, n, cells, cells', es)
  <2>1. DOMAIN cells = 0 .. snap[t].bufend - 1
    BY <1>1 DEF TInv
  <2> HIDE DEF es, n
  <2> QED BY <1>1, <1>2, <1>3, <2>1, PushPuts
<1>5. used' = used /\ used \in Nat /\ begin \in 0 .. bufend - 1 /\ bufend \in Nat /\ used < bufend
  BY <1>3, Numbers DEF used, make_snapshot
<1>6. ASSUME NEW i \in 1 .. used
      PROVE  cells'[wrap_ptr_if_necessary(begin + i, bufend)]
               = cells[wrap_ptr_if_necessary(begin + i, bufend)]
  <2> DEFINE a == wrap_ptr_if_necessary(begin + i, bufend)
  <2>1. a \in 0 .. bufend - 1
    BY <1>5 DEF wrap_ptr_if_necessary
  <2>2. a \in live
    BY <1>5 DEF live
  <2>3. NoOverlap
    BY CopiesAside DEF Base
  <2> HIDE DEF a
  <2>4. ASSUME NEW j \in 1 .. n PROVE a # wrap_ptr_if_necessary(end + j - 1, bufend)
    <3>1. j - 1 \in 0 .. Len(es) - 1 /\ end + (j - 1) = end + j - 1
      <4> HIDE DEF es, n
      <4> QED BY <1>2, Numbers
    <3> QED BY <1>1, <2>2, <2>3, <3>1 DEF NoOverlap
  <2> QED BY <1>4, <2>1, <2>4 DEF PutsAll, a
<1>7. ContentHeld /\ ContentHeld'
  BY ContentNow, ContentNext
<1>8. content' = content
  <2>1. /\ content \in Seq(Memory) /\ content' \in Seq(Memory)
        /\ Len(content) = used /\ Len(content') = used
    BY <1>5, <1>7 DEF ContentHeld, Holds
  <2>2. \A i \in 1 .. used : content'[i] = content[i]
    BY <1>3, <1>5, <1>6, <1>7 DEF ContentHeld, Holds
  <2> QED BY <2>1, <2>2, SameSeq
<1>9. CopiedOK(t)'
  <2>1. \A i \in 1 .. n : es[i] = elems[t][i]
    BY <1>1, <1>2 DEF batch
  <2>2. pushed(t)' = n
    BY <1>3 DEF pushed
  <2> HIDE DEF es, n
  <2> QED BY <1>3, <1>4, <2>1, <2>2 DEF CopiedOK, PutsAll
<1> QED BY <1>8, <1>9

(* Publishing them adds them to the end of the queue.                      *)
LEMMA PublishAdds ==
  ASSUME Base, TInv, DInv, Base', TInv', NEW t \in Threads, PushPublish(t)
  PROVE  content' = content \o batch(t) /\ pushed(t) \in 1 .. Len(elems[t])
<1> DEFINE es == batch(t)
           n == pushed(t)
<1>0. /\ Roomy /\ RingOK /\ LocalOK /\ sound(t) /\ pushing(t) /\ fitting(t)
      /\ pc[t] = "push_publish" /\ CopiedOK(t) /\ elems[t] \in Seq(Elements) /\ elems[t] # <<>>
  BY DEF Base, IInv, CInv, LocalOK, ThreadOK, pushing, PushPublish, DInv, CallOK, Entering,
         Pushing
<1>1. /\ n \in 0 .. Len(elems[t]) /\ n \in Nat /\ n # 0
      /\ es \in Seq(Elements) /\ Len(es) = n /\ \A i \in 1 .. n : es[i] = elems[t][i]
  <2>1. /\ n \in 0 .. Len(elems[t]) /\ n \in Nat /\ n # 0 /\ es \in Seq(Elements) /\ Len(es) = n
    BY <1>0, PushedBounds
  <2> QED BY <1>0, <2>1 DEF batch
<1>2. UNCHANGED <<cells, bufend, begin>> /\ end' = push_end(snap[t], n)
  BY DEF PushPublish
<1>3. used' = used + n
  BY <1>0, <1>2, PublishUse
<1>4. used \in Nat /\ bufend \in Nat /\ make_snapshot \in Rings /\ capacity(make_snapshot) = bufend - 1
  BY Numbers DEF capacity, make_snapshot
<1>5. used + n < bufend
  <2>1. used' < bufend'
    BY FitsNext
  <2> QED BY <1>2, <1>3, <2>1
<1>6. ContentHeld /\ ContentHeld'
  BY ContentNow, ContentNext
<1>7. \A i \in 1 .. n : cells[wrap_ptr_if_necessary(end + i - 1, bufend)] = elems[t][i]
  BY <1>0 DEF CopiedOK
<1> HIDE DEF n, es
<1>8. ASSUME NEW i \in 1 .. used
      PROVE  content'[i] = content[i]
  <2>1. i \in 1 .. used + n
    BY <1>1, <1>4
  <2> QED BY <1>2, <1>3, <1>6, <2>1 DEF ContentHeld, Holds
<1>9. ASSUME NEW i \in 1 .. n
      PROVE  content'[used + i] = es[i]
  <2>1. used + i \in 1 .. used + n /\ i \in Nat \ {0} /\ used + i <= capacity(make_snapshot)
    BY <1>1, <1>4, <1>5
  <2>2. content'[used + i] = cells[wrap_ptr_if_necessary(begin + (used + i), bufend)]
    BY <1>2, <1>3, <1>6, <2>1 DEF ContentHeld, Holds
  <2>3. wrap_ptr_if_necessary(begin + (used + i), bufend) = wrap_ptr_if_necessary(end + i - 1, bufend)
    <3>1. /\ make_snapshot.begin = begin /\ make_snapshot.end = end
          /\ make_snapshot.bufend = bufend /\ bytes_in_use(make_snapshot) = used
      BY DEF make_snapshot, used
    <3> QED BY <1>4, <2>1, <3>1, EndFollows
  <2> QED BY <1>1, <1>7, <2>2, <2>3
<1>10. content' = content \o es
  <2>1. /\ content \in Seq(Memory) /\ content' \in Seq(Memory)
        /\ Len(content) = used /\ Len(content') = used + n
    BY <1>3, <1>6 DEF ContentHeld, Holds
  <2>2. es \in Seq(Memory)
    BY <1>1 DEF Memory
  <2>3. /\ content \o es \in Seq(Memory) /\ Len(content \o es) = used + n
        /\ \A i \in 1 .. used + n : (content \o es)[i] = IF i <= used THEN content[i] ELSE es[i - used]
    <3>1. Len(es) = n
      BY <1>1
    <3> QED BY <2>1, <2>2, <3>1, Appended
  <2>4. ASSUME NEW i \in 1 .. used + n PROVE content'[i] = (content \o es)[i]
    <3>1. CASE i <= used
      <4>1. i \in 1 .. used
        BY <1>1, <1>4, <3>1
      <4>2. (content \o es)[i] = content[i]
        BY <2>3, <3>1
      <4> QED BY <1>8, <4>1, <4>2
    <3>2. CASE ~(i <= used)
      <4>1. i - used \in 1 .. n /\ used + (i - used) = i
        BY <1>1, <1>4, <3>2
      <4> QED BY <1>9, <2>3, <3>2, <4>1
    <3> QED BY <3>1, <3>2
  <2> QED BY <2>1, <2>3, <2>4, SameSeq
<1>11. n \in 1 .. Len(elems[t])
  BY <1>0, <1>1
<1> QED BY <1>10, <1>11 DEF n, es

(* Popping takes from the front of the queue.                              *)
LEMMA PopTakesFront ==
  ASSUME Base, TInv, Base', TInv', ~failed, NEW t \in Consumers, PopCopy(t)
  PROVE  \E n \in 1 .. Len(content) :
           /\ target' = [target EXCEPT ![t] = @ \o SubSeq(content, 1, n)]
           /\ content' = SubSeq(content, n + 1, Len(content))
<1> DEFINE s == snap[t]
           n == min(bytes_left[t], bytes_in_use(s))
<1>0. t \in Threads
  BY DEF Threads
<1>1. /\ RingOK /\ LocalOK /\ sound(t) /\ pc[t] = "pop_copy" /\ CallOK(t)
      /\ s \in Rings /\ s.bufend = bufend /\ s.begin = begin /\ bytes_in_use(s) <= used
      /\ cells \in [0 .. bufend - 1 -> Memory]
      /\ bytes_left[t] \in Nat /\ bytes_left[t] # 0 /\ bytes_in_use(s) # 0
  BY <1>0 DEF Base, IInv, CInv, ThreadOK, sound, PopCopy, TInv, LocalOK, CallOK, Rounds
<1>2. /\ begin' = pop_begin(s, n) /\ UNCHANGED <<cells, bufend, end>>
      /\ target' = [target EXCEPT ![t] = @ \o pop_elems(cells, s, n)]
  BY DEF PopCopy
<1>3. used \in Nat /\ used < bufend /\ bufend \in Nat /\ make_snapshot \in Rings
  BY Numbers
<1>4. n \in 1 .. bytes_in_use(s) /\ n \in 0 .. bytes_in_use(s) /\ n \in 1 .. used /\ n \in Nat
  <2>1. bytes_in_use(s) \in Nat
    <3> HIDE DEF s
    <3> QED BY <1>1, UseBounds DEF Rings, capacity
  <2> HIDE DEF s
  <2> QED BY <1>1, <1>3, <2>1 DEF min
<1> HIDE DEF n
<1>5. used' = used - n
  BY <1>0, <1>1, <1>2, <1>4, PopUse
<1> HIDE DEF s
<1>6. ContentHeld /\ ContentHeld'
  BY ContentNow, ContentNext
<1>7. content \in Seq(Memory) /\ content' \in Seq(Memory) /\ Len(content) = used
      /\ Len(content') = used - n
  BY <1>5, <1>6 DEF ContentHeld, Holds
<1>8. pop_elems(cells, s, n) = SubSeq(content, 1, n)
  <2>1. pop_elems(cells, s, n) = Popped(s, cells, n) /\ Popped(s, cells, n) \in Seq(Memory)
    <3>1. cells \in [0 .. s.bufend - 1 -> Memory]
      BY <1>1
    <3> QED BY <1>1, <1>4, <3>1, PopTakes
  <2>2. Popped(s, cells, n) = [i \in 1 .. n |-> cells[wrap_ptr_if_necessary(begin + i, bufend)]]
    BY <1>1 DEF Popped
  <2>3. SubSeq(content, 1, n) \in Seq(Memory) /\ Len(SubSeq(content, 1, n)) = n
        /\ \A i \in 1 .. n : SubSeq(content, 1, n)[i] = content[i]
    BY <1>3, <1>4, <1>7
  <2>4. \A i \in 1 .. n : content[i] = cells[wrap_ptr_if_necessary(begin + i, bufend)]
    BY <1>3, <1>4, <1>6 DEF ContentHeld, Holds
  <2>5. Len(Popped(s, cells, n)) = n
    BY <1>4, <2>2
  <2> QED BY <2>1, <2>2, <2>3, <2>4, <2>5, SameSeq
<1>9. content' = SubSeq(content, n + 1, Len(content))
  <2>1. ASSUME NEW i \in 1 .. used - n
        PROVE  content'[i] = content[n + i]
    <3>1. i \in Nat /\ n + i \in 1 .. used /\ n + i < s.bufend
      BY <1>1, <1>3, <1>4
    <3>2. content'[i] = cells[wrap_ptr_if_necessary(begin' + i, bufend)]
      BY <1>2, <1>5, <1>6, <3>1 DEF ContentHeld, Holds
    <3>3. content[n + i] = cells[wrap_ptr_if_necessary(begin + (n + i), bufend)]
      BY <1>6, <3>1 DEF ContentHeld, Holds
    <3>4. wrap_ptr_if_necessary(pop_begin(s, n) + i, s.bufend)
            = wrap_ptr_if_necessary(s.begin + (n + i), s.bufend)
      BY <1>1, <1>4, <3>1, BeginFollows
    <3> QED BY <1>1, <1>2, <3>2, <3>3, <3>4
  <2>2. /\ SubSeq(content, n + 1, used) \in Seq(Memory)
        /\ Len(SubSeq(content, n + 1, used)) = used - n
        /\ \A i \in 1 .. used - n : SubSeq(content, n + 1, used)[i] = content[n + i]
    BY <1>3, <1>4, <1>7, SMTT(30)
  <2> QED BY <1>7, <2>1, <2>2, SameSeq
<1> QED BY <1>2, <1>4, <1>7, <1>8, <1>9

(* Moving the buffer keeps what is in it.                                  *)
LEMMA ResizeKeeps ==
  ASSUME Base, TInv, Base', TInv', NEW t \in Threads, NEW n \in Nat, NEW label \in Labels,
         n > DEFAULT_MINCAP => n > used, Bounded => used < max_cap, resize_buffer(t, n, label)
  PROVE  content' = content
<1> DEFINE m == new_size(n)
<1>1. RingOK /\ LocalOK /\ Roomy
  BY DEF Base, IInv
<1>2. used' = used
  BY <1>1, Resizes
<1>3. used \in Nat /\ begin \in 0 .. bufend - 1 /\ bufend \in Nat /\ used < bufend
  BY Numbers
<1>4. ContentHeld /\ ContentHeld'
  BY ContentNow, ContentNext
<1>5. ASSUME NEW i \in 1 .. used
      PROVE  content'[i] = content[i]
  <2>1. CASE ~(n > DEFAULT_MINCAP)
    <3>1. UNCHANGED <<cells, bufend, begin, end>>
      BY <2>1, ResizeTypes
    <3> QED BY <1>2, <1>4, <3>1 DEF ContentHeld, Holds
  <2>2. CASE n > DEFAULT_MINCAP
    <3>1. /\ bufend' = m + 1 /\ begin' = 0
          /\ \A j \in 0 .. used :
               j <= m => cells'[j] = cells[wrap_ptr_if_necessary(begin + j, bufend)]
      BY <2>2, ResizeTypes
    <3>2. m \in Nat /\ m > used
      BY <1>1, <1>3, <2>2, NewSizes
    <3> HIDE DEF m
    <3>5. i \in 0 .. used /\ i <= m /\ wrap_ptr_if_necessary(0 + i, m + 1) = i
      BY <1>3, <3>2 DEF wrap_ptr_if_necessary
    <3>3. content'[i] = cells'[wrap_ptr_if_necessary(begin' + i, bufend')]
      BY <1>2, <1>4 DEF ContentHeld, Holds
    <3>4. content[i] = cells[wrap_ptr_if_necessary(begin + i, bufend)]
      BY <1>4 DEF ContentHeld, Holds
    <3> QED BY <3>1, <3>3, <3>4, <3>5
  <2> QED BY <2>1, <2>2
<1>6. /\ content \in Seq(Memory) /\ content' \in Seq(Memory)
      /\ Len(content) = used /\ Len(content') = used
  BY <1>2, <1>4 DEF ContentHeld, Holds
<1> QED BY <1>5, <1>6, SameSeq

-----------------------------------------------------------------------------
(* Every step of the pipe is a step of the queue of pipe.h, or none.       *)
Implements == Queue!Next \/ UNCHANGED Queue!vars

LEMMA Unmoved ==
  ASSUME UNCHANGED <<cells, bufend, begin, end>>
  PROVE  content' = content
  BY DEF content, make_snapshot

LEMMA Stutters ==
  ASSUME UNCHANGED <<content, elems, target>>,
         consumer_refcount' > 0 <=> consumer_refcount > 0
  PROVE  Implements
  BY DEF Implements, Queue!vars, content

LEMMA Elsewhere ==
  ASSUME Base, DInv, NEW t \in Threads, NEW label, Steers(t, label),
         label \notin {"push_late", "push_publish"},
         \A u \in Threads \ {t} : elems'[u] = elems[u] /\ snap'[u] = snap[u],
         end_lock = t \/ UNCHANGED <<cells, bufend, end>>
  PROVE  DInv'
<1>1. CopiedOK(t)'
  BY DEF CopiedOK, Steers
<1> QED BY <1>1, CopiesKept

(* A step sets the snapshot of its own thread.                             *)
LEMMA SnapsStay ==
  ASSUME LocalOK, NEW t \in Threads, snap' = snap \/ \E v : snap' = [snap EXCEPT ![t] = v]
  PROVE  \A u \in Threads \ {t} : snap'[u] = snap[u]
  BY DEF LocalOK

LEMMA PushQueues ==
  ASSUME Base, TInv, DInv, Base', TInv', ~StoresReorder, NEW t \in Producers,
         Push(t) \/ PushLock(t) \/ \E es \in Batches : CallPush(t, es)
  PROVE  Implements /\ DInv'
<1>0. /\ PcOK /\ LocalOK /\ t \in Threads /\ CallOK(t) /\ locked(t) /\ elems[t] \in Seq(Elements)
      /\ consumer_refcount \in Nat
      /\ \A u \in Threads \ {t} : snap'[u] = snap[u]
  <2>1. PcOK /\ LocalOK /\ t \in Threads /\ CallOK(t) /\ locked(t) /\ consumer_refcount \in Nat
    BY CountsAreNat DEF Base, HInv, IInv, CInv, ThreadOK, Threads
  <2>2. snap' = snap \/ \E v : snap' = [snap EXCEPT ![t] = v]
    BY DEF Push, PushLock, CallPush, PushRoom, PushSleep, PushUpgrade, PushCopy, PushPublish,
           PushPublishEarly, PushCopyLate, PushSignal, Pushed, local
  <2> QED BY <2>1, <2>2, SnapsStay DEF LocalOK
<1> USE DEF Labels
<1>1. ASSUME NEW es \in Batches, CallPush(t, es)
      PROVE  Implements /\ DInv'
  <2>1. Steers(t, "push_lock") /\ UNCHANGED <<cells, bufend, begin, end, target, consumer_refcount>>
        /\ pc[t] = "idle" /\ elems' = [elems EXCEPT ![t] = es]
    BY <1>0, <1>1, GotoSteers DEF CallPush, ring, refs
  <2>2. elems[t] = <<>> /\ elems'[t] \in Seq(Elements) /\ elems'[t] = es
    BY <1>0, <2>1, BatchesAreSeqs DEF CallOK, Pushing, LocalOK
  <2>3. Queue!Send(t)
    BY <2>1, <2>2, Unmoved DEF Queue!Send, content
  <2>4. Implements
    BY <1>0, <2>3 DEF Implements, Queue!Next
  <2> QED BY <1>0, <2>1, <2>4, Elsewhere DEF LocalOK
<1>2. CASE PushLock(t) \/ PushSleep(t) \/ PushSignal(t)
  <2>1. UNCHANGED <<cells, bufend, begin, end, elems, target, consumer_refcount>>
    BY <1>2 DEF PushLock, PushSleep, PushSignal, ring, refs, local
  <2>2. \E label \in {"push_room", "push_asleep", "idle", "push_lock"} : Steers(t, label)
    BY <1>0, <1>2, GotoSteers, WakeSteers DEF PushLock, PushSleep, PushSignal
  <2> QED BY <1>0, <2>1, <2>2, Unmoved, Stutters, Elsewhere
<1>3. CASE PushRoom(t)
  <2>1. UNCHANGED <<cells, bufend, begin, end, target, consumer_refcount>>
    BY <1>3 DEF PushRoom, ring, refs
  <2>2. CASE consumer_refcount = 0
    <3>1. Steers(t, "idle") /\ elems' = [elems EXCEPT ![t] = <<>>]
      BY <1>0, <1>3, <2>2, GotoSteers DEF PushRoom
    <3>2. Queue!Drop(t)
      BY <2>1, <2>2, <3>1, Unmoved DEF Queue!Drop, content
    <3>3. Implements
      BY <1>0, <3>2 DEF Implements, Queue!Next
    <3> QED BY <1>0, <2>1, <3>1, <3>3, Elsewhere DEF LocalOK
  <2>3. CASE consumer_refcount # 0
    <3>1. elems' = elems
      BY <1>3, <2>3 DEF PushRoom
    <3>2. \E label \in {"push_sleep", "push_upgrade", "push_copy"} : Steers(t, label)
      BY <1>0, <1>3, <2>3, GotoSteers DEF PushRoom
    <3> QED BY <1>0, <2>1, <3>1, <3>2, Unmoved, Stutters, Elsewhere
  <2> QED BY <2>2, <2>3
<1>4. CASE PushUpgrade(t)
  <2>1. UNCHANGED <<elems, target, consumer_refcount>> /\ end_lock = t
    BY <1>0, <1>4 DEF PushUpgrade, refs, locked, AtEnd
  <2>2. content' = content
    <3>1. CASE needed(t) > capacity(snap[t])
      <4> DEFINE n == next_pow2(needed(t) + 1)
      <4>2. n \in Nat /\ n > used /\ (Bounded => used < max_cap)
        BY <1>0, <1>4, UpgradeFits
      <4>3. resize_buffer(t, n, "push_copy")
        BY <1>4, <3>1 DEF PushUpgrade
      <4> HIDE DEF n
      <4> QED BY <1>0, <4>2, <4>3, ResizeKeeps
    <3>2. CASE ~(needed(t) > capacity(snap[t]))
      BY <1>4, <3>2, Unmoved DEF PushUpgrade
    <3> QED BY <3>1, <3>2
  <2>3. Steers(t, "push_copy")
    <3>1. Goto(t, "push_copy") \/ GotoTearing(t, "push_copy")
      BY <1>4 DEF PushUpgrade, resize_buffer
    <3> QED BY <1>0, <3>1, GotoSteers
  <2> QED BY <1>0, <2>1, <2>2, <2>3, Stutters, Elsewhere
<1>5. CASE PushCopy(t)
  <2>1. UNCHANGED <<elems, target, consumer_refcount>> /\ end_lock = t
    BY <1>0, <1>5 DEF PushCopy, refs, local, locked, AtEnd
  <2>2. content' = content /\ CopiedOK(t)'
    BY <1>0, <1>5, CopyKeeps
  <2>3. Steers(t, "push_publish")
    BY <1>0, <1>5, GotoSteers DEF PushCopy
  <2> QED BY <1>0, <2>1, <2>2, <2>3, Stutters, CopiesKept
<1>6. CASE PushPublish(t)
  <2>1. content' = content \o batch(t) /\ pushed(t) \in 1 .. Len(elems[t])
    BY <1>0, <1>6, PublishAdds
  <2>2. UNCHANGED <<target, consumer_refcount>> /\ elems' = [elems EXCEPT ![t] = rest(t)]
    BY <1>6 DEF PushPublish, Pushed, refs
  <2>4. Queue!Enqueue(t, pushed(t))
    BY <2>1, <2>2 DEF Queue!Enqueue, content, batch, rest
  <2>5. Implements
    BY <1>0, <2>1, <2>4 DEF Implements, Queue!Next
  <2>6. Steers(t, "push_signal") /\ end_lock = t
    BY <1>0, <1>6, GotoSteers DEF PushPublish, Pushed, locked, AtEnd
  <2> QED BY <1>0, <2>2, <2>5, <2>6, Elsewhere DEF LocalOK
<1>7. ~PushPublishEarly(t) /\ ~PushCopyLate(t)
  BY <1>0 DEF PushPublishEarly, PushCopyLate, DInv
<1> QED BY <1>1, <1>2, <1>3, <1>4, <1>5, <1>6, <1>7 DEF Push

LEMMA PopQueues ==
  ASSUME Base, TInv, DInv, Base', TInv', ~failed, NEW t \in Consumers,
         Pop(t) \/ PopLock(t) \/ PopTrimEnd(t) \/ SizeBegin(t) \/ \E n \in 1 .. MaxPop : CallPop(t, n)
  PROVE  Implements /\ DInv'
<1>0. /\ PcOK /\ LocalOK /\ t \in Threads /\ locked(t)
      /\ \A u \in Threads \ {t} : snap'[u] = snap[u]
  <2>1. PcOK /\ LocalOK /\ t \in Threads /\ locked(t)
    BY DEF Base, HInv, IInv, ThreadOK, Threads
  <2>2. snap' = snap \/ \E v : snap' = [snap EXCEPT ![t] = v]
    BY DEF Pop, PopLock, PopTrimEnd, SizeBegin, CallPop, PopLook, PopSleep, PopCopy, PopTrim,
           PopSignal, SizeEnd, local
  <2> QED BY <2>1, <2>2, SnapsStay
<1> USE DEF Labels
<1>1. ASSUME NEW n \in 1 .. MaxPop, CallPop(t, n)
      PROVE  Implements /\ DInv'
  <2>1. Steers(t, "pop_lock") /\ UNCHANGED <<cells, bufend, begin, end, elems, consumer_refcount>>
        /\ target' = [target EXCEPT ![t] = <<>>]
    BY <1>0, <1>1, GotoSteers DEF CallPop, ring, refs
  <2>2. Queue!Receive(t)
    BY <2>1, Unmoved DEF Queue!Receive, content
  <2>3. Implements
    BY <1>0, <2>2 DEF Implements, Queue!Next
  <2> QED BY <1>0, <2>1, <2>3, Elsewhere
<1>2. CASE \/ PopLock(t) \/ PopTrimEnd(t) \/ PopLook(t) \/ PopSleep(t) \/ PopSignal(t)
           \/ SizeBegin(t) \/ SizeEnd(t)
  <2>1. UNCHANGED <<cells, bufend, begin, end, elems, target, consumer_refcount>>
    BY <1>2 DEF PopLock, PopTrimEnd, PopLook, PopSleep, PopSignal, SizeBegin, SizeEnd, ring, refs,
                local
  <2>2. \E label \in Labels \ {"push_late", "push_publish"} : Steers(t, label)
    <3>1. CASE PopSignal(t)
      <4>1. \E label \in {"pop_lock", "idle"} : Steers(t, label)
        BY <1>0, <3>1, WakeSteers DEF PopSignal
      <4> QED BY <4>1
    <3>2. CASE PopLook(t)
      <4>1. \E label \in {"pop_sleep", "idle", "pop_copy"} : Steers(t, label)
        BY <1>0, <3>2, GotoSteers DEF PopLook
      <4> QED BY <4>1
    <3>3. CASE PopLock(t) \/ PopTrimEnd(t) \/ PopSleep(t) \/ SizeBegin(t) \/ SizeEnd(t)
      <4>1. \E label \in {"pop_look", "pop_trim", "pop_asleep", "size_read", "idle"} :
              Steers(t, label)
        BY <1>0, <3>3, GotoSteers DEF PopLock, PopTrimEnd, PopSleep, SizeBegin, SizeEnd
      <4> QED BY <4>1
    <3> QED BY <1>2, <3>1, <3>2, <3>3
  <2> QED BY <1>0, <2>1, <2>2, Unmoved, Stutters, Elsewhere
<1>3. CASE PopCopy(t)
  <2>1. UNCHANGED <<cells, bufend, end, elems, consumer_refcount>>
    BY <1>3 DEF PopCopy, refs
  <2>2. PICK n \in 1 .. Len(content) :
           /\ target' = [target EXCEPT ![t] = @ \o SubSeq(content, 1, n)]
           /\ content' = SubSeq(content, n + 1, Len(content))
    BY <1>3, PopTakesFront
  <2>3. Queue!Dequeue(t, n)
    BY <2>1, <2>2 DEF Queue!Dequeue, content
  <2>4. Implements
    BY <1>0, <2>3 DEF Implements, Queue!Next, content
  <2>5. \E label \in {"pop_signal", "pop_trim_end"} : Steers(t, label)
    BY <1>0, <1>3, GotoSteers DEF PopCopy
  <2> QED BY <1>0, <2>1, <2>4, <2>5, Elsewhere
<1>4. CASE PopTrim(t)
  <2>1. UNCHANGED <<elems, target, consumer_refcount>> /\ end_lock = t
    BY <1>0, <1>4 DEF PopTrim, refs, local, locked, AtEnd
  <2>2. content' = content
    <3>1. CASE trims
      <4> DEFINE n == capacity(make_snapshot) \div 2
      <4>1. n \in Nat /\ (n > DEFAULT_MINCAP => n > used) /\ (Bounded => used < max_cap)
        BY <3>1, TrimFits
      <4>2. resize_buffer(t, n, "pop_signal")
        BY <1>4, <3>1 DEF PopTrim
      <4> HIDE DEF n
      <4> QED BY <1>0, <4>1, <4>2, ResizeKeeps
    <3>2. CASE ~trims
      BY <1>4, <3>2, Unmoved DEF PopTrim
    <3> QED BY <3>1, <3>2
  <2>3. Steers(t, "pop_signal")
    <3>1. Goto(t, "pop_signal") \/ GotoTearing(t, "pop_signal")
      BY <1>4 DEF PopTrim, resize_buffer
    <3> QED BY <1>0, <3>1, GotoSteers
  <2> QED BY <1>0, <2>1, <2>2, <2>3, Stutters, Elsewhere
<1> QED BY <1>1, <1>2, <1>3, <1>4 DEF Pop

LEMMA OtherQueues ==
  ASSUME Base, DInv, NEW t \in Threads,
         ProducerNew(t) \/ ConsumerNew(t) \/ CallFree(t) \/ Release(t) \/ SpuriousWake(t)
  PROVE  Implements /\ DInv'
<1>0. PcOK /\ consumer_refcount \in Nat
  BY CountsAreNat DEF Base, HInv
<1> USE DEF Labels
<1>1. UNCHANGED <<cells, bufend, begin, end, elems, target, snap>>
  BY DEF ProducerNew, ConsumerNew, CallFree, Release, FreeProducer, FreeConsumer, FreeLook,
         FreeWake, FreeNull, FreeLast, SpuriousWake, ring, local
<1>2. \E label \in Labels \ {"push_late", "push_publish"} : Steers(t, label)
  <2>1. CASE FreeWake(t)
    <3>1. Steers(t, "gone")
      BY <1>0, <2>1, WakeSteers DEF FreeWake
    <3> QED BY <3>1
  <2>2. CASE ~FreeWake(t)
    <3>1. \E label \in {"idle", "pop_lock", "push_lock", "free_producer", "free_consumer",
                        "free_look", "free_wake", "free_null", "free_last", "gone"} :
            Steers(t, label)
      BY <1>0, <2>2, GotoSteers
         DEF ProducerNew, ConsumerNew, CallFree, Release, FreeProducer, FreeConsumer, FreeLook,
             FreeNull, FreeLast, SpuriousWake
    <3> QED BY <3>1
  <2> QED BY <2>1, <2>2
<1>3. DInv'
  BY <1>1, <1>2, Elsewhere
<1>4. CASE FreeConsumer(t)
  <2>1. consumer_refcount' = consumer_refcount - 1 /\ consumer_refcount # 0
    BY <1>4, HandlesCount DEF FreeConsumer, Base
  <2>2. CASE consumer_refcount = 1
    <3>1. ~(consumer_refcount' > 0)
      BY <2>1, <2>2
    <3>2. Queue!StopListening
      BY <1>1, <3>1, Unmoved DEF Queue!StopListening, content
    <3> QED BY <1>3, <3>2 DEF Implements, Queue!Next
  <2>3. CASE consumer_refcount # 1
    <3>1. consumer_refcount' > 0 <=> consumer_refcount > 0
      BY <1>0, <2>1, <2>3
    <3> QED BY <1>1, <1>3, <3>1, Unmoved, Stutters
  <2> QED BY <2>2, <2>3
<1>5. CASE ~FreeConsumer(t)
  <2>1. consumer_refcount' > 0 <=> consumer_refcount > 0
    <3>1. CASE ConsumerNew(t)
      <4>1. consumer_refcount # 0 /\ consumer_refcount' = consumer_refcount + 1
        BY <3>1, HandlesCount DEF ConsumerNew, Base
      <4> QED BY <1>0, <4>1
    <3>2. CASE ~ConsumerNew(t)
      BY <1>5, <3>2
         DEF ProducerNew, CallFree, Release, FreeProducer, FreeLook, FreeWake, FreeNull, FreeLast,
             SpuriousWake, refs
    <3> QED BY <3>1, <3>2
  <2> QED BY <1>1, <1>3, <2>1, Unmoved, Stutters
<1> QED BY <1>4, <1>5

(* The invariant the refinement needs.                                     *)
QInv == Base /\ TInv /\ DInv

LEMMA InitQueues == Roomy /\ Init => QInv /\ Queue!Init
<1> SUFFICES ASSUME Roomy, Init PROVE QInv /\ Queue!Init
  OBVIOUS
<1>1. Base /\ TInv
  BY InitBase, InitTInv
<1>2. DInv
  BY DEF Init, DInv, CopiedOK
<1>3. content = <<>>
  <2>1. used = 0
    BY DEF Init, used, make_snapshot, bytes_in_use, wraps_around
  <2>2. content \in Seq(Memory) /\ Len(content) = 0
    BY <1>1, <2>1, ContentNow DEF ContentHeld, Holds
  <2> QED BY <2>2
<1>4. Queue!Init
  BY <1>3 DEF Init, Queue!Init, content
<1> QED BY <1>1, <1>2, <1>4 DEF QInv

LEMMA NextQueues == ~StoresReorder /\ QInv /\ [Next]_vars => QInv' /\ Implements
<1> SUFFICES ASSUME ~StoresReorder, QInv, [Next]_vars PROVE QInv' /\ Implements
  OBVIOUS
<1>1. Base /\ TInv /\ DInv /\ Base' /\ TInv'
  BY NextBase, NextTInv DEF QInv
<1>2. Implements /\ DInv'
  <2>1. CASE UNCHANGED vars
    <3>1. UNCHANGED <<cells, bufend, begin, end, elems, target, consumer_refcount, pc, snap>>
      BY <2>1 DEF vars, ring, refs, local
    <3>2. DInv'
      BY <1>1, <3>1 DEF DInv, CopiedOK, pushed
    <3> QED BY <3>1, <3>2, Unmoved, Stutters
  <2>2. ASSUME ~failed, NEW t \in Producers, ProducerCalls(t) \/ Push(t) \/ PushLock(t)
        PROVE  Implements /\ DInv'
    BY <1>1, <2>2, PushQueues, OtherQueues DEF ProducerCalls, Threads
  <2>3. ASSUME ~failed, NEW t \in Consumers,
               ConsumerCalls(t) \/ Pop(t) \/ PopLock(t) \/ PopTrimEnd(t)
        PROVE  Implements /\ DInv'
    BY <1>1, <2>3, PopQueues, OtherQueues DEF ConsumerCalls, Threads
  <2>4. ASSUME ~failed, NEW t \in Threads, CallFree(t) \/ Release(t) \/ SpuriousWake(t)
        PROVE  Implements /\ DInv'
    BY <1>1, <2>4, OtherQueues
  <2> QED BY <2>1, <2>2, <2>3, <2>4 DEF Next
<1> QED BY <1>1, <1>2 DEF QInv

(* The pipe implements the queue of pipe.h: as long as a pusher's copy is  *)
(* seen before the end pointer that publishes it, nothing is lost,         *)
(* duplicated or reordered, whatever the interleaving.                     *)
THEOREM PipeIsAQueue == Roomy /\ ~StoresReorder => (Spec => IsFifo)
<1> SUFFICES ASSUME Roomy, ~StoresReorder PROVE Spec => IsFifo
  OBVIOUS
<1>1. Init => QInv /\ Queue!Init
  BY InitQueues
<1>2. QInv /\ [Next]_vars => QInv' /\ [Queue!Next]_Queue!vars
  BY NextQueues DEF Implements
<1> QED BY <1>1, <1>2, PTL DEF Spec, IsFifo, Queue!Spec

-----------------------------------------------------------------------------
(* What is in the queue, or comes out of it, has been sent.                *)
Sent == content \in Seq(Elements) /\ target \in [Threads -> Seq(Elements)]

LEMMA QueuesKeepSent ==
  ASSUME Sent, elems \in [Threads -> Seq(Elements)], Implements
  PROVE  Sent'
<1> USE DEF Sent
<1>0. content = contents(cells, make_snapshot)
      /\ content' = contents(cells', make_snapshot')
  BY DEF content
<1>1. CASE UNCHANGED Queue!vars
  BY <1>0, <1>1 DEF Queue!vars
<1>2. CASE Queue!StopListening
  BY <1>0, <1>2 DEF Queue!StopListening
<1>3. ASSUME NEW s \in Threads, Queue!Send(s) \/ Queue!Drop(s)
      PROVE  Sent'
  BY <1>0, <1>3 DEF Queue!Send, Queue!Drop
<1>4. ASSUME NEW s \in Threads, NEW n \in 1 .. Len(elems[s]), Queue!Enqueue(s, n)
      PROVE  Sent'
  <2>1. content' = content \o SubSeq(elems[s], 1, n) /\ target' = target
    BY <1>0, <1>4 DEF Queue!Enqueue
  <2>2. SubSeq(elems[s], 1, n) \in Seq(Elements)
    OBVIOUS
  <2> QED BY <2>1, <2>2
<1>5. ASSUME NEW r \in Threads, Queue!Receive(r)
      PROVE  Sent'
  <2>1. content' = content /\ target' = [target EXCEPT ![r] = <<>>]
    BY <1>0, <1>5 DEF Queue!Receive
  <2> QED BY <2>1, EmptySeq
<1>6. ASSUME NEW r \in Threads, NEW n \in 1 .. Len(content), Queue!Dequeue(r, n)
      PROVE  Sent'
  <2>1. /\ target' = [target EXCEPT ![r] = @ \o SubSeq(content, 1, n)]
        /\ content' = SubSeq(content, n + 1, Len(content))
    BY <1>0, <1>6 DEF Queue!Dequeue
  <2>2. SubSeq(content, 1, n) \in Seq(Elements) /\ SubSeq(content, n + 1, Len(content)) \in Seq(Elements)
    OBVIOUS
  <2>3. target[r] \o SubSeq(content, 1, n) \in Seq(Elements)
    BY <2>2
  <2> QED BY <2>1, <2>2, <2>3
<1> QED BY <1>0, <1>1, <1>2, <1>3, <1>4, <1>5, <1>6 DEF Implements, Queue!Next

(* pop never returns memory that no push has written.                      *)
THEOREM PopsAreElements == Roomy /\ ~StoresReorder => (Spec => []OnlyElementsPopped)
<1> SUFFICES ASSUME Roomy, ~StoresReorder PROVE Spec => []OnlyElementsPopped
  OBVIOUS
<1>1. Init => QInv /\ Sent
  <2> SUFFICES ASSUME Init PROVE QInv /\ Sent
    OBVIOUS
  <2>1. QInv /\ content = <<>>
    BY InitQueues DEF Queue!Init, content
  <2> QED BY <2>1, EmptySeq DEF Init, Sent
<1>2. QInv /\ Sent /\ [Next]_vars => (QInv /\ Sent)'
  BY NextQueues, QueuesKeepSent DEF QInv, Base, IInv, LocalOK
<1>3. Sent => OnlyElementsPopped
  BY DEF Sent, OnlyElementsPopped, Threads
<1> QED BY <1>1, <1>2, <1>3, PTL DEF Spec

-----------------------------------------------------------------------------
(* The answer of pipe_size.  A push smaller than the smallest buffer makes *)
(* it grow, and so moves the pointers under a pipe_size, only when there   *)
(* is something in it already; and the only consumer does not pop between  *)
(* its own reads.                                                          *)
SizeOK(t) ==
  /\ size[t] # 0 => used # 0 /\ pc[t] \notin InRound
  /\ pc[t] = "size_torn" => used # 0

SInv ==
  /\ \A t \in Threads : Len(elems[t]) <= MaxPush
  /\ \A t \in Consumers : SizeOK(t)

(* Nobody's pipe_size is torn, unless there is something in the pipe.      *)
Torn(t) == \E u \in Threads \ {t} : pc'[u] = "size_torn" /\ pc[u] # "size_torn"

LEMMA GotoTearsNone ==
  ASSUME PcOK, NEW t \in Threads, NEW label, Goto(t, label)
  PROVE  ~Torn(t)
  BY DEF PcOK, Goto, Torn

LEMMA WakeTearsNone ==
  ASSUME PcOK, NEW t \in Threads, NEW label, NEW all,
         just_pushed(t, label, all) \/ just_popped(t, label, all)
  PROVE  ~Torn(t)
<1>1. \E relock \in {"pop_lock", "push_lock"} : \E woken \in SUBSET Threads :
        pc' = [u \in Threads |-> IF u = t THEN label
                                 ELSE IF u \in woken THEN relock ELSE pc[u]]
  <2>1. CASE just_pushed(t, label, all)
    BY <2>1 DEF just_pushed, Wake
  <2>2. CASE just_popped(t, label, all)
    BY <2>2 DEF just_popped, Wake
  <2> QED BY <2>1, <2>2
<1> QED BY <1>1 DEF Torn

LEMMA SizesKept ==
  ASSUME SInv, NEW t \in Threads, NEW label, Steers(t, label),
         used # 0 => used' # 0, Torn(t) => used' # 0,
         \A u \in Threads \ {t} : size'[u] = size[u],
         elems' = elems \/ \E q : elems' = [elems EXCEPT ![t] = q] /\ Len(q) <= MaxPush,
         elems \in [Threads -> Seq(Elements)],
         t \in Consumers => SizeOK(t)'
  PROVE  SInv'
<1>1. \A u \in Threads : Len(elems'[u]) <= MaxPush
  BY DEF SInv
<1>2. ASSUME NEW u \in Consumers \ {t} PROVE SizeOK(u)'
  <2>1. u \in Threads \ {t} /\ SizeOK(u)
    BY DEF SInv, Threads
  <2>2. pc'[u] = pc[u] \/ <<pc[u], pc'[u]>> \in Nudges
    BY <2>1 DEF Steers
  <2>3. pc'[u] \in InRound <=> pc[u] \in InRound
    BY <2>2 DEF Nudges, InRound, Rounds
  <2>4. pc'[u] = "size_torn" => used' # 0
    BY <2>1 DEF Torn, SizeOK
  <2> QED BY <2>1, <2>3, <2>4 DEF SizeOK
<1> QED BY <1>1, <1>2 DEF SInv

LEMMA PushSizes ==
  ASSUME Base, SInv, MaxPush < DEFAULT_MINCAP, NEW t \in Producers,
         Push(t) \/ PushLock(t) \/ \E es \in Batches : CallPush(t, es)
  PROVE  SInv'
<1>0. /\ PcOK /\ RingOK /\ LocalOK /\ ThreadOK(t) /\ t \in Threads /\ t \notin Consumers
      /\ elems[t] \in Seq(Elements) /\ Roomy /\ Len(elems[t]) <= MaxPush
      /\ used \in Nat /\ MaxPush \in Nat /\ DEFAULT_MINCAP \in Nat
  BY Numbers, ThreadsAssumption, BoundsAssumption, SizesAssumption
     DEF Base, HInv, IInv, LocalOK, SInv, Threads
<1>1. elems \in [Threads -> Seq(Elements)]
  BY <1>0 DEF LocalOK
<1> USE DEF Labels
<1>2. ASSUME NEW es \in Batches, CallPush(t, es)
      PROVE  SInv'
  <2>1. Len(es) <= MaxPush
    BY BoundsAssumption DEF Batches
  <2>2. UNCHANGED <<used, size>> /\ Goto(t, "push_lock") /\ elems' = [elems EXCEPT ![t] = es]
    BY <1>2 DEF CallPush, used, make_snapshot, ring
  <2> QED BY <1>0, <1>1, <2>1, <2>2, GotoSteers, GotoTearsNone, SizesKept
<1>3. CASE PushLock(t) \/ PushSleep(t) \/ PushCopy(t)
  <2>1. UNCHANGED <<used, size, elems>>
    BY <1>3 DEF PushLock, PushSleep, PushCopy, used, make_snapshot, ring, local
  <2>2. \E label \in {"push_room", "push_asleep", "push_publish"} : Goto(t, label)
    BY <1>3 DEF PushLock, PushSleep, PushCopy
  <2> QED BY <1>0, <1>1, <2>1, <2>2, GotoSteers, GotoTearsNone, SizesKept
<1>4. CASE PushRoom(t)
  <2>1. UNCHANGED <<used, size>> /\ (elems' = elems \/ elems' = [elems EXCEPT ![t] = <<>>])
    BY <1>4 DEF PushRoom, used, make_snapshot, ring
  <2>2. \E label \in {"idle", "push_sleep", "push_upgrade", "push_copy"} : Goto(t, label)
    BY <1>4 DEF PushRoom
  <2>3. Len(<<>>) <= MaxPush
    BY <1>0
  <2> QED BY <1>0, <1>1, <2>1, <2>2, <2>3, GotoSteers, GotoTearsNone, SizesKept
<1>5. CASE PushUpgrade(t)
  <2>1. UNCHANGED <<size, elems>>
    BY <1>5 DEF PushUpgrade
  <2>2. CASE needed(t) > capacity(snap[t])
    <3> DEFINE n == next_pow2(needed(t) + 1)
    <3>1. used # 0
      <4>1. capacity(snap[t]) = bufend - 1 /\ bufend \in Nat /\ bufend >= DEFAULT_MINCAP
        BY <1>0, <1>5 DEF PushUpgrade, ThreadOK, sound, pushing, capacity, RingOK
      <4>2. Len(elems[t]) \in Nat /\ needed(t) = used + Len(elems[t])
        BY <1>0 DEF needed
      <4> QED BY <1>0, <2>2, <4>1, <4>2
    <3>3. n \in Nat /\ n > used /\ (Bounded => used < max_cap)
      BY <1>0, <1>5, UpgradeFits
    <3>4. resize_buffer(t, n, "push_copy")
      BY <1>5, <2>2 DEF PushUpgrade
    <3> HIDE DEF n
    <3>5. used' = used
      BY <1>0, <3>3, <3>4, Resizes
    <3>6. Steers(t, "push_copy")
      BY <1>0, <3>4, GotoSteers DEF resize_buffer
    <3> QED BY <1>0, <1>1, <2>1, <3>1, <3>5, <3>6, SizesKept
  <2>3. CASE ~(needed(t) > capacity(snap[t]))
    <3>1. UNCHANGED used /\ Goto(t, "push_copy")
      BY <1>5, <2>3 DEF PushUpgrade, used, make_snapshot
    <3> QED BY <1>0, <1>1, <2>1, <3>1, GotoSteers, GotoTearsNone, SizesKept
  <2> QED BY <2>2, <2>3
<1>6. pushing(t) \/ pc[t] = "push_late" => pushed(t) \in Nat /\ Len(rest(t)) <= MaxPush
  <2> SUFFICES ASSUME pushing(t) \/ pc[t] = "push_late"
               PROVE  pushed(t) \in Nat /\ Len(rest(t)) <= MaxPush
    OBVIOUS
  <2>1. pushed(t) \in 0 .. Len(elems[t]) /\ pushed(t) \in Nat
    BY <1>0, PushedBounds DEF ThreadOK
  <2>2. Len(rest(t)) = Len(elems[t]) - pushed(t)
    BY <1>0, <2>1 DEF rest
  <2> QED BY <1>0, <2>1, <2>2
<1>7. CASE PushPublish(t) \/ PushPublishEarly(t)
  <2>1. pushing(t) /\ sound(t) /\ fitting(t)
    BY <1>0, <1>7 DEF PushPublish, PushPublishEarly, ThreadOK, pushing
  <2>2. used' = used + pushed(t)
    BY <1>0, <1>7, <2>1, PublishUse DEF PushPublish, PushPublishEarly
  <2>3. used # 0 => used' # 0
    BY <1>0, <1>6, <2>1, <2>2
  <2>4. elems' = elems \/ \E q : elems' = [elems EXCEPT ![t] = q] /\ Len(q) <= MaxPush
    BY <1>7, <1>6, <2>1 DEF PushPublish, PushPublishEarly, Pushed, local
  <2>5. (\E label \in {"push_signal", "push_late"} : Goto(t, label)) /\ size' = size
    BY <1>7 DEF PushPublish, PushPublishEarly, Pushed, local
  <2> QED BY <1>0, <1>1, <2>3, <2>4, <2>5, GotoSteers, GotoTearsNone, SizesKept
<1>8. CASE PushCopyLate(t)
  <2>1. UNCHANGED <<used, size>> /\ Goto(t, "push_signal") /\ elems' = [elems EXCEPT ![t] = rest(t)]
    BY <1>8 DEF PushCopyLate, Pushed, used, make_snapshot
  <2>2. Len(rest(t)) <= MaxPush
    BY <1>8, <1>6 DEF PushCopyLate
  <2> QED BY <1>0, <1>1, <2>1, <2>2, GotoSteers, GotoTearsNone, SizesKept
<1>9. CASE PushSignal(t)
  <2>1. UNCHANGED <<used, size, elems>>
    BY <1>9 DEF PushSignal, used, make_snapshot, ring
  <2>2. \E label \in {"idle", "push_lock"} : just_pushed(t, label, moved[t] # 1)
    BY <1>9 DEF PushSignal
  <2> QED BY <1>0, <1>1, <2>1, <2>2, WakeSteers, WakeTearsNone, SizesKept
<1> QED BY <1>2, <1>3, <1>4, <1>5, <1>7, <1>8, <1>9 DEF Push

LEMMA PopSizes ==
  ASSUME Base, TInv, SInv, ~failed, NEW t \in Consumers, \A u \in Consumers : u = t,
         Pop(t) \/ PopLock(t) \/ PopTrimEnd(t) \/ SizeBegin(t) \/ \E n \in 1 .. MaxPop : CallPop(t, n)
  PROVE  SInv'
<1>0. PcOK /\ LocalOK /\ t \in Threads /\ SizeOK(t) /\ \A u \in Threads : Len(elems[u]) <= MaxPush
      /\ size \in [Threads -> Nat]
  BY DEF Base, HInv, IInv, SInv, TInv, Threads
<1> USE DEF Labels
<1>1. elems' = elems
  BY DEF Pop, PopLock, PopTrimEnd, SizeBegin, CallPop, PopLook, PopSleep, PopCopy, PopTrim,
         PopSignal, SizeEnd, local
<1>2. SUFFICES SizeOK(t)'
  BY <1>0, <1>1 DEF SInv
<1> USE DEF InRound, Rounds
<1>3. ASSUME NEW n \in 1 .. MaxPop, CallPop(t, n)
      PROVE  SizeOK(t)'
  <2>1. size'[t] = 0
    BY <1>0, <1>3 DEF CallPop
  <2>2. Steers(t, "pop_lock")
    BY <1>0, <1>3, GotoSteers DEF CallPop
  <2> QED BY <1>3, <2>1, <2>2 DEF SizeOK, Steers
<1>4. CASE PopLock(t) \/ PopTrimEnd(t) \/ PopLook(t) \/ PopSleep(t) \/ PopSignal(t) \/ SizeBegin(t)
  <2>1. UNCHANGED <<used, size>>
    BY <1>4 DEF PopLock, PopTrimEnd, PopLook, PopSleep, PopSignal, SizeBegin, used, make_snapshot,
                ring, local
  <2>2. \E label \in Labels : Steers(t, label) /\ label # "size_torn"
                             /\ (label \in InRound => pc[t] \in InRound)
    <3>1. CASE PopSignal(t)
      <4>1. \E label \in {"pop_lock", "idle"} : Steers(t, label)
        BY <1>0, <3>1, WakeSteers DEF PopSignal
      <4> QED BY <3>1, <4>1 DEF PopSignal
    <3>2. CASE PopLook(t)
      <4>1. \E label \in {"pop_sleep", "idle", "pop_copy"} : Steers(t, label)
        BY <1>0, <3>2, GotoSteers DEF PopLook
      <4> QED BY <3>2, <4>1 DEF PopLook
    <3>3. CASE PopLock(t) \/ PopTrimEnd(t) \/ PopSleep(t)
      <4>1. \E label \in {"pop_look", "pop_trim", "pop_asleep"} : Steers(t, label)
        BY <1>0, <3>3, GotoSteers DEF PopLock, PopTrimEnd, PopSleep
      <4> QED BY <3>3, <4>1 DEF PopLock, PopTrimEnd, PopSleep
    <3>4. CASE SizeBegin(t)
      <4>1. Steers(t, "size_read")
        BY <1>0, <3>4, GotoSteers DEF SizeBegin
      <4> QED BY <4>1
    <3> QED BY <1>4, <3>1, <3>2, <3>3, <3>4
  <2> QED BY <1>0, <2>1, <2>2 DEF SizeOK, Steers
<1>5. CASE PopCopy(t) \/ PopTrim(t)
  <2>1. size[t] = 0 /\ size' = size
    BY <1>0, <1>5 DEF PopCopy, PopTrim, SizeOK, local
  <2>2. \E label \in {"pop_signal", "pop_trim_end"} : Steers(t, label)
    <3>1. \E label \in {"pop_signal", "pop_trim_end"} : Goto(t, label) \/ GotoTearing(t, label)
      BY <1>5 DEF PopCopy, PopTrim, resize_buffer
    <3> QED BY <1>0, <3>1, GotoSteers
  <2> QED BY <2>1, <2>2 DEF SizeOK, Steers
<1>6. CASE SizeEnd(t)
  <2>1. used' = used /\ Steers(t, "idle")
    BY <1>0, <1>6, GotoSteers DEF SizeEnd, used, make_snapshot, ring
  <2>2. size'[t] # 0 => used # 0
    BY <1>0, <1>6 DEF SizeEnd, SizeOK
  <2> QED BY <2>1, <2>2 DEF SizeOK, Steers
<1> QED BY <1>3, <1>4, <1>5, <1>6 DEF Pop

LEMMA OtherSizes ==
  ASSUME Base, SInv, NEW t \in Threads,
         ProducerNew(t) \/ ConsumerNew(t) \/ CallFree(t) \/ Release(t) \/ SpuriousWake(t)
  PROVE  SInv'
<1>0. PcOK /\ LocalOK /\ elems \in [Threads -> Seq(Elements)]
  BY DEF Base, HInv, IInv, LocalOK
<1> USE DEF Labels
<1>1. UNCHANGED <<used, size, elems>>
  BY DEF ProducerNew, ConsumerNew, CallFree, Release, FreeProducer, FreeConsumer, FreeLook,
         FreeWake, FreeNull, FreeLast, SpuriousWake, used, make_snapshot, ring, local
<1> DEFINE labels == {"idle", "pop_lock", "push_lock", "free_producer", "free_consumer",
                      "free_look", "free_wake", "free_null", "free_last", "gone"}
<1>2. ~Torn(t) /\ \E label \in labels : Steers(t, label) /\ (label \in InRound => pc[t] \in InRound)
  <2>1. CASE FreeWake(t)
    <3>1. \E all : just_popped(t, "gone", all) \/ just_pushed(t, "gone", all)
      BY <2>1 DEF FreeWake
    <3>2. Steers(t, "gone") /\ ~Torn(t)
      BY <1>0, <3>1, WakeSteers, WakeTearsNone
    <3> QED BY <3>2 DEF InRound, Rounds
  <2>2. CASE ~FreeWake(t)
    <3>1. \E label \in labels : Goto(t, label) /\ (label \in InRound => pc[t] \in InRound)
      BY <2>2
         DEF ProducerNew, ConsumerNew, CallFree, Release, FreeProducer, FreeConsumer, FreeLook,
             FreeNull, FreeLast, SpuriousWake, InRound, Rounds
    <3> QED BY <1>0, <3>1, GotoSteers, GotoTearsNone
  <2> QED BY <2>1, <2>2
<1>3. t \in Consumers => SizeOK(t)'
  BY <1>1, <1>2 DEF SInv, SizeOK, Steers
<1> HIDE DEF labels
<1> QED BY <1>0, <1>1, <1>2, <1>3, SizesKept

(* The only consumer of small pushes may trust an unlocked pipe_size: when *)
(* it said that there is something in the pipe, begin and end say so too,  *)
(* and a pop of one element will not block (the main loop of main.c).      *)
THEOREM SizesAreSafe ==
  Roomy /\ MaxPush < DEFAULT_MINCAP /\ (\A c, d \in Consumers : c = d)
    => (Spec => []SizeIsSafe)
<1> SUFFICES ASSUME Roomy, MaxPush < DEFAULT_MINCAP, \A c, d \in Consumers : c = d
             PROVE  Spec => []SizeIsSafe
  OBVIOUS
<1>1. Init => Base /\ TInv /\ SInv
  <2> SUFFICES ASSUME Init PROVE Base /\ TInv /\ SInv
    OBVIOUS
  <2>1. Len(<<>>) <= MaxPush
    BY BoundsAssumption
  <2> QED BY <2>1, InitBase, InitTInv DEF Init, SInv, SizeOK, Threads, InRound, Rounds
<1>2. Base /\ TInv /\ SInv /\ [Next]_vars => (Base /\ TInv /\ SInv)'
  <2> SUFFICES ASSUME Base, TInv, SInv, [Next]_vars PROVE Base' /\ TInv' /\ SInv'
    OBVIOUS
  <2>1. ASSUME UNCHANGED vars
        PROVE  SInv'
    BY <2>1 DEF vars, ring, local, SInv, SizeOK, used, make_snapshot
  <2>2. ASSUME ~failed, NEW t \in Producers, ProducerCalls(t) \/ Push(t) \/ PushLock(t)
        PROVE  SInv'
    BY <2>2, PushSizes, OtherSizes DEF ProducerCalls, Threads
  <2>3. ASSUME ~failed, NEW t \in Consumers,
               ConsumerCalls(t) \/ Pop(t) \/ PopLock(t) \/ PopTrimEnd(t)
        PROVE  SInv'
    BY <2>3, PopSizes, OtherSizes DEF ConsumerCalls, Threads
  <2>4. ASSUME ~failed, NEW t \in Threads, CallFree(t) \/ Release(t) \/ SpuriousWake(t)
        PROVE  SInv'
    BY <2>4, OtherSizes
  <2>5. SInv'
    BY <2>1, <2>2, <2>3, <2>4 DEF Next
  <2> QED BY <2>5, NextBase, NextTInv
<1>3. Base /\ TInv /\ SInv => SizeIsSafe
  <2> SUFFICES ASSUME Base, TInv, SInv, NEW t \in Consumers, size[t] > 0 PROVE ~empty
    BY DEF SizeIsSafe
  <2>1. used # 0
    <3>1. size[t] \in Nat /\ SizeOK(t)
      BY DEF TInv, SInv, Threads
    <3> QED BY <3>1 DEF SizeOK
  <2>2. /\ begin \in Nat /\ end \in Nat /\ bufend \in Nat /\ begin < bufend /\ end < bufend
        /\ used = IF begin >= end THEN end + bufend - begin - 1 ELSE end - begin - 1
    BY DEF Base, IInv, RingOK, used, bytes_in_use, wraps_around, make_snapshot
  <2> QED BY <2>1, <2>2 DEF empty, wrap_ptr_if_necessary
<1> QED BY <1>1, <1>2, <1>3, PTL DEF Spec
=============================================================================
