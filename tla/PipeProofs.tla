----------------------------- MODULE PipeProofs -----------------------------
(***************************************************************************)
(* Two parts.  First, that the two locks of pipe.c keep pushers and        *)
(* poppers out of each other's way on a pipe that may grow, without a      *)
(* limit or with one of at least DEFAULT_MINCAP (Roomy), for any number of *)
(* threads, any elements, and buffers of any size.                         *)
(*                                                                         *)
(* SnapshotSound is not inductive.  The inductive invariant IInv says of   *)
(* the buffer that its pointers are inside it, and of every thread t       *)
(*   locked(t)   what it works on rests on a lock that it holds,           *)
(*   sound(t)    SnapshotSound, and the old pointer of its snapshot is     *)
(*               inside the buffer too,                                    *)
(*   fitting(t)  a pusher that goes on to copy has seen room for what it   *)
(*               is going to push, in the buffer and below the limit.      *)
(*                                                                         *)
(* Second, that the reference counts count the handles there are, for      *)
(* pipes of any limit, in whatever order handles are made, used and freed; *)
(* and what follows from it: nobody pushes into or pops from a buffer that *)
(* was given up, or uses a pipe that was deallocated.  The counts say      *)
(* nothing of who the handles belong to: the inductive invariant HInv      *)
(* makes them the cardinalities of two sets of threads, told from the      *)
(* program counters.                                                       *)
(***************************************************************************)
EXTENDS Pipe, FiniteSetTheorems, NaturalsInduction, WellFoundedInduction, TLAPS

AtEnd   == {"push_room", "push_sleep", "push_upgrade", "push_copy", "push_publish",
            "push_late", "pop_trim"}
AtBegin == {"pop_look", "pop_sleep", "pop_copy"}
Busy    == AtEnd \cup AtBegin

RingOK ==
  /\ bufend \in Nat /\ bufend >= DEFAULT_MINCAP
  /\ begin \in 0 .. bufend - 1 /\ end \in 0 .. bufend - 1
  /\ Bounded => capacity(make_snapshot) <= max_cap

AnySnapshot == [bufend : Int, begin : Int, end : Int]

LocalOK ==
  /\ pc \in [Threads -> Labels]
  /\ snap \in [Threads -> AnySnapshot]
  /\ elems \in [Threads -> Seq(Elements)]
  /\ bytes_left \in [Threads -> Nat]

locked(t) ==
  /\ pc[t] \in AtEnd => end_lock = t
  /\ pc[t] \in AtBegin => begin_lock = t

sound(t) ==
  /\ pushing(t) => /\ snap[t].bufend = bufend /\ snap[t].end = end
                   /\ snap[t].begin \in 0 .. bufend - 1
                   /\ used <= bytes_in_use(snap[t])
  /\ pc[t] = "pop_copy" => /\ snap[t].bufend = bufend /\ snap[t].begin = begin
                           /\ snap[t].end \in 0 .. bufend - 1
                           /\ bytes_in_use(snap[t]) <= used

fits(s, n)  == bytes_in_use(s) + n <= capacity(s)
fitting(t)  ==
  /\ pc[t] \in {"push_copy", "push_publish"} => fits(snap[t], pushed(t))
  /\ (pushing(t) \/ pc[t] = "push_late") /\ Bounded => bytes_in_use(snap[t]) < max_cap
ThreadOK(t) == locked(t) /\ sound(t) /\ fitting(t)

IInv == RingOK /\ LocalOK /\ \A t \in Threads : ThreadOK(t)

(* The limits for which it holds: none, or one under which the buffer may  *)
(* grow.  A pipe with a smaller limit fills a buffer that it cannot make   *)
(* room in for the sentinel.                                               *)
Roomy == Limit = 0 \/ Limit >= DEFAULT_MINCAP

-----------------------------------------------------------------------------
(* Any set of sizes has a smallest one, so next_pow2 rounds up.            *)
LEMMA LeastExists ==
  ASSUME NEW S \in SUBSET Nat, S # {}
  PROVE  \E m \in S : \A k \in S : m <= k
<1> DEFINE R == OpToRel(<, Nat)
<1>1. IsWellFoundedOn(R, Nat)
  BY NatLessThanWellFounded
<1>2. PICK m \in S : \A y \in S : ~ (<<y, m>> \in R)
  <2> HIDE DEF R
  <2> QED BY <1>1, WFMin
<1>3. \A y \in S : ~(y < m)
  BY <1>2 DEF OpToRel
<1> QED BY <1>3

LEMMA NextPow2RoundsUp ==
  ASSUME NEW n \in Nat
  PROVE  next_pow2(n) \in Nat /\ next_pow2(n) >= n
<1> DEFINE up == {m \in PowersOf2 : m >= n}
<1>1. CASE up = {}
  BY <1>1 DEF next_pow2
<1>2. CASE up # {}
  <2>1. up \in SUBSET Nat BY SizesAssumption
  <2>2. \E m \in up : \A k \in up : m <= k
    <3> HIDE DEF up
    <3> QED BY <1>2, <2>1, LeastExists
  <2>3. next_pow2(n) \in up BY <1>2, <2>2 DEF next_pow2
  <2> QED BY <2>1, <2>3
<1> QED BY <1>1, <1>2

LEMMA MaxCap ==
  ASSUME Roomy, Bounded
  PROVE  max_cap \in Nat /\ max_cap > DEFAULT_MINCAP
<1>1. max(Limit + 1, DEFAULT_MINCAP) = Limit + 1 /\ Limit + 1 \in Nat /\ Limit + 1 > DEFAULT_MINCAP
  BY SizesAssumption DEF Roomy, Bounded, max
<1> QED BY <1>1, NextPow2RoundsUp, SizesAssumption DEF max_cap

(* How many elements a push may leave in the pipe.                         *)
LEMMA PushCounts ==
  ASSUME Roomy, NEW s, NEW n \in Nat, bytes_in_use(s) \in Int,
         Bounded => bytes_in_use(s) < max_cap
  PROVE  /\ push_count(s, n) \in 0 .. n
         /\ n # 0 => push_count(s, n) # 0
         /\ Bounded => bytes_in_use(s) + push_count(s, n) <= max_cap
  BY MaxCap DEF push_count, min

-----------------------------------------------------------------------------
(* The geometry of the buffer: moving an end by n is going round by n.     *)

Rings == {s \in [bufend : Nat, begin : Nat, end : Nat] :
            s.begin < s.bufend /\ s.end < s.bufend}

(* What is in the buffer is never more than its capacity.                  *)
LEMMA UseBounds ==
  ASSUME NEW s \in Rings
  PROVE  bytes_in_use(s) \in 0 .. capacity(s)
  BY DEF Rings, bytes_in_use, capacity, wraps_around

(* pop_without_locking moves begin by the number of elements it pops.      *)
LEMMA PopMoves ==
  ASSUME NEW s \in Rings, NEW n \in 0 .. bytes_in_use(s)
  PROVE  /\ pop_begin(s, n) \in 0 .. s.bufend - 1
         /\ \A q, r \in Rings :
              /\ q.bufend = s.bufend /\ q.begin = s.begin /\ bytes_in_use(s) <= bytes_in_use(q)
              /\ r.bufend = s.bufend /\ r.begin = pop_begin(s, n) /\ r.end = q.end
              => bytes_in_use(r) = bytes_in_use(q) - n
<1>0. n \in Nat /\ n <= s.bufend - 1
  BY UseBounds DEF Rings, capacity
<1>1. pop_begin(s, n) = IF s.begin + n >= s.bufend THEN s.begin + n - s.bufend ELSE s.begin + n
  BY <1>0 DEF Rings, pop_begin, first_bytes, min, wrap_ptr_if_necessary,
              rev_wrap_ptr_if_necessary
<1>2. QED
  BY <1>0, <1>1 DEF Rings, bytes_in_use, wraps_around

(* process_push moves end by the number of elements it pushes; whoever     *)
(* sees a newer begin, and so fewer elements, then has that many more.     *)
LEMMA PushMoves ==
  ASSUME NEW s \in Rings, NEW n \in Nat, fits(s, n)
  PROVE  /\ push_end(s, n) \in 0 .. s.bufend - 1
         /\ \A q, r \in Rings :
              /\ q.bufend = s.bufend /\ q.end = s.end /\ bytes_in_use(q) <= bytes_in_use(s)
              /\ r.bufend = s.bufend /\ r.begin = q.begin /\ r.end = push_end(s, n)
              => bytes_in_use(r) = bytes_in_use(q) + n
<1>1. push_end(s, n) = IF s.end + n >= s.bufend THEN s.end + n - s.bufend ELSE s.end + n
  BY DEF Rings, fits, capacity, bytes_in_use, wraps_around, push_end, at_end, min,
         wrap_ptr_if_necessary
<1>2. QED
  BY <1>1 DEF Rings, fits, capacity, bytes_in_use, wraps_around

-----------------------------------------------------------------------------
(* The present ring, and a snapshot that is sound, are rings.              *)
LEMMA CurrentRing ==
  ASSUME RingOK
  PROVE  make_snapshot \in Rings
  BY DEF RingOK, Rings, make_snapshot

LEMMA SoundRing ==
  ASSUME RingOK, LocalOK, NEW t \in Threads, sound(t), pushing(t) \/ pc[t] = "pop_copy"
  PROVE  snap[t] \in Rings
<1>1. /\ snap[t].bufend \in Nat /\ snap[t].begin \in Nat /\ snap[t].end \in Nat
      /\ snap[t].begin < snap[t].bufend /\ snap[t].end < snap[t].bufend
  BY DEF RingOK, sound
<1>2. snap[t] \in AnySnapshot
  BY DEF LocalOK
<1> QED BY <1>1, <1>2 DEF Rings, AnySnapshot

LEMMA Snapshots2 ==
  ASSUME RingOK
  PROVE  make_snapshot \in AnySnapshot /\ NoSnapshot \in AnySnapshot
  BY DEF RingOK, make_snapshot, NoSnapshot, AnySnapshot

LEMMA SnapUse ==
  ASSUME LocalOK, NEW t \in Threads
  PROVE  bytes_in_use(snap[t]) \in Int
<1>1. snap[t] \in AnySnapshot
  BY DEF LocalOK
<1> QED BY <1>1 DEF AnySnapshot, bytes_in_use, wraps_around

LEMMA PushedBounds ==
  ASSUME Roomy, LocalOK, NEW t \in Threads, fitting(t), pushing(t) \/ pc[t] = "push_late"
  PROVE  /\ pushed(t) \in 0 .. Len(elems[t]) /\ pushed(t) \in Nat
         /\ elems[t] # <<>> => pushed(t) # 0
         /\ Len(batch(t)) = pushed(t) /\ batch(t) \in Seq(Elements) /\ rest(t) \in Seq(Elements)
<1>1. elems[t] \in Seq(Elements)
  BY DEF LocalOK
<1>2. Len(elems[t]) \in Nat /\ bytes_in_use(snap[t]) \in Int
  BY <1>1, SnapUse
<1>3. /\ pushed(t) \in 0 .. Len(elems[t]) /\ pushed(t) \in Nat
      /\ Len(elems[t]) # 0 => pushed(t) # 0
  BY <1>2, PushCounts DEF fitting, pushed
<1>4. /\ Len(batch(t)) = pushed(t) /\ batch(t) \in Seq(Elements)
      /\ rest(t) \in Seq(Elements)
  BY <1>1, <1>2, <1>3 DEF batch, rest
<1>5. elems[t] # <<>> => Len(elems[t]) # 0
  BY <1>1
<1> QED BY <1>3, <1>4, <1>5

(* Going somewhere, and waking whoever is asleep or tearing a pipe_size on *)
(* the way, brings no other thread to a place where it holds a lock.       *)
Goes(t, label) ==
  /\ pc' \in [Threads -> Labels]
  /\ pc'[t] = label
  /\ \A u \in Threads \ {t} : pc'[u] = pc[u] \/ pc'[u] \notin Busy

LEMMA GotoGoes ==
  ASSUME LocalOK, NEW t \in Threads, NEW label \in Labels,
         Goto(t, label) \/ GotoTearing(t, label)
  PROVE  Goes(t, label)
<1>1. CASE Goto(t, label)
  BY <1>1 DEF LocalOK, Goto, Goes
<1>2. CASE GotoTearing(t, label)
  BY <1>2 DEF LocalOK, GotoTearing, Goes, Labels, Busy, AtEnd, AtBegin
<1> QED BY <1>1, <1>2

LEMMA WakeGoes ==
  ASSUME LocalOK, NEW t \in Threads, NEW label \in Labels, NEW all,
         just_pushed(t, label, all) \/ just_popped(t, label, all)
  PROVE  Goes(t, label)
<1>1. \E relock \in {"pop_lock", "push_lock"} : \E woken \in SUBSET Threads :
        pc' = [u \in Threads |-> IF u = t THEN label
                                 ELSE IF u \in woken THEN relock ELSE pc[u]]
  <2>1. CASE just_pushed(t, label, all)
    BY <2>1 DEF just_pushed, Wake
  <2>2. CASE just_popped(t, label, all)
    BY <2>2 DEF just_popped, Wake
  <2> QED BY <2>1, <2>2
<1>2. QED
  BY <1>1 DEF LocalOK, Goes, Labels, Busy, AtEnd, AtBegin

(* A step that leaves the ring alone disturbs no other thread, as long as  *)
(* it takes no lock that somebody holds and gives up none but its own.     *)
Alone(t) ==
  /\ UNCHANGED <<bufend, begin, end>>
  /\ end_lock' = end_lock \/ end_lock = Free \/ end_lock = t
  /\ begin_lock' = begin_lock \/ begin_lock = Free \/ begin_lock = t
  /\ \A u \in Threads \ {t} : snap'[u] = snap[u] /\ elems'[u] = elems[u]

LEMMA Undisturbed ==
  ASSUME IInv, NEW t \in Threads, NEW label, Alone(t), Goes(t, label), LocalOK', ThreadOK(t)'
  PROVE  IInv'
<1>1. RingOK'
  BY DEF IInv, RingOK, Alone, capacity, make_snapshot
<1>2. ASSUME NEW u \in Threads, u # t PROVE ThreadOK(u)'
  <2>1. ThreadOK(u) /\ u # Free
    BY ThreadsAssumption DEF IInv
  <2>2. CASE pc'[u] \notin Busy
    BY <2>2 DEF ThreadOK, locked, sound, fitting, pushing, Busy, AtEnd, AtBegin
  <2>3. CASE pc'[u] = pc[u]
    <3>1. locked(u)'
      BY <1>2, <2>1, <2>3 DEF ThreadOK, locked, Alone
    <3>2. sound(u)'
      BY <1>2, <2>1, <2>3 DEF ThreadOK, sound, pushing, used, make_snapshot, Alone
    <3>3. fitting(u)'
      BY <1>2, <2>1, <2>3 DEF ThreadOK, fitting, pushing, pushed, Alone
    <3> QED BY <3>1, <3>2, <3>3 DEF ThreadOK
  <2> QED BY <1>2, <2>2, <2>3 DEF Goes
<1> QED BY <1>1, <1>2 DEF IInv

(* In particular a step to a place where nothing is asked of the thread.   *)
LEMMA Minor ==
  ASSUME IInv, NEW t \in Threads, NEW label \in Labels \ Busy, Alone(t), Goes(t, label), LocalOK'
  PROVE  IInv'
<1>1. ThreadOK(t)'
  BY DEF Goes, ThreadOK, locked, sound, fitting, pushing, Busy, AtEnd, AtBegin
<1> QED BY <1>1, Undisturbed

-----------------------------------------------------------------------------
(* The steps of pipe_push.                                                 *)

LEMMA EmptySeq == <<>> \in Seq(Elements)
  OBVIOUS

LEMMA CallPushStep ==
  ASSUME IInv, NEW t \in Threads, NEW es \in Seq(Elements), CallPush(t, es)
  PROVE  IInv'
<1>1. Goes(t, "push_lock")
  BY GotoGoes DEF IInv, CallPush, Labels
<1>2. Alone(t)
  BY DEF IInv, LocalOK, CallPush, Alone, ring, locks
<1>3. LocalOK'
  BY <1>1 DEF IInv, LocalOK, CallPush, Goes
<1> QED BY <1>1, <1>2, <1>3, Minor DEF Labels, Busy, AtEnd, AtBegin

LEMMA PushLockStep ==
  ASSUME IInv, NEW t \in Threads, PushLock(t)
  PROVE  IInv'
<1>1. Goes(t, "push_room")
  BY GotoGoes DEF IInv, PushLock, Labels
<1>2. Alone(t)
  BY DEF PushLock, Alone, ring, local
<1>3. LocalOK'
  BY <1>1 DEF IInv, LocalOK, PushLock, Goes, local
<1>4. ThreadOK(t)'
  BY <1>1 DEF PushLock, Goes, ThreadOK, locked, sound, fitting, pushing, AtEnd, AtBegin
<1> QED BY <1>1, <1>2, <1>3, <1>4, Undisturbed

LEMMA PushRoomStep ==
  ASSUME IInv, Roomy, NEW t \in Threads, PushRoom(t)
  PROVE  IInv'
<1>0. RingOK /\ LocalOK /\ pc[t] = "push_room" /\ end_lock = t
  BY DEF IInv, PushRoom, ThreadOK, locked, AtEnd
<1>1. Alone(t)
  BY <1>0 DEF LocalOK, PushRoom, Alone, ring
<1>2. snap' \in [Threads -> AnySnapshot] /\ elems' \in [Threads -> Seq(Elements)]
  BY <1>0, Snapshots2, EmptySeq DEF LocalOK, PushRoom
<1>3. CASE consumer_refcount = 0
  <2>1. Goes(t, "idle")
    BY <1>0, <1>3, GotoGoes DEF PushRoom, Labels
  <2>2. LocalOK'
    BY <1>0, <1>2, <2>1 DEF LocalOK, PushRoom, Goes
  <2> QED BY <1>1, <2>1, <2>2, Minor DEF Labels, Busy, AtEnd, AtBegin
<1>4. CASE consumer_refcount # 0 /\ Full(make_snapshot)
  <2>1. Goto(t, "push_sleep") /\ UNCHANGED <<end_lock, elems>>
    BY <1>0, <1>4 DEF PushRoom
  <2>2. Goes(t, "push_sleep")
    BY <1>0, <2>1, GotoGoes DEF Labels
  <2>3. LocalOK'
    BY <1>0, <1>2, <2>2 DEF LocalOK, PushRoom, Goes
  <2>4. ThreadOK(t)'
    BY <1>0, <2>1, <2>2 DEF Goes, ThreadOK, locked, sound, fitting, pushing, AtEnd, AtBegin
  <2> QED BY <1>1, <2>2, <2>3, <2>4, Undisturbed
<1>5. CASE consumer_refcount # 0 /\ ~Full(make_snapshot)
  <2> DEFINE small == bytes_in_use(make_snapshot) + Len(elems[t]) > capacity(make_snapshot)
             label == IF small THEN "push_upgrade" ELSE "push_copy"
  <2>0. /\ bytes_in_use(make_snapshot) \in 0 .. capacity(make_snapshot)
        /\ capacity(make_snapshot) \in Nat /\ Len(elems[t]) \in Nat
    BY <1>0, CurrentRing, UseBounds DEF LocalOK, make_snapshot, capacity, RingOK
  <2>1. Goes(t, label)
    BY <1>0, <1>5, GotoGoes DEF PushRoom, Labels
  <2>2. LocalOK'
    BY <1>0, <1>2, <2>1 DEF LocalOK, PushRoom, Goes
  <2>3. snap'[t] = make_snapshot /\ elems' = elems /\ end_lock' = end_lock
    BY <1>0, <1>5 DEF LocalOK, PushRoom
  <2>4. ThreadOK(t)'
    <3>1. locked(t)'
      BY <1>0, <2>1, <2>3 DEF locked, Goes, AtEnd, AtBegin
    <3>2. sound(t)'
      BY <1>0, <1>1, <2>1, <2>3, CurrentRing, UseBounds
      DEF sound, pushing, Goes, Alone, used, make_snapshot, RingOK, capacity
    <3>3. Bounded => bytes_in_use(make_snapshot) < max_cap
      BY <1>0, <1>5, <2>0, MaxCap DEF Full, RingOK
    <3>4. pushed(t)' = push_count(make_snapshot, Len(elems[t]))
      BY <2>3 DEF pushed
    <3>5. push_count(make_snapshot, Len(elems[t])) \in 0 .. Len(elems[t])
      BY <2>0, <3>3, PushCounts
    <3>6. fitting(t)'
      <4>1. CASE small
        BY <2>1, <2>3, <3>3, <4>1 DEF fitting, Goes
      <4>2. CASE ~small
        <5>1. fits(make_snapshot, push_count(make_snapshot, Len(elems[t])))
          BY <2>0, <3>5, <4>2 DEF fits
        <5> QED BY <2>3, <3>3, <3>4, <5>1 DEF fitting
      <4> QED BY <4>1, <4>2
    <3> QED BY <3>1, <3>2, <3>6 DEF ThreadOK
  <2> QED BY <1>1, <2>1, <2>2, <2>4, Undisturbed
<1> QED BY <1>3, <1>4, <1>5

LEMMA PushSleepStep ==
  ASSUME IInv, NEW t \in Threads, PushSleep(t)
  PROVE  IInv'
<1>1. Goes(t, "push_asleep")
  BY GotoGoes DEF IInv, PushSleep, Labels
<1>2. Alone(t)
  BY DEF IInv, PushSleep, Alone, ring, local, ThreadOK, locked, AtEnd
<1>3. LocalOK'
  BY <1>1 DEF IInv, LocalOK, PushSleep, Goes, local
<1> QED BY <1>1, <1>2, <1>3, Minor DEF Labels, Busy, AtEnd, AtBegin

(* Most steps touch neither the ring nor what ThreadOK speaks of.          *)
LEMMA Aside ==
  ASSUME IInv, NEW t \in Threads, NEW label \in Labels \ Busy, Goes(t, label),
         UNCHANGED <<bufend, begin, end, snap, elems, bytes_left>>,
         end_lock' = end_lock \/ end_lock = t,
         begin_lock' = begin_lock \/ begin_lock = t
  PROVE  IInv'
<1>1. Alone(t)
  BY DEF Alone
<1>2. LocalOK'
  BY DEF IInv, LocalOK, Goes
<1> QED BY <1>1, <1>2, Minor

LEMMA PushCopyStep ==
  ASSUME IInv, NEW t \in Threads, PushCopy(t)
  PROVE  IInv'
<1>1. Goes(t, "push_publish")
  BY GotoGoes DEF IInv, PushCopy, Labels
<1>2. Alone(t)
  BY DEF PushCopy, Alone, local, locks
<1>3. LocalOK'
  BY <1>1 DEF IInv, LocalOK, PushCopy, Goes, local
<1>4. ThreadOK(t)'
  BY <1>1 DEF IInv, PushCopy, Goes, ThreadOK, locked, sound, fitting, pushing, pushed, used,
              make_snapshot, local, locks, AtEnd, AtBegin
<1> QED BY <1>1, <1>2, <1>3, <1>4, Undisturbed

LEMMA PushSignalStep ==
  ASSUME IInv, NEW t \in Threads, PushSignal(t)
  PROVE  IInv'
<1> DEFINE label == IF elems[t] = <<>> THEN "idle" ELSE "push_lock"
<1>1. label \in Labels \ Busy
  BY DEF Labels, Busy, AtEnd, AtBegin
<1>2. just_pushed(t, label, moved[t] # 1)
  BY DEF PushSignal
<1>3. Goes(t, label)
  <2> HIDE DEF label
  <2> QED BY <1>1, <1>2, WakeGoes DEF IInv
<1>4. UNCHANGED <<bufend, begin, end, snap, elems, bytes_left, end_lock, begin_lock>>
  BY DEF PushSignal, ring, locks
<1> HIDE DEF label
<1> QED BY <1>1, <1>3, <1>4, Aside

-----------------------------------------------------------------------------
(* The steps of pipe_pop and pipe_size that leave the ring alone.          *)

LEMMA CallPopStep ==
  ASSUME IInv, NEW t \in Threads, NEW n \in Nat, CallPop(t, n)
  PROVE  IInv'
<1>1. Goes(t, "pop_lock")
  BY GotoGoes DEF IInv, CallPop, Labels
<1>2. Alone(t)
  BY DEF CallPop, Alone, ring, locks
<1>3. LocalOK'
  BY <1>1 DEF IInv, LocalOK, CallPop, Goes
<1> QED BY <1>1, <1>2, <1>3, Minor DEF Labels, Busy, AtEnd, AtBegin

LEMMA PopLockStep ==
  ASSUME IInv, NEW t \in Threads, PopLock(t)
  PROVE  IInv'
<1>1. Goes(t, "pop_look")
  BY GotoGoes DEF IInv, PopLock, Labels
<1>2. Alone(t)
  BY DEF PopLock, Alone, ring, local
<1>3. LocalOK'
  BY <1>1 DEF IInv, LocalOK, PopLock, Goes, local
<1>4. ThreadOK(t)'
  BY <1>1 DEF PopLock, Goes, ThreadOK, locked, sound, fitting, pushing, AtEnd, AtBegin
<1> QED BY <1>1, <1>2, <1>3, <1>4, Undisturbed

LEMMA PopLookStep ==
  ASSUME IInv, NEW t \in Threads, PopLook(t)
  PROVE  IInv'
<1>0. RingOK /\ LocalOK /\ pc[t] = "pop_look" /\ begin_lock = t
  BY DEF IInv, PopLook, ThreadOK, locked, AtBegin
<1>1. Alone(t)
  BY <1>0 DEF LocalOK, PopLook, Alone, ring
<1>2. UNCHANGED <<elems, bytes_left, bufend, begin, end, end_lock>>
  BY DEF PopLook, ring
<1>3. ASSUME used = 0, ~closed, Goto(t, "pop_sleep"), UNCHANGED <<begin_lock, snap>>
      PROVE  IInv'
  <2>1. Goes(t, "pop_sleep")
    BY <1>0, <1>3, GotoGoes DEF Labels
  <2>2. LocalOK'
    BY <1>0, <1>2, <1>3, <2>1 DEF LocalOK, Goes
  <2>3. ThreadOK(t)'
    BY <1>0, <1>3, <2>1 DEF Goes, ThreadOK, locked, sound, fitting, pushing, AtEnd, AtBegin
  <2> QED BY <1>1, <2>1, <2>2, <2>3, Undisturbed
<1>4. ASSUME begin_lock' = Free, Goto(t, "idle"), UNCHANGED snap
      PROVE  IInv'
  <2>1. Goes(t, "idle")
    BY <1>0, <1>4, GotoGoes DEF Labels
  <2> QED BY <1>0, <1>2, <1>4, <2>1, Aside DEF Labels, Busy, AtEnd, AtBegin
<1>5. ASSUME snap' = [snap EXCEPT ![t] = make_snapshot], Goto(t, "pop_copy"), UNCHANGED begin_lock
      PROVE  IInv'
  <2>1. Goes(t, "pop_copy")
    BY <1>0, <1>5, GotoGoes DEF Labels
  <2>2. LocalOK'
    BY <1>0, <1>2, <1>5, <2>1, Snapshots2 DEF LocalOK, Goes
  <2>3. snap'[t] = make_snapshot
    BY <1>0, <1>5 DEF LocalOK
  <2>4. locked(t)' /\ fitting(t)'
    BY <1>0, <1>5, <2>1 DEF Goes, locked, fitting, pushing, AtEnd, AtBegin
  <2>5. sound(t)'
    BY <1>0, <1>2, <2>1, <2>3, CurrentRing, UseBounds
    DEF sound, pushing, Goes, used, make_snapshot, RingOK, capacity
  <2> QED BY <1>1, <2>1, <2>2, <2>4, <2>5, Undisturbed DEF ThreadOK
<1> QED BY <1>3, <1>4, <1>5 DEF PopLook

LEMMA PopSleepStep ==
  ASSUME IInv, NEW t \in Threads, PopSleep(t)
  PROVE  IInv'
<1>1. Goes(t, "pop_asleep")
  BY GotoGoes DEF IInv, PopSleep, Labels
<1>2. begin_lock = t
  BY DEF IInv, PopSleep, ThreadOK, locked, AtBegin
<1>3. UNCHANGED <<bufend, begin, end, snap, elems, bytes_left, end_lock>>
  BY DEF PopSleep, ring, local
<1> QED BY <1>1, <1>2, <1>3, Aside DEF Labels, Busy, AtEnd, AtBegin

LEMMA PopTrimEndStep ==
  ASSUME IInv, NEW t \in Threads, PopTrimEnd(t)
  PROVE  IInv'
<1>1. Goes(t, "pop_trim")
  BY GotoGoes DEF IInv, PopTrimEnd, Labels
<1>2. Alone(t)
  BY DEF PopTrimEnd, Alone, ring, local
<1>3. LocalOK'
  BY <1>1 DEF IInv, LocalOK, PopTrimEnd, Goes, local
<1>4. ThreadOK(t)'
  BY <1>1 DEF PopTrimEnd, Goes, ThreadOK, locked, sound, fitting, pushing, AtEnd, AtBegin
<1> QED BY <1>1, <1>2, <1>3, <1>4, Undisturbed

LEMMA PopSignalStep ==
  ASSUME IInv, NEW t \in Threads, PopSignal(t)
  PROVE  IInv'
<1> DEFINE label == IF bytes_left[t] > 0 THEN "pop_lock" ELSE "idle"
<1>1. label \in Labels \ Busy
  BY DEF Labels, Busy, AtEnd, AtBegin
<1>2. just_popped(t, label, moved[t] # 1)
  BY DEF PopSignal
<1>3. Goes(t, label)
  <2> HIDE DEF label
  <2> QED BY <1>1, <1>2, WakeGoes DEF IInv
<1>4. UNCHANGED <<bufend, begin, end, snap, elems, bytes_left, end_lock, begin_lock>>
  BY DEF PopSignal, ring, locks
<1> HIDE DEF label
<1> QED BY <1>1, <1>3, <1>4, Aside

LEMMA SpuriousWakeStep ==
  ASSUME IInv, NEW t \in Threads, SpuriousWake(t)
  PROVE  IInv'
<1>1. \E label \in {"pop_lock", "push_lock"} : Goto(t, label)
  BY DEF SpuriousWake
<1>2. \E label \in {"pop_lock", "push_lock"} : Goes(t, label)
  BY <1>1, GotoGoes DEF IInv, Labels
<1>3. UNCHANGED <<bufend, begin, end, snap, elems, bytes_left, end_lock, begin_lock>>
  BY DEF SpuriousWake, ring, locks, local
<1> QED BY <1>2, <1>3, Aside DEF Labels, Busy, AtEnd, AtBegin

LEMMA SizeStep ==
  ASSUME IInv, NEW t \in Threads, SizeBegin(t) \/ SizeEnd(t)
  PROVE  IInv'
<1>1. \E label \in {"size_read", "idle"} : Goto(t, label)
  BY DEF SizeBegin, SizeEnd
<1>2. \E label \in {"size_read", "idle"} : Goes(t, label)
  BY <1>1, GotoGoes DEF IInv, Labels
<1>3. UNCHANGED <<bufend, begin, end, snap, elems, bytes_left, end_lock, begin_lock>>
  BY DEF SizeBegin, SizeEnd, ring, locks, local
<1> QED BY <1>2, <1>3, Aside DEF Labels, Busy, AtEnd, AtBegin

-----------------------------------------------------------------------------
(* The steps that make and free handles.                                   *)

FreeLabels == {"free_producer", "free_consumer", "free_look",
               "free_wake", "free_null", "free_last", "gone"}

LEMMA HandleStep ==
  ASSUME IInv, NEW t \in Threads,
         ProducerNew(t) \/ ConsumerNew(t) \/ CallFree(t) \/ Release(t)
  PROVE  IInv'
<1>1. UNCHANGED <<bufend, begin, end, snap, elems, bytes_left, end_lock, begin_lock>>
  BY DEF ProducerNew, ConsumerNew, CallFree, Release, FreeProducer, FreeConsumer,
         FreeLook, FreeWake, FreeNull, FreeLast, ring, locks, local
<1>2. LocalOK
  BY DEF IInv
<1>3. CASE ProducerNew(t) \/ ConsumerNew(t)
  <2>1. Goes(t, "idle")
    BY <1>2, <1>3, GotoGoes DEF ProducerNew, ConsumerNew, Labels
  <2> QED BY <1>1, <2>1, Aside DEF Labels, Busy, AtEnd, AtBegin
<1>4. CASE CallFree(t) \/ FreeProducer(t) \/ FreeConsumer(t) \/ FreeLook(t)
           \/ FreeNull(t) \/ FreeLast(t)
  <2>1. \E label \in FreeLabels : Goto(t, label)
    BY <1>4 DEF CallFree, FreeProducer, FreeConsumer, FreeLook, FreeNull, FreeLast, FreeLabels
  <2>2. \E label \in FreeLabels : Goes(t, label)
    BY <1>2, <2>1, GotoGoes DEF FreeLabels, Labels
  <2> QED BY <1>1, <2>2, Aside DEF FreeLabels, Labels, Busy, AtEnd, AtBegin
<1>5. CASE FreeWake(t)
  <2>1. just_popped(t, "gone", TRUE) \/ just_pushed(t, "gone", TRUE)
    BY <1>5 DEF FreeWake
  <2>2. Goes(t, "gone")
    BY <1>2, <2>1, WakeGoes DEF Labels
  <2> QED BY <1>1, <2>2, Aside DEF Labels, Busy, AtEnd, AtBegin
<1> QED BY <1>3, <1>4, <1>5 DEF Release

-----------------------------------------------------------------------------
(* The steps that move the ring.  Who holds a lock keeps out everybody     *)
(* whose snapshot would lose what it rests on.                             *)

(* No thread but t is pushing while t holds end_lock; none is popping      *)
(* while t holds begin_lock, or nobody does.                               *)
LEMMA KeptOut ==
  ASSUME IInv, NEW t \in Threads, NEW u \in Threads, u # t
  PROVE  /\ end_lock = t => pc[u] \notin AtEnd
         /\ begin_lock \in {t, Free} => pc[u] \notin AtBegin
<1>1. locked(u) /\ u # Free
  BY ThreadsAssumption DEF IInv, ThreadOK
<1> QED BY <1>1 DEF locked

(* The size resize_buffer settles on.                                      *)
LEMMA NewSizes ==
  ASSUME Roomy, NEW n \in Nat
  PROVE  /\ new_size(n) \in Nat /\ (new_size(n) = n \/ (Bounded /\ new_size(n) = max_cap))
         /\ Bounded => new_size(n) <= max_cap
         /\ resizes(n) <=> n > DEFAULT_MINCAP
  BY MaxCap, SizesAssumption DEF new_size, resizes, min_cap

(* resize_buffer keeps the elements and, asked for more than is in use,    *)
(* leaves the pointers inside the buffer, old or new; the buffer is then   *)
(* as big as was asked for or as big as it may get.                        *)
LEMMA Resizes ==
  ASSUME RingOK, LocalOK, Roomy, NEW t \in Threads, NEW label \in Labels,
         NEW n \in Nat, n > DEFAULT_MINCAP => n > used, Bounded => used < max_cap,
         resize_buffer(t, n, label)
  PROVE  /\ RingOK' /\ used' = used /\ Goes(t, label)
         /\ bufend' >= n \/ (Bounded /\ bufend' = max_cap + 1)
<1>1. used \in Nat
  BY CurrentRing, UseBounds DEF used, RingOK, make_snapshot, capacity
<1>2. /\ new_size(n) \in Nat /\ (new_size(n) = n \/ (Bounded /\ new_size(n) = max_cap))
      /\ Bounded => new_size(n) <= max_cap
      /\ resizes(n) <=> n > DEFAULT_MINCAP
      /\ n > DEFAULT_MINCAP => new_size(n) > used
  BY <1>1, NewSizes
<1>3. CASE n > DEFAULT_MINCAP
  <2>1. bufend' = new_size(n) + 1 /\ begin' = 0 /\ end' = used + 1 /\ GotoTearing(t, label)
    BY <1>2, <1>3 DEF resize_buffer
  <2>2. new_size(n) > DEFAULT_MINCAP
    BY <1>2, <1>3 DEF resizes, min_cap
  <2>3. RingOK'
    BY <1>1, <1>2, <1>3, <2>1, <2>2, SizesAssumption DEF RingOK, capacity, make_snapshot
  <2>4. used' = used
    BY <1>1, <2>1 DEF used, make_snapshot, bytes_in_use, wraps_around
  <2>5. bufend' >= n \/ (Bounded /\ bufend' = max_cap + 1)
    BY <1>2, <2>1
  <2> QED BY <2>1, <2>3, <2>4, <2>5, GotoGoes
<1>4. CASE ~(n > DEFAULT_MINCAP)
  <2>1. UNCHANGED <<bufend, begin, end>> /\ Goto(t, label)
    BY <1>2, <1>4 DEF resize_buffer
  <2> QED BY <1>4, <2>1, GotoGoes, SizesAssumption DEF RingOK, used, make_snapshot, capacity
<1> QED BY <1>3, <1>4

(* With both locks free of others the ring may change at will.             *)
LEMMA BothLocks ==
  ASSUME IInv, NEW t \in Threads, NEW label, end_lock = t, begin_lock = Free,
         UNCHANGED begin_lock,
         \A u \in Threads \ {t} : snap'[u] = snap[u] /\ elems'[u] = elems[u],
         Goes(t, label), RingOK', LocalOK', ThreadOK(t)'
  PROVE  IInv'
<1>1. ASSUME NEW u \in Threads, u # t PROVE ThreadOK(u)'
  <2>1. pc[u] \notin Busy
    BY <1>1, KeptOut DEF Busy
  <2>2. pc'[u] \notin Busy
    BY <1>1, <2>1 DEF Goes
  <2> QED BY <2>2 DEF ThreadOK, locked, sound, fitting, pushing, Busy, AtEnd, AtBegin
<1> QED BY <1>1 DEF IInv

LEMMA PushUpgradeStep ==
  ASSUME IInv, Roomy, NEW t \in Threads, PushUpgrade(t)
  PROVE  IInv'
<1> DEFINE n == next_pow2(needed(t) + 1)
<1>0. /\ RingOK /\ LocalOK /\ pc[t] = "push_upgrade" /\ end_lock = t
      /\ begin_lock = Free /\ UNCHANGED <<begin_lock, end_lock, elems, bytes_left>>
      /\ snap[t].bufend = bufend /\ sound(t) /\ fitting(t) /\ pushing(t)
  BY DEF IInv, PushUpgrade, ThreadOK, locked, sound, pushing, AtEnd, locks
<1>1. used \in Nat /\ Len(elems[t]) \in Nat /\ needed(t) \in Nat
  BY <1>0, CurrentRing, UseBounds DEF used, RingOK, make_snapshot, capacity, LocalOK, needed
<1>10. Bounded => used < max_cap
  BY <1>0, <1>1, MaxCap, SnapUse DEF sound, fitting
<1>2. n \in Nat /\ n > needed(t) /\ n > used
  <2>1. n \in Nat /\ n >= needed(t) + 1
    <3>1. needed(t) + 1 \in Nat BY <1>1
    <3> QED BY <3>1, NextPow2RoundsUp
  <2> QED BY <1>1, <2>1 DEF needed
<1>3. /\ RingOK' /\ used' = used /\ Goes(t, "push_copy")
      /\ needed(t) + 1 <= bufend' \/ (Bounded /\ bufend' = max_cap + 1)
  <2>1. CASE needed(t) > capacity(snap[t])
    <3>1. resize_buffer(t, n, "push_copy")
      BY <2>1 DEF PushUpgrade
    <3>2. /\ RingOK' /\ used' = used /\ Goes(t, "push_copy")
          /\ bufend' >= n \/ (Bounded /\ bufend' = max_cap + 1)
      <4> HIDE DEF n
      <4> QED BY <1>0, <1>2, <1>10, <3>1, Resizes DEF Labels
    <3>3. bufend' \in Nat
      BY <3>2 DEF RingOK
    <3>4. bufend' >= n => needed(t) + 1 <= bufend'
      <4> HIDE DEF n
      <4> QED BY <1>1, <1>2, <3>3
    <3> QED BY <3>2, <3>4
  <2>2. CASE ~(needed(t) > capacity(snap[t]))
    <3>1. UNCHANGED <<bufend, begin, end>> /\ Goto(t, "push_copy")
      BY <2>2 DEF PushUpgrade
    <3>2. Goes(t, "push_copy")
      BY <1>0, <3>1, GotoGoes DEF Labels
    <3>3. RingOK' /\ used' = used
      BY <1>0, <3>1 DEF RingOK, used, make_snapshot, capacity
    <3>4. needed(t) + 1 <= bufend'
      BY <1>0, <1>1, <2>2, <3>1 DEF RingOK, capacity
    <3> QED BY <3>2, <3>3, <3>4
  <2> QED BY <2>1, <2>2
<1>4. refreshed(t) = make_snapshot'
  BY DEF refreshed, make_snapshot
<1>5. snap' = [snap EXCEPT ![t] = make_snapshot']
  BY <1>4 DEF PushUpgrade
<1>6. make_snapshot' \in AnySnapshot
  BY <1>3 DEF RingOK, make_snapshot, AnySnapshot
<1>7. LocalOK' /\ snap'[t] = make_snapshot'
  BY <1>0, <1>3, <1>5, <1>6 DEF LocalOK, Goes
<1>8. ThreadOK(t)'
  <2>1. locked(t)'
    BY <1>0, <1>3 DEF locked, Goes, AtEnd, AtBegin
  <2>2. sound(t)'
    <3>1. used' \in Nat BY <1>1, <1>3
    <3> QED BY <1>3, <1>7, <3>1 DEF sound, pushing, Goes, RingOK, used, make_snapshot
  <2>3. fitting(t)'
    <3>0. PICK s : s = make_snapshot'
      OBVIOUS
    <3>1. bytes_in_use(s) = used
      BY <1>3, <3>0 DEF used
    <3>2. bufend' \in Nat /\ capacity(s) = bufend' - 1
      BY <1>3, <3>0 DEF RingOK, capacity, make_snapshot
    <3>6. PICK k : k = push_count(s, Len(elems[t]))
      OBVIOUS
    <3>3. k \in 0 .. Len(elems[t]) /\ (Bounded => used + k <= max_cap)
      <4>1. bytes_in_use(s) \in Int /\ (Bounded => bytes_in_use(s) < max_cap)
        BY <1>1, <1>10, <3>1
      <4>2. k \in 0 .. Len(elems[t]) /\ (Bounded => bytes_in_use(s) + k <= max_cap)
        BY <1>1, <3>6, <4>1, PushCounts
      <4> QED BY <3>1, <4>2
    <3>4. pushed(t)' = k
      BY <1>0, <1>7, <3>0, <3>6 DEF pushed
    <3>5. fits(s, k)
      <4>1. CASE needed(t) + 1 <= bufend'
        <5>1. k \in Nat /\ used + k <= needed(t)
          BY <1>1, <3>3 DEF needed
        <5>2. needed(t) <= bufend' - 1
          BY <1>1, <3>2, <4>1
        <5>3. used + k <= bufend' - 1
          <6>1. used + k \in Nat /\ bufend' - 1 \in Int
            BY <1>1, <3>2, <5>1
          <6> QED BY <1>1, <5>1, <5>2, <6>1
        <5> QED BY <3>1, <3>2, <5>3 DEF fits
      <4>2. CASE Bounded /\ bufend' = max_cap + 1
        BY <1>1, <3>1, <3>2, <3>3, <4>2, MaxCap DEF fits
      <4> QED BY <1>3, <4>1, <4>2
    <3> QED BY <1>7, <1>10, <3>0, <3>1, <3>4, <3>5 DEF fitting
  <2> QED BY <2>1, <2>2, <2>3 DEF ThreadOK
<1>9. \A u \in Threads \ {t} : snap'[u] = snap[u] /\ elems'[u] = elems[u]
  BY <1>0, <1>5 DEF LocalOK
<1> QED BY <1>0, <1>3, <1>7, <1>8, <1>9, BothLocks

LEMMA PopTrimStep ==
  ASSUME IInv, Roomy, NEW t \in Threads, PopTrim(t)
  PROVE  IInv'
<1> DEFINE n == capacity(make_snapshot) \div 2
<1>0. /\ RingOK /\ LocalOK /\ pc[t] = "pop_trim" /\ end_lock = t
      /\ begin_lock = Free /\ UNCHANGED <<begin_lock, snap, elems, bytes_left>>
  BY DEF IInv, PopTrim, ThreadOK, locked, AtEnd, local
<1>1. used \in Nat /\ bufend \in Nat /\ bufend >= 2 /\ capacity(make_snapshot) = bufend - 1
  BY <1>0, SizesAssumption, CurrentRing, UseBounds
  DEF used, RingOK, make_snapshot, capacity
<1>2. RingOK' /\ Goes(t, "pop_signal")
  <2>1. CASE trims
    <3>1. resize_buffer(t, n, "pop_signal")
      BY <2>1 DEF PopTrim
    <3>2. n \in Nat /\ (n > DEFAULT_MINCAP => n > used)
      BY <1>1, <2>1, SizesAssumption DEF trims
    <3>3. Bounded => used < max_cap
      BY <1>0, <1>1, <2>1, MaxCap DEF trims, RingOK
    <3> HIDE DEF n
    <3> QED BY <1>0, <3>1, <3>2, <3>3, Resizes DEF Labels
  <2>2. CASE ~trims
    <3>1. UNCHANGED <<bufend, begin, end>> /\ Goto(t, "pop_signal")
      BY <2>2 DEF PopTrim
    <3> QED BY <1>0, <3>1, GotoGoes DEF RingOK, Labels, capacity, make_snapshot
  <2> QED BY <2>1, <2>2
<1>3. LocalOK'
  BY <1>0, <1>2 DEF LocalOK, Goes
<1>4. ThreadOK(t)'
  BY <1>2 DEF Goes, ThreadOK, locked, sound, fitting, pushing, AtEnd, AtBegin
<1> QED BY <1>0, <1>2, <1>3, <1>4, BothLocks

LEMMA PublishUse ==
  ASSUME Roomy, RingOK, LocalOK, NEW t \in Threads, sound(t), pushing(t), fitting(t),
         pc[t] \in {"push_copy", "push_publish"}, end' = push_end(snap[t], pushed(t)),
         UNCHANGED <<bufend, begin>>
  PROVE  RingOK' /\ used' = used + pushed(t)
<1> DEFINE n == pushed(t)
<1>1. n \in Nat /\ fits(snap[t], n)
  BY PushedBounds DEF fitting
<1>2. snap[t] \in Rings /\ make_snapshot \in Rings
  BY SoundRing, CurrentRing
<1> HIDE DEF n
<1>3. end' = push_end(snap[t], n)
  BY DEF n
<1>4. end' \in 0 .. bufend - 1
  BY <1>1, <1>2, <1>3, PushMoves DEF sound
<1>5. RingOK' /\ make_snapshot' \in Rings
  BY <1>4 DEF RingOK, Rings, make_snapshot, capacity
<1>6. /\ make_snapshot.bufend = snap[t].bufend /\ make_snapshot.end = snap[t].end
      /\ bytes_in_use(make_snapshot) <= bytes_in_use(snap[t])
  BY DEF sound, used, make_snapshot
<1>7. /\ make_snapshot'.bufend = snap[t].bufend
      /\ make_snapshot'.begin = make_snapshot.begin
      /\ make_snapshot'.end = push_end(snap[t], n)
  BY <1>3 DEF sound, make_snapshot
<1>8. bytes_in_use(make_snapshot') = bytes_in_use(make_snapshot) + n
  BY <1>1, <1>2, <1>5, <1>6, <1>7, PushMoves
<1> QED BY <1>5, <1>8 DEF used, n

(* Moving p->end, with end_lock: poppers see more elements.                *)
LEMMA EndMoves ==
  ASSUME IInv, Roomy, NEW t \in Threads, NEW label \in Labels, Goto(t, label),
         pc[t] \in {"push_copy", "push_publish"},
         end' = push_end(snap[t], pushed(t)), UNCHANGED <<bufend, begin, begin_lock>>,
         \A u \in Threads \ {t} : snap'[u] = snap[u] /\ elems'[u] = elems[u],
         LocalOK', ThreadOK(t)'
  PROVE  IInv'
<1> DEFINE n == pushed(t)
<1>0. RingOK /\ LocalOK /\ end_lock = t /\ sound(t) /\ pushing(t) /\ fitting(t)
  BY DEF IInv, ThreadOK, locked, pushing, AtEnd
<1>1. n \in Nat
  BY <1>0, PushedBounds
<1>2. snap[t] \in Rings /\ make_snapshot \in Rings
  BY <1>0, SoundRing, CurrentRing
<1>5. RingOK' /\ used' = used + n
  BY <1>0, PublishUse
<1> HIDE DEF n
<1>6. used \in Nat
  BY <1>0, <1>2, UseBounds DEF used, RingOK, make_snapshot, capacity
<1>7. Goes(t, label)
  BY <1>0, GotoGoes
<1>8. ASSUME NEW u \in Threads, u # t PROVE ThreadOK(u)'
  <2>1. pc[u] \notin AtEnd /\ ThreadOK(u)
    BY <1>0, <1>8, KeptOut DEF IInv
  <2>2. pc'[u] = pc[u] \/ pc'[u] \notin Busy
    BY <1>7, <1>8 DEF Goes
  <2>3. CASE pc'[u] \notin Busy
    BY <2>3 DEF ThreadOK, locked, sound, fitting, pushing, Busy, AtEnd, AtBegin
  <2>4. CASE pc'[u] = pc[u]
    <3>1. locked(u)' /\ fitting(u)'
      BY <1>8, <2>1, <2>4 DEF ThreadOK, locked, fitting, pushing, AtEnd
    <3>2. pc[u] = "pop_copy" => bytes_in_use(snap[u]) \in Nat
      BY <1>0, <2>1, SoundRing, UseBounds DEF ThreadOK, sound, capacity, RingOK
    <3>3. sound(u)'
      BY <1>1, <1>5, <1>6, <1>8, <2>1, <2>4, <3>2 DEF ThreadOK, sound, pushing, AtEnd
    <3> QED BY <3>1, <3>3 DEF ThreadOK
  <2> QED BY <2>2, <2>3, <2>4
<1> QED BY <1>5, <1>8 DEF IInv

LEMMA PushPublishStep ==
  ASSUME IInv, Roomy, NEW t \in Threads, PushPublish(t)
  PROVE  IInv'
<1>0. LocalOK /\ ThreadOK(t) /\ pc[t] = "push_publish"
  BY DEF IInv, PushPublish
<1>1. Goto(t, "push_signal") /\ Goes(t, "push_signal")
  BY <1>0, GotoGoes DEF PushPublish, Pushed, Labels
<1>2. rest(t) \in Seq(Elements)
  BY <1>0, PushedBounds DEF ThreadOK, pushing
<1>3. LocalOK'
  BY <1>0, <1>1, <1>2, Snapshots2 DEF IInv, LocalOK, PushPublish, Pushed, Goes
<1>4. ThreadOK(t)'
  BY <1>1 DEF Goes, ThreadOK, locked, sound, fitting, pushing, AtEnd, AtBegin
<1>5. \A u \in Threads \ {t} : snap'[u] = snap[u] /\ elems'[u] = elems[u]
  BY <1>0 DEF LocalOK, PushPublish, Pushed
<1> QED BY <1>1, <1>3, <1>4, <1>5, EndMoves DEF PushPublish, Labels

LEMMA PushPublishEarlyStep ==
  ASSUME IInv, Roomy, NEW t \in Threads, PushPublishEarly(t)
  PROVE  IInv'
<1>0. LocalOK /\ end_lock = t /\ pc[t] = "push_copy" /\ fitting(t)
  BY DEF IInv, PushPublishEarly, ThreadOK, locked, AtEnd
<1>1. Goto(t, "push_late") /\ Goes(t, "push_late")
  BY <1>0, GotoGoes DEF PushPublishEarly, Labels
<1>2. UNCHANGED <<snap, elems, bytes_left, end_lock>>
  BY DEF PushPublishEarly, local, locks
<1>3. LocalOK'
  BY <1>0, <1>1, <1>2 DEF LocalOK, Goes
<1>4. ThreadOK(t)'
  BY <1>0, <1>1, <1>2 DEF Goes, ThreadOK, locked, sound, fitting, pushing, AtEnd, AtBegin
<1> QED BY <1>0, <1>1, <1>2, <1>3, <1>4, EndMoves DEF PushPublishEarly, locks, Labels

LEMMA PushCopyLateStep ==
  ASSUME IInv, Roomy, NEW t \in Threads, PushCopyLate(t)
  PROVE  IInv'
<1>0. LocalOK /\ ThreadOK(t) /\ pc[t] = "push_late" /\ end_lock = t
  BY DEF IInv, PushCopyLate, ThreadOK, locked, AtEnd
<1>1. Goes(t, "push_signal")
  BY <1>0, GotoGoes DEF PushCopyLate, Pushed, Labels
<1>2. rest(t) \in Seq(Elements)
  BY <1>0, PushedBounds DEF ThreadOK, pushing
<1>3. LocalOK'
  BY <1>0, <1>1, <1>2, Snapshots2 DEF IInv, LocalOK, PushCopyLate, Pushed, Goes
<1>4. Alone(t)
  BY <1>0 DEF LocalOK, PushCopyLate, Pushed, Alone
<1> QED BY <1>1, <1>3, <1>4, Minor DEF Labels, Busy, AtEnd, AtBegin

LEMMA PopUse ==
  ASSUME RingOK, LocalOK, NEW t \in Threads, sound(t), pc[t] = "pop_copy",
         NEW n \in 0 .. bytes_in_use(snap[t]), begin' = pop_begin(snap[t], n),
         UNCHANGED <<bufend, end>>
  PROVE  RingOK' /\ used' = used - n
<1>1. snap[t] \in Rings /\ make_snapshot \in Rings
  BY SoundRing, CurrentRing
<1>2. begin' \in 0 .. bufend - 1
  BY <1>1, PopMoves DEF sound
<1>3. RingOK' /\ make_snapshot' \in Rings
  BY <1>2 DEF RingOK, Rings, make_snapshot, capacity
<1>4. /\ make_snapshot.bufend = snap[t].bufend /\ make_snapshot.begin = snap[t].begin
      /\ bytes_in_use(snap[t]) <= bytes_in_use(make_snapshot)
  BY DEF sound, used, make_snapshot
<1>5. /\ make_snapshot'.bufend = snap[t].bufend
      /\ make_snapshot'.begin = pop_begin(snap[t], n)
      /\ make_snapshot'.end = make_snapshot.end
  BY DEF sound, make_snapshot
<1>6. bytes_in_use(make_snapshot') = bytes_in_use(make_snapshot) - n
  BY <1>1, <1>3, <1>4, <1>5, PopMoves
<1> QED BY <1>3, <1>6 DEF used

(* Moving p->begin, with begin_lock: pushers see fewer elements.           *)
LEMMA PopCopyStep ==
  ASSUME IInv, NEW t \in Threads, PopCopy(t)
  PROVE  IInv'
<1> DEFINE s == snap[t]
           n == min(bytes_left[t], bytes_in_use(s))
           after == [s EXCEPT !.begin = pop_begin(s, n)]
           label == IF sane_size(after)
                    THEN "pop_signal" ELSE "pop_trim_end"
<1>0. RingOK /\ LocalOK /\ begin_lock = t /\ sound(t) /\ pc[t] = "pop_copy"
  BY DEF IInv, PopCopy, ThreadOK, locked, AtBegin
<1>1. /\ begin' = pop_begin(s, n) /\ GotoTearing(t, label)
      /\ bytes_left' = [bytes_left EXCEPT ![t] = @ - n]
      /\ snap' = [snap EXCEPT ![t] = NoSnapshot]
      /\ begin_lock' = Free
      /\ UNCHANGED <<bufend, end, end_lock, elems>>
  BY DEF PopCopy
<1>2. s \in Rings /\ make_snapshot \in Rings
  BY <1>0, SoundRing, CurrentRing
<1>3. n \in 0 .. bytes_in_use(s) /\ n <= bytes_left[t]
  <2>1. bytes_left[t] \in Nat
    BY <1>0 DEF LocalOK
  <2>2. bytes_in_use(s) \in Nat
    <3> HIDE DEF s
    <3> QED BY <1>2, UseBounds DEF Rings, capacity
  <2> HIDE DEF s
  <2> QED BY <2>1, <2>2 DEF min
<1>4. label \in Labels \ Busy /\ Goes(t, label)
  <2>1. label \in Labels \ Busy
    BY DEF Labels, Busy, AtEnd, AtBegin
  <2> HIDE DEF label
  <2> QED BY <1>0, <1>1, <2>1, GotoGoes
<1> HIDE DEF label, n
<1>5. pop_begin(s, n) \in 0 .. s.bufend - 1
  BY <1>2, <1>3, PopMoves
<1>6. RingOK' /\ make_snapshot' \in Rings
  BY <1>0, <1>1, <1>5 DEF sound, RingOK, Rings, make_snapshot, capacity
<1>7. used' = used - n
  BY <1>0, <1>1, <1>3, PopUse
<1>8. used \in Nat /\ used' \in Nat /\ n \in Nat
  <2>1. used \in Nat /\ used' \in Nat
    BY <1>2, <1>6, UseBounds DEF used, Rings, capacity
  <2>2. bytes_in_use(s) \in Nat
    BY <1>2, UseBounds DEF Rings, capacity
  <2> QED BY <1>3, <2>1, <2>2
<1>9. LocalOK'
  <2>1. bytes_left[t] - n \in Nat
    BY <1>0, <1>3, <1>8 DEF LocalOK
  <2>2. bytes_left' \in [Threads -> Nat]
    BY <1>0, <1>1, <2>1 DEF LocalOK
  <2> QED BY <1>0, <1>1, <1>4, <2>2, Snapshots2 DEF LocalOK, Goes
<1>10. ThreadOK(t)'
  BY <1>4 DEF Goes, ThreadOK, locked, sound, fitting, pushing, Busy, AtEnd, AtBegin
<1>11. ASSUME NEW u \in Threads, u # t PROVE ThreadOK(u)'
  <2>1. pc[u] \notin AtBegin /\ ThreadOK(u)
    BY <1>0, <1>11, KeptOut DEF IInv
  <2>2. pc'[u] = pc[u] \/ pc'[u] \notin Busy
    BY <1>4, <1>11 DEF Goes
  <2>3. CASE pc'[u] \notin Busy
    BY <2>3 DEF ThreadOK, locked, sound, fitting, pushing, Busy, AtEnd, AtBegin
  <2>4. CASE pc'[u] = pc[u]
    <3>1. snap'[u] = snap[u] /\ elems'[u] = elems[u]
      BY <1>0, <1>1, <1>11 DEF LocalOK
    <3>2. locked(u)' /\ fitting(u)'
      BY <1>1, <2>1, <2>4, <3>1 DEF ThreadOK, locked, fitting, pushing, pushed, AtBegin
    <3>3. pushing(u) => bytes_in_use(snap[u]) \in Nat
      BY <1>0, <2>1, SoundRing, UseBounds DEF ThreadOK, sound, capacity, RingOK
    <3>4. sound(u)'
      BY <1>1, <1>7, <1>8, <2>1, <2>4, <3>1, <3>3 DEF ThreadOK, sound, pushing, AtBegin
    <3> QED BY <3>2, <3>4 DEF ThreadOK
  <2> QED BY <2>2, <2>3, <2>4
<1> QED BY <1>6, <1>9, <1>10, <1>11 DEF IInv

-----------------------------------------------------------------------------
(* The invariant holds in the state pipe_new leaves, and every step of     *)
(* every thread keeps it.                                                  *)
LEMMA InitIInv == Roomy /\ Init => IInv
<1> SUFFICES ASSUME Roomy, Init PROVE IInv
  OBVIOUS
<1>1. RingOK
  BY SizesAssumption, MaxCap DEF Init, RingOK, capacity, make_snapshot
<1>2. LocalOK
  BY Snapshots2, <1>1, EmptySeq DEF Init, LocalOK, Labels
<1>3. \A t \in Threads : ThreadOK(t)
  BY DEF Init, ThreadOK, locked, sound, fitting, pushing, AtEnd, AtBegin
<1> QED BY <1>1, <1>2, <1>3 DEF IInv

LEMMA BatchesAreSeqs == Batches \subseteq Seq(Elements)
  BY BoundsAssumption DEF Batches

LEMMA NextIInv ==
  ASSUME Roomy, IInv, [Next]_vars
  PROVE  IInv'
<1>1. ASSUME NEW t \in Producers, ProducerCalls(t) \/ Push(t) \/ PushLock(t)
      PROVE  IInv'
  <2>0. t \in Threads
    BY DEF Threads
  <2>1. CASE ProducerCalls(t)
    BY <2>0, <2>1, BatchesAreSeqs, HandleStep, CallPushStep DEF ProducerCalls
  <2>2. CASE Push(t)
    BY <2>0, <2>2, PushRoomStep, PushSleepStep, PushUpgradeStep, PushCopyStep,
       PushPublishStep, PushPublishEarlyStep, PushCopyLateStep, PushSignalStep DEF Push
  <2>3. CASE PushLock(t)
    BY <2>0, <2>3, PushLockStep
  <2> QED BY <1>1, <2>1, <2>2, <2>3
<1>2. ASSUME NEW t \in Consumers, ConsumerCalls(t) \/ Pop(t) \/ PopLock(t) \/ PopTrimEnd(t)
      PROVE  IInv'
  <2>0. t \in Threads
    BY DEF Threads
  <2>1. CASE ConsumerCalls(t)
    <3>1. 1 .. MaxPop \subseteq Nat
      BY BoundsAssumption
    <3> QED BY <2>0, <2>1, <3>1, HandleStep, SizeStep, CallPopStep DEF ConsumerCalls
  <2>2. CASE Pop(t)
    BY <2>0, <2>2, PopLookStep, PopSleepStep, PopCopyStep, PopTrimStep, PopSignalStep,
       SizeStep DEF Pop
  <2>3. CASE PopLock(t) \/ PopTrimEnd(t)
    BY <2>0, <2>3, PopLockStep, PopTrimEndStep
  <2> QED BY <1>2, <2>1, <2>2, <2>3
<1>3. ASSUME NEW t \in Threads, CallFree(t) \/ Release(t) \/ SpuriousWake(t)
      PROVE  IInv'
  BY <1>3, HandleStep, SpuriousWakeStep
<1>4. ASSUME UNCHANGED vars
      PROVE  IInv'
  BY <1>4 DEF vars, ring, locks, local, IInv, RingOK, LocalOK, ThreadOK, locked, sound, fitting,
              pushing, pushed, used, make_snapshot, capacity
<1> QED BY <1>1, <1>2, <1>3, <1>4 DEF Next

(* On a pipe that may grow the inductive invariant is an invariant.        *)
THEOREM Invariance ==
  ASSUME Roomy
  PROVE  Spec => []IInv
<1>1. Init => IInv
  BY InitIInv
<1>2. IInv /\ [Next]_vars => IInv'
  BY NextIInv
<1> QED BY <1>1, <1>2, PTL DEF Spec

(* Two locks are enough (pipe.c:135-142): what a pusher and a popper take  *)
(* from their snapshots is current or errs on the safe side.               *)
THEOREM SnapshotsStaySound ==
  ASSUME Roomy
  PROVE  Spec => []SnapshotSound
<1>1. IInv => SnapshotSound
  BY DEF IInv, ThreadOK, sound, SnapshotSound
<1> QED BY <1>1, Invariance, PTL

(* The elements a pusher copies go into cells that are neither the         *)
(* sentinel nor live.                                                      *)
LEMMA CopiesAside ==
  ASSUME Roomy, IInv
  PROVE  NoOverlap
<1>1. SUFFICES ASSUME NEW t \in Threads, pc[t] = "push_copy",
                      NEW i \in 0 .. Len(batch(t)) - 1
               PROVE  wrap_ptr_if_necessary(snap[t].end + i, bufend) \notin live
  BY DEF NoOverlap
<1> DEFINE n == pushed(t)
<1>2. /\ RingOK /\ LocalOK /\ sound(t) /\ pushing(t) /\ fitting(t) /\ fits(snap[t], n)
  BY <1>1 DEF IInv, ThreadOK, fitting, pushing
<1>3. n \in Nat /\ Len(batch(t)) = n
  BY <1>2, PushedBounds
<1>4. snap[t] \in Rings /\ make_snapshot \in Rings
  BY <1>2, SoundRing, CurrentRing
<1>5. /\ used \in Nat /\ used + n <= bufend - 1 /\ snap[t].end = end
  <2>1. used \in Nat /\ bytes_in_use(snap[t]) \in Nat
    BY <1>4, UseBounds DEF used, Rings, capacity
  <2> HIDE DEF n
  <2> QED BY <1>2, <1>3, <2>1 DEF sound, fits, capacity, RingOK
<1>6. used = IF begin >= end THEN end + bufend - begin - 1 ELSE end - begin - 1
  BY <1>2 DEF used, bytes_in_use, wraps_around, make_snapshot, RingOK
<1>7. ASSUME NEW j \in 0 .. used
      PROVE  wrap_ptr_if_necessary(end + i, bufend) # wrap_ptr_if_necessary(begin + j, bufend)
  <2> HIDE DEF n
  <2>1. i \in Nat /\ i < n /\ j \in Nat /\ j <= used
    BY <1>3, <1>5
  <2>2. /\ bufend \in Nat /\ begin \in Nat /\ end \in Nat
        /\ begin < bufend /\ end < bufend
    BY <1>2 DEF RingOK
  <2> QED BY <1>3, <1>5, <1>6, <2>1, <2>2 DEF wrap_ptr_if_necessary
<1> QED BY <1>5, <1>7 DEF live

(* So they go into memory that no popper reads meanwhile.                  *)
THEOREM CopiesNeverOverlap ==
  ASSUME Roomy
  PROVE  Spec => []NoOverlap
<1>1. IInv => NoOverlap
  BY CopiesAside
<1> QED BY <1>1, Invariance, PTL

-----------------------------------------------------------------------------
(* The handles.                                                            *)

Giving  == {"free_producer", "free_consumer"}
Pushing == {"push_lock", "push_room", "push_sleep", "push_asleep", "push_upgrade",
            "push_copy", "push_publish", "push_late", "push_signal"}
Popping == {"pop_lock", "pop_look", "pop_sleep", "pop_asleep", "pop_copy",
            "pop_trim_end", "pop_trim", "pop_signal", "size_read", "size_torn"}
Using   == {"idle"} \cup Pushing \cup Popping
Filling == {"push_upgrade", "push_copy", "push_publish", "push_late"}

(* Who has a handle that counts as a producer's, or as a consumer's.       *)
producing == {t \in Threads \ Consumers : pc[t] \notin Past \cup {"free_consumer"}}
consuming == {t \in Threads \ Producers : pc[t] \notin Past}

Counted ==
  /\ producer_refcount = Cardinality(producing)
  /\ consumer_refcount = Cardinality(consuming)

(* Every thread makes the calls of its own kind of handle.                 *)
OfItsKind(t) ==
  /\ pc[t] \in Pushing => t \in Producers
  /\ pc[t] \in Popping => t \in Consumers
  /\ pc[t] = "free_producer" => t \notin Consumers
  /\ pc[t] = "free_consumer" => t \notin Producers
  /\ pc[t] = "free_null" => t = Owner
  /\ pc[t] \in {"none", "free_look"} => t # Owner

(* What a thread has seen of a count it still may go by.                   *)
Informed(t) ==
  /\ pc[t] \in Filling => consumer_refcount # 0
  /\ pc[t] = "free_look" => IF t \in Producers THEN producer_refcount = 0
                                               ELSE consumer_refcount = 0
  /\ pc[t] = "free_null" => consumer_refcount = 0
  /\ pc[t] = "free_last" => producer_refcount = 0 /\ consumer_refcount = 0

HandleOK(t) == OfItsKind(t) /\ locked(t) /\ Informed(t)

Leftover ==
  /\ pc[Owner] \in {"free_consumer", "free_null"} =>
       moved[Owner] \in Nat /\ (moved[Owner] = 0 => producer_refcount = 0)
  /\ ~allocated => consumer_refcount = 0
  /\ deallocated => producer_refcount = 0 /\ consumer_refcount = 0

PcOK == pc \in [Threads -> Labels] /\ \E S : moved \in [Threads -> S]

HInv == PcOK /\ Counted /\ Leftover /\ \A t \in Threads : HandleOK(t)

-----------------------------------------------------------------------------
(* The sets of handles are finite, so a count is 0 when nobody has one.    *)
LEMMA ThreadsFinite == IsFiniteSet(Threads)
<1>1. IsFiniteSet(Producers \cup Consumers)
  BY ThreadsAssumption, FS_Union
<1> QED BY <1>1, FS_AddElement DEF Threads

LEMMA HandlesFinite ==
  /\ IsFiniteSet(producing) /\ IsFiniteSet(consuming)
  /\ Cardinality(producing) \in Nat /\ Cardinality(consuming) \in Nat
  /\ Cardinality(producing) = 0 <=> producing = {}
  /\ Cardinality(consuming) = 0 <=> consuming = {}
<1>1. producing \in SUBSET Threads /\ consuming \in SUBSET Threads
  BY DEF producing, consuming
<1>2. IsFiniteSet(producing) /\ IsFiniteSet(consuming)
  BY <1>1, ThreadsFinite, FS_Subset
<1> QED BY <1>2, FS_CardinalityType, FS_EmptySet

LEMMA Counts ==
  ASSUME Counted
  PROVE  /\ producer_refcount \in Nat /\ consumer_refcount \in Nat
         /\ producer_refcount = 0 <=> producing = {}
         /\ consumer_refcount = 0 <=> consuming = {}
  BY HandlesFinite DEF Counted

LEMMA CountsAreNat == HInv => producer_refcount \in Nat /\ consumer_refcount \in Nat
  BY Counts DEF HInv

(* The threads that a step only sends somewhere.                           *)
Nudges == {<<"size_read", "size_torn">>, <<"pop_asleep", "pop_lock">>,
           <<"push_asleep", "push_lock">>}

Steers(t, label) ==
  /\ pc' \in [Threads -> Labels]
  /\ pc'[t] = label
  /\ \A u \in Threads \ {t} : pc'[u] = pc[u] \/ <<pc[u], pc'[u]>> \in Nudges

LEMMA GotoSteers ==
  ASSUME PcOK, NEW t \in Threads, NEW label \in Labels,
         Goto(t, label) \/ GotoTearing(t, label)
  PROVE  Steers(t, label)
<1>1. CASE Goto(t, label)
  BY <1>1 DEF PcOK, Goto, Steers
<1>2. CASE GotoTearing(t, label)
  BY <1>2 DEF PcOK, GotoTearing, Steers, Labels, Nudges
<1> QED BY <1>1, <1>2

LEMMA WakeSteers ==
  ASSUME PcOK, NEW t \in Threads, NEW label \in Labels, NEW all,
         just_pushed(t, label, all) \/ just_popped(t, label, all)
  PROVE  Steers(t, label)
<1> DEFINE sent(u, woken, relock) == IF u = t THEN label ELSE IF u \in woken THEN relock ELSE pc[u]
<1>1. \E move \in {<<"pop_asleep", "pop_lock">>, <<"push_asleep", "push_lock">>} :
        \E woken \in SUBSET {u \in Threads : pc[u] = move[1]} :
          pc' = [u \in Threads |-> sent(u, woken, move[2])]
  <2>1. CASE just_pushed(t, label, all)
    BY <2>1 DEF just_pushed, Wake
  <2>2. CASE just_popped(t, label, all)
    BY <2>2 DEF just_popped, Wake
  <2> QED BY <2>1, <2>2
<1> QED BY <1>1 DEF PcOK, Steers, Labels, Nudges

-----------------------------------------------------------------------------
(* A step of a call by a thread that keeps its handle changes no count.    *)
Quiet(t, label) ==
  /\ Steers(t, label) /\ pc[t] \in Using /\ label \in Using
  /\ label \in Pushing => t \in Producers
  /\ label \in Popping => t \in Consumers
  /\ label \in AtEnd => end_lock' = t
  /\ label \in AtBegin => begin_lock' = t
  /\ label \in Filling => consumer_refcount # 0
  /\ end_lock' = end_lock \/ end_lock = Free \/ end_lock = t
  /\ begin_lock' = begin_lock \/ begin_lock = Free \/ begin_lock = t
  /\ UNCHANGED <<producer_refcount, consumer_refcount, allocated, deallocated>>
  /\ moved' = moved \/ (t # Owner /\ \E n : moved' = [moved EXCEPT ![t] = n])

LEMMA SameHolders ==
  ASSUME PcOK, NEW t \in Threads, NEW label \in Using, Steers(t, label), pc[t] \in Using
  PROVE  producing' = producing /\ consuming' = consuming
<1>1. ASSUME NEW u \in Threads
      PROVE  /\ pc[u] \in Past <=> pc'[u] \in Past
             /\ pc[u] = "free_consumer" <=> pc'[u] = "free_consumer"
  BY DEF Steers, Nudges, Using, Pushing, Popping, Past
<1> QED BY <1>1 DEF producing, consuming

LEMMA OthersStay ==
  ASSUME HInv, NEW t \in Threads, NEW label, Steers(t, label),
         end_lock' = end_lock \/ end_lock = Free \/ end_lock = t,
         begin_lock' = begin_lock \/ begin_lock = Free \/ begin_lock = t,
         NEW u \in Threads \ {t}
  PROVE  OfItsKind(u)' /\ locked(u)'
<1>1. OfItsKind(u) /\ locked(u) /\ u # Free /\ (pc'[u] = pc[u] \/ <<pc[u], pc'[u]>> \in Nudges)
  BY ThreadsAssumption DEF HInv, HandleOK, Steers
<1>2. CASE pc'[u] = pc[u]
  BY <1>1, <1>2 DEF OfItsKind, locked
<1>3. CASE <<pc[u], pc'[u]>> \in Nudges
  BY <1>1, <1>3 DEF OfItsKind, locked, Nudges, AtEnd, AtBegin, Pushing, Popping
<1> QED BY <1>1, <1>2, <1>3

LEMMA MovedKeepsType ==
  ASSUME PcOK, NEW t \in Threads, NEW n, moved' = [moved EXCEPT ![t] = n]
  PROVE  /\ \E S : moved' \in [Threads -> S]
         /\ moved'[t] = n
         /\ \A u \in Threads \ {t} : moved'[u] = moved[u]
<1>1. PICK S : moved \in [Threads -> S]
  BY DEF PcOK
<1>2. moved' \in [Threads -> S \cup {n}]
  BY <1>1
<1> QED BY <1>1, <1>2

LEMMA QuietKeeps ==
  ASSUME HInv, NEW t \in Threads, NEW label, Quiet(t, label)
  PROVE  HInv'
<1>0. PcOK /\ Steers(t, label) /\ Owner \in Threads
  BY DEF HInv, Quiet, Threads
<1>1. PcOK' /\ moved'[Owner] = moved[Owner]
  <2>1. CASE moved' = moved
    BY <1>0, <2>1 DEF PcOK, Steers
  <2>2. CASE t # Owner /\ \E n : moved' = [moved EXCEPT ![t] = n]
    BY <1>0, <2>2, MovedKeepsType DEF PcOK, Steers
  <2> QED BY <2>1, <2>2 DEF Quiet
<1>2. Counted'
  BY <1>0, SameHolders DEF HInv, Counted, Quiet
<1>3. Leftover'
  <2>1. pc'[Owner] \in {"free_consumer", "free_null"} => pc'[Owner] = pc[Owner]
    BY <1>0 DEF Quiet, Steers, Nudges, Using, Pushing, Popping
  <2> QED BY <1>1, <2>1 DEF HInv, Leftover, Quiet
<1>4. HandleOK(t)'
  BY DEF Quiet, Steers, HandleOK, OfItsKind, locked, Informed, Using, Pushing, Popping
<1>5. ASSUME NEW u \in Threads \ {t} PROVE HandleOK(u)'
  <2>1. OfItsKind(u)' /\ locked(u)'
    BY <1>0, OthersStay DEF Quiet
  <2>2. Informed(u) /\ (pc'[u] = pc[u] \/ <<pc[u], pc'[u]>> \in Nudges)
    BY <1>0 DEF HInv, HandleOK, Steers
  <2>3. Informed(u)'
    BY <2>2 DEF Informed, Nudges, Quiet, Filling
  <2> QED BY <2>1, <2>3 DEF HandleOK
<1> QED BY <1>1, <1>2, <1>3, <1>4, <1>5 DEF HInv

-----------------------------------------------------------------------------
(* The steps of pipe_push, pipe_pop and pipe_size are quiet.               *)
LEMMA PushQuiet ==
  ASSUME HInv, NEW t \in Producers,
         Push(t) \/ PushLock(t) \/ \E es \in Batches : CallPush(t, es)
  PROVE  \E label : Quiet(t, label)
<1>0. /\ PcOK /\ t \in Threads /\ HandleOK(t) /\ t # Owner
      /\ pc[t] \in AtEnd => end_lock = t
      /\ pc[t] \in Filling => consumer_refcount # 0
  BY ThreadsAssumption DEF HInv, HandleOK, locked, Informed, Threads
<1> USE DEF Quiet, Using, Pushing, Popping, AtEnd, AtBegin, Filling, refs, locks, ring, local
<1>1. ASSUME NEW es \in Batches, CallPush(t, es)
      PROVE  Quiet(t, "push_lock")
  BY <1>0, <1>1, GotoSteers DEF CallPush, Labels
<1>2. CASE PushLock(t)
  <2>1. Quiet(t, "push_room")
    BY <1>0, <1>2, GotoSteers DEF PushLock, Labels
  <2> QED BY <2>1
<1>3. CASE PushRoom(t)
  <2>1. \E label \in {"idle", "push_sleep", "push_upgrade", "push_copy"} :
          /\ Goto(t, label)
          /\ label = "idle" => end_lock' = Free
          /\ label # "idle" => consumer_refcount # 0 /\ end_lock' = end_lock
    BY <1>3 DEF PushRoom
  <2>2. \E label \in {"idle", "push_sleep", "push_upgrade", "push_copy"} : Quiet(t, label)
    BY <1>0, <1>3, <2>1, GotoSteers DEF PushRoom, Labels
  <2> QED BY <2>2
<1>4. CASE PushSleep(t)
  <2>1. Quiet(t, "push_asleep")
    BY <1>0, <1>4, GotoSteers DEF PushSleep, Labels
  <2> QED BY <2>1
<1>5. CASE PushUpgrade(t)
  <2>1. Goto(t, "push_copy") \/ GotoTearing(t, "push_copy")
    BY <1>5 DEF PushUpgrade, resize_buffer
  <2>2. Quiet(t, "push_copy")
    BY <1>0, <1>5, <2>1, GotoSteers DEF PushUpgrade, Labels
  <2> QED BY <2>2
<1>6. CASE PushCopy(t)
  <2>1. Quiet(t, "push_publish")
    BY <1>0, <1>6, GotoSteers DEF PushCopy, Labels
  <2> QED BY <2>1
<1>7. CASE PushPublish(t) \/ PushCopyLate(t)
  <2>1. Quiet(t, "push_signal")
    BY <1>0, <1>7, GotoSteers DEF PushPublish, PushCopyLate, Pushed, Labels
  <2> QED BY <2>1
<1>8. CASE PushPublishEarly(t)
  <2>1. Quiet(t, "push_late")
    BY <1>0, <1>8, GotoSteers DEF PushPublishEarly, Labels
  <2> QED BY <2>1
<1>9. CASE PushSignal(t)
  <2>1. \E label \in {"idle", "push_lock"} : just_pushed(t, label, moved[t] # 1)
    BY <1>9 DEF PushSignal
  <2>2. \E label \in {"idle", "push_lock"} : Quiet(t, label)
    BY <1>0, <1>9, <2>1, WakeSteers DEF PushSignal, Labels
  <2> QED BY <2>2
<1> QED BY <1>1, <1>2, <1>3, <1>4, <1>5, <1>6, <1>7, <1>8, <1>9 DEF Push

LEMMA PopQuiet ==
  ASSUME HInv, NEW t \in Consumers,
         Pop(t) \/ PopLock(t) \/ PopTrimEnd(t) \/ SizeBegin(t) \/ \E n \in 1 .. MaxPop : CallPop(t, n)
  PROVE  \E label : Quiet(t, label)
<1>0. /\ PcOK /\ t \in Threads /\ HandleOK(t) /\ t # Owner
      /\ pc[t] \in AtEnd => end_lock = t
      /\ pc[t] \in AtBegin => begin_lock = t
  BY ThreadsAssumption DEF HInv, HandleOK, locked, Threads
<1> USE DEF Quiet, Using, Pushing, Popping, AtEnd, AtBegin, Filling, refs, locks, ring, local
<1>1. ASSUME NEW n \in 1 .. MaxPop, CallPop(t, n)
      PROVE  Quiet(t, "pop_lock")
  BY <1>0, <1>1, GotoSteers DEF CallPop, Labels
<1>2. CASE PopLock(t)
  <2>1. Quiet(t, "pop_look")
    BY <1>0, <1>2, GotoSteers DEF PopLock, Labels
  <2> QED BY <2>1
<1>3. CASE PopTrimEnd(t)
  <2>1. Quiet(t, "pop_trim")
    BY <1>0, <1>3, GotoSteers DEF PopTrimEnd, Labels
  <2> QED BY <2>1
<1>4. CASE SizeBegin(t)
  <2>1. Quiet(t, "size_read")
    BY <1>0, <1>4, GotoSteers DEF SizeBegin, Labels
  <2> QED BY <2>1
<1>5. CASE PopLook(t)
  <2>1. \E label \in {"pop_sleep", "idle", "pop_copy"} :
          /\ Goto(t, label)
          /\ IF label = "idle" THEN begin_lock' = Free ELSE begin_lock' = begin_lock
    BY <1>5 DEF PopLook
  <2>2. \E label \in {"pop_sleep", "idle", "pop_copy"} : Quiet(t, label)
    BY <1>0, <1>5, <2>1, GotoSteers DEF PopLook, Labels
  <2> QED BY <2>2
<1>6. CASE PopSleep(t)
  <2>1. Quiet(t, "pop_asleep")
    BY <1>0, <1>6, GotoSteers DEF PopSleep, Labels
  <2> QED BY <2>1
<1>7. CASE PopCopy(t)
  <2>1. \E label \in {"pop_signal", "pop_trim_end"} : GotoTearing(t, label)
    BY <1>7 DEF PopCopy
  <2>2. \E n : moved' = [moved EXCEPT ![t] = n]
    BY <1>7 DEF PopCopy
  <2>3. \E label \in {"pop_signal", "pop_trim_end"} : Quiet(t, label)
    BY <1>0, <1>7, <2>1, <2>2, GotoSteers DEF PopCopy, Labels
  <2> QED BY <2>3
<1>8. CASE PopTrim(t)
  <2>1. Goto(t, "pop_signal") \/ GotoTearing(t, "pop_signal")
    BY <1>8 DEF PopTrim, resize_buffer
  <2>2. Quiet(t, "pop_signal")
    BY <1>0, <1>8, <2>1, GotoSteers DEF PopTrim, Labels
  <2> QED BY <2>2
<1>9. CASE PopSignal(t)
  <2>1. \E label \in {"idle", "pop_lock"} : just_popped(t, label, moved[t] # 1)
    BY <1>9 DEF PopSignal
  <2>2. \E label \in {"idle", "pop_lock"} : Quiet(t, label)
    BY <1>0, <1>9, <2>1, WakeSteers DEF PopSignal, Labels
  <2> QED BY <2>2
<1>10. CASE SizeEnd(t)
  <2>1. Quiet(t, "idle")
    BY <1>0, <1>10, GotoSteers DEF SizeEnd, Labels
  <2> QED BY <2>1
<1> QED BY <1>1, <1>2, <1>3, <1>4, <1>5, <1>6, <1>7, <1>8, <1>9, <1>10 DEF Pop

LEMMA SpuriousQuiet ==
  ASSUME HInv, NEW t \in Threads, SpuriousWake(t)
  PROVE  \E label : Quiet(t, label)
<1>1. PcOK /\ OfItsKind(t)
  BY DEF HInv, HandleOK
<1>2. CASE pc[t] = "pop_asleep" /\ Goto(t, "pop_lock")
  <2>1. Quiet(t, "pop_lock")
    BY <1>1, <1>2, GotoSteers DEF SpuriousWake, Quiet, Using, Pushing, Popping, AtEnd, AtBegin,
       Filling, refs, locks, ring, local, Labels, OfItsKind
  <2> QED BY <2>1
<1>3. CASE pc[t] = "push_asleep" /\ Goto(t, "push_lock")
  <2>1. Quiet(t, "push_lock")
    BY <1>1, <1>3, GotoSteers DEF SpuriousWake, Quiet, Using, Pushing, Popping, AtEnd, AtBegin,
       Filling, refs, locks, ring, local, Labels, OfItsKind
  <2> QED BY <2>1
<1> QED BY <1>2, <1>3 DEF SpuriousWake

-----------------------------------------------------------------------------
(* The steps that make and free handles add to the sets or take from them. *)
LEMMA HoldersMove ==
  ASSUME PcOK, NEW t \in Threads, NEW label \in Labels, Steers(t, label)
  PROVE  /\ producing' = IF t \notin Consumers /\ label \notin Past \cup {"free_consumer"}
                         THEN producing \cup {t} ELSE producing \ {t}
         /\ consuming' = IF t \notin Producers /\ label \notin Past
                         THEN consuming \cup {t} ELSE consuming \ {t}
<1>1. ASSUME NEW u \in Threads \ {t}
      PROVE  /\ pc[u] \in Past <=> pc'[u] \in Past
             /\ pc[u] = "free_consumer" <=> pc'[u] = "free_consumer"
  BY DEF Steers, Nudges, Past
<1>2. pc'[t] = label
  BY DEF Steers
<1> QED BY <1>1, <1>2 DEF producing, consuming

LEMMA JoinCounts ==
  ASSUME NEW t,
         NEW hold, IsFiniteSet(hold), t \notin hold
  PROVE  Cardinality(hold \cup {t}) = Cardinality(hold) + 1 /\ hold \ {t} = hold
  BY FS_AddElement

LEMMA LeaveCounts ==
  ASSUME NEW t, NEW hold, IsFiniteSet(hold), t \in hold
  PROVE  /\ Cardinality(hold \ {t}) = Cardinality(hold) - 1
         /\ Cardinality(hold) > 0 /\ hold \cup {t} = hold
<1>1. IsFiniteSet(hold \ {t}) /\ Cardinality(hold \ {t}) = Cardinality(hold) - 1
  BY FS_RemoveElement
<1>2. Cardinality(hold \ {t}) \in Nat /\ Cardinality(hold) \in Nat
  BY <1>1, FS_CardinalityType
<1>3. hold \cup {t} = hold
  OBVIOUS
<1> QED BY <1>1, <1>2, <1>3

(* What a step leaves to prove: the stepping thread's own part, and that   *)
(* nobody else goes by a count that it changes.                            *)
LEMMA HandlesKept ==
  ASSUME HInv, NEW t \in Threads, NEW label \in Labels, Steers(t, label), UNCHANGED locks,
         PcOK', Counted', Leftover', HandleOK(t)',
         \A u \in Threads \ {t} : pc'[u] = pc[u] => Informed(u)'
  PROVE  HInv'
<1>1. ASSUME NEW u \in Threads \ {t}
      PROVE  HandleOK(u)'
  <2>1. OfItsKind(u)' /\ locked(u)'
    BY OthersStay DEF locks
  <2>2. pc'[u] = pc[u] \/ <<pc[u], pc'[u]>> \in Nudges
    BY DEF Steers
  <2>3. Informed(u)'
    BY <2>2 DEF Informed, Nudges, Filling
  <2> QED BY <2>1, <2>3 DEF HandleOK
<1> QED BY <1>1 DEF HInv

LEMMA NewKeeps ==
  ASSUME HInv, NEW t \in Threads,
         (t \in Producers /\ ProducerNew(t)) \/ (t \in Consumers /\ ConsumerNew(t))
  PROVE  HInv'
<1> USE DEF Labels
<1>0. /\ PcOK /\ Counted /\ t # Owner /\ Owner \in Threads /\ Owner \notin Consumers \cup Producers
      /\ pc[t] = "none" /\ pc[Owner] = "idle" /\ pc'[Owner] = "idle"
      /\ UNCHANGED <<locks, moved, allocated, deallocated>>
      /\ t \in Producers => t \notin Consumers
  BY ThreadsAssumption DEF HInv, ProducerNew, ConsumerNew, Threads, Goto, local, ring, PcOK
<1>1. Steers(t, "idle")
  BY <1>0, GotoSteers DEF ProducerNew, ConsumerNew
<1>2. PcOK'
  BY <1>0, <1>1 DEF PcOK, Steers
<1>3. /\ producer_refcount \in Nat \ {0} /\ consumer_refcount \in Nat \ {0}
      /\ t \notin producing /\ t \notin consuming
      /\ IsFiniteSet(producing) /\ IsFiniteSet(consuming)
  <2>1. Owner \in producing /\ Owner \in consuming /\ t \notin producing /\ t \notin consuming
    BY <1>0 DEF producing, consuming, Past
  <2> QED BY <1>0, <2>1, Counts, HandlesFinite
<1>4. Counted'
  <2>1. /\ producing' = IF t \in Producers THEN producing \cup {t} ELSE producing
        /\ consuming' = IF t \in Producers THEN consuming ELSE consuming \cup {t}
    <3>1. "idle" \in Labels /\ "idle" \notin Past \cup {"free_consumer"}
      BY DEF Past
    <3>2. /\ producing' = IF t \notin Consumers THEN producing \cup {t} ELSE producing \ {t}
          /\ consuming' = IF t \notin Producers THEN consuming \cup {t} ELSE consuming \ {t}
      BY <1>0, <1>1, <3>1, HoldersMove
    <3>3. t \notin Producers => t \in Consumers
      BY <1>0 DEF Threads
    <3> QED BY <1>0, <1>3, <3>2, <3>3
  <2>2. /\ Cardinality(producing \cup {t}) = Cardinality(producing) + 1
        /\ Cardinality(consuming \cup {t}) = Cardinality(consuming) + 1
    BY <1>3, JoinCounts
  <2> QED BY <1>0, <2>1, <2>2 DEF ProducerNew, ConsumerNew, Counted, refs
<1>5. /\ producer_refcount' \in Nat \ {0} /\ consumer_refcount' \in Nat \ {0}
      /\ producer_refcount' >= producer_refcount /\ consumer_refcount' >= consumer_refcount
  BY <1>3 DEF ProducerNew, ConsumerNew, refs
<1>6. Leftover'
  BY <1>0, <1>3, <1>5 DEF HInv, Leftover
<1>7. HandleOK(t)'
  BY <1>1 DEF HandleOK, OfItsKind, locked, Informed, Steers, Pushing, Popping, AtEnd, AtBegin, Filling
<1>8. ASSUME NEW u \in Threads \ {t}, pc[u] = pc'[u] PROVE Informed(u)'
  BY <1>8, <1>3, <1>5 DEF HInv, HandleOK, Informed
<1> QED BY <1>0, <1>1, <1>2, <1>4, <1>6, <1>7, <1>8, HandlesKept

LEMMA FreeKeeps ==
  ASSUME HInv, NEW t \in Threads, CallFree(t) \/ Release(t)
  PROVE  HInv'
<1> USE DEF Labels
<1>0. /\ PcOK /\ Counted /\ Leftover /\ HandleOK(t) /\ Owner \in Threads
      /\ Owner \notin Consumers /\ Owner \notin Producers
      /\ t \in Producers => t \notin Consumers
      /\ t \in Producers \/ t \in Consumers \/ t = Owner
      /\ IsFiniteSet(producing) /\ IsFiniteSet(consuming)
      /\ producer_refcount \in Nat /\ consumer_refcount \in Nat
  BY ThreadsAssumption, Counts, HandlesFinite DEF HInv, Threads
<1>1. CASE CallFree(t)
  <2> DEFINE label == IF t \in Consumers THEN "free_consumer" ELSE "free_producer"
  <2>1. /\ label \in Labels /\ Steers(t, label) /\ pc[t] = "idle"
        /\ UNCHANGED <<locks, refs, moved, allocated>>
    BY <1>0, <1>1, GotoSteers DEF CallFree, local, ring
  <2>2. Counted'
    <3>1. producing' = producing /\ consuming' = consuming
      BY <1>0, <2>1, HoldersMove DEF producing, consuming, Past
    <3> QED BY <1>0, <2>1, <3>1 DEF Counted, refs
  <2>3. PcOK' /\ HandleOK(t)' /\ Leftover'
    BY <1>0, <2>1 DEF PcOK, HandleOK, OfItsKind, locked, Informed, Leftover, Steers, Nudges,
       Pushing, Popping, AtEnd, AtBegin, Filling, refs
  <2>4. \A u \in Threads \ {t} : pc[u] = pc'[u] => Informed(u)'
    BY <2>1 DEF HInv, HandleOK, Informed, refs
  <2> QED BY <2>1, <2>2, <2>3, <2>4, HandlesKept
<1>2. CASE FreeProducer(t)
  <2> DEFINE label == IF t = Owner THEN "free_consumer"
                      ELSE IF producer_refcount = 1 THEN "free_look" ELSE "gone"
  <2>1. /\ label \in Labels /\ Steers(t, label) /\ pc[t] = "free_producer" /\ t \notin Consumers
        /\ UNCHANGED <<locks, consumer_refcount, allocated, deallocated>>
        /\ producer_refcount' = producer_refcount - 1
    BY <1>0, <1>2, GotoSteers DEF FreeProducer, ring, HandleOK, OfItsKind
  <2>2. Counted' /\ producer_refcount > 0
    <3>1. t \in producing /\ (t = Owner => t \in consuming) /\ (t # Owner => t \notin consuming)
      BY <1>0, <2>1 DEF producing, consuming, Past
    <3>2. producing' = producing \ {t} /\ consuming' = consuming
      BY SMTT(30), <1>0, <2>1, <3>1, HoldersMove DEF Past
    <3> QED BY <1>0, <2>1, <3>1, <3>2, LeaveCounts DEF Counted
  <2>3. /\ \E S : moved' \in [Threads -> S]
        /\ moved'[t] = producer_refcount' /\ \A u \in Threads \ {t} : moved'[u] = moved[u]
    BY <1>0, <1>2, <2>1, MovedKeepsType DEF FreeProducer
  <2>4. PcOK' /\ HandleOK(t)'
    BY <1>0, <2>1, <2>2, <2>3 DEF PcOK, HandleOK, OfItsKind, locked, Informed, Steers,
       Pushing, Popping, AtEnd, AtBegin, Filling
  <2>5. Leftover'
    BY <1>0, <2>1, <2>2, <2>3 DEF Leftover, Steers, Nudges
  <2>6. \A u \in Threads \ {t} : pc[u] = pc'[u] => Informed(u)'
    BY <1>0, <2>1, <2>2 DEF HInv, HandleOK, Informed
  <2> QED BY <2>1, <2>2, <2>4, <2>5, <2>6, HandlesKept
<1>3. CASE FreeConsumer(t)
  <2> DEFINE label == IF t \in Consumers
                      THEN IF last_consumer THEN "free_look" ELSE "gone"
                      ELSE IF last_consumer THEN "free_null"
                      ELSE IF moved[t] = 0 THEN "free_wake" ELSE "gone"
  <2>1. /\ label \in Labels /\ Steers(t, label) /\ pc[t] = "free_consumer" /\ t \notin Producers
        /\ UNCHANGED <<locks, producer_refcount, allocated, deallocated, moved>>
        /\ end_lock = Free
        /\ consumer_refcount' = consumer_refcount - 1
    BY <1>0, <1>3, GotoSteers DEF FreeConsumer, ring, HandleOK, OfItsKind, local
  <2>2. Counted' /\ consumer_refcount > 0
    <3>1. t \in consuming /\ t \notin producing
      BY <1>0, <2>1 DEF producing, consuming, Past
    <3>2. producing' = producing /\ consuming' = consuming \ {t}
      <4>1. label \in Past
        BY DEF Past
      <4> HIDE DEF label
      <4>2. producing' = producing \ {t} /\ consuming' = consuming \ {t}
        BY <1>0, <2>1, <4>1, HoldersMove
      <4> QED BY <3>1, <4>2
    <3> QED BY <1>0, <2>1, <3>1, <3>2, LeaveCounts DEF Counted
  <2>3. PcOK' /\ HandleOK(t)'
    BY <1>0, <2>1, <2>2 DEF PcOK, HandleOK, OfItsKind, locked, Informed, Steers,
       Pushing, Popping, AtEnd, AtBegin, Filling, last_consumer
  <2>4. Leftover'
    BY <1>0, <2>1, <2>2 DEF Leftover, Steers, Nudges
  <2>5. ASSUME NEW u \in Threads \ {t}, pc[u] = pc'[u] PROVE Informed(u)'
    <3>1. u # Free /\ locked(u) /\ Informed(u)
      BY ThreadsAssumption DEF HInv, HandleOK
    <3>2. pc[u] \notin Filling
      BY <3>1, <2>1 DEF locked, Filling, AtEnd
    <3> QED BY <1>0, <2>1, <2>2, <2>5, <3>1, <3>2 DEF Informed
  <2> QED BY <2>1, <2>2, <2>3, <2>4, <2>5, HandlesKept
<1>4. CASE FreeLook(t) \/ FreeWake(t) \/ FreeNull(t) \/ FreeLast(t)
  <2>1. \E label \in {"free_wake", "free_last", "gone"} :
          /\ Steers(t, label)
          /\ label = "free_last" => producer_refcount = 0 /\ consumer_refcount = 0
    <3>1. CASE FreeLook(t)
      <4>1. t # Owner /\ pc[t] = "free_look" /\ Informed(t)
        BY <1>0, <3>1 DEF FreeLook, HandleOK, OfItsKind
      <4> QED BY <1>0, <3>1, <4>1, GotoSteers DEF FreeLook, others_left, Informed
    <3>2. CASE FreeWake(t)
      BY <1>0, <3>2, WakeSteers DEF FreeWake
    <3>3. CASE FreeNull(t)
      <4>1. t = Owner /\ pc[t] = "free_null" /\ Informed(t)
        BY <1>0, <3>3 DEF FreeNull, HandleOK, OfItsKind
      <4> QED BY <1>0, <3>3, <4>1, GotoSteers DEF FreeNull, Informed, Leftover
    <3>4. CASE FreeLast(t)
      BY <1>0, <3>4, GotoSteers DEF FreeLast
    <3> QED BY <1>4, <3>1, <3>2, <3>3, <3>4
  <2>2. PICK label \in {"free_wake", "free_last", "gone"} :
          /\ Steers(t, label)
          /\ label = "free_last" => producer_refcount = 0 /\ consumer_refcount = 0
    BY <2>1
  <2>3. /\ pc[t] \in Past /\ (allocated' # allocated => pc[t] = "free_null" /\ ~allocated')
        /\ deallocated' # deallocated => pc[t] = "free_last" /\ deallocated'
        /\ UNCHANGED <<locks, producer_refcount, consumer_refcount, moved>>
    BY <1>4 DEF FreeLook, FreeWake, FreeNull, FreeLast, Past, local, ring, refs
  <2>4. Counted'
    <3>1. producing' = producing /\ consuming' = consuming
      BY <1>0, <2>2, <2>3, HoldersMove DEF producing, consuming, Past
    <3> QED BY <1>0, <2>3, <3>1 DEF Counted
  <2>5. PcOK' /\ HandleOK(t)'
    BY <1>0, <2>2, <2>3 DEF PcOK, HandleOK, OfItsKind, locked, Informed, Steers,
       Pushing, Popping, AtEnd, AtBegin, Filling
  <2>6. Leftover'
    BY <1>0, <2>2, <2>3 DEF Leftover, Steers, Nudges, HandleOK, Informed
  <2>7. \A u \in Threads \ {t} : pc[u] = pc'[u] => Informed(u)'
    BY <2>3 DEF HInv, HandleOK, Informed
  <2> QED BY <2>2, <2>3, <2>4, <2>5, <2>6, <2>7, HandlesKept
<1> QED BY <1>1, <1>2, <1>3, <1>4 DEF Release

-----------------------------------------------------------------------------
(* pipe_new counts the handle it returns twice, once in each set.          *)
LEMMA InitHInv == Init => HInv
<1> SUFFICES ASSUME Init PROVE HInv
  OBVIOUS
<1>1. /\ Owner \in Threads /\ Owner \notin Producers /\ Owner \notin Consumers
      /\ \A t \in Threads : pc[t] = IF t = Owner THEN "idle" ELSE "none"
  BY ThreadsAssumption DEF Init, Threads
<1>2. PcOK
  <2>1. pc \in [Threads -> Labels] /\ moved \in [Threads -> {0}]
    BY DEF Init, Labels
  <2> QED BY <2>1 DEF PcOK
<1>3. Counted
  <2>1. producing = {Owner} /\ consuming = {Owner}
    BY <1>1 DEF producing, consuming, Past
  <2> QED BY <2>1, FS_Singleton DEF Counted, Init
<1>4. Leftover
  BY <1>1 DEF Leftover, Init
<1>5. \A t \in Threads : HandleOK(t)
  BY <1>1 DEF HandleOK, OfItsKind, locked, Informed, Pushing, Popping, Filling, AtEnd, AtBegin
<1> QED BY <1>2, <1>3, <1>4, <1>5 DEF HInv

LEMMA NextHInv == HInv /\ [Next]_vars => HInv'
<1> SUFFICES ASSUME HInv, [Next]_vars PROVE HInv'
  OBVIOUS
<1>1. CASE UNCHANGED vars
  BY <1>1 DEF vars, ring, locks, refs, local, HInv, PcOK, Counted, producing, consuming,
     Leftover, HandleOK, OfItsKind, locked, Informed
<1>2. ASSUME NEW t \in Producers, ProducerCalls(t) \/ Push(t) \/ PushLock(t)
      PROVE  HInv'
  BY <1>2, PushQuiet, QuietKeeps, NewKeeps DEF ProducerCalls, Threads
<1>3. ASSUME NEW t \in Consumers, ConsumerCalls(t) \/ Pop(t) \/ PopLock(t) \/ PopTrimEnd(t)
      PROVE  HInv'
  BY <1>3, PopQuiet, QuietKeeps, NewKeeps DEF ConsumerCalls, Threads
<1>4. ASSUME NEW t \in Threads, CallFree(t) \/ Release(t) \/ SpuriousWake(t)
      PROVE  HInv'
  BY <1>4, FreeKeeps, SpuriousQuiet, QuietKeeps
<1> QED BY <1>1, <1>2, <1>3, <1>4 DEF Next

(* The two reference counts are the numbers of handles made and not yet    *)
(* given back, whoever pushes, pops, joins or frees at the same time.      *)
THEOREM CountsAreHandles == Spec => []HInv
  BY InitHInv, NextHInv, PTL DEF Spec

(* The buffer is not given up while somebody may push into it or pop:      *)
(* pipe_free sets p->buffer to NULL with no lock held, and may, because a  *)
(* thread that uses it still has a handle, or has seen a consumer and      *)
(* holds end_lock, which the last consumer needs to be gone.               *)
THEOREM BufferIsKept == Spec => []BufferKept
<1>1. HInv => BufferKept
  <2> SUFFICES ASSUME HInv, ~allocated PROVE BufferKept
    BY DEF BufferKept
  <2>1. consumer_refcount = 0 /\ consuming = {}
    BY Counts DEF HInv, Leftover
  <2>2. ASSUME NEW t \in Threads
        PROVE  pc[t] \notin Filling \cup {"pop_copy", "pop_trim"}
    <3>1. HandleOK(t)
      BY DEF HInv
    <3> QED BY <2>1, <3>1, ThreadsAssumption
        DEF HandleOK, OfItsKind, Informed, Popping, Filling, Past, consuming
  <2> QED BY <2>1, <2>2 DEF BufferKept, Filling
<1> QED BY <1>1, CountsAreHandles, PTL

(* The pipe is deallocated only when every handle was given back: no push, *)
(* no pop and no first half of a free runs on memory that is gone, however *)
(* many threads free their handles at the same time.  What overlapping     *)
(* frees may do is meet in the second half of a free, on a pipe that one   *)
(* of them has deallocated: pipe_free_race shows it.                       *)
THEOREM NoUseAfterFree == Spec => []FreedAfterUse
<1>1. HInv => FreedAfterUse
  <2> SUFFICES ASSUME HInv, deallocated PROVE FreedAfterUse
    BY DEF FreedAfterUse
  <2>1. producing = {} /\ consuming = {}
    BY Counts DEF HInv, Leftover
  <2>2. ASSUME NEW t \in Threads
        PROVE  pc[t] \in Past
    BY <2>1, ThreadsAssumption DEF HInv, HandleOK, OfItsKind, producing, consuming
  <2> QED BY <2>2 DEF FreedAfterUse
<1> QED BY <1>1, CountsAreHandles, PTL
=============================================================================
