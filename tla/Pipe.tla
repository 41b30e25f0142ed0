-------------------------------- MODULE Pipe --------------------------------
(***************************************************************************)
(* The thread-safe pipe of src/pipe/pipe.c: a growable circular buffer     *)
(* guarded by two locks (begin_lock for poppers, end_lock for pushers),    *)
(* two condition variables and two reference counts.                       *)
(*                                                                         *)
(* Every thread owns one handle.  A thread of Producers owns a             *)
(* pipe_producer_t, one of Consumers a pipe_consumer_t, and Owner the      *)
(* pipe_t that pipe_new returned.  pc[t] says where in which call of       *)
(* pipe.c the thread is; a step is the longest stretch of code that no     *)
(* other thread can observe half done.  A thread asleep in cond_wait has   *)
(* a pc ending in "asleep", so the wait set of a condition variable is     *)
(* the set of threads with that pc.                                        *)
(***************************************************************************)
EXTENDS PipeRing, FiniteSets

CONSTANTS
  Producers, Consumers, Owner,
  Free,           (* an unlocked mutex                                           *)
  Elements,       (* what can be pushed                                          *)
  Junk,           (* the contents of uninitialised memory                        *)
  NDEBUG,         (* TRUE when the asserts are compiled out (CMake leaves them)  *)
  StoresReorder,  (* TRUE when another core may see the new p->end before the    *)
                  (* elements copied in front of it                              *)
  MayFree,        (* bound: the threads that free their handle in this instance  *)
  MayAsk,         (* bound: the consumers that call pipe_size in this instance   *)
  MaxPush,        (* bound: elements in one call of pipe_push                    *)
  MaxPop,         (* bound: elements asked of one call of pipe_pop               *)
  MaxQueue        (* bound: no push starts that would leave more than this       *)

Threads == Producers \cup Consumers \cup {Owner}

ASSUME ThreadsAssumption ==
  /\ IsFiniteSet(Producers) /\ IsFiniteSet(Consumers)
  /\ Producers \cap Consumers = {}
  /\ Owner \notin Producers \cup Consumers
  /\ Free \notin Threads
  /\ MayFree \subseteq Threads
  /\ MayAsk \subseteq Consumers
ASSUME ElementsAssumption == Junk \notin Elements
ASSUME BoundsAssumption ==
  /\ {NDEBUG, StoresReorder} \subseteq BOOLEAN
  /\ {MaxPush, MaxPop, MaxQueue} \subseteq Nat \ {0}

VARIABLES
  cells, bufend, begin, end,     \* the circular buffer; addresses from p->buffer
  allocated,                     \* p->buffer # NULL
  begin_lock, end_lock,          \* the thread that holds it, or Free
  producer_refcount, consumer_refcount,
  deallocated,                   \* deallocate has run
  failed,                        \* an assertion has failed: the process aborted
  pc,
  snap,                          \* the snapshot_t the thread works with
  elems,                         \* producer: the elements still to be pushed
  bytes_left, target,            \* consumer: still requested; popped by this call
  moved,                         \* elements pushed / popped by the last round
  size                           \* consumer: the answer of the last pipe_size

ring  == <<cells, bufend, begin, end, allocated>>
locks == <<begin_lock, end_lock>>
refs  == <<producer_refcount, consumer_refcount, deallocated>>
local == <<snap, elems, bytes_left, target, moved, size>>
vars  == <<ring, locks, refs, failed, pc, local>>

NoSnapshot    == [bufend |-> 1, begin |-> 0, end |-> 0]   \* a dead snap[t]
make_snapshot == [bufend |-> bufend, begin |-> begin, end |-> end]
used          == bytes_in_use(make_snapshot)

Goto(t, label) == pc' = [pc EXCEPT ![t] = label]
assertume(cond)   == failed' = (~NDEBUG /\ ~cond)

(* cond_signal and cond_broadcast, by a thread that then goes to `label':  *)
(* the threads woken go back to taking the lock they waited with.          *)
Wake(t, label, asleep, relock, all) ==
  LET waiting == {u \in Threads : pc[u] = asleep}
  IN  \E woken \in IF all \/ waiting = {} THEN {waiting} ELSE {{u} : u \in waiting} :
        pc' = [u \in Threads |-> IF u = t THEN label
                                 ELSE IF u \in woken THEN relock ELSE pc[u]]

just_pushed(t, label, all) == Wake(t, label, "pop_asleep", "pop_lock", all)
just_popped(t, label, all) == Wake(t, label, "push_asleep", "push_lock", all)

-----------------------------------------------------------------------------
(* A pipe_size half way through its unsynchronised reads of the pipe ends  *)
(* up with pointers of two different times ("size_torn") when begin moves. *)
GotoTearing(t, label) ==
  pc' = [u \in Threads |-> IF u = t THEN label
                           ELSE IF pc[u] = "size_read" THEN "size_torn" ELSE pc[u]]

(* resize_buffer, both locks held, by a thread that then goes to `label'.  *)
resize_buffer(t, n, label) ==
  LET s == make_snapshot
      m == new_size(n)
  IN  IF resizes(n)
      THEN /\ cells'  = copied(cells, s, n, Junk)
           /\ bufend' = m + 1
           /\ begin'  = 0
           /\ end'    = used + 1
           /\ assertume(/\ sane(s, consumer_refcount)
                     /\ n >= used
                     /\ sane([bufend |-> m + 1, begin |-> 0, end |-> used + 1],
                             consumer_refcount))
           /\ GotoTearing(t, label)
      ELSE /\ assertume(sane(s, consumer_refcount) /\ n >= used)
           /\ Goto(t, label)
           /\ UNCHANGED <<cells, bufend, begin, end>>

-----------------------------------------------------------------------------
(* pipe_push.  A push of no elements returns at once and is left out.      *)
CallPush(t, es) ==
  /\ pc[t] = "idle"
  /\ used + Len(es) <= MaxQueue
  /\ elems' = [elems EXCEPT ![t] = es]
  /\ Goto(t, "push_lock")
  /\ UNCHANGED <<ring, locks, refs, failed, snap, bytes_left, target, moved, size>>

PushLock(t) ==
  /\ pc[t] = "push_lock"
  /\ end_lock = Free
  /\ end_lock' = t
  /\ Goto(t, "push_room")
  /\ UNCHANGED <<ring, begin_lock, refs, failed, local>>

(* Variant, a bug the checks must notice: room is measured by the buffer.  *)
Full_at_capacity(s) == bytes_in_use(s) = capacity(s)
Full(s)             == Bounded /\ bytes_in_use(s) = max_cap

(* wait_for_room's test, on a snapshot of a begin that poppers may still   *)
(* move, and, when it falls through, the tests that follow it.             *)
PushRoom(t) ==
  LET s == make_snapshot
  IN  /\ pc[t] = "push_room"
      /\ \/ /\ consumer_refcount = 0          \* nobody will pop: drop the elements
            /\ end_lock' = Free
            /\ snap' = [snap EXCEPT ![t] = NoSnapshot]
            /\ elems' = [elems EXCEPT ![t] = <<>>]
            /\ Goto(t, "idle")
         \/ /\ consumer_refcount # 0
            /\ snap' = [snap EXCEPT ![t] = IF Full(s) THEN NoSnapshot ELSE s]
            /\ Goto(t, IF Full(s) THEN "push_sleep"
                       ELSE IF bytes_in_use(s) + Len(elems[t]) > capacity(s)
                            THEN "push_upgrade" ELSE "push_copy")
            /\ UNCHANGED <<end_lock, elems>>
      /\ UNCHANGED <<ring, begin_lock, refs, failed, bytes_left, target, moved, size>>

PushSleep(t) ==
  /\ pc[t] = "push_sleep"
  /\ end_lock' = Free
  /\ Goto(t, "push_asleep")
  /\ UNCHANGED <<ring, begin_lock, refs, failed, local>>

(* validate_size with its lock upgraded: re-check on a fresh snapshot      *)
(* against the capacity of the old one, and grow.  Variant: the snapshot   *)
(* is not taken again.                                                     *)
needed(t) == used + Len(elems[t])

not_refreshed(t) == snap[t]
refreshed(t)     == [bufend |-> bufend', begin |-> begin', end |-> end']

PushUpgrade(t) ==
  /\ pc[t] = "push_upgrade"
  /\ begin_lock = Free
  /\ IF needed(t) > capacity(snap[t])
     THEN resize_buffer(t, next_pow2(needed(t) + 1), "push_copy")
     ELSE Goto(t, "push_copy") /\ UNCHANGED <<cells, bufend, begin, end, failed>>
  /\ snap' = [snap EXCEPT ![t] = refreshed(t)]
  /\ UNCHANGED <<allocated, locks, refs, elems, bytes_left, target, moved, size>>

pushed(t) == push_count(snap[t], Len(elems[t]))
batch(t)  == SubSeq(elems[t], 1, pushed(t))

(* What __pipe_push recurses with.  Variant: it does not.                  *)
rest_dropped(t) == <<>>
rest(t)         == SubSeq(elems[t], pushed(t) + 1, Len(elems[t]))

(* process_push copies the elements, without begin_lock ...                *)
PushCopy(t) ==
  /\ pc[t] = "push_copy"
  /\ cells' = push_cells(cells, snap[t], batch(t))
  /\ assertume(pushed(t) > 0 /\ snap[t].end # bufend)
  /\ Goto(t, "push_publish")
  /\ UNCHANGED <<bufend, begin, end, allocated, locks, refs, local>>

Pushed(t) ==
  /\ moved' = [moved EXCEPT ![t] = pushed(t)]
  /\ snap' = [snap EXCEPT ![t] = NoSnapshot]
  /\ elems' = [elems EXCEPT ![t] = rest(t)]
  /\ end_lock' = Free
  /\ Goto(t, "push_signal")

(* ... and __pipe_push publishes them by moving p->end, then unlocks.      *)
PushPublish(t) ==
  /\ pc[t] = "push_publish"
  /\ end' = push_end(snap[t], pushed(t))
  /\ Pushed(t)
  /\ UNCHANGED <<cells, bufend, begin, allocated, begin_lock, refs, failed,
                 bytes_left, target, size>>

(* A popper holds begin_lock only, so nothing orders the two stores for    *)
(* it: with StoresReorder it sees p->end move first.                       *)
PushPublishEarly(t) ==
  /\ StoresReorder
  /\ pc[t] = "push_copy"
  /\ end' = push_end(snap[t], pushed(t))
  /\ assertume(pushed(t) > 0 /\ snap[t].end # bufend)
  /\ Goto(t, "push_late")
  /\ UNCHANGED <<cells, bufend, begin, allocated, locks, refs, local>>

PushCopyLate(t) ==
  /\ pc[t] = "push_late"
  /\ cells' = push_cells(cells, snap[t], batch(t))
  /\ Pushed(t)
  /\ UNCHANGED <<bufend, begin, end, allocated, begin_lock, refs, failed,
                 bytes_left, target, size>>

(* The signal comes after the unlock; then the rest of the elements, if    *)
(* the limit cut the push short.                                           *)
PushSignal(t) ==
  /\ pc[t] = "push_signal"
  /\ just_pushed(t, IF elems[t] = <<>> THEN "idle" ELSE "push_lock", moved[t] # 1)
  /\ moved' = [moved EXCEPT ![t] = 0]
  /\ UNCHANGED <<ring, locks, refs, failed, snap, elems, bytes_left, target, size>>

-----------------------------------------------------------------------------
(* pipe_pop: __pipe_pop until the request is filled or a round pops none.  *)
CallPop(t, n) ==
  /\ pc[t] = "idle"
  /\ bytes_left' = [bytes_left EXCEPT ![t] = n]
  /\ target' = [target EXCEPT ![t] = <<>>]
  /\ size' = [size EXCEPT ![t] = 0]
  /\ Goto(t, "pop_lock")
  /\ UNCHANGED <<ring, locks, refs, failed, snap, elems, moved>>

PopLock(t) ==
  /\ pc[t] = "pop_lock"
  /\ begin_lock = Free
  /\ begin_lock' = t
  /\ Goto(t, "pop_look")
  /\ UNCHANGED <<ring, end_lock, refs, failed, local>>

(* Nobody can push any more.  Variant: a producer handle is forgotten.     *)
closed_early == producer_refcount <= 1
closed       == producer_refcount = 0

(* wait_for_elements' test, on a snapshot of an end that pushers may still *)
(* move: by the time the thread sleeps the pipe may have elements.         *)
PopLook(t) ==
  /\ pc[t] = "pop_look"
  /\ \/ /\ used = 0 /\ ~closed
        /\ Goto(t, "pop_sleep")
        /\ UNCHANGED <<begin_lock, snap>>
     \/ /\ used = 0 /\ closed                     \* returns what it has
        /\ begin_lock' = Free
        /\ Goto(t, "idle")
        /\ UNCHANGED snap
     \/ /\ used # 0
        /\ snap' = [snap EXCEPT ![t] = make_snapshot]
        /\ Goto(t, "pop_copy")
        /\ UNCHANGED begin_lock
  /\ UNCHANGED <<ring, end_lock, refs, failed, elems, bytes_left, target, moved, size>>

PopSleep(t) ==
  /\ pc[t] = "pop_sleep"
  /\ begin_lock' = Free
  /\ Goto(t, "pop_asleep")
  /\ UNCHANGED <<ring, end_lock, refs, failed, local>>

(* trim_buffer leaves a buffer alone that is more than a quarter full.     *)
(* Variant: and one that is just a quarter full.                           *)
sane_size_at_quarter(s) == bytes_in_use(s) >= capacity(s) \div 4
sane_size(s)            == bytes_in_use(s) > capacity(s) \div 4

(* pop_without_locking between its two check_invariants, then trim_buffer  *)
(* up to its first unlock: it decides on the snapshot's, maybe old, end.   *)
PopCopy(t) ==
  LET s == snap[t]
      n == min(bytes_left[t], bytes_in_use(s))
      b == pop_begin(s, n)
      after == [s EXCEPT !.begin = b]
  IN  /\ pc[t] = "pop_copy"
      /\ target' = [target EXCEPT ![t] = @ \o pop_elems(cells, s, n)]
      /\ begin' = b
      /\ bytes_left' = [bytes_left EXCEPT ![t] = @ - n]
      /\ moved' = [moved EXCEPT ![t] = n]
      /\ snap' = [snap EXCEPT ![t] = NoSnapshot]
      /\ begin_lock' = Free
      /\ assertume(/\ sane(make_snapshot, consumer_refcount)
                /\ sane([make_snapshot EXCEPT !.begin = b], consumer_refcount)
                /\ s.begin # s.bufend
                /\ n > 0)
      /\ GotoTearing(t, IF sane_size(after) THEN "pop_signal" ELSE "pop_trim_end")
      /\ UNCHANGED <<cells, bufend, end, allocated, end_lock, refs, elems, size>>

(* trim_buffer gave begin_lock up to take both locks in their order, and   *)
(* looks again.  Variant: it does not.                                     *)
trims_unchecked == TRUE
trims           == used <= capacity(make_snapshot) \div 4

PopTrimEnd(t) ==
  /\ pc[t] = "pop_trim_end"
  /\ end_lock = Free
  /\ end_lock' = t
  /\ Goto(t, "pop_trim")
  /\ UNCHANGED <<ring, begin_lock, refs, failed, local>>

PopTrim(t) ==
  /\ pc[t] = "pop_trim"
  /\ begin_lock = Free
  /\ IF trims
     THEN resize_buffer(t, capacity(make_snapshot) \div 2, "pop_signal")
     ELSE Goto(t, "pop_signal") /\ UNCHANGED <<cells, bufend, begin, end, failed>>
  /\ end_lock' = Free
  /\ UNCHANGED <<allocated, begin_lock, refs, local>>

PopSignal(t) ==
  /\ pc[t] = "pop_signal"
  /\ just_popped(t, IF bytes_left[t] > 0 THEN "pop_lock" ELSE "idle", moved[t] # 1)
  /\ moved' = [moved EXCEPT ![t] = 0]
  /\ UNCHANGED <<ring, locks, refs, failed, snap, elems, bytes_left, target, size>>

(* POSIX lets cond_wait return without a signal.                           *)
SpuriousWake(t) ==
  /\ \/ pc[t] = "pop_asleep"  /\ Goto(t, "pop_lock")
     \/ pc[t] = "push_asleep" /\ Goto(t, "push_lock")
  /\ UNCHANGED <<ring, locks, refs, failed, local>>

-----------------------------------------------------------------------------
(* pipe_size reads the four pointers with no lock.                         *)
SizeBegin(t) ==
  /\ pc[t] = "idle"
  /\ t \in MayAsk
  /\ Goto(t, "size_read")
  /\ UNCHANGED <<ring, locks, refs, failed, local>>

(* A pusher that moves end alone leaves the difference right.  When the    *)
(* buffer or begin moved in between it is any number.                      *)
SizeEnd(t) ==
  /\ \/ pc[t] = "size_read" /\ size' = [size EXCEPT ![t] = used]
     \/ /\ pc[t] = "size_torn"
        /\ \E n \in 0 .. MaxQueue : size' = [size EXCEPT ![t] = n]
  /\ Goto(t, "idle")
  /\ UNCHANGED <<ring, locks, refs, failed, snap, elems, bytes_left, target, moved>>

-----------------------------------------------------------------------------
(* pipe_producer_new and pipe_consumer_new, from a valid pipe_t.           *)
ProducerNew(t) ==
  /\ pc[t] = "none" /\ pc[Owner] = "idle"
  /\ begin_lock = Free
  /\ producer_refcount' = producer_refcount + 1
  /\ Goto(t, "idle")
  /\ UNCHANGED <<ring, locks, consumer_refcount, deallocated, failed, local>>

ConsumerNew(t) ==
  /\ pc[t] = "none" /\ pc[Owner] = "idle"
  /\ end_lock = Free
  /\ consumer_refcount' = consumer_refcount + 1
  /\ Goto(t, "idle")
  /\ UNCHANGED <<ring, locks, producer_refcount, deallocated, failed, local>>

(* A handle is freed by its own thread, between its calls; nothing keeps   *)
(* two threads from freeing theirs at the same time.                       *)
CallFree(t) ==
  /\ pc[t] = "idle"
  /\ t \in MayFree
  /\ Goto(t, IF t \in Consumers THEN "free_consumer" ELSE "free_producer")
  /\ UNCHANGED <<ring, locks, refs, failed, local>>

(* The decrement of producer_refcount, under begin_lock.  pipe_free keeps  *)
(* the new count (in `moved') and goes on to the other one.                *)
FreeProducer(t) ==
  /\ pc[t] = "free_producer"
  /\ begin_lock = Free
  /\ assertume(producer_refcount > 0)
  /\ producer_refcount' = producer_refcount - 1
  /\ moved' = [moved EXCEPT ![t] = producer_refcount - 1]
  /\ Goto(t, IF t = Owner THEN "free_consumer"
             ELSE IF producer_refcount = 1 THEN "free_look" ELSE "gone")
  /\ UNCHANGED <<ring, locks, consumer_refcount, deallocated,
                 snap, elems, bytes_left, target, size>>

(* Variant: any pipe_free gives the buffer up.                             *)
last_consumer_always == TRUE
last_consumer        == consumer_refcount = 1

(* The decrement of consumer_refcount, under end_lock.                     *)
FreeConsumer(t) ==
  /\ pc[t] = "free_consumer"
  /\ end_lock = Free
  /\ assertume(t = Owner => consumer_refcount > 0)
  /\ consumer_refcount' = consumer_refcount - 1
  /\ Goto(t, IF t \in Consumers
             THEN IF last_consumer THEN "free_look" ELSE "gone"
             ELSE IF last_consumer THEN "free_null"
             ELSE IF moved[t] = 0 THEN "free_wake" ELSE "gone")
  /\ UNCHANGED <<ring, locks, producer_refcount, deallocated, local>>

(* pipe_producer_free and pipe_consumer_free: the last handle of its kind  *)
(* reads the other count in a second critical section.  Variant: it reads  *)
(* its own count.                                                          *)
others_left_own(t) == IF t \in Producers THEN producer_refcount > 0 ELSE consumer_refcount > 0
others_left(t)     == IF t \in Producers THEN consumer_refcount > 0 ELSE producer_refcount > 0

FreeLook(t) ==
  /\ pc[t] = "free_look"
  /\ IF t \in Producers THEN end_lock = Free ELSE begin_lock = Free
  /\ Goto(t, IF others_left(t) THEN "free_wake" ELSE "free_last")
  /\ UNCHANGED <<ring, locks, refs, failed, local>>

(* The broadcast to whoever waits for a handle of this kind.               *)
FreeWake(t) ==
  /\ pc[t] = "free_wake"
  /\ IF t \in Consumers \/ (t = Owner /\ ~allocated)
     THEN just_popped(t, "gone", TRUE) ELSE just_pushed(t, "gone", TRUE)
  /\ UNCHANGED <<ring, locks, refs, failed, local>>

(* pipe_free was the last consumer: p->buffer = NULL, with no lock held.   *)
FreeNull(t) ==
  /\ pc[t] = "free_null"
  /\ allocated' = FALSE
  /\ Goto(t, IF moved[t] > 0 THEN "free_wake" ELSE "free_last")
  /\ UNCHANGED <<cells, bufend, begin, end, locks, refs, failed, local>>

FreeLast(t) ==
  /\ pc[t] = "free_last"
  /\ deallocated' = TRUE
  /\ assertume(producer_refcount = 0 /\ consumer_refcount = 0)
  /\ Goto(t, "gone")
  /\ UNCHANGED <<ring, locks, producer_refcount, consumer_refcount, local>>

-----------------------------------------------------------------------------
(* pipe_new.                                                               *)
Init ==
  /\ cells = [a \in 0 .. DEFAULT_MINCAP - 1 |-> Junk]
  /\ bufend = DEFAULT_MINCAP /\ begin = 0 /\ end = 1
  /\ allocated = TRUE
  /\ begin_lock = Free /\ end_lock = Free
  /\ producer_refcount = 1 /\ consumer_refcount = 1
  /\ deallocated = FALSE
  /\ failed = FALSE
  /\ pc = [t \in Threads |-> IF t = Owner THEN "idle" ELSE "none"]
  /\ snap = [t \in Threads |-> NoSnapshot]
  /\ elems = [t \in Threads |-> <<>>]
  /\ bytes_left = [t \in Threads |-> 0]
  /\ target = [t \in Threads |-> <<>>]
  /\ moved = [t \in Threads |-> 0]
  /\ size = [t \in Threads |-> 0]

Push(t) == \/ PushRoom(t) \/ PushSleep(t) \/ PushUpgrade(t) \/ PushCopy(t)
           \/ PushPublish(t) \/ PushPublishEarly(t) \/ PushCopyLate(t) \/ PushSignal(t)
Pop(t)  == \/ PopLook(t) \/ PopSleep(t) \/ PopCopy(t) \/ PopTrim(t)
           \/ PopSignal(t) \/ SizeEnd(t)
Release(t) == \/ FreeProducer(t) \/ FreeConsumer(t) \/ FreeLook(t)
              \/ FreeWake(t) \/ FreeNull(t) \/ FreeLast(t)
Acquire(t) == PushLock(t) \/ PopLock(t) \/ PopTrimEnd(t)

Batches == UNION {[1 .. n -> Elements] : n \in 1 .. MaxPush}

ProducerCalls(t) == ProducerNew(t) \/ \E es \in Batches : CallPush(t, es)
ConsumerCalls(t) == ConsumerNew(t) \/ SizeBegin(t) \/ \E n \in 1 .. MaxPop : CallPop(t, n)

Next ==
  /\ ~failed
  /\ \/ \E t \in Producers : ProducerCalls(t) \/ Push(t) \/ PushLock(t)
     \/ \E t \in Consumers : ConsumerCalls(t) \/ Pop(t) \/ PopLock(t) \/ PopTrimEnd(t)
     \/ \E t \in Threads : CallFree(t) \/ Release(t) \/ SpuriousWake(t)

Spec == Init /\ [][Next]_vars

(* A thread inside a call keeps running, and gets in the end a mutex that  *)
(* is released again and again; nobody is obliged to make a call, and      *)
(* nobody asleep is woken without a signal.                                *)
Step(t)  == Push(t) \/ Pop(t) \/ Release(t) \/ Acquire(t)
Fairness == \A t \in Threads : SF_vars(~failed /\ Step(t))

FairSpec == Spec /\ Fairness


-----------------------------------------------------------------------------
(* Properties.                                                             *)

Labels ==
  {"none", "idle", "gone",
   "push_lock", "push_room", "push_sleep", "push_asleep", "push_upgrade",
   "push_copy", "push_publish", "push_late", "push_signal",
   "pop_lock", "pop_look", "pop_sleep", "pop_asleep", "pop_copy",
   "pop_trim_end", "pop_trim", "pop_signal", "size_read", "size_torn",
   "free_producer", "free_consumer", "free_look", "free_wake", "free_null", "free_last"}

Snapshots == [bufend : Nat \ {0}, begin : Nat, end : Nat]

(* Types; begin and end are always inside the buffer (check_invariants     *)
(* only asks for in_bounds up to and including bufend).                    *)
TypeOK ==
  /\ bufend \in Nat /\ begin \in 0 .. bufend - 1 /\ end \in 0 .. bufend - 1
  /\ cells \in [0 .. bufend - 1 -> Elements \cup {Junk}]
  /\ {allocated, deallocated, failed} \subseteq BOOLEAN
  /\ {begin_lock, end_lock} \subseteq Threads \cup {Free}
  /\ {producer_refcount, consumer_refcount} \subseteq Nat
  /\ pc \in [Threads -> Labels]
  /\ snap \in [Threads -> Snapshots]
  /\ elems \in [Threads -> Seq(Elements)]
  /\ {bytes_left, moved, size} \subseteq [Threads -> Nat]
  /\ target \in [Threads -> Seq(Elements \cup {Junk})]

(* No assertion of pipe.c ever fails on an unlimited pipe: check_invariants*)
(* holds wherever it is called, pushes and pops always move something.     *)
NoAbort == ~failed

pushing(t) == pc[t] \in {"push_upgrade", "push_copy", "push_publish"}

(* What pipe.c:135-142 rests two locks on: a pusher's snapshot may have an *)
(* old begin and a popper's an old end, but the other three pointers are   *)
(* current, and an old pointer only ever hides room or elements.           *)
SnapshotSound ==
  \A t \in Threads :
    /\ pushing(t) => /\ snap[t].bufend = bufend /\ snap[t].end = end
                     /\ used <= bytes_in_use(snap[t])
    /\ pc[t] = "pop_copy" => /\ snap[t].bufend = bufend /\ snap[t].begin = begin
                             /\ bytes_in_use(snap[t]) <= used

live == {wrap_ptr_if_necessary(begin + i, bufend) : i \in 0 .. used}

(* The cells a pusher copies into, with end_lock only, are not the         *)
(* sentinel nor a live element, which a popper may be reading.             *)
NoOverlap ==
  \A t \in Threads : pc[t] = "push_copy" =>
    \A i \in 0 .. Len(batch(t)) - 1 :
      wrap_ptr_if_necessary(snap[t].end + i, bufend) \notin live

(* pop never returns memory that no push has written.                      *)
OnlyElementsPopped == \A t \in Consumers : target[t] \in Seq(Elements)

(* A pop that came back short (pipe.h:210) means the pipe is drained and   *)
(* nobody can push any more, then and for good.                            *)
ShortMeansClosed ==
  \A t \in Consumers :
    pc[t] \in {"idle", "gone"} /\ bytes_left[t] > 0 => producer_refcount = 0 /\ used = 0

(* The only consumer of byte-sized pushes may trust an unlocked pipe_size: *)
(* when it said there is something, begin and end say so too, and a pop    *)
(* does not block.                                                         *)
empty      == wrap_ptr_if_necessary(begin + 1, bufend) = end
SizeIsSafe == \A t \in Consumers : pc[t] = "idle" /\ size[t] > 0 => ~empty

(* A thread in Past has no handle: not yet, or its count is given back and *)
(* at most the end of a free call is left to run.                          *)
Past == {"none", "free_look", "free_wake", "free_null", "free_last", "gone"}

(* The pipe is not deallocated before every handle was at least given      *)
(* back: no push, no pop and no first half of a free ever runs on memory   *)
(* that is gone, however the frees of several threads overlap.             *)
FreedAfterUse == deallocated => \A t \in Threads : pc[t] \in Past

(* pipe.h:136-138 says more: the pipe will exist until all the handles     *)
(* have been freed, so that no call of a free is still at work on it.      *)
ExistsUntilFreed == deallocated => \A t \in Threads : pc[t] \in {"none", "gone"}

(* The buffer is not given up while somebody may push into it or pop.      *)
BufferKept == ~allocated => consumer_refcount = 0 /\ \A t \in Threads :
                pc[t] \notin {"push_upgrade", "push_copy", "push_publish", "pop_copy", "pop_trim"}

(* The pipe implements the queue of pipe.h.                                *)
Queue == INSTANCE Fifo
  WITH Senders <- Threads, Receivers <- Threads,
       queue <- contents(cells, make_snapshot), sending <- elems,
       received <- target, listening <- consumer_refcount > 0
IsFifo == Queue!Spec

(* What may keep a push from returning for good: the pipe is more than a   *)
(* quarter full, and no popper is at work, nor about to start.             *)
stalled == /\ Bounded /\ used > max_cap \div 4
           /\ \A t \in Consumers :
                pc[t] \notin {"pop_lock", "pop_look", "pop_sleep", "pop_copy",
                             "pop_trim_end", "pop_trim", "pop_signal"}

(* Every push returns, unless the pipe comes to a state that lasts, above  *)
(* a quarter of its limit and with no popper at work.  A push that slept   *)
(* through its signal (PushReturnsWhenRoom) is woken by the next pop, and  *)
(* not later than by the one that takes the pipe down to a quarter: it     *)
(* needs end_lock to trim the buffer before it signals, which the pusher   *)
(* holds until it sleeps.                                                  *)
PushReturns == \A t \in Producers : pc[t] = "push_lock" ~> pc[t] = "idle" \/ []stalled

(* pipe.c:698 says that a push waits until there is enough room to push    *)
(* any elements; so it cannot go on sleeping over a pipe that has room.    *)
(* With a limit it can, when it slept through the signal: this is false.   *)
at_limit            == Bounded /\ used = max_cap
PushReturnsWhenRoom ==
  \A t \in Producers : pc[t] = "push_asleep" /\ ~at_limit ~> pc[t] # "push_asleep"

popping(t) == pc[t] \in {"pop_lock", "pop_look", "pop_sleep", "pop_asleep"}

entering(t) == pc[t] \in {"push_lock", "push_room", "push_sleep", "push_asleep"}

(* When the last producer handle is freed, every blocked pop returns, and  *)
(* when the last consumer handle is, every blocked push does.              *)
CloseWakes ==
  /\ \A t \in Consumers : popping(t) /\ producer_refcount = 0 ~> pc[t] \in {"idle", "gone"}
  /\ \A t \in Producers :
       entering(t) /\ consumer_refcount = 0 ~> pc[t] \in {"idle", "gone"}

(* pipe.h:203 says that pop blocks until its target is filled; so it       *)
(* cannot go on sleeping over a pipe that holds what it needs.             *)
PopReturnsWhenFilled ==
  \A t \in Consumers :
    pc[t] = "pop_asleep" /\ used >= bytes_left[t] ~> pc[t] # "pop_asleep"
=============================================================================
