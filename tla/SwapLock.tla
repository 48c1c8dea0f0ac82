------------------------------ MODULE SwapLock ------------------------------
(***************************************************************************)
(* asyncio.Lock as the units use it, and the bounded acquire that Lane,    *)
(* SlotLane, SparkUnit and SparkGroup wrap around it (_acquire_swap_lock). *)
(*                                                                         *)
(* A lock is its owner, the FIFO queue of the tasks that wait, and those   *)
(* of them that wait with a timeout.  release() wakes the task at the head *)
(* of the queue, which takes the lock when the event loop gets to it: in   *)
(* between the lock is not locked(), and yet an acquire() by anybody else  *)
(* queues up and waits.  A waiter that gives up passes the wake-up on, so  *)
(* "woken" is the same as "at the head of the queue of an unlocked lock".  *)
(***************************************************************************)
EXTENDS Integers, SequencesExt

CONSTANT NoTask

Unlocked == [owner |-> NoTask, queue |-> <<>>, timed |-> {}]

SwapLocks(T) ==
    {l \in [owner : T \union {NoTask}, queue : Seq(T), timed : SUBSET T] :
        IsInjective(l.queue)}

Locked(l) == l.owner # NoTask
Waits(l, t) == \E i \in DOMAIN l.queue : l.queue[i] = t

\* an acquire() that does not yield
Uncontended(l) == ~Locked(l) /\ l.queue = <<>>

Take(l, t) == [l EXCEPT !.owner = t]

\* _acquire_swap_lock has to wait: under a timeout only if the lock is locked()
Queue(l, t) ==
    [l EXCEPT !.queue = Append(@, t),
              !.timed = IF Locked(l) THEN @ \union {t} ELSE @]

\* the woken task resumes
Woken(l, t) == ~Locked(l) /\ l.queue # <<>> /\ Head(l.queue) = t
Resume(l, t) == [owner |-> t, queue |-> Tail(l.queue), timed |-> l.timed \ {t}]

\* mutant: a waiter that gave up keeps its place in the queue
MutGiveUp(l, t) == [l EXCEPT !.timed = @ \ {t}]
\* wait_for gives the task up, and acquire() takes it off the queue
GiveUp(l, t) == [l EXCEPT !.queue = RemoveFirst(@, t), !.timed = @ \ {t}]

Release(l) == [l EXCEPT !.owner = NoTask]
=============================================================================
