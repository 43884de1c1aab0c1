----------------------------- MODULE Workqueue -----------------------------
(* common/workqueue.c: the ring buffer between the worker thread, which blocks
   in the consume callback, and the main thread, which polls with has_data,
   takes items with get_item, or sleeps until the wakeup callback runs.

   Each access to a shared variable is a step of its own, so the two threads
   interleave as finely as the semaphores and tail_lock let them.  The main
   thread is the most general client of the API: it makes any call whose
   assertions hold, in any order.  No counter grows, so no bound is needed:
   the source may produce items for ever. *)
EXTENDS Integers, Sequences

CONSTANTS BUGLE_WORKQUEUE_SIZE,   \* slots in the ring
          Item,                   \* what consume can store in *item
          Junk                    \* what the allocator left in items[]

ASSUME SizeAssumption == BUGLE_WORKQUEUE_SIZE \in Nat /\ BUGLE_WORKQUEUE_SIZE >= 2
ASSUME JunkAssumption == Junk \notin Item

VARIABLES
    data_sem, space_sem,   \* semaphore counts
    tail_lock,             \* "free", or the thread that holds the lock
    head, tail, items,     \* the ring
    running, wakeup,       \* struct fields; wakeup: a callback was set
    alive,                 \* FALSE once bugle_workqueue_free has run
    wpc, item, more,       \* the worker: its next step and its locals
    mpc, ret, has,         \* the main thread: next step, last get_item, and
                           \* last has_data if nothing has made it stale since
    woken                  \* the event loop's wake flag, raised by the callback

ring == <<head, tail, items>>
sems == <<data_sem, space_sem>>
life == <<running, wakeup, alive>>
worker == <<wpc, item, more>>
main == <<mpc, ret, has>>
vars == <<data_sem, space_sem, tail_lock, head, tail, items, running, wakeup,
          alive, wpc, item, more, mpc, ret, has, woken>>

Slot == 0 .. BUGLE_WORKQUEUE_SIZE - 1
Value == Item \cup {Junk}

WorkerPC == {"none", "consume", "space", "lock", "store", "unlock", "post", "wakeup", "done"}
MainPC == {"idle", "has_read", "has_unlock", "get_wait", "get_read", "get_advance",
           "get_post", "join", "sleep"}

\* if (++i == BUGLE_WORKQUEUE_SIZE) i = 0;
Advance(i) == IF i + 1 = BUGLE_WORKQUEUE_SIZE THEN 0 ELSE i + 1

\* sem_init with a permit per slot instead of one fewer.
AllSlotsPermitted ==
    /\ data_sem = 0
    /\ space_sem = BUGLE_WORKQUEUE_SIZE
    /\ tail_lock = "free"
    /\ head = 0 /\ tail = 0
    /\ items = [s \in Slot |-> Junk]
    /\ running = FALSE /\ wakeup = FALSE /\ alive = TRUE
    /\ wpc = "none" /\ item = Junk /\ more = TRUE
    /\ mpc = "idle" /\ ret = Junk /\ has = "unknown"
    /\ woken = FALSE

Init ==
    /\ data_sem = 0
    /\ space_sem = BUGLE_WORKQUEUE_SIZE - 1
    /\ tail_lock = "free"
    /\ head = 0 /\ tail = 0
    /\ items = [s \in Slot |-> Junk]
    /\ running = FALSE /\ wakeup = FALSE /\ alive = TRUE
    /\ wpc = "none" /\ item = Junk /\ more = TRUE
    /\ mpc = "idle" /\ ret = Junk /\ has = "unknown"
    /\ woken = FALSE
-----------------------------------------------------------------------------
(* The worker thread. *)

WConsume ==      \* blocks as long as the source does; FALSE: source exhausted
    /\ wpc = "consume"
    /\ item' \in Item
    /\ more' \in BOOLEAN
    /\ wpc' = "space"
    /\ UNCHANGED <<sems, tail_lock, ring, life, main, woken>>

WWaitSpace ==
    /\ wpc = "space"
    /\ space_sem > 0
    /\ space_sem' = space_sem - 1
    /\ wpc' = "lock"
    /\ UNCHANGED <<data_sem, tail_lock, ring, life, item, more, main, woken>>

WLock ==
    /\ wpc = "lock"
    /\ tail_lock = "free"
    /\ tail_lock' = "worker"
    /\ wpc' = "store"
    /\ UNCHANGED <<sems, ring, life, item, more, main, woken>>

WStore ==
    /\ wpc = "store"
    /\ items' = [items EXCEPT ![tail] = item]
    /\ tail' = Advance(tail)
    /\ wpc' = "unlock"
    /\ UNCHANGED <<sems, tail_lock, head, life, item, more, main, woken>>

WUnlock ==
    /\ wpc = "unlock"
    /\ tail_lock' = "free"
    /\ wpc' = "post"
    /\ UNCHANGED <<sems, ring, life, item, more, main, woken>>

\* The "post only when it was empty" optimisation.
WPostIfEmpty ==
    /\ wpc = "post"
    /\ data_sem' = IF Advance(head) = tail THEN data_sem + 1 ELSE data_sem
    /\ wpc' = "wakeup"
    /\ UNCHANGED <<space_sem, tail_lock, ring, life, item, more, main, woken>>

WPost ==
    /\ wpc = "post"
    /\ data_sem' = data_sem + 1
    /\ wpc' = "wakeup"
    /\ UNCHANGED <<space_sem, tail_lock, ring, life, item, more, main, woken>>

\* The last item, the one that reports the end of the source, wakes nobody.
WWakeupUnlessLast ==
    /\ wpc = "wakeup"
    /\ woken' = (woken \/ (wakeup /\ more))
    /\ wpc' = IF more THEN "consume" ELSE "done"
    /\ UNCHANGED <<sems, tail_lock, ring, life, item, more, main>>

WWakeup ==
    /\ wpc = "wakeup"
    /\ woken' = (woken \/ wakeup)
    /\ wpc' = IF more THEN "consume" ELSE "done"
    /\ UNCHANGED <<sems, tail_lock, ring, life, item, more, main>>
-----------------------------------------------------------------------------
(* The main thread. *)

SetWakeup ==
    /\ mpc = "idle" /\ alive /\ ~running
    /\ wakeup' = TRUE
    /\ UNCHANGED <<sems, tail_lock, ring, running, alive, worker, main, woken>>

Start ==
    /\ mpc = "idle" /\ alive /\ ~running
    /\ wpc' = "consume"
    /\ running' = TRUE
    /\ has' = "unknown"
    /\ UNCHANGED <<sems, tail_lock, ring, wakeup, alive, item, more, mpc, ret, woken>>

StopCall ==
    /\ mpc = "idle" /\ alive /\ running
    /\ mpc' = "join"
    /\ UNCHANGED <<sems, tail_lock, ring, life, worker, ret, has, woken>>

Join ==
    /\ mpc = "join"
    /\ wpc = "done"
    /\ running' = FALSE
    /\ mpc' = "idle"
    /\ has' = "unknown"
    /\ UNCHANGED <<sems, tail_lock, ring, wakeup, alive, worker, ret, woken>>

Free ==
    /\ mpc = "idle" /\ alive /\ ~running
    /\ alive' = FALSE
    /\ UNCHANGED <<sems, tail_lock, ring, running, wakeup, worker, main, woken>>

HasLock ==
    /\ mpc = "idle" /\ alive
    /\ tail_lock = "free"
    /\ tail_lock' = "main"
    /\ mpc' = "has_read"
    /\ UNCHANGED <<sems, ring, life, worker, ret, has, woken>>

HasRead ==
    /\ mpc = "has_read"
    /\ has' = IF head # tail THEN "yes" ELSE "no"
    /\ mpc' = "has_unlock"
    /\ UNCHANGED <<sems, tail_lock, ring, life, worker, ret, woken>>

HasUnlock ==
    /\ mpc = "has_unlock"
    /\ tail_lock' = "free"
    /\ mpc' = "idle"
    /\ UNCHANGED <<sems, ring, life, worker, ret, has, woken>>

GetCall ==
    /\ mpc = "idle" /\ alive
    /\ mpc' = "get_wait"
    /\ UNCHANGED <<sems, tail_lock, ring, life, worker, ret, has, woken>>

GetWait ==
    /\ mpc = "get_wait"
    /\ data_sem > 0
    /\ data_sem' = data_sem - 1
    /\ mpc' = "get_read"
    /\ UNCHANGED <<space_sem, tail_lock, ring, life, worker, ret, has, woken>>

GetRead ==
    /\ mpc = "get_read"
    /\ ret' = items[head]
    /\ mpc' = "get_advance"
    /\ UNCHANGED <<sems, tail_lock, ring, life, worker, has, woken>>

\* get_item that leaves head where it is.
GetPeek ==
    /\ mpc = "get_advance"
    /\ mpc' = "get_post"
    /\ UNCHANGED <<sems, tail_lock, ring, life, worker, ret, has, woken>>

GetAdvance ==
    /\ mpc = "get_advance"
    /\ head' = Advance(head)
    /\ mpc' = "get_post"
    /\ UNCHANGED <<sems, tail_lock, tail, items, life, worker, ret, has, woken>>

GetPost ==
    /\ mpc = "get_post"
    /\ space_sem' = space_sem + 1
    /\ mpc' = "idle"
    /\ has' = "unknown"
    /\ UNCHANGED <<data_sem, tail_lock, ring, life, worker, ret, woken>>

\* The event loop polls, sees no data and sleeps until somebody wakes it; the
\* wake flag is sticky, as g_main_context_wakeup's is.
Sleep ==
    /\ mpc = "idle" /\ alive /\ running
    /\ wakeup /\ has = "no"
    /\ mpc' = "sleep"
    /\ UNCHANGED <<sems, tail_lock, ring, life, worker, ret, has, woken>>

Wake ==
    /\ mpc = "sleep" /\ woken
    /\ woken' = FALSE
    /\ mpc' = "idle"
    /\ has' = "unknown"
    /\ UNCHANGED <<sems, tail_lock, ring, life, worker, ret>>
-----------------------------------------------------------------------------
WorkerNext == WConsume \/ WWaitSpace \/ WLock \/ WStore \/ WUnlock \/ WPost \/ WWakeup

\* A call the main thread has begun; its next call is its own choice.
MainProgress == Join \/ HasRead \/ HasUnlock \/ GetWait \/ GetRead \/ GetAdvance
                \/ GetPost \/ Wake

MainNext == SetWakeup \/ Start \/ StopCall \/ Free \/ HasLock \/ GetCall \/ Sleep
            \/ MainProgress

Next == WorkerNext \/ MainNext

Spec == Init /\ [][Next]_vars

(* Both threads are scheduled; the source may block for ever (no fairness on
   WConsume) and the mutex does not starve a waiter. *)
Fairness == /\ WF_vars(WWaitSpace \/ WStore \/ WUnlock \/ WPost \/ WWakeup)
            /\ SF_vars(WLock)
            /\ WF_vars(MainProgress)

FairSpec == Spec /\ Fairness
-----------------------------------------------------------------------------
TypeOK ==
    /\ data_sem \in Nat /\ space_sem \in Nat
    /\ tail_lock \in {"free", "worker", "main"}
    /\ head \in Slot /\ tail \in Slot
    /\ items \in [Slot -> Value]
    /\ running \in BOOLEAN /\ wakeup \in BOOLEAN /\ alive \in BOOLEAN
    /\ wpc \in WorkerPC /\ item \in Value /\ more \in BOOLEAN
    /\ mpc \in MainPC /\ ret \in Value /\ has \in {"unknown", "yes", "no"}
    /\ woken \in BOOLEAN

\* Slots from head to tail, as the ring's indices have them.
Distance(h, t) == IF t >= h THEN t - h ELSE t - h + BUGLE_WORKQUEUE_SIZE
Occupied == Distance(head, tail)
At(h, i) == IF h + i < BUGLE_WORKQUEUE_SIZE THEN h + i ELSE h + i - BUGLE_WORKQUEUE_SIZE

Count(b) == IF b THEN 1 ELSE 0

(* The two semaphores account for every slot, whatever both threads are doing:
   data_sem for the occupied ones, space_sem for the free ones but one. *)
DataPermits ==
    Occupied = data_sem + Count(wpc \in {"unlock", "post"})
                        + Count(mpc \in {"get_read", "get_advance"})
SpacePermits ==
    Occupied + space_sem + Count(wpc \in {"lock", "store"}) + Count(mpc = "get_post")
        = BUGLE_WORKQUEUE_SIZE - 1

LockHeld ==
    /\ (tail_lock = "worker") <=> (wpc \in {"store", "unlock"})
    /\ (tail_lock = "main") <=> (mpc \in {"has_read", "has_unlock"})

\* Every slot from head to tail holds a value that consume produced.
Stored == \A i \in 0 .. BUGLE_WORKQUEUE_SIZE - 1 :
              i < Occupied => items[At(head, i)] \in Item

InHand == wpc \in {"space", "lock", "store"} => item \in Item

(* "we avoid allowing the queue to completely fill, so that head == tail can be
   used to test for empty" (lines 83-85): the slot the worker is about to write
   is never one that holds an item, and writing it never makes the ring look
   empty. *)
NeverOverwrites ==
    wpc = "store" => Occupied + 1 < BUGLE_WORKQUEUE_SIZE

(* A TRUE from has_data is still good when get_item is called: the call waits
   at most for the worker, past its store, to post (lines 68-69, 147-168). *)
PollHolds ==
    has = "yes" /\ mpc \in {"idle", "get_wait", "has_read", "join"} =>
        head # tail /\ (data_sem > 0 \/ wpc \in {"unlock", "post"})

\* The worker cannot move until the main thread does something.
WorkerStuck == \/ wpc \in {"none", "done"}
               \/ wpc = "space" /\ space_sem = 0

(* Neither thread waits for a signal that was already given: with the worker
   stuck, a main thread blocked in get_item faces an empty ring, and one asleep
   in the event loop an empty ring or a raised wake flag; a worker stuck for
   space while the main thread is between calls faces a ring with
   BUGLE_WORKQUEUE_SIZE - 1 items. *)
NoMissedSignal ==
    /\ WorkerStuck /\ mpc = "get_wait" /\ data_sem = 0 => head = tail
    /\ WorkerStuck /\ mpc = "sleep" => head = tail \/ woken
    /\ wpc = "space" /\ space_sem = 0 /\ mpc # "get_post" =>
           Occupied = BUGLE_WORKQUEUE_SIZE - 1

\* The worker never touches a queue that was freed (lines 135-145).
NoUseAfterFree == ~alive => wpc \in {"none", "done"} /\ mpc = "idle"

(* A loop asleep while an item waits is woken by the callback: "This should
   signal the main thread that data is available" (workqueue.h). *)
SleeperIsWoken == (mpc = "sleep" /\ head # tail) ~> mpc # "sleep"
-----------------------------------------------------------------------------
(* The inductive invariant behind all of the above. *)
Lifecycle ==
    /\ ~running => wpc \in {"none", "done"}
    /\ mpc \in {"join", "sleep"} => running
    /\ mpc = "sleep" => wakeup /\ has = "no"
    /\ ~alive => ~running /\ mpc = "idle"

\* After a FALSE poll, an item that arrives raises the wake flag, or will.
PolledEmpty ==
    has = "no" /\ (wakeup \/ ~running) =>
        head = tail \/ woken \/ wpc \in {"unlock", "post", "wakeup"}

PolledFull ==
    has = "yes" /\ mpc \notin {"get_read", "get_advance", "get_post"} => head # tail

IInv == /\ TypeOK /\ LockHeld /\ DataPermits /\ SpacePermits /\ Stored /\ InHand
        /\ Lifecycle /\ PolledEmpty /\ PolledFull
-----------------------------------------------------------------------------
(* The ring as an abstract FIFO: an item enters when tail moves past it and
   leaves when get_item has read it. *)
First == IF mpc = "get_advance" THEN Advance(head) ELSE head
Window(slots, h, n) == [i \in 1 .. n |-> slots[At(h, i - 1)]]
contents == Window(items, First, Distance(First, tail))

Fifo == INSTANCE BoundedFifo WITH fifo <- contents,
                                  Capacity <- BUGLE_WORKQUEUE_SIZE - 1
ImplementsFifo == Fifo!Spec
=============================================================================
