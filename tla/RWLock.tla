------------------------------- MODULE RWLock -------------------------------
(* The reader-writer lock of platform/threads_msvcrt.c, built on two critical
   sections and a manual-reset event.  (On POSIX the same names are macros for
   pthread_rwlock_*.)  One step per call into Windows or access to num_readers;
   the clients lock in one mode and unlock, again and again. *)
EXTENDS Integers, FiniteSets

CONSTANTS Thread, WriterBit      \* RWLOCK_WRITER_BIT

ASSUME ThreadAssumption == IsFiniteSet(Thread)
ASSUME BitAssumption == WriterBit \in Nat /\ Cardinality(Thread) < WriterBit

Free == "free"
ASSUME FreeAssumption == Free \notin Thread

VARIABLES
    mutex,          \* owner of rwlock->mutex
    count_lock,     \* owner of rwlock->num_readers_lock
    num_readers,
    readers_done,   \* the event: TRUE when signalled
    pc

vars == <<mutex, count_lock, num_readers, readers_done, pc>>

PC == {"idle", "r_mutex", "r_count", "r_reset", "r_add", "r_leave", "r_release", "reading",
       "w_mutex", "w_count", "w_bit", "w_leave", "w_wait", "writing",
       "u_test", "u_signal", "u_leave", "x_leave", "x_release"}

Init ==
    /\ mutex = Free /\ count_lock = Free
    /\ num_readers = 0
    /\ readers_done = TRUE
    /\ pc = [t \in Thread |-> "idle"]

Goto(t, from, to) == pc[t] = from /\ pc' = [pc EXCEPT ![t] = to]

TakeMutex(t, from, to) ==
    /\ Goto(t, from, to)
    /\ mutex = Free /\ mutex' = t
    /\ UNCHANGED <<count_lock, num_readers, readers_done>>

DropMutex(t, from, to) ==
    /\ Goto(t, from, to)
    /\ mutex' = Free
    /\ UNCHANGED <<count_lock, num_readers, readers_done>>

TakeCount(t, from, to) ==
    /\ Goto(t, from, to)
    /\ count_lock = Free /\ count_lock' = t
    /\ UNCHANGED <<mutex, num_readers, readers_done>>

DropCount(t, from, to) ==
    /\ Goto(t, from, to)
    /\ count_lock' = Free
    /\ UNCHANGED <<mutex, num_readers, readers_done>>

Call(t, to) == /\ Goto(t, "idle", to)
               /\ UNCHANGED <<mutex, count_lock, num_readers, readers_done>>
-----------------------------------------------------------------------------
(* bugle_thread_rwlock_rdlock *)
RMutex(t) == TakeMutex(t, "r_mutex", "r_count")
RCount(t) == TakeCount(t, "r_count", "r_reset")

\* Leaves the event as it is.
RKeepEvent(t) ==
    /\ Goto(t, "r_reset", "r_add")
    /\ UNCHANGED <<mutex, count_lock, num_readers, readers_done>>

RReset(t) ==
    /\ Goto(t, "r_reset", "r_add")
    /\ readers_done' = IF num_readers = 0 THEN FALSE ELSE readers_done
    /\ UNCHANGED <<mutex, count_lock, num_readers>>

RAdd(t) ==
    /\ Goto(t, "r_add", "r_leave")
    /\ num_readers' = num_readers + 1
    /\ UNCHANGED <<mutex, count_lock, readers_done>>

RLeave(t) == DropCount(t, "r_leave", "r_release")
RRelease(t) == DropMutex(t, "r_release", "reading")

(* bugle_thread_rwlock_wrlock *)
\* Lets the readers go first instead of shutting out new ones.
WMutexIfIdle(t) == TakeMutex(t, "w_mutex", "w_count") /\ num_readers = 0

WMutex(t) == TakeMutex(t, "w_mutex", "w_count")
WCount(t) == TakeCount(t, "w_count", "w_bit")

WBit(t) ==        \* num_readers |= RWLOCK_WRITER_BIT
    /\ Goto(t, "w_bit", "w_leave")
    /\ num_readers' = IF num_readers < WriterBit THEN num_readers + WriterBit ELSE num_readers
    /\ UNCHANGED <<mutex, count_lock, readers_done>>

WLeave(t) == DropCount(t, "w_leave", "w_wait")

WWait(t) ==
    /\ Goto(t, "w_wait", "writing")
    /\ readers_done
    /\ UNCHANGED <<mutex, count_lock, num_readers, readers_done>>

(* bugle_thread_rwlock_unlock *)
UCount(t) == TakeCount(t, pc[t], "u_test") /\ pc[t] \in {"reading", "writing"}

UTest(t) ==
    /\ pc[t] = "u_test"
    /\ IF num_readers = WriterBit
       THEN num_readers' = 0 /\ pc' = [pc EXCEPT ![t] = "x_leave"]
       ELSE /\ num_readers' = num_readers - 1
            /\ pc' = [pc EXCEPT ![t] = "u_signal"]
    /\ UNCHANGED <<mutex, count_lock, readers_done>>

USignal(t) ==
    /\ Goto(t, "u_signal", "u_leave")
    /\ readers_done' = (num_readers \in {0, WriterBit} \/ readers_done)
    /\ UNCHANGED <<mutex, count_lock, num_readers>>

ULeave(t) == DropCount(t, "u_leave", "idle")

XLeave(t) == DropCount(t, "x_leave", "x_release")
XRelease(t) == DropMutex(t, "x_release", "idle")
-----------------------------------------------------------------------------
Step(t) == \/ RMutex(t) \/ RCount(t) \/ RReset(t) \/ RAdd(t) \/ RLeave(t) \/ RRelease(t)
           \/ WMutex(t) \/ WCount(t) \/ WBit(t) \/ WLeave(t) \/ WWait(t)
           \/ UCount(t) \/ UTest(t) \/ USignal(t) \/ ULeave(t) \/ XLeave(t) \/ XRelease(t)

Next == \E t \in Thread : Step(t) \/ Call(t, "r_mutex") \/ Call(t, "w_mutex")

Spec == Init /\ [][Next]_vars

(* Every thread is scheduled and unlocks what it locked; a critical section
   does not pass a waiter over for ever. *)
Fairness == \A t \in Thread :
    /\ WF_vars(Step(t))
    /\ SF_vars(RMutex(t) \/ WMutex(t))
    /\ SF_vars(RCount(t) \/ WCount(t) \/ UCount(t))

FairSpec == Spec /\ Fairness
-----------------------------------------------------------------------------
TypeOK ==
    /\ mutex \in Thread \cup {Free} /\ count_lock \in Thread \cup {Free}
    /\ num_readers \in Nat /\ readers_done \in BOOLEAN
    /\ pc \in [Thread -> PC]

(* Unlocking does not say in which mode the lock was held; "u_test" stands for
   both.  The mutex tells: a writer keeps it over its lifetime. *)
Unlocking(t) == pc[t] = "u_test"
Reads(t) == pc[t] = "reading" \/ (Unlocking(t) /\ mutex # t)
Writes(t) == pc[t] = "writing" \/ (Unlocking(t) /\ mutex = t)

(* What the lock's own words mean.  Counted: in num_readers; WithBit: the writer
   bit is due.  The event says that nobody is counted, except between a change of
   num_readers and the event's. *)
MutexHeld == {"r_count", "r_reset", "r_add", "r_leave", "r_release", "w_count", "w_bit",
              "w_leave", "w_wait", "writing", "x_leave", "x_release"}
CountHeld == {"r_reset", "r_add", "r_leave", "w_bit", "w_leave", "u_test", "u_signal",
              "u_leave", "x_leave"}
Counted(t) == pc[t] \in {"r_leave", "r_release"} \/ Reads(t)
WithBit(t) == pc[t] \in {"w_leave", "w_wait"} \/ Writes(t)
CountedThreads == {t \in Thread : Counted(t)}
MutexHolder == \A t \in Thread : /\ pc[t] \in MutexHeld => mutex = t
                                 /\ mutex = t => pc[t] \in MutexHeld \cup {"u_test"}
CountHolder == \A t \in Thread : pc[t] \in CountHeld <=> count_lock = t
CountValue ==
    num_readers = Cardinality(CountedThreads)
                  + (IF \E t \in Thread : WithBit(t) THEN WriterBit ELSE 0)
EventValue ==
    readers_done <=> CountedThreads = {} /\ \A t \in Thread : pc[t] \notin {"r_add", "u_signal"}
WriterAlone == (\E t \in Thread : Writes(t)) => CountedThreads = {}

\* The inductive invariant.
IInv == TypeOK /\ MutexHolder /\ CountHolder /\ CountValue /\ EventValue /\ WriterAlone

(* "This ensures that readers are blocked while a writer is active or waiting"
   (msvcrt/platform/threads.h:58): a writer is alone. *)
Exclusion == \A t, u \in Thread : Writes(t) /\ (Writes(u) \/ Reads(u)) => t = u

(* "If there are any readers, we must be a reader. Otherwise, we are a writer
   and RWLOCK_WRITER_BIT must be set" (threads_msvcrt.c:109): unlock guesses
   its own mode from a counter that other threads change, and guesses right. *)
UnlockKnowsItself ==
    \A t \in Thread : Unlocking(t) => ((num_readers = WriterBit) <=> Writes(t))

(* "signalled when there are no active readers" (msvcrt/platform/threads.h:71):
   a writer that waits faces a reader that has yet to leave, or the signal. *)
NoLostSignal ==
    \A t \in Thread : pc[t] = "w_wait" =>
        readers_done \/ \E u \in Thread : Reads(u) \/ pc[u] = "u_signal"

(* "RW lock implementation that prevents writer starvation" (threads.h:55): who
   asks for the lock gets it, in the mode it asked for. *)
LockServed == \A t \in Thread : /\ pc[t] = "w_mutex" ~> pc[t] = "writing"
                                /\ pc[t] = "r_mutex" ~> pc[t] = "reading"

Abstract == INSTANCE RWLockSpec WITH readers <- {t \in Thread : Reads(t)},
                                     writers <- {t \in Thread : Writes(t)}
ImplementsRWLock == Abstract!Spec
=============================================================================
