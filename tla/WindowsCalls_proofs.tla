------------------------ MODULE WindowsCalls_proofs ------------------------
(* First the reader-writer lock of threads_msvcrt.c: it is one, for any finite set
   of threads smaller than RWLOCK_WRITER_BIT.  Then the once control and the lock
   together, for any number of threads: the function runs once in each round of the
   counter, and in the first round nobody is in the lock that it creates before that,
   and what is created is a lock for all that follows. *)
EXTENDS WindowsCalls, FiniteSetTheorems, TLAPS

SomeBit == \E u \in Thread : WithBit(u)

-----------------------------------------------------------------------------
(* What a value of num_readers tells about the threads. *)
LEMMA CountFacts ==
    ASSUME IInv
    PROVE  /\ IsFiniteSet(CountedThreads)
           /\ Cardinality(CountedThreads) \in Nat
           /\ Cardinality(CountedThreads) = 0 <=> CountedThreads = {}
           /\ num_readers < WriterBit <=> ~SomeBit
           /\ num_readers = WriterBit <=> SomeBit /\ CountedThreads = {}
           /\ num_readers = 0 <=> ~SomeBit /\ CountedThreads = {}
<1>1. CountedThreads \in SUBSET Thread
  BY DEF CountedThreads
<1>2. IsFiniteSet(CountedThreads) /\ Cardinality(CountedThreads) <= Cardinality(Thread)
  BY <1>1, ThreadAssumption, FS_Subset
<1>3. Cardinality(CountedThreads) \in Nat /\ Cardinality(Thread) \in Nat
  BY <1>2, ThreadAssumption, FS_CardinalityType
<1>4. Cardinality(CountedThreads) = 0 <=> CountedThreads = {}
  BY <1>2, FS_EmptySet
<1>5. WriterBit \in Nat /\ Cardinality(CountedThreads) < WriterBit
  BY <1>2, <1>3, BitAssumption
<1>6. num_readers = Cardinality(CountedThreads) + (IF SomeBit THEN WriterBit ELSE 0)
  BY DEF IInv, CountValue, SomeBit
<1> QED
  BY <1>2, <1>3, <1>4, <1>5, <1>6

\* A thread holds the mutex in one place only, and so does the writer's bit.
LEMMA HolderFacts ==
    ASSUME IInv, NEW t \in Thread
    PROVE  /\ pc[t] \in MutexHeld => mutex = t
           /\ WithBit(t) => mutex = t
           /\ Writes(t) => WithBit(t)
           /\ pc[t] = "reading" => mutex # t
BY DEF IInv, MutexHolder, MutexHeld, WithBit, Writes

(* What a step of one thread does to the threads' places: the lemmas below are
   about any step that takes t to "to". *)
Moves(t, to) ==
    /\ pc' = [pc EXCEPT ![t] = to] /\ to \in PC
    /\ \A u \in Thread : u # t => (mutex' = u <=> mutex = u) /\ (count_lock' = u <=> count_lock = u)
    /\ mutex' \in Thread \cup {Free} /\ count_lock' \in Thread \cup {Free}
    /\ num_readers' \in Nat /\ readers_done' \in BOOLEAN
    /\ to \in MutexHeld => mutex' = t
    /\ mutex' = t => to \in MutexHeld \cup {"u_test"}
    /\ to \in CountHeld <=> count_lock' = t

(* A step of one thread that takes and gives back the sections as Windows allows keeps
   who holds which. *)
LEMMA MovesInv ==
    ASSUME IInv, NEW t \in Thread, NEW to, Moves(t, to)
    PROVE  /\ TypeOK' /\ MutexHolder' /\ CountHolder'
           /\ pc'[t] = to
           /\ \A u \in Thread : u # t => /\ pc'[u] = pc[u]
                                         /\ Counted(u)' <=> Counted(u)
                                         /\ WithBit(u)' <=> WithBit(u)
                                         /\ Writes(u)' <=> Writes(u)
<1>1. pc \in [Thread -> PC]
  BY DEF IInv, TypeOK
<1>2. pc' \in [Thread -> PC] /\ pc'[t] = to /\ \A u \in Thread : u # t => pc'[u] = pc[u]
  BY <1>1 DEF Moves
<1>3. TypeOK'
  BY <1>2 DEF TypeOK, Moves
<1>4. MutexHolder'
  BY <1>2 DEF MutexHolder, Moves, IInv
<1>5. CountHolder'
  BY <1>2 DEF CountHolder, Moves, IInv
<1>6. \A u \in Thread : u # t => /\ Counted(u)' <=> Counted(u)
                                 /\ WithBit(u)' <=> WithBit(u)
                                 /\ Writes(u)' <=> Writes(u)
  BY <1>2 DEF Moves, Counted, WithBit, Writes, Reads, Unlocking
<1> QED
  BY <1>2, <1>3, <1>4, <1>5, <1>6

\* A step that counts t neither in nor out leaves the counter right.
LEMMA KeepsCount ==
    ASSUME IInv, NEW t \in Thread, NEW to, Moves(t, to),
           Counted(t)' <=> Counted(t), WithBit(t)' <=> WithBit(t), num_readers' = num_readers
    PROVE  CountedThreads' = CountedThreads /\ CountValue'
<1>1. \A u \in Thread : (Counted(u)' <=> Counted(u)) /\ (WithBit(u)' <=> WithBit(u))
  BY MovesInv
<1>2. CountedThreads' = CountedThreads
  BY <1>1 DEF CountedThreads
<1>3. (\E u \in Thread : WithBit(u))' <=> \E u \in Thread : WithBit(u)
  BY <1>1
<1> QED
  BY <1>2, <1>3 DEF CountValue, IInv

\* The event stays right when the counted threads and those on their way to it do.
LEMMA KeepsEvent ==
    ASSUME IInv, NEW t \in Thread, NEW to, Moves(t, to),
           CountedThreads' = CountedThreads, readers_done' = readers_done,
           pc[t] \in {"r_add", "u_signal"} <=> to \in {"r_add", "u_signal"}
    PROVE  EventValue'
BY MovesInv DEF EventValue, IInv

(* A writer stays alone when a step counts no thread in or out and makes no writer. *)
LEMMA KeepsWriter ==
    ASSUME IInv, NEW t \in Thread, NEW to, Moves(t, to),
           CountedThreads' = CountedThreads, Writes(t)' => Writes(t)
    PROVE  WriterAlone'
<1>1. \A u \in Thread : Writes(u)' => Writes(u)
  BY MovesInv
<1> QED
  BY <1>1 DEF WriterAlone, IInv

(* A step outside the three that change num_readers and the two that change the
   event. *)
LEMMA QuietInv ==
    ASSUME IInv, NEW t \in Thread, NEW to, Moves(t, to),
           Counted(t)' <=> Counted(t), WithBit(t)' <=> WithBit(t), Writes(t)' => Writes(t),
           num_readers' = num_readers, readers_done' = readers_done,
           pc[t] \in {"r_add", "u_signal"} <=> to \in {"r_add", "u_signal"}
    PROVE  IInv'
<1>1. CountedThreads' = CountedThreads /\ CountValue'
  BY KeepsCount
<1>2. EventValue'
  BY <1>1, KeepsEvent
<1>3. WriterAlone'
  BY <1>1, KeepsWriter
<1> QED
  BY <1>1, <1>2, <1>3, MovesInv DEF IInv
-----------------------------------------------------------------------------
(* The invariant holds at the start. *)
LEMMA InitInv == Init => IInv
<1> SUFFICES ASSUME Init PROVE IInv
  OBVIOUS
<1> USE DEF Init
<1>1. \A t \in Thread : pc[t] = "idle" /\ mutex # t /\ count_lock # t
  BY FreeAssumption
<1>2. TypeOK
  BY DEF TypeOK, PC
<1>3. MutexHolder /\ CountHolder
  BY <1>1 DEF MutexHolder, CountHolder, MutexHeld, CountHeld
<1>4. CountedThreads = {} /\ ~SomeBit
  BY <1>1 DEF CountedThreads, Counted, SomeBit, WithBit, Reads, Writes, Unlocking
<1>5. CountValue
  BY <1>4, FS_EmptySet DEF CountValue, SomeBit
<1>6. EventValue /\ WriterAlone
  BY <1>1, <1>4 DEF EventValue, WriterAlone
<1> QED
  BY <1>2, <1>3, <1>5, <1>6 DEF IInv

\* Entering and leaving the two critical sections.
LEMMA SectionsInv ==
    ASSUME IInv, NEW t \in Thread,
           \/ Call(t, "r_mutex") \/ Call(t, "w_mutex") \/ RMutex(t) \/ WMutex(t) \/ RCount(t)
           \/ WCount(t) \/ RLeave(t) \/ WLeave(t) \/ RRelease(t) \/ UCount(t) \/ ULeave(t)
           \/ XLeave(t) \/ XRelease(t)
    PROVE  IInv'
<1> USE DEF TypeOK, Goto, TakeMutex, DropMutex, TakeCount, DropCount, MutexHolder, CountHolder,
            MutexHeld, CountHeld, PC, Counted, WithBit, Reads, Writes, Unlocking
<1>0. pc \in [Thread -> PC] /\ TypeOK /\ MutexHolder /\ CountHolder /\ Free \notin Thread
  BY FreeAssumption DEF IInv
<1>1. CASE Call(t, "r_mutex") \/ Call(t, "w_mutex")
  <2>1. PICK to \in {"r_mutex", "w_mutex"} : Call(t, to)
    BY <1>1
  <2> QED
    BY <1>0, <2>1, QuietInv DEF Call, Moves
<1>2. CASE RMutex(t)
  BY <1>0, <1>2, QuietInv DEF RMutex, Moves
<1>3. CASE WMutex(t)
  BY <1>0, <1>3, QuietInv DEF WMutex, Moves
<1>4. CASE RCount(t)
  BY <1>0, <1>4, QuietInv DEF RCount, Moves
<1>5. CASE WCount(t)
  BY <1>0, <1>5, QuietInv DEF WCount, Moves
<1>6. CASE RLeave(t)
  BY <1>0, <1>6, QuietInv DEF RLeave, Moves
<1>7. CASE WLeave(t)
  BY <1>0, <1>7, QuietInv DEF WLeave, Moves
<1>8. CASE RRelease(t)
  BY <1>0, <1>8, QuietInv DEF RRelease, Moves
<1>9. CASE UCount(t)
  BY <1>0, <1>9, QuietInv DEF UCount, Moves
<1>10. CASE ULeave(t)
  BY <1>0, <1>10, QuietInv DEF ULeave, Moves
<1>11. CASE XLeave(t)
  BY <1>0, <1>11, QuietInv DEF XLeave, Moves
<1>12. CASE XRelease(t)
  BY <1>0, <1>12, QuietInv DEF XRelease, Moves
<1> QED
  BY <1>1, <1>2, <1>3, <1>4, <1>5, <1>6, <1>7, <1>8, <1>9, <1>10, <1>11, <1>12

-----------------------------------------------------------------------------
(* The event: RReset before a reader is counted, USignal after one left. *)
LEMMA ResetInv == ASSUME IInv, NEW t \in Thread, RReset(t) PROVE IInv'
<1> USE DEF TypeOK, Goto, MutexHolder, CountHolder, MutexHeld, CountHeld
<1>1. TypeOK /\ MutexHolder /\ CountHolder /\ pc[t] = "r_reset"
  BY DEF IInv, RReset
<1>2. Moves(t, "r_add") /\ num_readers' = num_readers
  BY <1>1 DEF RReset, Moves, PC
<1>3. pc'[t] = "r_add"
  BY <1>2, MovesInv
<1>4. (Counted(t)' <=> Counted(t)) /\ (WithBit(t)' <=> WithBit(t)) /\ (Writes(t)' => Writes(t))
  BY <1>1, <1>3 DEF Counted, WithBit, Reads, Writes, Unlocking
<1>5. CountedThreads' = CountedThreads /\ CountValue' /\ WriterAlone'
  BY <1>2, <1>4, KeepsCount, KeepsWriter
<1>6. ~SomeBit
  BY <1>1, HolderFacts DEF SomeBit, WithBit, Writes, Unlocking
<1>7. ~readers_done'
  BY <1>6, CountFacts DEF RReset, IInv, EventValue
<1>8. EventValue'
  BY <1>3, <1>7 DEF EventValue
<1> QED
  BY <1>2, <1>5, <1>8, MovesInv DEF IInv

(* Who unlocks sets the event if no reader is left. *)
LEMMA SignalInv == ASSUME IInv, NEW t \in Thread, USignal(t) PROVE IInv'
<1> USE DEF TypeOK, Goto, MutexHolder, CountHolder, MutexHeld, CountHeld
<1>1. TypeOK /\ MutexHolder /\ CountHolder /\ pc[t] = "u_signal"
  BY DEF IInv, USignal
<1>2. Moves(t, "u_leave") /\ num_readers' = num_readers
  BY <1>1 DEF USignal, Moves, PC
<1>3. pc'[t] = "u_leave" /\ \A u \in Thread : u # t => pc'[u] = pc[u]
  BY <1>2, MovesInv
<1>4. (Counted(t)' <=> Counted(t)) /\ (WithBit(t)' <=> WithBit(t)) /\ (Writes(t)' => Writes(t))
  BY <1>1, <1>3 DEF Counted, WithBit, Reads, Writes, Unlocking
<1>5. CountedThreads' = CountedThreads /\ CountValue' /\ WriterAlone'
  BY <1>2, <1>4, KeepsCount, KeepsWriter
<1>6. \A u \in Thread : pc[u] \in {"r_add", "u_signal"} => u = t
  BY <1>1
<1>7. ~readers_done
  BY <1>1 DEF IInv, EventValue
<1>8. readers_done' <=> CountedThreads = {}
  BY <1>7, CountFacts DEF USignal
<1>9. EventValue'
  BY <1>3, <1>5, <1>6, <1>8 DEF EventValue
<1> QED
  BY <1>2, <1>5, <1>9, MovesInv DEF IInv

\* The writer goes on when nobody is counted.
LEMMA WaitInv == ASSUME IInv, NEW t \in Thread, WWait(t) PROVE IInv'
<1> USE DEF TypeOK, Goto, MutexHolder, CountHolder, MutexHeld, CountHeld
<1>1. TypeOK /\ MutexHolder /\ CountHolder /\ pc[t] = "w_wait"
  BY DEF IInv, WWait
<1>2. Moves(t, "writing") /\ num_readers' = num_readers /\ readers_done' = readers_done
  BY <1>1 DEF WWait, Moves, PC
<1>3. pc'[t] = "writing"
  BY <1>2, MovesInv
<1>4. (Counted(t)' <=> Counted(t)) /\ (WithBit(t)' <=> WithBit(t))
  BY <1>1, <1>3 DEF Counted, WithBit, Reads, Writes, Unlocking
<1>5. CountedThreads' = CountedThreads /\ CountValue' /\ EventValue'
  BY <1>1, <1>2, <1>4, KeepsCount, KeepsEvent
<1>6. CountedThreads = {}
  BY DEF WWait, IInv, EventValue
<1> QED
  BY <1>2, <1>5, <1>6, MovesInv DEF IInv, WriterAlone
-----------------------------------------------------------------------------
(* The counter: a reader comes in, the bit is set, and unlock takes either out. *)
LEMMA AddInv == ASSUME IInv, NEW t \in Thread, RAdd(t) PROVE IInv'
<1> USE DEF TypeOK, Goto, MutexHolder, CountHolder, MutexHeld, CountHeld
<1>1. TypeOK /\ MutexHolder /\ CountHolder /\ pc[t] = "r_add" /\ mutex = t
  BY DEF IInv, RAdd
<1>2. Moves(t, "r_leave") /\ num_readers' = num_readers + 1 /\ readers_done' = readers_done
  BY <1>1 DEF RAdd, Moves, PC
<1>3. pc'[t] = "r_leave"
  BY <1>2, MovesInv
<1>4. ~Counted(t) /\ Counted(t)' /\ ~WithBit(t) /\ ~WithBit(t)'
  BY <1>1, <1>3 DEF Counted, WithBit, Reads, Writes, Unlocking
<1>5. CountedThreads' = CountedThreads \cup {t} /\ t \notin CountedThreads
  BY <1>2, <1>4, MovesInv DEF CountedThreads
<1>6. Cardinality(CountedThreads') = Cardinality(CountedThreads) + 1
  BY <1>5, CountFacts, FS_AddElement
<1>7. ~SomeBit /\ ~SomeBit'
  BY <1>1, <1>2, <1>4, HolderFacts, MovesInv DEF SomeBit
<1>8. CountValue'
  <2>1. num_readers = Cardinality(CountedThreads)
    BY <1>7, CountFacts DEF SomeBit, IInv, CountValue
  <2> QED
    BY <2>1, <1>2, <1>6, <1>7, CountFacts DEF SomeBit, CountValue
<1>9. ~readers_done
  BY <1>1 DEF IInv, EventValue
<1>10. EventValue' /\ WriterAlone'
  <2>1. CountedThreads' # {}
    BY <1>5
  <2>2. \A u \in Thread : ~Writes(u)'
    BY <1>7 DEF SomeBit, WithBit
  <2> QED
    BY <1>2, <1>9, <2>1, <2>2 DEF EventValue, WriterAlone
<1> QED
  BY <1>2, <1>8, <1>10, MovesInv DEF IInv

(* The writer sets its bit. *)
LEMMA BitInv == ASSUME IInv, NEW t \in Thread, WBit(t) PROVE IInv'
<1> USE DEF TypeOK, Goto, MutexHolder, CountHolder, MutexHeld, CountHeld
<1>1. TypeOK /\ MutexHolder /\ CountHolder /\ pc[t] = "w_bit" /\ mutex = t
  BY DEF IInv, WBit
<1>2. ~WithBit(t)
  BY <1>1 DEF WithBit, Writes, Unlocking
<1>3. ~SomeBit
  BY <1>1, <1>2, HolderFacts DEF SomeBit
<1>4. num_readers' = num_readers + WriterBit /\ readers_done' = readers_done
  BY <1>3, CountFacts DEF WBit
<1>5. Moves(t, "w_leave")
  BY <1>1, <1>4, BitAssumption DEF WBit, Moves, PC
<1>6. pc'[t] = "w_leave"
  BY <1>5, MovesInv
<1>7. (Counted(t)' <=> Counted(t)) /\ WithBit(t)' /\ (Writes(t)' => Writes(t))
  BY <1>1, <1>6 DEF Counted, WithBit, Reads, Writes, Unlocking
<1>8. CountedThreads' = CountedThreads
  BY <1>5, <1>7, MovesInv DEF CountedThreads
<1>9. CountValue'
  BY <1>3, <1>4, <1>7, <1>8, CountFacts, BitAssumption DEF SomeBit, IInv, CountValue
<1>10. EventValue' /\ WriterAlone'
  BY <1>1, <1>4, <1>5, <1>7, <1>8, KeepsEvent, KeepsWriter
<1> QED
  BY <1>5, <1>9, <1>10, MovesInv DEF IInv

(* "If there are any readers, we must be a reader": the counter tells a thread
   that unlocks in which mode it holds the lock. *)
LEMMA KnowsItself ==
    ASSUME IInv, NEW t \in Thread, Unlocking(t)
    PROVE  /\ num_readers = WriterBit <=> Writes(t)
           /\ Writes(t) <=> mutex = t
           /\ Reads(t) <=> ~Writes(t)
           /\ Reads(t) => t \in CountedThreads
<1>1. (Writes(t) <=> mutex = t) /\ (Reads(t) <=> ~Writes(t)) /\ (Reads(t) => t \in CountedThreads)
  BY DEF Unlocking, Reads, Writes, CountedThreads, Counted
<1>2. Writes(t) => num_readers = WriterBit
  BY CountFacts, HolderFacts DEF IInv, WriterAlone, SomeBit
<1>3. num_readers = WriterBit => Writes(t)
  BY <1>1, CountFacts
<1> QED
  BY <1>1, <1>2, <1>3

(* Unlock tells a writer from a reader by the count. *)
LEMMA TestInv == ASSUME IInv, NEW t \in Thread, UTest(t) PROVE IInv'
<1> USE DEF TypeOK, MutexHolder, CountHolder, MutexHeld, CountHeld
<1>1. TypeOK /\ MutexHolder /\ CountHolder /\ pc[t] = "u_test" /\ Unlocking(t)
  BY DEF IInv, UTest, Unlocking
<1>2. CASE Writes(t)
  <2>1. mutex = t /\ num_readers' = 0 /\ readers_done' = readers_done /\ CountedThreads = {}
    BY <1>1, <1>2, KnowsItself, CountFacts DEF UTest
  <2>2. Moves(t, "x_leave")
    BY <1>1, <1>2, <2>1, KnowsItself DEF UTest, Moves, PC
  <2>3. pc'[t] = "x_leave"
    BY <2>2, MovesInv
  <2>4. ~Counted(t)' /\ ~Counted(t) /\ ~WithBit(t)' /\ ~Writes(t)'
    BY <1>1, <2>1, <2>3 DEF Counted, WithBit, Reads, Writes, Unlocking
  <2>5. CountedThreads' = CountedThreads
    BY <2>2, <2>4, MovesInv DEF CountedThreads
  <2>6. ~SomeBit'
    BY <2>1, <2>2, <2>4, HolderFacts, MovesInv DEF SomeBit
  <2>7. CountValue'
    BY <2>1, <2>5, <2>6, FS_EmptySet DEF SomeBit, CountValue
  <2>8. EventValue' /\ WriterAlone'
    BY <1>1, <2>1, <2>2, <2>4, <2>5, KeepsEvent, KeepsWriter
  <2> QED
    BY <2>2, <2>7, <2>8, MovesInv DEF IInv
<1>3. CASE ~Writes(t)
  <2>1. t \in CountedThreads /\ mutex # t
    BY <1>1, <1>3, KnowsItself
  <2>2. num_readers' = num_readers - 1 /\ readers_done' = readers_done
    BY <1>1, <1>3, KnowsItself DEF UTest
  <2>3. num_readers \in Nat /\ num_readers # 0
    BY <1>1, <2>1, CountFacts
  <2>4. Moves(t, "u_signal")
    BY <1>1, <1>3, <2>1, <2>2, <2>3, KnowsItself DEF UTest, Moves, PC
  <2>5. pc'[t] = "u_signal"
    BY <2>4, MovesInv
  <2>6. ~Counted(t)' /\ ~WithBit(t) /\ ~WithBit(t)' /\ ~Writes(t)'
    BY <1>1, <1>3, <2>5 DEF Counted, WithBit, Reads, Writes, Unlocking
  <2>7. CountedThreads' = CountedThreads \ {t}
    BY <2>4, <2>6, MovesInv DEF CountedThreads
  <2>8. Cardinality(CountedThreads') = Cardinality(CountedThreads) - 1
    BY <2>1, <2>7, CountFacts, FS_RemoveElement
  <2>9. SomeBit' <=> SomeBit
    BY <2>4, <2>6, MovesInv DEF SomeBit
  <2>10. CountValue'
    BY <2>2, <2>8, <2>9, CountFacts, BitAssumption DEF SomeBit, IInv, CountValue
  <2>11. ~readers_done'
    BY <2>1, <2>2 DEF IInv, EventValue
  <2>12. \A u \in Thread : ~Writes(u)'
    BY <2>1, <2>4, <2>6, MovesInv DEF IInv, WriterAlone
  <2>13. EventValue' /\ WriterAlone'
    BY <2>5, <2>11, <2>12 DEF EventValue, WriterAlone
  <2> QED
    BY <2>4, <2>10, <2>13, MovesInv DEF IInv
<1> QED
  BY <1>2, <1>3
-----------------------------------------------------------------------------
(* Every step keeps the inductive invariant. *)
LEMMA NextInv == IInv /\ [Next]_vars => IInv'
<1> SUFFICES ASSUME IInv, [Next]_vars PROVE IInv'
  OBVIOUS
<1>1. CASE UNCHANGED vars
  BY <1>1 DEF vars, IInv, TypeOK, MutexHolder, CountHolder, CountValue, EventValue, WriterAlone,
              CountedThreads, Counted, WithBit, Reads, Writes, Unlocking
<1>2. ASSUME NEW t \in Thread, Step(t) \/ Call(t, "r_mutex") \/ Call(t, "w_mutex")
      PROVE  IInv'
  BY <1>2, SectionsInv, ResetInv, SignalInv, WaitInv, AddInv, BitInv, TestInv DEF Step
<1> QED
  BY <1>1, <1>2 DEF Next

(* The inductive invariant: num_readers counts the readers and holds the writer's
   bit, the event says that nobody is counted, the mutex belongs to whoever asks
   for the lock and to the writer. *)
THEOREM RWLockInvariant == Spec => []IInv
BY InitInv, NextInv, PTL DEF Spec

(* "readers are blocked while a writer is active" (msvcrt/platform/threads.h:58),
   for every number of threads the counter has room for. *)
THEOREM RWLockExclusion == Spec => []Exclusion
<1>1. IInv => Exclusion
  <2> SUFFICES ASSUME IInv, NEW t \in Thread, NEW u \in Thread, Writes(t), Writes(u) \/ Reads(u)
               PROVE  t = u
    BY DEF Exclusion
  <2>1. CASE Writes(u)
    BY <2>1, HolderFacts
  <2>2. CASE Reads(u)
    BY <2>2 DEF IInv, WriterAlone, CountedThreads, Counted
  <2> QED
    BY <2>1, <2>2
<1> QED
  BY <1>1, RWLockInvariant, PTL

(* bugle_thread_rwlock_unlock (threads_msvcrt.c:113) never takes a reader for a
   writer or a writer for a reader. *)
THEOREM RWLockUnlock == Spec => []UnlockKnowsItself
<1>1. IInv => UnlockKnowsItself
  BY KnowsItself DEF UnlockKnowsItself
<1> QED
  BY <1>1, RWLockInvariant, PTL

(* WaitForSingleObject (threads_msvcrt.c:104) waits only while a reader is in or
   about to signal. *)
THEOREM RWLockNoLostSignal == Spec => []NoLostSignal
<1>1. IInv => NoLostSignal
  <2> SUFFICES ASSUME IInv, NEW t \in Thread, pc[t] = "w_wait", ~readers_done
               PROVE  \E u \in Thread : Reads(u) \/ pc[u] = "u_signal"
    BY DEF NoLostSignal
  <2>1. \A u \in Thread : pc[u] \in MutexHeld => u = t
    BY HolderFacts DEF MutexHeld
  <2>2. PICK u \in Thread : Counted(u) \/ pc[u] \in {"r_add", "u_signal"}
    BY DEF IInv, EventValue, CountedThreads
  <2> QED
    BY <2>1, <2>2 DEF Counted, MutexHeld
<1> QED
  BY <1>1, RWLockInvariant, PTL
-----------------------------------------------------------------------------
(* The lock implements RWLockSpec: RRelease is Read, WWait is Write, UTest is
   Unlock, and nothing else changes who holds it. *)
Readers == {t \in Thread : Reads(t)}
Writers == {t \in Thread : Writes(t)}

(* A step of the lock is one of RWLockSpec, or leaves readers and writers alone. *)
LEMMA AbstractStep ==
    ASSUME IInv, IInv', NEW t \in Thread, Step(t) \/ Call(t, "r_mutex") \/ Call(t, "w_mutex")
    PROVE  Abstract!Next \/ UNCHANGED <<Readers, Writers>>
<1> USE DEF TypeOK, Goto, TakeMutex, DropMutex, TakeCount, DropCount, MutexHeld
<1>0. pc \in [Thread -> PC]
  BY DEF IInv
<1>1. \A u \in Thread : u # t => (Reads(u)' <=> Reads(u)) /\ (Writes(u)' <=> Writes(u))
  <2>1. \A u \in Thread : u # t => pc'[u] = pc[u] /\ (mutex' = u <=> mutex = u)
    BY <1>0, FreeAssumption, HolderFacts
    DEF Step, Call, RMutex, RCount, RReset, RAdd, RLeave, RRelease, WMutex, WCount, WBit,
        WLeave, WWait, UCount, UTest, USignal, ULeave, XLeave, XRelease
  <2> QED
    BY <2>1 DEF Reads, Writes, Unlocking
<1>2. CASE RRelease(t)
  <2>1. mutex = t /\ Reads(t)' /\ ~Reads(t) /\ ~Writes(t) /\ ~Writes(t)'
    BY <1>0, <1>2, HolderFacts DEF RRelease, Reads, Writes, Unlocking
  <2>2. Writers = {}
    BY <2>1, HolderFacts DEF Writers
  <2>3. Readers' = Readers \cup {t} /\ Writers' = Writers /\ t \notin Readers
    BY <1>1, <2>1 DEF Readers, Writers
  <2> QED
    BY <2>2, <2>3 DEF Abstract!Next, Abstract!Read, Readers, Writers
<1>3. CASE WWait(t)
  <2>1. mutex = t /\ Writes(t)' /\ ~Reads(t) /\ ~Writes(t) /\ ~Reads(t)'
    BY <1>0, <1>3, HolderFacts DEF WWait, Reads, Writes, Unlocking
  <2>2. Readers = {}
    BY <1>3 DEF WWait, IInv, EventValue, CountedThreads, Counted, Readers
  <2>3. Writers = {}
    BY <2>1, HolderFacts DEF Writers
  <2>4. Writers' = {t} /\ Readers' = Readers
    BY <1>1, <2>1, <2>3 DEF Readers, Writers
  <2> QED
    BY <2>2, <2>3, <2>4 DEF Abstract!Next, Abstract!Write, Readers, Writers
<1>4. CASE UTest(t)
  <2>1. Reads(t) \/ Writes(t)
    BY <1>4 DEF UTest, Reads, Writes, Unlocking
  <2>2. ~Reads(t)' /\ ~Writes(t)'
    BY <1>0, <1>4 DEF UTest, Reads, Writes, Unlocking
  <2>3. Readers' = Readers \ {t} /\ Writers' = Writers \ {t} /\ t \in Readers \cup Writers
    BY <1>1, <2>1, <2>2 DEF Readers, Writers
  <2> QED
    BY <2>3 DEF Abstract!Next, Abstract!Unlock, Readers, Writers
<1>5. CASE ~(RRelease(t) \/ WWait(t) \/ UTest(t))
  <2>1. (Reads(t)' <=> Reads(t)) /\ (Writes(t)' <=> Writes(t))
    BY <1>0, <1>5, HolderFacts, FreeAssumption
    DEF Step, Call, RMutex, RCount, RReset, RAdd, RLeave, WMutex, WCount, WBit,
        WLeave, UCount, USignal, ULeave, XLeave, XRelease, Reads, Writes, Unlocking
  <2> QED
    BY <1>1, <2>1 DEF Readers, Writers
<1> QED
  BY <1>2, <1>3, <1>4, <1>5

(* Users of a bugle_thread_rwlock_t may rely on RWLockSpec. *)
THEOREM RWLockRefinement == Spec => ImplementsRWLock
<1>1. Init => Abstract!Init
  BY DEF Init, Abstract!Init, Reads, Writes, Unlocking
<1>2. IInv /\ IInv' /\ [Next]_vars => [Abstract!Next]_(Abstract!vars)
  <2> SUFFICES ASSUME IInv, IInv', [Next]_vars PROVE Abstract!Next \/ UNCHANGED Abstract!vars
    OBVIOUS
  <2>1. CASE UNCHANGED vars
    BY <2>1 DEF vars, Abstract!vars, Reads, Writes, Unlocking
  <2>2. CASE Next
    BY <2>2, AbstractStep DEF Next, Abstract!vars, Readers, Writers
  <2> QED
    BY <2>1, <2>2
<1> QED
  BY <1>1, <1>2, RWLockInvariant, PTL DEF Spec, ImplementsRWLock, Abstract!Spec
-----------------------------------------------------------------------------

(* once->value does not wrap around: fewer than 2^32 calls.  Without it the function
   may run again, with a modulus of 4 at the fifth call. *)
NoWrap == MaxCalls < Modulus

-----------------------------------------------------------------------------
(* The once control by itself. *)
LEMMA OnceInit == ASSUME NoWrap, Once!Init PROVE Once!IInv
<1> USE WidthAssumption DEF NoWrap, Once!Increment
<1>1. Once!TypeOK /\ value = calls
  <2>1. once \in [Thread -> Once!PC]
    BY DEF Once!Init, Once!PC
  <2>2. value \in 0..(Modulus - 1) /\ runs \in Nat /\ calls \in 0..MaxCalls /\ wraps \in Nat /\ value = calls
    BY DEF Once!Init
  <2> QED
    BY <2>1, <2>2 DEF Once!TypeOK, Once!Init
<1>2. runs = 0 /\ ~complete /\ \A t \in Thread : once[t] = "outside"
  BY DEF Once!Init
<1> QED
  BY <1>1, <1>2
  DEF Once!IInv, Once!OneFirst, Once!BeforeAll, Once!RunsValue, Once!CompleteLast, Once!ReturnedAfter, Once!First

(* Only the first call leaves 1 in value, and before it no thread is under way. *)
LEMMA OnceEnter == ASSUME NoWrap, Once!IInv, NEW t \in Thread, Once!Enter(t) PROVE Once!IInv'
<1> USE WidthAssumption DEF NoWrap, Once!Increment
<1>1. calls \in Nat /\ calls < MaxCalls /\ calls + 1 < Modulus /\ value = calls
  BY DEF Once!IInv, Once!TypeOK, Once!Enter
<1>2. (value + 1) % Modulus = calls + 1
  BY <1>1
<1>3. value' = calls + 1 /\ calls' = calls + 1
  BY <1>2 DEF Once!Enter
<1>4. Once!TypeOK
  BY DEF Once!IInv
<1>5. Once!TypeOK' /\ once'[t] \in {"first", "spin"} /\ \A u \in Thread : u # t => once'[u] = once[u]
  BY <1>1, <1>3, <1>4 DEF Once!Enter, Once!TypeOK, Once!PC
<1>6. CASE calls = 0
  <2>1. runs = 0 /\ ~complete /\ \A u \in Thread : once[u] = "outside"
    BY <1>4, <1>6 DEF Once!IInv, Once!BeforeAll, Once!RunsValue, Once!TypeOK
  <2>2. runs' = 0 /\ ~complete' /\ \A u \in Thread : u # t => once'[u] = "outside"
    BY <1>5, <2>1 DEF Once!Enter
  <2> QED
    BY <1>1, <1>3, <1>5, <2>2
    DEF Once!IInv, Once!OneFirst, Once!BeforeAll, Once!RunsValue, Once!CompleteLast, Once!ReturnedAfter, Once!First
<1>7. CASE calls # 0
  <2>1. once'[t] = "spin" /\ UNCHANGED <<complete, runs>>
    BY <1>1, <1>3, <1>4, <1>7 DEF Once!Enter, Once!TypeOK
  <2> QED
    BY <1>1, <1>3, <1>5, <2>1
    DEF Once!IInv, Once!OneFirst, Once!BeforeAll, Once!RunsValue, Once!CompleteLast, Once!ReturnedAfter, Once!First
<1> QED
  BY <1>6, <1>7

(* Every step of the once control keeps its invariant. *)
LEMMA OnceStep == ASSUME Once!IInv, NEW t \in Thread, Once!Step(t) PROVE Once!IInv'
<1> USE DEF Once!OneFirst, Once!BeforeAll, Once!RunsValue, Once!CompleteLast, Once!ReturnedAfter, Once!First
<1>1. once \in [Thread -> Once!PC] /\ runs \in Nat
  BY DEF Once!IInv, Once!TypeOK
<1>2. CASE Once!Call(t)
  <2>1. once[t] = "first" /\ runs' = runs + 1 /\ UNCHANGED <<value, complete, calls, wraps>>
    BY <1>2 DEF Once!Call
  <2>2. once' \in [Thread -> Once!PC] /\ once'[t] = "function" /\ \A u \in Thread : u # t => once'[u] = once[u]
    BY <1>1, <1>2 DEF Once!Call, Once!PC
  <2>3. runs' = 1 /\ Once!TypeOK'
    BY <2>1, <2>2 DEF Once!IInv, Once!TypeOK
  <2> QED
    BY <2>1, <2>2, <2>3 DEF Once!IInv
<1>3. CASE Once!Finish(t)
  <2>1. once[t] = "function" /\ complete' = TRUE /\ UNCHANGED <<value, runs, calls, wraps>>
    BY <1>3 DEF Once!Finish
  <2>2. once' \in [Thread -> Once!PC] /\ once'[t] = "returned" /\ \A u \in Thread : u # t => once'[u] = once[u]
    BY <1>1, <1>3 DEF Once!Finish, Once!PC
  <2>3. Once!TypeOK'
    BY <2>1, <2>2 DEF Once!IInv, Once!TypeOK
  <2> QED
    BY <2>1, <2>2, <2>3 DEF Once!IInv
<1>4. CASE Once!Spin(t) \/ Once!Return(t)
  <2>1. UNCHANGED <<value, complete, runs, calls, wraps>> /\ calls # 0
    BY <1>4 DEF Once!Spin, Once!Return, Once!IInv
  <2>2. once' \in [Thread -> Once!PC] /\ \A u \in Thread : u # t => once'[u] = once[u]
    BY <1>1, <1>4 DEF Once!Spin, Once!Return, Once!PC
  <2>3. once'[t] = "outside" \/ (once'[t] = "returned" /\ complete)
    BY <1>1, <1>4 DEF Once!Spin, Once!Return
  <2>4. Once!TypeOK'
    BY <2>1, <2>2 DEF Once!IInv, Once!TypeOK
  <2> QED
    BY <2>1, <2>2, <2>3, <2>4 DEF Once!IInv
<1> QED
  BY <1>2, <1>3, <1>4 DEF Once!Step
-----------------------------------------------------------------------------
(* However many calls there are: each round of the counter has one that came first. *)
OnceTypes == /\ value \in 0..(Modulus - 1) /\ runs \in Nat /\ wraps \in Nat
             /\ once \in [Thread -> Once!PC]
Firsts == {t \in Thread : once[t] = "first"}
OnePerRound == runs + Cardinality(Firsts) = wraps + (IF value = 0 THEN 0 ELSE 1)
RoundsInv == OnceTypes /\ OnePerRound

\* A call that enters came first just if it begins a round.
LEMMA RoundsEnter == ASSUME RoundsInv, NEW t \in Thread, Once!Enter(t) PROVE RoundsInv'
<1> USE WidthAssumption
<1>1. /\ once[t] = "outside" /\ value \in 0..(Modulus - 1) /\ runs' = runs
      /\ value' = (value + 1) % Modulus
      /\ wraps' = IF value' = 0 THEN wraps + 1 ELSE wraps
      /\ once' = [once EXCEPT ![t] = IF value' = 1 THEN "first" ELSE "spin"]
  BY DEF RoundsInv, OnceTypes, Once!Enter, Once!Increment
<1>2. value' = IF value = Modulus - 1 THEN 0 ELSE value + 1
  BY <1>1
<1>3. OnceTypes'
  BY <1>1, <1>2 DEF RoundsInv, OnceTypes, Once!PC
<1>4. IsFiniteSet(Firsts) /\ Cardinality(Firsts) \in Nat /\ t \notin Firsts
  BY <1>1, ThreadAssumption, FS_Subset, FS_CardinalityType DEF Firsts
<1>5. Firsts' = IF value' = 1 THEN Firsts \cup {t} ELSE Firsts
  BY <1>1 DEF RoundsInv, OnceTypes, Firsts
<1>6. Cardinality(Firsts') = Cardinality(Firsts) + (IF value' = 1 THEN 1 ELSE 0)
  BY <1>4, <1>5, FS_AddElement
<1>7. runs + Cardinality(Firsts) = wraps + (IF value = 0 THEN 0 ELSE 1)
  BY DEF RoundsInv, OnePerRound
<1>8. OnePerRound'
  BY <1>1, <1>2, <1>3, <1>4, <1>6, <1>7 DEF OnceTypes, RoundsInv, OnePerRound
<1> QED
  BY <1>3, <1>8 DEF RoundsInv

\* Who came first runs the function, and nobody else does.
LEMMA RoundsStep == ASSUME RoundsInv, NEW t \in Thread, Once!Step(t) PROVE RoundsInv'
<1>1. /\ UNCHANGED <<value, wraps>> /\ once \in [Thread -> Once!PC]
      /\ \E to \in Once!PC : once' = [once EXCEPT ![t] = to]
      /\ IF Once!Call(t) THEN once[t] = "first" /\ once'[t] # "first" /\ runs' = runs + 1
         ELSE once[t] # "first" /\ once'[t] # "first" /\ runs' = runs
  BY DEF RoundsInv, OnceTypes, Once!PC, Once!Step, Once!Call, Once!Finish, Once!Spin, Once!Return
<1>2. OnceTypes'
  BY <1>1 DEF RoundsInv, OnceTypes
<1>3. IsFiniteSet(Firsts) /\ Cardinality(Firsts) \in Nat
  BY ThreadAssumption, FS_Subset, FS_CardinalityType DEF Firsts
<1>4. \A u \in Thread : u # t => once'[u] = once[u]
  BY <1>1
<1>5. Firsts' = Firsts \ {t} /\ (t \in Firsts <=> Once!Call(t))
  BY <1>1, <1>4 DEF Firsts
<1>6. runs' + Cardinality(Firsts') = runs + Cardinality(Firsts)
  <2>1. CASE Once!Call(t)
    <3>1. Cardinality(Firsts') = Cardinality(Firsts) - 1
      BY <1>3, <1>5, <2>1, FS_RemoveElement
    <3>2. runs' = runs + 1 /\ runs \in Nat
      BY <1>1, <2>1 DEF RoundsInv, OnceTypes
    <3> QED
      BY <1>3, <3>1, <3>2
  <2>2. CASE ~Once!Call(t)
    BY <1>1, <1>5, <2>2
  <2> QED
    BY <2>1, <2>2
<1> QED
  BY <1>1, <1>2, <1>6 DEF RoundsInv, OnePerRound

(* "We got here first." (threads_msvcrt.c:37) is true of one call at most in each round
   of the counter, however many threads call and however often: the function has run at
   most once more than the counter came back to 0. *)
THEOREM CallsRunOnce == CallsSpec => []RunsOnce
<1>1. CallsInit => RoundsInv
  <2> SUFFICES ASSUME CallsInit PROVE RoundsInv
    OBVIOUS
  <2>1. value = 0 /\ runs = 0 /\ wraps = 0 /\ once = [t \in Thread |-> "outside"]
    BY DEF CallsInit, Once!Init
  <2>2. Firsts = {}
    BY <2>1 DEF Firsts
  <2> QED
    BY <2>1, <2>2, WidthAssumption, FS_EmptySet DEF RoundsInv, OnceTypes, OnePerRound, Once!PC
<1>2. RoundsInv /\ [CallsNext]_all => RoundsInv'
  <2> SUFFICES ASSUME RoundsInv, [CallsNext]_all PROVE RoundsInv'
    OBVIOUS
  <2>1. CASE UNCHANGED control
    BY <2>1 DEF control, RoundsInv, OnceTypes, OnePerRound, Firsts
  <2>2. ASSUME NEW t \in Thread, Enter(t) PROVE RoundsInv'
    BY <2>2, RoundsEnter DEF Enter
  <2>3. ASSUME NEW t \in Thread, Function(t) \/ Return(t) PROVE RoundsInv'
    BY <2>3, RoundsStep DEF Function, Return, Once!Step
  <2> QED
    BY <2>1, <2>2, <2>3 DEF CallsNext, Create, Lock, LockStep, all, control
<1>3. RoundsInv => RunsOnce
  <2>1. Cardinality(Firsts) \in Nat
    BY ThreadAssumption, FS_Subset, FS_CardinalityType DEF Firsts
  <2> QED
    BY <2>1 DEF RoundsInv, OnceTypes, OnePerRound, RunsOnce, Once!RunsOnce
<1> QED
  BY <1>1, <1>2, <1>3, PTL DEF CallsSpec
-----------------------------------------------------------------------------
(* The two together.  The lock is in use only by threads that are past its
   creation; its creation, while nobody is, leaves it as RWLock's Init wants it. *)
CreatedInv ==
    /\ created \in 0..runs
    /\ complete => created = runs
    /\ \A t \in Thread : pc[t] # "idle" =>
           once[t] = "returned" \/ (once[t] = "function" /\ created = runs)

CallsInv == IInv /\ Once!IInv /\ CreatedInv

\* Past the creation there has been one run and one creation.
LEMMA PastCreation ==
    ASSUME CallsInv, NEW t \in Thread, MayLock(t)
    PROVE  created = 1 /\ runs = 1
<1> USE DEF CallsInv, CreatedInv, MayLock, Once!IInv, Once!RunsValue, Once!ReturnedAfter
<1>1. CASE once[t] = "returned"
  BY <1>1
<1>2. CASE once[t] = "function" /\ created = runs
  BY <1>2
<1> QED
  BY <1>1, <1>2

(* Who is at the lock has been let pass by the once control, or is the initialiser. *)
LEMMA UsersAreIn ==
    ASSUME CallsInv, NEW t \in Thread, pc[t] # "idle"
    PROVE  MayLock(t)
BY DEF CallsInv, CreatedInv, MayLock

(* The lock is created once, and no thread is at it then. *)
LEMMA CreatedIdle ==
    ASSUME CallsInv, NEW t \in Thread, Create(t)
    PROVE  /\ runs = 1 /\ created = 0 /\ created' = 1 /\ UNCHANGED <<pc, control>>
           /\ \A u \in Thread : pc[u] = "idle"
<1>1. runs = 1 /\ created = 0 /\ created' = 1 /\ UNCHANGED <<pc, control>>
  BY DEF Create, CallsInv, CreatedInv, Once!IInv, Once!RunsValue
<1> QED
  BY <1>1, UsersAreIn, PastCreation

(* The invariant of the two together holds at the start. *)
LEMMA CallsInitInv == ASSUME NoWrap, CallsInit PROVE CallsInv
<1>1. IInv /\ Once!IInv
  BY InitInv, OnceInit DEF CallsInit
<1>2. CreatedInv
  BY DEF CallsInit, CreatedInv, Init, Once!Init
<1> QED
  BY <1>1, <1>2 DEF CallsInv

\* Every step of the once control is one of a call that does not hold the lock.
LEMMA ControlInv ==
    ASSUME NoWrap, CallsInv, NEW t \in Thread, Enter(t) \/ Function(t) \/ Return(t)
    PROVE  CallsInv'
<1>1. UNCHANGED <<vars, created>>
  BY DEF Enter, Function, Return
<1>2. IInv'
  BY <1>1, NextInv DEF CallsInv, vars
<1>3. Once!IInv'
  BY OnceEnter, OnceStep DEF CallsInv, Enter, Function, Return, Once!Step
<1>4. once \in [Thread -> Once!PC] /\ runs \in Nat
  BY DEF CallsInv, Once!IInv, Once!TypeOK
<1>5. \A u \in Thread : u # t => once'[u] = once[u]
  BY <1>4 DEF Enter, Function, Return, Once!Enter, Once!Call, Once!Finish, Once!Spin, Once!Return
<1>6. CASE Once!Call(t)
  <2>1. once[t] = "first" /\ runs' = runs + 1 /\ UNCHANGED complete
    BY <1>6 DEF Once!Call
  <2>2. runs = 0 /\ ~complete
    BY <2>1 DEF CallsInv, Once!IInv, Once!RunsValue, Once!CompleteLast, Once!First
  <2>3. \A u \in Thread : pc[u] = "idle"
    BY <2>2, UsersAreIn, PastCreation
  <2> QED
    BY <1>1, <1>2, <1>3, <2>1, <2>2, <2>3 DEF CallsInv, CreatedInv, vars
<1>7. CASE ~Once!Call(t)
  <2>1. runs' = runs
    BY <1>7 DEF Enter, Function, Return, Once!Enter, Once!Finish, Once!Spin, Once!Return
  <2>2. pc[t] = "idle"
    <3>1. CASE Enter(t)
      BY <3>1, UsersAreIn DEF Enter, Once!Enter, MayLock
    <3>2. CASE Once!Spin(t)
      BY <3>2, UsersAreIn DEF Once!Spin, MayLock
    <3> QED
      BY <1>7, <3>1, <3>2 DEF Function, Return
  <2>3. complete' => created = runs
    BY <1>7 DEF Enter, Function, Return, Once!Enter, Once!Finish, Once!Spin, Once!Return,
                CallsInv, CreatedInv
  <2> QED
    BY <1>1, <1>2, <1>3, <1>5, <2>1, <2>2, <2>3 DEF CallsInv, CreatedInv, vars
<1> QED
  BY <1>6, <1>7

\* The lock comes out of its creation as it was before anybody took it.
LEMMA CreateInv == ASSUME NoWrap, CallsInv, NEW t \in Thread, Create(t) PROVE CallsInv'
<1>1. runs = 1 /\ created = 0 /\ created' = 1 /\ UNCHANGED <<pc, control>>
  BY CreatedIdle
<1>2. \A u \in Thread : pc[u] = "idle"
  BY CreatedIdle
<1>3. Init'
  <2>1. pc = [u \in Thread |-> "idle"]
    BY <1>2 DEF CallsInv, IInv, TypeOK
  <2> QED
    BY <1>1, <2>1 DEF Create, Init
<1>4. IInv'
  BY <1>3, InitInv, PTL
<1>5. Once!IInv'
  BY <1>1 DEF control, CallsInv, Once!IInv, Once!TypeOK, Once!OneFirst, Once!BeforeAll,
              Once!RunsValue, Once!CompleteLast, Once!ReturnedAfter, Once!First
<1>6. CreatedInv'
  BY <1>1, <1>2 DEF CreatedInv, control
<1> QED
  BY <1>4, <1>5, <1>6 DEF CallsInv

\* A call that has gone through the once control uses the lock.
LEMMA UseInv ==
    ASSUME CallsInv, NEW t \in Thread, Lock(t) \/ LockStep(t)
    PROVE  CallsInv' /\ (Step(t) \/ Call(t, "r_mutex") \/ Call(t, "w_mutex"))
<1>1. UNCHANGED <<control, created>> /\ (Step(t) \/ Call(t, "r_mutex") \/ Call(t, "w_mutex"))
  BY DEF Lock, LockStep
<1>2. IInv'
  BY <1>1, NextInv DEF CallsInv, Next
<1>3. Once!IInv'
  BY <1>1 DEF control, CallsInv, Once!IInv, Once!TypeOK, Once!OneFirst, Once!BeforeAll,
              Once!RunsValue, Once!CompleteLast, Once!ReturnedAfter, Once!First
<1>4. MayLock(t)
  <2>1. pc[t] # "idle" \/ MayLock(t)
    BY DEF Lock, LockStep, Step, RMutex, RCount, RReset, RAdd, RLeave, RRelease, WMutex, WCount,
           WBit, WLeave, WWait, UCount, UTest, USignal, ULeave, XLeave, XRelease,
           TakeMutex, DropMutex, TakeCount, DropCount, Goto
  <2> QED
    BY <2>1, UsersAreIn
<1>5. \A u \in Thread : u # t => pc'[u] = pc[u]
  BY <1>1 DEF CallsInv, IInv, TypeOK, Step, Call, RMutex, RCount, RReset, RAdd, RLeave, RRelease,
              WMutex, WCount, WBit, WLeave, WWait, UCount, UTest, USignal, ULeave, XLeave,
              XRelease, TakeMutex, DropMutex, TakeCount, DropCount, Goto
<1>6. CreatedInv'
  BY <1>1, <1>4, <1>5 DEF CallsInv, CreatedInv, MayLock, control
<1> QED
  BY <1>1, <1>2, <1>3, <1>6 DEF CallsInv

(* Every step keeps the invariant of the two together. *)
LEMMA CallsNextInv == ASSUME NoWrap, CallsInv, [CallsNext]_all PROVE CallsInv'
<1>1. CASE UNCHANGED all
  <2>1. UNCHANGED <<vars, control, created>>
    BY <1>1 DEF all
  <2>2. IInv'
    BY <2>1, NextInv DEF CallsInv, vars
  <2>3. Once!IInv' /\ CreatedInv'
    BY <2>1 DEF vars, control, CallsInv, CreatedInv, Once!IInv, Once!TypeOK, Once!OneFirst,
                Once!BeforeAll, Once!RunsValue, Once!CompleteLast, Once!ReturnedAfter, Once!First
  <2> QED
    BY <2>2, <2>3 DEF CallsInv
<1>2. CASE CallsNext
  BY <1>2, ControlInv, CreateInv, UseInv DEF CallsNext
<1> QED
  BY <1>1, <1>2

(* The inductive invariant: those of the once control and of the lock, and that
   the lock is in use only by threads that are past its creation; of the first round
   of the counter, as the three that rest on it. *)
THEOREM CallsInvariant == ASSUME NoWrap PROVE CallsSpec => []CallsInv
<1>1. CallsInit => CallsInv
  BY CallsInitInv
<1>2. CallsInv /\ [CallsNext]_all => CallsInv'
  BY CallsNextInv
<1> QED
  BY <1>1, <1>2, PTL DEF CallsSpec

(* No caller returns from bugle_thread_once before the function is complete
   (threads_msvcrt.c:46), nor while anybody still has it to run: in the first
   round of the counter. *)
THEOREM CallsComplete == ASSUME NoWrap PROVE CallsSpec => []Once!CompleteOnReturn
<1>1. CallsInv => Once!CompleteOnReturn
  BY DEF CallsInv, Once!IInv, Once!CompleteOnReturn, Once!CompleteLast, Once!ReturnedAfter
<1> QED
  BY <1>1, CallsInvariant, PTL

(* No intercepted call takes active_callbacks_rwlock before filters_initialise
   (filters.c:344) made it, and it is not made a second time under anybody, in
   the first round of the counter. *)
THEOREM CallsCreateFirst == ASSUME NoWrap PROVE CallsSpec => []CreatedBeforeUse
<1>1. CallsInv => CreatedBeforeUse
  BY UsersAreIn, PastCreation DEF CreatedBeforeUse
<1> QED
  BY <1>1, CallsInvariant, PTL

(* What the filters use is a reader-writer lock from start to end: its creation,
   in the middle of the first call, is not seen.  In the first round of the counter: a
   call that begins another one would create it anew under whoever holds it. *)
THEOREM CallsRefinement == ASSUME NoWrap PROVE CallsSpec => ImplementsRWLock
<1>1. CallsInit => Abstract!Init
  BY DEF CallsInit, Init, Abstract!Init, Reads, Writes, Unlocking
<1>2. CallsInv /\ CallsInv' /\ [CallsNext]_all => [Abstract!Next]_(Abstract!vars)
  <2> SUFFICES ASSUME CallsInv, CallsInv', [CallsNext]_all
               PROVE  Abstract!Next \/ UNCHANGED Abstract!vars
    OBVIOUS
  <2> USE DEF Abstract!vars
  <2>1. CASE UNCHANGED vars
    BY <2>1 DEF vars, Reads, Writes, Unlocking
  <2>2. ASSUME NEW t \in Thread, Create(t) PROVE UNCHANGED Abstract!vars
    <3>1. \A u \in Thread : pc[u] = "idle" /\ pc'[u] = "idle"
      BY <2>2, CreatedIdle
    <3> QED
      BY <3>1 DEF Reads, Writes, Unlocking
  <2>3. ASSUME NEW t \in Thread, Lock(t) \/ LockStep(t)
        PROVE  Abstract!Next \/ UNCHANGED Abstract!vars
    BY <2>3, UseInv, AbstractStep DEF CallsInv, Readers, Writers
  <2> QED
    BY <2>1, <2>2, <2>3 DEF CallsNext, Enter, Function, Return, all
<1> QED
  BY <1>1, <1>2, CallsInvariant, PTL DEF CallsSpec, ImplementsRWLock, Abstract!Spec
=============================================================================
