-------------------------- MODULE Workqueue_proofs --------------------------
(* Proofs about Workqueue for every ring size and every set of items. *)
EXTENDS Workqueue, SequenceTheorems, TLAPS

-----------------------------------------------------------------------------
(* Arithmetic of the ring's indices. *)

\* The distance between two slots is less than the ring's size, and 0 only
\* between a slot and itself.
LEMMA DistanceRange ==
    ASSUME NEW h \in Slot, NEW t \in Slot
    PROVE  /\ Distance(h, t) \in 0 .. BUGLE_WORKQUEUE_SIZE - 1
           /\ Distance(h, t) = 0 <=> h = t
BY SizeAssumption DEF Distance, Slot

\* Moving the tail on adds one slot, unless it closes the ring.
LEMMA DistanceTail ==
    ASSUME NEW h \in Slot, NEW t \in Slot, Distance(h, t) + 1 < BUGLE_WORKQUEUE_SIZE
    PROVE  /\ Advance(t) \in Slot
           /\ Distance(h, Advance(t)) = Distance(h, t) + 1
BY SizeAssumption DEF Distance, Slot, Advance

\* Moving the head on takes one slot away.
LEMMA DistanceHead ==
    ASSUME NEW h \in Slot, NEW t \in Slot, h # t
    PROVE  /\ Advance(h) \in Slot
           /\ Distance(Advance(h), t) = Distance(h, t) - 1
BY SizeAssumption DEF Distance, Slot, Advance

\* The slot at the distance of the tail is the tail, and no nearer one is.
LEMMA AtTail ==
    ASSUME NEW h \in Slot, NEW t \in Slot
    PROVE  /\ At(h, Distance(h, t)) = t
           /\ \A i \in Slot : At(h, i) \in Slot
           /\ \A i \in Slot : i < Distance(h, t) => At(h, i) # t
BY SizeAssumption DEF Distance, Slot, At

\* Seen from the next slot, every slot is one nearer.
LEMMA AtAdvance ==
    ASSUME NEW h \in Slot, NEW i \in Nat, i + 1 < BUGLE_WORKQUEUE_SIZE
    PROVE  At(Advance(h), i) = At(h, i + 1)
BY SizeAssumption DEF Advance, Slot, At
-----------------------------------------------------------------------------
\* The initial states satisfy every part of the invariant.
LEMMA InitInv == Init => IInv
<1> SUFFICES ASSUME Init PROVE IInv
    OBVIOUS
<1> USE SizeAssumption DEF Init
<1>1. TypeOK
  <2>1. Junk \in Value
    BY DEF Value
  <2>2. items \in [Slot -> Value]
    BY <2>1
  <2>3. head \in Slot /\ tail \in Slot /\ space_sem \in Nat
    BY DEF Slot
  <2> QED
    BY <2>1, <2>2, <2>3 DEF TypeOK, WorkerPC, MainPC
<1>2. LockHeld /\ InHand /\ Lifecycle /\ PolledEmpty /\ PolledFull
  BY DEF LockHeld, InHand, Lifecycle, PolledEmpty, PolledFull
<1>3. Occupied = 0
  BY DEF Occupied, Distance
<1>4. DataPermits /\ SpacePermits /\ Stored
  BY <1>3 DEF DataPermits, SpacePermits, Stored, Count
<1> QED
  BY <1>1, <1>2, <1>4 DEF IInv

\* Every step keeps the variables in their types.
LEMMA TypeInv == IInv /\ [Next]_vars => TypeOK'
<1> SUFFICES ASSUME IInv, [Next]_vars PROVE TypeOK'
    OBVIOUS
<1> USE DEF IInv, TypeOK, WorkerPC, MainPC, ring, sems, life, worker, main
<1>0. /\ Item \subseteq Value
      /\ \A s \in Slot : items[s] \in Value
      /\ \A s \in Slot : Advance(s) \in Slot
      /\ space_sem \in Nat /\ data_sem \in Nat
  BY SizeAssumption DEF Value, Advance, Slot
<1>1. CASE WConsume
  BY <1>0, <1>1 DEF WConsume
<1>2. CASE WStore
  <2>1. items' \in [Slot -> Value] /\ tail' \in Slot
    BY <1>0, <1>2 DEF WStore
  <2> QED
    BY <1>2, <2>1 DEF WStore
<1>3. CASE WWaitSpace \/ WLock \/ WUnlock \/ WPost \/ WWakeup
  BY <1>0, <1>3 DEF WWaitSpace, WLock, WUnlock, WPost, WWakeup
<1>4. CASE GetWait \/ GetRead \/ GetAdvance \/ GetPost
  BY <1>0, <1>4 DEF GetWait, GetRead, GetAdvance, GetPost
<1>5. CASE Join \/ HasRead \/ HasUnlock \/ Wake
  BY <1>5 DEF Join, HasRead, HasUnlock, Wake
<1>6. CASE SetWakeup \/ Start \/ StopCall \/ Free \/ HasLock \/ GetCall \/ Sleep
  BY <1>6 DEF SetWakeup, Start, StopCall, Free, HasLock, GetCall, Sleep
<1>7. CASE UNCHANGED vars
  BY <1>7 DEF vars
<1> QED
  BY <1>1, <1>2, <1>3, <1>4, <1>5, <1>6, <1>7 DEF Next, MainNext, WorkerNext, MainProgress

\* Every step keeps the semaphores' accounting, the lock and the poll results.
LEMMA CountInv == IInv /\ [Next]_vars =>
    LockHeld' /\ DataPermits' /\ SpacePermits' /\ InHand' /\ Lifecycle'
              /\ PolledEmpty' /\ PolledFull'
<1> SUFFICES ASSUME IInv, [Next]_vars
             PROVE LockHeld' /\ DataPermits' /\ SpacePermits' /\ InHand' /\ Lifecycle'
                             /\ PolledEmpty' /\ PolledFull'
    OBVIOUS
<1> USE SizeAssumption
    DEF IInv, TypeOK, LockHeld, DataPermits, SpacePermits, InHand, Lifecycle, PolledEmpty,
        PolledFull, Slot, Value, Advance, ring, sems, life, worker, main, Occupied,
        Distance, Count
<1>1. CASE WConsume
  BY <1>1 DEF WConsume
<1>2. CASE WWaitSpace
  BY <1>2 DEF WWaitSpace
<1>3. CASE WLock
  BY <1>3 DEF WLock
<1>4. CASE WStore
  BY <1>4 DEF WStore
<1>5. CASE WUnlock
  BY <1>5 DEF WUnlock
<1>6. CASE WPost
  BY <1>6 DEF WPost
<1>7. CASE WWakeup
  BY <1>7 DEF WWakeup
<1>8. CASE SetWakeup
  BY <1>8 DEF SetWakeup
<1>9. CASE Start
  BY <1>9 DEF Start
<1>10. CASE StopCall
  BY <1>10 DEF StopCall
<1>11. CASE Join
  BY <1>11 DEF Join
<1>12. CASE Free
  BY <1>12 DEF Free
<1>13. CASE HasLock
  BY <1>13 DEF HasLock
<1>14. CASE HasRead
  BY <1>14 DEF HasRead
<1>15. CASE HasUnlock
  BY <1>15 DEF HasUnlock
<1>16. CASE GetCall
  BY <1>16 DEF GetCall
<1>17. CASE GetWait
  BY <1>17 DEF GetWait
<1>18. CASE GetRead
  BY <1>18 DEF GetRead
<1>19. CASE GetAdvance
  BY <1>19 DEF GetAdvance
<1>20. CASE GetPost
  BY <1>20 DEF GetPost
<1>21. CASE Sleep
  BY <1>21 DEF Sleep
<1>22. CASE Wake
  BY <1>22 DEF Wake
<1>23. CASE UNCHANGED vars
  BY <1>23 DEF vars
<1> QED
  BY <1>1, <1>2, <1>3, <1>4, <1>5, <1>6, <1>7, <1>8, <1>9, <1>10, <1>11, <1>12, <1>13,
     <1>14, <1>15, <1>16, <1>17, <1>18, <1>19, <1>20, <1>21, <1>22, <1>23
  DEF Next, WorkerNext, MainNext, MainProgress

\* Every slot between head and tail still holds an item after any step.
LEMMA StoredInv == IInv /\ [Next]_vars => Stored'
<1> SUFFICES ASSUME IInv, [Next]_vars,
                    NEW i \in 0 .. BUGLE_WORKQUEUE_SIZE - 1, (i < Occupied)'
             PROVE  (items[At(head, i)] \in Item)'
    BY DEF Stored, Occupied, Distance
<1>0. /\ TypeOK /\ Stored /\ InHand /\ SpacePermits /\ DataPermits
      /\ i \in Slot /\ head \in Slot /\ tail \in Slot /\ items \in [Slot -> Value]
      /\ Occupied = Distance(head, tail)
      /\ Occupied' = Distance(head', tail')
  BY DEF IInv, TypeOK, Slot, Occupied, Distance
<1>1. CASE UNCHANGED ring
  <2>1. Occupied' = Occupied /\ At(head, i)' = At(head, i)
    BY <1>1 DEF ring, Occupied, Distance, At
  <2> QED
    BY <1>0, <1>1, <2>1 DEF ring, Stored
<1>2. CASE WStore
  <2>1. Occupied + 1 < BUGLE_WORKQUEUE_SIZE
    BY <1>0, <1>2, DistanceRange, SizeAssumption
       DEF WStore, SpacePermits, Count, TypeOK
  <2>2. Occupied' = Occupied + 1 /\ head' = head
    BY <1>0, <1>2, <2>1, DistanceTail DEF WStore
  <2>3. items' = [items EXCEPT ![tail] = item] /\ item \in Item
    BY <1>0, <1>2 DEF WStore, InHand
  <2>4. CASE i = Occupied
    <3>1. At(head, i) = tail
      BY <1>0, <2>4, AtTail
    <3> QED
      BY <1>0, <2>2, <2>3, <3>1 DEF At
  <2>5. CASE i < Occupied
    <3>1. At(head, i) # tail /\ At(head, i) \in Slot
      BY <1>0, <2>5, AtTail
    <3>2. items[At(head, i)] \in Item
      BY <1>0, <2>5 DEF Stored
    <3> QED
      BY <1>0, <2>2, <2>3, <3>1, <3>2 DEF At
  <2>6. i = Occupied \/ i < Occupied
    BY <1>0, <2>2, DistanceRange DEF Slot
  <2> QED
    BY <2>4, <2>5, <2>6
<1>3. CASE GetAdvance
  <2>1. head # tail
    BY <1>0, <1>3, DistanceRange DEF GetAdvance, DataPermits, Count, TypeOK
  <2>2. /\ head' = Advance(head) /\ items' = items
        /\ Occupied' = Occupied - 1
    BY <1>0, <1>3, <2>1, DistanceHead DEF GetAdvance
  <2>3. Occupied \in 0 .. BUGLE_WORKQUEUE_SIZE - 1
    BY <1>0, DistanceRange
  <2>4. i \in Nat /\ i + 1 \in 0 .. BUGLE_WORKQUEUE_SIZE - 1 /\ i + 1 < Occupied
    BY <2>2, <2>3, SizeAssumption
  <2>5. At(Advance(head), i) = At(head, i + 1)
    BY <1>0, <2>4, AtAdvance, SizeAssumption
  <2>6. items[At(head, i + 1)] \in Item
    BY <1>0, <2>4 DEF Stored
  <2> QED
    BY <2>2, <2>5, <2>6 DEF At
<1> QED
  BY <1>1, <1>2, <1>3
  DEF Next, WorkerNext, MainNext, MainProgress, vars, WConsume, WWaitSpace, WLock,
      WUnlock, WPost, WWakeup, SetWakeup, Start, StopCall, Join, Free, HasLock, HasRead,
      HasUnlock, GetCall, GetWait, GetRead, GetPost, Sleep, Wake, ring
-----------------------------------------------------------------------------
\* The invariant holds in every reachable state, for every ring size and item set.
THEOREM Invariance == Spec => []IInv
<1>1. Init => IInv
  BY InitInv
<1>2. IInv /\ [Next]_vars => IInv'
  BY TypeInv, CountInv, StoredInv DEF IInv
<1> QED
  BY <1>1, <1>2, PTL DEF Spec

(* The worker never writes a slot that holds an item, nor fills the ring so that
   head = tail would read as empty. *)
THEOREM NeverOverwritesThm == Spec => []NeverOverwrites
<1>1. IInv => NeverOverwrites
  BY SizeAssumption
     DEF IInv, TypeOK, NeverOverwrites, SpacePermits, Count, Occupied, Distance, Slot
<1> QED
  BY <1>1, Invariance, PTL

\* A TRUE from has_data stays good until get_item is called.
THEOREM PollHoldsThm == Spec => []PollHolds
<1>1. IInv => PollHolds
  BY SizeAssumption
     DEF IInv, TypeOK, PollHolds, PolledFull, DataPermits, Count, Occupied, Distance, Slot
<1> QED
  BY <1>1, Invariance, PTL

\* No thread waits for a signal that was already given.
THEOREM NoMissedSignalThm == Spec => []NoMissedSignal
<1>1. IInv => NoMissedSignal
  BY SizeAssumption
     DEF IInv, TypeOK, NoMissedSignal, WorkerStuck, PolledEmpty, DataPermits, SpacePermits,
         Lifecycle, Count, Occupied, Distance, Slot
<1> QED
  BY <1>1, Invariance, PTL

\* A freed queue is touched by neither thread.
THEOREM NoUseAfterFreeThm == Spec => []NoUseAfterFree
<1>1. IInv => NoUseAfterFree
  BY DEF IInv, NoUseAfterFree, Lifecycle
<1> QED
  BY <1>1, Invariance, PTL
-----------------------------------------------------------------------------
(* The ring implements the abstract FIFO. *)

\* A window of the ring is a sequence of as many values as it has slots.
LEMMA WindowSeq ==
    ASSUME NEW slots \in [Slot -> Value], NEW h \in Slot,
           NEW n \in 0 .. BUGLE_WORKQUEUE_SIZE - 1
    PROVE  /\ Window(slots, h, n) \in Seq(Value)
           /\ Len(Window(slots, h, n)) = n
           /\ \A i \in 1 .. n : Window(slots, h, n)[i] = slots[At(h, i - 1)]
<1>1. n \in Nat /\ \A i \in 1 .. n : i - 1 \in Slot
  BY SizeAssumption DEF Slot
<1>2. \A i \in 1 .. n : At(h, i - 1) \in Slot
  BY <1>1, AtTail
<1>3. Window(slots, h, n) \in [1 .. n -> Value]
  BY <1>1, <1>2 DEF Window
<1>4. Window(slots, h, n) \in Seq(Value)
  BY <1>1, <1>3, SeqDef
<1>5. Len(Window(slots, h, n)) = n
  BY <1>1, <1>3, <1>4, LenProperties
<1> QED
  BY <1>4, <1>5 DEF Window

\* The abstract queue's content is a sequence of values that all came from consume.
LEMMA ContentsSeq ==
    ASSUME IInv
    PROVE  /\ First \in Slot
           /\ Distance(First, tail) \in 0 .. BUGLE_WORKQUEUE_SIZE - 1
           /\ contents \in Seq(Value)
           /\ Len(contents) = Distance(First, tail)
           /\ \A i \in 1 .. Len(contents) : contents[i] = items[At(First, i - 1)]
<1>1. First \in Slot /\ tail \in Slot /\ items \in [Slot -> Value]
  BY SizeAssumption DEF IInv, TypeOK, First, Slot, Advance
<1>2. Distance(First, tail) \in 0 .. BUGLE_WORKQUEUE_SIZE - 1
  BY <1>1, DistanceRange
<1> QED
  BY <1>1, <1>2, WindowSeq DEF contents

\* A store appends the item to the abstract queue, below its capacity.
LEMMA StoreRefines ==
    ASSUME IInv, IInv', WStore
    PROVE  /\ Len(contents) < BUGLE_WORKQUEUE_SIZE - 1
           /\ item \in Item
           /\ contents' = Append(contents, item)
<1> DEFINE d == Distance(First, tail)
<1>1. /\ head \in Slot /\ tail \in Slot /\ items \in [Slot -> Value]
      /\ First \in Slot /\ d \in 0 .. BUGLE_WORKQUEUE_SIZE - 1
  BY ContentsSeq DEF IInv, TypeOK
<1>2. item \in Item /\ item \in Value
  BY DEF IInv, InHand, WStore, Value
<1>3. d + 1 < BUGLE_WORKQUEUE_SIZE
  <2>1. Occupied + 1 < BUGLE_WORKQUEUE_SIZE
    BY SizeAssumption, DistanceRange
       DEF IInv, TypeOK, WStore, SpacePermits, Count, Occupied
  <2>2. d = Occupied \/ (d = Occupied - 1)
    <3>1. CASE mpc = "get_advance"
      <4>1. head # tail
        BY <1>1, <3>1, DistanceRange DEF IInv, TypeOK, DataPermits, Count, Occupied
      <4> QED
        BY <1>1, <3>1, <4>1, DistanceHead DEF First, Occupied
    <3>2. CASE mpc # "get_advance"
      BY <3>2 DEF First, Occupied
    <3> QED
      BY <3>1, <3>2
  <2>3. Occupied \in Int
    BY <1>1, DistanceRange DEF Occupied
  <2> QED
    BY <2>1, <2>2, <2>3, SizeAssumption
<1>4. First' = First /\ tail' = Advance(tail)
  BY DEF WStore, main, First, Advance
<1>5. Distance(First, tail)' = d + 1
  <2>1. Distance(First', tail') = d + 1
    BY <1>1, <1>3, <1>4, DistanceTail
  <2> QED
    BY <2>1 DEF Distance
<1>6. Len(contents) = d /\ contents \in Seq(Value)
  BY ContentsSeq
<1>7. contents' = Window(items', First, d + 1)
  <2>1. contents' = Window(items', First', Distance(First, tail)')
    BY DEF contents, Window, At
  <2> QED
    BY <1>4, <1>5, <2>1
<1>8. items' = [items EXCEPT ![tail] = item] /\ items' \in [Slot -> Value]
  BY <1>1, <1>2 DEF WStore
<1>9. d \in Nat /\ d + 1 \in 0 .. BUGLE_WORKQUEUE_SIZE - 1
  BY <1>1, <1>3, SizeAssumption
<1>10. /\ contents' \in Seq(Value) /\ Len(contents') = d + 1
       /\ \A i \in 1 .. d + 1 : contents'[i] = items'[At(First, i - 1)]
  <2>1. items' \in [Slot -> Value]
    BY <1>8
  <2>2. d + 1 \in 0 .. BUGLE_WORKQUEUE_SIZE - 1
    BY <1>9
  <2> QED
    BY <1>1, <1>7, <2>1, <2>2, WindowSeq
<1>11. /\ Append(contents, item) \in Seq(Value)
       /\ Len(Append(contents, item)) = d + 1
       /\ \A i \in 1 .. d : Append(contents, item)[i] = contents[i]
       /\ Append(contents, item)[d + 1] = item
  BY <1>2, <1>6, AppendProperties
<1>12. ASSUME NEW i \in 1 .. d + 1 PROVE contents'[i] = Append(contents, item)[i]
  <2>1. CASE i = d + 1
    <3>1. At(First, i - 1) = tail
      BY <1>1, <1>9, <2>1, AtTail
    <3> QED
      BY <1>1, <1>8, <1>10, <1>11, <2>1, <3>1
  <2>2. CASE i # d + 1
    <3>1. i \in 1 .. d /\ i - 1 \in Slot /\ i - 1 < d
      BY <1>9, <2>2, SizeAssumption DEF Slot
    <3>2. At(First, i - 1) \in Slot /\ At(First, i - 1) # tail
      BY <1>1, <3>1, AtTail
    <3>3. contents[i] = items[At(First, i - 1)]
      BY <1>6, <3>1, ContentsSeq
    <3> QED
      BY <1>1, <1>8, <1>10, <1>11, <3>1, <3>2, <3>3
  <2> QED
    BY <2>1, <2>2
<1>13. contents' = Append(contents, item)
  BY <1>10, <1>11, <1>12, SeqEqual
<1> QED
  BY <1>2, <1>6, <1>9, <1>13, <1>3, SizeAssumption

\* Reading items[head] takes the oldest value out of the abstract queue.
LEMMA ReadRefines ==
    ASSUME IInv, IInv', GetRead
    PROVE  /\ contents # <<>>
           /\ ret' = Head(contents)
           /\ contents' = Tail(contents)
<1> DEFINE d == Distance(head, tail)
<1>1. /\ head \in Slot /\ tail \in Slot /\ items \in [Slot -> Value]
      /\ First = head /\ d \in 0 .. BUGLE_WORKQUEUE_SIZE - 1
  BY ContentsSeq DEF IInv, TypeOK, First, GetRead
<1>2. head # tail
  BY <1>1, DistanceRange DEF IInv, TypeOK, DataPermits, Count, Occupied, GetRead
<1>3. d \in Nat /\ d - 1 \in 0 .. BUGLE_WORKQUEUE_SIZE - 1
  BY <1>1, <1>2, DistanceRange, SizeAssumption
<1>4. /\ contents \in Seq(Value) /\ Len(contents) = d
      /\ \A i \in 1 .. d : contents[i] = items[At(head, i - 1)]
  BY <1>1, ContentsSeq
<1>5. contents # <<>> /\ 1 \in 1 .. d
  BY <1>3, <1>4, EmptySeq
<1>6. ret' = Head(contents)
  <2>1. Head(contents) = contents[1]
    BY <1>4, <1>5
  <2>2. At(head, 0) = head
    BY <1>1, SizeAssumption DEF At, Slot
  <2> QED
    BY <1>4, <1>5, <2>1, <2>2 DEF GetRead
<1>7. First' = Advance(head) /\ Advance(head) \in Slot
      /\ Distance(Advance(head), tail) = d - 1 /\ items' = items /\ tail' = tail
  BY <1>1, <1>2, DistanceHead DEF GetRead, First, ring, Advance
<1>8. contents' = Window(items, Advance(head), d - 1)
  <2>1. contents' = Window(items', First', Distance(First', tail'))
    BY DEF contents, Window, At, Distance
  <2> QED
    BY <1>7, <2>1
<1>9. /\ contents' \in Seq(Value) /\ Len(contents') = d - 1
      /\ \A i \in 1 .. d - 1 : contents'[i] = items[At(Advance(head), i - 1)]
  BY <1>1, <1>3, <1>7, <1>8, WindowSeq
<1>10. /\ Tail(contents) \in Seq(Value) /\ Len(Tail(contents)) = d - 1
       /\ \A i \in 1 .. d - 1 : Tail(contents)[i] = contents[i + 1]
  BY <1>4, <1>5, HeadTailProperties
<1>11. ASSUME NEW i \in 1 .. d - 1 PROVE contents'[i] = Tail(contents)[i]
  <2>1. i - 1 \in Nat /\ (i - 1) + 1 < BUGLE_WORKQUEUE_SIZE /\ i + 1 \in 1 .. d
    BY <1>1, <1>3, SizeAssumption
  <2>2. At(Advance(head), i - 1) = At(head, (i - 1) + 1)
    BY <1>1, <2>1, AtAdvance
  <2>3. (i - 1) + 1 = (i + 1) - 1
    BY <2>1
  <2>4. contents[i + 1] = items[At(head, (i + 1) - 1)]
    BY <1>4, <2>1
  <2>5. contents'[i] = items[At(Advance(head), i - 1)] /\ Tail(contents)[i] = contents[i + 1]
    BY <1>9, <1>10
  <2> QED
    BY <2>2, <2>3, <2>4, <2>5
<1>12. contents' = Tail(contents)
  BY <1>9, <1>10, <1>11, SeqEqual
<1> QED
  BY <1>5, <1>6, <1>12

\* Every other step leaves the abstract queue alone.
LEMMA OthersStutter ==
    ASSUME IInv, [Next]_vars, ~WStore, ~GetRead
    PROVE  contents' = contents /\ ret' = ret
<1>1. First' = First /\ items' = items /\ tail' = tail /\ ret' = ret
  BY DEF Next, WorkerNext, MainNext, MainProgress, vars, WConsume, WWaitSpace, WLock,
         WUnlock, WPost, WWakeup, SetWakeup, Start, StopCall, Join, Free, HasLock, HasRead,
         HasUnlock, GetCall, GetWait, GetAdvance, GetPost, Sleep, Wake, ring, main, First,
         Advance
<1> QED
  BY <1>1 DEF contents, Window, At, Distance

(* The ring implements the FIFO: the items come out in the order they went in,
   none lost, doubled or invented, for every ring size and item set. *)
THEOREM Refinement == Spec => ImplementsFifo
<1>1. Init => Fifo!Init
  <2> SUFFICES ASSUME Init PROVE Fifo!Init
    OBVIOUS
  <2>1. Distance(First, tail) = 0
    BY DEF Init, First, Distance
  <2>2. contents = <<>>
    BY <2>1, InitInv, ContentsSeq, EmptySeq
  <2> QED
    BY <2>2, JunkAssumption DEF Init, Fifo!Init
<1>2. IInv /\ IInv' /\ [Next]_vars => [Fifo!Next]_(Fifo!vars)
  <2> SUFFICES ASSUME IInv, IInv', [Next]_vars PROVE [Fifo!Next]_(Fifo!vars)
    OBVIOUS
  <2>1. CASE WStore
    <3>1. ret' = ret
      BY <2>1 DEF WStore, main
    <3> QED
      BY <2>1, <3>1, StoreRefines DEF Fifo!Next, Fifo!Put
  <2>2. CASE GetRead
    <3>1. Fifo!Get
      BY <2>2, ReadRefines DEF Fifo!Get
    <3> QED
      BY <3>1 DEF Fifo!Next
  <2>3. CASE ~WStore /\ ~GetRead
    <3>1. contents' = contents /\ ret' = ret
      BY <2>3, OthersStutter
    <3> QED
      BY <3>1 DEF Fifo!vars
  <2> QED
    BY <2>1, <2>2, <2>3
<1> QED
  BY <1>1, <1>2, Invariance, PTL DEF Spec, ImplementsFifo, Fifo!Spec
=============================================================================
