--------------------------- MODULE Filters_proofs ---------------------------
(* The filter chain of filters.c for any chain of filters, any threads and any
   functions: a call walks one list, and a function that goes round the chain is
   one that nobody catches.  And the filter-sets of the chain that override the state of
   OpenGL (Overrides), for any threads and contexts: what the application set is put back;
   and the checks of drawing calls (DrawChecks), for any calls, memory and threads. *)
EXTENDS Filters, SetsAtWork, Integers, WellFoundedInduction, SequenceTheorems, TLAPS

(* Induction over the natural numbers: what is false of one of them is false of a
   least one. *)
LEMMA LeastNat == ASSUME NEW S \in SUBSET Nat, S # {} PROVE \E n \in S : \A m \in S : n <= m
<1>1. PICK R : IsWellFoundedOn(R, Nat) /\ \A m, n \in Nat : m < n => <<m, n>> \in R
  <2>1. \A m, n \in Nat : m < n => <<m, n>> \in OpToRel(<, Nat)
    BY Zenon DEF OpToRel
  <2> QED
    BY <2>1, NatLessThanWellFounded, Zenon
<1>2. \E n \in S : \A m \in S : ~(<<m, n>> \in R)
  <2>1. S \subseteq Nat /\ IsWellFoundedOn(R, Nat)
    BY <1>1
  <2> QED
    BY <2>1, WFMin, Zenon
<1>3. PICK n \in S : \A m \in S : ~(<<m, n>> \in R)
  BY <1>2
<1>4. \A m \in S : ~(m < n)
  BY <1>1, <1>3
<1> QED
  BY <1>4

(* FlattenSeq is defined by a recursive function, which therefore exists. *)
Flattens(f, seqs, n) == f = [i \in 1..n |-> IF i = 1 THEN seqs[i] ELSE f[i-1] \o seqs[i]]

(* There is such a function for each length, by induction. *)
LEMMA FlattensExists == ASSUME NEW seqs, NEW n \in Nat PROVE \E f : Flattens(f, seqs, n)
<1> DEFINE Bad == {k \in Nat : ~\E f : Flattens(f, seqs, k)}
<1> SUFFICES ASSUME Bad # {} PROVE FALSE
  OBVIOUS
<1>1. PICK k \in Bad : \A j \in Bad : k <= j
  BY LeastNat
<1>2. k # 0
  <2>1. Flattens([i \in 1..0 |-> 0], seqs, 0)
    BY DEF Flattens
  <2> QED
    BY <1>1, <2>1
<1>3. k - 1 \in Nat /\ k - 1 \notin Bad
  BY <1>1, <1>2
<1>4. PICK f : Flattens(f, seqs, k - 1)
  BY <1>3
<1>5. \A i \in 1..(k - 1) : f[i] = IF i = 1 THEN seqs[i] ELSE f[i-1] \o seqs[i]
  BY <1>4 DEF Flattens
<1> DEFINE g == [i \in 1..k |->
                   IF i = k THEN (IF k = 1 THEN seqs[k] ELSE f[k-1] \o seqs[k]) ELSE f[i]]
<1>6. \A i \in 1..k : g[i] = IF i = 1 THEN seqs[i] ELSE g[i-1] \o seqs[i]
  <2>1. TAKE i \in 1..k
  <2>2. CASE i = k
    BY <1>2, <2>2
  <2>3. CASE i # k
    <3>1. i \in 1..(k - 1) /\ (i # 1 => i - 1 \in 1..(k - 1)) /\ i - 1 # k
      BY <2>3, <1>3
    <3>2. g[i] = f[i] /\ (i # 1 => g[i-1] = f[i-1])
      BY <3>1
    <3>3. f[i] = IF i = 1 THEN seqs[i] ELSE f[i-1] \o seqs[i]
      BY <3>1, <1>5
    <3> HIDE DEF g
    <3> QED
      BY <3>2, <3>3
  <2> QED
    BY <2>2, <2>3
<1>7. Flattens(g, seqs, k)
  BY <1>6 DEF Flattens
<1> QED
  BY <1>1, <1>7

(* What it makes of sequences over S is a sequence over S, by induction. *)
LEMMA FlattensType ==
    ASSUME NEW S, NEW seqs \in Seq(Seq(S)), NEW f, Flattens(f, seqs, Len(seqs))
    PROVE  \A n \in 1..Len(seqs) : f[n] \in Seq(S)
<1> DEFINE Bad == {k \in 1..Len(seqs) : f[k] \notin Seq(S)}
<1> SUFFICES ASSUME Bad # {} PROVE FALSE
  OBVIOUS
<1>1. PICK k \in Bad : \A j \in Bad : k <= j
  <2>1. Bad \in SUBSET Nat
    OBVIOUS
  <2> HIDE DEF Bad
  <2> QED
    BY <2>1, LeastNat
<1>2. \A i \in 1..Len(seqs) : seqs[i] \in Seq(S)
  OBVIOUS
<1>3. f[k] = IF k = 1 THEN seqs[k] ELSE f[k-1] \o seqs[k]
  BY DEF Flattens
<1>4. k # 1 => f[k-1] \in Seq(S)
  BY <1>1
<1>5. f[k] \in Seq(S)
  BY <1>2, <1>3, <1>4
<1> QED
  BY <1>5

\* What is in none of the sequences is not in the sequence of them all.
LEMMA FlattenSeqType ==
    ASSUME NEW S, NEW seqs \in Seq(Seq(S))
    PROVE  FlattenSeq(seqs) \in Seq(S)
<1>1. CASE Len(seqs) = 0
  BY <1>1 DEF FlattenSeq
<1>2. CASE Len(seqs) # 0
  <2> DEFINE flatten == CHOOSE f : Flattens(f, seqs, Len(seqs))
  <2>1. FlattenSeq(seqs) = flatten[Len(seqs)]
    BY <1>2 DEF FlattenSeq, Flattens
  <2>2. Flattens(flatten, seqs, Len(seqs))
    <3>1. \E f : Flattens(f, seqs, Len(seqs))
      BY FlattensExists, Len(seqs) \in Nat
    <3> QED
      BY <3>1, Zenon
  <2> QED
    BY <1>2, <2>1, <2>2, FlattensType
<1> QED
  BY <1>1, <1>2
-----------------------------------------------------------------------------
\* The chain is made of what the filters registered.
LEMMA ChainType == Chain \in Seq(Element)
<1>1. Len(Loaded) \in Nat /\ \A i \in 1..Len(Loaded) : Len(Loaded[i].callbacks) \in Nat
  BY LoadedAssumption
<1>2. ASSUME NEW i \in 1..Len(Loaded)
      PROVE  Reverse(Catchers(Loaded[i])) \in Seq(Element)
  <2> DEFINE cs == Catchers(Loaded[i])
             n == Len(Loaded[i].callbacks)
  <2>1. n \in Nat /\ cs \in Seq(Element) /\ Len(cs) = n
    <3>1. cs \in [1..n -> Element]
      BY <1>1 DEF Catchers, Element, ToSet
    <3> HIDE DEF cs, n
    <3> QED
      BY <1>1, <3>1 DEF n
  <2> DEFINE rs == Reverse(cs)
  <2> HIDE DEF cs, n
  <2>2. \A j \in 1..n : n - j + 1 \in 1..n /\ cs[n - j + 1] \in Element
    BY <2>1
  <2>3. rs = [j \in 1..n |-> cs[n - j + 1]]
    BY <2>1 DEF Reverse
  <2>4. rs \in [1..n -> Element]
    BY <2>2, <2>3
  <2> HIDE DEF rs
  <2>5. rs \in Seq(Element)
    BY <2>1, <2>4
  <2> QED
    BY <2>5 DEF rs, cs
<1> DEFINE all == [i \in 1..Len(Loaded) |-> Reverse(Catchers(Loaded[i]))]
<1>3. all \in Seq(Seq(Element))
  BY <1>1, <1>2
<1>4. Chain = FlattenSeq(all)
  BY DEF Chain
<1> HIDE DEF all
<1> QED
  BY <1>3, <1>4, FlattenSeqType

\* compute_active_callbacks puts into the list of f only what was registered for f.
LEMMA ActiveOfType ==
    ASSUME NEW act, NEW f \in Function
    PROVE  ActiveCallbacks(act)[f] \in Seq(Catching(f))
<1> DEFINE ss == [j \in 1..Len(Chain) |-> IF Wanted(Chain[j], f, act) THEN <<Chain[j]>> ELSE <<>>]
<1>1. Len(Chain) \in Nat /\ \A j \in 1..Len(Chain) : Chain[j] \in Element
  BY ChainType
<1>2. \A j \in 1..Len(Chain) : Wanted(Chain[j], f, act) => Chain[j] \in Catching(f)
  BY <1>1 DEF Wanted, Catching
<1>3. \A j \in 1..Len(Chain) : ss[j] \in Seq(Catching(f))
  BY <1>2
<1>4. ss \in Seq(Seq(Catching(f)))
  BY <1>1, <1>3
<1>5. ActiveCallbacks(act)[f] = FlattenSeq(ss)
  BY DEF ActiveCallbacks
<1> HIDE DEF ss
<1> QED
  BY <1>4, <1>5, FlattenSeqType

(* The lists that compute_active_callbacks makes have only what was registered for the function. *)
LEMMA ActiveType ==
    ASSUME NEW act
    PROVE  /\ ActiveCallbacks(act) \in [Function -> Seq(Element)]
           /\ \A f \in Function : ActiveCallbacks(act)[f] \in Seq(Catching(f))
<1>1. \A f \in Function : ActiveCallbacks(act)[f] \in Seq(Catching(f))
  BY ActiveOfType
<1>2. \A f \in Function : ActiveCallbacks(act)[f] \in Seq(Element)
  <2>1. \A f \in Function : Catching(f) \subseteq Element
    BY DEF Catching
  <2>2. \A S, T : S \subseteq T => Seq(S) \subseteq Seq(T)
    OBVIOUS
  <2> QED
    BY <1>1, <2>1, <2>2
<1> QED
  BY <1>1, <1>2 DEF ActiveCallbacks
-----------------------------------------------------------------------------
(* The records of frame, by where a thread is. *)
LEMMA FrameCases ==
    ASSUME NEW fr \in Frame
    PROVE  /\ fr.pc \in {"idle", "walk", "walked", "upgrade", "process", "unlock", "compute",
                         "toggle", "change", "defer", "append"}
           /\ fr.pc = "idle" => fr = Idle
           /\ fr.pc = "walk" => fr \in [pc : {"walk"}, fn : Function, pos : Nat, list : Seq(Element)]
           /\ fr.pc \in {"toggle", "change"} => fr.set \in FilterSet /\ fr.on \in BOOLEAN
           /\ fr.pc \in {"defer", "append"} =>
                  fr.set \in FilterSet /\ fr.on \in BOOLEAN /\ fr.back \in Back
<1>1. CASE fr \in Back
  BY <1>1 DEF Back, Idle
<1>2. CASE fr \in [pc : {"walked", "upgrade", "process", "unlock", "compute"}]
  BY <1>2
<1>3. CASE fr \in [pc : {"toggle", "change"}, set : FilterSet, on : BOOLEAN]
  BY <1>3
<1>4. CASE fr \in [pc : {"defer", "append"}, set : FilterSet, on : BOOLEAN, back : Back]
  BY <1>4
<1> QED
  BY <1>1, <1>2, <1>3, <1>4 DEF Frame

\* A step of t moves nobody else.
LEMMA FrameMove ==
    ASSUME IInv, NEW t \in Thread, NEW fr \in Frame, Goto(t, fr)
    PROVE  /\ frame' \in [Thread -> Frame] /\ frame'[t] = fr
           /\ \A u \in Thread : u # t => /\ frame'[u] = frame[u]
                                         /\ Walk(u)' = Walk(u)
                                         /\ Walking(u)' <=> Walking(u)
                                         /\ HoldsWrite(u)' <=> HoldsWrite(u)
<1>1. frame \in [Thread -> Frame]
  BY DEF IInv, TypeOK
<1>2. frame' \in [Thread -> Frame] /\ frame'[t] = fr
  BY <1>1 DEF Goto
<1>3. \A u \in Thread : u # t => frame'[u] = frame[u]
  BY <1>1 DEF Goto
<1> QED
  BY <1>2, <1>3 DEF Walk, Walking, HoldsWrite

(* A thread that takes, gives back or upgrades the lock as the lock allows keeps the
   lock's account of who holds it. *)
LEMMA LockMove ==
    ASSUME IInv, NEW t \in Thread, NEW fr \in Frame, Goto(t, fr),
           \/ UNCHANGED lock /\ (Walking(t)' <=> Walking(t)) /\ (HoldsWrite(t)' <=> HoldsWrite(t))
           \/ Lock!Read(t) /\ Walking(t)' /\ ~HoldsWrite(t)'
           \/ Lock!Write(t) /\ HoldsWrite(t)' /\ ~Walking(t)'
           \/ Lock!Unlock(t) /\ ~Walking(t)' /\ ~HoldsWrite(t)',
           fr.pc = "append" => fr.back = Idle
    PROVE  LockInv' /\ readers' \subseteq Thread /\ writers' \subseteq Thread
<1>1. /\ \A u \in Thread : (u \in readers <=> Walking(u)) /\ (u \in writers <=> HoldsWrite(u))
      /\ writers # {} => readers = {}
      /\ \A u, v \in writers : u = v
      /\ readers \subseteq Thread /\ writers \subseteq Thread
  BY DEF IInv, LockInv, TypeOK
<1>2. /\ readers' \subseteq Thread /\ writers' \subseteq Thread
      /\ writers' # {} => readers' = {}
      /\ \A u, v \in writers' : u = v
  BY <1>1 DEF lock, Lock!Read, Lock!Write, Lock!Unlock
<1>3. \A u \in Thread : (u \in readers' <=> Walking(u)') /\ (u \in writers' <=> HoldsWrite(u)')
  <2>1. TAKE u \in Thread
  <2>2. CASE u = t
    BY <1>1, <2>2 DEF lock, Lock!Read, Lock!Write, Lock!Unlock
  <2>3. CASE u # t
    <3>1. (Walking(u)' <=> Walking(u)) /\ (HoldsWrite(u)' <=> HoldsWrite(u))
      BY <2>3, FrameMove
    <3>2. (u \in readers' <=> u \in readers) /\ (u \in writers' <=> u \in writers)
      BY <1>1, <2>3 DEF lock, Lock!Read, Lock!Write, Lock!Unlock
    <3> QED
      BY <1>1, <3>1, <3>2
  <2> QED
    BY <2>2, <2>3
<1>4. \A u \in Thread : frame'[u].pc = "append" => frame'[u].back = Idle
  BY FrameMove DEF IInv, LockInv
<1> QED
  BY <1>2, <1>3, <1>4 DEF LockInv

\* A step that leaves the flags and the lists alone.
LEMMA QuietInv ==
    ASSUME IInv, NEW t \in Thread, NEW fr \in Frame, Goto(t, fr),
           LockInv', readers' \subseteq Thread, writers' \subseteq Thread,
           UNCHANGED <<phase, active, hooked, lists>>,
           activations_deferred' \in Seq([set : FilterSet, active : BOOLEAN]),
           frame[t].pc # "compute", fr.pc # "compute",
           phase = "startup" => fr.pc \in {"idle", "defer", "append"},
           Walk(t)'.pc = "walk" => Serving /\ Walk(t)'.list = active_callbacks[Walk(t)'.fn]
    PROVE  IInv'
<1> USE DEF IInv
<1>1. TypeOK'
  BY FrameMove DEF TypeOK, lists
<1>2. StartupInv'
  BY FrameMove DEF StartupInv
<1>3. ListsInv'
  BY FrameMove DEF ListsInv, Serving, lists
<1>4. WalkInv'
  <2>1. \A u \in Thread : u # t => Walk(u)' = Walk(u)
    BY FrameMove
  <2> QED
    BY <2>1 DEF WalkInv, Serving, lists
<1>5. CatchInv' /\ BypassInv'
  <2>1. Bypass' = Bypass
    BY DEF Bypass
  <2> QED
    BY <2>1 DEF CatchInv, BypassInv, lists
<1> QED
  BY <1>1, <1>2, <1>3, <1>4, <1>5
-----------------------------------------------------------------------------
(* The invariant holds at the start. *)
LEMMA InitInv == Init => IInv
<1> SUFFICES ASSUME Init PROVE IInv
  OBVIOUS
<1> USE DEF Init
<1>1. \A t \in Thread : frame[t] = Idle /\ frame[t].pc = "idle"
  BY DEF Idle
<1>2. TypeOK
  <2>1. Idle \in Frame
    BY DEF Frame, Back
  <2> QED
    BY <2>1 DEF TypeOK
<1>3. LockInv /\ StartupInv /\ ListsInv /\ WalkInv /\ BypassInv
  BY <1>1 DEF LockInv, Walking, HoldsWrite, StartupInv, ListsInv, Serving, WalkInv, Walk, BypassInv
<1>4. CatchInv
  BY DEF CatchInv
<1> QED
  BY <1>2, <1>3, <1>4 DEF IInv

\* The steps that take and drop the lock, and those between them
LEMMA DeferInv ==
    ASSUME IInv, NEW t \in Thread, NEW s \in FilterSet, NEW on \in BOOLEAN, Defer(t, s, on)
    PROVE  IInv'
<1> DEFINE fr == [pc |-> "defer", set |-> s, on |-> on, back |-> frame[t]]
<1>1. /\ Goto(t, fr) /\ UNCHANGED <<phase, active, hooked, lists, activations_deferred, lock>>
      /\ frame[t] = Idle \/ (phase = "running" /\ frame[t].pc = "walk")
  BY DEF Defer, At
<1>2. frame[t] \in Frame /\ activations_deferred' \in Seq([set : FilterSet, active : BOOLEAN])
  BY <1>1 DEF IInv, TypeOK
<1>3. frame[t] \in Back
  BY <1>1, <1>2, FrameCases DEF Back
<1>4. fr \in Frame
  BY <1>3 DEF Frame
<1>5. frame'[t] = fr
  BY <1>1, <1>4, FrameMove
<1>6. Idle.pc = "idle" /\ (frame[t] = Idle => frame[t].pc = "idle")
  BY DEF Idle
<1>7. Walking(t)' <=> Walking(t)
  BY <1>1, <1>5, <1>6 DEF Walking
<1>8. ~HoldsWrite(t)' /\ ~HoldsWrite(t)
  BY <1>1, <1>5, <1>6 DEF HoldsWrite
<1>9. LockInv' /\ readers' \subseteq Thread /\ writers' \subseteq Thread
  BY <1>1, <1>4, <1>7, <1>8, LockMove
<1>10. Walk(t)' = frame[t] /\ Walk(t) = frame[t]
  BY <1>1, <1>5, <1>6 DEF Walk
<1>11. Walk(t)'.pc = "walk" => Serving /\ Walk(t)'.list = active_callbacks[Walk(t)'.fn]
  BY <1>10 DEF IInv, WalkInv
<1> QED
  BY <1>1, <1>2, <1>4, <1>6, <1>9, <1>11, QuietInv

(* Taking the lock of the deferred list keeps the invariant. *)
LEMMA DeferLockInv == ASSUME IInv, NEW t \in Thread, DeferLock(t) PROVE IInv'
<1> DEFINE fr == [frame[t] EXCEPT !.pc = "append"]
<1>1. /\ Goto(t, fr) /\ Lock!Write(t) /\ frame[t].pc = "defer"
      /\ UNCHANGED <<phase, active, hooked, lists, activations_deferred>>
  BY DEF DeferLock
<1>2. frame[t] \in Frame /\ activations_deferred' \in Seq([set : FilterSet, active : BOOLEAN])
  BY <1>1 DEF IInv, TypeOK
<1>3. frame[t].back = Idle
  BY <1>1 DEF Lock!Write, IInv, LockInv, Walking
<1>4. fr \in Frame /\ fr.pc = "append" /\ fr.back = Idle
  <2>1. frame[t] \in [pc : {"defer", "append"}, set : FilterSet, on : BOOLEAN, back : Back]
    BY <1>1, <1>2 DEF Frame, Back, Idle
  <2> QED
    BY <2>1, <1>3 DEF Frame
<1>5. frame'[t] = fr
  BY <1>1, <1>4, FrameMove
<1>6. ~Walking(t)' /\ HoldsWrite(t)'
  BY <1>4, <1>5 DEF Walking, HoldsWrite
<1>7. LockInv' /\ readers' \subseteq Thread /\ writers' \subseteq Thread
  BY <1>1, <1>4, <1>6, LockMove
<1>8. Walk(t)'.pc # "walk"
  BY <1>4, <1>5 DEF Walk, Idle
<1> HIDE DEF fr
<1> QED
  BY <1>1, <1>2, <1>4, <1>7, <1>8, QuietInv

(* Adding to the deferred list keeps the invariant. *)
LEMMA DeferAppendInv == ASSUME IInv, NEW t \in Thread, DeferAppend(t) PROVE IInv'
<1>1. /\ Goto(t, frame[t].back) /\ Lock!Unlock(t) /\ frame[t].pc = "append"
      /\ UNCHANGED <<phase, active, hooked, lists>>
  BY DEF DeferAppend
<1>2. frame[t] \in Frame /\ frame[t].set \in FilterSet /\ frame[t].on \in BOOLEAN
  BY <1>1, FrameCases DEF IInv, TypeOK
<1>3. activations_deferred' \in Seq([set : FilterSet, active : BOOLEAN])
  BY <1>2 DEF DeferAppend, IInv, TypeOK
<1>4. frame[t].back = Idle
  BY <1>1 DEF IInv, LockInv
<1>5. Idle \in Frame /\ Idle.pc = "idle" /\ Goto(t, Idle)
  BY <1>1, <1>4 DEF Frame, Back, Idle
<1>6. frame'[t] = Idle
  BY <1>5, FrameMove
<1>7. ~Walking(t)' /\ ~HoldsWrite(t)' /\ Walk(t)'.pc # "walk"
  BY <1>5, <1>6 DEF Walking, HoldsWrite, Walk
<1>8. LockInv' /\ readers' \subseteq Thread /\ writers' \subseteq Thread
  BY <1>1, <1>5, <1>7, LockMove
<1> QED
  BY <1>1, <1>3, <1>5, <1>7, <1>8, QuietInv

(* The start of filters_run keeps the invariant: the walk is on the list that is in force. *)
LEMMA RunInv == ASSUME IInv, NEW t \in Thread, NEW f \in Function, Run(t, f) PROVE IInv'
<1> DEFINE fr == [pc |-> "walk", fn |-> f, pos |-> 1, list |-> active_callbacks[f]]
<1>1. /\ Goto(t, fr) /\ Lock!Read(t) /\ frame[t].pc = "idle" /\ phase = "running"
      /\ UNCHANGED <<phase, active, hooked, lists, activations_deferred>>
  BY DEF Run, At
<1>2. active_callbacks[f] \in Seq(Element) /\ activations_deferred' = activations_deferred
  BY <1>1 DEF IInv, TypeOK
<1>3. fr \in Frame
  BY <1>2 DEF Frame, Back
<1>4. frame'[t] = fr
  BY <1>1, <1>3, FrameMove
<1>5. Walking(t)' /\ ~HoldsWrite(t)' /\ Walk(t)' = fr
  BY <1>4 DEF Walking, HoldsWrite, Walk
<1>6. LockInv' /\ readers' \subseteq Thread /\ writers' \subseteq Thread
  BY <1>1, <1>3, <1>5, LockMove
<1>7. activations_deferred' \in Seq([set : FilterSet, active : BOOLEAN])
  BY <1>2 DEF IInv, TypeOK
<1>8. fr.pc = "walk" /\ fr.list = active_callbacks[fr.fn] /\ Serving
  BY <1>1 DEF Serving
<1> HIDE DEF fr
<1> QED
  BY <1>1, <1>3, <1>5, <1>6, <1>7, <1>8, QuietInv

(* A callback, or the end of the list, keeps the invariant. *)
LEMMA CallbackInv == ASSUME IInv, NEW t \in Thread, Callback(t) \/ WalkEnds(t) PROVE IInv'
<1>1. /\ frame[t].pc = "walk" /\ phase = "running"
      /\ UNCHANGED <<phase, active, hooked, lists, activations_deferred, lock>>
  BY DEF Callback, WalkEnds, At
<1>2. /\ frame[t] \in [pc : {"walk"}, fn : Function, pos : Nat, list : Seq(Element)]
      /\ activations_deferred' \in Seq([set : FilterSet, active : BOOLEAN])
  BY <1>1, FrameCases DEF IInv, TypeOK
<1>3. CASE Goto(t, [frame[t] EXCEPT !.pos = @ + 1])
  <2> DEFINE fr == [frame[t] EXCEPT !.pos = @ + 1]
  <2>1. /\ fr \in [pc : {"walk"}, fn : Function, pos : Nat, list : Seq(Element)]
        /\ fr.list = frame[t].list /\ fr.fn = frame[t].fn
    BY <1>2
  <2>2. fr \in Frame /\ fr.pc = "walk"
    BY <2>1 DEF Frame, Back
  <2> HIDE DEF fr
  <2>3. frame'[t] = fr
    BY <1>3, <2>2, FrameMove DEF fr
  <2>4. /\ Walking(t)' /\ Walking(t) /\ ~HoldsWrite(t)' /\ ~HoldsWrite(t)
        /\ Walk(t)' = fr /\ Walk(t) = frame[t]
    BY <1>1, <2>2, <2>3 DEF Walking, HoldsWrite, Walk
  <2>5. LockInv' /\ readers' \subseteq Thread /\ writers' \subseteq Thread
    BY <1>1, <1>3, <2>2, <2>4, LockMove DEF fr
  <2>6. Serving /\ fr.list = active_callbacks[fr.fn]
    BY <1>1, <2>1, <2>4 DEF IInv, WalkInv
  <2> QED
    BY <1>1, <1>2, <1>3, <2>2, <2>4, <2>5, <2>6, QuietInv DEF fr
<1>4. CASE Goto(t, [pc |-> "walked"])
  <2> DEFINE fr == [pc |-> "walked"]
  <2>1. fr \in Frame
    BY DEF Frame
  <2>2. frame'[t] = fr
    BY <1>4, <2>1, FrameMove
  <2>3. Walking(t)' /\ Walking(t) /\ ~HoldsWrite(t)' /\ ~HoldsWrite(t) /\ Walk(t)' = fr
    BY <1>1, <2>2 DEF Walking, HoldsWrite, Walk
  <2>4. LockInv' /\ readers' \subseteq Thread /\ writers' \subseteq Thread
    BY <1>1, <1>4, <2>1, <2>3, LockMove
  <2>5. fr.pc = "walked" /\ Goto(t, fr)
    BY <1>4
  <2> HIDE DEF fr
  <2> QED
    BY <1>1, <1>2, <2>1, <2>3, <2>4, <2>5, QuietInv
<1> QED
  BY <1>3, <1>4 DEF Callback, WalkEnds

(* Finish, Upgrade, Unlock, Toggle and ToggleLock: a thread that is not in a walk
   afterwards. *)
LEMMA OtherInv ==
    ASSUME IInv, NEW t \in Thread,
           Finish(t) \/ Upgrade(t) \/ Unlock(t) \/ ToggleLock(t) \/ \E s \in Keyed : Toggle(t, s)
    PROVE  IInv'
<1>1. /\ UNCHANGED <<phase, active, hooked, lists, activations_deferred>> /\ phase = "running"
      /\ activations_deferred' \in Seq([set : FilterSet, active : BOOLEAN])
  BY DEF Finish, Upgrade, Unlock, ToggleLock, Toggle, At, IInv, TypeOK
<1>2. frame[t] \in Frame
  BY DEF IInv, TypeOK
<1>3. ASSUME NEW fr \in Frame, Goto(t, fr),
             fr.pc \in {"idle", "upgrade", "process", "toggle", "change"},
             frame[t].pc # "compute",
             \/ UNCHANGED lock /\ frame[t].pc = "idle" /\ fr.pc = "toggle"
             \/ Lock!Write(t) /\ fr.pc \in {"process", "change"}
             \/ Lock!Unlock(t) /\ fr.pc \in {"idle", "upgrade"}
      PROVE  IInv'
  <2>1. frame'[t] = fr
    BY <1>3, FrameMove
  <2>2. /\ ~Walking(t)' /\ Walk(t)'.pc # "walk"
        /\ HoldsWrite(t)' <=> fr.pc \in {"process", "change"}
        /\ frame[t].pc = "idle" => ~Walking(t) /\ ~HoldsWrite(t)
    BY <1>3, <2>1 DEF Walking, HoldsWrite, Walk
  <2>3. LockInv' /\ readers' \subseteq Thread /\ writers' \subseteq Thread
    BY <1>3, <2>2, LockMove
  <2> QED
    BY <1>1, <1>3, <2>2, <2>3, QuietInv
<1>4. CASE Finish(t)
  <2>1. PICK fr \in {Idle, [pc |-> "upgrade"]} : Goto(t, fr)
    BY <1>4 DEF Finish
  <2>2. fr \in Frame /\ fr.pc \in {"idle", "upgrade"}
    BY <2>1 DEF Frame, Back, Idle
  <2> QED
    BY <1>3, <1>4, <2>1, <2>2 DEF Finish, At
<1>5. CASE Upgrade(t)
  <2>1. [pc |-> "process"] \in Frame /\ [pc |-> "process"].pc = "process"
    BY DEF Frame
  <2> QED
    BY <1>3, <1>5, <2>1 DEF Upgrade, At
<1>6. CASE Unlock(t)
  <2>1. Idle \in Frame /\ Idle.pc = "idle"
    BY DEF Frame, Back, Idle
  <2> QED
    BY <1>3, <1>6, <2>1 DEF Unlock, At
<1>7. CASE ToggleLock(t)
  <2> DEFINE fr == [frame[t] EXCEPT !.pc = "change"]
  <2>1. frame[t] \in [pc : {"toggle", "change"}, set : FilterSet, on : BOOLEAN]
    BY <1>2, <1>7 DEF ToggleLock, At, Frame, Back, Idle
  <2>2. fr \in Frame /\ fr.pc = "change"
    BY <2>1 DEF Frame
  <2> QED
    BY <1>3, <1>7, <2>2 DEF ToggleLock, At
<1>8. ASSUME NEW s \in Keyed, Toggle(t, s) PROVE IInv'
  <2> DEFINE fr == [pc |-> "toggle", set |-> s, on |-> ~active[s]]
  <2>1. s \in FilterSet
    BY SetsAssumption
  <2>2. (~active[s]) \in BOOLEAN
    BY <2>1, SMT
  <2>3. fr \in Frame /\ fr.pc = "toggle"
    BY <2>1, <2>2 DEF Frame
  <2> QED
    BY <1>3, <1>8, <2>3 DEF Toggle, At
<1> QED
  BY <1>4, <1>5, <1>6, <1>7, <1>8
-----------------------------------------------------------------------------
\* The steps that change the flags or the lists
LEMMA FinaliseInv == ASSUME IInv, Finalise PROVE IInv'
<1> USE DEF IInv
<1>1. /\ phase = "startup" /\ phase' = "running"
      /\ active_callbacks' = ActiveCallbacks(active) /\ bypass' = Bypass
      /\ UNCHANGED <<active, hooked, activations_deferred, readers, writers, frame>>
      /\ \A t \in Thread : frame[t] = Idle /\ frame[t].pc = "idle"
  BY DEF Finalise, LoadFilterSets, lock, Idle
<1>2. CatchInv'
  BY <1>1, ActiveType DEF CatchInv
<1>3. active_callbacks' \in [Function -> Seq(Element)]
  BY <1>1, ActiveType
<1>4. Bypass \in [Function -> BOOLEAN]
  BY Zenon DEF Bypass
<1>5. TypeOK'
  BY <1>1, <1>3, <1>4 DEF TypeOK
<1>6. LockInv'
  BY <1>1 DEF LockInv, Walking, HoldsWrite
<1>7. StartupInv' /\ ListsInv' /\ WalkInv'
  BY <1>1 DEF StartupInv, ListsInv, WalkInv, Walk
<1>8. BypassInv'
  BY <1>1 DEF BypassInv, Bypass
<1> QED
  BY <1>2, <1>5, <1>6, <1>7, <1>8

\* Nobody is in a walk while anybody writes.
LEMMA NoWalk ==
    ASSUME IInv, NEW t \in Thread, HoldsWrite(t)
    PROVE  \A u \in Thread : Walk(u).pc # "walk" /\ (HoldsWrite(u) => u = t)
<1>1. t \in writers /\ readers = {}
  BY DEF IInv, LockInv
<1>2. \A u \in Thread : ~Walking(u) /\ (HoldsWrite(u) => u = t)
  BY <1>1 DEF IInv, LockInv
<1>3. \A u \in Thread : frame[u].pc \in {"defer", "append"} => frame[u].back = Idle
  BY <1>2 DEF Walking, IInv, LockInv
<1> QED
  BY <1>2, <1>3 DEF Walk, Walking, Idle

\* ToggleChange, Compute and Processed
LEMMA WriterInv ==
    ASSUME IInv, NEW t \in Thread, HoldsWrite(t), NEW x \in {"compute", "unlock"},
           Goto(t, [pc |-> x]), phase = "running", UNCHANGED <<phase, bypass, activations_deferred, lock>>,
           \/ /\ x = "compute" /\ active' \in [FilterSet -> BOOLEAN]
              /\ hooked' \in [FilterSet -> BOOLEAN] /\ UNCHANGED active_callbacks
           \/ /\ x = "unlock" /\ active_callbacks' = ActiveCallbacks(active)
              /\ UNCHANGED <<active, hooked>>
    PROVE  IInv'
<1>1. [pc |-> x] \in Frame
  BY DEF Frame
<1>2. frame'[t] = [pc |-> x] /\ frame' \in [Thread -> Frame]
  BY <1>1, FrameMove
<1>3. HoldsWrite(t)' /\ ~Walking(t)' /\ Walk(t)'.pc # "walk"
  BY <1>2 DEF HoldsWrite, Walking, Walk
<1>4. ~Walking(t)
  BY DEF Walking, HoldsWrite
<1>5. LockInv'
  BY <1>1, <1>3, <1>4, LockMove
<1>6. \A u \in Thread : u # t => frame[u].pc # "compute" /\ frame'[u] = frame[u]
  BY <1>1, FrameMove, NoWalk DEF HoldsWrite
<1>7. TypeOK'
  BY <1>2, ActiveType DEF IInv, TypeOK, lock
<1>8. StartupInv'
  BY DEF StartupInv
<1>9. ListsInv'
  <2>1. CASE x = "compute"
    BY <1>2, <2>1 DEF ListsInv
  <2>2. CASE x = "unlock"
    BY <2>2 DEF ListsInv
  <2> QED
    BY <2>1, <2>2
<1>10. WalkInv'
  BY <1>1, <1>3, FrameMove, NoWalk DEF WalkInv
<1>11. CatchInv'
  BY ActiveType DEF IInv, CatchInv
<1>12. BypassInv'
  BY DEF IInv, BypassInv, Bypass
<1> QED
  BY <1>5, <1>7, <1>8, <1>9, <1>10, <1>11, <1>12 DEF IInv

(* The writer's steps keep the invariant: flags first, then the lists made from them. *)
LEMMA ChangeInv ==
    ASSUME IInv, NEW t \in Thread, ToggleChange(t) \/ Compute(t) \/ Processed(t)
    PROVE  IInv'
<1>1. HoldsWrite(t) /\ phase = "running" /\ UNCHANGED <<phase, bypass, activations_deferred, lock>>
  BY DEF HoldsWrite, ToggleChange, Compute, Processed, At, lists
<1>2. CASE ToggleChange(t)
  <2>1. frame[t].on \in BOOLEAN
    BY <1>2, FrameCases DEF ToggleChange, At, IInv, TypeOK
  <2>2. active' \in [FilterSet -> BOOLEAN] /\ hooked' \in [FilterSet -> BOOLEAN]
    BY <1>2, <2>1 DEF ToggleChange, Change, IInv, TypeOK
  <2> QED
    BY <1>1, <1>2, <2>2, WriterInv DEF ToggleChange, lists
<1>3. CASE Compute(t) \/ Processed(t)
  BY <1>1, <1>3, WriterInv DEF Compute, Processed
<1> QED
  BY <1>2, <1>3

\* Until the process dies of it, a deferred change leaves everything as it was.
LEMMA ProcessInv == ASSUME IInv, NEW t \in Thread, Process(t) PROVE IInv'
<1> USE DEF IInv
<1>1. /\ phase = "running" /\ phase' \in {"running", "dead"}
      /\ UNCHANGED <<active, hooked, active_callbacks, bypass, readers, writers, frame>>
      /\ activations_deferred # <<>> /\ activations_deferred' = Tail(activations_deferred)
  BY DEF Process, At, lists, lock
<1>2. TypeOK'
  BY <1>1 DEF TypeOK
<1>3. LockInv' /\ StartupInv' /\ ListsInv' /\ WalkInv'
  BY <1>1 DEF LockInv, Walking, HoldsWrite, StartupInv, ListsInv, Serving, WalkInv, Walk
<1>4. CatchInv' /\ BypassInv'
  BY <1>1 DEF CatchInv, BypassInv, Bypass
<1> QED
  BY <1>2, <1>3, <1>4

(* The exit of a thread keeps the invariant, when nobody else is in a call. *)
LEMMA ExitInv == ASSUME ExitBusy = FALSE, IInv, NEW t \in Thread, Exit(t) PROVE IInv'
<1> USE DEF IInv
<1>1. /\ phase' = "exited" /\ \A u \in Thread : frame[u] = Idle /\ frame[u].pc = "idle"
      /\ active_callbacks' = [f \in Function |-> <<>>]
      /\ UNCHANGED <<bypass, activations_deferred, readers, writers, frame>>
  BY DEF Exit, lock, Idle
<1>2. active' \in [FilterSet -> BOOLEAN] /\ hooked' \in [FilterSet -> BOOLEAN]
  BY DEF Exit, TypeOK
<1>3. TypeOK' /\ CatchInv'
  BY <1>1, <1>2 DEF TypeOK, CatchInv
<1>4. LockInv' /\ StartupInv' /\ ListsInv' /\ WalkInv' /\ BypassInv'
  BY <1>1 DEF LockInv, Walking, HoldsWrite, StartupInv, ListsInv, Serving, WalkInv, Walk, BypassInv
<1> QED
  BY <1>3, <1>4
-----------------------------------------------------------------------------
(* Every step keeps the inductive invariant. *)
LEMMA NextInv == ASSUME ExitBusy = FALSE, IInv, [Next]_vars PROVE IInv'
<1>1. CASE UNCHANGED vars
  <2> USE <1>1 DEF vars, IInv
  <2>1. TypeOK' /\ CatchInv'
    BY DEF TypeOK, CatchInv
  <2>2. LockInv' /\ StartupInv' /\ ListsInv' /\ WalkInv'
    BY DEF LockInv, Walking, HoldsWrite, StartupInv, ListsInv, Serving, WalkInv, Walk
  <2>3. BypassInv'
    BY DEF BypassInv, Bypass
  <2> QED
    BY <2>1, <2>2, <2>3
<1>2. CASE Next
  <2>1. ASSUME NEW t \in Thread, InCall(t) \/ Toggling(t) \/ Deferring(t) PROVE IInv'
    BY <2>1, CallbackInv, OtherInv, ProcessInv, ChangeInv, DeferLockInv, DeferAppendInv
    DEF InCall, Toggling, Deferring
  <2> QED
    BY <1>2, <2>1, FinaliseInv, RunInv, OtherInv, DeferInv, ExitInv DEF Next
<1> QED
  BY <1>1, <1>2

(* The inductive invariant, as long as no thread exits while others are in a call:
   who holds the lock is told by what each thread is doing, the lists are those of
   the flags except for a writer between a change and compute_active_callbacks, and
   a walk's list is the list. *)
THEOREM FiltersInvariant == ASSUME ExitBusy = FALSE PROVE Spec => []IInv
<1>1. Init => IInv
  BY InitInv
<1>2. IInv /\ [Next]_vars => IInv'
  BY NextInv
<1> QED
  BY <1>1, <1>2, PTL DEF Spec

(* "removes the need to recompute the active filters while processing them"
   (filters.c:94): a call walks one list, which is what the flags say all along. *)
THEOREM FiltersStableWalk == ASSUME ExitBusy = FALSE PROVE Spec => []StableWalk
<1>1. IInv => StableWalk
  <2> SUFFICES ASSUME IInv, NEW t \in Thread, Walk(t).pc = "walk"
               PROVE  /\ active_callbacks[Walk(t).fn] = Walk(t).list
                      /\ Walk(t).list = ActiveCallbacks(active)[Walk(t).fn]
    BY DEF StableWalk
  <2>1. \A u \in Thread : ~HoldsWrite(u)
    BY NoWalk
  <2> QED
    BY <2>1 DEF HoldsWrite, IInv, WalkInv, ListsInv
<1> QED
  BY <1>1, FiltersInvariant, PTL

(* set_bypass (filters.c:649) sends a function round the filters for good only if no
   list, whatever is switched on later, has anything for it but the real call. *)
THEOREM FiltersBypassSafe == ASSUME ExitBusy = FALSE PROVE Spec => []BypassSafe
<1>1. IInv => BypassSafe
  <2> SUFFICES ASSUME IInv, phase = "running", NEW f \in Function, bypass[f],
                      NEW e \in ToSet(active_callbacks[f])
               PROVE  e.filter = InvokeFilter
    BY DEF BypassSafe
  <2>1. e \in Catching(f)
    BY DEF IInv, CatchInv, ToSet
  <2>2. PICK i \in 1..Len(Loaded) : e \in ToSet(Catchers(Loaded[i]))
    BY <2>1 DEF Catching, Element
  <2>3. /\ e.filter = Loaded[i].name /\ e.callback \in ToSet(Loaded[i].callbacks)
        /\ e.callback.function = f
    <3> DEFINE callbacks == Loaded[i].callbacks
    <3>1. callbacks \in Seq(ToSet(callbacks))
      BY LoadedAssumption
    <3>2. PICK c \in 1..Len(callbacks) :
              e = [filter |-> Loaded[i].name, parent |-> Loaded[i].parent, callback |-> callbacks[c]]
      BY <2>2 DEF Catchers, ToSet
    <3>3. callbacks[c] \in ToSet(callbacks)
      BY <3>1
    <3> QED
      BY <2>1, <3>2, <3>3 DEF Catching
  <2>4. Bypass[f]
    BY DEF IInv, BypassInv
  <2> QED
    BY <2>3, <2>4 DEF Bypass
<1> QED
  BY <1>1, FiltersInvariant, PTL
-----------------------------------------------------------------------------
(* The filter-sets that override the state of OpenGL. *)
Names == {"BACK", "FRONT", "COLOR0", "NONE"}
Matrix == [view : Int, app : Int]
GlState == [polygon_mode : [front : O!Modes, back : O!Modes], fbo : 0 .. 1, draw_buffer : [0 .. 1 -> Names],
          matrix_mode : {"MODELVIEW", "PROJECTION"}, modelview : Seq(Matrix)]

(* What the application made of a context: drawing is to a buffer that is there, and there
   is a matrix; none of them has a view, or is zero. *)
AppState(a) ==
    /\ a \in GlState /\ a.draw_buffer[0] \in O!Buffers[0] /\ a.modelview # <<>>
    /\ \A i \in DOMAIN a.modelview : a.modelview[i].view = 0 /\ a.modelview[i].app \in Nat

\* Of an active filter-set: what it overrides, and what it knows of the application.
Known(g, a, x, r) ==
    CASE override_set = "wireframe" ->
           g = [a EXCEPT !.polygon_mode = O!Lines] /\ x.polygon_mode = a.polygon_mode
      [] override_set = "frontbuffer" ->
           g = [a EXCEPT !.draw_buffer[0] = "FRONT"] /\ x.draw_buffer = a.draw_buffer[0]
      [] override_set = "camera" ->
           /\ x.original = O!Top(a)
           /\ \E v \in Int : g = O!WithTop(a, [O!Top(a) EXCEPT !.view = v]) /\ (x.dirty \/ r \/ v = x.modifier)

\* Of any filter-set.
Kept(g, a, x, r) ==
    /\ AppState(a) /\ x \in O!Object
    /\ IF x.active THEN Known(g, a, x, r) ELSE g = a

IsReal(a) == override_set = "wireframe" => a.fbo = 0

\* A context that was never current, and one that was.
Untouched(c) ==
    /\ ctx[c] = NoContext /\ gl[c] = O!Fresh /\ app[c] = O!Fresh /\ seen[c] = FALSE
    /\ c \notin begin_end \cup reset /\ \A t \in Caller : current[t] # c
Touched(c) ==
    /\ Kept(gl[c], app[c], ctx[c], c \in reset)
    /\ ctx[c].real = IsReal(app[c])
    /\ ctx[c].active = (seen[c] /\ ctx[c].real)

OverrideTypeOK ==
    /\ override_set \in {"wireframe", "frontbuffer", "camera"} /\ override_active \in BOOLEAN
    /\ current \in [Caller -> Context \cup {NoContext}] /\ begin_end \subseteq Context
    /\ DOMAIN gl = Context /\ DOMAIN ctx = Context /\ DOMAIN app = Context
    /\ seen \in [Context -> BOOLEAN] /\ reset \subseteq Context /\ spoilt \subseteq Context
    /\ pointer \in [camera_intercept : BOOLEAN, grabbed : BOOLEAN]
    /\ pointer.grabbed => override_active /\ pointer.camera_intercept /\ override_set = "camera"

OverrideIInv == OverrideTypeOK /\ \A c \in Context \ spoilt : Untouched(c) \/ Touched(c)
-----------------------------------------------------------------------------
(* A stack of matrices. *)
LEMMA MatrixStackFacts ==
    ASSUME NEW s \in Seq(Matrix), s # <<>>, NEW m \in Matrix
    PROVE  /\ Len(s) \in Nat \ {0} /\ O!Last(s) = s[Len(s)] /\ O!Last(s) \in Matrix
           /\ O!Front(s) \in Seq(Matrix) /\ Len(O!Front(s)) = Len(s) - 1
           /\ \A i \in 1 .. Len(s) - 1 : O!Front(s)[i] = s[i]
           /\ Append(O!Front(s), m) \in Seq(Matrix) /\ Len(Append(O!Front(s), m)) = Len(s)
           /\ Append(O!Front(s), m)[Len(s)] = m
           /\ \A i \in 1 .. Len(s) - 1 : Append(O!Front(s), m)[i] = s[i]
           /\ Append(O!Front(s), m) # <<>> /\ O!Last(Append(O!Front(s), m)) = m
           /\ O!Front(Append(O!Front(s), m)) = O!Front(s)
           /\ Append(O!Front(s), O!Last(s)) = s
<1> DEFINE f == O!Front(s)
           p == Append(f, m)
<1>1. Len(s) \in Nat \ {0} /\ O!Last(s) = s[Len(s)] /\ O!Last(s) \in Matrix
  BY DEF O!Last
<1>2. /\ f \in Seq(Matrix) /\ Len(f) = Len(s) - 1
      /\ \A i \in 1 .. Len(s) - 1 : f[i] = s[i]
  <2>1. f = SubSeq(s, 1, Len(s) - 1)
    BY DEF O!Front
  <2> HIDE DEF f
  <2>2. Len(s) - 1 \in Nat
    BY <1>1
  <2>3. PICK n \in Nat : n = Len(s) - 1
    BY <2>2
  <2>4. n <= Len(s) /\ f = SubSeq(s, 1, n)
    BY <1>1, <2>1, <2>3
  <2>5. f \in Seq(Matrix) /\ Len(f) = n /\ \A i \in 1 .. n : f[i] = s[i]
    BY <2>4
  <2> QED
    BY <2>3, <2>5
<1> HIDE DEF f
<1>3. /\ p \in Seq(Matrix) /\ Len(p) = Len(s) /\ p[Len(s)] = m /\ p # <<>>
      /\ \A i \in 1 .. Len(s) - 1 : p[i] = s[i]
  BY <1>1, <1>2
<1>4. O!Last(p) = m
  BY <1>3 DEF O!Last
<1>5. O!Front(p) = f
  <2>1. O!Front(p) \in Seq(Matrix) /\ Len(O!Front(p)) = Len(s) - 1 /\ \A i \in 1 .. Len(s) - 1 : O!Front(p)[i] = p[i]
    <3> HIDE DEF p
    <3>1. PICK n \in Nat : n = Len(s) - 1
      BY <1>1
    <3>2. O!Front(p) = SubSeq(p, 1, n)
      BY <1>3, <3>1 DEF O!Front
    <3>3. SubSeq(p, 1, n) \in Seq(Matrix) /\ Len(SubSeq(p, 1, n)) = n /\ \A i \in 1 .. n : SubSeq(p, 1, n)[i] = p[i]
      BY <1>1, <1>3, <3>1
    <3> QED
      BY <3>1, <3>2, <3>3
  <2> QED
    BY <1>1, <1>2, <1>3, <2>1
<1>6. Append(f, O!Last(s)) = s
  BY <1>1, <1>2
<1> QED
  BY <1>1, <1>2, <1>3, <1>4, <1>5, <1>6 DEF f

\* The top of the stack of a context, and another in its place.
LEMMA TopFacts ==
    ASSUME NEW a, AppState(a)
    PROVE  /\ O!Top(a) \in Matrix /\ O!Top(a).view = 0 /\ O!Top(a).app \in Nat /\ O!Top(a) # O!Zero
           /\ \A m \in Matrix :
                 /\ O!WithTop(a, m) \in GlState /\ O!Top(O!WithTop(a, m)) = m
                 /\ O!WithTop(a, m).modelview = Append(O!Front(a.modelview), m)
                 /\ O!WithTop(a, m).matrix_mode = a.matrix_mode
                 /\ O!WithTop(O!WithTop(a, m), O!Top(a)) = a
                 /\ \A k \in Matrix : O!WithTop(O!WithTop(a, m), k) = O!WithTop(a, k)
                 /\ m.view = 0 /\ m.app \in Nat => AppState(O!WithTop(a, m))
<1> DEFINE s == a.modelview
<1>1. s \in Seq(Matrix) /\ s # <<>> /\ a \in GlState
  BY DEF AppState, GlState
<1>2. O!Top(a) = O!Last(s) /\ Len(s) \in Nat \ {0} /\ O!Last(s) = s[Len(s)] /\ O!Last(s) \in Matrix
  <2>1. O!Zero \in Matrix
    BY DEF O!Zero, Matrix
  <2> QED
    BY <1>1, <2>1, MatrixStackFacts DEF O!Top
<1>3. O!Top(a).view = 0 /\ O!Top(a).app \in Nat /\ O!Top(a) # O!Zero
  <2>1. O!Top(a).view = 0 /\ O!Top(a).app \in Nat
    BY <1>1, <1>2 DEF AppState
  <2>2. O!Zero.app = -1 /\ -1 \notin Nat
    BY DEF O!Zero
  <2> QED
    BY <2>1, <2>2
<1>4. ASSUME NEW m \in Matrix
      PROVE  /\ O!WithTop(a, m) \in GlState /\ O!Top(O!WithTop(a, m)) = m
             /\ O!WithTop(a, m).modelview = Append(O!Front(s), m)
             /\ O!WithTop(a, m).matrix_mode = a.matrix_mode
             /\ O!WithTop(O!WithTop(a, m), O!Top(a)) = a
             /\ \A k \in Matrix : O!WithTop(O!WithTop(a, m), k) = O!WithTop(a, k)
             /\ m.view = 0 /\ m.app \in Nat => AppState(O!WithTop(a, m))
  <2> DEFINE p == Append(O!Front(s), m)
             b == O!WithTop(a, m)
  <2>1. /\ p \in Seq(Matrix) /\ Len(p) = Len(s) /\ p # <<>> /\ O!Last(p) = m /\ O!Front(p) = O!Front(s)
        /\ p[Len(s)] = m /\ \A i \in 1 .. Len(s) - 1 : p[i] = s[i]
        /\ Append(O!Front(s), O!Last(s)) = s
    BY <1>1, MatrixStackFacts
  <2>2. b = [a EXCEPT !.modelview = p]
    BY DEF O!WithTop
  <2> HIDE DEF p, b
  <2>3. /\ b \in GlState /\ b.modelview = p /\ b.matrix_mode = a.matrix_mode /\ b.draw_buffer = a.draw_buffer
        /\ \A q : [b EXCEPT !.modelview = q] = [a EXCEPT !.modelview = q]
    BY <1>1, <2>1, <2>2 DEF GlState
  <2>4. O!Top(b) = m
    BY <2>1, <2>3 DEF O!Top
  <2>5. \A k : O!WithTop(b, k) = [a EXCEPT !.modelview = Append(O!Front(s), k)]
    BY <2>1, <2>3 DEF O!WithTop
  <2>6. O!WithTop(b, O!Top(a)) = a
    <3>1. [a EXCEPT !.modelview = s] = a
      BY <1>1 DEF GlState
    <3> QED
      BY <1>2, <2>1, <2>5, <3>1
  <2>7. \A k : O!WithTop(b, k) = O!WithTop(a, k)
    BY <2>5 DEF O!WithTop
  <2>8. ASSUME m.view = 0, m.app \in Nat PROVE AppState(b)
    <3>1. \A i \in DOMAIN p : p[i].view = 0 /\ p[i].app \in Nat
      <4> SUFFICES ASSUME NEW i \in DOMAIN p PROVE p[i].view = 0 /\ p[i].app \in Nat
        OBVIOUS
      <4>1. i \in 1 .. Len(s) /\ DOMAIN s = 1 .. Len(s)
        BY <1>1, <2>1
      <4>2. i = Len(s) \/ i \in 1 .. Len(s) - 1
        BY <1>2, <4>1
      <4> QED
        BY <2>1, <2>8, <4>1, <4>2 DEF AppState
    <3> QED
      BY <2>1, <2>3, <3>1 DEF AppState
  <2> QED
    BY <2>3, <2>4, <2>6, <2>7, <2>8 DEF b, p
<1> QED
  BY <1>2, <1>3, <1>4

\* What the camera shows of a matrix of the application.
LEMMA ViewFacts ==
    ASSUME NEW x \in O!Object, x.original.view = 0, x.original # O!Zero
    PROVE  O!View(x) = [x.original EXCEPT !.view = x.modifier] /\ O!View(x) \in Matrix
<1>1. x.original \in Matrix /\ x.modifier \in Int
  BY DEF O!Object, Matrix
<1>2. O!View(x) = [x.original EXCEPT !.view = x.original.view + x.modifier]
  BY DEF O!View
<1>3. x.original.view + x.modifier = x.modifier
  BY <1>1
<1> QED
  BY <1>1, <1>2, <1>3 DEF Matrix

(* The change of the flag is handled: nothing is lost, and the filter-set is active in the
   context if it is to be. *)
LEMMA HandledKept ==
    ASSUME override_set \in {"wireframe", "frontbuffer", "camera"},
           NEW g, NEW a, NEW x, NEW r \in BOOLEAN, NEW on \in BOOLEAN, Kept(g, a, x, r),
           override_set = "frontbuffer" => x.real /\ (a.fbo = 0 \/ on = x.active)
    PROVE  LET h == O!Handled(on, g, x) IN
           Kept(h.gl, a, h.ctx, r) /\ h.ctx.real = x.real /\ h.ctx.active = (on /\ x.real)
<1> DEFINE h == O!Handled(on, g, x)
           wanted == on /\ x.real
<1>1. x \in O!Object /\ x.active \in BOOLEAN /\ x.real \in BOOLEAN /\ wanted \in BOOLEAN /\ AppState(a) /\ a \in GlState
  BY DEF Kept, O!Object, AppState
<1> SUFFICES Kept(h.gl, a, h.ctx, r) /\ h.ctx.real = x.real /\ h.ctx.active = wanted
  OBVIOUS
<1>2. CASE wanted = x.active
  <2>1. h.gl = g /\ h.ctx = x
    BY <1>2 DEF O!Handled
  <2> QED
    BY <1>2, <2>1
<1>3. CASE wanted /\ ~x.active
  <2> DEFINE y == [O!Saved(g, x) EXCEPT !.active = TRUE, !.dirty = (override_set = "camera")]
  <2>1. h.gl = O!Overridden(g) /\ h.ctx = y /\ g = a
    BY <1>1, <1>3 DEF O!Handled, Kept
  <2> HIDE DEF h, wanted
  <2>2. CASE override_set = "wireframe"
    <3>1. O!Overridden(g) = [a EXCEPT !.polygon_mode = O!Lines]
      BY <2>1, <2>2 DEF O!Overridden
    <3>2. O!Saved(g, x) = [x EXCEPT !.polygon_mode = a.polygon_mode]
      BY <2>1, <2>2 DEF O!Saved
    <3>3. y \in O!Object /\ y.polygon_mode = a.polygon_mode /\ y.active = TRUE /\ y.real = x.real
      BY <1>1, <2>2, <3>2 DEF O!Object, GlState, O!Modes
    <3> HIDE DEF y
    <3>4. Known(h.gl, a, y, r)
      BY <2>1, <2>2, <3>1, <3>3 DEF Known
    <3> QED
      BY <1>1, <1>3, <2>1, <3>3, <3>4 DEF Kept
  <2>3. CASE override_set = "frontbuffer"
    <3>1. a.fbo = 0
      BY <1>1, <1>3, <2>3 DEF wanted
    <3>2. O!Overridden(g) = [a EXCEPT !.draw_buffer[0] = "FRONT"]
      BY <2>1, <2>3, <3>1 DEF O!Overridden, O!DrawTo, O!Buffers
    <3>3. O!Saved(g, x) = [x EXCEPT !.draw_buffer = a.draw_buffer[0]]
      BY <2>1, <2>3, <3>1 DEF O!Saved
    <3>4. a.draw_buffer[0] \in UNION {O!Buffers[fb] : fb \in 0 .. 1}
      BY <1>1 DEF AppState, O!Buffers
    <3>5. y \in O!Object /\ y.draw_buffer = a.draw_buffer[0] /\ y.active = TRUE /\ y.real = x.real
      BY <1>1, <2>3, <3>3, <3>4 DEF O!Object
    <3> HIDE DEF y
    <3>6. Known(h.gl, a, y, r)
      BY <2>1, <2>3, <3>2, <3>5 DEF Known
    <3> QED
      BY <1>1, <1>3, <2>1, <3>5, <3>6 DEF Kept
  <2>4. CASE override_set = "camera"
    <3>1. O!Overridden(g) = a
      BY <2>1, <2>4 DEF O!Overridden
    <3>2. O!Saved(g, x) = [x EXCEPT !.original = O!Top(a)]
      BY <2>1, <2>4 DEF O!Saved
    <3>3. O!Top(a) \in Matrix /\ O!Top(a).view = 0 /\ O!WithTop(O!WithTop(a, O!Top(a)), O!Top(a)) = a
          /\ O!WithTop(O!WithTop(a, O!Top(a)), O!Top(a)) = O!WithTop(a, O!Top(a))
      BY <1>1, TopFacts
    <3>4. y \in O!Object /\ y.original = O!Top(a) /\ y.active = TRUE /\ y.real = x.real /\ y.dirty = TRUE
      BY <1>1, <2>4, <3>2, <3>3 DEF O!Object, Matrix
    <3>5. O!Top(a) = [O!Top(a) EXCEPT !.view = 0]
      BY <3>3 DEF Matrix
    <3> HIDE DEF y
    <3>6. a = O!WithTop(a, [O!Top(a) EXCEPT !.view = 0])
      BY <3>3, <3>5
    <3>7. \E v \in Int : a = O!WithTop(a, [O!Top(a) EXCEPT !.view = v]) /\ (y.dirty \/ r \/ v = y.modifier)
      BY <3>4, <3>6
    <3>8. Known(a, a, y, r)
      BY <2>4, <3>4, <3>7 DEF Known
    <3> QED
      BY <1>1, <1>3, <2>1, <3>1, <3>4, <3>8 DEF Kept
  <2> QED
    BY <2>2, <2>3, <2>4
<1>4. CASE ~wanted /\ x.active
  <2> DEFINE y == [x EXCEPT !.active = FALSE]
  <2>1. h.gl = O!PutBack(g, x) /\ h.ctx = y /\ Known(g, a, x, r)
    BY <1>1, <1>4 DEF O!Handled, Kept
  <2> HIDE DEF h, wanted
  <2>2. y \in O!Object /\ y.active = FALSE /\ y.real = x.real
    BY <1>1 DEF O!Object
  <2>3. O!PutBack(g, x) = a
    <3>1. CASE override_set = "wireframe"
      <4>1. g = [a EXCEPT !.polygon_mode = O!Lines] /\ x.polygon_mode = a.polygon_mode
        BY <2>1, <3>1 DEF Known
      <4>2. O!PutBack(g, x) = [g EXCEPT !.polygon_mode = x.polygon_mode]
        BY <3>1 DEF O!PutBack
      <4> QED
        BY <1>1, <4>1, <4>2 DEF GlState
    <3>2. CASE override_set = "frontbuffer"
      <4>1. g = [a EXCEPT !.draw_buffer[0] = "FRONT"] /\ x.draw_buffer = a.draw_buffer[0] /\ a.fbo = 0
        BY <1>1, <1>4, <2>1, <3>2 DEF Known, wanted
      <4>2. O!PutBack(g, x) = [g EXCEPT !.draw_buffer[0] = x.draw_buffer]
        BY <1>1, <3>2, <4>1 DEF O!PutBack, O!DrawTo, AppState, GlState
      <4>3. a.draw_buffer \in [0 .. 1 -> Names] /\ 0 \in 0 .. 1
        BY <1>1 DEF GlState
      <4>4. [[a.draw_buffer EXCEPT ![0] = "FRONT"] EXCEPT ![0] = a.draw_buffer[0]] = a.draw_buffer
        BY <4>3
      <4>5. g = [a EXCEPT !.draw_buffer = [a.draw_buffer EXCEPT ![0] = "FRONT"]]
        BY <4>1
      <4>6. g.draw_buffer = [a.draw_buffer EXCEPT ![0] = "FRONT"]
        BY <1>1, <4>5 DEF GlState
      <4>7. O!PutBack(g, x) = [g EXCEPT !.draw_buffer = [g.draw_buffer EXCEPT ![0] = x.draw_buffer]]
        BY <4>2
      <4>8. O!PutBack(g, x) = [g EXCEPT !.draw_buffer = a.draw_buffer]
        BY <4>1, <4>4, <4>6, <4>7
      <4>9. O!PutBack(g, x) = [a EXCEPT !.draw_buffer = a.draw_buffer]
        BY <1>1, <4>5, <4>8 DEF GlState
      <4> QED
        BY <1>1, <4>9 DEF GlState
    <3>3. CASE override_set = "camera"
      <4>1. x.original = O!Top(a) /\ \E v \in Int : g = O!WithTop(a, [O!Top(a) EXCEPT !.view = v])
        BY <2>1, <3>3 DEF Known
      <4>2. PICK v \in Int : g = O!WithTop(a, [O!Top(a) EXCEPT !.view = v])
        BY <4>1
      <4>3. [O!Top(a) EXCEPT !.view = v] \in Matrix
        BY <1>1, TopFacts DEF Matrix
      <4> QED
        BY <1>1, <3>3, <4>1, <4>2, <4>3, TopFacts DEF O!PutBack
    <3> QED
      BY <3>1, <3>2, <3>3
  <2> HIDE DEF y
  <2> QED
    BY <1>1, <1>4, <2>1, <2>2, <2>3 DEF Kept
<1> QED
  BY <1>1, <1>2, <1>3, <1>4
-----------------------------------------------------------------------------
(* What the application does. *)
Operations == {"glLoadIdentity", "glTranslatef", "glPushMatrix", "glPopMatrix"}

\* Another stack.
LEMMA TransformedState ==
    ASSUME NEW a, AppState(a), NEW p \in Seq(Matrix), p # <<>>,
           \A i \in DOMAIN p : p[i].view = 0 /\ p[i].app \in Nat
    PROVE  LET b == [a EXCEPT !.modelview = p] IN AppState(b) /\ b.matrix_mode = a.matrix_mode
BY DEF AppState, GlState

\* A call leaves a stack of the application's, and the matrix mode.
LEMMA TransformedFacts ==
    ASSUME NEW a, AppState(a), NEW op \in Operations
    PROVE  AppState(O!Transformed(a, op)) /\ O!Transformed(a, op).matrix_mode = a.matrix_mode
<1> DEFINE s == a.modelview
           b == O!Transformed(a, op)
<1>1. /\ s \in Seq(Matrix) /\ s # <<>> /\ a \in GlState /\ Len(s) \in Nat \ {0}
      /\ O!Top(a) \in Matrix /\ O!Top(a).view = 0 /\ O!Top(a).app \in Nat /\ O!Top(a) # O!Zero
  BY TopFacts DEF AppState, GlState
<1>2. CASE b = a
  BY <1>2
<1>3. CASE a.matrix_mode = "MODELVIEW" /\ op = "glLoadIdentity"
  <2>1. b = O!WithTop(a, O!Identity)
    BY <1>3 DEF O!Transformed
  <2>2. O!Identity \in Matrix /\ O!Identity.view = 0 /\ O!Identity.app \in Nat
    BY DEF O!Identity, Matrix
  <2> QED
    BY <2>1, <2>2, TopFacts
<1>4. CASE a.matrix_mode = "MODELVIEW" /\ op = "glTranslatef"
  <2>1. b = O!WithTop(a, O!Moved(O!Top(a)))
    BY <1>4 DEF O!Transformed
  <2>2. O!Moved(O!Top(a)) = [O!Top(a) EXCEPT !.app = @ + 1] /\ O!Moved(O!Top(a)) \in Matrix
        /\ O!Moved(O!Top(a)).view = 0 /\ O!Moved(O!Top(a)).app \in Nat
    BY <1>1 DEF O!Moved, Matrix
  <2>3. PICK m \in Matrix : m = O!Moved(O!Top(a)) /\ m.view = 0 /\ m.app \in Nat
    BY <2>2
  <2>4. AppState(O!WithTop(a, m)) /\ O!WithTop(a, m).matrix_mode = a.matrix_mode
    BY <2>3, TopFacts
  <2> QED
    BY <2>1, <2>3, <2>4
<1>5. CASE a.matrix_mode = "MODELVIEW" /\ op = "glPushMatrix" /\ Len(s) < 2
  <2> DEFINE p == Append(s, O!Top(a))
  <2>1. b = [a EXCEPT !.modelview = p]
    BY <1>5 DEF O!Transformed
  <2>2. p \in Seq(Matrix) /\ Len(p) = Len(s) + 1 /\ p[Len(p)] = O!Top(a) /\ \A i \in 1 .. Len(s) : p[i] = s[i]
    BY <1>1
  <2> HIDE DEF p
  <2>3. \A i \in DOMAIN p : i = Len(p) \/ i \in 1 .. Len(s)
    BY <1>1, <2>2
  <2>4. \A i \in DOMAIN p : p[i].view = 0 /\ p[i].app \in Nat
    BY <1>1, <2>2, <2>3 DEF AppState
  <2> QED
    BY <1>1, <2>1, <2>2, <2>4, TransformedState
<1>6. CASE a.matrix_mode = "MODELVIEW" /\ op = "glPopMatrix" /\ Len(s) > 1
  <2>1. b = [a EXCEPT !.modelview = O!Front(s)]
    BY <1>6 DEF O!Transformed
  <2>2. O!Front(s) \in Seq(Matrix) /\ Len(O!Front(s)) = Len(s) - 1 /\ \A i \in 1 .. Len(s) - 1 : O!Front(s)[i] = s[i]
    BY <1>1, MatrixStackFacts
  <2>3. O!Front(s) # <<>> /\ \A i \in DOMAIN O!Front(s) : i \in 1 .. Len(s) - 1 /\ i \in DOMAIN s
    BY <1>1, <1>6, <2>2
  <2>4. \A i \in DOMAIN O!Front(s) : O!Front(s)[i].view = 0 /\ O!Front(s)[i].app \in Nat
    BY <2>2, <2>3 DEF AppState
  <2> QED
    BY <1>1, <2>1, <2>2, <2>3, <2>4, TransformedState
<1> QED
  BY <1>2, <1>3, <1>4, <1>5, <1>6 DEF O!Transformed

\* What the camera knows of a context that it is active in.
LEMMA CameraFacts ==
    ASSUME override_set = "camera", NEW g, NEW a, NEW x, NEW r, Kept(g, a, x, r), x.active
    PROVE  /\ x.original = O!Top(a) /\ g.matrix_mode = a.matrix_mode
           /\ \A k \in Matrix : O!WithTop(g, k) = O!WithTop(a, k)
           /\ O!WithTop(g, x.original) = a
<1>1. AppState(a) /\ x.original = O!Top(a) /\ \E v \in Int : g = O!WithTop(a, [O!Top(a) EXCEPT !.view = v])
  BY DEF Kept, Known
<1>2. PICK v \in Int : g = O!WithTop(a, [O!Top(a) EXCEPT !.view = v])
  BY <1>1
<1>3. PICK m \in Matrix : g = O!WithTop(a, m)
  <2>1. [O!Top(a) EXCEPT !.view = v] \in Matrix
    BY <1>1, TopFacts DEF Matrix
  <2> QED
    BY <1>2, <2>1
<1>4. /\ O!WithTop(a, m).matrix_mode = a.matrix_mode
      /\ O!WithTop(O!WithTop(a, m), O!Top(a)) = a
      /\ \A k \in Matrix : O!WithTop(O!WithTop(a, m), k) = O!WithTop(a, k)
  BY <1>1, <1>3, TopFacts
<1> QED
  BY <1>1, <1>3, <1>4

\* The view of the camera over what the application has now: nothing is lost.
LEMMA CameraViews ==
    ASSUME override_set = "camera", NEW a, AppState(a), NEW x \in O!Object, x.active, x.original = O!Top(a), NEW r
    PROVE  Kept(O!WithTop(a, O!View(x)), a, x, r)
<1>1. O!Top(a) \in Matrix /\ O!Top(a).view = 0 /\ O!Top(a) # O!Zero
  BY TopFacts
<1>2. O!View(x) = [O!Top(a) EXCEPT !.view = x.modifier] /\ x.modifier \in Int
  BY <1>1, ViewFacts DEF O!Object
<1>3. Known(O!WithTop(a, O!View(x)), a, x, r)
  BY <1>2 DEF Known
<1> QED
  BY <1>3 DEF Kept

(* A call on the matrices: what the camera did is taken back, the call made, and the view
   put over the new matrix. *)
LEMMA MatrixKept ==
    ASSUME override_set = "camera", NEW c, NEW r \in BOOLEAN, NEW q \in BOOLEAN, Kept(gl[c], app[c], ctx[c], r),
           NEW op \in Operations, ctx[c].active, gl[c].matrix_mode # "MODELVIEW" => (q <=> r)
    PROVE  LET s == O!Override(O!Transformed(IF op # "glLoadIdentity" THEN O!Restore(gl[c], ctx[c]) ELSE gl[c], op), ctx[c])
           IN  /\ Kept(s.gl, O!Transformed(app[c], op), s.ctx, q)
               /\ s.ctx.active = ctx[c].active /\ s.ctx.real = ctx[c].real
<1> DEFINE g == gl[c]
           a == app[c]
           x == ctx[c]
           f == IF op # "glLoadIdentity" THEN O!Restore(g, x) ELSE g
           b == O!Transformed(a, op)
           h == O!Transformed(f, op)
           s == O!Override(h, x)
<1> SUFFICES Kept(s.gl, b, s.ctx, q) /\ s.ctx.active = x.active /\ s.ctx.real = x.real
  OBVIOUS
<1>1. Kept(g, a, x, r) /\ x.active /\ (g.matrix_mode # "MODELVIEW" => (q <=> r))
  OBVIOUS
<1>2. /\ f = (IF op # "glLoadIdentity" THEN O!Restore(g, x) ELSE g)
      /\ b = O!Transformed(a, op) /\ h = O!Transformed(f, op) /\ s = O!Override(h, x)
  OBVIOUS
<1> HIDE DEF g, a, x, f, b, h, s
<1>3. /\ AppState(a) /\ x \in O!Object /\ g.matrix_mode = a.matrix_mode
      /\ O!WithTop(g, x.original) = a /\ \A k \in Matrix : O!WithTop(g, k) = O!WithTop(a, k)
  BY <1>1, CameraFacts DEF Kept
<1>4. CASE a.matrix_mode # "MODELVIEW"
  <2>1. f = g /\ h = g /\ b = a
    BY <1>2, <1>3, <1>4 DEF O!Restore, O!Transformed
  <2>2. s.gl = g /\ s.ctx = x
    BY <1>2, <1>3, <1>4, <2>1 DEF O!Override
  <2>3. q = r
    BY <1>1, <1>3, <1>4
  <2> QED
    BY <1>1, <2>1, <2>2, <2>3
<1>5. CASE a.matrix_mode = "MODELVIEW"
  <2>1. AppState(b) /\ b.matrix_mode = "MODELVIEW"
    BY <1>2, <1>3, <1>5, TransformedFacts
  <2>2. h = b
    <3>1. CASE op = "glLoadIdentity"
      <4>1. h = O!WithTop(g, O!Identity) /\ b = O!WithTop(a, O!Identity) /\ O!Identity \in Matrix
        BY <1>2, <1>3, <1>5, <3>1 DEF O!Transformed, O!Identity, Matrix
      <4> QED
        BY <1>3, <4>1
    <3>2. CASE op # "glLoadIdentity"
      <4>1. f = a
        BY <1>2, <1>3, <1>5, <3>2 DEF O!Restore
      <4> QED
        BY <1>2, <4>1
    <3> QED
      BY <3>1, <3>2
  <2> DEFINE y == [x EXCEPT !.original = O!Top(b)]
  <2>3. O!Saved(b, x) = y
    BY DEF O!Saved
  <2>4. s.gl = O!WithTop(b, O!View(y)) /\ s.ctx = y
    BY <1>2, <2>1, <2>2, <2>3 DEF O!Override
  <2>5. y \in O!Object /\ y.active = x.active /\ y.real = x.real /\ y.original = O!Top(b)
    BY <1>3, <2>1, TopFacts DEF O!Object, Matrix
  <2> HIDE DEF y
  <2>6. Kept(O!WithTop(b, O!View(y)), b, y, q)
    BY <1>1, <2>1, <2>5, CameraViews
  <2> QED
    BY <2>4, <2>5, <2>6
<1> QED
  BY <1>4, <1>5

\* A context is new, and the flag was set before.
LEMMA NewKept ==
    ASSUME override_set \in {"wireframe", "frontbuffer", "camera"}, override_active \in BOOLEAN, NEW r \in BOOLEAN
    PROVE  LET s == O!NewContext(O!Fresh) IN
           /\ ~(override_set = "wireframe" /\ override_active) => Kept(s.gl, O!Fresh, s.ctx, r)
           /\ s.ctx \in O!Object /\ s.ctx.real = TRUE
           /\ override_set = "frontbuffer" => s.ctx.active = override_active
<1> DEFINE s == O!NewContext(O!Fresh)
           x == [active |-> FALSE, real |-> TRUE, polygon_mode |-> O!Fill, draw_buffer |-> "NONE",
                 original |-> O!Zero, modifier |-> 0, dirty |-> FALSE, pressed |-> FALSE]
           y == [O!Saved(O!Fresh, x) EXCEPT !.active = TRUE]
<1> SUFFICES /\ ~(override_set = "wireframe" /\ override_active) => Kept(s.gl, O!Fresh, s.ctx, r)
             /\ s.ctx \in O!Object /\ s.ctx.real = TRUE
             /\ override_set = "frontbuffer" => s.ctx.active = override_active
  OBVIOUS
<1>1. x \in O!Object /\ x.active = FALSE /\ x.real = TRUE /\ x.modifier = 0
  <2>1. "NONE" \in UNION {O!Buffers[fb] : fb \in 0 .. 1}
    BY DEF O!Buffers
  <2> QED
    BY <2>1 DEF O!Object, O!Fill, O!Zero, O!Modes
<1>2. /\ AppState(O!Fresh) /\ O!Fresh.fbo = 0 /\ O!Fresh.draw_buffer[0] = "BACK" /\ O!Top(O!Fresh) = O!Identity
      /\ O!WithTop(O!Fresh, O!Identity) = O!Fresh
  <2>1. <<O!Identity>> \in Seq(Matrix) /\ O!Identity \in Matrix /\ Len(<<O!Identity>>) = 1 /\ <<O!Identity>>[1] = O!Identity
    BY DEF O!Identity, Matrix
  <2>2. O!Fresh \in GlState /\ O!Fresh.modelview = <<O!Identity>>
    BY <2>1 DEF O!Fresh, GlState, O!Fill, O!Modes, Names
  <2>3. O!Fresh.draw_buffer[0] \in O!Buffers[0] /\ O!Fresh.draw_buffer[0] = "BACK" /\ O!Fresh.fbo = 0
    BY DEF O!Fresh, O!Buffers
  <2>4. AppState(O!Fresh)
    BY <2>1, <2>2, <2>3 DEF AppState, O!Identity
  <2>5. O!Top(O!Fresh) = O!Identity
    BY <2>1, <2>2 DEF O!Top, O!Last
  <2>6. O!WithTop(O!WithTop(O!Fresh, O!Identity), O!Identity) = O!Fresh
        /\ O!WithTop(O!WithTop(O!Fresh, O!Identity), O!Identity) = O!WithTop(O!Fresh, O!Identity)
    BY <2>1, <2>4, <2>5, TopFacts
  <2> QED
    BY <2>3, <2>4, <2>5, <2>6
<1> HIDE DEF x
<1>3. CASE ~override_active
  <2>1. s.gl = O!Fresh /\ s.ctx = x
    BY <1>3 DEF O!NewContext, x
  <2> HIDE DEF s
  <2> QED
    BY <1>1, <1>2, <1>3, <2>1 DEF Kept
<1>4. CASE override_active /\ override_set = "wireframe"
  <2>1. s.ctx = x
    BY <1>4 DEF O!NewContext, x
  <2> HIDE DEF s
  <2> QED
    BY <1>1, <1>4, <2>1
<1>5. CASE override_active /\ override_set = "frontbuffer"
  <2>1. s.gl = [O!Fresh EXCEPT !.draw_buffer[0] = "FRONT"] /\ s.ctx = y
    BY <1>2, <1>5 DEF O!NewContext, x, O!Overridden, O!DrawTo, O!Buffers
  <2>2. y = [x EXCEPT !.draw_buffer = "BACK", !.active = TRUE]
    BY <1>2, <1>5 DEF O!Saved
  <2>3. "BACK" \in UNION {O!Buffers[fb] : fb \in 0 .. 1}
    BY DEF O!Buffers
  <2>4. y \in O!Object /\ y.draw_buffer = O!Fresh.draw_buffer[0] /\ y.active = TRUE /\ y.real = TRUE
    BY <1>1, <1>2, <2>2, <2>3 DEF O!Object
  <2> HIDE DEF s, y
  <2>5. Known(s.gl, O!Fresh, y, r)
    BY <1>5, <2>1, <2>4 DEF Known
  <2> QED
    BY <1>2, <1>5, <2>1, <2>4, <2>5 DEF Kept
<1>6. CASE override_active /\ override_set = "camera"
  <2>1. s.gl = O!Fresh /\ s.ctx = y
    BY <1>6 DEF O!NewContext, x, O!Overridden
  <2>2. y = [x EXCEPT !.original = O!Identity, !.active = TRUE]
    BY <1>2, <1>6 DEF O!Saved
  <2>3. y \in O!Object /\ y.original = O!Identity /\ y.active = TRUE /\ y.real = TRUE /\ y.modifier = 0
    <3>1. O!Identity \in [view : Int, app : Int]
      BY DEF O!Identity
    <3> QED
      BY <1>1, <2>2, <3>1 DEF O!Object
  <2> HIDE DEF s, y
  <2>4. Kept(O!WithTop(O!Fresh, O!View(y)), O!Fresh, y, r)
    BY <1>2, <1>6, <2>3, CameraViews
  <2>5. O!View(y) = O!Identity
    BY <2>3, ViewFacts DEF O!Identity, O!Zero
  <2> QED
    BY <1>2, <1>6, <2>1, <2>3, <2>4, <2>5
<1> QED
  BY <1>3, <1>4, <1>5, <1>6
-----------------------------------------------------------------------------
(* The steps. *)
AllOverridden == \A c \in Context \ spoilt : Untouched(c) \/ Touched(c)

\* Nothing happens to the context.
Same(c) ==
    /\ gl'[c] = gl[c] /\ ctx'[c] = ctx[c] /\ app'[c] = app[c] /\ seen'[c] = seen[c]
    /\ (c \in begin_end' <=> c \in begin_end) /\ (c \in reset' <=> c \in reset)
    /\ \A t \in Caller : current'[t] = c => current[t] = c

\* A membership is TRUE or FALSE.
LEMMA Truth == ASSUME NEW S, NEW e PROVE \E r \in BOOLEAN : r = (e \in S)
<1>1. CASE e \in S
  <2>1. TRUE = (e \in S)
    BY <1>1
  <2> QED
    BY <2>1
<1>2. CASE e \notin S
  <2>1. FALSE = (e \in S)
    BY <1>2
  <2> QED
    BY <2>1
<1> QED
  BY <1>1, <1>2

\* What is to be shown of the contexts after a step, if one may have changed.
LEMMA OneChanges ==
    ASSUME OverrideTypeOK, AllOverridden, override_set' = override_set, spoilt \subseteq spoilt',
           NEW c, \A d \in Context \ {c} : Same(d), c \in Context \ spoilt' => Same(c) \/ Touched(c)'
    PROVE  AllOverridden'
<1> SUFFICES ASSUME NEW d \in Context \ spoilt' PROVE Untouched(d)' \/ Touched(d)'
  BY DEF AllOverridden
<1>1. CASE Same(d)
  <2>1. Untouched(d) \/ Touched(d)
    BY DEF AllOverridden
  <2>2. Untouched(d) => Untouched(d)'
    BY <1>1 DEF Untouched, Same
  <2>3. Touched(d) => Touched(d)'
    <3> SUFFICES ASSUME Touched(d) PROVE Touched(d)'
      OBVIOUS
    <3>1. PICK r \in BOOLEAN : r = (d \in reset)
      BY Truth
    <3> DEFINE g == gl[d]  a == app[d]  x == ctx[d]
    <3>2. /\ g = gl'[d] /\ a = app'[d] /\ x = ctx'[d] /\ r = (d \in reset')
          /\ Kept(g, a, x, r)
      <4>1. r = (d \in reset')
        BY <1>1, <3>1 DEF Same
      <4>2. Kept(g, a, x, d \in reset)
        BY DEF Touched
      <4>3. Kept(g, a, x, r)
        BY <3>1, <4>2, Zenon
      <4> QED
        BY <1>1, <4>1, <4>3 DEF Same
    <3> HIDE DEF g, a, x
    <3>3. Kept(gl'[d], app'[d], ctx'[d], d \in reset')
      BY <3>2, Zenon
    <3>4. Kept(gl[d], app[d], ctx[d], d \in reset)'
      BY <3>3 DEF Kept, Known
    <3> QED
      BY <1>1, <3>4 DEF Touched, Same, IsReal
  <2> QED
    BY <2>1, <2>2, <2>3
<1>2. CASE ~Same(d)
  BY <1>2
<1> QED
  BY <1>1, <1>2

\* The context of a thread is known.
LEMMA CurrentTouched ==
    ASSUME AllOverridden, NEW t \in Caller, NEW c \in Context \ spoilt, current[t] = c
    PROVE  Touched(c)
BY DEF AllOverridden, Untouched

\* One context and its object are changed.
LEMMA PutFacts ==
    ASSUME OverrideTypeOK, NEW c \in Context, NEW s, O!Put(c, s)
    PROVE  /\ gl'[c] = s.gl /\ ctx'[c] = s.ctx /\ DOMAIN gl' = Context /\ DOMAIN ctx' = Context
           /\ \A d \in Context \ {c} : gl'[d] = gl[d] /\ ctx'[d] = ctx[d]
BY DEF O!Put, OverrideTypeOK

\* The types, and when the pointer is grabbed.
LEMMA TypeStep == OverrideTypeOK /\ [O!Next]_(O!vars) => OverrideTypeOK'
<1> SUFFICES ASSUME OverrideTypeOK, [O!Next]_(O!vars) PROVE OverrideTypeOK'
  OBVIOUS
<1> USE DEF OverrideTypeOK
<1>1. CASE UNCHANGED O!vars
  BY <1>1 DEF O!vars
<1>2. ASSUME NEW t \in Caller, O!Release(t) PROVE OverrideTypeOK'
  BY <1>2 DEF O!Release
<1>3. ASSUME NEW t \in Caller, O!Toggle(t) PROVE OverrideTypeOK'
  <2>1. override_active' \in BOOLEAN /\ UNCHANGED <<override_set, current, begin_end, app, reset>>
    BY <1>3 DEF O!Toggle
  <2>2. /\ DOMAIN gl' = Context /\ DOMAIN ctx' = Context /\ seen' \in [Context -> BOOLEAN]
        /\ spoilt' \subseteq Context
    <3>1. CASE current[t] \in Context \ begin_end
      <4> DEFINE c == current[t]
      <4>1. /\ \E h : O!Put(c, h)
            /\ seen' = [seen EXCEPT ![c] = override_active']
            /\ \E b : O!Spoil(c, b)
        BY <1>3, <3>1 DEF O!Toggle
      <4>2. seen' \in [Context -> BOOLEAN]
        BY <2>1, <4>1
      <4>3. spoilt' \subseteq Context
        BY <3>1, <4>1 DEF O!Spoil
      <4> QED
        BY <4>1, <4>2, <4>3 DEF O!Put
    <3>2. CASE current[t] \notin Context \ begin_end
      BY <1>3, <3>2 DEF O!Toggle
    <3> QED
      BY <3>1, <3>2
  <2>3. /\ pointer' \in [camera_intercept : BOOLEAN, grabbed : BOOLEAN]
        /\ pointer'.grabbed => override_active' /\ pointer'.camera_intercept /\ override_set' = "camera"
    <3>1. CASE override_set = "camera" /\ pointer.camera_intercept
      <4>1. pointer' = [pointer EXCEPT !.grabbed = override_active']
        BY <1>3, <3>1 DEF O!Toggle
      <4> QED
        BY <2>1, <3>1, <4>1
    <3>2. CASE ~(override_set = "camera" /\ pointer.camera_intercept)
      BY <1>3, <2>1, <3>2 DEF O!Toggle
    <3> QED
      BY <3>1, <3>2
  <2> QED
    BY <2>1, <2>2, <2>3
<1>4. ASSUME NEW t \in Caller, O!KeyToggle(t) PROVE OverrideTypeOK'
  BY <1>4 DEF O!KeyToggle
<1>5. ASSUME NEW t \in Caller, NEW c \in Context,
             \/ O!MakeCurrent(t, c) \/ O!Begin(t, c) \/ O!End(t, c)
             \/ \E face, m : O!PolygonMode(t, c, face, m)
             \/ \E fb : O!BindFramebuffer(t, c, fb)
             \/ \E b : O!DrawBuffer(t, c, b)
      PROVE  OverrideTypeOK'
  <2>1. CASE O!MakeCurrent(t, c)
    BY <2>1 DEF O!MakeCurrent, O!Put, O!Spoil
  <2>2. CASE O!Begin(t, c) \/ O!End(t, c)
    BY <2>2 DEF O!Begin, O!End
  <2>3. ASSUME NEW face, NEW m, O!PolygonMode(t, c, face, m) PROVE OverrideTypeOK'
    BY <2>3 DEF O!PolygonMode, O!Put, O!Spoil
  <2>4. ASSUME NEW fb, O!BindFramebuffer(t, c, fb) PROVE OverrideTypeOK'
    BY <2>4 DEF O!BindFramebuffer, O!Put
  <2>5. ASSUME NEW b, O!DrawBuffer(t, c, b) PROVE OverrideTypeOK'
    BY <2>5 DEF O!DrawBuffer, O!Put, O!Spoil
  <2> QED
    BY <1>5, <2>1, <2>2, <2>3, <2>4, <2>5
<1>6. ASSUME NEW t \in Caller, NEW c \in Context,
             \/ \E m : O!MatrixMode(t, c, m)
             \/ \E op : O!MatrixCall(t, c, op)
             \/ O!Swap(t, c) \/ O!Mouse(t, c) \/ O!KeyReset(t, c)
             \/ \E press : O!Key(t, c, press)
      PROVE  OverrideTypeOK'
  <2>1. ASSUME NEW m, O!MatrixMode(t, c, m) PROVE OverrideTypeOK'
    BY <2>1 DEF O!MatrixMode
  <2>2. ASSUME NEW op, O!MatrixCall(t, c, op) PROVE OverrideTypeOK'
    BY <2>2 DEF O!MatrixCall, O!Put, O!Spoil
  <2>3. CASE O!Swap(t, c)
    BY <2>3 DEF O!Swap, O!Put, O!Spoil
  <2>4. CASE O!Mouse(t, c) \/ O!KeyReset(t, c)
    BY <2>4 DEF O!Mouse, O!KeyReset
  <2>5. ASSUME NEW press, O!Key(t, c, press) PROVE OverrideTypeOK'
    BY <2>5 DEF O!Key
  <2> QED
    BY <1>6, <2>1, <2>2, <2>3, <2>4, <2>5
<1> HIDE DEF OverrideTypeOK
<1> QED
  BY <1>1, <1>2, <1>3, <1>4, <1>5, <1>6 DEF O!Next

\* What is known of a context, in terms of the lemmas above, and back.
LEMMA TouchedMeans ==
    ASSUME NEW c, Touched(c)
    PROVE  /\ \E r \in BOOLEAN : r = (c \in reset) /\ Kept(gl[c], app[c], ctx[c], r)
           /\ AppState(app[c]) /\ ctx[c] \in O!Object
           /\ ctx[c].real = IsReal(app[c]) /\ ctx[c].active = (seen[c] /\ ctx[c].real)
<1>1. PICK r \in BOOLEAN : r = (c \in reset)
  BY Truth
<1>2. Kept(gl[c], app[c], ctx[c], c \in reset)
  BY DEF Touched
<1>3. Kept(gl[c], app[c], ctx[c], r)
  BY <1>1, <1>2, Zenon
<1> QED
  BY <1>1, <1>3 DEF Touched, Kept

\* The same after a step, from what the step made of the context.
LEMMA TouchedNext ==
    ASSUME NEW c, NEW g, NEW a, NEW x, NEW r, Kept(g, a, x, r), override_set' = override_set,
           gl'[c] = g, app'[c] = a, ctx'[c] = x, r = (c \in reset'),
           x.real = IsReal(a), x.active = (seen'[c] /\ x.real)
    PROVE  Touched(c)'
<1>1. Kept(gl'[c], app'[c], ctx'[c], c \in reset')
  BY Zenon
<1>2. Kept(gl[c], app[c], ctx[c], c \in reset)'
  BY <1>1 DEF Kept, Known
<1> QED
  BY <1>2 DEF Touched, IsReal

\* The framebuffer is the one that the application bound.
LEMMA FboFacts ==
    ASSUME override_set \in {"wireframe", "frontbuffer", "camera"}, NEW g, NEW a, NEW x, NEW r, Kept(g, a, x, r)
    PROVE  g.fbo = a.fbo /\ a.fbo \in 0 .. 1
<1>1. a \in GlState
  BY DEF Kept, AppState
<1>2. CASE override_set = "camera" /\ x.active
  BY <1>1, <1>2 DEF Kept, Known, O!WithTop, GlState
<1>3. CASE override_set # "camera" \/ ~x.active
  BY <1>1, <1>3 DEF Kept, Known, GlState
<1> QED
  BY <1>2, <1>3

\* The change of the flag was handled in a context.
LEMMA HandledNext ==
    ASSUME OverrideTypeOK, override_set' = override_set, NEW c \in Context, NEW on \in BOOLEAN, NEW g, NEW a, NEW x, NEW r \in BOOLEAN,
           Kept(g, a, x, r), x.real = IsReal(a),
           override_set = "frontbuffer" => x.real /\ (a.fbo = 0 \/ on = x.active),
           O!Put(c, O!Handled(on, g, x)), app'[c] = a, seen'[c] = on, c \in reset' <=> r
    PROVE  Touched(c)'
<1> DEFINE h == O!Handled(on, g, x)
<1>1. Kept(h.gl, a, h.ctx, r) /\ h.ctx.real = x.real /\ h.ctx.active = (on /\ x.real)
  <2>1. override_set \in {"wireframe", "frontbuffer", "camera"}
    BY DEF OverrideTypeOK
  <2>2. override_set = "frontbuffer" => x.real /\ (a.fbo = 0 \/ on = x.active)
    OBVIOUS
  <2> QED
    BY <2>1, <2>2, HandledKept, SMT
<1> HIDE DEF h
<1>2. gl'[c] = h.gl /\ ctx'[c] = h.ctx
  BY PutFacts DEF h
<1>3. h.ctx.real = IsReal(a) /\ h.ctx.active = (seen'[c] /\ h.ctx.real)
  BY <1>1
<1>4. r = (c \in reset')
  OBVIOUS
<1> QED
  BY <1>1, <1>2, <1>3, <1>4, TouchedNext

(* A context is made current: a new one is initialised, and the flag handled. *)
LEMMA MakeStep ==
    ASSUME OverrideTypeOK, AllOverridden, NEW t \in Caller, NEW c \in Context, O!MakeCurrent(t, c)
    PROVE  AllOverridden'
<1> DEFINE s == IF ctx[c] = NoContext THEN O!NewContext(gl[c]) ELSE [gl |-> gl[c], ctx |-> ctx[c]]
           h == O!Handled(override_active, s.gl, s.ctx)
<1>1. /\ c \notin spoilt /\ current' = [current EXCEPT ![t] = c] /\ seen' = [seen EXCEPT ![c] = override_active]
      /\ UNCHANGED <<override_set, override_active, begin_end, pointer, app, reset>>
      /\ O!Put(c, h)
      /\ O!Spoil(c, \/ (override_set = "wireframe" /\ override_active /\ ctx[c] = NoContext)
                    \/ (override_set = "frontbuffer" /\ gl[c].fbo = 1 /\ override_active # s.ctx.active))
  BY DEF O!MakeCurrent
<1>2. spoilt \subseteq spoilt' /\ \A d \in Context \ {c} : Same(d)
  <2>1. spoilt \subseteq spoilt'
    BY <1>1 DEF O!Spoil
  <2>2. \A d \in Context \ {c} : gl'[d] = gl[d] /\ ctx'[d] = ctx[d]
    <3> HIDE DEF h
    <3> QED
      BY <1>1, PutFacts
  <2> QED
    BY <1>1, <2>1, <2>2 DEF Same, OverrideTypeOK
<1>3. ASSUME c \notin spoilt' PROVE Touched(c)'
  <2>1. ~(override_set = "wireframe" /\ override_active /\ ctx[c] = NoContext)
        /\ ~(override_set = "frontbuffer" /\ gl[c].fbo = 1 /\ override_active # s.ctx.active)
    BY <1>1, <1>3 DEF O!Spoil
  <2>2. \E r \in BOOLEAN : /\ r = (c \in reset) /\ Kept(s.gl, app[c], s.ctx, r) /\ s.ctx.real = IsReal(app[c])
                           /\ override_set = "frontbuffer" => s.ctx.real /\ (app[c].fbo = 0 \/ override_active = s.ctx.active)
    <3>1. CASE ctx[c] = NoContext
      <4>1. Untouched(c)
        BY <1>1, <3>1, NoContextAssumption DEF AllOverridden, Touched, Kept, O!NoneAssumption
      <4>2. PICK r \in BOOLEAN : r = (c \in reset)
        BY Truth
      <4>3. s = O!NewContext(O!Fresh) /\ app[c] = O!Fresh /\ O!Fresh.fbo = 0
        BY <3>1, <4>1 DEF Untouched, O!Fresh
      <4> HIDE DEF s
      <4>4. Kept(s.gl, O!Fresh, s.ctx, r) /\ s.ctx.real = TRUE
        BY <2>1, <3>1, <4>3, NewKept DEF OverrideTypeOK
      <4>5. IsReal(O!Fresh) = TRUE
        BY <4>3 DEF IsReal
      <4> QED
        BY <4>2, <4>3, <4>4, <4>5
    <3>2. CASE ctx[c] # NoContext
      <4>1. Touched(c)
        BY <1>1, <3>2 DEF AllOverridden, Untouched
      <4>2. s.gl = gl[c] /\ s.ctx = ctx[c]
        BY <3>2
      <4>3. PICK r \in BOOLEAN : r = (c \in reset) /\ Kept(gl[c], app[c], ctx[c], r)
        BY <4>1, TouchedMeans
      <4>4. gl[c].fbo = app[c].fbo /\ app[c].fbo \in 0 .. 1
        BY <4>3, FboFacts DEF OverrideTypeOK
      <4>5. ctx[c].real = IsReal(app[c]) /\ (override_set = "frontbuffer" => ctx[c].real)
        BY <4>1, TouchedMeans DEF IsReal
      <4>6. override_set = "frontbuffer" => app[c].fbo = 0 \/ override_active = s.ctx.active
        BY <2>1, <4>4
      <4> HIDE DEF s
      <4> QED
        BY <4>2, <4>3, <4>5, <4>6
    <3> QED
      BY <3>1, <3>2
  <2> HIDE DEF s
  <2>3. PICK r \in BOOLEAN : /\ r = (c \in reset) /\ Kept(s.gl, app[c], s.ctx, r) /\ s.ctx.real = IsReal(app[c])
                             /\ override_set = "frontbuffer" => s.ctx.real /\ (app[c].fbo = 0 \/ override_active = s.ctx.active)
    BY <2>2
  <2>4. O!Put(c, O!Handled(override_active, s.gl, s.ctx)) /\ app'[c] = app[c] /\ seen'[c] = override_active
        /\ override_active \in BOOLEAN
    BY <1>1 DEF OverrideTypeOK
  <2>5. r = (c \in reset')
    BY <1>1, <2>3
  <2> QED
    BY <1>1, <2>3, <2>4, <2>5, HandledNext
<1> QED
  BY <1>1, <1>2, <1>3, OneChanges

\* The flag changes, and the context of the thread takes notice.
LEMMA ToggleStep ==
    ASSUME OverrideTypeOK, AllOverridden, NEW t \in Caller, O!Toggle(t)
    PROVE  AllOverridden'
<1>1. PICK c : c = current[t]
  OBVIOUS
<1>2. UNCHANGED <<override_set, current, begin_end, app, reset>> /\ override_active' \in BOOLEAN
  BY DEF O!Toggle, OverrideTypeOK
<1>3. CASE c \in Context \ begin_end
  <2>1. /\ O!Put(c, O!Handled(override_active', gl[c], ctx[c])) /\ seen' = [seen EXCEPT ![c] = override_active']
        /\ O!Spoil(c, override_set = "frontbuffer" /\ gl[c].fbo = 1 /\ override_active' # ctx[c].active)
    BY <1>1, <1>3 DEF O!Toggle
  <2>2. spoilt \subseteq spoilt' /\ \A d \in Context \ {c} : Same(d)
    <3>1. spoilt \subseteq spoilt'
      BY <2>1 DEF O!Spoil
    <3>2. \A d \in Context \ {c} : gl'[d] = gl[d] /\ ctx'[d] = ctx[d]
      BY <1>3, <2>1, PutFacts
    <3> QED
      BY <1>2, <2>1, <3>1, <3>2 DEF Same, OverrideTypeOK
  <2>3. ASSUME c \notin spoilt' PROVE Touched(c)'
    <3>1. ~(override_set = "frontbuffer" /\ gl[c].fbo = 1 /\ override_active' # ctx[c].active) /\ Touched(c)
      BY <1>3, <2>1, <2>2, <2>3, <1>1, CurrentTouched DEF O!Spoil
    <3>2. PICK r \in BOOLEAN : r = (c \in reset) /\ Kept(gl[c], app[c], ctx[c], r)
      BY <3>1, TouchedMeans
    <3>3. gl[c].fbo = app[c].fbo /\ app[c].fbo \in 0 .. 1 /\ ctx[c].real = IsReal(app[c])
      BY <3>1, <3>2, FboFacts, TouchedMeans DEF OverrideTypeOK
    <3>4. override_set = "frontbuffer" => ctx[c].real /\ (app[c].fbo = 0 \/ override_active' = ctx[c].active)
      <4>1. override_set = "frontbuffer" => IsReal(app[c])
        BY DEF IsReal
      <4>2. override_set = "frontbuffer" => (gl[c].fbo = 1 => override_active' = ctx[c].active)
        BY <3>1
      <4>3. app[c].fbo = 0 \/ gl[c].fbo = 1
        BY <3>3
      <4> QED
        BY <3>3, <4>1, <4>2, <4>3
    <3>5. app'[c] = app[c] /\ seen'[c] = override_active'
      BY <1>2, <1>3, <2>1 DEF OverrideTypeOK
    <3>6. r = (c \in reset')
      BY <1>2, <3>2
    <3> QED
      BY <1>2, <1>3, <2>1, <3>2, <3>3, <3>4, <3>5, <3>6, HandledNext
  <2> QED
    BY <1>2, <2>2, <2>3, OneChanges
<1>4. CASE c \notin Context \ begin_end
  <2>1. UNCHANGED <<gl, ctx, seen, spoilt>>
    BY <1>1, <1>4 DEF O!Toggle
  <2>2. \A d \in Context : Same(d)
    BY <1>2, <2>1 DEF Same
  <2> QED
    BY <1>2, <2>1, <2>2, OneChanges
<1> QED
  BY <1>3, <1>4

\* wireframe_glPolygonMode.
LEMMA PolygonStep ==
    ASSUME OverrideTypeOK, AllOverridden, NEW t \in Caller, NEW c \in Context, NEW face \in {"FRONT", "FRONT_AND_BACK"},
           NEW m \in {"FILL", "POINT"}, O!PolygonMode(t, c, face, m)
    PROVE  AllOverridden'
<1> DEFINE g == O!WithMode(gl[c], face, m)
           a == O!WithMode(app[c], face, m)
           x == ctx[c]
           h == IF override_active /\ x.real THEN [gl |-> O!Overridden(g), ctx |-> O!Saved(g, x)] ELSE [gl |-> g, ctx |-> x]
<1>1. /\ override_set = "wireframe" /\ current[t] = c /\ c \notin spoilt
      /\ O!Put(c, h) /\ app' = [app EXCEPT ![c] = a]
      /\ O!Spoil(c, O!Unseen(c) \/ (face = "FRONT" /\ override_active /\ x.real))
      /\ UNCHANGED <<override_set, override_active, current, begin_end, pointer, seen, reset>>
  BY DEF O!PolygonMode, O!Calls
<1>2. spoilt \subseteq spoilt' /\ \A d \in Context \ {c} : Same(d)
  <2> HIDE DEF h, a
  <2>1. spoilt \subseteq spoilt' /\ \A d \in Context \ {c} : gl'[d] = gl[d] /\ ctx'[d] = ctx[d]
    BY <1>1, PutFacts DEF O!Spoil
  <2> QED
    BY <1>1, <2>1 DEF Same, OverrideTypeOK
<1>3. ASSUME c \notin spoilt' PROVE Touched(c)'
  <2>1. override_active = seen[c] /\ ~(face = "FRONT" /\ override_active /\ x.real) /\ Touched(c)
    BY <1>1, <1>3, CurrentTouched DEF O!Spoil, O!Unseen
  <2>2. PICK r \in BOOLEAN : r = (c \in reset) /\ Kept(gl[c], app[c], x, r)
    BY <2>1, TouchedMeans
  <2>3. AppState(app[c]) /\ x \in O!Object /\ x.real = IsReal(app[c]) /\ x.active = (override_active /\ x.real)
    BY <2>1, TouchedMeans
  <2>4. AppState(a) /\ IsReal(a) = IsReal(app[c])
    BY <2>3 DEF AppState, GlState, O!WithMode, IsReal, O!Modes
  <2>5. /\ Kept(h.gl, a, h.ctx, r) /\ h.ctx.real = x.real /\ h.ctx.active = x.active
    <3>1. CASE x.active
      <4>1. face = "FRONT_AND_BACK" /\ override_active /\ x.real
        BY <2>1, <2>3, <3>1
      <4>2. gl[c] = [app[c] EXCEPT !.polygon_mode = O!Lines]
        BY <1>1, <2>2, <3>1 DEF Kept, Known
      <4>3. g = a
        BY <2>3, <4>1, <4>2 DEF O!WithMode, AppState, GlState
      <4>4. h.gl = [a EXCEPT !.polygon_mode = O!Lines] /\ h.ctx = [x EXCEPT !.polygon_mode = a.polygon_mode]
        BY <1>1, <4>1, <4>3 DEF O!Overridden, O!Saved
      <4> HIDE DEF h, a, x, g
      <4>5. h.ctx \in O!Object /\ h.ctx.active = x.active /\ h.ctx.real = x.real /\ h.ctx.polygon_mode = a.polygon_mode
        BY <2>3, <2>4, <4>4 DEF O!Object, AppState, GlState
      <4>6. Known(h.gl, a, h.ctx, r)
        BY <1>1, <4>4, <4>5 DEF Known
      <4> QED
        BY <2>4, <3>1, <4>5, <4>6 DEF Kept
    <3>2. CASE ~x.active
      <4>1. gl[c] = app[c] /\ ~(override_active /\ x.real)
        BY <2>2, <2>3, <3>2 DEF Kept
      <4>2. h.gl = a /\ h.ctx = x
        BY <4>1
      <4> HIDE DEF h, a, x
      <4> QED
        BY <2>3, <2>4, <3>2, <4>2 DEF Kept
    <3> QED
      BY <2>3, <3>1, <3>2 DEF O!Object
  <2> HIDE DEF h, a
  <2>6. gl'[c] = h.gl /\ ctx'[c] = h.ctx /\ app'[c] = a /\ seen'[c] = seen[c]
    BY <1>1, PutFacts DEF OverrideTypeOK
  <2>7. r = (c \in reset')
    BY <1>1, <2>2
  <2>8. h.ctx.real = IsReal(a) /\ h.ctx.active = (seen'[c] /\ h.ctx.real)
    BY <2>1, <2>3, <2>4, <2>5, <2>6
  <2> QED
    BY <1>1, <2>5, <2>6, <2>7, <2>8, TouchedNext
<1> QED
  BY <1>1, <1>2, <1>3, OneChanges

\* A framebuffer was bound under wireframe.
LEMMA BindNext ==
    ASSUME OverrideTypeOK, override_set = "wireframe", override_set' = override_set, NEW c \in Context, NEW g, NEW a, NEW y, NEW r \in BOOLEAN,
           AppState(a), y \in O!Object, IF y.active THEN Known(g, a, y, r) ELSE g = a,
           y.real = IsReal(a), O!Put(c, O!Handled(override_active, g, y)), seen' = [seen EXCEPT ![c] = override_active],
           app'[c] = a, c \in reset' <=> r
    PROVE  Touched(c)'
<1>1. override_active \in BOOLEAN /\ seen'[c] = override_active
  BY DEF OverrideTypeOK
<1>2. Kept(g, a, y, r)
  BY DEF Kept
<1> QED
  BY <1>1, <1>2, HandledNext

\* classify_glBindFramebuffer, and wireframe_classify_callback.
LEMMA BindStep ==
    ASSUME OverrideTypeOK, AllOverridden, NEW t \in Caller, NEW c \in Context, NEW fb \in 0 .. 1, O!BindFramebuffer(t, c, fb)
    PROVE  AllOverridden'
<1> DEFINE g == [gl[c] EXCEPT !.fbo = fb]
           a == [app[c] EXCEPT !.fbo = fb]
           x == ctx[c]
           y == [x EXCEPT !.real = (fb = 0)]
<1>1. /\ override_set \in {"wireframe", "frontbuffer"} /\ current[t] = c /\ c \notin spoilt
      /\ IF override_set = "wireframe"
         THEN O!Put(c, O!Handled(override_active, g, y)) /\ seen' = [seen EXCEPT ![c] = override_active]
         ELSE gl' = [gl EXCEPT ![c] = g] /\ UNCHANGED <<ctx, seen>>
      /\ app' = [app EXCEPT ![c] = a]
      /\ UNCHANGED <<override_set, override_active, current, begin_end, pointer, reset, spoilt>>
  BY DEF O!BindFramebuffer, O!Calls
<1>2. \A d \in Context \ {c} : Same(d)
  <2> HIDE DEF g, a, y
  <2>1. \A d \in Context \ {c} : gl'[d] = gl[d] /\ ctx'[d] = ctx[d]
    BY <1>1, PutFacts DEF OverrideTypeOK
  <2> QED
    BY <1>1, <2>1 DEF Same, OverrideTypeOK
<1>3. Touched(c)'
  <2>1. Touched(c)
    BY <1>1, CurrentTouched
  <2>2. PICK r \in BOOLEAN : r = (c \in reset) /\ Kept(gl[c], app[c], x, r)
    BY <2>1, TouchedMeans
  <2>3. AppState(app[c]) /\ x \in O!Object /\ x.real = IsReal(app[c]) /\ x.active = (seen[c] /\ x.real)
    BY <2>1, TouchedMeans
  <2>4. AppState(a) /\ a.fbo = fb
    BY <2>3 DEF AppState, GlState
  <2>5. app'[c] = a /\ (c \in reset' <=> r)
    BY <1>1, <2>2 DEF OverrideTypeOK
  <2>6. CASE override_set = "wireframe"
    <3>1. y \in O!Object /\ y.active = x.active /\ y.real = (fb = 0) /\ y.polygon_mode = x.polygon_mode
      BY <2>3 DEF O!Object
    <3>2. y.real = IsReal(a)
      BY <2>4, <2>6, <3>1 DEF IsReal
    <3>3. CASE x.active
      <4>1. gl[c] = [app[c] EXCEPT !.polygon_mode = O!Lines] /\ x.polygon_mode = app[c].polygon_mode
        BY <2>2, <2>6, <3>3 DEF Kept, Known
      <4>2. g = [a EXCEPT !.polygon_mode = O!Lines] /\ x.polygon_mode = a.polygon_mode
        BY <2>3, <4>1 DEF AppState, GlState
      <4> HIDE DEF g, a, y, x
      <4>3. Known(g, a, y, r)
        BY <2>6, <3>1, <4>2 DEF Known
      <4> QED
        BY <1>1, <2>4, <2>5, <2>6, <3>1, <3>2, <3>3, <4>3, BindNext
    <3>4. CASE ~x.active
      <4>1. g = a
        BY <2>2, <3>4 DEF Kept
      <4> HIDE DEF g, a, y, x
      <4> QED
        BY <1>1, <2>4, <2>5, <2>6, <3>1, <3>2, <3>4, <4>1, BindNext
    <3> QED
      BY <3>3, <3>4
  <2>7. CASE override_set = "frontbuffer"
    <3>1. gl'[c] = g /\ ctx'[c] = x /\ seen'[c] = seen[c]
      BY <1>1, <2>7 DEF OverrideTypeOK
    <3>2. Kept(g, a, x, r)
      <4>1. CASE x.active
        <5>1. gl[c] = [app[c] EXCEPT !.draw_buffer[0] = "FRONT"] /\ x.draw_buffer = app[c].draw_buffer[0]
          BY <2>2, <2>7, <4>1 DEF Kept, Known
        <5>2. g = [a EXCEPT !.draw_buffer[0] = "FRONT"] /\ x.draw_buffer = a.draw_buffer[0]
          BY <2>3, <5>1 DEF AppState, GlState
        <5> HIDE DEF g, a, x
        <5> QED
          BY <2>3, <2>4, <2>7, <4>1, <5>2 DEF Kept, Known
      <4>2. CASE ~x.active
        <5>1. g = a
          BY <2>2, <4>2 DEF Kept
        <5> HIDE DEF g, a, x
        <5> QED
          BY <2>3, <2>4, <4>2, <5>1 DEF Kept
      <4> QED
        BY <4>1, <4>2
    <3>3. x.real = IsReal(a)
      BY <2>3, <2>7 DEF IsReal
    <3> HIDE DEF g, a, x
    <3>4. r = (c \in reset') /\ x.active = (seen'[c] /\ x.real)
      BY <2>3, <2>5, <3>1
    <3> QED
      BY <1>1, <2>5, <3>1, <3>2, <3>3, <3>4, TouchedNext
  <2> QED
    BY <1>1, <2>6, <2>7
<1> QED
  BY <1>1, <1>2, <1>3, OneChanges

\* What OpenGL makes of a buffer.
LEMMA DrawFacts ==
    ASSUME NEW a, AppState(a), NEW b \in UNION {O!Buffers[fb] : fb \in 0 .. 1}
    PROVE  /\ AppState(O!DrawTo(a, b)) /\ O!DrawTo(a, b).fbo = a.fbo
           /\ a.fbo = 0 /\ b \in O!Buffers[0] =>
                  O!DrawTo(a, b) = [a EXCEPT !.draw_buffer[0] = b] /\ O!DrawTo(a, b).draw_buffer[0] = b
<1>1. a \in GlState /\ a.draw_buffer[0] \in O!Buffers[0] /\ b \in Names /\ a.fbo \in 0 .. 1
  BY DEF AppState, GlState, O!Buffers, Names
<1>2. CASE O!DrawTo(a, b) = a
  <2>1. ~(a.fbo = 0 /\ b \in O!Buffers[0]) \/ O!DrawTo(a, b) = [a EXCEPT !.draw_buffer[0] = b]
    BY DEF O!DrawTo
  <2>2. O!DrawTo(a, b) = [a EXCEPT !.draw_buffer[0] = b] => a.draw_buffer[0] = b
    BY <1>1, <1>2 DEF GlState
  <2> QED
    BY <1>2, <2>1, <2>2
<1>3. CASE O!DrawTo(a, b) # a
  <2> DEFINE d == [a.draw_buffer EXCEPT ![a.fbo] = b]
  <2>1. O!DrawTo(a, b) = [a EXCEPT !.draw_buffer = d] /\ b \in O!Buffers[a.fbo]
    BY <1>3 DEF O!DrawTo
  <2>2. d \in [0 .. 1 -> Names] /\ d[0] \in O!Buffers[0] /\ (a.fbo = 0 => d[0] = b)
    BY <1>1, <2>1 DEF GlState
  <2>3. a.fbo = 0 => [a EXCEPT !.draw_buffer = d] = [a EXCEPT !.draw_buffer[0] = b]
    OBVIOUS
  <2> HIDE DEF d
  <2>4. AppState([a EXCEPT !.draw_buffer = d]) /\ [a EXCEPT !.draw_buffer = d].fbo = a.fbo
        /\ [a EXCEPT !.draw_buffer = d].draw_buffer = d
    BY <1>1, <2>2 DEF AppState, GlState
  <2> QED
    BY <2>1, <2>2, <2>3, <2>4
<1> QED
  BY <1>2, <1>3

\* frontbuffer_glDrawBuffer.
LEMMA DrawStep ==
    ASSUME OverrideTypeOK, AllOverridden, NEW t \in Caller, NEW c \in Context,
           NEW b \in UNION {O!Buffers[fb] : fb \in 0 .. 1},
           O!DrawBuffer(t, c, b)
    PROVE  AllOverridden'
<1> DEFINE g == O!DrawTo(gl[c], b)
           a == O!DrawTo(app[c], b)
           x == ctx[c]
           h == IF override_active THEN [gl |-> O!Overridden(g), ctx |-> O!Saved(g, x)] ELSE [gl |-> g, ctx |-> x]
<1>1. /\ override_set = "frontbuffer" /\ current[t] = c /\ c \notin spoilt
      /\ O!Put(c, h) /\ app' = [app EXCEPT ![c] = a]
      /\ O!Spoil(c, O!Unseen(c) \/ (override_active /\ (gl[c].fbo = 1 \/ b \notin O!Buffers[0])))
      /\ UNCHANGED <<override_set, override_active, current, begin_end, pointer, seen, reset>>
  BY DEF O!DrawBuffer, O!Calls
<1>2. spoilt \subseteq spoilt' /\ \A d \in Context \ {c} : Same(d)
  <2> HIDE DEF h, a
  <2>1. spoilt \subseteq spoilt' /\ \A d \in Context \ {c} : gl'[d] = gl[d] /\ ctx'[d] = ctx[d]
    BY <1>1, PutFacts DEF O!Spoil
  <2> QED
    BY <1>1, <2>1 DEF Same, OverrideTypeOK
<1>3. ASSUME c \notin spoilt' PROVE Touched(c)'
  <2>1. override_active = seen[c] /\ ~(override_active /\ (gl[c].fbo = 1 \/ b \notin O!Buffers[0])) /\ Touched(c)
    BY <1>1, <1>3, CurrentTouched DEF O!Spoil, O!Unseen
  <2>2. PICK r \in BOOLEAN : r = (c \in reset) /\ Kept(gl[c], app[c], x, r)
    BY <2>1, TouchedMeans
  <2>3. AppState(app[c]) /\ x \in O!Object /\ x.real = IsReal(app[c]) /\ x.active = (override_active /\ x.real)
    BY <2>1, TouchedMeans
  <2>4. AppState(a) /\ IsReal(a) = TRUE /\ IsReal(app[c]) = TRUE
    BY <1>1, <2>3, DrawFacts DEF IsReal
  <2>5. /\ Kept(h.gl, a, h.ctx, r) /\ h.ctx.real = x.real /\ h.ctx.active = x.active
    <3>1. CASE override_active
      <4>1. gl[c] = [app[c] EXCEPT !.draw_buffer[0] = "FRONT"] /\ x.active
        BY <1>1, <2>2, <2>3, <2>4, <3>1 DEF Kept, Known
      <4>2. app[c].fbo = 0 /\ gl[c].fbo = 0 /\ b \in O!Buffers[0]
        BY <1>1, <2>1, <2>2, <3>1, FboFacts
      <4>3. a = [app[c] EXCEPT !.draw_buffer[0] = b] /\ a.draw_buffer[0] = b /\ a.fbo = 0
        BY <2>3, <4>2, DrawFacts
      <4>4. g = [gl[c] EXCEPT !.draw_buffer[0] = b]
        BY <4>2 DEF O!DrawTo
      <4>5. g = a
        <5> DEFINE d == app[c].draw_buffer
        <5>1. app[c] \in GlState /\ d \in [0 .. 1 -> Names]
          BY <2>3 DEF AppState, GlState
        <5>2. gl[c].draw_buffer = [d EXCEPT ![0] = "FRONT"]
          BY <4>1, <5>1 DEF GlState
        <5>3. [gl[c].draw_buffer EXCEPT ![0] = b] = [d EXCEPT ![0] = b]
          BY <5>1, <5>2
        <5>4. g = [gl[c] EXCEPT !.draw_buffer = [d EXCEPT ![0] = b]]
          BY <4>4, <5>3
        <5>5. gl[c] = [app[c] EXCEPT !.draw_buffer = [d EXCEPT ![0] = "FRONT"]]
          BY <4>1
        <5>6. a = [app[c] EXCEPT !.draw_buffer = [d EXCEPT ![0] = b]]
          BY <4>3
        <5> HIDE DEF d, g, a
        <5> QED
          BY <5>1, <5>4, <5>5, <5>6 DEF GlState
      <4> HIDE DEF g, a, x
      <4>6. h.gl = [a EXCEPT !.draw_buffer[0] = "FRONT"] /\ h.ctx = [x EXCEPT !.draw_buffer = a.draw_buffer[0]]
        <5>1. h.gl = O!Overridden(a) /\ h.ctx = O!Saved(a, x)
          BY <3>1, <4>5
        <5>2. "FRONT" \in O!Buffers[0]
          BY DEF O!Buffers
        <5>3. O!Overridden(a) = [a EXCEPT !.draw_buffer[0] = "FRONT"]
          BY <1>1, <4>3, <5>2 DEF O!Overridden, O!DrawTo
        <5>4. O!Saved(a, x) = [x EXCEPT !.draw_buffer = a.draw_buffer[0]]
          BY <1>1, <4>3 DEF O!Saved
        <5> QED
          BY <5>1, <5>3, <5>4
      <4> HIDE DEF h
      <4>7. h.ctx \in O!Object /\ h.ctx.active = x.active /\ h.ctx.real = x.real /\ h.ctx.draw_buffer = a.draw_buffer[0]
        BY <2>3, <4>3, <4>6 DEF O!Object, x
      <4>8. Known(h.gl, a, h.ctx, r)
        BY <1>1, <4>6, <4>7 DEF Known
      <4> QED
        BY <2>4, <4>1, <4>7, <4>8 DEF Kept
    <3>2. CASE ~override_active
      <4>1. gl[c] = app[c] /\ ~x.active
        BY <2>2, <2>3, <3>2 DEF Kept
      <4>2. h.gl = a /\ h.ctx = x
        BY <3>2, <4>1
      <4> HIDE DEF h, a, x
      <4> QED
        BY <2>3, <2>4, <4>1, <4>2 DEF Kept
    <3> QED
      BY <2>1, <3>1, <3>2
  <2> HIDE DEF h, a
  <2>6. gl'[c] = h.gl /\ ctx'[c] = h.ctx /\ app'[c] = a /\ seen'[c] = seen[c]
    BY <1>1, PutFacts DEF OverrideTypeOK
  <2>7. r = (c \in reset')
    BY <1>1, <2>2
  <2>8. h.ctx.real = IsReal(a) /\ h.ctx.active = (seen'[c] /\ h.ctx.real)
    BY <2>1, <2>3, <2>4, <2>5, <2>6
  <2> QED
    BY <1>1, <2>5, <2>6, <2>7, <2>8, TouchedNext
<1> QED
  BY <1>1, <1>2, <1>3, OneChanges

\* glMatrixMode, which the camera has no part in.
LEMMA ModeStep ==
    ASSUME OverrideTypeOK, AllOverridden, NEW t \in Caller, NEW c \in Context, NEW m \in {"MODELVIEW", "PROJECTION"},
           O!MatrixMode(t, c, m)
    PROVE  AllOverridden'
<1> DEFINE g == [gl[c] EXCEPT !.matrix_mode = m]
           a == [app[c] EXCEPT !.matrix_mode = m]
           x == ctx[c]
<1>1. /\ override_set = "camera" /\ current[t] = c /\ c \notin spoilt
      /\ gl' = [gl EXCEPT ![c] = g] /\ app' = [app EXCEPT ![c] = a]
      /\ UNCHANGED <<override_set, override_active, current, begin_end, ctx, pointer, seen, reset, spoilt>>
  BY DEF O!MatrixMode, O!Calls
<1>2. \A d \in Context \ {c} : Same(d)
  <2> HIDE DEF g, a
  <2> QED
    BY <1>1 DEF Same, OverrideTypeOK
<1>3. Touched(c)'
  <2>1. Touched(c)
    BY <1>1, CurrentTouched
  <2>2. PICK r \in BOOLEAN : r = (c \in reset) /\ Kept(gl[c], app[c], x, r)
    BY <2>1, TouchedMeans
  <2>3. AppState(app[c]) /\ x \in O!Object /\ x.real = IsReal(app[c]) /\ x.active = (seen[c] /\ x.real)
    BY <2>1, TouchedMeans
  <2>4. /\ AppState(a) /\ O!Top(a) = O!Top(app[c])
        /\ \A k : O!WithTop(a, k) = [O!WithTop(app[c], k) EXCEPT !.matrix_mode = m]
    BY <2>3 DEF AppState, GlState, O!Top, O!WithTop
  <2>5. Kept(g, a, x, r)
    <3>1. CASE x.active
      <4>1. x.original = O!Top(a)
            /\ \E v \in Int : gl[c] = O!WithTop(app[c], [O!Top(a) EXCEPT !.view = v]) /\ (x.dirty \/ r \/ v = x.modifier)
        BY <1>1, <2>2, <2>4, <3>1 DEF Kept, Known
      <4>2. PICK v \in Int : gl[c] = O!WithTop(app[c], [O!Top(a) EXCEPT !.view = v]) /\ (x.dirty \/ r \/ v = x.modifier)
        BY <4>1
      <4>3. g = O!WithTop(a, [O!Top(a) EXCEPT !.view = v])
        BY <2>4, <4>2
      <4> HIDE DEF g, a, x
      <4>4. Known(g, a, x, r)
        BY <1>1, <4>1, <4>2, <4>3 DEF Known
      <4> QED
        BY <2>3, <2>4, <3>1, <4>4 DEF Kept
    <3>2. CASE ~x.active
      <4>1. g = a
        BY <2>2, <3>2 DEF Kept
      <4> HIDE DEF g, a, x
      <4> QED
        BY <2>3, <2>4, <3>2, <4>1 DEF Kept
    <3> QED
      BY <3>1, <3>2
  <2>6. x.real = IsReal(a)
    BY <1>1, <2>3 DEF IsReal
  <2> HIDE DEF g, a, x
  <2>7. gl'[c] = g /\ ctx'[c] = x /\ app'[c] = a /\ seen'[c] = seen[c]
    BY <1>1 DEF OverrideTypeOK, x
  <2>8. r = (c \in reset')
    BY <1>1, <2>2
  <2>9. x.active = (seen'[c] /\ x.real)
    BY <2>3, <2>7
  <2> QED
    BY <1>1, <2>5, <2>6, <2>7, <2>8, <2>9, TouchedNext
<1> QED
  BY <1>1, <1>2, <1>3, OneChanges

\* A call on the matrices of the camera.
LEMMA MatrixStep ==
    ASSUME OverrideTypeOK, AllOverridden, NEW t \in Caller, NEW c \in Context, NEW op \in Operations, O!MatrixCall(t, c, op)
    PROVE  AllOverridden'
<1> DEFINE g == IF override_active /\ op # "glLoadIdentity" THEN O!Restore(gl[c], ctx[c]) ELSE gl[c]
           a == O!Transformed(app[c], op)
           x == ctx[c]
           h == IF override_active THEN O!Override(O!Transformed(g, op), x) ELSE [gl |-> O!Transformed(g, op), ctx |-> x]
<1>1. /\ override_set = "camera" /\ current[t] = c /\ c \notin spoilt
      /\ O!Put(c, h) /\ app' = [app EXCEPT ![c] = a] /\ O!Spoil(c, O!Unseen(c))
      /\ reset' = IF override_active /\ gl[c].matrix_mode = "MODELVIEW" THEN reset \ {c} ELSE reset
      /\ UNCHANGED <<override_set, override_active, current, begin_end, pointer, seen>>
  BY DEF O!MatrixCall, O!Calls
<1>2. spoilt \subseteq spoilt' /\ \A d \in Context \ {c} : Same(d)
  <2> HIDE DEF h, a
  <2>1. spoilt \subseteq spoilt' /\ \A d \in Context \ {c} : gl'[d] = gl[d] /\ ctx'[d] = ctx[d]
    BY <1>1, PutFacts DEF O!Spoil
  <2> QED
    BY <1>1, <2>1 DEF Same, OverrideTypeOK
<1>3. ASSUME c \notin spoilt' PROVE Touched(c)'
  <2>1. override_active = seen[c] /\ Touched(c)
    BY <1>1, <1>3, CurrentTouched DEF O!Spoil, O!Unseen
  <2>2. PICK r \in BOOLEAN : r = (c \in reset) /\ Kept(gl[c], app[c], x, r)
    BY <2>1, TouchedMeans
  <2>3. AppState(app[c]) /\ x \in O!Object /\ x.real = IsReal(app[c]) /\ x.active = (override_active /\ x.real)
        /\ x.real = TRUE
    BY <1>1, <2>1, TouchedMeans DEF IsReal
  <2>4. PICK q \in BOOLEAN : q = (c \in reset')
    BY Truth
  <2>5. AppState(a) /\ IsReal(a) = TRUE
    BY <1>1, <2>3, TransformedFacts DEF IsReal
  <2>6. /\ Kept(h.gl, a, h.ctx, q) /\ h.ctx.real = x.real /\ h.ctx.active = x.active
    <3>1. CASE override_active
      <4>1. gl[c].matrix_mode # "MODELVIEW" => (q <=> r)
        BY <1>1, <2>2, <2>4
      <4>2. x.active
        BY <2>3, <3>1
      <4>3. h = O!Override(O!Transformed(IF op # "glLoadIdentity" THEN O!Restore(gl[c], x) ELSE gl[c], op), x)
        BY <3>1
      <4>4. override_set = "camera" /\ Kept(gl[c], app[c], ctx[c], r)
        BY <1>1, <2>2
      <4> DEFINE f == IF op # "glLoadIdentity" THEN O!Restore(gl[c], ctx[c]) ELSE gl[c]
                 s == O!Override(O!Transformed(f, op), ctx[c])
      <4>5. Kept(s.gl, a, s.ctx, q) /\ s.ctx.active = x.active /\ s.ctx.real = x.real
        BY <4>1, <4>2, <4>4, MatrixKept
      <4>6. h = s
        BY <4>3
      <4> HIDE DEF h, g, s
      <4> QED
        BY <4>5, <4>6
    <3>2. CASE ~override_active
      <4>1. gl[c] = app[c] /\ ~x.active
        BY <2>2, <2>3, <3>2 DEF Kept
      <4>2. h.gl = a /\ h.ctx = x
        BY <3>2, <4>1
      <4> HIDE DEF h, a, x
      <4> QED
        BY <2>3, <2>5, <4>1, <4>2 DEF Kept
    <3> QED
      BY <2>1, <3>1, <3>2
  <2> HIDE DEF h, a
  <2>7. gl'[c] = h.gl /\ ctx'[c] = h.ctx /\ app'[c] = a /\ seen'[c] = seen[c]
    BY <1>1, PutFacts DEF OverrideTypeOK
  <2>8. h.ctx.real = IsReal(a) /\ h.ctx.active = (seen'[c] /\ h.ctx.real)
    BY <2>1, <2>3, <2>5, <2>6, <2>7
  <2> QED
    BY <1>1, <2>4, <2>6, <2>7, <2>8, TouchedNext
<1> QED
  BY <1>1, <1>2, <1>3, OneChanges

\* camera_swap_buffers.
LEMMA SwapStep ==
    ASSUME OverrideTypeOK, AllOverridden, NEW t \in Caller, NEW c \in Context, O!Swap(t, c)
    PROVE  AllOverridden'
<1> DEFINE x == ctx[c]
           y == [x EXCEPT !.modifier = IF x.pressed THEN @ + 1 ELSE @, !.dirty = FALSE]
           g == O!WithTop(gl[c], O!View(y))
<1>1. /\ override_set = "camera" /\ override_active /\ current[t] = c /\ c \notin spoilt
      /\ O!Put(c, [gl |-> g, ctx |-> y]) /\ O!Spoil(c, O!Unseen(c)) /\ reset' = reset \ {c}
      /\ UNCHANGED <<override_set, override_active, current, begin_end, pointer, app, seen>>
  BY DEF O!Swap, O!Calls
<1>2. spoilt \subseteq spoilt' /\ \A d \in Context \ {c} : Same(d)
  <2> HIDE DEF g, y
  <2>1. spoilt \subseteq spoilt' /\ \A d \in Context \ {c} : gl'[d] = gl[d] /\ ctx'[d] = ctx[d]
    BY <1>1, PutFacts DEF O!Spoil
  <2> QED
    BY <1>1, <2>1 DEF Same, OverrideTypeOK
<1>3. ASSUME c \notin spoilt' PROVE Touched(c)'
  <2>1. override_active = seen[c] /\ Touched(c)
    BY <1>1, <1>3, CurrentTouched DEF O!Spoil, O!Unseen
  <2>2. PICK r \in BOOLEAN : r = (c \in reset) /\ Kept(gl[c], app[c], x, r)
    BY <2>1, TouchedMeans
  <2>3. AppState(app[c]) /\ x \in O!Object /\ x.real = IsReal(app[c]) /\ x.active = (override_active /\ x.real)
        /\ x.real = TRUE /\ x.active = TRUE
    BY <1>1, <2>1, TouchedMeans DEF IsReal
  <2>4. x.original = O!Top(app[c]) /\ \A k \in Matrix : O!WithTop(gl[c], k) = O!WithTop(app[c], k)
    BY <1>1, <2>2, <2>3, CameraFacts
  <2>5. y \in O!Object /\ y.active = TRUE /\ y.real = TRUE /\ y.original = O!Top(app[c])
    <3>1. PICK n \in Int : n = IF x.pressed THEN x.modifier + 1 ELSE x.modifier
      BY <2>3 DEF O!Object
    <3>2. y = [x EXCEPT !.modifier = n, !.dirty = FALSE]
      BY <3>1
    <3> QED
      BY <2>3, <2>4, <3>2 DEF O!Object
  <2> HIDE DEF y
  <2>6. O!View(y) \in Matrix
    BY <2>3, <2>5, TopFacts, ViewFacts
  <2>7. g = O!WithTop(app[c], O!View(y))
    BY <2>4, <2>6
  <2>8. Kept(g, app[c], y, FALSE)
    BY <1>1, <2>3, <2>5, <2>7, CameraViews
  <2> HIDE DEF g
  <2>9. gl'[c] = g /\ ctx'[c] = y /\ app'[c] = app[c] /\ seen'[c] = seen[c]
    BY <1>1, PutFacts DEF OverrideTypeOK
  <2>10. FALSE = (c \in reset')
    BY <1>1
  <2>11. y.real = IsReal(app[c]) /\ y.active = (seen'[c] /\ y.real)
    BY <1>1, <2>1, <2>3, <2>5, <2>9
  <2> QED
    BY <1>1, <2>8, <2>9, <2>10, <2>11, TouchedNext
<1> QED
  BY <1>1, <1>2, <1>3, OneChanges

(* The camera turns: the view that OpenGL has is that of the camera still, or the camera
   knows that it is not, or its view was reset. *)
Turned(x, y, q) ==
    /\ y \in O!Object /\ y.active = x.active /\ y.real = x.real /\ y.original = x.original
    /\ y.dirty \/ q \/ (y.modifier = x.modifier /\ y.dirty = x.dirty)

\* Another view, in the object of the camera alone.
LEMMA TurnStep ==
    ASSUME OverrideTypeOK, AllOverridden, NEW t \in Caller, NEW c \in Context, current[t] = c, override_set = "camera",
           NEW y, ctx' = [ctx EXCEPT ![c] = y], ctx[c] \in O!Object => Turned(ctx[c], y, c \in reset'),
           UNCHANGED <<override_set, current, begin_end, gl, app, seen, spoilt>>,
           c \in reset => c \in reset', \A d \in Context \ {c} : d \in reset' <=> d \in reset
    PROVE  AllOverridden'
<1>1. \A d \in Context \ {c} : Same(d)
  BY DEF Same, OverrideTypeOK
<1>2. ASSUME c \notin spoilt PROVE Touched(c)'
  <2> DEFINE x == ctx[c]
             a == app[c]
  <2>1. Touched(c)
    BY <1>2, CurrentTouched
  <2>2. PICK r \in BOOLEAN : r = (c \in reset) /\ Kept(gl[c], a, x, r)
    BY <2>1, TouchedMeans
  <2>3. x \in O!Object /\ x.real = IsReal(a) /\ x.active = (seen[c] /\ x.real) /\ AppState(a)
    BY <2>1, TouchedMeans
  <2>4. PICK q \in BOOLEAN : q = (c \in reset')
    BY Truth
  <2>5. Turned(x, y, q) /\ (r => q)
    <3>1. Turned(x, y, c \in reset')
      BY <2>3
    <3>2. Turned(x, y, q)
      BY <2>4, <3>1, Zenon
    <3> QED
      BY <2>2, <2>4, <3>2
  <2> HIDE DEF x, a
  <2>6. CASE x.active
    <3>1. x.original = O!Top(a)
          /\ \E v \in Int : gl[c] = O!WithTop(a, [O!Top(a) EXCEPT !.view = v]) /\ (x.dirty \/ r \/ v = x.modifier)
      BY <2>2, <2>6 DEF Kept, Known
    <3>2. \E v \in Int : gl[c] = O!WithTop(a, [O!Top(a) EXCEPT !.view = v]) /\ (y.dirty \/ q \/ v = y.modifier)
      BY <2>5, <3>1 DEF Turned
    <3>3. Known(gl[c], a, y, q)
      BY <2>5, <3>1, <3>2 DEF Known, Turned
    <3>4. Kept(gl[c], a, y, q)
      BY <2>3, <2>5, <2>6, <3>3 DEF Kept, Turned
    <3> QED
      BY <2>3, <2>4, <2>5, <3>4, TouchedNext DEF Turned, OverrideTypeOK, a
  <2>7. CASE ~x.active
    <3>1. Kept(gl[c], a, y, q)
      BY <2>2, <2>3, <2>5, <2>7 DEF Kept, Turned
    <3> QED
      BY <2>3, <2>4, <2>5, <3>1, TouchedNext DEF Turned, OverrideTypeOK, a
  <2> QED
    BY <2>6, <2>7
<1> QED
  BY <1>1, <1>2, OneChanges

\* The mouse and the keys of the camera.
LEMMA InputStep ==
    ASSUME OverrideTypeOK, AllOverridden, NEW t \in Caller, NEW c \in Context,
           O!Mouse(t, c) \/ O!KeyReset(t, c) \/ \E press \in BOOLEAN : O!Key(t, c, press)
    PROVE  AllOverridden'
<1>1. CASE O!Mouse(t, c)
  <2> DEFINE y == [ctx[c] EXCEPT !.modifier = @ + 1, !.dirty = TRUE]
  <2>1. /\ ctx' = [ctx EXCEPT ![c] = y] /\ current[t] = c /\ override_set = "camera"
        /\ UNCHANGED <<override_set, current, begin_end, gl, app, seen, spoilt, reset>>
    BY <1>1 DEF O!Mouse, OverrideTypeOK
  <2>2. ctx[c] \in O!Object => Turned(ctx[c], y, c \in reset')
    <3> SUFFICES ASSUME ctx[c] \in O!Object PROVE Turned(ctx[c], y, c \in reset')
      OBVIOUS
    <3>1. PICK n \in Int : n = ctx[c].modifier + 1
      BY DEF O!Object
    <3>2. y = [ctx[c] EXCEPT !.modifier = n, !.dirty = TRUE]
      BY <3>1
    <3> QED
      BY <3>2 DEF O!Object, Turned
  <2> HIDE DEF y
  <2> QED
    BY <2>1, <2>2, TurnStep
<1>2. CASE O!KeyReset(t, c)
  <2> DEFINE y == [ctx[c] EXCEPT !.modifier = 0]
  <2>1. /\ ctx' = [ctx EXCEPT ![c] = y] /\ current[t] = c /\ override_set = "camera" /\ reset' = reset \cup {c}
        /\ UNCHANGED <<override_set, current, begin_end, gl, app, seen, spoilt>>
    BY <1>2 DEF O!KeyReset
  <2>2. ctx[c] \in O!Object => Turned(ctx[c], y, c \in reset')
    BY <2>1 DEF O!Object, Turned
  <2> HIDE DEF y
  <2> QED
    BY <2>1, <2>2, TurnStep
<1>3. ASSUME NEW press \in BOOLEAN, O!Key(t, c, press) PROVE AllOverridden'
  <2> DEFINE y == [ctx[c] EXCEPT !.pressed = press]
  <2>1. /\ ctx' = [ctx EXCEPT ![c] = y] /\ current[t] = c /\ override_set = "camera"
        /\ UNCHANGED <<override_set, current, begin_end, gl, app, seen, spoilt, reset>>
    BY <1>3 DEF O!Key
  <2>2. ctx[c] \in O!Object => Turned(ctx[c], y, c \in reset')
    BY DEF O!Object, Turned
  <2> HIDE DEF y
  <2> QED
    BY <2>1, <2>2, TurnStep
<1> QED
  BY <1>1, <1>2, <1>3

\* What is done without a change to any context.
LEMMA QuietStep ==
    ASSUME OverrideTypeOK, AllOverridden, NEW t \in Caller,
           O!Release(t) \/ O!KeyToggle(t) \/ UNCHANGED O!vars \/ \E c \in Context : O!Begin(t, c) \/ O!End(t, c)
    PROVE  AllOverridden'
<1>1. CASE O!Release(t) \/ O!KeyToggle(t) \/ UNCHANGED O!vars
  <2>1. UNCHANGED <<override_set, begin_end, gl, ctx, app, seen, reset, spoilt>>
    BY <1>1 DEF O!Release, O!KeyToggle, O!vars
  <2>2. \A u \in Caller : current'[u] \in {current[u], NoContext}
    BY <1>1 DEF O!Release, O!KeyToggle, O!vars, OverrideTypeOK
  <2>3. NoContext \notin Context
    BY NoContextAssumption DEF O!NoneAssumption
  <2>4. \A d \in Context : Same(d)
    BY <2>1, <2>2, <2>3 DEF Same
  <2> QED
    BY <2>1, <2>4, OneChanges
<1>2. ASSUME NEW c \in Context, O!Begin(t, c) \/ O!End(t, c) PROVE AllOverridden'
  <2>1. /\ current[t] = c /\ begin_end' \in {begin_end \cup {c}, begin_end \ {c}}
        /\ UNCHANGED <<override_set, override_active, current, gl, ctx, pointer, app, seen, reset, spoilt>>
    BY <1>2 DEF O!Begin, O!End, O!Calls
  <2>2. \A d \in Context \ {c} : Same(d)
    BY <2>1 DEF Same
  <2>3. ASSUME c \notin spoilt PROVE Touched(c)'
    <3>1. Touched(c)
      BY <2>1, <2>3, CurrentTouched
    <3>2. PICK r \in BOOLEAN : r = (c \in reset) /\ Kept(gl[c], app[c], ctx[c], r)
      BY <3>1, TouchedMeans
    <3>3. r = (c \in reset')
      BY <2>1, <3>2
    <3> QED
      BY <2>1, <3>1, <3>2, <3>3, TouchedMeans, TouchedNext
  <2> QED
    BY <2>1, <2>2, <2>3, OneChanges
<1> QED
  BY <1>1, <1>2
-----------------------------------------------------------------------------
(* Results. *)

\* Another view does not change what the application made of the stack.
LEMMA SceneFacts ==
    ASSUME NEW a, AppState(a), NEW m \in Matrix, m.app = O!Top(a).app, NEW g, g.modelview = Append(O!Front(a.modelview), m)
    PROVE  O!Front(g.modelview) = O!Front(a.modelview) /\ O!Scene(g) = O!Scene(a)
<1> DEFINE s == a.modelview
           p == g.modelview
<1>1. s \in Seq(Matrix) /\ s # <<>>
  BY DEF AppState, GlState
<1>2. /\ Len(s) \in Nat \ {0} /\ Len(p) = Len(s) /\ p \in Seq(Matrix)
      /\ p[Len(s)] = m /\ (\A i \in 1 .. Len(s) - 1 : p[i] = s[i]) /\ O!Front(p) = O!Front(s)
      /\ O!Top(a) = s[Len(s)]
  BY <1>1, MatrixStackFacts DEF O!Top
<1>3. DOMAIN p = 1 .. Len(s) /\ DOMAIN s = 1 .. Len(s)
  BY <1>1, <1>2
<1>4. \A i \in 1 .. Len(s) : p[i].app = s[i].app
  <2>1. \A i \in 1 .. Len(s) : i = Len(s) \/ i \in 1 .. Len(s) - 1
    BY <1>2
  <2> QED
    BY <1>2, <2>1
<1> HIDE DEF p, s
<1>5. [i \in DOMAIN p |-> p[i].app] = [i \in DOMAIN s |-> s[i].app]
  BY <1>3, <1>4
<1> QED
  BY <1>2, <1>5 DEF O!Scene, p, s

\* At the start no context was current.
LEMMA OverrideInit == O!Init => OverrideIInv
BY NoContextAssumption DEF O!NoneAssumption, O!Init, OverrideIInv, OverrideTypeOK, Untouched

(* The invariant: what each filter-set knows of a context, and what it has put there. *)
THEOREM OverridesInvariant == O!Spec => []OverrideIInv
<1>1. O!Init => OverrideIInv
  BY OverrideInit
<1>2. OverrideIInv /\ [O!Next]_(O!vars) => OverrideIInv'
  <2> SUFFICES ASSUME OverrideIInv, [O!Next]_(O!vars) PROVE OverrideIInv'
    OBVIOUS
  <2>1. OverrideTypeOK /\ AllOverridden
    BY DEF OverrideIInv, AllOverridden
  <2>2. OverrideTypeOK'
    BY <2>1, TypeStep
  <2>3. AllOverridden'
    <3>1. CASE UNCHANGED O!vars
      <4>1. \A d \in Context : Same(d)
        BY <3>1 DEF O!vars, Same
      <4> QED
        BY <2>1, <3>1, <4>1, OneChanges DEF O!vars
    <3>2. ASSUME NEW t \in Caller, NEW c \in Context,
                 \/ O!MakeCurrent(t, c) \/ O!Begin(t, c) \/ O!End(t, c)
                 \/ \E face \in {"FRONT", "FRONT_AND_BACK"}, m \in {"FILL", "POINT"} : O!PolygonMode(t, c, face, m)
                 \/ \E fb \in 0 .. 1 : O!BindFramebuffer(t, c, fb)
                 \/ \E b \in UNION {O!Buffers[fb] : fb \in 0 .. 1} : O!DrawBuffer(t, c, b)
                 \/ \E m \in {"MODELVIEW", "PROJECTION"} : O!MatrixMode(t, c, m)
                 \/ \E op \in Operations : O!MatrixCall(t, c, op)
                 \/ O!Swap(t, c) \/ O!Mouse(t, c) \/ O!KeyReset(t, c)
                 \/ \E press \in BOOLEAN : O!Key(t, c, press)
          PROVE  AllOverridden'
      BY <2>1, <3>2, MakeStep, QuietStep, PolygonStep, BindStep, DrawStep, ModeStep, MatrixStep, SwapStep, InputStep
    <3>3. ASSUME NEW t \in Caller, O!Release(t) \/ O!Toggle(t) \/ O!KeyToggle(t) PROVE AllOverridden'
      BY <2>1, <3>3, QuietStep, ToggleStep
    <3> QED
      BY <3>1, <3>2, <3>3 DEF O!Next, Operations
  <2> QED
    BY <2>2, <2>3 DEF OverrideIInv, AllOverridden
<1> QED
  BY <1>1, <1>2, PTL DEF O!Spec

(* While a filter-set is active, it overrides what it is there to override and knows what
   the application set; when it is no longer active, nothing of it is left.  This is of
   contexts that were current in the thread which changed the flag, or in none; of one that
   was current in another thread, or within glBegin/glEnd, only until a call that the
   filter-set overrides is made in it before it could take notice: from then on, and after
   the other steps that lose what the application set (spoilt), nothing is said of it.
   The camera alone moves the view. *)
THEOREM OverridesUndone == O!Spec => []OverrideIsUndone
<1>1. OverrideIInv => OverrideIsUndone
  <2> SUFFICES ASSUME OverrideIInv, NEW c \in Context \ spoilt, ctx[c] # NoContext
               PROVE  LET g == gl[c]  x == ctx[c] IN
                      CASE override_set = "wireframe" ->
                             g = IF seen[c] /\ g.fbo = 0 THEN [app[c] EXCEPT !.polygon_mode = O!Lines] ELSE app[c]
                        [] override_set = "frontbuffer" ->
                             g = IF seen[c] THEN [app[c] EXCEPT !.draw_buffer[0] = "FRONT"] ELSE app[c]
                        [] override_set = "camera" ->
                             /\ IF seen[c]
                                THEN /\ x.original = O!Top(app[c]) /\ O!Scene(g) = O!Scene(app[c])
                                     /\ O!Front(g.modelview) = O!Front(app[c].modelview)
                                     /\ x.dirty \/ c \in reset \/ O!Top(g).view = x.modifier
                                ELSE g = app[c]
                             /\ pointer.grabbed => override_active /\ pointer.camera_intercept
    BY DEF OverrideIsUndone, O!OverrideIsUndone
  <2> DEFINE g == gl[c]
             a == app[c]
             x == ctx[c]
  <2>1. OverrideTypeOK /\ Touched(c)
    BY DEF OverrideIInv, Untouched
  <2>2. PICK r \in BOOLEAN : r = (c \in reset) /\ Kept(g, a, x, r)
    BY <2>1, TouchedMeans
  <2>3. AppState(a) /\ x.real = IsReal(a) /\ x.active = (seen[c] /\ x.real) /\ seen[c] \in BOOLEAN
    BY <2>1, TouchedMeans DEF OverrideTypeOK
  <2>4. g.fbo = a.fbo
    BY <2>1, <2>2, FboFacts DEF OverrideTypeOK
  <2>5. CASE override_set = "wireframe"
    BY <2>2, <2>3, <2>4, <2>5 DEF Kept, Known, IsReal
  <2>6. CASE override_set = "frontbuffer"
    BY <2>2, <2>3, <2>6 DEF Kept, Known, IsReal
  <2>7. CASE override_set = "camera"
    <3>1. pointer.grabbed => override_active /\ pointer.camera_intercept
      BY <2>1 DEF OverrideTypeOK
    <3>2. CASE ~seen[c]
      <4>1. g = a
        BY <2>2, <2>3, <3>2 DEF Kept
      <4> QED
        BY <2>7, <3>1, <3>2, <4>1
    <3>3. CASE seen[c]
      <4>1. x.active
        BY <2>3, <2>7, <3>3 DEF IsReal
      <4>2. x.original = O!Top(a)
            /\ \E v \in Int : g = O!WithTop(a, [O!Top(a) EXCEPT !.view = v]) /\ (x.dirty \/ r \/ v = x.modifier)
        BY <2>2, <2>7, <4>1 DEF Kept, Known
      <4>3. PICK v \in Int : g = O!WithTop(a, [O!Top(a) EXCEPT !.view = v]) /\ (x.dirty \/ r \/ v = x.modifier)
        BY <4>2
      <4> DEFINE m == [O!Top(a) EXCEPT !.view = v]
      <4>4. m \in Matrix /\ m.view = v /\ m.app = O!Top(a).app
        <5>1. O!Top(a) \in Matrix
          BY <2>3, TopFacts
        <5> QED
          BY <5>1 DEF Matrix
      <4> HIDE DEF m
      <4>5. g = O!WithTop(a, m) /\ O!Top(g) = m /\ g.modelview = Append(O!Front(a.modelview), m)
        <5>1. g = O!WithTop(a, m)
          BY <4>3 DEF m
        <5> HIDE DEF g, a
        <5> QED
          BY <2>3, <4>4, <5>1, TopFacts
      <4>6. O!Front(g.modelview) = O!Front(a.modelview) /\ O!Scene(g) = O!Scene(a)
        BY <2>3, <4>4, <4>5, SceneFacts
      <4>7. x.dirty \/ c \in reset \/ O!Top(g).view = x.modifier
        BY <2>2, <4>3, <4>4, <4>5
      <4> QED
        BY <2>7, <3>1, <3>3, <4>2, <4>6, <4>7
    <3> QED
      BY <3>2, <3>3
  <2> QED
    BY <2>1, <2>5, <2>6, <2>7 DEF OverrideTypeOK
<1> QED
  BY <1>1, OverridesInvariant, PTL
-----------------------------------------------------------------------------
(* The checks of drawing calls.  Of a call that a thread has begun to check, every range
   either is still to be tried or was found good, and the thread that has the mutex is the
   one that the jump buffer, the handler and old_act belong to. *)
Critical == {"setjmp", "install", "read", "good", "bad"}
Passes(r) == r.store = "astray" \/ C!Valid(r)

Checked(t, p) ==
    LET all == ToSet(C!Ranges(p.call)) IN
    /\ p = [at |-> p.at, call |-> p.call, todo |-> p.todo]
    /\ p.at \in {"next", "passed", "ignored"} \cup Critical
    /\ p.call \in DrawCalls[t] /\ p.todo \in Seq(all)
    /\ p.at # "ignored" => \A r \in all : r \in ToSet(p.todo) \/ Passes(r)
    /\ p.at \in {"next"} \cup Critical => p.todo # <<>>
    /\ p.at \in Critical => Head(p.todo).store = "client"
    /\ p.at = "passed" => p.todo = <<>>
    /\ p.at = "ignored" => \E r \in all : r.store = "astray" \/ ~C!Valid(r)
    /\ p.at = "good" => C!Valid(Head(p.todo))
    /\ p.at = "bad" => ~C!Valid(Head(p.todo))

Held(t, p) ==
    /\ mutex = t <=> p.at \in Critical
    /\ p.at \in {"setjmp", "install"} => handler = C!Own
    /\ p.at \in {"install", "read", "good", "bad"} => buf = t
    /\ p.at \in {"read", "good", "bad"} => handler = "checks" /\ old_act[t] = C!Own

DrawIInv ==
    /\ DOMAIN draw_pc = Caller /\ DOMAIN old_act = Caller /\ draw_crashed \in BOOLEAN
    /\ \A t \in Caller : draw_pc[t] = C!Idle \/ Checked(t, draw_pc[t])
    /\ \A t \in Caller : Held(t, draw_pc[t])
    /\ mutex = C!NoOne => handler = C!Own
    /\ draw_crashed => \E t \in Caller : draw_pc[t].at # "idle" /\ ~C!Counting(draw_pc[t].call)
-----------------------------------------------------------------------------
\* What is in two sequences together.
LEMMA ConcatRange ==
    ASSUME NEW S, NEW s \in Seq(S), NEW u \in Seq(S)
    PROVE  ToSet(s \o u) = ToSet(s) \cup ToSet(u)
<1>1. \A i \in 1..Len(s) : (s \o u)[i] = s[i]
  OBVIOUS
<1>2. Len(s) \in Nat /\ Len(u) \in Nat /\ Len(s \o u) = Len(s) + Len(u)
      /\ DOMAIN s = 1..Len(s) /\ DOMAIN u = 1..Len(u) /\ DOMAIN (s \o u) = 1..Len(s \o u)
  OBVIOUS
<1>3. ASSUME NEW i \in 1..Len(u) PROVE (s \o u)[Len(s) + i] = u[i]
  <2>1. \A j \in 1..(Len(s) + Len(u)) : (s \o u)[j] = IF j <= Len(s) THEN s[j] ELSE u[j - Len(s)]
    BY ConcatProperties
  <2>2. PICK j \in Nat : j = Len(s) + i
    BY <1>2
  <2>3. j \in 1..(Len(s) + Len(u)) /\ ~(j <= Len(s)) /\ j - Len(s) = i
    BY <1>2, <2>2
  <2>4. (s \o u)[j] = u[j - Len(s)]
    BY <2>1, <2>3
  <2> QED
    BY <2>2, <2>3, <2>4
<1>4. ASSUME NEW i \in DOMAIN (s \o u) PROVE (s \o u)[i] \in ToSet(s) \cup ToSet(u)
  <2>1. CASE i <= Len(s)
    BY <1>1, <1>2, <2>1 DEF ToSet
  <2>2. CASE i > Len(s)
    <3>1. i - Len(s) \in 1..Len(u) /\ Len(s) + (i - Len(s)) = i
      BY <1>2, <2>2
    <3>2. (s \o u)[i] = u[i - Len(s)]
      BY <1>3, <3>1
    <3> QED
      BY <1>2, <3>1, <3>2 DEF ToSet
  <2> QED
    BY <1>2, <2>1, <2>2
<1>5. \A i \in 1..Len(s) : i \in DOMAIN (s \o u)
  BY <1>2
<1>6. \A i \in 1..Len(u) : Len(s) + i \in DOMAIN (s \o u)
  BY <1>2
<1> QED
  BY <1>1, <1>3, <1>2, <1>4, <1>5, <1>6 DEF ToSet

(* What is in a sequence of sequences is in one of them. *)
LEMMA FlattensRange ==
    ASSUME NEW S, NEW seqs \in Seq(Seq(S)), NEW f, Flattens(f, seqs, Len(seqs))
    PROVE  \A n \in 1..Len(seqs) : ToSet(f[n]) = UNION {ToSet(seqs[k]) : k \in 1..n}
<1> DEFINE Bad == {k \in 1..Len(seqs) : ToSet(f[k]) # UNION {ToSet(seqs[j]) : j \in 1..k}}
<1> SUFFICES ASSUME Bad # {} PROVE FALSE
  OBVIOUS
<1>1. PICK k \in Bad : \A j \in Bad : k <= j
  <2>1. Bad \in SUBSET Nat
    OBVIOUS
  <2> HIDE DEF Bad
  <2> QED
    BY <2>1, LeastNat
<1>2. \A i \in 1..Len(seqs) : seqs[i] \in Seq(S) /\ f[i] \in Seq(S)
  BY FlattensType
<1>3. f[k] = IF k = 1 THEN seqs[k] ELSE f[k-1] \o seqs[k]
  BY DEF Flattens
<1>4. CASE k = 1
  <2>1. UNION {ToSet(seqs[j]) : j \in 1..k} = ToSet(seqs[k])
    <3>1. 1..k = {k}
      BY <1>4
    <3> QED
      BY <3>1
  <2> QED
    BY <1>3, <1>4, <2>1
<1>5. CASE k # 1
  <2>1. k - 1 \in 1..Len(seqs) /\ k - 1 \notin Bad
    <3>1. k \in 1..Len(seqs) /\ Len(seqs) \in Nat
      BY <1>1
    <3>2. k - 1 \in 1..Len(seqs) /\ ~(k <= k - 1)
      BY <1>5, <3>1
    <3> HIDE DEF Bad
    <3> QED
      BY <1>1, <3>2
  <2>2. ToSet(f[k - 1]) = UNION {ToSet(seqs[j]) : j \in 1..(k - 1)}
    BY <2>1
  <2>3. ToSet(f[k]) = ToSet(f[k - 1]) \cup ToSet(seqs[k])
    <3> DEFINE s == f[k - 1]
               u == seqs[k]
    <3>1. s \in Seq(S) /\ u \in Seq(S) /\ f[k] = s \o u
      BY <1>2, <1>3, <1>5, <2>1
    <3> HIDE DEF s, u
    <3>2. ToSet(s \o u) = ToSet(s) \cup ToSet(u)
      BY <3>1, ConcatRange
    <3> QED
      BY <3>1, <3>2 DEF s, u
  <2>4. 1..k = (1..(k - 1)) \cup {k}
    BY <2>1
  <2> QED
    BY <2>2, <2>3, <2>4
<1> QED
  BY <1>4, <1>5

\* FlattenSeq of the community modules.
LEMMA FlattenSeqRange ==
    ASSUME NEW S, NEW seqs \in Seq(Seq(S))
    PROVE  ToSet(FlattenSeq(seqs)) = UNION {ToSet(seqs[k]) : k \in DOMAIN seqs}
<1>1. CASE Len(seqs) = 0
  BY <1>1 DEF FlattenSeq, ToSet
<1>2. CASE Len(seqs) # 0
  <2> DEFINE flatten == CHOOSE f : Flattens(f, seqs, Len(seqs))
  <2>1. FlattenSeq(seqs) = flatten[Len(seqs)]
    BY <1>2 DEF FlattenSeq, Flattens
  <2>2. Flattens(flatten, seqs, Len(seqs))
    <3>1. \E f : Flattens(f, seqs, Len(seqs))
      BY FlattensExists, Len(seqs) \in Nat
    <3> QED
      BY <3>1, Zenon
  <2>3. Len(seqs) \in 1..Len(seqs) /\ DOMAIN seqs = 1..Len(seqs)
    BY <1>2
  <2> QED
    BY <2>1, <2>2, <2>3, FlattensRange
<1> QED
  BY <1>1, <1>2
-----------------------------------------------------------------------------
\* The checks have their operators from the same modules: they are the same.
LEMMA SameFlattenSeq == \A s : C!FlattenSeq(s) = FlattenSeq(s)
BY DEF FlattenSeq, C!FlattenSeq
\* And what is in a sequence is the same.
LEMMA SameRange == \A s : C!ToSet(s) = ToSet(s)
BY DEF ToSet, C!ToSet

\* A sequence, of whatever is in it.
IsSeq(s) == s \in Seq(ToSet(s))

\* A function on the first numbers is one.
LEMMA SeqMade == ASSUME NEW n \in Nat, NEW s, s = [k \in 1..n |-> s[k]] PROVE IsSeq(s)
<1>1. \A k \in 1..n : s[k] \in ToSet(s)
  <2>1. DOMAIN s = 1..n
    OBVIOUS
  <2> QED
    BY <2>1 DEF ToSet
<1>2. s \in [1..n -> ToSet(s)]
  BY <1>1
<1> QED
  BY <1>2 DEF IsSeq

\* Of a set that everything in it is in.
LEMMA SeqOver == ASSUME NEW S, NEW s, IsSeq(s), ToSet(s) \subseteq S PROVE s \in Seq(S)
<1>1. s \in [1..Len(s) -> ToSet(s)] /\ Len(s) \in Nat
  BY DEF IsSeq
<1>2. s \in [1..Len(s) -> S]
  BY <1>1
<1> QED
  BY <1>1, <1>2

\* What is a sequence of a set is one of what is in it.
LEMMA SeqBack == ASSUME NEW S, NEW s \in Seq(S) PROVE IsSeq(s) /\ ToSet(s) \subseteq S
<1>1. s \in [1..Len(s) -> S] /\ Len(s) \in Nat
  OBVIOUS
<1>2. \A i \in 1..Len(s) : s[i] \in ToSet(s) /\ s[i] \in S
  BY <1>1 DEF ToSet
<1>3. s \in [1..Len(s) -> ToSet(s)]
  BY <1>1, <1>2
<1>4. s \in Seq(ToSet(s))
  BY <1>1, <1>3
<1> QED
  BY <1>1, <1>4 DEF IsSeq, ToSet

\* Two of them together are one.
LEMMA SeqConcat ==
    ASSUME NEW s, NEW u, IsSeq(s), IsSeq(u)
    PROVE  IsSeq(s \o u) /\ ToSet(s \o u) = ToSet(s) \cup ToSet(u)
<1> DEFINE S == ToSet(s) \cup ToSet(u)
<1>1. s \in Seq(S) /\ u \in Seq(S)
  BY SeqOver
<1> HIDE DEF S
<1>2. ToSet(s \o u) = ToSet(s) \cup ToSet(u)
  BY <1>1, ConcatRange
<1>3. s \o u \in Seq(S)
  BY <1>1
<1> QED
  BY <1>2, <1>3, SeqBack

\* So are any number of them together.
LEMMA SeqFlatten ==
    ASSUME NEW seqs, IsSeq(seqs), \A k \in DOMAIN seqs : IsSeq(seqs[k])
    PROVE  /\ IsSeq(FlattenSeq(seqs))
           /\ ToSet(FlattenSeq(seqs)) = UNION {ToSet(seqs[k]) : k \in DOMAIN seqs}
<1> DEFINE S == UNION {ToSet(seqs[k]) : k \in DOMAIN seqs}
<1>1. ASSUME NEW k \in DOMAIN seqs PROVE seqs[k] \in Seq(S)
  BY SeqOver
<1>2. ToSet(seqs) \subseteq Seq(S)
  BY <1>1 DEF ToSet
<1> HIDE DEF S
<1>3. seqs \in Seq(Seq(S))
  BY <1>2, SeqOver
<1> QED
  BY <1>3, FlattenSeqRange, FlattenSeqType, SeqBack

\* What is tried for an array of a draw, and for each of its indices.
LEMMA AttributeRangesSeq ==
    ASSUME NEW c, c.arrays \in Seq(C!Array), NEW first, NEW count
    PROVE  /\ IsSeq(C!AttributeRanges(c, first, count))
           /\ ToSet(C!AttributeRanges(c, first, count)) =
                 IF count % Width = 0 THEN {}
                 ELSE {C!AttributeRange(a, first, count, c.instances) : a \in ToSet(c.arrays)}
<1>1. CASE count % Width = 0
  BY <1>1 DEF C!AttributeRanges, IsSeq, ToSet
<1>2. CASE count % Width # 0
  <2> DEFINE n == Len(c.arrays)
             s == [k \in 1..n |-> C!AttributeRange(c.arrays[k], first, count, c.instances)]
  <2>1. C!AttributeRanges(c, first, count) = s
    BY <1>2 DEF C!AttributeRanges
  <2>2. n \in Nat /\ DOMAIN c.arrays = 1..n
    OBVIOUS
  <2> HIDE DEF n
  <2>3. IsSeq(s)
    <3>1. \A k \in 1..n : s[k] \in ToSet(s)
      BY DEF ToSet
    <3> QED
      BY <2>2, <3>1 DEF IsSeq
  <2>4. ToSet(s) = {C!AttributeRange(a, first, count, c.instances) : a \in ToSet(c.arrays)}
    BY <2>2 DEF ToSet
  <2> QED
    BY <1>2, <2>1, <2>3, <2>4
<1> QED
  BY <1>1, <1>2

\* What is tried for a draw.
LEMMA DrawRangesSeq ==
    ASSUME NEW c, c.arrays \in Seq(C!Array), NEW d,
           c.op \in {"arrays", "multi_arrays", "elements", "multi_elements", "range"}
    PROVE  IsSeq(C!DrawRanges(c, d))
<1>1. \A e : IsSeq(<<e>>)
  BY DEF IsSeq, ToSet
<1>2. IsSeq(C!IndexedRanges(c, d))
  <2>1. C!IndexedRanges(c, d) = <<[store |-> "astray", from |-> d.store]>>
        \/ \E first, count : C!IndexedRanges(c, d) = C!AttributeRanges(c, first, count)
    BY DEF C!IndexedRanges
  <2> QED
    BY <1>1, <2>1, AttributeRangesSeq
<1>3. IsSeq(<<>>)
  BY DEF IsSeq, ToSet
<1>4. CASE c.op \in {"arrays", "multi_arrays"}
  BY <1>4, AttributeRangesSeq DEF C!DrawRanges
<1>5. CASE c.op \in {"elements", "multi_elements"}
  <2>1. C!DrawRanges(c, d) = <<C!IndexRange(d)>> \o (IF C!MinMax(c, d) THEN C!IndexedRanges(c, d) ELSE <<>>)
    BY <1>5 DEF C!DrawRanges
  <2> QED
    BY <1>1, <1>2, <1>3, <2>1, SeqConcat
<1>6. CASE c.op = "range"
  <2> DEFINE bad == C!MinMax(c, d) /\ ~(C!Indices(d, d.count) \subseteq c.start .. c.end)
  <2>1. C!DrawRanges(c, d) = <<C!IndexRange(d)>> \o
            (IF bad THEN <<C!Refused>> ELSE C!AttributeRanges(c, c.start, c.end - c.start + 1))
    BY <1>6 DEF C!DrawRanges
  <2>2. IsSeq(IF bad THEN <<C!Refused>> ELSE C!AttributeRanges(c, c.start, c.end - c.start + 1))
    BY <1>1, AttributeRangesSeq
  <2> HIDE DEF bad
  <2> QED
    BY <1>1, <2>1, <2>2, SeqConcat
<1> QED
  BY <1>4, <1>5, <1>6

\* What is tried for a call.
LEMMA RangesSeq ==
    ASSUME NEW t \in Caller, NEW c \in DrawCalls[t]
    PROVE  /\ IsSeq(C!Ranges(c))
           /\ ~(c.op = "arrays" /\ c.draws[1].first < 0) /\ c.state # "begin_end" =>
                 ToSet(C!Ranges(c)) =
                    {C!Bytes("client", c.lists[k], Len(c.draws)) : k \in DOMAIN c.lists}
                    \cup UNION {ToSet(C!DrawRanges(c, c.draws[k])) : k \in DOMAIN c.draws}
<1>1. c \in C!Call
  BY DrawCallsAssumption DEF C!CallsAssumption
<1>2. /\ c.arrays \in Seq(C!Array) /\ c.lists \in Seq(Nat) /\ c.draws \in Seq(C!Verts \cup C!Elems)
      /\ c.op \in {"arrays", "multi_arrays", "elements", "multi_elements", "range"}
  BY <1>1 DEF C!Call
<1> DEFINE ls == [k \in DOMAIN c.lists |-> C!Bytes("client", c.lists[k], Len(c.draws))]
           ds == [k \in DOMAIN c.draws |-> C!DrawRanges(c, c.draws[k])]
<1>3. IsSeq(ls) /\ ToSet(ls) = {C!Bytes("client", c.lists[k], Len(c.draws)) : k \in DOMAIN c.lists}
  <2>1. DOMAIN c.lists = 1..Len(c.lists) /\ Len(c.lists) \in Nat
    BY <1>2
  <2>2. ls = [k \in 1..Len(c.lists) |-> ls[k]]
    BY <2>1
  <2>3. ToSet(ls) = {C!Bytes("client", c.lists[k], Len(c.draws)) : k \in DOMAIN c.lists}
    BY DEF ToSet
  <2> HIDE DEF ls
  <2> QED
    BY <2>1, <2>2, <2>3, SeqMade
<1>4. IsSeq(ds) /\ DOMAIN ds = DOMAIN c.draws /\ \A k \in DOMAIN ds : IsSeq(ds[k])
  <2>1. DOMAIN c.draws = 1..Len(c.draws) /\ Len(c.draws) \in Nat
    BY <1>2
  <2>2. ds = [k \in 1..Len(c.draws) |-> ds[k]]
    BY <2>1
  <2>3. IsSeq(ds)
    <3> HIDE DEF ds
    <3> QED
      BY <2>1, <2>2, SeqMade
  <2>4. \A d : IsSeq(C!DrawRanges(c, d))
    BY <1>2, DrawRangesSeq
  <2> QED
    BY <2>3, <2>4
<1>5. /\ IsSeq(FlattenSeq(ds))
      /\ ToSet(FlattenSeq(ds)) = UNION {ToSet(ds[k]) : k \in DOMAIN ds}
  <2> HIDE DEF ds
  <2> QED
    BY <1>4, SeqFlatten
<1>6. UNION {ToSet(ds[k]) : k \in DOMAIN ds} = UNION {ToSet(C!DrawRanges(c, c.draws[k])) : k \in DOMAIN c.draws}
  OBVIOUS
<1>7. C!Ranges(c) = IF c.op = "arrays" /\ c.draws[1].first < 0 THEN <<C!Refused>>
                    ELSE IF c.state = "begin_end" THEN <<>> ELSE ls \o FlattenSeq(ds)
  BY SameFlattenSeq DEF C!Ranges
<1> HIDE DEF ls, ds
<1>8. /\ IsSeq(ls \o FlattenSeq(ds))
      /\ ToSet(ls \o FlattenSeq(ds)) = ToSet(ls) \cup ToSet(FlattenSeq(ds))
  BY <1>3, <1>5, SeqConcat
<1>9. IsSeq(<<C!Refused>>) /\ IsSeq(<<>>)
  BY DEF IsSeq, ToSet
<1> QED
  BY <1>3, <1>5, <1>6, <1>7, <1>8, <1>9
-----------------------------------------------------------------------------
\* A call is one, with a sequence of ranges to try.
LEMMA CallRanges ==
    ASSUME NEW t \in Caller, NEW c \in DrawCalls[t]
    PROVE  C!Ranges(c) \in Seq(ToSet(C!Ranges(c)))
BY RangesSeq DEF IsSeq

\* What is left to try after the first.
LEMMA TailFacts ==
    ASSUME NEW S, NEW s \in Seq(S), s # <<>>
    PROVE  /\ Tail(s) \in Seq(S) /\ Head(s) \in S
           /\ \A e \in ToSet(s) : e = Head(s) \/ e \in ToSet(Tail(s))
<1>1. Len(s) \in Nat \ {0} /\ DOMAIN s = 1..Len(s)
  OBVIOUS
<1>2. Tail(s) \in Seq(S) /\ Head(s) \in S /\ Head(s) = s[1] /\ DOMAIN Tail(s) = 1..(Len(s) - 1)
  BY <1>1
<1>3. ASSUME NEW i \in 1..Len(s), i # 1 PROVE s[i] \in ToSet(Tail(s))
  <2>1. i - 1 \in 1..(Len(s) - 1) /\ i - 1 + 1 = i
    BY <1>1, <1>3
  <2>2. Tail(s)[i - 1] = s[i]
    BY <1>1, <2>1
  <2> QED
    BY <1>2, <2>1, <2>2 DEF ToSet
<1> QED
  BY <1>1, <1>2, <1>3 DEF ToSet

\* A thread goes on, and no other is where the mutex is held.
LEMMA CallerMoves ==
    ASSUME DrawIInv, NEW t \in Caller, NEW p, draw_pc' = [draw_pc EXCEPT ![t] = p],
           ~draw_crashed, UNCHANGED draw_crashed, p = C!Idle \/ Checked(t, p), Held(t, p)',
           DOMAIN old_act' = Caller, mutex' = C!NoOne => handler' = C!Own,
           \/ mutex \in {t, C!NoOne} /\ mutex' \in {t, C!NoOne}
           \/ UNCHANGED <<mutex, buf, handler, old_act>>
    PROVE  DrawIInv'
<1>1. DOMAIN draw_pc' = Caller /\ draw_pc'[t] = p /\ \A u \in Caller \ {t} : draw_pc'[u] = draw_pc[u]
  BY DEF DrawIInv
<1>2. ASSUME NEW u \in Caller \ {t} PROVE Held(u, draw_pc[u])'
  <2>1. Held(u, draw_pc[u]) /\ draw_pc'[u] = draw_pc[u] /\ u # C!NoOne
    BY <1>1, CallerAssumption DEF DrawIInv, C!ThreadAssumption
  <2>2. CASE UNCHANGED <<mutex, buf, handler, old_act>>
    BY <2>1, <2>2 DEF Held
  <2>3. CASE mutex \in {t, C!NoOne} /\ mutex' \in {t, C!NoOne}
    <3>1. draw_pc[u].at \notin Critical /\ mutex' # u
      BY <2>1, <2>3 DEF Held
    <3> QED
      BY <2>1, <3>1 DEF Held, Critical
  <2> QED
    BY <2>2, <2>3
<1>3. \A u \in Caller : (draw_pc[u] = C!Idle \/ Checked(u, draw_pc[u]))'
  <2>1. \A u \in Caller \ {t} : (draw_pc[u] = C!Idle \/ Checked(u, draw_pc[u]))'
    <3> SUFFICES ASSUME NEW u \in Caller \ {t} PROVE (draw_pc[u] = C!Idle \/ Checked(u, draw_pc[u]))'
      OBVIOUS
    <3>1. draw_pc[u] = C!Idle \/ Checked(u, draw_pc[u])
      BY DEF DrawIInv
    <3> QED
      BY <1>1, <3>1 DEF Checked, C!Idle
  <2>2. (draw_pc[t] = C!Idle \/ Checked(t, draw_pc[t]))'
    BY <1>1 DEF Checked, C!Idle
  <2> QED
    BY <2>1, <2>2
<1>4. Held(t, draw_pc[t])'
  BY <1>1 DEF Held
<1>5. \A u \in Caller : Held(u, draw_pc[u])'
  BY <1>2, <1>4
<1> QED
  BY <1>1, <1>3, <1>5 DEF DrawIInv

\* The next range, or the end of a call.
LEMMA ResultFacts ==
    ASSUME NEW t \in Caller, NEW p, Checked(t, p), p.at \in {"next", "good", "bad"}, NEW valid \in BOOLEAN,
           Head(p.todo).store = "astray" \/ (valid <=> C!Valid(Head(p.todo)))
    PROVE  LET todo == Tail(p.todo)
               q == [call |-> p.call, todo |-> IF valid THEN todo ELSE <<>>,
                     at |-> IF ~valid THEN "ignored" ELSE IF todo = <<>> THEN "passed" ELSE "next"]
           IN  Checked(t, q)
<1> DEFINE all == ToSet(C!Ranges(p.call))
           todo == Tail(p.todo)
           q == [call |-> p.call, todo |-> IF valid THEN todo ELSE <<>>,
                 at |-> IF ~valid THEN "ignored" ELSE IF todo = <<>> THEN "passed" ELSE "next"]
<1>1. /\ p.call \in DrawCalls[t] /\ p.todo \in Seq(all) /\ p.todo # <<>>
      /\ \A r \in all : r \in ToSet(p.todo) \/ Passes(r)
  BY DEF Checked, Critical
<1>2. /\ todo \in Seq(all) /\ Head(p.todo) \in all
      /\ \A r \in ToSet(p.todo) : r = Head(p.todo) \/ r \in ToSet(todo)
  <2> HIDE DEF all
  <2> QED
    BY <1>1, TailFacts
<1> HIDE DEF todo
<1>3. q.call = p.call /\ q.todo = (IF valid THEN todo ELSE <<>>) /\ q = [at |-> q.at, call |-> q.call, todo |-> q.todo]
      /\ q.at = (IF ~valid THEN "ignored" ELSE IF todo = <<>> THEN "passed" ELSE "next")
  OBVIOUS
<1>4. q.todo \in Seq(all)
  <2> HIDE DEF q
  <2>1. <<>> \in Seq(all)
    OBVIOUS
  <2> QED
    BY <1>2, <1>3, <2>1
<1>5. valid => \A r \in all : r \in ToSet(q.todo) \/ Passes(r)
  BY <1>1, <1>2, <1>3 DEF Passes
<1>6. ~valid => \E r \in all : r.store = "astray" \/ ~C!Valid(r)
  BY <1>2
<1> HIDE DEF q, all
<1>7. Checked(t, q)
  BY <1>1, <1>3, <1>4, <1>5, <1>6 DEF Checked, Critical, all
<1> QED
  BY <1>7 DEF q, todo

\* A thread that is not where the mutex is held, before and after.
LEMMA CallerOutside ==
    ASSUME DrawIInv, NEW t \in Caller, NEW p, draw_pc' = [draw_pc EXCEPT ![t] = p], ~draw_crashed,
           draw_pc[t].at \notin Critical, p.at \notin Critical, p = C!Idle \/ Checked(t, p),
           UNCHANGED <<mutex, buf, handler, old_act, draw_crashed>>
    PROVE  DrawIInv'
<1>1. Held(t, p)'
  <2>1. mutex # t
    BY DEF DrawIInv, Held
  <2> QED
    BY <2>1 DEF Held, Critical
<1>2. DOMAIN old_act' = Caller /\ (mutex' = C!NoOne => handler' = C!Own)
  BY DEF DrawIInv
<1> QED
  BY <1>1, <1>2, CallerMoves

\* What is known of a thread that is checking a call.
LEMMA CheckedFacts ==
    ASSUME DrawIInv, NEW t \in Caller, draw_pc[t].at # "idle"
    PROVE  Checked(t, draw_pc[t]) /\ Held(t, draw_pc[t]) /\ t # C!NoOne
BY CallerAssumption DEF DrawIInv, C!Idle, C!ThreadAssumption

\* A drawing call begins with all its ranges to try (checks_glDrawArrays and those after it).
LEMMA DrawInv ==
    ASSUME DrawIInv, NEW t \in Caller, NEW c \in DrawCalls[t], C!Draw(t, c)
    PROVE  DrawIInv'
<1> DEFINE todo == C!Ranges(c)
           p == [at |-> IF todo = <<>> THEN "passed" ELSE "next", call |-> c, todo |-> todo]
<1>1. /\ draw_pc[t].at = "idle" /\ ~draw_crashed /\ draw_pc' = [draw_pc EXCEPT ![t] = p]
      /\ UNCHANGED <<mutex, buf, handler, old_act, draw_crashed>>
  BY DEF C!Draw, C!At, C!Goto
<1>2. todo \in Seq(ToSet(todo))
  BY CallRanges
<1>3. p.at = (IF todo = <<>> THEN "passed" ELSE "next") /\ p.call = c /\ p.todo = todo
      /\ p = [at |-> p.at, call |-> p.call, todo |-> p.todo]
  OBVIOUS
<1> HIDE DEF p
<1>4. Checked(t, p)
  BY <1>2, <1>3 DEF Checked, Critical
<1>5. draw_pc[t].at \notin Critical /\ p.at \notin Critical
  BY <1>1, <1>3 DEF Critical
<1> QED
  BY <1>1, <1>4, <1>5, CallerOutside

\* A range in a buffer object, or indices after the last one of a buffer (valid_vbo_range).
LEMMA CompareInv ==
    ASSUME DrawIInv, NEW t \in Caller, C!Compare(t) \/ (C!Stray(t) /\ UNCHANGED draw_crashed)
    PROVE  DrawIInv'
<1>1. /\ draw_pc[t].at = "next" /\ ~draw_crashed
      /\ UNCHANGED <<mutex, buf, handler, old_act, draw_crashed>>
  BY DEF C!Compare, C!Stray, C!At
<1>2. Checked(t, draw_pc[t])
  BY <1>1, CheckedFacts
<1>3. PICK valid \in BOOLEAN :
          /\ Head(draw_pc[t].todo).store = "astray" \/ (valid <=> C!Valid(Head(draw_pc[t].todo)))
          /\ C!Result(t, valid)
  <2>1. CASE C!Compare(t)
    <3>1. C!Valid(Head(draw_pc[t].todo)) \in BOOLEAN
      BY DEF C!Valid
    <3> QED
      BY <2>1, <3>1 DEF C!Compare
  <2>2. CASE C!Stray(t) /\ UNCHANGED draw_crashed
    BY <1>1, <2>2 DEF C!Stray
  <2> QED
    BY <2>1, <2>2
<1> DEFINE todo == Tail(draw_pc[t].todo)
           p == [call |-> draw_pc[t].call, todo |-> IF valid THEN todo ELSE <<>>,
                 at |-> IF ~valid THEN "ignored" ELSE IF todo = <<>> THEN "passed" ELSE "next"]
<1>4. draw_pc' = [draw_pc EXCEPT ![t] = p]
  BY <1>3 DEF C!Result, C!Goto
<1>5. Checked(t, p)
  BY <1>1, <1>2, <1>3, ResultFacts
<1>6. draw_pc[t].at \notin Critical /\ p.at \notin Critical
  BY <1>1 DEF Critical
<1> HIDE DEF p
<1> QED
  BY <1>1, <1>4, <1>5, <1>6, CallerOutside

\* A thread goes on with the range that it is at.
LEMMA MovedOn ==
    ASSUME NEW t \in Caller, NEW p, Checked(t, p), NEW at \in Critical,
           p.at \in {"next"} \cup Critical, p.at = "next" => Head(p.todo).store = "client",
           at = "good" => C!Valid(Head(p.todo)), at = "bad" => ~C!Valid(Head(p.todo))
    PROVE  Checked(t, [p EXCEPT !.at = at]) /\ [p EXCEPT !.at = at].at = at
<1> DEFINE q == [p EXCEPT !.at = at]
<1>1. p = [at |-> p.at, call |-> p.call, todo |-> p.todo]
  BY DEF Checked
<1>2. q = [at |-> at, call |-> p.call, todo |-> p.todo]
  BY <1>1
<1>3. q.at = at /\ q.call = p.call /\ q.todo = p.todo /\ q = [at |-> q.at, call |-> q.call, todo |-> q.todo]
  BY <1>2
<1> HIDE DEF q
<1>4. Checked(t, q)
  BY <1>3 DEF Checked, Critical
<1> QED
  BY <1>3, <1>4 DEF q

\* valid_read_range takes checks_mutex: nobody else has the handler in place.
LEMMA CheckLockInv == ASSUME DrawIInv, NEW t \in Caller, C!Lock(t) PROVE DrawIInv'
<1>0. PICK p : p = [draw_pc[t] EXCEPT !.at = "setjmp"]
  OBVIOUS
<1>1. /\ draw_pc[t].at = "next" /\ ~draw_crashed /\ Head(draw_pc[t].todo).store = "client"
      /\ mutex = C!NoOne /\ mutex' = t /\ draw_pc' = [draw_pc EXCEPT ![t] = p]
      /\ UNCHANGED <<buf, handler, old_act, draw_crashed>>
  BY <1>0 DEF C!Lock, C!At, C!Goto
<1>2. Checked(t, draw_pc[t]) /\ t # C!NoOne
  BY <1>1, CheckedFacts
<1>3. Checked(t, p) /\ p.at = "setjmp"
  <2>1. "setjmp" \in Critical /\ draw_pc[t].at \in {"next"} \cup Critical
    BY <1>1 DEF Critical
  <2> QED
    BY <1>0, <1>1, <1>2, <2>1, MovedOn
<1>4. handler = C!Own /\ DOMAIN old_act = Caller
  BY <1>1 DEF DrawIInv
<1>5. Held(t, p)'
  BY <1>1, <1>3, <1>4 DEF Held, Critical
<1> QED
  BY <1>1, <1>2, <1>3, <1>4, <1>5, CallerMoves

\* sigsetjmp, with the mutex held: the jump buffer is this thread's.
LEMMA SetjmpInv == ASSUME DrawIInv, NEW t \in Caller, C!Setjmp(t) PROVE DrawIInv'
<1>0. PICK p : p = [draw_pc[t] EXCEPT !.at = "install"]
  OBVIOUS
<1>1. /\ draw_pc[t].at = "setjmp" /\ ~draw_crashed /\ buf' = t /\ draw_pc' = [draw_pc EXCEPT ![t] = p]
      /\ UNCHANGED <<mutex, handler, old_act, draw_crashed>>
  BY <1>0 DEF C!Setjmp, C!At, C!Goto
<1>2. Checked(t, draw_pc[t]) /\ Held(t, draw_pc[t]) /\ t # C!NoOne
  BY <1>1, CheckedFacts
<1>3. Checked(t, p) /\ p.at = "install"
  <2>1. "install" \in Critical /\ draw_pc[t].at \in {"next"} \cup Critical
    BY <1>1 DEF Critical
  <2> QED
    BY <1>0, <1>1, <1>2, <2>1, MovedOn
<1>4. mutex = t /\ handler = C!Own /\ DOMAIN old_act = Caller
  BY <1>1, <1>2 DEF DrawIInv, Held, Critical
<1>5. Held(t, p)'
  BY <1>1, <1>3, <1>4 DEF Held, Critical
<1> QED
  BY <1>1, <1>2, <1>3, <1>4, <1>5, CallerMoves

\* The handler that is replaced is the application's.
LEMMA InstallInv == ASSUME DrawIInv, NEW t \in Caller, C!Install(t) PROVE DrawIInv'
<1>0. PICK p : p = [draw_pc[t] EXCEPT !.at = "read"]
  OBVIOUS
<1>1. /\ draw_pc[t].at = "install" /\ ~draw_crashed /\ draw_pc' = [draw_pc EXCEPT ![t] = p]
      /\ handler' = "checks" /\ old_act' = [old_act EXCEPT ![t] = handler]
      /\ UNCHANGED <<mutex, buf, draw_crashed>>
  BY <1>0 DEF C!Install, C!At, C!Goto
<1>2. Checked(t, draw_pc[t]) /\ Held(t, draw_pc[t]) /\ t # C!NoOne
  BY <1>1, CheckedFacts
<1>3. Checked(t, p) /\ p.at = "read"
  <2>1. "read" \in Critical /\ draw_pc[t].at \in {"next"} \cup Critical
    BY <1>1 DEF Critical
  <2> QED
    BY <1>0, <1>1, <1>2, <2>1, MovedOn
<1>4. mutex = t /\ buf = t /\ handler = C!Own /\ DOMAIN old_act = Caller
  BY <1>1, <1>2 DEF DrawIInv, Held, Critical
<1>5. Held(t, p)' /\ DOMAIN old_act' = Caller
  BY <1>1, <1>3, <1>4 DEF Held, Critical
<1> QED
  BY <1>1, <1>2, <1>3, <1>4, <1>5, CallerMoves

\* A read that fails jumps back into the thread that it failed in.
LEMMA ReadInv == ASSUME DrawIInv, NEW t \in Caller, C!Read(t) PROVE DrawIInv'
<1>1. /\ draw_pc[t].at = "read" /\ ~draw_crashed /\ UNCHANGED <<mutex, buf, handler, old_act>>
  BY DEF C!Read, C!At
<1>2. Checked(t, draw_pc[t]) /\ Held(t, draw_pc[t]) /\ t # C!NoOne
  BY <1>1, CheckedFacts
<1>3. mutex = t /\ buf = t /\ handler = "checks" /\ old_act[t] = C!Own /\ DOMAIN old_act = Caller
  BY <1>1, <1>2 DEF DrawIInv, Held, Critical
<1> DEFINE valid == C!Valid(Head(draw_pc[t].todo))
<1>6. PICK at \in {"good", "bad"} : at = IF valid THEN "good" ELSE "bad"
  OBVIOUS
<1>0. PICK p : p = [draw_pc[t] EXCEPT !.at = at]
  OBVIOUS
<1>4. draw_pc' = [draw_pc EXCEPT ![t] = p] /\ UNCHANGED draw_crashed
  BY <1>0, <1>3, <1>6 DEF C!Read, C!Goto
<1>5. Checked(t, p) /\ p.at = at
  <2>1. at \in Critical /\ draw_pc[t].at \in Critical /\ draw_pc[t].at # "next"
    BY <1>1 DEF Critical
  <2>2. (at = "good" => valid) /\ (at = "bad" => ~valid)
    BY <1>6
  <2> QED
    BY <1>0, <1>2, <2>1, <2>2, MovedOn
<1>7. Held(t, p)'
  BY <1>1, <1>3, <1>5, <1>6 DEF Held, Critical
<1> QED
  BY <1>1, <1>2, <1>3, <1>4, <1>5, <1>7, CallerMoves

\* The application has its handler back before the mutex is given back.
LEMMA RestoreInv == ASSUME DrawIInv, NEW t \in Caller, C!Restore(t) PROVE DrawIInv'
<1>1. /\ draw_pc[t].at \in {"good", "bad"} /\ ~draw_crashed
      /\ handler' = old_act[t] /\ mutex' = C!NoOne /\ UNCHANGED <<buf, old_act, draw_crashed>>
  BY DEF C!Restore, C!At
<1>2. Checked(t, draw_pc[t]) /\ Held(t, draw_pc[t]) /\ t # C!NoOne
  BY <1>1, CheckedFacts
<1>3. mutex = t /\ old_act[t] = C!Own /\ DOMAIN old_act = Caller
  BY <1>1, <1>2 DEF DrawIInv, Held, Critical
<1>4. PICK valid \in BOOLEAN : valid = (draw_pc[t].at = "good")
  OBVIOUS
<1> DEFINE todo == Tail(draw_pc[t].todo)
<1>0. PICK p : p = [call |-> draw_pc[t].call, todo |-> IF valid THEN todo ELSE <<>>,
                 at |-> IF ~valid THEN "ignored" ELSE IF todo = <<>> THEN "passed" ELSE "next"]
  OBVIOUS
<1>5. draw_pc' = [draw_pc EXCEPT ![t] = p]
  BY <1>0, <1>4 DEF C!Restore, C!Result, C!Goto
<1>6. valid <=> C!Valid(Head(draw_pc[t].todo))
  BY <1>1, <1>2, <1>4 DEF Checked
<1>7. Checked(t, p)
  BY <1>0, <1>1, <1>2, <1>6, ResultFacts
<1>8. p.at \notin Critical
  BY <1>0 DEF Critical
<1>9. Held(t, p)'
  BY <1>1, <1>2, <1>8 DEF Held, Critical
<1> QED
  BY <1>1, <1>3, <1>5, <1>7, <1>9, CallerMoves

\* The call is over.
LEMMA ReturnInv == ASSUME DrawIInv, NEW t \in Caller, C!Return(t) PROVE DrawIInv'
<1>1. /\ draw_pc[t].at \in {"passed", "ignored"} /\ ~draw_crashed /\ draw_pc' = [draw_pc EXCEPT ![t] = C!Idle]
      /\ UNCHANGED <<mutex, buf, handler, old_act, draw_crashed>>
  BY DEF C!Return, C!At, C!Goto
<1>2. C!Idle.at \notin Critical /\ draw_pc[t].at \notin Critical
  BY <1>1 DEF C!Idle, Critical
<1> QED
  BY <1>1, <1>2, CallerOutside
-----------------------------------------------------------------------------
\* A number that is small enough is its remainder.
LEMMA SmallMod == ASSUME NEW n \in Nat, NEW x \in 0 .. n - 1 PROVE x % n = x
OBVIOUS

\* Some bytes are good if each of them is there.
LEMMA BytesValid ==
    ASSUME NEW store \in C!Store, NEW start \in Nat, NEW n \in Nat \ {0}, start + n < Width
    PROVE  C!Valid(C!Bytes(store, start, n)) <=> {<<store, x>> : x \in start .. start + n - 1} \subseteq C!Safe
<1> DEFINE r == C!Bytes(store, start, n)
<1>1. Width \in Nat /\ BufferSize \in 0 .. Width - 1
  BY ContentAssumption DEF C!MemoryAssumption
<1>2. start % Width = start /\ n % Width = n
  <2>1. start \in 0 .. Width - 1 /\ n \in 0 .. Width - 1
    BY <1>1
  <2> QED
    BY <1>1, <2>1, SmallMod
<1>3. r.store = store /\ r.start = start /\ r.size = n
  BY <1>2 DEF C!Bytes
<1> HIDE DEF r
<1>4. \A k \in 0 .. n - 1 : (start + k) % Width = start + k
  <2>1. \A k \in 0 .. n - 1 : start + k \in 0 .. Width - 1
    BY <1>1
  <2> QED
    BY <1>1, <2>1, SmallMod
<1>5. \A x \in start .. start + n - 1 : x - start \in 0 .. n - 1 /\ start + (x - start) = x
  OBVIOUS
<1>6. \A k \in 0 .. n - 1 : start + k \in start .. start + n - 1
  OBVIOUS
<1>7. CASE store = "client"
  <2>1. C!Valid(r) <=> \A k \in 0 .. n - 1 : start + k \in Readable
    BY <1>3, <1>4, <1>7 DEF C!Valid
  <2>2. (\A k \in 0 .. n - 1 : start + k \in Readable) <=> \A x \in start .. start + n - 1 : x \in Readable
    <3>1. ASSUME \A k \in 0 .. n - 1 : start + k \in Readable, NEW x \in start .. start + n - 1 PROVE x \in Readable
      <4>1. x - start \in 0 .. n - 1 /\ start + (x - start) = x
        BY <1>5
      <4> QED
        BY <3>1, <4>1
    <3> QED
      BY <1>6, <3>1
  <2>3. \A x : <<store, x>> \in C!Safe <=> x \in Readable
    BY <1>7 DEF C!Safe
  <2> QED
    BY <2>1, <2>2, <2>3 DEF r
<1>8. CASE store = "buffer"
  <2>1. (start + n) % Width = start + n
    <3>1. start + n \in 0 .. Width - 1
      BY <1>1
    <3> QED
      BY <1>1, <3>1, SmallMod
  <2>2. C!Valid(r) <=> start <= BufferSize /\ start + n <= BufferSize
    BY <1>3, <1>8, <2>1 DEF C!Valid
  <2>3. \A x : <<store, x>> \in C!Safe <=> x \in 0 .. BufferSize - 1
    BY <1>8 DEF C!Safe
  <2>4. start <= BufferSize /\ start + n <= BufferSize <=> \A x \in start .. start + n - 1 : x \in 0 .. BufferSize - 1
    <3>1. start + n - 1 \in start .. start + n - 1
      OBVIOUS
    <3>2. start + n - 1 \in 0 .. BufferSize - 1 => start + n <= BufferSize /\ start <= BufferSize
      BY <1>1
    <3>3. start + n <= BufferSize => \A x \in start .. start + n - 1 : x \in 0 .. BufferSize - 1
      BY <1>1
    <3> QED
      BY <3>1, <3>2, <3>3
  <2> QED
    BY <2>2, <2>3, <2>4 DEF r
<1> QED
  BY <1>7, <1>8 DEF C!Store

\* Indices that may be read are.
LEMMA IndicesThere ==
    ASSUME NEW d \in C!Elems, d.count > 0, d.at + d.count < Width
    PROVE  /\ C!Valid(C!IndexRange(d)) <=> {<<d.store, d.at + i>> : i \in 0 .. d.count - 1} \subseteq C!Safe
           /\ C!Valid(C!IndexRange(d)) => \A i \in 0 .. d.count - 1 : d.at + i \in DOMAIN Content[d.store]
<1>1. d.at \in Nat /\ d.store \in C!Store /\ d.count \in Nat \ {0}
  BY DEF C!Elems
<1>2. {<<d.store, d.at + i>> : i \in 0 .. d.count - 1} = {<<d.store, x>> : x \in d.at .. d.at + d.count - 1}
  <2>1. \A i \in 0 .. d.count - 1 : d.at + i \in d.at .. d.at + d.count - 1
    BY <1>1
  <2>2. \A x \in d.at .. d.at + d.count - 1 : x - d.at \in 0 .. d.count - 1 /\ d.at + (x - d.at) = x
    BY <1>1
  <2> QED
    BY <2>1, <2>2
<1>3. C!Valid(C!IndexRange(d)) <=> {<<d.store, d.at + i>> : i \in 0 .. d.count - 1} \subseteq C!Safe
  BY <1>1, <1>2, BytesValid DEF C!IndexRange
<1>4. \A x : <<d.store, x>> \in C!Safe => x \in DOMAIN Content[d.store]
  BY <1>1, ContentAssumption DEF C!Safe, C!MemoryAssumption, C!Store
<1> QED
  BY <1>3, <1>4

\* What kind of draws a call has.
LEMMA CallFacts ==
    ASSUME NEW t \in Caller, NEW c \in DrawCalls[t]
    PROVE  /\ c \in C!Call /\ C!Fits(c)
           /\ c.arrays \in Seq(C!Array) /\ c.lists \in Seq(Nat) /\ c.instances \in Int /\ c.start \in Int /\ c.end \in Int
           /\ c.op \in {"arrays", "multi_arrays", "elements", "multi_elements", "range"}
           /\ \A k \in DOMAIN c.draws :
                 c.draws[k] \in IF c.op \in {"arrays", "multi_arrays"} THEN C!Verts ELSE C!Elems
           /\ Len(c.draws) \in Nat /\ DOMAIN c.draws = 1 .. Len(c.draws)
           /\ c.op \notin {"multi_arrays", "multi_elements"} => Len(c.draws) = 1
<1>1. /\ c \in C!Call /\ C!Fits(c)
      /\ c.draws \in Seq(IF c.op \in {"arrays", "multi_arrays"} THEN C!Verts ELSE C!Elems)
      /\ c.op \notin {"multi_arrays", "multi_elements"} => Len(c.draws) = 1
  BY DrawCallsAssumption DEF C!CallsAssumption
<1> DEFINE D == IF c.op \in {"arrays", "multi_arrays"} THEN C!Verts ELSE C!Elems
<1>2. /\ \A k \in DOMAIN c.draws : c.draws[k] \in D
      /\ Len(c.draws) \in Nat /\ DOMAIN c.draws = 1 .. Len(c.draws)
  <2> HIDE DEF D
  <2>1. c.draws \in Seq(D)
    BY <1>1 DEF D
  <2> QED
    BY <2>1
<1> QED
  BY <1>1, <1>2 DEF C!Call

\* A call whose indices are counted right never looks at others.
LEMMA AstrayNone ==
    ASSUME NEW t \in Caller, NEW c \in DrawCalls[t], C!Counting(c), NEW r \in ToSet(C!Ranges(c))
    PROVE  r.store # "astray"
<1>1. /\ c.arrays \in Seq(C!Array) /\ C!Fits(c)
      /\ c.op \in {"arrays", "multi_arrays", "elements", "multi_elements", "range"}
  BY CallFacts
<1>2. ASSUME NEW first, NEW count, NEW q \in ToSet(C!AttributeRanges(c, first, count)) PROVE q.store # "astray"
  <2>1. \A a \in ToSet(c.arrays) : a.store \in C!Store
    <3>1. ToSet(c.arrays) \subseteq C!Array
      BY <1>1, SeqBack
    <3> QED
      BY <3>1 DEF C!Array
  <2>2. q \in {C!AttributeRange(a, first, count, c.instances) : a \in ToSet(c.arrays)}
    BY <1>1, <1>2, AttributeRangesSeq
  <2>3. \A a : C!AttributeRange(a, first, count, c.instances).store = a.store
    BY DEF C!AttributeRange, C!Bytes
  <2> QED
    BY <2>1, <2>2, <2>3 DEF C!Store
<1>3. ASSUME NEW k \in DOMAIN c.draws, NEW q \in ToSet(C!DrawRanges(c, c.draws[k])) PROVE q.store # "astray"
  <2> DEFINE d == c.draws[k]
  <2>1. CASE c.op \in {"arrays", "multi_arrays"}
    BY <1>2, <1>3, <2>1 DEF C!DrawRanges
  <2>2. CASE c.op \in {"elements", "multi_elements", "range"}
    <3>1. d \in C!Elems /\ C!Counted(c, d) = d.count
      BY <2>2, CallFacts DEF C!Counting
    <3>2. "at" \in DOMAIN d /\ d.count \in Int /\ d.store \in C!Store
      BY <3>1 DEF C!Elems
    <3>3. d.at + d.count < Width
      BY <1>1, <3>2 DEF C!Fits
    <3>4. C!MinMax(c, d) => C!Astray(c, d) = {}
      BY <3>1, <3>3, IndicesThere DEF C!MinMax, C!Astray
    <3>5. C!MinMax(c, d) => \E first, count : C!IndexedRanges(c, d) = C!AttributeRanges(c, first, count)
      BY <3>4 DEF C!IndexedRanges
    <3>6. C!IndexRange(d).store # "astray" /\ C!Refused.store # "astray"
      BY <3>2 DEF C!IndexRange, C!Bytes, C!Store, C!Refused
    <3>7. PICK rest : /\ C!DrawRanges(c, d) = <<C!IndexRange(d)>> \o rest
                      /\ rest = <<>> \/ rest = <<C!Refused>> \/ \E first, count : rest = C!AttributeRanges(c, first, count)
      <4>1. CASE c.op \in {"elements", "multi_elements"}
        BY <3>5, <4>1 DEF C!DrawRanges
      <4>2. CASE c.op = "range"
        <5>1. PICK bad \in BOOLEAN : bad <=> C!MinMax(c, d) /\ ~(C!Indices(d, d.count) \subseteq c.start .. c.end)
          OBVIOUS
        <5>2. C!DrawRanges(c, d) = <<C!IndexRange(d)>> \o
                (IF bad THEN <<C!Refused>> ELSE C!AttributeRanges(c, c.start, c.end - c.start + 1))
          BY <4>2, <5>1 DEF C!DrawRanges
        <5> QED
          BY <5>2
      <4> QED
        BY <2>2, <4>1, <4>2
    <3>8. IsSeq(rest) /\ IsSeq(<<C!IndexRange(d)>>) /\ ToSet(<<C!IndexRange(d)>>) = {C!IndexRange(d)}
      <4>1. \A e : IsSeq(<<e>>) /\ ToSet(<<e>>) = {e}
        BY DEF IsSeq, ToSet
      <4>2. IsSeq(<<>>)
        BY DEF IsSeq, ToSet
      <4> QED
        BY <1>1, <3>7, <4>1, <4>2, AttributeRangesSeq
    <3>9. \A e \in ToSet(rest) : e.store # "astray"
      <4>1. ToSet(<<>>) = {} /\ ToSet(<<C!Refused>>) = {C!Refused}
        BY DEF ToSet
      <4> QED
        BY <1>2, <3>6, <3>7, <4>1
    <3> HIDE DEF d
    <3>10. q = C!IndexRange(d) \/ q \in ToSet(rest)
      <4>1. ToSet(<<C!IndexRange(d)>> \o rest) = ToSet(<<C!IndexRange(d)>>) \cup ToSet(rest)
        BY <3>8, SeqConcat
      <4> QED
        BY <1>3, <3>7, <3>8, <4>1 DEF d
    <3> QED
      BY <3>6, <3>9, <3>10
  <2> QED
    BY <1>1, <2>1, <2>2
<1>4. CASE ~(c.op = "arrays" /\ c.draws[1].first < 0) /\ c.state # "begin_end"
  <2>1. \/ r \in {C!Bytes("client", c.lists[k], Len(c.draws)) : k \in DOMAIN c.lists}
        \/ \E k \in DOMAIN c.draws : r \in ToSet(C!DrawRanges(c, c.draws[k]))
    BY <1>4, RangesSeq
  <2>2. \A k : C!Bytes("client", c.lists[k], Len(c.draws)).store # "astray"
    BY DEF C!Bytes
  <2> QED
    BY <1>3, <2>1, <2>2
<1>5. CASE ~(~(c.op = "arrays" /\ c.draws[1].first < 0) /\ c.state # "begin_end")
  <2>1. C!Ranges(c) = <<C!Refused>> \/ C!Ranges(c) = <<>>
    BY <1>5 DEF C!Ranges
  <2>2. ToSet(<<C!Refused>>) = {C!Refused} /\ ToSet(<<>>) = {}
    BY DEF ToSet
  <2> QED
    BY <2>1, <2>2 DEF C!Refused
<1> QED
  BY <1>4, <1>5
-----------------------------------------------------------------------------
\* Indices after the last one: only a call whose indices are counted wrong looks at them.
LEMMA StrayInv == ASSUME DrawIInv, NEW t \in Caller, C!Stray(t) PROVE DrawIInv'
<1>1. CASE UNCHANGED draw_crashed
  BY <1>1, CompareInv
<1>2. CASE ~UNCHANGED draw_crashed
  <2>1. /\ draw_pc[t].at = "next" /\ Head(draw_pc[t].todo).store = "astray" /\ draw_crashed' = TRUE
        /\ UNCHANGED <<draw_pc, mutex, buf, handler, old_act>>
    BY <1>2 DEF C!Stray, C!At
  <2>2. Checked(t, draw_pc[t])
    BY <2>1, CheckedFacts
  <2>3. PICK c : c = draw_pc[t].call
    OBVIOUS
  <2>4. c \in DrawCalls[t] /\ Head(draw_pc[t].todo) \in ToSet(C!Ranges(c))
    <3>1. PICK all : all = ToSet(C!Ranges(c))
      OBVIOUS
    <3>2. c \in DrawCalls[t] /\ draw_pc[t].todo \in Seq(all) /\ draw_pc[t].todo # <<>>
      BY <2>1, <2>2, <2>3, <3>1 DEF Checked
    <3> QED
      BY <3>1, <3>2
  <2>5. ~C!Counting(c)
    BY <2>1, <2>4, AstrayNone
  <2>6. \E u \in Caller : draw_pc[u].at # "idle" /\ ~C!Counting(draw_pc[u].call)
    BY <2>1, <2>3, <2>5
  <2>7. \A u \in Caller : (draw_pc[u] = C!Idle \/ Checked(u, draw_pc[u]))'
    BY <2>1 DEF DrawIInv, Checked, C!Idle
  <2> QED
    BY <2>1, <2>6, <2>7 DEF DrawIInv, Held
<1> QED
  BY <1>1, <1>2

\* No call is being checked to begin with.
LEMMA DrawInitInv == ASSUME C!Init PROVE DrawIInv
BY CallerAssumption DEF C!Init, C!Idle, DrawIInv, Held, Critical, C!ThreadAssumption

\* Every step keeps the invariant.
LEMMA DrawNextInv == ASSUME DrawIInv, [C!Next]_C!vars PROVE DrawIInv'
<1>1. CASE C!Next
  BY <1>1, DrawInv, CompareInv, StrayInv, CheckLockInv, SetjmpInv, InstallInv, ReadInv, RestoreInv, ReturnInv DEF C!Next
<1>2. CASE UNCHANGED C!vars
  <2>1. UNCHANGED <<draw_pc, mutex, buf, handler, old_act, draw_crashed>>
    BY <1>2 DEF C!vars
  <2>2. \A u \in Caller : (draw_pc[u] = C!Idle \/ Checked(u, draw_pc[u]))'
    BY <2>1 DEF DrawIInv, Checked, C!Idle
  <2> QED
    BY <2>1, <2>2 DEF DrawIInv, Held
<1> QED
  BY <1>1, <1>2

(* Of a call that is being checked, every range was good or is still to be tried; the jump
   buffer, the handler and what it replaced belong to the thread that has checks_mutex; and only
   a call whose indices are counted wrong crashes the application. *)
THEOREM DrawInvariant == C!Spec => []DrawIInv
<1>1. C!Init => DrawIInv
  BY DrawInitInv
<1>2. DrawIInv /\ [C!Next]_C!vars => DrawIInv'
  BY DrawNextInv
<1> QED
  BY <1>1, <1>2, PTL DEF C!Spec
-----------------------------------------------------------------------------
\* The first and the last of some numbers.
LEMMA FirstAndLast ==
    ASSUME NEW S, NEW lo \in S, NEW hi \in S, S \subseteq Int, \A x \in S : lo <= x /\ x <= hi
    PROVE  C!Min(S) = lo /\ C!Max(S) = hi
<1>1. C!Min(S) \in S /\ \A y \in S : C!Min(S) <= y
  <2>1. \E x \in S : \A y \in S : x <= y
    OBVIOUS
  <2> QED
    BY <2>1 DEF C!Min
<1>2. C!Max(S) \in S /\ \A y \in S : C!Max(S) >= y
  <2>1. \E x \in S : \A y \in S : x >= y
    OBVIOUS
  <2> QED
    BY <2>1 DEF C!Max
<1>3. lo <= C!Min(S) /\ C!Min(S) <= lo /\ C!Max(S) >= hi /\ hi >= C!Max(S)
  BY <1>1, <1>2
<1>4. C!Min(S) \in Int /\ C!Max(S) \in Int /\ lo \in Int /\ hi \in Int
  BY <1>1, <1>2
<1> QED
  BY <1>3, <1>4

\* Some numbers up to a bound have a first and a last.
LEMMA FirstAndLastExist ==
    ASSUME NEW S, S # {}, NEW n \in Nat, S \subseteq 0 .. n
    PROVE  \E lo, hi \in S : \A x \in S : lo <= x /\ x <= hi
<1>1. PICK lo \in S : \A x \in S : lo <= x
  BY LeastNat
<1> DEFINE T == {n - x : x \in S}
<1>2. T \in SUBSET Nat /\ T # {}
  <2>1. \A x \in S : n - x \in Nat
    OBVIOUS
  <2> QED
    BY <2>1
<1>3. PICK m \in T : \A k \in T : m <= k
  <2> HIDE DEF T
  <2> QED
    BY <1>2, LeastNat
<1>4. PICK hi \in S : m = n - hi
  OBVIOUS
<1>5. ASSUME NEW x \in S PROVE x <= hi
  <2>1. n - hi <= n - x
    BY <1>3, <1>4
  <2>2. x \in Nat /\ hi \in Nat
    OBVIOUS
  <2> QED
    BY <2>1, <2>2
<1> QED
  BY <1>1, <1>5

\* Of a division, what is nearest.
LEMMA Quotient ==
    ASSUME NEW x \in Nat, NEW n \in Nat \ {0}
    PROVE  x \div n \in Nat /\ n * (x \div n) <= x /\ x < n * (x \div n) + n
OBVIOUS

\* And only that is the quotient.
LEMMA QuotientIs ==
    ASSUME NEW x \in Nat, NEW n \in Nat \ {0}, NEW q \in Nat, n * q <= x, x < n * q + n
    PROVE  x \div n = q
<1>1. x \div n \in Nat /\ n * (x \div n) <= x /\ x < n * (x \div n) + n
  BY Quotient
<1> DEFINE p == x \div n
<1> HIDE DEF p
<1>2. p \in Nat /\ n * p < n * q + n /\ n * q < n * p + n
  BY <1>1 DEF p
<1>3. n * q + n = n * (q + 1) /\ n * p + n = n * (p + 1)
  BY <1>2
<1>4. \A a, b \in Nat : n * a < n * b => a < b
  <2> SUFFICES ASSUME NEW a \in Nat, NEW b \in Nat, b <= a PROVE n * b <= n * a
    OBVIOUS
  <2>1. PICK m \in Nat : a = b + m
    <3>1. a - b \in Nat /\ a = b + (a - b)
      OBVIOUS
    <3> QED
      BY <3>1
  <2>2. n * a = n * b + n * m /\ n * m \in Nat /\ n * b \in Nat
    BY <2>1
  <2> QED
    BY <2>2
<1>5. p < q + 1 /\ q < p + 1
  BY <1>2, <1>3, <1>4
<1> QED
  BY <1>2, <1>5 DEF p

\* How many elements some instances have: one more than the last of them is.
LEMMA DivisorElements ==
    ASSUME NEW i \in Nat \ {0}, NEW n \in Nat \ {0}
    PROVE  /\ (i + n - 1) \div n = (i - 1) \div n + 1
           /\ \A k \in 0 .. i - 1 : k \div n \in 0 .. (i - 1) \div n
           /\ 0 \div n = 0 /\ (i - 1) \div n \in Nat
<1>1. PICK q : q = (i - 1) \div n
  OBVIOUS
<1>2. q \in Nat /\ n * q <= i - 1 /\ i - 1 < n * q + n
  BY <1>1, Quotient
<1>3. (i + n - 1) \div n = q + 1
  <2>1. n * (q + 1) = n * q + n /\ n * q \in Nat
    BY <1>2
  <2>2. n * (q + 1) <= i + n - 1 /\ i + n - 1 < n * (q + 1) + n /\ i + n - 1 \in Nat /\ q + 1 \in Nat
    BY <1>2, <2>1
  <2> QED
    BY <2>2, QuotientIs
<1>4. ASSUME NEW k \in 0 .. i - 1 PROVE k \div n \in 0 .. q
  <2>1. PICK p : p = k \div n
    OBVIOUS
  <2>2. p \in Nat /\ n * p <= k
    BY <2>1, Quotient
  <2>3. n * p < n * q + n
    BY <1>2, <2>2
  <2>4. p <= q
    <3> SUFFICES ASSUME p > q PROVE FALSE
      BY <1>2, <2>2
    <3>1. PICK m \in Nat : p = q + 1 + m
      <4>1. p - q - 1 \in Nat /\ p = q + 1 + (p - q - 1)
        BY <1>2, <2>2
      <4> QED
        BY <4>1
    <3>2. n * p = n * q + n + n * m /\ n * m \in Nat /\ n * q \in Nat
      BY <1>2, <3>1
    <3> QED
      BY <2>3, <3>2
  <2> QED
    BY <1>2, <2>1, <2>2, <2>4
<1>5. 0 \div n = 0
  BY QuotientIs
<1> QED
  BY <1>1, <1>2, <1>3, <1>4, <1>5
-----------------------------------------------------------------------------
\* A step from one element to a later one is a number of strides.
LEMMA Strides ==
    ASSUME NEW s \in Nat, NEW lo \in Int, NEW hi \in Int, lo <= hi
    PROVE  s * lo \in Int /\ s * hi \in Int /\ (hi - lo) * s = s * hi - s * lo /\ s * lo <= s * hi
<1>1. PICK m \in Nat : hi = lo + m
  <2>1. hi - lo \in Nat /\ hi = lo + (hi - lo)
    OBVIOUS
  <2> QED
    BY <2>1
<1>2. s * lo \in Int /\ s * m \in Nat /\ s * hi = s * lo + s * m
  BY <1>1
<1>3. hi - lo = m /\ m * s = s * m
  BY <1>1
<1> QED
  BY <1>2, <1>3

(* The range that is tried for an array is good if all is there from the first element
   that a draw may read to the last. *)
LEMMA SpanValid ==
    ASSUME NEW c, NEW d, NEW a \in C!Array, NEW lo \in C!Elements(c, a, d), NEW hi \in C!Elements(c, a, d),
           C!Elements(c, a, d) \subseteq Int, \A v \in C!Elements(c, a, d) : lo <= v /\ v <= hi,
           \A v \in C!Elements(c, a, d) : a.ptr + C!Stride(a) * v \in 0 .. Width - a.group - 1,
           NEW r, r = C!Bytes(a.store, a.ptr + C!Stride(a) * lo, (hi - lo) * C!Stride(a) + a.group)
    PROVE  /\ C!Valid(r) <=> C!Between(c, a, d) \subseteq C!Safe
           /\ \A v \in C!Elements(c, a, d), b \in 0 .. a.group - 1 :
                 <<a.store, a.ptr + C!Stride(a) * v + b>> \in C!Between(c, a, d)
<1>1. /\ a.ptr \in Nat /\ a.group \in Nat \ {0} /\ a.store \in C!Store /\ C!Stride(a) \in Nat
      /\ Width \in Nat
  BY ContentAssumption DEF C!Array, C!Stride, C!MemoryAssumption
<1>2. PICK g, s, p : g = a.group /\ s = C!Stride(a) /\ p = a.ptr
  OBVIOUS
<1>3. /\ g \in Nat \ {0} /\ s \in Nat /\ p \in Nat /\ lo \in Int /\ hi \in Int /\ lo <= hi
      /\ p + s * lo \in 0 .. Width - g - 1 /\ p + s * hi \in 0 .. Width - g - 1
  BY <1>1, <1>2
<1>4. s * lo \in Int /\ s * hi \in Int /\ (hi - lo) * s = s * hi - s * lo /\ s * lo <= s * hi
  BY <1>3, Strides
<1>5. PICK x, y : x = s * lo /\ y = s * hi
  OBVIOUS
<1>6. r = C!Bytes(a.store, p + x, y - x + g)
  BY <1>2, <1>4, <1>5
<1>7. p + x \in Nat /\ y - x + g \in Nat \ {0} /\ p + x + (y - x + g) < Width
      /\ p + x + (y - x + g) - 1 = p + y + g - 1
  <2>1. x \in Int /\ y \in Int /\ x <= y /\ p + x \in 0 .. Width - g - 1 /\ p + y \in 0 .. Width - g - 1
    BY <1>3, <1>4, <1>5
  <2>2. y - x + g \in Nat \ {0} /\ p + x \in Nat
    BY <1>1, <1>3, <2>1
  <2>3. p + x + (y - x + g) = p + y + g /\ p + y + g < Width
    BY <1>1, <1>3, <2>1
  <2>4. p + x + (y - x + g) - 1 = p + y + g - 1 /\ p + x + (y - x + g) < Width
    <3>1. PICK n : n = y - x + g
      OBVIOUS
    <3>2. p \in Int /\ x \in Int /\ y \in Int /\ g \in Int /\ n \in Int /\ p + x + n = p + y + g
      BY <1>3, <2>1, <2>3, <3>1
    <3>3. p + x + n - 1 = p + y + g - 1 /\ p + x + n < Width
      BY <2>3, <3>2
    <3> QED
      BY <3>1, <3>3
  <2> QED
    BY <2>2, <2>4
<1>8. C!Between(c, a, d) = {<<a.store, z>> : z \in p + x .. p + y + g - 1}
  <2>1. C!Min(C!Elements(c, a, d)) = lo /\ C!Max(C!Elements(c, a, d)) = hi
    <3> HIDE DEF C!Elements
    <3> QED
      BY FirstAndLast
  <2> QED
    BY <1>2, <1>5, <2>1 DEF C!Between
<1>9. C!Valid(r) <=> {<<a.store, z>> : z \in p + x .. p + x + (y - x + g) - 1} \subseteq C!Safe
  BY <1>1, <1>6, <1>7, BytesValid
<1>10. ASSUME NEW v \in C!Elements(c, a, d), NEW b \in 0 .. a.group - 1
       PROVE  <<a.store, a.ptr + C!Stride(a) * v + b>> \in C!Between(c, a, d)
  <2>1. v \in Int /\ lo <= v /\ v <= hi
    OBVIOUS
  <2>2. PICK z : z = s * v
    OBVIOUS
  <2>3. x <= z /\ z <= y /\ z \in Int
    <3>1. s * lo <= s * v /\ s * v \in Int
      BY <1>3, <2>1, Strides
    <3>2. s * v <= s * hi
      BY <1>3, <2>1, Strides
    <3> QED
      BY <1>5, <2>2, <3>1, <3>2
  <2>4. p + z + b \in p + x .. p + y + g - 1
    BY <1>2, <1>3, <1>4, <1>5, <2>3
  <2>5. a.ptr + C!Stride(a) * v + b = p + z + b
    BY <1>2, <2>2
  <2> QED
    BY <1>8, <2>4, <2>5
<1> QED
  BY <1>7, <1>8, <1>9, <1>10

(* The range of an array: that of its instances, or of the vertices from first on, which
   begin with the first of the array unless they lie next to each other. *)
LEMMA AttributeValid ==
    ASSUME NEW c, NEW d, NEW a \in C!Array, c.instances \in Nat \ {0}, d.count \in Nat \ {0},
           NEW first \in Int, NEW count \in Nat \ {0},
           a.divisor = 0 =>
              /\ first \in C!Vertices(c, d) /\ first + count - 1 \in C!Vertices(c, d)
              /\ C!Vertices(c, d) \subseteq first .. first + count - 1
              /\ C!Stride(a) = a.group \/ first = 0,
           \A v \in C!Elements(c, a, d) : a.ptr + C!Stride(a) * v \in 0 .. Width - a.group - 1
    PROVE  /\ C!Valid(C!AttributeRange(a, first, count, c.instances)) <=> C!Between(c, a, d) \subseteq C!Safe
           /\ \A v \in C!Elements(c, a, d), b \in 0 .. a.group - 1 :
                 <<a.store, a.ptr + C!Stride(a) * v + b>> \in C!Between(c, a, d)
<1>1. /\ a.ptr \in Nat /\ a.group \in Nat \ {0} /\ a.divisor \in Nat /\ C!Stride(a) \in Nat
  BY DEF C!Array, C!Stride
<1>2. CASE a.divisor = 0
  <2>1. C!Elements(c, a, d) = C!Vertices(c, d)
    BY <1>2 DEF C!Elements
  <2>2. PICK hi : hi = first + count - 1
    OBVIOUS
  <2>3. hi \in C!Elements(c, a, d) /\ first \in C!Elements(c, a, d) /\ C!Elements(c, a, d) \subseteq first .. hi
        /\ hi \in Int /\ count - 1 = hi - first
    BY <1>2, <2>1, <2>2
  <2>4. a.group * first = C!Stride(a) * first
    BY <1>1, <1>2
  <2>5. C!AttributeRange(a, first, count, c.instances)
           = C!Bytes(a.store, a.ptr + C!Stride(a) * first, (hi - first) * C!Stride(a) + a.group)
    BY <1>2, <2>3, <2>4 DEF C!AttributeRange
  <2> QED
    BY <2>3, <2>5, SpanValid
<1>3. CASE a.divisor # 0
  <2>1. PICK q : q = (c.instances - 1) \div a.divisor
    OBVIOUS
  <2>2. /\ (c.instances + a.divisor - 1) \div a.divisor = q + 1 /\ q \in Nat
        /\ \A k \in 0 .. c.instances - 1 : k \div a.divisor \in 0 .. q
        /\ 0 \div a.divisor = 0
    BY <1>1, <1>3, <2>1, DivisorElements
  <2>3. C!Elements(c, a, d) = {i \div a.divisor : i \in 0 .. c.instances - 1}
    BY <1>3 DEF C!Elements
  <2>4. 0 \in C!Elements(c, a, d) /\ q \in C!Elements(c, a, d) /\ C!Elements(c, a, d) \subseteq 0 .. q
    <3>1. 0 \in 0 .. c.instances - 1 /\ c.instances - 1 \in 0 .. c.instances - 1
      OBVIOUS
    <3> QED
      BY <2>1, <2>2, <2>3, <3>1
  <2>5. a.group * 0 = 0 /\ C!Stride(a) * 0 = 0 /\ q + 1 - 1 = q - 0
    BY <1>1, <2>2
  <2>6. C!AttributeRange(a, first, count, c.instances)
           = C!Bytes(a.store, a.ptr + C!Stride(a) * 0, (q - 0) * C!Stride(a) + a.group)
    BY <1>3, <2>2, <2>5 DEF C!AttributeRange
  <2>7. C!Elements(c, a, d) \subseteq Int /\ \A v \in C!Elements(c, a, d) : 0 <= v /\ v <= q
    BY <2>2, <2>4
  <2> QED
    BY <2>4, <2>6, <2>7, SpanValid
<1> QED
  BY <1>2, <1>3

\* The indices of a draw, if they may be read.
LEMMA IndicesFacts ==
    ASSUME NEW d \in C!Elems, d.count > 0,
           \A i \in 0 .. d.count - 1 : d.at + i \in DOMAIN Content[d.store]
    PROVE  /\ C!Indices(d, d.count) \subseteq 0 .. Width - 2
           /\ \E lo, hi \in C!Indices(d, d.count) :
                 /\ \A v \in C!Indices(d, d.count) : lo <= v /\ v <= hi
                 /\ C!Min(C!Indices(d, d.count)) = lo /\ C!Max(C!Indices(d, d.count)) = hi
<1>1. d.count \in Nat \ {0} /\ d.store \in C!Store
  BY DEF C!Elems
<1>2. C!Indices(d, d.count) \subseteq 0 .. Width - 2
  BY <1>1, ContentAssumption DEF C!Indices, C!MemoryAssumption
<1>3. C!Indices(d, d.count) # {}
  <2>1. 0 \in 0 .. d.count - 1
    BY <1>1
  <2> QED
    BY <2>1 DEF C!Indices
<1>4. Width - 2 \in Nat
  <2>1. PICK v : v \in 0 .. Width - 2
    BY <1>2, <1>3
  <2> QED
    BY <2>1, ContentAssumption DEF C!MemoryAssumption
<1> HIDE DEF C!Indices
<1>5. PICK lo, hi \in C!Indices(d, d.count) : \A v \in C!Indices(d, d.count) : lo <= v /\ v <= hi
  BY <1>2, <1>3, <1>4, FirstAndLastExist
<1>6. C!Min(C!Indices(d, d.count)) = lo /\ C!Max(C!Indices(d, d.count)) = hi
  BY <1>2, <1>5, FirstAndLast
<1> QED
  BY <1>2, <1>5, <1>6

\* What is claimed of a call whose pointers are checked.
Claimed(c) == ~C!Undrawn(c) /\ C!Counting(c) /\ (C!IndicesSafe(c) => C!Aligned(c))
Good(rs) == \A r \in ToSet(rs) : C!Valid(r)
\* Of a draw, everything that is between the elements of an array.
Spanned(c, d) == \A a \in ToSet(c.arrays) : C!Between(c, a, d) \subseteq C!Safe
\* The elements of an array are between its first byte and its last.
Covered(c, d) == \A a \in ToSet(c.arrays) : \A v \in C!Elements(c, a, d), b \in 0 .. a.group - 1 :
    <<a.store, a.ptr + C!Stride(a) * v + b>> \in C!Between(c, a, d)

\* The ranges of some vertices, if they are those that a draw may read.
LEMMA VerticesGood ==
    ASSUME NEW t \in Caller, NEW c \in DrawCalls[t], Claimed(c), C!IndicesSafe(c),
           NEW k \in DOMAIN c.draws, c.draws[k].count \in Nat \ {0},
           NEW first \in Int, NEW count \in Nat \ {0}, count < Width,
           first \in C!Vertices(c, c.draws[k]), first + count - 1 \in C!Vertices(c, c.draws[k]),
           C!Vertices(c, c.draws[k]) \subseteq first .. first + count - 1
    PROVE  /\ Good(C!AttributeRanges(c, first, count)) <=> Spanned(c, c.draws[k])
           /\ Covered(c, c.draws[k])
<1> DEFINE d == c.draws[k]
<1>1. c.arrays \in Seq(C!Array) /\ C!Fits(c) /\ c.instances \in Nat \ {0} /\ Width \in Nat
  BY CallFacts, ContentAssumption DEF Claimed, C!Undrawn, C!MemoryAssumption
<1>2. ToSet(c.arrays) \subseteq C!Array
  BY <1>1, SeqBack
<1>3. C!Min(C!Vertices(c, d)) = first
  <2> DEFINE last == first + count - 1
  <2>1. \A v \in C!Vertices(c, d) : v \in Int /\ first <= v /\ v <= last
    OBVIOUS
  <2>2. first \in C!Vertices(c, d) /\ last \in C!Vertices(c, d)
    OBVIOUS
  <2> HIDE DEF last, d
  <2> QED
    BY <2>1, <2>2, FirstAndLast
<1>4. ASSUME NEW a \in ToSet(c.arrays)
      PROVE  /\ C!Valid(C!AttributeRange(a, first, count, c.instances)) <=> C!Between(c, a, d) \subseteq C!Safe
             /\ \A v \in C!Elements(c, a, d), b \in 0 .. a.group - 1 :
                   <<a.store, a.ptr + C!Stride(a) * v + b>> \in C!Between(c, a, d)
  <2>1. \A v \in C!Elements(c, a, d) : a.ptr + C!Stride(a) * v \in 0 .. Width - a.group - 1
    <3>1. C!IndicesSafe(c) => \A e \in ToSet(c.arrays) : \A v \in C!Elements(c, e, c.draws[k]) :
             e.ptr + C!Stride(e) * v \in 0 .. Width - e.group - 1
      BY <1>1, SameRange DEF C!Fits
    <3> QED
      BY <3>1
  <2>2. a.divisor = 0 => C!Stride(a) = a.group \/ first = 0
    <3>1. C!Aligned(c)
      BY DEF Claimed
    <3>2. a.divisor # 0 \/ C!Stride(a) = a.group
          \/ (C!Vertices(c, c.draws[k]) # {} => C!Min(C!Vertices(c, c.draws[k])) = 0)
      BY <3>1, SameRange DEF C!Aligned
    <3> QED
      BY <1>3, <3>2
  <2>3. a \in C!Array /\ d.count \in Nat \ {0}
    BY <1>2
  <2> HIDE DEF d
  <2> QED
    BY <1>1, <2>1, <2>2, <2>3, AttributeValid DEF d
<1>5. count % Width # 0
  <2>1. count \in 0 .. Width - 1
    BY <1>1
  <2> QED
    BY <1>1, <2>1, SmallMod
<1>6. ToSet(C!AttributeRanges(c, first, count))
         = {C!AttributeRange(a, first, count, c.instances) : a \in ToSet(c.arrays)}
  BY <1>1, <1>5, AttributeRangesSeq
<1> QED
  BY <1>4, <1>6 DEF Good, Spanned, Covered

\* What is known of a draw of such a call.
LEMMA DrawOfCall ==
    ASSUME NEW t \in Caller, NEW c \in DrawCalls[t], Claimed(c), NEW k \in DOMAIN c.draws
    PROVE  /\ c.draws[k].count \in Nat /\ c.draws[k].count < Width
           /\ c.op \in {"arrays", "multi_arrays"} => c.draws[k] \in C!Verts
           /\ c.op \in {"elements", "multi_elements", "range"} =>
                 /\ c.draws[k] \in C!Elems /\ c.draws[k].count > 0 /\ C!Counted(c, c.draws[k]) = c.draws[k].count
                 /\ c.draws[k].at + c.draws[k].count < Width
                 /\ "at" \in DOMAIN c.draws[k]
<1>1. PICK d : d = c.draws[k]
  OBVIOUS
<1>2. /\ c.op \in {"arrays", "multi_arrays"} => d \in C!Verts
      /\ c.op \in {"elements", "multi_elements", "range"} => d \in C!Elems
      /\ d.count \in Int
  <2>1. d \in IF c.op \in {"arrays", "multi_arrays"} THEN C!Verts ELSE C!Elems
    BY <1>1, CallFacts
  <2> QED
    BY <2>1 DEF C!Verts, C!Elems
<1>3. d.count \in Nat
  BY <1>1, <1>2 DEF Claimed, C!Undrawn
<1>4. d.count < Width
  BY <1>1, CallFacts DEF C!Fits
<1>5. ASSUME c.op \in {"elements", "multi_elements", "range"}
      PROVE  /\ d.count > 0 /\ C!Counted(c, d) = d.count /\ d.at + d.count < Width /\ "at" \in DOMAIN d
  <2>1. C!Counted(c, d) = d.count
    BY <1>1 DEF Claimed, C!Counting
  <2>2. "at" \in DOMAIN d
    BY <1>2, <1>5 DEF C!Elems
  <2>3. d.at + d.count < Width
    BY <1>1, <2>2, CallFacts DEF C!Fits
  <2>4. Len(c.draws) \in Nat /\ DOMAIN c.draws = 1 .. Len(c.draws) /\ Len(c.draws) >= 1
    BY CallFacts
  <2>5. CASE c.op = "multi_elements"
    <3>1. d.count = Len(c.draws)
      BY <2>1, <2>5 DEF C!Counted
    <3> QED
      BY <2>1, <2>2, <2>3, <2>4, <3>1
  <2>6. CASE c.op # "multi_elements"
    <3>1. Len(c.draws) = 1
      BY <1>5, <2>6, CallFacts
    <3>2. k = 1 /\ DOMAIN c.draws = {1}
      BY <2>4, <3>1
    <3>3. ~(\A j \in DOMAIN c.draws : c.draws[j].count = 0)
      BY DEF Claimed, C!Undrawn
    <3>4. d.count # 0
      BY <1>1, <3>2, <3>3
    <3> QED
      BY <1>3, <2>1, <2>2, <2>3, <3>4
  <2> QED
    BY <2>5, <2>6
<1> QED
  BY <1>1, <1>2, <1>3, <1>4, <1>5

\* One range and some others are good.
LEMMA GoodAndRest ==
    ASSUME NEW r, NEW rest, IsSeq(rest)
    PROVE  Good(<<r>> \o rest) <=> C!Valid(r) /\ Good(rest)
<1>1. IsSeq(<<r>>) /\ ToSet(<<r>>) = {r}
  BY DEF IsSeq, ToSet
<1>2. ToSet(<<r>> \o rest) = {r} \cup ToSet(rest)
  BY <1>1, SeqConcat
<1> QED
  BY <1>2 DEF Good

\* The ranges of a draw are good if all is there that is between the elements of its arrays.
LEMMA DrawGood ==
    ASSUME NEW t \in Caller, NEW c \in DrawCalls[t], Claimed(c), C!IndicesSafe(c), ~C!OutOfRange(c),
           NEW k \in DOMAIN c.draws
    PROVE  (Good(C!DrawRanges(c, c.draws[k])) <=> Spanned(c, c.draws[k])) /\ Covered(c, c.draws[k])
<1>1. PICK d : d = c.draws[k]
  OBVIOUS
<1>2. /\ c.arrays \in Seq(C!Array) /\ C!Fits(c) /\ c.start \in Int /\ c.end \in Int
      /\ c.op \in {"arrays", "multi_arrays", "elements", "multi_elements", "range"}
      /\ Width \in Nat \ {0} /\ c.state = "normal"
  BY CallFacts, ContentAssumption DEF C!MemoryAssumption, Claimed, C!Undrawn
<1>3. d.count \in Nat /\ d.count < Width
  BY <1>1, DrawOfCall
<1>4. CASE c.op \in {"arrays", "multi_arrays"} /\ d.count = 0
  <2>1. C!DrawRanges(c, d) = <<>>
    <3>1. 0 % Width = 0
      BY <1>2, SmallMod
    <3> QED
      BY <1>4, <3>1 DEF C!DrawRanges, C!AttributeRanges
  <2>2. \A a \in ToSet(c.arrays) : C!Elements(c, a, d) = {}
    <3>1. C!Vertices(c, d) = {}
      BY <1>4 DEF C!Vertices
    <3> QED
      BY <1>4, <3>1 DEF C!Elements
  <2>3. \A a \in ToSet(c.arrays) : C!Between(c, a, d) = {}
    BY <2>2 DEF C!Between
  <2> QED
    BY <1>1, <2>1, <2>2, <2>3 DEF Good, Spanned, Covered, ToSet
<1>5. CASE c.op \in {"arrays", "multi_arrays"} /\ d.count # 0
  <2>1. d.first \in Int /\ d.count \in Nat \ {0}
    BY <1>1, <1>3, <1>5, DrawOfCall DEF C!Verts
  <2>2. C!DrawRanges(c, d) = C!AttributeRanges(c, d.first, d.count)
    BY <1>5 DEF C!DrawRanges
  <2>3. C!Vertices(c, d) = d.first .. d.first + d.count - 1
    BY <1>5 DEF C!Vertices
  <2>4. d.first \in C!Vertices(c, d) /\ d.first + d.count - 1 \in C!Vertices(c, d)
    BY <2>1, <2>3
  <2> QED
    BY <1>1, <1>3, <2>1, <2>2, <2>3, <2>4, VerticesGood
<1>6. CASE c.op \in {"elements", "multi_elements", "range"}
  <2>1. d \in C!Elems /\ d.count \in Nat \ {0} /\ C!Counted(c, d) = d.count /\ d.at + d.count < Width /\ "at" \in DOMAIN d
    BY <1>1, <1>3, <1>6, DrawOfCall
  <2>2. C!Valid(C!IndexRange(d)) /\ \A i \in 0 .. d.count - 1 : d.at + i \in DOMAIN Content[d.store]
    <3>1. {<<d.store, d.at + i>> : i \in 0 .. d.count - 1} \subseteq C!Safe
      BY <1>1, <2>1 DEF C!IndicesSafe
    <3> QED
      BY <2>1, <3>1, IndicesThere
  <2>3. C!MinMax(c, d) /\ C!Astray(c, d) = {}
    BY <1>2, <2>1, <2>2 DEF C!MinMax, C!Astray
  <2>4. PICK lo, hi \in C!Indices(d, d.count) :
           /\ C!Indices(d, d.count) \subseteq 0 .. Width - 2
           /\ \A v \in C!Indices(d, d.count) : lo <= v /\ v <= hi
           /\ C!Min(C!Indices(d, d.count)) = lo /\ C!Max(C!Indices(d, d.count)) = hi
    BY <2>1, <2>2, IndicesFacts
  <2>5. CASE c.op # "range"
    <3>1. C!DrawRanges(c, d) = <<C!IndexRange(d)>> \o C!AttributeRanges(c, lo, hi - lo + 1)
      BY <1>6, <2>1, <2>3, <2>4, <2>5 DEF C!DrawRanges, C!IndexedRanges
    <3>2. C!Vertices(c, d) = C!Indices(d, d.count)
      BY <1>6, <2>1, <2>5 DEF C!Vertices
    <3>3. /\ lo \in 0 .. Width - 2 /\ hi \in 0 .. Width - 2 /\ lo <= hi /\ hi - lo + 1 \in Nat \ {0}
          /\ hi - lo + 1 < Width /\ lo + (hi - lo + 1) - 1 = hi
          /\ C!Indices(d, d.count) \subseteq lo .. lo + (hi - lo + 1) - 1
      <4>1. lo \in 0 .. Width - 2 /\ hi \in 0 .. Width - 2 /\ lo <= hi
        BY <2>4
      <4>2. hi - lo + 1 \in Nat \ {0} /\ hi - lo + 1 < Width /\ lo + (hi - lo + 1) - 1 = hi
        BY <1>2, <4>1
      <4>3. C!Indices(d, d.count) \subseteq lo .. hi
        BY <2>4
      <4> QED
        BY <4>1, <4>2, <4>3
    <3>4. (Good(C!AttributeRanges(c, lo, hi - lo + 1)) <=> Spanned(c, d)) /\ Covered(c, d)
      BY <1>1, <2>1, <2>4, <3>2, <3>3, VerticesGood
    <3>5. IsSeq(C!AttributeRanges(c, lo, hi - lo + 1))
      BY <1>2, AttributeRangesSeq
    <3> QED
      BY <1>1, <2>2, <3>1, <3>4, <3>5, GoodAndRest
  <2>6. CASE c.op = "range"
    <3>1. k = 1
      <4>1. Len(c.draws) = 1 /\ DOMAIN c.draws = 1 .. Len(c.draws)
        BY <2>6, CallFacts
      <4> QED
        BY <4>1
    <3>2. C!Indices(d, d.count) \subseteq c.start .. c.end
      BY <1>1, <2>6, <3>1 DEF C!OutOfRange
    <3>3. C!DrawRanges(c, d) = <<C!IndexRange(d)>> \o C!AttributeRanges(c, c.start, c.end - c.start + 1)
      BY <2>6, <3>2 DEF C!DrawRanges
    <3>4. C!Vertices(c, d) = c.start .. c.end
      BY <2>1, <2>6 DEF C!Vertices
    <3>5. c.start <= c.end
      BY <1>2, <2>6 DEF Claimed, C!Undrawn
    <3>6. /\ c.end - c.start + 1 \in Nat \ {0} /\ c.end - c.start + 1 < Width
          /\ c.start + (c.end - c.start + 1) - 1 = c.end
          /\ c.start \in c.start .. c.end /\ c.end \in c.start .. c.end
      <4>1. c.end - c.start + 1 < Width
        BY <1>2 DEF C!Fits
      <4> QED
        BY <1>2, <3>5, <4>1
    <3>7. (Good(C!AttributeRanges(c, c.start, c.end - c.start + 1)) <=> Spanned(c, d)) /\ Covered(c, d)
      BY <1>1, <1>2, <2>1, <3>4, <3>6, VerticesGood
    <3>8. IsSeq(C!AttributeRanges(c, c.start, c.end - c.start + 1))
      BY <1>2, AttributeRangesSeq
    <3> QED
      BY <1>1, <2>2, <3>3, <3>7, <3>8, GoodAndRest
  <2> QED
    BY <2>5, <2>6
<1> QED
  BY <1>2, <1>4, <1>5, <1>6

\* The lists of a glMultiDraw are tried like anything else.
LEMMA ListsGood ==
    ASSUME NEW t \in Caller, NEW c \in DrawCalls[t], Claimed(c)
    PROVE  (\A k \in DOMAIN c.lists : C!Valid(C!Bytes("client", c.lists[k], Len(c.draws)))) <=> C!ListsSafe(c)
<1>1. PICK n : n = Len(c.draws)
  OBVIOUS
<1>2. c.lists \in Seq(Nat) /\ C!Fits(c) /\ n \in Nat /\ DOMAIN c.draws = 1 .. n
  BY <1>1, CallFacts
<1>3. n \in Nat \ {0}
  <2>1. CASE n = 0
    <3>1. DOMAIN c.draws = {}
      BY <1>2, <2>1
    <3> QED
      BY <3>1 DEF Claimed, C!Undrawn
  <2> QED
    BY <1>2, <2>1
<1>4. ASSUME NEW k \in DOMAIN c.lists
      PROVE  C!Valid(C!Bytes("client", c.lists[k], n)) <=> \A i \in 0 .. n - 1 : c.lists[k] + i \in Readable
  <2>1. PICK l : l = c.lists[k]
    OBVIOUS
  <2>2. l \in Nat /\ l + n < Width
    BY <1>1, <1>2, <2>1 DEF C!Fits
  <2>3. C!Valid(C!Bytes("client", l, n)) <=> {<<"client", x>> : x \in l .. l + n - 1} \subseteq C!Safe
    BY <1>3, <2>2, BytesValid DEF C!Store
  <2>4. \A x : <<"client", x>> \in C!Safe <=> x \in Readable
    BY DEF C!Safe
  <2>5. \A i \in 0 .. n - 1 : l + i \in l .. l + n - 1
    BY <1>3, <2>2
  <2>6. \A x \in l .. l + n - 1 : x - l \in 0 .. n - 1 /\ l + (x - l) = x
    BY <1>3, <2>2
  <2>7. (\A x \in l .. l + n - 1 : x \in Readable) <=> \A i \in 0 .. n - 1 : l + i \in Readable
    <3>1. ASSUME \A i \in 0 .. n - 1 : l + i \in Readable, NEW x \in l .. l + n - 1 PROVE x \in Readable
      BY <2>6, <3>1
    <3> QED
      BY <2>5, <3>1
  <2> QED
    BY <2>1, <2>3, <2>4, <2>7
<1> QED
  BY <1>1, <1>4 DEF C!ListsSafe

(* Of the calls that something is claimed of, every range is good if all that a draw may read
   is there, and what is between. *)
LEMMA CallGood ==
    ASSUME NEW t \in Caller, NEW c \in DrawCalls[t], Claimed(c)
    PROVE  Good(C!Ranges(c)) <=>
              ~(C!Illegal(c) \/ C!Gap(c) \/ (c.op = "arrays" /\ c.draws[1].first < 0))
<1>1. /\ c.arrays \in Seq(C!Array) /\ c.lists \in Seq(Nat) /\ c.state = "normal"
      /\ c.op \in {"arrays", "multi_arrays", "elements", "multi_elements", "range"}
  BY CallFacts DEF Claimed, C!Undrawn
<1>2. ~C!Valid(C!Refused)
  BY DEF C!Valid, C!Refused
<1>3. CASE c.op = "arrays" /\ c.draws[1].first < 0
  <2>1. C!Ranges(c) = <<C!Refused>>
    BY <1>3 DEF C!Ranges
  <2>2. C!Refused \in ToSet(<<C!Refused>>)
    BY DEF ToSet
  <2> QED
    BY <1>2, <1>3, <2>1, <2>2 DEF Good
<1>4. CASE ~(c.op = "arrays" /\ c.draws[1].first < 0)
  <2>1. Good(C!Ranges(c)) <=> C!ListsSafe(c) /\ \A k \in DOMAIN c.draws : Good(C!DrawRanges(c, c.draws[k]))
    <3>1. ToSet(C!Ranges(c)) =
             {C!Bytes("client", c.lists[k], Len(c.draws)) : k \in DOMAIN c.lists}
             \cup UNION {ToSet(C!DrawRanges(c, c.draws[k])) : k \in DOMAIN c.draws}
      BY <1>1, <1>4, RangesSeq
    <3> QED
      BY <3>1, ListsGood DEF Good
  <2>2. CASE ~C!IndicesSafe(c)
    <3>1. PICK k \in DOMAIN c.draws : /\ "at" \in DOMAIN c.draws[k]
             /\ ~({<<c.draws[k].store, c.draws[k].at + i>> : i \in 0 .. c.draws[k].count - 1} \subseteq C!Safe)
      BY <2>2 DEF C!IndicesSafe
    <3>2. PICK d : d = c.draws[k]
      OBVIOUS
    <3>3. c.op \in {"elements", "multi_elements", "range"}
      <4>1. c.op \in {"arrays", "multi_arrays"} => d \in C!Verts
        BY <3>2, DrawOfCall
      <4>2. d \notin C!Verts
        BY <3>1, <3>2 DEF C!Verts
      <4> QED
        BY <1>1, <4>1, <4>2
    <3>4. d \in C!Elems /\ d.count > 0 /\ d.at + d.count < Width
      BY <3>2, <3>3, DrawOfCall
    <3>5. ~C!Valid(C!IndexRange(d))
      BY <3>1, <3>2, <3>4, IndicesThere
    <3>6. PICK rest : C!DrawRanges(c, d) = <<C!IndexRange(d)>> \o rest /\ IsSeq(rest)
      <4>0. IsSeq(C!DrawRanges(c, d))
        BY <1>1, DrawRangesSeq
      <4>1. ~C!MinMax(c, d)
        BY <3>5 DEF C!MinMax
      <4>2. IsSeq(<<>>) /\ \A first, count : IsSeq(C!AttributeRanges(c, first, count))
        BY <1>1, AttributeRangesSeq DEF IsSeq, ToSet
      <4>3. CASE c.op = "range"
        <5>1. C!DrawRanges(c, d) = <<C!IndexRange(d)>> \o C!AttributeRanges(c, c.start, c.end - c.start + 1)
          BY <4>1, <4>3 DEF C!DrawRanges
        <5> QED
          BY <4>2, <5>1
      <4>4. CASE c.op # "range"
        <5>1. C!DrawRanges(c, d) = <<C!IndexRange(d)>> \o <<>>
          BY <3>3, <4>1, <4>4 DEF C!DrawRanges
        <5> QED
          BY <4>2, <5>1
      <4> QED
        BY <4>3, <4>4
    <3>7. ~Good(C!DrawRanges(c, d))
      BY <3>5, <3>6, GoodAndRest
    <3> QED
      BY <2>1, <2>2, <3>2, <3>7 DEF C!Illegal
  <2>3. CASE C!IndicesSafe(c) /\ C!OutOfRange(c)
    <3>1. PICK d : d = c.draws[1]
      OBVIOUS
    <3>2. c.op = "range" /\ ~(C!Indices(d, d.count) \subseteq c.start .. c.end)
      BY <2>3, <3>1 DEF C!OutOfRange
    <3>3. 1 \in DOMAIN c.draws
      <4>1. Len(c.draws) = 1 /\ DOMAIN c.draws = 1 .. Len(c.draws)
        BY <3>2, CallFacts
      <4> QED
        BY <4>1
    <3>4. d \in C!Elems /\ d.count > 0 /\ C!Counted(c, d) = d.count /\ d.at + d.count < Width /\ "at" \in DOMAIN d
      BY <3>1, <3>2, <3>3, DrawOfCall
    <3>5. C!Valid(C!IndexRange(d))
      <4>1. {<<d.store, d.at + i>> : i \in 0 .. d.count - 1} \subseteq C!Safe
        BY <2>3, <3>1, <3>3, <3>4 DEF C!IndicesSafe
      <4> QED
        BY <3>4, <4>1, IndicesThere
    <3>6. C!MinMax(c, d)
      BY <1>1, <3>4, <3>5 DEF C!MinMax
    <3>7. C!DrawRanges(c, d) = <<C!IndexRange(d)>> \o <<C!Refused>>
      BY <3>2, <3>6 DEF C!DrawRanges
    <3>8. IsSeq(<<C!Refused>>) /\ ~Good(<<C!Refused>>)
      BY <1>2 DEF IsSeq, ToSet, Good
    <3>9. ~Good(C!DrawRanges(c, d))
      BY <3>7, <3>8, GoodAndRest
    <3> QED
      BY <2>1, <2>3, <3>1, <3>3, <3>9 DEF C!Illegal
  <2>4. CASE C!IndicesSafe(c) /\ ~C!OutOfRange(c)
    <3>1. \A k \in DOMAIN c.draws :
             (Good(C!DrawRanges(c, c.draws[k])) <=> Spanned(c, c.draws[k])) /\ Covered(c, c.draws[k])
      BY <2>4, DrawGood
    <3>2. C!Gap(c) <=> ~(\A k \in DOMAIN c.draws : Spanned(c, c.draws[k]))
      BY SameRange DEF C!Gap, Spanned
    <3>3. ASSUME NEW k \in DOMAIN c.draws, Spanned(c, c.draws[k])
          PROVE  C!ReadsOf(c, c.draws[k]) \subseteq C!Safe
      <4>1. PICK d : d = c.draws[k]
        OBVIOUS
      <4>2. "at" \in DOMAIN d => {<<d.store, d.at + i>> : i \in 0 .. d.count - 1} \subseteq C!Safe
        BY <2>4, <4>1 DEF C!IndicesSafe
      <4>3. ASSUME NEW a \in ToSet(c.arrays), NEW v \in C!Elements(c, a, d), NEW b \in 0 .. a.group - 1
            PROVE  <<a.store, a.ptr + C!Stride(a) * v + b>> \in C!Safe
        <5>1. <<a.store, a.ptr + C!Stride(a) * v + b>> \in C!Between(c, a, d)
          BY <3>1, <4>1 DEF Covered
        <5>2. C!Between(c, a, d) \subseteq C!Safe
          BY <3>3, <4>1 DEF Spanned
        <5> QED
          BY <5>1, <5>2
      <4>4. \A e \in C!ReadsOf(c, d) :
               \/ "at" \in DOMAIN d /\ e \in {<<d.store, d.at + i>> : i \in 0 .. d.count - 1}
               \/ \E a \in ToSet(c.arrays) : \E v \in C!Elements(c, a, d), b \in 0 .. a.group - 1 :
                     e = <<a.store, a.ptr + C!Stride(a) * v + b>>
        BY SameRange DEF C!ReadsOf
      <4> QED
        BY <4>1, <4>2, <4>3, <4>4
    <3> QED
      BY <1>4, <2>1, <2>4, <3>1, <3>2, <3>3 DEF C!Illegal
  <2> QED
    BY <2>2, <2>3, <2>4
<1> QED
  BY <1>3, <1>4

\* What the checks say of a call is what is claimed.
LEMMA DrawImplies == ASSUME DrawIInv PROVE IllegalIsIgnored
<1>1. C!CallsCount => ~draw_crashed
  BY DEF DrawIInv, C!CallsCount
<1>2. mutex = C!NoOne => handler = C!Own
  BY DEF DrawIInv
<1>3. ASSUME NEW t \in Caller, draw_pc[t].at \in {"passed", "ignored"},
             NEW c, c = draw_pc[t].call, Claimed(c)
      PROVE  draw_pc[t].at = "ignored" <=>
                C!Illegal(c) \/ C!Gap(c) \/ (c.op = "arrays" /\ c.draws[1].first < 0)
  <2>1. Checked(t, draw_pc[t])
    BY <1>3, CheckedFacts
  <2>2. PICK p : p = draw_pc[t]
    OBVIOUS
  <2>3. PICK all : all = ToSet(C!Ranges(c))
    OBVIOUS
  <2>4. /\ c \in DrawCalls[t]
        /\ p.at # "ignored" => \A r \in all : r \in ToSet(p.todo) \/ Passes(r)
        /\ p.at = "passed" => p.todo = <<>>
        /\ p.at = "ignored" => \E r \in all : r.store = "astray" \/ ~C!Valid(r)
    BY <1>3, <2>1, <2>2, <2>3 DEF Checked
  <2>5. \A r \in all : r.store # "astray"
    BY <2>3, <2>4, <1>3, AstrayNone DEF Claimed
  <2>6. p.at = "passed" => Good(C!Ranges(c))
    <3>1. ToSet(<<>>) = {}
      BY DEF ToSet
    <3> QED
      BY <2>3, <2>4, <2>5, <3>1 DEF Good, Passes
  <2>7. p.at = "ignored" => ~Good(C!Ranges(c))
    BY <2>3, <2>4, <2>5 DEF Good
  <2> QED
    BY <1>3, <2>2, <2>4, <2>6, <2>7, CallGood
<1> QED
  BY <1>1, <1>2, <1>3 DEF IllegalIsIgnored, C!IllegalIsIgnored, Claimed

(* However the threads take turns: the application has its handler back, only a call whose
   indices are counted wrong crashes it, and of the other calls, where it may be claimed,
   that one is ignored which reads what is not there, or has a gap, and no other. *)
THEOREM DrawsChecked == C!Spec => []IllegalIsIgnored
<1>1. DrawIInv => IllegalIsIgnored
  BY DrawImplies
<1> QED
  BY <1>1, DrawInvariant, PTL
=============================================================================
