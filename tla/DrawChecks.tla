----------------------------- MODULE DrawChecks -----------------------------
(* The pointer checks of filters/checks.c: before a drawing call is made, the
   ranges of client memory and of buffer objects that it will read are worked out
   from its arguments and the state of the arrays, and each is tried.  Client memory
   is tried by reading it with a SIGSEGV handler in place that jumps out of the read;
   handler and jump buffer belong to the process, so that one thread at a time does.

   A call is a record [op, state, arrays, lists, instances, start, end, draws].  Its
   arrays are [ptr, stride, group, store, divisor], group the size of one element; its
   draws are [first, count], or [at, store, count] for indices of size 1; state is
   "normal", "begin_end", or "refused" if OpenGL will not have the indices (a wrong
   type, a mapped buffer). *)
EXTENDS Integers, Sequences, SequencesExt, FiniteSetsExt

CONSTANTS
    Thread,
    Calls,          \* by thread, the drawing calls it may make
    Readable,       \* addresses of client memory
    BufferSize,     \* of every buffer object
    Content,        \* by store and address, the index there
    Width           \* size_t is modulo this

NoOne == "no one"
Own == "application"

VARIABLES
    pc,
    mutex,          \* checks_mutex: its holder
    buf,            \* checks_buf: who called sigsetjmp last
    handler,        \* of SIGSEGV: Own or "checks"
    old_act,
    crashed

vars == <<pc, mutex, buf, handler, old_act, crashed>>

Idle == [at |-> "idle"]
Init ==
    /\ pc = [t \in Thread |-> Idle]
    /\ mutex = NoOne /\ buf = NoOne /\ handler = Own
    /\ old_act = [t \in Thread |-> Own] /\ crashed = FALSE
-----------------------------------------------------------------------------
Bytes(store, start, size) == [store |-> store, start |-> start % Width, size |-> size % Width]
Refused == [store |-> "refused"]

Valid(r) ==
    CASE r.store = "client" -> \A k \in 0 .. r.size - 1 : (r.start + k) % Width \in Readable
      [] r.store = "buffer" ->          \* valid_vbo_range
            r.start <= BufferSize /\ (r.start + r.size) % Width <= BufferSize
      [] OTHER -> FALSE

Stride(a) == IF a.stride = 0 THEN a.group ELSE a.stride

\* checks_attribute, and checks_generic_attribute, whose divisor may not be 0
AttributeRange(a, first, count, instances) ==
    LET n == IF a.divisor = 0 THEN count ELSE (instances + a.divisor - 1) \div a.divisor
        from == IF a.divisor = 0 THEN first ELSE 0
    IN  Bytes(a.store, a.ptr + a.group * from, (n - 1) * Stride(a) + a.group)

AttributeRanges(c, first, count) ==
    IF count % Width = 0 THEN <<>>
    ELSE [k \in DOMAIN c.arrays |-> AttributeRange(c.arrays[k], first, count, c.instances)]

IndexRange(d) == Bytes(d.store, d.at, d.count)
Indices(d, n) == {Content[d.store][d.at + k] : k \in 0 .. n - 1}

(* checks_min_max finds something out from the first indices.  How many there are,
   checks_glMultiDrawElements takes from the wrong variable. *)
Counted(c, d) == IF c.op = "multi_elements" THEN Len(c.draws) ELSE d.count
MinMax(c, d) == c.state = "normal" /\ Counted(c, d) > 0 /\ Valid(IndexRange(d))
Astray(c, d) == {d.at + k : k \in 0 .. Counted(c, d) - 1} \ DOMAIN Content[d.store]
IndexedRanges(c, d) ==
    IF Astray(c, d) # {} THEN <<[store |-> "astray", from |-> d.store]>>
    ELSE LET is == Indices(d, Counted(c, d))
         IN  AttributeRanges(c, Min(is), Max(is) - Min(is) + 1)

(* What is tried for one draw of a call, in order.  Nothing after a range that is
   not valid is looked at. *)
DrawRanges(c, d) ==
    CASE c.op \in {"arrays", "multi_arrays"} -> AttributeRanges(c, d.first, d.count)
      [] c.op \in {"elements", "multi_elements"} ->
            <<IndexRange(d)>> \o (IF MinMax(c, d) THEN IndexedRanges(c, d) ELSE <<>>)
      [] c.op = "range" ->
            <<IndexRange(d)>> \o
            (IF MinMax(c, d) /\ ~(Indices(d, d.count) \subseteq c.start .. c.end)
             THEN <<Refused>> ELSE AttributeRanges(c, c.start, c.end - c.start + 1))

\* checks_glDrawArrays and those after it
Ranges(c) ==
    IF c.op = "arrays" /\ c.draws[1].first < 0 THEN <<Refused>>
    ELSE IF c.state = "begin_end" THEN <<>>
    ELSE [k \in DOMAIN c.lists |-> Bytes("client", c.lists[k], Len(c.draws))]
         \o FlattenSeq([k \in DOMAIN c.draws |-> DrawRanges(c, c.draws[k])])
-----------------------------------------------------------------------------
At(t, at) == ~crashed /\ pc[t].at = at
Goto(t, to) == pc' = [pc EXCEPT ![t] = to]

\* Goes on with the ranges after this one, unless it was not valid.
Result(t, valid) ==
    LET todo == Tail(pc[t].todo) IN
    Goto(t, [call |-> pc[t].call, todo |-> IF valid THEN todo ELSE <<>>,
             at |-> IF ~valid THEN "ignored" ELSE IF todo = <<>> THEN "passed" ELSE "next"])

Draw(t, c) ==
    /\ At(t, "idle")
    /\ LET todo == Ranges(c) IN
       Goto(t, [at |-> IF todo = <<>> THEN "passed" ELSE "next", call |-> c, todo |-> todo])
    /\ UNCHANGED <<mutex, buf, handler, old_act, crashed>>

\* valid_vbo_range, or the call was refused before
Compare(t) ==
    /\ At(t, "next") /\ Head(pc[t].todo).store \notin {"client", "astray"}
    /\ Result(t, Valid(Head(pc[t].todo)))
    /\ UNCHANGED <<mutex, buf, handler, old_act, crashed>>

(* The indices after the last one: client memory that is not there, or a buffer that
   glGetBufferSubData then does not copy, so that any indices are found. *)
Stray(t) ==
    /\ At(t, "next") /\ Head(pc[t].todo).store = "astray"
    /\ IF Head(pc[t].todo).from = "client"
       THEN crashed' = TRUE /\ UNCHANGED pc
       ELSE (\E valid \in BOOLEAN : Result(t, valid)) /\ UNCHANGED crashed
    /\ UNCHANGED <<mutex, buf, handler, old_act>>

\* valid_read_range, from here
LockNot(t) ==
    /\ At(t, "next") /\ Head(pc[t].todo).store = "client"
    /\ mutex' = t
    /\ Goto(t, [pc[t] EXCEPT !.at = "setjmp"])
    /\ UNCHANGED <<buf, handler, old_act, crashed>>

Lock(t) ==
    /\ At(t, "next") /\ Head(pc[t].todo).store = "client"
    /\ mutex = NoOne
    /\ mutex' = t
    /\ Goto(t, [pc[t] EXCEPT !.at = "setjmp"])
    /\ UNCHANGED <<buf, handler, old_act, crashed>>

Setjmp(t) ==
    /\ At(t, "setjmp")
    /\ buf' = t
    /\ Goto(t, [pc[t] EXCEPT !.at = "install"])
    /\ UNCHANGED <<mutex, handler, old_act, crashed>>

Install(t) ==
    /\ At(t, "install")
    /\ handler' = "checks" /\ old_act' = [old_act EXCEPT ![t] = handler]
    /\ Goto(t, [pc[t] EXCEPT !.at = "read"])
    /\ UNCHANGED <<mutex, buf, crashed>>

(* A read that fails jumps to wherever sigsetjmp was called last.  In a thread that
   is not this one's the jump is undefined, and so is a SIGSEGV without the handler. *)
Read(t) ==
    /\ At(t, "read")
    /\ IF Valid(Head(pc[t].todo))
       THEN Goto(t, [pc[t] EXCEPT !.at = "good"]) /\ UNCHANGED crashed
       ELSE IF handler = "checks" /\ buf = t
       THEN Goto(t, [pc[t] EXCEPT !.at = "bad"]) /\ UNCHANGED crashed
       ELSE crashed' = TRUE /\ UNCHANGED pc
    /\ UNCHANGED <<mutex, buf, handler, old_act>>

Restore(t) ==
    /\ At(t, "good") \/ At(t, "bad")
    /\ handler' = old_act[t] /\ mutex' = NoOne
    /\ Result(t, pc[t].at = "good")
    /\ UNCHANGED <<buf, old_act, crashed>>

Return(t) ==
    /\ At(t, "passed") \/ At(t, "ignored")
    /\ Goto(t, Idle)
    /\ UNCHANGED <<mutex, buf, handler, old_act, crashed>>

Next == \E t \in Thread :
    \/ \E c \in Calls[t] : Draw(t, c)
    \/ Compare(t) \/ Stray(t) \/ Lock(t) \/ Setjmp(t) \/ Install(t) \/ Read(t) \/ Restore(t) \/ Return(t)

Spec == Init /\ [][Next]_vars
-----------------------------------------------------------------------------
(* What OpenGL reads for a call.  Of a range the driver may read every vertex. *)
Undrawn(c) ==
    \/ c.state # "normal" \/ c.instances <= 0
    \/ c.op = "range" /\ c.end < c.start
    \/ \E k \in DOMAIN c.draws : c.draws[k].count < 0
    \/ \A k \in DOMAIN c.draws : c.draws[k].count = 0

Vertices(c, d) ==
    IF d.count = 0 THEN {}
    ELSE CASE c.op \in {"arrays", "multi_arrays"} -> d.first .. d.first + d.count - 1
           [] c.op \in {"elements", "multi_elements"} -> Indices(d, d.count)
           [] c.op = "range" -> c.start .. c.end

Elements(c, a, d) ==
    IF a.divisor = 0 THEN Vertices(c, d)
    ELSE IF d.count = 0 THEN {} ELSE {i \div a.divisor : i \in 0 .. c.instances - 1}

ReadsOf(c, d) ==
    (IF "at" \in DOMAIN d THEN {<<d.store, d.at + k>> : k \in 0 .. d.count - 1} ELSE {})
    \cup UNION {{<<a.store, a.ptr + Stride(a) * v + b>> :
                    v \in Elements(c, a, d), b \in 0 .. a.group - 1} : a \in ToSet(c.arrays)}

Safe == ({"client"} \X Readable) \cup ({"buffer"} \X (0 .. BufferSize - 1))
ListsSafe(c) == \A k \in DOMAIN c.lists, i \in 0 .. Len(c.draws) - 1 : c.lists[k] + i \in Readable

\* Indices are looked at only where they may be.
IndicesSafe(c) == \A k \in DOMAIN c.draws : LET d == c.draws[k] IN
    "at" \in DOMAIN d => {<<d.store, d.at + i>> : i \in 0 .. d.count - 1} \subseteq Safe
OutOfRange(c) ==
    c.op = "range" /\ ~(Indices(c.draws[1], c.draws[1].count) \subseteq c.start .. c.end)

\* What lies between the first and the last byte that a draw may read of an array.
Between(c, a, d) ==
    LET vs == Elements(c, a, d) IN
    IF vs = {} THEN {}
    ELSE {<<a.store, x>> : x \in a.ptr + Stride(a) * Min(vs) .. a.ptr + Stride(a) * Max(vs) + a.group - 1}
Gap(c) ==
    \E k \in DOMAIN c.draws, a \in ToSet(c.arrays) : ~(Between(c, a, c.draws[k]) \subseteq Safe)

Illegal(c) ==
    \/ ~ListsSafe(c) \/ ~IndicesSafe(c) \/ OutOfRange(c)
    \/ \E k \in DOMAIN c.draws : ~(ReadsOf(c, c.draws[k]) \subseteq Safe)

\* The arrays whose elements lie next to each other, or are read from the first on.
Aligned(c) ==
    \A a \in ToSet(c.arrays) : a.divisor # 0 \/ Stride(a) = a.group \/
        \A k \in DOMAIN c.draws : LET vs == Vertices(c, c.draws[k]) IN vs # {} => Min(vs) = 0

\* The number of indices of a draw is what checks_min_max is given for it.
Counting(c) == \A k \in DOMAIN c.draws : Counted(c, c.draws[k]) = c.draws[k].count
CallsCount == \A t \in Thread : pc[t].at # "idle" => Counting(pc[t].call)

\* What an application can ask for.
Store == {"client", "buffer"}
Array == [ptr : Nat, stride : Nat, group : Nat \ {0}, store : Store, divisor : Nat]
Verts == [first : Int, count : Int]
Elems == [at : Nat, store : Store, count : Int]
Call ==
    [op : {"arrays", "multi_arrays", "elements", "multi_elements", "range"},
     state : {"normal", "begin_end", "refused"}, arrays : Seq(Array), lists : Seq(Nat),
     instances : Int, start : Int, end : Int, draws : Seq(Verts \cup Elems)]

\* No address or size is beyond a size_t.
Fits(c) ==
    /\ \A k \in DOMAIN c.lists : c.lists[k] + Len(c.draws) < Width
    /\ Len(c.draws) < Width /\ c.end - c.start + 1 < Width
    /\ \A k \in DOMAIN c.draws : LET d == c.draws[k] IN
          /\ d.count < Width /\ ("at" \in DOMAIN d => d.at + d.count < Width)
          /\ IndicesSafe(c) => \A a \in ToSet(c.arrays) : \A v \in Elements(c, a, d) :
                a.ptr + Stride(a) * v \in 0 .. Width - a.group - 1

CallsAssumption ==
    \A t \in Thread : \A c \in Calls[t] :
       /\ c \in Call /\ Fits(c)
       /\ c.draws \in Seq(IF c.op \in {"arrays", "multi_arrays"} THEN Verts ELSE Elems)
       /\ c.op \notin {"multi_arrays", "multi_elements"} => Len(c.draws) = 1

\* Memory has contents, which indices are.
MemoryAssumption ==
    /\ Width \in Nat /\ BufferSize \in 0 .. Width - 1 /\ Readable \subseteq 0 .. Width - 1
    /\ DOMAIN Content = Store /\ Readable \subseteq DOMAIN Content["client"]
    /\ 0 .. BufferSize - 1 \subseteq DOMAIN Content["buffer"]
    /\ \A s \in Store : \A x \in DOMAIN Content[s] : Content[s][x] \in 0 .. Width - 2

ThreadAssumption == NoOne \notin Thread

(* "The checks that are made are for: Sourcing vertex or index data from unreadable
   client memory ... from outside the valid range of a vertex buffer object ... When
   an error is detected ... the call is ignored" (checks.xml:37): a call that OpenGL
   would draw is passed on if all it reads is there, and ignored if not, whatever
   another thread is checking meanwhile; and the application has its handler back.  What
   lies between the elements has to be there, too.  Where an array has a stride of its own
   and its first element is not used, the range is looked for in the wrong place
   (checks.c:514), and glMultiDrawElements looks at as many indices of each draw as there
   are draws (checks.c:900): not claimed. *)
IllegalIsIgnored ==
    /\ CallsCount => ~crashed
    /\ mutex = NoOne => handler = Own
    /\ \A t \in Thread : pc[t].at \in {"passed", "ignored"} =>
          LET c == pc[t].call IN
          ~Undrawn(c) /\ Counting(c) /\ (IndicesSafe(c) => Aligned(c)) =>
              (pc[t].at = "ignored" <=>
                  Illegal(c) \/ Gap(c) \/ (c.op = "arrays" /\ c.draws[1].first < 0))
=============================================================================
