---------------------------- MODULE MCFilterSets ----------------------------
(* Five machines that have no state in common; part is which of them moves, since
   their product says no more.
   "loading": four filter-sets whose libraries say what they like of each other, in
   circles too, with all of them installed or one missing.
   "checks": a thread with drawing calls of every kind that the checks filter-set
   looks at, and another whose only call reads past the end of its array.
   "statistics": the triangles of two contexts that share a display list.
   "video": videos and pictures, with each of the ways to read a frame back.
   "overrides": a context that two threads take turns with, under each of the filter-sets
   that override its state. *)
EXTENDS FilterSets, SetsAtWork

VARIABLE part
-----------------------------------------------------------------------------
MCFilterSet == {"log", "invoke", "debugger", "error"}
MCWants == {p \in (MCFilterSet \ {"log"}) \X (MCFilterSet \ {"log"}) : p # <<"invoke", "invoke">>}
MCFollows == {<<"error", "invoke">>, <<"invoke", "error">>, <<"debugger", "error">>, <<"invoke", "log">>}
MCKnown == {MCFilterSet, MCFilterSet \ {"error"}, MCFilterSet \ {"invoke"}}
-----------------------------------------------------------------------------
Array(ptr, stride, group, store, divisor) ==
    [ptr |-> ptr, stride |-> stride, group |-> group, store |-> store, divisor |-> divisor]
DrawCall(op, state, arrays, ptrs, instances, start, end, ds) ==
    [op |-> op, state |-> state, arrays |-> arrays, lists |-> ptrs, instances |-> instances,
     start |-> start, end |-> end, draws |-> ds]
Elems(p, store, n) == [at |-> p, store |-> store, count |-> n]
Verts(first, n) == [first |-> first, count |-> n]

MCArrays ==
    {<<Array(p, s, 2, "client", 0)>> : p \in {6, 8}, s \in {0, 3}}
    \cup {<<Array(3, s, 2, "buffer", 0), Array(q, 0, 1, "client", d)>> :
             s \in {0, 3}, q \in {8, 15}, d \in {0, 2}}
MCBase == [client |-> 8, buffer |-> 0]
MCDrawCalls ==
    {DrawCall("arrays", s, a, <<>>, n, 0, 0, <<Verts(f, k)>>) :
        s \in {"normal", "begin_end"}, a \in MCArrays, n \in {1, 3}, f \in {-1, 0, 2}, k \in {-1, 0, 3}}
    \cup {DrawCall("multi_arrays", "normal", a, l, 1, 0, 0, <<Verts(0, j), Verts(1, 2)>>) :
        a \in MCArrays, l \in {<<8, 10>>, <<15, 8>>, <<8, 16>>}, j \in {0, 2}}
    \cup {DrawCall("elements", s, a, <<>>, n, 0, 0, <<Elems(p, m, k)>>) :
        s \in {"normal", "refused"}, a \in MCArrays, n \in {1, 3}, p \in {7, 8},
        m \in {"client", "buffer"}, k \in {0, 1, 3}}
    \cup {DrawCall("multi_elements", "normal", a, <<8, 10>>, 1, 0, 0,
                   <<Elems(MCBase[m] + p, m, j), Elems(MCBase[m] + q, m, k)>>) :
        m \in {"client", "buffer"}, a \in MCArrays, p \in {0, 4}, j \in {0, 2},
        q \in {6, 7}, k \in {1, 2}}
    \cup {DrawCall("range", "normal", a, <<>>, 1, s, e, <<Elems(p, "client", 2)>>) :
        a \in MCArrays, s \in {0, 1}, e \in {0, 2}, p \in {8, 14}}
MCContent == [client |-> [x \in 8 .. 15 |-> x % 4], buffer |-> [x \in 0 .. 7 |-> 7 - x]]
MCOther ==
    {DrawCall("arrays", "normal", <<Array(15, 0, 1, "client", 0)>>, <<>>, 1, 0, 0, <<Verts(0, 2)>>)}
MCCalls == [t \in {"t1", "t2"} |-> IF t = "t1" THEN MCDrawCalls ELSE MCOther]

-----------------------------------------------------------------------------
MCShape == {<<"TRIANGLES", 4, 2>>, <<"QUAD_STRIP", 4, 1>>,
            <<"TRIANGLE_STRIP_ADJACENCY", 9, 1>>}
-----------------------------------------------------------------------------
MCRecord(is_video, lavc, all, lag) ==
    {[video |-> is_video, lavc |-> lavc, allframes |-> all, lag |-> lag, pbo |-> p[1], map |-> p[2]] :
        p \in {<<FALSE, FALSE>>, <<TRUE, FALSE>>, <<TRUE, TRUE>>}}
MCMode ==
    MCRecord(FALSE, FALSE, FALSE, 1)
    \cup UNION {MCRecord(TRUE, m[1], m[2], lag) :
                   m \in {<<TRUE, FALSE>>, <<TRUE, TRUE>>, <<FALSE, FALSE>>}, lag \in 1 .. 3}
-----------------------------------------------------------------------------
LibraryInit ==
    /\ part \in {"loading", "checks", "statistics", "video", "overrides"}
    /\ Init /\ C!Init /\ Statistics!Init /\ Shots!Init /\ O!Init
    /\ part # "loading" => known = MCFilterSet
    /\ part # "statistics" => gl_current = "c1"
    /\ part # "video" => ~mode.video /\ ~mode.pbo /\ size = 1 /\ ~keypress_screenshot
    /\ part # "overrides" => override_set = "camera" /\ override_active

LibraryNext ==
    \/ part = "loading" /\ Next /\ UNCHANGED <<part, draws, statistics, video, override>>
    \/ part = "checks" /\ C!Next /\ UNCHANGED <<part, vars, statistics, video, override>>
    \/ part = "statistics" /\ Statistics!Next /\ UNCHANGED <<part, vars, draws, video, override>>
    \/ part = "video" /\ Shots!Next /\ UNCHANGED <<part, vars, draws, statistics, override>>
    \/ part = "overrides" /\ O!Next /\ UNCHANGED <<part, vars, draws, statistics, video>>

LibrarySpec == LibraryInit /\ [][LibraryNext]_<<part, vars, draws, statistics, video, override>>
=============================================================================
