----------------------------- MODULE Primitives -----------------------------
(* The count of triangles and batches: filters/stats_primitives.c adds up what each
   drawing call makes, gl/gldisplaylist.c knows which display list a context is
   compiling and which lists there are, stats.c holds the signals, and
   filters/logstats.c reports at each swap of the buffers how far they have come since
   the one before.

   One thread, whose contexts share their lists, makes calls that OpenGL accepts
   (but for one glEndList).  Left out are calls of a list inside a list, which
   stats_primitives.xml says are not counted, and glDeleteLists, which nothing here
   catches. *)
EXTENDS Integers, FiniteSets

CONSTANTS
    Context, List,
    Shape,          \* tuples <<mode, count, instances>> that are drawn
    MaxBatches,     \* bounds on the batches of a frame and of a list,
    MaxSwaps        \* and on the frames

None == [mode |-> "none"]
Nothing == [triangles |-> 0, batches |-> 0]
Unallocated == [triangles |-> -1, batches |-> -1]

VARIABLES
    gl_current,
    \* the OpenGL side
    compiling,      \* by context, the list being compiled: [mode, list, content], or None
    lists,          \* what is drawn when a list is called
    drawn,          \* since the last swap
    \* gldisplaylist.c and stats_primitives.c
    displaylist,    \* by context, the current list object: [mode, list, counts], or None
    objects,        \* the counts of the list objects in the table of the namespace
    primitives,     \* by context, [mode, count], or None outside glBegin/glEnd
    \* stats.c and logstats.c
    signals,
    cur,            \* their values at the last swap
    swaps,
    crashed

opengl == <<gl_current, compiling, lists, drawn>>
tracked == <<displaylist, objects, primitives>>
reported == <<cur, swaps>>
vars == <<opengl, tracked, signals, reported, crashed>>

Init ==
    /\ gl_current \in Context
    /\ compiling = [c \in Context |-> None] /\ lists = [l \in List |-> Nothing] /\ drawn = Nothing
    /\ displaylist = [c \in Context |-> None] /\ objects = [l \in List |-> Nothing]
    /\ primitives = [c \in Context |-> None]
    /\ signals = Nothing /\ cur = Unallocated /\ swaps = 0 /\ crashed = FALSE

(* A QUAD_STRIP has pairs of vertices.  Of an odd one stats_primitives_update counts the
   last vertex (stats_primitives.c:67), and OpenGL takes no notice of it. *)
ShapeAssumption ==
    \A shape \in Shape :
       /\ shape = <<shape[1], shape[2], shape[3]>> /\ shape[2] \in Nat /\ shape[3] \in Nat
       /\ shape[1] = "QUAD_STRIP" => shape[2] % 2 = 0

Plus(x, y) == [triangles |-> x.triangles + y.triangles, batches |-> x.batches + y.batches]
Minus(x, y) == [triangles |-> x.triangles - y.triangles, batches |-> x.batches - y.batches]
-----------------------------------------------------------------------------
\* stats_primitives_update: the triangles of count vertices
Triangles(mode, count) ==
    CASE mode = "TRIANGLES" -> count \div 3
      [] mode = "QUADS" -> (count \div 4) * 2
      [] mode \in {"QUAD_STRIP", "POLYGON", "TRIANGLE_STRIP", "TRIANGLE_FAN"} ->
            IF count >= 3 THEN count - 2 ELSE 0
      [] mode = "TRIANGLES_ADJACENCY" -> count \div 6
      [] mode = "TRIANGLE_STRIP_ADJACENCY" -> IF count >= 6 THEN count \div 2 - 2 ELSE 0
      [] OTHER -> 0

(* What OpenGL makes of them: as many pieces as there are whole ones, of size
   vertices each and step vertices apart *)
Drawn(mode, count) ==
    LET Whole(size, step) == Cardinality({k \in 0 .. count : size + k * step <= count}) IN
    CASE mode = "TRIANGLES" -> Whole(3, 3)
      [] mode = "QUADS" -> 2 * Whole(4, 4)
      [] mode = "QUAD_STRIP" -> 2 * Whole(4, 2)
      [] mode \in {"POLYGON", "TRIANGLE_STRIP", "TRIANGLE_FAN"} -> Whole(3, 1)
      [] mode = "TRIANGLES_ADJACENCY" -> Whole(6, 6)
      [] mode = "TRIANGLE_STRIP_ADJACENCY" -> Whole(6, 2)
      [] OTHER -> 0

InBeginEnd == primitives[gl_current] # None
Few ==
    /\ ~crashed /\ drawn.batches < MaxBatches
    /\ compiling[gl_current] # None => compiling[gl_current].content.batches < MaxBatches

\* The signals, unless a list is only compiled, and the counts of that list
Update(mode, count, instances) ==
    LET batch == [triangles |-> Triangles(mode, count) * instances, batches |-> 1]
        listing == displaylist[gl_current].mode
    IN  /\ signals' = IF listing = "COMPILE" THEN signals ELSE Plus(signals, batch)
        /\ displaylist' = IF listing = "none" THEN displaylist
                          ELSE [displaylist EXCEPT ![gl_current].counts = Plus(@, batch)]

Render(mode, count, instances) ==
    LET batch == [triangles |-> Drawn(mode, count) * instances, batches |-> 1]
        listing == compiling[gl_current].mode
    IN  /\ drawn' = IF listing = "COMPILE" THEN drawn ELSE Plus(drawn, batch)
        /\ compiling' = IF listing = "none" THEN compiling
                        ELSE [compiling EXCEPT ![gl_current].content = Plus(@, batch)]
-----------------------------------------------------------------------------
\* glDrawArrays, glDrawElements, glDrawRangeElements and those with instances
Draw(mode, count, instances) ==
    /\ Few /\ ~InBeginEnd
    /\ Update(mode, count, instances) /\ Render(mode, count, instances)
    /\ UNCHANGED <<gl_current, lists, objects, primitives, reported, crashed>>

Begin(mode) ==
    /\ Few /\ ~InBeginEnd
    /\ primitives' = [primitives EXCEPT ![gl_current] = [mode |-> mode, count |-> 0]]
    /\ UNCHANGED <<opengl, displaylist, objects, signals, reported, crashed>>

\* stats_primitives_immediate: glVertex and the like
Immediate ==
    /\ InBeginEnd
    /\ \E shape \in Shape : shape[1] = primitives[gl_current].mode
                            /\ shape[2] > primitives[gl_current].count
    /\ primitives' = [primitives EXCEPT ![gl_current].count = @ + 1]
    /\ UNCHANGED <<opengl, displaylist, objects, signals, reported, crashed>>

End ==
    LET p == primitives[gl_current] IN
    /\ InBeginEnd /\ <<p.mode, p.count, 1>> \in Shape
    /\ Update(p.mode, p.count, 1) /\ Render(p.mode, p.count, 1)
    /\ primitives' = [primitives EXCEPT ![gl_current] = None]
    /\ UNCHANGED <<gl_current, lists, objects, reported, crashed>>
-----------------------------------------------------------------------------
\* Takes the new list for the one of its name while it is being compiled.
NewListAtOnce(l, mode) ==
    /\ ~crashed /\ ~InBeginEnd /\ compiling[gl_current] = None
    /\ compiling' = [compiling EXCEPT ![gl_current] =
                                      [mode |-> mode, list |-> l, content |-> Nothing]]
    /\ displaylist' = [displaylist EXCEPT ![gl_current] =
                                          [mode |-> mode, list |-> l, counts |-> Nothing]]
    /\ objects' = [objects EXCEPT ![l] = Nothing]
    /\ UNCHANGED <<gl_current, lists, drawn, primitives, signals, reported, crashed>>

NewList(l, mode) ==
    /\ ~crashed /\ ~InBeginEnd /\ compiling[gl_current] = None
    /\ compiling' = [compiling EXCEPT ![gl_current] =
                                      [mode |-> mode, list |-> l, content |-> Nothing]]
    /\ displaylist' = [displaylist EXCEPT ![gl_current] =
                                          [mode |-> mode, list |-> l, counts |-> Nothing]]
    /\ UNCHANGED <<gl_current, lists, drawn, objects, primitives, signals, reported, crashed>>

(* "we update the hash table when we end the list, since this is when OpenGL says
   the new name comes into effect" *)
EndList ==
    LET glist == compiling[gl_current]
        obj == displaylist[gl_current]
    IN
    /\ ~crashed /\ ~InBeginEnd /\ glist # None
    /\ lists' = [lists EXCEPT ![glist.list] = glist.content]
    /\ objects' = [objects EXCEPT ![obj.list] = obj.counts]
    /\ compiling' = [compiling EXCEPT ![gl_current] = None]
    /\ displaylist' = [displaylist EXCEPT ![gl_current] = None]
    /\ UNCHANGED <<gl_current, drawn, primitives, signals, reported, crashed>>

\* An error in OpenGL, and a null pointer in gldisplaylist_glEndList
EndListNowhere ==
    /\ ~crashed /\ ~InBeginEnd /\ displaylist[gl_current] = None
    /\ crashed' = TRUE
    /\ UNCHANGED <<opengl, tracked, signals, reported>>

CallList(l) ==
    /\ Few /\ ~InBeginEnd /\ compiling[gl_current] = None
    /\ signals' = Plus(signals, objects[l])
    /\ drawn' = Plus(drawn, lists[l])
    /\ UNCHANGED <<gl_current, compiling, lists, tracked, reported, crashed>>

MakeCurrent(c) ==
    /\ ~crashed /\ ~InBeginEnd
    /\ gl_current' = c
    /\ UNCHANGED <<compiling, lists, drawn, tracked, signals, reported, crashed>>

(* logstats_swap_buffers gathers the signals and reports how far they are from those
   of the swap before, if that was. *)
Logged == Minus(cur', cur)

SwapBuffers ==
    /\ ~crashed /\ ~InBeginEnd /\ swaps < MaxSwaps
    /\ cur' = signals /\ swaps' = swaps + 1
    /\ drawn' = Nothing
    /\ UNCHANGED <<gl_current, compiling, lists, tracked, signals, crashed>>

Next ==
    \/ \E shape \in Shape : Draw(shape[1], shape[2], shape[3]) \/ Begin(shape[1])
    \/ Immediate \/ End
    \/ \E l \in List : CallList(l) \/ \E mode \in {"COMPILE", "COMPILE_AND_EXECUTE"} : NewList(l, mode)
    \/ EndList \/ EndListNowhere \/ SwapBuffers
    \/ \E c \in Context : MakeCurrent(c)

Spec == Init /\ [][Next]_vars
-----------------------------------------------------------------------------
(* "signals for the number of triangles and batches" (stats_primitives.xml:28): from
   the second swap on ("No statistics are reported for the first frame") what is
   reported at a swap is what OpenGL drew since the one before, also through lists
   that are compiled anew, in another context too, while they are in use. *)
FramesReported ==
    [][swaps' # swaps /\ cur # Unallocated => Logged = drawn]_vars
=============================================================================
