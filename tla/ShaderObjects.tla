---------------------------- MODULE ShaderObjects ----------------------------
(* The lists of shaders and programs in gl/globjects.c.  "Shader and program
   objects are tricky": a shader goes when it is deleted and attached to no
   program, a program when it is deleted and no context uses it, and its shaders
   with it.  So a call that may make objects go is looked at twice: the filter
   globjects_pre, before it, notes what to check, and globjects, after it, asks
   for each whether it is still there.

   Every thread has a context of its own, and all share their objects.  The lists
   are tables of a namespace, which a thread reaches through its context; contexts
   that share objects may have one namespace or several (see Contexts).  As OpenGL
   wants it, the application sees to it that no other call is under way while it
   attaches, detaches or deletes; glUseProgram may overlap with itself, and the
   calls that create objects, whose names OpenGL picks, with everything.  It knows a
   name once the call that created it has returned. *)
CONSTANTS
    Thread, Name,
    Picked      \* pairs <<kind, name>>: what OpenGL may give which name

None == "none"

VARIABLES
    \* the OpenGL side
    kind,           \* what each name is: None, "shader" or "program"
    flagged,        \* deleted, but perhaps still there
    attached,       \* pairs <<program, shader>>
    using,          \* the program each context uses
    home,           \* the namespace of each thread's context, named for one such thread
    listed,         \* triples <<namespace, kind, name>>: what is in which table
    pc,
    maker,          \* history: the namespace in which each name was created last
    reused,         \* history: names given out anew while a thread was removing them
    strayed         \* history: entries whose object went by a call in another namespace

gl == <<kind, flagged, attached, using>>
history == <<maker, reused, strayed>>
vars == <<gl, home, listed, pc, history>>

Idle == [at |-> "idle", op |-> None, name |-> None, program |-> None, checks |-> {}, gone |-> {}]

Init ==
    /\ kind = [x \in Name |-> None] /\ flagged = {} /\ attached = {}
    /\ using = [t \in Thread |-> None]
    /\ home \in [Thread -> Thread] /\ \A t \in Thread : home[home[t]] = home[t]
    /\ listed = {} /\ reused = {} /\ strayed = {}
    /\ maker = [x \in Name |-> None]
    /\ pc = [t \in Thread |-> Idle]

In(n) == {t \in Thread : home[t] = n}
At(t, at) == pc[t].at = at
Goto(t, to) == pc' = [pc EXCEPT ![t] = to]
Is(k, x) == x # None /\ kind[x] = k                 \* glIsShader, glIsProgram
Known(k, x) == Is(k, x) /\ ~\E t \in Thread : At(t, "add") /\ pc[t].name = x
Alone == \A t \in Thread : pc[t].at \in {"idle", "add"}
AllUse == \A t \in Thread : pc[t].at \in {"idle", "add"} \/ pc[t].op = "use"
-----------------------------------------------------------------------------
\* glCreateShader and glCreateProgram, and the filter after them
Create(t, k, x) ==
    /\ At(t, "idle") /\ kind[x] = None /\ <<k, x>> \in Picked
    /\ kind' = [kind EXCEPT ![x] = k]
    /\ maker' = [maker EXCEPT ![x] = home[t]]
    /\ reused' = IF \E u \in In(home[t]) : <<k, x>> \in pc[u].gone
                 THEN reused \cup {x} ELSE reused
    /\ Goto(t, [Idle EXCEPT !.at = "add", !.op = k, !.name = x])
    /\ strayed' = {e \in strayed : <<e[2], e[3]>> # <<k, x>>}
    /\ UNCHANGED <<flagged, attached, using, home, listed>>

Entries(t, checks) == {<<home[t], check[1], check[2]>> : check \in checks}

Add(t) ==
    /\ At(t, "add")
    /\ listed' = listed \cup Entries(t, {<<pc[t].op, pc[t].name>>})
    /\ Goto(t, Idle)
    /\ UNCHANGED <<gl, home, history>>

Attach(t, p, s) ==
    /\ At(t, "idle") /\ Alone /\ Known("program", p) /\ Known("shader", s)
    /\ attached' = attached \cup {<<p, s>>}
    /\ UNCHANGED <<kind, flagged, using, home, listed, pc, history>>
-----------------------------------------------------------------------------
AttachedTo(p) == {s \in Name : <<p, s>> \in attached}

\* Leaves out the shaders that go with their program.
ProgramAlone(shaders, p) == {<<"program", p>>}

\* globjects_pre_glsl_delete_program
ProgramChecks(shaders, p) ==
    {<<"shader", s>> : s \in shaders} \cup {<<"program", p>>}

\* A call whose name to delete or detach is x, and what to check after it
Call(t, op, x, p, checks) ==
    Goto(t, [at |-> "invoke", op |-> op, name |-> x, program |-> p, checks |-> checks, gone |-> {}])

UseProgram(t, p) ==
    /\ At(t, "idle") /\ AllUse /\ (p # None => Known("program", p))
    /\ Call(t, "use", p, None,
            IF using[t] = None THEN {} ELSE ProgramChecks(AttachedTo(using[t]), using[t]))
    /\ UNCHANGED <<gl, home, listed, history>>

DetachShader(t, p, s) ==
    /\ At(t, "idle") /\ Alone /\ Known("program", p) /\ Known("shader", s)
    /\ Call(t, "detach", s, p, {<<"shader", s>>})
    /\ UNCHANGED <<gl, home, listed, history>>

DeleteShader(t, s) ==
    /\ At(t, "idle") /\ Alone /\ Known("shader", s)
    /\ Call(t, "shader", s, None, {<<"shader", s>>})
    /\ UNCHANGED <<gl, home, listed, history>>

DeleteProgram(t, p) ==
    /\ At(t, "idle") /\ Alone /\ Known("program", p)
    /\ Call(t, "program", p, None, ProgramChecks(AttachedTo(p), p))
    /\ UNCHANGED <<gl, home, listed, history>>

(* glDeleteProgram(0), which does nothing: neither the count nor the names of the
   shaders are then set, so that anything (here one name at most) is checked.  A
   count for which there is no memory ends the program. *)
DeleteZero(t) ==
    /\ At(t, "idle") /\ Alone
    /\ \E s \in Name \cup {None} : Call(t, None, None, None, ProgramChecks({s} \ {None}, None))
    /\ UNCHANGED <<gl, home, listed, history>>
-----------------------------------------------------------------------------
\* What OpenGL drops once the flagged names are f, and so on
Dropped(f, a, u) ==
    LET programs == {p \in f : kind[p] = "program" /\ \A t \in Thread : u[t] # p}
        shaders == {s \in f : kind[s] = "shader" /\ \A p \in Name \ programs : <<p, s>> \notin a}
    IN  programs \cup shaders

Become(t, f, a, u) ==
    LET gone == Dropped(f, a, u)
    IN  /\ kind' = [x \in Name |-> IF x \in gone THEN None ELSE kind[x]]
        /\ flagged' = f \ gone
        /\ attached' = {pair \in a : pair[1] \notin gone}
        /\ using' = u
        /\ maker' = [x \in Name |-> IF x \in gone THEN None ELSE maker[x]]
        /\ reused' = reused \ gone
        /\ strayed' = strayed \cup {e \in listed : e[1] # home[t] /\ e[3] \in gone /\ e[2] = kind[e[3]]}

Check(t, checks) ==
    Goto(t, IF checks = {} THEN Idle ELSE [Idle EXCEPT !.at = "ask", !.op = pc[t].op, !.checks = checks])

\* The real call: one that names no such object fails.
Invoke(t) ==
    /\ At(t, "invoke")
    /\ LET x == pc[t].name IN
       \/ /\ pc[t].op = "use" /\ (x = None \/ Is("program", x))
          /\ Become(t, flagged, attached, [using EXCEPT ![t] = x])
       \/ /\ pc[t].op = "detach" /\ <<pc[t].program, x>> \in attached
          /\ Become(t, flagged, attached \ {<<pc[t].program, x>>}, using)
       \/ /\ pc[t].op \in {"shader", "program"} /\ Is(pc[t].op, x)
          /\ Become(t, flagged \cup {x}, attached, using)
       \/ UNCHANGED <<gl, history>>
    /\ Check(t, pc[t].checks)
    /\ UNCHANGED <<home, listed>>
-----------------------------------------------------------------------------
(* globjects_checks: asks outside the lock, and then deletes under it.  The
   program is the last check of its list. *)
Ask(t) ==
    /\ At(t, "ask")
    /\ \E check \in pc[t].checks :
          /\ check[1] = "program" => pc[t].checks = {check}
          /\ IF Is(check[1], check[2]) THEN Check(t, pc[t].checks \ {check})
             ELSE Goto(t, [pc[t] EXCEPT !.at = "remove", !.gone = {check}])
    /\ UNCHANGED <<gl, home, listed, history>>

DeleteSingle(t) ==
    /\ At(t, "remove")
    /\ LET old == Entries(t, pc[t].gone) IN listed' = listed \ old /\ strayed' = strayed \ old
    /\ Check(t, pc[t].checks \ pc[t].gone)
    /\ UNCHANGED <<gl, home, maker, reused>>

Next == \E t \in Thread :
    \/ \E x \in Name : Create(t, "shader", x) \/ Create(t, "program", x)
    \/ \E p, s \in Name : Attach(t, p, s) \/ DetachShader(t, p, s)
    \/ \E x \in Name : DeleteShader(t, x) \/ DeleteProgram(t, x)
    \/ \E x \in Name \cup {None} : UseProgram(t, x)
    \/ DeleteZero(t) \/ Add(t) \/ Invoke(t) \/ Ask(t) \/ DeleteSingle(t)

Spec == Init /\ [][Next]_vars
-----------------------------------------------------------------------------
Busy(n, x) == \E t \in In(n) :
    \/ pc[t].at = "add" /\ pc[t].name = x
    \/ \E k \in {"shader", "program"} : <<k, x>> \in pc[t].checks

(* "Shaders disappear when no longer attached to ANY program, and programs
   disappear when no longer active in ANY context" (globjects.c:231), "so we make the
   changes afterwards".  The tables of a namespace, but for names that a call made
   through it is busy with: no shader or program is listed that is gone, unless it
   went by a call made through another namespace, whose filter looks in that one's
   tables only (lock, globjects.c:64-84); and what was created through the namespace
   is listed as long as it is there, unless its name was given out while a call of
   the namespace stood between the question about the old object and the removal
   (globjects_checks, 373-391).  With one namespace the first exception is empty. *)
ListedIsAlive ==
    \A n \in Thread, x \in Name, k \in {"shader", "program"} : ~Busy(n, x) =>
        /\ <<n, k, x>> \in listed => kind[x] = k \/ <<n, k, x>> \in strayed
        /\ kind[x] = k /\ maker[x] = n => <<n, k, x>> \in listed \/ x \in reused
-----------------------------------------------------------------------------
(* The inductive invariant. *)
Kinds == {"shader", "program"}
Calling(t) == pc[t].at \in {"invoke", "ask", "remove"}

Targets == Kinds \X ({None} \cup Name)
PC == [at : {"idle", "add", "invoke", "ask", "remove"}, op : {None, "use", "detach"} \cup Kinds,
       name : {None} \cup Name, program : {None} \cup Name,
       checks : SUBSET Targets, gone : SUBSET Targets]

TypeOK ==
    /\ kind \in [Name -> {None} \cup Kinds]
    /\ flagged \subseteq {x \in Name : kind[x] # None}
    /\ attached \subseteq {p \in Name : kind[p] = "program"} \X {s \in Name : kind[s] = "shader"}
    /\ using \in [Thread -> {None} \cup {p \in Name : kind[p] = "program"}]
    /\ home \in [Thread -> Thread]
    /\ maker \in [Name -> {None} \cup Thread]
    /\ pc \in [Thread -> PC]
    /\ \A t \in Thread : /\ ~Calling(t) => pc[t].checks = {}
                         /\ ~At(t, "remove") => pc[t].gone = {}

\* OpenGL has dropped what nothing holds.
DroppedInv ==
    /\ \A p \in flagged : kind[p] = "program" => \E t \in Thread : using[t] = p
    /\ \A s \in flagged : kind[s] = "shader" => \E p \in Name : <<p, s>> \in attached

(* No one but the thread that created an object knows of it before the filter has
   come by, and no one else changes objects while one is called for. *)
CallInv ==
    /\ \A t \in Thread : At(t, "add") =>
           /\ pc[t].name \in Name \ flagged
           /\ pc[t].op \in Kinds /\ kind[pc[t].name] = pc[t].op
           /\ maker[pc[t].name] = home[t]
    /\ \A t, u \in Thread : Calling(t) /\ Calling(u) /\ t # u => pc[t].op = "use"
    /\ \A t \in Thread : At(t, "invoke") /\ pc[t].op \in Kinds =>
           /\ pc[t].name \in Name /\ kind[pc[t].name] = pc[t].op
           /\ \A u \in Thread : At(u, "add") => pc[u].name # pc[t].name

\* What may go with the real call is to be checked after it.
CheckInv ==
    \A t \in Thread : At(t, "invoke") =>
        /\ pc[t].op = "use" /\ using[t] # None =>
               ProgramChecks(AttachedTo(using[t]), using[t]) \subseteq pc[t].checks
        /\ pc[t].op \in {"detach", "shader"} => <<"shader", pc[t].name>> \in pc[t].checks
        /\ pc[t].op = "program" => ProgramChecks(AttachedTo(pc[t].name), pc[t].name) \subseteq pc[t].checks

(* What is listed and gone is about to be checked by a thread of its namespace, or
   strayed; what is there is listed where it was created, or about to be, or was given
   its name while a thread of that namespace stood before the removal. *)
Accounted(n, k, x) ==
    /\ <<n, k, x>> \in listed /\ kind[x] # k =>
           <<n, k, x>> \in strayed \/ \E t \in In(n) : <<k, x>> \in pc[t].checks
    /\ kind[x] = k /\ maker[x] = n =>
           \/ <<n, k, x>> \in listed \/ x \in reused
           \/ \E t \in Thread : At(t, "add") /\ pc[t].name = x
    /\ kind[x] = k /\ maker[x] = n /\ x \notin reused => \A t \in In(n) : <<k, x>> \notin pc[t].gone

ListInv == \A n \in Thread, k \in Kinds, x \in Name : Accounted(n, k, x)

IInv == TypeOK /\ DroppedInv /\ CallInv /\ CheckInv /\ ListInv
=============================================================================
