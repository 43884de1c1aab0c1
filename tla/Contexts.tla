------------------------------ MODULE Contexts ------------------------------
(* What libbugle knows of the application's contexts and of the objects in them:
   trackcontext.c keeps an object per context and one per namespace of shared
   objects, objects.c the current object of each thread, globjects.c the list of
   the objects that are alive.  Each intercepted call has the real call as a step
   of its own, before the filters that look at its outcome (after those of
   glXDestroyContext).  Texture names stand for every type that contexts share.

   An address is not used for a second context here. *)
EXTENDS FiniteSets

CONSTANTS Thread, Context, Name, Null,
          Unseen      \* contexts that no intercepted call created

ASSUME NullAssumption == Null \notin Context \cup Thread
ASSUME ContextAssumption == IsFiniteSet(Context)

VARIABLES
    \* the OpenGL side
    group,             \* the share group of each context, Null before its creation
    share,             \* the context it was created to share with
    gl_current,        \* by thread
    alive,             \* pairs <<group, name>>
    destroyed,
    \* trackcontext.c: an object is known by the context that it was made for
    initial_values,    \* the root_context of the contexts in that table
    context_objects, freed, namespace_objects,
    current,           \* the current context object of each thread
    namespace,         \* the current namespace object of each context object
    \* globjects.c, by namespace object
    objects, mutex,
    pc, crashed

opengl == <<group, share, gl_current, alive, destroyed>>
tracked == <<initial_values, context_objects, freed, namespace_objects, current, namespace>>
vars == <<opengl, tracked, objects, mutex, pc, crashed>>

Idle == [at |-> "idle"]
Nowhere == [c \in Context |-> Null]

Init ==
    /\ group = [c \in Context |-> IF c \in Unseen THEN c ELSE Null]
    /\ share = Nowhere /\ alive = {} /\ destroyed = {}
    /\ gl_current = [t \in Thread |-> Null] /\ current = [t \in Thread |-> Null]
    /\ initial_values = [c \in {} |-> Null]
    /\ context_objects = Nowhere /\ freed = {}
    /\ namespace_objects = Nowhere /\ namespace = Nowhere
    /\ objects = [n \in Context |-> {}] /\ mutex = Nowhere
    /\ pc = [t \in Thread |-> Idle] /\ crashed = FALSE

Goto(t, to) == ~crashed /\ pc' = [pc EXCEPT ![t] = to]
At(t, at) == ~crashed /\ pc[t].at = at
Usable(c) == group[c] # Null /\ c \notin destroyed
             /\ \A t \in Thread : pc[t].at \in {"free", "destroy"} => pc[t].ctx # c
-----------------------------------------------------------------------------
(* bugle_glwin_newcontext.  The table starts out with zeros, so that a context
   which shares with none has no root_context. *)
RootOf(c, with) ==
    IF with = Null THEN Null
    ELSE IF with \in DOMAIN initial_values THEN initial_values[with]
    ELSE c

Create(t, c, with) ==
    /\ At(t, "idle") /\ group[c] = Null
    /\ with # Null => Usable(with)
    /\ group' = [group EXCEPT ![c] = IF with = Null THEN c ELSE group[with]]
    /\ share' = [share EXCEPT ![c] = with]
    /\ initial_values' = [d \in DOMAIN initial_values \cup {c} |->
                             IF d = c THEN RootOf(c, with) ELSE initial_values[d]]
    /\ UNCHANGED <<gl_current, alive, destroyed, context_objects, freed, namespace_objects,
                   current, namespace, objects, mutex, pc, crashed>>

(* glXMakeCurrent, which may fail: a context is current to one thread at most. *)
MakeCurrent(t, c) ==
    /\ At(t, "idle") /\ (c # Null => Usable(c))
    /\ \/ /\ c = Null \/ \A u \in Thread \ {t} : gl_current[u] # c
          /\ gl_current' = [gl_current EXCEPT ![t] = c]
       \/ UNCHANGED gl_current
    /\ Goto(t, [at |-> "made_current", ctx |-> c])
    /\ UNCHANGED <<group, share, alive, destroyed, tracked, objects, mutex, crashed>>

\* bugle_hashptr_get does not find the key NULL.
Found(table, key) == IF key = Null THEN Null ELSE table[key]

(* trackcontext_callback, when c has no object: it gets one, and the namespace
   that is found under its root_context or a new one, kept under its own name. *)
FirstUse(c) ==
    LET ns == Found(namespace_objects, initial_values[c])
        use == IF ns = Null THEN c ELSE ns
    IN  /\ context_objects' = [context_objects EXCEPT ![c] = c]
        /\ freed' = freed \ {c}
        /\ IF c \notin DOMAIN initial_values        \* "used but not created"
           THEN UNCHANGED <<namespace, namespace_objects, objects>>
           ELSE /\ namespace' = [namespace EXCEPT ![c] = use]
                /\ namespace_objects' = [namespace_objects EXCEPT ![use] = use]
                /\ objects' = IF ns = Null THEN [objects EXCEPT ![c] = {}] ELSE objects

Known(c) == c = Null \/ context_objects[c] # Null
TrackUnchanged == UNCHANGED <<context_objects, freed, namespace_objects, namespace, objects>>

\* Takes it that the call succeeded.
TrackAsked(t) ==
    /\ At(t, "made_current")
    /\ current' = [current EXCEPT ![t] = pc[t].ctx]
    /\ IF Known(pc[t].ctx) THEN TrackUnchanged ELSE FirstUse(pc[t].ctx)
    /\ Goto(t, Idle)
    /\ UNCHANGED <<opengl, initial_values, mutex, crashed>>

(* "These calls may fail, so we must explicitly check for the current context" *)
Track(t) ==
    /\ At(t, "made_current")
    /\ current' = [current EXCEPT ![t] = gl_current[t]]
    /\ IF Known(gl_current[t]) THEN TrackUnchanged ELSE FirstUse(gl_current[t])
    /\ Goto(t, Idle)
    /\ UNCHANGED <<opengl, initial_values, mutex, crashed>>
-----------------------------------------------------------------------------
(* glXDestroyContext of a context that is current to no other thread: the filter
   comes before the real call.  It does not take context_mutex; what two threads
   then do to the table of contexts at once is not modelled. *)
DestroyCall(t, c) ==
    /\ At(t, "idle") /\ Usable(c) /\ \A u \in Thread \ {t} : gl_current[u] # c
    /\ Goto(t, [at |-> "free", ctx |-> c])
    /\ UNCHANGED <<opengl, tracked, objects, mutex, crashed>>

\* Frees the object and leaves it the thread's current one.
FreeCurrent(t) ==
    /\ At(t, "free")
    /\ context_objects' = [context_objects EXCEPT ![pc[t].ctx] = Null]
    /\ freed' = freed \cup ({context_objects[pc[t].ctx]} \ {Null})
    /\ Goto(t, [pc[t] EXCEPT !.at = "destroy"])
    /\ UNCHANGED <<opengl, initial_values, namespace_objects, current, namespace,
                   objects, mutex, crashed>>

Free(t) ==              \* bugle_object_free, the destructor of the table
    /\ At(t, "free")
    /\ context_objects' = [context_objects EXCEPT ![pc[t].ctx] = Null]
    /\ freed' = freed \cup ({context_objects[pc[t].ctx]} \ {Null})
    /\ current' = IF current[t] = pc[t].ctx THEN [current EXCEPT ![t] = Null] ELSE current
    /\ Goto(t, [pc[t] EXCEPT !.at = "destroy"])
    /\ UNCHANGED <<opengl, initial_values, namespace_objects, namespace, objects, mutex, crashed>>

Destroy(t) ==           \* OpenGL keeps it until it is no longer current
    /\ At(t, "destroy")
    /\ destroyed' = destroyed \cup {pc[t].ctx}
    /\ Goto(t, Idle)
    /\ UNCHANGED <<group, share, gl_current, alive, tracked, objects, mutex, crashed>>
-----------------------------------------------------------------------------
Group(t) == group[gl_current[t]]
Is(t, x) == <<Group(t), x>> \in alive                  \* glIsTexture

(* glBindTexture and glDeleteTextures, which may fail *)
Bind(t, x) ==
    /\ At(t, "idle") /\ gl_current[t] # Null
    /\ alive' \in {alive, alive \cup {<<Group(t), x>>}}
    /\ Goto(t, [at |-> "lock", op |-> "add", name |-> x])
    /\ UNCHANGED <<group, share, gl_current, destroyed, tracked, objects, mutex, crashed>>

Delete(t, x) ==
    /\ At(t, "idle") /\ gl_current[t] # Null
    /\ alive' \in {alive, alive \ {<<Group(t), x>>}}
    /\ Goto(t, [at |-> "lock", op |-> "delete", name |-> x])
    /\ UNCHANGED <<group, share, gl_current, destroyed, tracked, objects, mutex, crashed>>

Namespace(t) == IF current[t] = Null THEN Null ELSE namespace[current[t]]

(* lock() reaches its mutex through the current namespace, and through a null
   pointer if there is none. *)
LockNowhere(t) ==
    /\ At(t, "lock") /\ Namespace(t) = Null
    /\ crashed' = TRUE
    /\ UNCHANGED <<opengl, tracked, objects, mutex, pc>>

\* Does without the mutex.
LockNot(t) ==
    /\ At(t, "lock") /\ Namespace(t) # Null
    /\ Goto(t, [pc[t] EXCEPT !.at = "check"])
    /\ UNCHANGED <<opengl, tracked, objects, mutex, crashed>>

Lock(t) ==
    /\ At(t, "lock") /\ Namespace(t) # Null
    /\ mutex[Namespace(t)] = Null
    /\ mutex' = [mutex EXCEPT ![Namespace(t)] = t]
    /\ Goto(t, [pc[t] EXCEPT !.at = "check"])
    /\ UNCHANGED <<opengl, tracked, objects, crashed>>

(* globjects_add_single, globjects_delete_multiple *)
Check(t) ==
    /\ At(t, "check")
    /\ Goto(t, [at |-> "set", name |-> pc[t].name,
                op |-> IF pc[t].op = "add" /\ Is(t, pc[t].name) THEN "add"
                       ELSE IF pc[t].op = "delete" /\ ~Is(t, pc[t].name) THEN "delete"
                       ELSE "none"])
    /\ UNCHANGED <<opengl, tracked, objects, mutex, crashed>>

Set(t) ==
    /\ At(t, "set")
    /\ objects' = [objects EXCEPT ![Namespace(t)] =
                      CASE pc[t].op = "add" -> @ \cup {pc[t].name}
                        [] pc[t].op = "delete" -> @ \ {pc[t].name}
                        [] OTHER -> @]
    /\ mutex' = [mutex EXCEPT ![Namespace(t)] = Null]
    /\ Goto(t, Idle)
    /\ UNCHANGED <<opengl, tracked, crashed>>
-----------------------------------------------------------------------------
Next == \E t \in Thread :
    \/ \E c \in Context : (\E d \in Context \cup {Null} : Create(t, c, d)) \/ DestroyCall(t, c)
    \/ \E c \in Context \cup {Null} : MakeCurrent(t, c)
    \/ \E x \in Name : Bind(t, x) \/ Delete(t, x)
    \/ Track(t) \/ Free(t) \/ Destroy(t)
    \/ LockNowhere(t) \/ Lock(t) \/ Check(t) \/ Set(t)

Spec == Init /\ [][Next]_vars
-----------------------------------------------------------------------------
PC == {Idle} \cup [at : {"made_current"}, ctx : Context \cup {Null}]
             \cup [at : {"free", "destroy"}, ctx : Context]
             \cup [at : {"lock", "check"}, op : {"add", "delete"}, name : Name]
             \cup [at : {"set"}, op : {"add", "delete", "none"}, name : Name]

ContextOrNull == [Context -> Context \cup {Null}]

TypeOK ==
    /\ group \in ContextOrNull /\ share \in ContextOrNull
    /\ gl_current \in [Thread -> Context \cup {Null}] /\ current \in [Thread -> Context \cup {Null}]
    /\ alive \subseteq Context \X Name /\ destroyed \subseteq Context
    /\ DOMAIN initial_values \subseteq Context
    /\ \A c \in DOMAIN initial_values : initial_values[c] \in Context \cup {Null}
    /\ context_objects \in ContextOrNull /\ freed \subseteq Context
    /\ namespace_objects \in ContextOrNull /\ namespace \in ContextOrNull
    /\ objects \in [Context -> SUBSET Name] /\ mutex \in [Context -> Thread \cup {Null}]
    /\ pc \in [Thread -> PC] /\ crashed \in BOOLEAN

Touched(t, g, x) == pc[t].at \in {"lock", "check", "set"} /\ Group(t) = g /\ pc[t].name = x

-----------------------------------------------------------------------------
(* What both rest on.  A context is current to one thread, and one that is being
   destroyed to no other. *)
Destroying(t, c) == pc[t].at \in {"free", "destroy"} /\ pc[t].ctx = c
GlInv ==
    /\ \A t \in Thread : gl_current[t] # Null => group[gl_current[t]] # Null
    /\ \A t, u \in Thread : t # u /\ gl_current[t] # Null => gl_current[u] # gl_current[t]
    /\ \A t, u \in Thread, c \in Context : t # u /\ Destroying(t, c) => gl_current[u] # c
    /\ \A t \in Thread : pc[t].at \in {"lock", "check", "set"} => gl_current[t] # Null

\* A context has its own object, or had it until it was destroyed.
ObjectInv ==
    \A c \in Context :
        /\ context_objects[c] # Null => context_objects[c] = c /\ c \notin freed
        /\ c \in freed => c \in destroyed \/ \E t \in Thread : Destroying(t, c)

CurrentInv ==
    \A t \in Thread : pc[t].at # "made_current" =>
        /\ current[t] # Null => current[t] = gl_current[t] /\ context_objects[current[t]] # Null
        /\ gl_current[t] # Null /\ gl_current[t] \notin freed => current[t] = gl_current[t]

(* Namespaces stay within their share group.  A context that found one under its
   root_context found that of a context which is its own root_context. *)
RootInv ==
    \A c \in DOMAIN initial_values :
        /\ group[c] # Null
        /\ LET root == initial_values[c] IN root # Null =>
              /\ root \in DOMAIN initial_values /\ initial_values[root] = root
              /\ group[root] = group[c]
NamespaceInv ==
    \A c \in Context :
        /\ namespace_objects[c] # Null => namespace_objects[c] = c /\ namespace[c] # Null
        /\ namespace[c] # Null =>
              /\ c \in DOMAIN initial_values
              /\ context_objects[c] # Null \/ c \in freed
              /\ namespace[c] = c \/ namespace[c] = initial_values[c]
              /\ namespace_objects[namespace[c]] # Null

MutexInv == \A t \in Thread : pc[t].at \in {"check", "set"} =>
                Namespace(t) # Null /\ mutex[Namespace(t)] = t

(* A name that is alive and not listed, or listed and not alive, is one that a call
   is about to add or to delete; and that call is right about it, or another one
   waits for the mutex which will see to it. *)
Busy(t, g, x, op) == Touched(t, g, x) /\ pc[t].op = op
Waits(g, x, op) == \E t \in Thread : Busy(t, g, x, op) /\ pc[t].at = "lock"
Namespaces(g) == {c \in Context : group[c] = g /\ namespace_objects[c] # Null}
\* What a context that was destroyed lists is of no use to another.
Valid(n) == n \notin destroyed \/ initial_values[n] = n
ListInv ==
    \A g \in Context, x \in Name :
        /\ Namespaces(g) = {} /\ <<g, x>> \in alive => \E t \in Thread : Busy(t, g, x, "add")
        /\ \A n \in Context : Namespaces(g) = {n} /\ Valid(n) =>
              /\ <<g, x>> \in alive /\ x \notin objects[n] => \E t \in Thread : Busy(t, g, x, "add")
              /\ <<g, x>> \notin alive /\ x \in objects[n] => \E t \in Thread : Busy(t, g, x, "delete")
              /\ \A t \in Thread : pc[t].at = "set" =>
                    /\ Busy(t, g, x, "add") => <<g, x>> \in alive \/ Waits(g, x, "delete")
                    /\ Busy(t, g, x, "delete") => <<g, x>> \notin alive \/ Waits(g, x, "add")

\* The inductive invariant.
IInv == /\ TypeOK /\ GlInv /\ ObjectInv /\ CurrentInv /\ RootInv /\ NamespaceInv
        /\ MutexInv /\ ListInv
-----------------------------------------------------------------------------
(* "each thread has a current context" (extending.xml:653): between calls, what
   the library takes for the context of a thread is that of OpenGL, also when
   making it current failed, and never one whose data was freed. *)
CurrentIsGl ==
    ~crashed => \A t \in Thread : pc[t].at # "made_current" =>
        /\ current[t] # Null => current[t] = gl_current[t] /\ current[t] \notin freed
        /\ gl_current[t] # Null /\ gl_current[t] \notin freed => current[t] = gl_current[t]

Used(c) == namespace[c] # Null
OneNamespace(g) == Cardinality({c \in Context : group[c] = g /\ namespace_objects[c] # Null}) = 1
(* "we examine any ids passed to these functions and check whether they really do
   exist. This avoids race conditions and other nastiness (like failed calls)"
   (globjects.c:86): where the contexts of a share group made one namespace,
   what it lists is what is alive, for every name that no call is busy with. *)
ListsAlive ==
    ~crashed => \A c \in Context \ destroyed : Used(c) /\ OneNamespace(group[c]) =>
        \A x \in Name : (\A t \in Thread : ~Touched(t, group[c], x)) =>
            (x \in objects[namespace[c]] <=> <<group[c], x>> \in alive)

(* "context that owns the namespace - possibly self" (trackcontext.c:54), and
   "Calls back walker for each object of the specified type" (globjects.h:41): a
   context finds the objects of the context it was created to share with. *)
SharersAgree ==
    \A c \in Context : share[c] # Null /\ Used(c) /\ Used(share[c]) =>
        namespace[c] = namespace[share[c]]
=============================================================================
