------------------------------ MODULE Filters ------------------------------
(* The filter chain of filters.c at run time: every intercepted call walks the
   list of active callbacks under a read lock; key presses and the debugger turn
   filter-sets on and off, which recomputes the lists under the write lock.  The
   lock is the abstract one, RWLockSpec. *)
EXTENDS Naturals, Sequences, SequencesExt, FiniteSets

CONSTANTS
    Thread, FilterSet, Function,
    Loaded,          \* loaded_filters, in order: [name, parent, callbacks]
    InvokeFilter,    \* the name of the filter that calls the real function
    Keyed,           \* the filter-sets with a toggle key
    MaxDeferred,     \* bound on activations_deferred
    StartupDefers,   \* the debugger gets (de)activation requests before the program runs
    CallbackDefers,  \* ... and when it has stopped the program in a callback
    ExitBusy         \* a thread may exit() while others are in a call

ASSUME SetsAssumption == Keyed \subseteq FilterSet /\ MaxDeferred \in Nat
ASSUME LoadedAssumption ==
    /\ Loaded \in Seq(ToSet(Loaded))
    /\ \A i \in 1..Len(Loaded) : Loaded[i].callbacks \in Seq(ToSet(Loaded[i].callbacks))
ASSUME ModesAssumption == StartupDefers \in BOOLEAN /\ CallbackDefers \in BOOLEAN
                          /\ ExitBusy \in BOOLEAN

VARIABLES
    phase,                  \* of the process: "startup", "running", "exited", "dead"
    active,                 \* filter_set.active
    hooked,                 \* which of its hooks a filter-set saw last, TRUE for activate
    active_callbacks, activations_deferred,
    bypass,                 \* _budgie_bypass
    readers, writers,       \* active_callbacks_rwlock
    frame                   \* what each thread is doing

lists == <<active_callbacks, bypass>>
lock == <<readers, writers>>
vars == <<phase, active, hooked, active_callbacks, activations_deferred, bypass,
          readers, writers, frame>>

Lock == INSTANCE RWLockSpec
-----------------------------------------------------------------------------
\* The callbacks of one filter, first registered first
Catchers(fl) ==
    [c \in 1..Len(fl.callbacks) |-> [filter |-> fl.name, parent |-> fl.parent,
                                     callback |-> fl.callbacks[c]]]
\* All of them, as compute_active_callbacks comes to them: last registered first
Chain == FlattenSeq([i \in 1..Len(Loaded) |-> Reverse(Catchers(Loaded[i]))])

\* Those of an inactive filter-set only if they ask for it
Wanted(e, f, act) == e.callback.function = f /\ (act[e.parent] \/ e.callback.inactive)
ActiveCallbacks(act) ==
    [f \in Function |-> FlattenSeq([i \in 1..Len(Chain) |->
                           IF Wanted(Chain[i], f, act) THEN <<Chain[i]>> ELSE <<>>])]

\* Skips what no active filter catches now.
BypassInactive ==
    [f \in Function |-> \A i \in 1..Len(Loaded) : \A c \in ToSet(Loaded[i].callbacks) :
        c.function = f => Loaded[i].name = InvokeFilter \/ ~active[Loaded[i].parent]]

Bypass ==
    [f \in Function |-> \A i \in 1..Len(Loaded) : \A c \in ToSet(Loaded[i].callbacks) :
        c.function = f => Loaded[i].name = InvokeFilter]

Idle == [pc |-> "idle"]
Goto(t, fr) == frame' = [frame EXCEPT ![t] = fr]
At(t, pc) == phase = "running" /\ frame[t].pc = pc

\* filter_set_activate_nolock, filter_set_deactivate_nolock
Change(s, on) ==
    /\ active' = [active EXCEPT ![s] = on]
    /\ hooked' = IF active[s] = on THEN hooked ELSE [hooked EXCEPT ![s] = on]

(* filter_set_add has set the flags and one thread runs the initialisers; the
   others wait for it in bugle_thread_once. *)
Init ==
    /\ phase = "startup"
    /\ active \in [FilterSet -> BOOLEAN]
    /\ hooked = [s \in FilterSet |-> FALSE]
    /\ active_callbacks = [f \in Function |-> <<>>]
    /\ activations_deferred = <<>>
    /\ bypass = [f \in Function |-> FALSE]
    /\ readers = {} /\ writers = {}
    /\ frame = [t \in Thread |-> Idle]
-----------------------------------------------------------------------------
(* The activate hooks of the filter-sets that start active are not run:
   filter_set_activate_nolock finds the flag set. *)
LoadFilterSets == UNCHANGED <<active, hooked>>

\* filters_finalise
Finalise ==
    /\ phase = "startup" /\ \A t \in Thread : frame[t] = Idle
    /\ phase' = "running"
    /\ active_callbacks' = ActiveCallbacks(active)
    /\ LoadFilterSets
    /\ bypass' = Bypass
    /\ UNCHANGED <<activations_deferred, lock, frame>>

(* bugle_filter_set_activate_deferred and its twin: the debugger, for a request
   that asks for a change.  In the initialisers no lock is held. *)
Defer(t, s, on) ==
    /\ \/ phase = "startup" /\ StartupDefers /\ \A u \in Thread : frame[u] = Idle
       \/ At(t, "walk") /\ CallbackDefers
    /\ Len(activations_deferred) < MaxDeferred
    /\ active[s] # on
    /\ Goto(t, [pc |-> "defer", set |-> s, on |-> on, back |-> frame[t]])
    /\ UNCHANGED <<phase, active, hooked, lists, activations_deferred, lock>>

DeferLock(t) ==
    /\ phase \in {"startup", "running"} /\ frame[t].pc = "defer"
    /\ Lock!Write(t)
    /\ Goto(t, [frame[t] EXCEPT !.pc = "append"])
    /\ UNCHANGED <<phase, active, hooked, lists, activations_deferred>>

DeferAppend(t) ==
    /\ phase \in {"startup", "running"} /\ frame[t].pc = "append"
    /\ activations_deferred' = Append(activations_deferred,
                                      [set |-> frame[t].set, active |-> frame[t].on])
    /\ Lock!Unlock(t)
    /\ Goto(t, frame[t].back)
    /\ UNCHANGED <<phase, active, hooked, lists>>
-----------------------------------------------------------------------------
\* Walks the list without the lock.
RunUnlocked(t, f) ==
    /\ At(t, "idle") /\ ~bypass[f]
    /\ Goto(t, [pc |-> "walk", fn |-> f, pos |-> 1, list |-> active_callbacks[f]])
    /\ UNCHANGED <<phase, active, hooked, lists, activations_deferred, lock>>

(* filters_run.  "list" is a ghost: the list as the walk found it. *)
Run(t, f) ==
    /\ At(t, "idle") /\ ~bypass[f]
    /\ Lock!Read(t)
    /\ Goto(t, [pc |-> "walk", fn |-> f, pos |-> 1, list |-> active_callbacks[f]])
    /\ UNCHANGED <<phase, active, hooked, lists, activations_deferred>>

Callback(t) ==          \* which may end the call
    /\ At(t, "walk") /\ frame[t].pos <= Len(active_callbacks[frame[t].fn])
    /\ \/ Goto(t, [frame[t] EXCEPT !.pos = @ + 1])
       \/ Goto(t, [pc |-> "walked"])
    /\ UNCHANGED <<phase, active, hooked, lists, activations_deferred, lock>>

WalkEnds(t) ==
    /\ At(t, "walk") /\ frame[t].pos > Len(active_callbacks[frame[t].fn])
    /\ Goto(t, [pc |-> "walked"])
    /\ UNCHANGED <<phase, active, hooked, lists, activations_deferred, lock>>

Finish(t) ==
    /\ At(t, "walked")
    /\ Lock!Unlock(t)
    /\ Goto(t, IF activations_deferred = <<>> THEN Idle ELSE [pc |-> "upgrade"])
    /\ UNCHANGED <<phase, active, hooked, lists, activations_deferred>>

Upgrade(t) ==
    /\ At(t, "upgrade")
    /\ Lock!Write(t)
    /\ Goto(t, [pc |-> "process"])
    /\ UNCHANGED <<phase, active, hooked, lists, activations_deferred>>

(* The list holds filter_set_activation, the loop casts to filter_set: it reads
   an "active" far behind the allocation and either finds it set, and does
   nothing, or calls through or writes to memory that is not its own. *)
Process(t) ==
    /\ At(t, "process") /\ activations_deferred # <<>>
    /\ phase' \in {"running", "dead"}
    /\ activations_deferred' = Tail(activations_deferred)
    /\ UNCHANGED <<active, hooked, lists, lock, frame>>

Processed(t) ==
    /\ At(t, "process") /\ activations_deferred = <<>>
    /\ active_callbacks' = ActiveCallbacks(active)
    /\ Goto(t, [pc |-> "unlock"])
    /\ UNCHANGED <<phase, active, hooked, bypass, activations_deferred, lock>>

\* Leaves the write lock behind.
UnlockForgotten(t) ==
    /\ At(t, "unlock")
    /\ Goto(t, Idle)
    /\ UNCHANGED <<phase, active, hooked, lists, activations_deferred, lock>>

Unlock(t) ==
    /\ At(t, "unlock")
    /\ Lock!Unlock(t)
    /\ Goto(t, Idle)
    /\ UNCHANGED <<phase, active, hooked, lists, activations_deferred>>
-----------------------------------------------------------------------------
(* toggle_filterset, in the thread that takes the key event from the queue *)
Toggle(t, s) ==
    /\ At(t, "idle") /\ s \in Keyed
    /\ Goto(t, [pc |-> "toggle", set |-> s, on |-> ~active[s]])
    /\ UNCHANGED <<phase, active, hooked, lists, activations_deferred, lock>>

\* Changes the flag without the lock.
ToggleUnlocked(t) ==
    /\ At(t, "toggle")
    /\ Goto(t, [frame[t] EXCEPT !.pc = "change"])
    /\ UNCHANGED <<phase, active, hooked, lists, activations_deferred, lock>>

ToggleLock(t) ==
    /\ At(t, "toggle")
    /\ Lock!Write(t)
    /\ Goto(t, [frame[t] EXCEPT !.pc = "change"])
    /\ UNCHANGED <<phase, active, hooked, lists, activations_deferred>>

ToggleChange(t) ==
    /\ At(t, "change")
    /\ Change(frame[t].set, frame[t].on)
    /\ Goto(t, [pc |-> "compute"])
    /\ UNCHANGED <<phase, lists, activations_deferred, lock>>

Compute(t) ==
    /\ At(t, "compute")
    /\ active_callbacks' = ActiveCallbacks(active)
    /\ Goto(t, [pc |-> "unlock"])
    /\ UNCHANGED <<phase, active, hooked, bypass, activations_deferred, lock>>
-----------------------------------------------------------------------------
(* filters_shutdown, which atexit runs in the thread that leaves and which takes
   no lock. *)
Exit(t) ==
    /\ At(t, "idle")
    /\ ExitBusy \/ \A u \in Thread : frame[u] = Idle
    /\ phase' = "exited"
    /\ active_callbacks' = [f \in Function |-> <<>>]
    /\ active' = [s \in FilterSet |-> FALSE]
    /\ hooked' = [s \in FilterSet |-> hooked[s] /\ ~active[s]]
    /\ UNCHANGED <<bypass, activations_deferred, lock, frame>>

InCall(t) == \/ Callback(t) \/ WalkEnds(t) \/ Finish(t) \/ Upgrade(t)
             \/ Process(t) \/ Processed(t) \/ Unlock(t)
Toggling(t) == ToggleLock(t) \/ ToggleChange(t) \/ Compute(t)
Deferring(t) == DeferLock(t) \/ DeferAppend(t)

Next ==
    \/ Finalise
    \/ \E t \in Thread :
        \/ \E f \in Function : Run(t, f)
        \/ \E s \in Keyed : Toggle(t, s)
        \/ \E s \in FilterSet, on \in BOOLEAN : Defer(t, s, on)
        \/ InCall(t) \/ Toggling(t) \/ Deferring(t) \/ Exit(t)

Spec == Init /\ [][Next]_vars

(* Threads are scheduled, callbacks return, and the lock passes over nobody for
   ever (RWLock, LockServed). *)
Fairness == \A t \in Thread :
    /\ WF_vars(InCall(t) \/ Toggling(t) \/ Deferring(t))
    /\ SF_vars(Upgrade(t) \/ ToggleLock(t) \/ DeferLock(t))

FairSpec == Spec /\ Fairness
-----------------------------------------------------------------------------
\* What a walk may come to, and what it may come to on f
Element == UNION {ToSet(Catchers(Loaded[i])) : i \in 1..Len(Loaded)}
Catching(f) == {e \in Element : e.callback.function = f}

Back == {Idle} \cup [pc : {"walk"}, fn : Function, pos : Nat, list : Seq(Element)]
Frame == Back \cup [pc : {"walked", "upgrade", "process", "unlock", "compute"}]
              \cup [pc : {"toggle", "change"}, set : FilterSet, on : BOOLEAN]
              \cup [pc : {"defer", "append"}, set : FilterSet, on : BOOLEAN, back : Back]

TypeOK ==
    /\ phase \in {"startup", "running", "exited", "dead"}
    /\ active \in [FilterSet -> BOOLEAN] /\ hooked \in [FilterSet -> BOOLEAN]
    /\ active_callbacks \in [Function -> Seq(Element)]
    /\ activations_deferred \in Seq([set : FilterSet, active : BOOLEAN])
    /\ bypass \in [Function -> BOOLEAN]
    /\ readers \subseteq Thread /\ writers \subseteq Thread
    /\ frame \in [Thread -> Frame]

Walk(t) == IF frame[t].pc \in {"defer", "append"} THEN frame[t].back ELSE frame[t]

(* The lock by what each thread is doing.  A thread that defers from a callback
   keeps the read lock, and waits for itself. *)
Walking(t) == \/ frame[t].pc \in {"walk", "walked"}
              \/ frame[t].pc = "defer" /\ frame[t].back # Idle
HoldsWrite(t) == frame[t].pc \in {"append", "process", "change", "compute", "unlock"}

LockInv ==
    /\ \A t \in Thread : (t \in readers <=> Walking(t)) /\ (t \in writers <=> HoldsWrite(t))
    /\ writers # {} => readers = {}
    /\ \A t, u \in writers : t = u
    /\ \A t \in Thread : frame[t].pc = "append" => frame[t].back = Idle

StartupInv == phase = "startup" => \A t \in Thread : frame[t].pc \in {"idle", "defer", "append"}

(* The lists are those of the flags, except between a change of a flag and
   compute_active_callbacks, and those of a walk are the lists. *)
Serving == phase \in {"running", "dead"}
ListsInv == Serving /\ (\A t \in Thread : frame[t].pc # "compute")
                => active_callbacks = ActiveCallbacks(active)
WalkInv == \A t \in Thread : Walk(t).pc = "walk" =>
               Serving /\ Walk(t).list = active_callbacks[Walk(t).fn]

\* No list has more than what was registered for its function.
CatchInv == \A f \in Function : active_callbacks[f] \in Seq(Catching(f))
BypassInv == phase = "running" => bypass = Bypass

\* The inductive invariant, as long as no thread exits while others are in a call.
IInv == TypeOK /\ LockInv /\ StartupInv /\ ListsInv /\ WalkInv /\ CatchInv /\ BypassInv

(* "removes the need to recompute the active filters while processing them"
   (filters.c:94): from its first callback to its last a call walks one list, and
   that list is what the flags say all along. *)
StableWalk ==
    \A t \in Thread : Walk(t).pc = "walk" =>
        /\ active_callbacks[Walk(t).fn] = Walk(t).list
        /\ Walk(t).list = ActiveCallbacks(active)[Walk(t).fn]

(* set_bypass runs once, the flags change for ever after: a function that goes
   round the filters is one that no callback will ever be wanted for. *)
BypassSafe ==
    phase = "running" => \A f \in Function : bypass[f] =>
        \A e \in ToSet(active_callbacks[f]) : e.filter = InvokeFilter

(* A call that is under way and a key that was pressed are done with in the end,
   unless the process is, or a thread waits for itself: filters_run holds the lock
   for reading when a callback that defers a change asks for it for writing, against
   "and also prevents a self-deadlock" (filters.c:96). *)
Stuck == \E t \in Thread : frame[t].pc = "defer" /\ t \in readers
CallsEnd == \A t \in Thread : frame[t].pc # "idle" ~> frame[t].pc = "idle" \/ phase # "running" \/ Stuck
-----------------------------------------------------------------------------
(* "This causes the change to happen only after the current call has completed
   processing" (filters.c:93). *)
DeferredHappens ==
    [][activations_deferred # <<>> /\ activations_deferred' = Tail(activations_deferred)
       => active'[Head(activations_deferred).set] = Head(activations_deferred).active]_vars
=============================================================================
