----------------------------- MODULE FilterSets -----------------------------
(* Filter-sets from their registration to the shutdown: the libraries register
   what each depends on and comes after, load_config of interceptor.c adds those of
   the chain, filter_set_add those they require, load_filter_sets sorts (FilterOrder)
   and loads them, filters_shutdown unloads them. *)
EXTENDS Naturals, Sequences, SequencesExt, FiniteSets, OrderSpec

CONSTANTS
    FilterSet,
    Wants,              \* pairs <<a, b>>: a library may say that a depends on b
    Follows,            \* pairs <<b, a>>: ... or only that b comes before a
    KnownChoices,       \* sets of names: which libraries are installed
    MaxOrders,          \* bound on what the libraries say
    MaxChain            \* bound on the length of the chain

LogSet == "log"
InvokeSet == "invoke"
DebuggerSet == "debugger"
ASSUME NamesAssumption == {LogSet, InvokeSet, DebuggerSet} \subseteq FilterSet /\ IsFiniteSet(FilterSet)
ASSUME PairsAssumption == Wants \cup Follows \subseteq FilterSet \X FilterSet
ASSUME BoundsAssumption == MaxOrders \in Nat /\ MaxChain \in Nat

VARIABLES
    stage, chain,           \* chain: how many filter-sets of it were taken
    requires, known,        \* filter_set_dependencies, and the filter-sets there are
    added, added_filter_sets, active,
    stack,                  \* calls of filter_set_add: [set, activate, next]
    loaded,                 \* the "loaded" flags
    at,                     \* a position in added_filter_sets
    pc, registered, order, byname, queue, ordered, count, i, deps, success
                            \* see FilterOrder; order is filter_set_orders

Sorter == INSTANCE FilterOrder WITH Name <- FilterSet, present <- added_filter_sets

sorting == <<pc, registered, order, byname, queue, ordered, count, i, deps, success>>
libraries == <<requires, known>>
vars == <<stage, chain, libraries, added, added_filter_sets, active, stack, loaded, at, sorting>>

Call(s, act) == [set |-> s, activate |-> act, next |-> 1]

(* Every filter-set but log depends on log and, once more, comes after it: the
   name is on its list twice (filters.c:768). *)
Init ==
    /\ stage = "libraries" /\ chain = 0
    /\ requires = [s \in FilterSet |-> IF s = LogSet THEN <<>> ELSE <<LogSet>>]
    /\ order = [s \in FilterSet |-> IF s = LogSet THEN <<>> ELSE <<LogSet, LogSet>>]
    /\ known \in KnownChoices
    /\ added = {} /\ active = [s \in FilterSet |-> FALSE]
    /\ stack = <<>> /\ loaded = {} /\ at = 1
    /\ Sorter!Empty
-----------------------------------------------------------------------------
\* bugle_filter_set_depends and bugle_filter_set_order
Depends(base, dep) ==
    /\ stage = "libraries" /\ <<base, dep>> \in Wants
    /\ Sorter!RegisterOrder(dep, base)
    /\ requires' = [requires EXCEPT ![base] = Append(@, dep)]
    /\ UNCHANGED <<stage, chain, known, added, active, stack, loaded, at>>

Order(before, after) ==
    /\ stage = "libraries" /\ <<before, after>> \in Follows
    /\ Sorter!RegisterOrder(before, after)
    /\ UNCHANGED <<stage, chain, libraries, added, active, stack, loaded, at>>

Registered ==
    /\ stage = "libraries"
    /\ stage' = "config"
    /\ UNCHANGED <<chain, libraries, added, added_filter_sets, active, stack, loaded, at, sorting>>
-----------------------------------------------------------------------------
(* load_config: a filter-set of the chain, active or not; unknown ones are
   skipped with a warning. *)
Configure(s, act) ==
    /\ stage = "config" /\ stack = <<>> /\ chain < MaxChain
    /\ chain' = chain + 1
    /\ stack' = IF s \in known THEN <<Call(s, act)>> ELSE <<>>
    /\ UNCHANGED <<stage, libraries, added, added_filter_sets, active, loaded, at, sorting>>

(* "Always load the invoke filter-set", and the debugger's if there is one: without
   them exit(1). *)
Always(s) ==
    IF s \in known
    THEN stage' = s /\ stack' = <<Call(s, TRUE)>> /\ UNCHANGED at
    ELSE stage' = "shutdown" /\ at' = Len(added_filter_sets) /\ UNCHANGED stack

AddInvoke ==
    /\ stage = "config" /\ stack = <<>>
    /\ Always(InvokeSet)
    /\ UNCHANGED <<chain, libraries, added, added_filter_sets, active, loaded, sorting>>

AddDebugger ==          \* BUGLE_DEBUGGER is set
    /\ stage = InvokeSet /\ stack = <<>> /\ pc = "register"
    /\ Always(DebuggerSet)
    /\ UNCHANGED <<chain, libraries, added, added_filter_sets, active, loaded, sorting>>
-----------------------------------------------------------------------------
\* filter_set_add
Frame == Head(stack)
Return == stack' = Tail(stack)

Enter ==
    /\ stack # <<>> /\ Frame.next = 1 /\ Frame.set \notin added
    /\ added' = added \cup {Frame.set}
    /\ stack' = <<[Frame EXCEPT !.next = 2]>> \o Tail(stack)
    /\ UNCHANGED <<stage, chain, libraries, added_filter_sets, active, loaded, at, sorting>>

AlreadyAdded ==
    /\ stack # <<>> /\ Frame.next = 1 /\ Frame.set \in added
    /\ Return
    /\ UNCHANGED <<stage, chain, libraries, added, added_filter_sets, active, loaded, at, sorting>>

(* The next dependency.  An unknown one is logged and then passed on as NULL, so
   that filter_set_add reads through a null pointer. *)
AddDependency ==
    /\ stack # <<>> /\ Frame.next > 1 /\ Frame.next - 1 <= Len(requires[Frame.set])
    /\ LET d == requires[Frame.set][Frame.next - 1] IN
           IF d \in known
           THEN /\ stack' = <<Call(d, Frame.activate), [Frame EXCEPT !.next = @ + 1]>> \o Tail(stack)
                /\ UNCHANGED stage
           ELSE stage' = "crashed" /\ stack' = <<>>
    /\ UNCHANGED <<chain, libraries, added, added_filter_sets, active, loaded, at, sorting>>

\* Leaves the loop over the dependencies early.
ForgetDependencies ==
    /\ stack # <<>> /\ Frame.next > 1
    /\ added_filter_sets' = Append(added_filter_sets, Frame.set)
    /\ active' = [active EXCEPT ![Frame.set] = Frame.activate]
    /\ Return
    /\ UNCHANGED <<stage, chain, libraries, added, loaded, at, sorting>>

Added ==
    /\ stack # <<>> /\ Frame.next - 1 > Len(requires[Frame.set])
    /\ added_filter_sets' = Append(added_filter_sets, Frame.set)
    /\ active' = [active EXCEPT ![Frame.set] = Frame.activate]
    /\ Return
    /\ UNCHANGED <<stage, chain, libraries, added, loaded, at, sorting>>
-----------------------------------------------------------------------------
(* load_filter_sets does not look at the result of compute_order: a cycle leaves
   the list as it is. *)
Sort ==
    /\ stage \in {InvokeSet, DebuggerSet} /\ stack = <<>>
    /\ Sorter!Sort
    /\ stage' = IF pc' = "done" THEN "load" ELSE stage
    /\ UNCHANGED <<chain, libraries, added, active, stack, loaded, at>>

Load ==                 \* which a filter-set may refuse: exit(1)
    /\ stage = "load" /\ at <= Len(added_filter_sets)
    /\ \/ /\ loaded' = loaded \cup {added_filter_sets[at]}
          /\ at' = at + 1
          /\ UNCHANGED stage
       \/ /\ stage' = "shutdown" /\ at' = Len(added_filter_sets)
          /\ UNCHANGED loaded
    /\ UNCHANGED <<chain, libraries, added, added_filter_sets, active, stack, sorting>>

Loaded ==
    /\ stage = "load" /\ at > Len(added_filter_sets)
    /\ stage' = "running"
    /\ UNCHANGED <<chain, libraries, added, added_filter_sets, active, stack, loaded, at, sorting>>

Exit ==
    /\ stage = "running"
    /\ stage' = "shutdown" /\ at' = Len(added_filter_sets)
    /\ UNCHANGED <<chain, libraries, added, added_filter_sets, active, stack, loaded, sorting>>

\* Shuts down in the order of the list, as a list destructor would.
FreeForwards ==
    /\ stage = "shutdown" /\ at >= 1
    /\ LET s == added_filter_sets[Len(added_filter_sets) + 1 - at] IN
           /\ loaded' = loaded \ {s}
           /\ active' = [active EXCEPT ![s] = @ /\ s \notin loaded]
    /\ at' = at - 1
    /\ UNCHANGED <<stage, chain, libraries, added, added_filter_sets, stack, sorting>>

(* filters_shutdown: "this list runs backwards to obtain the correct shutdown
   order" *)
Free ==
    /\ stage = "shutdown" /\ at >= 1
    /\ LET s == added_filter_sets[at] IN
           /\ loaded' = loaded \ {s}
           /\ active' = [active EXCEPT ![s] = @ /\ s \notin loaded]
    /\ at' = at - 1
    /\ UNCHANGED <<stage, chain, libraries, added, added_filter_sets, stack, sorting>>

Adding == Enter \/ AlreadyAdded \/ AddDependency \/ Added

Next ==
    \/ \E base, dep \in FilterSet : Depends(base, dep)
    \/ \E before, after \in FilterSet : Order(before, after)
    \/ Registered
    \/ \E s \in FilterSet, act \in BOOLEAN : Configure(s, act)
    \/ AddInvoke \/ AddDebugger \/ Adding \/ Sort \/ Load \/ Loaded \/ Exit \/ Free

Spec == Init /\ [][Next]_vars
-----------------------------------------------------------------------------
Requires(s) == ToSet(requires[s])

(* "A requires B" (filters.c:107): once the chain is read, and whatever the sort
   makes of it, what a filter-set on the list requires is on it too, each once. *)
ListClosed ==
    stack = <<>> /\ stage # "crashed" =>
        /\ \A s \in added : Requires(s) \subseteq added
        /\ ToSet(added_filter_sets) = added /\ IsInjective(added_filter_sets)

(* "the proper order" (filters.c:556) and "the correct shutdown order"
   (filters.c:276): at any time, also when a loader refuses half way, what a
   loaded filter-set requires is loaded, unless the registrations are circular. *)
RequiredIsLoaded ==
    ~Cyclic(added, order) => \A s \in loaded : Requires(s) \subseteq loaded

(* FilterOrder's promise, for the orders and the lists that come up here. *)
SortsOrFails == Sorter!SortsOrFails
-----------------------------------------------------------------------------
(* The inductive invariant. *)
TypeOK ==
    /\ stage \in {"libraries", "config", InvokeSet, DebuggerSet, "load", "running", "shutdown", "crashed"}
    /\ chain \in Nat
    /\ requires \in [FilterSet -> Seq(FilterSet)]
    /\ added \subseteq FilterSet /\ active \in [FilterSet -> BOOLEAN]
    /\ stack \in Seq([set : FilterSet, activate : BOOLEAN, next : Nat \ {0}])
    /\ loaded \subseteq FilterSet /\ at \in Nat

(* What a filter-set requires it also comes after. *)
RequiresInv == \A s \in FilterSet : Requires(s) \subseteq After(order, s)

StageInv ==
    /\ stage = "libraries" => added = {} /\ added_filter_sets = <<>>
    /\ stage \in {"libraries", "config"} => pc = "register"
    /\ stack # <<>> => stage \in {"config", InvokeSet, DebuggerSet} /\ pc = "register"
    /\ stage \in {InvokeSet, DebuggerSet} => pc # "done"
    /\ stage \in {"load", "running"} \/ loaded # {} => pc = "done"

(* The calls of filter_set_add that have marked their filter-set: those under way
   that have come so far, all but the last. *)
Entered == {x \in 1..Len(stack) : stack[x].next > 1}
Called == {s \in FilterSet : stack # <<>> /\ Frame.next = 1 /\ Frame.set = s}
StackInv ==
    /\ \A x \in 1..Len(stack) : x > 1 => x \in Entered
    /\ \A x, y \in Entered : stack[x].set = stack[y].set => x = y
    /\ \A x \in Entered :
           /\ stack[x].set \in added \ ToSet(added_filter_sets)
           /\ stack[x].next - 2 <= Len(requires[stack[x].set])
           /\ \A k \in 1..(stack[x].next - 2) : requires[stack[x].set][k] \in added \cup Called

ListInv ==
    /\ ToSet(added_filter_sets) \subseteq added
    /\ stage # "crashed" =>
           /\ added = ToSet(added_filter_sets) \cup {stack[x].set : x \in Entered}
           /\ \A s \in ToSet(added_filter_sets) : Requires(s) \subseteq added

(* What is loaded is the beginning of the list. *)
LoadedInv ==
    \E k \in 0..Len(added_filter_sets) :
        /\ loaded = {added_filter_sets[j] : j \in 1..k}
        /\ stage = "load" => at = k + 1
        /\ stage = "shutdown" => k <= at /\ at <= Len(added_filter_sets)
        /\ stage \notin {"load", "running", "shutdown"} => k = 0 /\ at = 1

IInv == Sorter!IInv /\ TypeOK /\ RequiresInv /\ StageInv /\ StackInv /\ ListInv /\ LoadedInv
=============================================================================
