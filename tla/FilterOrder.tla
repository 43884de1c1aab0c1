---------------------------- MODULE FilterOrder ----------------------------
(* register_order and compute_order of filters.c, the topological sort that
   arranges filter-sets and filters: one step per registration and per turn of
   one of its loops.  Items are known by their names here. *)
EXTENDS Integers, Sequences, SequencesExt, FiniteSets, OrderSpec

CONSTANTS Name,
          MaxOrders      \* bound on the calls of register_order

VARIABLES
    pc, registered,      \* the number of registrations
    order,               \* the hash table: B in order[A] is B before A
    present,             \* the list to be arranged, rewritten on success
    byname,              \* the valence of each item
    queue, ordered,
    count,               \* "count of outstanding items, to detect cycles"
    i, deps,             \* the loops: the position in present, what is left of a list
    success

vars == <<pc, registered, order, present, byname, queue, ordered, count, i, deps, success>>

Empty ==
    /\ pc = "register" /\ registered = 0
    /\ present = <<>>
    /\ byname = [n \in Name |-> 0]
    /\ queue = <<>> /\ ordered = <<>> /\ deps = <<>>
    /\ count = 0 /\ i = 1 /\ success = FALSE

Init == Empty /\ order = [n \in Name |-> <<>>]

RegisterOrder(before, after) ==
    /\ pc = "register" /\ registered < MaxOrders
    /\ registered' = registered + 1
    /\ order' = [order EXCEPT ![after] = Append(@, before)]
    /\ UNCHANGED <<pc, present, byname, queue, ordered, count, i, deps, success>>

\* The loader puts another item on the list.
Add(n) ==
    /\ pc = "register" /\ n \notin ToSet(present)
    /\ present' = Append(present, n)
    /\ UNCHANGED <<pc, registered, order, byname, queue, ordered, count, i, deps, success>>

Start ==
    /\ pc = "register"
    /\ pc' = "fill"
    /\ count' = Len(present)
    /\ byname' = [n \in Name |-> 0]
    /\ UNCHANGED <<registered, order, present, queue, ordered, i, deps, success>>
-----------------------------------------------------------------------------
Here(n) == n \in ToSet(present)
Times(list, n) == Cardinality({k \in 1..Len(list) : list[k] = n})

Fill ==             \* fill in valences
    /\ pc = "fill" /\ i <= Len(present)
    /\ byname' = [n \in Name |->
                     byname[n] + IF Here(n) THEN Times(order[present[i]], n) ELSE 0]
    /\ i' = i + 1
    /\ UNCHANGED <<pc, registered, order, present, queue, ordered, count, deps, success>>

Filled ==
    /\ pc = "fill" /\ i > Len(present)
    /\ pc' = "prime" /\ i' = 1
    /\ UNCHANGED <<registered, order, present, byname, queue, ordered, count, deps, success>>

Prime ==            \* prime the queue
    /\ pc = "prime" /\ i <= Len(present)
    /\ queue' = IF byname[present[i]] = 0 THEN Append(queue, present[i]) ELSE queue
    /\ i' = i + 1
    /\ UNCHANGED <<pc, registered, order, present, byname, ordered, count, deps, success>>

Primed ==
    /\ pc = "prime" /\ i > Len(present)
    /\ pc' = "walk" /\ i' = 1
    /\ UNCHANGED <<registered, order, present, byname, queue, ordered, count, deps, success>>

\* Puts the item behind those it has to come before.
TakeToBack ==
    /\ pc = "walk" /\ deps = <<>> /\ queue # <<>>
    /\ count' = count - 1
    /\ deps' = order[Head(queue)]
    /\ ordered' = Append(ordered, Head(queue))
    /\ queue' = Tail(queue)
    /\ UNCHANGED <<pc, registered, order, present, byname, i, success>>

(* The item goes to the front before its list is gone through, not after: no one
   looks at "ordered" in between. *)
Take ==             \* a topological walk, starting at the back
    /\ pc = "walk" /\ deps = <<>> /\ queue # <<>>
    /\ count' = count - 1
    /\ deps' = order[Head(queue)]
    /\ ordered' = <<Head(queue)>> \o ordered
    /\ queue' = Tail(queue)
    /\ UNCHANGED <<pc, registered, order, present, byname, i, success>>

Release ==
    /\ pc = "walk" /\ deps # <<>>
    /\ LET n == Head(deps) IN
           IF Here(n)
           THEN /\ byname' = [byname EXCEPT ![n] = @ - 1]
                /\ queue' = IF byname[n] = 1 THEN Append(queue, n) ELSE queue
           ELSE UNCHANGED <<byname, queue>>
    /\ deps' = Tail(deps)
    /\ UNCHANGED <<pc, registered, order, present, ordered, count, i, success>>

Finish ==
    /\ pc = "walk" /\ deps = <<>> /\ queue = <<>>
    /\ pc' = "done"
    /\ success' = (count <= 0)
    /\ present' = IF success' THEN ordered ELSE present
    /\ UNCHANGED <<registered, order, byname, queue, ordered, count, i, deps>>

Sort == Start \/ Fill \/ Filled \/ Prime \/ Primed \/ Take \/ Release \/ Finish

Next ==
    \/ \E a, b \in Name : RegisterOrder(a, b)
    \/ \E n \in Name : Add(n)
    \/ Sort

Spec == Init /\ [][Next]_vars
-----------------------------------------------------------------------------
(* On success the list holds what it held, arranged as registered ("A is called
   after B", filters.c:106); the sort fails exactly when that cannot be done. *)
SortsOrFails ==
    pc = "done" =>
        /\ success <=> ~Cyclic(ToSet(present), order)
        /\ success => /\ Respects(present, order) /\ IsInjective(present)
                      /\ Len(present) = Len(ordered)
-----------------------------------------------------------------------------
(* The inductive invariant.  P is what is to be arranged; what is ordered and what
   is queued are parts of it that have nothing in common. *)
TypeOK ==
    /\ pc \in {"register", "fill", "prime", "walk", "done"}
    /\ registered \in Nat /\ order \in [Name -> Seq(Name)]
    /\ present \in Seq(Name) /\ IsInjective(present)
    /\ byname \in [Name -> Int]
    /\ queue \in Seq(Name) /\ ordered \in Seq(Name) /\ deps \in Seq(Name)
    /\ count \in Int /\ i \in Nat \ {0} /\ success \in BOOLEAN

\* The items whose lists were gone through, or their beginnings, by the loops.
Before == {present[j] : j \in 1..(i - 1)}
Unused ==
    /\ pc = "register" => i = 1
    /\ pc \in {"register", "fill"} => queue = <<>>
    /\ pc \in {"register", "fill", "prime"} => ordered = <<>> /\ deps = <<>>
    /\ pc \in {"fill", "prime"} => i <= Len(present) + 1 /\ count = Len(present)

(* Where an item that is present is named on the list of another, and the valence
   still stands for that: the first loop has come by, the walk has not. *)
Mentions == UNION {{a} \X DOMAIN order[a] : a \in ToSet(present)}
Stands(m) ==
    CASE pc = "fill" -> m[1] \in Before
      [] pc = "prime" -> TRUE
      [] pc = "walk" -> \/ m[1] \notin ToSet(ordered)
                        \/ m[1] = Head(ordered) /\ m[2] > Len(order[m[1]]) - Len(deps)
Standing(n) == {m \in Mentions : order[m[1]][m[2]] = n /\ Stands(m)}

ValenceInv ==
    pc \in {"fill", "prime", "walk"} =>
        \A n \in ToSet(present) :
            IsFiniteSet(Standing(n)) /\ byname[n] = Cardinality(Standing(n))

\* No valence, and the item is in the queue or was: once, at the right time.
QueueInv ==
    /\ pc \in {"prime", "walk"} =>
           /\ IsInjective(queue) /\ ToSet(queue) \subseteq ToSet(present)
           /\ \A n \in ToSet(present) :
                  n \in ToSet(queue) \cup ToSet(ordered) <=>
                      byname[n] = 0 /\ (pc = "prime" => n \in Before)
    /\ pc = "walk" =>
           /\ IsInjective(ordered) /\ ToSet(ordered) \subseteq ToSet(present)
           /\ ToSet(ordered) \cap ToSet(queue) = {}
           /\ count = Len(present) - Len(ordered)
           /\ Respects(ordered, order)
           /\ deps # <<>> =>
                  LET list == order[Head(ordered)] IN
                      ordered # <<>> /\ Len(deps) <= Len(list)
                      /\ \A k \in 1..Len(deps) : deps[k] = list[Len(list) - Len(deps) + k]

IInv == TypeOK /\ Unused /\ ValenceInv /\ QueueInv /\ SortsOrFails
=============================================================================
