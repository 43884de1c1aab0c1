----------------------------- MODULE OrderSpec -----------------------------
(* What the ordering of filters and filter-sets promises.  An order maps a name
   to the list of the names it comes after, as register_order builds it. *)
EXTENDS Naturals, Sequences, SequencesExt

After(order, a) == ToSet(order[a])

(* "It simply indicates that if both are present, then they are to be run in the
   specified order" (doc/DocBook/extending.xml:529). *)
Respects(s, order) == \A i, j \in 1..Len(s) : s[i] \in After(order, s[j]) => i < j

\* Each of some names has to come before another of them.
Cyclic(names, order) ==
    \E C \in SUBSET names : C # {} /\ \A a \in C : \E b \in C : a \in After(order, b)
=============================================================================
