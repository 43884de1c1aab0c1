------------------------- MODULE FilterSets_proofs -------------------------
(* Filter-sets are arranged, loaded and unloaded as their registrations ask, for
   any filter-sets and any registrations; the statistics of triangles (Primitives) report
   what was drawn, for any contexts, display lists and drawing calls; and videos and pictures
   (Screenshot) show what was to be seen, for any swaps, sizes and lag. *)
EXTENDS FilterSets, SetsAtWork, FiniteSetTheorems, WellFoundedInduction, TLAPS

-----------------------------------------------------------------------------
(* FilterOrder has its operators from the same modules: they are the same. *)
LEMMA SameFinite == \A S : Sorter!IsFiniteSet(S) <=> IsFiniteSet(S)
BY DEF IsFiniteSet, Sorter!IsFiniteSet
LEMMA SameCardinality == \A S : Sorter!Cardinality(S) = Cardinality(S)
BY SameFinite DEF Cardinality, Sorter!Cardinality
LEMMA SameToSet == \A s : Sorter!ToSet(s) = ToSet(s)
BY DEF ToSet, Sorter!ToSet
LEMMA SameInjective == \A s : Sorter!IsInjective(s) <=> IsInjective(s)
BY DEF IsInjective, Sorter!IsInjective
LEMMA SameAfter == \A o, s : Sorter!After(o, s) = After(o, s)
BY SameToSet DEF After, Sorter!After
LEMMA SameRespects == \A s, o : Sorter!Respects(s, o) = Respects(s, o)
BY SameAfter DEF Respects, Sorter!Respects
LEMMA SameCyclic == \A s, o : Sorter!Cyclic(s, o) = Cyclic(s, o)
BY SameAfter DEF Cyclic, Sorter!Cyclic

(* What the invariant of the sort says, in the operators of this module. *)
LEMMA SorterFacts ==
    ASSUME Sorter!IInv
    PROVE  /\ added_filter_sets \in Seq(FilterSet) /\ IsInjective(added_filter_sets)
           /\ order \in [FilterSet -> Seq(FilterSet)]
           /\ byname \in [FilterSet -> Int]
           /\ queue \in Seq(FilterSet) /\ ordered \in Seq(FilterSet) /\ deps \in Seq(FilterSet)
           /\ count \in Int /\ i \in Nat \ {0} /\ success \in BOOLEAN /\ registered \in Nat
BY SameInjective DEF Sorter!IInv, Sorter!TypeOK

\* What counts for a valence: a place on the list of an item that is present.
LEMMA StandingFacts ==
    ASSUME NEW n, NEW m
    PROVE  m \in Sorter!Standing(n) <=>
               \E a \in ToSet(added_filter_sets) : \E k \in DOMAIN order[a] :
                   m = <<a, k>> /\ order[a][k] = n /\ Sorter!Stands(<<a, k>>)
<1>1. m \in Sorter!Mentions <=>
          \E a \in ToSet(added_filter_sets) : \E k \in DOMAIN order[a] : m = <<a, k>>
  BY SameToSet DEF Sorter!Mentions
<1>2. m \in Sorter!Standing(n) <=>
          m \in Sorter!Mentions /\ order[m[1]][m[2]] = n /\ Sorter!Stands(m)
  BY DEF Sorter!Standing
<1>3. \A a, k : <<a, k>>[1] = a /\ <<a, k>>[2] = k
  OBVIOUS
<1>4. ASSUME m \in Sorter!Standing(n)
      PROVE  \E a \in ToSet(added_filter_sets) : \E k \in DOMAIN order[a] :
                 m = <<a, k>> /\ order[a][k] = n /\ Sorter!Stands(<<a, k>>)
  <2>1. PICK a \in ToSet(added_filter_sets) : \E k \in DOMAIN order[a] : m = <<a, k>>
    BY <1>1, <1>2, <1>4
  <2>2. PICK k \in DOMAIN order[a] : m = <<a, k>>
    BY <2>1
  <2>3. order[a][k] = n /\ Sorter!Stands(<<a, k>>)
    BY <1>2, <1>3, <1>4, <2>2
  <2> QED
    BY <2>2, <2>3
<1>5. ASSUME NEW a \in ToSet(added_filter_sets), NEW k \in DOMAIN order[a],
             m = <<a, k>>, order[a][k] = n, Sorter!Stands(<<a, k>>)
      PROVE  m \in Sorter!Standing(n)
  BY <1>1, <1>2, <1>3, <1>5
<1> QED
  BY <1>4, <1>5

\* ... and of the next state.
LEMMA StandingFactsNext ==
    ASSUME NEW n, NEW m
    PROVE  m \in Sorter!Standing(n)' <=>
               \E a \in ToSet(added_filter_sets') : \E k \in DOMAIN order'[a] :
                   m = <<a, k>> /\ order'[a][k] = n /\ Sorter!Stands(<<a, k>>)'
<1>1. m \in Sorter!Mentions' <=>
          \E a \in ToSet(added_filter_sets') : \E k \in DOMAIN order'[a] : m = <<a, k>>
  BY SameToSet DEF Sorter!Mentions
<1>2. m \in Sorter!Standing(n)' <=>
          m \in Sorter!Mentions' /\ order'[m[1]][m[2]] = n /\ Sorter!Stands(m)'
  BY DEF Sorter!Standing
<1>3. \A a, k : <<a, k>>[1] = a /\ <<a, k>>[2] = k
  OBVIOUS
<1>4. ASSUME m \in Sorter!Standing(n)'
      PROVE  \E a \in ToSet(added_filter_sets') : \E k \in DOMAIN order'[a] :
                 m = <<a, k>> /\ order'[a][k] = n /\ Sorter!Stands(<<a, k>>)'
  <2>1. PICK a \in ToSet(added_filter_sets') : \E k \in DOMAIN order'[a] : m = <<a, k>>
    BY <1>1, <1>2, <1>4
  <2>2. PICK k \in DOMAIN order'[a] : m = <<a, k>>
    BY <2>1
  <2>3. order'[a][k] = n /\ Sorter!Stands(<<a, k>>)'
    BY <1>2, <1>3, <1>4, <2>2
  <2> QED
    BY <2>2, <2>3
<1>5. ASSUME NEW a \in ToSet(added_filter_sets'), NEW k \in DOMAIN order'[a],
             m = <<a, k>>, order'[a][k] = n, Sorter!Stands(<<a, k>>)'
      PROVE  m \in Sorter!Standing(n)'
  BY <1>1, <1>2, <1>3, <1>5
<1> QED
  BY <1>4, <1>5

\* A valence is a number of mentions: 0 when there is none.
LEMMA ValenceFacts ==
    ASSUME Sorter!IInv, pc \in {"fill", "prime", "walk"}, NEW n \in ToSet(added_filter_sets)
    PROVE  /\ IsFiniteSet(Sorter!Standing(n))
           /\ byname[n] = Cardinality(Sorter!Standing(n))
           /\ byname[n] \in Nat
           /\ byname[n] = 0 <=> Sorter!Standing(n) = {}
<1>1. IsFiniteSet(Sorter!Standing(n)) /\ byname[n] = Cardinality(Sorter!Standing(n))
  BY SameFinite, SameCardinality, SameToSet DEF Sorter!IInv, Sorter!ValenceInv
<1> QED
  BY <1>1, FS_CardinalityType, FS_EmptySet

\* Valences that stay stand for mentions that stay.
LEMMA SameValence ==
    ASSUME Sorter!IInv, pc \in {"fill", "prime", "walk"}, UNCHANGED <<byname, added_filter_sets>>,
           \A n \in ToSet(added_filter_sets) : Sorter!Standing(n)' = Sorter!Standing(n)
    PROVE  Sorter!ValenceInv'
<1>1. \A n \in ToSet(added_filter_sets) :
          IsFiniteSet(Sorter!Standing(n)) /\ byname[n] = Cardinality(Sorter!Standing(n))
  BY ValenceFacts
<1>2. Sorter!ToSet(added_filter_sets)' = ToSet(added_filter_sets)
  BY SameToSet
<1> QED
  BY <1>1, <1>2, SameFinite, SameCardinality DEF Sorter!ValenceInv
-----------------------------------------------------------------------------
\* Nothing was gone through: the valences are 0.
LEMMA StartInv == ASSUME Sorter!IInv, Sorter!Start PROVE Sorter!IInv'
<1> USE DEF Sorter!Start
<1>1. Sorter!TypeOK'
  BY DEF Sorter!IInv, Sorter!TypeOK
<1>2. Sorter!Unused'
  BY DEF Sorter!IInv, Sorter!TypeOK, Sorter!Unused
<1>3. Sorter!ValenceInv'
  <2>1. Sorter!Before' = {}
    BY DEF Sorter!IInv, Sorter!Unused, Sorter!Before
  <2>2. \A n : Sorter!Standing(n)' = {}
    BY <2>1 DEF Sorter!Standing, Sorter!Stands
  <2>3. \A n \in Sorter!ToSet(added_filter_sets) : n \in FilterSet
    BY SorterFacts, SameToSet DEF ToSet
  <2> QED
    BY <2>2, <2>3, FS_EmptySet, SameFinite, SameCardinality DEF Sorter!ValenceInv
<1>4. Sorter!QueueInv'
  BY DEF Sorter!QueueInv
<1>5. Sorter!SortsOrFails'
  BY DEF Sorter!SortsOrFails
<1> QED
  BY <1>1, <1>2, <1>3, <1>4, <1>5 DEF Sorter!IInv
-----------------------------------------------------------------------------
(* Sequences, and the sets of what they hold. *)
LEMMA AppendFacts ==
    ASSUME NEW S, NEW s \in Seq(S), NEW e \in S
    PROVE  /\ Append(s, e) \in Seq(S) /\ Len(Append(s, e)) = Len(s) + 1
           /\ ToSet(Append(s, e)) = ToSet(s) \cup {e}
           /\ IsInjective(s) /\ e \notin ToSet(s) => IsInjective(Append(s, e))
<1>1. /\ Append(s, e) \in Seq(S) /\ Len(Append(s, e)) = Len(s) + 1
      /\ \A k \in 1..Len(s) : Append(s, e)[k] = s[k]
      /\ Append(s, e)[Len(s) + 1] = e
      /\ DOMAIN s = 1..Len(s) /\ DOMAIN Append(s, e) = 1..(Len(s) + 1) /\ Len(s) \in Nat
  OBVIOUS
<1>2. ToSet(Append(s, e)) = ToSet(s) \cup {e}
  BY <1>1 DEF ToSet
<1>3. ASSUME IsInjective(s), e \notin ToSet(s) PROVE IsInjective(Append(s, e))
  BY <1>1, <1>3 DEF IsInjective, ToSet
<1> QED
  BY <1>1, <1>2, <1>3

\* The same for a new head ...
LEMMA PrependFacts ==
    ASSUME NEW S, NEW s \in Seq(S), NEW e \in S
    PROVE  /\ <<e>> \o s \in Seq(S) /\ Len(<<e>> \o s) = Len(s) + 1
           /\ Head(<<e>> \o s) = e /\ <<e>> \o s # <<>>
           /\ (<<e>> \o s)[1] = e /\ \A k \in 1..Len(s) : (<<e>> \o s)[k + 1] = s[k]
           /\ \A k \in 2..(Len(s) + 1) : (<<e>> \o s)[k] = s[k - 1]
           /\ ToSet(<<e>> \o s) = ToSet(s) \cup {e}
           /\ IsInjective(s) /\ e \notin ToSet(s) => IsInjective(<<e>> \o s)
<1> DEFINE t == <<e>> \o s
<1>1. /\ t \in Seq(S) /\ Len(t) = Len(s) + 1 /\ Len(s) \in Nat
      /\ t[1] = e /\ \A k \in 2..(Len(s) + 1) : t[k] = s[k - 1]
      /\ DOMAIN s = 1..Len(s) /\ DOMAIN t = 1..(Len(s) + 1)
  OBVIOUS
<1>2. \A k \in 1..Len(s) : t[k + 1] = s[k]
  <2> SUFFICES ASSUME NEW k \in 1..Len(s) PROVE t[k + 1] = s[k]
    OBVIOUS
  <2>1. k + 1 \in 2..(Len(s) + 1) /\ (k + 1) - 1 = k
    BY <1>1
  <2> QED
    BY <1>1, <2>1
<1>3. t # <<>> /\ Head(t) = e
  BY <1>1
<1> HIDE DEF t
<1>4. ToSet(t) = ToSet(s) \cup {e}
  <2>1. \A x \in ToSet(t) : x \in ToSet(s) \cup {e}
    <3> SUFFICES ASSUME NEW k \in 1..(Len(s) + 1) PROVE t[k] \in ToSet(s) \cup {e}
      BY <1>1 DEF ToSet
    <3>1. CASE k = 1
      BY <1>1, <3>1
    <3>2. CASE k # 1
      BY <1>1, <3>2 DEF ToSet
    <3> QED
      BY <3>1, <3>2
  <2>2. ToSet(s) \cup {e} \subseteq ToSet(t)
    <3>1. \A k \in 1..Len(s) : k + 1 \in DOMAIN t
      BY <1>1
    <3>2. 1 \in DOMAIN t
      BY <1>1
    <3> QED
      BY <1>1, <1>2, <3>1, <3>2 DEF ToSet
  <2> QED
    BY <2>1, <2>2
<1>5. ASSUME IsInjective(s), e \notin ToSet(s) PROVE IsInjective(t)
  <2> SUFFICES ASSUME NEW a \in 1..(Len(s) + 1), NEW b \in 1..(Len(s) + 1), t[a] = t[b], a # b
               PROVE  FALSE
    BY <1>1 DEF IsInjective
  <2>1. \A k \in 2..(Len(s) + 1) : t[k] \in ToSet(s)
    BY <1>1 DEF ToSet
  <2>2. a # 1 /\ b # 1
    BY <1>1, <1>5, <2>1
  <2>3. s[a - 1] = s[b - 1] /\ a - 1 \in 1..Len(s) /\ b - 1 \in 1..Len(s)
    BY <1>1, <2>2
  <2>4. a - 1 = b - 1
    BY <1>1, <1>5, <2>3 DEF IsInjective
  <2> QED
    BY <2>4
<1> QED
  BY <1>1, <1>2, <1>3, <1>4, <1>5 DEF t

\* ... and for what is left without the head.
LEMMA TailFacts ==
    ASSUME NEW S, NEW s \in Seq(S), s # <<>>
    PROVE  /\ Tail(s) \in Seq(S) /\ Len(Tail(s)) = Len(s) - 1 /\ Len(s) >= 1
           /\ Head(s) = s[1] /\ Head(s) \in S /\ Head(s) \in ToSet(s)
           /\ \A k \in 1..(Len(s) - 1) : Tail(s)[k] = s[k + 1]
           /\ ToSet(s) = {Head(s)} \cup ToSet(Tail(s))
           /\ IsInjective(s) => IsInjective(Tail(s)) /\ Head(s) \notin ToSet(Tail(s))
<1>1. /\ Tail(s) \in Seq(S) /\ Len(Tail(s)) = Len(s) - 1 /\ Len(s) >= 1 /\ Len(s) \in Nat
      /\ Head(s) = s[1] /\ s[1] \in S
      /\ \A k \in 1..(Len(s) - 1) : Tail(s)[k] = s[k + 1]
      /\ DOMAIN s = 1..Len(s) /\ DOMAIN Tail(s) = 1..(Len(s) - 1)
  OBVIOUS
<1>2. ToSet(s) = {Head(s)} \cup ToSet(Tail(s))
  <2>1. \A x \in ToSet(s) : x \in {Head(s)} \cup ToSet(Tail(s))
    <3> SUFFICES ASSUME NEW k \in 1..Len(s) PROVE s[k] \in {Head(s)} \cup ToSet(Tail(s))
      BY <1>1 DEF ToSet
    <3>1. CASE k = 1
      BY <1>1, <3>1
    <3>2. CASE k # 1
      <4>1. k - 1 \in 1..(Len(s) - 1) /\ (k - 1) + 1 = k
        BY <1>1, <3>2
      <4>2. Tail(s)[k - 1] = s[k]
        BY <1>1, <4>1
      <4> QED
        BY <1>1, <4>1, <4>2 DEF ToSet
    <3> QED
      BY <3>1, <3>2
  <2>2. {Head(s)} \cup ToSet(Tail(s)) \subseteq ToSet(s)
    BY <1>1 DEF ToSet
  <2> QED
    BY <2>1, <2>2
<1>3. ASSUME IsInjective(s) PROVE IsInjective(Tail(s)) /\ Head(s) \notin ToSet(Tail(s))
  <2>1. IsInjective(Tail(s))
    <3> SUFFICES ASSUME NEW a \in 1..(Len(s) - 1), NEW b \in 1..(Len(s) - 1), Tail(s)[a] = Tail(s)[b]
                 PROVE  a = b
      BY <1>1 DEF IsInjective
    <3>1. s[a + 1] = s[b + 1] /\ a + 1 \in 1..Len(s) /\ b + 1 \in 1..Len(s)
      BY <1>1
    <3> QED
      BY <1>1, <1>3, <3>1 DEF IsInjective
  <2>2. ASSUME NEW k \in 1..(Len(s) - 1), s[k + 1] = s[1] PROVE FALSE
    BY <1>1, <1>3, <2>2 DEF IsInjective
  <2> QED
    BY <1>1, <2>1, <2>2 DEF ToSet
<1> QED
  BY <1>1, <1>2, <1>3
-----------------------------------------------------------------------------
\* One list is gone through, and the valences grow by its mentions.
LEMMA FillInv == ASSUME Sorter!IInv, Sorter!Fill PROVE Sorter!IInv'
<1>0. PICK a : a = added_filter_sets[i]
  OBVIOUS
<1> DEFINE K(n) == {k \in DOMAIN order[a] : order[a][k] = n}
<1> HIDE DEF K
<1>1. /\ pc = "fill" /\ pc' = "fill" /\ i' = i + 1 /\ i <= Len(added_filter_sets)
      /\ UNCHANGED <<registered, order, added_filter_sets, queue, ordered, count, deps, success>>
  BY DEF Sorter!Fill
<1>2. /\ added_filter_sets \in Seq(FilterSet) /\ IsInjective(added_filter_sets) /\ i \in Nat \ {0}
      /\ DOMAIN added_filter_sets = 1..Len(added_filter_sets) /\ Len(added_filter_sets) \in Nat
      /\ order \in [FilterSet -> Seq(FilterSet)] /\ byname \in [FilterSet -> Int]
  BY SorterFacts
<1>3. a \in FilterSet /\ a \in ToSet(added_filter_sets) /\ order[a] \in Seq(FilterSet)
  <2>1. i \in DOMAIN added_filter_sets
    BY <1>1, <1>2
  <2>2. a \in FilterSet
    BY <1>0, <1>2, <2>1
  <2>3. a \in ToSet(added_filter_sets)
    BY <1>0, <2>1 DEF ToSet
  <2> QED
    BY <1>2, <2>2, <2>3
<1>4. ToSet(added_filter_sets) \subseteq FilterSet
  BY <1>2 DEF ToSet
<1>5. Sorter!Before' = Sorter!Before \cup {a} /\ a \notin Sorter!Before
  <2>1. Sorter!Before' = {added_filter_sets[j] : j \in 1..i}
    <3>1. (i + 1) - 1 = i
      BY <1>2
    <3> QED
      BY <1>1, <3>1 DEF Sorter!Before
  <2>2. \A j \in 1..(i - 1) : added_filter_sets[j] # a
    <3> SUFFICES ASSUME NEW j \in 1..(i - 1), added_filter_sets[j] = a PROVE FALSE
      OBVIOUS
    <3>1. j \in DOMAIN added_filter_sets /\ i \in DOMAIN added_filter_sets /\ j # i
      BY <1>1, <1>2
    <3> QED
      BY <1>0, <1>2, <3>1 DEF IsInjective
  <2>3. \A j \in 1..i : j \in 1..(i - 1) \/ j = i
    BY <1>2
  <2>4. 1..(i - 1) \subseteq 1..i /\ i \in 1..i
    BY <1>2
  <2> QED
    BY <1>0, <2>1, <2>2, <2>3, <2>4 DEF Sorter!Before
<1>6. \A n : IsFiniteSet(K(n)) /\ Cardinality(K(n)) \in Nat /\ Cardinality(K(n)) = Sorter!Times(order[a], n)
  <2> TAKE n
  <2>1. DOMAIN order[a] = 1..Len(order[a]) /\ Len(order[a]) \in Nat
    BY <1>3
  <2>2. IsFiniteSet(DOMAIN order[a]) /\ K(n) \in SUBSET DOMAIN order[a]
    BY <2>1, FS_Interval DEF K
  <2>3. IsFiniteSet(K(n)) /\ Cardinality(K(n)) \in Nat
    BY <2>2, FS_Subset, FS_CardinalityType
  <2>4. K(n) = {k \in 1..Len(order[a]) : order[a][k] = n}
    BY <2>1 DEF K
  <2> QED
    BY <2>3, <2>4, SameCardinality DEF Sorter!Times
<1>7. byname' = [n \in FilterSet |->
                    byname[n] + IF n \in ToSet(added_filter_sets) THEN Cardinality(K(n)) ELSE 0]
  <2>1. byname' = [n \in FilterSet |->
                      byname[n] + IF Sorter!Here(n) THEN Sorter!Times(order[a], n) ELSE 0]
    BY <1>0 DEF Sorter!Fill
  <2> QED
    BY <1>6, <2>1, SameToSet DEF Sorter!Here
<1>8. Sorter!TypeOK'
  <2>1. \A n \in FilterSet : byname[n] + (IF n \in ToSet(added_filter_sets) THEN Cardinality(K(n)) ELSE 0) \in Int
    <3>1. \A n \in FilterSet : byname[n] \in Int /\ Cardinality(K(n)) \in Int
      BY <1>2, <1>6
    <3> QED
      BY <3>1
  <2>2. byname' \in [FilterSet -> Int]
    BY <1>7, <2>1
  <2> QED
    BY <1>1, <1>2, <2>2 DEF Sorter!IInv, Sorter!TypeOK
<1>9. Sorter!Unused'
  BY <1>1, <1>2 DEF Sorter!IInv, Sorter!Unused
<1>10. Sorter!ValenceInv'
  <2> SUFFICES ASSUME NEW n \in ToSet(added_filter_sets)
               PROVE  IsFiniteSet(Sorter!Standing(n)') /\ byname'[n] = Cardinality(Sorter!Standing(n)')
    BY <1>1, SameToSet, SameFinite, SameCardinality DEF Sorter!ValenceInv
  <2> DEFINE New == {a} \X K(n)
  <2>1. Sorter!Standing(n)' = Sorter!Standing(n) \cup New
    <3>1. \A b, k : Sorter!Stands(<<b, k>>) <=> b \in Sorter!Before
      BY <1>1 DEF Sorter!Stands
    <3>2. \A b, k : Sorter!Stands(<<b, k>>)' <=> b \in Sorter!Before \cup {a}
      BY <1>1, <1>5 DEF Sorter!Stands
    <3>3. \A m : m \in Sorter!Standing(n) <=>
              \E b \in ToSet(added_filter_sets) : \E k \in DOMAIN order[b] :
                  m = <<b, k>> /\ order[b][k] = n /\ b \in Sorter!Before
      <4> TAKE m
      <4>1. m \in Sorter!Standing(n) <=>
              \E b \in ToSet(added_filter_sets) : \E k \in DOMAIN order[b] :
                  m = <<b, k>> /\ order[b][k] = n /\ Sorter!Stands(<<b, k>>)
        BY StandingFacts, Zenon
      <4> QED
        BY <3>1, <4>1, Zenon
    <3>4. \A m : m \in Sorter!Standing(n)' <=>
              \E b \in ToSet(added_filter_sets) : \E k \in DOMAIN order[b] :
                  m = <<b, k>> /\ order[b][k] = n /\ b \in Sorter!Before \cup {a}
      <4> TAKE m
      <4>1. m \in Sorter!Standing(n)' <=>
              \E b \in ToSet(added_filter_sets') : \E k \in DOMAIN order'[b] :
                  m = <<b, k>> /\ order'[b][k] = n /\ Sorter!Stands(<<b, k>>)'
        BY StandingFactsNext, Zenon
      <4>2. added_filter_sets' = added_filter_sets /\ order' = order
        BY <1>1
      <4>3. m \in Sorter!Standing(n)' <=>
              \E b \in ToSet(added_filter_sets) : \E k \in DOMAIN order[b] :
                  m = <<b, k>> /\ order[b][k] = n /\ Sorter!Stands(<<b, k>>)'
        BY <4>1, <4>2, Zenon
      <4> QED
        BY <3>2, <4>3, Zenon
    <3>5. \A m : m \in New <=> \E k \in DOMAIN order[a] : m = <<a, k>> /\ order[a][k] = n
      BY DEF K
    <3> HIDE DEF New
    <3>6. \A m : m \in Sorter!Standing(n)' <=> m \in Sorter!Standing(n) \/ m \in New
      BY <1>3, <3>3, <3>4, <3>5
    <3> QED
      BY <3>6
  <2>2. Sorter!Standing(n) \cap New = {}
    <3>1. ASSUME NEW m \in Sorter!Standing(n), m \in New PROVE FALSE
      <4>1. PICK b \in ToSet(added_filter_sets) : \E k \in DOMAIN order[b] : m = <<b, k>> /\ Sorter!Stands(<<b, k>>)
        BY StandingFacts
      <4>2. PICK k : m = <<b, k>> /\ Sorter!Stands(<<b, k>>)
        BY <4>1
      <4>3. b \in Sorter!Before
        BY <1>1, <4>2 DEF Sorter!Stands
      <4>4. b = a
        BY <3>1, <4>2
      <4> QED
        BY <1>5, <4>3, <4>4
    <3> QED
      BY <3>1
  <2>3. IsFiniteSet(New) /\ Cardinality(New) = Cardinality(K(n))
    <3>1. IsFiniteSet({a}) /\ Cardinality({a}) = 1
      BY FS_Singleton
    <3>2. IsFiniteSet(K(n)) /\ Cardinality(K(n)) \in Nat
      BY <1>6
    <3>3. IsFiniteSet(New) /\ Cardinality(New) = 1 * Cardinality(K(n))
      BY <3>1, <3>2, FS_Product
    <3> HIDE DEF New
    <3> QED
      BY <3>2, <3>3
  <2>4. IsFiniteSet(Sorter!Standing(n)) /\ byname[n] = Cardinality(Sorter!Standing(n)) /\ byname[n] \in Nat
    BY <1>1, ValenceFacts
  <2> HIDE DEF New
  <2>5. /\ IsFiniteSet(Sorter!Standing(n) \cup New)
        /\ Cardinality(Sorter!Standing(n) \cup New)
               = Cardinality(Sorter!Standing(n)) + Cardinality(New) - Cardinality({})
    <3>1. /\ IsFiniteSet(Sorter!Standing(n) \cup New)
          /\ Cardinality(Sorter!Standing(n) \cup New) = Cardinality(Sorter!Standing(n)) + Cardinality(New)
                 - Cardinality(Sorter!Standing(n) \cap New)
      BY <2>3, <2>4, FS_Union
    <3> QED
      BY <2>2, <3>1
  <2>6. byname'[n] = byname[n] + Cardinality(K(n))
    BY <1>4, <1>7
  <2> QED
    BY <1>6, <2>1, <2>3, <2>4, <2>5, <2>6, FS_EmptySet
<1>11. Sorter!QueueInv' /\ Sorter!SortsOrFails'
  BY <1>1 DEF Sorter!QueueInv, Sorter!SortsOrFails
<1> QED
  BY <1>8, <1>9, <1>10, <1>11 DEF Sorter!IInv

\* The mentions that stand are the same if each of them stands as before.
LEMMA SameStanding ==
    ASSUME UNCHANGED <<order, added_filter_sets>>,
           \A a \in ToSet(added_filter_sets) : \A k \in DOMAIN order[a] :
               Sorter!Stands(<<a, k>>)' <=> Sorter!Stands(<<a, k>>)
    PROVE  \A n : Sorter!Standing(n)' = Sorter!Standing(n)
<1>1. Sorter!Mentions' = Sorter!Mentions
  BY DEF Sorter!Mentions, Sorter!ToSet
<1>2. ASSUME NEW m \in Sorter!Mentions PROVE Sorter!Stands(m)' <=> Sorter!Stands(m)
  <2>1. PICK a \in ToSet(added_filter_sets) : \E k \in DOMAIN order[a] : m = <<a, k>>
    BY <1>2, SameToSet DEF Sorter!Mentions
  <2>2. PICK k \in DOMAIN order[a] : m = <<a, k>>
    BY <2>1
  <2> QED
    BY <2>2
<1> QED
  BY <1>1, <1>2 DEF Sorter!Standing

\* All lists were gone through, so that all mentions stand.
LEMMA FilledInv == ASSUME Sorter!IInv, Sorter!Filled PROVE Sorter!IInv'
<1>1. /\ pc = "fill" /\ pc' = "prime" /\ i' = 1 /\ i > Len(added_filter_sets)
      /\ UNCHANGED <<registered, order, added_filter_sets, byname, queue, ordered, count, deps, success>>
  BY DEF Sorter!Filled
<1>2. i = Len(added_filter_sets) + 1 /\ queue = <<>> /\ ordered = <<>>
  BY <1>1, SorterFacts DEF Sorter!IInv, Sorter!Unused
<1>3. Sorter!TypeOK'
  BY <1>1 DEF Sorter!IInv, Sorter!TypeOK
<1>4. Sorter!Unused'
  BY <1>1, SorterFacts DEF Sorter!IInv, Sorter!Unused
<1>5. Sorter!ValenceInv'
  <2>1. \A a \in ToSet(added_filter_sets) : a \in Sorter!Before
    BY <1>2, SorterFacts DEF ToSet, Sorter!Before
  <2>2. \A a \in ToSet(added_filter_sets) : \A k \in DOMAIN order[a] :
            Sorter!Stands(<<a, k>>)' /\ Sorter!Stands(<<a, k>>)
    BY <1>1, <2>1 DEF Sorter!Stands
  <2>3. \A n : Sorter!Standing(n)' = Sorter!Standing(n)
    BY <1>1, <2>2, SameStanding
  <2> QED
    BY <1>1, <2>3, SameValence
<1>6. Sorter!QueueInv'
  <2>1. ToSet(queue) = {} /\ ToSet(ordered) = {} /\ IsInjective(queue) /\ Sorter!Before' = {}
    BY <1>1, <1>2 DEF ToSet, IsInjective, Sorter!Before
  <2>2. /\ Sorter!ToSet(queue') = {} /\ Sorter!ToSet(ordered') = {} /\ Sorter!IsInjective(queue')
    BY <1>1, <2>1, SameToSet, SameInjective
  <2> QED
    BY <1>1, <2>1, <2>2 DEF Sorter!QueueInv
<1> QED
  BY <1>1, <1>3, <1>4, <1>5, <1>6 DEF Sorter!IInv, Sorter!SortsOrFails

\* What QueueInv says, in the operators of this module.
LEMMA QueueFacts ==
    ASSUME Sorter!IInv
    PROVE  /\ pc \in {"prime", "walk"} =>
                  /\ IsInjective(queue) /\ ToSet(queue) \subseteq ToSet(added_filter_sets)
                  /\ \A n \in ToSet(added_filter_sets) :
                         n \in ToSet(queue) \cup ToSet(ordered) <=>
                             byname[n] = 0 /\ (pc = "prime" => n \in Sorter!Before)
           /\ pc = "walk" =>
                  /\ IsInjective(ordered) /\ ToSet(ordered) \subseteq ToSet(added_filter_sets)
                  /\ ToSet(ordered) \cap ToSet(queue) = {}
                  /\ count = Len(added_filter_sets) - Len(ordered)
                  /\ Respects(ordered, order)
           /\ pc = "walk" /\ deps # <<>> =>
                  /\ ordered # <<>> /\ Len(deps) <= Len(order[Head(ordered)])
                  /\ \A k \in 1..Len(deps) :
                         deps[k] = order[Head(ordered)][Len(order[Head(ordered)]) - Len(deps) + k]
BY SameToSet, SameInjective, SameRespects DEF Sorter!IInv, Sorter!QueueInv

\* An item without valence goes into the queue.
LEMMA PrimeInv == ASSUME Sorter!IInv, Sorter!Prime PROVE Sorter!IInv'
<1>0. PICK a : a = added_filter_sets[i]
  OBVIOUS
<1>1. /\ pc = "prime" /\ pc' = "prime" /\ i' = i + 1 /\ i <= Len(added_filter_sets)
      /\ queue' = IF byname[a] = 0 THEN Append(queue, a) ELSE queue
      /\ UNCHANGED <<registered, order, added_filter_sets, byname, ordered, count, deps, success>>
  BY <1>0 DEF Sorter!Prime
<1>2. /\ added_filter_sets \in Seq(FilterSet) /\ IsInjective(added_filter_sets) /\ i \in Nat \ {0}
      /\ DOMAIN added_filter_sets = 1..Len(added_filter_sets) /\ Len(added_filter_sets) \in Nat
      /\ queue \in Seq(FilterSet)
  BY SorterFacts
<1>3. a \in FilterSet /\ a \in ToSet(added_filter_sets)
  <2>1. i \in DOMAIN added_filter_sets
    BY <1>1, <1>2
  <2>2. a \in FilterSet
    BY <1>0, <1>2, <2>1
  <2>3. a \in ToSet(added_filter_sets)
    BY <1>0, <2>1 DEF ToSet
  <2> QED
    BY <2>2, <2>3
<1>5. Sorter!Before' = Sorter!Before \cup {a} /\ a \notin Sorter!Before
  <2>1. Sorter!Before' = {added_filter_sets[j] : j \in 1..i}
    <3>1. (i + 1) - 1 = i
      BY <1>2
    <3> QED
      BY <1>1, <3>1 DEF Sorter!Before
  <2>2. \A j \in 1..(i - 1) : added_filter_sets[j] # a
    <3> SUFFICES ASSUME NEW j \in 1..(i - 1), added_filter_sets[j] = a PROVE FALSE
      OBVIOUS
    <3>1. j \in DOMAIN added_filter_sets /\ i \in DOMAIN added_filter_sets /\ j # i
      BY <1>1, <1>2
    <3> QED
      BY <1>0, <1>2, <3>1 DEF IsInjective
  <2>3. \A j \in 1..i : j \in 1..(i - 1) \/ j = i
    BY <1>2
  <2>4. 1..(i - 1) \subseteq 1..i /\ i \in 1..i
    BY <1>2
  <2> QED
    BY <1>0, <2>1, <2>2, <2>3, <2>4 DEF Sorter!Before
<1>6. /\ IsInjective(queue) /\ ToSet(queue) \subseteq ToSet(added_filter_sets)
      /\ \A n \in ToSet(added_filter_sets) :
             n \in ToSet(queue) \cup ToSet(ordered) <=> byname[n] = 0 /\ n \in Sorter!Before
  BY <1>1, QueueFacts
<1>7. /\ queue' \in Seq(FilterSet) /\ IsInjective(queue')
      /\ ToSet(queue') = ToSet(queue) \cup (IF byname[a] = 0 THEN {a} ELSE {})
  <2>1. CASE byname[a] = 0
    <3>1. a \notin ToSet(queue)
      BY <1>3, <1>5, <1>6
    <3> QED
      BY <1>1, <1>2, <1>3, <1>6, <2>1, <3>1, AppendFacts
  <2>2. CASE byname[a] # 0
    BY <1>1, <1>2, <1>6, <2>2
  <2> QED
    BY <2>1, <2>2
<1>8. Sorter!TypeOK'
  <2>1. pc' \in {"register", "fill", "prime", "walk", "done"} /\ i' \in Nat \ {0}
    BY <1>1, <1>2
  <2>2. UNCHANGED <<registered, order, added_filter_sets, byname, ordered, count, deps, success>>
        /\ queue' \in Seq(FilterSet)
    BY <1>1, <1>7
  <2> QED
    BY <2>1, <2>2 DEF Sorter!IInv, Sorter!TypeOK
<1>9. Sorter!Unused'
  BY <1>1, <1>2 DEF Sorter!IInv, Sorter!Unused
<1>10. Sorter!ValenceInv'
  <2>1. \A b, k : Sorter!Stands(<<b, k>>)' /\ Sorter!Stands(<<b, k>>)
    BY <1>1 DEF Sorter!Stands
  <2>2. \A n : Sorter!Standing(n)' = Sorter!Standing(n)
    BY <1>1, <2>1, SameStanding
  <2> QED
    BY <1>1, <2>2, SameValence
<1>11. Sorter!QueueInv'
  <2>1. \A n \in ToSet(added_filter_sets) :
            n \in ToSet(queue') \cup ToSet(ordered) <=> byname[n] = 0 /\ n \in Sorter!Before'
    BY <1>5, <1>6, <1>7
  <2>2. ToSet(queue') \subseteq ToSet(added_filter_sets)
    BY <1>3, <1>6, <1>7
  <2> QED
    BY <1>1, <1>7, <2>1, <2>2, SameToSet, SameInjective DEF Sorter!QueueInv
<1> QED
  BY <1>1, <1>8, <1>9, <1>10, <1>11 DEF Sorter!IInv, Sorter!SortsOrFails

\* The walk starts with nothing ordered.
LEMMA PrimedInv == ASSUME Sorter!IInv, Sorter!Primed PROVE Sorter!IInv'
<1>1. /\ pc = "prime" /\ pc' = "walk" /\ i' = 1 /\ i > Len(added_filter_sets)
      /\ UNCHANGED <<registered, order, added_filter_sets, byname, queue, ordered, count, deps, success>>
  BY DEF Sorter!Primed
<1>2. /\ i = Len(added_filter_sets) + 1 /\ ordered = <<>> /\ deps = <<>>
      /\ count = Len(added_filter_sets) /\ Len(added_filter_sets) \in Nat
  BY <1>1, SorterFacts DEF Sorter!IInv, Sorter!Unused
<1>3. Sorter!TypeOK'
  BY <1>1 DEF Sorter!IInv, Sorter!TypeOK
<1>4. Sorter!Unused'
  BY <1>1 DEF Sorter!Unused
<1>5. ToSet(ordered) = {} /\ IsInjective(ordered) /\ Respects(ordered, order) /\ Len(ordered) = 0
  BY <1>2 DEF ToSet, IsInjective, Respects
<1>6. Sorter!ValenceInv'
  <2>1. Sorter!ToSet(ordered') = {}
    BY <1>1, <1>5, SameToSet
  <2>2. \A b, k : Sorter!Stands(<<b, k>>)' /\ Sorter!Stands(<<b, k>>)
    BY <1>1, <2>1 DEF Sorter!Stands
  <2>3. \A n : Sorter!Standing(n)' = Sorter!Standing(n)
    BY <1>1, <2>2, SameStanding
  <2> QED
    BY <1>1, <2>3, SameValence
<1>7. Sorter!QueueInv'
  <2>1. \A n \in ToSet(added_filter_sets) : n \in Sorter!Before
    BY <1>2, SorterFacts DEF ToSet, Sorter!Before
  <2>2. /\ IsInjective(queue) /\ ToSet(queue) \subseteq ToSet(added_filter_sets)
        /\ \A n \in ToSet(added_filter_sets) :
               n \in ToSet(queue) \cup ToSet(ordered) <=> byname[n] = 0
    BY <1>1, <2>1, QueueFacts
  <2> QED
    BY <1>1, <1>2, <1>5, <2>2, SameToSet, SameInjective, SameRespects DEF Sorter!QueueInv
<1> QED
  BY <1>1, <1>3, <1>4, <1>6, <1>7 DEF Sorter!IInv, Sorter!SortsOrFails
-----------------------------------------------------------------------------
(* An item that has no valence is on the list of none that is still to come. *)
LEMMA NotAfter ==
    ASSUME Sorter!IInv, pc = "walk", deps = <<>>,
           NEW n \in ToSet(queue) \cup ToSet(ordered),
           NEW a \in ToSet(added_filter_sets) \ ToSet(ordered)
    PROVE  n \notin After(order, a)
<1>1. n \in ToSet(added_filter_sets) /\ byname[n] = 0
  BY QueueFacts
<1>2. Sorter!Standing(n) = {}
  BY <1>1, ValenceFacts
<1> SUFFICES ASSUME NEW k \in DOMAIN order[a], order[a][k] = n PROVE FALSE
  BY DEF After, ToSet
<1>3. Sorter!Stands(<<a, k>>)
  BY SameToSet DEF Sorter!Stands
<1>4. <<a, k>> \in Sorter!Standing(n)
  BY <1>3, StandingFacts
<1> QED
  BY <1>2, <1>4

(* The head of the queue moves to the front of what is ordered; nothing that is
   ordered comes before it, since no mention of it stands. *)
LEMMA TakeInv == ASSUME Sorter!IInv, Sorter!Take PROVE Sorter!IInv'
<1>0. PICK h : h = Head(queue)
  OBVIOUS
<1>1. /\ pc = "walk" /\ pc' = "walk" /\ deps = <<>> /\ queue # <<>> /\ count' = count - 1
      /\ deps' = order[h] /\ ordered' = <<h>> \o ordered /\ queue' = Tail(queue)
      /\ UNCHANGED <<registered, order, added_filter_sets, byname, i, success>>
  BY <1>0 DEF Sorter!Take
<1>2. /\ added_filter_sets \in Seq(FilterSet) /\ queue \in Seq(FilterSet) /\ ordered \in Seq(FilterSet)
      /\ order \in [FilterSet -> Seq(FilterSet)] /\ byname \in [FilterSet -> Int] /\ count \in Int
      /\ Len(ordered) \in Nat /\ Len(added_filter_sets) \in Nat
  BY SorterFacts
<1>3. /\ IsInjective(queue) /\ ToSet(queue) \subseteq ToSet(added_filter_sets)
      /\ \A n \in ToSet(added_filter_sets) : n \in ToSet(queue) \cup ToSet(ordered) <=> byname[n] = 0
      /\ IsInjective(ordered) /\ ToSet(ordered) \subseteq ToSet(added_filter_sets)
      /\ ToSet(ordered) \cap ToSet(queue) = {}
      /\ count = Len(added_filter_sets) - Len(ordered)
      /\ Respects(ordered, order)
  BY <1>1, QueueFacts
<1>4. /\ h \in FilterSet /\ h \in ToSet(queue) /\ h \notin ToSet(ordered)
      /\ queue' \in Seq(FilterSet) /\ IsInjective(queue') /\ h \notin ToSet(queue')
      /\ ToSet(queue) = {h} \cup ToSet(queue')
  <2>1. /\ Tail(queue) \in Seq(FilterSet) /\ h \in FilterSet /\ h \in ToSet(queue)
        /\ ToSet(queue) = {h} \cup ToSet(Tail(queue))
        /\ IsInjective(Tail(queue)) /\ h \notin ToSet(Tail(queue))
    BY <1>0, <1>1, <1>2, <1>3, TailFacts
  <2> QED
    BY <1>1, <1>3, <2>1
<1>5. /\ ordered' \in Seq(FilterSet) /\ Len(ordered') = Len(ordered) + 1
      /\ Head(ordered') = h /\ ordered' # <<>> /\ ordered'[1] = h
      /\ \A k \in 2..(Len(ordered) + 1) : ordered'[k] = ordered[k - 1]
      /\ ToSet(ordered') = ToSet(ordered) \cup {h} /\ IsInjective(ordered')
  <2>1. ordered \in Seq(FilterSet) /\ h \in FilterSet /\ IsInjective(ordered) /\ h \notin ToSet(ordered)
    BY <1>2, <1>3, <1>4
  <2>2. ordered' = <<h>> \o ordered
    BY <1>1
  <2> QED
    BY <2>1, <2>2, PrependFacts
<1>6. order[h] \in Seq(FilterSet) /\ Len(order[h]) \in Nat /\ DOMAIN order[h] = 1..Len(order[h])
  BY <1>2, <1>4
<1>7. Sorter!TypeOK'
  BY <1>1, <1>2, <1>4, <1>5, <1>6 DEF Sorter!IInv, Sorter!TypeOK
<1>8. Sorter!Unused'
  BY <1>1 DEF Sorter!Unused
<1>9. Sorter!ValenceInv'
  <2> SUFFICES ASSUME NEW a \in ToSet(added_filter_sets), NEW k \in DOMAIN order[a]
               PROVE  Sorter!Stands(<<a, k>>)' <=> Sorter!Stands(<<a, k>>)
    BY <1>1, SameStanding, SameValence
  <2>1. order[a] \in Seq(FilterSet) /\ k \in 1..Len(order[a]) /\ Len(order[a]) \in Nat
    <3>1. a \in FilterSet
      BY <1>2 DEF ToSet
    <3> QED
      BY <1>2, <3>1
  <2>2. Sorter!Stands(<<a, k>>) <=> a \notin ToSet(ordered)
    BY <1>1, <2>1, SameToSet DEF Sorter!Stands
  <2>3. Sorter!Stands(<<a, k>>)' <=> a \notin ToSet(ordered') \/ a = h
    <3>1. Sorter!Stands(<<a, k>>)' <=>
              a \notin ToSet(ordered') \/ (a = h /\ k > Len(order[a]) - Len(deps'))
      BY <1>1, <1>5, SameToSet DEF Sorter!Stands
    <3>2. a = h => k > Len(order[a]) - Len(deps')
      BY <1>1, <2>1
    <3> QED
      BY <3>1, <3>2
  <2> QED
    BY <1>4, <1>5, <2>2, <2>3
<1>10. Respects(ordered', order)
  <2> SUFFICES ASSUME NEW x \in 1..(Len(ordered) + 1), NEW y \in 1..(Len(ordered) + 1),
                      ordered'[x] \in After(order, ordered'[y]), ~(x < y)
               PROVE  FALSE
    BY <1>5 DEF Respects
  <2>1. CASE y = 1
    <3>1. ordered'[x] \in ToSet(queue) \cup ToSet(ordered)
      <4>1. ordered'[x] \in ToSet(ordered')
        BY <1>5 DEF ToSet
      <4> QED
        BY <1>4, <1>5, <4>1
    <3>2. h \in ToSet(added_filter_sets) \ ToSet(ordered)
      BY <1>3, <1>4
    <3> QED
      BY <1>1, <1>5, <2>1, <3>1, <3>2, NotAfter
  <2>2. CASE y # 1
    <3>1. x - 1 \in 1..Len(ordered) /\ y - 1 \in 1..Len(ordered) /\ ~(x - 1 < y - 1)
      BY <1>2, <2>2
    <3>2. ordered'[x] = ordered[x - 1] /\ ordered'[y] = ordered[y - 1]
      <4>1. x \in 2..(Len(ordered) + 1) /\ y \in 2..(Len(ordered) + 1)
        BY <1>2, <2>2
      <4> QED
        BY <1>5, <4>1
    <3> QED
      BY <1>3, <3>1, <3>2 DEF Respects
  <2> QED
    BY <2>1, <2>2
<1>11. Sorter!QueueInv'
  <2>1. /\ ToSet(queue') \subseteq ToSet(added_filter_sets)
        /\ ToSet(ordered') \subseteq ToSet(added_filter_sets)
        /\ ToSet(ordered') \cap ToSet(queue') = {}
    BY <1>3, <1>4, <1>5
  <2>3. \A n \in ToSet(added_filter_sets) : n \in ToSet(queue') \cup ToSet(ordered') <=> byname[n] = 0
    BY <1>3, <1>4, <1>5
  <2>4. count' = Len(added_filter_sets) - Len(ordered')
    BY <1>1, <1>2, <1>3, <1>5
  <2>2. \A k \in 1..Len(order[h]) : order[h][k] = order[h][Len(order[h]) - Len(order[h]) + k]
    BY <1>6
  <2> QED
    <3>1. /\ Sorter!ToSet(queue') = ToSet(queue') /\ Sorter!ToSet(ordered') = ToSet(ordered')
          /\ Sorter!ToSet(added_filter_sets') = ToSet(added_filter_sets)
          /\ Sorter!IsInjective(queue') /\ Sorter!IsInjective(ordered')
          /\ Sorter!Respects(ordered', order')
      BY <1>1, <1>4, <1>5, <1>10, SameToSet, SameInjective, SameRespects
    <3>2. Len(deps') <= Len(order'[Head(ordered')])
          /\ \A k \in 1..Len(deps') : deps'[k] = order'[Head(ordered')][Len(order'[Head(ordered')]) - Len(deps') + k]
      BY <1>1, <1>5, <1>6, <2>2
    <3>3. byname' = byname /\ pc' = "walk" /\ added_filter_sets' = added_filter_sets
      BY <1>1
    <3> QED
      BY <1>5, <2>1, <2>3, <2>4, <3>1, <3>2, <3>3 DEF Sorter!QueueInv
<1> QED
  BY <1>1, <1>7, <1>8, <1>9, <1>11 DEF Sorter!IInv, Sorter!SortsOrFails

(* One mention on the list of the item no longer stands: the last one queues what is
   mentioned. *)
LEMMA ReleaseInv == ASSUME Sorter!IInv, Sorter!Release PROVE Sorter!IInv'
<1>0. PICK n0, h, k0 : n0 = Head(deps) /\ h = Head(ordered) /\ k0 = Len(order[h]) - Len(deps) + 1
  OBVIOUS
<1>1. /\ pc = "walk" /\ pc' = "walk" /\ deps # <<>> /\ deps' = Tail(deps)
      /\ UNCHANGED <<registered, order, added_filter_sets, ordered, count, i, success>>
  BY DEF Sorter!Release
<1>2. /\ added_filter_sets \in Seq(FilterSet) /\ queue \in Seq(FilterSet) /\ ordered \in Seq(FilterSet)
      /\ deps \in Seq(FilterSet)
      /\ order \in [FilterSet -> Seq(FilterSet)] /\ byname \in [FilterSet -> Int] /\ count \in Int
  BY SorterFacts
<1>3. /\ IsInjective(queue) /\ ToSet(queue) \subseteq ToSet(added_filter_sets)
      /\ \A n \in ToSet(added_filter_sets) : n \in ToSet(queue) \cup ToSet(ordered) <=> byname[n] = 0
      /\ IsInjective(ordered) /\ ToSet(ordered) \subseteq ToSet(added_filter_sets)
      /\ ToSet(ordered) \cap ToSet(queue) = {}
      /\ count = Len(added_filter_sets) - Len(ordered)
      /\ Respects(ordered, order)
  BY <1>1, QueueFacts
<1>4. /\ ordered # <<>> /\ Len(deps) <= Len(order[h])
      /\ \A k \in 1..Len(deps) : deps[k] = order[h][Len(order[h]) - Len(deps) + k]
  BY <1>0, <1>1, QueueFacts
<1>5. h \in FilterSet /\ h \in ToSet(ordered) /\ h \in ToSet(added_filter_sets)
  BY <1>0, <1>2, <1>3, <1>4, TailFacts
<1>6. /\ order[h] \in Seq(FilterSet) /\ Len(order[h]) \in Nat /\ DOMAIN order[h] = 1..Len(order[h])
      /\ Len(deps) \in Nat /\ Len(deps) >= 1
  BY <1>1, <1>2, <1>5
<1>7. /\ deps' \in Seq(FilterSet) /\ Len(deps') = Len(deps) - 1
      /\ n0 = deps[1] /\ \A k \in 1..(Len(deps) - 1) : deps'[k] = deps[k + 1]
  BY <1>0, <1>1, <1>2, TailFacts
<1>8. k0 \in DOMAIN order[h] /\ order[h][k0] = n0
  <2>1. k0 \in DOMAIN order[h]
    BY <1>0, <1>4, <1>6
  <2>2. 1 \in 1..Len(deps)
    BY <1>6
  <2> QED
    BY <1>0, <1>4, <1>7, <2>1, <2>2
<1>9. \A n : Sorter!Standing(n)' = Sorter!Standing(n) \ {<<h, k0>>}
  <2>1. Sorter!Mentions' = Sorter!Mentions
    BY <1>1 DEF Sorter!Mentions, Sorter!ToSet
  <2>2. ASSUME NEW a \in ToSet(added_filter_sets), NEW k \in DOMAIN order[a]
        PROVE  Sorter!Stands(<<a, k>>)' <=> Sorter!Stands(<<a, k>>) /\ <<a, k>> # <<h, k0>>
    <3>1. Sorter!Stands(<<a, k>>) <=>
              a \notin ToSet(ordered) \/ (a = h /\ k > Len(order[a]) - Len(deps))
      BY <1>0, <1>1, SameToSet DEF Sorter!Stands
    <3>2. Sorter!Stands(<<a, k>>)' <=>
              a \notin ToSet(ordered) \/ (a = h /\ k > Len(order[a]) - Len(deps'))
      BY <1>0, <1>1, SameToSet DEF Sorter!Stands
    <3>3. CASE a # h
      BY <3>1, <3>2, <3>3
    <3>4. CASE a = h
      <4>1. k \in 1..Len(order[h]) /\ a \in ToSet(ordered)
        BY <1>5, <1>6, <3>4
      <4>2. k > Len(order[h]) - Len(deps') <=> k > Len(order[h]) - Len(deps) /\ k # k0
        <5>1. PICK L \in Nat, D \in Nat : L = Len(order[h]) /\ D = Len(deps)
          BY <1>6
        <5>2. Len(deps') = D - 1 /\ k0 = L - D + 1 /\ k \in 1..L
          BY <1>0, <1>7, <4>1, <5>1
        <5> QED
          BY ONLY <5>1, <5>2
      <4> QED
        BY <3>1, <3>2, <3>4, <4>1, <4>2
    <3> QED
      BY <3>3, <3>4
  <2>3. ASSUME NEW m \in Sorter!Mentions PROVE Sorter!Stands(m)' <=> Sorter!Stands(m) /\ m # <<h, k0>>
    <3>1. PICK a \in ToSet(added_filter_sets) : \E k \in DOMAIN order[a] : m = <<a, k>>
      BY <2>3, SameToSet DEF Sorter!Mentions
    <3>2. PICK k \in DOMAIN order[a] : m = <<a, k>>
      BY <3>1
    <3> QED
      BY <2>2, <3>2
  <2>4. order' = order
    BY <1>1
  <2> QED
    BY <2>1, <2>3, <2>4 DEF Sorter!Standing
<1>10. Sorter!Stands(<<h, k0>>)
  <2>1. k0 > Len(order[h]) - Len(deps)
    BY <1>0, <1>6
  <2> QED
    BY <1>0, <1>1, <2>1 DEF Sorter!Stands
<1>11. /\ <<h, k0>> \in Sorter!Standing(n0)
       /\ \A n : n # n0 => Sorter!Standing(n)' = Sorter!Standing(n)
  <2>1. <<h, k0>> \in Sorter!Standing(n0)
    BY <1>5, <1>8, <1>10, StandingFacts
  <2>2. ASSUME NEW n, n # n0 PROVE <<h, k0>> \notin Sorter!Standing(n)
    BY <1>8, <2>2 DEF Sorter!Standing
  <2> QED
    BY <1>9, <2>1, <2>2
<1>12. Sorter!Unused'
  BY <1>1 DEF Sorter!Unused
<1>13. \A k \in 1..Len(deps') : deps'[k] = order[h][Len(order[h]) - Len(deps') + k]
  <2> SUFFICES ASSUME NEW k \in 1..(Len(deps) - 1)
               PROVE  deps'[k] = order[h][Len(order[h]) - Len(deps') + k]
    BY <1>7
  <2>1. k + 1 \in 1..Len(deps) /\ Len(order[h]) - Len(deps) + (k + 1) = Len(order[h]) - Len(deps') + k
    <3>1. PICK L \in Nat, D \in Nat : L = Len(order[h]) /\ D = Len(deps)
      BY <1>6
    <3>2. Len(deps') = D - 1
      BY <1>7, <3>1
    <3>3. k \in 1..(D - 1)
      BY <3>1
    <3>4. k + 1 \in 1..D /\ L - D + (k + 1) = L - (D - 1) + k
      BY <3>3
    <3> QED
      BY <3>1, <3>2, <3>4
  <2>2. deps[k + 1] = order[h][Len(order[h]) - Len(deps) + (k + 1)]
    BY <1>4, <2>1
  <2> QED
    BY <1>7, <2>1, <2>2
<1>14. /\ Len(deps') <= Len(order'[Head(ordered')])
       /\ \A k \in 1..Len(deps') : deps'[k] = order'[Head(ordered')][Len(order'[Head(ordered')]) - Len(deps') + k]
  BY <1>0, <1>1, <1>4, <1>6, <1>7, <1>13
(* The counters and the queue, in each of the cases. *)
<1>15. /\ byname' \in [FilterSet -> Int] /\ queue' \in Seq(FilterSet) /\ IsInjective(queue')
       /\ \A n \in ToSet(added_filter_sets) :
              byname'[n] = Cardinality(Sorter!Standing(n)') /\ IsFiniteSet(Sorter!Standing(n)')
       /\ ToSet(queue') \subseteq ToSet(added_filter_sets)
       /\ ToSet(ordered) \cap ToSet(queue') = {}
       /\ \A n \in ToSet(added_filter_sets) : n \in ToSet(queue') \cup ToSet(ordered) <=> byname'[n] = 0
  <2>1. \A n \in ToSet(added_filter_sets) :
            byname[n] = Cardinality(Sorter!Standing(n)) /\ IsFiniteSet(Sorter!Standing(n))
    BY <1>1, ValenceFacts
  <2>2. CASE n0 \notin ToSet(added_filter_sets)
    <3>1. byname' = byname /\ queue' = queue
      BY <1>0, <2>2, SameToSet DEF Sorter!Release, Sorter!Here
    <3>2. \A n \in ToSet(added_filter_sets) : Sorter!Standing(n)' = Sorter!Standing(n)
      BY <1>11, <2>2
    <3> QED
      BY <1>2, <1>3, <2>1, <3>1, <3>2
  <2>3. CASE n0 \in ToSet(added_filter_sets)
    <3>1. /\ byname' = [byname EXCEPT ![n0] = @ - 1]
          /\ queue' = IF byname[n0] = 1 THEN Append(queue, n0) ELSE queue
      BY <1>0, <2>3, SameToSet DEF Sorter!Release, Sorter!Here
    <3>2. n0 \in FilterSet /\ byname[n0] \in Nat /\ byname[n0] # 0
      <4>1. n0 \in FilterSet
        BY <1>2, <2>3 DEF ToSet
      <4>2. byname[n0] \in Nat /\ (byname[n0] = 0 <=> Sorter!Standing(n0) = {})
        BY <1>1, <2>3, ValenceFacts
      <4> QED
        BY <1>11, <4>1, <4>2
    <3>3. n0 \notin ToSet(queue) /\ n0 \notin ToSet(ordered)
      BY <1>3, <2>3, <3>2
    <3>4. byname'[n0] = byname[n0] - 1 /\ \A n \in FilterSet : n # n0 => byname'[n] = byname[n]
      BY <1>2, <3>1, <3>2
    <3>5. byname' \in [FilterSet -> Int]
      BY <1>2, <3>1, <3>2
    <3>6. /\ queue' \in Seq(FilterSet) /\ IsInjective(queue')
          /\ ToSet(queue') = ToSet(queue) \cup (IF byname[n0] = 1 THEN {n0} ELSE {})
      BY <1>2, <1>3, <3>1, <3>2, <3>3, AppendFacts
    <3>7. /\ IsFiniteSet(Sorter!Standing(n0)')
          /\ Cardinality(Sorter!Standing(n0)') = Cardinality(Sorter!Standing(n0)) - 1
      BY <1>9, <1>11, <2>1, <2>3, FS_RemoveElement
    <3>8. \A n \in ToSet(added_filter_sets) :
              byname'[n] = Cardinality(Sorter!Standing(n)') /\ IsFiniteSet(Sorter!Standing(n)')
      <4> TAKE n \in ToSet(added_filter_sets)
      <4>1. n \in FilterSet
        BY <1>2 DEF ToSet
      <4>2. CASE n = n0
        BY <2>1, <2>3, <3>4, <3>7, <4>2
      <4>3. CASE n # n0
        <5>1. Sorter!Standing(n)' = Sorter!Standing(n) /\ byname'[n] = byname[n]
          BY <1>11, <3>4, <4>1, <4>3
        <5> QED
          BY <2>1, <5>1
      <4> QED
        BY <4>2, <4>3
    <3>9. \A n \in ToSet(added_filter_sets) : n \in ToSet(queue') \cup ToSet(ordered) <=> byname'[n] = 0
      <4> TAKE n \in ToSet(added_filter_sets)
      <4>1. n \in FilterSet
        BY <1>2 DEF ToSet
      <4>2. CASE n = n0
        <5>1. byname'[n] = 0 <=> byname[n0] = 1
          BY <3>2, <3>4, <4>2
        <5> QED
          BY <3>3, <3>6, <4>2, <5>1
      <4>3. CASE n # n0
        BY <1>3, <3>4, <3>6, <4>1, <4>3
      <4> QED
        BY <4>2, <4>3
    <3>10. ToSet(queue') \subseteq ToSet(added_filter_sets) /\ ToSet(ordered) \cap ToSet(queue') = {}
      BY <1>3, <2>3, <3>3, <3>6
    <3> QED
      BY <3>5, <3>6, <3>8, <3>9, <3>10
  <2> QED
    BY <2>2, <2>3
<1>16. Sorter!TypeOK'
  BY <1>1, <1>2, <1>7, <1>15 DEF Sorter!IInv, Sorter!TypeOK
<1>17. Sorter!ValenceInv'
  <2>1. Sorter!ToSet(added_filter_sets') = ToSet(added_filter_sets)
    BY <1>1, SameToSet
  <2> QED
    BY <1>15, <2>1, SameFinite, SameCardinality DEF Sorter!ValenceInv
<1>18. Sorter!QueueInv'
  <2>1. /\ Sorter!ToSet(queue') = ToSet(queue') /\ Sorter!ToSet(ordered') = ToSet(ordered)
        /\ Sorter!ToSet(added_filter_sets') = ToSet(added_filter_sets)
        /\ Sorter!IsInjective(queue') /\ Sorter!IsInjective(ordered')
        /\ Sorter!Respects(ordered', order')
    BY <1>1, <1>3, <1>15, SameToSet, SameInjective, SameRespects
  <2>2. count' = Len(added_filter_sets') - Len(ordered') /\ ordered' # <<>> /\ pc' = "walk"
    BY <1>1, <1>3, <1>4
  <2> QED
    BY <1>3, <1>14, <1>15, <2>1, <2>2 DEF Sorter!QueueInv
<1> QED
  BY <1>1, <1>12, <1>16, <1>17, <1>18 DEF Sorter!IInv, Sorter!SortsOrFails
-----------------------------------------------------------------------------
(* An injective sequence has as many places as it has members. *)
LEMMA InjectiveLen ==
    ASSUME NEW S, NEW s \in Seq(S), IsInjective(s)
    PROVE  IsFiniteSet(ToSet(s)) /\ Cardinality(ToSet(s)) = Len(s)
<1>1. IsFiniteSet(1..Len(s)) /\ Cardinality(1..Len(s)) = Len(s)
  <2>1. PICK n \in Nat : n = Len(s)
    OBVIOUS
  <2>2. IsFiniteSet(1..n) /\ Cardinality(1..n) = IF 1 > n THEN 0 ELSE n - 1 + 1
    BY FS_Interval
  <2> QED
    BY <2>1, <2>2
<1>2. s \in Bijection(1..Len(s), ToSet(s))
  <2>1. DOMAIN s = 1..Len(s) /\ s \in [1..Len(s) -> ToSet(s)]
    BY DEF ToSet
  <2>2. \A e \in ToSet(s) : \E k \in 1..Len(s) : s[k] = e
    BY <2>1 DEF ToSet
  <2>3. \A a, b \in 1..Len(s) : s[a] = s[b] => a = b
    BY <2>1 DEF IsInjective
  <2>4. s \in Injection(1..Len(s), ToSet(s))
    BY <2>1, <2>3 DEF Injection, IsInjective
  <2>5. s \in Surjection(1..Len(s), ToSet(s))
    BY <2>1, <2>2 DEF Surjection
  <2> QED
    BY <2>4, <2>5 DEF Bijection
<1>3. ExistsBijection(1..Len(s), ToSet(s))
  BY <1>2 DEF ExistsBijection
<1> QED
  BY <1>1, <1>3, FS_Bijection

(* Of some natural numbers one is the least. *)
LEMMA LeastNat == ASSUME NEW S \in SUBSET Nat, S # {} PROVE \E n \in S : \A m \in S : n <= m
<1>1. PICK R : IsWellFoundedOn(R, Nat) /\ \A m, n \in Nat : m < n => <<m, n>> \in R
  <2>1. \A m, n \in Nat : m < n => <<m, n>> \in OpToRel(<, Nat)
    BY Zenon DEF OpToRel
  <2> QED
    BY <2>1, NatLessThanWellFounded, Zenon
<1>2. PICK n \in S : \A m \in S : ~(<<m, n>> \in R)
  <2>1. S \subseteq Nat /\ IsWellFoundedOn(R, Nat)
    BY <1>1
  <2> QED
    BY <2>1, WFMin, Zenon
<1>3. \A m \in S : ~(m < n)
  BY <1>1, <1>2
<1> QED
  BY <1>3

(* What can be arranged as registered has no circle: the last of one would have to
   come before another of it. *)
LEMMA RespectsNotCyclic ==
    ASSUME NEW S, NEW s \in Seq(S), NEW o, Respects(s, o)
    PROVE  ~Cyclic(ToSet(s), o)
<1> SUFFICES ASSUME NEW Loop \in SUBSET ToSet(s), Loop # {}, \A a \in Loop : \E b \in Loop : a \in After(o, b)
             PROVE  FALSE
  BY DEF Cyclic
<1>1. Len(s) \in Nat /\ DOMAIN s = 1..Len(s)
  OBVIOUS
<1> DEFINE X == {Len(s) - k : k \in {k \in 1..Len(s) : s[k] \in Loop}}
<1>2. X \in SUBSET Nat /\ X # {}
  <2>1. PICK k \in 1..Len(s) : s[k] \in Loop
    BY <1>1 DEF ToSet
  <2>2. Len(s) - k \in X
    BY <2>1
  <2>3. \A m \in 1..Len(s) : Len(s) - m \in Nat
    BY <1>1
  <2> QED
    BY <2>2, <2>3
<1>3. PICK n \in X : \A m \in X : n <= m
  BY <1>2, LeastNat
<1>4. PICK k \in 1..Len(s) : s[k] \in Loop /\ n = Len(s) - k
  BY <1>3
<1>5. PICK b \in Loop : s[k] \in After(o, b)
  BY <1>4
<1>6. PICK j \in 1..Len(s) : s[j] = b
  BY <1>1, <1>5 DEF ToSet
<1>7. k < j
  BY <1>5, <1>6 DEF Respects
<1>8. Len(s) - j \in X
  BY <1>5, <1>6
<1> HIDE DEF X
<1>9. Len(s) - k <= Len(s) - j
  BY <1>3, <1>4, <1>8
<1> QED
  BY <1>1, <1>7, <1>9

\* All are ordered, or those that are not each come before another of them.
LEMMA FinishInv == ASSUME Sorter!IInv, Sorter!Finish
                   PROVE  Sorter!IInv' /\ ToSet(added_filter_sets') = ToSet(added_filter_sets)
<1>1. /\ pc = "walk" /\ pc' = "done" /\ deps = <<>> /\ queue = <<>>
      /\ success' = (count <= 0) /\ added_filter_sets' = IF success' THEN ordered ELSE added_filter_sets
      /\ UNCHANGED <<registered, order, byname, queue, ordered, count, i, deps>>
  BY DEF Sorter!Finish
<1>2. /\ added_filter_sets \in Seq(FilterSet) /\ IsInjective(added_filter_sets) /\ ordered \in Seq(FilterSet)
      /\ Len(ordered) \in Nat /\ Len(added_filter_sets) \in Nat
  BY SorterFacts
<1>3. /\ \A n \in ToSet(added_filter_sets) : n \in ToSet(queue) \cup ToSet(ordered) <=> byname[n] = 0
      /\ IsInjective(ordered) /\ ToSet(ordered) \subseteq ToSet(added_filter_sets)
      /\ count = Len(added_filter_sets) - Len(ordered)
      /\ Respects(ordered, order)
  BY <1>1, QueueFacts
<1>4. count <= 0 <=> ToSet(ordered) = ToSet(added_filter_sets)
  <2>1. /\ IsFiniteSet(ToSet(ordered)) /\ Cardinality(ToSet(ordered)) = Len(ordered)
        /\ IsFiniteSet(ToSet(added_filter_sets))
        /\ Cardinality(ToSet(added_filter_sets)) = Len(added_filter_sets)
    BY <1>2, <1>3, InjectiveLen
  <2>2. /\ Len(ordered) <= Len(added_filter_sets)
        /\ Len(added_filter_sets) = Len(ordered) => ToSet(added_filter_sets) = ToSet(ordered)
    BY <1>3, <2>1, FS_Subset
  <2>3. ToSet(added_filter_sets) = ToSet(ordered) => Len(added_filter_sets) = Len(ordered)
    BY <2>1
  <2> QED
    BY <1>2, <1>3, <2>2, <2>3
<1>5. success' <=> ~Cyclic(ToSet(added_filter_sets), order)
  <2>1. CASE success'
    BY <1>1, <1>2, <1>3, <1>4, <2>1, RespectsNotCyclic
  <2>2. CASE ~success'
    <3> DEFINE Loop == ToSet(added_filter_sets) \ ToSet(ordered)
    <3>1. Loop # {}
      BY <1>1, <1>3, <1>4, <2>2
    <3>2. ASSUME NEW a \in Loop PROVE \E b \in Loop : a \in After(order, b)
      <4>1. a \notin ToSet(queue)
        BY <1>1 DEF ToSet
      <4>2. byname[a] # 0
        BY <1>3, <4>1
      <4>3. Sorter!Standing(a) # {}
        BY <1>1, <4>2, ValenceFacts
      <4>4. PICK m : m \in Sorter!Standing(a)
        BY <4>3
      <4>5. PICK b \in ToSet(added_filter_sets) :
                \E k \in DOMAIN order[b] : order[b][k] = a /\ Sorter!Stands(<<b, k>>)
        BY <4>4, StandingFacts
      <4>6. PICK k \in DOMAIN order[b] : order[b][k] = a /\ Sorter!Stands(<<b, k>>)
        BY <4>5
      <4>7. b \in FilterSet
        BY <1>2 DEF ToSet
      <4>8. order[b] \in Seq(FilterSet)
        BY <4>7, SorterFacts
      <4>9. k \in 1..Len(order[b]) /\ Len(order[b]) \in Nat
        BY <4>8
      <4>10. b \notin ToSet(ordered)
        BY <1>1, <4>6, <4>9, SameToSet DEF Sorter!Stands
      <4> QED
        BY <4>6, <4>10 DEF After, ToSet
    <3>3. Cyclic(ToSet(added_filter_sets), order)
      BY <3>1, <3>2 DEF Cyclic
    <3> QED
      BY <2>2, <3>3
  <2> QED
    BY <2>1, <2>2
<1>6. ToSet(added_filter_sets') = ToSet(added_filter_sets)
  BY <1>1, <1>4
<1>7. added_filter_sets' \in Seq(FilterSet) /\ IsInjective(added_filter_sets')
  BY <1>1, <1>2, <1>3
<1>8. Sorter!TypeOK'
  <2>1. Sorter!IsInjective(added_filter_sets')
    BY <1>7, SameInjective
  <2>2. success' \in BOOLEAN
    BY <1>1
  <2> QED
    BY <1>1, <1>7, <2>1, <2>2 DEF Sorter!IInv, Sorter!TypeOK
<1>9. Sorter!SortsOrFails'
  <2>1. success' <=> ~Sorter!Cyclic(Sorter!ToSet(added_filter_sets'), order')
    BY <1>1, <1>5, <1>6, SameToSet, SameCyclic
  <2>2. ASSUME success' PROVE Sorter!Respects(added_filter_sets', order') /\ Sorter!IsInjective(added_filter_sets')
                              /\ Len(added_filter_sets') = Len(ordered')
    BY <1>1, <1>3, <1>7, <2>2, SameRespects, SameInjective
  <2> QED
    BY <2>1, <2>2 DEF Sorter!SortsOrFails
<1> QED
  BY <1>1, <1>6, <1>8, <1>9 DEF Sorter!IInv, Sorter!Unused, Sorter!ValenceInv, Sorter!QueueInv

(* Whatever the sort does, the list holds what it held. *)
LEMMA SortInv == ASSUME Sorter!IInv, Sorter!Sort
                 PROVE  Sorter!IInv' /\ ToSet(added_filter_sets') = ToSet(added_filter_sets)
                        /\ order' = order
<1>1. ASSUME added_filter_sets' = added_filter_sets
      PROVE  ToSet(added_filter_sets') = ToSet(added_filter_sets)
  BY <1>1
<1>2. order' = order
  BY DEF Sorter!Sort, Sorter!Start, Sorter!Fill, Sorter!Filled, Sorter!Prime, Sorter!Primed, Sorter!Take,
         Sorter!Release, Sorter!Finish
<1>3. CASE Sorter!Start
  BY <1>1, <1>2, <1>3, StartInv DEF Sorter!Start
<1>4. CASE Sorter!Fill
  BY <1>1, <1>2, <1>4, FillInv DEF Sorter!Fill
<1>5. CASE Sorter!Filled
  BY <1>1, <1>2, <1>5, FilledInv DEF Sorter!Filled
<1>6. CASE Sorter!Prime
  BY <1>1, <1>2, <1>6, PrimeInv DEF Sorter!Prime
<1>7. CASE Sorter!Primed
  BY <1>1, <1>2, <1>7, PrimedInv DEF Sorter!Primed
<1>8. CASE Sorter!Take
  BY <1>1, <1>2, <1>8, TakeInv DEF Sorter!Take
<1>9. CASE Sorter!Release
  BY <1>1, <1>2, <1>9, ReleaseInv DEF Sorter!Release
<1>10. CASE Sorter!Finish
  BY <1>2, <1>10, FinishInv
<1> QED
  BY <1>3, <1>4, <1>5, <1>6, <1>7, <1>8, <1>9, <1>10 DEF Sorter!Sort
-----------------------------------------------------------------------------
(* Before the sort the invariant says little, so that registering and adding keep it. *)
LEMMA RegisterInv ==
    ASSUME Sorter!IInv, pc = "register",
           UNCHANGED <<pc, byname, queue, ordered, count, i, deps, success>>,
           registered' \in Nat, order' \in [FilterSet -> Seq(FilterSet)],
           added_filter_sets' \in Seq(FilterSet), IsInjective(added_filter_sets')
    PROVE  Sorter!IInv'
<1>1. Sorter!TypeOK'
  BY SameInjective DEF Sorter!IInv, Sorter!TypeOK
<1>2. Sorter!Unused'
  BY DEF Sorter!IInv, Sorter!Unused
<1> QED
  BY <1>1, <1>2 DEF Sorter!IInv, Sorter!ValenceInv, Sorter!QueueInv, Sorter!SortsOrFails

\* Steps of others leave the sort as it is.
LEMMA IdleInv == ASSUME Sorter!IInv, UNCHANGED <<sorting, added_filter_sets>> PROVE Sorter!IInv'
<1>1. UNCHANGED <<pc, registered, order, byname, queue, ordered, count, i, deps, success, added_filter_sets>>
  BY DEF sorting
<1>2. Sorter!TypeOK'
  BY <1>1 DEF Sorter!IInv, Sorter!TypeOK
<1>3. Sorter!Unused'
  BY <1>1 DEF Sorter!IInv, Sorter!Unused
<1>4. Sorter!Before' = Sorter!Before
  BY <1>1 DEF Sorter!Before
<1>5. Sorter!ValenceInv'
  <2>1. CASE pc \in {"fill", "prime", "walk"}
    <3>1. \A a, k : Sorter!Stands(<<a, k>>)' <=> Sorter!Stands(<<a, k>>)
      BY <1>1, <1>4, <2>1 DEF Sorter!Stands, Sorter!ToSet
    <3>2. \A n : Sorter!Standing(n)' = Sorter!Standing(n)
      BY <1>1, <3>1, SameStanding
    <3> QED
      BY <1>1, <2>1, <3>2, SameValence
  <2>2. CASE pc \notin {"fill", "prime", "walk"}
    BY <1>1, <2>2 DEF Sorter!ValenceInv
  <2> QED
    BY <2>1, <2>2
<1>6. Sorter!QueueInv'
  BY <1>1, <1>4 DEF Sorter!IInv, Sorter!QueueInv
<1>7. Sorter!SortsOrFails'
  BY <1>1 DEF Sorter!IInv, Sorter!SortsOrFails
<1> QED
  BY <1>2, <1>3, <1>5, <1>6, <1>7 DEF Sorter!IInv
-----------------------------------------------------------------------------
(* From here on about the filter-sets. *)
LEMMA StackFacts ==
    ASSUME IInv
    PROVE  /\ stack \in Seq([set : FilterSet, activate : BOOLEAN, next : Nat \ {0}])
           /\ Len(stack) \in Nat /\ DOMAIN stack = 1..Len(stack)
           /\ \A x \in 1..Len(stack) :
                  stack[x].set \in FilterSet /\ stack[x].activate \in BOOLEAN /\ stack[x].next \in Nat \ {0}
           /\ requires \in [FilterSet -> Seq(FilterSet)] /\ added \subseteq FilterSet
           /\ added_filter_sets \in Seq(FilterSet) /\ IsInjective(added_filter_sets)
           /\ Len(added_filter_sets) \in Nat
           /\ order \in [FilterSet -> Seq(FilterSet)]
<1>1. stack \in Seq([set : FilterSet, activate : BOOLEAN, next : Nat \ {0}])
  BY DEF IInv, TypeOK
<1>2. Len(stack) \in Nat /\ DOMAIN stack = 1..Len(stack)
      /\ \A x \in 1..Len(stack) : stack[x] \in [set : FilterSet, activate : BOOLEAN, next : Nat \ {0}]
  <2>1. PICK F : F = [set : FilterSet, activate : BOOLEAN, next : Nat \ {0}]
    OBVIOUS
  <2>2. stack \in Seq(F)
    BY <1>1, <2>1
  <2>3. Len(stack) \in Nat /\ DOMAIN stack = 1..Len(stack) /\ \A x \in 1..Len(stack) : stack[x] \in F
    BY <2>2
  <2> QED
    BY <2>1, <2>3
<1>3. \A x \in 1..Len(stack) :
          stack[x].set \in FilterSet /\ stack[x].activate \in BOOLEAN /\ stack[x].next \in Nat \ {0}
  BY <1>2
<1>4. added_filter_sets \in Seq(FilterSet) /\ IsInjective(added_filter_sets)
      /\ order \in [FilterSet -> Seq(FilterSet)]
  BY SorterFacts DEF IInv
<1>5. Len(added_filter_sets) \in Nat
  BY <1>4
<1> QED
  BY <1>1, <1>2, <1>3, <1>4, <1>5 DEF IInv, TypeOK

\* Without calls of filter_set_add there is nothing to say about them.
LEMMA NoCalls == ASSUME stack' = <<>> PROVE StackInv' /\ Entered' = {}
<1>1. Len(stack') = 0
  OBVIOUS
<1>2. Entered' = {}
  BY <1>1 DEF Entered
<1> QED
  BY <1>1, <1>2 DEF StackInv

\* The same in the state itself.
LEMMA NoCallsNow == ASSUME stack = <<>> PROVE Entered = {}
<1>1. Len(stack) = 0
  OBVIOUS
<1> QED
  BY <1>1 DEF Entered

\* Before anything is registered but that all depend on log.
LEMMA InitInv == ASSUME Init PROVE IInv
<1> USE DEF LogSet, InvokeSet, DebuggerSet
<1>1. "log" \in FilterSet
  BY NamesAssumption
<1>2. Sorter!IInv
  <2>1. order \in [FilterSet -> Seq(FilterSet)]
    <3>1. <<>> \in Seq(FilterSet) /\ <<"log", "log">> \in Seq(FilterSet)
      BY <1>1
    <3> QED
      BY <3>1 DEF Init
  <2>2. /\ pc = "register" /\ registered = 0 /\ added_filter_sets = <<>>
        /\ byname = [n \in FilterSet |-> 0] /\ queue = <<>> /\ ordered = <<>> /\ deps = <<>>
        /\ count = 0 /\ i = 1 /\ success = FALSE
    BY DEF Init, Sorter!Empty
  <2>3. Sorter!IsInjective(<<>>)
    BY DEF Sorter!IsInjective
  <2>4. byname \in [FilterSet -> Int]
    BY <2>2
  <2>5. Sorter!TypeOK
    <3>1. <<>> \in Seq(FilterSet)
      OBVIOUS
    <3>2. registered \in Nat /\ count \in Int /\ i \in Nat \ {0}
      BY <2>2
    <3>4. /\ added_filter_sets \in Seq(FilterSet) /\ queue \in Seq(FilterSet) /\ ordered \in Seq(FilterSet)
          /\ deps \in Seq(FilterSet)
      BY <2>2, <3>1
    <3>5. pc = "register" /\ success \in BOOLEAN
      BY <2>2
    <3>3. Sorter!IsInjective(added_filter_sets)
      BY <2>2, <2>3
    <3> QED
      BY <2>1, <2>4, <3>2, <3>3, <3>4, <3>5 DEF Sorter!TypeOK
  <2> QED
    BY <2>2, <2>5 DEF Sorter!IInv, Sorter!Unused, Sorter!ValenceInv, Sorter!QueueInv, Sorter!SortsOrFails
<1>3. pc = "register" /\ added_filter_sets = <<>>
  BY DEF Init, Sorter!Empty
<1>4. TypeOK
  <2>1. <<>> \in Seq(FilterSet) /\ <<"log">> \in Seq(FilterSet)
    BY <1>1
  <2>2. requires \in [FilterSet -> Seq(FilterSet)]
    BY <2>1 DEF Init
  <2>3. stack = <<>> /\ stack \in Seq([set : FilterSet, activate : BOOLEAN, next : Nat \ {0}])
    BY DEF Init
  <2> QED
    BY <2>2, <2>3 DEF Init, TypeOK
<1>5. RequiresInv
  <2> SUFFICES ASSUME NEW s \in FilterSet, NEW d \in Requires(s) PROVE d \in After(order, s)
    BY DEF RequiresInv
  <2>1. s # "log" /\ d = "log" /\ order[s] = <<"log", "log">>
    BY DEF Init, Requires, ToSet
  <2> QED
    BY <2>1 DEF After, ToSet
<1>6. StageInv
  BY <1>3 DEF Init, StageInv
<1>7. stack = <<>> /\ Entered = {} /\ StackInv
  <2>1. stack = <<>> /\ Len(stack) = 0
    BY DEF Init
  <2>2. Entered = {}
    BY <2>1 DEF Entered
  <2> QED
    BY <2>1, <2>2 DEF StackInv
<1>8. ListInv
  <2>1. ToSet(added_filter_sets) = {}
    BY <1>3 DEF ToSet
  <2> QED
    BY <1>7, <2>1 DEF ListInv, Init
<1>9. LoadedInv
  <2>1. Len(added_filter_sets) = 0
    BY <1>3
  <2>2. loaded = {added_filter_sets[j] : j \in 1..0} /\ stage = "libraries" /\ at = 1
    BY DEF Init
  <2> QED
    BY <2>1, <2>2 DEF LoadedInv
<1> QED
  BY <1>2, <1>4, <1>5, <1>6, <1>7, <1>8, <1>9 DEF IInv
-----------------------------------------------------------------------------
\* While the libraries register there is nothing else.
LEMMA LibrariesFacts ==
    ASSUME IInv, stage = "libraries"
    PROVE  /\ pc = "register" /\ added = {} /\ added_filter_sets = <<>> /\ stack = <<>> /\ loaded = {} /\ at = 1
           /\ Len(added_filter_sets) = 0 /\ ToSet(added_filter_sets) = {}
<1>1. pc = "register" /\ added = {} /\ added_filter_sets = <<>>
  BY DEF IInv, StageInv
<1>2. stack = <<>>
  BY DEF IInv, StageInv, InvokeSet, DebuggerSet
<1>3. loaded = {} /\ at = 1
  BY DEF IInv, LoadedInv
<1> QED
  BY <1>1, <1>2, <1>3 DEF ToSet

\* A registration adds a name to the list of another, and maybe to what that requires.
LEMMA RegistrationInv ==
    ASSUME IInv, stage = "libraries",
           UNCHANGED <<stage, chain, added, added_filter_sets, active, stack, loaded, at>>,
           NEW before \in FilterSet, NEW after \in FilterSet, Sorter!RegisterOrder(before, after),
           requires' \in {requires, [requires EXCEPT ![after] = Append(@, before)]}
    PROVE  IInv'
<1>1. /\ pc = "register" /\ added = {} /\ added_filter_sets = <<>> /\ stack = <<>> /\ loaded = {} /\ at = 1
      /\ Len(added_filter_sets) = 0 /\ ToSet(added_filter_sets) = {}
  BY LibrariesFacts
<1>2. /\ registered' = registered + 1 /\ order' = [order EXCEPT ![after] = Append(@, before)]
      /\ UNCHANGED <<pc, added_filter_sets, byname, queue, ordered, count, i, deps, success>>
  BY DEF Sorter!RegisterOrder
<1>3. requires \in [FilterSet -> Seq(FilterSet)] /\ order \in [FilterSet -> Seq(FilterSet)]
  BY StackFacts
<1>4. \A f \in [FilterSet -> Seq(FilterSet)] :
          /\ [f EXCEPT ![after] = Append(@, before)] \in [FilterSet -> Seq(FilterSet)]
          /\ \A s \in FilterSet : ToSet([f EXCEPT ![after] = Append(@, before)][s]) =
                 ToSet(f[s]) \cup (IF s = after THEN {before} ELSE {})
  <2> TAKE f \in [FilterSet -> Seq(FilterSet)]
  <2>1. /\ Append(f[after], before) \in Seq(FilterSet)
        /\ ToSet(Append(f[after], before)) = ToSet(f[after]) \cup {before}
    BY AppendFacts
  <2> QED
    BY <2>1
<1>5. order' \in [FilterSet -> Seq(FilterSet)] /\ requires' \in [FilterSet -> Seq(FilterSet)]
  BY <1>2, <1>3, <1>4
<1>6. Sorter!IInv'
  <2>1. registered' \in Nat
    BY <1>2, SorterFacts DEF IInv
  <2> QED
    BY <1>1, <1>2, <1>5, <2>1, RegisterInv, StackFacts DEF IInv
<1>7. TypeOK'
  BY <1>5 DEF IInv, TypeOK
<1>8. RequiresInv'
  <2> SUFFICES ASSUME NEW s \in FilterSet PROVE ToSet(requires'[s]) \subseteq ToSet(order'[s])
    BY DEF RequiresInv, Requires, After
  <2>1. ToSet(requires[s]) \subseteq ToSet(order[s])
    BY DEF IInv, RequiresInv, Requires, After
  <2>2. ToSet(order'[s]) = ToSet(order[s]) \cup (IF s = after THEN {before} ELSE {})
    BY <1>2, <1>3, <1>4
  <2>3. ToSet(requires'[s]) \subseteq ToSet(requires[s]) \cup (IF s = after THEN {before} ELSE {})
    <3>1. CASE requires' = requires
      BY <3>1
    <3>2. CASE requires' = [requires EXCEPT ![after] = Append(@, before)]
      BY <1>3, <1>4, <3>2
    <3> QED
      BY <3>1, <3>2
  <2> QED
    BY <2>1, <2>2, <2>3
<1>9. StageInv'
  BY <1>1, <1>2 DEF StageInv
<1>10. StackInv' /\ Entered' = {}
  BY <1>1, NoCalls
<1>11. ListInv'
  <2>1. ToSet(added_filter_sets') = {} /\ added' = {}
    BY <1>1
  <2> QED
    BY <1>10, <2>1 DEF ListInv
<1>12. LoadedInv'
  BY DEF IInv, LoadedInv
<1> QED
  BY <1>6, <1>7, <1>8, <1>9, <1>10, <1>11, <1>12 DEF IInv

(* A step that leaves the registrations, the list and the calls alone. *)
LEMMA QuietInv ==
    ASSUME IInv, UNCHANGED <<requires, added, added_filter_sets, stack, sorting>>,
           chain' \in Nat, active' \in [FilterSet -> BOOLEAN], loaded' \subseteq FilterSet, at' \in Nat,
           stage' \in {"libraries", "config", InvokeSet, DebuggerSet, "load", "running", "shutdown", "crashed"},
           stage # "crashed", StageInv', LoadedInv'
    PROVE  IInv'
<1>1. Sorter!IInv'
  BY IdleInv DEF IInv
<1>2. TypeOK'
  BY DEF IInv, TypeOK
<1>3. RequiresInv'
  BY DEF IInv, RequiresInv, Requires, After, sorting
<1>4. StackInv' /\ Entered' = Entered
  <2>1. Entered' = Entered
    BY DEF Entered
  <2>2. Called' = Called
    BY DEF Called, Frame
  <2> QED
    BY <2>1, <2>2 DEF IInv, StackInv
<1>5. ListInv'
  BY <1>4 DEF IInv, ListInv, Requires
<1> QED
  BY <1>1, <1>2, <1>3, <1>4, <1>5 DEF IInv

\* Until the loaders run, nothing is loaded.
LEMMA NotLoaded ==
    ASSUME IInv, stage \notin {"load", "running", "shutdown"}
    PROVE  loaded = {} /\ at = 1
<1>1. PICK k \in 0..Len(added_filter_sets) :
          loaded = {added_filter_sets[j] : j \in 1..k} /\ k = 0 /\ at = 1
  BY DEF IInv, LoadedInv
<1> QED
  BY <1>1

\* ... which is the beginning of the list, of length 0.
LEMMA NothingLoaded ==
    ASSUME loaded' = {}, Len(added_filter_sets') \in Nat,
           stage' \in {"load"} => at' = 1,
           stage' # "running",
           stage' = "shutdown" => at' = Len(added_filter_sets'),
           stage' \notin {"load", "running", "shutdown"} => at' = 1
    PROVE  LoadedInv'
<1>1. 0 \in 0..Len(added_filter_sets') /\ loaded' = {added_filter_sets'[j] : j \in 1..0}
  OBVIOUS
<1> QED
  BY <1>1 DEF LoadedInv

\* The first call of filter_set_add.
LEMMA PushInv ==
    ASSUME IInv, stack = <<>>, stage \in {"config", InvokeSet}, pc = "register",
           stage' \in {"config", InvokeSet, DebuggerSet}, chain' \in Nat,
           NEW s \in FilterSet, NEW act \in BOOLEAN, stack' = <<Call(s, act)>>,
           UNCHANGED <<libraries, added, added_filter_sets, active, loaded, at, sorting>>
    PROVE  IInv'
<1> USE DEF InvokeSet, DebuggerSet
<1>1. Sorter!IInv' /\ pc' = "register"
  BY IdleInv DEF IInv, sorting
<1>2. /\ Len(stack') = 1 /\ stack'[1] = Call(s, act)
      /\ stack' \in Seq([set : FilterSet, activate : BOOLEAN, next : Nat \ {0}])
  <2>1. Call(s, act) \in [set : FilterSet, activate : BOOLEAN, next : Nat \ {0}]
    BY DEF Call
  <2> QED
    BY <2>1
<1>3. TypeOK'
  BY <1>2 DEF IInv, TypeOK, libraries
<1>4. RequiresInv'
  BY DEF IInv, RequiresInv, Requires, After, sorting, libraries
<1>5. loaded = {} /\ at = 1
  BY NotLoaded
<1>6. StageInv'
  BY <1>1, <1>5 DEF StageInv
<1>7. Entered' = {}
  BY <1>2 DEF Entered, Call
<1>8. StackInv'
  BY <1>2, <1>7 DEF StackInv
<1>9. ListInv'
  <2>1. Entered = {}
    BY NoCallsNow
  <2> QED
    BY <1>7, <2>1 DEF IInv, ListInv, Requires, libraries
<1>10. LoadedInv'
  BY <1>5, NothingLoaded, StackFacts
<1> QED
  BY <1>1, <1>3, <1>4, <1>6, <1>8, <1>9, <1>10 DEF IInv

\* The registration ends with nothing added.
LEMMA RegisteredInv == ASSUME IInv, Registered PROVE IInv'
<1>1. loaded = {} /\ at = 1 /\ pc = "register" /\ stack = <<>>
  BY LibrariesFacts DEF Registered
<1>2. StageInv'
  BY <1>1 DEF Registered, StageInv, sorting, InvokeSet, DebuggerSet
<1>3. LoadedInv'
  BY <1>1, NothingLoaded, StackFacts DEF Registered
<1> QED
  BY <1>2, <1>3, QuietInv DEF Registered, IInv, TypeOK, libraries

\* An item of the chain is added, or skipped.
LEMMA ConfigureInv ==
    ASSUME IInv, NEW s \in FilterSet, NEW act \in BOOLEAN, Configure(s, act) PROVE IInv'
<1>1. pc = "register" /\ stage = "config" /\ stage' = "config" /\ stack = <<>>
  BY DEF Configure, IInv, StageInv
<1>2. chain' \in Nat
  BY DEF Configure, IInv, TypeOK
<1>3. CASE s \in known
  BY <1>1, <1>2, <1>3, PushInv DEF Configure
<1>4. CASE s \notin known
  <2>1. stack' = stack
    BY <1>1, <1>4 DEF Configure
  <2>2. loaded = {} /\ at = 1
    BY <1>1, NotLoaded DEF InvokeSet, DebuggerSet
  <2>3. StageInv'
    BY <1>1, <2>1, <2>2 DEF Configure, StageInv, sorting
  <2>4. LoadedInv'
    BY <1>1, <2>2, NothingLoaded, StackFacts DEF Configure
  <2> QED
    BY <1>1, <1>2, <2>1, <2>3, <2>4, QuietInv DEF Configure, IInv, TypeOK, libraries
<1> QED
  BY <1>3, <1>4

\* The two that are always added, or else the program ends.
LEMMA AlwaysInv ==
    ASSUME IInv, stack = <<>>, stage \in {"config", InvokeSet}, pc = "register",
           NEW s \in {InvokeSet, DebuggerSet}, Always(s),
           UNCHANGED <<chain, libraries, added, added_filter_sets, active, loaded, sorting>>
    PROVE  IInv'
<1> USE DEF InvokeSet, DebuggerSet
<1>1. loaded = {} /\ at = 1
  BY NotLoaded
<1>2. chain' \in Nat /\ s \in FilterSet
  BY NamesAssumption DEF IInv, TypeOK
<1>3. CASE s \in known
  BY <1>2, <1>3, PushInv DEF Always
<1>4. CASE s \notin known
  <2>1. stage' = "shutdown" /\ at' = Len(added_filter_sets) /\ stack' = stack
    BY <1>4 DEF Always
  <2>2. StageInv'
    BY <1>1, <2>1 DEF StageInv, sorting
  <2>3. LoadedInv'
    BY <1>1, <2>1, NothingLoaded, StackFacts
  <2>4. at' \in Nat
    BY <2>1, StackFacts
  <2> QED
    BY <1>2, <2>1, <2>2, <2>3, <2>4, QuietInv DEF IInv, TypeOK, libraries
<1> QED
  BY <1>3, <1>4

\* That is what AddInvoke and AddDebugger do.
LEMMA AddAlwaysInv == ASSUME IInv, AddInvoke \/ AddDebugger PROVE IInv'
<1>1. CASE AddInvoke
  <2>1. pc = "register"
    BY <1>1 DEF AddInvoke, IInv, StageInv
  <2> QED
    BY <1>1, <2>1, AlwaysInv DEF AddInvoke
<1>2. CASE AddDebugger
  BY <1>2, AlwaysInv DEF AddDebugger
<1> QED
  BY <1>1, <1>2
-----------------------------------------------------------------------------
\* What the positions of the list hold, and what the loaders and unloaders made of it.
LEMMA LoadInv == ASSUME IInv, Load PROVE IInv'
<1>1. /\ stage = "load" /\ at <= Len(added_filter_sets) /\ pc = "done" /\ pc' = "done" /\ stack = <<>>
      /\ UNCHANGED <<chain, libraries, added, added_filter_sets, active, stack, sorting>>
  BY DEF Load, IInv, StageInv, sorting, InvokeSet, DebuggerSet
<1>2. PICK k \in 0..Len(added_filter_sets) : loaded = {added_filter_sets[j] : j \in 1..k} /\ at = k + 1
  BY <1>1 DEF IInv, LoadedInv
<1>3. Len(added_filter_sets) \in Nat /\ added_filter_sets \in Seq(FilterSet)
  BY StackFacts
<1>4. added_filter_sets[at] \in FilterSet
  BY <1>1, <1>2, <1>3
<1>5. \/ loaded' = loaded \cup {added_filter_sets[at]} /\ at' = at + 1 /\ stage' = "load"
      \/ loaded' = loaded /\ at' = Len(added_filter_sets) /\ stage' = "shutdown"
  BY <1>1 DEF Load
<1>6. StageInv'
  BY <1>1, <1>5 DEF StageInv, InvokeSet, DebuggerSet
<1>7. LoadedInv'
  <2>1. CASE loaded' = loaded \cup {added_filter_sets[at]} /\ at' = at + 1 /\ stage' = "load"
    <3>1. k + 1 \in 0..Len(added_filter_sets) /\ at' = (k + 1) + 1
      BY <1>1, <1>2, <1>3, <2>1
    <3>2. loaded' = {added_filter_sets[j] : j \in 1..(k + 1)}
      <4>1. \A j \in 1..(k + 1) : j \in 1..k \/ j = k + 1
        BY <1>2
      <4>2. 1..k \subseteq 1..(k + 1) /\ k + 1 \in 1..(k + 1)
        BY <1>2
      <4> QED
        BY <1>2, <2>1, <4>1, <4>2
    <3> QED
      BY <1>1, <2>1, <3>1, <3>2 DEF LoadedInv
  <2>2. CASE loaded' = loaded /\ at' = Len(added_filter_sets) /\ stage' = "shutdown"
    <3>1. k <= at'
      BY <1>2, <1>3, <2>2
    <3> QED
      BY <1>1, <1>2, <1>3, <2>2, <3>1 DEF LoadedInv
  <2> QED
    BY <1>5, <2>1, <2>2
<1>8. loaded' \subseteq FilterSet /\ at' \in Nat
  <2>1. loaded \subseteq FilterSet /\ at \in Nat
    BY DEF IInv, TypeOK
  <2>2. at + 1 \in Nat /\ Len(added_filter_sets) \in Nat
    BY <1>3, <2>1
  <2>3. loaded' \subseteq FilterSet
    BY <1>4, <1>5, <2>1
  <2> QED
    BY <1>5, <2>2, <2>3
<1> QED
  BY <1>1, <1>5, <1>6, <1>7, <1>8, QuietInv DEF IInv, TypeOK, libraries

\* The loaders are through.
LEMMA LoadedEndInv == ASSUME IInv, Loaded PROVE IInv'
<1>1. /\ stage = "load" /\ stage' = "running" /\ at > Len(added_filter_sets) /\ pc = "done" /\ pc' = "done"
      /\ stack = <<>>
      /\ UNCHANGED <<chain, libraries, added, added_filter_sets, active, stack, loaded, at, sorting>>
  BY DEF Loaded, IInv, StageInv, sorting, InvokeSet, DebuggerSet
<1>2. PICK k \in 0..Len(added_filter_sets) : loaded = {added_filter_sets[j] : j \in 1..k} /\ at = k + 1
  BY <1>1 DEF IInv, LoadedInv
<1>3. StageInv'
  BY <1>1 DEF StageInv, InvokeSet, DebuggerSet
<1>4. LoadedInv'
  BY <1>1, <1>2 DEF LoadedInv
<1> QED
  BY <1>1, <1>3, <1>4, QuietInv DEF IInv, TypeOK, libraries

\* The shutdown starts at the end of the list.
LEMMA ExitInv == ASSUME IInv, Exit PROVE IInv'
<1>1. /\ stage = "running" /\ stage' = "shutdown" /\ at' = Len(added_filter_sets) /\ pc = "done" /\ pc' = "done"
      /\ stack = <<>>
      /\ UNCHANGED <<chain, libraries, added, added_filter_sets, active, stack, loaded, sorting>>
  BY DEF Exit, IInv, StageInv, sorting, InvokeSet, DebuggerSet
<1>2. PICK k \in 0..Len(added_filter_sets) : loaded = {added_filter_sets[j] : j \in 1..k}
  BY DEF IInv, LoadedInv
<1>3. Len(added_filter_sets) \in Nat
  BY StackFacts
<1>4. StageInv'
  BY <1>1 DEF StageInv, InvokeSet, DebuggerSet
<1>5. LoadedInv'
  <2>1. k <= at' /\ at' <= Len(added_filter_sets)
    BY <1>1, <1>2, <1>3
  <2> QED
    BY <1>1, <1>2, <2>1 DEF LoadedInv
<1> QED
  BY <1>1, <1>3, <1>4, <1>5, QuietInv DEF IInv, TypeOK, libraries

(* The list backwards: what goes is the last that is loaded, or comes after it. *)
LEMMA FreeInv == ASSUME IInv, Free PROVE IInv'
<1>0. PICK s : s = added_filter_sets[at]
  OBVIOUS
<1>1. /\ stage = "shutdown" /\ stage' = "shutdown" /\ at >= 1 /\ at' = at - 1 /\ loaded' = loaded \ {s}
      /\ active' = [active EXCEPT ![s] = @ /\ s \notin loaded]
      /\ UNCHANGED <<chain, libraries, added, added_filter_sets, stack, sorting>>
  BY <1>0 DEF Free
<1>2. PICK k \in 0..Len(added_filter_sets) :
          loaded = {added_filter_sets[j] : j \in 1..k} /\ k <= at /\ at <= Len(added_filter_sets)
  BY <1>1 DEF IInv, LoadedInv
<1>3. /\ Len(added_filter_sets) \in Nat /\ added_filter_sets \in Seq(FilterSet) /\ at \in Nat
      /\ DOMAIN added_filter_sets = 1..Len(added_filter_sets) /\ IsInjective(added_filter_sets)
  BY StackFacts DEF IInv, TypeOK
<1>4. s \in FilterSet /\ active' \in [FilterSet -> BOOLEAN]
  <2>1. s \in FilterSet
    BY <1>0, <1>1, <1>2, <1>3
  <2>2. active \in [FilterSet -> BOOLEAN]
    BY DEF IInv, TypeOK
  <2> QED
    BY <1>1, <2>1, <2>2
<1>5. StageInv'
  BY <1>1 DEF IInv, StageInv, sorting, InvokeSet, DebuggerSet
<1>6. LoadedInv'
  <2>1. ASSUME NEW j \in 1..k, added_filter_sets[j] = s PROVE j = at
    <3>1. j \in DOMAIN added_filter_sets /\ at \in DOMAIN added_filter_sets
      BY <1>1, <1>2, <1>3
    <3> QED
      BY <1>0, <1>3, <2>1, <3>1 DEF IsInjective
  <2>2. CASE k < at
    <3>1. loaded' = loaded
      BY <1>1, <1>2, <1>3, <2>1, <2>2
    <3>2. k <= at' /\ at' <= Len(added_filter_sets)
      BY <1>1, <1>2, <1>3, <2>2
    <3> QED
      BY <1>1, <1>2, <3>1, <3>2 DEF LoadedInv
  <2>3. CASE k = at
    <3>1. /\ k - 1 \in 0..Len(added_filter_sets) /\ k - 1 <= at' /\ at' <= Len(added_filter_sets)
      BY <1>1, <1>2, <1>3, <2>3
    <3>2. loaded' = {added_filter_sets[j] : j \in 1..(k - 1)}
      <4>1. \A j \in 1..k : j \in 1..(k - 1) \/ j = at
        BY <1>2, <2>3
      <4>2. 1..(k - 1) \subseteq 1..k /\ at \notin 1..(k - 1)
        BY <1>2, <2>3
      <4> QED
        BY <1>0, <1>1, <1>2, <2>1, <4>1, <4>2
    <3> QED
      BY <1>1, <3>1, <3>2 DEF LoadedInv
  <2> QED
    BY <1>2, <1>3, <2>2, <2>3
<1>7. loaded' \subseteq FilterSet /\ at' \in Nat
  BY <1>1, <1>3 DEF IInv, TypeOK
<1> QED
  BY <1>1, <1>4, <1>5, <1>6, <1>7, QuietInv DEF IInv, TypeOK, libraries
-----------------------------------------------------------------------------
\* A dependency is an order too.
LEMMA DependsInv ==
    ASSUME IInv, NEW base \in FilterSet, NEW dep \in FilterSet, Depends(base, dep) PROVE IInv'
<1>1. requires' \in {requires, [requires EXCEPT ![base] = Append(@, dep)]} /\ Sorter!RegisterOrder(dep, base)
  BY DEF Depends
<1>2. stage = "libraries" /\ UNCHANGED <<stage, chain, added, added_filter_sets, active, stack, loaded, at>>
  BY DEF Depends, Sorter!RegisterOrder
<1> QED
  BY <1>1, <1>2, RegistrationInv, Zenon

\* An order alone.
LEMMA OrderInv ==
    ASSUME IInv, NEW before \in FilterSet, NEW after \in FilterSet, Order(before, after) PROVE IInv'
<1>1. requires' \in {requires, [requires EXCEPT ![after] = Append(@, before)]} /\ Sorter!RegisterOrder(before, after)
  BY DEF Order, libraries
<1>2. stage = "libraries" /\ UNCHANGED <<stage, chain, added, added_filter_sets, active, stack, loaded, at>>
  BY DEF Order, Sorter!RegisterOrder
<1> QED
  BY <1>1, <1>2, RegistrationInv, Zenon
-----------------------------------------------------------------------------
(* What a call of filter_set_add can rely on. *)
LEMMA FrameFacts ==
    ASSUME IInv, stack # <<>>
    PROVE  /\ Len(stack) \in Nat /\ Len(stack) >= 1 /\ Frame = stack[1]
           /\ Frame \in [set : FilterSet, activate : BOOLEAN, next : Nat \ {0}]
           /\ Frame.set \in FilterSet /\ Frame.activate \in BOOLEAN /\ Frame.next \in Nat \ {0}
           /\ requires[Frame.set] \in Seq(FilterSet)
           /\ Tail(stack) \in Seq([set : FilterSet, activate : BOOLEAN, next : Nat \ {0}])
           /\ Len(Tail(stack)) = Len(stack) - 1
           /\ \A x \in 1..(Len(stack) - 1) : Tail(stack)[x] = stack[x + 1]
           /\ stage \in {"config", InvokeSet, DebuggerSet} /\ pc = "register"
           /\ loaded = {} /\ at = 1
<1>1. /\ Len(stack) \in Nat /\ requires \in [FilterSet -> Seq(FilterSet)]
      /\ \A x \in 1..Len(stack) :
             stack[x].set \in FilterSet /\ stack[x].activate \in BOOLEAN /\ stack[x].next \in Nat \ {0}
  BY StackFacts
<1>2. PICK F : F = [set : FilterSet, activate : BOOLEAN, next : Nat \ {0}]
  OBVIOUS
<1>3. stack \in Seq(F)
  BY <1>2, StackFacts
<1>4. /\ Len(stack) >= 1 /\ Frame = stack[1] /\ Frame \in F /\ Tail(stack) \in Seq(F)
      /\ Len(Tail(stack)) = Len(stack) - 1
      /\ \A x \in 1..(Len(stack) - 1) : Tail(stack)[x] = stack[x + 1]
  BY <1>3, TailFacts DEF Frame
<1>5. stage \in {"config", InvokeSet, DebuggerSet} /\ pc = "register"
  BY DEF IInv, StageInv
<1>6. loaded = {} /\ at = 1
  BY <1>5, NotLoaded DEF InvokeSet, DebuggerSet
<1>7. 1 \in 1..Len(stack)
  BY <1>1, <1>4
<1>8. Frame.set \in FilterSet /\ Frame.activate \in BOOLEAN /\ Frame.next \in Nat \ {0}
  BY <1>1, <1>4, <1>7
<1> QED
  BY <1>1, <1>2, <1>4, <1>5, <1>6, <1>8

(* A step of filter_set_add leaves everything else alone. *)
LEMMA CallInv ==
    ASSUME IInv, stack # <<>>, UNCHANGED <<stage, chain, libraries, loaded, at, sorting>>,
           stack' \in Seq([set : FilterSet, activate : BOOLEAN, next : Nat \ {0}]),
           added' \subseteq FilterSet, active' \in [FilterSet -> BOOLEAN],
           added_filter_sets' \in Seq(FilterSet), IsInjective(added_filter_sets'),
           StackInv', ListInv'
    PROVE  IInv'
<1>1. stage \in {"config", InvokeSet, DebuggerSet} /\ pc = "register" /\ loaded = {} /\ at = 1
  BY FrameFacts
<1>2. registered \in Nat /\ order \in [FilterSet -> Seq(FilterSet)]
  BY SorterFacts DEF IInv
<1>3. Sorter!IInv'
  BY <1>1, <1>2, RegisterInv DEF IInv, sorting
<1>4. TypeOK'
  BY DEF IInv, TypeOK, libraries
<1>5. RequiresInv'
  BY DEF IInv, RequiresInv, Requires, After, sorting, libraries
<1>6. StageInv'
  BY <1>1 DEF StageInv, sorting, InvokeSet, DebuggerSet
<1>7. LoadedInv'
  <2>1. Len(added_filter_sets') \in Nat
    OBVIOUS
  <2> QED
    BY <1>1, <2>1, NothingLoaded DEF InvokeSet, DebuggerSet
<1> QED
  BY <1>3, <1>4, <1>5, <1>6, <1>7 DEF IInv

(* The first call moves on: the others stay where they are. *)
LEMMA EnterInv == ASSUME IInv, Enter PROVE IInv'
<1>1. /\ stack # <<>> /\ Frame.next = 1 /\ Frame.set \notin added /\ added' = added \cup {Frame.set}
      /\ stack' = <<[Frame EXCEPT !.next = 2]>> \o Tail(stack)
      /\ UNCHANGED <<stage, chain, libraries, added_filter_sets, active, loaded, at, sorting, requires>>
  BY DEF Enter, libraries
<1> DEFINE F == [set : FilterSet, activate : BOOLEAN, next : Nat \ {0}]
<1>2. /\ Len(stack) \in Nat /\ Len(stack) >= 1 /\ Frame = stack[1] /\ Frame \in F
      /\ Frame.set \in FilterSet /\ requires[Frame.set] \in Seq(FilterSet) /\ Tail(stack) \in Seq(F)
      /\ Len(Tail(stack)) = Len(stack) - 1
      /\ \A x \in 1..(Len(stack) - 1) : Tail(stack)[x] = stack[x + 1]
  BY <1>1, FrameFacts
<1>3. /\ stack' \in Seq(F) /\ Len(stack') = Len(stack) /\ stack'[1] = [Frame EXCEPT !.next = 2]
      /\ \A x \in 2..Len(stack) : stack'[x] = stack[x]
  <2>1. PICK e : e = [Frame EXCEPT !.next = 2]
    OBVIOUS
  <2>2. e \in F
    BY <1>2, <2>1
  <2> HIDE DEF F
  <2>3. /\ <<e>> \o Tail(stack) \in Seq(F) /\ Len(<<e>> \o Tail(stack)) = Len(Tail(stack)) + 1
        /\ (<<e>> \o Tail(stack))[1] = e
        /\ \A x \in 2..(Len(Tail(stack)) + 1) : (<<e>> \o Tail(stack))[x] = Tail(stack)[x - 1]
    BY <1>2, <2>2, PrependFacts
  <2>4. ASSUME NEW x \in 2..Len(stack) PROVE stack'[x] = stack[x]
    <3>1. x - 1 \in 1..(Len(stack) - 1) /\ (x - 1) + 1 = x /\ x \in 2..(Len(Tail(stack)) + 1)
      BY <1>2
    <3> QED
      BY <1>1, <1>2, <2>1, <2>3, <3>1
  <2> QED
    BY <1>1, <1>2, <2>1, <2>3, <2>4
<1>4. stack'[1].set = Frame.set /\ stack'[1].next = 2
  BY <1>2, <1>3
<1> HIDE DEF F
<1>5. \A x \in 1..Len(stack) : x > 1 => x \in Entered
  BY DEF IInv, StackInv
<1>6. Entered = 2..Len(stack) /\ Entered' = 1..Len(stack)
  <2>1. 1 \notin Entered
    BY <1>1, <1>2 DEF Entered
  <2>2. Entered = 2..Len(stack)
    BY <1>2, <1>5, <2>1 DEF Entered
  <2>3. \A x \in 2..Len(stack) : stack'[x].next > 1
    BY <1>3, <2>2 DEF Entered
  <2>4. \A x \in 1..Len(stack) : x = 1 \/ x \in 2..Len(stack)
    BY <1>2
  <2>5. \A x \in 1..Len(stack) : stack'[x].next > 1
    BY <1>4, <2>3, <2>4
  <2> QED
    BY <1>3, <2>2, <2>5 DEF Entered
<1>7. ASSUME NEW x \in 2..Len(stack)
      PROVE  /\ stack[x].set \in added \ ToSet(added_filter_sets)
             /\ stack[x].next - 2 <= Len(requires[stack[x].set])
             /\ \A k \in 1..(stack[x].next - 2) : requires[stack[x].set][k] \in added'
  BY <1>1, <1>6 DEF IInv, StackInv, Called
<1>9. \A x \in 1..Len(stack) : x = 1 \/ x \in 2..Len(stack)
  BY <1>2
<1>10. ToSet(added_filter_sets) \subseteq added
  BY DEF IInv, ListInv
<1>11. StackInv'
  <2>1. \A x \in 1..Len(stack') : x > 1 => x \in Entered'
    BY <1>3, <1>6
  <2>2. ASSUME NEW x \in Entered', NEW y \in Entered', stack'[x].set = stack'[y].set PROVE x = y
    <3>1. CASE x = 1 /\ y \in 2..Len(stack)
      BY <1>1, <1>3, <1>4, <1>7, <2>2, <3>1
    <3>2. CASE y = 1 /\ x \in 2..Len(stack)
      BY <1>1, <1>3, <1>4, <1>7, <2>2, <3>2
    <3>3. CASE x \in 2..Len(stack) /\ y \in 2..Len(stack)
      BY <1>3, <1>6, <2>2, <3>3 DEF IInv, StackInv
    <3> QED
      BY <1>6, <1>9, <3>1, <3>2, <3>3
  <2>3. ASSUME NEW x \in Entered'
        PROVE  /\ stack'[x].set \in added' \ ToSet(added_filter_sets')
               /\ stack'[x].next - 2 <= Len(requires'[stack'[x].set])
               /\ \A k \in 1..(stack'[x].next - 2) : requires'[stack'[x].set][k] \in added'
    <3>1. CASE x = 1
      <4>1. stack'[x].set \in added' \ ToSet(added_filter_sets')
        BY <1>1, <1>4, <1>10, <3>1
      <4>2. stack'[x].next - 2 = 0 /\ Len(requires'[stack'[x].set]) \in Nat
        BY <1>1, <1>2, <1>4, <3>1
      <4> QED
        BY <4>1, <4>2
    <3>2. CASE x \in 2..Len(stack)
      BY <1>1, <1>3, <1>7, <3>2
    <3> QED
      BY <1>6, <1>9, <3>1, <3>2
  <2> QED
    BY <2>1, <2>2, <2>3 DEF StackInv
<1>12. ListInv'
  <2>1. {stack'[x].set : x \in Entered'} = {stack[x].set : x \in Entered} \cup {Frame.set}
    <3>1. \A x \in 2..Len(stack) : stack'[x].set = stack[x].set
      BY <1>3
    <3>2. 1 \in 1..Len(stack) /\ 2..Len(stack) \subseteq 1..Len(stack)
      BY <1>2
    <3> QED
      BY <1>4, <1>6, <1>9, <3>1, <3>2
  <2> QED
    BY <1>1, <2>1 DEF IInv, ListInv, Requires
<1>13. /\ added_filter_sets' \in Seq(FilterSet) /\ IsInjective(added_filter_sets')
       /\ added' \subseteq FilterSet /\ active' \in [FilterSet -> BOOLEAN]
  BY <1>1, <1>2, StackFacts DEF IInv, TypeOK
<1> QED
  BY <1>1, <1>3, <1>11, <1>12, <1>13, CallInv DEF F

(* A call returns: those behind it move up by one. *)
LEMMA ReturnFacts ==
    ASSUME IInv, stack # <<>>, Return
    PROVE  /\ stack' \in Seq([set : FilterSet, activate : BOOLEAN, next : Nat \ {0}])
           /\ Len(stack') = Len(stack) - 1 /\ Len(stack) \in Nat /\ Len(stack) >= 1
           /\ \A x \in 1..Len(stack') : stack'[x] = stack[x + 1] /\ x + 1 \in Entered /\ x \in Entered'
           /\ Entered' = 1..Len(stack')
           /\ \A x \in Entered : x = 1 \/ (x - 1 \in 1..Len(stack') /\ stack'[x - 1] = stack[x])
<1>1. /\ Len(stack) \in Nat /\ Len(stack) >= 1
      /\ Tail(stack) \in Seq([set : FilterSet, activate : BOOLEAN, next : Nat \ {0}])
      /\ Len(Tail(stack)) = Len(stack) - 1
      /\ \A x \in 1..(Len(stack) - 1) : Tail(stack)[x] = stack[x + 1]
  BY FrameFacts
<1>2. stack' = Tail(stack)
  BY DEF Return
<1>3. Len(stack') = Len(stack) - 1
  BY <1>1, <1>2
<1>4. \A x \in 1..Len(stack') : stack'[x] = stack[x + 1] /\ x + 1 \in Entered /\ x \in Entered'
  <2> SUFFICES ASSUME NEW x \in 1..Len(stack')
               PROVE  stack'[x] = stack[x + 1] /\ x + 1 \in Entered /\ x \in Entered'
    OBVIOUS
  <2>1. x \in 1..(Len(stack) - 1) /\ x + 1 \in 1..Len(stack) /\ x + 1 > 1
    BY <1>1, <1>3
  <2>2. stack'[x] = stack[x + 1]
    BY <1>1, <1>2, <2>1
  <2>3. x + 1 \in Entered
    BY <2>1 DEF IInv, StackInv
  <2>4. stack'[x].next > 1
    BY <2>2, <2>3 DEF Entered
  <2> QED
    BY <2>2, <2>3, <2>4 DEF Entered
<1>5. Entered' = 1..Len(stack')
  BY <1>4 DEF Entered
<1>6. ASSUME NEW x \in Entered PROVE x = 1 \/ (x - 1 \in 1..Len(stack') /\ stack'[x - 1] = stack[x])
  <2>1. x \in 1..Len(stack)
    BY DEF Entered
  <2>2. CASE x # 1
    <3>1. x - 1 \in 1..Len(stack') /\ (x - 1) + 1 = x
      BY <1>1, <1>3, <2>1, <2>2
    <3> QED
      BY <1>4, <3>1
  <2> QED
    BY <2>2
<1> QED
  BY <1>1, <1>2, <1>3, <1>4, <1>5, <1>6

(* What is left of the invariant of the calls then, for the list as it is. *)
LEMMA ReturnInv ==
    ASSUME IInv, stack # <<>>, Return, UNCHANGED <<libraries, added>>, Called \subseteq added,
           \A x \in 1..Len(stack') : stack'[x].set \notin ToSet(added_filter_sets')
    PROVE  StackInv'
<1>1. /\ Len(stack') = Len(stack) - 1 /\ Len(stack) \in Nat
      /\ \A x \in 1..Len(stack') : stack'[x] = stack[x + 1] /\ x + 1 \in Entered /\ x \in Entered'
      /\ Entered' = 1..Len(stack')
  BY ReturnFacts
<1>2. requires' = requires
  BY DEF libraries
<1>3. ASSUME NEW x \in Entered', NEW y \in Entered', stack'[x].set = stack'[y].set PROVE x = y
  <2>1. stack[x + 1].set = stack[y + 1].set /\ x + 1 \in Entered /\ y + 1 \in Entered
    BY <1>1, <1>3
  <2>2. x + 1 = y + 1
    BY <2>1 DEF IInv, StackInv
  <2> QED
    BY <1>1, <2>2
<1>4. ASSUME NEW x \in Entered'
      PROVE  /\ stack'[x].set \in added' \ ToSet(added_filter_sets')
             /\ stack'[x].next - 2 <= Len(requires'[stack'[x].set])
             /\ \A k \in 1..(stack'[x].next - 2) : requires'[stack'[x].set][k] \in added'
  <2>1. stack'[x] = stack[x + 1] /\ x + 1 \in Entered /\ x \in 1..Len(stack')
    BY <1>1
  <2> QED
    BY <1>2, <2>1 DEF IInv, StackInv
<1> QED
  BY <1>1, <1>3, <1>4 DEF StackInv

\* A call for what was added does nothing.
LEMMA AlreadyAddedInv == ASSUME IInv, AlreadyAdded PROVE IInv'
<1>1. /\ stack # <<>> /\ Frame.next = 1 /\ Frame.set \in added /\ Return
      /\ UNCHANGED <<stage, chain, libraries, added, added_filter_sets, active, loaded, at, sorting, requires>>
  BY DEF AlreadyAdded, libraries
<1>2. /\ stack' \in Seq([set : FilterSet, activate : BOOLEAN, next : Nat \ {0}])
      /\ \A x \in 1..Len(stack') : stack'[x] = stack[x + 1] /\ x + 1 \in Entered /\ x \in Entered'
      /\ Entered' = 1..Len(stack')
      /\ \A x \in Entered : x = 1 \/ (x - 1 \in 1..Len(stack') /\ stack'[x - 1] = stack[x])
  BY <1>1, ReturnFacts
<1>3. Called \subseteq added
  BY <1>1 DEF Called
<1>4. \A x \in 1..Len(stack') : stack'[x].set \notin ToSet(added_filter_sets')
  <2> SUFFICES ASSUME NEW x \in 1..Len(stack') PROVE stack'[x].set \notin ToSet(added_filter_sets)
    BY <1>1
  <2>1. stack'[x] = stack[x + 1] /\ x + 1 \in Entered
    BY <1>2
  <2> QED
    BY <2>1 DEF IInv, StackInv
<1>5. StackInv'
  BY <1>1, <1>3, <1>4, ReturnInv
<1>6. ListInv'
  <2>1. 1 \notin Entered
    BY <1>1, FrameFacts DEF Entered
  <2>2. \A x \in Entered : x - 1 \in Entered' /\ stack'[x - 1] = stack[x]
    BY <1>2, <2>1
  <2>3. {stack'[x].set : x \in Entered'} = {stack[x].set : x \in Entered}
    <3>1. \A x \in Entered : stack[x].set \in {stack'[y].set : y \in Entered'}
      BY <2>2
    <3>2. \A x \in Entered' : stack'[x].set \in {stack[y].set : y \in Entered}
      BY <1>2
    <3> QED
      BY <3>1, <3>2
  <2> QED
    BY <1>1, <2>3 DEF IInv, ListInv, Requires
<1>7. /\ added_filter_sets' \in Seq(FilterSet) /\ IsInjective(added_filter_sets')
      /\ added' \subseteq FilterSet /\ active' \in [FilterSet -> BOOLEAN]
  BY <1>1, StackFacts DEF IInv, TypeOK
<1> QED
  BY <1>1, <1>2, <1>5, <1>6, <1>7, CallInv

(* All that is required was added: the filter-set goes to the end of the list. *)
LEMMA AddedInv == ASSUME IInv, Added PROVE IInv'
<1>1. /\ stack # <<>> /\ Frame.next - 1 > Len(requires[Frame.set]) /\ Return
      /\ added_filter_sets' = Append(added_filter_sets, Frame.set)
      /\ active' = [active EXCEPT ![Frame.set] = Frame.activate]
      /\ UNCHANGED <<stage, chain, libraries, added, loaded, at, sorting, requires>>
  BY DEF Added, libraries
<1>2. /\ stack' \in Seq([set : FilterSet, activate : BOOLEAN, next : Nat \ {0}])
      /\ \A x \in 1..Len(stack') : stack'[x] = stack[x + 1] /\ x + 1 \in Entered /\ x \in Entered'
      /\ Entered' = 1..Len(stack')
      /\ \A x \in Entered : x = 1 \/ (x - 1 \in 1..Len(stack') /\ stack'[x - 1] = stack[x])
  BY <1>1, ReturnFacts
<1>3. /\ Len(stack) \in Nat /\ Len(stack) >= 1 /\ Frame = stack[1]
      /\ Frame.set \in FilterSet /\ Frame.activate \in BOOLEAN /\ Frame.next \in Nat \ {0}
      /\ requires[Frame.set] \in Seq(FilterSet) /\ stage \in {"config", InvokeSet, DebuggerSet}
  BY <1>1, FrameFacts
<1>4. Len(requires[Frame.set]) \in Nat /\ DOMAIN requires[Frame.set] = 1..Len(requires[Frame.set])
  BY <1>3
<1>5. Frame.next > 1 /\ Called = {}
  BY <1>1, <1>3, <1>4 DEF Called
<1>6. 1 \in Entered
  BY <1>3, <1>5 DEF Entered
<1>7. /\ Frame.set \in added \ ToSet(added_filter_sets)
      /\ Frame.next - 2 <= Len(requires[Frame.set])
      /\ \A k \in 1..(Frame.next - 2) : requires[Frame.set][k] \in added \cup Called
  BY <1>3, <1>6 DEF IInv, StackInv
<1>8. Requires(Frame.set) \subseteq added
  <2>1. \A m, l \in Nat : m - 1 > l /\ m - 2 <= l => m - 2 = l
    OBVIOUS
  <2>2. Frame.next - 2 = Len(requires[Frame.set])
    BY <1>1, <1>3, <1>4, <1>7, <2>1
  <2> QED
    BY <1>4, <1>5, <1>7, <2>2 DEF Requires, ToSet
<1>9. /\ added_filter_sets' \in Seq(FilterSet) /\ IsInjective(added_filter_sets')
      /\ ToSet(added_filter_sets') = ToSet(added_filter_sets) \cup {Frame.set}
  <2>1. added_filter_sets \in Seq(FilterSet) /\ IsInjective(added_filter_sets)
    BY StackFacts
  <2> QED
    BY <1>1, <1>3, <1>7, <2>1, AppendFacts
<1>10. \A x \in 1..Len(stack') : stack'[x].set \notin ToSet(added_filter_sets')
  <2> SUFFICES ASSUME NEW x \in 1..Len(stack') PROVE stack'[x].set \notin ToSet(added_filter_sets')
    OBVIOUS
  <2>1. stack'[x] = stack[x + 1] /\ x + 1 \in Entered
    BY <1>2
  <2>2. stack[x + 1].set \notin ToSet(added_filter_sets)
    BY <2>1 DEF IInv, StackInv
  <2>3. x + 1 # 1
    OBVIOUS
  <2>4. stack[x + 1].set # Frame.set
    BY <1>3, <1>6, <2>1, <2>3 DEF IInv, StackInv
  <2> QED
    BY <1>9, <2>1, <2>2, <2>4
<1>11. StackInv'
  BY <1>1, <1>5, <1>10, ReturnInv
<1>12. ListInv'
  <2>1. {stack[x].set : x \in Entered} = {stack'[x].set : x \in Entered'} \cup {Frame.set}
    <3>1. \A x \in Entered : x = 1 \/ (x - 1 \in Entered' /\ stack'[x - 1] = stack[x])
      BY <1>2
    <3>2. \A x \in Entered' : x + 1 \in Entered /\ stack'[x] = stack[x + 1]
      BY <1>2
    <3> QED
      BY <1>3, <1>6, <3>1, <3>2
  <2>2. stage # "crashed"
    BY <1>3 DEF InvokeSet, DebuggerSet
  <2>3. /\ ToSet(added_filter_sets) \subseteq added
        /\ added = ToSet(added_filter_sets) \cup {stack[x].set : x \in Entered}
        /\ \A s \in ToSet(added_filter_sets) : Requires(s) \subseteq added
    BY <2>2 DEF IInv, ListInv
  <2>4. \A s : Requires(s)' = Requires(s)
    BY <1>1 DEF Requires
  <2> QED
    BY <1>1, <1>7, <1>8, <1>9, <2>1, <2>3, <2>4 DEF ListInv
<1>13. added' \subseteq FilterSet /\ active' \in [FilterSet -> BOOLEAN]
  BY <1>1, <1>3 DEF IInv, TypeOK
<1> QED
  BY <1>1, <1>2, <1>9, <1>11, <1>12, <1>13, CallInv

(* One more call in front: what it is for is the next that the filter-set behind it
   requires. *)
LEMMA AddKnownInv ==
    ASSUME IInv, AddDependency, requires[Frame.set][Frame.next - 1] \in known PROVE IInv'
<1> DEFINE F == [set : FilterSet, activate : BOOLEAN, next : Nat \ {0}]
           d == requires[Frame.set][Frame.next - 1]
           e == [Frame EXCEPT !.next = @ + 1]
<1>1. /\ stack # <<>> /\ Frame.next > 1 /\ Frame.next - 1 <= Len(requires[Frame.set])
      /\ stack' = <<Call(d, Frame.activate), e>> \o Tail(stack)
      /\ UNCHANGED <<stage, chain, libraries, added, added_filter_sets, active, loaded, at, sorting, requires>>
  BY DEF AddDependency, libraries
<1>2. /\ Len(stack) \in Nat /\ Len(stack) >= 1 /\ Frame = stack[1] /\ Frame \in F
      /\ Frame.set \in FilterSet /\ Frame.activate \in BOOLEAN /\ Frame.next \in Nat \ {0}
      /\ requires[Frame.set] \in Seq(FilterSet) /\ Tail(stack) \in Seq(F)
      /\ Len(Tail(stack)) = Len(stack) - 1
      /\ \A x \in 1..(Len(stack) - 1) : Tail(stack)[x] = stack[x + 1]
      /\ stage \in {"config", InvokeSet, DebuggerSet}
  BY <1>1, FrameFacts
<1>3. d \in FilterSet /\ Len(requires[Frame.set]) \in Nat
  BY <1>1, <1>2
<1>4. e \in F /\ e.set = Frame.set /\ e.next = Frame.next + 1
  BY <1>2
<1>5. Call(d, Frame.activate) \in F /\ Call(d, Frame.activate).set = d /\ Call(d, Frame.activate).next = 1
  BY <1>2, <1>3 DEF Call
<1>6. PICK c : c = Call(d, Frame.activate)
  OBVIOUS
<1>7. PICK f : f = e
  OBVIOUS
<1>8. /\ c \in F /\ c.set = d /\ c.next = 1 /\ f \in F /\ f.set = Frame.set /\ f.next = Frame.next + 1
      /\ stack' = <<c, f>> \o Tail(stack)
  BY <1>1, <1>4, <1>5, <1>6, <1>7
<1> HIDE DEF F, e
<1>9. /\ stack' \in Seq(F) /\ Len(stack') = Len(stack) + 1 /\ stack'[1] = c /\ stack'[2] = f
      /\ \A x \in 3..(Len(stack) + 1) : stack'[x] = stack[x - 1]
  <2>1. /\ stack' \in Seq(F) /\ Len(stack') = Len(Tail(stack)) + 2 /\ stack'[1] = c /\ stack'[2] = f
        /\ \A x \in 3..(Len(Tail(stack)) + 2) : stack'[x] = Tail(stack)[x - 2]
    BY <1>2, <1>8
  <2>2. ASSUME NEW x \in 3..(Len(stack) + 1) PROVE stack'[x] = stack[x - 1]
    <3>1. x \in 3..(Len(Tail(stack)) + 2) /\ x - 2 \in 1..(Len(stack) - 1) /\ (x - 2) + 1 = x - 1
      BY <1>2
    <3> QED
      BY <1>2, <2>1, <3>1
  <2> QED
    BY <1>2, <2>1, <2>2
<1>10. Entered = 1..Len(stack) /\ Entered' = 2..(Len(stack) + 1)
  <2>1. Entered = 1..Len(stack)
    <3>1. \A x \in 1..Len(stack) : x > 1 => x \in Entered
      BY DEF IInv, StackInv
    <3>2. 1 \in Entered
      BY <1>1, <1>2 DEF Entered
    <3>3. \A x \in 1..Len(stack) : x = 1 \/ x > 1
      OBVIOUS
    <3> QED
      BY <3>1, <3>2, <3>3 DEF Entered
  <2>2. ASSUME NEW x \in 2..(Len(stack) + 1) PROVE stack'[x].next > 1
    <3>1. CASE x = 2
      BY <1>2, <1>8, <1>9, <3>1
    <3>2. CASE x # 2
      <4>1. x \in 3..(Len(stack) + 1) /\ x - 1 \in 1..Len(stack)
        BY <1>2, <3>2
      <4> QED
        BY <1>9, <2>1, <4>1 DEF Entered
    <3> QED
      BY <3>1, <3>2
  <2>3. \A x \in 1..(Len(stack) + 1) : x = 1 \/ x \in 2..(Len(stack) + 1)
    BY <1>2
  <2>4. 2..(Len(stack) + 1) \subseteq 1..(Len(stack) + 1) /\ 1 \in 1..(Len(stack) + 1)
    BY <1>2
  <2>5. 1 \notin Entered'
    BY <1>8, <1>9 DEF Entered
  <2> QED
    BY <1>9, <2>1, <2>2, <2>3, <2>4, <2>5 DEF Entered
<1>11. \A x \in 2..(Len(stack) + 1) :
           x - 1 \in 1..Len(stack) /\ stack'[x].set = stack[x - 1].set
           /\ (x = 2 \/ (x # 2 /\ stack'[x] = stack[x - 1]))
  <2> SUFFICES ASSUME NEW x \in 2..(Len(stack) + 1)
               PROVE  x - 1 \in 1..Len(stack) /\ stack'[x].set = stack[x - 1].set
                      /\ (x = 2 \/ (x # 2 /\ stack'[x] = stack[x - 1]))
    OBVIOUS
  <2>1. x - 1 \in 1..Len(stack)
    BY <1>2
  <2>2. CASE x = 2
    BY <1>2, <1>8, <1>9, <2>1, <2>2
  <2>3. CASE x # 2
    BY <1>2, <1>9, <2>1, <2>3
  <2> QED
    BY <2>1, <2>2, <2>3
<1>12. Called = {} /\ Called' = {d}
  <2>1. stack' # <<>> /\ Head(stack') = c
    BY <1>2, <1>9
  <2>2. Called = {}
    BY <1>1, <1>2 DEF Called
  <2>3. PICK b \in FilterSet : b = d
    BY <1>3
  <2>4. c.next = 1 /\ c.set = b
    BY <1>8, <2>3
  <2> HIDE DEF d
  <2>5. Called' = {b}
    BY <2>1, <2>4 DEF Called, Frame
  <2> QED
    BY <2>2, <2>3, <2>5
<1>13. StackInv'
  <2>1. \A x \in 1..Len(stack') : x > 1 => x \in Entered'
    BY <1>2, <1>9, <1>10
  <2>2. ASSUME NEW x \in Entered', NEW y \in Entered', stack'[x].set = stack'[y].set PROVE x = y
    <3>1. x - 1 \in Entered /\ y - 1 \in Entered /\ stack[x - 1].set = stack[y - 1].set
      BY <1>10, <1>11, <2>2
    <3>2. x - 1 = y - 1
      BY <3>1 DEF IInv, StackInv
    <3> QED
      BY <1>10, <3>2
  <2>3. ASSUME NEW x \in Entered'
        PROVE  /\ stack'[x].set \in added' \ ToSet(added_filter_sets')
               /\ stack'[x].next - 2 <= Len(requires'[stack'[x].set])
               /\ \A k \in 1..(stack'[x].next - 2) : requires'[stack'[x].set][k] \in added' \cup Called'
    <3>1. x - 1 \in Entered /\ stack'[x].set = stack[x - 1].set
      BY <1>10, <1>11
    <3>2. /\ stack[x - 1].set \in added \ ToSet(added_filter_sets)
          /\ stack[x - 1].next - 2 <= Len(requires[stack[x - 1].set])
          /\ \A k \in 1..(stack[x - 1].next - 2) : requires[stack[x - 1].set][k] \in added \cup Called
      BY <3>1 DEF IInv, StackInv
    <3>3. CASE x = 2
      <4>1. stack[x - 1] = Frame /\ stack'[x].set = Frame.set /\ stack'[x].next = Frame.next + 1
        BY <1>2, <1>8, <1>9, <3>3
      <4>2. (Frame.next + 1) - 2 = Frame.next - 1 /\ Frame.next - 1 <= Len(requires[Frame.set])
        BY <1>1, <1>2
      <4>3. ASSUME NEW k \in 1..(Frame.next - 1) PROVE requires[Frame.set][k] \in added \cup Called'
        <5>1. CASE k = Frame.next - 1
          BY <1>12, <5>1
        <5>2. CASE k # Frame.next - 1
          <6>1. k \in 1..(Frame.next - 2)
            BY <1>2, <5>2
          <6> QED
            BY <1>12, <3>2, <4>1, <6>1
        <5> QED
          BY <5>1, <5>2
      <4> QED
        BY <1>1, <3>2, <4>1, <4>2, <4>3
    <3>4. CASE x # 2
      <4>1. stack'[x] = stack[x - 1]
        BY <1>10, <1>11, <3>4
      <4> QED
        BY <1>1, <1>12, <3>2, <4>1
    <3> QED
      BY <3>3, <3>4
  <2> QED
    BY <2>1, <2>2, <2>3 DEF StackInv
<1>14. ListInv'
  <2>1. {stack'[x].set : x \in Entered'} = {stack[x].set : x \in Entered}
    <3>1. \A x \in Entered' : x - 1 \in Entered /\ stack'[x].set = stack[x - 1].set
      BY <1>10, <1>11
    <3>2. \A x \in Entered : x + 1 \in Entered' /\ stack'[x + 1].set = stack[x].set
      <4> SUFFICES ASSUME NEW x \in Entered PROVE x + 1 \in Entered' /\ stack'[x + 1].set = stack[x].set
        OBVIOUS
      <4>1. x + 1 \in 2..(Len(stack) + 1) /\ (x + 1) - 1 = x
        BY <1>2, <1>10
      <4> QED
        BY <1>10, <1>11, <4>1
    <3> QED
      BY <3>1, <3>2
  <2> QED
    BY <1>1, <2>1 DEF IInv, ListInv, Requires
<1>15. /\ added_filter_sets' \in Seq(FilterSet) /\ IsInjective(added_filter_sets')
       /\ added' \subseteq FilterSet /\ active' \in [FilterSet -> BOOLEAN]
  BY <1>1, StackFacts DEF IInv, TypeOK
<1> QED
  BY <1>1, <1>9, <1>13, <1>14, <1>15, CallInv DEF F

\* A dependency that is not installed ends the program.
LEMMA AddDependencyInv == ASSUME IInv, AddDependency PROVE IInv'
<1>1. CASE requires[Frame.set][Frame.next - 1] \in known
  BY <1>1, AddKnownInv
<1>2. CASE requires[Frame.set][Frame.next - 1] \notin known
  <2>1. /\ stack # <<>> /\ stage' = "crashed" /\ stack' = <<>>
        /\ UNCHANGED <<chain, libraries, added, added_filter_sets, active, loaded, at, sorting, requires>>
    BY <1>2 DEF AddDependency, libraries
  <2>2. loaded = {} /\ at = 1 /\ stage \in {"config", InvokeSet, DebuggerSet}
    BY <2>1, FrameFacts
  <2>3. Sorter!IInv'
    BY <2>1, IdleInv DEF IInv
  <2>4. TypeOK'
    BY <2>1 DEF IInv, TypeOK
  <2>5. RequiresInv'
    BY <2>1 DEF IInv, RequiresInv, Requires, After, sorting
  <2>6. StageInv'
    BY <2>1, <2>2 DEF StageInv, InvokeSet, DebuggerSet
  <2>7. StackInv'
    BY <2>1, NoCalls
  <2>8. ListInv'
    BY <2>1 DEF IInv, ListInv
  <2>9. LoadedInv'
    BY <2>1, <2>2, NothingLoaded, StackFacts
  <2> QED
    BY <2>3, <2>4, <2>5, <2>6, <2>7, <2>8, <2>9 DEF IInv
<1> QED
  BY <1>1, <1>2
-----------------------------------------------------------------------------
\* The sort moves the list about, with no call under way and nothing loaded.
LEMMA SortStepInv == ASSUME IInv, Sort PROVE IInv'
<1>1. /\ stage \in {InvokeSet, DebuggerSet} /\ stack = <<>> /\ Sorter!Sort
      /\ stage' = IF pc' = "done" THEN "load" ELSE stage
      /\ UNCHANGED <<chain, libraries, added, active, stack, loaded, at, requires>>
  BY DEF Sort, libraries
<1>2. Sorter!IInv' /\ ToSet(added_filter_sets') = ToSet(added_filter_sets) /\ order' = order
  BY <1>1, SortInv DEF IInv
<1>3. loaded = {} /\ at = 1
  BY <1>1, NotLoaded DEF InvokeSet, DebuggerSet
<1>4. TypeOK'
  BY <1>1 DEF IInv, TypeOK
<1>5. RequiresInv'
  BY <1>1, <1>2 DEF IInv, RequiresInv, Requires, After
<1>6. StageInv'
  BY <1>1, <1>3 DEF StageInv, InvokeSet, DebuggerSet
<1>7. StackInv' /\ Entered' = {} /\ Entered = {}
  BY <1>1, NoCalls, NoCallsNow
<1>8. ListInv'
  <2>1. stage # "crashed"
    BY <1>1 DEF InvokeSet, DebuggerSet
  <2>2. \A s : Requires(s)' = Requires(s)
    BY <1>1 DEF Requires
  <2> QED
    BY <1>1, <1>2, <1>7, <2>1, <2>2 DEF IInv, ListInv
<1>9. LoadedInv'
  <2>1. added_filter_sets' \in Seq(FilterSet)
    BY <1>2 DEF Sorter!IInv, Sorter!TypeOK
  <2>2. Len(added_filter_sets') \in Nat
    BY <2>1
  <2>3. stage' \in {"load", InvokeSet, DebuggerSet}
    BY <1>1
  <2> QED
    BY <1>1, <1>3, <2>2, <2>3, NothingLoaded DEF InvokeSet, DebuggerSet
<1> QED
  BY <1>2, <1>4, <1>5, <1>6, <1>7, <1>8, <1>9 DEF IInv

\* Nothing changes.
LEMMA StutterInv == ASSUME IInv, UNCHANGED vars PROVE IInv'
<1>1. UNCHANGED <<stage, chain, libraries, added, added_filter_sets, active, stack, loaded, at, sorting, requires>>
  BY DEF vars, libraries
<1>2. Sorter!IInv'
  BY <1>1, IdleInv DEF IInv
<1>3. TypeOK' /\ ListInv' /\ StackInv'
  <2>1. Entered' = Entered /\ Called' = Called
    BY <1>1 DEF Entered, Called, Frame
  <2> QED
    BY <1>1, <2>1 DEF IInv, TypeOK, ListInv, StackInv, Requires
<1>4. RequiresInv' /\ StageInv' /\ LoadedInv'
  BY <1>1 DEF IInv, RequiresInv, Requires, After, StageInv, LoadedInv, sorting
<1> QED
  BY <1>2, <1>3, <1>4 DEF IInv

\* Every step.
LEMMA NextInv == ASSUME IInv, [Next]_vars PROVE IInv'
<1>1. CASE \E base, dep \in FilterSet : Depends(base, dep)
  BY <1>1, DependsInv
<1>2. CASE \E before, after \in FilterSet : Order(before, after)
  BY <1>2, OrderInv
<1>3. CASE Registered
  BY <1>3, RegisteredInv
<1>4. CASE \E s \in FilterSet, act \in BOOLEAN : Configure(s, act)
  BY <1>4, ConfigureInv
<1>5. CASE AddInvoke \/ AddDebugger
  BY <1>5, AddAlwaysInv
<1>6. CASE Adding
  BY <1>6, EnterInv, AlreadyAddedInv, AddDependencyInv, AddedInv DEF Adding
<1>7. CASE Sort
  BY <1>7, SortStepInv
<1>8. CASE Load \/ Loaded
  BY <1>8, LoadInv, LoadedEndInv
<1>9. CASE Exit \/ Free
  BY <1>9, ExitInv, FreeInv
<1>10. CASE UNCHANGED vars
  BY <1>10, StutterInv
<1> QED
  BY <1>1, <1>2, <1>3, <1>4, <1>5, <1>6, <1>7, <1>8, <1>9, <1>10 DEF Next

(* The inductive invariant holds of every behaviour of the registration, the chain,
   the sort, the loaders and the shutdown. *)
THEOREM FilterSetsInvariant == Spec => []IInv
<1>1. Init => IInv
  BY InitInv
<1>2. IInv /\ [Next]_vars => IInv'
  BY NextInv
<1> QED
  BY <1>1, <1>2, PTL DEF Spec
-----------------------------------------------------------------------------
(* "A requires B" (filters.c:107): whatever the libraries registered and the chain
   names, once it is read what a filter-set on the list requires is on it too, and
   nothing is on it twice. *)
THEOREM FilterSetsListClosed == Spec => []ListClosed
<1>1. ASSUME IInv PROVE ListClosed
  <2> SUFFICES ASSUME stack = <<>>, stage # "crashed"
               PROVE  /\ \A s \in added : Requires(s) \subseteq added
                      /\ ToSet(added_filter_sets) = added /\ IsInjective(added_filter_sets)
    BY DEF ListClosed
  <2>1. Entered = {}
    BY NoCallsNow
  <2>2. ToSet(added_filter_sets) = added
    BY <1>1, <2>1 DEF IInv, ListInv
  <2> QED
    BY <1>1, <2>2, StackFacts DEF IInv, ListInv
<1> QED
  BY <1>1, FilterSetsInvariant, PTL

(* The sort arranges the list as registered, or leaves it and says so exactly when
   the registrations are circular (compute_order, filters.c:144). *)
THEOREM FilterSetsSortsOrFails == Spec => []SortsOrFails
<1>1. IInv => SortsOrFails
  BY DEF IInv, Sorter!IInv, SortsOrFails
<1> QED
  BY <1>1, FilterSetsInvariant, PTL

(* "the proper order" and "the correct shutdown order" (filters.c:556 and 276): at
   any moment of the loaders, of one that refuses, and of the shutdown, what a loaded
   filter-set requires is loaded, unless the registrations are circular. *)
THEOREM FilterSetsRequiredIsLoaded == Spec => []RequiredIsLoaded
<1>1. ASSUME IInv PROVE RequiredIsLoaded
  <2> SUFFICES ASSUME ~Cyclic(added, order), NEW s \in loaded, NEW d \in Requires(s)
               PROVE  d \in loaded
    BY DEF RequiredIsLoaded
  <2>1. pc = "done" /\ stack = <<>> /\ stage # "crashed"
    <3>1. pc = "done"
      BY <1>1 DEF IInv, StageInv
    <3>2. stack = <<>>
      BY <1>1, <3>1 DEF IInv, StageInv
    <3>3. stage \in {"load", "running", "shutdown"}
      BY <1>1, NotLoaded
    <3> QED
      BY <3>1, <3>2, <3>3
  <2>2. ToSet(added_filter_sets) = added
    BY <1>1, <2>1, NoCallsNow DEF IInv, ListInv
  <2>3. Respects(added_filter_sets, order)
    BY <1>1, <2>1, <2>2, SameToSet, SameCyclic, SameRespects DEF IInv, Sorter!IInv, Sorter!SortsOrFails
  <2>4. PICK k \in 0..Len(added_filter_sets) : loaded = {added_filter_sets[j] : j \in 1..k}
    BY <1>1 DEF IInv, LoadedInv
  <2>5. PICK j \in 1..k : added_filter_sets[j] = s
    BY <2>4
  <2>6. /\ Len(added_filter_sets) \in Nat /\ added_filter_sets \in Seq(FilterSet) /\ loaded \subseteq FilterSet
        /\ DOMAIN added_filter_sets = 1..Len(added_filter_sets)
    BY <1>1, StackFacts DEF IInv, TypeOK
  <2>7. j \in 1..Len(added_filter_sets) /\ s \in ToSet(added_filter_sets) /\ s \in FilterSet
    BY <2>4, <2>5, <2>6 DEF ToSet
  <2>8. d \in added /\ d \in After(order, s)
    BY <1>1, <2>1, <2>7 DEF IInv, ListInv, RequiresInv
  <2>9. PICK m \in 1..Len(added_filter_sets) : added_filter_sets[m] = d
    BY <2>2, <2>6, <2>8 DEF ToSet
  <2>10. m < j
    BY <2>3, <2>5, <2>7, <2>8, <2>9 DEF Respects
  <2>11. m \in 1..k
    BY <2>4, <2>10
  <2> QED
    BY <2>4, <2>9, <2>11
<1> QED
  BY <1>1, FilterSetsInvariant, PTL
-----------------------------------------------------------------------------
(* The statistics.  A list object counts what its list draws, as what is being compiled
   does; and the signals are ahead of those of the last swap by what was drawn since. *)
Counts == [triangles : Nat, batches : Nat]
Executed == {"COMPILE", "COMPILE_AND_EXECUTE"}
Listing == [mode : Executed, list : List, content : Counts]
NotListing == Statistics!None
Ahead(x, y) == Statistics!Plus(x, y)

StatisticsInv ==
    /\ gl_current \in Sharer /\ signals \in Counts /\ drawn \in Counts
    /\ cur \in Counts \cup {Statistics!Unallocated}
    /\ gl_lists \in [List -> Counts] /\ objects = gl_lists
    /\ compiling \in [Sharer -> Listing \cup {NotListing}]
    /\ displaylist = [c \in Sharer |->
          IF compiling[c] = NotListing THEN NotListing
          ELSE [mode |-> compiling[c].mode, list |-> compiling[c].list, counts |-> compiling[c].content]]
    /\ cur # Statistics!Unallocated => signals = Ahead(cur, drawn)
-----------------------------------------------------------------------------
\* The numbers up to some number.
LEMMA UpTo ==
    ASSUME NEW S, NEW q \in Nat, \A k : k \in S <=> k \in 0 .. q
    PROVE  Statistics!Cardinality(S) = q + 1
<1>1. S = 0 .. q
  OBVIOUS
<1>2. Cardinality(0 .. q) = q + 1
  BY FS_Interval
<1>3. Statistics!Cardinality(S) = Cardinality(S)
  BY DEF Cardinality, Statistics!Cardinality, IsFiniteSet, Statistics!IsFiniteSet
<1> QED
  BY <1>1, <1>2, <1>3

\* Of nothing there are none.
LEMMA NoneOf == ASSUME NEW S, S = {} PROVE Statistics!Cardinality(S) = 0
<1>1. Statistics!Cardinality(S) = Cardinality(S)
  BY DEF Cardinality, Statistics!Cardinality, IsFiniteSet, Statistics!IsFiniteSet
<1> QED
  BY <1>1, FS_EmptySet

\* How many pieces there are of each kind: the sums of stats_primitives_update.
LEMMA Pieces ==
    ASSUME NEW n \in Nat
    PROVE  /\ Statistics!Cardinality({k \in 0 .. n : 3 + k * 3 <= n}) = n \div 3
           /\ Statistics!Cardinality({k \in 0 .. n : 4 + k * 4 <= n}) = n \div 4
           /\ n % 2 = 0 => 2 * Statistics!Cardinality({k \in 0 .. n : 4 + k * 2 <= n})
                              = IF n >= 3 THEN n - 2 ELSE 0
           /\ Statistics!Cardinality({k \in 0 .. n : 3 + k * 1 <= n}) = IF n >= 3 THEN n - 2 ELSE 0
           /\ Statistics!Cardinality({k \in 0 .. n : 6 + k * 6 <= n}) = n \div 6
           /\ Statistics!Cardinality({k \in 0 .. n : 6 + k * 2 <= n}) = IF n >= 6 THEN n \div 2 - 2 ELSE 0
<1>1. Statistics!Cardinality({k \in 0 .. n : 3 + k * 3 <= n}) = n \div 3
  <2> DEFINE S == {k \in 0 .. n : 3 + k * 3 <= n}
  <2>1. CASE n < 3
    <3>1. S = {} /\ n \div 3 = 0
      BY <2>1
    <3> HIDE DEF S
    <3> QED
      BY <3>1, NoneOf DEF S
  <2>2. CASE n >= 3
    <3>1. n \div 3 - 1 \in Nat /\ \A k : k \in S <=> k \in 0 .. n \div 3 - 1
      BY <2>2
    <3> HIDE DEF S
    <3>2. Statistics!Cardinality(S) = n \div 3 - 1 + 1
      BY <3>1, UpTo
    <3> QED
      BY <3>2 DEF S
  <2> QED
    BY <2>1, <2>2
<1>2. Statistics!Cardinality({k \in 0 .. n : 4 + k * 4 <= n}) = n \div 4
  <2> DEFINE S == {k \in 0 .. n : 4 + k * 4 <= n}
  <2>1. CASE n < 4
    <3>1. S = {} /\ n \div 4 = 0
      BY <2>1
    <3> HIDE DEF S
    <3> QED
      BY <3>1, NoneOf DEF S
  <2>2. CASE n >= 4
    <3>1. n \div 4 - 1 \in Nat /\ \A k : k \in S <=> k \in 0 .. n \div 4 - 1
      BY <2>2
    <3> HIDE DEF S
    <3>2. Statistics!Cardinality(S) = n \div 4 - 1 + 1
      BY <3>1, UpTo
    <3> QED
      BY <3>2 DEF S
  <2> QED
    BY <2>1, <2>2
<1>3. ASSUME n % 2 = 0
      PROVE  2 * Statistics!Cardinality({k \in 0 .. n : 4 + k * 2 <= n}) = IF n >= 3 THEN n - 2 ELSE 0
  <2> DEFINE S == {k \in 0 .. n : 4 + k * 2 <= n}
  <2>1. CASE n < 4
    <3>1. S = {} /\ n # 3
      BY <1>3, <2>1
    <3> HIDE DEF S
    <3>2. Statistics!Cardinality(S) = 0
      BY <3>1, NoneOf
    <3> QED
      BY <2>1, <3>1, <3>2 DEF S
  <2>2. CASE n >= 4
    <3>1. PICK q \in Nat : n = 2 * q
      <4>1. n \div 2 \in Nat /\ n = 2 * (n \div 2)
        BY <1>3
      <4> QED
        BY <4>1
    <3>2. q - 2 \in Nat /\ \A k : k \in S <=> k \in 0 .. q - 2
      BY <2>2, <3>1
    <3> HIDE DEF S
    <3>3. Statistics!Cardinality(S) = q - 2 + 1
      BY <3>2, UpTo
    <3>4. 2 * (q - 2 + 1) = n - 2
      BY <3>1
    <3> QED
      BY <2>2, <3>3, <3>4 DEF S
  <2> QED
    BY <2>1, <2>2
<1>4. Statistics!Cardinality({k \in 0 .. n : 3 + k * 1 <= n}) = IF n >= 3 THEN n - 2 ELSE 0
  <2> DEFINE S == {k \in 0 .. n : 3 + k * 1 <= n}
  <2>1. CASE n < 3
    <3>1. S = {}
      BY <2>1
    <3> HIDE DEF S
    <3> QED
      BY <2>1, <3>1, NoneOf DEF S
  <2>2. CASE n >= 3
    <3>1. n - 3 \in Nat /\ \A k : k \in S <=> k \in 0 .. n - 3
      BY <2>2
    <3> HIDE DEF S
    <3>2. Statistics!Cardinality(S) = n - 3 + 1
      BY <3>1, UpTo
    <3> QED
      BY <2>2, <3>2 DEF S
  <2> QED
    BY <2>1, <2>2
<1>5. Statistics!Cardinality({k \in 0 .. n : 6 + k * 6 <= n}) = n \div 6
  <2> DEFINE S == {k \in 0 .. n : 6 + k * 6 <= n}
  <2>1. CASE n < 6
    <3>1. S = {} /\ n \div 6 = 0
      BY <2>1
    <3> HIDE DEF S
    <3> QED
      BY <3>1, NoneOf DEF S
  <2>2. CASE n >= 6
    <3>1. n \div 6 - 1 \in Nat /\ \A k : k \in S <=> k \in 0 .. n \div 6 - 1
      BY <2>2
    <3> HIDE DEF S
    <3>2. Statistics!Cardinality(S) = n \div 6 - 1 + 1
      BY <3>1, UpTo
    <3> QED
      BY <3>2 DEF S
  <2> QED
    BY <2>1, <2>2
<1>6. Statistics!Cardinality({k \in 0 .. n : 6 + k * 2 <= n}) = IF n >= 6 THEN n \div 2 - 2 ELSE 0
  <2> DEFINE S == {k \in 0 .. n : 6 + k * 2 <= n}
  <2>1. CASE n < 6
    <3>1. S = {}
      BY <2>1
    <3> HIDE DEF S
    <3> QED
      BY <2>1, <3>1, NoneOf DEF S
  <2>2. CASE n >= 6
    <3>1. n \div 2 - 3 \in Nat /\ \A k : k \in S <=> k \in 0 .. n \div 2 - 3
      BY <2>2
    <3> HIDE DEF S
    <3>2. Statistics!Cardinality(S) = n \div 2 - 3 + 1
      BY <3>1, UpTo
    <3> QED
      BY <2>2, <3>1, <3>2 DEF S
  <2> QED
    BY <2>1, <2>2
<1> QED
  BY <1>1, <1>2, <1>3, <1>4, <1>5, <1>6

\* A drawing call is counted as what OpenGL makes of it.
LEMMA TrianglesDrawn ==
    ASSUME NEW shape \in Shape
    PROVE  /\ Statistics!Triangles(shape[1], shape[2]) = Statistics!Drawn(shape[1], shape[2])
           /\ Statistics!Triangles(shape[1], shape[2]) * shape[3] \in Nat
<1>1. PICK mode_, n : mode_ = shape[1] /\ n = shape[2]
  OBVIOUS
<1>2. n \in Nat /\ shape[3] \in Nat /\ (mode_ = "QUAD_STRIP" => n % 2 = 0)
  BY <1>1, ShapesAssumption DEF Statistics!ShapeAssumption
<1>3. Statistics!Triangles(mode_, n) = Statistics!Drawn(mode_, n)
  <2>1. CASE mode_ = "TRIANGLES"
    BY <1>2, <2>1, Pieces DEF Statistics!Triangles, Statistics!Drawn
  <2>2. CASE mode_ = "QUADS"
    <3>1. PICK q \in Nat : q = n \div 4
      BY <1>2
    <3>2. Statistics!Drawn(mode_, n) = 2 * q
      BY <1>2, <2>2, <3>1, Pieces DEF Statistics!Drawn
    <3>3. Statistics!Triangles(mode_, n) = q * 2
      BY <2>2, <3>1 DEF Statistics!Triangles
    <3> QED
      BY <3>2, <3>3
  <2>3. CASE mode_ = "QUAD_STRIP"
    BY <1>2, <2>3, Pieces DEF Statistics!Triangles, Statistics!Drawn
  <2>4. CASE mode_ \in {"POLYGON", "TRIANGLE_STRIP", "TRIANGLE_FAN"}
    BY <1>2, <2>4, Pieces DEF Statistics!Triangles, Statistics!Drawn
  <2>5. CASE mode_ = "TRIANGLES_ADJACENCY"
    BY <1>2, <2>5, Pieces DEF Statistics!Triangles, Statistics!Drawn
  <2>6. CASE mode_ = "TRIANGLE_STRIP_ADJACENCY"
    BY <1>2, <2>6, Pieces DEF Statistics!Triangles, Statistics!Drawn
  <2>7. CASE mode_ \notin {"TRIANGLES", "QUADS", "QUAD_STRIP", "POLYGON", "TRIANGLE_STRIP", "TRIANGLE_FAN",
                           "TRIANGLES_ADJACENCY", "TRIANGLE_STRIP_ADJACENCY"}
    BY <2>7 DEF Statistics!Triangles, Statistics!Drawn
  <2> QED
    BY <2>1, <2>2, <2>3, <2>4, <2>5, <2>6, <2>7
<1>4. Statistics!Triangles(mode_, n) \in Nat
  BY <1>2 DEF Statistics!Triangles
<1>5. \A x, y \in Nat : x * y \in Nat
  OBVIOUS
<1> QED
  BY <1>1, <1>2, <1>3, <1>4, <1>5

\* Sums and differences of counts.
LEMMA PlusFacts ==
    ASSUME NEW x \in Counts, NEW y \in Counts
    PROVE  /\ Ahead(x, y) \in Counts
           /\ \A z \in Counts : Ahead(Ahead(x, y), z) = Ahead(x, Ahead(y, z))
           /\ Statistics!Minus(Ahead(x, y), x) = y
<1>1. Ahead(x, y) \in Counts
  BY DEF Ahead, Statistics!Plus, Counts
<1>2. ASSUME NEW z \in Counts PROVE Ahead(Ahead(x, y), z) = Ahead(x, Ahead(y, z))
  BY DEF Ahead, Statistics!Plus, Counts
<1>3. Statistics!Minus(Ahead(x, y), x) = y
  <2>1. x.triangles \in Nat /\ y.triangles \in Nat /\ x.batches \in Nat /\ y.batches \in Nat
        /\ y = [triangles |-> y.triangles, batches |-> y.batches]
    BY DEF Counts
  <2>2. (x.triangles + y.triangles) - x.triangles = y.triangles /\ (x.batches + y.batches) - x.batches = y.batches
    BY <2>1
  <2> QED
    BY <2>1, <2>2 DEF Ahead, Statistics!Plus, Statistics!Minus
<1> QED
  BY <1>1, <1>2, <1>3

\* Nothing adds nothing.
LEMMA NothingFacts ==
    /\ Statistics!Nothing \in Counts /\ Statistics!Unallocated \notin Counts
    /\ \A x \in Counts : Ahead(x, Statistics!Nothing) = x
BY DEF Statistics!Nothing, Statistics!Unallocated, Counts, Ahead, Statistics!Plus

\* The object of what a context compiles, which counts what the list will draw.
LEMMA ListingFacts ==
    ASSUME StatisticsInv, NEW c \in Sharer
    PROVE  \/ compiling[c] = NotListing /\ displaylist[c] = NotListing
           \/ /\ compiling[c] \in Listing /\ compiling[c] # NotListing
              /\ displaylist[c] = [mode |-> compiling[c].mode, list |-> compiling[c].list,
                                   counts |-> compiling[c].content]
BY DEF StatisticsInv

\* A drawing call counts for the signals, or for the list, or for both, as it is drawn.
LEMMA BatchInv ==
    ASSUME StatisticsInv, NEW shape \in Shape,
           Statistics!Update(shape[1], shape[2], shape[3]), Statistics!Render(shape[1], shape[2], shape[3]),
           UNCHANGED <<gl_current, gl_lists, objects, cur, swaps>>
    PROVE  StatisticsInv'
<1> DEFINE b == [triangles |-> Statistics!Triangles(shape[1], shape[2]) * shape[3], batches |-> 1]
           g == gl_current
<1>1. b \in Counts
  BY TrianglesDrawn DEF Counts
<1>2. b = [triangles |-> Statistics!Drawn(shape[1], shape[2]) * shape[3], batches |-> 1]
  BY TrianglesDrawn
<1>3. PICK batch : batch = b
  OBVIOUS
<1>4. /\ signals' = IF displaylist[g].mode = "COMPILE" THEN signals ELSE Ahead(signals, batch)
      /\ displaylist' = IF displaylist[g].mode = "none" THEN displaylist
                        ELSE [displaylist EXCEPT ![g].counts = Ahead(@, batch)]
  BY <1>3 DEF Statistics!Update, Ahead
<1>5. /\ drawn' = IF compiling[g].mode = "COMPILE" THEN drawn ELSE Ahead(drawn, batch)
      /\ compiling' = IF compiling[g].mode = "none" THEN compiling
                      ELSE [compiling EXCEPT ![g].content = Ahead(@, batch)]
  BY <1>2, <1>3 DEF Statistics!Render, Ahead
<1> HIDE DEF b
<1>6. g \in Sharer /\ batch \in Counts /\ signals \in Counts /\ drawn \in Counts
      /\ DOMAIN compiling = Sharer /\ DOMAIN displaylist = Sharer
  BY <1>1, <1>3 DEF StatisticsInv
<1>7. displaylist[g].mode = compiling[g].mode
  BY <1>6, ListingFacts
<1>8. /\ signals' \in Counts /\ drawn' \in Counts
      /\ cur # Statistics!Unallocated => signals' = Ahead(cur, drawn')
  <2>1. cur # Statistics!Unallocated => cur \in Counts /\ signals = Ahead(cur, drawn)
    BY DEF StatisticsInv
  <2>2. Ahead(signals, batch) \in Counts /\ Ahead(drawn, batch) \in Counts
    BY <1>6, PlusFacts
  <2>3. cur # Statistics!Unallocated => Ahead(signals, batch) = Ahead(cur, Ahead(drawn, batch))
    BY <1>6, <2>1, PlusFacts
  <2> QED
    BY <1>4, <1>5, <1>6, <1>7, <2>1, <2>2, <2>3
<1>9. CASE compiling[g] = NotListing
  <2>1. compiling' = compiling /\ displaylist' = displaylist
    BY <1>4, <1>5, <1>7, <1>9 DEF NotListing, Statistics!None
  <2> QED
    BY <1>8, <2>1 DEF StatisticsInv
<1>10. CASE compiling[g] # NotListing
  <2>1. /\ compiling[g] \in Listing
        /\ displaylist[g] = [mode |-> compiling[g].mode, list |-> compiling[g].list,
                             counts |-> compiling[g].content]
    BY <1>6, <1>10, ListingFacts
  <2>2. compiling[g].mode # "none" /\ compiling[g].content \in Counts
        /\ compiling[g] = [mode |-> compiling[g].mode, list |-> compiling[g].list, content |-> compiling[g].content]
    BY <2>1 DEF Listing, Executed
  <2>3. PICK now_ : now_ = Ahead(compiling[g].content, batch)
    OBVIOUS
  <2>4. compiling' = [compiling EXCEPT ![g] = [compiling[g] EXCEPT !.content = now_]]
    BY <1>5, <1>6, <2>2, <2>3
  <2>5. displaylist' = [displaylist EXCEPT ![g] = [displaylist[g] EXCEPT !.counts = now_]]
    <3>1. displaylist[g].mode # "none" /\ displaylist[g].counts = compiling[g].content
      BY <2>1, <2>2
    <3> QED
      BY <1>4, <1>6, <2>3, <3>1
  <2>6. now_ \in Counts
    BY <1>6, <2>2, <2>3, PlusFacts
  <2>7. PICK old : old = compiling[g]
    OBVIOUS
  <2>8. [compiling[g] EXCEPT !.content = now_] = [mode |-> old.mode, list |-> old.list, content |-> now_]
        /\ [displaylist[g] EXCEPT !.counts = now_] = [mode |-> old.mode, list |-> old.list, counts |-> now_]
    BY <2>1, <2>2, <2>7
  <2>9. /\ compiling' \in [Sharer -> Listing \cup {NotListing}]
        /\ \A c \in Sharer : displaylist'[c] =
              IF compiling'[c] = NotListing THEN NotListing
              ELSE [mode |-> compiling'[c].mode, list |-> compiling'[c].list, counts |-> compiling'[c].content]
        /\ DOMAIN displaylist' = Sharer
    <3>1. [mode |-> old.mode, list |-> old.list, content |-> now_] \in Listing
          /\ [mode |-> old.mode, list |-> old.list, content |-> now_] # NotListing
      BY <2>1, <2>6, <2>7 DEF Listing, NotListing, Statistics!None, Executed
    <3>2. \A c \in Sharer \ {g} : compiling'[c] = compiling[c] /\ displaylist'[c] = displaylist[c]
      BY <1>6, <2>4, <2>5
    <3>3. compiling'[g] = [mode |-> old.mode, list |-> old.list, content |-> now_]
          /\ displaylist'[g] = [mode |-> old.mode, list |-> old.list, counts |-> now_]
      BY <1>6, <2>4, <2>5, <2>8
    <3>4. \A c \in Sharer : displaylist'[c] =
             IF compiling'[c] = NotListing THEN NotListing
             ELSE [mode |-> compiling'[c].mode, list |-> compiling'[c].list, counts |-> compiling'[c].content]
      <4> SUFFICES ASSUME NEW c \in Sharer
                   PROVE  displaylist'[c] =
                             IF compiling'[c] = NotListing THEN NotListing
                             ELSE [mode |-> compiling'[c].mode, list |-> compiling'[c].list,
                                   counts |-> compiling'[c].content]
        OBVIOUS
      <4>1. CASE c = g
        BY <3>1, <3>3, <4>1
      <4>2. CASE c # g
        BY <3>2, <4>2, ListingFacts
      <4> QED
        BY <4>1, <4>2
    <3>5. compiling \in [Sharer -> Listing \cup {NotListing}]
      BY DEF StatisticsInv
    <3> QED
      BY <1>6, <2>4, <2>5, <2>8, <3>1, <3>4, <3>5
  <2>10. displaylist' = [c \in Sharer |->
            IF compiling'[c] = NotListing THEN NotListing
            ELSE [mode |-> compiling'[c].mode, list |-> compiling'[c].list, counts |-> compiling'[c].content]]
    <3>1. displaylist' = [c \in Sharer |-> displaylist'[c]]
      BY <1>6, <2>5
    <3> QED
      BY <2>9, <3>1
  <2> QED
    BY <1>8, <2>9, <2>10 DEF StatisticsInv
<1> QED
  BY <1>9, <1>10

\* glNewList: an object for the list, and nothing in either yet.
LEMMA NewListInv ==
    ASSUME StatisticsInv, NEW l \in List, NEW m \in Executed, Statistics!NewList(l, m)
    PROVE  StatisticsInv'
<1> DEFINE g == gl_current
           glist == [mode |-> m, list |-> l, content |-> Statistics!Nothing]
           obj == [mode |-> m, list |-> l, counts |-> Statistics!Nothing]
<1>1. /\ compiling' = [compiling EXCEPT ![g] = glist] /\ displaylist' = [displaylist EXCEPT ![g] = obj]
      /\ UNCHANGED <<gl_current, gl_lists, drawn, objects, signals, cur>>
  BY DEF Statistics!NewList, Statistics!reported
<1>2. glist \in Listing /\ glist # NotListing
  BY NothingFacts DEF Listing, NotListing, Statistics!None, Executed
<1>3. compiling \in [Sharer -> Listing \cup {NotListing}] /\ DOMAIN displaylist = Sharer /\ g \in Sharer
  BY DEF StatisticsInv
<1>4. compiling' \in [Sharer -> Listing \cup {NotListing}]
  BY <1>1, <1>2, <1>3
<1>5. ASSUME NEW c \in Sharer
      PROVE  displaylist'[c] =
                IF compiling'[c] = NotListing THEN NotListing
                ELSE [mode |-> compiling'[c].mode, list |-> compiling'[c].list, counts |-> compiling'[c].content]
  <2>1. CASE c = g
    <3>1. compiling'[c] = glist /\ displaylist'[c] = obj
      BY <1>1, <1>3, <2>1
    <3> QED
      BY <1>2, <3>1
  <2>2. CASE c # g
    <3>1. compiling'[c] = compiling[c] /\ displaylist'[c] = displaylist[c]
      BY <1>1, <1>3, <2>2
    <3> QED
      BY <3>1, ListingFacts
  <2> QED
    BY <2>1, <2>2
<1>6. displaylist' = [c \in Sharer |-> displaylist'[c]]
  BY <1>1, <1>3
<1>7. displaylist' = [c \in Sharer |->
          IF compiling'[c] = NotListing THEN NotListing
          ELSE [mode |-> compiling'[c].mode, list |-> compiling'[c].list, counts |-> compiling'[c].content]]
  BY <1>5, <1>6
<1> QED
  BY <1>1, <1>4, <1>7 DEF StatisticsInv

\* glEndList: the object is in the table from the moment that the list is what its name means.
LEMMA EndListInv == ASSUME StatisticsInv, Statistics!EndList PROVE StatisticsInv'
<1> DEFINE g == gl_current
<1>1. /\ compiling[g] # NotListing
      /\ gl_lists' = [gl_lists EXCEPT ![compiling[g].list] = compiling[g].content]
      /\ objects' = [objects EXCEPT ![displaylist[g].list] = displaylist[g].counts]
      /\ compiling' = [compiling EXCEPT ![g] = NotListing] /\ displaylist' = [displaylist EXCEPT ![g] = NotListing]
      /\ UNCHANGED <<gl_current, drawn, signals, cur>>
  BY DEF Statistics!EndList, Statistics!reported, NotListing
<1>2. compiling \in [Sharer -> Listing \cup {NotListing}] /\ DOMAIN displaylist = Sharer /\ g \in Sharer
      /\ gl_lists \in [List -> Counts] /\ objects = gl_lists
  BY DEF StatisticsInv
<1>3. compiling[g] \in Listing /\ displaylist[g].list = compiling[g].list
      /\ displaylist[g].counts = compiling[g].content
  BY <1>1, <1>2, ListingFacts
<1>4. compiling[g].list \in List /\ compiling[g].content \in Counts
  BY <1>3 DEF Listing
<1>5. gl_lists' \in [List -> Counts] /\ objects' = gl_lists'
  BY <1>1, <1>2, <1>3, <1>4
<1>6. compiling' \in [Sharer -> Listing \cup {NotListing}]
  BY <1>1, <1>2
<1>7. ASSUME NEW c \in Sharer
      PROVE  displaylist'[c] =
                IF compiling'[c] = NotListing THEN NotListing
                ELSE [mode |-> compiling'[c].mode, list |-> compiling'[c].list, counts |-> compiling'[c].content]
  <2>1. CASE c = g
    BY <1>1, <1>2, <2>1
  <2>2. CASE c # g
    <3>1. compiling'[c] = compiling[c] /\ displaylist'[c] = displaylist[c]
      BY <1>1, <1>2, <2>2
    <3> QED
      BY <3>1, ListingFacts
  <2> QED
    BY <2>1, <2>2
<1>8. displaylist' = [c \in Sharer |-> displaylist'[c]]
  BY <1>1, <1>2
<1>9. displaylist' = [c \in Sharer |->
          IF compiling'[c] = NotListing THEN NotListing
          ELSE [mode |-> compiling'[c].mode, list |-> compiling'[c].list, counts |-> compiling'[c].content]]
  BY <1>7, <1>8
<1> QED
  BY <1>1, <1>5, <1>6, <1>9 DEF StatisticsInv

\* glCallList counts what its object has, which is what the list draws.
LEMMA CallListInv == ASSUME StatisticsInv, NEW l \in List, Statistics!CallList(l) PROVE StatisticsInv'
<1>1. /\ signals' = Ahead(signals, gl_lists[l]) /\ drawn' = Ahead(drawn, gl_lists[l])
      /\ UNCHANGED <<gl_current, compiling, gl_lists, displaylist, objects, cur>>
  BY DEF Statistics!CallList, Statistics!tracked, Statistics!reported, Ahead, StatisticsInv
<1>2. gl_lists[l] \in Counts /\ signals \in Counts /\ drawn \in Counts
  BY DEF StatisticsInv
<1>3. signals' \in Counts /\ drawn' \in Counts
  BY <1>1, <1>2, PlusFacts
<1>4. cur # Statistics!Unallocated => signals' = Ahead(cur, drawn')
  <2>1. cur # Statistics!Unallocated => cur \in Counts /\ signals = Ahead(cur, drawn)
    BY DEF StatisticsInv
  <2>2. PICK z : z = gl_lists[l]
    OBVIOUS
  <2>3. ASSUME cur # Statistics!Unallocated
        PROVE  Ahead(Ahead(cur, drawn), z) = Ahead(cur, Ahead(drawn, z))
    <3>1. cur \in Counts /\ drawn \in Counts /\ z \in Counts
      BY <1>2, <2>1, <2>2, <2>3
    <3> QED
      BY <3>1, PlusFacts
  <2> QED
    BY <1>1, <2>1, <2>2, <2>3
<1> QED
  BY <1>1, <1>3, <1>4 DEF StatisticsInv

\* logstats_swap_buffers: the signals are what the next swap is compared with.
LEMMA SwapBuffersInv == ASSUME StatisticsInv, Statistics!SwapBuffers PROVE StatisticsInv'
<1>1. /\ cur' = signals /\ drawn' = Statistics!Nothing
      /\ UNCHANGED <<gl_current, compiling, gl_lists, displaylist, objects, signals>>
  BY DEF Statistics!SwapBuffers, Statistics!tracked
<1>2. signals \in Counts
  BY DEF StatisticsInv
<1>3. signals' = Ahead(cur', drawn')
  BY <1>1, <1>2, NothingFacts
<1> QED
  BY <1>1, <1>2, <1>3, NothingFacts DEF StatisticsInv

\* Nothing is drawn, compiled or counted to begin with.
LEMMA StatisticsInitInv == ASSUME Statistics!Init PROVE StatisticsInv
<1>1. /\ gl_current \in Sharer /\ compiling = [c \in Sharer |-> NotListing]
      /\ gl_lists = [l \in List |-> Statistics!Nothing] /\ objects = [l \in List |-> Statistics!Nothing]
      /\ drawn = Statistics!Nothing /\ signals = Statistics!Nothing /\ cur = Statistics!Unallocated
      /\ displaylist = [c \in Sharer |-> NotListing]
  BY DEF Statistics!Init, NotListing
<1>2. displaylist = [c \in Sharer |->
          IF compiling[c] = NotListing THEN NotListing
          ELSE [mode |-> compiling[c].mode, list |-> compiling[c].list, counts |-> compiling[c].content]]
  BY <1>1
<1> QED
  BY <1>1, <1>2, NothingFacts DEF StatisticsInv

\* Every step keeps the invariant.
LEMMA StatisticsNextInv ==
    ASSUME StatisticsInv, [Statistics!Next]_Statistics!vars
    PROVE  StatisticsInv'
<1>1. ASSUME NEW shape \in Shape, Statistics!Draw(shape[1], shape[2], shape[3]) PROVE StatisticsInv'
  <2>1. /\ Statistics!Update(shape[1], shape[2], shape[3]) /\ Statistics!Render(shape[1], shape[2], shape[3])
        /\ UNCHANGED <<gl_current, gl_lists, objects, cur, swaps>>
    BY <1>1 DEF Statistics!Draw, Statistics!reported
  <2> QED
    BY <2>1, BatchInv
<1>2. CASE Statistics!End
  <2>1. PICK p : p = primitives[gl_current]
    OBVIOUS
  <2>2. /\ <<p.mode, p.count, 1>> \in Shape
        /\ Statistics!Update(p.mode, p.count, 1) /\ Statistics!Render(p.mode, p.count, 1)
        /\ UNCHANGED <<gl_current, gl_lists, objects, cur, swaps>>
    BY <1>2, <2>1 DEF Statistics!End, Statistics!reported
  <2>3. PICK shape \in Shape : shape = <<p.mode, p.count, 1>>
    BY <2>2
  <2>4. shape[1] = p.mode /\ shape[2] = p.count /\ shape[3] = 1
    BY <2>3
  <2> QED
    BY <2>2, <2>4, BatchInv
<1>3. ASSUME \/ \E shape \in Shape : Statistics!Begin(shape[1])
             \/ Statistics!Immediate \/ Statistics!EndListNowhere \/ UNCHANGED Statistics!vars
      PROVE  StatisticsInv'
  <2>1. UNCHANGED <<gl_current, compiling, gl_lists, drawn, displaylist, objects, signals, cur>>
    BY <1>3 DEF Statistics!Begin, Statistics!Immediate, Statistics!EndListNowhere, Statistics!vars,
                Statistics!opengl, Statistics!tracked, Statistics!reported
  <2> QED
    BY <2>1 DEF StatisticsInv
<1>4. ASSUME NEW c \in Sharer, Statistics!MakeCurrent(c) PROVE StatisticsInv'
  <2>1. gl_current' = c /\ UNCHANGED <<compiling, gl_lists, drawn, displaylist, objects, signals, cur>>
    BY <1>4 DEF Statistics!MakeCurrent, Statistics!tracked, Statistics!reported
  <2> QED
    BY <2>1 DEF StatisticsInv
<1>5. CASE Statistics!Next
  BY <1>1, <1>2, <1>3, <1>4, <1>5, NewListInv, EndListInv, CallListInv, SwapBuffersInv DEF Statistics!Next, Executed
<1> QED
  BY <1>3, <1>5

(* Whatever is drawn, compiled and called in whichever contexts: the signals are ahead of those
   of the last swap by what OpenGL drew since, and a list object has what its list draws. *)
THEOREM StatisticsInvariant == Statistics!Spec => []StatisticsInv
<1>1. Statistics!Init => StatisticsInv
  BY StatisticsInitInv
<1>2. StatisticsInv /\ [Statistics!Next]_Statistics!vars => StatisticsInv'
  BY StatisticsNextInv
<1> QED
  BY <1>1, <1>2, PTL DEF Statistics!Spec

(* From the second swap on, what is reported at a swap is what was drawn since the one before
   (logstats_swap_buffers). *)
THEOREM StatisticsReported == Statistics!Spec => FramesReported
<1>1. ASSUME StatisticsInv, [Statistics!Next]_Statistics!vars
      PROVE  [swaps' # swaps /\ cur # Statistics!Unallocated => Statistics!Logged = drawn]_Statistics!vars
  <2>1. CASE swaps' # swaps /\ cur # Statistics!Unallocated
    <3>1. Statistics!SwapBuffers
      BY <1>1, <2>1 DEF Statistics!Next, Statistics!vars, Statistics!reported, Statistics!Draw, Statistics!Begin,
         Statistics!Immediate, Statistics!End, Statistics!CallList, Statistics!NewList, Statistics!EndList,
         Statistics!EndListNowhere, Statistics!MakeCurrent
    <3>2. cur' = signals
      BY <3>1 DEF Statistics!SwapBuffers
    <3>3. cur \in Counts /\ drawn \in Counts /\ signals = Ahead(cur, drawn)
      BY <1>1, <2>1 DEF StatisticsInv
    <3>4. Statistics!Minus(signals, cur) = drawn
      BY <3>3, PlusFacts
    <3> QED
      BY <3>2, <3>4 DEF Statistics!Logged
  <2>2. CASE ~(swaps' # swaps /\ cur # Statistics!Unallocated)
    BY <2>2
  <2> QED
    BY <2>1, <2>2
<1> QED
  BY <1>1, StatisticsInvariant, PTL DEF Statistics!Spec, FramesReported, Statistics!FramesReported
-----------------------------------------------------------------------------
\* e has the members of S in their order.
Enumerates(e, S) ==
    /\ e \in Seq(Nat)
    /\ \A n \in 1 .. Len(e) : e[n] \in S
    /\ \A k \in S : \E n \in 1 .. Len(e) : e[n] = k
    /\ \A m, n \in 1 .. Len(e) : m < n => e[m] < e[n]

\* Finite sets have the same sizes in Screenshot.
LEMMA SameSize == ASSUME NEW S PROVE Shots!Cardinality(S) = Cardinality(S)
BY DEF Cardinality, Shots!Cardinality, IsFiniteSet, Shots!IsFiniteSet

\* What is counted by a sequence without repetitions
LEMMA CountedBy ==
    ASSUME NEW S, NEW q \in Nat, NEW e,
           \A n \in 1 .. q : e[n] \in S,
           \A k \in S : \E n \in 1 .. q : e[n] = k,
           \A m, n \in 1 .. q : m < n => e[m] # e[n]
    PROVE  Shots!Cardinality(S) = q
<1> DEFINE f == [n \in 1 .. q |-> e[n]]
<1>1. f \in Bijection(1 .. q, S)
  <2>1. \A m, n \in 1 .. q : m # n => e[m] # e[n]
    OBVIOUS
  <2> QED
    BY <2>1 DEF Bijection, Injection, Surjection, IsInjective
<1>2. ExistsBijection(1 .. q, S)
  BY <1>1 DEF ExistsBijection
<1>3. Cardinality(S) = q
  BY <1>2, FS_CountingElements
<1> QED
  BY <1>3, SameSize

\* The n-th member of an enumeration has n members that are not above it.
LEMMA RankOf ==
    ASSUME NEW S, NEW e, Enumerates(e, S)
    PROVE  /\ \A n \in 1 .. Len(e) : Shots!Cardinality({j \in S : j <= e[n]}) = n
           /\ Shots!Cardinality(S) = Len(e)
<1>1. /\ Len(e) \in Nat /\ \A n \in 1 .. Len(e) : e[n] \in Nat /\ e[n] \in S
      /\ \A m, n \in 1 .. Len(e) : m < n => e[m] < e[n]
      /\ \A k \in S : \E n \in 1 .. Len(e) : e[n] = k
  BY DEF Enumerates
<1>2. ASSUME NEW n \in 1 .. Len(e) PROVE Shots!Cardinality({j \in S : j <= e[n]}) = n
  <2> DEFINE R == {j \in S : j <= e[n]}
  <2>1. \A m \in 1 .. n : e[m] \in R
    <3>1. ASSUME NEW m \in 1 .. n PROVE e[m] \in S /\ e[m] <= e[n]
      <4>1. m \in 1 .. Len(e) /\ (m < n \/ m = n)
        BY <1>1, <1>2
      <4> QED
        BY <4>1, <1>1, <1>2
    <3> QED
      BY <3>1
  <2>2. \A k \in R : \E m \in 1 .. n : e[m] = k
    <3>1. ASSUME NEW k \in R PROVE \E m \in 1 .. n : e[m] = k
      <4>1. PICK m \in 1 .. Len(e) : e[m] = k
        BY <3>1, <1>1
      <4>2. ~(n < m)
        BY <4>1, <3>1, <1>1, <1>2
      <4>3. m \in 1 .. n
        BY <4>2, <1>1, <1>2
      <4> QED
        BY <4>1, <4>3
    <3> QED
      BY <3>1
  <2>3. \A m, l \in 1 .. n : m < l => e[m] # e[l]
    BY <1>1, <1>2
  <2>4. n \in Nat
    BY <1>1, <1>2
  <2> HIDE DEF R
  <2>5. Shots!Cardinality(R) = n
    BY <2>1, <2>2, <2>3, <2>4, CountedBy
  <2> QED
    BY <2>5 DEF R
<1>3. \A m, n \in 1 .. Len(e) : m < n => e[m] # e[n]
  BY <1>1
<1>4. Shots!Cardinality(S) = Len(e)
  BY <1>1, <1>3, CountedBy
<1> QED
  BY <1>2, <1>4

\* A set that has got greater members, the q from p on, is enumerated by a longer sequence.
LEMMA LongerEnumerates ==
    ASSUME NEW S, NEW e, Enumerates(e, S), NEW p \in Nat, NEW q \in Nat, \A k \in S : k < p
    PROVE  \E l : /\ Enumerates(l, S \cup p .. p + q - 1) /\ Len(l) = Len(e) + q
                  /\ \A n \in 1 .. Len(e) : l[n] = e[n]
                  /\ \A n \in Len(e) + 1 .. Len(e) + q : l[n] \in p .. p + q - 1
<1> DEFINE l == [n \in 1 .. Len(e) + q |-> IF n <= Len(e) THEN e[n] ELSE p + n - Len(e) - 1]
<1>1. /\ Len(e) \in Nat /\ \A n \in 1 .. Len(e) : e[n] \in Nat /\ e[n] \in S
      /\ \A m, n \in 1 .. Len(e) : m < n => e[m] < e[n]
      /\ \A k \in S : \E n \in 1 .. Len(e) : e[n] = k
  BY DEF Enumerates
<1>2. /\ DOMAIN l = 1 .. Len(e) + q
      /\ \A n \in 1 .. Len(e) + q : l[n] = IF n <= Len(e) THEN e[n] ELSE p + n - Len(e) - 1
  OBVIOUS
<1>3. \A n \in 1 .. Len(e) : l[n] = e[n]
  BY <1>1, <1>2
<1>4. \A n \in Len(e) + 1 .. Len(e) + q : l[n] = p + n - Len(e) - 1 /\ l[n] \in p .. p + q - 1
  BY <1>1, <1>2
<1>5. l \in Seq(Nat) /\ Len(l) = Len(e) + q
  <2>1. \A n \in 1 .. Len(e) + q : (IF n <= Len(e) THEN e[n] ELSE p + n - Len(e) - 1) \in Nat
    BY <1>1
  <2>2. Len(e) + q \in Nat
    BY <1>1
  <2> QED
    BY <2>1, <2>2
<1>6. \A n \in 1 .. Len(l) : l[n] \in S \cup p .. p + q - 1
  <2>1. ASSUME NEW n \in 1 .. Len(l) PROVE l[n] \in S \cup p .. p + q - 1
    <3>1. n \in 1 .. Len(e) \/ n \in Len(e) + 1 .. Len(e) + q
      BY <2>1, <1>1, <1>5
    <3> QED
      BY <3>1, <1>1, <1>3, <1>4
  <2> QED
    BY <2>1
<1>7. \A k \in S \cup p .. p + q - 1 : \E n \in 1 .. Len(l) : l[n] = k
  <2>1. ASSUME NEW k \in S PROVE \E n \in 1 .. Len(l) : l[n] = k
    <3>1. PICK n \in 1 .. Len(e) : e[n] = k
      BY <2>1, <1>1
    <3>2. n \in 1 .. Len(l) /\ l[n] = k
      BY <3>1, <1>1, <1>3, <1>5
    <3> QED
      BY <3>2
  <2>2. ASSUME NEW k \in p .. p + q - 1 PROVE \E n \in 1 .. Len(l) : l[n] = k
    <3>1. Len(e) + 1 + k - p \in Len(e) + 1 .. Len(e) + q /\ Len(e) + 1 + k - p \in 1 .. Len(l)
      BY <2>2, <1>1, <1>5
    <3>2. l[Len(e) + 1 + k - p] = k
      BY <3>1, <1>1, <1>4
    <3> QED
      BY <3>1, <3>2
  <2> QED
    BY <2>1, <2>2
<1>8. \A m, n \in 1 .. Len(l) : m < n => l[m] < l[n]
  <2>1. ASSUME NEW m \in 1 .. Len(l), NEW n \in 1 .. Len(l), m < n PROVE l[m] < l[n]
    <3>1. CASE n <= Len(e)
      BY <3>1, <2>1, <1>1, <1>3
    <3>2. CASE m <= Len(e) /\ n > Len(e)
      <4>1. l[m] < p /\ l[m] \in Nat
        BY <3>2, <2>1, <1>1, <1>3
      <4>2. l[n] >= p /\ l[n] \in Nat
        BY <3>2, <2>1, <1>1, <1>4, <1>5
      <4> QED
        BY <4>1, <4>2
    <3>3. CASE m > Len(e) /\ n > Len(e)
      <4>1. m \in Len(e) + 1 .. Len(e) + q /\ n \in Len(e) + 1 .. Len(e) + q
        BY <3>3, <2>1, <1>1, <1>5
      <4>2. l[m] = p + m - Len(e) - 1 /\ l[n] = p + n - Len(e) - 1
        BY <4>1, <1>4
      <4> QED
        BY <4>2, <2>1, <1>1
    <3> QED
      BY <3>1, <3>2, <3>3, <1>1, <2>1
  <2> QED
    BY <2>1
<1> HIDE DEF l
<1>9. Enumerates(l, S \cup p .. p + q - 1)
  BY <1>5, <1>6, <1>7, <1>8 DEF Enumerates
<1> QED
  BY <1>3, <1>4, <1>5, <1>9

\* The least of a set of numbers
LEMMA EarliestIs ==
    ASSUME NEW S \in SUBSET Nat
    PROVE  /\ \A v \in S : (\A j \in S : v <= j) => Shots!Earliest(S) = v
           /\ S # {} => Shots!Earliest(S) \in S /\ \A j \in S : Shots!Earliest(S) <= j
<1>1. ASSUME NEW v \in S, \A j \in S : v <= j PROVE Shots!Earliest(S) = v
  <2>1. Shots!Earliest(S) \in S /\ \A j \in S : Shots!Earliest(S) <= j
    BY <1>1 DEF Shots!Earliest
  <2>2. Shots!Earliest(S) <= v /\ v <= Shots!Earliest(S) /\ Shots!Earliest(S) \in Nat /\ v \in Nat
    BY <2>1, <1>1
  <2> QED
    BY <2>2
<1>2. ASSUME S # {} PROVE \E v \in S : \A j \in S : v <= j
  BY <1>2, LeastNat
<1> QED
  BY <1>1, <1>2
-----------------------------------------------------------------------------
(* Videos and pictures. *)
Images == [frame : Int, size : Nat]
Places == [width : Nat, pixels : Int, pbo : Int, pbo_mapped : BOOLEAN, multiplicity : Nat]
Seen == [time : 0 .. MaxTime, size : Size, ok : BOOLEAN, key : BOOLEAN]

ShotsTypeOK ==
    /\ mode \in Mode /\ size \in Size /\ now \in 0 .. MaxTime
    /\ video_cur \in Shots!Place /\ video_data \in [Shots!Place -> Places]
    /\ video_first \in BOOLEAN /\ video_done \in BOOLEAN /\ video_frame_time \in Int
    /\ keypress_screenshot \in BOOLEAN
    /\ swap_history \in Seq(Seen) /\ out \in Seq(Images)

FirstSeen == swap_history[Shots!Start]

\* n ticks have been seen, and video_frame_time is that of the next.
Clock(n) ==
    /\ video_frame_time = FirstSeen.time + n * Step
    /\ Shots!Moments = 0 .. n - 1
    /\ \A v \in DOMAIN swap_history : v >= Shots!Start => swap_history[v].time < video_frame_time

(* The video so far: of e, the moments that are due, all are out but those of the frame
   that was captured last, which is in the place that is fetched next. *)
Pending ==
    IF mode.lag = 1 THEN 0 ELSE IF mode.lavc THEN video_data[Shots!Fetch].multiplicity ELSE 1
Encoding(e) ==
    /\ Len(e) > 0 /\ Len(e) = Len(out) + Pending
    /\ \A n \in 1 .. Len(out) : out[n] = Shots!Picture(e[n])
    /\ \A n \in Len(out) + 1 .. Len(e) : Shots!SwapOf(e[n]) = Shots!SwapOf(e[Len(e)])
    /\ video_data[Shots!Fetch].width = FirstSeen.size
    /\ Shots!Mapped(video_data[Shots!Fetch]).pixels = Shots!SwapOf(e[Len(e)])
Recorded ==
    /\ video_first <=> Shots!Ok = {}
    /\ video_first => out = <<>> /\ video_cur = 0 /\ \A v \in Shots!Place : video_data[v].width = 0
    /\ ~video_first =>
          /\ video_data[0].width = FirstSeen.size
          /\ Shots!Timed => \E n \in Nat : Clock(n)
          /\ \A k \in Shots!Due : Shots!Picture(k).size = FirstSeen.size
          /\ \E e : Enumerates(e, Shots!Due) /\ Encoding(e)

\* Everything so far: of e, the moments that are shown, the same.
Matches(e) ==
    /\ Enumerates(e, Shots!Shown)
    /\ \A n \in 1 .. Len(out) :
          IF n <= Len(e) THEN out[n] = Shots!Picture(e[n])
                         ELSE video_done /\ Len(e) > 0 /\ out[n] = Shots!Picture(e[Len(e)])
    /\ Len(out) < Len(e) =>
          mode.lag > 1 /\ \A n \in Len(out) + 1 .. Len(e) : Shots!SwapOf(e[n]) = Shots!SwapOf(e[Len(e)])

ShotsInv ==
    /\ ShotsTypeOK
    /\ ~mode.video => pipe = "open" /\ ~video_done
    /\ pipe = "open" => IF mode.video /\ ~video_done THEN Recorded ELSE \E e : Matches(e)
-----------------------------------------------------------------------------
\* What is read back into a place is what is encoded from there, even twice.
LEMMA PlaceFacts ==
    ASSUME ShotsTypeOK, NEW d \in Places
    PROVE  LET r == Shots!ReadBack(Shots!Prepared(d))
               u == Shots!Unmapped(Shots!Mapped(d))
           IN  /\ r \in Places /\ r.width = size /\ r.multiplicity = d.multiplicity
               /\ Shots!Mapped(r).pixels = Len(swap_history) + 1
               /\ u \in Places /\ u.width = d.width /\ u.multiplicity = d.multiplicity
               /\ Shots!Mapped(u).pixels = Shots!Mapped(d).pixels
               /\ Shots!Mapped(d).pixels \in Int
<1> USE DEF Shots!NoPbo, Shots!NoPixels, Shots!Blank
<1>1. size \in Nat /\ Len(swap_history) + 1 \in Int /\ mode.pbo \in BOOLEAN /\ mode.map \in BOOLEAN
  BY PicturesAssumption DEF ShotsTypeOK, Shots!ModeAssumption
<1>2. Shots!Prepared(d) \in Places /\ Shots!Prepared(d).width = size
      /\ Shots!Prepared(d).multiplicity = d.multiplicity
  <2>1. CASE (d.pixels = -1 /\ d.pbo = -1) \/ d.width # size
    <3>1. Shots!Prepared(d) = [width |-> size, pixels |-> IF mode.pbo THEN -1 ELSE 0,
                               pbo |-> IF mode.pbo THEN 0 ELSE -1, pbo_mapped |-> d.pbo_mapped,
                               multiplicity |-> d.multiplicity]
      BY <2>1 DEF Shots!Prepared, Places
    <3> QED
      BY <3>1, <1>1 DEF Places
  <2>2. CASE ~((d.pixels = -1 /\ d.pbo = -1) \/ d.width # size)
    <3>1. Shots!Prepared(d) = d
      BY <2>2 DEF Shots!Prepared
    <3> QED
      BY <3>1, <2>2
  <2> QED
    BY <2>1, <2>2
<1>3. ASSUME NEW p \in Places, p.width = size
      PROVE  LET r == Shots!ReadBack(p) IN
             /\ r \in Places /\ r.width = size /\ r.multiplicity = p.multiplicity
             /\ Shots!Mapped(r).pixels = Len(swap_history) + 1
  BY <1>1, <1>3 DEF Shots!ReadBack, Shots!Mapped, Shots!Frame, Places
<1>4. /\ Shots!Mapped(d) \in Places /\ Shots!Mapped(d).width = d.width
      /\ Shots!Mapped(d).multiplicity = d.multiplicity /\ Shots!Mapped(d).pbo = d.pbo
      /\ Shots!Mapped(d).pixels = IF d.pbo = -1 THEN d.pixels ELSE d.pbo
  BY <1>1 DEF Shots!Mapped, Places
<1>5. ASSUME NEW m \in Places
      PROVE  LET u == Shots!Unmapped(m) IN
             /\ u \in Places /\ u.width = m.width /\ u.multiplicity = m.multiplicity
             /\ Shots!Mapped(u).pixels = IF m.pbo = -1 THEN m.pixels ELSE m.pbo
  BY <1>1 DEF Shots!Unmapped, Shots!Mapped, Places
<1>6. Shots!Mapped(d).pixels \in Int
  BY <1>4 DEF Places
<1> HIDE DEF Shots!NoPbo, Shots!NoPixels, Shots!Blank
<1> QED
  BY <1>2, <1>3, <1>4, <1>5, <1>6

\* The history and one more swap
LEMMA SwappedFacts ==
    ASSUME ShotsTypeOK, NEW w \in BOOLEAN, Shots!Swapped(w)
    PROVE  /\ mode' = mode /\ size' \in Size /\ now' \in 0 .. MaxTime /\ keypress_screenshot' \in BOOLEAN
           /\ swap_history' \in Seq(Seen)
           /\ Shots!Frame \in Nat /\ Shots!Frame = Len(swap_history) + 1
           /\ DOMAIN swap_history \subseteq Nat /\ \A v \in DOMAIN swap_history : v < Shots!Frame
           /\ DOMAIN swap_history' = DOMAIN swap_history \cup {Shots!Frame}
           /\ \A v \in DOMAIN swap_history : swap_history'[v] = swap_history[v]
           /\ swap_history'[Shots!Frame] = [time |-> now, size |-> size, ok |-> w, key |-> keypress_screenshot]
           /\ Shots!Timed' <=> Shots!Timed
<1> DEFINE s == [time |-> now, size |-> size, ok |-> w, key |-> keypress_screenshot]
<1>1. s \in Seen
  BY DEF ShotsTypeOK, Seen
<1>2. swap_history' = Append(swap_history, s) /\ mode' = mode
  BY DEF Shots!Swapped
<1>3. now' \in 0 .. MaxTime /\ size' \in Size /\ keypress_screenshot' \in BOOLEAN
  <2>1. MaxTime \in Nat /\ MaxPause \in Nat
    BY PicturesAssumption DEF Shots!ModeAssumption
  <2>2. CASE Len(swap_history') = MaxSwaps
    BY <2>2 DEF Shots!Swapped, ShotsTypeOK
  <2>3. CASE Len(swap_history') # MaxSwaps
    <3>1. /\ now' \in now .. (IF Shots!Timed THEN now + MaxPause ELSE now) /\ now' <= MaxTime
          /\ size' \in Size /\ keypress_screenshot' \in IF mode.video THEN {FALSE} ELSE BOOLEAN
      BY <2>3 DEF Shots!Swapped
    <3>2. now \in Nat /\ now' \in now .. (now + MaxPause) \cup now .. now /\ now' \in Int /\ now' >= now
      BY <3>1, <2>1 DEF ShotsTypeOK
    <3>3. keypress_screenshot' \in BOOLEAN
      BY <3>1
    <3> QED
      BY <3>1, <3>2, <3>3, <2>1
  <2> QED
    BY <2>2, <2>3
<1>4. swap_history \in Seq(Seen)
  BY DEF ShotsTypeOK
<1> HIDE DEF s
<1>5. /\ swap_history' \in Seq(Seen) /\ Shots!Frame \in Nat /\ Shots!Frame = Len(swap_history) + 1
      /\ DOMAIN swap_history = 1 .. Len(swap_history) /\ Len(swap_history) \in Nat
      /\ DOMAIN swap_history' = 1 .. Len(swap_history) + 1
      /\ \A v \in DOMAIN swap_history : swap_history'[v] = swap_history[v]
      /\ swap_history'[Shots!Frame] = s
  BY <1>1, <1>2, <1>4 DEF Shots!Frame
<1>6. Shots!Timed' <=> Shots!Timed
  BY <1>2 DEF Shots!Timed
<1> QED
  BY <1>2, <1>3, <1>5, <1>6 DEF s

\* The first swap that is not left out remains the first.
LEMMA StartFacts ==
    ASSUME ShotsTypeOK, NEW w \in BOOLEAN, Shots!Swapped(w)
    PROVE  /\ Shots!Ok' = Shots!Ok \cup IF w THEN {Shots!Frame} ELSE {}
           /\ Shots!Ok # {} => /\ Shots!Start' = Shots!Start /\ FirstSeen' = FirstSeen
                               /\ Shots!Start \in DOMAIN swap_history /\ FirstSeen \in Seen
           /\ Shots!Ok = {} /\ w => Shots!Start' = Shots!Frame
<1>1. Shots!Ok' = Shots!Ok \cup IF w THEN {Shots!Frame} ELSE {}
  <2> DEFINE s == [time |-> now, size |-> size, ok |-> w, key |-> keypress_screenshot]
  <2>0. /\ DOMAIN swap_history' = DOMAIN swap_history \cup {Shots!Frame}
        /\ \A v \in DOMAIN swap_history : swap_history'[v] = swap_history[v]
        /\ swap_history'[Shots!Frame] = s
        /\ Shots!Frame \in Nat /\ \A v \in DOMAIN swap_history : v < Shots!Frame
    BY SwappedFacts
  <2>1. /\ swap_history'[Shots!Frame].ok = w
        /\ \A v \in DOMAIN swap_history : swap_history'[v].ok = swap_history[v].ok
    BY <2>0
  <2>2. Shots!Ok' = {v \in DOMAIN swap_history' : swap_history'[v].ok}
    BY DEF Shots!Ok
  <2>3. Shots!Ok = {v \in DOMAIN swap_history : swap_history[v].ok}
    BY DEF Shots!Ok
  <2>4. Shots!Frame \notin DOMAIN swap_history
    BY <2>0
  <2> QED
    BY <2>0, <2>1, <2>2, <2>3, <2>4
<1>2. Shots!Ok \subseteq DOMAIN swap_history /\ Shots!Ok \subseteq Nat /\ Shots!Ok' \subseteq Nat
      /\ \A v \in Shots!Ok : v < Shots!Frame
  BY <1>1, SwappedFacts DEF Shots!Ok
<1>3. ASSUME Shots!Ok # {}
      PROVE  /\ Shots!Start' = Shots!Start /\ FirstSeen' = FirstSeen
             /\ Shots!Start \in DOMAIN swap_history /\ FirstSeen \in Seen
  <2>1. Shots!Start \in Shots!Ok /\ \A j \in Shots!Ok : Shots!Start <= j
    BY <1>2, <1>3, EarliestIs DEF Shots!Start
  <2>2. Shots!Start \in Shots!Ok' /\ \A j \in Shots!Ok' : Shots!Start <= j
    BY <2>1, <1>1, <1>2, SwappedFacts
  <2>3. Shots!Start' = Shots!Start
    BY <2>2, <1>2, EarliestIs DEF Shots!Start
  <2>4. Shots!Start \in DOMAIN swap_history
    BY <2>1, <1>2
  <2>5. swap_history[Shots!Start] \in Seen
    BY <2>4 DEF ShotsTypeOK
  <2>6. swap_history'[Shots!Start] = swap_history[Shots!Start]
    BY <2>4, SwappedFacts
  <2> QED
    BY <2>3, <2>4, <2>5, <2>6 DEF FirstSeen
<1>4. ASSUME Shots!Ok = {}, w PROVE Shots!Start' = Shots!Frame
  <2>1. Shots!Ok' = {Shots!Frame}
    BY <1>1, <1>4
  <2> QED
    BY <2>1, <1>2, EarliestIs, SwappedFacts DEF Shots!Start
<1> QED
  BY <1>1, <1>3, <1>4
-----------------------------------------------------------------------------
\* Of a video with all frames, and of pictures, the moments are the swaps.
LEMMA Untimed ==
    /\ ~Shots!Timed => Shots!Due = Shots!Ok /\ \A k : Shots!SwapOf(k) = k
    /\ ~Shots!Timed' => Shots!Due' = Shots!Ok' /\ \A k : Shots!SwapOf(k)' = k
<1>1. ASSUME ~Shots!Timed PROVE Shots!Due = Shots!Ok /\ \A k : Shots!SwapOf(k) = k
  <2>1. \A k : Shots!SwapOf(k) = k
    BY <1>1 DEF Shots!SwapOf
  <2>2. Shots!Moments = IF Shots!Ok = {} THEN {} ELSE DOMAIN swap_history
    BY <1>1 DEF Shots!Moments
  <2> QED
    BY <2>1, <2>2 DEF Shots!Due, Shots!Ok
<1>2. ASSUME ~Shots!Timed' PROVE Shots!Due' = Shots!Ok' /\ \A k : Shots!SwapOf(k)' = k
  <2>1. \A k : Shots!SwapOf(k)' = k
    BY <1>2 DEF Shots!SwapOf
  <2>2. Shots!Moments' = IF Shots!Ok' = {} THEN {} ELSE DOMAIN swap_history'
    BY <1>2 DEF Shots!Moments
  <2> QED
    BY <2>1, <2>2 DEF Shots!Due, Shots!Ok
<1> QED
  BY <1>1, <1>2

\* What a swap adds to what is due is its own, and what was due is as it was.
Adds(new, f) ==
    /\ Shots!Due' = Shots!Due \cup new
    /\ \A k \in Shots!Due : /\ k \in Nat
                            /\ Shots!SwapOf(k)' = Shots!SwapOf(k)
                            /\ Shots!Picture(k)' = Shots!Picture(k)
    /\ \A k \in new : /\ Shots!SwapOf(k)' = f
                      /\ Shots!Picture(k)' = [frame |-> f, size |-> size]

\* Of a video with all frames, and of pictures, it is the moment of the swap.
LEMMA UntimedMoments ==
    ASSUME ShotsTypeOK, NEW w \in BOOLEAN, Shots!Swapped(w), ~Shots!Timed,
           NEW f, f = Shots!Frame
    PROVE  Adds(IF w THEN {f} ELSE {}, f) /\ \A k \in Shots!Due : k < f
<1> DEFINE s == [time |-> now, size |-> size, ok |-> w, key |-> keypress_screenshot]
<1>0. /\ \A v \in DOMAIN swap_history : swap_history'[v] = swap_history[v] /\ v < f /\ v \in Nat
      /\ swap_history'[f] = s /\ ~Shots!Timed' /\ Shots!Ok' = Shots!Ok \cup IF w THEN {f} ELSE {}
  BY SwappedFacts, StartFacts
<1>1. /\ Shots!Due = Shots!Ok /\ Shots!Due' = Shots!Ok'
      /\ \A k : Shots!SwapOf(k) = k /\ Shots!SwapOf(k)' = k
  BY <1>0, Untimed
<1>2. /\ \A v \in DOMAIN swap_history : swap_history'[v].size = swap_history[v].size
      /\ swap_history'[f].size = size
  BY <1>0
<1>3. \A k \in Shots!Due : k \in DOMAIN swap_history
  BY <1>1 DEF Shots!Ok
<1>4. Shots!Picture(f)' = [frame |-> f, size |-> size]
  BY <1>1, <1>2 DEF Shots!Picture
<1>5. \A k \in Shots!Due : Shots!Picture(k)' = Shots!Picture(k)
  BY <1>1, <1>2, <1>3 DEF Shots!Picture
<1> QED
  BY <1>0, <1>1, <1>3, <1>4, <1>5 DEF Adds

\* How often some number goes into another
LEMMA DivFacts ==
    ASSUME NEW a \in Nat, NEW s \in Nat \ {0}
    PROVE  a \div s \in Nat /\ (a \div s) * s <= a /\ a < (a \div s) * s + s
OBVIOUS

\* Multiples are in the order of their factors.
LEMMA TimesFacts ==
    ASSUME NEW j \in Int, NEW k \in Int, NEW s \in Nat \ {0}, j <= k
    PROVE  j * s <= k * s /\ (j >= 0 => j <= j * s) /\ j * s \in Int
<1>1. (k - j) * s >= 0 /\ (k - j) * s = k * s - j * s /\ j * s \in Int /\ k * s \in Int
  OBVIOUS
<1>2. j >= 0 => j <= j * s
  OBVIOUS
<1> QED
  BY <1>1, <1>2

\* The ticks that have passed by the next swap, and no other
LEMMA TicksFacts ==
    ASSUME ShotsTypeOK, Shots!FrameTime \in Int
    PROVE  /\ Shots!Ticks \in Nat /\ now < Shots!FrameTime + Shots!Ticks * Step
           /\ Shots!Ticks > 0 => Shots!FrameTime + (Shots!Ticks - 1) * Step <= now
<1> DEFINE f == Shots!FrameTime
<1>1. now \in Int /\ f \in Int /\ Step \in Nat \ {0}
  BY PicturesAssumption DEF ShotsTypeOK, Shots!ModeAssumption
<1> HIDE DEF f
<1>2. CASE now < f
  <2>1. Shots!Ticks = 0
    BY <1>2 DEF Shots!Ticks, f
  <2> QED
    BY <2>1, <1>1, <1>2 DEF f
<1>3. CASE ~(now < f)
  <2> DEFINE q == (now - f) \div Step
  <2>1. Shots!Ticks = q + 1
    BY <1>3 DEF Shots!Ticks, f
  <2>2. now - f \in Nat
    BY <1>1, <1>3
  <2>3. q \in Nat /\ q * Step <= now - f /\ now - f < q * Step + Step
    BY <1>1, <2>2, DivFacts
  <2> HIDE DEF q
  <2>4. (q + 1) * Step = q * Step + Step /\ q * Step \in Int /\ (q + 1) - 1 = q
    BY <1>1, <2>3
  <2> QED
    BY <1>1, <2>1, <2>3, <2>4 DEF f
<1> QED
  BY <1>2, <1>3

\* A swap is at a tick if the ones before it were, or at those that have passed by now.
LEMMA AtTickFacts ==
    ASSUME ShotsTypeOK, NEW w \in BOOLEAN, Shots!Swapped(w), Shots!Ok # {}, NEW f, f = Shots!Frame,
           NEW k \in Nat
    PROVE  /\ Shots!AtTick(k) \subseteq DOMAIN swap_history /\ Shots!AtTick(k) \subseteq Nat
           /\ Shots!AtTick(k)' = Shots!AtTick(k) \cup IF now >= FirstSeen.time + k * Step THEN {f} ELSE {}
           /\ Shots!AtTick(k) # {} => Shots!SwapOf(k)' = Shots!SwapOf(k)
           /\ Shots!AtTick(k) # {} /\ Shots!Timed => Shots!SwapOf(k) \in DOMAIN swap_history
           /\ Shots!AtTick(k) = {} /\ Shots!Timed /\ now >= FirstSeen.time + k * Step => Shots!SwapOf(k)' = f
<1> DEFINE s == [time |-> now, size |-> size, ok |-> w, key |-> keypress_screenshot]
<1>1. /\ \A v \in DOMAIN swap_history : swap_history'[v] = swap_history[v] /\ v < f /\ v \in Nat
      /\ swap_history'[f] = s /\ f \in Nat /\ DOMAIN swap_history' = DOMAIN swap_history \cup {f}
      /\ Shots!Timed' <=> Shots!Timed
  BY SwappedFacts
<1>2. Shots!Start' = Shots!Start /\ FirstSeen' = FirstSeen /\ Shots!Start \in DOMAIN swap_history
  BY StartFacts
<1>3. /\ \A v \in DOMAIN swap_history : swap_history'[v].time = swap_history[v].time
      /\ swap_history'[f].time = now /\ f >= Shots!Start
  BY <1>1, <1>2
<1> DEFINE b == FirstSeen.time + k * Step
<1>4. Shots!AtTick(k) = {v \in DOMAIN swap_history : v >= Shots!Start /\ swap_history[v].time >= b}
  BY DEF Shots!AtTick, FirstSeen
<1>5. Shots!AtTick(k)' = {v \in DOMAIN swap_history' : v >= Shots!Start /\ swap_history'[v].time >= b}
  BY <1>2 DEF Shots!AtTick, FirstSeen
<1> HIDE DEF b
<1>6. Shots!AtTick(k)' = Shots!AtTick(k) \cup IF now >= b THEN {f} ELSE {}
  BY <1>1, <1>3, <1>4, <1>5
<1>7. Shots!AtTick(k) \subseteq DOMAIN swap_history /\ Shots!AtTick(k) \subseteq Nat
  BY <1>1, <1>4
<1>8. Shots!AtTick(k)' \subseteq Nat
  BY <1>1, <1>6, <1>7
<1>9. ASSUME Shots!AtTick(k) # {}, Shots!Timed
      PROVE  Shots!SwapOf(k)' = Shots!SwapOf(k) /\ Shots!SwapOf(k) \in DOMAIN swap_history
  <2> DEFINE v == Shots!Earliest(Shots!AtTick(k))
  <2>1. v \in Shots!AtTick(k) /\ \A j \in Shots!AtTick(k) : v <= j
    BY <1>7, <1>9, EarliestIs
  <2>2. v \in DOMAIN swap_history /\ v \in Nat /\ v < f
    BY <2>1, <1>1, <1>7
  <2>3. v \in Shots!AtTick(k)' /\ \A j \in Shots!AtTick(k)' : v <= j
    BY <2>1, <2>2, <1>1, <1>6
  <2> HIDE DEF v
  <2>4. Shots!Earliest(Shots!AtTick(k)') = v
    BY <2>3, <1>8, EarliestIs
  <2>5. Shots!SwapOf(k)' = Shots!Earliest(Shots!AtTick(k)') /\ Shots!SwapOf(k) = v
    BY <1>1, <1>9 DEF Shots!SwapOf, v
  <2> QED
    BY <2>2, <2>4, <2>5
<1>10. ASSUME Shots!AtTick(k) = {}, Shots!Timed, now >= b PROVE Shots!SwapOf(k)' = f
  <2>1. Shots!AtTick(k)' = {f}
    BY <1>6, <1>10
  <2>2. Shots!Earliest(Shots!AtTick(k)') = f
    BY <2>1, <1>1, <1>8, EarliestIs
  <2> QED
    BY <2>2, <1>1, <1>10 DEF Shots!SwapOf
<1>11. ~Shots!Timed => Shots!SwapOf(k)' = Shots!SwapOf(k)
  BY <1>1, Untimed
<1> QED
  BY <1>6, <1>7, <1>9, <1>10, <1>11 DEF b

\* Of another, the swap has the ticks that have passed since the last that was counted.
LEMMA TimedMoments ==
    ASSUME ShotsTypeOK, NEW w \in BOOLEAN, Shots!Swapped(w), Shots!Timed, Shots!Ok # {},
           NEW f, f = Shots!Frame, NEW n \in Nat, Clock(n), ~video_first, NEW t, t = Shots!Ticks,
           video_frame_time' = Shots!FrameTime + Shots!Ticks * Step
    PROVE  /\ t \in Nat /\ (\E m \in Nat : Clock(m)') /\ Adds(IF w THEN n .. n + t - 1 ELSE {}, f)
           /\ \A k \in Shots!Due : k < n
<1>1. /\ FirstSeen \in Seen /\ FirstSeen.time \in 0 .. MaxTime /\ now \in 0 .. MaxTime /\ MaxTime \in Nat
      /\ Step \in Nat \ {0} /\ FirstSeen' = FirstSeen /\ Shots!Start' = Shots!Start
      /\ Shots!Start \in DOMAIN swap_history
  BY StartFacts, PicturesAssumption DEF ShotsTypeOK, Seen, Shots!ModeAssumption
<1>2. Shots!FrameTime = video_frame_time /\ video_frame_time = FirstSeen.time + n * Step
      /\ video_frame_time \in Int /\ n * Step \in Int
  BY <1>1 DEF Shots!FrameTime, Clock
<1>3. /\ t \in Nat /\ now < video_frame_time + t * Step
      /\ t > 0 => video_frame_time + (t - 1) * Step <= now
  BY <1>2, TicksFacts
<1>4. (n + t) * Step = n * Step + t * Step /\ (n + t - 1) * Step = n * Step + (t - 1) * Step
      /\ t * Step \in Int /\ (t - 1) * Step \in Int
  BY <1>1, <1>3
<1>5. video_frame_time' = FirstSeen.time + (n + t) * Step
  BY <1>1, <1>2, <1>3, <1>4
<1>6. \A v \in DOMAIN swap_history : v >= Shots!Start => swap_history[v].time < FirstSeen.time + n * Step
  BY <1>2 DEF Clock
<1>18. \A v \in DOMAIN swap_history : swap_history[v].time \in Int
  <2>1. ASSUME NEW v \in DOMAIN swap_history PROVE swap_history[v] \in Seen
    BY <2>1 DEF ShotsTypeOK
  <2> QED
    BY <2>1, <1>1 DEF Seen
<1>7. ASSUME NEW k \in Nat
      PROVE  /\ k < n => Shots!AtTick(k) # {}
             /\ k >= n => Shots!AtTick(k) = {}
             /\ k \in n .. n + t - 1 => now >= FirstSeen.time + k * Step /\ k <= MaxTime
             /\ k >= n + t => now < FirstSeen.time + k * Step
  <2>1. k < n => Shots!AtTick(k) # {}
    <3>1. SUFFICES ASSUME k < n PROVE Shots!AtTick(k) # {}
      OBVIOUS
    <3>2. k \in Shots!Moments
      BY <3>1 DEF Clock
    <3> QED
      BY <3>2 DEF Shots!Moments
  <2>2. k >= n => Shots!AtTick(k) = {}
    <3>1. SUFFICES ASSUME k >= n, NEW v \in Shots!AtTick(k) PROVE FALSE
      OBVIOUS
    <3>2. v \in DOMAIN swap_history /\ v >= Shots!Start /\ swap_history[v].time >= FirstSeen.time + k * Step
      BY <3>1 DEF Shots!AtTick, FirstSeen
    <3>3. n * Step <= k * Step /\ k * Step \in Int
      BY <1>1, <3>1, TimesFacts
    <3>4. swap_history[v].time \in Int
      BY <3>2, <1>18
    <3> QED
      BY <3>2, <3>3, <3>4, <1>1, <1>2, <1>6
  <2>3. k \in n .. n + t - 1 => now >= FirstSeen.time + k * Step /\ k <= MaxTime
    <3>1. SUFFICES ASSUME k \in n .. n + t - 1 PROVE now >= FirstSeen.time + k * Step /\ k <= MaxTime
      OBVIOUS
    <3>2. k * Step <= (n + t - 1) * Step /\ k <= k * Step /\ k * Step \in Int /\ t > 0
      BY <1>1, <1>3, <3>1, TimesFacts
    <3> QED
      BY <3>2, <1>1, <1>2, <1>3, <1>4
  <2>4. k >= n + t => now < FirstSeen.time + k * Step
    <3>1. SUFFICES ASSUME k >= n + t PROVE now < FirstSeen.time + k * Step
      OBVIOUS
    <3>2. (n + t) * Step <= k * Step /\ k * Step \in Int
      BY <1>1, <1>3, <3>1, TimesFacts
    <3> QED
      BY <3>2, <1>1, <1>2, <1>3, <1>4
  <2> QED
    BY <2>1, <2>2, <2>3, <2>4
<1>8. /\ \A v \in DOMAIN swap_history : swap_history'[v] = swap_history[v] /\ v < f /\ v \in Nat
      /\ swap_history'[f] = [time |-> now, size |-> size, ok |-> w, key |-> keypress_screenshot]
      /\ f \in Nat /\ DOMAIN swap_history' = DOMAIN swap_history \cup {f}
      /\ Shots!Timed' /\ Shots!Ok' # {}
  BY SwappedFacts, StartFacts
<1>9. ASSUME NEW k \in Nat
      PROVE  /\ k < n + t <=> Shots!AtTick(k)' # {}
             /\ k < n + t => k <= MaxTime
             /\ k < n => /\ Shots!SwapOf(k)' = Shots!SwapOf(k) /\ Shots!Picture(k)' = Shots!Picture(k)
                         /\ Shots!SwapOf(k) \in DOMAIN swap_history
             /\ k \in n .. n + t - 1 => Shots!SwapOf(k)' = f /\ Shots!Picture(k)' = [frame |-> f, size |-> size]
  <2>1. Shots!AtTick(k)' = Shots!AtTick(k) \cup IF now >= FirstSeen.time + k * Step THEN {f} ELSE {}
    BY AtTickFacts
  <2>2. CASE k < n
    <3>1. Shots!AtTick(k) # {} /\ k \in 0 .. n - 1
      BY <1>7, <2>2
    <3>2. Shots!SwapOf(k)' = Shots!SwapOf(k) /\ Shots!SwapOf(k) \in DOMAIN swap_history
      BY <3>1, AtTickFacts
    <3>3. k \in Shots!Moments
      BY <3>1 DEF Clock
    <3>4. k <= MaxTime
      BY <3>3 DEF Shots!Moments
    <3>5. Shots!Picture(k)' = Shots!Picture(k)
      BY <3>2, <1>8 DEF Shots!Picture
    <3> QED
      BY <1>3, <2>1, <2>2, <3>1, <3>2, <3>4, <3>5
  <2>3. CASE k \in n .. n + t - 1
    <3>1. Shots!AtTick(k) = {} /\ now >= FirstSeen.time + k * Step /\ k <= MaxTime
      BY <1>7, <2>3
    <3>2. Shots!SwapOf(k)' = f
      BY <3>1, AtTickFacts
    <3>3. swap_history'[f].size = size
      BY <1>8
    <3>4. Shots!Picture(k)' = [frame |-> f, size |-> size]
      BY <3>2, <3>3 DEF Shots!Picture
    <3> QED
      BY <1>3, <2>1, <2>3, <3>1, <3>2, <3>4
  <2>4. CASE k >= n + t
    <3>1. Shots!AtTick(k) = {} /\ now < FirstSeen.time + k * Step
      BY <1>3, <1>7, <2>4
    <3>2. FirstSeen.time + k * Step \in Int
      BY <1>1
    <3>3. ~(now >= FirstSeen.time + k * Step)
      BY <3>1, <3>2, <1>1
    <3>4. Shots!AtTick(k)' = {}
      BY <2>1, <3>1, <3>3
    <3> QED
      BY <1>3, <2>4, <3>4
  <2> QED
    BY <1>3, <2>2, <2>3, <2>4
<1>10. Shots!Moments' = 0 .. n + t - 1
  <2>1. Shots!Moments' = {k \in 0 .. MaxTime : Shots!AtTick(k)' # {}}
    BY <1>8 DEF Shots!Moments
  <2>2. \A k \in Nat : k \in 0 .. MaxTime /\ Shots!AtTick(k)' # {} <=> k \in 0 .. n + t - 1
    <3>1. ASSUME NEW k \in Nat
          PROVE  k \in 0 .. MaxTime /\ Shots!AtTick(k)' # {} <=> k \in 0 .. n + t - 1
      <4>1. (k < n + t <=> Shots!AtTick(k)' # {}) /\ (k < n + t => k <= MaxTime)
        BY <1>9
      <4>2. k < n + t <=> k \in 0 .. n + t - 1
        BY <1>3
      <4> QED
        BY <4>1, <4>2, <1>1
    <3> QED
      BY <3>1
  <2> QED
    BY <2>1, <2>2, <1>1
<1>11. ASSUME NEW v \in DOMAIN swap_history', v >= Shots!Start'
       PROVE  swap_history'[v].time < video_frame_time'
  <2>1. t * Step >= 0
    BY <1>1, <1>3
  <2>2. CASE v = f
    BY <2>2, <1>1, <1>2, <1>3, <1>4, <1>5, <1>8
  <2>3. CASE v \in DOMAIN swap_history
    <3>1. swap_history'[v] = swap_history[v] /\ swap_history[v].time < FirstSeen.time + n * Step
      BY <2>3, <1>1, <1>6, <1>8, <1>11
    <3>2. swap_history[v].time \in Int
      BY <2>3, <1>18
    <3> QED
      BY <3>1, <3>2, <2>1, <1>1, <1>2, <1>4, <1>5
  <2> QED
    BY <2>2, <2>3, <1>8, <1>11
<1>12. \E m \in Nat : Clock(m)'
  <2>0. PICK m \in Nat : m = n + t
    BY <1>3
  <2>1. \A v \in DOMAIN swap_history' : v >= Shots!Start' => swap_history'[v].time < video_frame_time'
    BY <1>11
  <2>2. video_frame_time' = FirstSeen'.time + m * Step /\ Shots!Moments' = 0 .. m - 1
    <3>1. FirstSeen' = FirstSeen
      BY <1>1
    <3>2. Shots!Moments' = 0 .. m - 1
      <4>1. m - 1 = n + t - 1
        BY <2>0, <1>3
      <4> QED
        BY <4>1, <1>10
    <3>3. FirstSeen'.time = FirstSeen.time
      BY <3>1
    <3>4. (n + t) * Step = m * Step
      BY <2>0
    <3> QED
      BY <3>2, <3>3, <3>4, <1>5
  <2>3. Clock(m)'
    BY <2>1, <2>2 DEF Clock
  <2> QED
    BY <2>3
<1>13. Shots!Due = {k \in 0 .. n - 1 : swap_history[Shots!SwapOf(k)].ok}
  BY DEF Shots!Due, Clock
<1>14. Shots!Due' = {k \in 0 .. n + t - 1 : swap_history'[Shots!SwapOf(k)'].ok}
  BY <1>10 DEF Shots!Due
<1>15. /\ \A k \in 0 .. n - 1 : swap_history'[Shots!SwapOf(k)'].ok = swap_history[Shots!SwapOf(k)].ok
       /\ \A k \in n .. n + t - 1 : swap_history'[Shots!SwapOf(k)'].ok = w
  <2>1. ASSUME NEW k \in 0 .. n - 1
        PROVE  swap_history'[Shots!SwapOf(k)'].ok = swap_history[Shots!SwapOf(k)].ok
    <3>1. k \in Nat /\ k < n
      BY <2>1
    <3> QED
      BY <3>1, <1>8, <1>9
  <2>2. ASSUME NEW k \in n .. n + t - 1 PROVE swap_history'[Shots!SwapOf(k)'].ok = w
    <3>1. k \in Nat
      BY <1>3, <2>2
    <3>2. Shots!SwapOf(k)' = f
      BY <3>1, <2>2, <1>9
    <3>3. swap_history'[f].ok = w
      BY <1>8
    <3> QED
      BY <3>2, <3>3
  <2> QED
    BY <2>1, <2>2
<1>16. Shots!Due' = Shots!Due \cup IF w THEN n .. n + t - 1 ELSE {}
  <2>1. 0 .. n + t - 1 = (0 .. n - 1) \cup n .. n + t - 1
    BY <1>3
  <2> QED
    BY <2>1, <1>13, <1>14, <1>15
<1>17. Adds(IF w THEN n .. n + t - 1 ELSE {}, f)
  <2>1. \A k \in Shots!Due : k \in Nat /\ k < n
    BY <1>13
  <2>2. \A k \in n .. n + t - 1 : k \in Nat
    BY <1>3
  <2> QED
    BY <2>1, <2>2, <1>9, <1>16 DEF Adds
<1> QED
  BY <1>3, <1>12, <1>13, <1>17

\* Its first swap is its first tick.
LEMMA FirstMoments ==
    ASSUME ShotsTypeOK, Shots!Swapped(TRUE), Shots!Timed, Shots!Ok = {}, NEW f, f = Shots!Frame,
           video_first, video_frame_time' = Shots!FrameTime + Shots!Ticks * Step
    PROVE  /\ Shots!Ticks = 1 /\ Clock(1)' /\ Shots!Due = {} /\ Adds({0}, f)
<1>1. /\ now \in 0 .. MaxTime /\ MaxTime \in Nat /\ Step \in Nat \ {0}
      /\ Shots!FrameTime = now
  BY PicturesAssumption DEF ShotsTypeOK, Shots!ModeAssumption, Shots!FrameTime
<1>2. Shots!Ticks = 1 /\ video_frame_time' = now + 1 * Step
  <2>1. Shots!Ticks = (now - now) \div Step + 1
    BY <1>1 DEF Shots!Ticks
  <2>2. (now - now) \div Step = 0
    BY <1>1
  <2> QED
    BY <2>1, <2>2, <1>1
<1>3. /\ swap_history'[f] = [time |-> now, size |-> size, ok |-> TRUE, key |-> keypress_screenshot]
      /\ f \in Nat /\ DOMAIN swap_history' = DOMAIN swap_history \cup {f}
      /\ \A v \in DOMAIN swap_history : v < f /\ v \in Nat
      /\ Shots!Timed' /\ Shots!Ok' = {f} /\ Shots!Start' = f
  BY SwappedFacts, StartFacts
<1>4. /\ swap_history'[f].time = now /\ swap_history'[f].size = size /\ swap_history'[f].ok = TRUE
      /\ FirstSeen' = swap_history'[f]
  BY <1>3 DEF FirstSeen
<1>5. ASSUME NEW k \in Nat
      PROVE  Shots!AtTick(k)' = IF k = 0 THEN {f} ELSE {}
  <2>1. Shots!AtTick(k)' = {v \in DOMAIN swap_history' : v >= f /\ swap_history'[v].time >= now + k * Step}
    BY <1>3, <1>4 DEF Shots!AtTick
  <2>2. \A v \in DOMAIN swap_history' : v >= f <=> v = f
    BY <1>3
  <2>3. now >= now + k * Step <=> k = 0
    <3>1. k >= 1 => 1 * Step <= k * Step /\ k * Step \in Int
      BY <1>1, TimesFacts
    <3>2. k = 0 => k * Step = 0
      BY <1>1
    <3> QED
      BY <3>1, <3>2, <1>1
  <2> QED
    BY <2>1, <2>2, <2>3, <1>3, <1>4
<1>6. Shots!Moments' = {0}
  <2>1. Shots!Moments' = {k \in 0 .. MaxTime : Shots!AtTick(k)' # {}}
    BY <1>3 DEF Shots!Moments
  <2> QED
    BY <2>1, <1>1, <1>5
<1>7. Shots!SwapOf(0)' = f /\ Shots!Picture(0)' = [frame |-> f, size |-> size]
  <2>1. Shots!AtTick(0)' = {f}
    BY <1>5
  <2>2. Shots!Earliest({f}) = f
    BY <1>3, EarliestIs
  <2>3. Shots!SwapOf(0)' = f
    BY <2>1, <2>2, <1>3 DEF Shots!SwapOf
  <2> QED
    BY <2>3, <1>4 DEF Shots!Picture
<1>8. Clock(1)'
  <2>1. \A v \in DOMAIN swap_history' : v >= Shots!Start' => swap_history'[v].time < video_frame_time'
    <3>1. \A v \in DOMAIN swap_history' : v >= f => v = f
      BY <1>3
    <3> QED
      BY <3>1, <1>1, <1>2, <1>3, <1>4
  <2>2. Shots!Moments' = 0 .. 1 - 1
    BY <1>6
  <2> QED
    BY <2>1, <2>2, <1>2, <1>4 DEF Clock
<1>9. Shots!Due = {} /\ Shots!Due' = {0}
  BY <1>4, <1>6, <1>7 DEF Shots!Due, Shots!Moments
<1> QED
  BY <1>2, <1>7, <1>8, <1>9 DEF Adds
-----------------------------------------------------------------------------
\* The place that is fetched is the one before that of the next frame, which may be all.
LEMMA FetchFacts ==
    ASSUME ShotsTypeOK
    PROVE  /\ mode.lag \in Nat \ {0} /\ Shots!Place = 0 .. mode.lag - 1 /\ 0 \in Shots!Place
           /\ Shots!Fetch \in Shots!Place /\ video_cur \in Shots!Place
           /\ mode.lag = 1 => Shots!Fetch = 0 /\ video_cur = 0
           /\ mode.lag > 1 => Shots!Fetch # video_cur
           /\ mode' = mode /\ Shots!Advance => video_cur' \in Shots!Place /\ Shots!Fetch' = video_cur
<1> DEFINE l == mode.lag  c == video_cur
<1>1. l \in Nat \ {0} /\ Shots!Place = 0 .. l - 1 /\ c \in 0 .. l - 1
  BY PicturesAssumption DEF ShotsTypeOK, Shots!ModeAssumption, Shots!Place
<1>2. Shots!Fetch = (c + l - 1) % l
  BY DEF Shots!Fetch
<1>3. mode' = mode /\ Shots!Advance => c' = (c + 1) % l /\ Shots!Fetch' = (c' + l - 1) % l
  BY DEF Shots!Fetch, Shots!Advance
<1> HIDE DEF l, c
<1>4. \A x \in 0 .. l - 1 : x % l = x /\ (x + l) % l = x
  BY <1>1
<1>5. (c + l - 1) % l = IF c = 0 THEN l - 1 ELSE c - 1
  <2>1. CASE c = 0
    <3>1. c + l - 1 = l - 1 /\ l - 1 \in 0 .. l - 1
      BY <1>1, <2>1
    <3> QED
      BY <3>1, <1>4, <2>1
  <2>2. CASE c # 0
    <3>1. c + l - 1 = (c - 1) + l /\ c - 1 \in 0 .. l - 1
      BY <1>1, <2>2
    <3> QED
      BY <3>1, <1>4, <2>2
  <2> QED
    BY <2>1, <2>2
<1>6. /\ (c + 1) % l = IF c = l - 1 THEN 0 ELSE c + 1
      /\ (((c + 1) % l) + l - 1) % l = c
  <2>1. CASE c = l - 1
    <3>1. c + 1 = 0 + l /\ 0 \in 0 .. l - 1 /\ 0 + l - 1 = l - 1 /\ l - 1 \in 0 .. l - 1
      BY <1>1, <2>1
    <3>2. (c + 1) % l = 0
      BY <3>1, <1>4
    <3> QED
      BY <3>1, <3>2, <1>4, <2>1
  <2>2. CASE c # l - 1
    <3>1. c + 1 \in 0 .. l - 1 /\ (c + 1) + l - 1 = c + l
      BY <1>1, <2>2
    <3>2. (c + 1) % l = c + 1
      BY <3>1, <1>4
    <3> QED
      BY <3>1, <3>2, <1>1, <1>4, <2>2
  <2> QED
    BY <2>1, <2>2
<1>7. mode' = mode /\ Shots!Advance => c' \in 0 .. l - 1 /\ Shots!Fetch' = c
  BY <1>1, <1>3, <1>6
<1>8. /\ Shots!Fetch \in 0 .. l - 1 /\ (l = 1 => Shots!Fetch = 0 /\ c = 0) /\ (l > 1 => Shots!Fetch # c)
      /\ 0 \in 0 .. l - 1
  BY <1>1, <1>2, <1>5
<1> QED
  BY <1>1, <1>7, <1>8 DEF l, c

\* The same picture, a few times more
LEMMA RepeatFacts ==
    ASSUME NEW o \in Seq(Images), NEW q \in Nat, NEW x \in Images
    PROVE  LET r == o \o [k \in 1 .. q |-> x] IN
           /\ r \in Seq(Images) /\ Len(r) = Len(o) + q /\ Len(o) \in Nat
           /\ \A n \in 1 .. Len(o) : r[n] = o[n]
           /\ \A n \in Len(o) + 1 .. Len(o) + q : r[n] = x
<1>1. [k \in 1 .. q |-> x] \in Seq(Images) /\ Len([k \in 1 .. q |-> x]) = q
  OBVIOUS
<1> QED
  BY <1>1

\* What Encode does to the ring and to what is out
LEMMA EncodeFacts ==
    ASSUME ShotsTypeOK, NEW d \in [Shots!Place -> Places], NEW q \in Nat, Shots!Encode(d, q)
    PROVE  /\ video_data' \in [Shots!Place -> Places]
           /\ \A v \in Shots!Place :
                 /\ video_data'[v].width = d[v].width /\ video_data'[v].multiplicity = d[v].multiplicity
                 /\ Shots!Mapped(video_data'[v]).pixels = Shots!Mapped(d[v]).pixels
           /\ out' \in Seq(Images) /\ Len(out) \in Nat
           /\ Len(out') = Len(out) + IF d[Shots!Fetch].width = 0 THEN 0 ELSE q
           /\ \A n \in 1 .. Len(out) : out'[n] = out[n]
           /\ \A n \in Len(out) + 1 .. Len(out') :
                 out'[n] = [frame |-> Shots!Mapped(d[Shots!Fetch]).pixels, size |-> d[Shots!Fetch].width]
<1> DEFINE F == Shots!Fetch
           m == Shots!Mapped(d[F])
           x == [frame |-> m.pixels, size |-> d[F].width]
<1>1. F \in Shots!Place /\ out \in Seq(Images) /\ Len(out) \in Nat /\ d[F] \in Places
  BY FetchFacts DEF ShotsTypeOK
<1>2. CASE d[F].width = 0
  <2>1. out' = out /\ video_data' = d
    BY <1>2 DEF Shots!Encode
  <2> QED
    BY <2>1, <1>1, <1>2
<1>3. CASE d[F].width # 0
  <2>1. out' = out \o Shots!Encoded(d, q) /\ video_data' = [d EXCEPT ![F] = Shots!Unmapped(Shots!Mapped(d[F]))]
    BY <1>3 DEF Shots!Encode
  <2>2. Shots!Encoded(d, q) = [k \in 1 .. q |-> x]
    BY DEF Shots!Encoded
  <2>3. x \in Images
    BY <1>1, PlaceFacts DEF Images, Places
  <2>4. /\ out' \in Seq(Images) /\ Len(out') = Len(out) + q
        /\ \A n \in 1 .. Len(out) : out'[n] = out[n]
        /\ \A n \in Len(out) + 1 .. Len(out) + q : out'[n] = x
    <3>1. out' = out \o [k \in 1 .. q |-> x]
      BY <2>1, <2>2
    <3> HIDE DEF x
    <3>2. LET r == out \o [k \in 1 .. q |-> x] IN
          /\ r \in Seq(Images) /\ Len(r) = Len(out) + q
          /\ \A n \in 1 .. Len(out) : r[n] = out[n]
          /\ \A n \in Len(out) + 1 .. Len(out) + q : r[n] = x
      BY <1>1, <2>3, RepeatFacts
    <3> QED
      BY <3>1, <3>2
  <2> DEFINE u == Shots!Unmapped(Shots!Mapped(d[F]))
  <2>5. /\ u \in Places /\ u.width = d[F].width /\ u.multiplicity = d[F].multiplicity
        /\ Shots!Mapped(u).pixels = Shots!Mapped(d[F]).pixels
    BY <1>1, PlaceFacts
  <2>6. video_data' = [d EXCEPT ![F] = u]
    BY <2>1
  <2> HIDE DEF u, x, m, F
  <2>7. video_data' \in [Shots!Place -> Places] /\ video_data'[F] = u
        /\ \A v \in Shots!Place : v # F => video_data'[v] = d[v]
    BY <1>1, <2>5, <2>6
  <2>8. \A v \in Shots!Place :
           /\ video_data'[v].width = d[v].width /\ video_data'[v].multiplicity = d[v].multiplicity
           /\ Shots!Mapped(video_data'[v]).pixels = Shots!Mapped(d[v]).pixels
    BY <2>5, <2>7
  <2> QED
    BY <1>1, <1>3, <2>4, <2>7, <2>8 DEF F, x, m
<1> QED
  BY <1>2, <1>3

\* While nothing but the first size has been due, all that is due is shown.
LEMMA ShownFacts ==
    /\ mode.video /\ (\A k \in Shots!Due : Shots!Picture(k).size = FirstSeen.size) => Shots!Shown = Shots!Due
    /\ mode'.video /\ (\A k \in Shots!Due' : Shots!Picture(k)'.size = FirstSeen'.size) => Shots!Shown' = Shots!Due'
BY DEF Shots!Shown, FirstSeen

\* In a recording, the moments of what is due are out but those of what is pending.
LEMMA RecordedFacts ==
    ASSUME ShotsInv, mode.video, ~video_done, pipe = "open"
    PROVE  \E e : /\ Enumerates(e, Shots!Due) /\ Len(e) \in Nat /\ Len(out) \in Nat
                  /\ \A k \in Shots!Due : Shots!Picture(k).size = FirstSeen.size
                  /\ \A n \in 1 .. Len(e) : e[n] \in Shots!Due
                  /\ \A n \in 1 .. Len(out) : out[n] = Shots!Picture(e[n])
                  /\ video_first => e = <<>> /\ Len(out) = 0 /\ video_cur = 0 /\ Shots!Ok = {} /\ Shots!Due = {}
                                    /\ \A v \in Shots!Place : video_data[v].width = 0
                  /\ ~video_first => /\ Encoding(e) /\ Shots!Ok # {} /\ FirstSeen.size \in Nat \ {0}
                                     /\ video_data[0].width = FirstSeen.size
                                     /\ \A n \in Len(out) + 1 .. Len(e) :
                                           Shots!Picture(e[n]) = [frame |-> Shots!Mapped(video_data[Shots!Fetch]).pixels,
                                                                  size |-> video_data[Shots!Fetch].width]
                                     /\ Shots!Picture(e[Len(e)]) = [frame |-> Shots!Mapped(video_data[Shots!Fetch]).pixels,
                                                                    size |-> video_data[Shots!Fetch].width]
<1>1. ShotsTypeOK /\ Recorded /\ Len(out) \in Nat
  BY DEF ShotsInv, ShotsTypeOK
<1>2. CASE video_first
  <2>1. out = <<>> /\ Len(out) = 0 /\ video_cur = 0 /\ Shots!Ok = {} /\ \A v \in Shots!Place : video_data[v].width = 0
    BY <1>1, <1>2 DEF Recorded
  <2>2. Shots!Due = {}
    BY <2>1 DEF Shots!Due, Shots!Moments
  <2>3. Enumerates(<<>>, Shots!Due) /\ Len(<<>>) = 0
    BY <2>2 DEF Enumerates
  <2> QED
    BY <1>2, <2>1, <2>2, <2>3
<1>3. CASE ~video_first
  <2>1. PICK e : Enumerates(e, Shots!Due) /\ Encoding(e)
    BY <1>1, <1>3 DEF Recorded
  <2>2. /\ \A k \in Shots!Due : Shots!Picture(k).size = FirstSeen.size
        /\ video_data[0].width = FirstSeen.size /\ Shots!Ok # {}
    BY <1>1, <1>3 DEF Recorded
  <2>3. FirstSeen.size \in Nat \ {0}
    <3>1. Shots!Ok \subseteq DOMAIN swap_history /\ Shots!Ok \subseteq Nat
      BY <1>1 DEF Shots!Ok, ShotsTypeOK
    <3>2. Shots!Start \in DOMAIN swap_history
      BY <2>2, <3>1, EarliestIs DEF Shots!Start
    <3>3. FirstSeen \in Seen
      BY <1>1, <3>2 DEF FirstSeen, ShotsTypeOK
    <3> QED
      BY <3>3, PicturesAssumption DEF Seen, Shots!ModeAssumption
  <2>4. Len(e) \in Nat /\ Len(e) \in 1 .. Len(e) /\ \A n \in 1 .. Len(e) : e[n] \in Shots!Due
    BY <2>1 DEF Enumerates, Encoding
  <2>5. /\ video_data[Shots!Fetch].width = FirstSeen.size
        /\ Shots!Mapped(video_data[Shots!Fetch]).pixels = Shots!SwapOf(e[Len(e)])
        /\ \A n \in Len(out) + 1 .. Len(e) : Shots!SwapOf(e[n]) = Shots!SwapOf(e[Len(e)])
        /\ \A n \in 1 .. Len(out) : out[n] = Shots!Picture(e[n])
    BY <2>1 DEF Encoding
  <2>6. ASSUME NEW n \in 1 .. Len(e), Shots!SwapOf(e[n]) = Shots!SwapOf(e[Len(e)])
        PROVE  Shots!Picture(e[n]) = [frame |-> Shots!Mapped(video_data[Shots!Fetch]).pixels,
                                      size |-> video_data[Shots!Fetch].width]
    <3>1. Shots!Picture(e[n]).size = FirstSeen.size
      BY <2>2, <2>4
    <3>2. Shots!Picture(e[n]) = [frame |-> Shots!SwapOf(e[n]), size |-> Shots!Picture(e[n]).size]
      BY DEF Shots!Picture
    <3> QED
      BY <2>5, <2>6, <3>1, <3>2
  <2>7. \A n \in Len(out) + 1 .. Len(e) : n \in 1 .. Len(e)
    BY <1>1
  <2> QED
    BY <1>1, <1>3, <2>1, <2>2, <2>3, <2>4, <2>5, <2>6, <2>7
<1> QED
  BY <1>2, <1>3

\* What a video captures and encodes at a swap: t moments, from p on, are due with it.
LEMMA CaptureInv ==
    ASSUME ShotsInv, mode.video, ~video_done, pipe = "open",
           Shots!Swapped(TRUE), Shots!Advance, video_done' = Shots!Resized, video_first' = FALSE,
           video_frame_time' \in Int,
           NEW t \in Nat \ {0}, NEW p \in Nat, NEW f, f = Shots!Frame,
           NEW d \in [Shots!Place -> Places],
           \A v \in Shots!Place : v # video_cur => d[v] = video_data[v],
           d[video_cur].width = video_data[video_cur].width,
           Shots!Mapped(d[video_cur]).pixels = Shots!Mapped(video_data[video_cur]).pixels,
           IF mode.lavc THEN d[video_cur].multiplicity = t ELSE t = 1,
           NEW r, r = Shots!Captured(d),
           Shots!Encode(r, IF mode.lavc THEN r[Shots!Fetch].multiplicity ELSE 1),
           Adds(p .. p + t - 1, f), \A k \in Shots!Due : k < p,
           Shots!Timed => \E m \in Nat : Clock(m)'
    PROVE  ShotsInv'
<1> DEFINE F == Shots!Fetch
           q == IF mode.lavc THEN r[F].multiplicity ELSE 1
           x == [frame |-> Shots!Mapped(r[F]).pixels, size |-> r[F].width]
<1>0. ShotsTypeOK
  BY DEF ShotsInv
<1>1. /\ mode.lag \in Nat \ {0} /\ F \in Shots!Place /\ video_cur \in Shots!Place /\ 0 \in Shots!Place
      /\ mode.lag = 1 => F = 0 /\ video_cur = 0
      /\ mode.lag > 1 => F # video_cur
      /\ mode' = mode /\ video_cur' \in Shots!Place /\ Shots!Fetch' = video_cur /\ Shots!Place' = Shots!Place
      /\ mode.lag = 1 \/ mode.lag > 1
  <2>1. mode' = mode
    BY <1>0, SwappedFacts
  <2> QED
    BY <1>0, <2>1, FetchFacts DEF Shots!Place
<1>2. /\ r \in [Shots!Place -> Places]
      /\ Shots!Resized => r = d
      /\ ~Shots!Resized =>
            /\ \A v \in Shots!Place : v # video_cur => r[v] = d[v]
            /\ r[video_cur].width = size /\ r[video_cur].multiplicity = d[video_cur].multiplicity
            /\ Shots!Mapped(r[video_cur]).pixels = f
  <2>1. CASE Shots!Resized
    BY <2>1 DEF Shots!Captured
  <2>2. CASE ~Shots!Resized
    <3> DEFINE y == Shots!ReadBack(Shots!Prepared(d[video_cur]))
    <3>1. y \in Places /\ y.width = size /\ y.multiplicity = d[video_cur].multiplicity /\ Shots!Mapped(y).pixels = f
      <4>1. d[video_cur] \in Places
        BY <1>1
      <4> QED
        BY <1>0, <4>1, PlaceFacts DEF Shots!Frame
    <3>2. r = [d EXCEPT ![video_cur] = y]
      BY <2>2 DEF Shots!Captured
    <3> HIDE DEF y
    <3> QED
      BY <2>2, <3>1, <3>2, <1>1
  <2> QED
    BY <2>1, <2>2
<1>3. q \in Nat
  BY <1>1, <1>2 DEF Places
<1>4. /\ video_data' \in [Shots!Place -> Places]
      /\ \A v \in Shots!Place :
            /\ video_data'[v].width = r[v].width /\ video_data'[v].multiplicity = r[v].multiplicity
            /\ Shots!Mapped(video_data'[v]).pixels = Shots!Mapped(r[v]).pixels
      /\ out' \in Seq(Images) /\ Len(out) \in Nat
      /\ Len(out') = Len(out) + IF r[F].width = 0 THEN 0 ELSE q
      /\ \A n \in 1 .. Len(out) : out'[n] = out[n]
      /\ \A n \in Len(out) + 1 .. Len(out') : out'[n] = x
  BY <1>0, <1>2, <1>3, EncodeFacts
<1>5. PICK e : /\ Enumerates(e, Shots!Due) /\ Len(e) \in Nat /\ Len(out) \in Nat
               /\ \A k \in Shots!Due : Shots!Picture(k).size = FirstSeen.size
               /\ \A n \in 1 .. Len(e) : e[n] \in Shots!Due
               /\ \A n \in 1 .. Len(out) : out[n] = Shots!Picture(e[n])
               /\ video_first => e = <<>> /\ Len(out) = 0 /\ video_cur = 0 /\ Shots!Ok = {} /\ Shots!Due = {}
                                 /\ \A v \in Shots!Place : video_data[v].width = 0
               /\ ~video_first => /\ Encoding(e) /\ Shots!Ok # {} /\ FirstSeen.size \in Nat \ {0}
                                  /\ video_data[0].width = FirstSeen.size
                                  /\ \A n \in Len(out) + 1 .. Len(e) :
                                        Shots!Picture(e[n]) = [frame |-> Shots!Mapped(video_data[F]).pixels,
                                                               size |-> video_data[F].width]
                                  /\ Shots!Picture(e[Len(e)]) = [frame |-> Shots!Mapped(video_data[F]).pixels,
                                                                 size |-> video_data[F].width]
  BY RecordedFacts
<1>6. \A v \in Shots!Place : /\ d[v].width = video_data[v].width
                             /\ Shots!Mapped(d[v]).pixels = Shots!Mapped(video_data[v]).pixels
  OBVIOUS
<1>7. /\ size \in Nat \ {0} /\ size' \in Size /\ now' \in 0 .. MaxTime /\ keypress_screenshot' \in BOOLEAN
      /\ swap_history' \in Seq(Seen) /\ mode' = mode /\ (Shots!Timed' <=> Shots!Timed)
      /\ Shots!Ok' # {}
      /\ Shots!Ok # {} => FirstSeen' = FirstSeen
      /\ Shots!Ok = {} => FirstSeen'.size = size
  <2>1. size \in Nat \ {0}
    BY <1>0, PicturesAssumption DEF ShotsTypeOK, Shots!ModeAssumption
  <2>2. /\ Shots!Ok' = Shots!Ok \cup IF TRUE THEN {Shots!Frame} ELSE {}
        /\ Shots!Ok # {} => FirstSeen' = FirstSeen
        /\ Shots!Ok = {} => Shots!Start' = Shots!Frame
    BY <1>0, StartFacts
  <2>3. swap_history'[Shots!Frame] = [time |-> now, size |-> size, ok |-> TRUE, key |-> keypress_screenshot]
        /\ size' \in Size /\ now' \in 0 .. MaxTime /\ keypress_screenshot' \in BOOLEAN
        /\ swap_history' \in Seq(Seen) /\ mode' = mode /\ (Shots!Timed' <=> Shots!Timed)
    BY <1>0, SwappedFacts
  <2>4. Shots!Ok = {} => FirstSeen'.size = size
    BY <2>2, <2>3 DEF FirstSeen
  <2> QED
    BY <2>1, <2>2, <2>3, <2>4
<1>8. ShotsTypeOK'
  BY <1>0, <1>1, <1>4, <1>7 DEF ShotsTypeOK, Shots!Resized
<1>9. /\ Shots!Due' = Shots!Due \cup p .. p + t - 1
      /\ \A k \in Shots!Due : /\ Shots!SwapOf(k)' = Shots!SwapOf(k)
                              /\ Shots!Picture(k)' = Shots!Picture(k)
      /\ \A k \in p .. p + t - 1 : /\ Shots!SwapOf(k)' = f
                                   /\ Shots!Picture(k)' = [frame |-> f, size |-> size]
  BY DEF Adds
<1> DEFINE last == Shots!Picture(e[Len(e)])
\* The ring as it was goes out, up to the last of what was due.
<1>10. ASSUME ~video_first, F # video_cur \/ Shots!Resized
       PROVE  /\ \A n \in 1 .. Len(out') : out'[n] = IF n <= Len(e) THEN Shots!Picture(e[n]) ELSE last
              /\ Len(e) > 0 /\ Len(out') >= Len(e)
              /\ mode.lag > 1 => Len(out') = Len(e)
  <2>1. r[F].width = video_data[F].width /\ Shots!Mapped(r[F]).pixels = Shots!Mapped(video_data[F]).pixels
    BY <1>1, <1>2, <1>6, <1>10
  <2>2. /\ Encoding(e) /\ FirstSeen.size \in Nat \ {0}
        /\ \A n \in Len(out) + 1 .. Len(e) : Shots!Picture(e[n]) = x
        /\ last = x
    BY <1>5, <1>10, <2>1
  <2>3. Len(e) > 0 /\ Len(e) = Len(out) + Pending /\ video_data[F].width = FirstSeen.size
    BY <2>2 DEF Encoding
  <2>4. Len(out') = Len(out) + q
    BY <1>4, <2>1, <2>2, <2>3
  <2>5. mode.lag > 1 => q = Pending
    BY <1>1, <1>2, <1>10 DEF Pending
  <2>6. mode.lag = 1 => Pending = 0
    BY DEF Pending
  <2>7. \A n \in 1 .. Len(out') : out'[n] = IF n <= Len(e) THEN Shots!Picture(e[n]) ELSE x
    <3>1. ASSUME NEW n \in 1 .. Len(out') PROVE out'[n] = IF n <= Len(e) THEN Shots!Picture(e[n]) ELSE x
      <4>1. CASE n <= Len(out)
        <5>1. n \in 1 .. Len(out) /\ n <= Len(e)
          BY <1>1, <1>5, <2>3, <2>4, <2>5, <2>6, <1>3, <3>1, <4>1
        <5> QED
          BY <5>1, <1>4, <1>5
      <4>2. CASE ~(n <= Len(out))
        <5>1. out'[n] = x
          BY <1>4, <1>5, <3>1, <4>2
        <5>2. n <= Len(e) => n \in Len(out) + 1 .. Len(e)
          BY <1>5, <3>1, <4>2
        <5> QED
          BY <5>1, <5>2, <2>2
      <4> QED
        BY <4>1, <4>2
    <3> QED
      BY <3>1
  <2> QED
    BY <1>1, <1>3, <1>5, <2>2, <2>3, <2>4, <2>5, <2>6, <2>7
<1>11. CASE Shots!Resized
  <2>1. ~video_first /\ size # FirstSeen.size /\ Shots!Ok # {} /\ video_done'
    BY <1>5, <1>11 DEF Shots!Resized
  <2>2. Shots!Shown' = Shots!Due
    <3>1. \A k \in Shots!Due : Shots!Picture(k)'.size = FirstSeen.size
      BY <1>5, <1>9
    <3>2. \A k \in p .. p + t - 1 : Shots!Picture(k)'.size # FirstSeen.size
      BY <1>9, <2>1
    <3>3. mode'.video /\ FirstSeen' = FirstSeen
      BY <1>7, <2>1
    <3>4. Shots!Shown' = {k \in Shots!Due' : \A j \in Shots!Due' : j <= k => Shots!Picture(j)'.size = FirstSeen.size}
      BY <3>3 DEF Shots!Shown, FirstSeen
    <3>5. \A k \in Shots!Due, j \in p .. p + t - 1 : ~(j <= k)
      <4>1. ASSUME NEW k \in Shots!Due, NEW j \in p .. p + t - 1 PROVE ~(j <= k)
        <5>1. k \in Nat /\ k < p
          BY <4>1 DEF Adds
        <5> QED
          BY <5>1
      <4> QED
        BY <4>1
    <3>6. \A k \in p .. p + t - 1 : k <= k
      OBVIOUS
    <3> QED
      BY <3>1, <3>2, <3>4, <3>5, <3>6, <1>9
  <2>3. /\ \A n \in 1 .. Len(out') : out'[n] = IF n <= Len(e) THEN Shots!Picture(e[n]) ELSE last
        /\ Len(e) > 0 /\ Len(out') >= Len(e)
    BY <1>10, <1>11, <2>1
  <2>4. \A n \in 1 .. Len(e) : Shots!Picture(e[n])' = Shots!Picture(e[n])
    BY <1>5, <1>9
  <2>5. Len(out') \in Nat /\ Len(e) \in 1 .. Len(e)
    BY <1>4, <1>5, <2>3
  <2>6. Matches(e)'
    <3>1. Enumerates(e, Shots!Shown)'
      BY <1>5, <2>2 DEF Enumerates
    <3>2. \A n \in 1 .. Len(out') : IF n <= Len(e) THEN out'[n] = Shots!Picture(e[n])'
                                    ELSE video_done' /\ Len(e) > 0 /\ out'[n] = Shots!Picture(e[Len(e)])'
      BY <1>5, <2>1, <2>3, <2>4, <2>5
    <3>3. ~(Len(out') < Len(e))
      BY <1>5, <2>3, <2>5
    <3> QED
      BY <3>1, <3>2, <3>3 DEF Matches
  <2> QED
    BY <1>7, <1>8, <2>1, <2>6 DEF ShotsInv
<1>12. CASE ~Shots!Resized
  <2>1. PICK l : /\ Enumerates(l, Shots!Due') /\ Len(l) = Len(e) + t
                 /\ \A n \in 1 .. Len(e) : l[n] = e[n]
                 /\ \A n \in Len(e) + 1 .. Len(e) + t : l[n] \in p .. p + t - 1
    <3>1. Enumerates(e, Shots!Due) /\ t \in Nat /\ p \in Nat /\ \A k \in Shots!Due : k < p
      BY <1>5
    <3>2. PICK l : /\ Enumerates(l, Shots!Due \cup p .. p + t - 1) /\ Len(l) = Len(e) + t
                   /\ \A n \in 1 .. Len(e) : l[n] = e[n]
                   /\ \A n \in Len(e) + 1 .. Len(e) + t : l[n] \in p .. p + t - 1
      BY <3>1, LongerEnumerates
    <3> QED
      BY <3>2, <1>9
  <2>2. size = FirstSeen'.size /\ ~video_done' /\ (~video_first => video_data[0].width = size)
    <3>1. CASE video_first
      BY <3>1, <1>5, <1>7, <1>12
    <3>2. CASE ~video_first
      <4>1. size = video_data[0].width /\ FirstSeen' = FirstSeen
        BY <3>2, <1>5, <1>7, <1>12 DEF Shots!Resized
      <4> QED
        BY <4>1, <3>2, <1>5, <1>12
    <3> QED
      BY <3>1, <3>2
  <2>3. \A k \in Shots!Due' : Shots!Picture(k)'.size = FirstSeen'.size
    <3>1. \A k \in p .. p + t - 1 : Shots!Picture(k)'.size = size
      BY <1>9
    <3>2. \A k \in Shots!Due : Shots!Picture(k)'.size = FirstSeen'.size
      BY <1>5, <1>7, <1>9
    <3> QED
      BY <3>1, <3>2, <2>2, <1>9
  <2>4. /\ Len(out') = Len(e) + IF mode.lag = 1 THEN t ELSE 0
        /\ \A n \in 1 .. Len(e) : out'[n] = Shots!Picture(e[n])
        /\ \A n \in Len(e) + 1 .. Len(out') : out'[n] = [frame |-> f, size |-> size]
    <3>1. CASE mode.lag = 1
      <4>1. F = video_cur /\ r[F].width = size /\ size # 0 /\ x = [frame |-> f, size |-> size]
        BY <3>1, <1>1, <1>2, <1>7, <1>12
      <4>2. q = t
        BY <4>1, <1>2, <1>12
      <4>3. Len(out) = Len(e)
        BY <3>1, <1>5 DEF Encoding, Pending
      <4>4. Len(out') = Len(e) + t
        BY <4>1, <4>2, <4>3, <1>4
      <4> QED
        BY <3>1, <4>1, <4>3, <4>4, <1>4, <1>5
    <3>2. CASE mode.lag # 1 /\ video_first
      <4>1. r[F].width = 0
        BY <3>2, <1>1, <1>2, <1>5, <1>6, <1>12
      <4>2. Len(out') = 0 /\ Len(e) = 0
        BY <4>1, <3>2, <1>4, <1>5
      <4> QED
        BY <4>2, <3>2
    <3>3. CASE mode.lag # 1 /\ ~video_first
      <4>1. F # video_cur /\ mode.lag > 1
        BY <3>3, <1>1
      <4>2. /\ \A n \in 1 .. Len(out') : out'[n] = IF n <= Len(e) THEN Shots!Picture(e[n]) ELSE last
            /\ Len(out') = Len(e)
        BY <4>1, <3>3, <1>10
      <4>3. \A n \in 1 .. Len(e) : n <= Len(e) /\ n \in 1 .. Len(out')
        BY <4>2, <1>5
      <4>4. \A n \in Len(e) + 1 .. Len(out') : FALSE
        BY <4>2, <1>5
      <4> QED
        BY <4>2, <4>3, <4>4, <3>3
    <3> QED
      BY <3>1, <3>2, <3>3
  <2>5. /\ video_data'[video_cur].width = size /\ Shots!Mapped(video_data'[video_cur]).pixels = f
        /\ mode.lavc => video_data'[video_cur].multiplicity = t
        /\ video_data'[0].width = size
    <3>1. /\ video_data'[video_cur].width = size /\ Shots!Mapped(video_data'[video_cur]).pixels = f
          /\ mode.lavc => video_data'[video_cur].multiplicity = t
      BY <1>1, <1>2, <1>4, <1>12
    <3>2. CASE video_cur = 0
      BY <3>1, <3>2
    <3>3. CASE video_cur # 0
      <4>1. r[0] = d[0] /\ d[0].width = video_data[0].width /\ ~video_first
        BY <3>3, <1>1, <1>2, <1>5, <1>6, <1>12
      <4> QED
        BY <3>1, <4>1, <2>2, <1>1, <1>4
    <3> QED
      BY <3>2, <3>3
  <2>6. Encoding(l)'
    <3>1. /\ Len(l) \in Nat /\ Len(l) \in Len(e) + 1 .. Len(e) + t /\ Len(out') \in Nat
          /\ Len(out') = Len(e) \/ Len(out') = Len(l)
      BY <2>1, <2>4, <1>4, <1>5
    <3>2. Len(l) > 0 /\ Len(l) = Len(out') + Pending'
      <4>1. Pending' = IF mode.lag = 1 THEN 0 ELSE t
        BY <2>5, <1>1 DEF Pending
      <4> QED
        BY <4>1, <3>1, <2>1, <2>4, <1>5
    <3>3. \A n \in Len(e) + 1 .. Len(l) : /\ Shots!SwapOf(l[n])' = f
                                          /\ Shots!Picture(l[n])' = [frame |-> f, size |-> size]
      BY <2>1, <1>9
    <3>4. \A n \in 1 .. Len(out') : out'[n] = Shots!Picture(l[n])'
      <4>1. ASSUME NEW n \in 1 .. Len(out') PROVE out'[n] = Shots!Picture(l[n])'
        <5>1. CASE n <= Len(e)
          <6>1. n \in 1 .. Len(e) /\ l[n] = e[n] /\ e[n] \in Shots!Due
            BY <4>1, <5>1, <2>1, <1>5
          <6> QED
            BY <6>1, <2>4, <1>9
        <5>2. CASE ~(n <= Len(e))
          <6>1. n \in Len(e) + 1 .. Len(out') /\ n \in Len(e) + 1 .. Len(l)
            BY <4>1, <5>2, <3>1, <1>5
          <6> QED
            BY <6>1, <3>3, <2>4
        <5> QED
          BY <5>1, <5>2
      <4> QED
        BY <4>1
    <3>5. \A n \in Len(out') + 1 .. Len(l) : Shots!SwapOf(l[n])' = Shots!SwapOf(l[Len(l)])'
      <4>1. \A n \in Len(out') + 1 .. Len(l) : n \in Len(e) + 1 .. Len(l)
        BY <3>1, <1>5
      <4>2. Len(l) \in Len(e) + 1 .. Len(l)
        BY <3>1, <1>5
      <4> QED
        BY <4>1, <4>2, <3>3
    <3>6. video_data'[Shots!Fetch'].width = FirstSeen'.size
      BY <2>2, <2>5, <1>1
    <3>7. Shots!Mapped(video_data[Shots!Fetch])'.pixels = Shots!SwapOf(l[Len(l)])'
      <4>1. Shots!Mapped(video_data[Shots!Fetch])' = Shots!Mapped(video_data'[video_cur])
        BY <1>1 DEF Shots!Mapped
      <4>2. Len(l) \in Len(e) + 1 .. Len(l)
        BY <3>1, <1>5
      <4> QED
        BY <4>1, <4>2, <3>3, <2>5
    <3> QED
      BY <3>2, <3>4, <3>5, <3>6, <3>7 DEF Encoding
  <2>7. Enumerates(l, Shots!Due)'
    BY <2>1 DEF Enumerates
  <2>8. Recorded'
    BY <2>2, <2>3, <2>5, <2>6, <2>7, <1>7 DEF Recorded
  <2> QED
    BY <1>7, <1>8, <2>2, <2>8 DEF ShotsInv
<1> QED
  BY <1>11, <1>12

\* A swap at which nothing is captured, which is too soon or left out
LEMMA UncapturedInv ==
    ASSUME ShotsInv, mode.video, ~video_done, NEW w \in BOOLEAN, Shots!Swapped(w),
           UNCHANGED <<out, video_cur, video_first, video_done, pipe>>,
           video_data' \in [Shots!Place -> Places],
           \A v \in Shots!Place : /\ video_data'[v].width = video_data[v].width
                                  /\ Shots!Mapped(video_data'[v]).pixels = Shots!Mapped(video_data[v]).pixels,
           mode.lag > 1 => video_data'[Shots!Fetch] = video_data[Shots!Fetch],
           pipe = "open" /\ w => ~video_first,
           Shots!Timed => video_frame_time' = Shots!FrameTime + Shots!Ticks * Step,
           video_frame_time' \in Int,
           w => Shots!Timed /\ Shots!Ticks = 0
    PROVE  ShotsInv'
<1>0. ShotsTypeOK
  BY DEF ShotsInv
<1>1. PICK f : f = Shots!Frame
  OBVIOUS
<1>2. /\ mode' = mode /\ (Shots!Timed' <=> Shots!Timed) /\ Shots!Place' = Shots!Place /\ Shots!Fetch' = Shots!Fetch
      /\ size' \in Size /\ now' \in 0 .. MaxTime /\ keypress_screenshot' \in BOOLEAN
      /\ swap_history' \in Seq(Seen)
  <2>1. /\ mode' = mode /\ (Shots!Timed' <=> Shots!Timed)
        /\ size' \in Size /\ now' \in 0 .. MaxTime /\ keypress_screenshot' \in BOOLEAN
        /\ swap_history' \in Seq(Seen)
    BY <1>0, SwappedFacts
  <2> QED
    BY <2>1 DEF Shots!Place, Shots!Fetch
<1>3. ShotsTypeOK'
  BY <1>0, <1>2 DEF ShotsTypeOK
<1>4. CASE pipe # "open"
  BY <1>2, <1>3, <1>4 DEF ShotsInv
<1>5. CASE pipe = "open" /\ video_first
  <2>1. Recorded /\ Shots!Ok = {} /\ ~w
    BY <1>5 DEF ShotsInv, Recorded
  <2>2. Shots!Ok' = {}
    BY <2>1, <1>0, StartFacts
  <2>3. out = <<>> /\ video_cur = 0 /\ \A v \in Shots!Place : video_data[v].width = 0
    BY <1>5, <2>1 DEF Recorded
  <2>4. Recorded'
    BY <1>2, <1>5, <2>2, <2>3 DEF Recorded
  <2> QED
    BY <1>2, <1>3, <2>4 DEF ShotsInv
<1>6. CASE pipe = "open" /\ ~video_first
  <2>1. /\ Recorded /\ Shots!Ok # {} /\ video_data[0].width = FirstSeen.size
        /\ Shots!Timed => \E n \in Nat : Clock(n)
        /\ \A k \in Shots!Due : Shots!Picture(k).size = FirstSeen.size
    BY <1>6 DEF ShotsInv, Recorded
  <2>2. Shots!Ok' # {} /\ FirstSeen' = FirstSeen
    BY <2>1, <1>0, StartFacts
  <2>3. Adds({}, f) /\ (Shots!Timed => \E m \in Nat : Clock(m)')
    <3>1. CASE Shots!Timed
      <4>1. PICK n \in Nat : Clock(n)
        BY <2>1, <3>1
      <4>2. PICK t : t = Shots!Ticks
        OBVIOUS
      <4>3. t \in Nat /\ (\E m \in Nat : Clock(m)') /\ Adds(IF w THEN n .. n + t - 1 ELSE {}, f)
        BY <1>0, <1>1, <1>6, <2>1, <3>1, <4>1, <4>2, TimedMoments
      <4>4. (IF w THEN n .. n + t - 1 ELSE {}) = {}
        BY <4>2
      <4> QED
        BY <4>3, <4>4
    <3>2. CASE ~Shots!Timed
      <4>1. Adds(IF w THEN {f} ELSE {}, f) /\ ~w
        BY <1>0, <1>1, <3>2, UntimedMoments
      <4> QED
        BY <3>2, <4>1
    <3> QED
      BY <3>1, <3>2
  <2>4. /\ Shots!Due' = Shots!Due
        /\ \A k \in Shots!Due : Shots!SwapOf(k)' = Shots!SwapOf(k) /\ Shots!Picture(k)' = Shots!Picture(k)
    BY <2>3 DEF Adds
  <2>5. PICK e : Enumerates(e, Shots!Due) /\ Encoding(e)
    BY <1>6, <2>1 DEF Recorded
  <2>6. /\ Len(e) \in Nat /\ Len(out) \in Nat /\ \A n \in 1 .. Len(e) : e[n] \in Shots!Due
        /\ Shots!Fetch \in Shots!Place /\ mode.lag \in Nat \ {0}
    BY <2>5, <1>0, FetchFacts DEF Enumerates, ShotsTypeOK
  <2>7. Encoding(e)'
    <3>1. Len(e) > 0 /\ Len(e) = Len(out) + Pending /\ Len(e) \in 1 .. Len(e)
      BY <2>5, <2>6 DEF Encoding
    <3>2. Pending' = Pending /\ Pending \in Nat
      <4>1. mode.lag > 1 => video_data'[Shots!Fetch] = video_data[Shots!Fetch]
        OBVIOUS
      <4>2. mode.lag = 1 \/ mode.lag > 1
        BY <2>6
      <4>3. video_data[Shots!Fetch].multiplicity \in Nat
        BY <1>0, <2>6 DEF ShotsTypeOK, Places
      <4> QED
        BY <4>1, <4>2, <4>3, <1>2 DEF Pending
    <3>3. \A n \in 1 .. Len(out) : out'[n] = Shots!Picture(e[n])'
      <4>1. \A n \in 1 .. Len(out) : n \in 1 .. Len(e)
        BY <3>1, <3>2, <2>6
      <4>2. \A n \in 1 .. Len(out) : out[n] = Shots!Picture(e[n])
        BY <2>5 DEF Encoding
      <4> QED
        BY <4>1, <4>2, <2>4, <2>6
    <3>4. \A n \in Len(out) + 1 .. Len(e) : Shots!SwapOf(e[n])' = Shots!SwapOf(e[Len(e)])'
      <4>1. \A n \in Len(out) + 1 .. Len(e) : n \in 1 .. Len(e)
        BY <2>6
      <4>2. \A n \in Len(out) + 1 .. Len(e) : Shots!SwapOf(e[n]) = Shots!SwapOf(e[Len(e)])
        BY <2>5 DEF Encoding
      <4> QED
        BY <4>1, <4>2, <3>1, <2>4, <2>6
    <3>5. video_data'[Shots!Fetch].width = FirstSeen.size
      BY <2>5, <2>6 DEF Encoding
    <3>6. Shots!Mapped(video_data[Shots!Fetch])'.pixels = Shots!SwapOf(e[Len(e)])'
      <4>1. Shots!Mapped(video_data[Shots!Fetch])' = Shots!Mapped(video_data'[Shots!Fetch])
        BY <1>2 DEF Shots!Mapped
      <4>2. Shots!Mapped(video_data'[Shots!Fetch]).pixels = Shots!Mapped(video_data[Shots!Fetch]).pixels
        BY <2>6
      <4>3. Shots!Mapped(video_data[Shots!Fetch]).pixels = Shots!SwapOf(e[Len(e)])
        BY <2>5 DEF Encoding
      <4> QED
        BY <4>1, <4>2, <4>3, <3>1, <2>4, <2>6
    <3> QED
      BY <1>2, <2>2, <3>1, <3>2, <3>3, <3>4, <3>5, <3>6 DEF Encoding
  <2>8. Enumerates(e, Shots!Due)'
    BY <2>4, <2>5 DEF Enumerates
  <2>9. 0 \in Shots!Place
    BY <1>0, FetchFacts
  <2>10. Recorded'
    BY <1>2, <1>6, <2>1, <2>2, <2>3, <2>4, <2>7, <2>8, <2>9 DEF Recorded
  <2> QED
    BY <1>2, <1>3, <2>10 DEF ShotsInv
<1> QED
  BY <1>4, <1>5, <1>6

\* The moments that a swap which is captured has for itself
LEMMA CaptureMoments ==
    ASSUME ShotsInv, mode.video, ~video_done, pipe = "open", Shots!Swapped(TRUE), NEW f, f = Shots!Frame,
           Shots!Timed => video_frame_time' = Shots!FrameTime + Shots!Ticks * Step /\ Shots!Ticks > 0
    PROVE  \E p \in Nat, t \in Nat \ {0} :
              /\ t = IF Shots!Timed THEN Shots!Ticks ELSE 1
              /\ Adds(p .. p + t - 1, f) /\ \A k \in Shots!Due : k < p
              /\ Shots!Timed => \E m \in Nat : Clock(m)'
<1>0. ShotsTypeOK /\ Recorded
  BY DEF ShotsInv
<1>1. CASE ~Shots!Timed
  <2>1. Adds(IF TRUE THEN {f} ELSE {}, f) /\ \A k \in Shots!Due : k < f
    BY <1>0, <1>1, UntimedMoments
  <2>2. f \in Nat
    BY <1>0, SwappedFacts
  <2>3. f .. f + 1 - 1 = IF TRUE THEN {f} ELSE {}
    BY <2>2
  <2>4. Adds(f .. f + 1 - 1, f)
    BY <2>1, <2>3
  <2>5. 1 = (IF Shots!Timed THEN Shots!Ticks ELSE 1) /\ 1 \in Nat \ {0}
    BY <1>1
  <2> WITNESS f \in Nat, 1 \in Nat \ {0}
  <2> QED
    BY <1>1, <2>1, <2>4, <2>5
<1>2. CASE Shots!Timed /\ video_first
  <2>1. Shots!Ok = {}
    BY <1>0, <1>2 DEF Recorded
  <2>2. Shots!Ticks = 1 /\ Clock(1)' /\ Shots!Due = {} /\ Adds({0}, f)
    BY <1>0, <1>2, <2>1, FirstMoments
  <2>3. 0 .. 0 + 1 - 1 = {0}
    OBVIOUS
  <2>4. Adds(0 .. 0 + 1 - 1, f)
    BY <2>2, <2>3
  <2>5. 1 = (IF Shots!Timed THEN Shots!Ticks ELSE 1) /\ 1 \in Nat \ {0} /\ 0 \in Nat
    BY <1>2, <2>2
  <2>6. \A k \in Shots!Due : k < 0
    BY <2>2
  <2>7. \E m \in Nat : Clock(m)'
    BY <2>2
  <2> WITNESS 0 \in Nat, 1 \in Nat \ {0}
  <2> QED
    BY <2>4, <2>5, <2>6, <2>7
<1>3. CASE Shots!Timed /\ ~video_first
  <2>1. Shots!Ok # {} /\ \E n \in Nat : Clock(n)
    BY <1>0, <1>3 DEF Recorded
  <2>2. PICK n \in Nat : Clock(n)
    BY <2>1
  <2>3. PICK t : t = Shots!Ticks
    OBVIOUS
  <2>4. /\ t \in Nat /\ (\E m \in Nat : Clock(m)') /\ Adds(IF TRUE THEN n .. n + t - 1 ELSE {}, f)
        /\ \A k \in Shots!Due : k < n
    BY <1>0, <1>3, <2>1, <2>2, <2>3, TimedMoments
  <2>5. Adds(n .. n + t - 1, f)
    BY <2>4
  <2> QED
    BY <1>3, <2>3, <2>4, <2>5
<1> QED
  BY <1>1, <1>2, <1>3

\* What is captured and encoded is of its type, even if nobody reads the pipe.
LEMMA CapturedFacts ==
    ASSUME ShotsTypeOK, NEW d \in [Shots!Place -> Places]
    PROVE  Shots!Captured(d) \in [Shots!Place -> Places]
<1>1. CASE Shots!Resized
  BY <1>1 DEF Shots!Captured
<1>2. CASE ~Shots!Resized
  <2>1. video_cur \in Shots!Place /\ d[video_cur] \in Places
    BY DEF ShotsTypeOK
  <2>2. Shots!ReadBack(Shots!Prepared(d[video_cur])) \in Places
    BY <2>1, PlaceFacts
  <2>3. Shots!Captured(d) = [d EXCEPT ![video_cur] = Shots!ReadBack(Shots!Prepared(d[video_cur]))]
    BY <1>2 DEF Shots!Captured
  <2> QED
    BY <2>1, <2>2, <2>3
<1> QED
  BY <1>1, <1>2

\* Once the pipe is broken, only the types are left.
LEMMA UnreadInv ==
    ASSUME ShotsInv, mode.video, pipe' # "open", Shots!Swapped(TRUE), Shots!Advance,
           video_data' \in [Shots!Place -> Places], out' \in Seq(Images),
           video_first' \in BOOLEAN, video_done' \in BOOLEAN, video_frame_time' \in Int
    PROVE  ShotsInv'
<1>0. ShotsTypeOK
  BY DEF ShotsInv
<1>1. /\ mode' = mode /\ size' \in Size /\ now' \in 0 .. MaxTime /\ keypress_screenshot' \in BOOLEAN
      /\ swap_history' \in Seq(Seen)
  BY <1>0, SwappedFacts
<1>2. Shots!Place' = Shots!Place /\ video_cur' \in Shots!Place
  BY <1>0, <1>1, FetchFacts DEF Shots!Place
<1>3. ShotsTypeOK'
  BY <1>0, <1>1, <1>2 DEF ShotsTypeOK
<1> QED
  BY <1>1, <1>3 DEF ShotsInv

\* screenshot_video counts the ticks in the place of the next frame.
LEMMA CountedFacts ==
    ASSUME ShotsTypeOK
    PROVE  /\ Shots!Multiplicity \in Nat
           /\ Shots!Multiplicity = IF Shots!Timed THEN Shots!Ticks ELSE 1
           /\ Shots!Counted \in [Shots!Place -> Places]
           /\ \A v \in Shots!Place :
                 /\ v # video_cur => Shots!Counted[v] = video_data[v]
                 /\ Shots!Counted[v].width = video_data[v].width
                 /\ Shots!Mapped(Shots!Counted[v]).pixels = Shots!Mapped(video_data[v]).pixels
           /\ Shots!Counted[video_cur].multiplicity = Shots!Multiplicity
<1>1. Shots!FrameTime \in Int
  BY DEF ShotsTypeOK, Shots!FrameTime
<1>2. /\ Shots!Multiplicity \in Nat
      /\ Shots!Multiplicity = IF Shots!Timed THEN Shots!Ticks ELSE 1
  BY <1>1, TicksFacts DEF Shots!Multiplicity
<1>3. video_cur \in Shots!Place /\ video_data \in [Shots!Place -> Places]
  BY DEF ShotsTypeOK
<1> DEFINE y == [video_data[video_cur] EXCEPT !.multiplicity = Shots!Multiplicity]
<1>4. /\ y \in Places /\ y.multiplicity = Shots!Multiplicity /\ y.width = video_data[video_cur].width
      /\ y.pixels = video_data[video_cur].pixels /\ y.pbo = video_data[video_cur].pbo
      /\ y.pbo_mapped = video_data[video_cur].pbo_mapped
  BY <1>2, <1>3 DEF Places
<1>5. Shots!Mapped(y).pixels = Shots!Mapped(video_data[video_cur]).pixels
  BY <1>3, <1>4 DEF Shots!Mapped, Places
<1>6. Shots!Counted = [video_data EXCEPT ![video_cur] = y]
  BY DEF Shots!Counted
<1> HIDE DEF y
<1>7. Shots!Counted \in [Shots!Place -> Places] /\ Shots!Counted[video_cur] = y
      /\ \A v \in Shots!Place : v # video_cur => Shots!Counted[v] = video_data[v]
  BY <1>3, <1>4, <1>6
<1> QED
  BY <1>2, <1>4, <1>5, <1>7

\* The time of the next frame is one, whatever has passed.
LEMMA FrameTimeFacts ==
    ASSUME ShotsTypeOK
    PROVE  Shots!FrameTime \in Int /\ Shots!Ticks \in Nat /\ Shots!FrameTime + Shots!Ticks * Step \in Int
<1>1. Shots!FrameTime \in Int /\ Step \in Int
  BY PicturesAssumption DEF ShotsTypeOK, Shots!FrameTime, Shots!ModeAssumption
<1> QED
  BY <1>1, TicksFacts

\* screenshot_video, with its ticks counted
LEMMA VideoInv == ASSUME ShotsInv, Shots!Video PROVE ShotsInv'
<1>0. ShotsTypeOK
  BY DEF ShotsInv
<1>1. /\ mode.video /\ ~video_done /\ mode.lavc /\ (Shots!Timed => Shots!Ticks > 0)
      /\ Shots!Encode(Shots!Captured(Shots!Counted), Shots!Captured(Shots!Counted)[Shots!Fetch].multiplicity)
      /\ video_frame_time' = IF Shots!Timed THEN Shots!FrameTime + Shots!Ticks * Step ELSE video_frame_time
      /\ video_done' = Shots!Resized /\ video_first' = FALSE /\ Shots!Advance /\ Shots!Swapped(TRUE) /\ pipe' = pipe
  BY DEF Shots!Video, Shots!Recording
<1>2. video_frame_time' \in Int
  BY <1>0, <1>1, FrameTimeFacts DEF ShotsTypeOK
<1>3. PICK d : d = Shots!Counted
  OBVIOUS
<1>4. /\ d \in [Shots!Place -> Places]
      /\ \A v \in Shots!Place :
            /\ v # video_cur => d[v] = video_data[v]
            /\ d[v].width = video_data[v].width
            /\ Shots!Mapped(d[v]).pixels = Shots!Mapped(video_data[v]).pixels
      /\ d[video_cur].multiplicity = IF Shots!Timed THEN Shots!Ticks ELSE 1
      /\ video_cur \in Shots!Place /\ Shots!Fetch \in Shots!Place
  BY <1>0, <1>3, CountedFacts, FetchFacts
<1>5. PICK r : r = Shots!Captured(d)
  OBVIOUS
<1>6. r \in [Shots!Place -> Places]
  BY <1>0, <1>4, <1>5, CapturedFacts
<1>7. Shots!Encode(r, r[Shots!Fetch].multiplicity)
  BY <1>1, <1>3, <1>5
<1>8. CASE pipe # "open"
  <2>1. r[Shots!Fetch].multiplicity \in Nat
    BY <1>4, <1>6 DEF Places
  <2>2. video_data' \in [Shots!Place -> Places] /\ out' \in Seq(Images)
    BY <1>0, <1>6, <1>7, <2>1, EncodeFacts
  <2>3. video_done' \in BOOLEAN /\ video_first' \in BOOLEAN
    BY <1>1 DEF Shots!Resized
  <2> QED
    BY <1>1, <1>2, <1>8, <2>2, <2>3, UnreadInv
<1>9. CASE pipe = "open"
  <2>1. PICK f : f = Shots!Frame
    OBVIOUS
  <2>2. PICK p \in Nat, t \in Nat \ {0} :
              /\ t = IF Shots!Timed THEN Shots!Ticks ELSE 1
              /\ Adds(p .. p + t - 1, f) /\ \A k \in Shots!Due : k < p
              /\ Shots!Timed => \E m \in Nat : Clock(m)'
    BY <1>1, <1>9, <2>1, CaptureMoments
  <2>3. IF mode.lavc THEN d[video_cur].multiplicity = t ELSE t = 1
    BY <1>1, <1>4, <2>2
  <2>4. Shots!Encode(r, IF mode.lavc THEN r[Shots!Fetch].multiplicity ELSE 1)
    BY <1>1, <1>7
  <2> QED
    BY <1>1, <1>2, <1>4, <1>5, <1>9, <2>1, <2>2, <2>3, <2>4, CaptureInv
<1> QED
  BY <1>8, <1>9

\* screenshot_stream, as long as the pipe is read and after
LEMMA StreamInv == ASSUME ShotsInv, Shots!Stream PROVE ShotsInv'
<1>0. ShotsTypeOK
  BY DEF ShotsInv
<1>1. /\ mode.video /\ ~video_done /\ ~mode.lavc /\ ~Shots!Timed
      /\ video_frame_time' = video_frame_time
      /\ video_done' = Shots!Resized /\ video_first' = FALSE /\ Shots!Advance /\ Shots!Swapped(TRUE)
  BY DEF Shots!Stream, Shots!Recording, Shots!Timed
<1>2. video_frame_time' \in Int
  BY <1>0, <1>1 DEF ShotsTypeOK
<1>3. PICK d : d = video_data
  OBVIOUS
<1>4. d \in [Shots!Place -> Places] /\ video_cur \in Shots!Place /\ Shots!Fetch \in Shots!Place
  BY <1>0, <1>3, FetchFacts DEF ShotsTypeOK
<1>5. PICK r : r = Shots!Captured(d)
  OBVIOUS
<1>6. r \in [Shots!Place -> Places]
  BY <1>0, <1>4, <1>5, CapturedFacts
<1>7. \/ /\ video_data' = [r EXCEPT ![Shots!Fetch] = Shots!Unmapped(Shots!Mapped(@))]
         /\ pipe' # "open" /\ out' = out
      \/ Shots!Encode(r, 1) /\ pipe' = pipe
  BY <1>3, <1>5 DEF Shots!Stream
<1>8. video_done' \in BOOLEAN /\ video_first' \in BOOLEAN
  BY <1>1 DEF Shots!Resized
<1>9. CASE video_data' = [r EXCEPT ![Shots!Fetch] = Shots!Unmapped(Shots!Mapped(@))] /\ pipe' # "open" /\ out' = out
  <2>1. Shots!Unmapped(Shots!Mapped(r[Shots!Fetch])) \in Places
    BY <1>0, <1>4, <1>6, PlaceFacts
  <2>2. video_data' \in [Shots!Place -> Places] /\ out' \in Seq(Images)
    BY <1>0, <1>6, <1>9, <2>1 DEF ShotsTypeOK
  <2> QED
    BY <1>1, <1>2, <1>8, <1>9, <2>2, UnreadInv
<1>10. CASE Shots!Encode(r, 1) /\ pipe' = pipe /\ pipe # "open"
  <2>1. video_data' \in [Shots!Place -> Places] /\ out' \in Seq(Images)
    BY <1>0, <1>6, <1>10, EncodeFacts
  <2> QED
    BY <1>1, <1>2, <1>8, <1>10, <2>1, UnreadInv
<1>11. CASE Shots!Encode(r, 1) /\ pipe' = pipe /\ pipe = "open"
  <2>1. PICK f : f = Shots!Frame
    OBVIOUS
  <2>2. PICK p \in Nat, t \in Nat \ {0} :
              /\ t = IF Shots!Timed THEN Shots!Ticks ELSE 1
              /\ Adds(p .. p + t - 1, f) /\ \A k \in Shots!Due : k < p
              /\ Shots!Timed => \E m \in Nat : Clock(m)'
    BY <1>1, <1>11, <2>1, CaptureMoments
  <2>3. IF mode.lavc THEN d[video_cur].multiplicity = t ELSE t = 1
    BY <1>1, <2>2
  <2>4. Shots!Encode(r, IF mode.lavc THEN r[Shots!Fetch].multiplicity ELSE 1)
    BY <1>1, <1>11
  <2>5. /\ \A v \in Shots!Place : v # video_cur => d[v] = video_data[v]
        /\ d[video_cur].width = video_data[video_cur].width
        /\ Shots!Mapped(d[video_cur]).pixels = Shots!Mapped(video_data[video_cur]).pixels
    BY <1>3
  <2> QED
    BY <1>1, <1>2, <1>4, <1>5, <1>11, <2>1, <2>2, <2>3, <2>4, <2>5, CaptureInv
<1> QED
  BY <1>7, <1>9, <1>10, <1>11

\* A frame that is dropped has no tick, so it is not the first.
LEMMA TooSoonInv == ASSUME ShotsInv, Shots!TooSoon PROVE ShotsInv'
<1>0. ShotsTypeOK
  BY DEF ShotsInv
<1>1. /\ mode.video /\ ~video_done /\ Shots!Timed /\ Shots!Ticks = 0 /\ Shots!Swapped(TRUE)
      /\ UNCHANGED <<video_data, video_cur, video_first, video_done, video_frame_time, pipe, out>>
  BY DEF Shots!TooSoon, Shots!Recording, Shots!ring, Shots!timing
<1>2. ~video_first
  <2>1. SUFFICES ASSUME video_first PROVE FALSE
    OBVIOUS
  <2>2. Shots!FrameTime = now /\ now \in Int
    BY <1>0, <2>1, PicturesAssumption DEF Shots!FrameTime, ShotsTypeOK, Shots!ModeAssumption
  <2> QED
    BY <1>0, <1>1, <2>2, TicksFacts, PicturesAssumption DEF Shots!ModeAssumption
<1>3. /\ video_frame_time' \in Int /\ video_data' \in [Shots!Place -> Places]
      /\ video_frame_time' = Shots!FrameTime + Shots!Ticks * Step
  <2>1. Shots!FrameTime = video_frame_time /\ Step \in Int /\ video_frame_time \in Int
    BY <1>0, <1>2, PicturesAssumption DEF Shots!FrameTime, ShotsTypeOK, Shots!ModeAssumption
  <2> QED
    BY <1>0, <1>1, <2>1 DEF ShotsTypeOK
<1> QED
  BY <1>1, <1>2, <1>3, UncapturedInv

\* A swap within glBegin/glEnd takes its ticks with it.
LEMMA SkippedInv == ASSUME ShotsInv, Shots!Skipped PROVE ShotsInv'
<1>0. ShotsTypeOK
  BY DEF ShotsInv
<1>1. /\ mode.video /\ ~video_done /\ Shots!Swapped(FALSE)
      /\ UNCHANGED <<video_cur, video_first, video_done, pipe, out>>
      /\ video_data' = Shots!Counted \/ video_data' = video_data
      /\ video_frame_time' = IF Shots!Timed THEN Shots!FrameTime + Shots!Ticks * Step ELSE video_frame_time
  BY DEF Shots!Skipped, Shots!Recording
<1>2. video_frame_time' \in Int
  BY <1>0, <1>1, FrameTimeFacts DEF ShotsTypeOK
<1>3. /\ video_data' \in [Shots!Place -> Places]
      /\ \A v \in Shots!Place : /\ video_data'[v].width = video_data[v].width
                                /\ Shots!Mapped(video_data'[v]).pixels = Shots!Mapped(video_data[v]).pixels
      /\ mode.lag > 1 => video_data'[Shots!Fetch] = video_data[Shots!Fetch]
  <2>1. CASE video_data' = video_data
    BY <2>1, <1>0 DEF ShotsTypeOK
  <2>2. CASE video_data' = Shots!Counted
    BY <2>2, <1>0, CountedFacts, FetchFacts
  <2> QED
    BY <1>1, <2>1, <2>2
<1> QED
  BY <1>1, <1>2, <1>3, UncapturedInv
-----------------------------------------------------------------------------
\* A picture is of a swap that the key was pressed before.
LEMMA PictureMoments ==
    ASSUME ShotsTypeOK, ~mode.video, NEW w \in BOOLEAN, Shots!Swapped(w), NEW f, f = Shots!Frame
    PROVE  /\ Shots!Shown' = Shots!Shown \cup IF w /\ keypress_screenshot THEN {f} ELSE {}
           /\ \A k \in Shots!Shown : k \in Nat /\ k < f /\ Shots!Picture(k)' = Shots!Picture(k)
           /\ w => Shots!Picture(f)' = [frame |-> f, size |-> size]
           /\ f \in Nat
<1>1. ~Shots!Timed /\ mode' = mode /\ f \in Nat
  BY SwappedFacts DEF Shots!Timed
<1>2. Adds(IF w THEN {f} ELSE {}, f) /\ \A k \in Shots!Due : k < f
  BY <1>1, UntimedMoments
<1>3. /\ Shots!Due' = Shots!Due \cup IF w THEN {f} ELSE {}
      /\ \A k \in Shots!Due : k \in Nat /\ k < f /\ Shots!Picture(k)' = Shots!Picture(k)
      /\ w => Shots!Picture(f)' = [frame |-> f, size |-> size]
  BY <1>2 DEF Adds
<1>4. Shots!Due = Shots!Ok
  BY <1>1, Untimed
<1>5. \A k \in Shots!Due : swap_history'[k] = swap_history[k]
  BY <1>4, SwappedFacts DEF Shots!Ok
<1>6. swap_history'[f].key = keypress_screenshot
  <2>1. swap_history'[f] = [time |-> now, size |-> size, ok |-> w, key |-> keypress_screenshot]
    BY SwappedFacts
  <2> QED
    BY <2>1
<1>7. /\ Shots!Shown = {k \in Shots!Due : swap_history[k].key}
      /\ Shots!Shown' = {k \in Shots!Due' : swap_history'[k].key}
  BY <1>1 DEF Shots!Shown
<1> QED
  BY <1>1, <1>3, <1>5, <1>6, <1>7

\* Pictures are out as soon as they are taken.
LEMMA PicturesFacts ==
    ASSUME ShotsInv, ~mode.video
    PROVE  /\ pipe = "open" /\ ~video_done /\ mode.lag = 1
           /\ \E e : /\ Enumerates(e, Shots!Shown) /\ Len(e) \in Nat /\ Len(out) = Len(e)
                     /\ \A n \in 1 .. Len(e) : e[n] \in Shots!Shown /\ out[n] = Shots!Picture(e[n])
<1>1. ShotsTypeOK /\ pipe = "open" /\ ~video_done /\ (\E e : Matches(e))
  BY DEF ShotsInv
<1>2. mode.lag = 1
  BY <1>1, PicturesAssumption DEF ShotsTypeOK, Shots!ModeAssumption
<1>3. PICK e : Matches(e)
  BY <1>1
<1>4. /\ Enumerates(e, Shots!Shown) /\ ~(Len(out) < Len(e))
      /\ \A n \in 1 .. Len(out) : n <= Len(e) /\ out[n] = Shots!Picture(e[n])
  BY <1>1, <1>2, <1>3 DEF Matches
<1>5. Len(e) \in Nat /\ Len(out) \in Nat /\ \A n \in 1 .. Len(e) : e[n] \in Shots!Shown
  BY <1>1, <1>4 DEF Enumerates, ShotsTypeOK
<1>6. Len(out) = Len(e)
  <2>1. Len(out) > Len(e) => Len(out) \in 1 .. Len(out)
    BY <1>5
  <2> QED
    BY <2>1, <1>4, <1>5
<1> QED
  BY <1>1, <1>2, <1>4, <1>5, <1>6

\* screenshot_file, if the key was pressed
LEMMA StillInv == ASSUME ShotsInv, Shots!Still \/ Shots!NoStill PROVE ShotsInv'
<1>0. ShotsTypeOK
  BY DEF ShotsInv
<1>1. ~mode.video /\ UNCHANGED <<video_done, video_frame_time, pipe>>
  BY DEF Shots!Still, Shots!NoStill, Shots!timing
<1>2. PICK e : /\ Enumerates(e, Shots!Shown) /\ Len(e) \in Nat /\ Len(out) = Len(e)
               /\ \A n \in 1 .. Len(e) : e[n] \in Shots!Shown /\ out[n] = Shots!Picture(e[n])
  BY <1>1, PicturesFacts
<1>3. pipe = "open" /\ ~video_done /\ mode.lag = 1
  BY <1>1, PicturesFacts
<1>4. PICK f : f = Shots!Frame
  OBVIOUS
<1>5. ASSUME NEW w \in BOOLEAN, Shots!Swapped(w), ~(w /\ keypress_screenshot),
             UNCHANGED <<out, video_data, video_cur>>, video_first' \in BOOLEAN
      PROVE  ShotsInv'
  <2>1. /\ mode' = mode /\ size' \in Size /\ now' \in 0 .. MaxTime /\ keypress_screenshot' \in BOOLEAN
        /\ swap_history' \in Seq(Seen)
    BY <1>0, <1>5, SwappedFacts
  <2>2. ShotsTypeOK'
    BY <1>0, <1>1, <1>5, <2>1 DEF ShotsTypeOK, Shots!Place
  <2>3. /\ Shots!Shown' = Shots!Shown
        /\ \A k \in Shots!Shown : Shots!Picture(k)' = Shots!Picture(k)
    BY <1>0, <1>1, <1>4, <1>5, PictureMoments
  <2>4. Matches(e)'
    <3>1. Enumerates(e, Shots!Shown)'
      BY <1>2, <2>3 DEF Enumerates
    <3>2. \A n \in 1 .. Len(out') : n <= Len(e) /\ out'[n] = Shots!Picture(e[n])'
      BY <1>2, <1>5, <2>3
    <3>3. ~(Len(out') < Len(e))
      BY <1>2, <1>5
    <3> QED
      BY <3>1, <3>2, <3>3 DEF Matches
  <2> QED
    BY <1>1, <1>3, <2>1, <2>2, <2>4 DEF ShotsInv
<1>6. ASSUME Shots!Swapped(TRUE), keypress_screenshot, Shots!Advance, video_first' = FALSE,
             Shots!Encode(Shots!Captured(video_data), 1)
      PROVE  ShotsInv'
  <2>1. /\ mode' = mode /\ size' \in Size /\ now' \in 0 .. MaxTime /\ keypress_screenshot' \in BOOLEAN
        /\ swap_history' \in Seq(Seen)
    BY <1>0, <1>6, SwappedFacts
  <2>2. PICK r : r = Shots!Captured(video_data)
    OBVIOUS
  <2>3. r \in [Shots!Place -> Places]
    BY <1>0, <2>2, CapturedFacts DEF ShotsTypeOK
  <2>4. /\ Shots!Fetch = 0 /\ video_cur = 0 /\ 0 \in Shots!Place /\ video_cur' \in Shots!Place
        /\ Shots!Place' = Shots!Place
    BY <1>0, <1>3, <1>6, <2>1, FetchFacts DEF Shots!Place
  <2>5. /\ r[0].width = size /\ Shots!Mapped(r[0]).pixels = f /\ size # 0
    <3>1. video_data[0] \in Places /\ video_data \in [Shots!Place -> Places]
      BY <1>0, <2>4 DEF ShotsTypeOK
    <3> DEFINE y == Shots!ReadBack(Shots!Prepared(video_data[0]))
    <3>2. y.width = size /\ Shots!Mapped(y).pixels = f
      BY <1>0, <1>4, <3>1, PlaceFacts DEF Shots!Frame
    <3>3. r = [video_data EXCEPT ![0] = y]
      BY <1>1, <2>2, <2>4 DEF Shots!Captured, Shots!Resized
    <3>4. size # 0
      BY <1>0, PicturesAssumption DEF ShotsTypeOK, Shots!ModeAssumption
    <3> HIDE DEF y
    <3> QED
      BY <3>1, <3>2, <3>3, <3>4, <2>4
  <2>6. /\ video_data' \in [Shots!Place -> Places] /\ out' \in Seq(Images)
        /\ Len(out') = Len(out) + 1
        /\ \A n \in 1 .. Len(out) : out'[n] = out[n]
        /\ \A n \in Len(out) + 1 .. Len(out') : out'[n] = [frame |-> f, size |-> size]
    <3>1. Shots!Encode(r, 1)
      BY <1>6, <2>2
    <3> QED
      BY <3>1, <1>0, <2>3, <2>4, <2>5, EncodeFacts
  <2>7. ShotsTypeOK'
    BY <1>0, <1>1, <1>6, <2>1, <2>4, <2>6 DEF ShotsTypeOK
  <2>8. /\ Shots!Shown' = Shots!Shown \cup {f} /\ f \in Nat
        /\ \A k \in Shots!Shown : k < f /\ Shots!Picture(k)' = Shots!Picture(k)
        /\ Shots!Picture(f)' = [frame |-> f, size |-> size]
    BY <1>0, <1>1, <1>4, <1>6, PictureMoments
  <2>9. PICK l : /\ Enumerates(l, Shots!Shown \cup f .. f + 1 - 1) /\ Len(l) = Len(e) + 1
                 /\ \A n \in 1 .. Len(e) : l[n] = e[n]
                 /\ \A n \in Len(e) + 1 .. Len(e) + 1 : l[n] \in f .. f + 1 - 1
    BY <1>2, <2>8, LongerEnumerates
  <2>10. f .. f + 1 - 1 = {f}
    BY <2>8
  <2>11. \A n \in 1 .. Len(l) : out'[n] = Shots!Picture(l[n])'
    <3>1. ASSUME NEW n \in 1 .. Len(l) PROVE out'[n] = Shots!Picture(l[n])'
      <4>1. CASE n <= Len(e)
        <5>1. n \in 1 .. Len(e) /\ l[n] = e[n] /\ e[n] \in Shots!Shown
          BY <3>1, <4>1, <1>2, <2>9
        <5> QED
          BY <5>1, <1>2, <2>6, <2>8
      <4>2. CASE ~(n <= Len(e))
        <5>1. n \in Len(e) + 1 .. Len(e) + 1 /\ n \in Len(out) + 1 .. Len(out')
          BY <3>1, <4>2, <1>2, <2>6, <2>9
        <5>2. l[n] = f
          BY <5>1, <2>9, <2>10
        <5> QED
          BY <5>1, <5>2, <2>6, <2>8
      <4> QED
        BY <4>1, <4>2
    <3> QED
      BY <3>1
  <2>12. Matches(l)'
    <3>1. Enumerates(l, Shots!Shown)'
      BY <2>8, <2>9, <2>10 DEF Enumerates
    <3>2. Len(out') = Len(l) /\ Len(l) \in Nat
      BY <1>2, <2>6, <2>9
    <3>3. /\ \A n \in 1 .. Len(out') : n <= Len(l) /\ out'[n] = Shots!Picture(l[n])'
          /\ ~(Len(out') < Len(l))
      BY <3>2, <2>11
    <3> QED
      BY <3>1, <3>3 DEF Matches
  <2> QED
    BY <1>1, <1>3, <2>1, <2>7, <2>12 DEF ShotsInv
<1>7. CASE Shots!NoStill
  <2>1. Shots!Swapped(TRUE) /\ ~keypress_screenshot /\ UNCHANGED <<out, video_data, video_cur, video_first>>
    BY <1>7 DEF Shots!NoStill, Shots!ring, Shots!timing
  <2> QED
    BY <1>0, <1>5, <2>1 DEF ShotsTypeOK
<1>8. CASE Shots!Still
  <2>1. \/ /\ Shots!Swapped(TRUE) /\ keypress_screenshot /\ Shots!Advance /\ video_first' = FALSE
           /\ Shots!Encode(Shots!Captured(video_data), 1)
        \/ Shots!Swapped(FALSE) /\ UNCHANGED <<out, video_data, video_cur, video_first>>
    BY <1>8 DEF Shots!Still, Shots!ring
  <2> QED
    BY <1>0, <1>5, <1>6, <2>1 DEF ShotsTypeOK
<1> QED
  BY <1>7, <1>8

\* The encoder of a pipe dies: then the property says nothing any more.
LEMMA BreakInv == ASSUME ShotsInv, Shots!Break PROVE ShotsInv'
<1>1. /\ mode.video /\ pipe' # "open"
      /\ UNCHANGED <<mode, now, size, video_data, video_cur, video_first, video_done, video_frame_time,
                     keypress_screenshot, out, swap_history>>
  BY DEF Shots!Break, Shots!ring, Shots!timing
<1>2. ShotsTypeOK'
  BY <1>1 DEF ShotsInv, ShotsTypeOK, Shots!Place
<1> QED
  BY <1>1, <1>2 DEF ShotsInv

\* Nothing is to be seen yet.
LEMMA ShotsInitInv == ASSUME Shots!Init PROVE ShotsInv
<1>1. /\ mode \in Mode /\ now = 0 /\ size \in Size
      /\ video_data = [v \in Shots!Place |-> Shots!Empty] /\ video_cur = 0
      /\ video_first = TRUE /\ video_done = FALSE /\ video_frame_time = 0
      /\ keypress_screenshot \in BOOLEAN /\ pipe = "open" /\ out = <<>> /\ swap_history = <<>>
  BY DEF Shots!Init
<1>2. mode.lag \in Nat \ {0} /\ MaxTime \in Nat
  BY <1>1, PicturesAssumption DEF Shots!ModeAssumption
<1>3. ShotsTypeOK
  <2>1. Shots!Place = 0 .. mode.lag - 1 /\ 0 \in Shots!Place
    BY <1>2 DEF Shots!Place
  <2>2. Shots!Empty \in Places
    BY DEF Shots!Empty, Places, Shots!NoPixels, Shots!NoPbo
  <2>3. video_data \in [Shots!Place -> Places]
    BY <1>1, <2>2
  <2>4. swap_history \in Seq(Seen) /\ out \in Seq(Images)
    BY <1>1
  <2>5. now \in 0 .. MaxTime /\ video_cur \in Shots!Place /\ video_frame_time \in Int
    BY <1>1, <1>2, <2>1
  <2>6. video_first \in BOOLEAN /\ video_done \in BOOLEAN
    BY <1>1
  <2> QED
    BY <1>1, <2>3, <2>4, <2>5, <2>6, Zenon DEF ShotsTypeOK
<1>4. Shots!Ok = {} /\ Shots!Due = {} /\ Shots!Shown = {}
  <2>1. Shots!Ok = {}
    BY <1>1 DEF Shots!Ok
  <2> QED
    BY <2>1 DEF Shots!Due, Shots!Moments, Shots!Shown
<1>5. Recorded
  BY <1>1, <1>4 DEF Recorded, Shots!Empty
<1>6. Matches(<<>>)
  BY <1>1, <1>4 DEF Matches, Enumerates
<1> QED
  BY <1>1, <1>3, <1>5, <1>6 DEF ShotsInv

\* Every step keeps the invariant.
LEMMA ShotsNextInv == ASSUME ShotsInv, [Shots!Next]_Shots!vars PROVE ShotsInv'
<1>1. CASE Shots!Next
  BY <1>1, TooSoonInv, SkippedInv, VideoInv, StreamInv, StillInv, BreakInv DEF Shots!Next
<1>2. CASE UNCHANGED Shots!vars
  <2>1. UNCHANGED <<mode, now, size, video_data, video_cur, video_first, video_done, video_frame_time,
                    keypress_screenshot, pipe, out, swap_history>>
    BY <1>2 DEF Shots!vars, Shots!ring, Shots!timing
  <2>2. /\ Shots!Ok' = Shots!Ok /\ Shots!Place' = Shots!Place /\ Shots!Fetch' = Shots!Fetch
        /\ (Shots!Timed' <=> Shots!Timed)
    BY <2>1 DEF Shots!Ok, Shots!Place, Shots!Fetch, Shots!Timed
  <2>3. Shots!Start' = Shots!Start /\ FirstSeen' = FirstSeen
    BY <2>1, <2>2 DEF Shots!Start, FirstSeen
  <2>4. \A k : Shots!AtTick(k)' = Shots!AtTick(k)
    BY <2>1, <2>3 DEF Shots!AtTick
  <2>5. Shots!Moments' = Shots!Moments
    BY <2>1, <2>2, <2>4 DEF Shots!Moments
  <2>6. \A k : Shots!SwapOf(k)' = Shots!SwapOf(k)
    BY <2>2, <2>4 DEF Shots!SwapOf
  <2>7. \A k : Shots!Picture(k)' = Shots!Picture(k)
    BY <2>1, <2>6 DEF Shots!Picture
  <2>8. Shots!Due' = Shots!Due
    BY <2>1, <2>5, <2>6 DEF Shots!Due
  <2>9. Shots!Shown' = Shots!Shown
    BY <2>1, <2>3, <2>7, <2>8 DEF Shots!Shown, FirstSeen
  <2>10. ShotsTypeOK => ShotsTypeOK'
    BY <2>1, <2>2 DEF ShotsTypeOK
  <2>11. \A e : Matches(e) => Matches(e)'
    BY <2>1, <2>6, <2>7, <2>9 DEF Matches, Enumerates
  <2>12. \A n : Clock(n) => Clock(n)'
    BY <2>1, <2>3, <2>5 DEF Clock
  <2>13. Pending' = Pending
    BY <2>1, <2>2 DEF Pending
  <2>14. Shots!Mapped(video_data[Shots!Fetch])' = Shots!Mapped(video_data[Shots!Fetch])
    BY <2>1, <2>2 DEF Shots!Mapped
  <2>15. \A e : Encoding(e) => Encoding(e)'
    BY <2>1, <2>2, <2>3, <2>6, <2>7, <2>13, <2>14 DEF Encoding
  <2>16. \A e : Enumerates(e, Shots!Due) => Enumerates(e, Shots!Due)'
    BY <2>8 DEF Enumerates
  <2>17. Recorded => Recorded'
    BY <2>1, <2>2, <2>3, <2>7, <2>8, <2>12, <2>15, <2>16 DEF Recorded
  <2> QED
    BY <2>1, <2>10, <2>11, <2>17 DEF ShotsInv
<1> QED
  BY <1>1, <1>2

(* Whatever the swaps, their times and sizes, the keys, the ring, and the failures of mapping,
   of capturing and of the pipe: what is not out yet of what is to be seen is in the ring. *)
THEOREM ShotsInvariant == Shots!Spec => []ShotsInv
<1>1. Shots!Init => ShotsInv
  BY ShotsInitInv
<1>2. ShotsInv /\ [Shots!Next]_Shots!vars => ShotsInv'
  BY ShotsNextInv
<1> QED
  BY <1>1, <1>2, PTL DEF Shots!Spec

\* All is well if the moments that are shown match what is out.
LEMMA MatchesFollows == ASSUME ShotsTypeOK, NEW e, Matches(e) PROVE Shots!VideoFollowsTime
<1>1. /\ Enumerates(e, Shots!Shown) /\ Len(e) \in Nat /\ Len(out) \in Nat /\ DOMAIN out = 1 .. Len(out)
      /\ mode.lag \in Nat \ {0}
      /\ \A n \in 1 .. Len(e) : e[n] \in Shots!Shown
      /\ \A k \in Shots!Shown : \E n \in 1 .. Len(e) : e[n] = k
  BY FetchFacts DEF Matches, Enumerates, ShotsTypeOK
<1>2. /\ \A n \in 1 .. Len(e) : Shots!Rank(e[n]) = n
      /\ Shots!Cardinality(Shots!Shown) = Len(e)
  BY <1>1, RankOf DEF Shots!Rank
<1>3. ASSUME NEW k \in Shots!Shown, Shots!Rank(k) <= Len(out) PROVE out[Shots!Rank(k)] = Shots!Picture(k)
  <2>1. PICK n \in 1 .. Len(e) : e[n] = k
    BY <1>1
  <2>2. Shots!Rank(k) = n /\ n \in 1 .. Len(out)
    BY <2>1, <1>1, <1>2, <1>3
  <2>3. out[n] = Shots!Picture(e[n])
    BY <2>2, <1>1 DEF Matches
  <2> QED
    BY <2>1, <2>2, <2>3
<1>4. ASSUME NEW n \in DOMAIN out, n > Shots!Cardinality(Shots!Shown)
      PROVE  /\ video_done
             /\ \E k \in Shots!Shown : Shots!Rank(k) = Shots!Cardinality(Shots!Shown) /\ out[n] = Shots!Picture(k)
  <2>1. video_done /\ Len(e) > 0 /\ out[n] = Shots!Picture(e[Len(e)])
    BY <1>1, <1>2, <1>4 DEF Matches
  <2>2. Len(e) \in 1 .. Len(e)
    BY <2>1, <1>1
  <2> QED
    BY <2>1, <2>2, <1>1, <1>2
<1> DEFINE S == {Shots!SwapOf(k) : k \in {j \in Shots!Shown : Shots!Rank(j) > Len(out)}}
<1>5. Shots!Cardinality(S) < mode.lag
  <2>1. \A x \in S : \E n \in Len(out) + 1 .. Len(e) : x = Shots!SwapOf(e[n])
    <3>1. ASSUME NEW k \in Shots!Shown, Shots!Rank(k) > Len(out)
          PROVE  \E n \in Len(out) + 1 .. Len(e) : Shots!SwapOf(k) = Shots!SwapOf(e[n])
      <4>1. PICK n \in 1 .. Len(e) : e[n] = k
        BY <3>1, <1>1
      <4>2. n \in Len(out) + 1 .. Len(e)
        BY <4>1, <3>1, <1>1, <1>2
      <4> QED
        BY <4>1, <4>2
    <3> QED
      BY <3>1
  <2>2. CASE S = {}
    <3>1. Shots!Cardinality(S) = 0
      BY <2>2, SameSize, FS_EmptySet
    <3> QED
      BY <3>1, <1>1
  <2>3. CASE S # {}
    <3>1. Len(out) < Len(e)
      <4>1. PICK x : x \in S
        BY <2>3
      <4>2. PICK n \in Len(out) + 1 .. Len(e) : x = Shots!SwapOf(e[n])
        BY <4>1, <2>1
      <4> QED
        BY <4>2, <1>1
    <3>2. mode.lag > 1 /\ \A n \in Len(out) + 1 .. Len(e) : Shots!SwapOf(e[n]) = Shots!SwapOf(e[Len(e)])
      BY <3>1 DEF Matches
    <3>3. S = {Shots!SwapOf(e[Len(e)])}
      BY <2>1, <2>3, <3>2
    <3> HIDE DEF S
    <3>4. Cardinality(S) = 1
      BY <3>3, FS_Singleton
    <3>5. Shots!Cardinality(S) = 1
      BY <3>4, SameSize
    <3> QED
      BY <3>2, <3>5
  <2> QED
    BY <2>2, <2>3
<1> QED
  BY <1>3, <1>4, <1>5 DEF Shots!VideoFollowsTime

\* A recording matches too, as long as it has its first size.
LEMMA RecordedMatches == ASSUME ShotsInv, pipe = "open" PROVE \E e : Matches(e)
<1>1. CASE mode.video /\ ~video_done
  <2>1. PICK e : /\ Enumerates(e, Shots!Due) /\ Len(e) \in Nat /\ Len(out) \in Nat
                 /\ \A k \in Shots!Due : Shots!Picture(k).size = FirstSeen.size
                 /\ \A n \in 1 .. Len(out) : out[n] = Shots!Picture(e[n])
                 /\ video_first => e = <<>> /\ Len(out) = 0
                 /\ ~video_first => Encoding(e)
    BY <1>1, RecordedFacts
  <2>2. Shots!Shown = Shots!Due
    BY <1>1, <2>1, ShownFacts
  <2>3. CASE video_first
    <3>1. Len(e) = 0 /\ Len(out) = 0
      BY <2>1, <2>3
    <3>2. Matches(e)
      BY <3>1, <2>1, <2>2 DEF Matches
    <3> QED
      BY <3>2
  <2>4. CASE ~video_first
    <3>1. /\ Len(e) = Len(out) + Pending
          /\ \A n \in Len(out) + 1 .. Len(e) : Shots!SwapOf(e[n]) = Shots!SwapOf(e[Len(e)])
      BY <2>1, <2>4 DEF Encoding
    <3>2. ShotsTypeOK /\ mode.lag \in Nat \ {0} /\ Shots!Fetch \in Shots!Place
      BY FetchFacts DEF ShotsInv
    <3>3. Pending \in Nat /\ (mode.lag = 1 => Pending = 0)
      BY <3>2 DEF Pending, ShotsTypeOK, Places
    <3>4. \A n \in 1 .. Len(out) : n <= Len(e)
      BY <3>1, <3>3, <2>1
    <3>5. Len(out) < Len(e) => mode.lag > 1
      BY <3>1, <3>2, <3>3, <2>1
    <3>6. Matches(e)
      BY <3>1, <3>4, <3>5, <2>1, <2>2 DEF Matches
    <3> QED
      BY <3>6
  <2> QED
    BY <2>3, <2>4
<1>2. CASE ~(mode.video /\ ~video_done)
  BY <1>2 DEF ShotsInv
<1> QED
  BY <1>1, <1>2

(* A video shows at each moment the frame that it should, once and in order, and is behind by
   fewer frames than the ring is long; a picture is of the swap after its key (do_screenshot,
   screenshot_video, screenshot_stream, screenshot_file). *)
THEOREM ShotsFollowTime == Shots!Spec => []VideoFollowsTime
<1>1. ShotsInv => VideoFollowsTime
  <2>1. CASE pipe # "open"
    BY <2>1 DEF VideoFollowsTime, Shots!VideoFollowsTime
  <2>2. ASSUME ShotsInv, pipe = "open" PROVE Shots!VideoFollowsTime
    <3>1. PICK e : Matches(e)
      BY <2>2, RecordedMatches
    <3> QED
      BY <2>2, <3>1, MatchesFollows DEF ShotsInv
  <2> QED
    BY <2>1, <2>2 DEF VideoFollowsTime
<1> QED
  BY <1>1, ShotsInvariant, PTL
=============================================================================
